-------------------------- MODULE MCPipelineEngine --------------------------
(***************************************************************************)
(* PipelineEngine for TLC: the requests of the runs.  Prompt lengths are   *)
(* chosen around the token budget, so that prompts are chunked, share a    *)
(* batch or fill one exactly, and the KV pool is smaller than what the     *)
(* requests need together.                                                 *)
(***************************************************************************)
EXTENDS PipelineEngine

CONSTANTS r1, r2, r3, va, vb, eos

\* Decodes that alternate in the pipeline and outgrow the pool.
PreemptPrompt == (r1 :> 3) @@ (r2 :> 2)
PreemptMax == (r1 :> 4) @@ (r2 :> 3)

\* The same with fewer tokens, for runs that also reset or sample freely.
ResetPrompt == (r1 :> 3) @@ (r2 :> 2)
ResetMax == (r1 :> 2) @@ (r2 :> 2)

\* A prompt in two chunks, a one-token prompt (padded) and a queue to wait in.
ServePrompt == (r1 :> 4) @@ (r2 :> 1) @@ (r3 :> 1)
ServeMax == (r1 :> 1) @@ (r2 :> 2) @@ (r3 :> 1)

\* Two prompts that fill a batch each, so that a victim has output in flight.
LivePrompt == (r1 :> 3) @@ (r2 :> 3)
LiveMax == (r1 :> 2) @@ (r2 :> 2)
=============================================================================
