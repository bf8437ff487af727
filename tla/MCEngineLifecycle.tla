------------------------- MODULE MCEngineLifecycle -------------------------
(* EngineLifecycle for TLC. *)
EXTENDS EngineLifecycle

CONSTANTS r1, r2

Pause(mode, clear, sleep) == [mode |-> mode, clear |-> clear, sleep |-> sleep]

\* Every mode; a reset of the caches and sleep where requests are left running.
MCPauses == {Pause("abort", FALSE, FALSE), Pause("wait", FALSE, FALSE), Pause("keep", TRUE, TRUE)}
=============================================================================
