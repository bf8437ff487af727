------------------------- MODULE MCShadowPipeline -------------------------
(***************************************************************************)
(* ShadowPipeline for TLC: a small model whose every partition is checked, *)
(* and the layer layout of DeepSeek V4.1 under the partition the pruned    *)
(* model is served with (src/serve).                                       *)
(***************************************************************************)
EXTENDS ShadowPipeline, Sequences

\* Every way to cut the layers into non-empty ranks.
AllCuts ==
  {c \in [0..NumRanks -> 0..NumLayers] :
     c[0] = 0 /\ c[NumRanks] = NumLayers /\ \A r \in 1..NumRanks : c[r - 1] < c[r]}

\* Two KV groups; the second has an index source without keys of its own.
SmallCompressed == 1..7
SmallKv == {1, 4}
SmallIndex == {1, 4, 6}

\* config.json of DeepSeek V4.1: layers 0 and 1 are sliding-window only.
V41Compressed == 2..39
V41Kv == {2, 8, 14, 20}
V41Index == {2, 8, 14, 20, 24, 28, 32, 36}

CutOf(s) == [r \in 0..Len(s) |-> IF r = 0 THEN 0 ELSE s[r]]

\* run-dsv41reap-pp4.sh: 10,10,10,10.
ReapCut == {CutOf(<<10, 20, 30, 40>>)}
===========================================================================
