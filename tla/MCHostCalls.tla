---------------------------- MODULE MCHostCalls ----------------------------
(* HostCalls for TLC: two threads, numbered so that static shares are contiguous. *)
EXTENDS HostCalls

\* The first threads of the team get one iteration more.
MCShare(th, n) ==
  LET size == Cardinality(Threads)
      first(i) == i * (n \div size) + Min({i, n % size})
  IN  first(th)..(first(th + 1) - 1)

\* All tokens at the same experts, or spread; one expert is never chosen first.
MCRoutings ==
  {[t \in 1..MaxTokens |-> <<0, 1>>],
   [t \in 1..MaxTokens |-> IF t % 2 = 0 THEN <<0, 1>> ELSE <<2, 1>>]}
============================================================================
