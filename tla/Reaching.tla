------------------------------ MODULE Reaching ------------------------------
(***************************************************************************)
(* What can be reached along the edges of a finite graph: next gives the   *)
(* neighbours of every node, and n is at least the number of nodes.        *)
(***************************************************************************)
EXTENDS Naturals

ReachedFrom(start, next, n) ==
  LET Within[k \in 0..n] ==
        IF k = 0 THEN start
        ELSE LET prev == Within[k - 1] IN prev \cup UNION {next[b] : b \in prev}
  IN Within[n]
=============================================================================
