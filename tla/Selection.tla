----------------------------- MODULE Selection ------------------------------
(***************************************************************************)
(* What a loop keeps of a sequence.  It is given by rank, not by recursion *)
(* as SelectSeq is, so that it can be reasoned about.                      *)
(***************************************************************************)
EXTENDS Integers, FiniteSets

\* The members of s at the places in S, in their order.
Chosen(s, S) ==
    LET Rank(n) == Cardinality({m \in S : m <= n})
    IN  [k \in 1 .. Cardinality(S) |-> s[CHOOSE n \in S : Rank(n) = k]]
=============================================================================
