----------------------------- MODULE DurableLog -----------------------------
(***************************************************************************)
(* What the capture directory promises, whatever the days, files, clocks   *)
(* and compression runs below: an item that is logged stays until a power  *)
(* loss, a power loss takes only items that were not yet kept, an item     *)
(* once kept is never lost, and every logged item is kept in the end       *)
(* unless a power loss takes it first.                                     *)
(***************************************************************************)
CONSTANT Items
VARIABLES logged, kept

Init == logged = {} /\ kept = {}

Log(i) == i \notin logged /\ logged' = logged \cup {i} /\ UNCHANGED kept

Keep == kept' \in SUBSET logged /\ kept \subseteq kept' /\ UNCHANGED logged

Lose == logged' = kept /\ UNCHANGED kept

Next == Keep \/ Lose \/ \E i \in Items : Log(i)

Safety == Init /\ [][Next]_<<logged, kept>>

Liveness == \A i \in Items : i \in logged ~> i \in kept \/ i \notin logged

Spec == Safety /\ Liveness
=============================================================================
