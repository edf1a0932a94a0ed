---------------------------- MODULE MCUsageStore ----------------------------
(* Two requests of one token and one of another; see UsageStore.cfg. *)
EXTENDS UsageStore, TLC

CONSTANTS r1, r2, r3, ours, theirs, q1

MCTokenOf == r1 :> ours @@ r2 :> theirs @@ r3 :> ours

=============================================================================
