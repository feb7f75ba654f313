----------------------------- MODULE BlockStream -----------------------------
(***************************************************************************)
(* What the batcher and the deriver promise together, seen from outside:   *)
(* the blocks of L3 come out of L1 once each and in their order, starting  *)
(* after the block of the output root, and every block whose channel L1    *)
(* holds comes out in the end.                                             *)
(***************************************************************************)
EXTENDS Integers

VARIABLES
    published,    \* the newest block in a channel that is complete on L1
    delivered     \* the newest block handed over

streamVars == <<published, delivered>>

StreamInit == published = 1 /\ delivered = 1

Publish == /\ published' \in Nat
           /\ published' > published
           /\ UNCHANGED delivered

Deliver == /\ delivered < published
           /\ delivered' = delivered + 1
           /\ UNCHANGED published

StreamSpec == StreamInit /\ [][Publish \/ Deliver]_streamVars

\* The reader catches up again and again.
CatchesUp == []<>(delivered = published)
=============================================================================
