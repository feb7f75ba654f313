----------------------------- MODULE MCProposer -----------------------------
(***************************************************************************)
(* Instances of Proposer for TLC.                                          *)
(***************************************************************************)
EXTENDS Proposer, TLC

CONSTANTS l1, l2

OneLoop  == {l1}
TwoLoops == {l1, l2}

SingleEvents   == {"redeliver"}
OperatorEvents == EventNames \ {"redeliver"}

\* Calls of proposeStart are interchangeable.
LoopSymmetry == Permutations(Loops)
=============================================================================
