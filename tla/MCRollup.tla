------------------------------ MODULE MCRollup ------------------------------
(***************************************************************************)
(* Instances of Rollup for TLC.                                            *)
(***************************************************************************)
EXTENDS Rollup

OneLoop == {"loop"}

RollupEvents == {"operator", "crash", "manual", "drop", "redeliver"}
=============================================================================
