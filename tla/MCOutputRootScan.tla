-------------------------- MODULE MCOutputRootScan --------------------------
(***************************************************************************)
(* An instance of OutputRootScan for TLC: the windows of the two scans     *)
(* have different lengths, and neither divides the distance from the tip   *)
(* to the deployment at every height.                                      *)
(***************************************************************************)
EXTENDS OutputRootScan

RootCalls     == {"roots"}
PositionCalls == {"position"}
=============================================================================
