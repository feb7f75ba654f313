----------------------------- MODULE MCPipeline -----------------------------
(***************************************************************************)
(* Instances of Pipeline for TLC.                                          *)
(***************************************************************************)
EXTENDS Pipeline

\* Channels of one to three blocks and of one to three frames.
MixedSize == [b \in Block |-> IF b % 3 = 0 THEN 3 ELSE 1]

OneCall == {"c1"}

One == {1}
Two == {1, 2}
=============================================================================
