------------------------------- MODULE MCWeb -------------------------------
(***************************************************************************)
(* Instances of Web for TLC.                                               *)
(***************************************************************************)
EXTENDS Web, TLC

CONSTANTS t1, t2, b1, b2, k1, k2, c1, c2

TwoTabs     == {t1, t2}
TwoBrowsers == {b1, b2}
TwoKeys     == {k1, k2}
TwoCalls    == {c1, c2}
TwoKinds    == {"deposit", "prove"}

WebSymmetry == Permutations(Tabs) \cup Permutations(Browsers)
                   \cup Permutations(Keys) \cup Permutations(Calls)
=============================================================================
