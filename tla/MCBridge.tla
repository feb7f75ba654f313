------------------------------ MODULE MCBridge ------------------------------
(***************************************************************************)
(* An instance of Bridge for TLC: the deposits add up to the withdrawals,  *)
(* so that the portal can be emptied, and one withdrawal is more than one  *)
(* deposit.                                                                *)
(***************************************************************************)
EXTENDS Bridge

MCDeposits    == {"d1", "d2"}
MCWithdrawals == {"w1", "w2"}
MCRequests    == {"q1", "q2"}
MCAmount      == [x \in MCDeposits \cup MCWithdrawals |->
                     IF x \in {"d2", "w2"} THEN 2 ELSE 1]
=============================================================================
