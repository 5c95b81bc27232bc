--------------------------- MODULE CashoutLedger ---------------------------
(***************************************************************************)
(* What a driver's cashouts promise, without requests, locks or reads: an  *)
(* account that earns, is drawn on only as far as it has earned, and gets  *)
(* back what is rejected.                                                  *)
(***************************************************************************)
EXTENDS Naturals

CONSTANT Driver

VARIABLES
  earned,    \* earned[d]: all d has earned
  withdrawn  \* withdrawn[d]: what d has asked for and was not refused

ledger == <<earned, withdrawn>>

LInit ==
  /\ earned = [d \in Driver |-> 0]
  /\ withdrawn = [d \in Driver |-> 0]

Earn(d) ==
  /\ earned'[d] > earned[d]
  /\ earned' = [earned EXCEPT ![d] = earned'[d]]
  /\ UNCHANGED withdrawn

Withdraw(d) ==
  /\ withdrawn'[d] > withdrawn[d]
  /\ withdrawn'[d] <= earned[d]
  /\ withdrawn' = [withdrawn EXCEPT ![d] = withdrawn'[d]]
  /\ UNCHANGED earned

GiveBack(d) ==
  /\ withdrawn'[d] < withdrawn[d]
  /\ withdrawn' = [withdrawn EXCEPT ![d] = withdrawn'[d]]
  /\ UNCHANGED earned

LNext == \E d \in Driver : Earn(d) \/ Withdraw(d) \/ GiveBack(d)

LSpec == LInit /\ [][LNext]_ledger

=============================================================================
