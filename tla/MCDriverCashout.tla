-------------------------- MODULE MCDriverCashout --------------------------
(* Small instances of DriverCashout for TLC.                               *)
EXTENDS DriverCashout, TLC

(* Requests are interchangeable.                                           *)
Symmetry == Permutations(Proc)

=============================================================================
