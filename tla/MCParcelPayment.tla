-------------------------- MODULE MCParcelPayment --------------------------
(* Small instances of ParcelPayment for TLC.                               *)
EXTENDS ParcelPayment, TLC

(* Requests, references and assignment ids are interchangeable.            *)
Symmetry == Permutations(Proc) \cup Permutations(Ref)
              \cup Permutations(Assignment) \cup Permutations(Order)

=============================================================================
