-------------------------- MODULE MCParcelDispatch --------------------------
(* Small instances of ParcelDispatch for TLC.                              *)
EXTENDS ParcelDispatch, TLC

(* Drivers, assignments, workers and requests are interchangeable.         *)
Symmetry == Permutations(Driver) \cup Permutations(Assignment)
              \cup Permutations(Worker) \cup Permutations(Proc)

=============================================================================
