------------------------------- MODULE Basket -------------------------------
(***************************************************************************)
(* What the app's cart promises whatever screen touches it: a bag of       *)
(* products that changes by one piece at a time, or is emptied whole.      *)
(***************************************************************************)
EXTENDS Naturals

CONSTANT Product

VARIABLE bag       \* bag[p]: how many pieces of p the user has put in

Init == bag = [p \in Product |-> 0]

Put(p)  == bag' = [bag EXCEPT ![p] = @ + 1]
Take(p) == bag[p] > 0 /\ bag' = [bag EXCEPT ![p] = @ - 1]
Empty   == bag' = [p \in Product |-> 0]

Next == Empty \/ \E p \in Product : Put(p) \/ Take(p)

Spec == Init /\ [][Next]_bag

=============================================================================
