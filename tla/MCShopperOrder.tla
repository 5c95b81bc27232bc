--------------------------- MODULE MCShopperOrder ---------------------------
(* Small instances of ShopperOrder for TLC.                                *)
EXTENDS ShopperOrder, TLC

(* Requests and references are interchangeable.                            *)
Symmetry == Permutations(Proc) \cup Permutations(Ref)

=============================================================================
