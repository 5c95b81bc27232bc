---------------------------- MODULE MCShopFront ----------------------------
(* A small catalogue for TLC: a local shop and a foreign one, both open,   *)
(* and a closed one; two products of the first, one of the second.         *)
EXTENDS ShopFront, TLC

CONSTANTS s1, s2, s3, p1, p2, p3, c1, c2

MCShop       == {s1, s2, s3}
MCProduct    == {p1, p2, p3}
MCCategory   == {c1, c2}
MCShopList   == <<s1, s3, s2>>
MCOpen       == {s1, s2}
MCMine       == {s1, s3}
MCStoreOf    == (p1 :> s1) @@ (p2 :> s1) @@ (p3 :> s2)
MCCategoryOf == (p1 :> c1) @@ (p2 :> c2) @@ (p3 :> c1)
MCFound      == {s1, p1}
=============================================================================
