--------------------------- MODULE ShopFrontProofs ---------------------------
(***************************************************************************)
(* Proofs about ShopFront, for any catalogue and any bound on the cart and *)
(* the calls under way: the screens' state has its type, every line of the *)
(* cart names the shop that sells its product, the cart is a basket, and   *)
(* the list of Shops shows everything that was found once.                 *)
(*                                                                         *)
(* What a fold computes is proved by looking for a least counterexample:   *)
(* an induction stated as a fact about a set (UpTo) has no operator as its *)
(* parameter.                                                              *)
(***************************************************************************)
EXTENDS ShopFront, FiniteSetTheorems, SequenceTheorems, WellFoundedInduction, TLAPS

(* The cart is a function to lines, and cartCount the pieces in it.        *)
CartHolds == cart \in [Product -> Line] /\ count = Pieces(cart)

(* The menu of a shop, and the product that is open, are that shop's.      *)
DetailHolds ==
  /\ detail \in DetailState
  /\ \A p \in detail.menu \cup {detail.product} : p # None => StoreOf[p] = detail.shop

(* What the cart suggests is offered under the shop that sells it.         *)
BasketHolds ==
  /\ basket \in BasketState
  /\ \A x \in basket.suggested : x.store = StoreOf[x.id]

StackHolds == stack \in Seq(Screen) /\ stack # <<>>

FrontInv ==
  /\ StackHolds /\ CartHolds /\ shops \in ShopsState /\ DetailHolds /\ BasketHolds
  /\ LinesNameTheirShop

-----------------------------------------------------------------------------
(* Sums.                                                                   *)

(* A set of numbers has a least one.                                       *)
LEMMA LeastNumber ==
  ASSUME NEW T \in SUBSET Nat, T # {}
  PROVE  \E n \in T : \A m \in T : n <= m
<1>1. PICK n \in T : \A m \in T : <<m, n>> \notin OpToRel(<, Nat)
  BY NatLessThanWellFounded, WFMin
<1>2. \A m \in T : ~(m < n)
  BY <1>1 DEF OpToRel
<1> QED
  BY <1>2

(* Numbers that are all zero add up to zero.                               *)
LEMMA SumOfNothing == Pieces([p \in Product |-> Absent]) = 0
<1> DEFINE f == [p \in Product |-> 0]
           pick(s) == CHOOSE x \in s : TRUE
           eqn(g) == g = [s \in SUBSET Product |->
                     IF s = {} THEN 0 ELSE f[pick(s)] + g[s \ {pick(s)}]]
           iter == CHOOSE g : eqn(g)
<1>1. Pieces([p \in Product |-> Absent]) = SumFunction(f)
  BY DEF Pieces, Absent
<1>2. SumFunction(f) = iter[Product]
  BY DEF SumFunction, SumFunctionOnSet, FoldFunctionOnSet, MapThenFoldSet
<1>3. eqn(iter)
  <2> DEFINE z == [s \in SUBSET Product |-> 0]
  <2>1. \A s \in SUBSET Product : s # {} => pick(s) \in Product /\ s \ {pick(s)} \in SUBSET Product
    OBVIOUS
  <2> HIDE DEF pick
  <2>2. eqn(z)
    BY <2>1
  <2> HIDE DEF eqn
  <2> QED
    BY <2>2
<1>4. \A s \in SUBSET Product : s # {} => pick(s) \in s
  OBVIOUS
<1> HIDE DEF iter, pick
<1>5. iter[{}] = 0
  BY <1>3
<1>6. \A s \in SUBSET Product : s # {} => iter[s] = 0 + iter[s \ {pick(s)}]
  BY <1>3, <1>4
<1> HIDE DEF eqn
<1> DEFINE bad == {s \in SUBSET Product : iter[s] # 0}
<1>7. SUFFICES ASSUME bad # {}
               PROVE  FALSE
  BY <1>1, <1>2
<1>8. IsWellFoundedOn(StrictSubsetOrdering(Product), SUBSET Product)
  BY FS_StrictSubsetOrderingWellFounded, FS_FiniteSubsetsOfFinite, CatalogAssumption
<1>9. PICK s \in bad : \A t \in bad : <<t, s>> \notin StrictSubsetOrdering(Product)
  <2> HIDE DEF bad
  <2>1. bad \subseteq SUBSET Product
    BY DEF bad
  <2> QED
    BY <1>7, <1>8, <2>1, WFMin
<1>10. s # {}
  BY <1>5, <1>9
<1>11. s \ {pick(s)} \notin bad
  BY <1>4, <1>9, <1>10 DEF StrictSubsetOrdering
<1> QED
  BY <1>6, <1>9, <1>10, <1>11

-----------------------------------------------------------------------------
(* The cart.                                                               *)

(* A piece of p goes in, under the shop that sells it; a piece of p goes   *)
(* in or out of a line that is there; everything goes out.                 *)
PutNew(p)  == AddToCart(p, StoreOf[p])
PutMore(p) == InCart(p) /\ UpdateQuantity(p, cart[p].qty + 1)
TakeOne(p) == InCart(p) /\ UpdateQuantity(p, cart[p].qty - 1)

CartStep ==
  \/ UNCHANGED <<cart, count>> \/ ClearCart
  \/ \E p \in Product : PutNew(p) \/ PutMore(p) \/ TakeOne(p)

(* A cart with one line rewritten.                                         *)
LEMMA OneLine ==
  ASSUME FrontInv, NEW p \in Product, NEW l \in Line,
         cart' = [cart EXCEPT ![p] = l], count' = Pieces(cart'),
         l.qty > 0 => l.store = StoreOf[p],
         \/ l.qty = cart[p].qty + 1
         \/ cart[p].qty > 0 /\ l.qty = cart[p].qty - 1
  PROVE  CartHolds' /\ LinesNameTheirShop' /\ [Abstract!Next]_cart
<1>1. cart \in [Product -> Line] /\ LinesNameTheirShop
  BY DEF FrontInv, CartHolds
<1>2. cart' \in [Product -> Line]
  BY <1>1
<1>3. LinesNameTheirShop'
  BY <1>1 DEF LinesNameTheirShop, Lines
<1>4. [q \in Product |-> cart'[q].qty] = [[q \in Product |-> cart[q].qty] EXCEPT ![p] = l.qty]
  BY <1>1
<1>5. Abstract!Put(p) \/ Abstract!Take(p)
  BY <1>1, <1>4 DEF Abstract!Put, Abstract!Take
<1> QED
  BY <1>2, <1>3, <1>5 DEF CartHolds, Abstract!Next

(* A step of the cart keeps what holds of it, and is one of a basket.      *)
LEMMA CartStepHolds ==
  ASSUME FrontInv, CartStep
  PROVE  /\ CartHolds' /\ LinesNameTheirShop'
         /\ Abstract!Next \/ UNCHANGED [p \in Product |-> cart[p].qty]
<1>1. /\ cart \in [Product -> Line] /\ count = Pieces(cart) /\ LinesNameTheirShop
      /\ \A p \in Product : StoreOf[p] \in Shop
  BY CatalogAssumption DEF FrontInv, CartHolds
<1>2. CASE UNCHANGED <<cart, count>>
  BY <1>1, <1>2 DEF CartHolds, LinesNameTheirShop, Lines
<1>3. CASE ClearCart
  <2>1. cart' = [p \in Product |-> Absent] /\ count' = Pieces(cart')
    BY <1>3 DEF ClearCart, WriteCart
  <2>2. CartHolds' /\ LinesNameTheirShop'
    BY <2>1 DEF CartHolds, LinesNameTheirShop, Lines, Line, Absent
  <2>3. [p \in Product |-> cart'[p].qty] = [p \in Product |-> 0]
    BY <2>1 DEF Absent
  <2> QED
    BY <2>2, <2>3 DEF Abstract!Next, Abstract!Empty
<1>4. ASSUME NEW p \in Product, PutNew(p)
      PROVE  CartHolds' /\ LinesNameTheirShop' /\ [Abstract!Next]_cart
  <2>1. CASE InCart(p)
    <3> DEFINE l == [qty |-> cart[p].qty + 1, store |-> cart[p].store]
    <3>1. l \in Line /\ l.qty = cart[p].qty + 1 /\ l.store = StoreOf[p]
      BY <1>1, <2>1 DEF Line, Absent, InCart, LinesNameTheirShop, Lines
    <3>2. cart' = [cart EXCEPT ![p] = l] /\ count' = Pieces(cart')
      BY <1>4, <2>1 DEF PutNew, AddToCart, WriteCart
    <3> HIDE DEF l
    <3> QED
      BY <3>1, <3>2, OneLine
  <2>2. CASE ~InCart(p)
    <3> DEFINE l == [qty |-> 1, store |-> StoreOf[p]]
    <3>1. l \in Line /\ l.qty = cart[p].qty + 1 /\ l.store = StoreOf[p]
      BY <1>1, <2>2 DEF Line, Absent, InCart
    <3>2. cart' = [cart EXCEPT ![p] = l] /\ count' = Pieces(cart')
      BY <1>4, <2>2 DEF PutNew, AddToCart, WriteCart
    <3> HIDE DEF l
    <3> QED
      BY <3>1, <3>2, OneLine
  <2> QED
    BY <2>1, <2>2
<1>5. ASSUME NEW p \in Product, NEW q \in Nat, InCart(p), UpdateQuantity(p, q),
             q = cart[p].qty + 1 \/ q = cart[p].qty - 1
      PROVE  CartHolds' /\ LinesNameTheirShop' /\ [Abstract!Next]_cart
  <2>1. cart[p].qty \in Nat \ {0} /\ cart[p].store = StoreOf[p]
    BY <1>1, <1>5 DEF Line, Absent, InCart, LinesNameTheirShop, Lines
  <2>2. CASE q = 0
    <3>1. cart' = [cart EXCEPT ![p] = Absent] /\ count' = Pieces(cart')
      BY <1>5, <2>2 DEF UpdateQuantity, WriteCart
    <3>2. Absent \in Line /\ Absent.qty = 0
      BY DEF Line, Absent
    <3>3. Absent.qty = cart[p].qty - 1 /\ cart[p].qty > 0
      BY <1>5, <2>1, <2>2, <3>2
    <3>4. ~(Absent.qty > 0)
      BY <3>2
    <3> QED
      BY <3>1, <3>2, <3>3, <3>4, OneLine
  <2>3. CASE q # 0
    <3> DEFINE l == [cart[p] EXCEPT !.qty = q]
    <3>1. l \in Line /\ l.qty = q /\ l.store = StoreOf[p]
      BY <1>1, <2>1, <2>3 DEF Line, Absent
    <3>2. cart' = [cart EXCEPT ![p] = l] /\ count' = Pieces(cart')
      BY <1>5, <2>3 DEF UpdateQuantity, WriteCart
    <3> HIDE DEF l
    <3>3. l.qty = cart[p].qty + 1 \/ (l.qty = cart[p].qty - 1 /\ cart[p].qty > 0)
      BY <1>5, <2>1, <3>1
    <3> QED
      BY <3>1, <3>2, <3>3, OneLine
  <2> QED
    BY <2>2, <2>3
<1>6. ASSUME NEW p \in Product, PutMore(p) \/ TakeOne(p)
      PROVE  CartHolds' /\ LinesNameTheirShop' /\ [Abstract!Next]_cart
  <2>1. cart[p].qty \in Nat \ {0} /\ InCart(p)
    BY <1>1, <1>6 DEF PutMore, TakeOne, InCart, Line, Absent
  <2>2. cart[p].qty + 1 \in Nat /\ cart[p].qty - 1 \in Nat
    BY <2>1
  <2> QED
    BY <1>5, <1>6, <2>1, <2>2 DEF PutMore, TakeOne
<1>7. [Abstract!Next]_cart => Abstract!Next \/ UNCHANGED [p \in Product |-> cart[p].qty]
  OBVIOUS
<1> QED
  BY <1>2, <1>3, <1>4, <1>6, <1>7 DEF CartStep

-----------------------------------------------------------------------------
(* The state of Shops.                                                     *)

(* Shops and categories arrive, or do not.                                 *)
LEMMA LoadedShops ==
  ASSUME NEW s \in ShopsState, NEW call, NEW ok \in BOOLEAN
  PROVE  Loaded(s, call, ok) \in ShopsState /\ Loaded(s, call, ok).refresh = s.refresh
<1>1. Range(ShopList) \subseteq Shop
  <2>1. ShopList \in [1 .. Len(ShopList) -> Shop]
    BY CatalogAssumption
  <2> QED
    BY <2>1 DEF Range
<1> QED
  BY <1>1 DEF Loaded, LoadShops, LoadCategories, ShopsState

(* A category is asked for.                                                *)
LEMMA AskedCategory ==
  ASSUME NEW s \in ShopsState, NEW c \in Category, NEW by \in {"tap", "refresh"}
  PROVE  AskCategory(s, c, by) \in ShopsState
<1> DEFINE l == s.listing \cup {<<c, by>>}
<1>1. l \in SUBSET (Category \X {"tap", "refresh"})
  BY DEF ShopsState
<1>2. AskCategory(s, c, by) = [s EXCEPT !.selected = c, !.loading = TRUE, !.listing = l]
  BY DEF AskCategory
<1> HIDE DEF l
<1> QED
  BY <1>1, <1>2 DEF ShopsState

(* A refresh ends.                                                         *)
LEMMA IdleRefresh ==
  ASSUME NEW s \in ShopsState
  PROVE  [s EXCEPT !.refresh = Idle] \in ShopsState
<1>1. Idle \in RefreshState
  BY DEF Idle, RefreshState
<1> QED
  BY <1>1 DEF ShopsState

(* A refresh waits for other calls.                                        *)
LEMMA LeftToRefresh ==
  ASSUME NEW s \in ShopsState, NEW l \in SUBSET {"shops", "categories", "products"}
  PROVE  /\ [s EXCEPT !.refresh.left = l] \in ShopsState
         /\ [s EXCEPT !.refresh.left = l].refresh.back = s.refresh.back
<1> DEFINE f == [left |-> l, back |-> s.refresh.back]
<1>1. f \in RefreshState /\ f.back = s.refresh.back
  BY DEF ShopsState, RefreshState
<1>2. [s EXCEPT !.refresh.left = l] = [s EXCEPT !.refresh = f]
  BY DEF ShopsState, RefreshState
<1> HIDE DEF f
<1> QED
  BY <1>1, <1>2 DEF ShopsState

(* Shops as it is mounted.                                                 *)
LEMMA NewShopsState == NewShops \in ShopsState
<1>1. Idle \in RefreshState
  BY DEF Idle, RefreshState
<1> QED
  BY <1>1 DEF NewShops, ShopsState

(* The actions on Shops that leave the cart alone.                         *)
ShopsAction ==
  \/ \E ok \in BOOLEAN, call \in {"shops", "categories"} :
       BootAnswer(call, ok) \/ RefreshAnswer(call, ok)
  \/ \E ok \in BOOLEAN, c \in Category, by \in {"tap", "refresh"} : CategoryAnswer(c, by, ok)
  \/ Search \/ OnRefresh \/ CloseProductDetail \/ ClosingTimer
  \/ \E c \in Category \cup {None} : HandleCategorySelect(c)
  \/ \E p \in Product : OpenProductDetail(p)

(* They keep its type.                                                     *)
LEMMA ShopsStep ==
  ASSUME FrontInv, ShopsAction
  PROVE  shops' \in ShopsState /\ UNCHANGED <<stack, cart, count, detail, basket>>
<1>1. shops \in ShopsState
  BY DEF FrontInv
<1>2. ASSUME NEW ok \in BOOLEAN, NEW call \in {"shops", "categories"}, BootAnswer(call, ok)
      PROVE  shops' \in ShopsState
  <2> DEFINE s == Loaded(shops, call, ok)
             l == shops.boot # {call}
  <2>1. s \in ShopsState /\ l \in BOOLEAN
    BY <1>1, LoadedShops
  <2>2. shops' = [s EXCEPT !.boot = @ \ {call}, !.loading = l]
    BY <1>2 DEF BootAnswer
  <2> HIDE DEF s, l
  <2> QED
    BY <2>1, <2>2 DEF ShopsState
<1>3. ASSUME NEW ok \in BOOLEAN, NEW call \in {"shops", "categories"}, RefreshAnswer(call, ok)
      PROVE  shops' \in ShopsState
  <2> DEFINE r == Loaded(shops, call, ok)
             l == r.refresh.left \ {call}
             s == [r EXCEPT !.refresh.left = l]
             t == [s EXCEPT !.refresh.left = {"products"}]
             c == shops.refresh.back
  <2>1. r \in ShopsState /\ r.refresh = shops.refresh
    BY <1>1, LoadedShops
  <2>2. l \in SUBSET {"shops", "categories", "products"} /\ c \in Category \cup {None}
    <3> HIDE DEF r
    <3> QED
      BY <1>1, <2>1 DEF ShopsState, RefreshState
  <2>3. s \in ShopsState
    <3> HIDE DEF r, l
    <3> QED
      BY <2>1, <2>2, LeftToRefresh
  <2>4. t \in ShopsState
    <3> HIDE DEF s
    <3> QED
      BY <2>3, LeftToRefresh
  <2>5. \/ shops' = s
        \/ shops' = [s EXCEPT !.refresh = Idle]
        \/ c # None /\ shops' = AskCategory(t, c, "refresh")
    BY <1>3 DEF RefreshAnswer
  <2> HIDE DEF s, t, c
  <2> QED
    BY <2>2, <2>3, <2>4, <2>5, IdleRefresh, AskedCategory
<1>4. ASSUME NEW ok \in BOOLEAN, NEW c \in Category, NEW by \in {"tap", "refresh"},
             CategoryAnswer(c, by, ok)
      PROVE  shops' \in ShopsState
  <2> DEFINE ps == IF ok THEN {p \in Product : CategoryOf[p] = c} ELSE shops.products
             f  == IF by = "refresh" THEN Idle ELSE shops.refresh
  <2>1. ps \in SUBSET Product /\ f \in RefreshState
    BY <1>1 DEF ShopsState, RefreshState, Idle
  <2>2. shops' = [shops EXCEPT !.listing = @ \ {<<c, by>>}, !.loading = FALSE,
                               !.products = ps, !.refresh = f]
    BY <1>4 DEF CategoryAnswer
  <2> HIDE DEF ps, f
  <2> QED
    BY <1>1, <2>1, <2>2 DEF ShopsState
<1>5. ASSUME Search
      PROVE  shops' \in ShopsState
  <2> DEFINE b == ~shops.searching
  <2>1. shops' = [shops EXCEPT !.searching = b] /\ b \in BOOLEAN
    BY <1>5 DEF Search
  <2> HIDE DEF b
  <2>2. [shops EXCEPT !.searching = b] \in ShopsState
    BY <1>1, <2>1 DEF ShopsState
  <2> QED
    BY <2>1, <2>2
<1>6. ASSUME OnRefresh
      PROVE  shops' \in ShopsState
  <2> DEFINE f == [left |-> {"shops", "categories"}, back |-> shops.selected]
  <2>1. f \in RefreshState
    BY <1>1 DEF ShopsState, RefreshState
  <2>2. shops' = [shops EXCEPT !.refresh = f]
    BY <1>6 DEF OnRefresh
  <2> HIDE DEF f
  <2>3. [shops EXCEPT !.refresh = f] \in ShopsState
    BY <1>1, <2>1 DEF ShopsState
  <2> QED
    BY <2>2, <2>3
<1>7. ASSUME CloseProductDetail
      PROVE  shops' \in ShopsState
  <2>1. [shops EXCEPT !.sheet = FALSE, !.closing = TRUE] \in ShopsState
    BY <1>1 DEF ShopsState
  <2> QED
    BY <1>7, <2>1 DEF CloseProductDetail, CloseSheet
<1>8. ASSUME ClosingTimer
      PROVE  shops' \in ShopsState
  <2>1. [shops EXCEPT !.product = None, !.closing = FALSE] \in ShopsState
    BY <1>1 DEF ShopsState
  <2> QED
    BY <1>8, <2>1 DEF ClosingTimer
<1>9. ASSUME NEW c \in Category \cup {None}, HandleCategorySelect(c)
      PROVE  shops' \in ShopsState
  <2>1. CASE c = None
    BY <1>1, <1>9, <2>1 DEF HandleCategorySelect, ShopsState
  <2>2. CASE c # None
    BY <1>1, <1>9, <2>2, AskedCategory DEF HandleCategorySelect
  <2> QED
    BY <2>1, <2>2
<1>10. ASSUME NEW p \in Product, OpenProductDetail(p)
       PROVE  shops' \in ShopsState
  BY <1>1, <1>10 DEF OpenProductDetail, ShopsState
<1>11. UNCHANGED <<stack, cart, count, detail, basket>>
  BY DEF ShopsAction, OnShops, BootAnswer, RefreshAnswer, CategoryAnswer, Search, OnRefresh,
         CloseProductDetail, ClosingTimer, HandleCategorySelect, OpenProductDetail
<1> QED
  BY <1>2, <1>3, <1>4, <1>5, <1>6, <1>7, <1>8, <1>9, <1>10, <1>11 DEF ShopsAction

(* A sheet is closed.                                                      *)
LEMMA ClosedSheet ==
  ASSUME NEW s \in ShopsState
  PROVE  CloseSheet(s) \in ShopsState
BY DEF CloseSheet, ShopsState

-----------------------------------------------------------------------------
(* The cart screen and the detail of a shop.                               *)

(* When the cart is looked at, or changes, a shop is asked for products.   *)
LEMMA Focused ==
  ASSUME NEW c \in [Product -> Line], NEW b \in BasketState, NEW x \in FocusEffect(c, b)
  PROVE  x \in BasketState /\ x.suggested \subseteq b.suggested
<1>1. CASE Lines(c) = {}
  <2>1. x = [b EXCEPT !.suggested = {}]
    BY <1>1 DEF FocusEffect
  <2> QED
    BY <2>1 DEF BasketState
<1>2. CASE Lines(c) # {}
  <2>1. PICK first \in Lines(c) :
          x = [b EXCEPT !.asked = @ \cup {[of |-> c[first].store, had |-> Lines(c)]},
                        !.spinning = TRUE]
    BY <1>2 DEF FocusEffect
  <2> DEFINE a == b.asked \cup {[of |-> c[first].store, had |-> Lines(c)]}
  <2>2. c[first].store \in Shop /\ Lines(c) \in SUBSET Product
    BY DEF Lines, Line, Absent
  <2>3. a \in SUBSET Ask
    BY <2>2 DEF BasketState, Ask
  <2>4. x = [b EXCEPT !.asked = a, !.spinning = TRUE]
    BY <2>1
  <2> HIDE DEF a
  <2> QED
    BY <2>3, <2>4 DEF BasketState
<1> QED
  BY <1>1, <1>2

(* The cart screen as it is mounted.                                       *)
LEMMA NewBasketState == NewBasket \in BasketState /\ NewBasket.suggested = {}
BY DEF NewBasket, BasketState

(* A shop's detail as it is mounted.                                       *)
LEMMA NewDetailHolds ==
  ASSUME NEW s \in Shop \cup {None}, detail' = NewDetail(s)
  PROVE  DetailHolds'
BY DEF NewDetail, DetailHolds, DetailState

(* A detail that changes nothing but what it waits for or has open.        *)
LEMMA DetailStep ==
  ASSUME FrontInv,
         \/ \E ok \in BOOLEAN : LoadShop(ok)
         \/ CloseProductDetails \/ \E p \in Product : OpenProductDetails(p)
  PROVE  DetailHolds' /\ UNCHANGED <<stack, cart, count, shops, basket>>
<1>1. /\ detail \in DetailState
      /\ \A p \in detail.menu \cup {detail.product} : p # None => StoreOf[p] = detail.shop
  BY DEF FrontInv, DetailHolds
<1>2. ASSUME NEW ok \in BOOLEAN, LoadShop(ok)
      PROVE  DetailHolds'
  <2> DEFINE l == IF ok THEN "ready" ELSE "failed"
             m == IF ok THEN {p \in Product : StoreOf[p] = detail.shop} ELSE {}
  <2>1. /\ l \in {"loading", "failed", "ready"} /\ m \in SUBSET Product
        /\ \A p \in m : StoreOf[p] = detail.shop
    OBVIOUS
  <2>2. detail' = [detail EXCEPT !.load = l, !.menu = m]
    BY <1>2 DEF LoadShop
  <2> HIDE DEF l, m
  <2>3. /\ detail' \in DetailState /\ detail'.shop = detail.shop /\ detail'.menu = m
        /\ detail'.product = detail.product
    BY <1>1, <2>1, <2>2 DEF DetailState
  <2> QED
    BY <1>1, <2>1, <2>3 DEF DetailHolds
<1>3. ASSUME NEW p \in Product, OpenProductDetails(p)
      PROVE  DetailHolds'
  <2>1. p \in detail.menu
    BY <1>3 DEF OpenProductDetails, Menu
  <2>2. detail' = [detail EXCEPT !.product = p]
    BY <1>3 DEF OpenProductDetails
  <2>3. /\ detail' \in DetailState /\ detail'.shop = detail.shop /\ detail'.menu = detail.menu
        /\ detail'.product = p
    BY <1>1, <2>2 DEF DetailState
  <2> QED
    BY <1>1, <2>1, <2>3 DEF DetailHolds
<1>4. ASSUME CloseProductDetails
      PROVE  DetailHolds'
  <2>1. detail' = [detail EXCEPT !.product = None]
    BY <1>4 DEF CloseProductDetails
  <2>2. /\ detail' \in DetailState /\ detail'.shop = detail.shop /\ detail'.menu = detail.menu
        /\ detail'.product = None
    BY <1>1, <2>1 DEF DetailState
  <2> QED
    BY <1>1, <2>2 DEF DetailHolds
<1> QED
  BY <1>2, <1>3, <1>4 DEF LoadShop, CloseProductDetails, OpenProductDetails, OnDetail

(* The products suggested are offered under the shop that was asked.       *)
LEMMA FeaturedStep ==
  ASSUME FrontInv, NEW a \in basket.asked, NEW ok \in BOOLEAN, FeaturedAnswer(a, ok)
  PROVE  BasketHolds' /\ UNCHANGED <<stack, cart, count, shops, detail>>
<1> DEFINE n == [id : {p \in Product : StoreOf[p] = a.of} \ a.had, store : {a.of}]
           g == IF ok THEN n ELSE basket.suggested
<1>1. /\ basket \in BasketState /\ a \in Ask
      /\ \A x \in basket.suggested : x.store = StoreOf[x.id]
  BY DEF FrontInv, BasketHolds, BasketState
<1>2. n \subseteq Offer /\ \A x \in n : x.store = StoreOf[x.id]
  BY <1>1 DEF Offer, Ask
<1>3. g \subseteq Offer /\ \A x \in g : x.store = StoreOf[x.id]
  BY <1>1, <1>2 DEF BasketState
<1>4. basket' = [asked |-> basket.asked \ {a}, spinning |-> FALSE, suggested |-> g]
  BY DEF FeaturedAnswer
<1> HIDE DEF g
<1>5. basket' \in BasketState /\ basket'.suggested = g
  BY <1>1, <1>3, <1>4 DEF BasketState
<1> QED
  BY <1>3, <1>5 DEF BasketHolds, FeaturedAnswer

-----------------------------------------------------------------------------
(* Navigation.                                                             *)

(* A stack of some height has a screen.                                    *)
LEMMA SomeScreen ==
  ASSUME NEW s \in Seq(Screen), NEW n \in Nat, Len(s) = n, n # 0
  PROVE  s # <<>>
<1>1. Len(<<>>) = 0
  OBVIOUS
<1> QED
  BY <1>1

(* The stack keeps a screen, and the cart changes only by being emptied.   *)
LEMMA NavigateStep ==
  ASSUME FrontInv, Navigate
  PROVE  StackHolds' /\ CartStep /\ shops' \in ShopsState /\ DetailHolds' /\ BasketHolds'
<1>1. /\ stack \in Seq(Screen) /\ stack # <<>> /\ cart \in [Product -> Line]
      /\ shops \in ShopsState /\ DetailHolds /\ basket \in BasketState
      /\ \A x \in basket.suggested : x.store = StoreOf[x.id]
  BY DEF FrontInv, StackHolds, CartHolds, BasketHolds
<1>2. DetailHolds' /\ BasketHolds' /\ shops' \in ShopsState
  <2>1. shops' \in ShopsState
    BY <1>1, NewShopsState DEF Navigate, EnterShops, LeaveShops, EnterOrders, Logout, EnterCart,
                               EnterCheckout, Back, EnterShop
  <2>2. ASSUME NEW s \in Shop, EnterShop(s)
        PROVE  DetailHolds'
    BY <2>2, NewDetailHolds DEF EnterShop
  <2>3. DetailHolds'
    <3>1. UNCHANGED detail => DetailHolds'
      BY <1>1 DEF DetailHolds
    <3>2. Back => DetailHolds'
      BY <3>1, NewDetailHolds DEF Back
    <3> QED
      BY <2>2, <3>1, <3>2 DEF Navigate, EnterShops, LeaveShops, EnterOrders, Logout, EnterCart,
                              EnterCheckout
  <2>4. BasketHolds'
    <3>1. UNCHANGED basket => BasketHolds'
      BY <1>1 DEF BasketHolds
    <3>2. ASSUME NEW b \in {basket, NewBasket}, basket' \in FocusEffect(cart, b)
          PROVE  BasketHolds'
      <4>1. b \in BasketState /\ \A x \in b.suggested : x.store = StoreOf[x.id]
        BY <1>1, NewBasketState
      <4>2. basket' \in BasketState /\ basket'.suggested \subseteq b.suggested
        BY <1>1, <3>2, <4>1, Focused
      <4> QED
        BY <4>1, <4>2 DEF BasketHolds
    <3>3. basket' = NewBasket => BasketHolds'
      BY NewBasketState DEF BasketHolds
    <3> QED
      BY <3>1, <3>2, <3>3 DEF Navigate, EnterShops, LeaveShops, EnterOrders, Logout, EnterCart,
                              EnterCheckout, Back, EnterShop
  <2> QED
    BY <2>1, <2>3, <2>4
<1>3. CartStep
  BY DEF CartStep, Navigate, EnterShops, LeaveShops, EnterOrders, Logout, EnterCart,
         EnterCheckout, Back, EnterShop
<1>4. StackHolds'
  <2>1. ASSUME NEW s \in Screen, stack' = <<s>> \/ stack' = Append(stack, s)
        PROVE  StackHolds'
    <3>1. Append(stack, s) \in Seq(Screen) /\ Len(Append(stack, s)) = Len(stack) + 1
      BY <1>1
    <3>2. <<s>> \in Seq(Screen) /\ Len(<<s>>) = 1
      OBVIOUS
    <3>3. Len(stack) + 1 \in Nat /\ Len(stack) + 1 # 0
      <4>1. Len(stack) \in Nat
        BY <1>1
      <4> QED
        BY <4>1
    <3>4. CASE stack' = <<s>>
      BY <3>2, <3>4, SomeScreen DEF StackHolds
    <3>5. CASE stack' = Append(stack, s)
      <4>1. stack' \in Seq(Screen) /\ Len(stack') = Len(stack) + 1
        BY <3>1, <3>5
      <4> QED
        BY <3>3, <4>1, SomeScreen DEF StackHolds
    <3> QED
      BY <2>1, <3>4, <3>5
  <2>2. CASE Back
    <3>1. Len(stack) \in Nat /\ Len(stack) > 1 /\ stack' = SubSeq(stack, 1, Len(stack) - 1)
      BY <1>1, <2>2 DEF Back, Front
    <3>2. stack' \in Seq(Screen) /\ Len(stack') = Len(stack) - 1
      BY <1>1, <3>1
    <3>3. \A n \in Nat : n > 1 => n - 1 \in Nat /\ n - 1 # 0
      OBVIOUS
    <3>4. Len(stack) - 1 \in Nat /\ Len(stack) - 1 # 0
      BY <3>1, <3>3
    <3> QED
      BY <3>2, <3>4, SomeScreen DEF StackHolds
  <2> QED
    BY <2>1, <2>2 DEF Navigate, EnterShops, LeaveShops, EnterOrders, Logout, EnterCart,
                      EnterCheckout, EnterShop, Screen
<1> QED
  BY <1>2, <1>3, <1>4

-----------------------------------------------------------------------------
(* Filling the cart.                                                       *)

(* What a card or a sheet writes into the cart is a step of it.            *)
LEMMA Touched ==
  ASSUME FrontInv, NEW p \in Product,
         \/ HandleAddToCart(p)
         \/ AddFood(p) /\ detail.shop = StoreOf[p]
         \/ InCart(p) /\ (Plus(p) \/ Minus(p))
  PROVE  CartStep
BY DEF CartStep, PutNew, PutMore, TakeOne, HandleAddToCart, AddFood, Plus, Minus

(* A tap on a card of Shops, or on its sheet.                              *)
LEMMA ShopsFill ==
  ASSUME FrontInv,
         \/ \E p \in Product, tap \in {"add", "plus", "minus"} : TapProduct(p, tap)
         \/ \E tap \in {"add", "plus", "minus", "buy"} : HandleModal(tap)
  PROVE  CartStep /\ shops' \in ShopsState /\ UNCHANGED <<stack, detail, basket>>
<1>1. shops \in ShopsState
  BY DEF FrontInv
<1>2. ASSUME NEW p \in Product, NEW tap \in {"add", "plus", "minus"}, TapProduct(p, tap)
      PROVE  CartStep /\ shops' = shops /\ UNCHANGED <<stack, detail, basket>>
  <2>1. tap \in Card(p)
    BY <1>2 DEF TapProduct, Offered
  <2>2. tap # "add" => InCart(p)
    BY <2>1 DEF Card, RenderStore, RenderStoreCompact, RenderProduct, RenderProductCompact
  <2> QED
    BY <1>2, <2>2, Touched DEF TapProduct
<1>3. ASSUME NEW tap \in {"add", "plus", "minus", "buy"}, HandleModal(tap)
      PROVE  CartStep /\ shops' \in ShopsState /\ UNCHANGED <<stack, detail, basket>>
  <2>1. shops.product \in Product
    BY <1>1, <1>3 DEF HandleModal, SheetOffers, ShopsState
  <2>2. tap \in {"plus", "minus"} => InCart(shops.product)
    BY <1>3 DEF HandleModal, SheetOffers
  <2>3. CartStep
    BY <1>3, <2>1, <2>2, Touched DEF HandleModal
  <2> QED
    BY <1>1, <1>3, <2>3, ClosedSheet DEF HandleModal
<1> QED
  BY <1>1, <1>2, <1>3

(* A tap on a card of a shop's menu, or on its sheet.                      *)
LEMMA DetailFill ==
  ASSUME FrontInv,
         \/ \E p \in Product : TapFood(p)
         \/ \E tap \in {"add", "plus", "minus", "buy"} : HandleDetailModal(tap)
  PROVE  CartStep /\ DetailHolds' /\ UNCHANGED <<stack, shops, basket>>
<1>1. /\ detail \in DetailState /\ DetailHolds
      /\ \A p \in detail.menu \cup {detail.product} : p # None => StoreOf[p] = detail.shop
  BY DEF FrontInv, DetailHolds
<1>2. ASSUME NEW p \in Product, TapFood(p)
      PROVE  CartStep /\ DetailHolds' /\ UNCHANGED <<stack, shops, basket>>
  <2>1. p \in detail.menu
    BY <1>2 DEF TapFood, Menu
  <2>2. p # None
    BY CatalogAssumption
  <2>3. CartStep
    BY <1>1, <1>2, <2>1, <2>2, Touched DEF TapFood
  <2> QED
    BY <1>1, <1>2, <2>3 DEF TapFood, DetailHolds
<1>3. ASSUME NEW tap \in {"add", "plus", "minus", "buy"}, HandleDetailModal(tap)
      PROVE  CartStep /\ DetailHolds' /\ UNCHANGED <<stack, shops, basket>>
  <2>1. detail.product \in Product /\ detail.shop = StoreOf[detail.product]
    BY <1>1, <1>3, CatalogAssumption DEF HandleDetailModal, DetailSheet, DetailState
  <2>2. tap \in {"plus", "minus"} => InCart(detail.product)
    BY <1>3 DEF HandleDetailModal, DetailSheet
  <2>3. CartStep
    BY <1>3, <2>1, <2>2, Touched DEF HandleDetailModal
  <2>4. CASE UNCHANGED detail
    BY <1>1, <1>3, <2>3, <2>4 DEF HandleDetailModal, DetailHolds
  <2>5. CASE detail' = [detail EXCEPT !.product = None]
    <3>1. /\ detail' \in DetailState /\ detail'.shop = detail.shop
          /\ detail'.menu = detail.menu /\ detail'.product = None
      BY <1>1, <2>5 DEF DetailState
    <3> QED
      BY <1>1, <1>3, <2>3, <3>1 DEF HandleDetailModal, DetailHolds
  <2> QED
    BY <1>3, <2>4, <2>5 DEF HandleDetailModal
<1> QED
  BY <1>2, <1>3

(* A tap on the cart screen, after which its suggestions are asked again.  *)
LEMMA CartFill ==
  ASSUME FrontInv,
         \/ \E p \in Product, tap \in {"plus", "minus"} : TapItem(p, tap)
         \/ \E x \in basket.suggested : AddFeatured(x)
         \/ HandleClearCart
  PROVE  CartStep /\ BasketHolds' /\ UNCHANGED <<stack, shops, detail>>
<1>1. basket \in BasketState /\ \A x \in basket.suggested : x.store = StoreOf[x.id]
  BY DEF FrontInv, BasketHolds
<1>2. CartStep
  <2>1. ASSUME NEW p \in Product, NEW tap \in {"plus", "minus"}, TapItem(p, tap)
        PROVE  CartStep
    BY <2>1, Touched DEF TapItem, RenderItem
  <2>2. ASSUME NEW x \in basket.suggested, AddFeatured(x)
        PROVE  CartStep
    <3>1. x.id \in Product /\ x.store = StoreOf[x.id]
      BY <1>1 DEF BasketState, Offer
    <3> QED
      BY <2>2, <3>1 DEF AddFeatured, CartStep, PutNew
  <2>3. HandleClearCart => CartStep
    BY DEF HandleClearCart, CartStep
  <2> QED
    BY <2>1, <2>2, <2>3
<1>3. OnCart
  BY DEF TapItem, AddFeatured, HandleClearCart
<1>4. cart' \in [Product -> Line]
  BY <1>2, CartStepHolds DEF CartHolds
<1>5. basket' \in BasketState /\ basket'.suggested \subseteq basket.suggested
  BY <1>1, <1>3, <1>4, Focused DEF OnCart
<1> QED
  BY <1>1, <1>2, <1>3, <1>5 DEF BasketHolds, OnCart

-----------------------------------------------------------------------------
(* The theorems.                                                           *)

(* At the start the cart is empty.                                         *)
LEMMA FrontInit ==
  ASSUME Init
  PROVE  FrontInv
<1>1. stack \in Seq(Screen) /\ Len(stack) = 1
  BY DEF Init, Screen
<1>2. StackHolds
  BY <1>1, SomeScreen DEF StackHolds
<1>3. CartHolds
  BY SumOfNothing DEF Init, CartHolds, Line
<1>4. DetailHolds
  BY DEF Init, NewDetail, DetailHolds, DetailState
<1>5. BasketHolds
  BY NewBasketState DEF Init, BasketHolds
<1>6. LinesNameTheirShop
  BY DEF Init, LinesNameTheirShop, Lines, Absent
<1> QED
  BY <1>2, <1>3, <1>4, <1>5, <1>6, NewShopsState DEF Init, FrontInv

(* What a step does to each of the parts.                                  *)
LEMMA FrontStep ==
  ASSUME FrontInv, Next
  PROVE  StackHolds' /\ CartStep /\ shops' \in ShopsState /\ DetailHolds' /\ BasketHolds'
<1>1. /\ UNCHANGED stack => StackHolds'
      /\ UNCHANGED <<cart, count>> => CartStep
      /\ UNCHANGED shops => shops' \in ShopsState
      /\ UNCHANGED detail => DetailHolds'
      /\ UNCHANGED basket => BasketHolds'
  BY DEF FrontInv, StackHolds, CartStep, DetailHolds, BasketHolds
<1>2. CASE Answer
  <2>1. \/ ShopsAction \/ \E ok \in BOOLEAN : LoadShop(ok)
        \/ \E a \in basket.asked, ok \in BOOLEAN : FeaturedAnswer(a, ok)
    BY <1>2 DEF Answer, ShopsAction
  <2> QED
    BY <1>1, <2>1, ShopsStep, DetailStep, FeaturedStep
<1>3. CASE Browse \/ ClosingTimer
  <2>1. \/ ShopsAction \/ CloseProductDetails \/ \E p \in Product : OpenProductDetails(p)
    BY <1>3 DEF Browse, ShopsAction
  <2> QED
    BY <1>1, <2>1, ShopsStep, DetailStep
<1>4. CASE Fill
  BY <1>1, <1>4, ShopsFill, DetailFill, CartFill DEF Fill
<1> QED
  BY <1>2, <1>3, <1>4, NavigateStep DEF Next

(* Shops.tsx, ShopDetailScreen.tsx, CartScreen.tsx and authStore: the      *)
(* state of the screens has its type, what the shop's detail has open and  *)
(* what the cart suggests come with the shop that sells them.              *)
THEOREM FrontInvariance == Spec => []FrontInv
<1>1. Init => FrontInv
  BY FrontInit
<1>2. FrontInv /\ [Next]_vars => FrontInv'
  <2>1. FrontInv /\ Next => FrontInv'
    BY FrontStep, CartStepHolds DEF FrontInv
  <2>2. FrontInv /\ UNCHANGED vars => FrontInv'
    BY DEF vars, FrontInv, StackHolds, CartHolds, DetailHolds, BasketHolds, LinesNameTheirShop,
           Lines, Pieces
  <2> QED
    BY <2>1, <2>2
<1> QED
  BY <1>1, <1>2, PTL DEF Spec

(* The types of the screens' state; cartCount of authStore is the number   *)
(* of pieces in the cart, whichever screen changed it last.                *)
THEOREM TypeCorrect == Spec => []TypeOK
<1>1. FrontInv => TypeOK
  BY DEF FrontInv, StackHolds, CartHolds, DetailHolds, BasketHolds, TypeOK, Pieces
<1> QED
  BY <1>1, FrontInvariance, PTL

(* addToCart of authStore as Shops, the shop's detail and the cart's       *)
(* suggestions call it: every line names the shop that sells its product,  *)
(* though answers come after the cart or the screen has changed.           *)
THEOREM LinesAreOfTheirShop == Spec => []LinesNameTheirShop
<1>1. FrontInv => LinesNameTheirShop
  BY DEF FrontInv
<1> QED
  BY <1>1, FrontInvariance, PTL

(* The cart of the app implements the abstract basket: one piece in or out *)
(* at a time, or all of them out, from whatever screen.                    *)
THEOREM ImplementsBasket == Spec => CartIsABasket
<1>1. Init => Abstract!Init
  BY DEF Init, Abstract!Init, Absent
<1>2. FrontInv /\ [Next]_vars => [Abstract!Next]_([p \in Product |-> cart[p].qty])
  <2>1. FrontInv /\ Next => Abstract!Next \/ UNCHANGED [p \in Product |-> cart[p].qty]
    BY FrontStep, CartStepHolds
  <2>2. UNCHANGED vars => UNCHANGED [p \in Product |-> cart[p].qty]
    BY DEF vars
  <2> QED
    BY <2>1, <2>2
<1> QED
  BY <1>1, <1>2, FrontInvariance, PTL DEF Spec, CartIsABasket, Abstract!Spec
-----------------------------------------------------------------------------
(* Induction and folds over sequences.                                     *)

(* Induction up to n: a set that has 0, and with a number the next one,    *)
(* has them all.                                                           *)
LEMMA UpTo ==
  ASSUME NEW n \in Nat, NEW T, 0 \in T, \A i \in 1 .. n : i - 1 \in T => i \in T
  PROVE  \A i \in 0 .. n : i \in T
<1> DEFINE bad == {i \in 0 .. n : i \notin T}
<1>1. SUFFICES ASSUME bad # {}
               PROVE  FALSE
  OBVIOUS
<1>2. PICK i \in bad : \A j \in bad : i <= j
  <2>1. bad \in SUBSET Nat
    <3>1. 0 .. n \subseteq Nat
      OBVIOUS
    <3> QED
      BY <3>1
  <2> HIDE DEF bad
  <2> QED
    BY <1>1, <2>1, LeastNumber
<1>3. i \in 1 .. n /\ i - 1 \in 0 .. n /\ i - 1 \notin bad
  BY <1>2
<1> QED
  BY <1>2, <1>3

(* A finite set of numbers has a largest one.                              *)
LEMMA LargestNumber ==
  ASSUME NEW n \in Nat, NEW s \in SUBSET (1 .. n), s # {}
  PROVE  Max(s) \in s /\ \A i \in s : Max(s) >= i
<1> DEFINE far == {n - i : i \in s}
<1>1. far \in SUBSET Nat /\ far # {}
  <2>1. \A i \in s : i \in 1 .. n
    OBVIOUS
  <2>2. \A i \in 1 .. n : n - i \in Nat
    OBVIOUS
  <2> QED
    BY <2>1, <2>2
<1>2. PICK k \in far : \A j \in far : k <= j
  <2> HIDE DEF far
  <2> QED
    BY <1>1, LeastNumber
<1>3. PICK i \in s : k = n - i
  BY <1>2
<1>4. \A j \in s : n - j \in far
  OBVIOUS
<1>5. \A j \in s : i >= j
  <2> TAKE j \in s
  <2>1. k <= n - j
    BY <1>2, <1>4
  <2>2. i \in Int /\ j \in Int
    OBVIOUS
  <2> HIDE DEF far
  <2> QED
    BY <2>1, <2>2, <1>3
<1>6. \E x \in s : \A y \in s : x >= y
  BY <1>5
<1> QED
  BY <1>6 DEF Max

(* The first i places of a sequence, without the last of them.             *)
LEMMA FirstPlaces ==
  ASSUME NEW n \in Nat, NEW i \in 1 .. n
  PROVE  /\ 1 .. i \in SUBSET (1 .. n) /\ 1 .. i # {}
         /\ Max(1 .. i) = i /\ (1 .. i) \ {i} = 1 .. (i - 1)
<1>1. 1 .. i \in SUBSET (1 .. n) /\ i \in 1 .. i /\ (1 .. i) \ {i} = 1 .. (i - 1)
  OBVIOUS
<1>2. Max(1 .. i) \in 1 .. i /\ Max(1 .. i) >= i
  BY <1>1, LargestNumber
<1> QED
  BY <1>1, <1>2

(* g folds the step over every subset of the places of seq, from the first *)
(* place of it to the last: the function by which FoldLeft is computed.    *)
IsFold(g, A, step, base, seq) ==
  /\ g \in [SUBSET (1 .. Len(seq)) -> A]
  /\ \A s \in SUBSET (1 .. Len(seq)) :
       g[s] = IF s = {} THEN base ELSE step[<<g[s \ {Max(s)}], seq[Max(s)]>>]

(* There is such a function, for every step that stays in A.               *)
LEMMA FoldExists ==
  ASSUME NEW A, NEW B, NEW step \in [A \X B -> A], NEW base \in A, NEW seq \in Seq(B)
  PROVE  \E g : IsFold(g, A, step, base, seq)
<1> DEFINE Fits(n, g) == /\ g \in [SUBSET (1 .. n) -> A]
                         /\ \A s \in SUBSET (1 .. n) :
                              g[s] = IF s = {} THEN base
                                     ELSE step[<<g[s \ {Max(s)}], seq[Max(s)]>>]
           T == {n \in Nat : \E g : Fits(n, g)}
<1>1. 0 \in T
  <2>1. Fits(0, [s \in SUBSET (1 .. 0) |-> base])
    OBVIOUS
  <2> QED
    BY <2>1
<1>2. ASSUME NEW n \in 1 .. Len(seq), n - 1 \in T
      PROVE  n \in T
  <2>1. PICK g : Fits(n - 1, g)
    BY <1>2
  <2> DEFINE h == [s \in SUBSET (1 .. n) |-> IF n \in s THEN step[<<g[s \ {n}], seq[n]>>]
                                              ELSE g[s]]
  <2>2. \A s \in SUBSET (1 .. n) : (n \in s => s \ {n} \in SUBSET (1 .. (n - 1)))
                                /\ (n \notin s => s \in SUBSET (1 .. (n - 1)))
    OBVIOUS
  <2>3. seq[n] \in B /\ n \in Nat
    OBVIOUS
  <2>4. h \in [SUBSET (1 .. n) -> A]
    BY <2>1, <2>2, <2>3
  <2>5. ASSUME NEW s \in SUBSET (1 .. n)
        PROVE  h[s] = IF s = {} THEN base ELSE step[<<h[s \ {Max(s)}], seq[Max(s)]>>]
    <3>1. CASE s = {}
      BY <3>1, <2>1, <2>2
    <3>2. CASE n \in s
      <4>1. Max(s) \in s /\ Max(s) >= n
        BY <3>2, <2>3, LargestNumber
      <4>2. Max(s) \in 1 .. n
        BY <4>1
      <4>3. Max(s) = n
        BY <4>1, <4>2, <2>3
      <4>4. s \ {n} \in SUBSET (1 .. n) /\ n \notin s \ {n}
        OBVIOUS
      <4> QED
        BY <3>2, <4>3, <4>4
    <3>3. CASE s # {} /\ n \notin s
      <4>1. Max(s) \in s
        BY <3>3, <2>3, LargestNumber
      <4>2. s \in SUBSET (1 .. (n - 1)) /\ s \ {Max(s)} \in SUBSET (1 .. n) /\ n \notin s \ {Max(s)}
        BY <3>3, <2>2
      <4>3. h[s] = g[s] /\ h[s \ {Max(s)}] = g[s \ {Max(s)}]
        BY <3>3, <4>2
      <4> HIDE DEF h
      <4> QED
        BY <3>3, <4>2, <4>3, <2>1
    <3> QED
      BY <3>1, <3>2, <3>3
  <2>6. Fits(n, h)
    <3> HIDE DEF h
    <3> QED
      BY <2>4, <2>5
  <2> HIDE DEF Fits
  <2> QED
    BY <2>6, <2>3
<1>3. Len(seq) \in T
  <2>1. Len(seq) \in Nat /\ Len(seq) \in 0 .. Len(seq)
    OBVIOUS
  <2>2. \A i \in 1 .. Len(seq) : i - 1 \in T => i \in T
    BY <1>2
  <2> HIDE DEF T
  <2>3. \A i \in 0 .. Len(seq) : i \in T
    BY <1>1, <2>2, <2>1, UpTo
  <2> QED
    BY <2>1, <2>3
<1> QED
  BY <1>3 DEF IsFold

(* h filters s place by place.                                             *)
Filters(h, s, T, B) ==
  /\ h \in [0 .. Len(s) -> Seq(B)] /\ h[0] = <<>> /\ Within(s, T) = h[Len(s)]
  /\ \A i \in 1 .. Len(s) : h[i] = IF s[i] \in T THEN Append(h[i - 1], s[i]) ELSE h[i - 1]

LEMMA WithinSteps ==
  ASSUME NEW B, NEW s \in Seq(B), NEW T
  PROVE  \E h : Filters(h, s, T, B)
<1> DEFINE step == [a \in Seq(B) \X B |-> IF a[2] \in T THEN Append(a[1], a[2]) ELSE a[1]]
           eqn(g) == g = [S \in SUBSET (DOMAIN s) |->
             IF S = {} THEN <<>>
             ELSE IF s[Max(S)] \in T THEN Append(g[S \ {Max(S)}], s[Max(S)])
                  ELSE g[S \ {Max(S)}]]
           iter == CHOOSE g : eqn(g)
<1>1. Within(s, T) = iter[DOMAIN s]
  BY DEF Within, FoldLeft, MapThenFoldSet
<1>2. DOMAIN s = 1 .. Len(s) /\ Len(s) \in Nat
  OBVIOUS
<1>3. \E g : eqn(g)
  <2>1. step \in [Seq(B) \X B -> Seq(B)]
    OBVIOUS
  <2>2. <<>> \in Seq(B)
    OBVIOUS
  <2> HIDE DEF step
  <2>3. PICK g : IsFold(g, Seq(B), step, <<>>, s)
    BY <2>1, <2>2, FoldExists
  <2>4. ASSUME NEW S \in SUBSET (DOMAIN s), S # {}
        PROVE  g[S] = IF s[Max(S)] \in T THEN Append(g[S \ {Max(S)}], s[Max(S)])
                      ELSE g[S \ {Max(S)}]
    <3>1. Max(S) \in S
      BY <1>2, <2>4, LargestNumber
    <3>2. s[Max(S)] \in B /\ g[S \ {Max(S)}] \in Seq(B)
      BY <1>2, <2>3, <3>1 DEF IsFold
    <3>3. g[S] = step[<<g[S \ {Max(S)}], s[Max(S)]>>]
      BY <1>2, <2>3, <2>4 DEF IsFold
    <3> QED
      BY <3>2, <3>3 DEF step
  <2>5. eqn(g)
    BY <1>2, <2>3, <2>4 DEF IsFold
  <2> QED
    BY <2>5
<1>4. eqn(iter)
  <2> HIDE DEF eqn
  <2> QED
    BY <1>3
<1> HIDE DEF iter
<1> DEFINE h == [i \in 0 .. Len(s) |-> iter[1 .. i]]
<1>5. h[0] = <<>> /\ Within(s, T) = h[Len(s)]
  <2>1. 1 .. 0 = {} /\ {} \in SUBSET (DOMAIN s) /\ 0 \in 0 .. Len(s) /\ Len(s) \in 0 .. Len(s)
    BY <1>2
  <2>2. iter[{}] = <<>>
    BY <1>4, <2>1
  <2> HIDE DEF eqn
  <2> QED
    BY <1>1, <1>2, <2>1, <2>2
<1>6. ASSUME NEW i \in 1 .. Len(s)
      PROVE  h[i] = IF s[i] \in T THEN Append(h[i - 1], s[i]) ELSE h[i - 1]
  <2>1. 1 .. i \in SUBSET (DOMAIN s) /\ 1 .. i # {} /\ Max(1 .. i) = i
        /\ (1 .. i) \ {i} = 1 .. (i - 1)
    BY <1>2, FirstPlaces
  <2>2. iter[1 .. i] = IF s[Max(1 .. i)] \in T
                       THEN Append(iter[(1 .. i) \ {Max(1 .. i)}], s[Max(1 .. i)])
                       ELSE iter[(1 .. i) \ {Max(1 .. i)}]
    <3> HIDE DEF h
    <3> QED
      BY <1>4, <2>1
  <2>3. i \in 0 .. Len(s) /\ i - 1 \in 0 .. Len(s)
    BY <1>2
  <2> HIDE DEF eqn
  <2> QED
    BY <2>1, <2>2, <2>3
<1>7. h \in [0 .. Len(s) -> Seq(B)]
  <2> DEFINE U == {i \in 0 .. Len(s) : h[i] \in Seq(B)}
  <2>1. 0 \in U
    <3>1. <<>> \in Seq(B) /\ 0 \in 0 .. Len(s)
      BY <1>2
    <3> HIDE DEF h
    <3> QED
      BY <3>1, <1>5
  <2>2. ASSUME NEW i \in 1 .. Len(s), i - 1 \in U
        PROVE  i \in U
    <3>1. h[i - 1] \in Seq(B) /\ s[i] \in B /\ i \in 0 .. Len(s)
      BY <1>2, <2>2
    <3>2. Append(h[i - 1], s[i]) \in Seq(B)
      <4> HIDE DEF h
      <4> QED
        BY <3>1
    <3>3. h[i] = Append(h[i - 1], s[i]) \/ h[i] = h[i - 1]
      <4> HIDE DEF h
      <4> QED
        BY <1>6
    <3> HIDE DEF h
    <3> QED
      BY <3>1, <3>2, <3>3
  <2>3. \A i \in 0 .. Len(s) : i \in U
    <3>1. \A i \in 1 .. Len(s) : i - 1 \in U => i \in U
      BY <2>2
    <3> HIDE DEF U
    <3> QED
      BY <1>2, <2>1, <3>1, UpTo
  <2> QED
    BY <2>3
<1> HIDE DEF h
<1> QED
  BY <1>5, <1>6, <1>7 DEF Filters

-----------------------------------------------------------------------------
(* The rows of the grid.                                                   *)

(* The rows written so far, and the row being filled.                      *)
Written(B) == [out : Seq(Seq(B)), row : Seq(B)]
Blank      == [out |-> <<>>, row |-> <<>>]

LEMMA PlaceWrites ==
  ASSUME NEW B
  PROVE  Blank \in Written(B) /\ \A a \in Written(B), x \in B : Place(a, x) \in Written(B)
<1>1. <<>> \in Seq(B) /\ <<>> \in Seq(Seq(B))
  OBVIOUS
<1>2. \A x \in B : <<x>> \in Seq(B)
  OBVIOUS
<1>3. \A r \in Seq(B), x \in B : Append(r, x) \in Seq(B)
  OBVIOUS
<1>4. \A o \in Seq(Seq(B)), r \in Seq(B) : Append(o, r) \in Seq(Seq(B))
  OBVIOUS
<1>5. \A a \in Written(B) : Flush(a) \in Written(B)
  BY <1>1, <1>4 DEF Flush, Written
<1>6. ASSUME NEW a \in Written(B), NEW x \in B
      PROVE  Place(a, x) \in Written(B)
  <2>1. CASE x \in Header
    <3>1. Place(a, x) = [out |-> Append(Flush(a).out, <<x>>), row |-> Flush(a).row]
      BY <2>1, <1>5 DEF Place, Written
    <3> QED
      BY <3>1, <1>2, <1>4, <1>5 DEF Written
  <2>2. CASE x \notin Header
    <3> DEFINE r == Append(a.row, x)
               b == [out |-> a.out, row |-> r]
    <3>1. r \in Seq(B)
      BY <1>3 DEF Written
    <3>2. Place(a, x) = LET c == [a EXCEPT !.row = r]
                        IN IF Len(c.row) = GridColumns THEN Flush(c) ELSE c
      BY <2>2 DEF Place
    <3> HIDE DEF r
    <3>3. [a EXCEPT !.row = r] = b /\ b \in Written(B)
      BY <3>1 DEF Written
    <3> HIDE DEF b
    <3> QED
      BY <3>2, <3>3, <1>5
  <2> QED
    BY <2>1, <2>2
<1> QED
  BY <1>1, <1>6 DEF Blank, Written

(* Filling the grid item by item.                                          *)
LEMMA PlaceSteps ==
  ASSUME NEW B, NEW s \in Seq(B)
  PROVE  \E h \in [0 .. Len(s) -> Written(B)] :
           /\ h[0] = Blank /\ FoldLeft(Place, Blank, s) = h[Len(s)]
           /\ \A i \in 1 .. Len(s) : h[i] = Place(h[i - 1], s[i])
<1> DEFINE step == [a \in Written(B) \X B |-> Place(a[1], a[2])]
           eqn(g) == g = [S \in SUBSET (DOMAIN s) |->
             IF S = {} THEN Blank ELSE Place(g[S \ {Max(S)}], s[Max(S)])]
           iter == CHOOSE g : eqn(g)
<1>1. FoldLeft(Place, Blank, s) = iter[DOMAIN s]
  BY DEF FoldLeft, MapThenFoldSet
<1>2. DOMAIN s = 1 .. Len(s) /\ Len(s) \in Nat
  OBVIOUS
<1>3. \E g : eqn(g)
  <2>1. step \in [Written(B) \X B -> Written(B)]
    BY PlaceWrites
  <2>2. Blank \in Written(B)
    BY PlaceWrites
  <2> HIDE DEF step
  <2>3. PICK g : IsFold(g, Written(B), step, Blank, s)
    BY <2>1, <2>2, FoldExists
  <2>4. ASSUME NEW S \in SUBSET (DOMAIN s), S # {}
        PROVE  g[S] = Place(g[S \ {Max(S)}], s[Max(S)])
    <3>1. Max(S) \in S
      BY <1>2, <2>4, LargestNumber
    <3>2. s[Max(S)] \in B /\ g[S \ {Max(S)}] \in Written(B)
      BY <1>2, <2>3, <3>1 DEF IsFold
    <3>3. g[S] = step[<<g[S \ {Max(S)}], s[Max(S)]>>]
      BY <1>2, <2>3, <2>4 DEF IsFold
    <3> QED
      BY <3>2, <3>3 DEF step
  <2>5. eqn(g)
    BY <1>2, <2>3, <2>4 DEF IsFold
  <2> QED
    BY <2>5
<1>4. eqn(iter)
  <2> HIDE DEF eqn
  <2> QED
    BY <1>3
<1> HIDE DEF iter
<1> DEFINE h == [i \in 0 .. Len(s) |-> iter[1 .. i]]
<1>5. h[0] = Blank /\ FoldLeft(Place, Blank, s) = h[Len(s)]
  <2>1. 1 .. 0 = {} /\ {} \in SUBSET (DOMAIN s) /\ 0 \in 0 .. Len(s) /\ Len(s) \in 0 .. Len(s)
    BY <1>2
  <2>2. iter[{}] = Blank
    BY <1>4, <2>1
  <2> HIDE DEF eqn
  <2> QED
    BY <1>1, <1>2, <2>1, <2>2
<1>6. ASSUME NEW i \in 1 .. Len(s)
      PROVE  h[i] = Place(h[i - 1], s[i])
  <2>1. 1 .. i \in SUBSET (DOMAIN s) /\ 1 .. i # {} /\ Max(1 .. i) = i
        /\ (1 .. i) \ {i} = 1 .. (i - 1)
    BY <1>2, FirstPlaces
  <2>2. iter[1 .. i] = Place(iter[(1 .. i) \ {Max(1 .. i)}], s[Max(1 .. i)])
    <3> HIDE DEF h
    <3> QED
      BY <1>4, <2>1
  <2>3. i \in 0 .. Len(s) /\ i - 1 \in 0 .. Len(s)
    BY <1>2
  <2> HIDE DEF eqn
  <2> QED
    BY <2>1, <2>2, <2>3
<1>7. h \in [0 .. Len(s) -> Written(B)]
  <2> DEFINE U == {i \in 0 .. Len(s) : h[i] \in Written(B)}
  <2>1. 0 \in U
    <3>1. Blank \in Written(B) /\ 0 \in 0 .. Len(s)
      BY <1>2, PlaceWrites
    <3> HIDE DEF h
    <3> QED
      BY <3>1, <1>5
  <2>2. ASSUME NEW i \in 1 .. Len(s), i - 1 \in U
        PROVE  i \in U
    <3>1. h[i - 1] \in Written(B) /\ s[i] \in B /\ i \in 0 .. Len(s)
      BY <1>2, <2>2
    <3>2. h[i] \in Written(B)
      <4> HIDE DEF h
      <4> QED
        BY <1>6, <3>1, PlaceWrites
    <3> HIDE DEF h
    <3> QED
      BY <3>1, <3>2
  <2>3. \A i \in 0 .. Len(s) : i \in U
    <3>1. \A i \in 1 .. Len(s) : i - 1 \in U => i \in U
      BY <2>2
    <3> HIDE DEF U
    <3> QED
      BY <1>2, <2>1, <3>1, UpTo
  <2> QED
    BY <2>3
<1> HIDE DEF h
<1> QED
  BY <1>5, <1>6, <1>7

(* f joins the rows of s one by one.                                       *)
Joins(f, s, B) ==
  /\ f \in [1 .. Len(s) -> Seq(B)] /\ FlattenSeq(s) = f[Len(s)] /\ f[1] = s[1]
  /\ \A i \in 2 .. Len(s) : f[i] = f[i - 1] \o s[i]

LEMMA FlattenSteps ==
  ASSUME NEW B, NEW s \in Seq(Seq(B)), s # <<>>
  PROVE  \E f : Joins(f, s, B)
<1> DEFINE step == [a \in Seq(B) \X Seq(B) |-> a[1] \o a[2]]
           eqn(f) == f = [i \in 1 .. Len(s) |-> IF i = 1 THEN s[i] ELSE f[i - 1] \o s[i]]
           iter == CHOOSE f : eqn(f)
<1>1. Len(s) \in Nat /\ Len(s) # 0
  OBVIOUS
<1>2. FlattenSeq(s) = iter[Len(s)]
  BY <1>1 DEF FlattenSeq
<1>3. \A i \in 1 .. Len(s) : s[i] \in Seq(B)
  OBVIOUS
<1>4. \E f : eqn(f)
  <2>1. step \in [Seq(B) \X Seq(B) -> Seq(B)]
    OBVIOUS
  <2>2. <<>> \in Seq(B)
    OBVIOUS
  <2> HIDE DEF step
  <2>3. PICK g : IsFold(g, Seq(B), step, <<>>, s)
    BY <2>1, <2>2, FoldExists
  <2> DEFINE f == [i \in 1 .. Len(s) |-> g[1 .. i]]
  <2>4. g[{}] = <<>>
    BY <2>3 DEF IsFold
  <2>5. ASSUME NEW i \in 1 .. Len(s)
        PROVE  g[1 .. (i - 1)] \in Seq(B) /\ g[1 .. i] = g[1 .. (i - 1)] \o s[i]
    <3>1. 1 .. i \in SUBSET (1 .. Len(s)) /\ 1 .. i # {} /\ Max(1 .. i) = i
          /\ (1 .. i) \ {i} = 1 .. (i - 1)
      BY <1>1, FirstPlaces
    <3>2. 1 .. (i - 1) \in SUBSET (1 .. Len(s))
      BY <3>1
    <3>3. g[1 .. (i - 1)] \in Seq(B)
      BY <2>3, <3>2 DEF IsFold
    <3>4. g[1 .. i] = step[<<g[1 .. (i - 1)], s[i]>>]
      BY <2>3, <3>1 DEF IsFold
    <3> QED
      BY <1>3, <3>3, <3>4 DEF step
  <2>6. ASSUME NEW i \in 1 .. Len(s)
        PROVE  f[i] = IF i = 1 THEN s[i] ELSE f[i - 1] \o s[i]
    <3>1. CASE i = 1
      <4>1. 1 .. (i - 1) = {} /\ <<>> \o s[i] = s[i]
        BY <3>1, <1>3
      <4> QED
        BY <2>4, <2>5, <3>1, <4>1
    <3>2. CASE i # 1
      <4>1. i - 1 \in 1 .. Len(s)
        BY <1>1, <3>2
      <4> QED
        BY <2>5, <3>2, <4>1
    <3> QED
      BY <3>1, <3>2
  <2>7. eqn(f)
    <3>1. f = [i \in 1 .. Len(s) |-> f[i]]
      OBVIOUS
    <3> HIDE DEF f
    <3> QED
      BY <2>6, <3>1
  <2> HIDE DEF eqn, f
  <2> QED
    BY <2>7
<1>5. eqn(iter)
  <2> HIDE DEF eqn
  <2> QED
    BY <1>4
<1> HIDE DEF iter
<1>6. \A i \in 1 .. Len(s) : iter[i] = IF i = 1 THEN s[i] ELSE iter[i - 1] \o s[i]
  BY <1>5
<1>7. DOMAIN iter = 1 .. Len(s) /\ iter = [i \in 1 .. Len(s) |-> iter[i]]
  BY <1>5
<1> HIDE DEF eqn
<1>8. \A i \in 1 .. Len(s) : iter[i] \in Seq(B)
  <2> DEFINE U == {i \in 0 .. Len(s) : i # 0 => iter[i] \in Seq(B)}
  <2>1. ASSUME NEW i \in 1 .. Len(s), i - 1 \in U
        PROVE  i \in U
    <3>1. iter[i] = s[i] \/ (i - 1 # 0 /\ iter[i] = iter[i - 1] \o s[i])
      <4>1. i # 1 => i - 1 # 0
        BY <1>1
      <4> QED
        BY <1>6, <4>1
    <3>2. s[i] \in Seq(B)
      BY <1>3
    <3>3. i - 1 # 0 => iter[i - 1] \o s[i] \in Seq(B)
      <4> SUFFICES ASSUME i - 1 # 0 PROVE iter[i - 1] \o s[i] \in Seq(B)
        OBVIOUS
      <4>1. iter[i - 1] \in Seq(B)
        BY <2>1
      <4> QED
        BY <3>2, <4>1
    <3>4. iter[i] \in Seq(B)
      BY <3>1, <3>2, <3>3
    <3> QED
      BY <1>1, <3>4
  <2>2. 0 \in U
    BY <1>1
  <2>3. \A i \in 0 .. Len(s) : i \in U
    <3>1. \A i \in 1 .. Len(s) : i - 1 \in U => i \in U
      BY <2>1
    <3> HIDE DEF U
    <3> QED
      BY <1>1, <2>2, <3>1, UpTo
  <2> QED
    BY <2>3
<1>9. iter \in [1 .. Len(s) -> Seq(B)]
  BY <1>7, <1>8
<1>10. FlattenSeq(s) = iter[Len(s)] /\ iter[1] = s[1]
  BY <1>1, <1>2, <1>6
<1>11. ASSUME NEW i \in 2 .. Len(s)
       PROVE  iter[i] = iter[i - 1] \o s[i]
  <2>1. i \in 1 .. Len(s) /\ i # 1
    BY <1>1
  <2> QED
    BY <1>6, <2>1
<1> QED
  BY <1>9, <1>10, <1>11 DEF Joins

(* One more row, joined.                                                   *)
LEMMA FlattenAppend ==
  ASSUME NEW B
  PROVE  /\ FlattenSeq(<<>>) = <<>>
         /\ \A s \in Seq(Seq(B)) : FlattenSeq(s) \in Seq(B)
         /\ \A s \in Seq(Seq(B)), r \in Seq(B) :
              FlattenSeq(Append(s, r)) = FlattenSeq(s) \o r
<1>1. FlattenSeq(<<>>) = <<>>
  BY DEF FlattenSeq
<1>2. <<>> \in Seq(B)
  OBVIOUS
<1>3. ASSUME NEW s \in Seq(Seq(B))
      PROVE  FlattenSeq(s) \in Seq(B)
  <2>1. CASE s = <<>>
    BY <1>1, <1>2, <2>1
  <2>2. CASE s # <<>>
    <3>1. PICK f : Joins(f, s, B)
      BY <2>2, FlattenSteps
    <3>2. Len(s) \in 1 .. Len(s)
      BY <2>2
    <3> QED
      BY <3>1, <3>2 DEF Joins
  <2> QED
    BY <2>1, <2>2
<1>4. ASSUME NEW s \in Seq(Seq(B)), NEW r \in Seq(B)
      PROVE  FlattenSeq(Append(s, r)) = FlattenSeq(s) \o r
  <2> DEFINE n == Len(s)
             t == Append(s, r)
  <2>1. n \in Nat /\ t \in Seq(Seq(B)) /\ Len(t) = n + 1
    OBVIOUS
  <2>2. t[n + 1] = r /\ \A i \in 1 .. n : t[i] = s[i]
    BY AppendProperties
  <2> HIDE DEF t
  <2>3. t # <<>>
    BY <2>1
  <2>4. PICK f : Joins(f, t, B)
    BY <2>1, <2>3, FlattenSteps
  <2>5. FlattenSeq(t) = f[n + 1] /\ f[1] = t[1] /\ \A i \in 2 .. (n + 1) : f[i] = f[i - 1] \o t[i]
    BY <2>1, <2>4 DEF Joins
  <2>6. CASE s = <<>>
    <3>1. n = 0
      BY <2>6
    <3>2. FlattenSeq(t) = r
      BY <2>5, <2>2, <3>1
    <3>3. <<>> \o r = r
      OBVIOUS
    <3> QED
      BY <1>1, <2>6, <3>2, <3>3 DEF t
  <2>7. CASE s # <<>>
    <3>1. n \in Nat \ {0}
      BY <2>7
    <3>2. PICK g : Joins(g, s, B)
      BY <2>7, FlattenSteps
    <3>3. FlattenSeq(s) = g[n] /\ g[1] = s[1] /\ \A i \in 2 .. n : g[i] = g[i - 1] \o s[i]
      BY <3>2 DEF Joins
    <3> HIDE DEF n
    <3> DEFINE U == {i \in 0 .. n : i # 0 => f[i] = g[i]}
    <3>4. ASSUME NEW i \in 1 .. n, i - 1 \in U
          PROVE  f[i] = g[i]
      <4>1. CASE i = 1
        BY <2>5, <2>2, <3>3, <4>1
      <4>2. CASE i # 1
        <5>1. i \in 2 .. n /\ i \in 2 .. (n + 1) /\ i - 1 # 0
          BY <2>1, <4>2
        <5>2. f[i - 1] = g[i - 1]
          BY <3>4, <5>1
        <5>3. f[i] = f[i - 1] \o t[i] /\ g[i] = g[i - 1] \o s[i] /\ t[i] = s[i]
          BY <2>5, <2>2, <3>3, <5>1
        <5> QED
          BY <5>2, <5>3
      <4> QED
        BY <4>1, <4>2
    <3>5. \A i \in 0 .. n : i \in U
      <4>1. \A i \in 1 .. n : i - 1 \in U => i \in U
        BY <2>1, <3>4
      <4>2. 0 \in U
        BY <2>1
      <4> HIDE DEF U
      <4> QED
        BY <2>1, <4>1, <4>2, UpTo
    <3>6. f[n] = g[n]
      <4>1. n \in 0 .. n /\ n # 0
        BY <3>1
      <4> QED
        BY <3>5, <4>1
    <3>7. f[n + 1] = f[n] \o r
      <4>1. n + 1 \in 2 .. (n + 1) /\ (n + 1) - 1 = n
        BY <3>1
      <4> QED
        BY <2>5, <2>2, <4>1
    <3> QED
      BY <2>5, <3>3, <3>6, <3>7 DEF t
  <2> QED
    BY <2>6, <2>7
<1> QED
  BY <1>1, <1>3, <1>4

(* A row of the grid that is not the last is full, or has a heading beside *)
(* it or in it.                                                            *)
RowFits(out, i) ==
  \/ Len(out[i]) = GridColumns
  \/ /\ Len(out[i]) < GridColumns
     /\ out[i][1] \in Header \/ (i + 1 \in DOMAIN out /\ out[i + 1][1] \in Header)

(* What is written, and the row being filled, in order.                    *)
Shown(a)  == FlattenSeq(a.out) \o a.row
InGrid(a) == Len(a.row) < GridColumns /\ \A i \in DOMAIN a.out : RowFits(a.out, i)

(* Another row does not unsettle those before it.                          *)
LEMMA RowsStay ==
  ASSUME NEW B, NEW out \in Seq(Seq(B)), NEW r \in Seq(B),
         \A i \in DOMAIN out : RowFits(out, i)
  PROVE  /\ Append(out, r) \in Seq(Seq(B))
         /\ DOMAIN Append(out, r) = DOMAIN out \cup {Len(out) + 1}
         /\ Append(out, r)[Len(out) + 1] = r
         /\ \A i \in DOMAIN out : RowFits(Append(out, r), i)
<1>1. /\ Append(out, r) \in Seq(Seq(B)) /\ Len(Append(out, r)) = Len(out) + 1
      /\ \A i \in 1 .. Len(out) : Append(out, r)[i] = out[i]
      /\ Append(out, r)[Len(out) + 1] = r
  BY AppendProperties
<1>2. DOMAIN out = 1 .. Len(out) /\ Len(out) \in Nat
  OBVIOUS
<1>3. DOMAIN Append(out, r) = 1 .. (Len(out) + 1)
  BY <1>1
<1>4. 1 .. (Len(out) + 1) = (1 .. Len(out)) \cup {Len(out) + 1}
  BY <1>2
<1> HIDE DEF Append
<1>5. ASSUME NEW i \in DOMAIN out
      PROVE  RowFits(Append(out, r), i)
  <2>1. RowFits(out, i) /\ Append(out, r)[i] = out[i]
    BY <1>1, <1>2
  <2>2. i + 1 \in DOMAIN out => i + 1 \in DOMAIN Append(out, r)
                                  /\ Append(out, r)[i + 1] = out[i + 1]
    BY <1>1, <1>2, <1>3, <1>4
  <2> QED
    BY <2>1, <2>2 DEF RowFits
<1> QED
  BY <1>1, <1>2, <1>3, <1>4, <1>5

(* A full row is written; then the next one is empty.                      *)
LEMMA FullRow ==
  ASSUME NEW B, NEW out \in Seq(Seq(B)), NEW r \in Seq(B),
         \A i \in DOMAIN out : RowFits(out, i), Len(r) = GridColumns
  PROVE  LET b == Flush([out |-> out, row |-> r])
         IN  InGrid(b) /\ Shown(b) = FlattenSeq(out) \o r
<1>1. r # <<>> /\ 0 < GridColumns /\ Len(<<>>) = 0
  BY BoundsAssumption
<1> DEFINE o == Append(out, r)
<1>2. Flush([out |-> out, row |-> r]) = [out |-> o, row |-> <<>>]
  BY <1>1 DEF Flush
<1>3. /\ DOMAIN o = DOMAIN out \cup {Len(out) + 1} /\ o[Len(out) + 1] = r
      /\ \A i \in DOMAIN out : RowFits(o, i)
  BY RowsStay
<1>4. FlattenSeq(o) = FlattenSeq(out) \o r
  BY FlattenAppend
<1>5. FlattenSeq(out) \o r \in Seq(B)
  <2>1. FlattenSeq(out) \in Seq(B)
    BY FlattenAppend
  <2> QED
    BY <2>1
<1> HIDE DEF o
<1>6. \A i \in DOMAIN o : RowFits(o, i)
  BY <1>3 DEF RowFits
<1>7. FlattenSeq(o) \o <<>> = FlattenSeq(out) \o r
  BY <1>4, <1>5, ConcatEmptySeq
<1>8. InGrid([out |-> o, row |-> <<>>])
  BY <1>1, <1>6 DEF InGrid
<1>9. Shown([out |-> o, row |-> <<>>]) = FlattenSeq(out) \o r
  BY <1>7 DEF Shown
<1> QED
  BY <1>2, <1>8, <1>9

(* Placing an item shows it after the others.                              *)
LEMMA PlaceShows ==
  ASSUME NEW B, NEW a \in Written(B), NEW x \in B, InGrid(a)
  PROVE  InGrid(Place(a, x)) /\ Shown(Place(a, x)) = Append(Shown(a), x)
<1> DEFINE out == a.out
           row == a.row
           f   == FlattenSeq(out)
<1>1. out \in Seq(Seq(B)) /\ row \in Seq(B) /\ a = [out |-> out, row |-> row]
  BY DEF Written
<1>2. f \in Seq(B)
  BY <1>1, FlattenAppend
<1>3. \A i \in DOMAIN out : RowFits(out, i)
  BY DEF InGrid
<1>4. Shown(a) = f \o row /\ Len(row) < GridColumns
  BY DEF Shown, InGrid
<1>5. <<x>> \in Seq(B) /\ Len(<<x>>) = 1 /\ <<x>>[1] = x /\ <<>> \in Seq(B) /\ Len(<<>>) = 0
  OBVIOUS
<1>6. GridColumns \in Nat /\ 0 < GridColumns
  BY BoundsAssumption
<1> HIDE DEF out, row, f
<1>7. CASE x \notin Header
  <2> DEFINE r == Append(row, x)
             b == [out |-> out, row |-> r]
  <2>1. r \in Seq(B) /\ Len(r) = Len(row) + 1 /\ Len(row) \in Nat
    BY <1>1
  <2>2. f \o r = Append(f \o row, x)
    <3>1. r = row \o <<x>>
      BY <1>1, AppendIsConcat
    <3>2. Append(f \o row, x) = (f \o row) \o <<x>>
      <4>1. f \o row \in Seq(B)
        BY <1>1, <1>2
      <4> QED
        BY <4>1, AppendIsConcat
    <3>3. (f \o row) \o <<x>> = f \o (row \o <<x>>)
      BY <1>1, <1>2, <1>5, ConcatAssociative
    <3> QED
      BY <3>1, <3>2, <3>3
  <2>3. Place(a, x) = LET c == [a EXCEPT !.row = r]
                      IN IF Len(c.row) = GridColumns THEN Flush(c) ELSE c
    BY <1>7, <1>1 DEF Place
  <2> HIDE DEF r
  <2>4. [a EXCEPT !.row = r] = b
    BY <1>1
  <2>5. CASE Len(r) = GridColumns
    <3>1. Place(a, x) = Flush(b)
      BY <2>3, <2>4, <2>5
    <3>2. InGrid(Flush(b)) /\ Shown(Flush(b)) = f \o r
      BY <1>1, <1>3, <2>1, <2>5, FullRow DEF f
    <3> QED
      BY <1>4, <2>2, <3>1, <3>2
  <2>6. CASE Len(r) # GridColumns
    <3>1. Place(a, x) = b
      BY <2>3, <2>4, <2>6
    <3>2. InGrid(b)
      BY <1>3, <1>4, <1>6, <2>1, <2>6 DEF InGrid
    <3>3. Shown(b) = f \o r
      BY DEF Shown, f
    <3> QED
      BY <1>4, <2>2, <3>1, <3>2, <3>3
  <2> QED
    BY <2>5, <2>6
<1>8. CASE x \in Header
  <2> DEFINE o == Flush(a).out
             p == Append(o, <<x>>)
  <2>1. /\ o \in Seq(Seq(B)) /\ Flush(a).row = <<>> /\ FlattenSeq(o) = f \o row
        /\ \A i \in DOMAIN p : RowFits(p, i)
    <3>1. CASE row = <<>>
      <4>1. Flush(a) = [out |-> out, row |-> <<>>]
        BY <1>1, <3>1 DEF Flush
      <4>2. f \o row = f
        BY <1>2, <3>1, ConcatEmptySeq
      <4>3. o = out
        BY <4>1
      <4>4. /\ DOMAIN p = DOMAIN out \cup {Len(out) + 1} /\ p[Len(out) + 1] = <<x>>
            /\ \A i \in DOMAIN out : RowFits(p, i)
        <5> DEFINE q == Append(out, <<x>>)
        <5>1. /\ DOMAIN q = DOMAIN out \cup {Len(out) + 1} /\ q[Len(out) + 1] = <<x>>
              /\ \A i \in DOMAIN out : RowFits(q, i)
          <6> DEFINE h == <<x>>
          <6>1. h \in Seq(B)
            BY <1>5
          <6> HIDE DEF h
          <6>2. /\ DOMAIN Append(out, h) = DOMAIN out \cup {Len(out) + 1}
                /\ Append(out, h)[Len(out) + 1] = h
                /\ \A i \in DOMAIN out : RowFits(Append(out, h), i)
            BY <1>1, <1>3, <6>1, RowsStay
          <6> QED
            BY <6>2 DEF h
        <5>2. p = q
          BY <4>3
        <5> HIDE DEF p, q
        <5> QED
          BY <5>1, <5>2
      <4> HIDE DEF o, p
      <4>5. RowFits(p, Len(out) + 1)
        BY <1>5, <1>6, <1>8, <4>4 DEF RowFits
      <4> QED
        BY <1>1, <4>1, <4>2, <4>3, <4>4, <4>5 DEF f, o
    <3>2. CASE row # <<>>
      <4>1. Flush(a) = [out |-> Append(out, row), row |-> <<>>]
        BY <1>1, <3>2 DEF Flush
      <4>2. o = Append(out, row)
        BY <4>1
      <4>3. FlattenSeq(o) = f \o row
        BY <1>1, <4>2, FlattenAppend DEF f
      <4>4. /\ o \in Seq(Seq(B)) /\ DOMAIN o = DOMAIN out \cup {Len(out) + 1}
            /\ o[Len(out) + 1] = row /\ \A i \in DOMAIN out : RowFits(o, i)
        <5> DEFINE q == Append(out, row)
        <5>1. /\ q \in Seq(Seq(B)) /\ DOMAIN q = DOMAIN out \cup {Len(out) + 1}
              /\ q[Len(out) + 1] = row /\ \A i \in DOMAIN out : RowFits(q, i)
          BY <1>1, <1>3, RowsStay
        <5>2. o = q
          BY <4>2
        <5> HIDE DEF o, q
        <5> QED
          BY <5>1, <5>2
      <4>5. /\ Len(o) = Len(out) + 1 /\ Len(o) \in Nat /\ Len(out) \in Nat
            /\ DOMAIN out = 1 .. Len(out)
        BY <1>1, <4>2
      <4>6. /\ DOMAIN p = 1 .. (Len(o) + 1) /\ p[Len(o) + 1] = <<x>>
            /\ \A i \in 1 .. Len(o) : p[i] = o[i]
        BY <1>5, <4>4, AppendProperties
      <4> HIDE DEF o, p
      <4>7. ASSUME NEW i \in DOMAIN p
            PROVE  RowFits(p, i)
        <5>1. CASE i \in DOMAIN out
          <6>1. RowFits(o, i) /\ p[i] = o[i]
            BY <4>4, <4>5, <4>6, <5>1
          <6>2. i + 1 \in DOMAIN o => i + 1 \in DOMAIN p /\ p[i + 1] = o[i + 1]
            BY <4>4, <4>5, <4>6, <5>1
          <6> QED
            BY <6>1, <6>2 DEF RowFits
        <5>2. CASE i = Len(out) + 1
          <6>1. p[i] = row /\ i + 1 \in DOMAIN p /\ p[i + 1] = <<x>>
            BY <4>4, <4>5, <4>6, <5>2
          <6> QED
            BY <6>1, <1>4, <1>5, <1>8 DEF RowFits
        <5>3. CASE i = Len(o) + 1
          <6>1. p[i] = <<x>>
            BY <4>6, <5>3
          <6> QED
            BY <6>1, <1>5, <1>6, <1>8 DEF RowFits
        <5> QED
          BY <4>5, <4>6, <5>1, <5>2, <5>3
      <4> QED
        BY <4>1, <4>3, <4>4, <4>7
    <3> QED
      BY <3>1, <3>2
  <2>2. Place(a, x) = [out |-> p, row |-> <<>>]
    <3>1. Flush(a) = [out |-> o, row |-> <<>>]
      BY <1>1, <2>1 DEF Flush
    <3>2. Place(a, x) = [Flush(a) EXCEPT !.out = p]
      BY <1>8 DEF Place
    <3> HIDE DEF o, p
    <3> QED
      BY <3>1, <3>2
  <2>3. FlattenSeq(p) = (f \o row) \o <<x>>
    BY <1>5, <2>1, FlattenAppend
  <2>4. f \o row \in Seq(B)
    BY <1>1, <1>2
  <2>5. (f \o row) \o <<x>> = Append(f \o row, x) /\ (f \o row) \o <<x>> \in Seq(B)
    BY <1>5, <2>4, AppendIsConcat
  <2> HIDE DEF p, o
  <2>6. FlattenSeq(p) \o <<>> = Append(f \o row, x)
    BY <2>3, <2>5, ConcatEmptySeq
  <2> QED
    BY <1>4, <1>5, <1>6, <2>1, <2>2, <2>6 DEF InGrid, Shown
<1> QED
  BY <1>7, <1>8

(* The grid shows every item once and in order, in rows that fit.          *)
LEMMA GridIsWhole ==
  ASSUME NEW B, NEW data \in Seq(B)
  PROVE  LET rows == ToGridRows(data)
         IN  /\ FlattenSeq(rows) = data
             /\ \A i \in DOMAIN rows :
                  \/ Len(rows[i]) = GridColumns
                  \/ Len(rows[i]) < GridColumns
                       /\ (i = Len(rows) \/ rows[i][1] \in Header \/ rows[i + 1][1] \in Header)
<1> DEFINE n == Len(data)
           upto(i) == SubSeq(data, 1, i)
<1>1. n \in Nat /\ 0 \in 0 .. n /\ n \in 0 .. n
  OBVIOUS
<1>2. upto(0) = <<>> /\ upto(n) = data
  BY SubSeqEmpty, SubSeqFull
<1>3. ASSUME NEW i \in 1 .. n
      PROVE  data[i] \in B /\ upto(i) = Append(upto(i - 1), data[i])
  <2>1. data[i] \in B /\ 1 \in 1 .. n /\ i \in 1 .. n /\ i - 1 \in Int
    OBVIOUS
  <2>2. upto(i) = upto(i - 1) \o <<data[i]>>
    BY <2>1, SubSeqRecursiveSecond
  <2>3. upto(i - 1) \in Seq(B)
    <3>1. \A j \in 1 .. (i - 1) : data[j] \in B
      OBVIOUS
    <3> QED
      BY <2>1, <3>1, SubSeqProperties
  <2> HIDE DEF upto
  <2> QED
    BY <2>1, <2>2, <2>3, AppendIsConcat
<1>4. PICK h \in [0 .. n -> Written(B)] :
        /\ h[0] = Blank /\ FoldLeft(Place, Blank, data) = h[n]
        /\ \A i \in 1 .. n : h[i] = Place(h[i - 1], data[i])
  BY PlaceSteps
<1> HIDE DEF upto, n
<1> DEFINE U == {i \in 0 .. n : InGrid(h[i]) /\ Shown(h[i]) = upto(i)}
<1>5. 0 \in U
  <2>1. InGrid(Blank)
    <3>1. Len(<<>>) = 0 /\ DOMAIN <<>> = {} /\ 0 < GridColumns
      BY BoundsAssumption
    <3> QED
      BY <3>1 DEF InGrid, Blank
  <2>2. Shown(Blank) = <<>>
    BY FlattenAppend DEF Shown, Blank
  <2> QED
    BY <1>1, <1>2, <1>4, <2>1, <2>2
<1>6. ASSUME NEW i \in 1 .. n, i - 1 \in U
      PROVE  i \in U
  <2>1. i - 1 \in 0 .. n /\ h[i - 1] \in Written(B) /\ i \in 0 .. n
    BY <1>1, <1>4
  <2>2. InGrid(h[i - 1]) /\ Shown(h[i - 1]) = upto(i - 1)
    BY <1>6
  <2>3. h[i] = Place(h[i - 1], data[i]) /\ data[i] \in B
    BY <1>3, <1>4
  <2>4. InGrid(h[i]) /\ Shown(h[i]) = Append(upto(i - 1), data[i])
    BY <2>1, <2>2, <2>3, PlaceShows
  <2> QED
    BY <1>3, <2>1, <2>4
<1>7. n \in U
  <2>1. \A i \in 1 .. n : i - 1 \in U => i \in U
    BY <1>6
  <2> HIDE DEF U
  <2> QED
    BY <1>1, <1>5, <2>1, UpTo
<1> DEFINE a == h[n]
           rows == ToGridRows(data)
<1>8. a \in Written(B) /\ InGrid(a) /\ Shown(a) = data
  BY <1>1, <1>2, <1>4, <1>7
<1>9. rows = Flush(a).out
  BY <1>4 DEF ToGridRows, Blank
<1> HIDE DEF a, rows
<1>10. /\ a.out \in Seq(Seq(B)) /\ a.row \in Seq(B)
       /\ \A i \in DOMAIN a.out : RowFits(a.out, i)
  BY <1>8 DEF Written, InGrid
<1>11. CASE a.row = <<>>
  <2>1. rows = a.out
    BY <1>9, <1>11 DEF Flush
  <2>2. FlattenSeq(rows) = data
    <3>1. FlattenSeq(a.out) \in Seq(B)
      BY <1>10, FlattenAppend
    <3>2. FlattenSeq(a.out) \o <<>> = FlattenSeq(a.out)
      BY <3>1, ConcatEmptySeq
    <3> QED
      BY <1>8, <1>11, <2>1, <3>2 DEF Shown
  <2> QED
    BY <1>10, <2>1, <2>2 DEF RowFits, rows
<1>12. CASE a.row # <<>>
  <2> DEFINE p == Append(a.out, a.row)
  <2>1. rows = p
    BY <1>9, <1>12 DEF Flush
  <2>2. FlattenSeq(rows) = data
    BY <1>8, <1>10, <2>1, FlattenAppend DEF Shown
  <2>3. /\ DOMAIN p = DOMAIN a.out \cup {Len(a.out) + 1} /\ p[Len(a.out) + 1] = a.row
        /\ \A i \in DOMAIN a.out : RowFits(p, i)
    <3> DEFINE out == a.out
               row == a.row
    <3>1. out \in Seq(Seq(B)) /\ row \in Seq(B) /\ \A i \in DOMAIN out : RowFits(out, i)
      BY <1>10
    <3> HIDE DEF out, row
    <3>2. /\ DOMAIN Append(out, row) = DOMAIN out \cup {Len(out) + 1}
          /\ Append(out, row)[Len(out) + 1] = row
          /\ \A i \in DOMAIN out : RowFits(Append(out, row), i)
      BY <3>1, RowsStay
    <3> QED
      BY <3>2 DEF out, row
  <2>4. Len(p) = Len(a.out) + 1 /\ Len(a.row) < GridColumns
    BY <1>8, <1>10 DEF InGrid
  <2> HIDE DEF p
  <2> QED
    BY <2>1, <2>2, <2>3, <2>4 DEF RowFits, rows
<1> QED
  BY <1>11, <1>12

(* Cards, one to a row, show every item once and in order.                 *)
LEMMA CardsAreWhole ==
  ASSUME NEW B, NEW s \in Seq(B)
  PROVE  FlattenSeq([i \in DOMAIN s |-> <<s[i]>>]) = s
<1> DEFINE rows == [i \in DOMAIN s |-> <<s[i]>>]
           n == Len(s)
<1>1. /\ n \in Nat /\ DOMAIN s = 1 .. n /\ rows \in Seq(Seq(B)) /\ Len(rows) = n
      /\ \A i \in 1 .. n : s[i] \in B /\ rows[i] = <<s[i]>>
  <2>1. n \in Nat /\ DOMAIN s = 1 .. n /\ \A i \in 1 .. n : s[i] \in B
    OBVIOUS
  <2>2. \A i \in 1 .. n : <<s[i]>> \in Seq(B)
    BY <2>1
  <2>3. rows \in [1 .. n -> Seq(B)]
    BY <2>1, <2>2
  <2>4. rows \in Seq(Seq(B)) /\ Len(rows) = n
    <3> HIDE DEF rows
    <3> QED
      BY <2>1, <2>3
  <2> QED
    BY <2>1, <2>4
<1> HIDE DEF rows, n
<1>2. CASE n = 0
  <2>1. s = <<>> /\ rows = <<>>
    BY <1>1, <1>2 DEF n
  <2>2. FlattenSeq(<<>>) = <<>>
    BY FlattenAppend
  <2> QED
    BY <2>1, <2>2 DEF rows
<1>3. CASE n # 0
  <2>1. rows # <<>>
    BY <1>1, <1>3
  <2>2. PICK f : Joins(f, rows, B)
    BY <1>1, <2>1, FlattenSteps
  <2>3. FlattenSeq(rows) = f[n] /\ f[1] = rows[1] /\ \A i \in 2 .. n : f[i] = f[i - 1] \o rows[i]
    BY <1>1, <2>2 DEF Joins
  <2> DEFINE U == {i \in 0 .. n : i # 0 => f[i] = SubSeq(s, 1, i)}
  <2>4. ASSUME NEW i \in 1 .. n, i - 1 \in U
        PROVE  i \in U
    <3>1. /\ i \in 0 .. n /\ i - 1 \in Int /\ i \in Int
          /\ 1 \in 1 .. Len(s) /\ i \in 1 .. Len(s) /\ rows[i] = <<s[i]>>
      BY <1>1 DEF n
    <3>2. SubSeq(s, 1, i) = SubSeq(s, 1, i - 1) \o <<s[i]>>
      BY <3>1, SubSeqRecursiveSecond
    <3>3. CASE i = 1
      <4>1. SubSeq(s, 1, 0) = <<>> /\ <<>> \o <<s[1]>> = <<s[1]>>
        BY SubSeqEmpty
      <4>2. SubSeq(s, 1, 1) = <<s[1]>>
        <5>1. i - 1 = 0
          BY <3>3
        <5>2. SubSeq(s, 1, i) = <<>> \o <<s[i]>>
          BY <3>2, <4>1, <5>1
        <5> QED
          BY <3>3, <4>1, <5>2
      <4> QED
        BY <2>3, <3>1, <3>3, <4>2
    <3>4. CASE i # 1
      <4>1. i \in 2 .. n /\ i - 1 # 0
        BY <1>1, <3>4
      <4>2. f[i - 1] = SubSeq(s, 1, i - 1)
        BY <2>4, <4>1
      <4>3. f[i] = SubSeq(s, 1, i)
        BY <2>3, <3>1, <3>2, <4>1, <4>2
      <4> QED
        BY <3>1, <4>3
    <3> QED
      BY <3>3, <3>4
  <2>5. n \in U
    <3>1. \A i \in 1 .. n : i - 1 \in U => i \in U
      BY <2>4
    <3>2. 0 \in U /\ n \in 0 .. n
      BY <1>1
    <3> HIDE DEF U
    <3> QED
      BY <1>1, <3>1, <3>2, UpTo
  <2>6. f[n] = SubSeq(s, 1, n)
    BY <1>3, <2>5
  <2>7. SubSeq(s, 1, n) = s
    BY SubSeqFull DEF n
  <2> QED
    BY <2>3, <2>6, <2>7 DEF rows
<1> QED
  BY <1>2, <1>3

-----------------------------------------------------------------------------
(* The lists of Shops.                                                     *)

(* Filtering two sequences one after the other, and one whose elements are *)
(* all kept, or none.                                                      *)
LEMMA WithinConcat ==
  ASSUME NEW B, NEW T
  PROVE  /\ \A s \in Seq(B) : Within(s, T) \in Seq(B)
         /\ \A s, t \in Seq(B) : Within(s \o t, T) = Within(s, T) \o Within(t, T)
<1> SUFFICES ASSUME NEW s \in Seq(B), NEW t \in Seq(B)
             PROVE  Within(s, T) \in Seq(B) /\ Within(s \o t, T) = Within(s, T) \o Within(t, T)
  OBVIOUS
<1> DEFINE u == s \o t
           m == Len(s)
           n == Len(t)
<1>1. /\ m \in Nat /\ n \in Nat /\ u \in Seq(B) /\ Len(u) = m + n
      /\ \A i \in 1 .. m : u[i] = s[i]
      /\ \A i \in 1 .. n : t[i] \in B /\ u[m + i] = t[i]
  <2>1. m \in Nat /\ n \in Nat
    OBVIOUS
  <2>2. /\ u \in Seq(B) /\ Len(u) = m + n
        /\ \A i \in 1 .. (m + n) : u[i] = IF i <= m THEN s[i] ELSE t[i - m]
    BY ConcatProperties
  <2>3. \A i \in 1 .. n : t[i] \in B
    OBVIOUS
  <2> HIDE DEF u, m, n
  <2>4. \A i \in 1 .. m : i \in 1 .. (m + n) /\ i <= m
    BY <2>1
  <2>5. \A i \in 1 .. n : m + i \in 1 .. (m + n) /\ ~(m + i <= m) /\ (m + i) - m = i
    BY <2>1
  <2> QED
    BY <2>1, <2>2, <2>3, <2>4, <2>5
<1>2. PICK f : Filters(f, s, T, B)
  BY WithinSteps
<1>3. PICK g : Filters(g, t, T, B)
  BY WithinSteps
<1>4. PICK h : Filters(h, u, T, B)
  <2> HIDE DEF u
  <2> QED
    BY <1>1, WithinSteps
<1>5. /\ f \in [0 .. m -> Seq(B)] /\ f[0] = <<>> /\ Within(s, T) = f[m]
      /\ \A i \in 1 .. m : f[i] = IF s[i] \in T THEN Append(f[i - 1], s[i]) ELSE f[i - 1]
  BY <1>2 DEF Filters
<1>6. /\ g \in [0 .. n -> Seq(B)] /\ g[0] = <<>> /\ Within(t, T) = g[n]
      /\ \A i \in 1 .. n : g[i] = IF t[i] \in T THEN Append(g[i - 1], t[i]) ELSE g[i - 1]
  BY <1>3 DEF Filters
<1>7. /\ h[0] = <<>> /\ Within(u, T) = h[m + n]
      /\ \A i \in 1 .. (m + n) : h[i] = IF u[i] \in T THEN Append(h[i - 1], u[i]) ELSE h[i - 1]
  <2> HIDE DEF u
  <2> QED
    BY <1>1, <1>4 DEF Filters
<1>8. f[m] \in Seq(B)
  <2> HIDE DEF m
  <2>1. m \in 0 .. m
    BY <1>1
  <2> QED
    BY <1>5, <2>1
<1> HIDE DEF u, m, n
<1> DEFINE U == {i \in 0 .. m : h[i] = f[i]}
           V == {i \in 0 .. n : h[m + i] = f[m] \o g[i]}
<1>9. m \in U
  <2>1. 0 \in U
    BY <1>1, <1>5, <1>7
  <2>2. ASSUME NEW i \in 1 .. m, i - 1 \in U
        PROVE  i \in U
    <3>1. i \in 1 .. (m + n) /\ i \in 0 .. m /\ h[i - 1] = f[i - 1] /\ u[i] = s[i]
      BY <1>1, <2>2
    <3>2. h[i] = IF u[i] \in T THEN Append(h[i - 1], u[i]) ELSE h[i - 1]
      BY <1>7, <3>1
    <3>3. f[i] = IF s[i] \in T THEN Append(f[i - 1], s[i]) ELSE f[i - 1]
      BY <1>5
    <3> QED
      BY <3>1, <3>2, <3>3
  <2>3. \A i \in 1 .. m : i - 1 \in U => i \in U
    BY <2>2
  <2>4. m \in 0 .. m
    BY <1>1
  <2> HIDE DEF U
  <2> QED
    BY <1>1, <2>1, <2>3, <2>4, UpTo
<1>10. n \in V
  <2>1. 0 \in V
    <3>1. f[m] \o <<>> = f[m] /\ m + 0 = m /\ 0 \in 0 .. n
      BY <1>1, <1>8, ConcatEmptySeq
    <3> QED
      BY <1>6, <1>9, <3>1
  <2>2. ASSUME NEW i \in 1 .. n, i - 1 \in V
        PROVE  i \in V
    <3>1. /\ i \in 0 .. n /\ i - 1 \in 0 .. n /\ m + i \in 1 .. (m + n)
          /\ (m + i) - 1 = m + (i - 1) /\ u[m + i] = t[i] /\ t[i] \in B
      <4>1. /\ i \in 0 .. n /\ i - 1 \in 0 .. n /\ m + i \in 1 .. (m + n)
            /\ (m + i) - 1 = m + (i - 1)
        <5>1. m \in Nat /\ n \in Nat
          BY <1>1
        <5> QED
          BY <5>1
      <4>2. u[m + i] = t[i] /\ t[i] \in B
        BY <1>1
      <4> QED
        BY <4>1, <4>2
    <3>2. h[m + (i - 1)] = f[m] \o g[i - 1] /\ g[i - 1] \in Seq(B)
      BY <1>6, <2>2, <3>1
    <3>3. h[m + i] = IF t[i] \in T THEN Append(h[m + (i - 1)], t[i]) ELSE h[m + (i - 1)]
      BY <1>7, <3>1
    <3>4. g[i] = IF t[i] \in T THEN Append(g[i - 1], t[i]) ELSE g[i - 1]
      BY <1>6
    <3>5. Append(f[m] \o g[i - 1], t[i]) = f[m] \o Append(g[i - 1], t[i])
      <4> DEFINE v == f[m]
                 w == g[i - 1]
                 e == t[i]
      <4>1. v \in Seq(B) /\ w \in Seq(B) /\ e \in B
        BY <1>8, <3>1, <3>2
      <4> HIDE DEF v, w, e
      <4>2. v \o w \in Seq(B) /\ <<e>> \in Seq(B)
        BY <4>1
      <4>3. Append(v \o w, e) = (v \o w) \o <<e>> /\ Append(w, e) = w \o <<e>>
        BY <4>1, <4>2, AppendIsConcat
      <4>4. (v \o w) \o <<e>> = v \o (w \o <<e>>)
        BY <4>1, <4>2, ConcatAssociative
      <4> QED
        BY <4>3, <4>4 DEF v, w, e
    <3>6. h[m + i] = f[m] \o g[i]
      <4>1. CASE t[i] \in T
        BY <3>2, <3>3, <3>4, <3>5, <4>1
      <4>2. CASE t[i] \notin T
        BY <3>2, <3>3, <3>4, <4>2
      <4> QED
        BY <4>1, <4>2
    <3> QED
      BY <3>1, <3>6
  <2>3. \A i \in 1 .. n : i - 1 \in V => i \in V
    BY <2>2
  <2>4. n \in 0 .. n
    BY <1>1
  <2> HIDE DEF V
  <2> QED
    BY <1>1, <2>1, <2>3, <2>4, UpTo
<1> QED
  BY <1>5, <1>6, <1>7, <1>8, <1>10 DEF u

(* A sequence is divided by a set and by what else there is.               *)
LEMMA WithinDivides ==
  ASSUME NEW B, NEW s \in Seq(B), NEW T, NEW U, B \subseteq T \cup U, T \cap U = {}
  PROVE  /\ Len(Within(s, T)) + Len(Within(s, U)) = Len(s)
         /\ ToSet(Within(s, T)) = ToSet(s) \cap T
<1> DEFINE n == Len(s)
           upto(i) == {s[j] : j \in 1 .. i}
<1>1. n \in Nat /\ DOMAIN s = 1 .. n /\ n \in 0 .. n /\ \A i \in 1 .. n : s[i] \in B
  OBVIOUS
<1>2. PICK f : Filters(f, s, T, B)
  BY WithinSteps
<1>3. PICK g : Filters(g, s, U, B)
  BY WithinSteps
<1>4. /\ f \in [0 .. n -> Seq(B)] /\ f[0] = <<>> /\ Within(s, T) = f[n]
      /\ \A i \in 1 .. n : f[i] = IF s[i] \in T THEN Append(f[i - 1], s[i]) ELSE f[i - 1]
  BY <1>2 DEF Filters
<1>5. /\ g \in [0 .. n -> Seq(B)] /\ g[0] = <<>> /\ Within(s, U) = g[n]
      /\ \A i \in 1 .. n : g[i] = IF s[i] \in U THEN Append(g[i - 1], s[i]) ELSE g[i - 1]
  BY <1>3 DEF Filters
<1> HIDE DEF n
<1> DEFINE W == {i \in 0 .. n : Len(f[i]) + Len(g[i]) = i /\ ToSet(f[i]) = upto(i) \cap T}
<1>6. 0 \in W
  <2>1. Len(<<>>) = 0 /\ ToSet(<<>>) = {} /\ upto(0) = {} /\ 0 \in 0 .. n
    BY <1>1 DEF ToSet
  <2> QED
    BY <1>4, <1>5, <2>1
<1>7. ASSUME NEW i \in 1 .. n, i - 1 \in W
      PROVE  i \in W
  <2> DEFINE v == f[i - 1]
             w == g[i - 1]
             e == s[i]
  <2>1. i \in 0 .. n /\ i - 1 \in 0 .. n /\ i \in Int /\ e \in B
    BY <1>1
  <2>2. v \in Seq(B) /\ w \in Seq(B)
    BY <1>4, <1>5, <2>1
  <2>3. Len(v) + Len(w) = i - 1 /\ ToSet(v) = upto(i - 1) \cap T
    BY <1>7
  <2>4. upto(i) = upto(i - 1) \cup {e}
    <3>1. 1 .. i = (1 .. (i - 1)) \cup {i}
      BY <1>1
    <3> QED
      BY <3>1
  <2>5. f[i] = (IF e \in T THEN Append(v, e) ELSE v) /\ g[i] = (IF e \in U THEN Append(w, e) ELSE w)
    BY <1>4, <1>5
  <2> HIDE DEF v, w, e, upto
  <2>6. /\ Len(Append(v, e)) = Len(v) + 1 /\ Len(Append(w, e)) = Len(w) + 1
        /\ Len(v) \in Nat /\ Len(w) \in Nat
    BY <2>1, <2>2
  <2>7. ToSet(Append(v, e)) = ToSet(v) \cup {e}
    <3>1. /\ DOMAIN v = 1 .. Len(v) /\ DOMAIN Append(v, e) = 1 .. (Len(v) + 1)
          /\ \A j \in 1 .. Len(v) : Append(v, e)[j] = v[j]
          /\ Append(v, e)[Len(v) + 1] = e
      BY <2>1, <2>2
    <3>2. 1 .. (Len(v) + 1) = (1 .. Len(v)) \cup {Len(v) + 1}
      BY <2>6
    <3> QED
      BY <3>1, <3>2 DEF ToSet
  <2>8. CASE e \in T
    <3>1. e \notin U /\ f[i] = Append(v, e) /\ g[i] = w
      BY <2>5, <2>8
    <3>2. Len(f[i]) + Len(g[i]) = i
      BY <2>1, <2>3, <2>6, <3>1
    <3>3. ToSet(f[i]) = upto(i) \cap T
      BY <2>3, <2>4, <2>7, <2>8, <3>1
    <3> QED
      BY <2>1, <3>2, <3>3
  <2>9. CASE e \notin T
    <3>1. e \in U /\ f[i] = v /\ g[i] = Append(w, e)
      BY <2>1, <2>5, <2>9
    <3>2. Len(f[i]) + Len(g[i]) = i
      BY <2>1, <2>3, <2>6, <3>1
    <3>3. ToSet(f[i]) = upto(i) \cap T
      BY <2>3, <2>4, <2>9, <3>1
    <3> QED
      BY <2>1, <3>2, <3>3
  <2> QED
    BY <2>8, <2>9
<1>8. n \in W
  <2>1. \A i \in 1 .. n : i - 1 \in W => i \in W
    BY <1>7
  <2> HIDE DEF W
  <2> QED
    BY <1>1, <1>6, <2>1, UpTo
<1>9. upto(n) = ToSet(s)
  BY <1>1 DEF ToSet
<1> HIDE DEF upto
<1> QED
  BY <1>4, <1>5, <1>8, <1>9 DEF n

(* A sequence whose elements are all kept; a heading that is not.          *)
LEMMA WithinItself ==
  ASSUME NEW B, NEW s \in Seq(B), NEW T, B \subseteq T
  PROVE  Within(s, T) = s
<1> DEFINE n == Len(s)
<1>1. n \in Nat /\ n \in 0 .. n /\ 0 \in 0 .. n /\ \A i \in 1 .. n : s[i] \in T /\ s[i] \in B
  OBVIOUS
<1>2. PICK h : Filters(h, s, T, B)
  BY WithinSteps
<1>3. /\ h[0] = <<>> /\ Within(s, T) = h[n]
      /\ \A i \in 1 .. n : h[i] = Append(h[i - 1], s[i])
  BY <1>1, <1>2 DEF Filters
<1> DEFINE upto(i) == SubSeq(s, 1, i)
<1>4. upto(0) = <<>> /\ upto(n) = s
  BY SubSeqEmpty, SubSeqFull
<1>5. ASSUME NEW i \in 1 .. n
      PROVE  upto(i) = Append(upto(i - 1), s[i])
  <2>1. s[i] \in B /\ 1 \in 1 .. n /\ i \in 1 .. n /\ i - 1 \in Int
    OBVIOUS
  <2>2. upto(i) = upto(i - 1) \o <<s[i]>>
    BY <2>1, SubSeqRecursiveSecond
  <2>3. upto(i - 1) \in Seq(B)
    <3>1. \A j \in 1 .. (i - 1) : s[j] \in B
      OBVIOUS
    <3> QED
      BY <2>1, <3>1, SubSeqProperties
  <2> HIDE DEF upto
  <2> QED
    BY <2>1, <2>2, <2>3, AppendIsConcat
<1> HIDE DEF n, upto
<1> DEFINE U == {i \in 0 .. n : h[i] = upto(i)}
<1>6. \A i \in 1 .. n : i - 1 \in U => i \in U
  <2> TAKE i \in 1 .. n
  <2>1. i \in 0 .. n /\ h[i] = Append(h[i - 1], s[i]) /\ upto(i) = Append(upto(i - 1), s[i])
    BY <1>1, <1>3, <1>5
  <2> QED
    BY <2>1
<1>7. 0 \in U
  BY <1>1, <1>3, <1>4
<1>8. n \in U
  <2> HIDE DEF U
  <2> QED
    BY <1>1, <1>6, <1>7, UpTo
<1> QED
  BY <1>3, <1>4, <1>8

LEMMA WithinHeading ==
  ASSUME NEW x, NEW T, x \notin T
  PROVE  Within(<<x>>, T) = <<>>
<1> DEFINE s == <<x>>
<1>1. s \in Seq({x}) /\ Len(s) = 1 /\ s[1] = x
  OBVIOUS
<1> HIDE DEF s
<1>2. PICK h : Filters(h, s, T, {x})
  BY <1>1, WithinSteps
<1>3. h[0] = <<>> /\ Within(s, T) = h[1] /\ h[1] = IF s[1] \in T THEN Append(h[0], s[1]) ELSE h[0]
  BY <1>1, <1>2 DEF Filters
<1> QED
  BY <1>1, <1>3 DEF s

(* What is found is shops, or products.                                    *)
LEMMA FilteredIsList ==
  ASSUME shops \in ShopsState
  PROVE  /\ shops.selected = None => Filtered \in Seq(Shop)
         /\ shops.selected # None => Filtered \in Seq(Product)
<1>1. ASSUME shops.selected = None
      PROVE  Filtered \in Seq(Shop)
  BY <1>1, CatalogAssumption, WithinConcat DEF Filtered
<1>2. ASSUME shops.selected # None
      PROVE  Filtered \in Seq(Product)
  <2> DEFINE S == {p \in shops.products : Kept(p)}
             n == Cardinality(S)
  <2>1. S \subseteq Product
    BY DEF ShopsState
  <2>2. Filtered = SetToSeq(S)
    BY <1>2 DEF Filtered
  <2> HIDE DEF S
  <2>3. IsFiniteSet(S)
    BY <2>1, CatalogAssumption, FS_Subset
  <2>4. n \in Nat /\ ExistsBijection(1 .. n, S)
    BY <2>3, FS_CardinalityType
  <2>5. \E f \in [1 .. n -> S] : IsInjective(f)
    BY <2>4 DEF ExistsBijection, Bijection, Injection
  <2>6. SetToSeq(S) \in [1 .. n -> S]
    BY <2>5 DEF SetToSeq
  <2> HIDE DEF n
  <2>7. SetToSeq(S) \in [1 .. n -> Product]
    BY <2>1, <2>6
  <2> QED
    BY <2>2, <2>4, <2>7
<1> QED
  BY <1>1, <1>2

(* Under headings or not, the list has what was found, once.               *)
LEMMA SectionsAreWhole ==
  ASSUME shops \in ShopsState
  PROVE  /\ BaseListData \in Seq(Shop \cup Product \cup Header)
         /\ ToSet(Within(BaseListData, Shop \cup Product)) = ToSet(Filtered)
         /\ Len(Within(BaseListData, Shop \cup Product)) = Len(Filtered)
<1> DEFINE Item == Shop \cup Product
           All  == Shop \cup Product \cup Header
           base == BaseListData
<1>1. Filtered \in Seq(Shop) \/ Filtered \in Seq(Product)
  BY FilteredIsList
<1>2. Filtered \in Seq(Item) /\ Filtered \in Seq(All)
  BY <1>1, SeqMonotonic
<1>3. CASE base = Filtered
  <2>1. Within(Filtered, Item) = Filtered
    BY <1>2, WithinItself
  <2> QED
    BY <1>2, <1>3, <2>1
<1>4. CASE base # Filtered
  <2> DEFINE mine   == Within(Filtered, Mine)
             others == Within(Filtered, Shop \ Mine)
             n      == <<"Near You">>
             o      == <<"Other Regions">>
  <2>1. shops.selected = None /\ base = ((n \o mine) \o o) \o others
    BY <1>4 DEF BaseListData, SectionedStores
  <2>2. Filtered \in Seq(Shop)
    BY <2>1, FilteredIsList
  <2>3. mine \in Seq(Shop) /\ others \in Seq(Shop)
    BY <2>2, WithinConcat
  <2>4. /\ Len(mine) + Len(others) = Len(Filtered)
        /\ ToSet(mine) = ToSet(Filtered) \cap Mine
    BY <2>2, CatalogAssumption, WithinDivides
  <2>5. ToSet(others) = ToSet(Filtered) \cap (Shop \ Mine)
    <3> DEFINE rest == Shop \ Mine
    <3>1. Shop \subseteq rest \cup Mine /\ rest \cap Mine = {}
      OBVIOUS
    <3> HIDE DEF rest
    <3>2. ToSet(Within(Filtered, rest)) = ToSet(Filtered) \cap rest
      BY <2>2, <3>1, WithinDivides
    <3> QED
      BY <3>2 DEF rest
  <2>6. n \in Seq(All) /\ o \in Seq(All)
    BY DEF Header
  <2>7. Within(n, Item) = <<>> /\ Within(o, Item) = <<>>
    BY HeaderAssumption, WithinHeading DEF Header
  <2> HIDE DEF mine, others, n, o, Item
  <2>8. mine \in Seq(All) /\ others \in Seq(All) /\ mine \in Seq(Item) /\ others \in Seq(Item)
    BY <2>3, SeqMonotonic DEF Item
  <2> HIDE DEF All
  <2>9. Within(mine, Item) = mine /\ Within(others, Item) = others
    BY <2>8, WithinItself
  <2>10. n \o mine \in Seq(All) /\ Within(n \o mine, Item) = mine
    <3>1. Within(n \o mine, Item) = <<>> \o mine
      <4>1. Within(n \o mine, Item) = Within(n, Item) \o Within(mine, Item)
        BY <2>6, <2>8, WithinConcat
      <4> QED
        BY <2>7, <2>9, <4>1
    <3> QED
      BY <2>6, <2>8, <3>1, ConcatEmptySeq
  <2>11. (n \o mine) \o o \in Seq(All) /\ Within((n \o mine) \o o, Item) = mine
    <3> DEFINE k == n \o mine
    <3>1. k \in Seq(All) /\ Within(k, Item) = mine
      BY <2>10
    <3> HIDE DEF k
    <3>2. k \o o \in Seq(All) /\ Within(k \o o, Item) = mine \o <<>>
      <4>1. Within(k \o o, Item) = Within(k, Item) \o Within(o, Item)
        BY <2>6, <3>1, WithinConcat
      <4> QED
        BY <2>6, <2>7, <3>1, <4>1
    <3> QED
      BY <2>8, <3>2, ConcatEmptySeq DEF k
  <2>12. base \in Seq(All) /\ Within(base, Item) = mine \o others
    <3> DEFINE k == (n \o mine) \o o
    <3>1. k \in Seq(All) /\ Within(k, Item) = mine
      BY <2>11
    <3> HIDE DEF k
    <3>2. k \o others \in Seq(All) /\ Within(k \o others, Item) = mine \o others
      <4>1. Within(k \o others, Item) = Within(k, Item) \o Within(others, Item)
        BY <2>8, <3>1, WithinConcat
      <4> QED
        BY <2>8, <2>9, <3>1, <4>1
    <3> QED
      BY <2>1, <3>2 DEF k
  <2>13. Len(mine \o others) = Len(Filtered)
    BY <2>3, <2>4
  <2>14. ToSet(mine \o others) = ToSet(mine) \cup ToSet(others)
    <3>1. /\ DOMAIN mine = 1 .. Len(mine) /\ DOMAIN others = 1 .. Len(others)
          /\ Len(mine) \in Nat /\ Len(others) \in Nat
      BY <2>3
    <3>2. /\ mine \o others \in Seq(Shop) /\ Len(mine \o others) = Len(mine) + Len(others)
          /\ \A i \in 1 .. (Len(mine) + Len(others)) : (mine \o others)[i] =
               IF i <= Len(mine) THEN mine[i] ELSE others[i - Len(mine)]
      BY <2>3, ConcatProperties
    <3> DEFINE c == mine \o others
               p == Len(mine)
               q == Len(others)
    <3>3. DOMAIN c = 1 .. (p + q)
      BY <3>2
    <3>4. \A i \in 1 .. (p + q) : c[i] = IF i <= p THEN mine[i] ELSE others[i - p]
      BY <3>2
    <3>5. DOMAIN mine = 1 .. p /\ DOMAIN others = 1 .. q /\ p \in Nat /\ q \in Nat
      BY <3>1
    <3> HIDE DEF c, p, q
    <3>6. \A i \in 1 .. (p + q) : i \in 1 .. p \/ (i - p \in 1 .. q /\ ~(i <= p))
      BY <3>5
    <3>7. \A i \in 1 .. p : i \in 1 .. (p + q) /\ c[i] = mine[i]
      BY <3>4, <3>5
    <3>8. ASSUME NEW i \in 1 .. q
          PROVE  p + i \in 1 .. (p + q) /\ c[p + i] = others[i]
      <4>1. p + i \in 1 .. (p + q) /\ ~(p + i <= p) /\ (p + i) - p = i
        BY <3>5
      <4> QED
        BY <3>4, <4>1
    <3>9. \A i \in 1 .. (p + q) : c[i] \in ToSet(mine) \cup ToSet(others)
      <4> TAKE i \in 1 .. (p + q)
      <4>1. CASE i \in 1 .. p
        BY <3>5, <3>7, <4>1 DEF ToSet
      <4>2. CASE i \notin 1 .. p
        BY <3>4, <3>5, <3>6, <4>2 DEF ToSet
      <4> QED
        BY <4>1, <4>2
    <3>10. ToSet(mine) \subseteq ToSet(c) /\ ToSet(others) \subseteq ToSet(c)
      BY <3>3, <3>5, <3>7, <3>8 DEF ToSet
    <3>11. ToSet(c) \subseteq ToSet(mine) \cup ToSet(others)
      BY <3>3, <3>9 DEF ToSet
    <3> QED
      BY <3>10, <3>11 DEF c
  <2>15. ToSet(mine \o others) = ToSet(Filtered)
    <3>1. ToSet(Filtered) \subseteq Shop
      BY <2>2 DEF ToSet
    <3> QED
      BY <2>4, <2>5, <2>14, <3>1
  <2> HIDE DEF base
  <2>16. base \in Seq(All) /\ ToSet(Within(base, Item)) = ToSet(Filtered)
         /\ Len(Within(base, Item)) = Len(Filtered)
    BY <2>12, <2>13, <2>15
  <2> QED
    BY <2>16 DEF base, All, Item
<1> QED
  BY <1>3, <1>4

(* Whatever is found, the list shows it.                                   *)
LEMMA ListIsWhole ==
  ASSUME shops \in ShopsState
  PROVE  ListShowsEachOnce
<1> DEFINE base == BaseListData
<1>1. base \in Seq(Shop \cup Product \cup Header)
  BY SectionsAreWhole
<1>2. CASE UseGrid
  <2>1. ListData = ToGridRows(base)
    BY <1>2 DEF ListData
  <2> HIDE DEF base
  <2> DEFINE rows == ToGridRows(base)
  <2>2. /\ FlattenSeq(rows) = base
        /\ \A i \in DOMAIN rows :
             \/ Len(rows[i]) = GridColumns
             \/ Len(rows[i]) < GridColumns
                  /\ (i = Len(rows) \/ rows[i][1] \in Header \/ rows[i + 1][1] \in Header)
    BY <1>1, GridIsWhole
  <2> HIDE DEF rows
  <2> QED
    BY <2>1, <2>2, SectionsAreWhole DEF ListShowsEachOnce, base, rows
<1>3. CASE ~UseGrid
  <2>1. ListData = [i \in DOMAIN base |-> <<base[i]>>]
    BY <1>3 DEF ListData
  <2> HIDE DEF base
  <2>2. FlattenSeq([i \in DOMAIN base |-> <<base[i]>>]) = base
    BY <1>1, CardsAreWhole
  <2> QED
    BY <1>3, <2>1, <2>2, SectionsAreWhole DEF ListShowsEachOnce, base
<1> QED
  BY <1>2, <1>3

(* As cards or as rows of a grid, the list of Shops shows each shop or     *)
(* product that was found once and in order, for any catalogue and any     *)
(* threshold and width of the grid (ListShowsEachOnce).                    *)
THEOREM ListIsComplete == Spec => []ListShowsEachOnce
<1>1. FrontInv => ListShowsEachOnce
  BY ListIsWhole DEF FrontInv
<1> QED
  BY <1>1, FrontInvariance, PTL

=============================================================================
