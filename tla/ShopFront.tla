------------------------------ MODULE ShopFront ------------------------------
(***************************************************************************)
(* Browsing shops and filling the cart in the mobile app: Shops, the       *)
(* detail of one shop, the cart, and the store they share (authStore).     *)
(*                                                                         *)
(* Every request answers later, or fails, and its handler's closure then   *)
(* writes into the screen whatever the user did meanwhile.  Screens are    *)
(* pushed on a stack, so Shops stays mounted under the other two.          *)
(*                                                                         *)
(* What a screen offers is an operator per piece of its JSX: the set of    *)
(* taps that piece answers in this state.  Pictures, prices and animations *)
(* are left out.  The order of the lines in the cart object is too: the    *)
(* code's items[0] is some line of the cart.                               *)
(***************************************************************************)
EXTENDS Integers, FiniteSets, Sequences, SequencesExt

CONSTANTS
  Shop, Product, Category,
  ShopList,        \* the shops in the order the server sends them
  Open, Mine,      \* shops that are open; shops of the user's own country
  StoreOf,         \* StoreOf[p]: the shop that sells p
  CategoryOf,      \* CategoryOf[p]: its category
  Found,           \* what the one search text the user may type matches
  GridThreshold, GridColumns,
  MaxPieces,       \* bound: pieces in the cart
  MaxAsked,        \* bound: calls for suggestions under way at once
  None

ASSUME CatalogAssumption ==
  /\ IsFiniteSet(Product)
  /\ StoreOf \in [Product -> Shop] /\ CategoryOf \in [Product -> Category]
  /\ None \notin Shop \cup Product \cup Category
  /\ ShopList \in Seq(Shop) /\ Open \subseteq Shop /\ Mine \subseteq Shop

ASSUME BoundsAssumption ==
  GridThreshold \in Nat /\ GridColumns \in Nat \ {0} /\ MaxPieces \in Nat

VARIABLES
  stack,       \* mounted screens, the visible one last
  cart,        \* cart[p]: pieces of p and the shop the line names
  count,       \* cartCount
  shops,       \* state of Shops, with its calls that have no answer yet
  detail,      \* state of ShopDetail
  basket       \* state of the cart screen

vars == <<stack, cart, count, shops, detail, basket>>

Screen == {"home", "shops", "shop", "cart", "orders", "checkout", "login"}
Top    == stack[Len(stack)]
Absent == [qty |-> 0, store |-> None]
Line   == [qty : Nat \ {0}, store : Shop] \cup {Absent}
Idle   == [left |-> {}, back |-> None]

RefreshState == [left : SUBSET {"shops", "categories", "products"}, back : Category \cup {None}]
ShopsState ==
  [stores : SUBSET Shop, scroller : BOOLEAN, products : SUBSET Product,
   selected : Category \cup {None}, searching : BOOLEAN, loading : BOOLEAN,
   product : Product \cup {None}, sheet : BOOLEAN, closing : BOOLEAN,
   boot    : SUBSET {"shops", "categories"},
   listing : SUBSET (Category \X {"tap", "refresh"}),
   refresh : RefreshState]
DetailState == [shop : Shop \cup {None}, menu : SUBSET Product,
                load : {"loading", "failed", "ready"},
                product : Product \cup {None}]
Offer       == [id : Product, store : Shop]
Ask         == [of : Shop, had : SUBSET Product]
BasketState == [suggested : SUBSET Offer, asked : SUBSET Ask, spinning : BOOLEAN]

(* Every variable has its type: a line of the cart has pieces and a shop,   *)
(* and cartCount is the number of pieces in it.                            *)
TypeOK ==
  /\ stack \in Seq(Screen) /\ stack # <<>>
  /\ cart \in [Product -> Line]
  /\ count = SumFunction([p \in Product |-> cart[p].qty])
  /\ shops \in ShopsState /\ detail \in DetailState /\ basket \in BasketState

-----------------------------------------------------------------------------
(* The cart of authStore.                                                  *)

InCart(p) == cart[p].qty > 0
Lines(c)  == {p \in Product : c[p].qty > 0}
Pieces(c) == SumFunction([p \in Product |-> c[p].qty])

WriteCart(c) == cart' = c /\ count' = Pieces(c)

AddToCart(p, store) ==
  WriteCart([cart EXCEPT ![p] =
    IF InCart(p) THEN [qty |-> cart[p].qty + 1, store |-> cart[p].store]
                 ELSE [qty |-> 1, store |-> store]])

(* Mutant: a line stays when nothing is left of it.                        *)
UpdateKeepsLine(p, q) ==
  WriteCart(IF InCart(p) THEN [cart EXCEPT ![p].qty = q] ELSE cart)

UpdateQuantity(p, q) ==
  WriteCart(IF q <= 0 THEN [cart EXCEPT ![p] = Absent]
            ELSE IF InCart(p) THEN [cart EXCEPT ![p].qty = q]
            ELSE cart)

ClearCart == WriteCart([p \in Product |-> Absent])

Room     == Pieces(cart) < MaxPieces
Plus(p)  == Room /\ UpdateQuantity(p, cart[p].qty + 1)

(* Mutant: the minus button removes the line.                              *)
MinusRemoves(p) == UpdateQuantity(p, 0)

Minus(p) == UpdateQuantity(p, cart[p].qty - 1)

-----------------------------------------------------------------------------
(* What Shops shows.  filtered is recomputed by an effect after every      *)
(* change of its inputs, so it is a function of the state.                 *)

(* filter: what of seq is in S, in its order (a fold: the provers know     *)
(* nothing of SelectSeq).                                                  *)
Within(seq, S) ==
  FoldLeft(LAMBDA kept, x : IF x \in S THEN Append(kept, x) ELSE kept, <<>>, seq)

Kept(x)  == shops.searching => x \in Found
Filtered == IF shops.selected = None
            THEN Within(ShopList, {s \in shops.stores : Kept(s)})
            ELSE SetToSeq({p \in shops.products : Kept(p)})

(* A heading is an object of its own, neither a shop nor a product.        *)
Header == {"Near You", "Other Regions"}

ASSUME HeaderAssumption == Header \cap (Shop \cup Product) = {}

SectionedStores ==
  LET mine   == Within(Filtered, Mine)
      others == Within(Filtered, Shop \ Mine)
  IN IF mine = <<>> \/ others = <<>> THEN Filtered
     ELSE <<"Near You">> \o mine \o <<"Other Regions">> \o others

BaseListData == IF shops.selected = None THEN SectionedStores ELSE Filtered
UseGrid      == Len(Filtered) > GridThreshold

Flush(a) == IF a.row = <<>> THEN a
            ELSE [out |-> Append(a.out, a.row), row |-> <<>>]

Place(a, x) ==
  IF x \in Header
  THEN [Flush(a) EXCEPT !.out = Append(@, <<x>>)]
  ELSE LET b == [a EXCEPT !.row = Append(@, x)]
       IN IF Len(b.row) = GridColumns THEN Flush(b) ELSE b

(* Mutant: the last row, when not full, is not written.                    *)
GridLosesLastRow(data) == FoldLeft(Place, [out |-> <<>>, row |-> <<>>], data).out

ToGridRows(data) == Flush(FoldLeft(Place, [out |-> <<>>, row |-> <<>>], data)).out

ListData == IF UseGrid THEN ToGridRows(BaseListData)
            ELSE [i \in DOMAIN BaseListData |-> <<BaseListData[i]>>]

(* The taps a card answers.  A closed shop's card only shows an alert.     *)
RenderStore(s)          == IF s \in Open THEN {"enter"} ELSE {}
RenderStoreCompact(s)   == IF s \in Open THEN {"enter"} ELSE {}
RenderProduct(p)        == {"open"} \cup IF InCart(p) THEN {"minus", "plus"}
                                                      ELSE {"add"}
RenderProductCompact(p) == {"open"} \cup IF InCart(p) THEN {"plus"} ELSE {"add"}

Card(x) ==
  IF shops.selected = None
  THEN IF UseGrid THEN RenderStoreCompact(x) ELSE RenderStore(x)
  ELSE IF UseGrid THEN RenderProductCompact(x) ELSE RenderProduct(x)

ListReady == Top = "shops" /\ ~shops.loading /\ ~shops.sheet

Offered(x, tap) ==
  ListReady /\ x \in Range(BaseListData) \ Header /\ tap \in Card(x)

CategoryBar == IF ListReady /\ shops.scroller THEN Category \cup {None} ELSE {}

(* The product sheet of Shops: without a product it is an empty backdrop.  *)
SheetOffers ==
  IF Top # "shops" \/ shops.loading \/ ~shops.sheet THEN {}
  ELSE {"close"} \cup
       IF shops.product = None THEN {}
       ELSE IF InCart(shops.product) THEN {"plus", "minus", "buy"}
       ELSE {"add", "buy"}

-----------------------------------------------------------------------------
(* What ShopDetail and the cart screen show.                               *)

RenderFoodItem        == {"open", "add"}
RenderFoodItemCompact == {"open", "add"}

Hero == Top = "shop" /\ detail.load = "ready" /\ detail.product = None

Menu == IF ~Hero THEN {}
        ELSE detail.menu \X IF Cardinality(detail.menu) > GridThreshold
                            THEN RenderFoodItemCompact ELSE RenderFoodItem

DetailSheet ==
  IF Top # "shop" \/ detail.product = None THEN {}
  ELSE {"close", "buy"} \cup IF InCart(detail.product) THEN {"plus", "minus"}
                                                       ELSE {"add"}

RenderItem(p) == IF Top = "cart" /\ InCart(p) THEN {"minus", "plus"} ELSE {}

RenderFeaturedItem ==
  IF Top # "cart" \/ basket.spinning \/ Lines(cart) = {} THEN {}
  ELSE {x \in basket.suggested : ~InCart(x.id)}

CartOffers == IF Top # "cart" THEN {}
              ELSE IF Lines(cart) = {} THEN {"continue"}
              ELSE {"clear", "checkout"}

-----------------------------------------------------------------------------
(* Navigation and mounting.                                                *)

NewShops ==
  [stores |-> {}, scroller |-> FALSE, products |-> {}, selected |-> None,
   searching |-> FALSE, loading |-> TRUE, product |-> None, sheet |-> FALSE,
   closing |-> FALSE, boot |-> {"shops", "categories"}, listing |-> {},
   refresh |-> Idle]
NewDetail(s) == [shop |-> s, menu |-> {}, load |-> "loading", product |-> None]
NewBasket    == [suggested |-> {}, asked |-> {}, spinning |-> FALSE]

(* fetchFeaturedItems runs when the cart gets the focus or changes: the     *)
(* shop of its first line is asked for products; an empty cart clears them. *)
FocusEffect(c, b) ==
  IF Lines(c) = {} THEN {[b EXCEPT !.suggested = {}]}
  ELSE {[b EXCEPT !.asked = @ \cup {[of |-> c[first].store, had |-> Lines(c)]},
                  !.spinning = TRUE] : first \in Lines(c)}

(* Bound: the search changes, and another screen covers Shops, only when   *)
(* no call of Shops is under way.                                          *)
Quiet == shops.boot = {} /\ shops.listing = {} /\ shops.refresh = Idle
         /\ ~shops.closing

EnterShops ==
  /\ Top \in {"home", "login"} /\ stack' = <<"shops">> /\ shops' = NewShops
  /\ UNCHANGED <<cart, count, detail, basket>>

LeaveShops ==                       \* the header's arrow: router.replace
  /\ ListReady /\ stack' = <<"home">> /\ shops' = NewShops
  /\ UNCHANGED <<cart, count, detail, basket>>

EnterOrders ==
  /\ ListReady /\ Quiet /\ stack' = Append(stack, "orders")
  /\ UNCHANGED <<cart, count, shops, detail, basket>>

(* handleLogout: clearAuth empties the cart, Shops gives way to the login.  *)
Logout ==
  /\ ListReady /\ stack' = <<"login">> /\ ClearCart /\ shops' = NewShops
  /\ UNCHANGED <<detail, basket>>

EnterShop(s) ==
  /\ Offered(s, "enter") /\ Quiet /\ stack' = Append(stack, "shop")
  /\ detail' = NewDetail(s) /\ UNCHANGED <<cart, count, shops, basket>>

EnterCart ==                        \* header of Shops, hero of ShopDetail
  /\ (ListReady /\ Quiet) \/ Hero
  /\ stack' = Append(stack, "cart") /\ basket' \in FocusEffect(cart, NewBasket)
  /\ UNCHANGED <<cart, count, shops, detail>>

EnterCheckout ==
  /\ "checkout" \in CartOffers /\ stack' = Append(stack, "checkout")
  /\ UNCHANGED <<cart, count, shops, detail, basket>>

(* The arrow of a screen, "Continue Shopping" or the phone's own gesture.   *)
Back ==
  /\ Len(stack) > 1 /\ (Top = "shop" => detail.product = None)
  /\ stack' = Front(stack)
  /\ basket' \in IF Last(Front(stack)) = "cart" THEN FocusEffect(cart, basket)
                 ELSE {NewBasket}
  /\ detail' = IF Top = "shop" THEN NewDetail(None) ELSE detail
  /\ UNCHANGED <<cart, count, shops>>

-----------------------------------------------------------------------------
(* Shops: loading, search, categories.  Answers reach it while mounted.    *)

OnShops == stack[1] = "shops" /\ UNCHANGED <<stack, cart, count, detail, basket>>

LoadShops(s, ok)      == IF ok THEN [s EXCEPT !.stores = Range(ShopList)] ELSE s
LoadCategories(s, ok) == IF ok THEN [s EXCEPT !.scroller = TRUE] ELSE s

Loaded(s, call, ok) ==
  IF call = "shops" THEN LoadShops(s, ok) ELSE LoadCategories(s, ok)

BootAnswer(call, ok) ==
  /\ OnShops /\ call \in shops.boot
  /\ shops' = [Loaded(shops, call, ok) EXCEPT
                 !.boot = @ \ {call}, !.loading = shops.boot # {call}]

Search == OnShops /\ ListReady /\ Quiet /\ shops' = [shops EXCEPT !.searching = ~@]

AskCategory(s, c, by) ==
  [s EXCEPT !.selected = c, !.loading = TRUE, !.listing = @ \cup {<<c, by>>}]

HandleCategorySelect(c) ==
  /\ OnShops /\ c \in CategoryBar
  /\ shops' = IF c = None THEN [shops EXCEPT !.selected = None, !.products = {}]
              ELSE AskCategory(shops, c, "tap")

(* Mutant: a failed call leaves the spinner.                               *)
FailureKeepsSpinner(c, by, ok) ==
  /\ OnShops /\ <<c, by>> \in shops.listing
  /\ shops' = [shops EXCEPT
       !.listing = @ \ {<<c, by>>}, !.loading = @ /\ ~ok,
       !.products = IF ok THEN {p \in Product : CategoryOf[p] = c} ELSE @,
       !.refresh = IF by = "refresh" THEN Idle ELSE @]

(* The answer writes products and ends the spinner whatever category is    *)
(* selected by now; a failure keeps the products there were.               *)
CategoryAnswer(c, by, ok) ==
  /\ OnShops /\ <<c, by>> \in shops.listing
  /\ shops' = [shops EXCEPT
       !.listing = @ \ {<<c, by>>}, !.loading = FALSE,
       !.products = IF ok THEN {p \in Product : CategoryOf[p] = c} ELSE @,
       !.refresh = IF by = "refresh" THEN Idle ELSE @]

(* onRefresh keeps the category it was called with, and goes back to it.   *)
OnRefresh ==
  /\ OnShops /\ ListReady /\ shops.refresh = Idle
  /\ shops' = [shops EXCEPT !.refresh =
                 [left |-> {"shops", "categories"}, back |-> shops.selected]]

RefreshAnswer(call, ok) ==
  LET s == [Loaded(shops, call, ok) EXCEPT !.refresh.left = @ \ {call}]
      c == shops.refresh.back
  IN /\ OnShops /\ call \in shops.refresh.left \ {"products"}
     /\ shops' = IF s.refresh.left # {} THEN s
                 ELSE IF c = None THEN [s EXCEPT !.refresh = Idle]
                 ELSE AskCategory([s EXCEPT !.refresh.left = {"products"}],
                                  c, "refresh")

OpenProductDetail(p) ==
  /\ OnShops /\ Offered(p, "open")
  /\ shops' = [shops EXCEPT !.product = p, !.sheet = TRUE]

CloseSheet(s) == [s EXCEPT !.sheet = FALSE, !.closing = TRUE]

CloseProductDetail ==
  OnShops /\ "close" \in SheetOffers /\ shops' = CloseSheet(shops)

(* 220 ms after a sheet was closed; by then another one may be open.        *)
ClosingTimer ==
  /\ OnShops /\ shops.closing
  /\ shops' = [shops EXCEPT !.product = None, !.closing = FALSE]

-----------------------------------------------------------------------------
(* Filling the cart.                                                       *)

HandleAddToCart(p) == Room /\ AddToCart(p, StoreOf[p])    \* item.store_id

TapProduct(p, tap) ==
  /\ Offered(p, tap)
  /\ CASE tap = "add" -> HandleAddToCart(p) [] tap = "plus" -> Plus(p)
       [] tap = "minus" -> Minus(p)
  /\ UNCHANGED <<stack, shops, detail, basket>>

HandleModal(tap) ==
  /\ tap \in SheetOffers
  /\ CASE tap = "plus" -> Plus(shops.product) [] tap = "minus" -> Minus(shops.product)
       [] OTHER -> HandleAddToCart(shops.product)
  /\ shops' = IF tap = "buy" THEN CloseSheet(shops) ELSE shops
  /\ UNCHANGED <<stack, detail, basket>>

OnDetail == UNCHANGED <<stack, cart, count, shops, basket>>

LoadShop(ok) ==
  /\ OnDetail /\ "shop" \in Range(stack) /\ detail.load = "loading"
  /\ detail' = [detail EXCEPT
       !.load = IF ok THEN "ready" ELSE "failed",
       !.menu = IF ok THEN {p \in Product : StoreOf[p] = detail.shop} ELSE {}]

OpenProductDetails(p) ==
  OnDetail /\ <<p, "open">> \in Menu /\ detail' = [detail EXCEPT !.product = p]

CloseProductDetails ==
  /\ OnDetail /\ "close" \in DetailSheet
  /\ detail' = [detail EXCEPT !.product = None]

AddFood(p) == Room /\ AddToCart(p, detail.shop)

TapFood(p) ==
  <<p, "add">> \in Menu /\ AddFood(p) /\ UNCHANGED <<stack, shops, detail, basket>>

HandleDetailModal(tap) ==
  /\ tap \in DetailSheet
  /\ CASE tap = "plus" -> Plus(detail.product) [] tap = "minus" -> Minus(detail.product)
       [] OTHER -> AddFood(detail.product)
  /\ detail' = IF tap = "buy" THEN [detail EXCEPT !.product = None] ELSE detail
  /\ UNCHANGED <<stack, shops, basket>>

-----------------------------------------------------------------------------
(* The cart screen.  A change of the cart there runs the focus effect.      *)

OnCart ==
  /\ Cardinality(basket.asked) < MaxAsked
  /\ basket' \in FocusEffect(cart', basket) /\ UNCHANGED <<stack, shops, detail>>

TapItem(p, tap) ==
  /\ tap \in RenderItem(p)
  /\ IF tap = "plus" THEN Plus(p) ELSE Minus(p)
  /\ OnCart

(* Mutant: a suggestion is added under the shop of the cart's first line.  *)
AddUnderFirst(x) ==
  /\ x \in RenderFeaturedItem /\ Room
  /\ \E first \in Lines(cart) : AddToCart(x.id, cart[first].store)
  /\ OnCart

AddFeatured(x) ==
  x \in RenderFeaturedItem /\ Room /\ AddToCart(x.id, x.store) /\ OnCart

HandleClearCart == "clear" \in CartOffers /\ ClearCart /\ OnCart

(* The products of the shop asked, without those the cart held then.        *)
FeaturedAnswer(a, ok) ==
  /\ "cart" \in Range(stack) /\ a \in basket.asked
  /\ basket' = [asked |-> basket.asked \ {a}, spinning |-> FALSE,
       suggested |-> IF ok THEN [id : {p \in Product : StoreOf[p] = a.of} \ a.had,
                                 store : {a.of}]
                           ELSE basket.suggested]
  /\ UNCHANGED <<stack, cart, count, shops, detail>>

-----------------------------------------------------------------------------
Init ==
  /\ stack = <<"home">> /\ cart = [p \in Product |-> Absent] /\ count = 0
  /\ shops = NewShops /\ detail = NewDetail(None) /\ basket = NewBasket

Answer ==
  \E ok \in BOOLEAN :
    \/ \E call \in {"shops", "categories"} : BootAnswer(call, ok) \/ RefreshAnswer(call, ok)
    \/ \E c \in Category, by \in {"tap", "refresh"} : CategoryAnswer(c, by, ok)
    \/ LoadShop(ok)
    \/ \E a \in basket.asked : FeaturedAnswer(a, ok)

Navigate ==
  \/ EnterShops \/ LeaveShops \/ EnterOrders \/ Logout \/ EnterCart
  \/ EnterCheckout \/ Back \/ \E s \in Shop : EnterShop(s)

Browse ==
  \/ Search \/ OnRefresh \/ CloseProductDetail \/ CloseProductDetails
  \/ \E c \in Category \cup {None} : HandleCategorySelect(c)
  \/ \E p \in Product : OpenProductDetail(p) \/ OpenProductDetails(p)

Fill ==
  \/ \E p \in Product : TapFood(p) \/ \E tap \in {"add", "plus", "minus"} : TapProduct(p, tap)
  \/ \E tap \in {"add", "plus", "minus", "buy"} : HandleModal(tap) \/ HandleDetailModal(tap)
  \/ \E p \in Product, tap \in {"plus", "minus"} : TapItem(p, tap)
  \/ \E x \in basket.suggested : AddFeatured(x)
  \/ HandleClearCart

Next == Answer \/ Navigate \/ Browse \/ Fill \/ ClosingTimer

(* An answer or an error comes: the client gives up after its timeout.      *)
Fairness ==
  /\ \A call \in {"shops", "categories"} : WF_vars(\E ok \in BOOLEAN : BootAnswer(call, ok))
  /\ \A c \in Category, by \in {"tap", "refresh"} :
       WF_vars(\E ok \in BOOLEAN : CategoryAnswer(c, by, ok))

Spec == Init /\ [][Next]_vars /\ Fairness

-----------------------------------------------------------------------------
(* Properties.                                                             *)

(* Every line of the cart names the shop that sells its product, whichever *)
(* of the three screens put it in, and though a suggestion is added after  *)
(* the cart it was asked for has changed: the server refuses an order with *)
(* a line of another shop than its store_id.                               *)
LinesNameTheirShop == \A p \in Lines(cart) : cart[p].store = StoreOf[p]

(* As cards or as rows of a grid, under both headings or none, the list    *)
(* shows each shop or product that was found once and in order; a heading  *)
(* has a row of its own and only a section's last row may have gaps.       *)
ListShowsEachOnce ==
  LET rows == ListData
  IN /\ FlattenSeq(rows) = BaseListData
     /\ ToSet(Within(BaseListData, Shop \cup Product)) = ToSet(Filtered)
     /\ Len(Within(BaseListData, Shop \cup Product)) = Len(Filtered)
     /\ UseGrid => \A i \in DOMAIN rows :
          \/ Len(rows[i]) = GridColumns
          \/ Len(rows[i]) < GridColumns
               /\ (i = Len(rows) \/ rows[i][1] \in Header \/ rows[i+1][1] \in Header)

(* Whatever screen the user is on, the cart behaves as a basket: one piece *)
(* in or out at a time, or all of them out.                                *)
Abstract == INSTANCE Basket WITH bag <- [p \in Product |-> cart[p].qty]
CartIsABasket == Abstract!Spec

(* The spinner that replaces Shops goes away, whatever calls overlap and   *)
(* whichever of them fail.                                                 *)
SpinnerEnds == (Top = "shops" /\ shops.loading) ~> ~(Top = "shops" /\ shops.loading)

=============================================================================
