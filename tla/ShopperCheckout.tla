--------------------------- MODULE ShopperCheckout ---------------------------
(***************************************************************************)
(* The checkout screen of the mobile app: an order is created from the     *)
(* cart, paid in a web view of Paystack, and verified.                     *)
(*                                                                         *)
(* The screen may be left, by the phone's back gesture, while a call is    *)
(* under way: the handler goes on, its alerts, the emptying of the cart    *)
(* and its navigation take effect, what it writes to the screen does not.  *)
(* Each attempt creates a new order, with a reference of its own: the      *)
(* reference is named by its order.                                        *)
(***************************************************************************)
EXTENDS Naturals, FiniteSets

CONSTANTS
  Product,     \* what the cart may hold
  Order,       \* bound: orders the server may create
  None

VARIABLES
  top,         \* the visible screen
  cart,        \* products in the cart
  form,        \* the checkout screen's state, or None when it is not mounted
  calls,       \* calls without an answer; cur: of the mounted screen
  alerts,      \* alerts that wait for a tap
  order,       \* the server's orders
  charged      \* orders whose reference Paystack has charged

vars == <<top, cart, form, calls, alerts, order, charged>>

Form ==
  [step : {"form", "processing", "webview"}, modal : BOOLEAN, loading : BOOLEAN,
   place : {"locating", "found", "failed"}, address : BOOLEAN,
   pending : Order \cup {None}, ref : Order \cup {None}]

NewForm ==
  [step |-> "form", modal |-> FALSE, loading |-> FALSE, place |-> "locating",
   address |-> FALSE, pending |-> None, ref |-> None]

CallState ==
  [kind : {"create", "pay", "verify"}, lines : SUBSET Product,
   order : Order \cup {None}, ref : Order \cup {None}, cur : BOOLEAN]
AlertState == [kind : {"error", "failed", "unverified"}, cur : BOOLEAN]

(* Every variable has its type; a call to pay or to verify names an order  *)
(* the server has.                                                         *)
TypeOK ==
  /\ top \in {"shopping", "checkout", "orders"} /\ cart \subseteq Product
  /\ form \in Form \cup {None} /\ (top = "checkout" => form # None)
  /\ calls \subseteq CallState /\ alerts \subseteq AlertState
  /\ order \in [Order -> {"none", "pending", "paid"}]
  /\ charged \subseteq Order
  /\ \A c \in calls : c.kind # "create" => order[c.order] # "none"

-----------------------------------------------------------------------------
(* What the screen offers.                                                 *)

Visible    == top = "checkout" /\ alerts = {}
Waits      == Visible /\ form.step = "processing"
FormShown  == Visible /\ form.step # "processing" /\ ~form.modal
WebView    == Visible /\ form.step # "processing" /\ form.modal

FormOffers ==
  IF ~FormShown THEN {}
  ELSE {"back", "address"}
       \cup (IF form.place = "failed" THEN {"retry location"} ELSE {})
       \cup (IF form.loading THEN {} ELSE {"pay"})

WebViewOffers == IF WebView THEN {"done", "redirect", "completed", "close"} ELSE {}

-----------------------------------------------------------------------------
(* Mounting and leaving.                                                   *)

ForgetScreen(S) == {[x EXCEPT !.cur = FALSE] : x \in S}

Unmount == form' = None /\ calls' = ForgetScreen(calls)
                        /\ alerts' = ForgetScreen(alerts)

Shop(p) ==
  /\ top = "shopping" /\ cart' = cart \cup {p}
  /\ UNCHANGED <<top, form, calls, alerts, order, charged>>

OpenCheckout ==
  /\ top = "shopping" /\ cart # {} /\ alerts = {}
  /\ top' = "checkout" /\ form' = NewForm
  /\ UNCHANGED <<cart, calls, alerts, order, charged>>

Back ==                             \* the arrow, or the phone's back gesture
  /\ Visible /\ ~WebView /\ top' = "shopping" /\ Unmount
  /\ UNCHANGED <<cart, order, charged>>

(* My Orders was pushed over the checkout, or has replaced it: the gesture *)
(* goes back to what is below, the arrow to the home screen.               *)
LeaveOrders ==
  /\ top = "orders" /\ alerts = {}
  /\ \/ form # None /\ top' = "checkout" /\ UNCHANGED <<form, calls, alerts>>
     \/ top' = "shopping" /\ Unmount
  /\ UNCHANGED <<cart, order, charged>>

OnForm(f) == form' = f /\ UNCHANGED <<top, cart, order, charged>>

GetLocation(found) ==               \* permission, cache, fix or 20 s timeout
  /\ form # None /\ form.place = "locating"
  /\ OnForm([form EXCEPT !.place = IF found THEN "found" ELSE "failed"])
  /\ UNCHANGED <<calls, alerts>>

RetryLocation ==
  /\ "retry location" \in FormOffers
  /\ OnForm([form EXCEPT !.place = "locating"]) /\ UNCHANGED <<calls, alerts>>

TypeAddress ==
  /\ "address" \in FormOffers /\ ~form.address
  /\ OnForm([form EXCEPT !.address = TRUE]) /\ UNCHANGED <<calls, alerts>>

-----------------------------------------------------------------------------
(* handleProceedToPayment: createOrder, then payOrder, then the web view.  *)

Raise(kind, cur) == alerts' = alerts \cup {[kind |-> kind, cur |-> cur]}

HandleProceedToPayment ==
  /\ "pay" \in FormOffers
  /\ IF form.address /\ cart # {}
     THEN /\ OnForm([form EXCEPT !.modal = FALSE, !.step = "processing",
                                 !.loading = TRUE])
          /\ calls' = calls \cup {[kind |-> "create", lines |-> cart,
                                   order |-> None, ref |-> None, cur |-> TRUE]}
          /\ UNCHANGED alerts
     ELSE Raise("error", TRUE) /\ OnForm(form) /\ UNCHANGED calls

(* What a handler writes to its screen, while that is still mounted.       *)
Write(c, f) == form' = IF c.cur THEN f ELSE form

(* Mutant: the error is only logged.                                       *)
GiveUpQuietly(c) ==
  calls' = calls \ {c} /\ UNCHANGED alerts
    /\ Write(c, [form EXCEPT !.loading = FALSE])

GiveUp(c) ==
  /\ calls' = calls \ {c} /\ Raise("error", c.cur)
  /\ Write(c, [form EXCEPT !.step = "form", !.loading = FALSE])

(* Mutant: goes on to pay although creating the order failed.              *)
CreateGoesOn(c, o, ok) ==
  /\ c \in calls /\ c.kind = "create"
  /\ order' = IF ok THEN [order EXCEPT ![o] = "pending"] ELSE order
  /\ calls' = (calls \ {c}) \cup {[c EXCEPT !.kind = "pay", !.order = o]}
  /\ Write(c, [form EXCEPT !.pending = o])
  /\ UNCHANGED <<top, cart, alerts, charged>>

(* The order may be there even if the app was told of an error.            *)
CreateAnswer(c, o, ok) ==
  /\ c \in calls /\ c.kind = "create"
  /\ \/ order[o] = "none" /\ order' = [order EXCEPT ![o] = "pending"]
     \/ ~ok /\ UNCHANGED order
  /\ IF ok THEN /\ calls' = (calls \ {c}) \cup {[c EXCEPT !.kind = "pay", !.order = o]}
                /\ Write(c, [form EXCEPT !.pending = o]) /\ UNCHANGED alerts
           ELSE GiveUp(c)
  /\ UNCHANGED <<top, cart, charged>>

(* Mutant: the web view is shown before the checkout's address is known.   *)
PayShowsFirst(c, ok) ==
  /\ c \in calls /\ c.kind = "pay"
  /\ IF ok THEN /\ calls' = calls \ {c} /\ UNCHANGED alerts
                /\ Write(c, [form EXCEPT !.ref = c.order, !.step = "webview",
                                         !.modal = TRUE, !.loading = FALSE])
           ELSE /\ calls' = calls \ {c} /\ Raise("error", c.cur)
                /\ Write(c, [form EXCEPT !.step = "webview", !.modal = TRUE,
                                         !.loading = FALSE])
  /\ UNCHANGED <<top, cart, order, charged>>

PayAnswer(c, ok) ==
  /\ c \in calls /\ c.kind = "pay"
  /\ IF ok THEN /\ calls' = calls \ {c} /\ UNCHANGED alerts
                /\ Write(c, [form EXCEPT !.ref = c.order, !.step = "webview",
                                         !.modal = TRUE, !.loading = FALSE])
           ELSE GiveUp(c)
  /\ UNCHANGED <<top, cart, order, charged>>

(* The user pays in the web view.                                          *)
PayAtPaystack ==
  /\ WebView /\ form.ref \notin charged
  /\ charged' = charged \cup {form.ref}
  /\ UNCHANGED <<top, cart, form, calls, alerts, order>>

(* The modal is closed without a word: the step stays "webview", which     *)
(* shows the form again.                                                   *)
CloseModal ==
  /\ "close" \in WebViewOffers
  /\ OnForm([form EXCEPT !.modal = FALSE]) /\ UNCHANGED <<calls, alerts>>

(* Done, "I have completed the payment", or a redirect to the callback.     *)
HandleVerifyPayment(how) ==
  /\ how \in WebViewOffers \ {"close"}
  /\ IF form.ref = None \/ form.pending = None
     THEN /\ Raise("error", TRUE) /\ UNCHANGED calls
          /\ OnForm([form EXCEPT !.step = "form", !.modal = FALSE])
     ELSE /\ calls' = calls \cup {[kind |-> "verify", lines |-> {},
                          order |-> form.pending, ref |-> form.ref, cur |-> TRUE]}
          /\ OnForm([form EXCEPT !.step = "processing", !.modal = FALSE,
                                 !.loading = TRUE])
          /\ UNCHANGED alerts

(* Mutant: any answer counts as success.                                   *)
VerifyTrusts(c, answer) ==
  /\ c \in calls /\ c.kind = "verify" /\ answer # "error"
  /\ calls' = ForgetScreen(calls \ {c}) /\ alerts' = ForgetScreen(alerts)
  /\ cart' = {} /\ top' = "orders" /\ form' = None
  /\ UNCHANGED <<order, charged>>

(* On success the cart is emptied and My Orders replaces the visible       *)
(* screen, whatever the cart and the screen are by now.                    *)
VerifyAnswer(c, answer) ==
  /\ c \in calls /\ c.kind = "verify"
  /\ answer # "error" => (answer = "success" <=> c.ref \in charged)
  /\ order' = IF answer = "success" THEN [order EXCEPT ![c.order] = "paid"]
                                    ELSE order
  /\ IF answer = "success"
     THEN /\ calls' = ForgetScreen(calls \ {c}) /\ alerts' = ForgetScreen(alerts)
          /\ cart' = {} /\ top' = "orders" /\ form' = None
     ELSE /\ calls' = calls \ {c}
          /\ Raise(IF answer = "error" THEN "unverified" ELSE "failed", c.cur)
          /\ Write(c, [form EXCEPT !.loading = FALSE]) /\ UNCHANGED <<top, cart>>
  /\ UNCHANGED charged

(* The buttons of an alert.  After an error the screen below stays at      *)
(* "processing", which offers nothing.                                     *)
TapAlert(a) ==
  /\ a \in alerts
  /\ \/ /\ a.kind = "error" /\ UNCHANGED <<top, form, calls>>
        /\ alerts' = alerts \ {a}
     \/ /\ a.kind = "failed"        \* Try Again
        /\ form' = IF a.cur THEN [form EXCEPT !.step = "form"] ELSE form
        /\ alerts' = alerts \ {a} /\ UNCHANGED <<top, calls>>
     \/ /\ a.kind = "failed"        \* Cancel: router.back()
        /\ top' = IF top = "orders" /\ form # None THEN "checkout" ELSE "shopping"
        /\ IF top' = "checkout"
           THEN UNCHANGED <<form, calls>> /\ alerts' = alerts \ {a}
           ELSE /\ form' = None /\ calls' = ForgetScreen(calls)
                /\ alerts' = ForgetScreen(alerts \ {a})
     \/ /\ a.kind = "unverified" /\ top' = "orders"
        /\ alerts' = alerts \ {a} /\ UNCHANGED <<form, calls>>
  /\ UNCHANGED <<cart, order, charged>>

-----------------------------------------------------------------------------
Init ==
  /\ top = "shopping" /\ cart = {} /\ form = None /\ calls = {} /\ alerts = {}
  /\ order = [o \in Order |-> "none"] /\ charged = {}

Answer ==
  \E c \in calls :
    \/ \E o \in Order, ok \in BOOLEAN : CreateAnswer(c, o, ok)
    \/ \E ok \in BOOLEAN : PayAnswer(c, ok)
    \/ \E answer \in {"success", "failed", "error"} : VerifyAnswer(c, answer)

Next ==
  \/ Answer
  \/ \E p \in Product : Shop(p)
  \/ OpenCheckout \/ Back \/ LeaveOrders \/ RetryLocation \/ TypeAddress
  \/ \E found \in BOOLEAN : GetLocation(found)
  \/ HandleProceedToPayment \/ PayAtPaystack \/ CloseModal
  \/ \E how \in {"done", "redirect", "completed"} : HandleVerifyPayment(how)
  \/ \E a \in alerts : TapAlert(a)

Spec == Init /\ [][Next]_vars

-----------------------------------------------------------------------------
(* Properties.                                                             *)

(* The reference the app asks to verify belongs to the order it names,     *)
(* though a failed attempt leaves the reference of one order beside the    *)
(* number of the next: the server refuses a pair that does not match.      *)
VerifiesItsOwnPayment ==
  \A c \in calls : c.kind = "verify" => c.ref = c.order

(* The cart is emptied only for an order that was charged and is now paid. *)
ClearedMeansPaid ==
  [][cart # {} /\ cart' = {} =>
       \E c \in calls : /\ c.kind = "verify" /\ c.order \in charged
                        /\ order'[c.order] = "paid"]_vars

(* When the last call the "please wait" page waits for has ended, the page *)
(* no longer shows: the web view, an alert, the form or My Orders does.    *)
AnswersAreShown ==
  [][Waits /\ (\E c \in calls : c.cur) /\ (\A c \in calls' : ~c.cur) => ~Waits']_vars

=============================================================================
