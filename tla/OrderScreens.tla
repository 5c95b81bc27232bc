---------------------------- MODULE OrderScreens ----------------------------
(***************************************************************************)
(* My Orders and Track Order of the mobile app, over the server's orders.  *)
(*                                                                         *)
(* Both screens show copies: a list loaded on focus, on a push of the      *)
(* server and by pulling, an order polled every ten seconds, a handover    *)
(* code polled every five.  A request is answered with the rows as they    *)
(* are when it is sent; answers arrive later, in any order, or not at all. *)
(***************************************************************************)
EXTENDS Naturals, FiniteSets, Sequences, SequencesExt

CONSTANTS
  Order,       \* the user's orders
  Moving,      \* the orders whose status changes while the app looks on
  Start,       \* the status these begin with
  Given,       \* statuses the others may have
  TrackTab,    \* the tabs of Track Order that are looked at
  MaxCode,     \* bound: handover codes the driver asks for
  Overlap,     \* bound: is Track Order opened over calls of My Orders?
  MaxCalls,    \* bound: loads of the list, and polls of each kind, under way
  None

ASSUME OrderAssumption ==
  /\ Moving \subseteq Order /\ Order # {} /\ None \notin Order /\ MaxCode \in Nat
  /\ {"status", "location"} \subseteq TrackTab
  /\ TrackTab \subseteq {"status", "details", "driver", "location"}

VARIABLES
  srv,         \* the orders at the server
  rows,        \* My Orders: the status it shows for each order
  tab,         \* its tab
  loads,       \* its loads under way: the rows they will bring
  acts,        \* cancel, refund, delete under way
  mode,        \* Track Order: closed, resolving, nothing, open
  view,        \* what it shows when open
  polls        \* its polls under way, and what they will bring

list == <<rows, tab, loads, acts>>
track == <<mode, view, polls>>
vars == <<srv, list, track>>

-----------------------------------------------------------------------------
(* Statuses, as the server writes them, and as the screens sort them.      *)

Chain  == <<"payment_pending", "payment_confirmed", "preparing", "ready_for_pickup",
            "assigned_to_driver", "picked_up", "in_transit", "delivered">>
Status == Range(Chain) \cup {"cancelled", "refunded"}
Sent   == {"assigned_to_driver", "picked_up", "in_transit", "delivered"}

ASSUME StatusAssumption == Given \cup {Start} \subseteq Status

ActiveStatuses ==
  {"pending", "payment_pending", "payment_confirmed", "preparing",
   "ready_for_pickup", "assigned_to_driver", "picked_up", "in_transit"}
CompletedStatuses == {"delivered"}
HistoryStatuses   == {"cancelled", "refunded", "failed"}

TabStatuses(t) ==
  CASE t = "active"    -> ActiveStatuses
    [] t = "completed" -> CompletedStatuses
    [] t = "history"   -> HistoryStatuses

Tab == {"active", "completed", "history"}

StatusSteps       == <<"pending">> \o Chain
TrackablePriority == Reverse(SubSeq(StatusSteps, 1, 8))

Rank(s)    == SelectInSeq(TrackablePriority, LAMBDA x : x = s)
Ranked(r)  == {o \in Order : r[o] # "absent" /\ Rank(r[o]) # 0}
Current(r) == {o \in Ranked(r) : \A p \in Ranked(r) : Rank(r[o]) <= Rank(r[p])}

-----------------------------------------------------------------------------
Rows == [Order -> Status \cup {"absent"}]
Row  == [status : Status, code : 0 .. MaxCode, rated : BOOLEAN, hidden : BOOLEAN]
View ==
  [of : Order, order : Status \cup {None}, sent : BOOLEAN, rated : BOOLEAN,
   tab : TrackTab, code : 0 .. MaxCode,
   confirmed : BOOLEAN, map : BOOLEAN, rating : {"none", "chosen", "sending", "done"}]
Poll == [kind : {"detail"}, status : Status, rated : BOOLEAN]
        \cup [kind : {"location"}, sent : BOOLEAN, rated : BOOLEAN]
        \cup [kind : {"code"}, delivered : BOOLEAN, code : 0 .. MaxCode]

(* What the tabs of Track Order show, and the taps they offer.             *)
OnItsWay(v) == v.order \in {"picked_up", "in_transit"}

StatusTab(v) ==
  {"steps"} \cup (IF v.sent /\ OnItsWay(v) THEN {"code"} ELSE {})
            \cup (IF v.order = "preparing" THEN {"eta"} ELSE {})
            \cup (IF v.order = "cancelled" THEN {"cancelled"} ELSE {})
            \cup (IF v.order = "delivered" THEN {"rating"} ELSE {})

DetailsTab(v)  == IF v.order # None THEN {"info", "items", "total"} ELSE {}
DriverTab(v)   == IF v.sent THEN {"driver", "call", "code", "map"} ELSE {"no driver"}
LocationTab(v) == {"address"} \cup IF v.order # None THEN {"map"} ELSE {}

Shown(v) ==
  CASE v.tab = "status"  -> StatusTab(v)
    [] v.tab = "details" -> DetailsTab(v)
    [] v.tab = "driver"  -> DriverTab(v)
    [] OTHER             -> LocationTab(v)

(* The box of the handover code, and when it asks for the code.            *)
OTPShown(v) == "code" \in Shown(v)
OTPPolls(v) == OTPShown(v) /\ OnItsWay(v)

(* Every variable has its type; a handover code is held only while its box *)
(* is shown (the box is unmounted with what it knew).                      *)
TypeOK ==
  /\ srv \in [Order -> Row]
  /\ rows \in Rows /\ tab \in Tab /\ loads \subseteq Rows
  /\ acts \subseteq ({"cancel", "refund", "delete"} \X Order)
  /\ mode \in {"closed", "resolving", "nothing", "open"} /\ view \in View
  /\ polls \subseteq Poll /\ (view.code # 0 => OTPShown(view))

Listed == [o \in Order |-> IF srv[o].hidden THEN "absent" ELSE srv[o].status]

-----------------------------------------------------------------------------
(* The server and the driver (internal/shopper).                           *)

NextStatus(s) == Chain[SelectInSeq(Chain, LAMBDA x : x = s) + 1]

Progress(o) ==
  /\ o \in Moving /\ srv[o].status \in ActiveStatuses \ {"in_transit"}
  /\ srv' = [srv EXCEPT ![o].status = NextStatus(@)] /\ UNCHANGED <<list, track>>

GenerateOrderOTP(o) ==
  /\ o \in Moving /\ srv[o].status \in Sent \ {"delivered"} /\ srv[o].code < MaxCode
  /\ srv' = [srv EXCEPT ![o].code = @ + 1] /\ UNCHANGED <<list, track>>

VerifyOrderOTP(o) ==
  /\ o \in Moving /\ srv[o].status \in Sent \ {"delivered"} /\ srv[o].code > 0
  /\ srv' = [srv EXCEPT ![o].status = "delivered", ![o].code = 0]
  /\ UNCHANGED <<list, track>>

Accepts(kind, o) ==
  CASE kind = "cancel" -> srv[o].status \in {"pending", "payment_pending"}
    [] kind = "refund" -> srv[o].status = "payment_confirmed"
    [] kind = "delete" -> srv[o].status \in {"cancelled", "refunded"}

Handled(kind, o) ==
  CASE kind = "cancel" -> [srv EXCEPT ![o].status = "cancelled"]
    [] kind = "refund" -> [srv EXCEPT ![o].status = "refunded"]
    [] kind = "delete" -> [srv EXCEPT ![o].hidden = TRUE]

-----------------------------------------------------------------------------
(* My Orders.                                                              *)

FilteredOrders == {o \in Order : rows[o] \in TabStatuses(tab)}

CanTrackOrder(s) == s \in Sent        \* and it has a delivery row

(* Mutant: a refund is offered for as long as the order is active.         *)
RenderOrderWide(o) ==
  IF o \notin FilteredOrders THEN {}
  ELSE {"details"}
       \cup (IF rows[o] \in ActiveStatuses THEN {"refund"} ELSE {})
       \cup (IF CanTrackOrder(rows[o]) THEN {"track"} ELSE {})

RenderOrder(o) ==
  IF o \notin FilteredOrders THEN {}
  ELSE {"details"}
       \cup (IF rows[o] = "pending" THEN {"cancel"} ELSE {})
       \cup (IF rows[o] = "payment_confirmed" THEN {"refund"} ELSE {})
       \cup (IF rows[o] \in HistoryStatuses THEN {"delete"} ELSE {})
       \cup (IF CanTrackOrder(rows[o]) THEN {"track"} ELSE {})

LoadOrders ==                         \* focus, push of order_status, pulling
  /\ mode = "closed" /\ Cardinality(loads) < MaxCalls
  /\ loads' = loads \cup {Listed} /\ UNCHANGED <<srv, rows, tab, acts, track>>

OrdersAnswer(r, ok) ==
  /\ r \in loads /\ loads' = loads \ {r} /\ rows' = IF ok THEN r ELSE rows
  /\ UNCHANGED <<srv, tab, acts, track>>

SetActiveTab(t) ==
  mode = "closed" /\ tab' = t /\ UNCHANGED <<srv, rows, loads, acts, track>>

TapOrder(kind, o) ==                  \* and "yes" to the question asked
  /\ mode = "closed" /\ kind \in RenderOrder(o)
  /\ acts' = acts \cup {<<kind, o>>} /\ UNCHANGED <<srv, rows, tab, loads, track>>

HandleCancelOrder(ok)  == loads' = (IF ok THEN loads \cup {Listed'} ELSE loads)
                            /\ UNCHANGED rows
HandleRequestRefund(ok) == HandleCancelOrder(ok)
HandleDeleteOrder(o, ok) == rows' = (IF ok THEN [rows EXCEPT ![o] = "absent"] ELSE rows)
                            /\ UNCHANGED loads

(* The server does what it was asked for, or refuses; the app may hear of  *)
(* an error where it has done it.                                          *)
ActAnswer(kind, o, heard) ==
  /\ <<kind, o>> \in acts /\ acts' = acts \ {<<kind, o>>}
  /\ srv' = IF Accepts(kind, o) THEN Handled(kind, o) ELSE srv
  /\ LET ok == heard /\ Accepts(kind, o)
     IN CASE kind = "cancel" -> HandleCancelOrder(ok)
          [] kind = "refund" -> HandleRequestRefund(ok)
          [] kind = "delete" -> HandleDeleteOrder(o, ok)
  /\ UNCHANGED <<tab, track>>

-----------------------------------------------------------------------------
(* Track Order.                                                            *)

NewView(o, t) ==
  [of |-> o, order |-> None, sent |-> FALSE, rated |-> FALSE, tab |-> t,
   code |-> 0, confirmed |-> FALSE, map |-> FALSE, rating |-> "none"]

Closed == NewView(CHOOSE o \in Order : TRUE, "status")

Tracking == mode = "open"

(* Mutant: the box keeps what it knew.                                     *)
SettleNever(v) == v

(* When the box goes, what it knew is forgotten.                           *)
Settle(v) == IF OTPShown(v) THEN v ELSE [v EXCEPT !.code = 0, !.confirmed = FALSE]

(* The answers of a box that is gone reach nobody.                         *)
Kept(v, waiting) == {q \in waiting : OTPShown(v) \/ q.kind # "code"}

(* The dots of the status tab: done, current, or still to come.            *)
CurrentStep == LET i == SelectInSeq(StatusSteps, LAMBDA x : x = view.order)
               IN IF i = 0 THEN 1 ELSE i

(* Mutant: the stars are offered again after an error.                     *)
RateAlways == Tracking /\ "rating" \in Shown(view)

RateOffered ==
  /\ Tracking /\ "rating" \in Shown(view)
  /\ view.rating # "done" /\ ~view.rated

Free == mode = "closed" /\ (Overlap \/ (loads = {} /\ acts = {}))

OpenTrack(o, tap) ==
  /\ Free /\ tap \in RenderOrder(o) \cap {"details", "track"}
  /\ mode' = "open"
  /\ view' = NewView(o, IF tap = "track" THEN "location" ELSE "status")
  /\ polls' = {} /\ UNCHANGED <<srv, list>>

OpenCurrent ==                        \* from the home screen, without an order
  /\ Free /\ mode' = "resolving" /\ UNCHANGED <<srv, list, view, polls>>

ResolveAnswer(ok) ==
  /\ mode = "resolving"
  /\ IF ok /\ Current(Listed) # {}
     THEN mode' = "open" /\ \E o \in Current(Listed) : view' = NewView(o, "location")
     ELSE mode' = "nothing" /\ UNCHANGED view
  /\ UNCHANGED <<srv, list, polls>>

HandleClose ==
  /\ mode # "closed" /\ ~view.map /\ mode' = "closed" /\ view' = Closed /\ polls' = {}
  /\ UNCHANGED <<srv, list>>

(* Each tab has a box of its own, which begins with nothing.               *)
ShowTab(t) ==
  /\ Tracking /\ ~view.map /\ t # view.tab
  /\ view' = [view EXCEPT !.tab = t, !.code = 0, !.confirmed = FALSE]
  /\ polls' = {q \in polls : q.kind # "code"} /\ UNCHANGED <<srv, list, mode>>

OpenMap ==
  /\ Tracking /\ "map" \in Shown(view) /\ view' = [view EXCEPT !.map = TRUE]
  /\ UNCHANGED <<srv, list, mode, polls>>

CloseMap ==
  /\ view.map /\ view' = [view EXCEPT !.map = FALSE]
  /\ UNCHANGED <<srv, list, mode, polls>>

Now(kind) ==                          \* what the server says at this moment
  LET s == srv[view.of]
  IN CASE kind = "detail"   -> [kind |-> kind, status |-> s.status, rated |-> s.rated]
       [] kind = "location" -> [kind |-> kind, sent |-> s.status \in Sent, rated |-> s.rated]
       [] kind = "code"     -> [kind |-> kind, delivered |-> s.status = "delivered",
                                code |-> s.code]

Ask(kind) ==
  /\ Cardinality({q \in polls : q.kind = kind}) < MaxCalls
  /\ polls' = polls \cup {Now(kind)}
  /\ UNCHANGED <<srv, list, mode, view>>

LoadData == Tracking /\ Ask("detail")         \* every ten seconds
FetchOTP == Tracking /\ OTPPolls(view) /\ ~view.confirmed /\ Ask("code")

Answered(q) == q \in polls /\ Tracking /\ UNCHANGED <<srv, list, mode>>

(* The order, and its delivery row if there is one; then the tracking row. *)
DetailAnswer(q) ==
  /\ Answered(q) /\ q.kind = "detail"
  /\ LET v == Settle([view EXCEPT !.order = q.status, !.sent = (q.status \in Sent),
                                  !.rated = q.rated])
     IN /\ view' = v
        /\ polls' = Kept(v, polls \ {q}) \cup {Now("location")}

LocationAnswer(q) ==
  /\ Answered(q) /\ q.kind = "location" /\ polls' = polls \ {q}
  /\ view' = IF q.sent THEN [view EXCEPT !.rated = q.rated] ELSE view

(* Mutant: the code box keeps the first code it was told.                  *)
KeepFirstCode(q) ==
  /\ Answered(q) /\ q.kind = "code" /\ polls' = polls \ {q}
  /\ view' = IF q.delivered THEN [view EXCEPT !.confirmed = TRUE, !.code = 0]
             ELSE IF q.code # 0 /\ view.code = 0 THEN [view EXCEPT !.code = q.code]
             ELSE view

OTPAnswer(q) ==
  /\ Answered(q) /\ q.kind = "code" /\ polls' = polls \ {q}
  /\ view' = IF q.delivered THEN [view EXCEPT !.confirmed = TRUE, !.code = 0]
             ELSE IF q.code # 0 THEN [view EXCEPT !.code = q.code]
             ELSE view

PollFails(q) == Answered(q) /\ polls' = polls \ {q} /\ UNCHANGED view

ChooseStar ==
  /\ RateOffered /\ view.rating = "none"
  /\ view' = [view EXCEPT !.rating = "chosen"] /\ UNCHANGED <<srv, list, mode, polls>>

HandleRateOrder ==
  /\ RateOffered /\ view.rating = "chosen"
  /\ view' = [view EXCEPT !.rating = "sending"] /\ UNCHANGED <<srv, list, mode, polls>>

(* The server takes one rating; a second, or a lost answer, is an error.   *)
RateAnswer(heard) ==
  /\ Tracking /\ view.rating = "sending"
  /\ LET o == view.of
         takes == srv[o].status = "delivered" /\ ~srv[o].rated
     IN /\ srv' = IF takes THEN [srv EXCEPT ![o].rated = TRUE] ELSE srv
        /\ view' = [view EXCEPT !.rating = IF takes /\ heard THEN "done" ELSE "chosen"]
  /\ UNCHANGED <<list, mode, polls>>

-----------------------------------------------------------------------------
Init ==
  /\ srv \in [Order -> {[status |-> s, code |-> 0, rated |-> FALSE, hidden |-> FALSE] :
                          s \in Given \cup {Start}}]
  /\ \A o \in Moving : srv[o].status = Start
  /\ \A o \in Order \ Moving : srv[o].status \in Given
  /\ rows = [o \in Order |-> "absent"] /\ tab = "active" /\ loads = {} /\ acts = {}
  /\ mode = "closed" /\ view = Closed /\ polls = {}

Server == \E o \in Order : Progress(o) \/ GenerateOrderOTP(o) \/ VerifyOrderOTP(o)

MyOrders ==
  \/ LoadOrders \/ \E t \in Tab : SetActiveTab(t)
  \/ \E r \in loads, ok \in BOOLEAN : OrdersAnswer(r, ok)
  \/ \E o \in Order, kind \in {"cancel", "refund", "delete"} : TapOrder(kind, o)
  \/ \E a \in acts, heard \in BOOLEAN : ActAnswer(a[1], a[2], heard)

Success == \E q \in polls : DetailAnswer(q) \/ LocationAnswer(q) \/ OTPAnswer(q)

TrackOrder ==
  \/ \E o \in Order, tap \in {"details", "track"} : OpenTrack(o, tap)
  \/ OpenCurrent \/ HandleClose \/ LoadData \/ FetchOTP \/ OpenMap \/ CloseMap
  \/ ChooseStar \/ HandleRateOrder
  \/ \E t \in TrackTab : ShowTab(t)
  \/ \E ok \in BOOLEAN : ResolveAnswer(ok) \/ RateAnswer(ok)
  \/ Success \/ \E q \in polls : PollFails(q)

Next == Server \/ MyOrders \/ TrackOrder

(* The timers go on while their component is mounted, and the network does *)
(* not lose every answer for ever.                                         *)
Fairness ==
  /\ WF_vars(LoadData) /\ WF_vars(FetchOTP)
  /\ SF_vars(\E q \in polls : DetailAnswer(q)) /\ SF_vars(\E q \in polls : LocationAnswer(q))
  /\ SF_vars(\E q \in polls : OTPAnswer(q))

Spec == Init /\ [][Next]_vars /\ Fairness

-----------------------------------------------------------------------------
(* Properties.                                                             *)

(* What a row that is up to date offers, the server accepts.               *)
OffersAreAccepted ==
  \A o \in Order : \A kind \in RenderOrder(o) \ {"details", "track"} :
    rows[o] = srv[o].status => Accepts(kind, o)

(* While the order's status tab stays open, the driver's last code comes   *)
(* up, though older answers may still be on their way: the driver's app    *)
(* accepts no other.                                                       *)
CodeComesUp ==
  \A o \in Moving, k \in 1 .. MaxCode :
    <>[](/\ Tracking /\ view.of = o /\ view.tab = "status"
         /\ srv[o].code = k /\ srv[o].status = "in_transit")
      => <>[](Tracking /\ view.code = k)

(* A rating the server has taken ends the offer to rate, also where the    *)
(* app was told that it failed.                                            *)
RatingIsShown ==
  \A o \in Moving : <>[](Tracking /\ view.of = o /\ srv[o].rated) => <>[]~RateOffered

=============================================================================
