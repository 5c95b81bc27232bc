------------------------- MODULE OrderScreensProofs -------------------------
(***************************************************************************)
(* Proofs about OrderScreens, for any set of orders and any number of      *)
(* calls under way: the screens' state has its type, a handover code is    *)
(* held only while its box is shown, and what an up-to-date row offers the *)
(* server accepts.                                                         *)
(***************************************************************************)
EXTENDS OrderScreens, TLAPS

(* A screen that is not open polls nothing; a call for a handover code is  *)
(* under way only while the box it belongs to is mounted.                  *)
PollsHolds ==
  /\ mode # "open" => polls = {}
  /\ \A q \in polls : q.kind = "code" => OTPShown(view)

ScreensInv == TypeOK /\ PollsHolds

-----------------------------------------------------------------------------
(* The statuses.                                                           *)

(* The statuses of the chain, one by one.                                  *)
LEMMA StatusNames ==
  /\ Range(Chain) = {"payment_pending", "payment_confirmed", "preparing",
                     "ready_for_pickup", "assigned_to_driver", "picked_up",
                     "in_transit", "delivered"}
  /\ Sent \subseteq Status /\ {"cancelled", "refunded", "delivered"} \subseteq Status
  /\ Status \ (HistoryStatuses \cup {"delivered"}) \subseteq ActiveStatuses
<1>1. DOMAIN Chain = 1 .. 8
  BY DEF Chain
<1>2. \A x : x \in Range(Chain) <=> \E i \in 1 .. 8 : x = Chain[i]
  BY <1>1 DEF Range
<1>3. /\ Chain[1] = "payment_pending" /\ Chain[2] = "payment_confirmed"
      /\ Chain[3] = "preparing" /\ Chain[4] = "ready_for_pickup"
      /\ Chain[5] = "assigned_to_driver" /\ Chain[6] = "picked_up"
      /\ Chain[7] = "in_transit" /\ Chain[8] = "delivered"
  BY DEF Chain
<1>4. Range(Chain) = {"payment_pending", "payment_confirmed", "preparing",
                      "ready_for_pickup", "assigned_to_driver", "picked_up",
                      "in_transit", "delivered"}
  BY <1>2, <1>3
<1> QED
  BY <1>4 DEF Status, Sent, HistoryStatuses, ActiveStatuses

(* An order on its way has a next status.                                  *)
LEMMA NextIsAStatus ==
  ASSUME NEW s \in Status, s \in ActiveStatuses
  PROVE  NextStatus(s) \in Status
<1> DEFINE I == {i \in 1 .. Len(Chain) : Chain[i] = s}
<1>1. Len(Chain) = 8
  BY DEF Chain
<1>2. /\ Chain[1] = "payment_pending" /\ Chain[2] = "payment_confirmed"
      /\ Chain[3] = "preparing" /\ Chain[4] = "ready_for_pickup"
      /\ Chain[5] = "assigned_to_driver" /\ Chain[6] = "picked_up"
      /\ Chain[7] = "in_transit" /\ Chain[8] = "delivered"
  BY DEF Chain
<1>3. PICK i \in 1 .. 7 : I = {i}
  <2>1. s \in {Chain[1], Chain[2], Chain[3], Chain[4], Chain[5], Chain[6], Chain[7]}
    BY <1>2, StatusNames DEF Status, ActiveStatuses
  <2>2. \A j, k \in 1 .. 8 : Chain[j] = Chain[k] => j = k
    BY <1>2
  <2>3. PICK i \in 1 .. 7 : Chain[i] = s
    BY <2>1
  <2>4. I = {i}
    BY <2>2, <2>3, <1>1
  <2> QED
    BY <2>4
<1>4. SelectInSeq(Chain, LAMBDA x : x = s) = IF I # {} THEN Min(I) ELSE 0
  BY DEF SelectInSeq
<1>5. Min(I) = i
  BY <1>3 DEF Min
<1>6. NextStatus(s) = Chain[i + 1]
  BY <1>3, <1>4, <1>5 DEF NextStatus
<1>7. i + 1 \in 1 .. 8 /\ DOMAIN Chain = 1 .. 8
  BY <1>3 DEF Chain
<1> QED
  BY <1>6, <1>7 DEF Status, Range

-----------------------------------------------------------------------------
(* The values the screens hold.                                            *)

(* The list shows the orders it is given, with their statuses.             *)
LEMMA ListedIsRows ==
  ASSUME srv \in [Order -> Row]
  PROVE  Listed \in Rows
BY DEF Listed, Rows, Row

(* A view that has just been opened knows nothing, and shows no code box.  *)
LEMMA NewViewKnowsNothing ==
  ASSUME NEW o \in Order, NEW t \in TrackTab
  PROVE  NewView(o, t) \in View /\ NewView(o, t).code = 0
<1>1. 0 \in 0 .. MaxCode
  BY OrderAssumption
<1> QED
  BY <1>1 DEF NewView, View

(* The view of a closed screen.                                            *)
LEMMA ClosedIsAView == Closed \in View /\ Closed.code = 0
<1>1. (CHOOSE o \in Order : TRUE) \in Order
  BY OrderAssumption
<1> QED
  BY <1>1, NewViewKnowsNothing, OrderAssumption DEF Closed

(* What the server says is a poll's answer.                                *)
LEMMA NowIsAPoll ==
  ASSUME srv \in [Order -> Row], view \in View, NEW kind \in {"detail", "location", "code"}
  PROVE  Now(kind) \in Poll /\ Now(kind).kind = kind
<1>1. srv[view.of] \in Row
  BY DEF View
<1>2. CASE kind = "detail"
  BY <1>1, <1>2 DEF Now, Poll, Row
<1>3. CASE kind = "location"
  BY <1>1, <1>3 DEF Now, Poll, Row
<1>4. CASE kind = "code"
  BY <1>1, <1>4 DEF Now, Poll, Row
<1> QED
  BY <1>2, <1>3, <1>4

(* Whether the code box is shown depends on the tab, the order's status    *)
(* and whether it was sent.                                                *)
LEMMA BoxDependsOn ==
  ASSUME NEW v, NEW w, v.tab = w.tab, v.order = w.order, v.sent = w.sent
  PROVE  OTPShown(v) = OTPShown(w)
BY DEF OTPShown, Shown, StatusTab, DetailsTab, DriverTab, LocationTab, OnItsWay

(* A settled view holds a code only if its box is shown, and settling does *)
(* not change whether it is.                                               *)
LEMMA SettledView ==
  ASSUME NEW v \in View
  PROVE  /\ Settle(v) \in View /\ OTPShown(Settle(v)) = OTPShown(v)
         /\ Settle(v).code # 0 => OTPShown(Settle(v))
<1>1. CASE OTPShown(v)
  BY <1>1 DEF Settle
<1>2. CASE ~OTPShown(v)
  <2> DEFINE w == [v EXCEPT !.code = 0, !.confirmed = FALSE]
  <2>1. w \in View /\ w.tab = v.tab /\ w.order = v.order /\ w.sent = v.sent /\ w.code = 0
    <3>1. 0 \in 0 .. MaxCode
      BY OrderAssumption
    <3> QED
      BY <3>1 DEF View
  <2>2. Settle(v) = w
    BY <1>2 DEF Settle
  <2> HIDE DEF w
  <2> QED
    BY <2>1, <2>2, BoxDependsOn
<1> QED
  BY <1>1, <1>2

-----------------------------------------------------------------------------
(* The server and My Orders.                                               *)

(* The server's own steps.                                                 *)
LEMMA ServerStep ==
  ASSUME ScreensInv, Server
  PROVE  ScreensInv'
<1> USE DEF ScreensInv
<1> PICK o \in Order : Progress(o) \/ GenerateOrderOTP(o) \/ VerifyOrderOTP(o)
  BY DEF Server
<1>1. srv' \in [Order -> Row]
  <2>1. srv \in [Order -> Row] /\ srv[o] \in Row
    BY DEF TypeOK
  <2>2. CASE Progress(o)
    BY <2>1, <2>2, NextIsAStatus DEF Progress, Row
  <2>3. CASE GenerateOrderOTP(o)
    <3>1. srv[o].code + 1 \in 0 .. MaxCode
      BY <2>1, <2>3, OrderAssumption DEF GenerateOrderOTP, Row
    <3> QED
      BY <2>1, <2>3, <3>1 DEF GenerateOrderOTP, Row
  <2>4. CASE VerifyOrderOTP(o)
    <3>1. 0 \in 0 .. MaxCode
      BY OrderAssumption
    <3> QED
      BY <2>1, <2>4, <3>1, StatusNames DEF VerifyOrderOTP, Row
  <2> QED
    BY <2>2, <2>3, <2>4
<1>2. UNCHANGED <<list, track>>
  BY DEF Progress, GenerateOrderOTP, VerifyOrderOTP
<1> QED
  BY <1>1, <1>2 DEF TypeOK, PollsHolds, list, track

(* A step of My Orders leaves Track Order alone.                           *)
LEMMA MyOrdersStep ==
  ASSUME ScreensInv, MyOrders
  PROVE  ScreensInv'
<1> USE DEF ScreensInv
<1>t. /\ srv \in [Order -> Row] /\ rows \in Rows /\ tab \in Tab /\ loads \subseteq Rows
      /\ acts \subseteq {"cancel", "refund", "delete"} \X Order
  BY DEF TypeOK
<1>1. CASE LoadOrders
  BY <1>1, <1>t, ListedIsRows DEF LoadOrders, TypeOK, PollsHolds, track
<1>2. ASSUME NEW t \in Tab, SetActiveTab(t)
      PROVE  ScreensInv'
  BY <1>2, <1>t DEF SetActiveTab, TypeOK, PollsHolds, track
<1>3. ASSUME NEW r \in loads, NEW ok \in BOOLEAN, OrdersAnswer(r, ok)
      PROVE  ScreensInv'
  BY <1>3, <1>t DEF OrdersAnswer, TypeOK, PollsHolds, track
<1>4. ASSUME NEW o \in Order, NEW kind \in {"cancel", "refund", "delete"}, TapOrder(kind, o)
      PROVE  ScreensInv'
  BY <1>4, <1>t DEF TapOrder, TypeOK, PollsHolds, track
<1>5. ASSUME NEW a \in acts, NEW heard \in BOOLEAN, ActAnswer(a[1], a[2], heard)
      PROVE  ScreensInv'
  <2> PICK kind \in {"cancel", "refund", "delete"}, o \in Order : a = <<kind, o>>
    BY <1>t
  <2>1. ActAnswer(kind, o, heard)
    BY <1>5
  <2>2. srv' \in [Order -> Row]
    <3>1. Handled(kind, o) \in [Order -> Row]
      <4>1. srv[o] \in Row
        BY <1>t
      <4>2. CASE kind = "cancel"
        BY <1>t, <4>1, <4>2, StatusNames DEF Handled, Row
      <4>3. CASE kind = "refund"
        BY <1>t, <4>1, <4>3, StatusNames DEF Handled, Row
      <4>4. CASE kind = "delete"
        BY <1>t, <4>1, <4>4 DEF Handled, Row
      <4> QED
        BY <4>2, <4>3, <4>4
    <3> QED
      BY <2>1, <3>1, <1>t DEF ActAnswer
  <2>3. Listed' \in Rows
    BY <2>2 DEF Listed, Rows, Row
  <2>4. rows' \in Rows /\ loads' \subseteq Rows
    <3>1. [rows EXCEPT ![o] = "absent"] \in Rows
      BY <1>t DEF Rows
    <3>2. CASE kind = "cancel"
      BY <2>1, <2>3, <3>2, <1>t DEF ActAnswer, HandleCancelOrder
    <3>3. CASE kind = "refund"
      BY <2>1, <2>3, <3>3, <1>t DEF ActAnswer, HandleCancelOrder, HandleRequestRefund
    <3>4. CASE kind = "delete"
      BY <2>1, <3>1, <3>4, <1>t DEF ActAnswer, HandleDeleteOrder
    <3> QED
      BY <3>2, <3>3, <3>4
  <2>5. UNCHANGED <<tab, track>> /\ acts' \subseteq acts
    BY <2>1 DEF ActAnswer
  <2> QED
    BY <2>2, <2>4, <2>5, <1>t DEF TypeOK, PollsHolds, track
<1> QED
  BY <1>1, <1>2, <1>3, <1>4, <1>5 DEF MyOrders

-----------------------------------------------------------------------------
(* Track Order.                                                            *)

(* What a view that changes nothing of the code box keeps.                 *)
LEMMA SameBox ==
  ASSUME ScreensInv, view' \in View, view'.tab = view.tab, view'.order = view.order,
         view'.sent = view.sent, view'.code = view.code,
         UNCHANGED <<list, mode>>, srv' \in [Order -> Row], polls' \subseteq polls
  PROVE  ScreensInv'
<1>1. OTPShown(view') = OTPShown(view)
  BY BoxDependsOn
<1> QED
  BY <1>1 DEF ScreensInv, TypeOK, PollsHolds, list

(* Opening and closing the screen.                                         *)
LEMMA ScreenStep ==
  ASSUME ScreensInv,
         \/ \E o \in Order, tap \in {"details", "track"} : OpenTrack(o, tap)
         \/ OpenCurrent \/ HandleClose \/ \E ok \in BOOLEAN : ResolveAnswer(ok)
  PROVE  ScreensInv'
<1> USE DEF ScreensInv
<1>1. /\ srv \in [Order -> Row] /\ rows \in Rows /\ tab \in Tab /\ loads \subseteq Rows
      /\ acts \subseteq {"cancel", "refund", "delete"} \X Order /\ view \in View
      /\ view.code # 0 => OTPShown(view)
  BY DEF TypeOK
<1>2. ASSUME NEW o \in Order, NEW tap \in {"details", "track"}, OpenTrack(o, tap)
      PROVE  ScreensInv'
  <2> DEFINE v == NewView(o, IF tap = "track" THEN "location" ELSE "status")
  <2>1. v \in View /\ v.code = 0
    BY NewViewKnowsNothing, OrderAssumption
  <2>2. view' = v /\ polls' = {} /\ mode' = "open" /\ UNCHANGED <<srv, list>>
    BY <1>2 DEF OpenTrack
  <2> HIDE DEF v
  <2> QED
    BY <1>1, <2>1, <2>2 DEF TypeOK, PollsHolds, list
<1>3. CASE OpenCurrent
  <2>1. mode = "closed" /\ mode' = "resolving" /\ UNCHANGED <<srv, list, view, polls>>
    BY <1>3 DEF OpenCurrent, Free
  <2> QED
    BY <1>1, <2>1 DEF TypeOK, PollsHolds, list
<1>4. CASE HandleClose
  <2>1. view' = Closed /\ polls' = {} /\ mode' = "closed" /\ UNCHANGED <<srv, list>>
    BY <1>4 DEF HandleClose
  <2> QED
    BY <1>1, <2>1, ClosedIsAView DEF TypeOK, PollsHolds, list
<1>5. ASSUME NEW ok \in BOOLEAN, ResolveAnswer(ok)
      PROVE  ScreensInv'
  <2>1. polls = {} /\ polls' = {} /\ UNCHANGED <<srv, list>>
    BY <1>5 DEF ResolveAnswer, PollsHolds
  <2>2. CASE mode' = "nothing" /\ UNCHANGED view
    BY <1>1, <2>1, <2>2 DEF TypeOK, PollsHolds, list
  <2>3. ASSUME mode' = "open", NEW o \in Current(Listed), view' = NewView(o, "location")
        PROVE  ScreensInv'
    <3>1. o \in Order
      BY <2>3 DEF Current, Ranked
    <3>2. view' \in View /\ view'.code = 0
      BY <2>3, <3>1, NewViewKnowsNothing, OrderAssumption
    <3> QED
      BY <1>1, <2>1, <2>3, <3>2 DEF TypeOK, PollsHolds, list
  <2> QED
    BY <1>5, <2>2, <2>3 DEF ResolveAnswer
<1> QED
  BY <1>2, <1>3, <1>4, <1>5

(* The taps of an open screen, and the answer to a rating.                 *)
LEMMA TapStep ==
  ASSUME ScreensInv,
         \/ OpenMap \/ CloseMap \/ ChooseStar \/ HandleRateOrder
         \/ \E t \in TrackTab : ShowTab(t)
         \/ \E ok \in BOOLEAN : RateAnswer(ok)
  PROVE  ScreensInv'
<1>1. /\ srv \in [Order -> Row] /\ view \in View /\ polls \subseteq Poll
      /\ mode # "open" => polls = {}
  BY DEF ScreensInv, TypeOK, PollsHolds
<1>2. CASE OpenMap
  BY <1>1, <1>2, SameBox DEF OpenMap, View
<1>3. CASE CloseMap
  BY <1>1, <1>3, SameBox DEF CloseMap, View
<1>4. CASE ChooseStar
  BY <1>1, <1>4, SameBox DEF ChooseStar, View
<1>5. CASE HandleRateOrder
  BY <1>1, <1>5, SameBox DEF HandleRateOrder, View
<1>6. ASSUME NEW ok \in BOOLEAN, RateAnswer(ok)
      PROVE  ScreensInv'
  <2>1. srv[view.of] \in Row
    BY <1>1 DEF View
  <2>2. srv' \in [Order -> Row]
    BY <1>1, <1>6, <2>1 DEF RateAnswer, Row
  <2>3. PICK g \in {"done", "chosen"} : view' = [view EXCEPT !.rating = g]
    BY <1>6 DEF RateAnswer
  <2>4. /\ view' \in View /\ view'.tab = view.tab /\ view'.order = view.order
        /\ view'.sent = view.sent /\ view'.code = view.code
    BY <1>1, <2>3 DEF View
  <2> QED
    BY <1>6, <2>2, <2>4, SameBox DEF RateAnswer
<1>7. ASSUME NEW t \in TrackTab, ShowTab(t)
      PROVE  ScreensInv'
  <2>1. view' \in View /\ view'.code = 0
    <3>1. 0 \in 0 .. MaxCode
      BY OrderAssumption
    <3> QED
      BY <1>1, <1>7, <3>1 DEF ShowTab, View
  <2>2. /\ polls' = {q \in polls : q.kind # "code"}
        /\ mode = "open" /\ UNCHANGED <<srv, list, mode>>
    BY <1>7 DEF ShowTab, Tracking
  <2> QED
    BY <2>1, <2>2 DEF ScreensInv, TypeOK, PollsHolds, list
<1> QED
  BY <1>2, <1>3, <1>4, <1>5, <1>6, <1>7

(* What the timers ask: a handover code only while its box is shown.       *)
LEMMA TimerStep ==
  ASSUME ScreensInv, LoadData \/ FetchOTP
  PROVE  ScreensInv'
<1>1. /\ srv \in [Order -> Row] /\ view \in View /\ polls \subseteq Poll
      /\ \A q \in polls : q.kind = "code" => OTPShown(view)
  BY DEF ScreensInv, TypeOK, PollsHolds
<1>2. PICK kind \in {"detail", "code"} :
        /\ polls' = polls \cup {Now(kind)} /\ mode = "open"
        /\ UNCHANGED <<srv, list, mode, view>> /\ (kind = "code" => OTPShown(view))
  BY DEF LoadData, FetchOTP, Ask, Tracking, OTPPolls
<1>3. Now(kind) \in Poll /\ Now(kind).kind = kind
  BY <1>1, NowIsAPoll
<1> QED
  BY <1>1, <1>2, <1>3 DEF ScreensInv, TypeOK, PollsHolds, list

(* The answer of a load: the view is settled, and the tracking row asked.  *)
LEMMA DetailStep ==
  ASSUME ScreensInv, NEW q \in polls, DetailAnswer(q)
  PROVE  ScreensInv'
<1>1. /\ srv \in [Order -> Row] /\ view \in View /\ polls \subseteq Poll
  BY DEF ScreensInv, TypeOK, PollsHolds
<1>2. q.status \in Status /\ q.rated \in BOOLEAN /\ (q.status \in Sent) \in BOOLEAN
  BY <1>1 DEF DetailAnswer, Poll
<1> DEFINE u == [view EXCEPT !.order = q.status, !.sent = (q.status \in Sent),
                             !.rated = q.rated]
<1>3. u \in View
  BY <1>1, <1>2 DEF View
<1>4. /\ view' = Settle(u) /\ polls' = Kept(Settle(u), polls \ {q}) \cup {Now("location")}
      /\ mode = "open" /\ UNCHANGED <<srv, list, mode>>
  BY DEF DetailAnswer, Answered, Tracking
<1> HIDE DEF u
<1>5. /\ view' \in View /\ OTPShown(view') = OTPShown(u)
      /\ view'.code # 0 => OTPShown(view')
  BY <1>3, <1>4, SettledView
<1>6. Now("location") \in Poll /\ Now("location").kind = "location"
  BY <1>1, NowIsAPoll
<1>7. polls' \subseteq Poll
  BY <1>1, <1>4, <1>6 DEF Kept
<1>8. \A p \in polls' : p.kind = "code" => OTPShown(view')
  BY <1>4, <1>6 DEF Kept
<1> QED
  BY <1>4, <1>5, <1>7, <1>8 DEF ScreensInv, TypeOK, PollsHolds, list

(* The other answers.                                                      *)
LEMMA AnswerStep ==
  ASSUME ScreensInv, NEW q \in polls, LocationAnswer(q) \/ OTPAnswer(q) \/ PollFails(q)
  PROVE  ScreensInv'
<1>1. /\ srv \in [Order -> Row] /\ view \in View /\ polls \subseteq Poll
      /\ \A p \in polls : p.kind = "code" => OTPShown(view)
      /\ view.code # 0 => OTPShown(view)
  BY DEF ScreensInv, TypeOK, PollsHolds
<1>2. polls' = polls \ {q} /\ mode = "open" /\ UNCHANGED <<srv, list, mode>>
  BY DEF LocationAnswer, OTPAnswer, PollFails, Answered, Tracking
<1>3. CASE UNCHANGED view
  BY <1>1, <1>2, <1>3, SameBox
<1>4. CASE LocationAnswer(q) /\ ~UNCHANGED view
  <2>1. view' = [view EXCEPT !.rated = q.rated] /\ q.rated \in BOOLEAN
    BY <1>1, <1>4 DEF LocationAnswer, Poll
  <2>2. /\ view' \in View /\ view'.tab = view.tab /\ view'.order = view.order
        /\ view'.sent = view.sent /\ view'.code = view.code
    BY <1>1, <2>1 DEF View
  <2> QED
    BY <1>1, <1>2, <2>2, SameBox
<1>5. CASE OTPAnswer(q) /\ ~UNCHANGED view
  <2>1. OTPShown(view) /\ q.code \in 0 .. MaxCode /\ 0 \in 0 .. MaxCode
    BY <1>1, <1>5, OrderAssumption DEF OTPAnswer, Poll
  <2>2. \/ view' = [view EXCEPT !.confirmed = TRUE, !.code = 0]
        \/ view' = [view EXCEPT !.code = q.code]
    BY <1>5 DEF OTPAnswer
  <2>3. /\ view' \in View /\ view'.tab = view.tab /\ view'.order = view.order
        /\ view'.sent = view.sent
    BY <1>1, <2>1, <2>2 DEF View
  <2>4. OTPShown(view')
    <3>1. OTPShown(view') = OTPShown(view)
      BY <2>3, BoxDependsOn
    <3> QED
      BY <2>1, <3>1
  <2> QED
    BY <1>1, <1>2, <2>3, <2>4 DEF ScreensInv, TypeOK, PollsHolds, list
<1> QED
  BY <1>3, <1>4, <1>5 DEF PollFails

-----------------------------------------------------------------------------
(* The theorems.                                                           *)

(* At the start nothing is known, asked or under way.                      *)
LEMMA ScreensInit ==
  ASSUME Init
  PROVE  ScreensInv
<1>1. srv \in [Order -> Row]
  <2> DEFINE R == {[status |-> s, code |-> 0, rated |-> FALSE, hidden |-> FALSE] :
                     s \in Given \cup {Start}}
  <2>1. 0 \in 0 .. MaxCode
    BY OrderAssumption
  <2>2. R \subseteq Row
    <3> SUFFICES ASSUME NEW s \in Given \cup {Start}
                 PROVE  [status |-> s, code |-> 0, rated |-> FALSE, hidden |-> FALSE] \in Row
      OBVIOUS
    <3>1. s \in Status
      BY StatusAssumption
    <3> QED
      BY <2>1, <3>1 DEF Row
  <2>3. srv \in [Order -> R]
    BY DEF Init
  <2> HIDE DEF R
  <2> QED
    BY <2>2, <2>3
<1>2. rows \in Rows /\ tab \in Tab
  BY DEF Init, Rows, Tab
<1> QED
  BY <1>1, <1>2, ClosedIsAView DEF Init, ScreensInv, TypeOK, PollsHolds

(* MyOrdersScreen.tsx and TrackOrderScreen.tsx: the copies the screens     *)
(* hold keep their types, nothing is polled but for an open screen, and a  *)
(* handover code is asked for only by a box that is on the screen.         *)
THEOREM ScreensInvariance == Spec => []ScreensInv
<1>1. Init => ScreensInv
  BY ScreensInit
<1>2. ScreensInv /\ [Next]_vars => ScreensInv'
  <2> SUFFICES ASSUME ScreensInv, [Next]_vars
               PROVE  ScreensInv'
    OBVIOUS
  <2>1. CASE Server
    BY <2>1, ServerStep
  <2>2. CASE MyOrders
    BY <2>2, MyOrdersStep
  <2>3. CASE TrackOrder
    <3>1. ASSUME NEW q \in polls,
                 DetailAnswer(q) \/ LocationAnswer(q) \/ OTPAnswer(q) \/ PollFails(q)
          PROVE  ScreensInv'
      BY <3>1, DetailStep, AnswerStep
    <3> QED
      BY <2>3, <3>1, ScreenStep, TapStep, TimerStep DEF TrackOrder, Success
  <2>4. CASE UNCHANGED vars
    BY <2>4 DEF vars, list, track, ScreensInv, TypeOK, PollsHolds
  <2> QED
    BY <2>1, <2>2, <2>3, <2>4 DEF Next
<1> QED
  BY <1>1, <1>2, PTL DEF Spec

(* OTPDisplay of TrackOrderScreen.tsx: the screens' types, and a handover  *)
(* code is held only while its box is shown: what the box knew goes with   *)
(* it, also when the status or the tab changes while answers are awaited.  *)
THEOREM TypeCorrect == Spec => []TypeOK
<1>1. ScreensInv => TypeOK
  BY DEF ScreensInv
<1> QED
  BY <1>1, ScreensInvariance, PTL

(* renderOrder of MyOrdersScreen.tsx against the shopper handlers: what a  *)
(* row that is up to date offers (cancel, refund, delete) the server does. *)
THEOREM OffersAccepted == Spec => []OffersAreAccepted
<1>1. TypeOK => OffersAreAccepted
  <2> SUFFICES ASSUME TypeOK, NEW o \in Order,
                      NEW kind \in RenderOrder(o) \ {"details", "track"},
                      rows[o] = srv[o].status
               PROVE  Accepts(kind, o)
    BY DEF OffersAreAccepted
  <2>1. srv[o].status \in Status
    BY DEF TypeOK, Row
  <2>2. \/ kind = "cancel" /\ rows[o] = "pending"
        \/ kind = "refund" /\ rows[o] = "payment_confirmed"
        \/ kind = "delete" /\ rows[o] \in HistoryStatuses
    BY DEF RenderOrder
  <2>3. rows[o] \in HistoryStatuses => srv[o].status \in {"cancelled", "refunded"}
    BY <2>1, StatusNames DEF HistoryStatuses, Status
  <2> QED
    BY <2>2, <2>3 DEF Accepts
<1> QED
  BY <1>1, TypeCorrect, PTL
=============================================================================
