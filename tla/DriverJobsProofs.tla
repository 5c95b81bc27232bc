-------------------------- MODULE DriverJobsProofs --------------------------
(***************************************************************************)
(* Proofs about DriverJobs, for any set of jobs and any number of loads    *)
(* and calls under way: the dashboard's state has its type, what it shows  *)
(* or asks about has been given to a driver, and a job becomes delivered   *)
(* by its code only.                                                       *)
(***************************************************************************)
EXTENDS DriverJobs, TLAPS

Given(j) == srv[j].status # "open"

(* The lists, those still on their way included, name jobs that were given *)
(* to a driver; a job the driver has was.                                  *)
ListsHold ==
  /\ \A j \in Job : srv[j].mine => Given(j)
  /\ \A j \in Job : d.rows[j] # None => Given(j)
  /\ \A q \in loads : \A j \in Job : q.rows[j] # None => Given(j)

(* No call reports "delivered"; a sheet is asked for a job that was given; *)
(* a code that is being made is for the job its box will name.             *)
AsksHold ==
  /\ \A j \in Job : <<"delivered", j>> \notin asks
  /\ \A j \in Job : <<"detail", j>> \in asks => Given(j)
  /\ \A j \in Job : <<"generate", j>> \in asks => d.of # None

(* An open sheet shows the status of a job that was given.                 *)
SheetHolds == d.sheet = "open" => d.row \in Status \ {"open"}

JobsInv == TypeOK /\ ListsHold /\ AsksHold /\ SheetHolds

-----------------------------------------------------------------------------
(* What the list brings, and what a tap asks.                              *)

(* The server's list has statuses of jobs that were given.                 *)
LEMMA ListedIsRows ==
  ASSUME NEW s \in [Job -> Row], \A j \in Job : s[j].mine => s[j].status # "open"
  PROVE  Listed(s) \in Rows /\ \A j \in Job : Listed(s)[j] # None => s[j].status # "open"
BY DEF Listed, Rows, Row

(* A job on the tab is in the lists.                                       *)
LEMMA OnTabIsListed ==
  ASSUME TypeOK, NEW j \in Job, j \in OnTab
  PROVE  d.rows[j] \in Status \ {"open"} /\ d.rows[j] # None
<1>1. d.rows \in Rows /\ \A i \in d.active : d.rows[i] # None
  BY DEF TypeOK, Dashboard
<1> QED
  BY <1>1 DEF OnTab, Rows

(* The next step of a job that is not done is a call other than            *)
(* "delivered".                                                            *)
LEMMA NextIsNotDelivered ==
  ASSUME NEW j \in Job, NEW s \in Status \ {"open"}, s \notin Done
  PROVE  NextStatus(j, s) \in {"accepted", "picked_up", "in_transit", "generate"}
<1>1. s \in {"assigned", "accepted", "picked_up", "in_transit"}
  BY DEF Status, Done
<1> QED
  BY <1>1 DEF NextStatus

-----------------------------------------------------------------------------
(* Steps of one kind.                                                      *)

(* The server moves jobs on: none that was given becomes open again.       *)
LEMMA MovesOn ==
  ASSUME JobsInv, srv' \in [Job -> Row], UNCHANGED <<d, loads, asks>>,
         \A j \in Job : srv'[j].mine => srv'[j].status # "open",
         \A j \in Job : srv[j].status # "open" => srv'[j].status # "open"
  PROVE  JobsInv'
BY DEF JobsInv, TypeOK, ListsHold, AsksHold, SheetHolds, Given

(* The driver taps: at most one call is made, and the lists stay.          *)
LEMMA Tapped ==
  ASSUME JobsInv, UNCHANGED <<srv, loads>>, d' \in Dashboard,
         d'.rows = d.rows, d'.active = d.active,
         d'.sheet = "open" => d.sheet = "open" /\ d'.sel = d.sel /\ d'.row = d.row,
         d'.otp => d.otp, d'.of \in {d.of} \cup Job,
         NEW q \in Asks \ {"delivered"}, NEW j \in Job, asks' \subseteq asks \cup {<<q, j>>},
         q = "detail" => Given(j), q = "generate" => d'.of # None
  PROVE  JobsInv'
<1>1. \A i \in Job : i # None
  BY JobAssumption DEF Job
<1>2. TypeOK'
  <2>1. asks' \subseteq Asks \X Job
    BY DEF JobsInv, TypeOK
  <2> QED
    BY <1>1, <2>1 DEF JobsInv, TypeOK
<1>3. AsksHold'
  <2>1. \A i \in Job : <<"delivered", i>> \notin asks'
    BY DEF JobsInv, AsksHold
  <2>2. \A i \in Job : <<"detail", i>> \in asks' => Given(i)'
    BY DEF JobsInv, AsksHold, Given
  <2>3. \A i \in Job : <<"generate", i>> \in asks' => d'.of # None
    BY <1>1 DEF JobsInv, AsksHold
  <2> QED
    BY <2>1, <2>2, <2>3 DEF AsksHold
<1> QED
  BY <1>2, <1>3 DEF JobsInv, ListsHold, SheetHolds, Given

(* A tap that makes no call.                                               *)
LEMMA NoCall ==
  ASSUME JobsInv, UNCHANGED <<srv, loads>>, d' \in Dashboard,
         d'.rows = d.rows, d'.active = d.active, d'.of = d.of, asks' \subseteq asks,
         d'.sheet = "open" => d.sheet = "open" /\ d'.sel = d.sel /\ d'.row = d.row,
         d'.otp => d.otp
  PROVE  JobsInv'
<1>1. TypeOK'
  BY DEF JobsInv, TypeOK
<1>2. AsksHold'
  BY DEF JobsInv, AsksHold, Given
<1> QED
  BY <1>1, <1>2 DEF JobsInv, ListsHold, SheetHolds, Given

-----------------------------------------------------------------------------
(* The server.                                                             *)

(* A job is given, its five minutes pass, or it is taken back.             *)
LEMMA ServerStep ==
  ASSUME JobsInv, Server
  PROVE  JobsInv'
<1> PICK j \in Job : Assign(j) \/ TimePasses(j) \/ TakeBack(j)
  BY DEF Server
<1>1. srv \in [Job -> Row] /\ srv[j] \in Row /\ \A i \in Job : srv[i].mine => Given(i)
  BY DEF JobsInv, TypeOK, ListsHold
<1>2. CASE Assign(j)
  <2>1. PICK late \in BOOLEAN :
          srv' = [srv EXCEPT ![j] = [@ EXCEPT !.status = "assigned", !.mine = TRUE, !.late = late]]
    BY <1>2 DEF Assign
  <2> DEFINE r == [srv[j] EXCEPT !.status = "assigned", !.mine = TRUE, !.late = late]
  <2>2. r \in Row /\ r.status = "assigned"
    BY <1>1 DEF Row, Status
  <2>3. srv' = [srv EXCEPT ![j] = r]
    BY <2>1
  <2> HIDE DEF r
  <2>4. UNCHANGED <<d, loads, asks>>
    BY <1>2 DEF Assign, Screen
  <2>5. srv' \in [Job -> Row] /\ srv'[j] = r /\ \A i \in Job \ {j} : srv'[i] = srv[i]
    BY <1>1, <2>2, <2>3
  <2>6. \A i \in Job : srv'[i].mine => srv'[i].status # "open"
    BY <1>1, <2>2, <2>5 DEF Given
  <2>7. \A i \in Job : srv[i].status # "open" => srv'[i].status # "open"
    BY <2>2, <2>5
  <2> QED
    BY <2>4, <2>5, <2>6, <2>7, MovesOn
<1>3. CASE TimePasses(j)
  BY <1>1, <1>3, MovesOn DEF TimePasses, Screen, Row, Given
<1>4. CASE TakeBack(j)
  BY <1>1, <1>4, MovesOn DEF TakeBack, Screen, Row, Given
<1> QED
  BY <1>2, <1>3, <1>4

-----------------------------------------------------------------------------
(* The driver's taps.                                                      *)

(* Tabs, toasts, closing what is open: nothing is asked.                   *)
LEMMA PlainTap ==
  ASSUME JobsInv,
         \/ HideToast \/ ToastView \/ CloseSheet \/ CloseMap \/ CancelOTP
         \/ \E t \in {"active", "history"} : SetTab(t)
  PROVE  JobsInv'
<1>1. d \in Dashboard
  BY DEF JobsInv, TypeOK
<1>2. CASE HideToast
  BY <1>1, <1>2, NoCall DEF HideToast, OnScreen, Dashboard
<1>3. CASE ToastView
  BY <1>1, <1>3, NoCall DEF ToastView, OnScreen, Dashboard
<1>4. CASE CloseSheet
  BY <1>1, <1>4, NoCall DEF CloseSheet, NoSheet, OnScreen, Dashboard
<1>5. CASE CloseMap
  BY <1>1, <1>5, NoCall DEF CloseMap, OnScreen, Dashboard
<1>6. CASE CancelOTP
  BY <1>1, <1>6, NoCall DEF CancelOTP, OnScreen, Dashboard
<1>7. ASSUME NEW t \in {"active", "history"}, SetTab(t)
      PROVE  JobsInv'
  BY <1>1, <1>7, NoCall DEF SetTab, OnScreen, Dashboard
<1> QED
  BY <1>2, <1>3, <1>4, <1>5, <1>6, <1>7

(* Pulling the list down.                                                  *)
LEMMA RefreshStep ==
  ASSUME JobsInv, OnRefresh
  PROVE  JobsInv'
<1>1. d \in Dashboard /\ srv \in [Job -> Row]
  BY DEF JobsInv, TypeOK
<1> DEFINE l == [silent |-> FALSE, home |-> FALSE, rows |-> Listed(srv)]
<1>2. l \in Load /\ \A j \in Job : l.rows[j] # None => Given(j)
  BY <1>1, ListedIsRows DEF JobsInv, ListsHold, Load, Given
<1>3. loads' = loads \cup {l} /\ d' = [d EXCEPT !.loading = TRUE] /\ UNCHANGED <<srv, asks>>
  BY DEF OnRefresh, LoadDeliveries
<1> HIDE DEF l
<1>4. /\ d' \in Dashboard /\ d'.rows = d.rows /\ d'.active = d.active /\ d'.of = d.of
      /\ d'.sheet = d.sheet /\ d'.sel = d.sel /\ d'.row = d.row /\ d'.otp = d.otp
  BY <1>1, <1>3 DEF Dashboard
<1>5. TypeOK'
  BY <1>2, <1>3, <1>4 DEF JobsInv, TypeOK
<1>6. ListsHold'
  BY <1>2, <1>3, <1>4 DEF JobsInv, ListsHold, Given
<1> QED
  BY <1>3, <1>4, <1>5, <1>6 DEF JobsInv, AsksHold, SheetHolds, Given

(* A card's taps, and the confirmation of a code.                          *)
LEMMA CallingTap ==
  ASSUME JobsInv, HandleVerifyOTP \/ \E j \in Job : OpenDetail(j) \/ OpenMap(j)
  PROVE  JobsInv'
<1>1. d \in Dashboard /\ (d.otp => d.of # None)
  BY DEF JobsInv, TypeOK
<1>2. ASSUME NEW j \in Job, OpenDetail(j)
      PROVE  JobsInv'
  <2>1. Given(j)
    BY <1>2, OnTabIsListed DEF OpenDetail, JobsInv, ListsHold
  <2>2. /\ d' = [d EXCEPT !.sheet = "loading"] /\ asks' = asks \cup {<<"detail", j>>}
        /\ UNCHANGED <<srv, loads>>
    BY <1>2 DEF OpenDetail, Asking
  <2>3. /\ d' \in Dashboard /\ d'.rows = d.rows /\ d'.active = d.active /\ d'.of = d.of
        /\ d'.sheet = "loading" /\ d'.otp = d.otp
    BY <1>1, <2>2 DEF Dashboard
  <2> QED
    BY <2>1, <2>2, <2>3, Tapped DEF Asks
<1>3. ASSUME NEW j \in Job, OpenMap(j)
      PROVE  JobsInv'
  <2>1. /\ d' = [d EXCEPT !.map = "loading"] /\ asks' = asks \cup {<<"map", j>>}
        /\ UNCHANGED <<srv, loads>>
    BY <1>3 DEF OpenMap, Asking
  <2>2. /\ d' \in Dashboard /\ d'.rows = d.rows /\ d'.active = d.active /\ d'.of = d.of
        /\ d'.sheet = d.sheet /\ d'.otp = d.otp /\ d'.sel = d.sel /\ d'.row = d.row
    BY <1>1, <2>1 DEF Dashboard
  <2> QED
    BY <2>1, <2>2, Tapped DEF Asks
<1>4. CASE HandleVerifyOTP
  <2>1. /\ d' = [d EXCEPT !.busy = TRUE] /\ asks' = asks \cup {<<"verify", d.of>>}
        /\ UNCHANGED <<srv, loads>> /\ d.otp
    BY <1>4 DEF HandleVerifyOTP, Asking
  <2>2. /\ d' \in Dashboard /\ d'.rows = d.rows /\ d'.active = d.active /\ d'.of = d.of
        /\ d'.sheet = d.sheet /\ d'.otp = d.otp /\ d'.sel = d.sel /\ d'.row = d.row
    BY <1>1, <2>1 DEF Dashboard
  <2>3. d.of \in Job
    BY <1>1, <2>1 DEF Dashboard
  <2> QED
    BY <2>1, <2>2, <2>3, Tapped DEF Asks
<1> QED
  BY <1>2, <1>3, <1>4

(* The next step of a job, from its card or from its sheet.                *)
LEMMA NextTap ==
  ASSUME JobsInv, NEW j \in Job, NEW s \in Status \ {"open"}, s \notin Done, NEW x \in Dashboard,
         x.rows = d.rows, x.active = d.active, x.otp = d.otp, x.of = d.of,
         x.sheet = "open" => d.sheet = "open" /\ x.sel = d.sel /\ x.row = d.row,
         UpdateStatus(j, s, x)
  PROVE  JobsInv'
<1>1. NextStatus(j, s) \in {"accepted", "picked_up", "in_transit", "generate"}
  BY NextIsNotDelivered
<1>2. CASE NextStatus(j, s) = "generate"
  <2>1. /\ d' = [x EXCEPT !.busy = TRUE, !.of = j] /\ asks' = asks \cup {<<"generate", j>>}
        /\ UNCHANGED <<srv, loads>>
    BY <1>2 DEF UpdateStatus, Asking
  <2>2. /\ d' \in Dashboard /\ d'.rows = x.rows /\ d'.active = x.active /\ d'.of = j
        /\ d'.sheet = x.sheet /\ d'.otp = x.otp /\ d'.sel = x.sel /\ d'.row = x.row
    BY <2>1 DEF Dashboard
  <2>3. j # None
    BY JobAssumption DEF Job
  <2> QED
    BY <2>1, <2>2, <2>3, Tapped DEF Asks
<1>3. CASE NextStatus(j, s) # "generate"
  <2>1. /\ d' = x /\ asks' = asks \cup {<<NextStatus(j, s), j>>} /\ UNCHANGED <<srv, loads>>
    BY <1>3 DEF UpdateStatus, Asking
  <2>2. NextStatus(j, s) \in Asks \ {"delivered"} /\ NextStatus(j, s) # "detail"
    BY <1>1 DEF Asks, Move
  <2> QED
    BY <1>3, <2>1, <2>2, Tapped
<1> QED
  BY <1>2, <1>3

(* Both act on a row that was given to the driver.                         *)
LEMMA NextTapStep ==
  ASSUME JobsInv, TapSheet \/ \E j \in Job : TapNext(j)
  PROVE  JobsInv'
<1>1. d \in Dashboard /\ (d.sheet = "open" => d.sel # None)
  BY DEF JobsInv, TypeOK
<1>2. ASSUME NEW j \in Job, TapNext(j)
      PROVE  JobsInv'
  <2>1. d.rows[j] \in Status \ {"open"}
    BY <1>2, OnTabIsListed DEF TapNext, JobsInv
  <2>2. d.rows[j] \notin Done /\ UpdateStatus(j, d.rows[j], d)
    BY <1>2 DEF TapNext, Card
  <2> QED
    BY <1>1, <2>1, <2>2, NextTap
<1>3. CASE TapSheet
  <2> DEFINE s == IF d.rows[d.sel] = None THEN d.row ELSE d.rows[d.sel]
             x == Reopening(NextStatus(d.sel, s), d.sel)
  <2>1. d.sheet = "open" /\ s \notin Done /\ UpdateStatus(d.sel, s, x)
    BY <1>3 DEF TapSheet, Sheet
  <2>2. d.sel \in Job
    BY <1>1, <2>1 DEF Dashboard
  <2>3. s \in Status \ {"open"}
    BY <1>1, <2>1, <2>2 DEF JobsInv, SheetHolds, Dashboard, Rows
  <2>4. /\ x \in Dashboard /\ x.rows = d.rows /\ x.active = d.active
        /\ x.otp = d.otp /\ x.of = d.of /\ x.sheet = "closed"
    <3>1. PICK g \in SUBSET (Move \X Job) :
            x = [[d EXCEPT !.sheet = "closed", !.sel = None, !.row = None] EXCEPT !.again = g]
      <4> DEFINE g == NoSheet.again \cup ({<<NextStatus(d.sel, s), d.sel>>} \cap (Move \X Job))
      <4>1. NoSheet.again = d.again /\ d.again \in SUBSET (Move \X Job)
        BY <1>1 DEF NoSheet, Dashboard
      <4>2. g \in SUBSET (Move \X Job)
        BY <4>1
      <4> QED
        BY <4>2 DEF Reopening, NoSheet
    <3> QED
      BY <1>1, <3>1 DEF Dashboard
  <2> HIDE DEF s, x
  <2> QED
    BY <2>1, <2>2, <2>3, <2>4, NextTap
<1> QED
  BY <1>2, <1>3

-----------------------------------------------------------------------------
(* Loads.                                                                  *)

(* A load that ends, with its rows or with those the screen had.           *)
LEMMA Loaded ==
  ASSUME JobsInv, NEW q \in loads, UNCHANGED <<srv, asks>>, loads' = loads \ {q},
         d' \in Dashboard, d'.sheet = d.sheet, d'.sel = d.sel, d'.row = d.row,
         d'.otp = d.otp, d'.of = d.of,
         \/ d'.rows = d.rows /\ d'.active = d.active
         \/ d'.rows = q.rows /\ d'.active = Active(q.rows)
  PROVE  JobsInv'
<1>1. TypeOK'
  <2>1. \A j \in d'.active : d'.rows[j] \notin Done \cup {None}
    BY DEF Active, JobsInv, TypeOK
  <2> QED
    BY <2>1 DEF JobsInv, TypeOK
<1>2. ListsHold'
  BY DEF JobsInv, ListsHold, Given
<1> QED
  BY <1>1, <1>2 DEF JobsInv, AsksHold, SheetHolds, Given

(* The timer's loads, and their answers.                                   *)
LEMMA ListStep ==
  ASSUME JobsInv, Lists
  PROVE  JobsInv'
<1>1. d \in Dashboard /\ srv \in [Job -> Row] /\ loads \subseteq Load
  BY DEF JobsInv, TypeOK
<1>2. CASE Poll
  <2> DEFINE l == [silent |-> TRUE, home |-> FALSE, rows |-> Listed(srv)]
  <2>1. l \in Load /\ \A j \in Job : l.rows[j] # None => Given(j)
    BY <1>1, ListedIsRows DEF JobsInv, ListsHold, Load, Given
  <2>2. loads' = loads \cup {l} /\ UNCHANGED <<srv, d, asks>>
    BY <1>2 DEF Poll, LoadDeliveries
  <2> HIDE DEF l
  <2>3. TypeOK'
    BY <2>1, <2>2 DEF JobsInv, TypeOK
  <2>4. ListsHold'
    BY <2>1, <2>2 DEF JobsInv, ListsHold, Given
  <2> QED
    BY <2>2, <2>3, <2>4 DEF JobsInv, AsksHold, SheetHolds, Given
<1>3. ASSUME NEW q \in loads, LoadAnswer(q) \/ LoadFails(q)
      PROVE  JobsInv'
  <2>1. q.silent \in BOOLEAN /\ q.home \in BOOLEAN /\ q.rows \in Rows
    BY <1>1 DEF Load
  <2>2. /\ Ended(q) \in Dashboard /\ Ended(q).rows = d.rows /\ Ended(q).active = d.active
        /\ Ended(q).sheet = d.sheet /\ Ended(q).sel = d.sel /\ Ended(q).row = d.row
        /\ Ended(q).otp = d.otp /\ Ended(q).of = d.of /\ Ended(q).toast = d.toast
    <3> DEFINE l == d.loading /\ q.silent
               b == d.busy /\ ~q.home
               t == IF q.home THEN "history" ELSE d.tab
    <3>1. l \in BOOLEAN /\ b \in BOOLEAN /\ t \in {"active", "history"}
      BY <1>1, <2>1 DEF Dashboard
    <3>2. Ended(q) = [d EXCEPT !.loading = l, !.busy = b, !.tab = t]
      BY DEF Ended
    <3> HIDE DEF l, b, t
    <3> QED
      BY <1>1, <3>1, <3>2 DEF Dashboard
  <2> DEFINE e == Ended(q)
  <2> HIDE DEF e
  <2>3. CASE LoadFails(q)
    BY <1>3, <2>2, <2>3, Loaded DEF LoadFails
  <2>4. CASE LoadAnswer(q)
    <3> DEFINE t == d.toast \/ (q.silent /\ d.based /\ Fresh(q.rows) # {})
               a == Active(q.rows)
    <3>1. t \in BOOLEAN /\ a \in SUBSET Job
      BY DEF Active
    <3>2. d' = [e EXCEPT !.rows = q.rows, !.active = a, !.based = TRUE, !.toast = t]
      BY <2>2, <2>4 DEF LoadAnswer, e
    <3>3. /\ e \in Dashboard /\ e.sheet = d.sheet /\ e.sel = d.sel /\ e.row = d.row
          /\ e.otp = d.otp /\ e.of = d.of
      BY <2>2 DEF e
    <3>4. d'.active = Active(q.rows)
      <4> HIDE DEF t, a
      <4>1. d'.active = a
        BY <3>2, <3>3 DEF Dashboard
      <4> QED
        BY <4>1 DEF a
    <3> HIDE DEF t, a
    <3>5. /\ d' \in Dashboard /\ d'.rows = q.rows /\ d'.sheet = d.sheet /\ d'.sel = d.sel
          /\ d'.row = d.row /\ d'.otp = d.otp /\ d'.of = d.of
      BY <2>1, <3>1, <3>2, <3>3 DEF Dashboard
    <3>6. loads' = loads \ {q} /\ UNCHANGED <<srv, asks>>
      BY <2>4 DEF LoadAnswer
    <3> QED
      BY <3>4, <3>5, <3>6, Loaded
  <2> QED
    BY <1>3, <2>3, <2>4
<1> QED
  BY <1>2, <1>3 DEF Lists

-----------------------------------------------------------------------------
(* Answers.                                                                *)

(* What the server does with a call: no given job becomes open again.      *)
LEMMA HandledJobs ==
  ASSUME JobsInv, NEW j \in Job, NEW q \in (Move \cup {"generate", "verify"}), NEW right \in BOOLEAN,
         srv' = IF Taken(q, j, right) THEN Handled(q, j) ELSE srv
  PROVE  /\ srv' \in [Job -> Row] /\ \A i \in Job : srv'[i].mine => srv'[i].status # "open"
         /\ \A i \in Job : srv[i].status # "open" => srv'[i].status # "open"
         /\ q \in Move /\ Taken(q, j, right) => srv'[j].status # "open"
<1>1. srv \in [Job -> Row] /\ srv[j] \in Row /\ \A i \in Job : srv[i].mine => srv[i].status # "open"
  BY DEF JobsInv, TypeOK, ListsHold, Given
<1>2. CASE ~Taken(q, j, right)
  BY <1>1, <1>2
<1>3. CASE Taken(q, j, right)
  <2>1. PICK r \in Row : /\ srv' = [srv EXCEPT ![j] = r] /\ (srv[j].status # "open" => r.status # "open")
                         /\ (r.mine => r.status # "open") /\ (q \in Move => r.status # "open")
    <3>1. CASE q = "generate"
      <4> DEFINE r == [srv[j] EXCEPT !.code = TRUE]
      <4>1. r \in Row /\ r.status = srv[j].status /\ r.mine = srv[j].mine
        BY <1>1 DEF Row
      <4>2. srv' = [srv EXCEPT ![j] = r]
        <5>1. srv' = Handled("generate", j)
          BY <1>3, <3>1
        <5> QED
          BY <5>1 DEF Handled, Move
      <4> HIDE DEF r
      <4> QED
        BY <1>1, <3>1, <4>1, <4>2 DEF Move
    <3>2. CASE q = "verify"
      <4> DEFINE r == [srv[j] EXCEPT !.status = "delivered", !.code = FALSE]
      <4>1. r \in Row /\ r.status = "delivered"
        BY <1>1 DEF Row, Status
      <4>2. srv' = [srv EXCEPT ![j] = r]
        <5>1. srv' = Handled("verify", j)
          BY <1>3, <3>2
        <5> QED
          BY <5>1 DEF Handled, Move
      <4> HIDE DEF r
      <4> QED
        BY <4>1, <4>2
    <3>3. CASE q \in Move
      <4> DEFINE r == [srv[j] EXCEPT !.status = q]
      <4>1. r \in Row /\ r.status = q /\ q # "open"
        BY <1>1, <3>3 DEF Row, Status, Move
      <4>2. srv' = [srv EXCEPT ![j] = r]
        BY <1>1, <1>3, <3>3 DEF Handled, Move
      <4> HIDE DEF r
      <4> QED
        BY <4>1, <4>2
    <3> QED
      BY <3>1, <3>2, <3>3
  <2>2. srv'[j] = r /\ \A i \in Job \ {j} : srv'[i] = srv[i]
    BY <1>1, <2>1
  <2> QED
    BY <1>1, <1>3, <2>1, <2>2
<1> QED
  BY <1>2, <1>3

(* The sheet and the map.                                                  *)
LEMMA SheetAnswer ==
  ASSUME JobsInv, NEW j \in Job, NEW ok \in BOOLEAN, DetailAnswer(j, ok) \/ MapAnswer(j, ok)
  PROVE  JobsInv'
<1>1. d \in Dashboard /\ srv[j] \in Row
  BY DEF JobsInv, TypeOK
<1>2. UNCHANGED <<srv, loads>> /\ asks' \subseteq asks
  BY DEF DetailAnswer, MapAnswer, Over
<1>3. CASE d' = d
  BY <1>1, <1>2, <1>3, NoCall
<1>4. CASE d' = NoSheet
  BY <1>1, <1>2, <1>4, NoCall DEF NoSheet, Dashboard
<1>5. CASE \E m \in {"open", "closed"} : d' = [d EXCEPT !.map = m]
  BY <1>1, <1>2, <1>5, NoCall DEF Dashboard
<1>6. CASE DetailAnswer(j, ok) /\ d' = [d EXCEPT !.sheet = "open", !.sel = j, !.row = srv[j].status]
  <2>1. Given(j)
    BY <1>6 DEF DetailAnswer, JobsInv, AsksHold
  <2>2. j # None
    BY JobAssumption DEF Job
  <2>3. srv[j].status \in Status \ {"open"}
    BY <1>1, <2>1 DEF Given, Row
  <2>4. /\ d' \in Dashboard /\ d'.rows = d.rows /\ d'.active = d.active /\ d'.of = d.of
        /\ d'.otp = d.otp /\ d'.sel = j /\ d'.row = srv[j].status
    BY <1>1, <1>6, <2>3 DEF Dashboard
  <2>5. TypeOK'
    BY <1>2, <2>2, <2>4 DEF JobsInv, TypeOK
  <2>6. AsksHold'
    BY <1>2, <2>4 DEF JobsInv, AsksHold, Given
  <2> QED
    BY <1>2, <2>3, <2>4, <2>5, <2>6 DEF JobsInv, ListsHold, SheetHolds, Given
<1> QED
  BY <1>3, <1>4, <1>5, <1>6 DEF DetailAnswer, MapAnswer

(* A status the driver set.                                                *)
LEMMA MoveStep ==
  ASSUME JobsInv, NEW j \in Job, NEW heard \in BOOLEAN, NEW q \in Move, MoveAnswer(q, j, heard)
  PROVE  JobsInv'
<1>1. /\ srv' \in [Job -> Row] /\ \A i \in Job : srv'[i].mine => srv'[i].status # "open"
      /\ \A i \in Job : srv[i].status # "open" => srv'[i].status # "open"
      /\ Taken(q, j, TRUE) => srv'[j].status # "open"
  BY HandledJobs DEF MoveAnswer
<1>2. d \in Dashboard /\ asks \subseteq Asks \X Job
  BY DEF JobsInv, TypeOK
<1> DEFINE rest == [d EXCEPT !.again = @ \ {<<q, j>>}]
<1>3. /\ rest \in Dashboard /\ rest.rows = d.rows /\ rest.active = d.active /\ rest.of = d.of
      /\ rest.otp = d.otp /\ rest.sel = d.sel /\ rest.row = d.row /\ rest.sheet = d.sheet
  BY <1>2 DEF Dashboard
<1>4. CASE ~(heard /\ Taken(q, j, TRUE))
  <2>1. asks' \subseteq asks /\ d' = rest /\ UNCHANGED loads
    BY <1>4 DEF MoveAnswer
  <2> HIDE DEF rest
  <2>2. TypeOK'
    BY <1>1, <1>3, <2>1 DEF JobsInv, TypeOK
  <2> QED
    BY <1>1, <1>3, <2>1, <2>2 DEF JobsInv, ListsHold, AsksHold, SheetHolds, Given
<1>5. CASE heard /\ Taken(q, j, TRUE)
  <2> DEFINE l == [silent |-> FALSE, home |-> FALSE, rows |-> Listed(srv')]
             sh == IF <<q, j>> \in d.again THEN "loading" ELSE d.sheet
  <2>1. l \in Load /\ \A i \in Job : l.rows[i] # None => srv'[i].status # "open"
    <3>1. Listed(srv') \in Rows /\ \A i \in Job : Listed(srv')[i] # None => srv'[i].status # "open"
      BY <1>1, ListedIsRows
    <3> QED
      BY <3>1 DEF Load
  <2>2. loads' = loads \cup {l} /\ d' = [rest EXCEPT !.loading = TRUE, !.sheet = sh]
    BY <1>5, <1>3 DEF MoveAnswer, LoadDeliveries
  <2>3. asks' \subseteq asks \cup {<<"detail", j>>}
    BY <1>5 DEF MoveAnswer
  <2>4. sh \in {"closed", "loading", "open"} /\ (sh = "open" => d.sheet = "open")
    BY <1>2 DEF Dashboard
  <2> HIDE DEF l, sh, rest
  <2>5. /\ d' \in Dashboard /\ d'.rows = d.rows /\ d'.active = d.active /\ d'.of = d.of
        /\ d'.otp = d.otp /\ d'.sel = d.sel /\ d'.row = d.row /\ d'.sheet = sh
    BY <1>3, <2>2, <2>4 DEF Dashboard
  <2>6. TypeOK'
    <3>1. asks' \subseteq Asks \X Job
      BY <1>2, <2>3 DEF Asks
    <3> QED
      BY <1>1, <2>1, <2>2, <2>4, <2>5, <3>1 DEF JobsInv, TypeOK
  <2>7. ListsHold'
    BY <1>1, <2>1, <2>2, <2>5 DEF JobsInv, ListsHold, Given
  <2>8. AsksHold'
    <3>1. \A i \in Job : <<"delivered", i>> \notin asks'
      BY <2>3 DEF JobsInv, AsksHold
    <3>2. \A i \in Job : <<"detail", i>> \in asks' => Given(i)'
      BY <1>1, <1>5, <2>3 DEF JobsInv, AsksHold, Given
    <3>3. \A i \in Job : <<"generate", i>> \in asks' => d'.of # None
      BY <2>3, <2>5 DEF JobsInv, AsksHold
    <3> QED
      BY <3>1, <3>2, <3>3 DEF AsksHold
  <2>9. SheetHolds'
    BY <2>4, <2>5 DEF JobsInv, SheetHolds
  <2> QED
    BY <2>6, <2>7, <2>8, <2>9 DEF JobsInv
<1> QED
  BY <1>4, <1>5

(* A code is made, and given.                                              *)
LEMMA CodeAnswer ==
  ASSUME JobsInv, NEW j \in Job, NEW heard \in BOOLEAN,
         GenerateAnswer(j, heard) \/ \E right \in BOOLEAN : VerifyAnswer(j, right, heard)
  PROVE  JobsInv'
<1>1. /\ srv' \in [Job -> Row] /\ \A i \in Job : srv'[i].mine => srv'[i].status # "open"
      /\ \A i \in Job : srv[i].status # "open" => srv'[i].status # "open"
  <2>1. CASE GenerateAnswer(j, heard)
    BY <2>1, HandledJobs DEF GenerateAnswer
  <2>2. ASSUME NEW right \in BOOLEAN, VerifyAnswer(j, right, heard)
        PROVE  srv' = IF Taken("verify", j, right) THEN Handled("verify", j) ELSE srv
    BY <2>2 DEF VerifyAnswer
  <2> QED
    BY <2>1, <2>2, HandledJobs
<1>2. d \in Dashboard /\ asks' \subseteq asks
  BY DEF JobsInv, TypeOK, GenerateAnswer, VerifyAnswer, Over
<1>3. /\ d' \in Dashboard /\ d'.rows = d.rows /\ d'.active = d.active /\ d'.of = d.of
      /\ d'.sheet = d.sheet /\ d'.sel = d.sel /\ d'.row = d.row /\ (d'.otp => d.otp \/ d.of # None)
  <2>1. CASE GenerateAnswer(j, heard)
    <3> DEFINE o == d.otp \/ (heard /\ Taken("generate", j, TRUE))
    <3>1. o \in BOOLEAN /\ d.of # None
      BY <2>1 DEF GenerateAnswer, JobsInv, AsksHold
    <3>2. d' = [d EXCEPT !.busy = FALSE, !.otp = o]
      BY <2>1 DEF GenerateAnswer
    <3> HIDE DEF o
    <3> QED
      BY <1>2, <3>1, <3>2 DEF Dashboard
  <2>2. CASE d' = [d EXCEPT !.otp = FALSE, !.loading = TRUE] \/ d' = [d EXCEPT !.busy = FALSE]
    BY <1>2, <2>2 DEF Dashboard
  <2> QED
    BY <2>1, <2>2 DEF VerifyAnswer
<1>4. /\ loads' \subseteq loads \cup {l \in Load : \A i \in Job : l.rows[i] # None => srv'[i].status # "open"}
  <2> DEFINE l == [silent |-> FALSE, home |-> TRUE, rows |-> Listed(srv')]
  <2>1. l \in Load /\ \A i \in Job : l.rows[i] # None => srv'[i].status # "open"
    <3>1. Listed(srv') \in Rows /\ \A i \in Job : Listed(srv')[i] # None => srv'[i].status # "open"
      BY <1>1, ListedIsRows
    <3> QED
      BY <3>1 DEF Load
  <2>2. loads' \subseteq loads \cup {l}
    BY DEF GenerateAnswer, VerifyAnswer, LoadDeliveries
  <2> HIDE DEF l
  <2> QED
    BY <2>1, <2>2
<1>5. TypeOK'
  <2>1. loads' \subseteq Load
    BY <1>4 DEF JobsInv, TypeOK
  <2> QED
    BY <1>1, <1>2, <1>3, <2>1 DEF JobsInv, TypeOK
<1>6. ListsHold'
  <2>1. \A q \in loads' : \A i \in Job : q.rows[i] # None => srv'[i].status # "open"
    BY <1>1, <1>4 DEF JobsInv, ListsHold, Given
  <2> QED
    BY <1>1, <1>3, <2>1 DEF JobsInv, ListsHold, Given
<1>7. AsksHold'
  BY <1>1, <1>2, <1>3 DEF JobsInv, AsksHold, Given
<1> QED
  BY <1>3, <1>5, <1>6, <1>7 DEF JobsInv, SheetHolds

-----------------------------------------------------------------------------
(* The theorems.                                                           *)

(* At the start the list is being loaded.                                  *)
LEMMA JobsInit ==
  ASSUME Init
  PROVE  JobsInv
<1>1. srv \in [Job -> Row] /\ \A j \in Job : srv[j].mine => srv[j].status # "open"
  <2> SUFFICES ASSUME NEW j \in Job
               PROVE  srv[j] \in Row /\ (srv[j].mine => srv[j].status # "open")
    BY DEF Init
  <2> DEFINE m == j \in Carried
             t == IF j \in Carried THEN "in_transit" ELSE "open"
  <2>1. m \in BOOLEAN /\ t \in Status /\ (m => t # "open")
    BY DEF Status
  <2>2. srv[j] = [status |-> t, mine |-> m, late |-> m, code |-> FALSE]
    BY DEF Init
  <2> HIDE DEF m, t
  <2> QED
    BY <2>1, <2>2 DEF Row
<1>2. Listed(srv) \in Rows /\ \A j \in Job : Listed(srv)[j] # None => srv[j].status # "open"
  BY <1>1, ListedIsRows
<1>3. /\ d \in Dashboard /\ d.active = {} /\ d.sheet = "closed" /\ d.otp = FALSE
      /\ \A j \in Job : d.rows[j] = None
  BY DEF Init, Dashboard, NoRows, Rows
<1>4. /\ loads \subseteq Load
      /\ \A q \in loads : \A j \in Job : q.rows[j] # None => srv[j].status # "open"
  BY <1>2 DEF Init, Load
<1> QED
  BY <1>1, <1>3, <1>4 DEF Init, JobsInv, TypeOK, ListsHold, AsksHold, SheetHolds, Given

(* An answer of any call.                                                  *)
LEMMA AnswerStep ==
  ASSUME JobsInv, Answers
  PROVE  JobsInv'
BY SheetAnswer, MoveStep, CodeAnswer DEF Answers

(* DriverDashboardScreen.tsx: the dashboard's state has its type, the      *)
(* lists and sheets it shows or awaits are of jobs that were given to a    *)
(* driver, and none of its calls reports "delivered".                      *)
THEOREM JobsInvariance == Spec => []JobsInv
<1>1. Init => JobsInv
  BY JobsInit
<1>2. JobsInv /\ [Next]_vars => JobsInv'
  <2> SUFFICES ASSUME JobsInv, [Next]_vars
               PROVE  JobsInv'
    OBVIOUS
  <2>1. CASE Taps
    BY <2>1, PlainTap, RefreshStep, CallingTap, NextTapStep DEF Taps
  <2>2. CASE UNCHANGED vars
    BY <2>2 DEF vars, JobsInv, TypeOK, ListsHold, AsksHold, SheetHolds, Given
  <2> QED
    BY <2>1, <2>2, ServerStep, ListStep, AnswerStep DEF Next
<1> QED
  BY <1>1, <1>2, PTL DEF Spec

(* The dashboard's types: the active list shows jobs the lists hold, an    *)
(* open sheet shows a job, and a code is entered for one.                  *)
THEOREM TypeCorrect == Spec => []TypeOK
<1>1. JobsInv => TypeOK
  BY DEF JobsInv
<1> QED
  BY <1>1, JobsInvariance, PTL

(* updateStatus of DriverDashboardScreen.tsx: though the server would take *)
(* "delivered" from the driver, the dashboard never reports it, so a job   *)
(* becomes delivered only with a code that was made for it.                *)
THEOREM DeliveredByCode == Spec => HandedOverByCode
<1> DEFINE Good == \A j \in Job : srv[j].status # "delivered" /\ srv'[j].status = "delivered"
                                    => srv[j].code
<1>1. JobsInv /\ Next => Good
  <2> SUFFICES ASSUME JobsInv, Next, NEW j \in Job,
                      srv[j].status # "delivered", srv'[j].status = "delivered"
               PROVE  srv[j].code
    OBVIOUS
  <2>1. srv \in [Job -> Row]
    BY DEF JobsInv, TypeOK
  <2>2. CASE Server
    <3> PICK i \in Job : Assign(i) \/ TimePasses(i) \/ TakeBack(i)
      BY <2>2 DEF Server
    <3>1. srv'[j].status \in {srv[j].status, "assigned"}
      <4>1. srv[i] \in Row
        BY <2>1
      <4>2. CASE Assign(i)
        <5>1. PICK late \in BOOLEAN : srv' = [srv EXCEPT ![i] =
                [srv[i] EXCEPT !.status = "assigned", !.mine = TRUE, !.late = late]]
          BY <4>2 DEF Assign
        <5> QED
          BY <2>1, <4>1, <5>1 DEF Row
      <4>3. CASE TimePasses(i)
        BY <2>1, <4>1, <4>3 DEF TimePasses, Row
      <4>4. CASE TakeBack(i)
        BY <2>1, <4>1, <4>4 DEF TakeBack, Row
      <4> QED
        BY <4>2, <4>3, <4>4
    <3> QED
      BY <3>1
  <2>3. CASE UNCHANGED srv
    BY <2>3
  <2>4. CASE Answers
    <3>1. ASSUME NEW i \in Job, NEW heard \in BOOLEAN, NEW q \in Move, MoveAnswer(q, i, heard)
          PROVE  srv[j].code
      <4>1. q # "delivered"
        BY <3>1 DEF MoveAnswer, JobsInv, AsksHold
      <4>2. srv' = [srv EXCEPT ![i].status = q] \/ srv' = srv
        BY <3>1 DEF MoveAnswer, Handled, Move
      <4> QED
        BY <2>1, <4>1, <4>2 DEF Row
    <3>2. ASSUME NEW i \in Job, NEW heard \in BOOLEAN, GenerateAnswer(i, heard)
          PROVE  srv[j].code
      <4>1. srv' = [srv EXCEPT ![i].code = TRUE] \/ srv' = srv
        <5>1. Handled("generate", i) = [srv EXCEPT ![i].code = TRUE]
          BY DEF Handled, Move
        <5> QED
          BY <3>2, <5>1 DEF GenerateAnswer
      <4> QED
        BY <2>1, <4>1 DEF Row
    <3>3. ASSUME NEW i \in Job, NEW heard \in BOOLEAN, NEW right \in BOOLEAN,
                 VerifyAnswer(i, right, heard)
          PROVE  srv[j].code
      <4>1. \/ srv' = srv
            \/ srv[i].code /\ srv' = [srv EXCEPT ![i] = [@ EXCEPT !.status = "delivered", !.code = FALSE]]
        BY <3>3 DEF VerifyAnswer, Handled, Taken
      <4>2. i = j
        BY <2>1, <4>1
      <4> QED
        BY <4>1, <4>2
    <3> QED
      BY <2>4, <3>1, <3>2, <3>3 DEF Answers, DetailAnswer, MapAnswer
  <2>5. CASE Taps \/ Lists
    <3>1. UNCHANGED srv
      BY <2>5 DEF Taps, Lists, OnRefresh, HideToast, ToastView, CloseSheet, CloseMap, TapSheet,
                  HandleVerifyOTP, CancelOTP, SetTab, OpenDetail, OpenMap, TapNext, UpdateStatus,
                  Asking, OnScreen, Poll, LoadAnswer, LoadFails
    <3> QED
      BY <3>1
  <2> QED
    BY <2>2, <2>4, <2>5 DEF Next
<1>2. JobsInv /\ [Next]_vars => [Good]_vars
  BY <1>1
<1> QED
  BY <1>2, JobsInvariance, PTL DEF Spec, HandedOverByCode
=============================================================================
