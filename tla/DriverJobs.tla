----------------------------- MODULE DriverJobs -----------------------------
(***************************************************************************)
(* The driver's dashboard of the mobile app: the lists of jobs, and the    *)
(* way of a job from its acceptance to its code.                           *)
(*                                                                         *)
(* The lists are copies, loaded by a timer, by a push of the server, after *)
(* what the driver does and by pulling.  A job the driver has not answered *)
(* within five minutes is locked on the screen; the five minutes count     *)
(* from a time the list brings, for a parcel the one its row was made at.  *)
(***************************************************************************)
EXTENDS Naturals, FiniteSets

CONSTANTS
  Parcel, Errand,   \* the jobs: parcel deliveries, and deliveries of shop orders
  Carried,          \* bound: the jobs the driver has on the way at the start
  MaxSilent,        \* bound: background loads under way
  MaxAsks,          \* bound: other calls of the driver under way
  None

ASSUME JobAssumption ==
  Parcel \cap Errand = {} /\ None \notin Parcel \cup Errand /\ Carried \subseteq Parcel \cup Errand

Job == Parcel \cup Errand

VARIABLES
  srv,      \* the jobs at the server
  d,        \* the dashboard
  loads,    \* loads of the lists under way, and what they will bring
  asks      \* calls of the driver under way

vars == <<srv, d, loads, asks>>

-----------------------------------------------------------------------------
Status   == {"open", "assigned", "accepted", "picked_up", "in_transit", "delivered"}
Awaiting == {"assigned", "accepted"}      \* of AWAITING_STATUSES, those the server writes
Done     == {"delivered"}                 \* of DONE_STATUSES, likewise

Row    == [status : Status, mine : BOOLEAN, late : BOOLEAN, code : BOOLEAN]
Rows   == [Job -> (Status \ {"open"}) \cup {None}]
NoRows == [j \in Job |-> None]

Move == {"accepted", "picked_up", "in_transit", "delivered"}

(* again: the moves tapped on a sheet, whose answers open it again.        *)
Dashboard ==
  [tab : {"active", "history"}, loading : BOOLEAN, rows : Rows, active : SUBSET Job,
   based : BOOLEAN, toast : BOOLEAN,
   sheet : {"closed", "loading", "open"}, map : {"closed", "loading", "open"},
   sel : Job \cup {None}, row : Status \cup {None}, again : SUBSET (Move \X Job),
   otp : BOOLEAN, of : Job \cup {None}, busy : BOOLEAN]

Asks == {"detail", "map", "generate", "verify"} \cup Move
Load == [silent : BOOLEAN, home : BOOLEAN, rows : Rows]

(* Every variable has its type; the active list shows jobs the lists hold, *)
(* a sheet that is open shows a job, and a code is entered for one.        *)
TypeOK ==
  /\ srv \in [Job -> Row] /\ d \in Dashboard
  /\ loads \subseteq Load /\ asks \subseteq Asks \X Job
  /\ (\A j \in d.active : d.rows[j] \notin Done \cup {None})
  /\ (d.sheet = "open" => d.sel # None) /\ (d.otp => d.of # None)

-----------------------------------------------------------------------------
(* The server, its staff and its workers (internal/delivery, shopper).     *)

Screen == UNCHANGED <<d, loads, asks>>

(* A parcel's row may be older than five minutes when a driver gets it.    *)
Assign(j) ==
  /\ srv[j].status = "open" /\ Screen
  /\ \E late \in (IF j \in Parcel THEN BOOLEAN ELSE {FALSE}) :
       srv' = [srv EXCEPT ![j] = [@ EXCEPT !.status = "assigned", !.mine = TRUE, !.late = late]]

TimePasses(j) ==
  /\ srv[j].mine /\ srv[j].status \in Awaiting /\ ~srv[j].late
  /\ srv' = [srv EXCEPT ![j].late = TRUE] /\ Screen

TakeBack(j) ==
  /\ srv[j].mine /\ srv[j].status \in Awaiting
  /\ srv' = [srv EXCEPT ![j].mine = FALSE] /\ Screen

Listed(s) == [j \in Job |-> IF s[j].mine THEN s[j].status ELSE None]

(* A status is written to the row whosever it is and whatever it was.      *)
Taken(q, j, right) ==
  CASE q = "accepted" /\ j \in Parcel -> srv[j].mine /\ srv[j].status = "assigned"
    [] q = "generate" -> srv[j].mine
    [] q = "verify"   -> srv[j].mine /\ srv[j].status # "delivered" /\ srv[j].code /\ right
    [] OTHER          -> TRUE

Handled(q, j) ==
  CASE q = "generate" -> [srv EXCEPT ![j].code = TRUE]
    [] q = "verify"   -> [srv EXCEPT ![j] = [@ EXCEPT !.status = "delivered", !.code = FALSE]]
    [] q \in Move     -> [srv EXCEPT ![j].status = q]
    [] OTHER          -> srv

-----------------------------------------------------------------------------
(* The lists.                                                              *)

Free  == ~d.loading
Plain == Free /\ d.sheet = "closed" /\ d.map = "closed" /\ ~d.otp
Able  == Cardinality(asks) < MaxAsks

OnScreen(s) == d' = s /\ UNCHANGED <<srv, loads, asks>>

Locked(j, s) == s \in Awaiting /\ srv[j].late

LoadDeliveries(s, silent, home) ==
  loads \cup {[silent |-> silent, home |-> home, rows |-> Listed(s)]}

Silent == Cardinality({q \in loads : q.silent}) < MaxSilent

Poll ==
  /\ Silent /\ loads' = LoadDeliveries(srv, TRUE, FALSE)
  /\ UNCHANGED <<srv, d, asks>>

OnRefresh ==
  /\ Plain /\ asks = {}                 \* bound: not over a call under way
  /\ loads' = LoadDeliveries(srv, FALSE, FALSE) /\ d' = [d EXCEPT !.loading = TRUE]
  /\ UNCHANGED <<srv, asks>>

(* Mutant: only what is locked leaves the active list.                     *)
Unlocked(rows) == {j \in Job : rows[j] # None /\ ~Locked(j, rows[j])}

Active(rows) ==
  {j \in Job : rows[j] \notin Done \cup {None} /\ ~Locked(j, rows[j])}

Fresh(rows) == {j \in Active(rows) : rows[j] \in Awaiting /\ j \notin d.active}

Ended(q) == [d EXCEPT !.loading = @ /\ q.silent, !.busy = @ /\ ~q.home,
                      !.tab = IF q.home THEN "history" ELSE @]

(* Mutant: a background load announces, but leaves the lists alone.        *)
AnnounceOnly(q) ==
  /\ loads' = loads \ {q} /\ UNCHANGED <<srv, asks>>
  /\ d' = IF q.silent THEN [d EXCEPT !.toast = @ \/ Fresh(q.rows) # {}]
          ELSE [Ended(q) EXCEPT !.rows = q.rows, !.active = Active(q.rows), !.based = TRUE]

LoadAnswer(q) ==
  /\ loads' = loads \ {q} /\ UNCHANGED <<srv, asks>>
  /\ d' = [Ended(q) EXCEPT
             !.rows = q.rows, !.active = Active(q.rows), !.based = TRUE,
             !.toast = @ \/ (q.silent /\ d.based /\ Fresh(q.rows) # {})]

LoadFails(q) ==
  loads' = loads \ {q} /\ d' = Ended(q) /\ UNCHANGED <<srv, asks>>

-----------------------------------------------------------------------------
(* Cards, the sheet of a job, its map.                                     *)

HideToast == d.toast /\ OnScreen([d EXCEPT !.toast = FALSE])
ToastView == Free /\ d.toast /\ OnScreen([d EXCEPT !.toast = FALSE, !.tab = "active"])

(* Mutant: the last step is a status like the others.                      *)
NextByTap(j, s) ==
  CASE s = "assigned"   -> IF j \in Parcel THEN "accepted" ELSE "picked_up"
    [] s = "accepted"   -> "picked_up"
    [] s = "picked_up"  -> "in_transit"
    [] s = "in_transit" -> "delivered"

NextStatus(j, s) ==
  CASE s = "assigned"   -> IF j \in Parcel THEN "accepted" ELSE "picked_up"
    [] s = "accepted"   -> "picked_up"
    [] s = "picked_up"  -> "in_transit"
    [] s = "in_transit" -> "generate"

Card(j) ==
  IF Locked(j, d.rows[j]) THEN {}
  ELSE {"detail", "map"} \cup IF d.rows[j] \in Done THEN {} ELSE {"next"}

OnTab == IF d.tab = "active" THEN d.active
         ELSE {j \in Job : d.rows[j] # None} \ d.active

SetTab(t) == Plain /\ d.tab # t /\ OnScreen([d EXCEPT !.tab = t])

Asking(q, j, s) ==
  /\ asks' = asks \cup {<<q, j>>} /\ d' = s /\ UNCHANGED <<srv, loads>>

OpenDetail(j) ==
  /\ Plain /\ Able /\ j \in OnTab /\ "detail" \in Card(j)
  /\ Asking("detail", j, [d EXCEPT !.sheet = "loading"])

OpenMap(j) ==
  /\ Plain /\ Able /\ j \in OnTab /\ "map" \in Card(j)
  /\ Asking("map", j, [d EXCEPT !.map = "loading"])

(* The sheet shows the parcel or the order, and offers the next step, save *)
(* of a parcel that is locked: an order's detail brings no time to lock by.*)
SheetOfParcel(s) == {"stages", "route", "receiver"} \cup IF s \in Done THEN {"earned"} ELSE {"next"}
SheetOfErrand(s) == {"customer", "items"} \cup IF s \in Done THEN {"earned"} ELSE {"next"}

Sheet ==
  IF d.sheet # "open" THEN {}
  ELSE (IF d.sel \in Parcel THEN SheetOfParcel(d.row) ELSE SheetOfErrand(d.row))
         \ (IF d.sel \in Parcel /\ Locked(d.sel, d.row) THEN {"next"} ELSE {})

NoSheet == [d EXCEPT !.sheet = "closed", !.sel = None, !.row = None]

CloseSheet == Free /\ d.sheet # "closed" /\ OnScreen(NoSheet)
CloseMap   == Free /\ d.map # "closed" /\ OnScreen([d EXCEPT !.map = "closed"])

(* What a tap does to a job with status s, from screen x.                  *)
UpdateStatus(j, s, x) ==
  IF NextStatus(j, s) = "generate"
  THEN Asking("generate", j, [x EXCEPT !.busy = TRUE, !.of = j])
  ELSE Asking(NextStatus(j, s), j, x)

TapNext(j) ==
  /\ Plain /\ Able /\ j \in OnTab /\ "next" \in Card(j) /\ UpdateStatus(j, d.rows[j], d)

(* The sheet's button acts on the row the lists hold, if they hold one.    *)
(* What it calls runs in the render of the tap, where the sheet is open.   *)
Reopening(q, j) == [NoSheet EXCEPT !.again = @ \cup ({<<q, j>>} \cap (Move \X Job))]

TapSheet ==
  /\ Free /\ Able /\ "next" \in Sheet
  /\ LET s == IF d.rows[d.sel] = None THEN d.row ELSE d.rows[d.sel]
     IN s \notin Done /\ UpdateStatus(d.sel, s, Reopening(NextStatus(d.sel, s), d.sel))

-----------------------------------------------------------------------------
(* Answers.                                                                *)

Over(q, j) == asks' = asks \ {<<q, j>>}

DetailAnswer(j, ok) ==
  /\ <<"detail", j>> \in asks /\ Over("detail", j) /\ UNCHANGED <<srv, loads>>
  /\ d' = IF d.sheet = "closed" THEN d
          ELSE IF ok THEN [d EXCEPT !.sheet = "open", !.sel = j, !.row = srv[j].status]
          ELSE NoSheet

MapAnswer(j, ok) ==
  /\ <<"map", j>> \in asks /\ Over("map", j) /\ UNCHANGED <<srv, loads>>
  /\ d' = IF d.map = "closed" THEN d
          ELSE [d EXCEPT !.map = IF ok THEN "open" ELSE "closed"]

(* The call is taken and the driver told so, or not: an answer may be lost.*)
(* A sheet that was open at the tap opens again, whatever is shown by now; *)
(* one opened since a tap on a card is not asked for again.                *)
MoveAnswer(q, j, heard) ==
  /\ q \in Move /\ <<q, j>> \in asks
  /\ srv' = IF Taken(q, j, TRUE) THEN Handled(q, j) ELSE srv
  /\ LET again == <<q, j>> \in d.again
         rest  == [d EXCEPT !.again = @ \ {<<q, j>>}]
     IN IF heard /\ Taken(q, j, TRUE)
        THEN /\ loads' = LoadDeliveries(srv', FALSE, FALSE)
             /\ d' = [rest EXCEPT !.loading = TRUE, !.sheet = IF again THEN "loading" ELSE @]
             /\ asks' = (asks \ {<<q, j>>}) \cup IF again THEN {<<"detail", j>>} ELSE {}
        ELSE asks' = asks \ {<<q, j>>} /\ d' = rest /\ UNCHANGED loads

GenerateAnswer(j, heard) ==
  /\ <<"generate", j>> \in asks /\ Over("generate", j) /\ UNCHANGED loads
  /\ srv' = IF Taken("generate", j, TRUE) THEN Handled("generate", j) ELSE srv
  /\ LET opens == heard /\ Taken("generate", j, TRUE)
     IN d' = [d EXCEPT !.busy = FALSE, !.otp = @ \/ opens]

HandleVerifyOTP ==
  /\ Free /\ Able /\ d.otp /\ ~d.busy /\ Asking("verify", d.of, [d EXCEPT !.busy = TRUE])

CancelOTP == Free /\ d.otp /\ OnScreen([d EXCEPT !.otp = FALSE])

VerifyAnswer(j, right, heard) ==
  /\ <<"verify", j>> \in asks /\ Over("verify", j)
  /\ srv' = IF Taken("verify", j, right) THEN Handled("verify", j) ELSE srv
  /\ IF heard /\ Taken("verify", j, right)
     THEN loads' = LoadDeliveries(srv', FALSE, TRUE) /\ d' = [d EXCEPT !.otp = FALSE, !.loading = TRUE]
     ELSE d' = [d EXCEPT !.busy = FALSE] /\ UNCHANGED loads

-----------------------------------------------------------------------------
Init ==
  /\ srv = [j \in Job |-> [status |-> IF j \in Carried THEN "in_transit" ELSE "open",
                           mine |-> j \in Carried, late |-> j \in Carried, code |-> FALSE]]
  /\ asks = {}
  /\ d = [tab |-> "active", loading |-> TRUE, rows |-> NoRows, active |-> {},
          based |-> FALSE, toast |-> FALSE, sheet |-> "closed", map |-> "closed",
          sel |-> None, row |-> None, again |-> {}, otp |-> FALSE, of |-> None, busy |-> FALSE]
  /\ loads = {[silent |-> FALSE, home |-> FALSE, rows |-> Listed(srv)]}

Server == \E j \in Job : Assign(j) \/ TimePasses(j) \/ TakeBack(j)

Taps ==
  \/ OnRefresh \/ HideToast \/ ToastView
  \/ CloseSheet \/ CloseMap \/ TapSheet \/ HandleVerifyOTP \/ CancelOTP
  \/ \E t \in {"active", "history"} : SetTab(t)
  \/ \E j \in Job : OpenDetail(j) \/ OpenMap(j) \/ TapNext(j)

Lists == Poll \/ \E q \in loads : LoadAnswer(q) \/ LoadFails(q)

Answers ==
  \E j \in Job, heard \in BOOLEAN :
    \/ DetailAnswer(j, heard) \/ MapAnswer(j, heard) \/ GenerateAnswer(j, heard)
    \/ \E q \in Move : MoveAnswer(q, j, heard)
    \/ \E right \in BOOLEAN : VerifyAnswer(j, right, heard)

Next == Server \/ Taps \/ Lists \/ Answers

(* The timer goes on while the dashboard is in front, and the network does *)
(* not lose every answer for ever.                                         *)
Fairness == WF_vars(Poll) /\ SF_vars(\E q \in loads : LoadAnswer(q))

Spec == Init /\ [][Next]_vars /\ Fairness

-----------------------------------------------------------------------------
(* Properties.                                                             *)

(* A job is delivered by its code and not by a tap: the server would take  *)
(* the status "delivered" from the driver as it takes the others.          *)
HandedOverByCode ==
  [][\A j \in Job : srv[j].status # "delivered" /\ srv'[j].status = "delivered"
                      => srv[j].code]_vars

(* What the driver has at the server comes up on the dashboard and stays,  *)
(* though pushes are lost, loads fail and older answers come late.         *)
ListCatchesUp ==
  \A j \in Job, s \in Status \ {"open"} :
    <>[](srv[j].mine /\ srv[j].status = s) => <>[](d.rows[j] = s)

=============================================================================
