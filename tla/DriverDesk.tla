----------------------------- MODULE DriverDesk -----------------------------
(***************************************************************************)
(* What the driver's app keeps beside the jobs: the sharing of the         *)
(* location, which makes a driver online, the pop-up of a new job, and the *)
(* earnings with the cashout form.                                         *)
(*                                                                         *)
(* Sharing is started and stopped in steps, each awaited.  A start that    *)
(* fails in the middle leaves what it has begun; a stop waits neither for  *)
(* a start nor for another stop: the switch shows Live, and can be tapped  *)
(* off again, until a stop has written the store.  The store is not the    *)
(* dashboard's: it lives on when the driver leaves the screen, and when    *)
(* the driver signs out on another one.                                    *)
(***************************************************************************)
EXTENDS Naturals

CONSTANTS
  Job,          \* the jobs the server announces
  Balance,      \* bound: the highest balance, in units of the least cashout
  MaxWatches,   \* bound: watches of the location that run
  MaxStops      \* bound: stops under way

VARIABLES
  online,   \* the server: is the driver online?
  s,        \* the location store, and the phone
  pushed,   \* announcements on their way
  pop,      \* the pop-up: the jobs announced, the last one only
  owed,     \* the server: what the driver may draw
  m,        \* the earnings card and the cashout form
  answers   \* loads of the earnings under way: the balance they will bring

sharing == <<online, s>>
alerts  == <<pushed, pop>>
money   == <<owed, m, answers>>
vars    == <<sharing, alerts, money>>

-----------------------------------------------------------------------------
(* The location store.  A start is at one of its awaits; stops are the     *)
(* ones that end the background task, offs those that tell the server.     *)
(* History: crossed, a stop has written the store while the last start,    *)
(* its watch running already, was about to.                                *)

Store ==
  [sharing : BOOLEAN, start : {"none", "allow", "toggle", "watch", "task"},
   stops : 0 .. MaxStops, offs : 0 .. MaxStops, background : BOOLEAN, sub : 0 .. 1,
   watches : 0 .. MaxWatches, task : BOOLEAN, crossed : BOOLEAN, signed : BOOLEAN]

Cash  == [shown : 0 .. Balance, open : BOOLEAN, amount : 0 .. Balance + 1, asked : 0 .. Balance]

(* Every variable has its type; no more watches are held than are running. *)
TypeOK ==
  /\ online \in BOOLEAN /\ s \in Store /\ pushed \subseteq Job
  /\ pop \subseteq Job /\ owed \in 0 .. Balance /\ m \in Cash /\ answers \subseteq 0 .. Balance
  /\ s.sub <= s.watches /\ (\A j, k \in pop : j = k)

Starting == s.start # "none"
Stopping == s.stops > 0
Stored   == UNCHANGED <<alerts, money>>

(* A second start does nothing; nor does one the driver does not consent   *)
(* to, or gives no permission for.                                         *)
StartSharing ==
  /\ s.signed /\ ~s.sharing /\ ~Starting
  /\ s' = [s EXCEPT !.start = "allow", !.crossed = FALSE] /\ UNCHANGED online /\ Stored

Allowed(fg, bg) ==
  /\ s.start = "allow" /\ UNCHANGED online /\ Stored
  /\ s' = [s EXCEPT !.start = IF fg THEN "toggle" ELSE "none", !.background = bg /\ fg]

(* The server may take the call and its answer be lost.  It takes none     *)
(* without the token that signing out deletes.                             *)
ToggledOn(ok) ==
  /\ s.start = "toggle" /\ (ok => s.signed) /\ Stored
  /\ online' \in (IF s.signed THEN {TRUE} ELSE {}) \cup (IF ok THEN {} ELSE {online})
  /\ s' = [s EXCEPT !.start = IF ok THEN "watch" ELSE "none"]

Watching(ok) ==
  /\ s.start = "watch" /\ s.watches < MaxWatches /\ UNCHANGED online /\ Stored
  /\ s' = IF ~ok THEN [s EXCEPT !.start = "none"]
          ELSE [s EXCEPT !.watches = @ + 1, !.sub = 1,
                         !.start = IF s.background THEN "task" ELSE "none",
                         !.sharing = @ \/ ~s.background]

(* Mutant: the driver is Live also when the task could not be started.     *)
LiveAnyway(ok) ==
  /\ s.start = "task" /\ UNCHANGED online /\ Stored
  /\ s' = [s EXCEPT !.start = "none", !.task = @ \/ ok, !.sharing = TRUE]

TaskStarted(ok) ==
  /\ s.start = "task" /\ UNCHANGED online /\ Stored
  /\ s' = [s EXCEPT !.start = "none", !.task = @ \/ ok, !.sharing = @ \/ ok]

StopSharing ==
  /\ s' = [s EXCEPT !.stops = @ + 1, !.watches = @ - s.sub, !.sub = 0]
  /\ UNCHANGED online /\ Stored

SwitchOff == s.signed /\ s.sharing /\ s.stops + s.offs < MaxStops /\ StopSharing

(* The task is asked about and ended; it may go on, for failures of either *)
(* are swallowed, or because a start has begun it since.  Then the store   *)
(* is written, and forgets whatever watch it holds by now.                 *)
TaskStopped(ended) ==
  /\ Stopping /\ UNCHANGED online /\ Stored
  /\ s' = [s EXCEPT !.stops = @ - 1, !.offs = @ + 1, !.task = @ /\ ~ended,
                    !.sharing = FALSE, !.sub = 0, !.crossed = @ \/ s.start = "task"]

(* A failure is swallowed.                                                 *)
ToggledOff(handled) ==
  /\ s.offs > 0 /\ (handled => s.signed) /\ online' = (online /\ ~handled) /\ Stored
  /\ s' = [s EXCEPT !.offs = @ - 1]

(* The button on the home and on the account screen: the session is        *)
(* cleared, and the sharing is not stopped.                                *)
SignOut == s.signed /\ s' = [s EXCEPT !.signed = FALSE] /\ UNCHANGED online /\ Stored
SignIn  == ~s.signed /\ s' = [s EXCEPT !.signed = TRUE] /\ UNCHANGED online /\ Stored

-----------------------------------------------------------------------------
(* The pop-up.                                                             *)

Announce(j) == pushed' = pushed \cup {j} /\ UNCHANGED <<pop, sharing, money>>

(* A push, or a notification tapped, however old: its five minutes begin.  *)
SetAssignment(j) ==
  j \in pushed /\ pushed' = pushed \ {j} /\ pop' = {j} /\ UNCHANGED <<sharing, money>>

ClearPopup == pop # {} /\ pop' = {} /\ UNCHANGED <<pushed, sharing, money>>

-----------------------------------------------------------------------------
(* Earnings and cashout.                                                   *)

Form(x) == m' = x /\ UNCHANGED <<sharing, alerts>>

Earn   == /\ owed < Balance /\ owed' = owed + 1
          /\ UNCHANGED <<m, answers, sharing, alerts>>

LoadEarnings ==
  /\ answers = {} /\ answers' = {owed}
  /\ UNCHANGED <<owed, m, sharing, alerts>>

EarningsAnswer(n, ok) ==
  /\ n \in answers /\ answers' = answers \ {n} /\ UNCHANGED owed
  /\ Form(IF ok THEN [m EXCEPT !.shown = n] ELSE m)

OpenCashout  == ~m.open /\ Form([m EXCEPT !.open = TRUE, !.amount = 0])
                /\ UNCHANGED <<owed, answers>>
CloseCashout == m.open /\ Form([m EXCEPT !.open = FALSE]) /\ UNCHANGED <<owed, answers>>

EnterAmount(n) ==
  m.open /\ n # m.amount /\ Form([m EXCEPT !.amount = n]) /\ UNCHANGED <<owed, answers>>

HandleRequestCashout ==
  /\ m.open /\ m.asked = 0 /\ m.amount > 0 /\ m.amount <= m.shown
  /\ Form([m EXCEPT !.asked = m.amount]) /\ UNCHANGED <<owed, answers>>

(* Mutant: the balance is not looked at again when it is drawn from.       *)
DrawnUnseen(heard) ==
  /\ m.asked > 0 /\ UNCHANGED answers /\ owed' = owed - m.asked
  /\ Form(IF heard THEN [m EXCEPT !.asked = 0, !.shown = owed', !.open = FALSE]
          ELSE [m EXCEPT !.asked = 0])

CashoutAnswer(heard) ==
  /\ m.asked > 0 /\ UNCHANGED answers
  /\ owed' = IF m.asked <= owed THEN owed - m.asked ELSE owed
  /\ Form(IF heard /\ m.asked <= owed
          THEN [m EXCEPT !.asked = 0, !.shown = owed', !.open = FALSE, !.amount = 0]
          ELSE [m EXCEPT !.asked = 0])

-----------------------------------------------------------------------------
Init ==
  /\ online = FALSE /\ pushed = {} /\ pop = {} /\ owed = 0 /\ answers = {}
  /\ s = [sharing |-> FALSE, start |-> "none", stops |-> 0, offs |-> 0, background |-> FALSE,
          sub |-> 0, watches |-> 0, task |-> FALSE, crossed |-> FALSE, signed |-> TRUE]
  /\ m = [shown |-> 0, open |-> FALSE, amount |-> 0, asked |-> 0]

Sharing ==
  \/ StartSharing \/ SwitchOff \/ SignOut \/ SignIn
  \/ \E ok \in BOOLEAN : ToggledOn(ok) \/ Watching(ok) \/ TaskStarted(ok)
  \/ \E ok \in BOOLEAN : TaskStopped(ok) \/ ToggledOff(ok)
  \/ \E fg, bg \in BOOLEAN : Allowed(fg, bg)

Alerts == ClearPopup \/ \E j \in Job : Announce(j) \/ SetAssignment(j)

Money ==
  \/ Earn \/ LoadEarnings \/ OpenCashout \/ CloseCashout \/ HandleRequestCashout
  \/ \E n \in 0 .. Balance, ok \in BOOLEAN : EarningsAnswer(n, ok)
  \/ \E n \in 0 .. Balance + 1 : EnterAmount(n)
  \/ \E heard \in BOOLEAN : CashoutAnswer(heard)

Next == Sharing \/ Alerts \/ Money

Spec == Init /\ [][Next]_vars

-----------------------------------------------------------------------------
(* Properties.                                                             *)

(* While the switch says Live, and no stop has still to write the store,   *)
(* the location is watched, and the store holds the watch that going       *)
(* offline ends: whatever starts and stops overlap, only a stop that wrote *)
(* the store between a start's watch and the start's end is excepted.      *)
LiveIsWatched ==
  s.sharing /\ ~Stopping /\ ~s.crossed =>
    s.sub = 1 /\ s.watches >= 1 /\ (s.background => s.task)

(* The same without the exception: what a stop that is tapped twice, and   *)
(* crosses a new start, breaks.                                            *)
LiveIsAlwaysWatched == s.sharing /\ ~Stopping => s.sub = 1

(* The dashboard's notice before the permission is asked for: "Location is *)
(* only collected while you are Online.  Go Offline at any time to stop    *)
(* it."                                                                    *)
CollectedMeansOnline == s.watches > 0 => s.sharing \/ Starting \/ Stopping

(* The dashboard's comment where it mounts: sharing keeps running when the *)
(* driver leaves the screen, "and only stops via the Switch toggle         *)
(* (stopSharing) or logout".                                               *)
SharingStopsAtLogout == s.signed \/ ~s.sharing

=============================================================================
