------------------------------ MODULE Realtime ------------------------------
(***************************************************************************)
(* The channel on which the server pushes to one user: the app's socket    *)
(* service, the effects that connect it, the server's handler of each      *)
(* connection and the hub, which keeps one connection for the user.        *)
(*                                                                         *)
(* A new connection replaces the one the hub has and closes it.  Each      *)
(* socket's close handler forgets the service's socket, whichever that is, *)
(* and sets a timer that opens another.                                    *)
(***************************************************************************)
EXTENDS Naturals

CONSTANTS
  Socket,      \* the sockets that can be in use
  None,        \* no socket
  Hooks,       \* effects that connect in a sign-in: one; a driver's three, the
               \* hooks of the user and of the driver, and the dashboard's mount
  MaxTimers,   \* bound: timers pending
  MaxSignIns,  \* bound: sign-ins
  MaxDrops     \* bound: connections the network breaks

ASSUME RealtimeAssumption ==
  None \notin Socket /\ {Hooks, MaxTimers, MaxSignIns, MaxDrops} \subseteq Nat

VARIABLES
  conn,    \* each socket, as the app has it
  serv,    \* the server's handler of each socket
  hub,     \* the socket the hub has for the user
  svc,     \* the service: its socket, is it active, the timers it has set
  user,    \* is the user signed in; hooks still to connect; sign-ins so far
  send,    \* the socket a push is being written to
  drops    \* connections broken so far

vars == <<conn, serv, hub, svc, user, send, drops>>

(* Every variable has its type; the hub has only sockets that came to it.  *)
TypeOK ==
  /\ conn \in [Socket -> {"free", "connecting", "open", "closing", "broken"}]
  /\ serv \in [Socket -> {"none", "live", "ending"}]
  /\ hub \in Socket \cup {None} /\ send \in Socket \cup {None} /\ drops \in 0 .. MaxDrops
  /\ svc \in [ws : Socket \cup {None}, active : BOOLEAN, timers : 0 .. MaxTimers, held : BOOLEAN]
  /\ user \in [signed : BOOLEAN, due : 0 .. Hooks, ins : 0 .. MaxSignIns]
  /\ \A k \in Socket : hub = k => serv[k] # "none"

-----------------------------------------------------------------------------
(* The service.                                                            *)

(* Open: the service's socket is forgotten, not closed.                    *)
Open(s) ==
  IF ~s.active THEN svc' = s /\ UNCHANGED conn
  ELSE \E k \in Socket :
         /\ conn[k] = "free" /\ serv[k] = "none" /\ send # k
         /\ conn' = [conn EXCEPT ![k] = "connecting"] /\ svc' = [s EXCEPT !.ws = k]

(* A socket that is still connecting does not keep the next hook from      *)
(* opening another.                                                        *)
Connect ==
  IF svc.ws # None /\ conn[svc.ws] = "open" THEN UNCHANGED <<svc, conn>>
  ELSE Open([svc EXCEPT !.active = TRUE])

(* Mutant: a timer is set only when none was set before, and the handle of *)
(* one that has fired is never cleared.                                    *)
ForgottenOnce(s) ==
  IF ~s.active \/ s.held THEN [s EXCEPT !.ws = None]
  ELSE [s EXCEPT !.ws = None, !.timers = @ + 1, !.held = TRUE]

Forgotten(s) ==
  IF ~s.active THEN [s EXCEPT !.ws = None]
  ELSE [s EXCEPT !.ws = None, !.timers = @ + 1, !.held = TRUE]

OnClose(k) ==
  /\ svc.timers < MaxTimers
  /\ conn' = [conn EXCEPT ![k] = "free"] /\ svc' = Forgotten(svc)
  /\ UNCHANGED <<hub, user, send, drops>>

(* A socket that fails has its error handler called before: it closes the  *)
(* service's socket, which may be another one.                             *)
OnError(k) ==
  /\ svc.timers < MaxTimers
  /\ conn' = [x \in Socket |-> IF x = k THEN "free" ELSE IF x = svc.ws THEN "closing" ELSE conn[x]]
  /\ svc' = Forgotten(svc) /\ UNCHANGED <<hub, user, send, drops>>

TimerFires ==
  /\ svc.timers > 0 /\ Open([svc EXCEPT !.timers = @ - 1])
  /\ UNCHANGED <<serv, hub, user, send, drops>>

-----------------------------------------------------------------------------
(* The effects that connect: hooks after signing in, and the dashboard     *)
(* when it mounts, at any time after.                                      *)

SignIn ==
  /\ ~user.signed /\ user.ins < MaxSignIns
  /\ user' = [signed |-> TRUE, due |-> Hooks, ins |-> user.ins + 1]
  /\ UNCHANGED <<conn, serv, hub, svc, send, drops>>

HookConnects ==
  /\ user.due > 0 /\ user' = [user EXCEPT !.due = @ - 1] /\ Connect
  /\ UNCHANGED <<serv, hub, send, drops>>

(* disconnect: the timer set last is cleared, the service's socket closed. *)
SignOut ==
  /\ user.signed /\ user' = [user EXCEPT !.signed = FALSE, !.due = 0]
  /\ svc' = [ws |-> None, active |-> FALSE, held |-> FALSE,
             timers |-> IF svc.held /\ svc.timers > 0 THEN svc.timers - 1 ELSE svc.timers]
  /\ conn' = IF svc.ws = None THEN conn ELSE [conn EXCEPT ![svc.ws] = "closing"]
  /\ UNCHANGED <<serv, hub, send, drops>>

-----------------------------------------------------------------------------
(* The server: the upgrade and Register; the end of the reader, with       *)
(* Unregister, which deletes the user's entry whoever's it is.             *)

Register(k) ==
  /\ hub' = k
  /\ serv' = [serv EXCEPT ![k] = "live", ![hub] = "ending"]

Accept(k) ==
  /\ conn[k] = "connecting" /\ conn' = [conn EXCEPT ![k] = "open"]
  /\ IF hub = None THEN hub' = k /\ serv' = [serv EXCEPT ![k] = "live"] ELSE Register(k)
  /\ UNCHANGED <<svc, user, send, drops>>

Unregister(k) ==
  /\ serv[k] = "ending" /\ serv' = [serv EXCEPT ![k] = "none"] /\ hub' = None
  /\ UNCHANGED <<conn, svc, user, send, drops>>

(* Send takes the connection from the hub, and writes after the unlock; a  *)
(* write that fails deletes the user's entry.                              *)
Send ==
  /\ hub # None /\ send = None /\ send' = hub
  /\ UNCHANGED <<conn, serv, hub, svc, user, drops>>

Written ==
  /\ send # None /\ send' = None /\ hub' = IF serv[send] = "live" THEN hub ELSE None
  /\ UNCHANGED <<conn, serv, svc, user, drops>>

-----------------------------------------------------------------------------
(* The network.                                                            *)

Drop(k) ==
  /\ drops < MaxDrops /\ drops' = drops + 1 /\ conn[k] \in {"connecting", "open"}
  /\ conn' = [conn EXCEPT ![k] = "broken"] /\ UNCHANGED <<serv, hub, svc, user, send>>

(* Either end learns that the other has closed.                            *)
ServerLearns(k) ==
  /\ serv[k] = "live" /\ conn[k] \in {"closing", "broken", "free"}
  /\ serv' = [serv EXCEPT ![k] = "ending"] /\ UNCHANGED <<conn, hub, svc, user, send, drops>>

(* The hub closes a connection without a word: the phone may take it for   *)
(* an end or for a failure.                                                *)
Closed(k) ==
  /\ UNCHANGED serv
  /\ LET ended == conn[k] = "open" /\ serv[k] # "live" IN
       \/ (conn[k] = "closing" \/ ended) /\ OnClose(k)
       \/ (conn[k] = "broken" \/ ended) /\ OnError(k)

-----------------------------------------------------------------------------
Init ==
  /\ conn = [k \in Socket |-> "free"] /\ serv = [k \in Socket |-> "none"]
  /\ hub = None /\ send = None /\ drops = 0
  /\ svc = [ws |-> None, active |-> FALSE, timers |-> 0, held |-> FALSE]
  /\ user = [signed |-> FALSE, due |-> 0, ins |-> 0]

SocketStep(k) == Accept(k) \/ Unregister(k) \/ ServerLearns(k) \/ Closed(k)

Next ==
  \/ SignIn \/ SignOut \/ HookConnects \/ TimerFires \/ Send \/ Written
  \/ \E k \in Socket : SocketStep(k) \/ Drop(k)

Spec == Init /\ [][Next]_vars

(* The network carries what is sent, handlers run, effects and timers too. *)
Fairness ==
  /\ WF_vars(HookConnects) /\ WF_vars(TimerFires) /\ WF_vars(Written)
  /\ \A k \in Socket : WF_vars(SocketStep(k))

FairSpec == Spec /\ Fairness

-----------------------------------------------------------------------------
(* Properties.                                                             *)

(* A user who stays signed in has an open socket again and again, whatever *)
(* the network breaks and however the close handlers race.                 *)
ReconnectsAlways ==
  <>[]user.signed => []<>(\E k \in Socket : conn[k] = "open")

(* The comment of the hook for a driver's assignments: it is mounted once  *)
(* so that a driver sees the pop-up of a new order no matter which screen  *)
(* they are on; it covers the live push.  So the hub comes to have an open *)
(* socket of a user who stays signed in.                                   *)
PushesArrive ==
  <>[]user.signed => <>[](hub # None /\ conn[hub] = "open")

=============================================================================
