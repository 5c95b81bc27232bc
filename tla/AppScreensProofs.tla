-------------------------- MODULE AppScreensProofs --------------------------
(***************************************************************************)
(* Proofs about the components of the app of which only safety is asked.   *)
(* Each is proved about as a specification of its own, through the name    *)
(* its instance has in MCAppScreens; a behaviour of the whole is one of    *)
(* each component, which moves or stays as it is.                          *)
(***************************************************************************)
EXTENDS MCAppScreens, FiniteSets, TLAPS

-----------------------------------------------------------------------------
(* The whole, and its components.                                          *)

(* Each step of the whole is a step of one component; the others stay.     *)
LEMMA BehavesAsEach ==
  Spec => /\ Checkout!Spec /\ Parcels!Spec /\ Desk!Spec
          /\ Account!Spec /\ Own!Spec /\ Identity!Spec
<1> DEFINE all == <<part, checkout, parcels, desk, account, session, identity>>
<1>1. Init => /\ Checkout!Init /\ Parcels!Init /\ Desk!Init
              /\ Account!Init /\ Own!Init /\ Identity!Init
  BY DEF Init
<1>2. [Next]_all => [Checkout!Next]_Checkout!vars /\ [Parcels!Next]_Parcels!vars
  BY DEF Next, checkout, parcels, Checkout!vars, Parcels!vars
<1>3. [Next]_all => [Desk!Next]_Desk!vars
  BY DEF Next, desk, Desk!vars, Desk!sharing, Desk!alerts, Desk!money
<1>4. [Next]_all => [Account!Next]_Account!vars
  BY DEF Next, account, Account!vars, Account!server
<1>5. [Next]_all => [Own!Next]_Own!vars /\ [Identity!Next]_Identity!vars
  BY DEF Next, session, identity, Own!vars, Identity!vars
<1> QED
  BY <1>1, <1>2, <1>3, <1>4, <1>5, PTL
  DEF Spec, Checkout!Spec, Parcels!Spec, Desk!Spec, Account!Spec, Own!Spec, Identity!Spec

-----------------------------------------------------------------------------
(* Session.  A sign-in or sign-out writes the access token first and sets  *)
(* the memory last, and nothing else writes that token, so what is set in  *)
(* memory is what stands on the disk, whatever is answered in between.     *)

(* After its first write, what is under way has its user's token on disk.  *)
TokenWritten == op.step > 0 => ~Own!Idle /\ disk.access = op.who

SessionTypes ==
  /\ disk \in [access : Own!Owner, refresh : Own!Owner, user : Own!Owner, kyc : Own!Statuses]
  /\ mem \in [tokens : Own!Owner, user : Own!Owner, kyc : Own!Statuses, loading : BOOLEAN]
  /\ op \in [kind : {"no", "in", "out"}, who : Own!Owner, step : 0 .. 4, kyc : Own!Statuses]

UpdateType == [who : Own!Owner, kyc : Own!Statuses, home : BOOLEAN,
            step : {"ask", "user", "user set", "upload", "submit", "kyc", "kyc set"},
            photo : BOOLEAN]

(* The updates under way, the accounts and the screen have their types.    *)
SessionRest ==
  /\ late \subseteq UpdateType
  /\ live \subseteq User
  /\ at \in {"login", "home", "app", "account", "delete", "kyc"}
  /\ \A u \in late : u.step \in {"ask", "upload", "submit"} => u.kyc = "none"

SessionInv == SessionTypes /\ SessionRest /\ TokenWritten /\ Own!RequestsAreOwn

(* The app starts with nothing stored, nothing in memory, nothing under way. *)
LEMMA SessionBegins == Own!Init => SessionInv
<1> SUFFICES ASSUME Own!Init PROVE SessionInv
  OBVIOUS
<1>1. SessionTypes /\ SessionRest
  BY DEF Own!Init, SessionTypes, SessionRest, Own!Owner, Own!Statuses
<1>2. op.step = 0 /\ mem.tokens = None
  BY DEF Own!Init
<1> QED
  BY <1>1, <1>2 DEF SessionInv, TokenWritten, Own!RequestsAreOwn

(* A step that leaves the token on disk, the memory's tokens and what is   *)
(* under way alone.                                                        *)
LEMMA SessionAside ==
  ASSUME SessionInv, SessionTypes', SessionRest', op' = op,
         disk'.access = disk.access, mem'.tokens = mem.tokens
  PROVE  SessionInv'
BY DEF SessionInv, TokenWritten, Own!RequestsAreOwn, Own!Idle

(* Every write of a sign-in or sign-out.                                   *)
LEMMA SessionWriting ==
  ASSUME SessionInv, Own!WriteNext
  PROVE  SessionInv'
<1>1. op.step \in 0 .. 3 /\ op.kind \in {"in", "out"} /\ op' = [op EXCEPT !.step = op.step + 1]
  BY DEF Own!WriteNext, SessionInv, SessionTypes, Own!Idle
<1>2. disk' \in [access : Own!Owner, refresh : Own!Owner, user : Own!Owner, kyc : Own!Statuses]
  BY DEF Own!WriteNext, SessionInv, SessionTypes
<1>3. op' \in [kind : {"no", "in", "out"}, who : Own!Owner, step : 0 .. 4, kyc : Own!Statuses]
  BY <1>1 DEF SessionInv, SessionTypes
<1>4. disk'.access = op.who
  <2>1. CASE op.step = 0
    BY <2>1 DEF Own!WriteNext, SessionInv, SessionTypes
  <2>2. CASE op.step # 0
    <3>1. disk'.access = disk.access
      BY <2>2, <1>1 DEF Own!WriteNext, SessionInv, SessionTypes
    <3> QED
      BY <3>1, <2>2, <1>1 DEF SessionInv, TokenWritten
  <2> QED
    BY <2>1, <2>2
<1>5. op'.who = op.who /\ op'.kind = op.kind
  BY <1>1 DEF SessionInv, SessionTypes
<1>6. SessionTypes'
  BY <1>2, <1>3 DEF Own!WriteNext, SessionInv, SessionTypes
<1>7. SessionRest'
  BY DEF Own!WriteNext, SessionInv, SessionRest
<1> QED
  BY <1>1, <1>4, <1>5, <1>6, <1>7 DEF SessionInv, TokenWritten, Own!RequestsAreOwn, Own!Idle

(* What is set in memory, or taken up from the disk, is what is there.     *)
LEMMA SessionSetting ==
  ASSUME SessionInv, Own!SetInMemory \/ Own!LoadStoredAuth
  PROVE  SessionInv'
<1>1. CASE Own!SetInMemory
  <2>1. /\ op' = [kind |-> "no", who |-> None, step |-> 0, kyc |-> "none"] /\ disk' = disk
        /\ mem' = [tokens |-> op.who, user |-> op.who, kyc |-> op.kyc, loading |-> FALSE]
        /\ disk.access = op.who
    BY <1>1 DEF Own!SetInMemory, Own!Start, SessionInv, TokenWritten
  <2>2. SessionTypes'
    BY <2>1 DEF SessionInv, SessionTypes, Own!Owner, Own!Statuses
  <2>3. SessionRest'
    BY <1>1 DEF Own!SetInMemory, SessionInv, SessionRest
  <2> QED
    BY <2>1, <2>2, <2>3 DEF SessionInv, TokenWritten, Own!RequestsAreOwn
<1>2. CASE Own!LoadStoredAuth
  <2>1. disk' = disk /\ op' = op
    BY <1>2 DEF Own!LoadStoredAuth
  <2>2. mem'.tokens = disk.access \/ mem'.tokens = None
    BY <1>2 DEF Own!LoadStoredAuth
  <2>3. mem' \in [tokens : Own!Owner, user : Own!Owner, kyc : Own!Statuses, loading : BOOLEAN]
    BY <1>2 DEF Own!LoadStoredAuth, SessionInv, SessionTypes, Own!Owner, Own!Statuses
  <2>4. SessionRest'
    BY <1>2 DEF Own!LoadStoredAuth, SessionInv, SessionRest
  <2> QED
    BY <2>1, <2>2, <2>3, <2>4 DEF SessionInv, SessionTypes, TokenWritten, Own!RequestsAreOwn,
      Own!Idle
<1> QED
  BY <1>1, <1>2

(* A new update has its type.                                              *)
LEMMA NewUpdateTyped ==
  ASSUME NEW who \in Own!Owner, NEW step \in {"ask", "upload", "submit"}
  PROVE  /\ Own!New(who, step) \in UpdateType /\ Own!New(who, step).kyc = "none"
         /\ [Own!New(who, step) EXCEPT !.home = TRUE] \in UpdateType
         /\ [Own!New(who, step) EXCEPT !.home = TRUE].kyc = "none"
         /\ [Own!New(who, step) EXCEPT !.photo = TRUE] \in UpdateType
         /\ [Own!New(who, step) EXCEPT !.photo = TRUE].kyc = "none"
BY DEF Own!New, UpdateType, Own!Statuses

(* The actions that begin an update: only those under way become more.     *)
LEMMA UpdateAsked ==
  ASSUME SessionInv, Own!RefreshUser \/ Own!PickAvatar \/ Own!HandleSubmit
  PROVE  SessionInv'
<1>1. None \in Own!Owner /\ disk.access \in Own!Owner
  BY DEF SessionInv, SessionTypes, Own!Owner
<1>2. PICK u \in UpdateType : u.kyc = "none" /\ late' = late \cup {u}
  <2>1. CASE Own!RefreshUser
    BY <2>1, <1>1, NewUpdateTyped DEF Own!RefreshUser, Own!Update
  <2>2. CASE Own!PickAvatar
    BY <2>2, <1>1, NewUpdateTyped DEF Own!PickAvatar, Own!Update
  <2>3. CASE Own!HandleSubmit
    BY <2>3, <1>1, NewUpdateTyped DEF Own!HandleSubmit, Own!Update
  <2> QED
    BY <2>1, <2>2, <2>3
<1>3. UNCHANGED <<disk, mem, op, live, at>>
  BY DEF Own!RefreshUser, Own!PickAvatar, Own!HandleSubmit
<1>4. SessionRest'
  BY <1>2, <1>3 DEF SessionInv, SessionRest
<1>5. SessionTypes'
  BY <1>3 DEF SessionInv, SessionTypes
<1> QED
  BY <1>3, <1>4, <1>5, SessionAside

(* Their answers, and the writes that follow them: neither the token on    *)
(* disk nor those in memory change.                                        *)
LEMMA UpdateAnswered ==
  ASSUME SessionInv, NEW u \in late,
         \/ \E status \in {"pending", "done"} : Own!MeAnswer(u, status)
         \/ \E ok \in BOOLEAN : Own!Submitted(u, ok) \/ Own!PhotoUploaded(u, ok)
         \/ Own!UserWritten(u) \/ Own!UserSet(u) \/ Own!StatusWritten(u) \/ Own!StatusSet(u)
  PROVE  SessionInv'
<1>1. u \in UpdateType /\ u.who \in Own!Owner /\ u.kyc \in Own!Statuses
  BY DEF SessionInv, SessionRest, UpdateType
<1>2. CASE \E status \in {"pending", "done"} : Own!MeAnswer(u, status)
  <2>1. PICK status \in {"pending", "done"} : Own!MeAnswer(u, status)
    BY <1>2
  <2> DEFINE next == [u EXCEPT !.kyc = status, !.step = IF mem.user = None THEN "kyc" ELSE "user"]
  <2>2. next \in UpdateType /\ next.step \notin {"ask", "upload", "submit"}
    BY <1>1 DEF UpdateType, Own!Statuses
  <2>3. late' \subseteq late \cup {next} /\ UNCHANGED <<disk, mem, op, live, at>>
    BY <2>1 DEF Own!MeAnswer
  <2>4. SessionRest'
    BY <2>2, <2>3 DEF SessionInv, SessionRest
  <2>5. SessionTypes'
    BY <2>3 DEF SessionInv, SessionTypes
  <2> QED
    BY <2>3, <2>4, <2>5, SessionAside
<1>3. CASE \E ok \in BOOLEAN : Own!Submitted(u, ok)
  <2> DEFINE next == [u EXCEPT !.step = "kyc", !.kyc = "done"]
  <2>2. next \in UpdateType /\ next.step \notin {"ask", "upload", "submit"}
    BY <1>1 DEF UpdateType, Own!Statuses
  <2>3. late' \subseteq late \cup {next} /\ UNCHANGED <<disk, mem, op, live, at>>
    BY <1>3 DEF Own!Submitted
  <2>4. SessionRest'
    BY <2>2, <2>3 DEF SessionInv, SessionRest
  <2>5. SessionTypes'
    BY <2>3 DEF SessionInv, SessionTypes
  <2> QED
    BY <2>3, <2>4, <2>5, SessionAside
<1>4. CASE \E ok \in BOOLEAN : Own!PhotoUploaded(u, ok)
  <2> DEFINE next == [u EXCEPT !.who = mem.user, !.step = "user"]
  <2>1. mem.user \in Own!Owner
    BY DEF SessionInv, SessionTypes
  <2>2. next \in UpdateType /\ next.step \notin {"ask", "upload", "submit"}
    BY <1>1, <2>1 DEF UpdateType
  <2>3. late' \subseteq late \cup {next} /\ UNCHANGED <<disk, mem, op, live, at>>
    BY <1>4 DEF Own!PhotoUploaded
  <2>4. SessionRest'
    BY <2>2, <2>3 DEF SessionInv, SessionRest
  <2>5. SessionTypes'
    BY <2>3 DEF SessionInv, SessionTypes
  <2> QED
    BY <2>3, <2>4, <2>5, SessionAside
<1>5. CASE Own!UserWritten(u) \/ Own!UserSet(u) \/ Own!StatusWritten(u) \/ Own!StatusSet(u)
  <2>1. /\ op' = op /\ disk'.access = disk.access /\ mem'.tokens = mem.tokens /\ SessionTypes'
    BY <1>1, <1>5 DEF Own!UserWritten, Own!UserSet, Own!StatusWritten, Own!StatusSet,
      SessionInv, SessionTypes
  <2>2. \A step \in {"user set", "kyc", "kyc set"} :
          /\ [u EXCEPT !.step = step] \in UpdateType
          /\ [u EXCEPT !.step = step].step = step
    BY <1>1 DEF UpdateType
  <2>3. \E step \in {"user set", "kyc", "kyc set"} :
          late' \subseteq late \cup {[u EXCEPT !.step = step]}
    BY <1>5 DEF Own!UserWritten, Own!UserSet, Own!StatusWritten, Own!StatusSet, Own!Then
  <2>4. live' = live /\ at' \in {at, "home"}
    BY <1>5 DEF Own!UserWritten, Own!UserSet, Own!StatusWritten, Own!StatusSet
  <2>5. SessionRest'
    BY <2>2, <2>3, <2>4 DEF SessionInv, SessionRest
  <2> QED
    BY <2>1, <2>5, SessionAside
<1> QED
  BY <1>2, <1>3, <1>4, <1>5

(* Every step of a screen: a sign-in or sign-out begins only while none is *)
(* under way, and has written nothing yet.                                 *)
LEMMA ScreenShown ==
  ASSUME SessionInv, Own!Screens
  PROVE  SessionInv'
<1>1. CASE \E status \in {"login", "home", "app", "account", "delete", "kyc"} : Own!Goto(status)
  <2>1. UNCHANGED <<disk, mem, op, late, live>>
    BY <1>1 DEF Own!Goto
  <2>2. SessionTypes' /\ SessionRest'
    BY <1>1 DEF Own!Goto, SessionInv, SessionTypes, SessionRest
  <2> QED
    BY <2>1, <2>2, SessionAside
<1>2. ASSUME NEW kind \in {"no", "in", "out"}, NEW who \in Own!Owner, NEW kyc \in Own!Statuses,
             Own!Start(kind, who, kyc), UNCHANGED <<disk, mem>>, SessionRest',
             kind = "no" => mem.tokens = None
      PROVE  SessionInv'
  <2>1. op' = [kind |-> kind, who |-> who, step |-> 0, kyc |-> kyc]
    BY <1>2 DEF Own!Start
  <2>2. SessionTypes'
    BY <2>1, <1>2 DEF SessionInv, SessionTypes
  <2> QED
    BY <2>1, <2>2, <1>2 DEF SessionInv, TokenWritten, Own!RequestsAreOwn, Own!Idle
<1>3. None \in Own!Owner /\ User \subseteq Own!Owner /\ Own!Statuses = {"none", "pending", "done"}
  BY DEF Own!Owner, Own!Statuses
<1>4. CASE Own!SignOut
  <2>1. SessionRest'
    BY <1>4 DEF Own!SignOut, SessionInv, SessionRest
  <2> QED
    BY <2>1, <1>2, <1>3, <1>4 DEF Own!SignOut
<1>5. CASE \E u \in User, status \in {"pending", "done"} : Own!SignIn(u, status)
  <2>1. SessionRest'
    BY <1>5 DEF Own!SignIn, SessionInv, SessionRest
  <2> QED
    BY <2>1, <1>2, <1>3, <1>5 DEF Own!SignIn
<1>6. CASE \E heard \in BOOLEAN : Own!DeleteAccount(heard)
  <2>1. SessionRest' /\ UNCHANGED <<disk, mem>>
    BY <1>6 DEF Own!DeleteAccount, SessionInv, SessionRest
  <2>2. Own!Start("out", None, "none") \/ op' = op
    BY <1>6 DEF Own!DeleteAccount
  <2>3. CASE op' = op
    BY <2>1, <2>3, SessionAside DEF SessionInv, SessionTypes
  <2> QED
    BY <2>1, <2>2, <2>3, <1>2, <1>3
<1>7. CASE Own!Restart
  <2>1. /\ mem' = [tokens |-> None, user |-> None, kyc |-> "none", loading |-> TRUE]
        /\ op' = [kind |-> "no", who |-> None, step |-> 0, kyc |-> "none"]
        /\ disk' = disk /\ late' = {} /\ live' = live /\ at' = "login"
    BY <1>7 DEF Own!Restart, Own!Start
  <2>2. SessionTypes' /\ SessionRest'
    BY <2>1, <1>3 DEF SessionInv, SessionTypes, SessionRest
  <2> QED
    BY <2>1, <2>2 DEF SessionInv, TokenWritten, Own!RequestsAreOwn
<1> QED
  <2>1. CASE Own!OpenApp \/ Own!CloseApp \/ Own!OpenAccount \/ Own!LeaveAccount
    BY <2>1, <1>1 DEF Own!OpenApp, Own!CloseApp, Own!OpenAccount, Own!LeaveAccount
  <2>2. CASE Own!OpenDelete \/ Own!CloseDelete \/ Own!OpenKyc \/ Own!HandleBack
    BY <2>2, <1>1 DEF Own!OpenDelete, Own!CloseDelete, Own!OpenKyc, Own!HandleBack
  <2> QED
    BY <2>1, <2>2, <1>4, <1>5, <1>6, <1>7 DEF Own!Screens

(* The invariant that RequestsAreOwn needs: a sign-in or sign-out under    *)
(* way has written its user's token before anything else.                  *)
THEOREM SessionInvariance == Own!Spec => []SessionInv
<1>1. Own!Init => SessionInv
  BY SessionBegins
<1>2. ASSUME SessionInv, [Own!Next]_Own!vars PROVE SessionInv'
  <2>1. CASE Own!Screens
    BY <1>2, <2>1, ScreenShown
  <2>2. CASE Own!Store
    <3>1. CASE Own!HandleSubmit \/ Own!RefreshUser \/ Own!PickAvatar
      BY <1>2, <3>1, UpdateAsked
    <3>2. CASE Own!WriteNext
      BY <1>2, <3>2, SessionWriting
    <3>3. CASE Own!SetInMemory \/ Own!LoadStoredAuth
      BY <1>2, <3>3, SessionSetting
    <3> QED
      BY <1>2, <2>2, <3>1, <3>2, <3>3, UpdateAnswered DEF Own!Store
  <2>3. CASE UNCHANGED Own!vars
    BY <1>2, <2>3 DEF Own!vars, SessionInv, SessionTypes, SessionRest, TokenWritten,
      Own!RequestsAreOwn, Own!Idle
  <2> QED
    BY <1>2, <2>1, <2>2, <2>3 DEF Own!Next
<1> QED
  BY <1>1, <1>2, PTL DEF Own!Spec

(* Every variable keeps its type.                                          *)
THEOREM SessionTypeCorrect == Own!Spec => []Own!TypeOK
<1>1. SessionInv => Own!TypeOK
  BY DEF SessionInv, SessionTypes, SessionRest, UpdateType, Own!TypeOK
<1> QED
  BY <1>1, SessionInvariance, PTL

(* The interceptor's token, read from the disk at each request, is that of *)
(* the session in memory whenever no sign-in or sign-out is under way:     *)
(* whatever was left on the disk before, and however often the app is      *)
(* started again between two writes.                                       *)
THEOREM TokenIsCarried == Own!Spec => []Own!RequestsAreOwn
<1>1. SessionInv => Own!RequestsAreOwn
  BY DEF SessionInv
<1> QED
  BY <1>1, SessionInvariance, PTL

-----------------------------------------------------------------------------
(* DriverDesk.  A start and any number of stops may each be at one of      *)
(* their awaits at once; a start begins only when nothing is shared and    *)
(* shares only at its end, a stop begins only when something is.  What a   *)
(* stop left over from earlier takes from a start shows in crossed.        *)

(* What the proofs use of the bounds.                                      *)
LEMMA DeskBounds ==
  Balance \in Nat /\ MaxWatches \in Nat \ {0} /\ MaxStops \in Nat \ {0}
BY AppAssumption

(* What a start and a stop rely on of each other.                          *)
Apart ==
  /\ Desk!Starting => ~s.sharing
  /\ s.start = "task" /\ ~s.crossed => s.sub = 1
  /\ s.sharing /\ s.stops = 0 /\ ~s.crossed => s.sub = 1 /\ (s.background => s.task)
  /\ s.stops + s.offs <= MaxStops

DeskInv == Desk!TypeOK /\ Apart

(* Nothing is shared, announced or owed at first.                          *)
LEMMA DeskBegins ==
  ASSUME Desk!Init
  PROVE  DeskInv
<1>1. /\ 0 \in 0 .. 1 /\ 0 \in 0 .. MaxWatches /\ 0 \in 0 .. MaxStops
      /\ 0 \in 0 .. Balance /\ 0 \in 0 .. Balance + 1
  BY DeskBounds
<1>2. s \in Desk!Store
  BY <1>1 DEF Desk!Init, Desk!Store
<1>3. m \in Desk!Cash
  BY <1>1 DEF Desk!Init, Desk!Cash
<1>4. Apart
  BY DeskBounds DEF Desk!Init, Apart, Desk!Starting
<1>5. s.sub <= s.watches
  BY DEF Desk!Init
<1>6. /\ online \in BOOLEAN /\ pushed \subseteq Job /\ pop \subseteq Job
      /\ answers \subseteq 0 .. Balance
  BY DEF Desk!Init
<1>7. owed \in 0 .. Balance /\ \A i, j \in pop : i = j
  BY <1>1 DEF Desk!Init
<1> QED
  BY <1>2, <1>3, <1>4, <1>5, <1>6, <1>7 DEF DeskInv, Desk!TypeOK

(* Every step of a start.                                                  *)
LEMMA SharingStarted ==
  ASSUME DeskInv,
         \/ Desk!StartSharing \/ \E fg, bg \in BOOLEAN : Desk!Allowed(fg, bg)
         \/ \E ok \in BOOLEAN : Desk!ToggledOn(ok) \/ Desk!Watching(ok) \/ Desk!TaskStarted(ok)
  PROVE  DeskInv'
<1>1. UNCHANGED <<Desk!alerts, Desk!money>>
  BY DEF Desk!StartSharing, Desk!Allowed, Desk!ToggledOn, Desk!Watching, Desk!TaskStarted,
    Desk!Stored
<1>2. ASSUME online' \in BOOLEAN, s' \in Desk!Store, s'.sub <= s'.watches, Apart' PROVE DeskInv'
  BY <1>1, <1>2 DEF DeskInv, Desk!TypeOK, Desk!alerts, Desk!money
<1>3. CASE Desk!StartSharing
  <2>1. s' \in Desk!Store /\ s'.sub <= s'.watches /\ online' = online
    BY <1>3 DEF Desk!StartSharing, DeskInv, Desk!TypeOK, Desk!Store
  <2>2. Apart'
    BY <1>3 DEF Desk!StartSharing, DeskInv, Desk!TypeOK, Desk!Store, Apart, Desk!Starting
  <2> QED
    BY <2>1, <2>2, <1>2 DEF DeskInv, Desk!TypeOK
<1>4. CASE \E fg, bg \in BOOLEAN : Desk!Allowed(fg, bg)
  <2>1. s' \in Desk!Store /\ s'.sub <= s'.watches /\ online' = online
    BY <1>4 DEF Desk!Allowed, DeskInv, Desk!TypeOK, Desk!Store
  <2>2. Apart'
    BY <1>4 DEF Desk!Allowed, DeskInv, Desk!TypeOK, Desk!Store, Apart, Desk!Starting
  <2> QED
    BY <2>1, <2>2, <1>2 DEF DeskInv, Desk!TypeOK
<1>5. CASE \E ok \in BOOLEAN : Desk!ToggledOn(ok)
  <2>1. s' \in Desk!Store /\ s'.sub <= s'.watches /\ online' \in BOOLEAN
    BY <1>5 DEF Desk!ToggledOn, DeskInv, Desk!TypeOK, Desk!Store
  <2>2. Apart'
    BY <1>5 DEF Desk!ToggledOn, DeskInv, Desk!TypeOK, Desk!Store, Apart, Desk!Starting
  <2> QED
    BY <2>1, <2>2, <1>2
<1>6. CASE \E ok \in BOOLEAN : Desk!Watching(ok)
  <2>1. s' \in Desk!Store /\ s'.sub <= s'.watches /\ online' = online
    <3>1. s \in Desk!Store /\ s.sub <= s.watches /\ online' = online
      BY <1>6 DEF Desk!Watching, DeskInv, Desk!TypeOK
    <3>2. s.watches \in 0 .. MaxWatches
      BY <3>1 DEF Desk!Store
    <3>3. CASE s' = [s EXCEPT !.start = "none"]
      BY <3>1, <3>3 DEF Desk!Store
    <3>4. CASE /\ s.watches < MaxWatches
               /\ s' = [s EXCEPT !.watches = @ + 1, !.sub = 1,
                         !.start = IF s.background THEN "task" ELSE "none",
                         !.sharing = @ \/ ~s.background]
      <4>1. s.watches + 1 \in 0 .. MaxWatches /\ 1 <= s.watches + 1 /\ 1 \in 0 .. 1
        BY <3>2, <3>4, DeskBounds
      <4>2. (s.sharing \/ ~s.background) \in BOOLEAN
        OBVIOUS
      <4> QED
        BY <3>1, <3>4, <4>1, <4>2 DEF Desk!Store
    <3> QED
      BY <1>6, <3>1, <3>3, <3>4 DEF Desk!Watching
  <2>2. Apart'
    BY <1>6 DEF Desk!Watching, DeskInv, Desk!TypeOK, Desk!Store, Apart, Desk!Starting
  <2> QED
    BY <2>1, <2>2, <1>2 DEF DeskInv, Desk!TypeOK
<1>7. CASE \E ok \in BOOLEAN : Desk!TaskStarted(ok)
  <2>1. s' \in Desk!Store /\ s'.sub <= s'.watches /\ online' = online
    BY <1>7 DEF Desk!TaskStarted, DeskInv, Desk!TypeOK, Desk!Store
  <2>2. Apart'
    BY <1>7 DEF Desk!TaskStarted, DeskInv, Desk!TypeOK, Desk!Store, Apart, Desk!Starting
  <2> QED
    BY <2>1, <2>2, <1>2 DEF DeskInv, Desk!TypeOK
<1> QED
  BY <1>3, <1>4, <1>5, <1>6, <1>7

(* Every step of a stop, and signing in and out.                           *)
LEMMA SharingStopped ==
  ASSUME DeskInv,
         \/ Desk!SwitchOff \/ Desk!SignOut \/ Desk!SignIn
         \/ \E ok \in BOOLEAN : Desk!TaskStopped(ok) \/ Desk!ToggledOff(ok)
  PROVE  DeskInv'
<1>1. UNCHANGED <<Desk!alerts, Desk!money>>
  BY DEF Desk!SwitchOff, Desk!StopSharing, Desk!TaskStopped, Desk!SignOut, Desk!SignIn,
    Desk!ToggledOff, Desk!Stored
<1>2. ASSUME online' \in BOOLEAN, s' \in Desk!Store, s'.sub <= s'.watches, Apart' PROVE DeskInv'
  BY <1>1, <1>2 DEF DeskInv, Desk!TypeOK, Desk!alerts, Desk!money
<1>3. CASE Desk!SwitchOff
  <2>1. s' \in Desk!Store /\ s'.sub <= s'.watches /\ online' = online
    <3>1. s \in Desk!Store /\ s.sub <= s.watches /\ online' = online
      BY <1>3 DEF Desk!SwitchOff, Desk!StopSharing, DeskInv, Desk!TypeOK
    <3>2. /\ s.watches - s.sub \in 0 .. MaxWatches /\ 0 <= s.watches - s.sub /\ 0 \in 0 .. 1
          /\ s.stops + 1 \in 0 .. MaxStops
      BY <1>3, <3>1, DeskBounds DEF Desk!Store, Desk!SwitchOff
    <3>3. s' = [s EXCEPT !.stops = s.stops + 1, !.watches = s.watches - s.sub, !.sub = 0]
      BY <1>3 DEF Desk!SwitchOff, Desk!StopSharing
    <3> QED
      BY <3>1, <3>2, <3>3 DEF Desk!Store
  <2>2. Apart'
    <3>1. /\ s \in Desk!Store /\ Apart /\ s.sharing /\ s.stops + s.offs < MaxStops
          /\ s' = [s EXCEPT !.stops = s.stops + 1, !.watches = s.watches - s.sub, !.sub = 0]
      BY <1>3 DEF Desk!SwitchOff, Desk!StopSharing, DeskInv, Desk!TypeOK
    <3>2. /\ s'.stops = s.stops + 1 /\ s'.offs = s.offs /\ s'.start = s.start
          /\ s.stops \in 0 .. MaxStops /\ s.offs \in 0 .. MaxStops
      BY <3>1 DEF Desk!Store
    <3>3. s'.start = "none"
      BY <3>1, <3>2 DEF Apart, Desk!Starting
    <3>4. s'.stops # 0 /\ s'.stops + s'.offs <= MaxStops
      BY <3>1, <3>2, DeskBounds
    <3> QED
      BY <3>3, <3>4 DEF Apart, Desk!Starting
  <2> QED
    BY <2>1, <2>2, <1>2 DEF DeskInv, Desk!TypeOK
<1>4. ASSUME NEW ended \in BOOLEAN, Desk!TaskStopped(ended) PROVE DeskInv'
  <2>0. s \in Desk!Store /\ s.sub <= s.watches /\ s.stops > 0 /\ online' = online
    BY <1>4 DEF Desk!TaskStopped, Desk!Stopping, DeskInv, Desk!TypeOK
  <2>1. s' = [s EXCEPT !.stops = s.stops - 1, !.offs = s.offs + 1, !.task = s.task /\ ~ended,
                       !.sharing = FALSE, !.sub = 0, !.crossed = s.crossed \/ s.start = "task"]
    BY <1>4 DEF Desk!TaskStopped
  <2>2. s.stops - 1 \in 0 .. MaxStops /\ s.offs + 1 \in 0 .. MaxStops
    BY <2>0, DeskBounds DEF Desk!Store, DeskInv, Apart
  <2>3. (s.task /\ ~ended) \in BOOLEAN /\ (s.crossed \/ s.start = "task") \in BOOLEAN
    OBVIOUS
  <2>4. s' \in Desk!Store /\ s'.sub <= s'.watches
    <3>1. s'.sub = 0 /\ s'.watches = s.watches /\ s.watches \in 0 .. MaxWatches
      BY <2>0, <2>1 DEF Desk!Store
    <3>2. 0 \in 0 .. 1 /\ s'.sub <= s'.watches
      BY <3>1, DeskBounds
    <3>3. s' \in Desk!Store
      BY <2>0, <2>1, <2>2, <2>3, <3>2 DEF Desk!Store
    <3> QED
      BY <3>2, <3>3
  <2>5. ~s'.sharing /\ (s'.start = "task" => s'.crossed)
    BY <2>0, <2>1 DEF Desk!Store
  <2>6. s'.stops + s'.offs <= MaxStops
    <3>1. s'.stops = s.stops - 1 /\ s'.offs = s.offs + 1
      BY <2>0, <2>1 DEF Desk!Store
    <3> QED
      BY <2>0, <3>1, DeskBounds DEF Desk!Store, DeskInv, Apart
  <2>7. Apart'
    BY <2>5, <2>6 DEF Apart, Desk!Starting
  <2> QED
    BY <2>0, <2>4, <2>7, <1>2 DEF DeskInv, Desk!TypeOK
<1>5. CASE Desk!SignOut \/ Desk!SignIn
  <2>1. s' \in Desk!Store /\ s'.sub <= s'.watches /\ online' \in BOOLEAN
    BY <1>5 DEF Desk!SignOut, Desk!SignIn, DeskInv, Desk!TypeOK, Desk!Store
  <2>2. Apart'
    BY <1>5 DEF Desk!SignOut, Desk!SignIn, DeskInv, Desk!TypeOK, Desk!Store, Apart, Desk!Starting
  <2> QED
    BY <2>1, <2>2, <1>2
<1>6. ASSUME NEW handled \in BOOLEAN, Desk!ToggledOff(handled) PROVE DeskInv'
  <2>1. s \in Desk!Store /\ s.sub <= s.watches /\ online' \in BOOLEAN /\ Apart
    BY <1>6 DEF Desk!ToggledOff, DeskInv, Desk!TypeOK
  <2>2. s' = [s EXCEPT !.offs = s.offs - 1] /\ s.offs - 1 \in 0 .. MaxStops
    BY <1>6, <2>1, DeskBounds DEF Desk!ToggledOff, Desk!Store
  <2>3. s' \in Desk!Store /\ s'.sub <= s'.watches /\ Apart'
    BY <2>1, <2>2, DeskBounds DEF Desk!Store, Apart, Desk!Starting
  <2> QED
    BY <2>1, <2>3, <1>2
<1> QED
  BY <1>3, <1>4, <1>5, <1>6

(* The pop-up, the earnings and the cashout form leave the sharing alone.  *)
LEMMA DeskBeside ==
  ASSUME DeskInv, Desk!Alerts \/ Desk!Money
  PROVE  DeskInv'
<1>1. online' = online /\ s' = s
  BY DEF Desk!Alerts, Desk!Money, Desk!ClearPopup, Desk!Announce, Desk!SetAssignment, Desk!Earn,
    Desk!LoadEarnings, Desk!EarningsAnswer,
         Desk!OpenCashout, Desk!CloseCashout, Desk!EnterAmount, Desk!HandleRequestCashout,
         Desk!CashoutAnswer, Desk!Form, Desk!sharing
<1>2. Apart'
  BY <1>1 DEF DeskInv, Apart, Desk!Starting
<1>3. CASE Desk!Alerts
  BY <1>1, <1>2, <1>3 DEF Desk!Alerts, Desk!ClearPopup, Desk!Announce, Desk!SetAssignment,
    Desk!money, DeskInv, Desk!TypeOK
<1>4. CASE Desk!Money
  <2>1. UNCHANGED Desk!alerts
    BY <1>4 DEF Desk!Money, Desk!Earn, Desk!LoadEarnings, Desk!EarningsAnswer, Desk!OpenCashout,
      Desk!CloseCashout, Desk!EnterAmount,
                Desk!HandleRequestCashout, Desk!CashoutAnswer, Desk!Form
  <2>2. m' \in Desk!Cash /\ owed' \in 0 .. Balance /\ answers' \subseteq 0 .. Balance
    <3>0. /\ m \in Desk!Cash /\ owed \in 0 .. Balance /\ answers \subseteq 0 .. Balance
          /\ 0 \in 0 .. Balance /\ 0 \in 0 .. Balance + 1
      BY DeskBounds DEF DeskInv, Desk!TypeOK
    <3>1. CASE Desk!Earn \/ Desk!LoadEarnings
      <4>1. CASE Desk!Earn
        <5>1. owed + 1 \in 0 .. Balance
          BY <3>0, <4>1, DeskBounds DEF Desk!Earn
        <5> QED
          BY <3>0, <4>1, <5>1 DEF Desk!Earn
      <4>2. CASE Desk!LoadEarnings
        BY <3>0, <4>2 DEF Desk!LoadEarnings
      <4> QED
        BY <3>1, <4>1, <4>2
    <3>2. CASE \/ \E n \in 0 .. Balance, ok \in BOOLEAN : Desk!EarningsAnswer(n, ok)
               \/ \E n \in 0 .. Balance + 1 : Desk!EnterAmount(n)
      BY <3>0, <3>2 DEF Desk!EarningsAnswer, Desk!EnterAmount, Desk!Form, Desk!Cash
    <3>3. CASE Desk!OpenCashout \/ Desk!CloseCashout \/ Desk!HandleRequestCashout
      <4>1. m.amount \in 0 .. Balance + 1 /\ m.shown \in 0 .. Balance
        BY <3>0 DEF Desk!Cash
      <4>2. m.amount <= m.shown => m.amount \in 0 .. Balance
        BY <4>1, DeskBounds
      <4> QED
        BY <3>0, <3>3, <4>2 DEF Desk!OpenCashout, Desk!CloseCashout, Desk!HandleRequestCashout,
          Desk!Form, Desk!Cash
    <3>4. CASE \E heard \in BOOLEAN : Desk!CashoutAnswer(heard)
      <4>1. m.asked \in 0 .. Balance
        BY <3>0 DEF Desk!Cash
      <4>2. owed' \in 0 .. Balance /\ answers' = answers
        BY <3>0, <3>4, <4>1, DeskBounds DEF Desk!CashoutAnswer
      <4>3. \/ m' = [m EXCEPT !.asked = 0, !.shown = owed', !.open = FALSE, !.amount = 0]
            \/ m' = [m EXCEPT !.asked = 0]
        BY <3>4 DEF Desk!CashoutAnswer, Desk!Form
      <4> QED
        BY <3>0, <4>2, <4>3 DEF Desk!Cash
    <3> QED
      BY <1>4, <3>1, <3>2, <3>3, <3>4 DEF Desk!Money
  <2> QED
    BY <1>1, <1>2, <2>1, <2>2 DEF DeskInv, Desk!TypeOK, Desk!alerts
<1> QED
  BY <1>3, <1>4

(* The invariant that LiveIsWatched needs: what starts and stops that      *)
(* overlap leave each other.                                               *)
THEOREM DeskInvariance == Desk!Spec => []DeskInv
<1>1. Desk!Init => DeskInv
  BY DeskBegins
<1>2. ASSUME DeskInv, [Desk!Next]_Desk!vars PROVE DeskInv'
  <2>1. CASE Desk!Sharing
    BY <1>2, <2>1, SharingStarted, SharingStopped DEF Desk!Sharing
  <2>2. CASE Desk!Alerts \/ Desk!Money
    BY <1>2, <2>2, DeskBeside
  <2>3. CASE UNCHANGED Desk!vars
    BY <1>2, <2>3 DEF Desk!vars, Desk!sharing, Desk!alerts, Desk!money, DeskInv, Desk!TypeOK,
      Apart, Desk!Starting
  <2> QED
    BY <1>2, <2>1, <2>2, <2>3 DEF Desk!Next
<1> QED
  BY <1>1, <1>2, PTL DEF Desk!Spec

(* Every variable keeps its type, no more watches are held than run, and   *)
(* the pop-up shows one job.                                               *)
THEOREM DeskTypeCorrect == Desk!Spec => []Desk!TypeOK
<1>1. DeskInv => Desk!TypeOK
  BY DEF DeskInv
<1> QED
  BY <1>1, DeskInvariance, PTL

(* While the switch says Live and no stop has still to write the store,    *)
(* the phone watches the location and the store holds the watch that ends  *)
(* it, unless a stop tapped twice has crossed the last start.              *)
THEOREM DeskLiveMeansWatched == Desk!Spec => []Desk!LiveIsWatched
<1>1. DeskInv => Desk!LiveIsWatched
  BY DEF DeskInv, Desk!TypeOK, Desk!Store, Apart, Desk!LiveIsWatched, Desk!Stopping
<1> QED
  BY <1>1, DeskInvariance, PTL
-----------------------------------------------------------------------------
(* IdentityForm.  What a scan that is still listened to reads, and the     *)
(* text it leaves, are of the picture in the form: every other picture     *)
(* ends both.                                                              *)

(* A scan that is listened to is of the picture in the form, and so is the *)
(* text read from it.                                                      *)
TextIsOfPicture ==
  /\ k.text # None => k.text \in k.seen
  /\ \A x \in k.scans : x[2] => x[1] = k.card

FormInv == Identity!TypeOK /\ TextIsOfPicture /\ Identity!FlagIsOfCard

(* At first the form is empty, and nothing is scanned or sent.             *)
LEMMA FormBegins == Identity!Init => FormInv
<1> SUFFICES ASSUME Identity!Init PROVE FormInv
  OBVIOUS
<1>1. k.scans = {} /\ k.text = None /\ sent.flag = FALSE
  BY DEF Identity!Init, Identity!Empty
<1>2. k \in [card : Card \cup {None}, number : Card \cup {None}, text : Identity!Text \cup {None},
            seen : SUBSET Identity!Text, scans : SUBSET (Card \X BOOLEAN),
            call : {"no", "upload", "submit"}]
  BY DEF Identity!Init, Identity!Empty
<1>3. sent \in [card : Card \cup {None}, number : Card \cup {None}, flag : BOOLEAN,
                  seen : SUBSET Identity!Text]
  BY DEF Identity!Init
<1> QED
  BY <1>1, <1>2, <1>3 DEF Identity!Init, FormInv, Identity!TypeOK, TextIsOfPicture,
    Identity!FlagIsOfCard

(* Scans that were stopped are none that is listened to.                   *)
LEMMA ScansStopped ==
  ASSUME NEW S \in SUBSET (Card \X BOOLEAN)
  PROVE  \A y \in {<<x[1], FALSE>> : x \in S} : y \in Card \X BOOLEAN /\ y[2] = FALSE
<1>1. SUFFICES ASSUME NEW x \in S
               PROVE  <<x[1], FALSE>> \in Card \X BOOLEAN /\ <<x[1], FALSE>>[2] = FALSE
  OBVIOUS
<1>2. x \in Card \X BOOLEAN
  OBVIOUS
<1> QED
  BY <1>2

(* The form as a record of its fields.                                     *)
LEMMA FormFields ==
  ASSUME FormInv
  PROVE  /\ k.card \in Card \cup {None} /\ k.number \in Card \cup {None}
         /\ k.text \in Identity!Text \cup {None} /\ k.seen \subseteq Identity!Text
         /\ k.scans \subseteq Card \X BOOLEAN
         /\ k.call \in {"no", "upload", "submit"}
BY DEF FormInv, Identity!TypeOK

(* Picking another picture stops the scan of the one before it.            *)
LEMMA FormPicking ==
  ASSUME FormInv, NEW c \in Card, Identity!PickIDImage(c)
  PROVE  FormInv'
<1>1. k' = [k EXCEPT !.card = c, !.text = None, !.seen = {},
                     !.scans = {<<c, TRUE>>} \cup {<<x[1], FALSE>> : x \in k.scans}]
  BY DEF Identity!PickIDImage, Identity!Fill, FormInv, Identity!TypeOK
<1>2. shown' = shown /\ sent' = sent
  BY DEF Identity!PickIDImage, Identity!Fill
<1> DEFINE old == {<<x[1], FALSE>> : x \in k.scans}
<1>3. k'.scans = {<<c, TRUE>>} \cup old /\ k'.card = c /\ k'.text = None
      /\ k'.seen = {} /\ k'.number = k.number /\ k'.call = k.call
  BY <1>1 DEF FormInv, Identity!TypeOK
<1>4. \A y \in old : y \in Card \X BOOLEAN /\ y[2] = FALSE
  BY FormFields, ScansStopped
<1> HIDE DEF old
<1>5. /\ k'.scans \subseteq Card \X BOOLEAN
      /\ \A y \in k'.scans : y[2] => y = <<c, TRUE>>
  <2>1. \A y \in k'.scans : y = <<c, TRUE>> \/ y \in old
    BY <1>3
  <2>2. \A y \in k'.scans : y \in Card \X BOOLEAN
    <3>1. <<c, TRUE>> \in Card \X BOOLEAN
      OBVIOUS
    <3> QED
      BY <2>1, <3>1, <1>4, Zenon
  <2>3. ASSUME NEW y \in k'.scans, y[2] PROVE y = <<c, TRUE>>
    <3>1. y \notin old
      BY <2>3, <1>4, Zenon
    <3> QED
      BY <2>1, <3>1
  <2> QED
    BY <2>2, <2>3
<1>6. k' = [card |-> c, number |-> k.number, text |-> None, seen |-> {}, scans |-> k'.scans,
            call |-> k.call]
  BY <1>1, <1>3 DEF FormInv, Identity!TypeOK
<1>7. k' \in [card : Card \cup {None}, number : Card \cup {None}, text : Identity!Text \cup {None},
             seen : SUBSET Identity!Text, scans : SUBSET (Card \X BOOLEAN),
             call : {"no", "upload", "submit"}]
  BY <1>5, <1>6, FormFields
<1>8. Identity!TypeOK'
  BY <1>2, <1>5, <1>7 DEF FormInv, Identity!TypeOK
<1>9. TextIsOfPicture'
  <2>1. ASSUME NEW y \in k'.scans, y[2] PROVE y[1] = c
    <3>1. y = <<c, TRUE>>
      BY <2>1, <1>5, Zenon
    <3> QED
      BY <3>1
  <2> QED
    BY <1>3, <2>1 DEF TextIsOfPicture
<1> QED
  BY <1>2, <1>8, <1>9 DEF FormInv, Identity!FlagIsOfCard

(* A scan that ends is heard only if no picture was picked since.          *)
LEMMA FormReading ==
  ASSUME FormInv, NEW x \in k.scans, NEW text \in Identity!Text \cup {None},
         Identity!Recognized(x, text)
  PROVE  FormInv'
<1> DEFINE heard == IF x[2] THEN text ELSE k.text
           seen  == IF x[1] = k.card THEN k.seen \cup ({text} \ {None}) ELSE k.seen
<1>1. k' = [k EXCEPT !.scans = k.scans \ {x}, !.text = heard, !.seen = seen]
  BY DEF Identity!Recognized, Identity!Fill
<1>2. shown' = shown /\ sent' = sent
  BY DEF Identity!Recognized, Identity!Fill
<1>3. x \in Card \X BOOLEAN /\ (x[2] => x[1] = k.card)
  BY FormFields DEF FormInv, TextIsOfPicture
<1>4. heard \in Identity!Text \cup {None} /\ seen \subseteq Identity!Text
  BY FormFields
<1>5. heard # None => heard \in seen
  BY <1>3 DEF FormInv, TextIsOfPicture
<1> HIDE DEF heard, seen
<1>6. Identity!TypeOK'
  BY <1>1, <1>2, <1>4 DEF FormInv, Identity!TypeOK
<1>7. TextIsOfPicture'
  BY <1>1, <1>5 DEF FormInv, Identity!TypeOK, TextIsOfPicture
<1> QED
  BY <1>2, <1>6, <1>7 DEF FormInv, Identity!FlagIsOfCard

(* Pressing the button compares number and text of that moment.            *)
LEMMA FormSubmitting ==
  ASSUME FormInv, Identity!HandleSubmit
  PROVE  FormInv'
<1>1. k' = [k EXCEPT !.call = "upload"] /\ shown' = shown
  BY DEF Identity!HandleSubmit
<1>2. sent' = [card |-> k.card, number |-> k.number, flag |-> Identity!IdMatch(k) = "no",
               seen |-> k.seen]
  BY DEF Identity!HandleSubmit
<1>3. Identity!IdMatch(k) = "no" => k.text \in k.seen /\ k.text # k.number
  BY DEF Identity!IdMatch, FormInv, TextIsOfPicture
<1>4. Identity!TypeOK' /\ TextIsOfPicture'
  BY <1>1, <1>2, FormFields DEF FormInv, Identity!TypeOK, TextIsOfPicture
<1> QED
  BY <1>2, <1>3, <1>4 DEF FormInv, Identity!FlagIsOfCard

(* Leaving the form stops its scan; opening it makes a new one.            *)
LEMMA FormOpeningAndLeaving ==
  ASSUME FormInv, Identity!OpenForm \/ Identity!HandleBack
  PROVE  FormInv'
<1>1. CASE Identity!OpenForm
  BY <1>1 DEF Identity!OpenForm, Identity!Empty, FormInv, Identity!TypeOK, TextIsOfPicture,
    Identity!FlagIsOfCard
<1>2. CASE Identity!HandleBack
  <2>1. k' = [k EXCEPT !.scans = {<<x[1], FALSE>> : x \in k.scans}]
        /\ shown' = FALSE /\ sent' = sent
    BY <1>2 DEF Identity!HandleBack, FormInv, Identity!TypeOK
  <2>2. \A y \in k'.scans : y \in Card \X BOOLEAN /\ y[2] = FALSE
    <3>1. k'.scans = {<<x[1], FALSE>> : x \in k.scans}
      BY <2>1 DEF FormInv, Identity!TypeOK
    <3> QED
      BY <3>1, FormFields, ScansStopped
  <2>3. k'.text = k.text /\ k'.card = k.card /\ k'.seen = k.seen
    BY <2>1 DEF FormInv, Identity!TypeOK
  <2>4. Identity!TypeOK'
    BY <2>1, <2>2 DEF FormInv, Identity!TypeOK
  <2>5. TextIsOfPicture'
    BY <2>2, <2>3 DEF FormInv, TextIsOfPicture
  <2> QED
    BY <2>1, <2>4, <2>5 DEF FormInv, Identity!FlagIsOfCard
<1> QED
  BY <1>1, <1>2

(* The number and the answers leave picture, text and scans alone.         *)
LEMMA FormTheRest ==
  ASSUME FormInv,
         \/ \E c \in Card : Identity!EnterNumber(c)
         \/ \E ok \in BOOLEAN : Identity!Uploaded(ok) \/ Identity!Submitted(ok)
         \/ UNCHANGED Identity!vars
  PROVE  FormInv'
<1>1. CASE \E c \in Card : Identity!EnterNumber(c)
  BY <1>1 DEF Identity!EnterNumber, Identity!Fill, FormInv, Identity!TypeOK, TextIsOfPicture,
    Identity!FlagIsOfCard
<1>2. CASE \E ok \in BOOLEAN : Identity!Uploaded(ok)
  BY <1>2 DEF Identity!Uploaded, Identity!Fill, FormInv, Identity!TypeOK, TextIsOfPicture,
    Identity!FlagIsOfCard
<1>3. CASE \E ok \in BOOLEAN : Identity!Submitted(ok)
  BY <1>3 DEF Identity!Submitted, FormInv, Identity!TypeOK, TextIsOfPicture, Identity!FlagIsOfCard
<1>4. CASE UNCHANGED Identity!vars
  BY <1>4 DEF Identity!vars, FormInv, Identity!TypeOK, TextIsOfPicture, Identity!FlagIsOfCard
<1> QED
  BY <1>1, <1>2, <1>3, <1>4

(* The invariant holds throughout.                                         *)
THEOREM FormInvariance == Identity!Spec => []FormInv
<1>1. Identity!Init => FormInv
  BY FormBegins
<1>2. FormInv /\ [Identity!Next]_Identity!vars => FormInv'
  BY FormPicking, FormReading, FormSubmitting, FormOpeningAndLeaving, FormTheRest DEF Identity!Next
<1> QED
  BY <1>1, <1>2, PTL DEF Identity!Spec

(* Every variable keeps its type, and at most one scan is listened to.     *)
THEOREM FormTypeCorrect == Identity!Spec => []Identity!TypeOK
BY FormInvariance, PTL DEF FormInv

(* A flagged submission's number was missing from a text read from the     *)
(* picture sent, however often pictures and number were changed before.    *)
THEOREM FormFlags == Identity!Spec => []Identity!FlagIsOfCard
BY FormInvariance, PTL DEF FormInv
-----------------------------------------------------------------------------
(* ShopperCheckout.  What the mounted screen waits for is one call at a    *)
(* time, made when nothing else shows; so the reference in the form is of  *)
(* the order in the form whenever the web view is open.                    *)

(* A call to pay or to verify names an order of the server; to verify, its *)
(* own reference.  The screen's own call shows "please wait", and one to   *)
(* pay is for the order of the form.                                       *)
CallsName ==
  \A c \in calls :
    /\ c.kind # "create" => c.order \in Order /\ order[c.order] # "none"
    /\ c.kind = "verify" => c.ref = c.order
    /\ c.cur => /\ form # None /\ form.step = "processing" /\ ~form.modal
                /\ c.kind = "pay" => form.pending = c.order

OneAtATime == \A c, d \in calls : c.cur /\ d.cur => c = d

(* The form's order is one of the server's, and the web view's its own; a  *)
(* form is left for good where the shops show.                             *)
FormNames ==
  form # None => /\ top # "shopping"
                 /\ form.pending # None => order[form.pending] # "none"
                 /\ form.modal => form.ref = form.pending /\ form.ref # None

(* An alert of the screen is one of a screen that is there, and tells of   *)
(* a failed payment only when no call of it is under way.                  *)
AlertsOf ==
  \A x \in alerts : x.cur => form # None /\ (x.kind = "failed" => \A c \in calls : ~c.cur)

CheckoutInv == Checkout!TypeOK /\ CallsName /\ OneAtATime /\ FormNames /\ AlertsOf

(* Nothing is in the cart or under way at first.                           *)
LEMMA CheckoutBegins == Checkout!Init => CheckoutInv
BY DEF Checkout!Init, CheckoutInv, Checkout!TypeOK, CallsName, OneAtATime, FormNames, AlertsOf

(* What a screen that is left still waits for is nobody's.                 *)
LEMMA Forgotten ==
  /\ \A S \in SUBSET Checkout!CallState :
       /\ Checkout!ForgetScreen(S) \subseteq Checkout!CallState
       /\ \A c \in Checkout!ForgetScreen(S) :
            /\ ~c.cur
            /\ \E d \in S : c.kind = d.kind /\ c.order = d.order /\ c.ref = d.ref
  /\ \A S \in SUBSET Checkout!AlertState :
       /\ Checkout!ForgetScreen(S) \subseteq Checkout!AlertState
       /\ \A x \in Checkout!ForgetScreen(S) : ~x.cur
<1>1. ASSUME NEW S \in SUBSET Checkout!CallState, NEW c \in Checkout!ForgetScreen(S)
      PROVE  /\ c \in Checkout!CallState /\ ~c.cur
             /\ \E d \in S : c.kind = d.kind /\ c.order = d.order /\ c.ref = d.ref
  <2>1. PICK d \in S : c = [d EXCEPT !.cur = FALSE]
    BY DEF Checkout!ForgetScreen
  <2>2. d \in Checkout!CallState
    OBVIOUS
  <2> QED
    BY <2>1, <2>2 DEF Checkout!CallState
<1>2. ASSUME NEW S \in SUBSET Checkout!AlertState, NEW x \in Checkout!ForgetScreen(S)
      PROVE  x \in Checkout!AlertState /\ ~x.cur
  <2>1. PICK d \in S : x = [d EXCEPT !.cur = FALSE]
    BY DEF Checkout!ForgetScreen
  <2>2. d \in Checkout!AlertState
    OBVIOUS
  <2> QED
    BY <2>1, <2>2 DEF Checkout!AlertState
<1> QED
  BY <1>1, <1>2

(* A step that leaves the screen, or replaces it by My Orders.             *)
LEMMA Unmounting ==
  ASSUME CheckoutInv, NEW C \in SUBSET calls, NEW A \in SUBSET alerts,
         form' = None, calls' = Checkout!ForgetScreen(C), alerts' = Checkout!ForgetScreen(A),
         order' \in [Order -> {"none", "pending", "paid"}],
         \A o \in Order : order[o] # "none" => order'[o] # "none",
         top' \in {"shopping", "orders"}, cart' \subseteq Product, charged' \subseteq Order
  PROVE  CheckoutInv'
<1>1. C \subseteq Checkout!CallState /\ A \subseteq Checkout!AlertState
  BY DEF CheckoutInv, Checkout!TypeOK
<1>2. /\ calls' \subseteq Checkout!CallState /\ alerts' \subseteq Checkout!AlertState
      /\ \A c \in calls' : ~c.cur /\ \E d \in calls : c.kind = d.kind /\ c.order = d.order /\ c.ref = d.ref
      /\ \A x \in alerts' : ~x.cur
  BY <1>1, Forgotten
<1>3. CallsName'
  BY <1>2 DEF CheckoutInv, CallsName
<1>4. OneAtATime' /\ FormNames' /\ AlertsOf'
  BY <1>2 DEF OneAtATime, FormNames, AlertsOf
<1>5. Checkout!TypeOK'
  BY <1>2, <1>3 DEF Checkout!TypeOK, CallsName
<1> QED
  BY <1>3, <1>4, <1>5 DEF CheckoutInv

(* A step that writes to the form only: neither its order nor its          *)
(* reference, and the step it shows only when it waits for nothing.        *)
LEMMA FormWritten ==
  ASSUME CheckoutInv, form # None, form' \in Checkout!Form,
         form'.pending = form.pending, form'.ref = form.ref,
         form'.modal = form.modal \/ ~form'.modal,
         form'.step = form.step \/ \A c \in calls : ~c.cur,
         calls' = calls, alerts' \subseteq alerts, order' = order, charged' \subseteq Order,
         top' = top, cart' = cart
  PROVE  CheckoutInv'
<1>0. form' # None
  BY NoneAssumption
<1>1. CallsName'
  BY <1>0 DEF CheckoutInv, CallsName
<1>2. OneAtATime' /\ FormNames' /\ AlertsOf'
  BY <1>0 DEF CheckoutInv, OneAtATime, FormNames, AlertsOf
<1>3. Checkout!TypeOK'
  BY <1>0, <1>1 DEF CheckoutInv, Checkout!TypeOK, CallsName
<1> QED
  BY <1>1, <1>2, <1>3 DEF CheckoutInv

(* Shopping, opening the checkout and leaving it.                          *)
LEMMA Moving ==
  ASSUME CheckoutInv,
         \/ \E p \in Product : Checkout!Shop(p)
         \/ Checkout!OpenCheckout \/ Checkout!Back \/ Checkout!LeaveOrders
  PROVE  CheckoutInv'
<1>1. CASE \E p \in Product : Checkout!Shop(p)
  <2>1. cart' \subseteq Product /\ UNCHANGED <<top, form, calls, alerts, order, charged>>
    BY <1>1 DEF Checkout!Shop, CheckoutInv, Checkout!TypeOK
  <2> QED
    BY <2>1 DEF CheckoutInv, Checkout!TypeOK, CallsName, OneAtATime, FormNames, AlertsOf
<1>2. CASE Checkout!OpenCheckout
  <2>1. /\ top' = "checkout" /\ form' = Checkout!NewForm /\ alerts = {}
        /\ UNCHANGED <<cart, calls, alerts, order, charged>>
    BY <1>2 DEF Checkout!OpenCheckout
  <2>2. form' \in Checkout!Form /\ form'.pending = None /\ ~form'.modal
    BY <2>1 DEF Checkout!NewForm, Checkout!Form
  <2>3. form' # None
    BY <2>2, NoneAssumption
  <2>4. \A c \in calls : ~c.cur
    BY <1>2 DEF Checkout!OpenCheckout, CheckoutInv, FormNames, CallsName
  <2> QED
    BY <2>1, <2>2, <2>3, <2>4 DEF CheckoutInv, Checkout!TypeOK, CallsName, OneAtATime, FormNames, AlertsOf
<1>3. CASE Checkout!Back
  BY <1>3, Unmounting DEF Checkout!Back, Checkout!Unmount, CheckoutInv, Checkout!TypeOK
<1>4. CASE Checkout!LeaveOrders
  <2>1. CASE form # None /\ top' = "checkout" /\ UNCHANGED <<form, calls, alerts>>
    <3>1. UNCHANGED <<cart, order, charged>>
      BY <1>4 DEF Checkout!LeaveOrders
    <3> QED
      BY <2>1, <3>1 DEF CheckoutInv, Checkout!TypeOK, CallsName, OneAtATime, FormNames, AlertsOf
  <2>2. CASE top' = "shopping" /\ Checkout!Unmount
    BY <1>4, <2>2, Unmounting
    DEF Checkout!LeaveOrders, Checkout!Unmount, CheckoutInv, Checkout!TypeOK
  <2> QED
    BY <1>4, <2>1, <2>2 DEF Checkout!LeaveOrders
<1> QED
  BY <1>1, <1>2, <1>3, <1>4

(* The location and the address, closing the web view, paying in it.       *)
LEMMA FormFilled ==
  ASSUME CheckoutInv,
         \/ \E found \in BOOLEAN : Checkout!GetLocation(found)
         \/ Checkout!RetryLocation \/ Checkout!TypeAddress \/ Checkout!CloseModal
         \/ Checkout!PayAtPaystack
  PROVE  CheckoutInv'
<1>1. form \in Checkout!Form \cup {None} /\ (top = "checkout" => form # None)
  BY DEF CheckoutInv, Checkout!TypeOK
<1>2. CASE \E found \in BOOLEAN : Checkout!GetLocation(found)
  <2>1. form # None /\ UNCHANGED <<top, cart, calls, alerts, order, charged>>
    BY <1>2 DEF Checkout!GetLocation, Checkout!OnForm
  <2>2. \E place \in {"found", "failed"} : form' = [form EXCEPT !.place = place]
    BY <1>2 DEF Checkout!GetLocation, Checkout!OnForm
  <2> QED
    BY <1>1, <2>1, <2>2, FormWritten DEF Checkout!Form, CheckoutInv, Checkout!TypeOK
<1>3. CASE Checkout!RetryLocation \/ Checkout!TypeAddress \/ Checkout!CloseModal
  <2>1. top = "checkout" /\ UNCHANGED <<top, cart, calls, alerts, order, charged>>
    BY <1>3 DEF Checkout!RetryLocation, Checkout!TypeAddress, Checkout!CloseModal, Checkout!OnForm,
      Checkout!FormOffers, Checkout!WebViewOffers, Checkout!FormShown, Checkout!WebView,
      Checkout!Visible
  <2>2. \/ form' = [form EXCEPT !.place = "locating"]
        \/ form' = [form EXCEPT !.address = TRUE]
        \/ form' = [form EXCEPT !.modal = FALSE]
    BY <1>3 DEF Checkout!RetryLocation, Checkout!TypeAddress, Checkout!CloseModal, Checkout!OnForm
  <2> QED
    BY <1>1, <2>1, <2>2, FormWritten DEF Checkout!Form, CheckoutInv, Checkout!TypeOK
<1>4. CASE Checkout!PayAtPaystack
  <2>1. /\ top = "checkout" /\ form.modal /\ charged' = charged \cup {form.ref}
        /\ form.step # "processing"
        /\ UNCHANGED <<top, cart, form, calls, alerts, order>>
    BY <1>4 DEF Checkout!PayAtPaystack, Checkout!WebView, Checkout!Visible
  <2>2. form \in Checkout!Form /\ form.ref = form.pending
    BY <1>1, <2>1 DEF CheckoutInv, FormNames
  <2>3. form.ref \in Order
    BY <1>1, <2>1, <2>2 DEF CheckoutInv, FormNames, Checkout!Form
  <2> QED
    BY <1>1, <2>1, <2>3, FormWritten DEF CheckoutInv, Checkout!TypeOK
<1> QED
  BY <1>2, <1>3, <1>4

(* "Pay": the screen waits for the call that creates the order, or tells   *)
(* that the address is missing.                                            *)
LEMMA Proceeding ==
  ASSUME CheckoutInv, Checkout!HandleProceedToPayment
  PROVE  CheckoutInv'
<1>1. /\ top = "checkout" /\ form.step # "processing" /\ form \in Checkout!Form
      /\ UNCHANGED <<top, cart, order, charged>> /\ form # None
  BY DEF Checkout!HandleProceedToPayment, Checkout!FormOffers, Checkout!FormShown,
    Checkout!Visible, Checkout!OnForm, CheckoutInv, Checkout!TypeOK
<1>2. \A c \in calls : ~c.cur
  BY <1>1 DEF CheckoutInv, CallsName
<1> DEFINE new == [kind |-> "create", lines |-> cart, order |-> None, ref |-> None, cur |-> TRUE]
           warning == [kind |-> "error", cur |-> TRUE]
<1>3. CASE /\ form' = [form EXCEPT !.modal = FALSE, !.step = "processing", !.loading = TRUE]
           /\ calls' = calls \cup {new} /\ UNCHANGED alerts /\ alerts = {}
  <2>1. /\ form' \in Checkout!Form /\ form'.pending = form.pending
        /\ ~form'.modal /\ form'.step = "processing"
    BY <1>1, <1>3 DEF Checkout!Form
  <2>2. form' # None
    BY <2>1, NoneAssumption
  <2>3. new \in Checkout!CallState /\ new.cur /\ new.kind = "create"
    BY DEF CheckoutInv, Checkout!TypeOK, Checkout!CallState
  <2> HIDE DEF new
  <2>4. \A c \in calls' : c = new \/ (c \in calls /\ ~c.cur)
    BY <1>2, <1>3
  <2>5. CallsName'
    BY <1>1, <2>1, <2>2, <2>3, <2>4 DEF CheckoutInv, CallsName
  <2>6. OneAtATime' /\ FormNames' /\ AlertsOf'
    BY <1>1, <1>3, <2>1, <2>2, <2>3, <2>4 DEF CheckoutInv, OneAtATime, FormNames, AlertsOf
  <2>7. Checkout!TypeOK'
    BY <1>1, <1>3, <2>1, <2>2, <2>3, <2>5 DEF CheckoutInv, Checkout!TypeOK, CallsName
  <2> QED
    BY <2>5, <2>6, <2>7 DEF CheckoutInv
<1>4. CASE alerts' = alerts \cup {warning} /\ form' = form /\ calls' = calls
  <2>1. warning \in Checkout!AlertState /\ warning.kind = "error"
    BY DEF Checkout!AlertState
  <2> HIDE DEF warning
  <2>2. Checkout!TypeOK'
    BY <1>1, <1>4, <2>1 DEF CheckoutInv, Checkout!TypeOK
  <2>3. AlertsOf'
    BY <1>1, <1>2, <1>4, <2>1 DEF CheckoutInv, AlertsOf
  <2> QED
    BY <1>1, <1>4, <2>2, <2>3 DEF CheckoutInv, CallsName, OneAtATime, FormNames
<1> QED
  BY <1>3, <1>4 DEF Checkout!HandleProceedToPayment, Checkout!OnForm, Checkout!Raise,
    Checkout!FormOffers, Checkout!FormShown, Checkout!Visible

(* "Done" in the web view: its own payment is verified.                    *)
LEMMA Verifying ==
  ASSUME CheckoutInv, NEW how, Checkout!HandleVerifyPayment(how)
  PROVE  CheckoutInv'
<1>1. /\ top = "checkout" /\ form.step # "processing" /\ form.modal /\ form \in Checkout!Form
      /\ UNCHANGED <<top, cart, order, charged>> /\ form # None /\ alerts = {}
  BY DEF Checkout!HandleVerifyPayment, Checkout!WebViewOffers, Checkout!WebView,
    Checkout!Visible, Checkout!OnForm, CheckoutInv, Checkout!TypeOK
<1>2. \A c \in calls : ~c.cur
  BY <1>1 DEF CheckoutInv, CallsName
<1>3. form.ref = form.pending /\ form.ref # None /\ order[form.pending] # "none"
  BY <1>1 DEF CheckoutInv, FormNames
<1> DEFINE new == [kind |-> "verify", lines |-> {}, order |-> form.pending,
                   ref |-> form.ref, cur |-> TRUE]
<1>4. /\ form' = [form EXCEPT !.step = "processing", !.modal = FALSE, !.loading = TRUE]
      /\ calls' = calls \cup {new} /\ UNCHANGED alerts
  BY <1>3 DEF Checkout!HandleVerifyPayment, Checkout!OnForm
<1>5. form.pending \in Order
  BY <1>1, <1>3 DEF Checkout!Form
<1>6. /\ form' \in Checkout!Form /\ form'.pending = form.pending
      /\ ~form'.modal /\ form'.step = "processing"
  BY <1>1, <1>4 DEF Checkout!Form
<1>7. form' # None
  BY <1>6, NoneAssumption
<1>8. /\ new \in Checkout!CallState /\ new.cur /\ new.kind = "verify"
      /\ new.order = form.pending /\ new.ref = form.pending
  BY <1>3, <1>5 DEF Checkout!CallState
<1> HIDE DEF new
<1>9. \A c \in calls' : c = new \/ (c \in calls /\ ~c.cur)
  BY <1>2, <1>4
<1>10. CallsName'
  BY <1>1, <1>3, <1>5, <1>6, <1>7, <1>8, <1>9 DEF CheckoutInv, CallsName
<1>11. OneAtATime' /\ FormNames' /\ AlertsOf'
  BY <1>1, <1>4, <1>6, <1>7, <1>8, <1>9 DEF CheckoutInv, OneAtATime, FormNames, AlertsOf
<1>12. Checkout!TypeOK'
  BY <1>1, <1>4, <1>6, <1>7, <1>8, <1>10 DEF CheckoutInv, Checkout!TypeOK, CallsName
<1> QED
  BY <1>10, <1>11, <1>12 DEF CheckoutInv

(* A call that ends with an alert, whether its screen is still there or    *)
(* not, and writes to the form as GiveUp does.                             *)
LEMMA Ending ==
  ASSUME CheckoutInv, NEW c \in calls, NEW f, NEW x \in Checkout!AlertState,
         form' = IF c.cur THEN f ELSE form,
         c.cur => f \in Checkout!Form /\ f.pending = form.pending /\ f.ref = form.ref
                  /\ f.modal = form.modal,
         calls' = calls \ {c}, alerts' = alerts \cup {x}, x.cur => c.cur,
         order' \in [Order -> {"none", "pending", "paid"}],
         \A o \in Order : order[o] # "none" => order'[o] # "none",
         UNCHANGED <<top, cart, charged>>
  PROVE  CheckoutInv'
<1>1. c.cur => /\ form # None /\ form' # None /\ form' = f
               /\ \A d \in calls' : ~d.cur
  BY NoneAssumption DEF CheckoutInv, CallsName, OneAtATime
<1>2. ~c.cur => form' = form
  OBVIOUS
<1>3. CallsName'
  BY <1>1, <1>2 DEF CheckoutInv, CallsName
<1>4. OneAtATime'
  BY DEF CheckoutInv, OneAtATime
<1>5. FormNames'
  <2>1. CASE c.cur
    <3>1. form \in Checkout!Form
      BY <1>1, <2>1 DEF CheckoutInv, Checkout!TypeOK
    <3>2. form.pending # None => form.pending \in Order
      BY <3>1 DEF Checkout!Form
    <3> QED
      BY <1>1, <2>1, <3>2 DEF CheckoutInv, FormNames
  <2>2. CASE ~c.cur /\ form # None
    <3>1. form \in Checkout!Form
      BY <2>2 DEF CheckoutInv, Checkout!TypeOK
    <3>2. form.pending # None => form.pending \in Order
      BY <3>1 DEF Checkout!Form
    <3> QED
      BY <1>2, <2>2, <3>2 DEF CheckoutInv, FormNames
  <2>3. CASE ~c.cur /\ form = None
    BY <1>2, <2>3 DEF FormNames
  <2> QED
    BY <2>1, <2>2, <2>3
<1>6. AlertsOf'
  <2>1. CASE c.cur
    BY <1>1, <2>1 DEF CheckoutInv, AlertsOf
  <2>2. CASE ~c.cur
    BY <1>2, <2>2 DEF CheckoutInv, AlertsOf
  <2> QED
    BY <2>1, <2>2
<1>7. Checkout!TypeOK'
  <2>1. form' \in Checkout!Form \cup {None} /\ (top' = "checkout" => form' # None)
    BY <1>1, <1>2 DEF CheckoutInv, Checkout!TypeOK
  <2> QED
    BY <1>3, <2>1 DEF CheckoutInv, Checkout!TypeOK, CallsName
<1> QED
  BY <1>3, <1>4, <1>5, <1>6, <1>7 DEF CheckoutInv

(* The order is created, and the same call goes on to pay for it; or it is *)
(* not, or nobody heard of it.                                             *)
LEMMA Created ==
  ASSUME CheckoutInv, NEW c \in calls, NEW o \in Order, NEW ok \in BOOLEAN,
         Checkout!CreateAnswer(c, o, ok)
  PROVE  CheckoutInv'
<1>1. c.kind = "create" /\ UNCHANGED <<top, cart, charged>> /\ c \in Checkout!CallState
  BY DEF Checkout!CreateAnswer, CheckoutInv, Checkout!TypeOK
<1>2. /\ order' \in [Order -> {"none", "pending", "paid"}]
      /\ \A i \in Order : order[i] # "none" => order'[i] # "none"
  BY DEF Checkout!CreateAnswer, CheckoutInv, Checkout!TypeOK
<1>3. c.cur => form # None /\ form \in Checkout!Form /\ form.step = "processing" /\ ~form.modal
  BY DEF CheckoutInv, Checkout!TypeOK, CallsName
<1>4. CASE ok
  <2> DEFINE pay == [c EXCEPT !.kind = "pay", !.order = o]
             f   == [form EXCEPT !.pending = o]
  <2>1. /\ order' = [order EXCEPT ![o] = "pending"] /\ UNCHANGED alerts
        /\ calls' = (calls \ {c}) \cup {pay} /\ form' = IF c.cur THEN f ELSE form
    BY <1>4 DEF Checkout!CreateAnswer, Checkout!Write
  <2>2. order'[o] = "pending"
    BY <2>1 DEF CheckoutInv, Checkout!TypeOK
  <2>3. pay \in Checkout!CallState /\ pay.kind = "pay" /\ pay.order = o /\ pay.cur = c.cur
    BY <1>1 DEF Checkout!CallState
  <2>4. c.cur => /\ f \in Checkout!Form /\ f.pending = o /\ f.step = form.step
                 /\ f.modal = form.modal /\ f # None
    <3>1. c.cur => f \in Checkout!Form
      BY <1>3 DEF Checkout!Form
    <3> QED
      BY <1>3, <3>1, NoneAssumption DEF Checkout!Form
  <2> HIDE DEF pay, f
  <2>5. \A d \in calls' : d = pay \/ (d \in calls /\ d # c)
    BY <2>1
  <2>6. CallsName'
    <3>1. ASSUME NEW d \in calls, d # c
          PROVE  /\ d.kind # "create" => d.order \in Order /\ order'[d.order] # "none"
                 /\ d.kind = "verify" => d.ref = d.order
                 /\ d.cur => /\ form' # None /\ form'.step = "processing" /\ ~form'.modal
                             /\ d.kind = "pay" => form'.pending = d.order
      <4>1. d.cur => ~c.cur
        BY <3>1 DEF CheckoutInv, OneAtATime
      <4> QED
        BY <1>2, <2>1, <4>1 DEF CheckoutInv, CallsName
    <3>2. /\ pay.order \in Order /\ order'[pay.order] # "none" /\ pay.kind # "verify"
          /\ pay.cur => /\ form' # None /\ form'.step = "processing" /\ ~form'.modal
                        /\ form'.pending = pay.order
      BY <1>3, <2>1, <2>2, <2>3, <2>4
    <3> QED
      BY <2>5, <3>1, <3>2 DEF CallsName
  <2>7. OneAtATime'
    BY <2>3, <2>5 DEF CheckoutInv, OneAtATime
  <2>8. FormNames'
    <3>1. CASE c.cur
      BY <1>1, <1>3, <2>1, <2>2, <2>4, <3>1 DEF CheckoutInv, FormNames
    <3>2. CASE ~c.cur
      BY <1>1, <1>2, <2>1, <3>2 DEF CheckoutInv, Checkout!TypeOK, Checkout!Form, FormNames
    <3> QED
      BY <3>1, <3>2
  <2>9. AlertsOf'
    <3>1. \A d \in calls' : d.cur => \E e \in calls : e.cur
      BY <2>3, <2>5
    <3>2. form # None => form' # None
      BY <2>1, <2>4
    <3> QED
      BY <2>1, <3>1, <3>2 DEF CheckoutInv, AlertsOf
  <2>10. Checkout!TypeOK'
    <3>1. form' \in Checkout!Form \cup {None} /\ (form # None => form' # None)
      BY <2>1, <2>4 DEF CheckoutInv, Checkout!TypeOK
    <3>2. calls' \subseteq Checkout!CallState
      BY <2>3, <2>5 DEF CheckoutInv, Checkout!TypeOK
    <3> QED
      BY <1>1, <1>2, <2>1, <2>6, <3>1, <3>2 DEF CheckoutInv, Checkout!TypeOK, CallsName
  <2> QED
    BY <2>6, <2>7, <2>8, <2>9, <2>10 DEF CheckoutInv
<1>5. CASE ~ok
  <2> DEFINE f == [form EXCEPT !.step = "form", !.loading = FALSE]
             x == [kind |-> "error", cur |-> c.cur]
  <2>1. /\ calls' = calls \ {c} /\ alerts' = alerts \cup {x}
        /\ form' = IF c.cur THEN f ELSE form
    BY <1>5 DEF Checkout!CreateAnswer, Checkout!GiveUp, Checkout!Raise, Checkout!Write
  <2>2. c.cur => f \in Checkout!Form /\ f.pending = form.pending /\ f.ref = form.ref
                 /\ f.modal = form.modal
    BY <1>3 DEF Checkout!Form
  <2>3. x \in Checkout!AlertState /\ (x.cur => c.cur)
    BY <1>1 DEF Checkout!AlertState, Checkout!CallState
  <2> HIDE DEF f, x
  <2> QED
    BY <1>1, <1>2, <2>1, <2>2, <2>3, Ending
<1> QED
  BY <1>4, <1>5

(* The web view opens with the reference of the order it is for.           *)
LEMMA Payable ==
  ASSUME CheckoutInv, NEW c \in calls, NEW ok \in BOOLEAN, Checkout!PayAnswer(c, ok)
  PROVE  CheckoutInv'
<1>1. c.kind = "pay" /\ UNCHANGED <<top, cart, order, charged>> /\ c \in Checkout!CallState
  BY DEF Checkout!PayAnswer, CheckoutInv, Checkout!TypeOK
<1>2. c.cur => /\ form # None /\ form \in Checkout!Form
               /\ form.pending = c.order /\ \A d \in calls \ {c} : ~d.cur
  BY <1>1 DEF CheckoutInv, Checkout!TypeOK, CallsName, OneAtATime
<1>3. c.order \in Order /\ order[c.order] # "none"
  BY <1>1 DEF CheckoutInv, CallsName
<1>4. CASE ok
  <2> DEFINE f == [form EXCEPT !.ref = c.order, !.step = "webview", !.modal = TRUE,
                               !.loading = FALSE]
  <2>1. calls' = calls \ {c} /\ UNCHANGED alerts /\ form' = IF c.cur THEN f ELSE form
    BY <1>4 DEF Checkout!PayAnswer, Checkout!Write
  <2>2. c.cur => f \in Checkout!Form /\ f.pending = form.pending /\ f.ref = c.order
    BY <1>2, <1>3 DEF Checkout!Form
  <2>3. c.cur => f # None
    BY <2>2, NoneAssumption
  <2> HIDE DEF f
  <2>4. CallsName'
    BY <1>1, <1>2, <2>1, <2>3 DEF CheckoutInv, CallsName
  <2>5. OneAtATime' /\ AlertsOf'
    BY <1>2, <2>1, <2>3 DEF CheckoutInv, OneAtATime, AlertsOf
  <2>6. FormNames'
    <3>1. CASE c.cur
      <4>1. c.order # None
        BY <1>3, AppAssumption
      <4> QED
        BY <1>1, <1>2, <1>3, <2>1, <2>2, <3>1, <4>1 DEF CheckoutInv, FormNames
    <3>2. CASE ~c.cur
      BY <1>1, <2>1, <3>2 DEF CheckoutInv, FormNames
    <3> QED
      BY <3>1, <3>2
  <2>7. Checkout!TypeOK'
    BY <1>1, <2>1, <2>2, <2>3, <2>4 DEF CheckoutInv, Checkout!TypeOK, CallsName
  <2> QED
    BY <2>4, <2>5, <2>6, <2>7 DEF CheckoutInv
<1>5. CASE ~ok
  <2> DEFINE f == [form EXCEPT !.step = "form", !.loading = FALSE]
             x == [kind |-> "error", cur |-> c.cur]
  <2>1. /\ calls' = calls \ {c} /\ alerts' = alerts \cup {x}
        /\ form' = IF c.cur THEN f ELSE form
    BY <1>5 DEF Checkout!PayAnswer, Checkout!GiveUp, Checkout!Raise, Checkout!Write
  <2>2. c.cur => f \in Checkout!Form /\ f.pending = form.pending /\ f.ref = form.ref
                 /\ f.modal = form.modal
    BY <1>2 DEF Checkout!Form
  <2>3. x \in Checkout!AlertState /\ (x.cur => c.cur)
    BY <1>1 DEF Checkout!AlertState, Checkout!CallState
  <2>4. order' \in [Order -> {"none", "pending", "paid"}]
    BY <1>1 DEF CheckoutInv, Checkout!TypeOK
  <2> HIDE DEF f, x
  <2> QED
    BY <1>1, <2>1, <2>2, <2>3, <2>4, Ending
<1> QED
  BY <1>4, <1>5

(* A payment that is verified, has failed, or was not heard of.            *)
LEMMA Verified ==
  ASSUME CheckoutInv, NEW c \in calls, NEW answer, Checkout!VerifyAnswer(c, answer)
  PROVE  CheckoutInv'
<1>1. c.kind = "verify" /\ charged' = charged /\ c \in Checkout!CallState
  BY DEF Checkout!VerifyAnswer, CheckoutInv, Checkout!TypeOK
<1>2. /\ order' \in [Order -> {"none", "pending", "paid"}]
      /\ \A i \in Order : order[i] # "none" => order'[i] # "none"
  BY DEF Checkout!VerifyAnswer, CheckoutInv, Checkout!TypeOK
<1>3. CASE answer = "success"
  <2>1. /\ calls' = Checkout!ForgetScreen(calls \ {c}) /\ alerts' = Checkout!ForgetScreen(alerts)
        /\ cart' = {} /\ top' = "orders" /\ form' = None
    BY <1>3 DEF Checkout!VerifyAnswer
  <2> QED
    BY <1>1, <1>2, <2>1, Unmounting DEF CheckoutInv, Checkout!TypeOK
<1>4. CASE answer # "success"
  <2> DEFINE f == [form EXCEPT !.loading = FALSE]
             x == [kind |-> IF answer = "error" THEN "unverified" ELSE "failed", cur |-> c.cur]
  <2>1. /\ calls' = calls \ {c} /\ alerts' = alerts \cup {x}
        /\ form' = (IF c.cur THEN f ELSE form) /\ UNCHANGED <<top, cart>>
    BY <1>4 DEF Checkout!VerifyAnswer, Checkout!Raise, Checkout!Write
  <2>2. c.cur => form \in Checkout!Form
    BY DEF CheckoutInv, Checkout!TypeOK, CallsName
  <2>3. c.cur => f \in Checkout!Form /\ f.pending = form.pending /\ f.ref = form.ref
                 /\ f.modal = form.modal
    BY <2>2 DEF Checkout!Form
  <2>4. x \in Checkout!AlertState /\ (x.cur => c.cur)
    BY <1>1 DEF Checkout!AlertState, Checkout!CallState
  <2> HIDE DEF f, x
  <2> QED
    BY <1>1, <1>2, <2>1, <2>3, <2>4, Ending
<1> QED
  BY <1>3, <1>4

(* The buttons of an alert: "Try Again" shows the form, "Cancel" leaves.   *)
LEMMA Tapping ==
  ASSUME CheckoutInv, NEW x \in alerts, Checkout!TapAlert(x)
  PROVE  CheckoutInv'
<1>1. UNCHANGED <<cart, order, charged>> /\ x \in Checkout!AlertState
  BY DEF Checkout!TapAlert, CheckoutInv, Checkout!TypeOK
<1>2. CASE UNCHANGED <<form, calls>> /\ alerts' = alerts \ {x} /\ top' \in {top, "orders"}
  BY <1>1, <1>2 DEF CheckoutInv, Checkout!TypeOK, CallsName, OneAtATime, FormNames, AlertsOf
<1>3. CASE /\ x.kind = "failed" /\ alerts' = alerts \ {x} /\ UNCHANGED <<top, calls>>
           /\ form' = [form EXCEPT !.step = "form"] /\ x.cur
  <2>1. form # None /\ \A c \in calls : ~c.cur
    BY <1>3 DEF CheckoutInv, AlertsOf
  <2>2. form \in Checkout!Form
    BY <2>1 DEF CheckoutInv, Checkout!TypeOK
  <2>3. /\ form' \in Checkout!Form /\ form'.pending = form.pending
        /\ form'.ref = form.ref /\ form'.modal = form.modal
    BY <1>3, <2>2 DEF Checkout!Form
  <2> QED
    BY <1>1, <1>3, <2>1, <2>3, FormWritten DEF CheckoutInv, Checkout!TypeOK
<1>4. CASE top' = "checkout" /\ form # None /\ UNCHANGED <<form, calls>> /\ alerts' = alerts \ {x}
  BY <1>1, <1>4 DEF CheckoutInv, Checkout!TypeOK, CallsName, OneAtATime, FormNames, AlertsOf
<1>5. CASE /\ top' = "shopping" /\ form' = None /\ calls' = Checkout!ForgetScreen(calls)
           /\ alerts' = Checkout!ForgetScreen(alerts \ {x})
  BY <1>1, <1>5, Unmounting DEF CheckoutInv, Checkout!TypeOK
<1> QED
  BY <1>2, <1>3, <1>4, <1>5 DEF Checkout!TapAlert

(* Every step keeps the invariant.                                         *)
LEMMA CheckoutSteps == CheckoutInv /\ [Checkout!Next]_Checkout!vars => CheckoutInv'
<1>1. ASSUME CheckoutInv, UNCHANGED Checkout!vars PROVE CheckoutInv'
  BY <1>1 DEF Checkout!vars, CheckoutInv, Checkout!TypeOK, CallsName, OneAtATime, FormNames,
    AlertsOf
<1>2. ASSUME CheckoutInv, Checkout!Answer PROVE CheckoutInv'
  BY <1>2, Created, Payable, Verified DEF Checkout!Answer
<1> QED
  BY <1>1, <1>2, Moving, FormFilled, Proceeding, Verifying, Tapping DEF Checkout!Next

(* The screen's own call, its form and its alerts fit throughout.          *)
THEOREM CheckoutInvariance == Checkout!Spec => []CheckoutInv
BY CheckoutBegins, CheckoutSteps, PTL DEF Checkout!Spec

(* Only a verified payment empties the cart, and the server then has its   *)
(* order as paid: the reference verified is of the order itself.           *)
LEMMA Clearing ==
  ASSUME CheckoutInv, Checkout!Next, cart # {}, cart' = {}
  PROVE  \E c \in calls : c.kind = "verify" /\ c.order \in charged /\ order'[c.order] = "paid"
<1>1. ~(\E p \in Product : Checkout!Shop(p)) /\ cart' # cart
  BY DEF Checkout!Shop
<1>2. Checkout!Answer
  BY <1>1 DEF Checkout!Next, Checkout!OpenCheckout, Checkout!Back, Checkout!LeaveOrders,
    Checkout!RetryLocation, Checkout!TypeAddress, Checkout!GetLocation, Checkout!CloseModal,
    Checkout!HandleProceedToPayment, Checkout!PayAtPaystack, Checkout!HandleVerifyPayment,
    Checkout!TapAlert, Checkout!OnForm
<1>3. PICK c \in calls, answer \in {"success", "failed", "error"} : Checkout!VerifyAnswer(c, answer)
  BY <1>1, <1>2 DEF Checkout!Answer, Checkout!CreateAnswer, Checkout!PayAnswer
<1>4. answer = "success"
  BY <1>1, <1>3 DEF Checkout!VerifyAnswer
<1>5. c.kind = "verify" /\ c.ref \in charged /\ order' = [order EXCEPT ![c.order] = "paid"]
  BY <1>3, <1>4 DEF Checkout!VerifyAnswer
<1>6. c.order \in Order /\ c.ref = c.order /\ order \in [Order -> {"none", "pending", "paid"}]
  BY <1>5 DEF CheckoutInv, CallsName, Checkout!TypeOK
<1> QED
  BY <1>5, <1>6

(* The screen waits for one call: when that ends, the next begins or       *)
(* something else shows.                                                   *)
LEMMA Answering ==
  ASSUME CheckoutInv, Checkout!Next, Checkout!Waits, NEW d \in calls, d.cur,
         \A c \in calls' : ~c.cur
  PROVE  ~Checkout!Waits'
<1>1. top = "checkout" /\ alerts = {} /\ form.step = "processing" /\ form # None
      /\ form \in Checkout!Form /\ calls # calls'
  BY DEF Checkout!Waits, Checkout!Visible, CheckoutInv, Checkout!TypeOK
<1>2. CASE Checkout!Answer
  <2>1. PICK c \in calls :
          \/ \E o \in Order, ok \in BOOLEAN : Checkout!CreateAnswer(c, o, ok)
          \/ \E ok \in BOOLEAN : Checkout!PayAnswer(c, ok)
          \/ \E answer \in {"success", "failed", "error"} : Checkout!VerifyAnswer(c, answer)
    BY <1>2 DEF Checkout!Answer
  <2>2. c \in Checkout!CallState
    BY DEF CheckoutInv, Checkout!TypeOK
  <2>3. CASE \E kind \in {"error", "failed", "unverified"} : Checkout!Raise(kind, c.cur)
    <3>1. alerts' # {}
      BY <2>3 DEF Checkout!Raise
    <3> QED
      BY <3>1 DEF Checkout!Waits, Checkout!Visible
  <2>4. CASE top' = "orders"
    BY <2>4 DEF Checkout!Waits, Checkout!Visible
  <2>5. ASSUME NEW o \in Order,
               calls' = (calls \ {c}) \cup {[c EXCEPT !.kind = "pay", !.order = o]}
        PROVE  FALSE
    <3>1. c = d \/ d \in calls'
      BY <2>5
    <3>2. c # d
      <4>1. [c EXCEPT !.kind = "pay", !.order = o].cur = c.cur
        BY <2>2 DEF Checkout!CallState
      <4> QED
        BY <2>5, <4>1
    <3> QED
      BY <3>1, <3>2
  <2>6. CASE calls' = calls \ {c} /\ Checkout!Write(c, [form EXCEPT !.ref = c.order,
                !.step = "webview", !.modal = TRUE, !.loading = FALSE])
    <3>1. c = d
      BY <2>6
    <3>2. form'.step = "webview"
      BY <1>1, <2>6, <3>1 DEF Checkout!Write, Checkout!Form
    <3> QED
      BY <3>2 DEF Checkout!Waits
  <2>7. ASSUME NEW o \in Order, NEW ok \in BOOLEAN, Checkout!CreateAnswer(c, o, ok)
        PROVE  ~Checkout!Waits'
    BY <2>3, <2>5, <2>7 DEF Checkout!CreateAnswer, Checkout!GiveUp
  <2>8. ASSUME NEW ok \in BOOLEAN, Checkout!PayAnswer(c, ok)
        PROVE  ~Checkout!Waits'
    BY <2>3, <2>6, <2>8 DEF Checkout!PayAnswer, Checkout!GiveUp
  <2>9. ASSUME NEW answer, Checkout!VerifyAnswer(c, answer)
        PROVE  ~Checkout!Waits'
    BY <2>3, <2>4, <2>9 DEF Checkout!VerifyAnswer
  <2> QED
    BY <2>1, <2>7, <2>8, <2>9
<1>3. ~(\E p \in Product : Checkout!Shop(p)) /\ ~Checkout!OpenCheckout /\ ~Checkout!LeaveOrders
      /\ ~(\E x \in alerts : Checkout!TapAlert(x))
  BY <1>1 DEF Checkout!Shop, Checkout!OpenCheckout, Checkout!LeaveOrders
<1>4. /\ ~Checkout!HandleProceedToPayment
      /\ ~(\E how \in {"done", "redirect", "completed"} : Checkout!HandleVerifyPayment(how))
  BY <1>1 DEF Checkout!HandleProceedToPayment, Checkout!FormOffers, Checkout!FormShown,
    Checkout!HandleVerifyPayment, Checkout!WebViewOffers, Checkout!WebView
<1>5. /\ ~(\E found \in BOOLEAN : Checkout!GetLocation(found)) /\ ~Checkout!RetryLocation
      /\ ~Checkout!TypeAddress /\ ~Checkout!PayAtPaystack /\ ~Checkout!CloseModal
  BY <1>1 DEF Checkout!GetLocation, Checkout!RetryLocation, Checkout!TypeAddress,
    Checkout!PayAtPaystack, Checkout!CloseModal
<1>6. CASE Checkout!Back
  BY <1>6 DEF Checkout!Back, Checkout!Waits, Checkout!Visible
<1> QED
  BY <1>2, <1>3, <1>4, <1>5, <1>6 DEF Checkout!Next

-----------------------------------------------------------------------------
(* ParcelApp.  Whatever the two screens hold of a delivery, a page, a row, *)
(* a request, the server has it; and what the form says of a region fits   *)
(* the country beside it, since picking a country empties the region.      *)

There(p) == p \in Parcels!Parcel /\ srv[p] # None
Known(l) == \A p \in Parcels!Parcel : l[p] # None => srv[p] # None
Opened(w) == ~w.shut => There(w.ref)

ServerHolds ==
  srv \in [Parcels!Parcel -> Parcels!Row \cup {None}] /\ Parcels!RegionFitsCountry

BookHolds ==
  /\ b \in Parcels!Booking
  /\ b.region \in Parcels!Region(b.country) \cup {""}
  /\ b.sent # None => b.sent.region \in Parcels!Region(b.sent.country) \cup {""}
  /\ b.picker = "region" => b.country = "Ghana"
  /\ Opened(b.page)

TrackHolds ==
  /\ t \in Parcels!Deliveries
  /\ (t.sheet = "open" => t.sel # None) /\ (t.sel # None => There(t.sel))
  /\ Known(t.rows) /\ Opened(t.page)

AskedHolds ==
  /\ polls \subseteq Parcels!List /\ \A l \in polls : Known(l)
  /\ asked \subseteq Parcels!Asked /\ \A q \in asked : There(q[2])

ParcelsInv ==
  page \in {"book", "track", "crashed"} /\ ServerHolds /\ BookHolds /\ TrackHolds /\ AskedHolds

(* What a step may do to the server's deliveries: none goes away.          *)
Grows ==
  /\ srv' \in [Parcels!Parcel -> Parcels!Row \cup {None}]
  /\ \A p \in Parcels!Parcel : srv[p] # None => srv'[p] # None

(* Nothing is booked but what others booked, and the screens are empty.    *)
LEMMA ParcelsBegin == Parcels!Init => ParcelsInv
<1> SUFFICES ASSUME Parcels!Init PROVE ParcelsInv
  OBVIOUS
<1>1. ServerHolds
  BY AppAssumption DEF Parcels!Init, ServerHolds, Parcels!Row, Parcels!RegionFitsCountry, Parcels!Parcel
<1>2. BookHolds
  BY DEF Parcels!Init, BookHolds, Parcels!NewBooking, Parcels!Booking, Parcels!Payload,
    Parcels!Page, Parcels!NoPage, Parcels!Region, Parcels!Regions, Parcels!Country, Opened
<1>3. TrackHolds
  BY DEF Parcels!Init, TrackHolds, Parcels!NewDeliveries, Parcels!NoRows, Parcels!List,
    Parcels!Deliveries, Parcels!Page, Parcels!NoPage, Known, Opened
<1> QED
  BY <1>1, <1>2, <1>3 DEF Parcels!Init, ParcelsInv, AskedHolds

(* What a list brings is a list of deliveries the server has.              *)
LEMMA ListedRows == ServerHolds => Parcels!Listed(srv) \in Parcels!List /\ Known(Parcels!Listed(srv))
BY DEF ServerHolds, Parcels!Listed, Parcels!List, Parcels!Shown, Parcels!Row, Known

(* The form, the sheet and the requests fit a server that only grew.       *)
LEMMA BookStays == BookHolds /\ Grows /\ b' = b => BookHolds'
BY DEF BookHolds, Grows, Opened, There, Parcels!Region

LEMMA TrackStays == TrackHolds /\ Grows /\ t' = t => TrackHolds'
BY DEF TrackHolds, Grows, Opened, There, Known

LEMMA AskedStays ==
  ASSUME ServerHolds, AskedHolds, Grows,
         polls' \subseteq polls \cup {Parcels!Listed(srv)}, asked' \subseteq Parcels!Asked,
         \A q \in asked' : q \in asked \/ There(q[2])
  PROVE  AskedHolds'
<1>1. \A l \in polls' : l \in Parcels!List /\ Known(l)
  BY ListedRows DEF AskedHolds
<1>2. \A l \in polls' : Known(l)'
  BY <1>1 DEF Known, Grows
<1>3. \A q \in asked' : There(q[2])'
  BY DEF AskedHolds, There, Grows
<1> QED
  BY <1>1, <1>2, <1>3 DEF AskedHolds

LEMMA ServerStays ==
  ASSUME ServerHolds, srv' = srv
  PROVE  ServerHolds' /\ Grows
BY DEF ServerHolds, Grows, Parcels!RegionFitsCountry

(* A delivery that is paid for, carried on or rated is still there.        *)
LEMMA ServerTouched ==
  ASSUME ServerHolds, NEW p \in Parcels!Parcel, srv[p] # None, NEW x,
         \/ srv' = [srv EXCEPT ![p].status = x] /\ x \in {"pending", "picked_up", "delivered"}
         \/ srv' = [srv EXCEPT ![p].paid = TRUE]
         \/ srv' = [srv EXCEPT ![p].charged = TRUE]
         \/ srv' = [srv EXCEPT ![p].rated = TRUE]
  PROVE  ServerHolds' /\ Grows
<1>1. srv[p] \in Parcels!Row
  BY DEF ServerHolds
<1>2. PICK z \in Parcels!Row : srv' = [srv EXCEPT ![p] = z] /\ z.fits = srv[p].fits
  <2>1. CASE srv' = [srv EXCEPT ![p].status = x] /\ x \in {"pending", "picked_up", "delivered"}
    BY <1>1, <2>1 DEF Parcels!Row
  <2>2. CASE srv' = [srv EXCEPT ![p].paid = TRUE]
    <3> DEFINE z == [srv[p] EXCEPT !.paid = TRUE]
    <3>1. z \in Parcels!Row /\ z.fits = srv[p].fits
      BY <1>1 DEF Parcels!Row
    <3>2. srv' = [srv EXCEPT ![p] = z]
      BY <2>2
    <3> QED
      BY <3>1, <3>2
  <2>3. CASE srv' = [srv EXCEPT ![p].charged = TRUE]
    <3> DEFINE z == [srv[p] EXCEPT !.charged = TRUE]
    <3>1. z \in Parcels!Row /\ z.fits = srv[p].fits
      BY <1>1 DEF Parcels!Row
    <3>2. srv' = [srv EXCEPT ![p] = z]
      BY <2>3
    <3> QED
      BY <3>1, <3>2
  <2>4. CASE srv' = [srv EXCEPT ![p].rated = TRUE]
    <3> DEFINE z == [srv[p] EXCEPT !.rated = TRUE]
    <3>1. z \in Parcels!Row /\ z.fits = srv[p].fits
      BY <1>1 DEF Parcels!Row
    <3>2. srv' = [srv EXCEPT ![p] = z]
      BY <2>4
    <3> QED
      BY <3>1, <3>2
  <2> QED
    BY <2>1, <2>2, <2>3, <2>4
<1>3. z # None
  BY NoneAssumption
<1> QED
  BY <1>2, <1>3 DEF ServerHolds, Grows, Parcels!RegionFitsCountry, Parcels!Parcel

(* Paystack's answer is taken over where it charged the delivery.          *)
LEMMA ServerSettled ==
  ASSUME ServerHolds, NEW p \in Parcels!Parcel, srv[p] # None,
         srv' = Parcels!Settled(p) \/ srv' = srv
  PROVE  ServerHolds' /\ Grows
BY ServerTouched, ServerStays DEF Parcels!Settled

(* A booking is of the region the form fits with its country.              *)
LEMMA ServerBooked ==
  ASSUME ServerHolds, BookHolds, b.sent # None, NEW p \in Mine, srv' = Parcels!Booked(p)
  PROVE  ServerHolds' /\ Grows /\ There(p)'
<1> DEFINE z == [status |-> "pending", payer |-> b.sent.payer, paid |-> FALSE, charged |-> FALSE,
      rated |-> FALSE, fits |-> b.sent.region \in Parcels!Region(b.sent.country) \cup {""}]
<1>1. srv' = [srv EXCEPT ![p] = z]
  BY DEF Parcels!Booked
<1>2. b.sent \in Parcels!Payload /\ z.fits
  BY DEF BookHolds, Parcels!Booking
<1>3. z \in Parcels!Row
  BY <1>2 DEF Parcels!Row, Parcels!Payload
<1>4. z # None /\ p \in Parcels!Parcel
  BY <1>3, NoneAssumption DEF Parcels!Parcel
<1> HIDE DEF z
<1> QED
  BY <1>1, <1>2, <1>3, <1>4 DEF ServerHolds, Grows, There, Parcels!RegionFitsCountry, Parcels!Parcel

(* A new My Deliveries asks for nothing yet.                               *)
LEMMA NewList ==
  ASSUME ParcelsInv, Grows, NEW rest \in SUBSET asked, Parcels!ToTrack(rest)
  PROVE  page' = "track" /\ TrackHolds' /\ AskedHolds'
<1>1. page' = "track" /\ asked' \subseteq asked /\ polls' \subseteq polls
  BY DEF Parcels!ToTrack
<1>2. AskedHolds'
  BY <1>1, AskedStays DEF ParcelsInv, AskedHolds
<1>3. t' = t \/ t' = Parcels!NewDeliveries
  BY DEF Parcels!ToTrack
<1>4. ASSUME t' = Parcels!NewDeliveries PROVE TrackHolds'
  BY <1>4 DEF TrackHolds, Parcels!NewDeliveries, Parcels!NoRows, Parcels!List,
    Parcels!Deliveries, Parcels!Page, Parcels!NoPage, Known, Opened
<1> QED
  BY <1>1, <1>2, <1>3, <1>4, TrackStays DEF ParcelsInv

(* Filling in the form changes nothing else.                               *)
LEMMA FormOnly ==
  ASSUME ParcelsInv, UNCHANGED <<srv, page, t, polls, asked>>, BookHolds'
  PROVE  ParcelsInv'
<1>1. ServerHolds' /\ Grows
  BY ServerStays DEF ParcelsInv
<1>2. TrackHolds' /\ AskedHolds'
  BY <1>1, TrackStays, AskedStays DEF ParcelsInv, AskedHolds
<1> QED
  BY <1>1, <1>2 DEF ParcelsInv

(* Location, text fields, who pays: neither country nor region changes.    *)
LEMMA FormTexts ==
  ASSUME ParcelsInv,
         \/ \E ok \in BOOLEAN : Parcels!LocationAnswer(ok)
         \/ Parcels!TypePickup \/ Parcels!FillIn
         \/ \E q \in {"sender", "receiver"} : Parcels!SetPayerType(q)
  PROVE  ParcelsInv'
<1>1. b \in Parcels!Booking
  BY DEF ParcelsInv, BookHolds
<1>2. UNCHANGED <<srv, page, t, polls, asked>>
  BY DEF Parcels!LocationAnswer, Parcels!TypePickup, Parcels!FillIn, Parcels!SetPayerType,
    Parcels!Idle
<1>3. CASE \E ok \in BOOLEAN : Parcels!LocationAnswer(ok)
  <2>1. \/ b' = [b EXCEPT !.locating = FALSE]
        \/ b' = [b EXCEPT !.locating = FALSE, !.pickup = TRUE]
    <3>1. PICK ok \in BOOLEAN : b' = [b EXCEPT !.locating = FALSE, !.pickup = @ \/ ok]
      BY <1>3 DEF Parcels!LocationAnswer
    <3>2. CASE ok = TRUE
      BY <3>1, <3>2
    <3>3. CASE ok = FALSE /\ b.pickup = TRUE
      BY <3>1, <3>3
    <3>4. CASE ok = FALSE /\ b.pickup = FALSE
      BY <1>1, <3>1, <3>4 DEF Parcels!Booking
    <3> QED
      BY <1>1, <3>1, <3>2, <3>3, <3>4 DEF Parcels!Booking
  <2>2. BookHolds'
    BY <1>1, <1>2, <2>1 DEF ParcelsInv, BookHolds, Opened, There, Parcels!Booking
  <2> QED
    BY <1>2, <2>2, FormOnly
<1>4. CASE Parcels!TypePickup \/ Parcels!FillIn
  <2>1. b' = [b EXCEPT !.pickup = TRUE] \/ b' = [b EXCEPT !.filled = TRUE]
    BY <1>4 DEF Parcels!TypePickup, Parcels!FillIn
  <2>2. BookHolds'
    BY <1>1, <1>2, <2>1 DEF ParcelsInv, BookHolds, Opened, There, Parcels!Booking
  <2> QED
    BY <1>2, <2>2, FormOnly
<1>5. CASE \E q \in {"sender", "receiver"} : Parcels!SetPayerType(q)
  <2>1. \E q \in {"sender", "receiver"} : b' = [b EXCEPT !.payer = q]
    BY <1>5 DEF Parcels!SetPayerType
  <2>2. BookHolds'
    BY <1>1, <1>2, <2>1 DEF ParcelsInv, BookHolds, Opened, There, Parcels!Booking
  <2> QED
    BY <1>2, <2>2, FormOnly
<1> QED
  BY <1>3, <1>4, <1>5

(* The pickers: a country empties the region, and regions are offered, or  *)
(* may be typed, as the country has them.                                  *)
LEMMA FormPickers ==
  ASSUME ParcelsInv,
         \/ Parcels!ClosePicker
         \/ \E p \in {"country", "region"} : Parcels!OpenPicker(p)
         \/ \E c \in Parcels!Country : Parcels!PickCountry(c)
         \/ \E r \in Parcels!Region("Ghana") : Parcels!PickRegion(r)
         \/ \E r \in Parcels!Region("Togo") \cup {""} : Parcels!TypeRegion(r)
  PROVE  ParcelsInv'
<1>1. b \in Parcels!Booking
  BY DEF ParcelsInv, BookHolds
<1>2. UNCHANGED <<srv, page, t, polls, asked>>
  BY DEF Parcels!ClosePicker, Parcels!OpenPicker, Parcels!PickCountry, Parcels!PickRegion,
    Parcels!TypeRegion, Parcels!Idle
<1>3. CASE Parcels!ClosePicker \/ \E p \in {"country", "region"} : Parcels!OpenPicker(p)
  <2>1. \E p \in {"none", "country", "region"} :
          b' = [b EXCEPT !.picker = p] /\ (p = "region" => b.country = "Ghana")
    BY <1>3 DEF Parcels!ClosePicker, Parcels!OpenPicker
  <2>2. BookHolds'
    BY <1>1, <1>2, <2>1 DEF ParcelsInv, BookHolds, Opened, There, Parcels!Booking
  <2> QED
    BY <1>2, <2>2, FormOnly
<1>4. CASE \E c \in Parcels!Country : Parcels!PickCountry(c)
  <2>1. PICK c \in Parcels!Country : b' = [b EXCEPT !.country = c, !.region = "", !.picker = "none"]
    BY <1>4 DEF Parcels!PickCountry
  <2>2. BookHolds'
    BY <1>1, <1>2, <2>1 DEF ParcelsInv, BookHolds, Opened, There, Parcels!Booking, Parcels!Regions
  <2> QED
    BY <1>2, <2>2, FormOnly
<1>5. CASE \E r \in Parcels!Region("Ghana") : Parcels!PickRegion(r)
  <2>1. b' = [b EXCEPT !.region = "Volta", !.picker = "none"] /\ b.picker = "region"
    BY <1>5 DEF Parcels!PickRegion, Parcels!Region
  <2>2. BookHolds'
    BY <1>1, <1>2, <2>1 DEF ParcelsInv, BookHolds, Opened, There, Parcels!Booking, Parcels!Regions,
      Parcels!Region
  <2> QED
    BY <1>2, <2>2, FormOnly
<1>6. CASE \E r \in Parcels!Region("Togo") \cup {""} : Parcels!TypeRegion(r)
  <2>1. b.country = "Togo" /\ \E r \in {"", "Maritime"} : b' = [b EXCEPT !.region = r]
    BY <1>1, <1>6 DEF Parcels!TypeRegion, Parcels!Region, Parcels!Booking, Parcels!Country
  <2>2. BookHolds'
    BY <1>1, <1>2, <2>1 DEF ParcelsInv, BookHolds, Opened, There, Parcels!Booking, Parcels!Regions,
      Parcels!Region
  <2> QED
    BY <1>2, <2>2, FormOnly
<1> QED
  BY <1>3, <1>4, <1>5, <1>6

(* "Request": what is sent is what the form says by now.                   *)
LEMMA FormSent ==
  ASSUME ParcelsInv, Parcels!HandleRequest
  PROVE  ParcelsInv'
<1>1. b \in Parcels!Booking /\ UNCHANGED <<srv, page, t, polls, asked>>
  BY DEF ParcelsInv, BookHolds, Parcels!HandleRequest, Parcels!Idle
<1>2. CASE b' = [b EXCEPT !.alert = "missing"]
  <2>1. BookHolds'
    BY <1>1, <1>2 DEF ParcelsInv, BookHolds, Opened, There, Parcels!Booking
  <2> QED
    BY <1>1, <2>1, FormOnly
<1> DEFINE z == [country |-> b.country, region |-> b.region, payer |-> b.payer]
<1>3. CASE b' = [b EXCEPT !.sent = z]
  <2>1. z \in Parcels!Payload /\ z.region = b.region /\ z.country = b.country
    BY <1>1 DEF Parcels!Payload, Parcels!Booking
  <2> HIDE DEF z
  <2>2. BookHolds'
    BY <1>1, <1>3, <2>1 DEF ParcelsInv, BookHolds, Opened, There, Parcels!Booking
  <2> QED
    BY <1>1, <2>2, FormOnly
<1> QED
  BY <1>2, <1>3 DEF Parcels!HandleRequest

(* What the form is written to once its request has ended, or its page     *)
(* was confirmed.                                                          *)
LEMMA FormEnded ==
  ASSUME ParcelsInv, Grows,
         \/ b' = b
         \/ \E x \in {"none", "booked", "failed"} : b' = [b EXCEPT !.sent = None, !.alert = x]
         \/ b' = [b EXCEPT !.sent = None]
         \/ \E x \in {"none", "paid", "unpaid"} : b' = [b EXCEPT !.alert = x]
         \/ b' = [b EXCEPT !.page.shut = TRUE]
         \/ b' = [b EXCEPT !.page.loading = FALSE]
         \/ b' = Parcels!NewBooking
         \/ \E p \in Parcels!Parcel :
              There(p)' /\ b' = [b EXCEPT !.sent = None, !.page = Parcels!PageOf(p)]
  PROVE  BookHolds'
<1>1. b \in Parcels!Booking
  BY DEF ParcelsInv, BookHolds
<1>2. Opened(b.page)'
  <2>1. CASE b'.page = b.page \/ b'.page.shut
    BY <2>1 DEF ParcelsInv, BookHolds, Opened, There, Grows
  <2>2. CASE b' = [b EXCEPT !.page.loading = FALSE]
    BY <1>1, <2>2 DEF ParcelsInv, BookHolds, Opened, There, Grows, Parcels!Booking, Parcels!Page
  <2>3. ASSUME NEW p \in Parcels!Parcel, There(p)',
               b' = [b EXCEPT !.sent = None, !.page = Parcels!PageOf(p)]
        PROVE  Opened(b.page)'
    BY <1>1, <2>3 DEF Opened, There, Parcels!PageOf, Parcels!Booking
  <2>4. CASE b' = Parcels!NewBooking
    BY <2>1, <2>4 DEF Parcels!NewBooking, Parcels!NoPage
  <2>5. CASE b' = [b EXCEPT !.page.shut = TRUE]
    BY <1>1, <2>1, <2>5 DEF Parcels!Booking, Parcels!Page
  <2> QED
    BY <1>1, <2>1, <2>2, <2>3, <2>4, <2>5 DEF Parcels!Booking
<1>3. /\ b' \in Parcels!Booking
      /\ b'.sent = None \/ b'.sent = b.sent
      /\ \/ b'.region = b.region /\ b'.country = b.country /\ b'.picker = b.picker
         \/ b'.region = "" /\ b'.picker = "none"
  <2>1. CASE \E p \in Parcels!Parcel : b' = [b EXCEPT !.sent = None, !.page = Parcels!PageOf(p)]
    <3>1. PICK p \in Parcels!Parcel : b' = [b EXCEPT !.sent = None, !.page = Parcels!PageOf(p)]
      BY <2>1
    <3>2. Parcels!PageOf(p) \in Parcels!Page
      BY DEF Parcels!PageOf, Parcels!Page
    <3> QED
      BY <1>1, <3>1, <3>2 DEF Parcels!Booking
  <2>2. CASE b' = Parcels!NewBooking
    BY <2>2 DEF Parcels!NewBooking, Parcels!Booking, Parcels!Payload,
      Parcels!Page, Parcels!NoPage, Parcels!Regions, Parcels!Country
  <2>3. CASE b' = [b EXCEPT !.page.shut = TRUE] \/ b' = [b EXCEPT !.page.loading = FALSE]
    <3>1. \A w \in Parcels!Page :
            [w EXCEPT !.shut = TRUE] \in Parcels!Page /\ [w EXCEPT !.loading = FALSE] \in Parcels!Page
      BY DEF Parcels!Page
    <3>2. PICK w \in Parcels!Page : b' = [b EXCEPT !.page = w]
      BY <1>1, <2>3, <3>1 DEF Parcels!Booking
    <3> QED
      BY <1>1, <3>2 DEF Parcels!Booking
  <2> QED
    BY <1>1, <2>1, <2>2, <2>3 DEF Parcels!Booking
<1> QED
  BY <1>2, <1>3 DEF ParcelsInv, BookHolds

(* Requests to verify what was booked; to ask is to ask of one that there is. *)
LEMMA StayGrown ==
  ASSUME ParcelsInv, Grows, ServerHolds', BookHolds', UNCHANGED <<page, t, polls>>,
         asked' \subseteq Parcels!Asked, \A q \in asked' : q \in asked \/ There(q[2])
  PROVE  ParcelsInv'
BY TrackStays, AskedStays DEF ParcelsInv

(* The server's answer to a booking, and one that is not heard.            *)
LEMMA BookingAnswered ==
  ASSUME ParcelsInv,
         \/ \E p \in Parcels!Parcel, url \in BOOLEAN : Parcels!RequestAnswer(p, url)
         \/ Parcels!RequestFails
  PROVE  ParcelsInv'
<1>0. asked \subseteq Parcels!Asked
  BY DEF ParcelsInv, AskedHolds
<1>1. ASSUME NEW p \in Parcels!Parcel, NEW url \in BOOLEAN, Parcels!RequestAnswer(p, url)
      PROVE  ParcelsInv'
  <2>1. p \in Mine /\ b.sent # None /\ srv' = Parcels!Booked(p)
    BY <1>1 DEF Parcels!RequestAnswer
  <2>2. ServerHolds' /\ Grows /\ There(p)'
    BY <2>1, ServerBooked DEF ParcelsInv
  <2>3. CASE b' = [b EXCEPT !.sent = None, !.alert = "booked"] /\ Parcels!Stay
    BY <1>0, <2>2, <2>3, FormEnded, StayGrown DEF Parcels!Stay
  <2>4. CASE b' = [b EXCEPT !.sent = None, !.page = Parcels!PageOf(p)] /\ Parcels!Stay
    BY <1>0, <2>2, <2>4, FormEnded, StayGrown DEF Parcels!Stay
  <2>5. CASE b' = [b EXCEPT !.sent = None] /\ Parcels!ToTrack(asked)
    BY <2>2, <2>5, FormEnded, NewList DEF ParcelsInv
  <2> QED
    BY <1>1, <2>3, <2>4, <2>5 DEF Parcels!RequestAnswer
<1>2. CASE Parcels!RequestFails
  <2>1. /\ b' = [b EXCEPT !.sent = None, !.alert = "failed"] /\ Parcels!Stay /\ b.sent # None
        /\ srv' = srv \/ \E p \in Mine : srv' = Parcels!Booked(p)
    BY <1>2 DEF Parcels!RequestFails
  <2>2. ServerHolds' /\ Grows
    BY <2>1, ServerBooked, ServerStays DEF ParcelsInv
  <2> QED
    BY <1>0, <2>1, <2>2, FormEnded, StayGrown DEF Parcels!Stay
<1> QED
  BY <1>1, <1>2

(* The page of a booking, its answer, the alerts, and on to the list.      *)
LEMMA BookingClosed ==
  ASSUME ParcelsInv,
         \/ Parcels!ConfirmBooked \/ Parcels!TapOK \/ Parcels!History
         \/ \E p \in Parcels!Parcel, ok \in BOOLEAN : Parcels!BookedVerified(p, ok)
  PROVE  ParcelsInv'
<1>0. asked \subseteq Parcels!Asked /\ \A q \in asked : There(q[2])
  BY DEF ParcelsInv, AskedHolds
<1>1. CASE Parcels!ConfirmBooked
  <2>1. /\ b' = [b EXCEPT !.page.shut = TRUE] /\ UNCHANGED <<srv, page, t, polls>>
        /\ asked' = asked \cup {<<"verify booked", b.page.ref>>} /\ There(b.page.ref)
    BY <1>1 DEF Parcels!ConfirmBooked, ParcelsInv, BookHolds, Opened
  <2>2. ServerHolds' /\ Grows
    BY <2>1, ServerStays DEF ParcelsInv
  <2>3. asked' \subseteq Parcels!Asked /\ \A q \in asked' : q \in asked \/ There(q[2])
    <3>1. <<"verify booked", b.page.ref>> \in Parcels!Asked
      BY <2>1 DEF Parcels!Asked, There
    <3>2. ASSUME NEW q \in asked', q \notin asked PROVE There(q[2])
      <4>1. q = <<"verify booked", b.page.ref>>
        BY <2>1, <3>2
      <4>2. q[2] = b.page.ref
        BY <4>1
      <4> QED
        BY <2>1, <4>2 DEF There
    <3> QED
      BY <1>0, <2>1, <3>1, <3>2
  <2> QED
    BY <2>1, <2>2, <2>3, FormEnded, StayGrown
<1>2. CASE Parcels!TapOK \/ Parcels!History
  <2>1. /\ UNCHANGED srv /\ (b' = b \/ b' = [b EXCEPT !.alert = "none"])
        /\ Parcels!Stay \/ Parcels!ToTrack(asked)
    BY <1>2 DEF Parcels!TapOK, Parcels!History
  <2>2. ServerHolds' /\ Grows
    BY <2>1, ServerStays DEF ParcelsInv
  <2>3. BookHolds'
    BY <2>1, <2>2, FormEnded
  <2> QED
    BY <1>0, <2>1, <2>2, <2>3, StayGrown, NewList DEF Parcels!Stay, ParcelsInv
<1>3. ASSUME NEW p \in Parcels!Parcel, NEW ok \in BOOLEAN, Parcels!BookedVerified(p, ok)
      PROVE  ParcelsInv'
  <2>1. srv[p] # None
    <3>1. <<"verify booked", p>> \in asked
      BY <1>3 DEF Parcels!BookedVerified
    <3> QED
      BY <1>0, <3>1 DEF There
  <2>2. srv' = Parcels!Settled(p) \/ srv' = srv
    BY <1>3 DEF Parcels!BookedVerified
  <2>3. ServerHolds' /\ Grows
    BY <2>1, <2>2, ServerSettled DEF ParcelsInv
  <2>4. \/ /\ b' = [b EXCEPT !.alert = "paid"] \/ b' = [b EXCEPT !.alert = "unpaid"]
           /\ asked' \subseteq asked /\ UNCHANGED <<page, t, polls>>
        \/ b' = b /\ \E rest \in SUBSET asked : Parcels!ToTrack(rest)
    BY <1>3 DEF Parcels!BookedVerified
  <2>5. BookHolds'
    BY <2>3, <2>4, FormEnded
  <2> QED
    BY <1>0, <2>3, <2>4, <2>5, StayGrown, NewList DEF ParcelsInv
<1> QED
  BY <1>1, <1>2, <1>3

(* The server, the riders and Paystack.                                    *)
LEMMA ServerMoves ==
  ASSUME ParcelsInv, Parcels!Server \/ \E p \in Parcels!Parcel : Parcels!PayInPage(p)
  PROVE  ParcelsInv'
<1>1. UNCHANGED <<page, b, t, polls, asked>>
  BY DEF Parcels!Server, Parcels!Progress, Parcels!Webhook, Parcels!PayInPage
<1>2. ServerHolds' /\ Grows
  <2>1. ASSUME NEW p \in Parcels!Parcel, Parcels!Progress(p)
        PROVE  ServerHolds' /\ Grows
    <3>1. /\ srv[p] # None
          /\ \E x \in {"picked_up", "delivered"} : srv' = [srv EXCEPT ![p].status = x]
      BY <2>1 DEF Parcels!Progress
    <3> QED
      BY <3>1, ServerTouched DEF ParcelsInv
  <2>2. ASSUME NEW p \in Parcels!Parcel, Parcels!Webhook(p)
        PROVE  ServerHolds' /\ Grows
    BY <2>2, ServerSettled DEF Parcels!Webhook, ParcelsInv
  <2>3. ASSUME NEW p \in Parcels!Parcel, Parcels!PayInPage(p)
        PROVE  ServerHolds' /\ Grows
    <3>1. There(p) /\ srv' = [srv EXCEPT ![p].charged = TRUE]
      BY <2>3 DEF Parcels!PayInPage, ParcelsInv, BookHolds, TrackHolds, Opened
    <3> QED
      BY <3>1, ServerTouched DEF ParcelsInv, There
  <2> QED
    BY <2>1, <2>2, <2>3 DEF Parcels!Server
<1>3. BookHolds' /\ asked' \subseteq Parcels!Asked
  BY <1>1, <1>2, BookStays DEF ParcelsInv, AskedHolds
<1> QED
  BY <1>1, <1>2, <1>3, StayGrown

(* A loading page, and the app started again.                              *)
LEMMA PagesLoad ==
  ASSUME ParcelsInv, Parcels!PageLoads \/ Parcels!Reopen
  PROVE  ParcelsInv'
<1>1. ServerHolds' /\ Grows
  BY ServerStays DEF ParcelsInv, Parcels!PageLoads, Parcels!Reopen
<1>2. CASE /\ b' = [b EXCEPT !.page.loading = FALSE] /\ UNCHANGED <<page, t, polls, asked>>
  BY <1>1, <1>2, FormEnded, StayGrown DEF ParcelsInv, AskedHolds
<1>3. CASE /\ t' = [t EXCEPT !.page.loading = FALSE] /\ UNCHANGED <<page, b, polls, asked>>
  <2>1. /\ t' \in Parcels!Deliveries /\ t'.sheet = t.sheet /\ t'.sel = t.sel /\ t'.rows = t.rows
        /\ t'.page.shut = t.page.shut /\ t'.page.ref = t.page.ref
    <3>1. t \in Parcels!Deliveries /\ t.page \in Parcels!Page
      BY DEF ParcelsInv, TrackHolds, Parcels!Deliveries
    <3>2. /\ [t.page EXCEPT !.loading = FALSE] \in Parcels!Page
          /\ [t.page EXCEPT !.loading = FALSE].shut = t.page.shut
          /\ [t.page EXCEPT !.loading = FALSE].ref = t.page.ref
      BY <3>1 DEF Parcels!Page
    <3>3. t' = [t EXCEPT !.page = [t.page EXCEPT !.loading = FALSE]]
      BY <1>3
    <3> QED
      BY <3>1, <3>2, <3>3 DEF Parcels!Deliveries
  <2>2. TrackHolds'
    BY <1>1, <2>1 DEF ParcelsInv, TrackHolds, Known, Opened, There, Grows
  <2> QED
    BY <1>1, <1>3, <2>2, BookStays, AskedStays DEF ParcelsInv, AskedHolds
<1>4. CASE Parcels!Reopen
  <2>1. /\ page' = "book" /\ b' = Parcels!NewBooking /\ t' = Parcels!NewDeliveries
        /\ polls' = {} /\ asked' = {}
    BY <1>4 DEF Parcels!Reopen
  <2>2. TrackHolds'
    BY <2>1 DEF TrackHolds, Parcels!NewDeliveries, Parcels!NoRows, Parcels!List,
      Parcels!Deliveries, Parcels!Page, Parcels!NoPage, Known, Opened
  <2> QED
    BY <1>1, <2>1, <2>2, FormEnded DEF ParcelsInv, AskedHolds
<1> QED
  BY <1>2, <1>3, <1>4 DEF Parcels!PageLoads

(* What My Deliveries is written to: rows the server has listed, a sheet   *)
(* of one of its deliveries.                                               *)
LEMMA TrackWritten ==
  ASSUME ParcelsInv, Grows, t' \in Parcels!Deliveries,
         t'.rows = t.rows \/ Known(t'.rows), t'.sel = t.sel \/ There(t'.sel),
         t'.page = t.page \/ t'.page.shut \/ There(t'.page.ref),
         t'.sheet = "open" => t'.sel # None
  PROVE  TrackHolds'
BY DEF ParcelsInv, TrackHolds, Known, There, Opened, Grows

(* A step of My Deliveries alone, with what it asks.                       *)
LEMMA TrackStep ==
  ASSUME ParcelsInv, ServerHolds', Grows, TrackHolds', b' = b,
         page' \in {"book", "track", "crashed"},
         polls' \subseteq polls \cup {Parcels!Listed(srv)}, asked' \subseteq Parcels!Asked,
         \A q \in asked' : q \in asked \/ There(q[2])
  PROVE  ParcelsInv'
BY BookStays, AskedStays DEF ParcelsInv

(* The list: fetched, refreshed, answered, its tabs, its way out.          *)
LEMMA ListSteps ==
  ASSUME ParcelsInv, Parcels!Lists
  PROVE  ParcelsInv'
<1>1. srv' = srv /\ ServerHolds' /\ Grows
  BY ServerStays DEF ParcelsInv, Parcels!Lists, Parcels!FetchAll, Parcels!OnRefresh, Parcels!NewOne,
    Parcels!Back, Parcels!PollAnswer, Parcels!SetTab
<1>2. t \in Parcels!Deliveries /\ (t.sheet = "open" => t.sel # None)
  BY DEF ParcelsInv, TrackHolds
<1>3. asked \subseteq Parcels!Asked /\ page \in {"book", "track", "crashed"}
  BY DEF ParcelsInv, AskedHolds
<1>4. CASE Parcels!FetchAll
  BY <1>1, <1>3, <1>4, TrackStays, TrackStep DEF Parcels!FetchAll, ParcelsInv
<1>5. CASE Parcels!OnRefresh
  <2>1. t' = [t EXCEPT !.refreshing = TRUE]
    BY <1>5 DEF Parcels!OnRefresh
  <2>2. TrackHolds'
    BY <1>1, <1>2, <2>1, TrackWritten DEF Parcels!Deliveries
  <2> QED
    BY <1>1, <1>3, <1>5, <2>2, TrackStep DEF Parcels!OnRefresh
<1>6. CASE \E l \in polls, ok \in BOOLEAN : Parcels!PollAnswer(l, ok)
  <2>1. PICK l \in polls, ok \in BOOLEAN : Parcels!PollAnswer(l, ok)
    BY <1>6
  <2>2. \/ t' = [t EXCEPT !.loading = FALSE, !.refreshing = FALSE, !.rows = l]
        \/ t' = [t EXCEPT !.loading = FALSE, !.refreshing = FALSE]
    <3>1. t' = [t EXCEPT !.loading = FALSE, !.refreshing = FALSE, !.rows = IF ok THEN l ELSE @]
      BY <2>1 DEF Parcels!PollAnswer, Parcels!Render
    <3> QED
      BY <1>2, <3>1 DEF Parcels!Deliveries
  <2>3. page' \in {"track", "crashed"} /\ UNCHANGED <<b, asked>> /\ polls' \subseteq polls
    BY <2>1 DEF Parcels!PollAnswer, Parcels!Render
  <2>4. l \in Parcels!List /\ Known(l)
    BY DEF ParcelsInv, AskedHolds
  <2>5. TrackHolds'
    BY <1>1, <1>2, <2>2, <2>4, TrackWritten DEF Parcels!Deliveries
  <2> QED
    BY <1>1, <1>3, <2>3, <2>5, TrackStep
<1>7. CASE \E x \in {"sent", "to_pay"} : Parcels!SetTab(x)
  <2>1. /\ \E x \in {"sent", "to_pay"} : t' = [t EXCEPT !.tab = x]
        /\ page' \in {page, "crashed"} /\ UNCHANGED <<b, polls, asked>>
    BY <1>7 DEF Parcels!SetTab, Parcels!Render
  <2>2. TrackHolds'
    BY <1>1, <1>2, <2>1, TrackWritten DEF Parcels!Deliveries
  <2> QED
    BY <1>1, <1>3, <2>1, <2>2, TrackStep
<1>8. CASE Parcels!NewOne
  <2>1. page' = "book" /\ b' = Parcels!NewBooking /\ UNCHANGED <<srv, t, polls, asked>>
    BY <1>8 DEF Parcels!NewOne
  <2>2. BookHolds' /\ TrackHolds' /\ AskedHolds'
    BY <1>1, <2>1, FormEnded, TrackStays, AskedStays DEF ParcelsInv, AskedHolds
  <2> QED
    BY <1>1, <2>1, <2>2 DEF ParcelsInv
<1>9. CASE Parcels!Back
  <2>1. /\ page' = "book" /\ b' = b /\ t' = Parcels!NewDeliveries /\ polls' = {}
        /\ asked' \subseteq asked
    BY <1>9 DEF Parcels!Back
  <2>2. TrackHolds'
    BY <2>1 DEF TrackHolds, Parcels!NewDeliveries, Parcels!NoRows, Parcels!List,
      Parcels!Deliveries, Parcels!Page, Parcels!NoPage, Known, Opened
  <2> QED
    BY <1>1, <1>3, <2>1, <2>2, TrackStep
<1> QED
  BY <1>4, <1>5, <1>6, <1>7, <1>8, <1>9 DEF Parcels!Lists

(* The sheet's taps.                                                       *)
LEMMA SheetTaps ==
  ASSUME ParcelsInv,
         \/ Parcels!CloseSheet \/ Parcels!FetchOtp \/ Parcels!TapStar \/ Parcels!OpenComplaint
         \/ Parcels!CancelComplaint \/ Parcels!HandleRateDelivery
         \/ Parcels!HandleFileParcelComplaint \/ Parcels!HandlePay \/ Parcels!ConfirmPayment
         \/ Parcels!TapPaid \/ \E p \in Parcels!Parcel : Parcels!OpenDetail(p)
  PROVE  ParcelsInv'
<1>1. srv' = srv /\ ServerHolds' /\ Grows /\ UNCHANGED <<page, b>>
  BY ServerStays DEF ParcelsInv, Parcels!CloseSheet, Parcels!FetchOtp, Parcels!TapStar,
    Parcels!OpenComplaint, Parcels!CancelComplaint, Parcels!HandleRateDelivery,
    Parcels!HandleFileParcelComplaint, Parcels!HandlePay, Parcels!ConfirmPayment, Parcels!TapPaid,
    Parcels!OpenDetail, Parcels!Desk
<1>2. t \in Parcels!Deliveries /\ (t.sheet = "open" => t.sel # None)
      /\ (t.sel # None => There(t.sel)) /\ Opened(t.page)
  BY DEF ParcelsInv, TrackHolds
<1>3. asked \subseteq Parcels!Asked /\ page \in {"book", "track", "crashed"}
  BY DEF ParcelsInv, AskedHolds
<1>4. polls' \subseteq polls \cup {Parcels!Listed(srv)}
  BY DEF Parcels!CloseSheet, Parcels!FetchOtp, Parcels!TapStar, Parcels!OpenComplaint,
    Parcels!CancelComplaint, Parcels!HandleRateDelivery, Parcels!HandleFileParcelComplaint,
    Parcels!HandlePay, Parcels!ConfirmPayment, Parcels!TapPaid, Parcels!OpenDetail, Parcels!Desk
<1>5. TrackHolds'
  <2>1. \/ t' = [t EXCEPT !.sheet = "closed", !.code = None]
        \/ t' = [t EXCEPT !.code = t.sel]
        \/ \E x \in {"none", "star", "rating", "text", "filing"} : t' = [t EXCEPT !.desk = x]
        \/ t' = [t EXCEPT !.paying = TRUE]
        \/ t' = [t EXCEPT !.page.shut = TRUE]
        \/ t' = [t EXCEPT !.alert = FALSE]
        \/ t' = [t EXCEPT !.sheet = "loading", !.desk = "none", !.code = None]
    BY DEF Parcels!CloseSheet, Parcels!FetchOtp, Parcels!TapStar, Parcels!OpenComplaint,
      Parcels!CancelComplaint, Parcels!HandleRateDelivery, Parcels!HandleFileParcelComplaint,
      Parcels!HandlePay, Parcels!ConfirmPayment, Parcels!TapPaid, Parcels!OpenDetail, Parcels!Desk
  <2>2. CASE t' = [t EXCEPT !.page.shut = TRUE]
    <3>1. \A w \in Parcels!Page : [w EXCEPT !.shut = TRUE] \in Parcels!Page
      BY DEF Parcels!Page
    <3>2. t' \in Parcels!Deliveries /\ t'.page.shut
      BY <1>2, <2>2, <3>1 DEF Parcels!Deliveries, Parcels!Page
    <3>3. t'.rows = t.rows /\ t'.sel = t.sel /\ t'.sheet = t.sheet
      BY <1>2, <2>2 DEF Parcels!Deliveries
    <3> QED
      BY <1>1, <1>2, <3>2, <3>3, TrackWritten
  <2>3. CASE t' = [t EXCEPT !.code = t.sel]
    BY <1>1, <1>2, <2>3, TrackWritten DEF Parcels!Deliveries
  <2> QED
    BY <1>1, <1>2, <2>1, <2>2, <2>3, TrackWritten DEF Parcels!Deliveries
<1>6. \/ asked' = asked
      \/ \E x \in {"detail", "pay", "rate", "complain", "verify"}, p \in Parcels!Parcel :
           There(p) /\ asked' = asked \cup {<<x, p>>}
  <2>1. ASSUME NEW p \in Parcels!Parcel, Parcels!OpenDetail(p)
        PROVE  There(p) /\ asked' = asked \cup {<<"detail", p>>}
    BY <2>1 DEF Parcels!OpenDetail, Parcels!ActiveList, ParcelsInv, TrackHolds, Known, There,
      Parcels!Parcel
  <2>2. CASE Parcels!ConfirmPayment
    BY <1>2, <2>2 DEF Parcels!ConfirmPayment, Opened, There
  <2>3. CASE Parcels!HandleRateDelivery \/ Parcels!HandleFileParcelComplaint \/ Parcels!HandlePay
    <3>1. t.sheet = "open"
      BY <2>3 DEF Parcels!HandleRateDelivery, Parcels!HandleFileParcelComplaint, Parcels!HandlePay,
        Parcels!Sheet
    <3>2. There(t.sel) /\ t.sel \in Parcels!Parcel
      BY <1>2, <3>1 DEF There
    <3> QED
      BY <2>3, <3>2 DEF Parcels!HandleRateDelivery, Parcels!HandleFileParcelComplaint,
        Parcels!HandlePay
  <2> QED
    BY <2>1, <2>2, <2>3 DEF Parcels!CloseSheet, Parcels!FetchOtp, Parcels!TapStar,
      Parcels!OpenComplaint, Parcels!CancelComplaint, Parcels!TapPaid
<1>7. asked' \subseteq Parcels!Asked /\ \A q \in asked' : q \in asked \/ There(q[2])
  <2>1. ASSUME NEW x \in {"detail", "pay", "rate", "complain", "verify"}, NEW p \in Parcels!Parcel,
               There(p), asked' = asked \cup {<<x, p>>}
        PROVE  asked' \subseteq Parcels!Asked /\ \A q \in asked' : q \in asked \/ There(q[2])
    <3>1. <<x, p>> \in Parcels!Asked /\ <<x, p>>[2] = p
      BY DEF Parcels!Asked
    <3> QED
      BY <1>3, <2>1, <3>1
  <2> QED
    BY <1>3, <1>6, <2>1
<1> QED
  BY <1>1, <1>3, <1>4, <1>5, <1>7, TrackStep

(* What the sheet asked about is there, and answers take the request away. *)
LEMMA AnswerTaken ==
  ASSUME ParcelsInv, NEW x, NEW p \in Parcels!Parcel, Parcels!Answer(x, p)
  PROVE  /\ There(p) /\ UNCHANGED <<page, b>> /\ asked' \subseteq asked
         /\ asked' \subseteq Parcels!Asked
<1>1. <<x, p>> \in asked /\ <<x, p>>[2] = p
  BY DEF Parcels!Answer
<1> QED
  BY <1>1 DEF Parcels!Answer, ParcelsInv, AskedHolds

(* A detail, a rating, a complaint, a page to pay in.                      *)
LEMMA SheetAnswers ==
  ASSUME ParcelsInv, NEW p \in Parcels!Parcel, NEW ok \in BOOLEAN,
         \/ Parcels!DetailAnswer(p, ok) \/ Parcels!RateAnswer(p, ok)
         \/ Parcels!ComplainAnswer(p, ok) \/ Parcels!PayAnswer(p, ok)
  PROVE  ParcelsInv'
<1>1. /\ There(p) /\ UNCHANGED <<page, b, polls>>
      /\ asked' \subseteq asked /\ asked' \subseteq Parcels!Asked
  BY AnswerTaken DEF Parcels!DetailAnswer, Parcels!RateAnswer, Parcels!ComplainAnswer,
    Parcels!PayAnswer
<1>2. t \in Parcels!Deliveries /\ (t.sheet = "open" => t.sel # None) /\ p # None
  BY AppAssumption DEF ParcelsInv, TrackHolds, Parcels!Parcel
<1>3. srv' = srv \/ srv' = [srv EXCEPT ![p].rated = TRUE]
  BY DEF Parcels!DetailAnswer, Parcels!RateAnswer, Parcels!ComplainAnswer, Parcels!PayAnswer
<1>4. ServerHolds' /\ Grows
  BY <1>1, <1>3, ServerStays, ServerTouched DEF ParcelsInv, There
<1>5. TrackHolds'
  <2>1. CASE Parcels!DetailAnswer(p, ok) /\ ok
    <3> DEFINE z == [status |-> srv[p].status, paid |-> srv[p].paid]
               u == IF t.sheet = "loading" THEN "open" ELSE t.sheet
    <3>1. srv[p] \in Parcels!Row
      BY <1>1 DEF ParcelsInv, ServerHolds, There
    <3>2. z \in Parcels!Shown /\ srv[p].rated \in BOOLEAN
      BY <3>1 DEF Parcels!Row, Parcels!Shown
    <3>3. t' = [t EXCEPT !.sheet = u, !.sel = p, !.row = z, !.rated = srv[p].rated]
      BY <1>2, <2>1 DEF Parcels!DetailAnswer
    <3>4. u \in {"closed", "loading", "open"}
      BY <1>2 DEF Parcels!Deliveries
    <3> HIDE DEF z, u
    <3> QED
      BY <1>1, <1>2, <1>4, <3>2, <3>3, <3>4, TrackWritten DEF Parcels!Deliveries
  <2>2. CASE Parcels!DetailAnswer(p, ok) /\ ~ok
    BY <1>2, <1>4, <2>2, TrackWritten DEF Parcels!DetailAnswer, Parcels!Deliveries
  <2>3. CASE Parcels!RateAnswer(p, ok)
    <3>1. \E x \in {"none", "star", t.desk}, y \in BOOLEAN : t' = [t EXCEPT !.rated = y, !.desk = x]
      <4>1. PICK y \in BOOLEAN : t' = [t EXCEPT !.rated = @ \/ y,
                 !.desk = IF @ # "rating" THEN @ ELSE IF y THEN "none" ELSE "star"]
        BY <2>3 DEF Parcels!RateAnswer
      <4>2. \E x \in {"none", "star", t.desk} :
              x = IF t.desk # "rating" THEN t.desk ELSE IF y THEN "none" ELSE "star"
        OBVIOUS
      <4>3. (t.rated \/ y) \in BOOLEAN
        OBVIOUS
      <4> QED
        BY <4>1, <4>2, <4>3, Zenon
    <3> QED
      BY <1>2, <1>4, <3>1, TrackWritten DEF Parcels!Deliveries
  <2>4. CASE Parcels!ComplainAnswer(p, ok)
    <3>1. \E x \in {"filed", "text", t.desk} : t' = [t EXCEPT !.desk = x]
      BY <2>4 DEF Parcels!ComplainAnswer
    <3> QED
      BY <1>2, <1>4, <3>1, TrackWritten DEF Parcels!Deliveries
  <2>5. CASE Parcels!PayAnswer(p, ok)
    <3>1. Parcels!PageOf(p) \in Parcels!Page /\ Parcels!PageOf(p).ref = p
      BY DEF Parcels!PageOf, Parcels!Page
    <3>2. CASE t' = [t EXCEPT !.paying = FALSE]
      BY <1>2, <1>4, <3>2, TrackWritten DEF Parcels!Deliveries
    <3>3. CASE t' = [t EXCEPT !.paying = FALSE, !.sheet = "closed", !.code = None,
                              !.page = Parcels!PageOf(p)]
      <4>1. /\ t' \in Parcels!Deliveries /\ t'.page = Parcels!PageOf(p) /\ t'.rows = t.rows
            /\ t'.sel = t.sel /\ t'.sheet = "closed"
        BY <1>2, <3>1, <3>3 DEF Parcels!Deliveries
      <4> QED
        BY <1>1, <1>4, <3>1, <4>1, TrackWritten
    <3> QED
      BY <2>5, <3>2, <3>3 DEF Parcels!PayAnswer
  <2> QED
    BY <2>1, <2>2, <2>3, <2>4, <2>5
<1> QED
  BY <1>1, <1>4, <1>5, TrackStep DEF ParcelsInv

(* The answer about a page of My Deliveries that was confirmed.            *)
LEMMA PageAnswered ==
  ASSUME ParcelsInv, NEW p \in Parcels!Parcel, NEW ok \in BOOLEAN, Parcels!PaymentVerified(p, ok)
  PROVE  ParcelsInv'
<1>1. /\ There(p) /\ UNCHANGED <<page, b>>
      /\ asked' \subseteq asked /\ asked' \subseteq Parcels!Asked
  BY AnswerTaken DEF Parcels!PaymentVerified
<1>2. ServerHolds' /\ Grows
  BY <1>1, ServerSettled DEF Parcels!PaymentVerified, ParcelsInv, There
<1>3. /\ t' = t \/ t' = [t EXCEPT !.alert = TRUE]
      /\ polls' \subseteq polls \cup {Parcels!Listed(srv)}
  BY DEF Parcels!PaymentVerified
<1>4. t \in Parcels!Deliveries /\ (t.sheet = "open" => t.sel # None)
  BY DEF ParcelsInv, TrackHolds
<1>5. TrackHolds'
  BY <1>2, <1>3, <1>4, TrackStays, TrackWritten DEF Parcels!Deliveries, ParcelsInv
<1> QED
  BY <1>1, <1>2, <1>3, <1>5, TrackStep DEF ParcelsInv

(* Every step keeps the invariant.                                         *)
LEMMA ParcelsSteps == ParcelsInv /\ [Parcels!Next]_Parcels!vars => ParcelsInv'
<1> SUFFICES ASSUME ParcelsInv, [Parcels!Next]_Parcels!vars PROVE ParcelsInv'
  OBVIOUS
<1>1. CASE UNCHANGED Parcels!vars
  <2>1. UNCHANGED <<srv, page, b, t, polls, asked>>
    BY <1>1 DEF Parcels!vars
  <2> QED
    BY <2>1, FormOnly, ServerStays, BookStays DEF ParcelsInv
<1>2. CASE Parcels!Book
  BY <1>2, FormTexts, FormPickers, FormSent, BookingAnswered, BookingClosed DEF Parcels!Book
<1>3. CASE Parcels!Details
  BY <1>3, SheetTaps, SheetAnswers, PageAnswered DEF Parcels!Details
<1> QED
  BY <1>1, <1>2, <1>3, ListSteps, ServerMoves, PagesLoad DEF Parcels!Next, Parcels!Pages

(* What the screens hold of a delivery is of one the server has, and the   *)
(* form's region fits its country, throughout.                             *)
THEOREM ParcelsInvariance == Parcels!Spec => []ParcelsInv
BY ParcelsBegin, ParcelsSteps, PTL DEF Parcels!Spec

(* A page that is open is shut by the steps that ask about it, or by the   *)
(* app's end.                                                              *)
LEMMA PagesAsk ==
  ASSUME ParcelsInv, Parcels!Next, page # "crashed"
  PROVE  /\ ~b.page.shut /\ b'.page.shut => <<"verify booked", b.page.ref>> \in asked'
         /\ ~t.page.shut /\ t'.page.shut => <<"verify", t.page.ref>> \in asked'
<1>1. b \in Parcels!Booking /\ b.page \in Parcels!Page
  BY DEF ParcelsInv, BookHolds, Parcels!Booking
<1>2. t \in Parcels!Deliveries /\ t.page \in Parcels!Page
  BY DEF ParcelsInv, TrackHolds, Parcels!Deliveries
<1>3. ASSUME ~b.page.shut, b'.page.shut PROVE Parcels!ConfirmBooked
  <2>1. ~Parcels!Free /\ b' # b /\ b'.page # b.page
    BY <1>3 DEF Parcels!Free
  <2>2. ~Parcels!Server /\ ~Parcels!Details /\ ~(\E p \in Parcels!Parcel : Parcels!PayInPage(p))
    BY <2>1 DEF Parcels!Server, Parcels!Progress, Parcels!Webhook, Parcels!PayInPage,
      Parcels!Details, Parcels!CloseSheet, Parcels!FetchOtp, Parcels!TapStar,
      Parcels!OpenComplaint, Parcels!CancelComplaint, Parcels!HandleRateDelivery,
      Parcels!HandleFileParcelComplaint, Parcels!HandlePay, Parcels!ConfirmPayment,
      Parcels!TapPaid, Parcels!OpenDetail, Parcels!Desk, Parcels!DetailAnswer,
      Parcels!RateAnswer, Parcels!ComplainAnswer, Parcels!PayAnswer, Parcels!PaymentVerified,
      Parcels!Answer
  <2>3. ~Parcels!Lists /\ ~Parcels!Reopen /\ ~Parcels!PageLoads
    <3>1. ~Parcels!Lists /\ ~Parcels!Reopen
      BY <2>1 DEF Parcels!Lists, Parcels!FetchAll, Parcels!OnRefresh, Parcels!NewOne, Parcels!Back,
        Parcels!PollAnswer, Parcels!SetTab, Parcels!Listing, Parcels!Track, Parcels!Reopen
    <3>2. ~Parcels!PageLoads
      BY <1>1, <1>3 DEF Parcels!PageLoads, Parcels!Booking, Parcels!Page
    <3> QED
      BY <3>1, <3>2
  <2>4. CASE Parcels!Book
    <3>1. ~(\E ok \in BOOLEAN : Parcels!LocationAnswer(ok)) /\ ~Parcels!TapOK /\ ~Parcels!RequestFails
      BY <1>1, <2>1 DEF Parcels!LocationAnswer, Parcels!TapOK, Parcels!RequestFails, Parcels!Booking
    <3>2. ~(\E ok \in BOOLEAN : \E p \in Parcels!Parcel : Parcels!RequestAnswer(p, ok))
      <4>1. ASSUME NEW p \in Parcels!Parcel, b' = [b EXCEPT !.sent = None, !.page = Parcels!PageOf(p)]
            PROVE  ~b'.page.shut
        <5>1. b'.page = Parcels!PageOf(p)
          BY <1>1, <4>1 DEF Parcels!Booking
        <5> QED
          BY <5>1 DEF Parcels!PageOf
      <4> QED
        BY <1>1, <1>3, <2>1, <4>1 DEF Parcels!RequestAnswer, Parcels!Booking
    <3>3. ~(\E p \in Parcels!Parcel, ok \in BOOLEAN : Parcels!BookedVerified(p, ok))
      BY <1>1, <2>1 DEF Parcels!BookedVerified, Parcels!Booking
    <3> QED
      BY <2>1, <2>4, <3>1, <3>2, <3>3 DEF Parcels!Book, Parcels!TypePickup, Parcels!FillIn,
        Parcels!ClosePicker, Parcels!HandleRequest, Parcels!History, Parcels!SetPayerType,
        Parcels!OpenPicker, Parcels!PickCountry, Parcels!PickRegion, Parcels!TypeRegion,
        Parcels!Edit, Parcels!Form
  <2> QED
    BY <2>2, <2>3, <2>4 DEF Parcels!Next, Parcels!Pages
<1>4. ASSUME ~t.page.shut, t'.page.shut PROVE Parcels!ConfirmPayment
  <2>1. ~Parcels!Free /\ t' # t /\ t'.page # t.page
    BY <1>4 DEF Parcels!Free
  <2>2. ~Parcels!Server /\ ~(\E p \in Parcels!Parcel : Parcels!PayInPage(p)) /\ ~Parcels!Reopen
    BY <2>1 DEF Parcels!Server, Parcels!Progress, Parcels!Webhook, Parcels!PayInPage, Parcels!Reopen
  <2>3. ~Parcels!Book
    BY <1>4, <2>1 DEF Parcels!Book, Parcels!LocationAnswer, Parcels!RequestAnswer,
      Parcels!TypePickup, Parcels!FillIn, Parcels!ClosePicker, Parcels!HandleRequest,
      Parcels!RequestFails, Parcels!TapOK, Parcels!History, Parcels!SetPayerType,
      Parcels!OpenPicker, Parcels!PickCountry, Parcels!PickRegion, Parcels!TypeRegion,
      Parcels!ConfirmBooked, Parcels!BookedVerified, Parcels!Idle, Parcels!Stay, Parcels!ToTrack
  <2>4. ~Parcels!PageLoads
    BY <1>2, <1>4 DEF Parcels!PageLoads, Parcels!Deliveries, Parcels!Page
  <2>5. ~Parcels!Lists
    <3>1. ~(\E l \in polls, ok \in BOOLEAN : Parcels!PollAnswer(l, ok))
      BY <1>2, <2>1 DEF Parcels!PollAnswer, Parcels!Render, Parcels!Deliveries
    <3> QED
      BY <2>1, <3>1 DEF Parcels!Lists, Parcels!FetchAll, Parcels!OnRefresh, Parcels!NewOne,
        Parcels!Back, Parcels!SetTab, Parcels!Listing, Parcels!Track
  <2>6. CASE Parcels!Details
    <3>1. ~Parcels!CloseSheet /\ ~Parcels!FetchOtp /\ ~Parcels!TapStar /\ ~Parcels!OpenComplaint
      BY <2>1 DEF Parcels!CloseSheet, Parcels!FetchOtp, Parcels!TapStar, Parcels!OpenComplaint,
        Parcels!Sheet, Parcels!Track
    <3>2. /\ ~Parcels!CancelComplaint /\ ~Parcels!HandleRateDelivery
          /\ ~Parcels!HandleFileParcelComplaint /\ ~Parcels!HandlePay
      BY <2>1 DEF Parcels!CancelComplaint, Parcels!HandleRateDelivery,
        Parcels!HandleFileParcelComplaint, Parcels!HandlePay, Parcels!Sheet, Parcels!Track
    <3>3. ~Parcels!TapPaid /\ ~(\E p \in Parcels!Parcel : Parcels!OpenDetail(p))
      BY <1>2, <2>1 DEF Parcels!TapPaid, Parcels!OpenDetail, Parcels!Deliveries
    <3>4. ~(\E p \in Parcels!Parcel, ok \in BOOLEAN :
              Parcels!DetailAnswer(p, ok) \/ Parcels!RateAnswer(p, ok)
              \/ Parcels!ComplainAnswer(p, ok) \/ Parcels!PaymentVerified(p, ok))
      BY <1>2, <2>1 DEF Parcels!DetailAnswer, Parcels!RateAnswer, Parcels!ComplainAnswer,
        Parcels!PaymentVerified, Parcels!Deliveries
    <3>5. ~(\E p \in Parcels!Parcel, ok \in BOOLEAN : Parcels!PayAnswer(p, ok))
      <4>1. ASSUME NEW p \in Parcels!Parcel,
                   t' = [t EXCEPT !.paying = FALSE, !.sheet = "closed", !.code = None,
                                  !.page = Parcels!PageOf(p)]
            PROVE  ~t'.page.shut
        <5>1. t'.page = Parcels!PageOf(p)
          BY <1>2, <4>1 DEF Parcels!Deliveries
        <5> QED
          BY <5>1 DEF Parcels!PageOf
      <4> QED
        BY <1>2, <1>4, <2>1, <4>1 DEF Parcels!PayAnswer, Parcels!Deliveries
    <3> QED
      BY <2>6, <3>1, <3>2, <3>3, <3>4, <3>5 DEF Parcels!Details
  <2> QED
    BY <2>2, <2>3, <2>4, <2>5, <2>6 DEF Parcels!Next, Parcels!Pages
<1> QED
  BY <1>3, <1>4 DEF Parcels!ConfirmBooked, Parcels!ConfirmPayment

-----------------------------------------------------------------------------
(* SignIn.  A sign-up code's row goes away where a new code is on its way, *)
(* where its email is verified with it, or with a new password, which      *)
(* verifies too; a reset code was asked for by an account that is there.   *)

AccountRow ==
  [is : BOOLEAN, verified : BOOLEAN, proved : BOOLEAN, fails : 0 .. MaxFails, locked : BOOLEAN]

AccountTypes ==
  /\ acct \in AccountRow
  /\ row \in [code : Account!Codes, wrong : 0 .. MaxWrong, old : BOOLEAN]
  /\ reset \in [code : Account!Codes, wrong : 0 .. MaxWrong, used : BOOLEAN]
  /\ mail \in [sent : Account!Codes, lost : BOOLEAN, faults : 0 .. MaxFaults]

AppTypes ==
  a \in [screen : {"login", "register", "verify", "forgot", "reset", "home"}, signup : BOOLEAN,
         typed : Account!Codes \cup {Account!Wrong}, token : Account!Codes, in : BOOLEAN]

(* Whoever has a code has an account, and whoever a call goes on for.      *)
HasAccount ==
  /\ acct.verified => acct.is
  /\ reset.code # 0 \/ reset.used => acct.is
  /\ row.code # 0 => acct.is

CallHolds(c) ==
  /\ c \in Account!Call
  /\ c.at \notin {"start", "end"} => acct.is
  /\ c.at = "clear" => acct.proved
  /\ c.kind = "check" => \/ c.at = "start"
                         \/ c.at = "end" /\ (c.out = "ok" => c.code # Account!Wrong)

AccountInv ==
  /\ AccountTypes /\ AppTypes /\ HasAccount /\ \A c \in requests : CallHolds(c)
  /\ Account!UnverifiedIsPending

(* The bounds, and the ranges of numbers they give.                        *)
LEMMA AccountBounds ==
  /\ MaxCodes \in Nat /\ MaxWrong \in Nat \ {0} /\ MaxFails \in Nat \ {0} /\ MaxFaults \in Nat
  /\ 0 \in Account!Codes /\ 0 \in 0 .. MaxWrong /\ 0 \in 0 .. MaxFails /\ 0 \in 0 .. MaxFaults
  /\ Account!NoRow \in [code : Account!Codes, wrong : 0 .. MaxWrong, old : BOOLEAN]
  /\ Account!NoReset \in [code : Account!Codes, wrong : 0 .. MaxWrong, used : BOOLEAN]
  /\ Account!NoRow.code = 0 /\ Account!NoReset.code = 0 /\ ~Account!NoReset.used
<1>1. /\ MaxCodes \in Nat /\ MaxWrong \in Nat \ {0} /\ MaxFails \in Nat \ {0} /\ MaxFaults \in Nat
  BY AppAssumption
<1>2. 0 \in Account!Codes /\ 0 \in 0 .. MaxWrong /\ 0 \in 0 .. MaxFails /\ 0 \in 0 .. MaxFaults
  BY <1>1 DEF Account!Codes
<1> QED
  BY <1>1, <1>2 DEF Account!NoRow, Account!NoReset

(* No account, no code, no call at first.                                  *)
LEMMA AccountBegins == Account!Init => AccountInv
<1> SUFFICES ASSUME Account!Init PROVE AccountInv
  OBVIOUS
<1>1. AccountTypes /\ AppTypes
  BY AccountBounds DEF Account!Init, Account!NoRow, Account!NoReset, AccountRow, AccountTypes, AppTypes
<1> QED
  BY <1>1 DEF Account!Init, Account!NoRow, Account!NoReset, AccountInv, HasAccount,
    Account!UnverifiedIsPending

(* A handler's answer, the last of its statements.                         *)
LEMMA CallAnswered ==
  ASSUME NEW c \in Account!Call, NEW out \in {"ok", "verify", "refused"},
         c.kind = "check" /\ out = "ok" => c.code # Account!Wrong,
         Account!Answer(c, out)
  PROVE  \A d \in requests' : d \in requests \/ CallHolds(d)'
<1> DEFINE e == [c EXCEPT !.at = "end", !.out = out, !.fails = 0, !.known = FALSE]
<1>1. /\ e \in Account!Call /\ e.at = "end" /\ e.out = out /\ e.kind = c.kind
      /\ e.code = c.code
  BY AccountBounds DEF Account!Call
<1>2. requests' = (requests \ {c}) \cup {e}
  BY DEF Account!Answer
<1> HIDE DEF e
<1> QED
  BY <1>1, <1>2 DEF CallHolds

(* A handler goes on to its next statement, for an account that is there.  *)
LEMMA CallMoves ==
  ASSUME NEW c \in Account!Call, c.kind # "check", acct'.is,
         NEW x \in {"renew", "send", "pending", "enter", "clear", "drop", "issue", "hit", "miss"},
         x = "clear" => acct'.proved, NEW z \in 0 .. MaxFails, NEW y \in BOOLEAN,
         requests' = (requests \ {c}) \cup {[c EXCEPT !.at = x]}
           \/ requests' = (requests \ {c}) \cup {[c EXCEPT !.at = x, !.fails = z, !.known = y]}
  PROVE  /\ \A d \in requests' : d \in requests \/ CallHolds(d)'
         /\ \E d \in requests' : d.at = x
<1>1. PICK e \in Account!Call :
        e.at = x /\ e.kind = c.kind /\ requests' = (requests \ {c}) \cup {e}
  <2>1. [c EXCEPT !.at = x] \in Account!Call /\ [c EXCEPT !.at = x].at = x
        /\ [c EXCEPT !.at = x].kind = c.kind
    BY DEF Account!Call
  <2> DEFINE e == [c EXCEPT !.at = x, !.fails = z, !.known = y]
  <2>2. e \in Account!Call /\ e.at = x /\ e.kind = c.kind
    BY DEF Account!Call
  <2> HIDE DEF e
  <2>3. requests' = (requests \ {c}) \cup {[c EXCEPT !.at = x]} \/ requests' = (requests \ {c}) \cup {e}
    BY DEF e
  <2> QED
    BY <2>1, <2>2, <2>3
<1> QED
  BY <1>1 DEF CallHolds

(* What stays of the calls fits an account that is still there.            *)
LEMMA CallsStay ==
  ASSUME AccountInv, acct.is => acct'.is, acct.proved => acct'.proved,
         \A d \in requests' : d \in requests \/ CallHolds(d)'
  PROVE  \A d \in requests' : CallHolds(d)'
BY DEF AccountInv, CallHolds

(* A row that stays, or an account that is proved, keeps the promise.      *)
LEMMA PendingStays ==
  ASSUME AccountInv,
         \/ ~acct'.is \/ acct'.proved
         \/ row'.code # 0 \/ mail'.lost
         \/ \E c \in requests' : c.at \in {"renew", "send"}
  PROVE  Account!UnverifiedIsPending'
BY DEF Account!UnverifiedIsPending, Account!Issuing

(* A step of a call that issues nothing keeps the issuing of the others.   *)
LEMMA IssuingStays ==
  ASSUME AccountInv, NEW c \in requests, NEW e, c.at \notin {"renew", "send"},
         requests' = (requests \ {c}) \cup {e}, acct'.is => acct.is,
         acct.proved => acct'.proved, row.code # 0 => row'.code # 0, mail.lost => mail'.lost
  PROVE  Account!UnverifiedIsPending'
BY DEF AccountInv, Account!UnverifiedIsPending, Account!Issuing

(* Signing up, and the code that is stored and sent.                       *)
LEMMA SigningUp ==
  ASSUME AccountInv, a' = a, NEW c \in requests,
         \/ Account!Register(c) \/ Account!Renew(c) \/ \E ok \in BOOLEAN : Account!StoreAndSend(c, ok)
  PROVE  AccountInv'
<1>1. c \in Account!Call /\ AccountTypes /\ HasAccount /\ CallHolds(c) /\ AppTypes'
  BY DEF AccountInv, CallHolds, AppTypes
<1>2. CASE Account!Register(c)
  <2>1. UNCHANGED <<row, reset, mail>> /\ c.kind = "register" /\ c.at = "start"
    BY <1>2 DEF Account!Register
  <2>2. CASE acct.is /\ Account!Answer(c, "refused") /\ acct' = acct
    <3>1. \A d \in requests' : CallHolds(d)'
      BY <1>1, <2>1, <2>2, CallAnswered, CallsStay
    <3>2. Account!UnverifiedIsPending'
      BY <2>1, <2>2, IssuingStays DEF Account!Answer
    <3> QED
      BY <1>1, <2>1, <2>2, <3>1, <3>2 DEF AccountInv, AccountRow, AccountTypes, HasAccount
  <2>3. CASE acct' = [acct EXCEPT !.is = TRUE] /\ Account!To(c, "renew")
    <3>1. acct'.is /\ acct' \in AccountRow /\ acct'.proved = acct.proved
      BY <1>1, <2>3 DEF AccountRow, AccountTypes
    <3>2. /\ \A d \in requests' : d \in requests \/ CallHolds(d)'
          /\ \E d \in requests' : d.at = "renew"
      BY <1>1, <2>1, <2>3, <3>1, CallMoves, Zenon DEF Account!To, CallHolds, Account!Call
    <3>3. \A d \in requests' : CallHolds(d)'
      BY <3>1, <3>2, CallsStay
    <3> QED
      BY <1>1, <2>1, <3>1, <3>2, <3>3, PendingStays DEF AccountInv, AccountRow, AccountTypes, HasAccount
  <2> QED
    BY <1>2, <2>2, <2>3 DEF Account!Register
<1>3. CASE Account!Renew(c)
  <2>1. /\ row' = Account!NoRow /\ Account!To(c, "send") /\ UNCHANGED <<acct, reset, mail>>
        /\ acct.is /\ c.kind # "check"
    BY <1>1, <1>3 DEF Account!Renew, CallHolds
  <2>2. /\ \A d \in requests' : d \in requests \/ CallHolds(d)'
        /\ \E d \in requests' : d.at = "send"
    BY <1>1, <2>1, CallMoves, AccountBounds DEF Account!To
  <2>3. \A d \in requests' : CallHolds(d)'
    BY <2>1, <2>2, CallsStay
  <2>4. row' \in [code : Account!Codes, wrong : 0 .. MaxWrong, old : BOOLEAN] /\ row'.code = 0
    BY <2>1, AccountBounds
  <2> QED
    BY <1>1, <2>1, <2>2, <2>3, <2>4, PendingStays DEF AccountInv, AccountRow, AccountTypes, HasAccount
<1>4. ASSUME NEW ok \in BOOLEAN, Account!StoreAndSend(c, ok)
      PROVE  AccountInv'
  <2>1. UNCHANGED <<acct, reset>> /\ acct.is /\ c.kind # "check"
    BY <1>1, <1>4 DEF Account!StoreAndSend, CallHolds
  <2>2. \E out \in {"ok", "verify", "refused"} : Account!Answer(c, out)
    BY <1>4 DEF Account!StoreAndSend, Account!Sent
  <2>3. \A d \in requests' : CallHolds(d)'
    BY <1>1, <2>1, <2>2, CallAnswered, CallsStay
  <2>4. CASE ok
    <3>1. /\ mail.sent < MaxCodes /\ mail' = [mail EXCEPT !.sent = @ + 1, !.lost = FALSE]
          /\ row' = [Account!NoRow EXCEPT !.code = mail'.sent]
      BY <1>4, <2>4 DEF Account!StoreAndSend
    <3>2. /\ mail' \in [sent : Account!Codes, lost : BOOLEAN, faults : 0 .. MaxFaults]
          /\ mail'.sent # 0
      <4>1. mail.sent + 1 \in Account!Codes /\ mail.sent + 1 # 0
        BY <1>1, <3>1, AccountBounds DEF AccountRow, AccountTypes, Account!Codes
      <4> QED
        BY <1>1, <3>1, <4>1 DEF AccountRow, AccountTypes
    <3>3. /\ row' \in [code : Account!Codes, wrong : 0 .. MaxWrong, old : BOOLEAN]
          /\ row'.code # 0
      BY <3>1, <3>2, AccountBounds
    <3> QED
      BY <1>1, <2>1, <2>3, <3>2, <3>3, PendingStays DEF AccountInv, AccountRow, AccountTypes, HasAccount
  <2>5. CASE ~ok
    <3>1. /\ mail.faults < MaxFaults /\ row' = row
          /\ mail' = [mail EXCEPT !.faults = @ + 1, !.lost = TRUE]
      BY <1>4, <2>5 DEF Account!StoreAndSend
    <3>2. /\ mail' \in [sent : Account!Codes, lost : BOOLEAN, faults : 0 .. MaxFaults]
          /\ mail'.lost
      <4>1. mail.faults \in 0 .. MaxFaults /\ mail.faults + 1 \in 0 .. MaxFaults
        BY <1>1, <3>1, AccountBounds DEF AccountRow, AccountTypes
      <4> QED
        BY <1>1, <3>1, <4>1 DEF AccountRow, AccountTypes
    <3> QED
      BY <1>1, <2>1, <2>3, <3>1, <3>2, PendingStays DEF AccountInv, AccountRow, AccountTypes, HasAccount
  <2> QED
    BY <2>4, <2>5
<1> QED
  BY <1>2, <1>3, <1>4

(* Statements that neither touch a row nor issue a code keep the promise,  *)
(* and so do those that go on to issue one.                                *)
LEMMA Going ==
  ASSUME AccountInv, a' = a, NEW c \in requests, UNCHANGED <<row, mail>>, c.at \notin {"renew", "send"},
         acct' \in AccountRow,
         acct'.is = acct.is, acct'.verified = acct.verified, acct'.proved = acct.proved,
         reset' \in [code : Account!Codes, wrong : 0 .. MaxWrong, used : BOOLEAN],
         reset'.code # 0 \/ reset'.used => acct.is,
         \/ /\ c.kind # "check" /\ acct.is
            /\ \E x \in {"renew", "send", "pending", "enter", "drop", "issue", "hit", "miss"},
                  z \in 0 .. MaxFails, y \in BOOLEAN :
                 \/ requests' = (requests \ {c}) \cup {[c EXCEPT !.at = x]}
                 \/ requests' = (requests \ {c}) \cup {[c EXCEPT !.at = x, !.fails = z, !.known = y]}
         \/ \E out \in {"ok", "verify", "refused"} :
              /\ c.kind = "check" /\ out = "ok" => c.code # Account!Wrong
              /\ Account!Answer(c, out)
  PROVE  AccountInv'
<1>1. c \in Account!Call
  BY DEF AccountInv, CallHolds
<1>2. \A d \in requests' : d \in requests \/ CallHolds(d)'
  <2>1. ASSUME c.kind # "check", acct.is,
               NEW x \in {"renew", "send", "pending", "enter", "drop", "issue", "hit", "miss"},
               NEW z \in 0 .. MaxFails, NEW y \in BOOLEAN,
               requests' = (requests \ {c}) \cup {[c EXCEPT !.at = x]}
                 \/ requests' = (requests \ {c}) \cup {[c EXCEPT !.at = x, !.fails = z, !.known = y]}
        PROVE  \A d \in requests' : d \in requests \/ CallHolds(d)'
    BY <1>1, <2>1, CallMoves
  <2>2. ASSUME NEW out \in {"ok", "verify", "refused"}, Account!Answer(c, out),
               c.kind = "check" /\ out = "ok" => c.code # Account!Wrong
        PROVE  \A d \in requests' : d \in requests \/ CallHolds(d)'
    BY <1>1, <2>2, CallAnswered
  <2> QED
    BY <2>1, <2>2
<1>3. \A d \in requests' : CallHolds(d)'
  BY <1>2, CallsStay
<1>4. \E e : requests' = (requests \ {c}) \cup {e}
  BY DEF Account!Answer
<1>5. Account!UnverifiedIsPending'
  BY <1>4, IssuingStays
<1> QED
  BY <1>3, <1>5 DEF AccountInv, AccountRow, AccountTypes, HasAccount, AppTypes

(* Signing in, and asking for another sign-up code.                        *)
LEMMA SigningIn ==
  ASSUME AccountInv, a' = a, NEW c \in requests,
         \/ \E right \in BOOLEAN : Account!Login(c, right)
         \/ Account!Miss(c) \/ Account!Hit(c) \/ Account!LoginPending(c) \/ Account!Resend(c)
  PROVE  AccountInv'
<1>1. c \in Account!Call /\ AccountTypes /\ HasAccount /\ CallHolds(c)
  BY DEF AccountInv, CallHolds
<1>2. ASSUME NEW right \in BOOLEAN, Account!Login(c, right)
      PROVE  AccountInv'
  <2>1. c.kind = "login" /\ c.at = "start" /\ UNCHANGED <<acct, row, reset, mail>>
    BY <1>2 DEF Account!Login, Account!server
  <2>2. \/ Account!Answer(c, "refused")
        \/ acct.is /\ \E x \in {"hit", "miss"} : requests' = (requests \ {c}) \cup
             {[c EXCEPT !.at = x, !.fails = acct.fails, !.known = acct.verified]}
    BY <1>2 DEF Account!Login
  <2> QED
    BY <1>1, <2>1, <2>2, Going DEF AccountRow, AccountTypes, HasAccount
<1>3. CASE Account!Miss(c)
  <2>1. c.at = "miss" /\ Account!Answer(c, "refused") /\ UNCHANGED <<row, reset, mail>>
    BY <1>3 DEF Account!Miss
  <2>2. \/ acct' = [acct EXCEPT !.fails = MaxFails, !.locked = TRUE]
        \/ acct' = [acct EXCEPT !.fails = c.fails + 1] /\ c.fails + 1 < MaxFails
    <3>1. c.fails \in 0 .. MaxFails
      BY <1>1 DEF Account!Call
    <3> QED
      BY <1>3, <3>1, AccountBounds DEF Account!Miss
  <2>3. c.fails \in 0 .. MaxFails /\ MaxFails \in 0 .. MaxFails
    BY <1>1, AccountBounds DEF Account!Call
  <2>4. /\ acct' \in AccountRow
        /\ acct'.is = acct.is /\ acct'.verified = acct.verified
        /\ acct'.proved = acct.proved
    <3>1. CASE acct' = [acct EXCEPT !.fails = MaxFails, !.locked = TRUE]
      BY <1>1, <2>3, <3>1 DEF AccountRow, AccountTypes
    <3>2. CASE acct' = [acct EXCEPT !.fails = c.fails + 1] /\ c.fails + 1 < MaxFails
      <4>1. c.fails + 1 \in 0 .. MaxFails
        BY <2>3, <3>2, AccountBounds
      <4> QED
        BY <1>1, <3>2, <4>1 DEF AccountRow, AccountTypes
    <3> QED
      BY <2>2, <3>1, <3>2
  <2> QED
    BY <1>1, <2>1, <2>4, Going DEF AccountRow, AccountTypes, HasAccount
<1>4. CASE Account!Hit(c)
  <2>1. c.at = "hit" /\ UNCHANGED <<row, reset, mail>> /\ acct.is /\ c.kind # "check"
        /\ requests' = (requests \ {c}) \cup {[c EXCEPT !.at = "pending"]}
    BY <1>1, <1>4 DEF Account!Hit, Account!To, CallHolds
  <2>2. /\ acct' \in AccountRow
        /\ acct'.is = acct.is /\ acct'.verified = acct.verified
        /\ acct'.proved = acct.proved
    BY <1>1, <1>4, AccountBounds DEF Account!Hit, AccountRow, AccountTypes
  <2> QED
    BY <1>1, <2>1, <2>2, Going, AccountBounds DEF AccountRow, AccountTypes, HasAccount
<1>5. CASE Account!LoginPending(c) \/ Account!Resend(c)
  <2>1. /\ c.kind # "check" /\ c.at \in {"pending", "start"} /\ UNCHANGED <<acct, row, reset, mail>>
        /\ \/ Account!Answer(c, "ok")
           \/ requests' = (requests \ {c}) \cup {[c EXCEPT !.at = "renew"]} /\ acct.is
    BY <1>1, <1>5 DEF Account!LoginPending, Account!Resend, Account!To, Account!server, CallHolds
  <2> QED
    BY <1>1, <2>1, Going, AccountBounds DEF AccountRow, AccountTypes, HasAccount
<1> QED
  BY <1>2, <1>3, <1>4, <1>5

(* A sign-up code that is entered: a wrong one is counted, not deleted.    *)
LEMMA Entering ==
  ASSUME AccountInv, a' = a, NEW c \in requests,
         \/ Account!VerifyEmail(c) \/ Account!Clear(c) \/ \E ok \in BOOLEAN : Account!Enter(c, ok)
  PROVE  AccountInv'
<1>1. c \in Account!Call /\ AccountTypes /\ HasAccount /\ CallHolds(c) /\ AppTypes'
  BY DEF AccountInv, AppTypes, CallHolds
<1>2. CASE Account!VerifyEmail(c)
  <2>1. c.kind = "verify" /\ c.at = "start" /\ UNCHANGED <<acct, reset, mail>>
    BY <1>2 DEF Account!VerifyEmail
  <2>2. CASE row' = row
    <3>1. \/ Account!Answer(c, "refused")
          \/ requests' = (requests \ {c}) \cup {[c EXCEPT !.at = "enter"]} /\ acct.is
      BY <1>1, <1>2 DEF Account!VerifyEmail, Account!Void, Account!To, HasAccount
    <3> QED
      BY <1>1, <2>1, <2>2, <3>1, Going, AccountBounds DEF AccountRow, AccountTypes, HasAccount
  <2>3. CASE row' # row
    <3>1. /\ Account!Answer(c, "refused") /\ row' = [row EXCEPT !.wrong = @ + 1]
          /\ row.code # 0 /\ ~(row.wrong >= MaxWrong)
      BY <1>2, <2>3 DEF Account!VerifyEmail, Account!Void
    <3>2. row.wrong + 1 \in 0 .. MaxWrong
      BY <1>1, <3>1, AccountBounds DEF AccountRow, AccountTypes
    <3>3. /\ row' \in [code : Account!Codes, wrong : 0 .. MaxWrong, old : BOOLEAN]
          /\ row'.code = row.code
      BY <1>1, <3>1, <3>2 DEF AccountRow, AccountTypes
    <3>4. \A d \in requests' : CallHolds(d)'
      BY <1>1, <2>1, <3>1, CallAnswered, CallsStay
    <3> QED
      BY <1>1, <2>1, <3>1, <3>3, <3>4, PendingStays DEF AccountInv, AccountRow, AccountTypes, HasAccount
  <2> QED
    BY <2>2, <2>3
<1>3. ASSUME NEW ok \in BOOLEAN, Account!Enter(c, ok) PROVE AccountInv'
  <2>1. /\ acct' = [acct EXCEPT !.verified = acct.verified \/ ok, !.proved = TRUE]
        /\ Account!To(c, "clear") /\ UNCHANGED <<row, reset>> /\ acct.is /\ c.kind # "check"
    BY <1>1, <1>3 DEF Account!Enter, CallHolds
  <2>2. (acct.verified \/ ok) \in BOOLEAN
    OBVIOUS
  <2>3. acct' \in AccountRow /\ acct'.is /\ acct'.proved
    BY <1>1, <2>1, <2>2 DEF AccountRow, AccountTypes
  <2>4. \A d \in requests' : CallHolds(d)'
    BY <1>1, <2>1, <2>3, CallMoves, CallsStay, AccountBounds DEF Account!To
  <2>5. mail' \in [sent : Account!Codes, lost : BOOLEAN, faults : 0 .. MaxFaults]
    <3>1. CASE mail' = mail
      BY <1>1, <3>1 DEF AccountTypes
    <3>2. CASE mail.faults < MaxFaults /\ mail' = [mail EXCEPT !.faults = @ + 1]
      <4>1. mail.faults + 1 \in 0 .. MaxFaults
        BY <1>1, <3>2, AccountBounds DEF AccountTypes
      <4> QED
        BY <1>1, <3>2, <4>1 DEF AccountTypes
    <3> QED
      BY <1>3, <3>1, <3>2 DEF Account!Enter
  <2> QED
    BY <1>1, <2>1, <2>3, <2>4, <2>5, PendingStays DEF AccountInv, AccountTypes, HasAccount
<1>4. CASE Account!Clear(c)
  <2>1. /\ row' = Account!NoRow /\ Account!Answer(c, "ok") /\ UNCHANGED <<acct, reset, mail>>
        /\ acct.is /\ acct.proved /\ c.kind # "check"
    BY <1>1, <1>4 DEF Account!Clear, CallHolds
  <2>2. \A d \in requests' : CallHolds(d)'
    BY <1>1, <2>1, CallAnswered, CallsStay
  <2> QED
    BY <1>1, <2>1, <2>2, PendingStays, AccountBounds DEF AccountInv, AccountTypes, HasAccount
<1> QED
  BY <1>2, <1>3, <1>4

(* A new password: the code, its exchange for a token, and the password,   *)
(* which verifies the account it is for.                                   *)
LEMMA Resetting ==
  ASSUME AccountInv, a' = a, NEW c \in requests,
         \/ Account!ForgotPassword(c) \/ Account!DropReset(c) \/ Account!IssueReset(c)
         \/ Account!VerifyOTP(c) \/ Account!ResetPassword(c)
  PROVE  AccountInv'
<1>1. c \in Account!Call /\ AccountTypes /\ HasAccount /\ CallHolds(c) /\ AppTypes'
  BY DEF AccountInv, AppTypes, CallHolds
<1>2. CASE Account!ForgotPassword(c)
  <2>1. /\ c.kind # "check" /\ c.at = "start" /\ UNCHANGED <<acct, row, reset, mail>>
        /\ \/ Account!Answer(c, "ok")
           \/ requests' = (requests \ {c}) \cup {[c EXCEPT !.at = "drop"]} /\ acct.is
    BY <1>1, <1>2 DEF Account!ForgotPassword, Account!To, Account!server
  <2> QED
    BY <1>1, <2>1, Going, AccountBounds DEF AccountRow, AccountTypes, HasAccount
<1>3. CASE Account!DropReset(c)
  <2>1. /\ c.kind # "check" /\ c.at = "drop" /\ UNCHANGED <<acct, row, mail>> /\ acct.is
        /\ requests' = (requests \ {c}) \cup {[c EXCEPT !.at = "issue"]} /\ reset' = Account!NoReset
    BY <1>1, <1>3 DEF Account!DropReset, Account!To, CallHolds
  <2> QED
    BY <1>1, <2>1, Going, AccountBounds DEF AccountRow, AccountTypes, HasAccount
<1>4. CASE Account!IssueReset(c)
  <2>1. /\ mail.sent < MaxCodes /\ mail' = [mail EXCEPT !.sent = @ + 1] /\ acct.is
        /\ reset' = [Account!NoReset EXCEPT !.code = mail'.sent] /\ UNCHANGED <<acct, row>>
        /\ Account!Answer(c, "ok") /\ c.at = "issue" /\ c.kind # "check"
    BY <1>1, <1>4 DEF Account!IssueReset, CallHolds
  <2>2. mail.sent + 1 \in Account!Codes
    BY <1>1, <2>1, AccountBounds DEF AccountRow, AccountTypes, Account!Codes
  <2>3. /\ mail' \in [sent : Account!Codes, lost : BOOLEAN, faults : 0 .. MaxFaults]
        /\ mail'.lost = mail.lost
    BY <1>1, <2>1, <2>2 DEF AccountRow, AccountTypes
  <2>4. reset' \in [code : Account!Codes, wrong : 0 .. MaxWrong, used : BOOLEAN]
    BY <2>1, <2>3, AccountBounds
  <2>5. \A d \in requests' : CallHolds(d)'
    BY <1>1, <2>1, CallAnswered, CallsStay
  <2>6. Account!UnverifiedIsPending'
    BY <2>1, <2>3, IssuingStays DEF Account!Answer
  <2> QED
    BY <1>1, <2>1, <2>3, <2>4, <2>5, <2>6 DEF AccountInv, AccountRow, AccountTypes, HasAccount
<1>5. CASE Account!VerifyOTP(c)
  <2>1. c.kind = "check" /\ c.at = "start" /\ UNCHANGED <<acct, row, mail>>
    BY <1>5 DEF Account!VerifyOTP
  <2>2. CASE /\ reset.code # 0 /\ c.code = reset.code /\ reset' = [reset EXCEPT !.used = TRUE]
             /\ Account!Answer(c, "ok")
    <3>1. c.code # Account!Wrong
      BY <1>1, <2>2, AccountBounds DEF AccountRow, AccountTypes, Account!Codes, Account!Wrong
    <3>2. /\ reset' \in [code : Account!Codes, wrong : 0 .. MaxWrong, used : BOOLEAN]
          /\ acct.is
      BY <1>1, <2>2 DEF AccountRow, AccountTypes, HasAccount
    <3> QED
      BY <1>1, <2>1, <2>2, <3>1, <3>2, Going DEF AccountRow, AccountTypes, HasAccount
  <2>3. CASE Account!Answer(c, "refused") /\ (reset' = reset \/ reset' = Account!NoReset)
    BY <1>1, <2>1, <2>3, Going, AccountBounds DEF AccountRow, AccountTypes, HasAccount
  <2>4. CASE /\ Account!Answer(c, "refused") /\ reset' = [reset EXCEPT !.wrong = @ + 1]
             /\ ~(reset.wrong + 1 >= MaxWrong) /\ reset.code # 0
    <3>1. reset.wrong + 1 \in 0 .. MaxWrong
      BY <1>1, <2>4, AccountBounds DEF AccountRow, AccountTypes
    <3>2. /\ reset' \in [code : Account!Codes, wrong : 0 .. MaxWrong, used : BOOLEAN]
          /\ acct.is
      BY <1>1, <2>4, <3>1 DEF AccountRow, AccountTypes, HasAccount
    <3> QED
      BY <1>1, <2>1, <2>4, <3>2, Going DEF AccountRow, AccountTypes, HasAccount
  <2> QED
    BY <1>5, <2>2, <2>3, <2>4 DEF Account!VerifyOTP
<1>6. CASE Account!ResetPassword(c)
  <2>1. c.kind = "reset" /\ c.at = "start" /\ UNCHANGED mail
    BY <1>6 DEF Account!ResetPassword
  <2>2. CASE Account!Answer(c, "refused") /\ UNCHANGED <<acct, row, reset>>
    BY <1>1, <2>1, <2>2, Going DEF AccountRow, AccountTypes, HasAccount
  <2>3. CASE ~(Account!Answer(c, "refused") /\ UNCHANGED <<acct, row, reset>>)
    <3>1. /\ acct' = [acct EXCEPT !.verified = TRUE, !.proved = TRUE, !.fails = 0, !.locked = FALSE]
          /\ reset.used
          /\ row' = Account!NoRow /\ reset' = Account!NoReset /\ Account!Answer(c, "ok")
      BY <1>6, <2>3 DEF Account!ResetPassword
    <3>2. /\ acct' \in AccountRow
          /\ acct'.is /\ acct'.proved
      BY <1>1, <3>1, AccountBounds DEF AccountRow, AccountTypes, HasAccount
    <3>3. \A d \in requests' : CallHolds(d)'
      BY <1>1, <2>1, <3>1, <3>2, CallAnswered, CallsStay
    <3> QED
      BY <1>1, <2>1, <3>1, <3>2, <3>3, PendingStays, AccountBounds
      DEF AccountInv, AccountRow, AccountTypes, HasAccount
  <2> QED
    BY <2>2, <2>3
<1> QED
  BY <1>2, <1>3, <1>4, <1>5, <1>6

(* Codes get old, a reset code is deleted, a lock ends.                    *)
LEMMA Expiring ==
  ASSUME AccountInv, Account!Expire
  PROVE  AccountInv'
<1>1. UNCHANGED <<mail, requests, a>> /\ AccountTypes /\ HasAccount
  BY DEF Account!Expire, AccountInv
<1>2. \/ row' = [row EXCEPT !.old = TRUE] /\ UNCHANGED <<acct, reset>>
      \/ reset' = Account!NoReset /\ UNCHANGED <<acct, row>>
      \/ acct' = [acct EXCEPT !.locked = FALSE] /\ UNCHANGED <<row, reset>>
  BY DEF Account!Expire
<1>3. /\ AccountTypes' /\ HasAccount'
      /\ row'.code = row.code /\ acct'.is = acct.is /\ acct'.proved = acct.proved
        /\ acct'.proved = acct.proved
  BY <1>1, <1>2, AccountBounds DEF AccountRow, AccountTypes, HasAccount
<1> QED
  BY <1>1, <1>3 DEF AccountInv, AppTypes, CallHolds, Account!UnverifiedIsPending, Account!Issuing

(* What the app shows.                                                     *)
LEMMA AppOnly ==
  ASSUME AccountInv, AppTypes', UNCHANGED <<acct, row, reset, mail>>,
         \A c \in requests' : c \in requests \/ CallHolds(c),
         \A c \in requests : c.at \in {"renew", "send"} => c \in requests'
  PROVE  AccountInv'
BY DEF AccountInv, AccountRow, AccountTypes, HasAccount, CallHolds, Account!UnverifiedIsPending, Account!Issuing

(* The screens, and a button's call, which begins at its handler's start.  *)
LEMMA ScreenSteps ==
  ASSUME AccountInv,
         \/ Account!OpenRegister \/ Account!OpenForgot \/ Account!Back \/ Account!SignOut
         \/ Account!HandleRegister \/ Account!HandleLogin \/ Account!HandleVerify
         \/ Account!HandleResend \/ Account!HandleSendOTP \/ Account!HandleReset
         \/ \E n \in 1 .. Account!Wrong : Account!TypeDigits(n)
  PROVE  AccountInv'
<1>1. AppTypes /\ mail.sent \in Account!Codes
  BY DEF AccountInv, AccountTypes
<1>2. CASE \/ Account!OpenRegister \/ Account!OpenForgot \/ Account!Back \/ Account!SignOut
           \/ \E n \in 1 .. Account!Wrong : Account!TypeDigits(n)
  <2>1. UNCHANGED <<acct, row, reset, mail, requests>>
    BY <1>2 DEF Account!OpenRegister, Account!OpenForgot, Account!Back, Account!SignOut,
      Account!TypeDigits, Account!Go, Account!server
  <2>2. AppTypes'
    <3>1. CASE \E n \in 1 .. Account!Wrong : Account!TypeDigits(n)
      <4>1. PICK n \in 1 .. mail.sent \cup {Account!Wrong} : a' = [a EXCEPT !.typed = n]
        BY <3>1 DEF Account!TypeDigits, Account!Go
      <4>2. n \in Account!Codes \cup {Account!Wrong}
        BY <1>1, AccountBounds DEF Account!Codes
      <4> QED
        BY <1>1, <4>1, <4>2 DEF AppTypes
    <3>2. CASE Account!OpenRegister \/ Account!OpenForgot \/ Account!SignOut
      BY <1>1, <3>2 DEF Account!OpenRegister, Account!OpenForgot, Account!SignOut, Account!Go, AppTypes
    <3>3. CASE Account!Back
      <4>1. \E x \in {"forgot", "login"} : a' = [a EXCEPT !.screen = x, !.typed = 0, !.token = 0]
        BY <3>3 DEF Account!Back, Account!Go
      <4> QED
        BY <1>1, <4>1, AccountBounds DEF AppTypes
    <3> QED
      BY <1>2, <3>1, <3>2, <3>3
  <2> QED
    BY <2>1, <2>2, AppOnly DEF AccountInv
<1>3. ASSUME NEW x \in {"register", "login", "verify", "check", "resend", "again", "forgot", "reset"},
             NEW z \in Account!Codes \cup {Account!Wrong}, Account!Ask(x, z)
      PROVE  AccountInv'
  <2> DEFINE e == [kind |-> x, code |-> z, fails |-> 0, known |-> FALSE, at |-> "start", out |-> "ok"]
  <2>1. e \in Account!Call /\ e.at = "start"
    BY AccountBounds DEF Account!Call, Account!Kinds
  <2>2. requests' = requests \cup {e} /\ UNCHANGED <<acct, row, reset, mail, a>>
    BY <1>3 DEF Account!Ask, Account!server
  <2> HIDE DEF e
  <2> QED
    BY <1>1, <2>1, <2>2, AppOnly DEF CallHolds, AppTypes
<1>4. a.typed \in Account!Codes \cup {Account!Wrong} /\ a.token \in Account!Codes
  BY <1>1 DEF AppTypes
<1>5. CASE Account!HandleVerify \/ Account!HandleResend
  BY <1>3, <1>4, <1>5, AccountBounds DEF Account!HandleVerify, Account!HandleResend
<1> QED
  BY <1>2, <1>3, <1>4, <1>5, AccountBounds DEF Account!HandleRegister, Account!HandleLogin,
    Account!HandleSendOTP, Account!HandleReset

(* What an answer shows; a reset code that was taken was one of the codes. *)
LEMMA AnswersShow ==
  ASSUME AccountInv, NEW c \in requests, NEW heard \in BOOLEAN, Account!Answered(c, heard)
  PROVE  AccountInv'
<1>1. c \in Account!Call /\ CallHolds(c) /\ AppTypes
  BY DEF AccountInv, CallHolds
<1>2. /\ c.at = "end" /\ requests' = requests \ {c} /\ UNCHANGED <<acct, row, reset, mail>>
      /\ \E out \in {c.out, "refused"} : a' = Account!Shown(c, out)
  BY DEF Account!Answered, Account!server
<1>3. PICK out \in {c.out, "refused"} : a' = Account!Shown(c, out)
  BY <1>2
<1>4. \/ a' = a \/ a' = Account!Home
      \/ \E y \in BOOLEAN : a' = [a EXCEPT !.screen = "verify", !.signup = y, !.typed = 0]
      \/ a' = [a EXCEPT !.typed = 0]
      \/ a' = [a EXCEPT !.screen = "login", !.token = 0]
      \/ c.kind = "check" /\ out = "ok" /\ a' = [a EXCEPT !.screen = "reset", !.token = c.code, !.typed = 0]
  BY <1>3 DEF Account!Shown, Account!LoginShows, Account!RegisterShows, Account!ForgotShows,
    Account!VerifyShows, Account!CheckShows, Account!ResendShows, Account!ResetShows, Account!Code
<1>5. c.kind = "check" /\ out = "ok" => c.code \in Account!Codes
  BY <1>1, <1>2 DEF CallHolds, Account!Call
<1>6. AppTypes'
  <2>0. /\ 0 \in Account!Codes
        /\ a \in [screen : {"login", "register", "verify", "forgot", "reset", "home"},
                  signup : BOOLEAN, typed : Account!Codes \cup {Account!Wrong},
                  token : Account!Codes, in : BOOLEAN]
    BY <1>1, AccountBounds DEF AppTypes
  <2>1. CASE a' = Account!Home
    BY <2>1, AccountBounds DEF AppTypes, Account!Home
  <2>2. CASE \E y \in BOOLEAN : a' = [a EXCEPT !.screen = "verify", !.signup = y, !.typed = 0]
    <3>1. \/ a' = [a EXCEPT !.screen = "verify", !.signup = TRUE, !.typed = 0]
          \/ a' = [a EXCEPT !.screen = "verify", !.signup = FALSE, !.typed = 0]
      BY <2>2
    <3> QED
      BY <2>0, <3>1 DEF AppTypes
  <2>3. CASE a' = a \/ a' = [a EXCEPT !.typed = 0] \/ a' = [a EXCEPT !.screen = "login", !.token = 0]
    BY <2>0, <2>3 DEF AppTypes
  <2>4. CASE c.code \in Account!Codes /\ a' = [a EXCEPT !.screen = "reset", !.token = c.code, !.typed = 0]
    BY <2>0, <2>4 DEF AppTypes
  <2> QED
    BY <1>4, <1>5, <2>1, <2>2, <2>3, <2>4
<1> QED
  BY <1>2, <1>6, AppOnly

(* Every step keeps the invariant.                                         *)
LEMMA AccountSteps == AccountInv /\ [Account!Next]_Account!vars => AccountInv'
<1>1. ASSUME AccountInv, UNCHANGED Account!vars PROVE AccountInv'
  BY <1>1, AppOnly DEF Account!vars, Account!server, AccountInv, AppTypes
<1>2. ASSUME AccountInv, NEW c \in requests, Account!Handler(c), a' = a PROVE AccountInv'
  BY <1>2, SigningUp, SigningIn, Entering, Resetting DEF Account!Handler
<1> QED
  BY <1>1, <1>2, Expiring, ScreenSteps, AnswersShow DEF Account!Next

(* Codes belong to accounts, and an account whose address nobody has       *)
(* proved is known by its code's row, throughout, whichever writes fail.   *)
THEOREM AccountInvariance == Account!Spec => []AccountInv
BY AccountBegins, AccountSteps, PTL DEF Account!Spec

-----------------------------------------------------------------------------
(* The properties of the whole.                                            *)

(* The interceptor's token, read from the disk at each request, is that of *)
(* the session in memory whenever no sign-in or sign-out is under way      *)
(* (Session), for any users and any number of updates.                     *)
THEOREM RequestsCarryTheirToken == Spec => []RequestsAreOwn
<1>1. Own!RequestsAreOwn => RequestsAreOwn
  BY DEF RequestsAreOwn
<1> QED
  BY <1>1, BehavesAsEach, TokenIsCarried, PTL

(* While the switch says Live and no stop has still to write the store or  *)
(* has crossed the last start, the location is watched (DriverDesk), for   *)
(* any balance and any number of watches and overlapping stops.            *)
THEOREM LiveMeansWatched == Spec => []LiveIsWatched
<1>1. Desk!LiveIsWatched => LiveIsWatched
  BY DEF LiveIsWatched
<1> QED
  BY <1>1, BehavesAsEach, DeskLiveMeansWatched, PTL

(* A submission that the app flags was made with a number that a reading   *)
(* of its own picture did not show (IdentityForm), for any cards.          *)
THEOREM FlagsAreOfTheirCard == Spec => []FlagIsOfCard
<1>1. Identity!FlagIsOfCard => FlagIsOfCard
  BY DEF FlagIsOfCard
<1> QED
  BY <1>1, BehavesAsEach, FormFlags, PTL

(* The app never asks the server to verify the reference of one order for  *)
(* another, however many orders and attempts there were (ShopperCheckout). *)
THEOREM ReferenceIsOfItsOrder == Spec => []VerifiesItsOwnPayment
<1>1. CheckoutInv => VerifiesItsOwnPayment
  BY DEF CheckoutInv, CallsName, VerifiesItsOwnPayment, Checkout!VerifiesItsOwnPayment
<1> QED
  BY <1>1, BehavesAsEach, CheckoutInvariance, PTL

(* A step that empties the cart is the answer to a call that verified a    *)
(* charged order, and leaves that order paid (ShopperCheckout).            *)
THEOREM CartClearedWhenPaid == Spec => ClearedMeansPaid
<1>1. CheckoutInv /\ [Checkout!Next]_Checkout!vars
      => [cart # {} /\ cart' = {} =>
            \E c \in calls : /\ c.kind = "verify" /\ c.order \in charged
                             /\ order'[c.order] = "paid"]_Checkout!vars
  BY Clearing
<1> QED
  BY <1>1, BehavesAsEach, CheckoutInvariance, PTL
  DEF ClearedMeansPaid, Checkout!ClearedMeansPaid, Checkout!Spec

(* "Please wait" never stays when the last call it waits for has ended     *)
(* (ShopperCheckout).                                                      *)
THEOREM WaitingEnds == Spec => AnswersAreShown
<1>1. CheckoutInv /\ [Checkout!Next]_Checkout!vars
      => [Checkout!Waits /\ (\E c \in calls : c.cur) /\ (\A c \in calls' : ~c.cur)
            => ~Checkout!Waits']_Checkout!vars
  BY Answering
<1> QED
  BY <1>1, BehavesAsEach, CheckoutInvariance, PTL
  DEF AnswersAreShown, Checkout!AnswersAreShown, Checkout!Spec

(* No booking the server holds names a region of another country, whatever *)
(* was picked and typed in which order (ParcelApp).                        *)
THEOREM BookingsFitTheirCountry == Spec => []RegionFitsCountry
<1>1. ParcelsInv => RegionFitsCountry
  BY DEF ParcelsInv, ServerHolds, RegionFitsCountry
<1> QED
  BY <1>1, BehavesAsEach, ParcelsInvariance, PTL

(* A payment page that was open is shut only by a step that asks the       *)
(* server about its payment (ParcelApp).                                   *)
THEOREM LeavingAPageAsks == Spec => PageIsVerified
<1>1. ParcelsInv /\ [Parcels!Next]_Parcels!vars
      => [page # "crashed" =>
            /\ ~b.page.shut /\ b'.page.shut => <<"verify booked", b.page.ref>> \in asked'
            /\ ~t.page.shut /\ t'.page.shut => <<"verify", t.page.ref>> \in asked']_Parcels!vars
  BY PagesAsk
<1> QED
  BY <1>1, BehavesAsEach, ParcelsInvariance, PTL
  DEF PageIsVerified, Parcels!PageIsVerified, Parcels!Spec

(* An account that signed up, and whose address has not been proved with a *)
(* code, is known by its code's row, save while a code is being replaced   *)
(* or after one that could not be stored (SignIn), for any number of codes,*)
(* calls and failed writes.                                                *)
THEOREM PendingUntilVerified == Spec => []UnverifiedIsPending
<1>1. AccountInv => UnverifiedIsPending
  BY DEF AccountInv, UnverifiedIsPending
<1> QED
  BY <1>1, BehavesAsEach, AccountInvariance, PTL

(* Every variable of every component keeps its type, for any constants.    *)
THEOREM TypeCorrect == Spec => []TypeOK
<1>1. CheckoutInv => Checkout!TypeOK
  BY DEF CheckoutInv
<1>2. ParcelsInv => Parcels!TypeOK
  BY DEF ParcelsInv, ServerHolds, BookHolds, TrackHolds, AskedHolds, Parcels!TypeOK
<1>3. AccountInv => Account!TypeOK
  BY DEF AccountInv, AccountRow, AccountTypes, AppTypes, HasAccount, CallHolds, Account!TypeOK
<1>4. (Checkout!TypeOK /\ Parcels!TypeOK /\ Desk!TypeOK
       /\ Account!TypeOK /\ Own!TypeOK /\ Identity!TypeOK) => TypeOK
  BY DEF TypeOK
<1> QED
  BY <1>1, <1>2, <1>3, <1>4, BehavesAsEach, CheckoutInvariance, ParcelsInvariance,
    AccountInvariance, SessionTypeCorrect, DeskTypeCorrect, FormTypeCorrect, PTL

=============================================================================
