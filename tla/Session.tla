------------------------------ MODULE Session -------------------------------
(***************************************************************************)
(* The session in the app: the store and the phone's secure store, the     *)
(* home and the account screen.                                            *)
(*                                                                         *)
(* A session is stored value by value, each write awaited, and then set in *)
(* memory; so are the profile fetched again, a new photo and the status of *)
(* the verification, whenever their calls are answered.                    *)
(***************************************************************************)
EXTENDS Naturals, FiniteSets

CONSTANTS
  User,      \* who sign in on this phone
  None,      \* no user
  MaxLate    \* bound: profile and status writes under way

VARIABLES
  disk,    \* the secure store: access and refresh token, profile, status
  mem,     \* the store in memory: tokens, profile, status
  op,      \* the sign-in or sign-out under way, at its next write
  late,    \* profile and status updates under way
  live,    \* the server: accounts not deleted
  at       \* the screen, and its sheet

vars == <<disk, mem, op, late, live, at>>

Owner    == User \cup {None}
(* Of the verification: "done" when the app asks for nothing more.         *)
Statuses == {"none", "pending", "done"}

(* Every variable has its type; an update asked for has no status yet.     *)
TypeOK ==
  /\ disk \in [access : Owner, refresh : Owner, user : Owner, kyc : Statuses]
  /\ mem \in [tokens : Owner, user : Owner, kyc : Statuses, loading : BOOLEAN]
  /\ op \in [kind : {"no", "in", "out"}, who : Owner, step : 0 .. 4, kyc : Statuses]
  /\ late \subseteq [who : Owner, kyc : Statuses, home : BOOLEAN,
                     step : {"ask", "user", "user set", "upload", "submit", "kyc", "kyc set"},
                     photo : BOOLEAN]
  /\ live \subseteq User
  /\ at \in {"login", "home", "app", "account", "delete", "kyc"}
  /\ \A u \in late : u.step \in {"ask", "upload", "submit"} => u.kyc = "none"

-----------------------------------------------------------------------------
(* The store.                                                              *)

Idle == op.kind = "no"

Start(kind, who, kyc) == op' = [kind |-> kind, who |-> who, step |-> 0, kyc |-> kyc]

(* Mutant: a token that is on the disk is not written over.                *)
TokenKept ==
  /\ ~Idle /\ op.step < 4
  /\ disk' = CASE op.step = 0 -> [disk EXCEPT !.access = IF op.kind = "in" /\ @ # None THEN @ ELSE op.who]
               [] op.step = 1 -> [disk EXCEPT !.refresh = op.who]
               [] op.step = 2 -> [disk EXCEPT !.user = op.who]
               [] OTHER -> [disk EXCEPT !.kyc = op.kyc]
  /\ op' = [op EXCEPT !.step = @ + 1]
  /\ UNCHANGED <<mem, late, live, at>>

(* setAuth and clearAuth write or delete the same four values in order.    *)
WriteNext ==
  /\ ~Idle /\ op.step < 4
  /\ disk' = CASE op.step = 0 -> [disk EXCEPT !.access = op.who]
               [] op.step = 1 -> [disk EXCEPT !.refresh = op.who]
               [] op.step = 2 -> [disk EXCEPT !.user = op.who]
               [] OTHER -> [disk EXCEPT !.kyc = op.kyc]
  /\ op' = [op EXCEPT !.step = @ + 1]
  /\ UNCHANGED <<mem, late, live, at>>

SetInMemory ==
  /\ op.step = 4 /\ Start("no", None, "none")
  /\ mem' = [tokens |-> op.who, user |-> op.who, kyc |-> op.kyc, loading |-> FALSE]
  /\ at' = IF op.kind = "in" THEN "home" ELSE "login"
  /\ UNCHANGED <<disk, late, live>>

(* Only a session that is whole on disk is taken up again.                 *)
LoadStoredAuth ==
  /\ mem.loading /\ Idle /\ UNCHANGED <<disk, op, late, live>>
  /\ LET whole == None \notin {disk.access, disk.refresh, disk.user} IN
       /\ mem' = [tokens |-> IF whole THEN disk.access ELSE None,
                  user |-> IF whole THEN disk.user ELSE None,
                  kyc |-> IF whole THEN disk.kyc ELSE "none", loading |-> FALSE]
       /\ at' = IF whole THEN "home" ELSE at

-----------------------------------------------------------------------------
(* Updates.  updateUser reads the profile, writes the disk and then the    *)
(* memory; what the server answers has its own user's name and number.     *)

Update(u) == Cardinality(late) < MaxLate /\ late' = late \cup {u}

New(who, step) == [who |-> who, kyc |-> "none", home |-> FALSE, step |-> step, photo |-> FALSE]

(* refreshUser asks with the token that is on the disk.                    *)
RefreshUser ==
  /\ at = "account" /\ disk.access # None /\ Update(New(disk.access, "ask"))
  /\ UNCHANGED <<disk, mem, op, live, at>>

MeAnswer(u, kyc) ==
  /\ u \in late /\ u.step = "ask" /\ UNCHANGED <<disk, mem, op, live, at>>
  /\ late' = (late \ {u}) \cup
       IF u.who \notin live THEN {}
       ELSE {[u EXCEPT !.kyc = kyc, !.step = IF mem.user = None THEN "kyc" ELSE "user"]}

Then(u, step) == late' = (late \ {u}) \cup {[u EXCEPT !.step = step]}

UserWritten(u) ==
  /\ u \in late /\ u.step = "user" /\ disk' = [disk EXCEPT !.user = u.who] /\ Then(u, "user set")
  /\ UNCHANGED <<mem, op, live, at>>

UserSet(u) ==
  /\ u \in late /\ u.step = "user set" /\ mem' = [mem EXCEPT !.user = u.who]
  /\ IF u.photo THEN late' = late \ {u} ELSE Then(u, "kyc")
  /\ UNCHANGED <<disk, op, live, at>>

StatusWritten(u) ==
  /\ u \in late /\ u.step = "kyc" /\ disk' = [disk EXCEPT !.kyc = u.kyc] /\ Then(u, "kyc set")
  /\ UNCHANGED <<mem, op, live, at>>

StatusSet(u) ==
  /\ u \in late /\ u.step = "kyc set" /\ mem' = [mem EXCEPT !.kyc = u.kyc]
  /\ late' = late \ {u} /\ at' = IF u.home THEN "home" ELSE at
  /\ UNCHANGED <<disk, op, live>>

(* A photo is uploaded with the token then in memory; when it is stored,   *)
(* whose ever profile is in memory by then is given its address.           *)
PhotoUploaded(u, ok) ==
  /\ u \in late /\ u.step = "upload" /\ UNCHANGED <<disk, mem, op, live, at>>
  /\ late' = (late \ {u}) \cup
       IF ok /\ mem.user # None THEN {[u EXCEPT !.who = mem.user, !.step = "user"]} ELSE {}

-----------------------------------------------------------------------------
(* The screens.                                                            *)

Goto(screen) == at' = screen /\ UNCHANGED <<disk, mem, op, late, live>>

NeedsKyc == mem.kyc \in {"none", "pending"}

(* What a screen offers, whatever roles its user has; the account screen   *)
(* offers to verify the identity again when it is verified, too.           *)
HomeOffers ==
  IF at # "home" THEN {} ELSE {"sign out", "account", "app"} \cup (IF NeedsKyc THEN {"kyc"} ELSE {})

AccountOffers ==
  IF at # "account" THEN {} ELSE {"sign out", "photo", "kyc", "delete", "home"}

SignIn(u, kyc) ==
  /\ at = "login" /\ Idle /\ u \in live /\ Start("in", u, kyc)
  /\ UNCHANGED <<disk, mem, late, live, at>>

SignOut ==
  /\ "sign out" \in HomeOffers \cup AccountOffers /\ Idle /\ Start("out", None, "none")
  /\ UNCHANGED <<disk, mem, late, live, at>>

(* The apps' sheet opens over the home, and each of its rows leads on.     *)
OpenApp == "app" \in HomeOffers /\ Goto("app")

CloseApp == at = "app" /\ \E s \in {"home", "account", "kyc"} : Goto(s)

PickAvatar ==
  /\ "photo" \in AccountOffers /\ mem.tokens # None /\ Update([New(None, "upload") EXCEPT !.photo = TRUE])
  /\ UNCHANGED <<disk, mem, op, live, at>>

OpenAccount == "account" \in HomeOffers /\ Goto("account")

LeaveAccount == "home" \in AccountOffers /\ Goto("home")

OpenDelete  == "delete" \in AccountOffers /\ Goto("delete")

CloseDelete == at = "delete" /\ Goto("account")

(* The password is right, and the answer to it is heard or not.            *)
DeleteAccount(heard) ==
  /\ at = "delete" /\ Idle /\ disk.access \in live /\ live' = live \ {disk.access}
  /\ IF heard THEN at' = "account" /\ Start("out", None, "none") ELSE UNCHANGED <<at, op>>
  /\ UNCHANGED <<disk, mem, late>>

OpenKyc == "kyc" \in HomeOffers \cup AccountOffers /\ Goto("kyc")

HandleBack == at = "kyc" /\ Goto(IF mem.tokens # None THEN "home" ELSE "login")

(* A submission of the form is answered whichever screen is shown by then, *)
(* and leads home.                                                         *)
HandleSubmit ==
  /\ at = "kyc" /\ mem.tokens # None /\ Update([New(None, "submit") EXCEPT !.home = TRUE])
  /\ UNCHANGED <<disk, mem, op, live, at>>

Submitted(u, ok) ==
  /\ u \in late /\ u.step = "submit" /\ UNCHANGED <<disk, mem, op, live, at>>
  /\ late' = (late \ {u}) \cup IF ok THEN {[u EXCEPT !.step = "kyc", !.kyc = "done"]} ELSE {}

(* The app is started again: the memory is lost, what was under way too.   *)
(* Which of two files is the first screen is left to the router: the one   *)
(* that loads the session, or the one that leads to the sign-in.           *)
Restart ==
  /\ mem' = [tokens |-> None, user |-> None, kyc |-> "none", loading |-> TRUE]
  /\ Start("no", None, "none") /\ late' = {} /\ at' = "login" /\ UNCHANGED <<disk, live>>

Init ==
  /\ disk = [access |-> None, refresh |-> None, user |-> None, kyc |-> "none"]
  /\ mem = [tokens |-> None, user |-> None, kyc |-> "none", loading |-> TRUE]
  /\ op = [kind |-> "no", who |-> None, step |-> 0, kyc |-> "none"]
  /\ late = {} /\ live = User /\ at = "login"

Screens ==
  \/ SignOut \/ OpenApp \/ CloseApp \/ OpenAccount \/ LeaveAccount \/ OpenDelete \/ CloseDelete
  \/ OpenKyc \/ HandleBack \/ Restart \/ \E u \in User, s \in {"pending", "done"} : SignIn(u, s)
  \/ \E heard \in BOOLEAN : DeleteAccount(heard)

Store ==
  \/ HandleSubmit \/ WriteNext \/ SetInMemory \/ LoadStoredAuth \/ RefreshUser \/ PickAvatar
  \/ \E u \in late : UserWritten(u) \/ UserSet(u) \/ StatusWritten(u) \/ StatusSet(u)
  \/ \E u \in late, ok \in BOOLEAN : Submitted(u, ok) \/ PhotoUploaded(u, ok)
  \/ \E u \in late : \E s \in {"pending", "done"} : MeAnswer(u, s)

Next == Screens \/ Store

Spec == Init /\ [][Next]_vars

-----------------------------------------------------------------------------
(* Properties.                                                             *)

(* The interceptor takes the token of every request from the disk: it is   *)
(* the one of the session in memory, also when the session of another user *)
(* was left on the disk.                                                   *)
RequestsAreOwn == Idle /\ mem.tokens # None => disk.access = mem.tokens

(* "Refetches the current user from the server": the profile shown is of   *)
(* the user whose tokens are used.                                         *)
ProfileIsOwn == Idle /\ mem.tokens # None => mem.user = mem.tokens

=============================================================================
