------------------------------- MODULE SignIn -------------------------------
(***************************************************************************)
(* One account on its way to a session: signing up, the code sent to the   *)
(* email address, signing in and its lock, and the new password for one    *)
(* forgotten; the server's handlers, statement by statement, and the       *)
(* screens of the app that call them.                                      *)
(*                                                                         *)
(* An account that signed up has a row of a sign-up code until the email   *)
(* is verified.  An account that is not verified and has no such row is    *)
(* taken for one from before verification existed, and is let in.  The     *)
(* write that verifies is among those whose failure no handler notices;    *)
(* others (deleting rows, counting wrong entries) leave rows standing when *)
(* they fail, and are taken to succeed, as is every read.                  *)
(***************************************************************************)
EXTENDS Naturals, FiniteSets

CONSTANTS
  MaxCodes,    \* bound: codes sent
  MaxWrong,    \* wrong entries after which a code is void
  MaxFails,    \* failed sign-ins after which the account is locked
  MaxCalls,    \* bound: calls under way
  MaxFaults    \* bound: codes that could not be stored, accounts not written

VARIABLES
  acct,    \* the users row: verified, failed sign-ins, lock; history: proved,
           \* a code mailed to the address has been entered for the account
  row,     \* the sign-up code's row; no code: no row
  reset,   \* the reset code's row, exchanged for a token or not
  mail,    \* codes sent so far; did the last sign-up code get lost; faults
  calls,   \* requests under way, each at one of its handler's statements
  a        \* the app: the screen, the digits typed, the reset token, the session

server == <<acct, row, reset, mail>>
vars   == <<server, calls, a>>

Codes   == 0 .. MaxCodes
Wrong   == MaxCodes + 1
NoRow   == [code |-> 0, wrong |-> 0, old |-> FALSE]
NoReset == [code |-> 0, wrong |-> 0, used |-> FALSE]

Kinds == {"register", "login", "verify", "resend", "forgot", "again", "check", "reset"}
Call  == [kind : Kinds, code : Codes \cup {Wrong}, fails : 0 .. MaxFails, known : BOOLEAN,
          at : {"start", "miss", "hit", "pending", "renew", "send", "drop", "issue", "enter", "clear",
                "end"},
          out : {"ok", "verify", "refused"}]

(* Every variable has its type; an account that is none is not verified.   *)
TypeOK ==
  /\ acct \in [is : BOOLEAN, verified : BOOLEAN, proved : BOOLEAN, fails : 0 .. MaxFails,
               locked : BOOLEAN]
  /\ row \in [code : Codes, wrong : 0 .. MaxWrong, old : BOOLEAN]
  /\ reset \in [code : Codes, wrong : 0 .. MaxWrong, used : BOOLEAN]
  /\ mail \in [sent : Codes, lost : BOOLEAN, faults : 0 .. MaxFaults]
  /\ calls \subseteq Call
  /\ a \in [screen : {"login", "register", "verify", "forgot", "reset", "home"},
            signup : BOOLEAN, typed : Codes \cup {Wrong}, token : Codes, in : BOOLEAN]
  /\ (acct.verified => acct.is)

-----------------------------------------------------------------------------
(* The handlers.                                                           *)

To(c, at)     == calls' = (calls \ {c}) \cup {[c EXCEPT !.at = at]}
Answer(c, out) == calls' = (calls \ {c}) \cup {[c EXCEPT !.at = "end", !.out = out,
                                                    !.fails = 0, !.known = FALSE]}

Register(c) ==
  /\ c.kind = "register" /\ c.at = "start" /\ UNCHANGED <<row, reset, mail>>
  /\ IF acct.is THEN Answer(c, "refused") /\ UNCHANGED acct
     ELSE acct' = [acct EXCEPT !.is = TRUE] /\ To(c, "renew")

(* The sign-up code: the rows before it are deleted, then its own stored,  *)
(* outside any transaction; then the email is sent.                        *)
Renew(c) ==
  c.at = "renew" /\ row' = NoRow /\ To(c, "send") /\ UNCHANGED <<acct, reset, mail>>

Sent(c) == IF c.kind = "login" THEN "verify" ELSE "ok"

StoreAndSend(c, ok) ==
  /\ c.at = "send" /\ UNCHANGED <<acct, reset>>
  /\ IF ok THEN /\ mail.sent < MaxCodes
                /\ mail' = [mail EXCEPT !.sent = @ + 1, !.lost = FALSE]
                /\ row' = [NoRow EXCEPT !.code = mail'.sent] /\ Answer(c, Sent(c))
     ELSE /\ mail.faults < MaxFaults /\ UNCHANGED row
          /\ mail' = [mail EXCEPT !.faults = @ + 1, !.lost = TRUE] /\ Answer(c, "refused")

(* Signing in.  The user is read once: the failures counted and the        *)
(* verification are of that moment.  Failures above the limit, which are   *)
(* counted when a lock has ended by itself, are alike.                     *)
Login(c, right) ==
  /\ c.kind = "login" /\ c.at = "start" /\ UNCHANGED server
  /\ IF ~acct.is \/ acct.locked THEN Answer(c, "refused")
     ELSE calls' = (calls \ {c}) \cup {[c EXCEPT !.at = IF right THEN "hit" ELSE "miss",
                                        !.fails = acct.fails, !.known = acct.verified]}

Miss(c) ==
  /\ c.at = "miss" /\ Answer(c, "refused") /\ UNCHANGED <<row, reset, mail>>
  /\ acct' = IF c.fails + 1 >= MaxFails THEN [acct EXCEPT !.fails = MaxFails, !.locked = TRUE]
             ELSE [acct EXCEPT !.fails = c.fails + 1]

Hit(c) ==
  /\ c.at = "hit" /\ To(c, "pending") /\ UNCHANGED <<row, reset, mail>>
  /\ acct' = IF c.fails > 0 THEN [acct EXCEPT !.fails = 0, !.locked = FALSE] ELSE acct

(* Is the email still to be verified?  For a sign-in and for Resend.       *)
HasPending(known) == ~known /\ row.code # 0

LoginPending(c) ==
  /\ c.kind = "login" /\ c.at = "pending" /\ UNCHANGED server
  /\ IF HasPending(c.known) THEN To(c, "renew") ELSE Answer(c, "ok")

Resend(c) ==
  /\ c.kind = "resend" /\ c.at = "start" /\ UNCHANGED server
  /\ IF acct.is /\ HasPending(acct.verified) THEN To(c, "renew") ELSE Answer(c, "ok")

Void(r) == r.code = 0 \/ r.old \/ r.wrong >= MaxWrong

(* Mutant: a code entered wrongly too often is deleted, as a reset code is.*)
ExhaustedDeleted(c) ==
  /\ c.kind = "verify" /\ c.at = "start" /\ UNCHANGED <<acct, reset, mail>>
  /\ IF ~Void(row) /\ c.code = row.code THEN To(c, "enter") /\ UNCHANGED row
     ELSE /\ Answer(c, "refused")
          /\ row' = IF Void(row) THEN row ELSE IF row.wrong + 1 >= MaxWrong THEN NoRow
                    ELSE [row EXCEPT !.wrong = @ + 1]

VerifyEmail(c) ==
  /\ c.kind = "verify" /\ c.at = "start" /\ UNCHANGED <<acct, reset, mail>>
  /\ IF ~Void(row) /\ c.code = row.code THEN To(c, "enter") /\ UNCHANGED row
     ELSE /\ Answer(c, "refused")
          /\ row' = IF Void(row) THEN row ELSE [row EXCEPT !.wrong = @ + 1]

(* The right code: the account is marked verified, and whether or not that *)
(* succeeded its rows are deleted and the user is let in.                  *)
Enter(c, ok) ==
  /\ c.at = "enter" /\ To(c, "clear") /\ UNCHANGED <<row, reset>>
  /\ acct' = [acct EXCEPT !.verified = @ \/ ok, !.proved = TRUE]
  /\ IF ok THEN UNCHANGED mail
     ELSE mail.faults < MaxFaults /\ mail' = [mail EXCEPT !.faults = @ + 1]

Clear(c) ==
  c.at = "clear" /\ row' = NoRow /\ Answer(c, "ok") /\ UNCHANGED <<acct, reset, mail>>

(* A new password: the code is sent whoever asks, and exchanged for a      *)
(* token, which the new password is set with.                              *)
ForgotPassword(c) ==
  /\ c.kind \in {"forgot", "again"} /\ c.at = "start" /\ UNCHANGED server
  /\ IF acct.is THEN To(c, "drop") ELSE Answer(c, "ok")

DropReset(c) ==
  c.at = "drop" /\ reset' = NoReset /\ To(c, "issue") /\ UNCHANGED <<acct, row, mail>>

IssueReset(c) ==
  /\ c.at = "issue" /\ mail.sent < MaxCodes /\ mail' = [mail EXCEPT !.sent = @ + 1]
  /\ reset' = [NoReset EXCEPT !.code = mail'.sent] /\ Answer(c, "ok") /\ UNCHANGED <<acct, row>>

VerifyOTP(c) ==
  /\ c.kind = "check" /\ c.at = "start" /\ UNCHANGED <<acct, row, mail>>
  /\ IF reset.code # 0 /\ ~reset.used /\ c.code = reset.code
     THEN reset' = [reset EXCEPT !.used = TRUE] /\ Answer(c, "ok")
     ELSE /\ Answer(c, "refused")
          /\ reset' = IF reset.code = 0 \/ reset.used THEN reset
                      ELSE IF reset.wrong + 1 >= MaxWrong THEN NoReset
                      ELSE [reset EXCEPT !.wrong = @ + 1]

ResetPassword(c) ==
  /\ c.kind = "reset" /\ c.at = "start" /\ UNCHANGED mail
  /\ IF reset.used /\ c.code = reset.code
     THEN /\ acct' = [acct EXCEPT !.verified = TRUE, !.proved = TRUE, !.fails = 0, !.locked = FALSE]
          /\ row' = NoRow /\ reset' = NoReset /\ Answer(c, "ok")
     ELSE Answer(c, "refused") /\ UNCHANGED <<acct, row, reset>>

(* Time: codes get old, a token's row is deleted, a lock ends.             *)
Expire ==
  /\ UNCHANGED <<mail, calls, a>>
  /\ \/ row.code # 0 /\ ~row.old /\ row' = [row EXCEPT !.old = TRUE] /\ UNCHANGED <<acct, reset>>
     \/ reset.code # 0 /\ reset' = NoReset /\ UNCHANGED <<acct, row>>
     \/ acct.locked /\ acct' = [acct EXCEPT !.locked = FALSE] /\ UNCHANGED <<row, reset>>

-----------------------------------------------------------------------------
(* The screens.                                                            *)

Go(x) == a' = x /\ UNCHANGED <<server, calls>>

OpenRegister == a.screen = "login" /\ Go([a EXCEPT !.screen = "register"])
OpenForgot   == a.screen = "login" /\ Go([a EXCEPT !.screen = "forgot"])

Back ==
  /\ a.screen \in {"register", "verify", "forgot", "reset"}
  /\ Go([a EXCEPT !.screen = IF (@ = "verify" /\ ~a.signup) \/ @ = "reset" THEN "forgot" ELSE "login",
                  !.typed = 0, !.token = 0])

(* The six digits: those of a code that was mailed, or others.             *)
TypeDigits(n) ==
  a.screen = "verify" /\ n # a.typed /\ n \in 1 .. mail.sent \cup {Wrong} /\ Go([a EXCEPT !.typed = n])

(* Each button sends one call at a time.                                   *)
Ask(kind, code) ==
  /\ (\A c \in calls : c.kind # kind)
  /\ Cardinality(calls) < MaxCalls
  /\ calls' = calls \cup {[kind |-> kind, code |-> code, fails |-> 0, known |-> FALSE,
                           at |-> "start", out |-> "ok"]}
  /\ UNCHANGED <<server, a>>

HandleRegister == a.screen = "register" /\ Ask("register", 0)
HandleLogin    == a.screen = "login" /\ Ask("login", 0)
HandleVerify   == a.screen = "verify" /\ a.typed # 0 /\ Ask(IF a.signup THEN "verify" ELSE "check", a.typed)
HandleResend   == a.screen = "verify" /\ Ask(IF a.signup THEN "resend" ELSE "again", 0)
HandleSendOTP  == a.screen = "forgot" /\ Ask("forgot", 0)
HandleReset    == a.screen = "reset" /\ a.token # 0 /\ Ask("reset", a.token)

SignOut == a.in /\ Go([a EXCEPT !.screen = "login", !.in = FALSE])

Home == [screen |-> "home", signup |-> FALSE, typed |-> 0, token |-> 0, in |-> TRUE]

(* What an answer does, whichever screen is shown by then.                 *)

Code(signup) == [a EXCEPT !.screen = "verify", !.signup = signup, !.typed = 0]

LoginShows(out) == CASE out = "ok" -> Home [] out = "verify" -> Code(TRUE) [] OTHER -> a

RegisterShows(out) == IF out = "ok" THEN Code(TRUE) ELSE a

ForgotShows(out) == IF out = "ok" THEN Code(FALSE) ELSE a

(* A sign-up code leads in, and a wrong one is cleared; a reset code leads *)
(* to the new password, and a wrong one is left standing.                  *)
VerifyShows(out) == IF out = "ok" THEN Home ELSE [a EXCEPT !.typed = 0]

CheckShows(c, out) ==
  IF out = "ok" THEN [a EXCEPT !.screen = "reset", !.token = c.code, !.typed = 0] ELSE a

ResendShows(out) == IF out = "ok" THEN [a EXCEPT !.typed = 0] ELSE a

ResetShows(out) == IF out = "ok" THEN [a EXCEPT !.screen = "login", !.token = 0] ELSE a

Shown(c, out) ==
  CASE c.kind = "login"  -> LoginShows(out)
    [] c.kind = "register" -> RegisterShows(out)
    [] c.kind = "forgot" -> ForgotShows(out)
    [] c.kind = "verify" -> VerifyShows(out)
    [] c.kind = "check"  -> CheckShows(c, out)
    [] c.kind = "reset"  -> ResetShows(out)
    [] OTHER             -> ResendShows(out)

Answered(c, heard) ==
  /\ c.at = "end" /\ calls' = calls \ {c} /\ UNCHANGED server
  /\ a' = Shown(c, IF heard THEN c.out ELSE "refused")

-----------------------------------------------------------------------------
Init ==
  /\ acct = [is |-> FALSE, verified |-> FALSE, proved |-> FALSE, fails |-> 0, locked |-> FALSE]
  /\ row = NoRow /\ reset = NoReset /\ mail = [sent |-> 0, lost |-> FALSE, faults |-> 0]
  /\ calls = {}
  /\ a = [screen |-> "login", signup |-> FALSE, typed |-> 0, token |-> 0, in |-> FALSE]

Handler(c) ==
  \/ Register(c) \/ Renew(c) \/ Miss(c) \/ Hit(c) \/ LoginPending(c) \/ Resend(c)
  \/ VerifyEmail(c) \/ Clear(c)
  \/ ForgotPassword(c) \/ DropReset(c) \/ IssueReset(c) \/ VerifyOTP(c) \/ ResetPassword(c)
  \/ \E b \in BOOLEAN : StoreAndSend(c, b) \/ Login(c, b) \/ Enter(c, b)

Next ==
  \/ \E c \in calls : (Handler(c) /\ UNCHANGED a) \/ \E heard \in BOOLEAN : Answered(c, heard)
  \/ Expire \/ OpenRegister \/ OpenForgot \/ Back \/ SignOut
  \/ HandleRegister \/ HandleLogin \/ HandleVerify \/ HandleResend \/ HandleSendOTP \/ HandleReset
  \/ \E n \in 1 .. Wrong : TypeDigits(n)

Spec == Init /\ [][Next]_vars

-----------------------------------------------------------------------------
(* Properties.                                                             *)

Issuing == \E c \in calls : c.at \in {"renew", "send"}

(* "Expired/exhausted rows are kept (not deleted) so Login still knows the *)
(* account is unverified": an account that signed up, and for which no     *)
(* code mailed to its address was entered yet, has its row, save while a   *)
(* code is being replaced or after a code that could not be stored.        *)
UnverifiedIsPending ==
  acct.is /\ ~acct.proved => row.code # 0 \/ Issuing \/ mail.lost

(* The same of the column that Login reads, which stays false when the     *)
(* write that should set it fails.                                         *)
UnmarkedIsPending ==
  acct.is /\ ~acct.verified => row.code # 0 \/ Issuing \/ mail.lost

(* "No tokens yet - the user proves they own the email by entering the     *)
(* OTP": a session is only of an account for which they have.              *)
VerifiedBeforeIn == a.in => acct.proved

=============================================================================
