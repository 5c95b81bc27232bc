---------------------------- MODULE IdentityForm ----------------------------
(***************************************************************************)
(* The form that verifies an identity: the number on a card, a picture of  *)
(* the card, and the reading of the picture on the phone, which tells the  *)
(* user, and the staff who review, that the two do not match.  The reading *)
(* may be wrong, or find no text: any text without the number entered is   *)
(* taken for a mismatch, and only a reading that fails for none.  Numbers  *)
(* of fewer than four characters, which are not compared, are left out.    *)
(***************************************************************************)
CONSTANTS
  Card,    \* identity cards: a picture of each, and the number printed on it
  Blank,   \* a text in which no card's number is found, or no text at all
  None     \* no card, no text

VARIABLES
  shown,   \* is the form on the screen?
  k,       \* what is entered, the scans under way and the call; history: seen,
           \* what was read from the form's picture since it was picked
  sent     \* the last submission, and what had been seen of its picture

vars == <<shown, k, sent>>

(* A text is told apart by the number found in it.                         *)
Text == Card \cup {Blank}

(* Every variable has its type; only the last scan begun is waited for.    *)
TypeOK ==
  /\ shown \in BOOLEAN
  /\ k \in [card : Card \cup {None}, number : Card \cup {None}, text : Text \cup {None},
            seen : SUBSET Text, scans : SUBSET (Card \X BOOLEAN),
            call : {"no", "upload", "submit"}]
  /\ sent \in [card : Card \cup {None}, number : Card \cup {None}, flag : BOOLEAN,
               seen : SUBSET Text]
  /\ (\A x, y \in k.scans : x[2] /\ y[2] => x = y)

-----------------------------------------------------------------------------
Fill(f) == k' = f /\ UNCHANGED <<shown, sent>>

Empty == [card |-> None, number |-> None, text |-> None, seen |-> {}, scans |-> {}, call |-> "no"]

(* A form opened again is another one: what its predecessor still waits    *)
(* for no longer shows.                                                    *)
OpenForm == ~shown /\ shown' = TRUE /\ k' = Empty /\ UNCHANGED sent

HandleBack ==
  /\ shown /\ shown' = FALSE /\ UNCHANGED sent
  /\ k' = [k EXCEPT !.scans = {<<x[1], FALSE>> : x \in @}]

EnterNumber(n) == shown /\ n # k.number /\ Fill([k EXCEPT !.number = n])

(* Mutant: a scan begun for an earlier picture is still listened to.       *)
ScansOverlap(c) ==
  /\ shown /\ c # k.card
  /\ Fill([k EXCEPT !.card = c, !.text = None, !.seen = {}, !.scans = {<<c, TRUE>>} \cup @])

(* Another picture: the scan of the one before it is cancelled.            *)
PickIDImage(c) ==
  /\ shown /\ c # k.card
  /\ Fill([k EXCEPT !.card = c, !.text = None, !.seen = {},
                    !.scans = {<<c, TRUE>>} \cup {<<x[1], FALSE>> : x \in @}])

(* A scan finds a text, or fails.  One that was cancelled is not heard.    *)
Recognized(x, text) ==
  /\ x \in k.scans
  /\ Fill([k EXCEPT !.scans = @ \ {x}, !.text = IF x[2] THEN text ELSE @,
                    !.seen = IF x[1] = k.card THEN @ \cup ({text} \ {None}) ELSE @])

Scanning == \E x \in k.scans : x[2]

(* What is told under the picture, and flagged in the submission.          *)
IdMatch(f) ==
  IF f.text = None \/ f.number = None THEN "unknown" ELSE IF f.text = f.number THEN "yes" ELSE "no"

(* The form's values are those of the moment the button is pressed.        *)
HandleSubmit ==
  /\ shown /\ k.call = "no" /\ None \notin {k.number, k.card}
  /\ k' = [k EXCEPT !.call = "upload"]
  /\ sent' = [card |-> k.card, number |-> k.number, flag |-> IdMatch(k) = "no", seen |-> k.seen]
  /\ UNCHANGED shown

Uploaded(ok) == k.call = "upload" /\ Fill([k EXCEPT !.call = IF ok THEN "submit" ELSE "no"])

(* The answer leads home, from whichever screen is shown by then.          *)
Submitted(ok) ==
  /\ k.call = "submit" /\ k' = [k EXCEPT !.call = "no"] /\ UNCHANGED sent
  /\ shown' = (shown /\ ~ok)

-----------------------------------------------------------------------------
Init ==
  /\ shown = FALSE /\ k = Empty
  /\ sent = [card |-> None, number |-> None, flag |-> FALSE, seen |-> {}]

Next ==
  \/ OpenForm \/ HandleBack \/ HandleSubmit
  \/ \E c \in Card : EnterNumber(c) \/ PickIDImage(c)
  \/ \E ok \in BOOLEAN : Uploaded(ok) \/ Submitted(ok)
  \/ \E x \in k.scans, text \in Text \cup {None} : Recognized(x, text)

Spec == Init /\ [][Next]_vars

-----------------------------------------------------------------------------
(* Properties.                                                             *)

(* A submission is flagged as a mismatch only if a text without the number *)
(* entered was read from the very picture that is sent, since it was       *)
(* picked, however pictures and the number were changed while others were  *)
(* being read.                                                             *)
FlagIsOfCard == sent.flag => \E text \in sent.seen : text # sent.number

(* The same of the card itself, which a wrong reading breaks.              *)
FlagIsRight == sent.flag => sent.card # sent.number

=============================================================================
