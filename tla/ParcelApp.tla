------------------------------ MODULE ParcelApp ------------------------------
(***************************************************************************)
(* Booking a parcel delivery, and My Deliveries, in the mobile app.        *)
(*                                                                         *)
(* The booking form composes an address from pickers and text fields and   *)
(* sends it; a sender then pays in a page of Paystack.  My Deliveries      *)
(* polls what the user sent and what the user is to pay for others, opens  *)
(* one delivery in a sheet, and pays, rates and complains from there.      *)
(* Requests are answered late, in any order, or fail.                      *)
(***************************************************************************)
EXTENDS Naturals, FiniteSets

CONSTANTS
  Mine,        \* the deliveries the user may book
  Theirs,      \* deliveries others booked for the user to pay
  MaxPolls,    \* bound: refreshes of My Deliveries under way
  MaxAsked,    \* bound: other requests under way, when one more is made
  None

Parcel == Mine \cup Theirs

VARIABLES
  srv,         \* the deliveries at the server; None: not booked
  top,         \* the screen on top
  b,           \* the booking screen
  t,           \* My Deliveries
  polls,       \* refreshes under way: what they will bring
  asked        \* requests under way

vars == <<srv, top, b, t, polls, asked>>

-----------------------------------------------------------------------------
Country == {"Ghana", "Togo"}
Region(c) == IF c = "Ghana" THEN {"Volta"} ELSE {"Maritime"}
Regions   == {"", "Volta", "Maritime"}

Row == [status : {"pending", "picked_up", "delivered"}, payer : {"sender", "receiver"},
        paid : BOOLEAN, charged : BOOLEAN, rated : BOOLEAN, fits : BOOLEAN]

Page == [shut : BOOLEAN, loading : BOOLEAN, ref : Parcel \cup {None}]

NoPage    == [shut |-> TRUE, loading |-> TRUE, ref |-> None]
PageOf(p) == [shut |-> FALSE, loading |-> TRUE, ref |-> p]

Payload == [country : Country, region : Regions, payer : {"sender", "receiver"}]

Booking ==
  [sent : Payload \cup {None}, locating : BOOLEAN, pickup : BOOLEAN, payer : {"sender", "receiver"}, filled : BOOLEAN,
   country : Country, region : Regions, picker : {"none", "country", "region"},
   page : Page, alert : {"none", "missing", "failed", "booked", "paid", "unpaid"}]

NewBooking ==
  [sent |-> None, locating |-> TRUE, pickup |-> FALSE, payer |-> "sender", filled |-> FALSE,
   country |-> "Ghana", region |-> "", picker |-> "none", page |-> NoPage, alert |-> "none"]

(* A row of the lists, or of the sheet, as the app holds it.               *)
Shown == [status : {None, "pending", "picked_up", "delivered"}, paid : BOOLEAN]
List  == [Parcel -> Shown \cup {None}]

Deliveries ==
  [tab : {"sent", "to_pay"}, rows : List, loading : BOOLEAN, refreshing : BOOLEAN,
   sheet : {"closed", "loading", "open"}, sel : Parcel \cup {None},
   row : Shown \cup {None}, rated : BOOLEAN,
   desk : {"none", "star", "rating", "text", "filing", "filed"},
   code : Parcel \cup {None}, paying : BOOLEAN, page : Page, alert : BOOLEAN]

NoRows == [p \in Parcel |-> None]

NewDeliveries ==
  [tab |-> "sent", rows |-> NoRows, loading |-> TRUE, refreshing |-> FALSE,
   sheet |-> "closed", sel |-> None, row |-> None, rated |-> FALSE, desk |-> "none",
   code |-> None, paying |-> FALSE, page |-> NoPage, alert |-> FALSE]

Asked == {"detail", "pay", "rate", "complain", "verify", "verify booked"} \X Parcel

(* Every variable has its type; a sheet that is open shows a delivery.     *)
TypeOK ==
  /\ srv \in [Parcel -> Row \cup {None}]
  /\ top \in {"book", "track", "crashed"}
  /\ b \in Booking /\ t \in Deliveries
  /\ (t.sheet = "open" => t.sel # None)
  /\ polls \subseteq List /\ asked \subseteq Asked

-----------------------------------------------------------------------------
(* The server and Paystack (internal/delivery).                            *)

Progress(p) ==
  /\ srv[p] # None /\ srv[p].paid /\ srv[p].status # "delivered"
  /\ srv' = [srv EXCEPT ![p].status = IF @ = "pending" THEN "picked_up" ELSE "delivered"]
  /\ UNCHANGED <<top, b, t, polls, asked>>

Settled(p) == IF srv[p].charged THEN [srv EXCEPT ![p].paid = TRUE] ELSE srv

Webhook(p) ==
  /\ srv[p] # None /\ srv[p].charged /\ ~srv[p].paid
  /\ srv' = Settled(p) /\ UNCHANGED <<top, b, t, polls, asked>>

Payable(p) == ~srv[p].paid /\ (p \in Theirs <=> srv[p].payer = "receiver")

(* What the two lists bring.  Those to pay are rows of delivery_orders,    *)
(* which have no status.                                                   *)
Listed(s) ==
  [p \in Parcel |->
     IF s[p] = None \/ (p \in Theirs /\ s[p].paid) THEN None
     ELSE [status |-> IF p \in Theirs THEN None ELSE s[p].status, paid |-> s[p].paid]]

-----------------------------------------------------------------------------
(* Booking.                                                                *)

Free    == b.page.shut /\ t.page.shut /\ b.alert = "none" /\ ~t.alert
Spent   == \A p \in Mine : srv[p] # None        \* bound: no more is booked
Form    == Free /\ top = "book" /\ b.picker = "none"
Edit    == Form /\ ~Spent
Idle    == UNCHANGED <<srv, top, t, polls, asked>>

LocationAnswer(found) ==
  /\ b.locating /\ Idle
  /\ b' = [b EXCEPT !.locating = FALSE, !.pickup = @ \/ found]

TypePickup == Edit /\ ~b.pickup /\ b' = [b EXCEPT !.pickup = TRUE] /\ Idle
FillIn     == Edit /\ ~b.filled /\ b' = [b EXCEPT !.filled = TRUE] /\ Idle
SetPayerType(q) == Edit /\ b' = [b EXCEPT !.payer = q] /\ Idle

OpenPicker(k) ==
  /\ Edit /\ (k = "region" => b.country = "Ghana")
  /\ b' = [b EXCEPT !.picker = k] /\ Idle

ClosePicker == Free /\ b.picker # "none" /\ b' = [b EXCEPT !.picker = "none"] /\ Idle

(* Mutant: the region picked or typed before stays.                        *)
CountryOnly(c) ==
  /\ Free /\ b.picker = "country" /\ Idle
  /\ b' = [b EXCEPT !.country = c, !.picker = "none"]

PickCountry(c) ==
  /\ Free /\ b.picker = "country" /\ Idle
  /\ b' = [b EXCEPT !.country = c, !.region = "", !.picker = "none"]

PickRegion(r) ==
  /\ Free /\ b.picker = "region" /\ Idle
  /\ b' = [b EXCEPT !.region = r, !.picker = "none"]

TypeRegion(r) ==
  Edit /\ b.country # "Ghana" /\ b' = [b EXCEPT !.region = r] /\ Idle

Missing == ~b.pickup \/ ~b.filled \/ (b.country = "Ghana" /\ b.region = "")

HandleRequest ==
  /\ Edit /\ b.sent = None /\ Idle
  /\ b' = IF Missing THEN [b EXCEPT !.alert = "missing"]
          ELSE [b EXCEPT !.sent =
                  [country |-> b.country, region |-> b.region, payer |-> b.payer]]

Booked(p) ==
  [srv EXCEPT ![p] = [status |-> "pending", payer |-> b.sent.payer, paid |-> FALSE,
     charged |-> FALSE, rated |-> FALSE, 
     fits |-> b.sent.region \in Region(b.sent.country) \cup {""}]]

(* A new My Deliveries is mounted.  Bound: one is followed, and the one    *)
(* with a page open above it.                                              *)
ToTrack(rest) ==
  IF t.page.shut
  THEN /\ top' = "track" /\ t' = NewDeliveries /\ polls' = {}
       /\ asked' = {a \in rest : a[1] = "verify booked"}
  ELSE top' = "track" /\ asked' = rest /\ UNCHANGED <<t, polls>>

Stay == UNCHANGED <<top, t, polls, asked>>

(* A sender gets a page to pay in, or, where Paystack did not answer the   *)
(* server, goes on to My Deliveries.                                       *)
RequestAnswer(p, url) ==
  /\ b.sent # None /\ srv[p] = None /\ p \in Mine /\ srv' = Booked(p)
  /\ IF b.sent.payer = "receiver"
     THEN b' = [b EXCEPT !.sent = None, !.alert = "booked"] /\ Stay
     ELSE IF url THEN b' = [b EXCEPT !.sent = None, !.page = PageOf(p)] /\ Stay
     ELSE b' = [b EXCEPT !.sent = None] /\ ToTrack(asked)

RequestFails ==                       \* also where the server has booked it
  /\ b.sent # None /\ Stay /\ b' = [b EXCEPT !.sent = None, !.alert = "failed"]
  /\ \/ UNCHANGED srv
     \/ \E p \in Mine : srv[p] = None /\ srv' = Booked(p)

(* Mutant: the phone's back gesture hides the page and asks nothing.       *)
HideBooked ==
  /\ ~b.page.shut /\ b' = [b EXCEPT !.page.shut = TRUE]
  /\ UNCHANGED <<srv, top, t, polls, asked>>

(* The cross, the back gesture, the button below, a redirect: all confirm. *)
ConfirmBooked ==
  /\ ~b.page.shut /\ b' = [b EXCEPT !.page.shut = TRUE]
  /\ asked' = asked \cup {<<"verify booked", b.page.ref>>}
  /\ UNCHANGED <<srv, top, t, polls>>

BookedVerified(p, ok) ==
  /\ <<"verify booked", p>> \in asked
  /\ srv' = IF ok THEN Settled(p) ELSE srv
  /\ IF ok THEN /\ b' = [b EXCEPT !.alert = IF srv[p].charged THEN "paid" ELSE "unpaid"]
                /\ asked' = asked \ {<<"verify booked", p>>} /\ UNCHANGED <<top, t, polls>>
     ELSE UNCHANGED b /\ ToTrack(asked \ {<<"verify booked", p>>})

TapOK ==
  /\ b.alert # "none" /\ b' = [b EXCEPT !.alert = "none"] /\ UNCHANGED srv
  /\ IF b.alert \in {"missing", "failed"} THEN Stay ELSE ToTrack(asked)

(* Bound: with a form half filled in the user does not look at the list.   *)
History ==
  /\ Form /\ (Spent \/ [b EXCEPT !.locating = TRUE, !.pickup = FALSE] = NewBooking)
  /\ ToTrack(asked) /\ UNCHANGED <<srv, b>>

-----------------------------------------------------------------------------
(* My Deliveries.                                                          *)

Track  == Free /\ top = "track"
Listing == Track /\ t.sheet = "closed"

ActiveList(v) == {p \in IF v.tab = "sent" THEN Mine ELSE Theirs : v.rows[p] # None}

(* A card shows item.status.replace(..): of a row without a status that    *)
(* raises, and the app is gone.                                            *)
Renders(v) == \A p \in ActiveList(v) : v.rows[p].status # None

Render(v) == IF Renders(v) THEN t' = v /\ UNCHANGED top ELSE t' = v /\ top' = "crashed"

FetchAll ==                           \* mounted, every 15 s, a push
  /\ top = "track" /\ Cardinality(polls) < MaxPolls
  /\ polls' = polls \cup {Listed(srv)} /\ UNCHANGED <<srv, top, b, t, asked>>

OnRefresh ==
  /\ Listing /\ ~t.loading /\ Cardinality(polls) < MaxPolls
  /\ t' = [t EXCEPT !.refreshing = TRUE] /\ polls' = polls \cup {Listed(srv)}
  /\ UNCHANGED <<srv, top, b, asked>>

PollAnswer(r, ok) ==
  /\ r \in polls /\ top = "track" /\ polls' = polls \ {r} /\ UNCHANGED <<srv, b, asked>>
  /\ Render([t EXCEPT !.loading = FALSE, !.refreshing = FALSE, !.rows = IF ok THEN r ELSE @])

SetTab(k) ==
  Listing /\ Render([t EXCEPT !.tab = k]) /\ UNCHANGED <<srv, b, polls, asked>>

NewOne ==                             \* "+", "Book a Delivery": a new form
  /\ Listing /\ b.sent = None /\ ~\E p \in Mine : <<"verify booked", p>> \in asked
  /\ top' = "book" /\ b' = NewBooking /\ UNCHANGED <<srv, t, polls, asked>>

Back ==
  /\ Listing /\ top' = "book" /\ t' = NewDeliveries /\ polls' = {}
  /\ asked' = {a \in asked : a[1] = "verify booked"} /\ UNCHANGED <<srv, b>>

Reopen ==                             \* the app is started again
  /\ top = "crashed" /\ top' = "book" /\ b' = NewBooking /\ t' = NewDeliveries
  /\ polls' = {} /\ asked' = {} /\ UNCHANGED srv

Quiet == Cardinality(asked) < MaxAsked

OpenDetail(p) ==
  /\ Quiet /\ Listing /\ p \in ActiveList(t)
  /\ t' = [t EXCEPT !.sheet = "loading", !.desk = "none", !.code = None]
  /\ asked' = asked \cup {<<"detail", p>>} /\ UNCHANGED <<srv, top, b, polls>>

CloseSheet ==
  /\ Track /\ t.sheet # "closed" /\ t' = [t EXCEPT !.sheet = "closed", !.code = None]
  /\ UNCHANGED <<srv, top, b, polls, asked>>

Answer(kind, p) ==
  <<kind, p>> \in asked /\ asked' = asked \ {<<kind, p>>} /\ UNCHANGED <<top, b>>

(* Mutant: an error leaves the sheet open.                                 *)
DetailKeepsSheet(p, ok) ==
  /\ Answer("detail", p) /\ UNCHANGED <<srv, polls>>
  /\ t' = [t EXCEPT !.sheet = IF @ = "loading" THEN "open" ELSE @,
                     !.sel = IF ok THEN p ELSE @]

DetailAnswer(p, ok) ==
  /\ Answer("detail", p) /\ UNCHANGED <<srv, polls>>
  /\ t' = IF ok THEN [t EXCEPT !.sheet = IF @ = "loading" THEN "open" ELSE @, !.sel = p,
                       !.row = [status |-> srv[p].status, paid |-> srv[p].paid],
                       !.rated = srv[p].rated]
          ELSE [t EXCEPT !.sheet = "closed", !.code = None]

(* What the sheet shows, and the taps it offers.                           *)
Grid      == {"status", "payment", "route", "parcel"}
Driver    == {"driver"}               \* "Assigning driver..." is a name, too
CodeBox   == IF t.row.status = "picked_up" THEN {"code"} ELSE {}
RatingBox == IF t.row.status = "delivered" /\ ~t.rated THEN {"rate"} ELSE {}
PayButton == IF ~t.row.paid /\ ~t.paying THEN {"pay"} ELSE {}

Sheet ==
  IF Track /\ t.sheet = "open"
  THEN Grid \cup Driver \cup CodeBox \cup RatingBox \cup PayButton ELSE {}

FetchOtp ==                           \* every five seconds; it may bring nothing
  /\ "code" \in Sheet /\ srv[t.sel].status = "picked_up"
  /\ t' = [t EXCEPT !.code = t.sel] /\ UNCHANGED <<srv, top, b, polls, asked>>

Desk(from, to) ==
  t.desk \in from /\ t' = [t EXCEPT !.desk = to] /\ UNCHANGED <<srv, top, b, polls>>

TapStar       == "rate" \in Sheet /\ Desk({"none"}, "star") /\ UNCHANGED asked
OpenComplaint == "driver" \in Sheet /\ Desk({"none", "star"}, "text") /\ UNCHANGED asked
CancelComplaint == "driver" \in Sheet /\ Desk({"text"}, "none") /\ UNCHANGED asked

HandleRateDelivery ==
  /\ Quiet /\ "rate" \in Sheet /\ Desk({"star"}, "rating")
  /\ asked' = asked \cup {<<"rate", t.sel>>}

HandleFileParcelComplaint ==
  /\ Quiet /\ "driver" \in Sheet /\ Desk({"text"}, "filing")
  /\ asked' = asked \cup {<<"complain", t.sel>>}

RateAnswer(p, heard) ==
  LET takes == p \in Mine /\ srv[p].status = "delivered" /\ ~srv[p].rated
      ok    == takes /\ heard
  IN /\ Answer("rate", p) /\ UNCHANGED polls
     /\ srv' = IF takes THEN [srv EXCEPT ![p].rated = TRUE] ELSE srv
     /\ t' = [t EXCEPT !.rated = @ \/ ok,
                       !.desk = IF @ # "rating" THEN @ ELSE IF ok THEN "none" ELSE "star"]

ComplainAnswer(p, ok) ==
  /\ Answer("complain", p) /\ UNCHANGED <<srv, polls>>
  /\ t' = [t EXCEPT !.desk = IF ok THEN "filed" ELSE IF @ = "filing" THEN "text" ELSE @]

(* A card of the second tab offers to pay as well.                         *)
HandlePay ==
  /\ Quiet /\ "pay" \in Sheet /\ t' = [t EXCEPT !.paying = TRUE]
  /\ asked' = asked \cup {<<"pay", t.sel>>} /\ UNCHANGED <<srv, top, b, polls>>

PayAnswer(p, heard) ==
  /\ Answer("pay", p) /\ UNCHANGED <<srv, polls>>
  /\ t' = IF Payable(p) /\ heard
          THEN [t EXCEPT !.paying = FALSE, !.sheet = "closed", !.code = None, !.page = PageOf(p)]
          ELSE [t EXCEPT !.paying = FALSE]

ConfirmPayment ==
  /\ ~t.page.shut /\ t' = [t EXCEPT !.page.shut = TRUE]
  /\ asked' = asked \cup {<<"verify", t.page.ref>>} /\ UNCHANGED <<srv, top, b, polls>>

(* A success is told; then, or at once, the lists are fetched again.       *)
PaymentVerified(p, ok) ==
  /\ Answer("verify", p) /\ srv' = IF ok THEN Settled(p) ELSE srv
  /\ IF ok /\ srv[p].charged THEN t' = [t EXCEPT !.alert = TRUE] /\ UNCHANGED polls
     ELSE /\ UNCHANGED t
          /\ polls' = IF Cardinality(polls) < MaxPolls THEN polls \cup {Listed(srv)} ELSE polls

TapPaid ==
  /\ t.alert /\ t' = [t EXCEPT !.alert = FALSE]
  /\ polls' = IF Cardinality(polls) < MaxPolls THEN polls \cup {Listed(srv)} ELSE polls
  /\ UNCHANGED <<srv, top, b, asked>>

-----------------------------------------------------------------------------
(* Paystack's page, on either screen.                                      *)

PageLoads ==
  /\ UNCHANGED <<srv, top, polls, asked>>
  /\ \/ ~b.page.shut /\ b' = [b EXCEPT !.page.loading = FALSE] /\ UNCHANGED t
     \/ ~t.page.shut /\ t' = [t EXCEPT !.page.loading = FALSE] /\ UNCHANGED b

PayInPage(p) ==
  /\ p \in {x.ref : x \in {y \in {b.page, t.page} : ~y.shut /\ ~y.loading}}
  /\ srv' = [srv EXCEPT ![p].charged = TRUE] /\ UNCHANGED <<top, b, t, polls, asked>>

-----------------------------------------------------------------------------
Init ==
  /\ srv = [p \in Parcel |-> IF p \in Mine THEN None
             ELSE [status |-> "pending", payer |-> "receiver", paid |-> FALSE,
                   charged |-> FALSE, rated |-> FALSE, fits |-> TRUE]]
  /\ top = "book" /\ b = NewBooking /\ t = NewDeliveries /\ polls = {} /\ asked = {}

Pages == PageLoads \/ \E p \in Parcel : PayInPage(p)

Server == \E p \in Parcel : Progress(p) \/ Webhook(p)

Book ==
  \/ \E ok \in BOOLEAN : LocationAnswer(ok) \/ \E p \in Parcel : RequestAnswer(p, ok)
  \/ TypePickup \/ FillIn \/ ClosePicker \/ HandleRequest \/ RequestFails \/ TapOK \/ History
  \/ \E q \in {"sender", "receiver"} : SetPayerType(q)
  \/ \E k \in {"country", "region"} : OpenPicker(k)
  \/ \E c \in Country : PickCountry(c)
  \/ \E r \in Region("Ghana") : PickRegion(r)
  \/ \E r \in Region("Togo") \cup {""} : TypeRegion(r)
  \/ ConfirmBooked \/ \E p \in Parcel, ok \in BOOLEAN : BookedVerified(p, ok)

Lists ==
  \/ FetchAll \/ OnRefresh \/ NewOne \/ Back
  \/ \E r \in polls, ok \in BOOLEAN : PollAnswer(r, ok)
  \/ \E k \in {"sent", "to_pay"} : SetTab(k)

Details ==
  \/ CloseSheet \/ FetchOtp \/ TapStar \/ OpenComplaint \/ CancelComplaint
  \/ HandleRateDelivery \/ HandleFileParcelComplaint \/ HandlePay \/ ConfirmPayment \/ TapPaid
  \/ \E p \in Parcel :
       \/ OpenDetail(p)
       \/ \E ok \in BOOLEAN : \/ DetailAnswer(p, ok) \/ RateAnswer(p, ok)
                              \/ ComplainAnswer(p, ok) \/ PayAnswer(p, ok)
                              \/ PaymentVerified(p, ok)

Next == Server \/ Reopen \/ (top # "crashed" /\ (Book \/ Lists \/ Details \/ Pages))

Spec == Init /\ [][Next]_vars

-----------------------------------------------------------------------------
(* Properties.                                                             *)

(* A booking names no region of another country, whatever was picked and   *)
(* typed before in which order: the server prices the trip by it.          *)
RegionFitsCountry ==
  \A p \in Mine : srv[p] # None => srv[p].fits

(* A payment page, however it is left, leaves a question to the server     *)
(* about the payment it was opened for.                                    *)
PageIsVerified ==
  [][top # "crashed" =>
       /\ ~b.page.shut /\ b'.page.shut => <<"verify booked", b.page.ref>> \in asked'
       /\ ~t.page.shut /\ t'.page.shut => <<"verify", t.page.ref>> \in asked']_vars

(* "To Pay" can be looked at: types/delivery.ts gives every delivery of    *)
(* the lists a status.                                                     *)
ListsAreShown == top # "crashed"

=============================================================================
