---------------------------- MODULE MCAppScreens ----------------------------
(* The components of the app of which only safety is asked, checked in one *)
(* run.  They share no state, so a behaviour is one of one of them, and    *)
(* the others stay as they begin.                                          *)
EXTENDS Naturals

CONSTANTS Product, Order,                     \* ShopperCheckout
          Mine, Theirs, MaxPolls, MaxAsked,   \* ParcelApp
          Job, Balance, MaxWatches, MaxStops, \* DriverDesk
          MaxCodes, MaxWrong, MaxFails, MaxCalls, MaxFaults,   \* SignIn
          User, MaxLate,                      \* Session
          Card, Blank,                        \* IdentityForm
          None

ASSUME AppAssumption ==
  /\ None \notin Product \cup Order \cup Mine \cup Theirs \cup User \cup Card \cup {Blank}
  /\ Mine \cap Theirs = {} /\ Blank \notin Card
  /\ {MaxPolls, MaxAsked, Balance, MaxCodes, MaxCalls, MaxFaults, MaxLate} \subseteq Nat
  /\ {MaxWatches, MaxStops, MaxWrong, MaxFails} \subseteq Nat \ {0}

VARIABLES part, top, cart, form, calls, alerts, order, charged,
          srv, page, b, t, polls, asked,
          online, s, pushed, pop, owed, m, answers,
          acct, row, reset, mail, requests, a,
          disk, mem, op, late, live, at,
          shown, k, sent

checkout == <<top, cart, form, calls, alerts, order, charged>>
parcels  == <<srv, page, b, t, polls, asked>>
desk     == <<online, s, pushed, pop, owed, m, answers>>
account  == <<acct, row, reset, mail, requests, a>>
session  == <<disk, mem, op, late, live, at>>
identity == <<shown, k, sent>>

Checkout == INSTANCE ShopperCheckout
Parcels  == INSTANCE ParcelApp WITH top <- page
Desk     == INSTANCE DriverDesk
Account  == INSTANCE SignIn WITH calls <- requests
Own      == INSTANCE Session
Identity == INSTANCE IdentityForm

(* A form, a row or a call that is there is not None.                      *)
ASSUME NoneAssumption ==
  None \notin Checkout!Form \cup Parcels!Row \cup Parcels!Payload \cup Parcels!Shown

Init ==
  /\ part \in {"checkout", "parcels", "desk", "account", "session", "identity"}
  /\ Checkout!Init /\ Parcels!Init /\ Desk!Init /\ Account!Init /\ Own!Init /\ Identity!Init

Next ==
  /\ UNCHANGED part
  /\ \/ /\ part = "checkout" /\ Checkout!Next
        /\ UNCHANGED <<parcels, desk, account, session, identity>>
     \/ /\ part = "parcels" /\ Parcels!Next
        /\ UNCHANGED <<checkout, desk, account, session, identity>>
     \/ /\ part = "desk" /\ Desk!Next
        /\ UNCHANGED <<checkout, parcels, account, session, identity>>
     \/ /\ part = "account" /\ Account!Next
        /\ UNCHANGED <<checkout, parcels, desk, session, identity>>
     \/ /\ part = "session" /\ Own!Next
        /\ UNCHANGED <<checkout, parcels, desk, account, identity>>
     \/ /\ part = "identity" /\ Identity!Next
        /\ UNCHANGED <<checkout, parcels, desk, account, session>>

Spec == Init /\ [][Next]_<<part, checkout, parcels, desk, account, session, identity>>

(* Only the component that moves tells states apart; and once no more      *)
(* parcels are booked, what stands in the form of a booking makes no       *)
(* difference to any step or property.                                     *)
Booking == IF Parcels!Spent THEN <<b.sent, b.page, b.alert>> ELSE b

View ==
  CASE part = "checkout" -> <<part, checkout>>
    [] part = "parcels"  -> <<part, srv, page, Booking, t, polls, asked>>
    [] part = "desk"     -> <<part, desk>>
    [] part = "account"  -> <<part, account>>
    [] part = "session"  -> <<part, session>>
    [] part = "identity" -> <<part, identity>>

-----------------------------------------------------------------------------
(* The properties of the components, each stated and explained in its      *)
(* module.                                                                 *)

(* The types, and what each module says goes with them.                    *)
TypeOK ==
  /\ part = "checkout" => Checkout!TypeOK
  /\ part = "parcels"  => Parcels!TypeOK
  /\ part = "desk"     => Desk!TypeOK
  /\ part = "account"  => Account!TypeOK
  /\ part = "session"  => Own!TypeOK
  /\ part = "identity" => Identity!TypeOK

(* ShopperCheckout: a reference is verified with the order it belongs to.  *)
VerifiesItsOwnPayment == part = "checkout" => Checkout!VerifiesItsOwnPayment

(* ShopperCheckout: the cart is emptied only for an order that is paid.    *)
ClearedMeansPaid == Checkout!ClearedMeansPaid

(* ShopperCheckout: the end of the last call is shown.                     *)
AnswersAreShown == Checkout!AnswersAreShown

(* ParcelApp: a booking names no region of another country.                *)
RegionFitsCountry == part = "parcels" => Parcels!RegionFitsCountry

(* ParcelApp: a payment page that is left is asked about.                  *)
PageIsVerified == Parcels!PageIsVerified

(* DriverDesk: the switch says Live and no stop has crossed the start:     *)
(* the location is watched.                                                *)
LiveIsWatched == part = "desk" => Desk!LiveIsWatched

(* SignIn: an account whose address is not proved has its code's row.      *)
UnverifiedIsPending == part = "account" => Account!UnverifiedIsPending

(* Session: requests carry the token of the session in memory.             *)
RequestsAreOwn == part = "session" => Own!RequestsAreOwn

(* IdentityForm: a flagged submission's number was not read in its picture.*)
FlagIsOfCard == part = "identity" => Identity!FlagIsOfCard
=============================================================================
