---------------------------- MODULE ShopperOrder ----------------------------
(***************************************************************************)
(* The life of a shopper order: created, paid at Paystack, prepared and    *)
(* delivered, or cancelled, or refunded.                                   *)
(*                                                                         *)
(* An order row carries its status and one Paystack reference.  Handlers   *)
(* read the row, call Paystack for up to fifteen seconds, and then write:  *)
(* some write single columns by the row's key, PayOrder and CancelOrder    *)
(* save the whole row they read.  Meanwhile the webhook, staff, the driver *)
(* and the watchers write the same row.  A request may stop after any of   *)
(* its steps: its next call fails, or the server restarts.                 *)
(*                                                                         *)
(* Staff (SokoWeb) and the driver appear as what they do to the status;    *)
(* order_deliveries rows are told apart by whether they exist.             *)
(***************************************************************************)
CONSTANTS
  Order,       \* orders rows that may be created
  Ref,         \* Paystack references that may be generated (uuids)
  Proc,        \* requests the API server handles at the same time
  Reported,    \* what tracking requests write: statuses the column takes
  None         \* an empty reference, or "no value" of a handler's local


VARIABLES
  order,      \* the orders rows: status and paystack_reference
  short,      \* orders for which PayOrder asks a pesewa less than the total
  sent,       \* orders that have an order_deliveries row
  tx,         \* tx[r]: the transaction at Paystack, and the order it is for
  payment,    \* payment[r]: status of the payments row with reference r
  stray,      \* history: orders whose status a tracking request has written
              \* other than as the app of the order's own driver does
  proc,       \* proc[p]: the request p is handling, and the row it has read
  confirmed,  \* references whose charge.success has confirmed an order
  flagged     \* orders the stuck-order watcher wrote an audit entry about

logs == <<confirmed, flagged, stray>>
vars == <<order, short, sent, tx, payment, proc, logs>>

(* "pending", the column's default, is written by a tracking request only. *)
Status == {"absent", "pending", "payment_pending", "payment_confirmed", "preparing",
           "ready_for_pickup", "assigned_to_driver", "picked_up",
           "in_transit", "delivered", "cancelled", "refunded"}

Awaiting   == {"pending", "payment_pending"}
PaidStatus == Status \ ({"absent", "cancelled"} \cup Awaiting)
Progress   == {"picked_up", "in_transit", "delivered"}

ASSUME ConstantsAssumption ==
  /\ None \notin Order \cup Ref
  /\ Reported \subseteq Status \ {"absent"}

Row     == [status : Status, ref : Ref \cup {None}]
TxState == {"unused", "issued", "open", "charged", "refunding", "refunded", "kept"}
Request == [pc : {"idle", "cancel", "pay", "verify", "mismatch", "confirm",
                  "record", "refund", "refunded", "unpay"},
            order : Order \cup {None}, row : Row, ref : Ref \cup {None}]

(* Every variable has its type; a row's status is one the enum type of the *)
(* column knows.                                                           *)
TypeOK ==
  /\ order \in [Order -> Row]
  /\ short \subseteq Order /\ sent \subseteq Order
  /\ tx \in [Ref -> [st : TxState, order : Order \cup {None}]]
  /\ payment \in [Ref -> {"none", "success", "refunded"}]
  /\ proc \in [Proc -> Request]
  /\ confirmed \subseteq Ref
  /\ flagged \subseteq Order /\ stray \subseteq Order

NoRow == [status |-> "absent", ref |-> None]
Idle  == [pc |-> "idle", order |-> None, row |-> NoRow, ref |-> None]

Init ==
  /\ order = [o \in Order |-> NoRow]
  /\ short = {} /\ sent = {}
  /\ tx = [r \in Ref |-> [st |-> "unused", order |-> None]]
  /\ payment = [r \in Ref |-> "none"]
  /\ proc = [p \in Proc |-> Idle]
  /\ confirmed = {}
  /\ flagged = {} /\ stray = {}

-----------------------------------------------------------------------------
(* Helpers                                                                 *)

At(p, pc) == proc[p].pc = pc
Goto(p, pc) == proc' = [proc EXCEPT ![p].pc = pc]
Finish(p) == proc' = [proc EXCEPT ![p] = Idle]

(* The handler reads order o's row and goes on with that copy.             *)
Read(p, pc, o, r) ==
  proc' = [proc EXCEPT ![p] = [pc |-> pc, order |-> o, row |-> order[o],
                               ref |-> r]]

SetStatus(o, s) == order' = [order EXCEPT ![o].status = s]

(* A charge whose refund Paystack has accepted is under way back to the    *)
(* customer, has gone back, or is kept after all.                          *)
Accepted(r) == tx[r].st \in {"refunding", "refunded", "kept"}
Taken(r)    == tx[r].st = "charged" \/ Accepted(r)
Charged(o)  == \E r \in Ref : tx[r].order = o /\ Taken(r)
Repaid(o)   == \E r \in Ref : tx[r].order = o /\ Accepted(r)

-----------------------------------------------------------------------------
(* The customer's requests                                                 *)

(* The new row's reference is empty, and paystack_reference is unique.     *)
(* The total is a float of cedis: times 100 and cut off, as PayOrder asks  *)
(* for it, it may fall a pesewa short of the total (19.99 gives 1998).     *)
CreateOrder(o) ==
  /\ order[o].status = "absent"
  /\ \A q \in Order : order[q].status # "absent" => order[q].ref # None
  /\ SetStatus(o, "payment_pending")
  /\ short' \in {short, short \cup {o}}
  /\ UNCHANGED <<sent, tx, payment, proc, logs>>

CancelOrder(p, o) ==
  /\ At(p, "idle")
  /\ order[o].status \in Awaiting
  /\ Read(p, "cancel", o, None)
  /\ UNCHANGED <<order, short, sent, tx, payment, logs>>

SaveCancelled(p) ==
  /\ At(p, "cancel")
  /\ order' = [order EXCEPT
                 ![proc[p].order] = [proc[p].row EXCEPT !.status = "cancelled"]]
  /\ Finish(p)
  /\ UNCHANGED <<short, sent, tx, payment, logs>>

(* PayOrder reads an order awaiting payment and asks Paystack for a        *)
(* checkout under a fresh reference ...                                    *)
PayOrder(p, o, r) ==
  /\ At(p, "idle")
  /\ order[o].status \in Awaiting
  /\ tx[r].st = "unused"
  /\ tx' = [tx EXCEPT ![r] = [st |-> "issued", order |-> o]]
  /\ Read(p, "pay", o, r)
  /\ UNCHANGED <<order, short, sent, payment, logs>>

(* ... and saves the row it read with that reference, whatever the row     *)
(* says now; only then the customer is given the checkout's address.       *)
SaveReference(p) ==
  LET r == proc[p].ref IN
  /\ At(p, "pay")
  /\ order' = [order EXCEPT
                 ![proc[p].order] = [proc[p].row EXCEPT !.ref = r]]
  /\ tx' = [tx EXCEPT ![r].st = "open"]
  /\ Finish(p)
  /\ UNCHANGED <<short, sent, payment, logs>>

(* On Paystack's page; earlier checkouts of the order stay payable.        *)
Pay(r) ==
  /\ tx[r].st = "open"
  /\ tx' = [tx EXCEPT ![r].st = "charged"]
  /\ UNCHANGED <<order, short, sent, payment, proc, logs>>

VerifyOrderPayment(p, o, r) ==
  /\ At(p, "idle")
  /\ order[o].ref = r
  /\ Read(p, "verify", o, r)
  /\ UNCHANGED <<order, short, sent, tx, payment, logs>>

(* Mutant: the provider's status is not looked at.                         *)
TrustVerify(p) ==
  /\ At(p, "verify")
  /\ IF proc[p].row.status \in Awaiting
       THEN Goto(p, "confirm")
       ELSE Finish(p)
  /\ UNCHANGED <<order, short, sent, tx, payment, logs>>

(* Paystack's answer, weighed against the row read before the call: the    *)
(* transaction is a "success" until its charge has gone back, the amount   *)
(* must reach the total, rounded to pesewas, and only an order that was    *)
(* awaiting payment goes on.                                               *)
WeighAnswer(p) ==
  /\ At(p, "verify")
  /\ LET paid     == Taken(proc[p].ref) /\ tx[proc[p].ref].st # "refunded"
         inFull   == proc[p].order \notin short
         awaiting == proc[p].row.status \in Awaiting
     IN  \/ paid /\ ~inFull /\ Goto(p, "mismatch")
         \/ paid /\ inFull /\ awaiting /\ Goto(p, "confirm")
         \/ (~paid \/ (inFull /\ ~awaiting)) /\ Finish(p)
  /\ UNCHANGED <<order, short, sent, tx, payment, logs>>

ConfirmVerified(p) ==
  /\ At(p, "confirm")
  /\ SetStatus(proc[p].order, "payment_confirmed")
  /\ Goto(p, "record")
  /\ UNCHANGED <<short, sent, tx, payment, logs>>

(* The payments row, unless there is one with this reference.              *)
RecordPayment(p) ==
  LET r == proc[p].ref IN
  /\ At(p, "record")
  /\ payment' = [payment EXCEPT ![r] = IF @ = "none" THEN "success" ELSE @]
  /\ Finish(p)
  /\ UNCHANGED <<order, short, sent, tx, logs>>

-----------------------------------------------------------------------------
(* RefundOrder                                                             *)

RefundOrder(p, o) ==
  /\ At(p, "idle")
  /\ order[o].status = "payment_confirmed" /\ order[o].ref # None
  /\ Read(p, "refund", o, order[o].ref)
  /\ UNCHANGED <<order, short, sent, tx, payment, logs>>

(* Mutant: the order is marked whatever the provider answers.              *)
TrustRefund(p) ==
  LET r == proc[p].ref IN
  /\ At(p, "refund")
  /\ tx' = IF tx[r].st = "charged" THEN [tx EXCEPT ![r].st = "refunding"] ELSE tx
  /\ Goto(p, "refunded")
  /\ UNCHANGED <<order, short, sent, payment, logs>>

(* Paystack accepts the refund of a charge it holds; whether the refund is *)
(* pending, processed or has failed already is only told to the customer.  *)
CallRefund(p) ==
  LET r == proc[p].ref IN
  /\ At(p, "refund")
  /\ tx[r].st \in {"charged", "kept"}
  /\ tx' = [tx EXCEPT ![r].st = "refunding"]
  /\ Goto(p, "refunded")
  /\ UNCHANGED <<order, short, sent, payment, logs>>

(* Later the refund is processed, or it fails; the server is not told.     *)
SettleRefund(r) ==
  /\ tx[r].st = "refunding"
  /\ \E st \in {"refunded", "kept"} : tx' = [tx EXCEPT ![r].st = st]
  /\ UNCHANGED <<order, short, sent, payment, proc, logs>>

MarkRefunded(p) ==
  /\ At(p, "refunded")
  /\ SetStatus(proc[p].order, "refunded")
  /\ Goto(p, "unpay")
  /\ UNCHANGED <<short, sent, tx, payment, logs>>

(* Every payments row of the order.                                        *)
MarkPaymentsRefunded(p) ==
  /\ At(p, "unpay")
  /\ payment' = [r \in Ref |->
                   IF tx[r].order = proc[p].order /\ payment[r] # "none"
                     THEN "refunded" ELSE payment[r]]
  /\ Finish(p)
  /\ UNCHANGED <<order, short, sent, tx, logs>>

-----------------------------------------------------------------------------
(* Everybody else                                                          *)

(* charge.success with a SK-SHOP- reference, delivered any number of       *)
(* times: one update of the rows that carry the reference, in whatever     *)
(* status; none of them, or an error, is audited.                          *)
HandlePaystack(r) ==
  /\ Taken(r)
  /\ \/ \E o \in Order :
          /\ order[o].ref = r
          /\ SetStatus(o, "payment_confirmed")
          /\ confirmed' = confirmed \cup {r}
     \/ UNCHANGED <<order, confirmed>>
  /\ UNCHANGED <<short, sent, tx, payment, proc, flagged, stray>>

(* Staff take a paid order to the kitchen and to a driver.                 *)
PrepareOrder(o) ==
  /\ \/ order[o].status = "payment_confirmed" /\ SetStatus(o, "preparing")
     \/ order[o].status = "preparing" /\ SetStatus(o, "ready_for_pickup")
  /\ UNCHANGED <<short, sent, tx, payment, proc, logs>>

AssignOrder(o) ==
  /\ order[o].status = "ready_for_pickup"
  /\ SetStatus(o, "assigned_to_driver")
  /\ sent' = sent \cup {o}
  /\ UNCHANGED <<short, tx, payment, proc, logs>>

(* Mutant: the app's status goes into the order's row as it comes.         *)
UpdateUnmapped(o) ==
  /\ order[o].status # "absent"
  /\ \E s \in {"assigned"} \cup Progress : SetStatus(o, s)
  /\ UNCHANGED <<short, sent, tx, payment, proc, logs>>

(* A tracking request names any order and any status the column takes: the *)
(* handler asks neither for an order_deliveries row nor for its driver.    *)
(* The driver of an order_deliveries row reports progress, or the          *)
(* customer's code; every other request is a stray one.                    *)
UpdateOrderTracking(o) ==
  /\ order[o].status # "absent"
  /\ \E s \in Reported :
       /\ SetStatus(o, s)
       /\ stray' = IF o \in sent /\ s \in Progress THEN stray ELSE stray \cup {o}
  /\ UNCHANGED <<short, sent, tx, payment, proc, confirmed, flagged>>

(* No pickup within the window.                                            *)
ResetExpiredShopperOrders(S) ==
  /\ S # {} /\ \A o \in S : order[o].status = "assigned_to_driver"
  /\ order' = [o \in Order |->
                 IF o \in S THEN [order[o] EXCEPT !.status = "ready_for_pickup"]
                            ELSE order[o]]
  /\ UNCHANGED <<short, sent, tx, payment, proc, logs>>

(* An order that has awaited payment for long; one entry is enough.        *)
FlagStuckPendingPayments(o) ==
  /\ order[o].status = "payment_pending"
  /\ o \notin flagged
  /\ flagged' = flagged \cup {o}
  /\ UNCHANGED <<order, short, sent, tx, payment, proc, confirmed, stray>>

(* The request ends here: the next call it makes fails, an answer does not *)
(* come in time, the server restarts, or (mismatch) it has answered.       *)
Stop(p) ==
  /\ ~At(p, "idle")
  /\ Finish(p)
  /\ UNCHANGED <<order, short, sent, tx, payment, logs>>

-----------------------------------------------------------------------------

Asking(p) ==
  \E o \in Order :
    \/ CancelOrder(p, o)
    \/ \E r \in Ref : PayOrder(p, o, r)
    \/ \E r \in Ref : VerifyOrderPayment(p, o, r)
    \/ RefundOrder(p, o)

Handling(p) ==
  \/ SaveCancelled(p)
  \/ SaveReference(p)
  \/ WeighAnswer(p)
  \/ ConfirmVerified(p)
  \/ RecordPayment(p)
  \/ CallRefund(p)
  \/ MarkRefunded(p)
  \/ MarkPaymentsRefunded(p)

Next ==
  \/ \E o \in Order : CreateOrder(o)
  \/ \E p \in Proc : Asking(p)
  \/ \E p \in Proc : Handling(p)
  \/ \E r \in Ref : Pay(r)
  \/ \E r \in Ref : SettleRefund(r)
  \/ \E r \in Ref : HandlePaystack(r)
  \/ \E o \in Order : PrepareOrder(o)
  \/ \E o \in Order : AssignOrder(o)
  \/ \E o \in Order : UpdateOrderTracking(o)
  \/ \E S \in SUBSET Order : ResetExpiredShopperOrders(S)
  \/ \E o \in Order : FlagStuckPendingPayments(o)
  \/ \E p \in Proc : Stop(p)

Spec == Init /\ [][Next]_vars

-----------------------------------------------------------------------------
(* Properties                                                              *)

(* An order is treated as paid only after a charge made for that order,    *)
(* and a payments row stands for a charge: whatever the order in which     *)
(* checkouts are opened, replaced, verified, cancelled and refunded.  Only *)
(* an order whose status a stray tracking request has written is excepted. *)
PaidMeansCharged ==
  /\ \A o \in Order : order[o].status \in PaidStatus => Charged(o) \/ o \in stray
  /\ \A r \in Ref : payment[r] # "none" => Taken(r)

(* An order marked refunded, or a payments row so marked, means that       *)
(* Paystack has accepted the refund of a charge of that order, unless, for *)
(* the order, a stray tracking request has written its status.             *)
RefundedMeansAccepted ==
  /\ \A o \in Order : order[o].status = "refunded" => Repaid(o) \/ o \in stray
  /\ \A r \in Ref : payment[r] = "refunded" => Repaid(tx[r].order)

(* What the app tells the customer of a refunded order: the charge has     *)
(* gone back or is on its way.                                             *)
RefundedMeansReturned ==
  \A o \in Order :
    order[o].status = "refunded" =>
      \E r \in Ref : tx[r].order = o /\ tx[r].st \in {"refunding", "refunded"}

(* What the watcher flags is an order whose webhook never arrived or       *)
(* failed, or whose checkout was abandoned: no webhook has confirmed a     *)
(* payment of it.                                                          *)
FlaggedMeansUnconfirmed ==
  [][\A o \in flagged' \ flagged : 
       \A r \in confirmed : tx[r].order # o]_vars

(* A customer who has paid what PayOrder asked for has paid the full       *)
(* amount: verify never answers amount_mismatch to them.                   *)
PaidAsAskedIsPaid ==
  \A p \in Proc : At(p, "mismatch") => ~Taken(proc[p].ref)

=============================================================================
