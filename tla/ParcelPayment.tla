--------------------------- MODULE ParcelPayment ---------------------------
(***************************************************************************)
(* Payment of a parcel delivery and the creation of its driver assignment. *)
(*                                                                         *)
(* A delivery order carries one current Paystack reference.  The payer may *)
(* ask for a fresh one as long as the order is unpaid; checkouts opened    *)
(* under earlier references stay payable at Paystack.  A charge reaches    *)
(* the backend twice: through the mobile app, which calls the verify       *)
(* endpoint, and through Paystack's charge.success webhook, which also     *)
(* creates the assignment and queues the auto-assign job.                  *)
(*                                                                         *)
(* Every request is a process that takes one step per database or network  *)
(* call of its handler, so that requests interleave as they do in the      *)
(* server.  Paystack may deliver a webhook any number of times.            *)
(***************************************************************************)
EXTENDS Naturals, FiniteSets

CONSTANTS
  Order,        \* delivery_orders rows that may be created
  Ref,          \* Paystack references that may be generated (uuids)
  Assignment,   \* delivery_assignments rows that may be created
  Proc,         \* requests the API server handles at the same time
  None,         \* "no value" of a column or of a handler's local
  MaxCrashes,   \* how often the server process may stop and restart
  DbFaults,     \* whether a database or queue call may fail
  AdminCreates  \* whether SokoWeb's staff may create assignments by hand

ASSUME ConstantsAssumption ==
  /\ None \notin Order \cup Ref \cup Assignment
  /\ MaxCrashes \in Nat
  /\ DbFaults \in BOOLEAN
  /\ AdminCreates \in BOOLEAN

VARIABLES
  order,     \* order[o]: payment_status and paystack_ref of the row
  tx,        \* tx[r]: the checkout at Paystack, and the order it is for
  asg,       \* asg[a]: the order_id of an assignment row, None if unused
  tasks,     \* assignments whose auto-assign job has been enqueued
  audit,     \* what the critical entries written to audit_logs are about
  dropped,   \* what the entries were about that audit.Log could not write
  proc,      \* proc[p]: the request p is handling and how far it got
  answered,  \* references whose webhook was answered with 200
  reported,  \* references the verify endpoint reported as paid
  crashes    \* restarts so far

logs == <<audit, dropped>>
vars == <<order, tx, asg, tasks, logs, proc, answered, reported, crashes>>

PayStatus == {"absent", "pending", "success"}
TxState   == {"unused", "issued", "open", "charged"}
Pc        == {"idle", "reref", "open", "verified",
              "lookup", "mark", "check", "create", "enqueue"}

OrderRow == [pay : PayStatus, ref : Ref \cup {None}]
Checkout == [st : TxState, order : Order \cup {None}]
Subject  == Order \cup Ref \cup Assignment
Request  == [pc : Pc, order : Order \cup {None}, ref : Ref \cup {None},
             asg : Assignment \cup {None}]

(* Every variable has its type; in particular every job names an           *)
(* assignment.                                                             *)
TypeOK ==
  /\ order \in [Order -> OrderRow]
  /\ tx \in [Ref -> Checkout]
  /\ asg \in [Assignment -> Order \cup {None}]
  /\ tasks \subseteq Assignment
  /\ audit \subseteq Subject
  /\ dropped \subseteq Subject
  /\ proc \in [Proc -> Request]
  /\ answered \subseteq Ref
  /\ reported \subseteq Ref
  /\ crashes \in Nat

Idle == [pc |-> "idle", order |-> None, ref |-> None, asg |-> None]

Init ==
  /\ order = [o \in Order |-> [pay |-> "absent", ref |-> None]]
  /\ tx = [r \in Ref |-> [st |-> "unused", order |-> None]]
  /\ asg = [a \in Assignment |-> None]
  /\ tasks = {}
  /\ audit = {} /\ dropped = {}
  /\ proc = [p \in Proc |-> Idle]
  /\ answered = {}
  /\ reported = {}
  /\ crashes = 0

-----------------------------------------------------------------------------
(* Helpers                                                                 *)

At(p, pc) == proc[p].pc = pc
Finish(p) == proc' = [proc EXCEPT ![p] = Idle]
Goto(p, pc) == proc' = [proc EXCEPT ![p].pc = pc]
Start(p, pc, o, r) ==
  proc' = [proc EXCEPT
             ![p] = [pc |-> pc, order |-> o, ref |-> r, asg |-> None]]

(* audit.Log is best-effort: an entry the account database does not take   *)
(* is a line of stdout, and the handler goes on as if it were stored.  An  *)
(* entry names a reference when the lookup or the update failed, an order  *)
(* when the creation did, an assignment when queueing its job did.         *)
Log(about) ==
  \/ audit' = audit \cup {about} /\ UNCHANGED dropped
  \/ DbFaults /\ dropped' = dropped \cup {about} /\ UNCHANGED audit

(* The order some charge.success was paid for.                             *)
Charged(o) == \E r \in Ref : tx[r].order = o /\ tx[r].st = "charged"

HasAssignment(o) == \E a \in Assignment : asg[a] = o

-----------------------------------------------------------------------------
(* The payer's requests                                                    *)

(* RequestDelivery stores the order under a fresh reference.  A paying     *)
(* sender's checkout is opened by the same request; a paying receiver's is *)
(* opened later, by InitiatePayment.                                       *)
RequestDelivery(p, o, r) ==
  /\ At(p, "idle")
  /\ order[o].pay = "absent"
  /\ tx[r].st = "unused"
  /\ order' = [order EXCEPT ![o] = [pay |-> "pending", ref |-> r]]
  /\ tx' = [tx EXCEPT ![r] = [st |-> "issued", order |-> o]]
  /\ \/ Start(p, "open", None, r)
     \/ UNCHANGED proc
  /\ UNCHANGED <<asg, tasks, logs, answered, reported, crashes>>

(* InitiatePayment reads the order, refuses one that is already paid (the  *)
(* caller is the party responsible for the payment), and generates a fresh *)
(* reference.                                                              *)
InitiatePayment(p, o, r) ==
  /\ At(p, "idle")
  /\ order[o].pay = "pending"
  /\ tx[r].st = "unused"
  /\ tx' = [tx EXCEPT ![r] = [st |-> "issued", order |-> o]]
  /\ Start(p, "reref", o, r)
  /\ UNCHANGED <<order, asg, tasks, logs, answered, reported, crashes>>

(* Mutant: the row read earlier is saved whole.                            *)
SaveWholeRow(p) ==
  /\ At(p, "reref")
  /\ order' = [order EXCEPT
                 ![proc[p].order] = [pay |-> "pending", ref |-> proc[p].ref]]
  /\ Goto(p, "open")
  /\ UNCHANGED <<tx, asg, tasks, logs, answered, reported, crashes>>

(* ... then writes the one column paystack_ref, whatever the row says now. *)
SaveFreshRef(p) ==
  /\ At(p, "reref")
  /\ \/ /\ order' = [order EXCEPT ![proc[p].order].ref = proc[p].ref]
        /\ Goto(p, "open")
     \/ /\ DbFaults
        /\ Finish(p)
        /\ UNCHANGED order
  /\ UNCHANGED <<tx, asg, tasks, logs, answered, reported, crashes>>

(* initiatePaystack: the provider opens the checkout, or fails and leaves  *)
(* a reference nobody can pay.                                             *)
OpenCheckout(p) ==
  /\ At(p, "open")
  /\ \/ tx' = [tx EXCEPT ![proc[p].ref].st = "open"]
     \/ UNCHANGED tx
  /\ Finish(p)
  /\ UNCHANGED <<order, asg, tasks, logs, answered, reported, crashes>>

(* The customer pays an open checkout, on Paystack's page.                 *)
Pay(r) ==
  /\ tx[r].st = "open"
  /\ tx' = [tx EXCEPT ![r].st = "charged"]
  /\ UNCHANGED <<order, asg, tasks, logs, proc, answered, reported, crashes>>

-----------------------------------------------------------------------------
(* VerifyDeliveryPayment, called by the app when the checkout page closes  *)

(* Mutant: any transaction Paystack knows passes, paid or not.             *)
VerifyWithoutStatus(p, r) ==
  /\ At(p, "idle")
  /\ tx[r].st \in {"open", "charged"}
  /\ Start(p, "verified", None, r)
  /\ UNCHANGED <<order, tx, asg, tasks, logs, answered, reported, crashes>>

(* Paystack's verify API answers "success".                                *)
VerifyDeliveryPayment(p, r) ==
  /\ At(p, "idle")
  /\ tx[r].st = "charged"
  /\ Start(p, "verified", None, r)
  /\ UNCHANGED <<order, tx, asg, tasks, logs, answered, reported, crashes>>

(* The rows whose current reference is r are marked paid; the number of    *)
(* rows and the error are ignored, and the app is told "success".          *)
MarkVerified(p) ==
  LET r == proc[p].ref IN
  /\ At(p, "verified")
  /\ \/ order' = [o \in Order |->
                    IF order[o].ref = r THEN [order[o] EXCEPT !.pay = "success"]
                                        ELSE order[o]]
     \/ DbFaults /\ UNCHANGED order
  /\ reported' = reported \cup {r}
  /\ Finish(p)
  /\ UNCHANGED <<tx, asg, tasks, logs, answered, crashes>>

-----------------------------------------------------------------------------
(* HandlePaystack, SK-DEL- references                                      *)

(* Mutant: events other than charge.success are taken for one.             *)
ReceiveAnyEvent(p, r) ==
  /\ At(p, "idle")
  /\ tx[r].st \in {"open", "charged"}
  /\ Start(p, "lookup", None, r)
  /\ UNCHANGED <<order, tx, asg, tasks, logs, answered, reported, crashes>>

(* Paystack posts charge.success for a charged reference, again and again  *)
(* if it likes.                                                            *)
ReceiveWebhook(p, r) ==
  /\ At(p, "idle")
  /\ tx[r].st = "charged"
  /\ Start(p, "lookup", None, r)
  /\ UNCHANGED <<order, tx, asg, tasks, logs, answered, reported, crashes>>

(* Mutant: a reference no order carries is answered without an audit entry. *)
LookupOrderQuietly(p) ==
  LET r == proc[p].ref IN
  /\ At(p, "lookup")
  /\ \/ \E o \in Order : order[o].ref = r /\ Start(p, "mark", o, r)
                         /\ UNCHANGED answered
     \/ /\ \A o \in Order : order[o].ref # r
        /\ answered' = answered \cup {r}
        /\ Finish(p)
  /\ UNCHANGED <<order, tx, asg, tasks, logs, reported, crashes>>

(* The order is looked up by its current reference.  None found, or a      *)
(* failing query, is audited and the webhook is answered.                  *)
LookupOrder(p) ==
  LET r == proc[p].ref IN
  /\ At(p, "lookup")
  /\ \/ \E o \in Order :
          /\ order[o].ref = r
          /\ Start(p, "mark", o, r)
          /\ UNCHANGED <<logs, answered>>
     \/ /\ DbFaults \/ \A o \in Order : order[o].ref # r
        /\ Log(r)
        /\ answered' = answered \cup {r}
        /\ Finish(p)
  /\ UNCHANGED <<order, tx, asg, tasks, reported, crashes>>

(* The row is marked paid by its primary key.  A failing update is audited *)
(* and the handler goes on.                                                *)
MarkPaid(p) ==
  /\ At(p, "mark")
  /\ \/ /\ order' = [order EXCEPT ![proc[p].order].pay = "success"]
        /\ UNCHANGED logs
     \/ /\ DbFaults
        /\ Log(proc[p].ref)
        /\ UNCHANGED order
  /\ Goto(p, "check")
  /\ UNCHANGED <<tx, asg, tasks, answered, reported, crashes>>

(* Mutant: no look for an existing assignment.                             *)
CheckNothing(p) ==
  /\ At(p, "check")
  /\ Goto(p, "create")
  /\ UNCHANGED <<order, tx, asg, tasks, logs, answered, reported, crashes>>

(* createAndAssignDelivery first looks for an assignment of the order; an  *)
(* error of that query counts as "none".                                   *)
CheckExisting(p) ==
  /\ At(p, "check")
  /\ \/ /\ HasAssignment(proc[p].order)
        /\ answered' = answered \cup {proc[p].ref}
        /\ Finish(p)
     \/ /\ DbFaults \/ ~HasAssignment(proc[p].order)
        /\ Goto(p, "create")
        /\ UNCHANGED answered
  /\ UNCHANGED <<order, tx, asg, tasks, logs, reported, crashes>>

CreateAssignment(p, a) ==
  LET o == proc[p].order IN
  /\ At(p, "create")
  /\ asg[a] = None
  /\ \/ /\ asg' = [asg EXCEPT ![a] = o]
        /\ proc' = [proc EXCEPT ![p].pc = "enqueue", ![p].asg = a]
        /\ UNCHANGED <<logs, answered>>
     \/ /\ DbFaults
        /\ Log(o)
        /\ answered' = answered \cup {proc[p].ref}
        /\ Finish(p)
        /\ UNCHANGED asg
  /\ UNCHANGED <<order, tx, tasks, reported, crashes>>

(* Mutant: the job carries the order's id instead of the assignment's.     *)
EnqueueOrderId(p) ==
  /\ At(p, "enqueue")
  /\ tasks' = tasks \cup {proc[p].order}
  /\ answered' = answered \cup {proc[p].ref}
  /\ Finish(p)
  /\ UNCHANGED <<order, tx, asg, logs, reported, crashes>>

(* DistributeTaskAssignDriver puts the auto-assign job on the Redis queue. *)
EnqueueAssign(p) ==
  LET a == proc[p].asg IN
  /\ At(p, "enqueue")
  /\ \/ /\ tasks' = tasks \cup {a}
        /\ UNCHANGED logs
     \/ /\ DbFaults
        /\ Log(a)
        /\ UNCHANGED tasks
  /\ answered' = answered \cup {proc[p].ref}
  /\ Finish(p)
  /\ UNCHANGED <<order, tx, asg, reported, crashes>>

-----------------------------------------------------------------------------
(* Outside the API server                                                  *)

(* SokoWeb's staff create the assignment of a paid order by hand; they     *)
(* choose the driver themselves, so no job is queued.                      *)
AdminCreateAssignment(o, a) ==
  /\ AdminCreates
  /\ order[o].pay = "success"
  /\ ~HasAssignment(o)
  /\ asg[a] = None
  /\ asg' = [asg EXCEPT ![a] = o]
  /\ UNCHANGED <<order, tx, tasks, logs, proc, answered, reported, crashes>>

(* The API process stops in the middle of its requests and starts again.   *)
Crash ==
  /\ crashes < MaxCrashes
  /\ \E p \in Proc : ~At(p, "idle")
  /\ proc' = [p \in Proc |-> Idle]
  /\ crashes' = crashes + 1
  /\ UNCHANGED <<order, tx, asg, tasks, logs, answered, reported>>

-----------------------------------------------------------------------------

Webhook(p) ==
  \/ LookupOrder(p)
  \/ MarkPaid(p)
  \/ CheckExisting(p)
  \/ \E a \in Assignment : CreateAssignment(p, a)
  \/ EnqueueAssign(p)

Payer(p) ==
  \/ \E o \in Order, r \in Ref : RequestDelivery(p, o, r)
  \/ \E o \in Order, r \in Ref : InitiatePayment(p, o, r)
  \/ SaveFreshRef(p)
  \/ OpenCheckout(p)
  \/ \E r \in Ref : VerifyDeliveryPayment(p, r)
  \/ MarkVerified(p)

Next ==
  \/ \E p \in Proc : Payer(p)
  \/ \E p \in Proc, r \in Ref : ReceiveWebhook(p, r)
  \/ \E p \in Proc : Webhook(p)
  \/ \E r \in Ref : Pay(r)
  \/ \E o \in Order, a \in Assignment : AdminCreateAssignment(o, a)
  \/ Crash

Spec == Init /\ [][Next]_vars

(* A handler that has started runs to its end, since it does not depend on *)
(* the client's connection, and Paystack repeats a webhook until it is     *)
(* answered: one that is owed an answer keeps reaching an idle server.     *)
ReceiveOwedWebhook(r) ==
  r \notin answered /\ \E p \in Proc : ReceiveWebhook(p, r)

FairSpec ==
  /\ Spec
  /\ \A p \in Proc : WF_vars(SaveFreshRef(p) \/ OpenCheckout(p)
                               \/ MarkVerified(p) \/ Webhook(p))
  /\ \A r \in Ref : SF_vars(ReceiveOwedWebhook(r))

-----------------------------------------------------------------------------
(* Properties                                                              *)

(* An order is only ever marked paid after a charge made for that very     *)
(* order: neither a stale reference nor another order's reference can mark *)
(* it, through the verify endpoint or through the webhook.                 *)
PaidMeansCharged ==
  \A o \in Order : order[o].pay = "success" => Charged(o)

(* No driver is looked for before the customer has been charged, even when *)
(* the update of payment_status fails and the webhook goes on.             *)
AssignmentMeansCharged ==
  \A a \in Assignment : asg[a] # None => Charged(asg[a])

(* What staff can see of a charge that did not lead to a paid order with   *)
(* an assignment: an audit entry about the reference or about the order.   *)
Audited(r) ==
  r \in audit \/ tx[r].order \in audit

(* audit.Log was called about the charge, whether or not the entry went    *)
(* into the database.                                                      *)
Logged(r) == Audited(r) \/ r \in dropped \/ tx[r].order \in dropped

(* A webhook answered with 200 is never sent again.  By then the charge    *)
(* has led to a paid order with an assignment, or the handler has called   *)
(* audit.Log about it.  So no charge disappears from the databases unless  *)
(* the account database, too, has failed at that very moment.              *)
AnsweredIsAccountedFor ==
  \A r \in answered :
    \/ order[tx[r].order].pay = "success" /\ HasAssignment(tx[r].order)
    \/ Logged(r)

(* The same of what staff can see, which an entry that was dropped breaks. *)
AnsweredIsAudited ==
  \A r \in answered :
    \/ order[tx[r].order].pay = "success" /\ HasAssignment(tx[r].order)
    \/ Audited(r)

(* payment_status never leaves "success": a payer who asks for a fresh     *)
(* reference while the charge is being confirmed does not undo it.         *)
PaidIsFinal ==
  [][\A o \in Order : order[o].pay = "success" => order'[o].pay = "success"]_vars

(* createAndAssignDelivery is guarded against redelivered webhooks: an     *)
(* order gets one assignment.                                              *)
OneAssignmentPerOrder ==
  \A a, b \in Assignment : asg[a] # None /\ asg[a] = asg[b] => a = b

(* However often its webhook is redelivered, an order has no more          *)
(* assignments than requests are handled at the same time: those that saw  *)
(* none before the first was created.                                      *)
AssignmentsBounded ==
  \A o \in Order : Cardinality({a \in Assignment : asg[a] = o}) <= Cardinality(Proc)

(* The verify endpoint marks the order paid before it says "success".      *)
ReportedMeansPaid ==
  \A r \in reported : order[tx[r].order].pay = "success"

(* createAndAssignDelivery creates the assignment of a paid order and      *)
(* queues the auto-assign job: once the webhook is answered, each          *)
(* assignment of the order has its job, or an audit entry saying that      *)
(* queueing it failed.                                                     *)
AnsweredMeansQueued ==
  \A a \in Assignment :
    /\ asg[a] # None
    /\ \E r \in answered : tx[r].order = asg[a]
    /\ \A p \in Proc : proc[p].asg # a
    => a \in tasks \cup audit \cup dropped

(* Every charge is eventually accounted for: its order gets an assignment, *)
(* or an audit entry names it.                                             *)
EveryChargeIsSettled ==
  \A r \in Ref :
    tx[r].st = "charged" ~> (HasAssignment(tx[r].order) \/ Audited(r))

=============================================================================
