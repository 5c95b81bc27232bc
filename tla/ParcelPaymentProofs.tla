------------------------ MODULE ParcelPaymentProofs ------------------------
(***************************************************************************)
(* Safety of ParcelPayment for any number of orders, references, requests  *)
(* and restarts.                                                           *)
(*                                                                         *)
(* The invariant IInv adds to the properties what each request in progress *)
(* relies on.  Every action is shown to be a SoundStep: the facts the      *)
(* other requests rely on survive it, and whatever it adds (a paid order,  *)
(* an assignment, an answer, a request's next step) is justified.  Sound   *)
(* steps preserve IInv.                                                    *)
(***************************************************************************)
EXTENDS ParcelPayment, TLAPS

USE DEF logs

-----------------------------------------------------------------------------
(* The inductive invariant                                                 *)

(* A generated reference belongs to one order for ever, and an order's     *)
(* current reference is one of its own.                                    *)
RefsBelong ==
  /\ \A r \in Ref : tx[r].st = "unused" <=> tx[r].order = None
  /\ \A o \in Order : order[o].ref # None => tx[order[o].ref].order = o

(* A request that has still to open a checkout is the only one that holds  *)
(* its reference.                                                          *)
Holding(p) == proc[p].pc \in {"reref", "open"}

HoldersAlone ==
  \A p, q \in Proc :
    Holding(p) /\ Holding(q) /\ proc[p].ref = proc[q].ref => p = q

(* What a request relies on.  Nobody can have paid a checkout that is not  *)
(* open yet; a payment is only confirmed for a charged reference, and once *)
(* the order is found, for the order the reference is for.  Past the       *)
(* update of payment_status the order is paid or audit.Log was called;     *)
(* past the creation the assignment is there.                              *)
Confirming(p) ==
  proc[p].pc \in {"verified", "lookup", "mark", "check", "create", "enqueue"}
Found(p) == proc[p].pc \in {"mark", "check", "create", "enqueue"}
PastUpdate(p) == proc[p].pc \in {"check", "create", "enqueue"}

RequestOK(p) ==
  /\ Holding(p) => proc[p].ref \in Ref /\ tx[proc[p].ref].st = "issued"
  /\ At(p, "reref") =>
       proc[p].order \in Order /\ tx[proc[p].ref].order = proc[p].order
  /\ Confirming(p) => proc[p].ref \in Ref /\ tx[proc[p].ref].st = "charged"
  /\ Found(p) =>
       proc[p].order \in Order /\ tx[proc[p].ref].order = proc[p].order
  /\ PastUpdate(p) =>
       order[proc[p].order].pay = "success" \/ Logged(proc[p].ref)
  /\ At(p, "enqueue") =>
       proc[p].asg \in Assignment /\ HasAssignment(proc[p].order)

(* The charge behind an answered webhook is accounted for.                 *)
Settled(r) ==
  \/ order[tx[r].order].pay = "success" /\ HasAssignment(tx[r].order)
  \/ Logged(r)

IInv ==
  /\ TypeOK
  /\ RefsBelong
  /\ HoldersAlone
  /\ \A p \in Proc : RequestOK(p)
  /\ PaidMeansCharged
  /\ AssignmentMeansCharged
  /\ \A r \in answered : tx[r].st = "charged"
  /\ AnsweredIsAccountedFor

-----------------------------------------------------------------------------
(* Sound steps                                                             *)

(* What no step undoes.                                                    *)
Evolution ==
  /\ \A r \in Ref : tx[r].st = "charged" => tx'[r] = tx[r]
  /\ \A o \in Order : order[o].pay = "success" => order'[o].pay = "success"
  /\ \A a \in Assignment : asg[a] # None => asg'[a] = asg[a]
  /\ audit \subseteq audit' /\ dropped \subseteq dropped'

(* What a step may add.                                                    *)
Justified ==
  /\ \A o \in Order :
       order'[o].pay = "success" => order[o].pay = "success" \/ Charged(o)
  /\ \A a \in Assignment : asg'[a] # None => asg'[a] = asg[a] \/ Charged(asg'[a])
  /\ \A r \in answered' : r \in answered \/ (tx[r].st = "charged" /\ Settled(r)')

(* A request stays where it was, and nobody touches the checkout it holds. *)
Undisturbed(q) ==
  /\ proc'[q] = proc[q]
  /\ Holding(q) => tx'[proc[q].ref] = tx[proc[q].ref]

SoundStep ==
  /\ Evolution
  /\ Justified
  /\ \A q \in Proc : Undisturbed(q) \/ RequestOK(q)'

(* A charge is never taken back, an assignment stays with its order, and   *)
(* audit entries are kept.                                                 *)
LEMMA ChargedStays ==
  ASSUME Evolution, NEW o, Charged(o)
  PROVE  Charged(o)'
BY DEF Evolution, Charged

(* An order keeps its assignment.                                          *)
LEMMA AssignmentStays ==
  ASSUME Evolution, NEW o \in Order, HasAssignment(o)
  PROVE  HasAssignment(o)'
BY ConstantsAssumption DEF Evolution, HasAssignment

(* What audit.Log was called about stays so.                               *)
LEMMA LoggedStays ==
  ASSUME Evolution, NEW r \in Ref, tx[r].st = "charged", Logged(r)
  PROVE  Logged(r)'
BY DEF Evolution, Logged, Audited

(* A charged reference names an order, which keeps it accounted for.       *)
LEMMA SettledStays ==
  ASSUME IInv, Evolution, NEW r \in Ref, tx[r].st = "charged", Settled(r)
  PROVE  Settled(r)'
<1>1. tx[r].order \in Order /\ tx'[r] = tx[r]
  BY DEF IInv, TypeOK, Checkout, RefsBelong, Evolution
<1>2. CASE Logged(r)
  BY <1>2, LoggedStays DEF Settled
<1>3. CASE order[tx[r].order].pay = "success" /\ HasAssignment(tx[r].order)
  BY <1>1, <1>3, AssignmentStays DEF Settled, Evolution
<1>4. QED
  BY <1>2, <1>3 DEF Settled

(* A request relies only on what no step undoes.                           *)
LEMMA UndisturbedStays ==
  ASSUME IInv, Evolution, NEW q \in Proc, Undisturbed(q)
  PROVE  RequestOK(q)'
<1>0. RequestOK(q) /\ proc'[q] = proc[q]
  BY DEF IInv, Undisturbed
<1>1. Holding(q) => tx'[proc[q].ref] = tx[proc[q].ref]
  BY DEF Undisturbed
<1>2. Confirming(q) => tx'[proc[q].ref] = tx[proc[q].ref]
  BY <1>0 DEF RequestOK, Evolution
<1>3. PastUpdate(q) => (order[proc[q].order].pay = "success" \/ Logged(proc[q].ref))'
  <2> SUFFICES ASSUME PastUpdate(q)
               PROVE  (order[proc[q].order].pay = "success" \/ Logged(proc[q].ref))'
    OBVIOUS
  <2>1. /\ proc[q].ref \in Ref /\ tx[proc[q].ref].st = "charged"
        /\ proc[q].order \in Order
        /\ order[proc[q].order].pay = "success" \/ Logged(proc[q].ref)
    BY <1>0 DEF RequestOK, PastUpdate, Confirming, Found
  <2>2. CASE order[proc[q].order].pay = "success"
    BY <1>0, <2>1, <2>2 DEF Evolution
  <2>3. CASE Logged(proc[q].ref)
    <3>1. Logged(proc[q].ref)'
      <4>1. \A r \in Ref : tx[r].st = "charged" /\ Logged(r) => Logged(r)'
        BY LoggedStays
      <4>2. tx'[proc[q].ref] = tx[proc[q].ref]
        BY <1>2, <2>1 DEF PastUpdate, Confirming
      <4>3. QED
        BY <1>0, <2>1, <2>3, <4>2 DEF Logged, Audited, Evolution
    <3>2. QED
      BY <3>1
  <2>4. QED
    BY <2>1, <2>2, <2>3
<1>4. At(q, "enqueue") => HasAssignment(proc[q].order)'
  <2>1. At(q, "enqueue") => proc[q].order \in Order /\ HasAssignment(proc[q].order)
    BY <1>0 DEF RequestOK, Found, At
  <2>2. QED
    BY <1>0, <2>1, ConstantsAssumption DEF HasAssignment, Evolution
<1>5. QED
  BY <1>0, <1>1, <1>2, <1>3, <1>4
     DEF RequestOK, Holding, Confirming, Found, PastUpdate, At

(* Sound steps preserve the invariant; the parts about types, about the    *)
(* references' owners and about the holders are shown for each action.     *)
LEMMA SoundStepKeepsIInv ==
  ASSUME IInv, SoundStep, TypeOK', RefsBelong', HoldersAlone'
  PROVE  IInv'
<1>1. \A q \in Proc : RequestOK(q)'
  BY UndisturbedStays DEF SoundStep
<1>2. PaidMeansCharged'
  <2>1. \A o \in Order : order'[o].pay = "success" => Charged(o)
    BY DEF IInv, PaidMeansCharged, SoundStep, Justified
  <2>2. QED
    BY <2>1, ChargedStays DEF PaidMeansCharged, SoundStep
<1>3. AssignmentMeansCharged'
  <2>1. \A a \in Assignment : asg'[a] # None => Charged(asg'[a])
    BY DEF IInv, AssignmentMeansCharged, SoundStep, Justified
  <2>2. \A o : Charged(o) => Charged(o)'
    BY ChargedStays DEF SoundStep
  <2>3. QED
    BY <2>1, <2>2 DEF AssignmentMeansCharged, Charged
<1>4. \A r \in answered' : tx[r].st = "charged" /\ Settled(r)'
  <2>1. \A r \in answered : r \in Ref /\ tx[r].st = "charged" /\ Settled(r)
    BY DEF IInv, TypeOK, AnsweredIsAccountedFor, Settled
  <2>2. QED
    BY <2>1, SettledStays DEF SoundStep, Justified
<1>5. \A r \in answered' : tx'[r].st = "charged"
  BY <1>4 DEF SoundStep, Evolution, TypeOK
<1>6. AnsweredIsAccountedFor'
  BY <1>4 DEF AnsweredIsAccountedFor, Settled
<1>7. QED
  BY <1>1, <1>2, <1>3, <1>5, <1>6 DEF IInv

-----------------------------------------------------------------------------
(* What the three ways of moving a request do                              *)

(* A request that begins has the locals it is given.                       *)
LEMMA AfterStart ==
  ASSUME TypeOK, NEW p \in Proc, NEW pc \in Pc,
         NEW o \in Order \cup {None}, NEW r \in Ref, Start(p, pc, o, r)
  PROVE  /\ proc' \in [Proc -> Request]
         /\ proc'[p] = [pc |-> pc, order |-> o, ref |-> r, asg |-> None]
         /\ \A q \in Proc : q # p => proc'[q] = proc[q]
BY DEF TypeOK, Start, Request

(* A request that goes on keeps its locals.                                *)
LEMMA AfterGoto ==
  ASSUME TypeOK, NEW p \in Proc, NEW pc \in Pc, Goto(p, pc)
  PROVE  /\ proc' \in [Proc -> Request]
         /\ proc'[p] = [proc[p] EXCEPT !.pc = pc]
         /\ \A q \in Proc : q # p => proc'[q] = proc[q]
BY DEF TypeOK, Goto, Request

(* A request that ends keeps nothing.                                      *)
LEMMA AfterFinish ==
  ASSUME TypeOK, NEW p \in Proc, Finish(p)
  PROVE  /\ proc' \in [Proc -> Request]
         /\ proc'[p] = Idle
         /\ \A q \in Proc : q # p => proc'[q] = proc[q]
BY DEF TypeOK, Finish, Request, Idle, Pc

(* A step that marks nothing paid, creates nothing and answers nothing has *)
(* nothing to justify.                                                     *)
LEMMA NothingAdded ==
  ASSUME \A o \in Order : order'[o].pay = "success" => order[o].pay = "success",
         asg' = asg, answered' = answered
  PROVE  Justified
BY DEF Justified

(* An idle request relies on nothing.                                      *)
LEMMA IdleRequestOK ==
  ASSUME NEW p \in Proc, (proc'[p]).pc = "idle"
  PROVE  RequestOK(p)'
BY DEF RequestOK, Holding, Confirming, Found, PastUpdate, At

(* As long as no request starts to hold a reference, the holders stay      *)
(* alone.                                                                  *)
LEMMA HoldersStayAlone ==
  ASSUME HoldersAlone,
         \A q \in Proc : Holding(q)' => Holding(q) /\ proc'[q].ref = proc[q].ref
  PROVE  HoldersAlone'
BY DEF HoldersAlone

(* Orders keep their references and references their orders.               *)
LEMMA RefsStay ==
  ASSUME IInv, UNCHANGED tx, \A o \in Order : order'[o].ref = order[o].ref
  PROVE  RefsBelong'
BY DEF IInv, RefsBelong

(* Whether or not its entry was stored, a call of audit.Log is remembered. *)
LEMMA AfterLog ==
  ASSUME TypeOK, NEW about \in Subject, Log(about)
  PROVE  /\ audit' \subseteq Subject /\ dropped' \subseteq Subject
         /\ audit \subseteq audit' /\ dropped \subseteq dropped'
         /\ about \in audit' \cup dropped'
BY DEF TypeOK, Log

(* A call about a reference, or about its order, accounts for the charge.  *)
LEMMA CallIsLogged ==
  ASSUME NEW about, Log(about), NEW r \in Ref, about = r \/ about = tx'[r].order
  PROVE  Logged(r)'
BY DEF Log, Logged, Audited

-----------------------------------------------------------------------------
(* The payer's requests                                                    *)

(* The new order takes an unused reference, so it disturbs nobody.         *)
LEMMA RequestDeliverySound ==
  ASSUME IInv, NEW p \in Proc, NEW o \in Order, NEW r \in Ref,
         RequestDelivery(p, o, r)
  PROVE  SoundStep /\ IInv'
<1>0. TypeOK /\ RefsBelong /\ HoldersAlone /\ \A q \in Proc : RequestOK(q)
  BY DEF IInv
<1>1. /\ At(p, "idle") /\ order[o].pay = "absent" /\ tx[r].st = "unused"
      /\ order' = [order EXCEPT ![o] = [pay |-> "pending", ref |-> r]]
      /\ tx' = [tx EXCEPT ![r] = [st |-> "issued", order |-> o]]
      /\ UNCHANGED <<asg, tasks, logs, answered, reported, crashes>>
  BY DEF RequestDelivery
<1>2. /\ proc' \in [Proc -> Request]
      /\ \A q \in Proc : q # p => proc'[q] = proc[q]
      /\ \/ proc'[p] = [pc |-> "open", order |-> None, ref |-> r, asg |-> None]
         \/ proc'[p] = proc[p]
  BY <1>0, AfterStart DEF RequestDelivery, Pc, TypeOK
<1>3. \A q \in Proc : Holding(q) => proc[q].ref \in Ref /\ proc[q].ref # r
  BY <1>0, <1>1 DEF RequestOK
<1>4. TypeOK'
  BY <1>0, <1>1, <1>2
     DEF TypeOK, OrderRow, Checkout, PayStatus, TxState
<1>5. RefsBelong'
  BY <1>0, <1>1, ConstantsAssumption DEF RefsBelong, TypeOK, OrderRow, Checkout
<1>6. HoldersAlone'
  BY <1>0, <1>1, <1>2, <1>3 DEF HoldersAlone, Holding
<1>7. Evolution /\ Justified
  BY <1>0, <1>1, NothingAdded DEF Evolution, TypeOK
<1>8. \A q \in Proc : Undisturbed(q) \/ RequestOK(q)'
  <2>1. ASSUME NEW q \in Proc, proc'[q] = proc[q]  PROVE Undisturbed(q)
    BY <1>0, <1>1, <1>3, <2>1 DEF Undisturbed, TypeOK
  <2>2. ASSUME proc'[p].pc = "open", proc'[p].ref = r  PROVE RequestOK(p)'
    BY <1>0, <1>1, <2>2
       DEF RequestOK, At, Holding, Confirming, Found, PastUpdate, TypeOK
  <2>3. QED
    BY <1>2, <2>1, <2>2
<1>9. QED
  BY <1>4, <1>5, <1>6, <1>7, <1>8, SoundStepKeepsIInv DEF SoundStep

(* Opening a payment charges nothing.                                      *)
LEMMA InitiatePaymentSound ==
  ASSUME IInv, NEW p \in Proc, NEW o \in Order, NEW r \in Ref,
         InitiatePayment(p, o, r)
  PROVE  SoundStep /\ IInv'
<1>0. TypeOK /\ RefsBelong /\ HoldersAlone /\ \A q \in Proc : RequestOK(q)
  BY DEF IInv
<1>1. /\ At(p, "idle") /\ tx[r].st = "unused"
      /\ tx' = [tx EXCEPT ![r] = [st |-> "issued", order |-> o]]
      /\ UNCHANGED <<order, asg, tasks, logs, answered, reported, crashes>>
  BY DEF InitiatePayment
<1>2. /\ proc' \in [Proc -> Request]
      /\ \A q \in Proc : q # p => proc'[q] = proc[q]
      /\ proc'[p] = [pc |-> "reref", order |-> o, ref |-> r, asg |-> None]
  BY <1>0, AfterStart DEF InitiatePayment, Pc
<1>3. \A q \in Proc : Holding(q) => proc[q].ref \in Ref /\ proc[q].ref # r
  BY <1>0, <1>1 DEF RequestOK
<1>4. TypeOK'
  BY <1>0, <1>1, <1>2 DEF TypeOK, Checkout, TxState
<1>5. RefsBelong'
  BY <1>0, <1>1, ConstantsAssumption DEF RefsBelong, TypeOK, OrderRow, Checkout
<1>6. HoldersAlone'
  BY <1>0, <1>1, <1>2, <1>3 DEF HoldersAlone, Holding
<1>7. Evolution /\ Justified
  BY <1>0, <1>1, NothingAdded DEF Evolution, TypeOK
<1>8. \A q \in Proc : Undisturbed(q) \/ RequestOK(q)'
  <2>1. ASSUME NEW q \in Proc, q # p  PROVE Undisturbed(q)
    BY <1>0, <1>1, <1>2, <1>3, <2>1 DEF Undisturbed, TypeOK
  <2>2. RequestOK(p)'
    BY <1>0, <1>1, <1>2
       DEF RequestOK, At, Holding, Confirming, Found, PastUpdate, TypeOK
  <2>3. QED
    BY <2>1, <2>2
<1>9. QED
  BY <1>4, <1>5, <1>6, <1>7, <1>8, SoundStepKeepsIInv DEF SoundStep

(* The reference written to the order was generated for it; the payment    *)
(* status, which may have changed since it was read, is not touched.       *)
LEMMA SaveFreshRefSound ==
  ASSUME IInv, NEW p \in Proc, SaveFreshRef(p)
  PROVE  SoundStep /\ IInv'
<1>0. TypeOK /\ RefsBelong /\ HoldersAlone /\ \A q \in Proc : RequestOK(q)
  BY DEF IInv
<1>1. /\ At(p, "reref") /\ Holding(p)
      /\ proc[p].ref \in Ref /\ proc[p].order \in Order
      /\ tx[proc[p].ref].order = proc[p].order
      /\ UNCHANGED <<tx, asg, tasks, logs, answered, reported, crashes>>
  BY <1>0 DEF SaveFreshRef, RequestOK, At, Holding
<1>2. \/ UNCHANGED order
      \/ order' = [order EXCEPT ![proc[p].order].ref = proc[p].ref]
  BY DEF SaveFreshRef
<1>3. /\ proc' \in [Proc -> Request]
      /\ \A q \in Proc : q # p => proc'[q] = proc[q]
      /\ proc'[p] = [proc[p] EXCEPT !.pc = "open"] \/ proc'[p] = Idle
  BY <1>0, AfterGoto, AfterFinish DEF SaveFreshRef, Pc
<1>4. TypeOK'
  BY <1>0, <1>1, <1>2, <1>3 DEF TypeOK, OrderRow
<1>5. RefsBelong'
  BY <1>0, <1>1, <1>2 DEF RefsBelong, TypeOK, OrderRow
<1>6. HoldersAlone'
  <2>1. \A q \in Proc : Holding(q)' => Holding(q) /\ proc'[q].ref = proc[q].ref
    BY <1>0, <1>1, <1>3 DEF Holding, Idle, TypeOK, Request
  <2>2. QED
    BY <1>0, <2>1, HoldersStayAlone
<1>7. Evolution /\ Justified
  BY <1>0, <1>1, <1>2, NothingAdded DEF Evolution, TypeOK, OrderRow
<1>8. \A q \in Proc : Undisturbed(q) \/ RequestOK(q)'
  <2>1. ASSUME NEW q \in Proc, q # p  PROVE Undisturbed(q)
    BY <1>1, <1>3, <2>1 DEF Undisturbed
  <2>2. RequestOK(p)'
    BY <1>0, <1>1, <1>3
       DEF RequestOK, At, Holding, Confirming, Found, PastUpdate, TypeOK,
           Request, Idle
  <2>3. QED
    BY <2>1, <2>2
<1>9. QED
  BY <1>4, <1>5, <1>6, <1>7, <1>8, SoundStepKeepsIInv DEF SoundStep

(* The opened checkout was held by nobody else.                            *)
LEMMA OpenCheckoutSound ==
  ASSUME IInv, NEW p \in Proc, OpenCheckout(p)
  PROVE  SoundStep /\ IInv'
<1>0. TypeOK /\ RefsBelong /\ HoldersAlone /\ \A q \in Proc : RequestOK(q)
  BY DEF IInv
<1>1. /\ Holding(p) /\ proc[p].ref \in Ref /\ tx[proc[p].ref].st = "issued"
      /\ UNCHANGED <<order, asg, tasks, logs, answered, reported, crashes>>
  BY <1>0 DEF OpenCheckout, RequestOK, At, Holding
<1>2. UNCHANGED tx \/ tx' = [tx EXCEPT ![proc[p].ref].st = "open"]
  BY DEF OpenCheckout
<1>3. /\ proc' \in [Proc -> Request] /\ proc'[p] = Idle
      /\ \A q \in Proc : q # p => proc'[q] = proc[q]
  BY <1>0, AfterFinish DEF OpenCheckout
<1>4. TypeOK'
  BY <1>0, <1>1, <1>2, <1>3 DEF TypeOK, Checkout, TxState
<1>5. RefsBelong'
  BY <1>0, <1>1, <1>2 DEF RefsBelong, TypeOK, OrderRow, Checkout
<1>6. HoldersAlone'
  BY <1>0, <1>3, HoldersStayAlone DEF Holding, Idle
<1>7. Evolution /\ Justified
  BY <1>0, <1>1, <1>2, NothingAdded DEF Evolution, TypeOK
<1>8. \A q \in Proc : Undisturbed(q) \/ RequestOK(q)'
  <2>1. ASSUME NEW q \in Proc, q # p  PROVE Undisturbed(q)
    <3>1. Holding(q) => proc[q].ref # proc[p].ref
      BY <1>0, <1>1, <2>1 DEF HoldersAlone
    <3>2. QED
      BY <1>0, <1>1, <1>2, <1>3, <2>1, <3>1 DEF Undisturbed, TypeOK, RequestOK
  <2>2. RequestOK(p)'
    BY <1>3, IdleRequestOK DEF Idle
  <2>3. QED
    BY <2>1, <2>2
<1>9. QED
  BY <1>4, <1>5, <1>6, <1>7, <1>8, SoundStepKeepsIInv DEF SoundStep

(* An open checkout is no longer held by a request.                        *)
LEMMA PaySound ==
  ASSUME IInv, NEW r \in Ref, Pay(r)
  PROVE  SoundStep /\ IInv'
<1>0. TypeOK /\ RefsBelong /\ HoldersAlone /\ \A q \in Proc : RequestOK(q)
  BY DEF IInv
<1>1. /\ tx[r].st = "open"
      /\ tx' = [tx EXCEPT ![r].st = "charged"]
      /\ UNCHANGED <<order, asg, tasks, logs, proc, answered, reported, crashes>>
  BY DEF Pay
<1>2. TypeOK'
  BY <1>0, <1>1 DEF TypeOK, Checkout, TxState
<1>3. RefsBelong'
  BY <1>0, <1>1 DEF RefsBelong, TypeOK, OrderRow, Checkout
<1>4. HoldersAlone'
  BY <1>0, <1>1 DEF HoldersAlone, Holding
<1>5. Evolution /\ Justified
  BY <1>0, <1>1, NothingAdded DEF Evolution, TypeOK
<1>6. \A q \in Proc : Undisturbed(q)
  BY <1>0, <1>1 DEF Undisturbed, RequestOK, TypeOK
<1>7. QED
  BY <1>2, <1>3, <1>4, <1>5, <1>6, SoundStepKeepsIInv DEF SoundStep

-----------------------------------------------------------------------------
(* The verify endpoint and the webhook                                     *)

(* A confirmation starts from a charged reference and disturbs nobody.     *)
LEMMA ConfirmationStarts ==
  ASSUME IInv, NEW p \in Proc, NEW r \in Ref, NEW pc \in {"verified", "lookup"},
         At(p, "idle"), tx[r].st = "charged", Start(p, pc, None, r),
         UNCHANGED <<order, tx, asg, tasks, logs, answered, reported, crashes>>
  PROVE  SoundStep /\ IInv'
<1>0. TypeOK /\ RefsBelong /\ HoldersAlone /\ \A q \in Proc : RequestOK(q)
  BY DEF IInv
<1>1. UNCHANGED <<order, tx, asg, tasks, logs, answered, reported, crashes>>
  OBVIOUS
<1>2. /\ proc' \in [Proc -> Request]
      /\ \A q \in Proc : q # p => proc'[q] = proc[q]
      /\ proc'[p] = [pc |-> pc, order |-> None, ref |-> r, asg |-> None]
  BY <1>0, AfterStart DEF Pc
<1>3. TypeOK'
  BY <1>0, <1>1, <1>2 DEF TypeOK
<1>4. RefsBelong'
  BY <1>1, RefsStay
<1>5. HoldersAlone'
  BY <1>0, <1>2, HoldersStayAlone DEF Holding
<1>6. Evolution /\ Justified
  BY <1>1, NothingAdded DEF Evolution
<1>7. \A q \in Proc : Undisturbed(q) \/ RequestOK(q)'
  <2>1. RequestOK(p)'
    BY <1>1, <1>2 DEF RequestOK, At, Holding, Confirming, Found, PastUpdate
  <2>2. QED
    BY <1>1, <1>2, <2>1 DEF Undisturbed
<1>8. QED
  BY <1>3, <1>4, <1>5, <1>6, <1>7, SoundStepKeepsIInv DEF SoundStep

(* Asking Paystack about a reference writes nothing.                       *)
LEMMA VerifyDeliveryPaymentSound ==
  ASSUME IInv, NEW p \in Proc, NEW r \in Ref, VerifyDeliveryPayment(p, r)
  PROVE  SoundStep /\ IInv'
BY ConfirmationStarts DEF VerifyDeliveryPayment

(* A webhook is sent for a reference that is charged.                      *)
LEMMA ReceiveWebhookSound ==
  ASSUME IInv, NEW p \in Proc, NEW r \in Ref, ReceiveWebhook(p, r)
  PROVE  SoundStep /\ IInv'
BY ConfirmationStarts DEF ReceiveWebhook

(* The rows marked paid carry the charged reference, so it is theirs.      *)
LEMMA MarkVerifiedSound ==
  ASSUME IInv, NEW p \in Proc, MarkVerified(p)
  PROVE  SoundStep /\ IInv'
<1>0. TypeOK /\ RefsBelong /\ HoldersAlone /\ \A q \in Proc : RequestOK(q)
  BY DEF IInv
<1>1. /\ proc[p].ref \in Ref /\ tx[proc[p].ref].st = "charged"
      /\ reported' = reported \cup {proc[p].ref}
      /\ UNCHANGED <<tx, asg, tasks, logs, answered, crashes>>
  BY <1>0 DEF MarkVerified, RequestOK, At, Confirming
<1>2. \/ UNCHANGED order
      \/ order' = [o \in Order |->
                     IF order[o].ref = proc[p].ref
                       THEN [order[o] EXCEPT !.pay = "success"] ELSE order[o]]
  BY DEF MarkVerified
<1>3. /\ proc' \in [Proc -> Request] /\ proc'[p] = Idle
      /\ \A q \in Proc : q # p => proc'[q] = proc[q]
  BY <1>0, AfterFinish DEF MarkVerified
<1>4. \A o \in Order : /\ order'[o] \in OrderRow
                       /\ order'[o].ref = order[o].ref
                       /\ \/ order'[o].pay = order[o].pay
                          \/ order'[o].pay = "success" /\ order[o].ref = proc[p].ref
  BY <1>0, <1>2 DEF TypeOK, OrderRow, PayStatus
<1>5. TypeOK'
  BY <1>0, <1>1, <1>2, <1>3, <1>4 DEF TypeOK
<1>6. RefsBelong'
  BY <1>1, <1>4, RefsStay
<1>7. HoldersAlone'
  BY <1>0, <1>3, HoldersStayAlone DEF Holding, Idle
<1>8. Evolution
  BY <1>1, <1>4 DEF Evolution
<1>9. Justified
  <2>1. \A o \in Order : order[o].ref = proc[p].ref => Charged(o)
    BY <1>0, <1>1, ConstantsAssumption DEF RefsBelong, Charged
  <2>2. QED
    BY <1>1, <1>4, <2>1 DEF Justified
<1>10. \A q \in Proc : Undisturbed(q) \/ RequestOK(q)'
  <2>1. RequestOK(p)'
    BY <1>3, IdleRequestOK DEF Idle
  <2>2. QED
    BY <1>1, <1>3, <2>1 DEF Undisturbed
<1>11. QED
  BY <1>5, <1>6, <1>7, <1>8, <1>9, <1>10, SoundStepKeepsIInv DEF SoundStep

(* The order found carries the webhook's reference; when none is found,    *)
(* audit.Log is called about the reference.                                *)
LEMMA LookupOrderSound ==
  ASSUME IInv, NEW p \in Proc, LookupOrder(p)
  PROVE  SoundStep /\ IInv'
<1>0. TypeOK /\ RefsBelong /\ HoldersAlone /\ \A q \in Proc : RequestOK(q)
  BY DEF IInv
<1>1. /\ proc[p].ref \in Ref /\ tx[proc[p].ref].st = "charged"
      /\ UNCHANGED <<order, tx, asg, tasks, reported, crashes>>
  BY <1>0 DEF LookupOrder, RequestOK, At, Confirming
<1>2. RefsBelong'
  BY <1>1, RefsStay
<1>3. CASE \E o \in Order : /\ order[o].ref = proc[p].ref
                            /\ Start(p, "mark", o, proc[p].ref)
                            /\ UNCHANGED <<logs, answered>>
  <2>1. PICK o \in Order : /\ order[o].ref = proc[p].ref
                           /\ Start(p, "mark", o, proc[p].ref)
                           /\ UNCHANGED <<logs, answered>>
    BY <1>3
  <2>2. /\ proc' \in [Proc -> Request]
        /\ \A q \in Proc : q # p => proc'[q] = proc[q]
        /\ proc'[p] = [pc |-> "mark", order |-> o, ref |-> proc[p].ref, asg |-> None]
    BY <1>0, <1>1, <2>1, AfterStart DEF Pc
  <2>3. TypeOK' /\ HoldersAlone'
    BY <1>0, <1>1, <2>1, <2>2, HoldersStayAlone DEF TypeOK, Holding
  <2>4. Evolution /\ Justified
    BY <1>1, <2>1, NothingAdded DEF Evolution
  <2>5. RequestOK(p)'
    BY <1>0, <1>1, <2>1, <2>2, ConstantsAssumption
       DEF RequestOK, RefsBelong, At, Holding, Confirming, Found, PastUpdate
  <2>6. \A q \in Proc : Undisturbed(q) \/ RequestOK(q)'
    BY <1>1, <2>2, <2>5 DEF Undisturbed
  <2>7. QED
    BY <1>2, <2>3, <2>4, <2>6, SoundStepKeepsIInv DEF SoundStep
<1>4. CASE /\ Log(proc[p].ref)
           /\ answered' = answered \cup {proc[p].ref}
           /\ Finish(p)
  <2>1. /\ proc' \in [Proc -> Request] /\ proc'[p] = Idle
        /\ \A q \in Proc : q # p => proc'[q] = proc[q]
    BY <1>0, <1>4, AfterFinish
  <2>2. /\ audit' \subseteq Subject /\ dropped' \subseteq Subject
        /\ audit \subseteq audit' /\ dropped \subseteq dropped'
        /\ answered' = answered \cup {proc[p].ref}
    BY <1>0, <1>1, <1>4, AfterLog DEF Subject
  <2>3. TypeOK' /\ HoldersAlone'
    BY <1>0, <1>1, <2>1, <2>2, HoldersStayAlone DEF TypeOK, Holding, Idle
  <2>4. Evolution
    BY <1>1, <2>2 DEF Evolution
  <2>5. Justified
    <3>1. \A r \in Ref : r = proc[p].ref => Logged(r)'
      BY <1>4, CallIsLogged
    <3>2. \A r \in Ref : r = proc[p].ref => Settled(r)'
      BY <3>1 DEF Settled
    <3>3. QED
      BY <1>1, <2>2, <3>2 DEF Justified
  <2>6. RequestOK(p)'
    BY <2>1, IdleRequestOK DEF Idle
  <2>7. \A q \in Proc : Undisturbed(q) \/ RequestOK(q)'
    BY <1>1, <2>1, <2>6 DEF Undisturbed
  <2>8. QED
    BY <1>2, <2>3, <2>4, <2>5, <2>7, SoundStepKeepsIInv DEF SoundStep
<1>5. QED
  BY <1>3, <1>4 DEF LookupOrder

(* The order the webhook found is charged.  Either it is paid now or       *)
(* audit.Log is called about the reference.                                *)
LEMMA MarkPaidSound ==
  ASSUME IInv, NEW p \in Proc, MarkPaid(p)
  PROVE  SoundStep /\ IInv'
<1>0. TypeOK /\ RefsBelong /\ HoldersAlone /\ \A q \in Proc : RequestOK(q)
  BY DEF IInv
<1>1. /\ proc[p].ref \in Ref /\ tx[proc[p].ref].st = "charged"
      /\ proc[p].order \in Order /\ tx[proc[p].ref].order = proc[p].order
      /\ UNCHANGED <<tx, asg, tasks, answered, reported, crashes>>
  BY <1>0 DEF MarkPaid, RequestOK, At, Confirming, Found
<1>2. \/ /\ order' = [order EXCEPT ![proc[p].order].pay = "success"]
         /\ UNCHANGED logs
      \/ Log(proc[p].ref) /\ UNCHANGED order
  BY DEF MarkPaid
<1>3. /\ proc' \in [Proc -> Request]
      /\ proc'[p] = [proc[p] EXCEPT !.pc = "check"]
      /\ \A q \in Proc : q # p => proc'[q] = proc[q]
  BY <1>0, AfterGoto DEF MarkPaid, Pc
<1>4. \A o \in Order : /\ order'[o] \in OrderRow
                       /\ order'[o].ref = order[o].ref
                       /\ \/ order'[o].pay = order[o].pay
                          \/ order'[o].pay = "success" /\ o = proc[p].order
  BY <1>0, <1>2 DEF TypeOK, OrderRow, PayStatus
<1>5. TypeOK'
  <2>1. order' \in [Order -> OrderRow]
    BY <1>0, <1>2, <1>4 DEF TypeOK
  <2>2. audit' \subseteq Subject /\ dropped' \subseteq Subject
    BY <1>0, <1>1, <1>2, AfterLog DEF TypeOK, Subject
  <2>3. QED
    BY <1>0, <1>1, <1>3, <2>1, <2>2 DEF TypeOK
<1>6. RefsBelong'
  BY <1>1, <1>4, RefsStay
<1>7. HoldersAlone'
  <2>1. proc'[p].pc = "check"
    BY <1>0, <1>3 DEF TypeOK, Request
  <2>2. QED
    BY <1>0, <1>3, <2>1, HoldersStayAlone DEF Holding
<1>8. Evolution
  <2>1. audit \subseteq audit' /\ dropped \subseteq dropped'
    BY <1>0, <1>1, <1>2, AfterLog DEF Subject
  <2>2. QED
    BY <1>1, <1>2, <1>4, <2>1 DEF Evolution
<1>9. Justified
  <2>1. Charged(proc[p].order)
    BY <1>1 DEF Charged
  <2>2. QED
    BY <1>1, <1>4, <2>1 DEF Justified
<1>10. RequestOK(p)'
  <2>1. /\ proc'[p].pc = "check" /\ proc'[p].ref = proc[p].ref
        /\ proc'[p].order = proc[p].order
    BY <1>0, <1>3 DEF TypeOK, Request
  <2>2. order'[proc[p].order].pay = "success" \/ Logged(proc[p].ref)'
    <3>1. CASE order' = [order EXCEPT ![proc[p].order].pay = "success"]
      BY <1>0, <1>1, <3>1 DEF TypeOK, OrderRow
    <3>2. CASE Log(proc[p].ref)
      <4>1. \A r \in Ref : r = proc[p].ref => Logged(r)'
        BY <3>2, CallIsLogged
      <4>2. QED
        BY <1>1, <2>1, <4>1 DEF Logged, Audited
    <3>3. QED
      BY <1>2, <3>1, <3>2
  <2>3. QED
    BY <1>1, <2>1, <2>2
       DEF RequestOK, At, Holding, Confirming, Found, PastUpdate, Logged, Audited
<1>11. \A q \in Proc : Undisturbed(q) \/ RequestOK(q)'
  BY <1>1, <1>3, <1>10 DEF Undisturbed
<1>12. QED
  BY <1>5, <1>6, <1>7, <1>8, <1>9, <1>11, SoundStepKeepsIInv DEF SoundStep

-----------------------------------------------------------------------------
(* Creating the assignment                                                 *)

(* A webhook that finds an assignment is answered: its order is paid or    *)
(* audit.Log was called when the update failed.                            *)
LEMMA CheckExistingSound ==
  ASSUME IInv, NEW p \in Proc, CheckExisting(p)
  PROVE  SoundStep /\ IInv'
<1>0. TypeOK /\ RefsBelong /\ HoldersAlone /\ \A q \in Proc : RequestOK(q)
  BY DEF IInv
<1>1. /\ At(p, "check")
      /\ proc[p].ref \in Ref /\ tx[proc[p].ref].st = "charged"
      /\ proc[p].order \in Order /\ tx[proc[p].ref].order = proc[p].order
      /\ order[proc[p].order].pay = "success" \/ Logged(proc[p].ref)
      /\ UNCHANGED <<order, tx, asg, tasks, logs, reported, crashes>>
  BY <1>0 DEF CheckExisting, RequestOK, At, Confirming, Found, PastUpdate
<1>2. RefsBelong'
  BY <1>1, RefsStay
<1>3. Evolution
  BY <1>1 DEF Evolution
<1>4. CASE /\ HasAssignment(proc[p].order)
           /\ answered' = answered \cup {proc[p].ref}
           /\ Finish(p)
  <2>1. /\ proc' \in [Proc -> Request] /\ proc'[p] = Idle
        /\ \A q \in Proc : q # p => proc'[q] = proc[q]
    BY <1>0, <1>4, AfterFinish
  <2>2. TypeOK' /\ HoldersAlone'
    BY <1>0, <1>1, <1>4, <2>1, HoldersStayAlone DEF TypeOK, Holding, Idle
  <2>3. Justified
    <3>1. Settled(proc[p].ref)
      BY <1>1, <1>4 DEF Settled
    <3>2. \A r \in Ref : r = proc[p].ref => Settled(r)'
      BY <1>1, <1>3, <3>1, SettledStays
    <3>3. QED
      BY <1>1, <1>4, <3>2 DEF Justified
  <2>4. RequestOK(p)'
    BY <2>1, IdleRequestOK DEF Idle
  <2>5. \A q \in Proc : Undisturbed(q) \/ RequestOK(q)'
    BY <1>1, <2>1, <2>4 DEF Undisturbed
  <2>6. QED
    BY <1>2, <1>3, <2>2, <2>3, <2>5, SoundStepKeepsIInv DEF SoundStep
<1>5. CASE Goto(p, "create") /\ UNCHANGED answered
  <2>1. /\ proc' \in [Proc -> Request]
        /\ proc'[p] = [proc[p] EXCEPT !.pc = "create"]
        /\ \A q \in Proc : q # p => proc'[q] = proc[q]
    BY <1>0, <1>5, AfterGoto DEF Pc
  <2>2. /\ proc'[p].pc = "create" /\ proc'[p].ref = proc[p].ref
        /\ proc'[p].order = proc[p].order
    BY <1>0, <2>1 DEF TypeOK, Request
  <2>3. TypeOK' /\ HoldersAlone'
    BY <1>0, <1>1, <1>5, <2>1, <2>2, HoldersStayAlone DEF TypeOK, Holding
  <2>4. Justified
    BY <1>1, <1>5, NothingAdded
  <2>5. RequestOK(p)'
    BY <1>1, <2>2
       DEF RequestOK, At, Holding, Confirming, Found, PastUpdate, Logged, Audited
  <2>6. \A q \in Proc : Undisturbed(q) \/ RequestOK(q)'
    BY <1>1, <2>1, <2>5 DEF Undisturbed
  <2>7. QED
    BY <1>2, <1>3, <2>3, <2>4, <2>6, SoundStepKeepsIInv DEF SoundStep
<1>6. QED
  BY <1>4, <1>5 DEF CheckExisting

(* The assignment is for the order the charge was made for; after a failed *)
(* creation audit.Log is called about the order.                           *)
LEMMA CreateAssignmentSound ==
  ASSUME IInv, NEW p \in Proc, NEW a \in Assignment, CreateAssignment(p, a)
  PROVE  SoundStep /\ IInv'
<1>0. TypeOK /\ RefsBelong /\ HoldersAlone /\ \A q \in Proc : RequestOK(q)
  BY DEF IInv
<1>1. /\ At(p, "create") /\ asg[a] = None
      /\ proc[p].ref \in Ref /\ tx[proc[p].ref].st = "charged"
      /\ proc[p].order \in Order /\ tx[proc[p].ref].order = proc[p].order
      /\ order[proc[p].order].pay = "success" \/ Logged(proc[p].ref)
      /\ UNCHANGED <<order, tx, tasks, reported, crashes>>
  BY <1>0 DEF CreateAssignment, RequestOK, At, Confirming, Found, PastUpdate
<1>2. RefsBelong'
  BY <1>1, RefsStay
<1>3. CASE /\ asg' = [asg EXCEPT ![a] = proc[p].order]
           /\ proc' = [proc EXCEPT ![p].pc = "enqueue", ![p].asg = a]
           /\ UNCHANGED <<logs, answered>>
  <2>1. /\ proc' \in [Proc -> Request]
        /\ \A q \in Proc : q # p => proc'[q] = proc[q]
        /\ proc'[p].pc = "enqueue" /\ proc'[p].ref = proc[p].ref
        /\ proc'[p].order = proc[p].order /\ proc'[p].asg = a
    BY <1>0, <1>3 DEF TypeOK, Request, Pc
  <2>2. TypeOK' /\ HoldersAlone'
    BY <1>0, <1>1, <1>3, <2>1, HoldersStayAlone DEF TypeOK, Holding
  <2>3. Evolution
    BY <1>0, <1>1, <1>3 DEF Evolution, TypeOK
  <2>4. Justified
    <3>1. Charged(proc[p].order)
      BY <1>1 DEF Charged
    <3>2. \A b \in Assignment : asg'[b] = asg[b] \/ asg'[b] = proc[p].order
      BY <1>0, <1>3 DEF TypeOK
    <3>3. QED
      BY <1>1, <1>3, <3>1, <3>2 DEF Justified
  <2>5. RequestOK(p)'
    <3>1. HasAssignment(proc[p].order)'
      BY <1>0, <1>3, <2>1 DEF HasAssignment, TypeOK
    <3>2. order'[proc[p].order].pay = "success" \/ Logged(proc[p].ref)'
      BY <1>1, <1>3, <2>1 DEF Logged, Audited
    <3>3. QED
      BY <1>1, <2>1, <3>1, <3>2
         DEF RequestOK, At, Holding, Confirming, Found, PastUpdate
  <2>6. \A q \in Proc : Undisturbed(q) \/ RequestOK(q)'
    BY <1>1, <2>1, <2>5 DEF Undisturbed
  <2>7. QED
    BY <1>2, <2>2, <2>3, <2>4, <2>6, SoundStepKeepsIInv DEF SoundStep
<1>4. CASE /\ Log(proc[p].order)
           /\ answered' = answered \cup {proc[p].ref}
           /\ Finish(p)
           /\ UNCHANGED asg
  <2>1. /\ proc' \in [Proc -> Request] /\ proc'[p] = Idle
        /\ \A q \in Proc : q # p => proc'[q] = proc[q]
    BY <1>0, <1>4, AfterFinish
  <2>2. TypeOK' /\ HoldersAlone'
    <3>1. audit' \subseteq Subject /\ dropped' \subseteq Subject
      BY <1>0, <1>1, <1>4, AfterLog DEF Subject
    <3>2. QED
      BY <1>0, <1>1, <1>4, <2>1, <3>1, HoldersStayAlone DEF TypeOK, Holding, Idle
  <2>3. Evolution
    BY <1>0, <1>1, <1>4, AfterLog DEF Evolution, Subject
  <2>4. Justified
    <3>1. \A r \in Ref : r = proc[p].ref => Logged(r)'
      BY <1>1, <1>4, CallIsLogged
    <3>2. \A r \in Ref : r = proc[p].ref => Settled(r)'
      BY <3>1 DEF Settled
    <3>3. QED
      BY <1>1, <1>4, <3>2 DEF Justified
  <2>5. RequestOK(p)'
    BY <2>1, IdleRequestOK DEF Idle
  <2>6. \A q \in Proc : Undisturbed(q) \/ RequestOK(q)'
    BY <1>1, <2>1, <2>5 DEF Undisturbed
  <2>7. QED
    BY <1>2, <2>2, <2>3, <2>4, <2>6, SoundStepKeepsIInv DEF SoundStep
<1>5. QED
  BY <1>3, <1>4 DEF CreateAssignment

(* Queueing the job leaves orders and charges alone.                       *)
LEMMA EnqueueAssignSound ==
  ASSUME IInv, NEW p \in Proc, EnqueueAssign(p)
  PROVE  SoundStep /\ IInv'
<1>0. TypeOK /\ RefsBelong /\ HoldersAlone /\ \A q \in Proc : RequestOK(q)
  BY DEF IInv
<1>1. /\ proc[p].asg \in Assignment
      /\ proc[p].ref \in Ref /\ tx[proc[p].ref].st = "charged"
      /\ tx[proc[p].ref].order = proc[p].order
      /\ order[proc[p].order].pay = "success" \/ Logged(proc[p].ref)
      /\ HasAssignment(proc[p].order)
      /\ answered' = answered \cup {proc[p].ref}
      /\ UNCHANGED <<order, tx, asg, reported, crashes>>
  BY <1>0 DEF EnqueueAssign, RequestOK, At, Confirming, Found, PastUpdate
<1>2. \/ tasks' = tasks \cup {proc[p].asg} /\ UNCHANGED logs
      \/ Log(proc[p].asg) /\ UNCHANGED tasks
  BY DEF EnqueueAssign
<1>3. /\ proc' \in [Proc -> Request] /\ proc'[p] = Idle
      /\ \A q \in Proc : q # p => proc'[q] = proc[q]
  BY <1>0, AfterFinish DEF EnqueueAssign
<1>4. TypeOK'
  <2>1. /\ audit' \subseteq Subject /\ dropped' \subseteq Subject
        /\ tasks' \subseteq Assignment
    BY <1>0, <1>1, <1>2, AfterLog DEF TypeOK, Subject
  <2>2. QED
    BY <1>0, <1>1, <1>3, <2>1 DEF TypeOK
<1>5. RefsBelong'
  BY <1>1, RefsStay
<1>6. HoldersAlone'
  BY <1>0, <1>3, HoldersStayAlone DEF Holding, Idle
<1>7. Evolution
  BY <1>0, <1>1, <1>2, AfterLog DEF Evolution, Subject
<1>8. Justified
  <2>1. Settled(proc[p].ref)
    BY <1>1 DEF Settled
  <2>2. \A r \in Ref : r = proc[p].ref => Settled(r)'
    BY <1>1, <1>7, <2>1, SettledStays
  <2>3. QED
    BY <1>1, <2>2 DEF Justified
<1>9. \A q \in Proc : Undisturbed(q) \/ RequestOK(q)'
  <2>1. RequestOK(p)'
    BY <1>3, IdleRequestOK DEF Idle
  <2>2. QED
    BY <1>1, <1>3, <2>1 DEF Undisturbed
<1>10. QED
  BY <1>4, <1>5, <1>6, <1>7, <1>8, <1>9, SoundStepKeepsIInv DEF SoundStep

(* Staff create assignments of paid orders only, and those are charged.    *)
LEMMA AdminCreateAssignmentSound ==
  ASSUME IInv, NEW o \in Order, NEW a \in Assignment, AdminCreateAssignment(o, a)
  PROVE  SoundStep /\ IInv'
<1>0. TypeOK /\ RefsBelong /\ HoldersAlone /\ PaidMeansCharged
  BY DEF IInv
<1>1. /\ order[o].pay = "success" /\ asg[a] = None
      /\ asg' = [asg EXCEPT ![a] = o]
      /\ UNCHANGED <<order, tx, tasks, logs, proc, answered, reported, crashes>>
  BY DEF AdminCreateAssignment
<1>2. TypeOK' /\ RefsBelong' /\ HoldersAlone'
  BY <1>0, <1>1 DEF TypeOK, RefsBelong, HoldersAlone, Holding
<1>3. Evolution
  BY <1>0, <1>1 DEF Evolution, TypeOK
<1>4. Justified
  <2>1. Charged(o)
    BY <1>0, <1>1 DEF PaidMeansCharged
  <2>2. \A b \in Assignment : asg'[b] = asg[b] \/ asg'[b] = o
    BY <1>0, <1>1 DEF TypeOK
  <2>3. QED
    BY <1>1, <2>1, <2>2 DEF Justified
<1>5. \A q \in Proc : Undisturbed(q)
  BY <1>1 DEF Undisturbed
<1>6. QED
  BY <1>2, <1>3, <1>4, <1>5, SoundStepKeepsIInv DEF SoundStep

(* The requests are lost; what they wrote is not.                          *)
LEMMA CrashSound ==
  ASSUME IInv, Crash
  PROVE  SoundStep /\ IInv'
<1>0. TypeOK /\ HoldersAlone
  BY DEF IInv
<1>1. /\ proc' = [p \in Proc |-> Idle] /\ crashes' = crashes + 1
      /\ UNCHANGED <<order, tx, asg, tasks, logs, answered, reported>>
  BY DEF Crash
<1>2. \A p \in Proc : proc'[p].pc = "idle"
  BY <1>1 DEF Idle
<1>3. TypeOK'
  BY <1>0, <1>1 DEF TypeOK, Request, Idle, Pc
<1>4. RefsBelong'
  BY <1>1, RefsStay
<1>5. HoldersAlone'
  BY <1>0, <1>2, HoldersStayAlone DEF Holding
<1>6. Evolution /\ Justified
  BY <1>1, NothingAdded DEF Evolution
<1>7. \A q \in Proc : RequestOK(q)'
  BY <1>2, IdleRequestOK
<1>8. QED
  BY <1>3, <1>4, <1>5, <1>6, <1>7, SoundStepKeepsIInv DEF SoundStep

-----------------------------------------------------------------------------
(* The theorems                                                            *)

(* There is nothing to rely on at first.                                   *)
LEMMA InitIInv == Init => IInv
<1> SUFFICES ASSUME Init PROVE IInv
  OBVIOUS
<1>1. TypeOK
  BY ConstantsAssumption
     DEF Init, TypeOK, OrderRow, PayStatus, Checkout, TxState, Request, Idle, Pc
<1>2. RefsBelong /\ HoldersAlone
  BY DEF Init, RefsBelong, HoldersAlone, Holding, Idle
<1>3. \A p \in Proc : RequestOK(p)
  BY DEF Init, RequestOK, Holding, Confirming, Found, PastUpdate, At, Idle
<1>4. PaidMeansCharged /\ AssignmentMeansCharged /\ AnsweredIsAccountedFor
  BY DEF Init, PaidMeansCharged, AssignmentMeansCharged, AnsweredIsAccountedFor
<1>5. QED
  BY <1>1, <1>2, <1>3, <1>4 DEF IInv, Init

(* Every step of the system is sound.                                      *)
LEMMA NextSound ==
  ASSUME IInv, Next
  PROVE  SoundStep /\ IInv'
<1>1. ASSUME NEW p \in Proc, Payer(p)  PROVE SoundStep /\ IInv'
  BY <1>1, RequestDeliverySound, InitiatePaymentSound, SaveFreshRefSound,
     OpenCheckoutSound, VerifyDeliveryPaymentSound, MarkVerifiedSound DEF Payer
<1>2. ASSUME NEW p \in Proc, Webhook(p)  PROVE SoundStep /\ IInv'
  BY <1>2, LookupOrderSound, MarkPaidSound, CheckExistingSound,
     CreateAssignmentSound, EnqueueAssignSound DEF Webhook
<1>3. QED
  BY <1>1, <1>2, ReceiveWebhookSound, PaySound, AdminCreateAssignmentSound,
     CrashSound DEF Next

(* A step that changes nothing.                                            *)
LEMMA StutterKeepsIInv ==
  ASSUME IInv, UNCHANGED vars
  PROVE  IInv'
BY DEF IInv, vars, TypeOK, RefsBelong, HoldersAlone, Holding, RequestOK,
       Confirming, Found, PastUpdate, At, PaidMeansCharged,
       AssignmentMeansCharged, AnsweredIsAccountedFor, Logged, Audited, Charged,
       HasAssignment

(* The invariant holds in every reachable state, whatever the number of    *)
(* orders, references, concurrent requests and restarts.                   *)
THEOREM Invariance == Spec => []IInv
<1>1. IInv /\ [Next]_vars => IInv'
  BY NextSound, StutterKeepsIInv
<1>2. QED
  BY InitIInv, <1>1, PTL DEF Spec

(* Type correctness.                                                       *)
THEOREM TypeCorrect == Spec => []TypeOK
<1>1. IInv => TypeOK
  BY DEF IInv
<1>2. QED
  BY Invariance, <1>1, PTL

(* An order is only ever marked paid after a charge for that very order.   *)
THEOREM PaidOrdersAreCharged == Spec => []PaidMeansCharged
<1>1. IInv => PaidMeansCharged
  BY DEF IInv
<1>2. QED
  BY Invariance, <1>1, PTL

(* An assignment is only ever created for an order somebody has paid for.  *)
THEOREM AssignmentsAreCharged == Spec => []AssignmentMeansCharged
<1>1. IInv => AssignmentMeansCharged
  BY DEF IInv
<1>2. QED
  BY Invariance, <1>1, PTL

(* The charge behind a webhook answered with 200 has led to a paid order   *)
(* with an assignment or to a call of audit.Log about it, stored or not,   *)
(* through any interleaving of requests, failing writes and restarts.      *)
THEOREM AnsweredChargesAreAccountedFor == Spec => []AnsweredIsAccountedFor
<1>1. IInv => AnsweredIsAccountedFor
  BY DEF IInv
<1>2. QED
  BY Invariance, <1>1, PTL

(* No step takes payment_status back from "success".                       *)
THEOREM PaidStaysPaid == Spec => PaidIsFinal
<1>1. ASSUME IInv, Next
      PROVE  \A o \in Order : order[o].pay = "success" => order'[o].pay = "success"
  BY <1>1, NextSound DEF SoundStep, Evolution
<1>2. IInv /\ [Next]_vars =>
        [\A o \in Order : order[o].pay = "success" => order'[o].pay = "success"]_vars
  BY <1>1
<1>3. QED
  BY Invariance, <1>2, PTL DEF Spec, PaidIsFinal

=============================================================================
