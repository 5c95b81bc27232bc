------------------------- MODULE ShopperOrderProofs -------------------------
(***************************************************************************)
(* Safety of ShopperOrder for any number of orders, references and         *)
(* requests.                                                               *)
(*                                                                         *)
(* The invariant IInv adds to the properties whose references are, and     *)
(* what each request in progress relies on.  Every action is a SoundStep:  *)
(* charges and accepted refunds at Paystack stay what they are, whatever   *)
(* the action marks paid or refunded is justified by one or is written by  *)
(* a stray tracking request, and the other requests are not disturbed.     *)
(* Sound steps preserve IInv.                                              *)
(***************************************************************************)
EXTENDS ShopperOrder, TLAPS

-----------------------------------------------------------------------------
(* The inductive invariant                                                 *)

(* A generated reference belongs to one order for ever, and an order's     *)
(* current reference is one of its own.                                    *)
RefsBelong ==
  /\ \A r \in Ref : tx[r].st = "unused" <=> tx[r].order = None
  /\ \A o \in Order : order[o].ref # None => tx[order[o].ref].order = o

(* Requests that open checkouts hold different references.                 *)
PayersAlone ==
  \A p, q \in Proc :
    At(p, "pay") /\ At(q, "pay") /\ proc[p].ref = proc[q].ref => p = q

(* What a request relies on: the row it read names a reference of the same *)
(* order; a row that PayOrder will save was awaiting payment, and nobody   *)
(* has seen its checkout yet; verify and refund ask about a reference of   *)
(* the order, and go on only after Paystack's answer.                      *)
Asks(p)   == proc[p].pc \in {"verify", "mismatch", "confirm", "record",
                             "refund", "refunded", "unpay"}
Paid(p)   == proc[p].pc \in {"mismatch", "confirm", "record"}
Refunding(p) == proc[p].pc \in {"refunded", "unpay"}

RequestOK(p) ==
  /\ ~At(p, "idle") =>
       /\ proc[p].order \in Order
       /\ proc[p].row.ref # None => tx[proc[p].row.ref].order = proc[p].order
  /\ At(p, "pay") =>
       /\ proc[p].row.status \in Awaiting
       /\ proc[p].ref \in Ref
       /\ tx[proc[p].ref].st = "issued"
       /\ tx[proc[p].ref].order = proc[p].order
  /\ Asks(p) => proc[p].ref \in Ref /\ tx[proc[p].ref].order = proc[p].order
  /\ Paid(p) => Taken(proc[p].ref)
  /\ Refunding(p) => Accepted(proc[p].ref)

IInv ==
  /\ TypeOK
  /\ RefsBelong
  /\ PayersAlone
  /\ \A p \in Proc : RequestOK(p)
  /\ \A o \in sent : Charged(o) \/ o \in stray
  /\ PaidMeansCharged
  /\ RefundedMeansAccepted

-----------------------------------------------------------------------------
(* Sound steps                                                             *)

(* What no step undoes.                                                    *)
Evolution ==
  /\ stray \subseteq stray'
  /\ \A r \in Ref :
      /\ tx[r].st # "unused" => tx'[r].order = tx[r].order
      /\ Taken(r) => Taken(r)'
      /\ Accepted(r) => Accepted(r)'

(* What a step may add.                                                    *)
Justified ==
  /\ \A o \in Order :
       /\ order'[o].status \in PaidStatus =>
            order[o].status \in PaidStatus \/ Charged(o) \/ o \in stray'
       /\ order'[o].status = "refunded" =>
            order[o].status = "refunded" \/ Repaid(o) \/ o \in stray'
  /\ \A o \in sent' : o \in sent \/ Charged(o) \/ o \in stray'
  /\ \A r \in Ref :
       /\ payment'[r] # "none" => payment[r] # "none" \/ Taken(r)
       /\ payment'[r] = "refunded" =>
            payment[r] = "refunded" \/ Repaid(tx[r].order)

(* A request stays where it was, and nobody touches the checkout it is     *)
(* about to open.                                                          *)
Undisturbed(q) ==
  /\ proc'[q] = proc[q]
  /\ At(q, "pay") => tx'[proc[q].ref] = tx[proc[q].ref]

SoundStep ==
  /\ Evolution
  /\ Justified
  /\ \A q \in Proc : Undisturbed(q) \/ RequestOK(q)'

(* Charges and refunds of an order are for ever.                           *)
LEMMA ChargedStays ==
  ASSUME Evolution, NEW o, Charged(o)
  PROVE  Charged(o)'
<1>1. PICK r \in Ref : tx[r].order = o /\ Taken(r)
  BY DEF Charged
<1>2. tx'[r].order = o /\ Taken(r)'
  BY <1>1 DEF Evolution, Taken, Accepted
<1>3. QED
  BY <1>2 DEF Charged

(* An order that has an accepted refund keeps it, however the refund ends. *)
LEMMA RepaidStays ==
  ASSUME Evolution, NEW o, Repaid(o)
  PROVE  Repaid(o)'
<1>1. PICK r \in Ref : tx[r].order = o /\ Accepted(r)
  BY DEF Repaid
<1>2. tx'[r].order = o /\ Accepted(r)'
  BY <1>1 DEF Evolution, Accepted
<1>3. QED
  BY <1>2 DEF Repaid

(* A request relies only on what no step undoes.                           *)
LEMMA UndisturbedStays ==
  ASSUME IInv, Evolution, NEW q \in Proc, Undisturbed(q)
  PROVE  RequestOK(q)'
<1>0. RequestOK(q) /\ proc'[q] = proc[q] /\ TypeOK
  BY DEF IInv, Undisturbed
<1>1. ASSUME NEW r \in Ref, NEW o \in Order, tx[r].order = o
      PROVE  tx'[r].order = o
  BY <1>1, ConstantsAssumption DEF IInv, RefsBelong, Evolution
<1>2. proc[q].row.ref \in Ref \cup {None}
  BY <1>0 DEF TypeOK, Request, Row
<1>3. ~At(q, "idle") => (proc[q].row.ref # None =>
                           tx'[proc[q].row.ref].order = proc[q].order)
  BY <1>0, <1>1, <1>2 DEF RequestOK
<1>4. At(q, "pay") => tx'[proc[q].ref] = tx[proc[q].ref]
  BY DEF Undisturbed
<1>5. Asks(q) => tx'[proc[q].ref].order = proc[q].order
  BY <1>0, <1>1 DEF RequestOK, Asks, At
<1>6. Paid(q) => Taken(proc[q].ref)'
  BY <1>0 DEF RequestOK, Paid, Asks, Evolution
<1>7. Refunding(q) => Accepted(proc[q].ref)'
  BY <1>0 DEF RequestOK, Refunding, Asks, Evolution
<1>8. QED
  BY <1>0, <1>3, <1>4, <1>5, <1>6, <1>7
     DEF RequestOK, At, Asks, Paid, Refunding, Taken, Accepted

(* Sound steps preserve the invariant; the parts about types, about the    *)
(* references' owners and about the payers are shown for each action.      *)
LEMMA SoundStepKeepsIInv ==
  ASSUME IInv, SoundStep, TypeOK', RefsBelong', PayersAlone'
  PROVE  IInv'
<1>0. Evolution /\ Justified /\ PaidMeansCharged /\ RefundedMeansAccepted
  BY DEF IInv, SoundStep
<1>1. \A q \in Proc : RequestOK(q)'
  BY UndisturbedStays DEF SoundStep
<1>2. \A o \in sent' : Charged(o)' \/ o \in stray'
  BY <1>0, ChargedStays DEF IInv, Justified, Evolution
<1>3. \A r \in Ref : payment'[r] # "none" => Taken(r)
  BY <1>0 DEF PaidMeansCharged, Justified
<1>4. PaidMeansCharged'
  <2>1. \A o \in Order :
          order'[o].status \in PaidStatus => Charged(o) \/ o \in stray'
    BY <1>0 DEF PaidMeansCharged, Justified, Evolution
  <2>2. \A o \in Order :
          order'[o].status \in PaidStatus => Charged(o)' \/ o \in stray'
    BY <1>0, <2>1, ChargedStays
  <2>3. \A r \in Ref : payment'[r] # "none" => Taken(r)'
    BY <1>0, <1>3 DEF Evolution
  <2>4. QED
    BY <2>2, <2>3 DEF PaidMeansCharged
<1>5. RefundedMeansAccepted'
  <2>1. \A o \in Order :
          order'[o].status = "refunded" => Repaid(o)' \/ o \in stray'
    BY <1>0, RepaidStays DEF RefundedMeansAccepted, Justified, Evolution
  <2>2. ASSUME NEW r \in Ref, payment'[r] = "refunded"
        PROVE  Repaid(tx[r].order)'
    <3>1. Repaid(tx[r].order) /\ tx[r].st # "unused"
      BY <1>0, <1>3, <2>2
         DEF RefundedMeansAccepted, Justified, Taken, Accepted
    <3>2. tx'[r].order = tx[r].order
      BY <1>0, <3>1 DEF Evolution
    <3>3. Repaid(tx[r].order)' \/ \E s \in Ref :
                                  tx'[s].order = tx[r].order /\ Accepted(s)'
      BY <1>0, <3>1 DEF Repaid, Evolution, Accepted
    <3>4. \E s \in Ref : tx'[s].order = tx'[r].order /\ Accepted(s)'
      BY <3>2, <3>3 DEF Repaid
    <3>5. QED
      BY <3>4 DEF Repaid
  <2>3. QED
    BY <2>1, <2>2 DEF RefundedMeansAccepted
<1>6. QED
  BY <1>1, <1>2, <1>4, <1>5 DEF IInv

-----------------------------------------------------------------------------
(* The shapes of a step                                                    *)

(* A request that begins keeps the row it has read.                        *)
LEMMA AfterRead ==
  ASSUME TypeOK, NEW p \in Proc, NEW o \in Order, NEW r \in Ref \cup {None},
         NEW pc \in {"cancel", "pay", "verify", "refund"}, Read(p, pc, o, r)
  PROVE  /\ proc' \in [Proc -> Request]
         /\ proc'[p] = [pc |-> pc, order |-> o, row |-> order[o], ref |-> r]
         /\ \A q \in Proc : q # p => proc'[q] = proc[q]
BY DEF TypeOK, Read, Request

(* A request that goes on keeps its locals.                                *)
LEMMA AfterGoto ==
  ASSUME TypeOK, NEW p \in Proc,
         NEW pc \in {"mismatch", "confirm", "record", "refunded", "unpay"},
         Goto(p, pc)
  PROVE  /\ proc' \in [Proc -> Request]
         /\ proc'[p] = [proc[p] EXCEPT !.pc = pc]
         /\ \A q \in Proc : q # p => proc'[q] = proc[q]
BY DEF TypeOK, Goto, Request

(* A request that ends keeps nothing.                                      *)
LEMMA AfterFinish ==
  ASSUME TypeOK, NEW p \in Proc, Finish(p)
  PROVE  /\ proc' \in [Proc -> Request]
         /\ proc'[p] = Idle
         /\ \A q \in Proc : q # p => proc'[q] = proc[q]
BY DEF TypeOK, Finish, Request, Idle, Row, NoRow, Status

(* An idle request relies on nothing.                                      *)
LEMMA IdleRequestOK ==
  ASSUME NEW p \in Proc, proc'[p] = Idle
  PROVE  RequestOK(p)'
BY DEF Idle, RequestOK, Asks, Paid, Refunding, At

(* A request that goes on from a reference of its order, charged or        *)
(* returned already, still relies on it.                                   *)
LEMMA GotoRequestOK ==
  ASSUME NEW p \in Proc, RequestOK(p), Asks(p), UNCHANGED tx,
         NEW pc \in {"mismatch", "confirm", "record", "refunded", "unpay"},
         proc[p] \in Request, proc'[p] = [proc[p] EXCEPT !.pc = pc],
         pc \in {"mismatch", "confirm", "record"} => Taken(proc[p].ref),
         pc \in {"refunded", "unpay"} => Accepted(proc[p].ref)
  PROVE  RequestOK(p)'
BY DEF Request, RequestOK, Asks, Paid, Refunding, At, Taken, Accepted

(* A step that leaves Paystack and the payers alone: it suffices that what *)
(* it adds is justified, that orders only keep or lose their references,   *)
(* or get one of their own, and that the request it moves, if any, has     *)
(* what it relies on.                                                      *)
LEMMA RowStep ==
  ASSUME IInv, TypeOK', UNCHANGED tx, stray \subseteq stray', Justified,
         \A o \in Order :
           order'[o].ref # None => tx[order'[o].ref].order = o,
         \A q \in Proc :
           proc'[q] = proc[q] \/ (proc'[q].pc # "pay" /\ RequestOK(q)')
  PROVE  SoundStep /\ IInv'
<1>1. RefsBelong'
  BY DEF IInv, RefsBelong
<1>2. PayersAlone'
  BY DEF IInv, PayersAlone, At
<1>3. SoundStep
  BY DEF SoundStep, Evolution, Undisturbed, Taken, Accepted
<1>4. QED
  BY <1>1, <1>2, <1>3, SoundStepKeepsIInv

(* Nothing to justify.                                                     *)
LEMMA NothingAdded ==
  ASSUME UNCHANGED <<order, sent, payment>>
  PROVE  Justified
BY DEF Justified

(* A status is written to one row, and it is one the row may have.         *)
LEMMA AfterSetStatus ==
  ASSUME IInv, NEW o \in Order, NEW s \in Status, SetStatus(o, s),
         s \in PaidStatus => Charged(o) \/ o \in stray',
         s = "refunded" => Repaid(o) \/ o \in stray',
         UNCHANGED payment,
         \A q \in sent' : q \in sent \/ Charged(q) \/ q \in stray'
  PROVE  /\ order' \in [Order -> Row]
         /\ \A q \in Order : order'[q].ref = order[q].ref
         /\ Justified
<1>1. order \in [Order -> Row]
  BY DEF IInv, TypeOK
<1>2. order' = [order EXCEPT ![o] = [order[o] EXCEPT !.status = s]]
  BY <1>1 DEF SetStatus, Row
<1>3. order' \in [Order -> Row] /\ \A q \in Order : order'[q].ref = order[q].ref
  BY <1>1, <1>2 DEF Row
<1>4. \A q \in Order : order'[q].status = IF q = o THEN s ELSE order[q].status
  BY <1>1, <1>2 DEF Row
<1>5. QED
  BY <1>3, <1>4 DEF Justified

-----------------------------------------------------------------------------
(* Steps that write orders and are no request                              *)

(* A new order has no reference and no charge.                             *)
LEMMA CreateOrderSound ==
  ASSUME IInv, NEW o \in Order, CreateOrder(o)
  PROVE  SoundStep /\ IInv'
<1>0. TypeOK /\ RefsBelong
  BY DEF IInv
<1>1. /\ SetStatus(o, "payment_pending") /\ short' \subseteq Order
      /\ UNCHANGED <<sent, tx, payment, proc, logs>>
  BY <1>0 DEF CreateOrder, TypeOK
<1>2. /\ order' \in [Order -> Row] /\ Justified
      /\ \A q \in Order : order'[q].ref = order[q].ref
  BY <1>1, AfterSetStatus DEF Status, PaidStatus, Awaiting
<1>3. TypeOK'
  BY <1>0, <1>1, <1>2 DEF TypeOK, logs
<1>4. QED
  BY <1>0, <1>1, <1>2, <1>3, RowStep DEF RefsBelong, logs

(* Staff move on only orders that are paid for.                            *)
LEMMA PrepareOrderSound ==
  ASSUME IInv, NEW o \in Order, PrepareOrder(o)
  PROVE  SoundStep /\ IInv'
<1>0. TypeOK /\ RefsBelong /\ PaidMeansCharged
  BY DEF IInv
<1>1. /\ order[o].status \in PaidStatus
      /\ SetStatus(o, "preparing") \/ SetStatus(o, "ready_for_pickup")
      /\ UNCHANGED <<short, sent, tx, payment, proc, logs>>
  BY DEF PrepareOrder, PaidStatus, Status, Awaiting
<1>2. Charged(o) \/ o \in stray
  BY <1>0, <1>1 DEF PaidMeansCharged
<1>3. /\ order' \in [Order -> Row] /\ Justified
      /\ \A q \in Order : order'[q].ref = order[q].ref
  BY <1>1, <1>2, AfterSetStatus DEF Status, logs
<1>4. TypeOK'
  BY <1>0, <1>1, <1>3 DEF TypeOK, logs
<1>5. QED
  BY <1>0, <1>1, <1>3, <1>4, RowStep DEF RefsBelong, logs

(* Staff assign drivers only to orders that are paid for.                  *)
LEMMA AssignOrderSound ==
  ASSUME IInv, NEW o \in Order, AssignOrder(o)
  PROVE  SoundStep /\ IInv'
<1>0. TypeOK /\ RefsBelong /\ PaidMeansCharged
  BY DEF IInv
<1>1. /\ order[o].status \in PaidStatus
      /\ SetStatus(o, "assigned_to_driver") /\ sent' = sent \cup {o}
      /\ UNCHANGED <<short, tx, payment, proc, logs>>
  BY DEF AssignOrder, PaidStatus, Status, Awaiting
<1>2. Charged(o) \/ o \in stray
  BY <1>0, <1>1 DEF PaidMeansCharged
<1>3. /\ order' \in [Order -> Row] /\ Justified
      /\ \A q \in Order : order'[q].ref = order[q].ref
  BY <1>1, <1>2, AfterSetStatus DEF Status, logs
<1>4. TypeOK'
  BY <1>0, <1>1, <1>3 DEF TypeOK, logs
<1>5. QED
  BY <1>0, <1>1, <1>3, <1>4, RowStep DEF RefsBelong, logs

(* The driver's report of progress is about an order that has been         *)
(* dispatched; every other tracking request makes the order a stray one.   *)
LEMMA UpdateOrderTrackingSound ==
  ASSUME IInv, NEW o \in Order, UpdateOrderTracking(o)
  PROVE  SoundStep /\ IInv'
<1>0. TypeOK /\ RefsBelong /\ \A q \in sent : Charged(q) \/ q \in stray
  BY DEF IInv
<1>1. PICK s \in Reported :
        /\ SetStatus(o, s)
        /\ stray' = IF o \in sent /\ s \in Progress THEN stray ELSE stray \cup {o}
  BY DEF UpdateOrderTracking
<1>2. UNCHANGED <<short, sent, tx, payment, proc, confirmed, flagged>>
  BY DEF UpdateOrderTracking
<1>3. /\ Charged(o) \/ o \in stray'
      /\ s = "refunded" => o \in stray'
      /\ stray \subseteq stray' /\ stray' \subseteq Order
  BY <1>0, <1>1 DEF Progress, TypeOK
<1>4. s \in Status
  BY ConstantsAssumption
<1>5. /\ order' \in [Order -> Row] /\ Justified
      /\ \A q \in Order : order'[q].ref = order[q].ref
  BY <1>1, <1>2, <1>3, <1>4, AfterSetStatus
<1>6. TypeOK'
  BY <1>0, <1>2, <1>3, <1>5 DEF TypeOK
<1>7. QED
  BY <1>0, <1>2, <1>3, <1>5, <1>6, RowStep DEF RefsBelong, logs

(* The sweep of expired pickups takes back no payment.                     *)
LEMMA ResetExpiredSound ==
  ASSUME IInv, NEW S \in SUBSET Order, ResetExpiredShopperOrders(S)
  PROVE  SoundStep /\ IInv'
<1>0. TypeOK /\ RefsBelong
  BY DEF IInv
<1>1. /\ \A o \in S : order[o].status \in PaidStatus
      /\ order' = [o \in Order |->
                     IF o \in S
                       THEN [order[o] EXCEPT !.status = "ready_for_pickup"]
                       ELSE order[o]]
      /\ UNCHANGED <<short, sent, tx, payment, proc, logs>>
  BY DEF ResetExpiredShopperOrders, PaidStatus, Status, Awaiting
<1>2. order' \in [Order -> Row]
      /\ \A o \in Order : order'[o].ref = order[o].ref
  BY <1>0, <1>1 DEF TypeOK, Row, Status
<1>3. Justified
  BY <1>0, <1>1 DEF Justified, TypeOK, Row
<1>4. TypeOK'
  BY <1>0, <1>1, <1>2 DEF TypeOK, logs
<1>5. QED
  BY <1>0, <1>1, <1>2, <1>3, <1>4, RowStep DEF RefsBelong, logs

(* The order that carries a charged reference is the one it was for.       *)
LEMMA HandlePaystackSound ==
  ASSUME IInv, NEW r \in Ref, HandlePaystack(r)
  PROVE  SoundStep /\ IInv'
<1>0. TypeOK /\ RefsBelong
  BY DEF IInv
<1>1. /\ Taken(r)
      /\ UNCHANGED <<short, sent, tx, payment, proc, flagged, stray>>
      /\ confirmed' \subseteq Ref
  BY <1>0 DEF HandlePaystack, TypeOK
<1>2. CASE UNCHANGED order
  <2>1. TypeOK' /\ Justified
    BY <1>0, <1>1, <1>2, NothingAdded DEF TypeOK
  <2>2. QED
    BY <1>0, <1>1, <1>2, <2>1, RowStep DEF RefsBelong, logs
<1>3. CASE \E o \in Order :
             order[o].ref = r /\ SetStatus(o, "payment_confirmed")
  <2>1. PICK o \in Order : order[o].ref = r /\ SetStatus(o, "payment_confirmed")
    BY <1>3
  <2>2. Charged(o)
    BY <1>0, <1>1, <2>1, ConstantsAssumption DEF RefsBelong, Charged
  <2>3. /\ order' \in [Order -> Row] /\ Justified
        /\ \A q \in Order : order'[q].ref = order[q].ref
    BY <1>1, <2>1, <2>2, AfterSetStatus DEF Status
  <2>4. TypeOK'
    BY <1>0, <1>1, <2>3 DEF TypeOK
  <2>5. QED
    BY <1>0, <1>1, <2>3, <2>4, RowStep DEF RefsBelong, logs
<1>4. QED
  BY <1>2, <1>3 DEF HandlePaystack

(* The sweep of stuck payments confirms nothing.                           *)
LEMMA FlagStuckSound ==
  ASSUME IInv, NEW o \in Order, FlagStuckPendingPayments(o)
  PROVE  SoundStep /\ IInv'
<1>0. TypeOK /\ RefsBelong
  BY DEF IInv
<1>1. /\ flagged' \subseteq Order
      /\ UNCHANGED <<order, short, sent, tx, payment, proc, confirmed, stray>>
  BY <1>0 DEF FlagStuckPendingPayments, TypeOK
<1>2. TypeOK' /\ Justified
  BY <1>0, <1>1, NothingAdded DEF TypeOK
<1>3. QED
  BY <1>0, <1>1, <1>2, RowStep DEF RefsBelong, logs

-----------------------------------------------------------------------------
(* Steps at Paystack, and the requests that open and return charges        *)

(* An open checkout is no longer held by a request.                        *)
LEMMA PaySound ==
  ASSUME IInv, NEW r \in Ref, Pay(r)
  PROVE  SoundStep /\ IInv'
<1>0. TypeOK /\ RefsBelong /\ PayersAlone /\ \A q \in Proc : RequestOK(q)
  BY DEF IInv
<1>1. /\ tx[r].st = "open" /\ tx' = [tx EXCEPT ![r].st = "charged"]
      /\ UNCHANGED <<order, short, sent, payment, proc, logs>>
  BY DEF Pay
<1>2. TypeOK'
  BY <1>0, <1>1 DEF TypeOK, TxState, logs
<1>3. RefsBelong'
  BY <1>0, <1>1 DEF RefsBelong, TypeOK, Row
<1>4. PayersAlone'
  BY <1>0, <1>1 DEF PayersAlone, At
<1>5. Evolution /\ Justified
  BY <1>0, <1>1, NothingAdded DEF Evolution, TypeOK, Taken, Accepted, logs
<1>6. \A q \in Proc : Undisturbed(q)
  BY <1>0, <1>1 DEF Undisturbed, RequestOK, TypeOK
<1>7. QED
  BY <1>2, <1>3, <1>4, <1>5, <1>6, SoundStepKeepsIInv DEF SoundStep

(* The reference is fresh, so it is nobody else's.                         *)
LEMMA PayOrderSound ==
  ASSUME IInv, NEW p \in Proc, NEW o \in Order, NEW r \in Ref,
         PayOrder(p, o, r)
  PROVE  SoundStep /\ IInv'
<1>0. TypeOK /\ RefsBelong /\ PayersAlone /\ \A q \in Proc : RequestOK(q)
  BY DEF IInv
<1>1. /\ order[o].status \in Awaiting /\ tx[r].st = "unused"
      /\ tx' = [tx EXCEPT ![r] = [st |-> "issued", order |-> o]]
      /\ UNCHANGED <<order, short, sent, payment, logs>>
  BY DEF PayOrder
<1>2. /\ proc' \in [Proc -> Request]
      /\ proc'[p] = [pc |-> "pay", order |-> o, row |-> order[o], ref |-> r]
      /\ \A q \in Proc : q # p => proc'[q] = proc[q]
  BY <1>0, AfterRead DEF PayOrder
<1>3. \A q \in Proc : At(q, "pay") => proc[q].ref \in Ref /\ proc[q].ref # r
  BY <1>0, <1>1 DEF RequestOK
<1>4. TypeOK'
  BY <1>0, <1>1, <1>2 DEF TypeOK, TxState, logs
<1>5. RefsBelong'
  BY <1>0, <1>1, ConstantsAssumption DEF RefsBelong, TypeOK, Row
<1>6. PayersAlone'
  BY <1>0, <1>1, <1>2, <1>3 DEF PayersAlone, At
<1>7. Evolution /\ Justified
  BY <1>0, <1>1, NothingAdded DEF Evolution, TypeOK, Taken, Accepted, logs
<1>8. \A q \in Proc : Undisturbed(q) \/ RequestOK(q)'
  <2>1. ASSUME NEW q \in Proc, q # p  PROVE Undisturbed(q)
    BY <1>0, <1>1, <1>2, <1>3, <2>1 DEF Undisturbed, TypeOK
  <2>2. tx'[r].st = "issued" /\ tx'[r].order = o
    BY <1>0, <1>1 DEF TypeOK
  <2>3. order[o].ref # None => tx'[order[o].ref].order = o
    BY <1>0, <1>1, ConstantsAssumption DEF RefsBelong, TypeOK, Row
  <2>4. RequestOK(p)'
    BY <1>1, <1>2, <2>2, <2>3 DEF RequestOK, At, Asks, Paid, Refunding
  <2>5. QED
    BY <2>1, <2>4
<1>9. QED
  BY <1>4, <1>5, <1>6, <1>7, <1>8, SoundStepKeepsIInv DEF SoundStep

(* The saved row was awaiting payment, and it names the order's own        *)
(* reference.                                                              *)
LEMMA SaveReferenceSound ==
  ASSUME IInv, NEW p \in Proc, SaveReference(p)
  PROVE  SoundStep /\ IInv'
<1> DEFINE r == proc[p].ref
           o == proc[p].order
<1>0. /\ TypeOK /\ RefsBelong /\ PayersAlone
      /\ \A q \in Proc : RequestOK(q)
  BY DEF IInv
<1>1. /\ At(p, "pay") /\ r \in Ref /\ o \in Order
      /\ proc[p].row \in Row /\ proc[p].row.status \in Awaiting
      /\ tx[r].st = "issued" /\ tx[r].order = o
  BY <1>0 DEF SaveReference, RequestOK, At, TypeOK, Request
<1>2. /\ order' = [order EXCEPT ![o] = [proc[p].row EXCEPT !.ref = r]]
      /\ tx' = [tx EXCEPT ![r].st = "open"]
      /\ UNCHANGED <<short, sent, payment, logs>>
  BY DEF SaveReference
<1>3. /\ proc' \in [Proc -> Request] /\ proc'[p] = Idle
      /\ \A q \in Proc : q # p => proc'[q] = proc[q]
  BY <1>0, AfterFinish DEF SaveReference
<1>4. order' \in [Order -> Row]
  BY <1>0, <1>1, <1>2 DEF TypeOK, Row
<1>5. \A q \in Order : order'[q] = IF q = o
                                     THEN [status |-> proc[p].row.status, ref |-> r]
                                     ELSE order[q]
  BY <1>0, <1>1, <1>2 DEF TypeOK, Row
<1>6. TypeOK'
  BY <1>0, <1>1, <1>2, <1>3, <1>4 DEF TypeOK, TxState, logs
<1>7. RefsBelong'
  BY <1>0, <1>1, <1>2, <1>5 DEF RefsBelong, TypeOK, Row
<1>8. PayersAlone'
  BY <1>0, <1>3 DEF PayersAlone, At, Idle
<1>9. Evolution
  BY <1>0, <1>1, <1>2 DEF Evolution, TypeOK, Taken, Accepted, logs
<1>10. Justified
  BY <1>1, <1>2, <1>5 DEF Justified, PaidStatus, Awaiting
<1>11. \A q \in Proc : Undisturbed(q) \/ RequestOK(q)'
  <2>1. ASSUME NEW q \in Proc, q # p  PROVE Undisturbed(q)
    <3>1. At(q, "pay") => proc[q].ref \in Ref /\ proc[q].ref # r
      BY <1>0, <1>1, <2>1 DEF PayersAlone, RequestOK
    <3>2. QED
      BY <1>0, <1>2, <1>3, <2>1, <3>1 DEF Undisturbed, TypeOK
  <2>2. RequestOK(p)'
    BY <1>3, IdleRequestOK
  <2>3. QED
    BY <2>1, <2>2
<1>12. QED
  BY <1>6, <1>7, <1>8, <1>9, <1>10, <1>11, SoundStepKeepsIInv DEF SoundStep

(* A refund of the order's charge is accepted; the charge has been made.   *)
LEMMA CallRefundSound ==
  ASSUME IInv, NEW p \in Proc, CallRefund(p)
  PROVE  SoundStep /\ IInv'
<1> DEFINE r == proc[p].ref
<1>0. /\ TypeOK /\ RefsBelong /\ PayersAlone
      /\ \A q \in Proc : RequestOK(q)
  BY DEF IInv
<1>1. /\ At(p, "refund") /\ r \in Ref /\ proc[p].order \in Order
      /\ tx[r].st \in {"charged", "kept"} /\ tx[r].order = proc[p].order
      /\ proc[p].row.ref # None => tx[proc[p].row.ref].order = proc[p].order
      /\ proc[p].row.ref \in Ref \cup {None}
  BY <1>0 DEF CallRefund, RequestOK, Asks, At, TypeOK, Request, Row
<1>2. /\ tx' = [tx EXCEPT ![r].st = "refunding"]
      /\ UNCHANGED <<order, short, sent, payment, logs>>
  BY DEF CallRefund
<1>3. /\ proc' \in [Proc -> Request]
      /\ proc'[p] = [proc[p] EXCEPT !.pc = "refunded"]
      /\ \A q \in Proc : q # p => proc'[q] = proc[q]
  BY <1>0, AfterGoto DEF CallRefund
<1>4. /\ tx'[r].st = "refunding"
      /\ \A s \in Ref : tx'[s].order = tx[s].order
      /\ \A s \in Ref : s # r => tx'[s] = tx[s]
  BY <1>0, <1>1, <1>2 DEF TypeOK
<1>5. TypeOK'
  BY <1>0, <1>1, <1>2, <1>3 DEF TypeOK, TxState, logs
<1>6. RefsBelong'
  BY <1>0, <1>1, <1>2, <1>4 DEF RefsBelong, TypeOK, Row
<1>7. PayersAlone'
  BY <1>0, <1>3 DEF PayersAlone, At, TypeOK, Request
<1>8. Evolution /\ Justified
  BY <1>1, <1>2, <1>4, NothingAdded DEF Evolution, Taken, Accepted, logs
<1>9. \A q \in Proc : Undisturbed(q) \/ RequestOK(q)'
  <2>1. ASSUME NEW q \in Proc, q # p  PROVE Undisturbed(q)
    BY <1>0, <1>1, <1>3, <1>4, <2>1 DEF Undisturbed, RequestOK
  <2>2. /\ proc'[p].pc = "refunded" /\ proc'[p].order = proc[p].order
        /\ proc'[p].row = proc[p].row /\ proc'[p].ref = r
    BY <1>0, <1>3 DEF TypeOK, Request
  <2>3. RequestOK(p)'
    BY <1>1, <1>4, <2>2 DEF RequestOK, At, Asks, Paid, Refunding, Accepted
  <2>4. QED
    BY <2>1, <2>3
<1>10. QED
  BY <1>5, <1>6, <1>7, <1>8, <1>9, SoundStepKeepsIInv DEF SoundStep

(* However a refund ends, it has been accepted.                            *)
LEMMA SettleRefundSound ==
  ASSUME IInv, NEW r \in Ref, SettleRefund(r)
  PROVE  SoundStep /\ IInv'
<1>0. TypeOK /\ RefsBelong /\ PayersAlone /\ \A q \in Proc : RequestOK(q)
  BY DEF IInv
<1>1. PICK st \in {"refunded", "kept"} : tx' = [tx EXCEPT ![r].st = st]
  BY DEF SettleRefund
<1>2. /\ tx[r].st = "refunding"
      /\ UNCHANGED <<order, short, sent, payment, proc, logs>>
  BY DEF SettleRefund
<1>3. TypeOK'
  BY <1>0, <1>1, <1>2 DEF TypeOK, TxState, logs
<1>4. RefsBelong'
  BY <1>0, <1>1, <1>2 DEF RefsBelong, TypeOK, Row
<1>5. PayersAlone'
  BY <1>0, <1>2 DEF PayersAlone, At
<1>6. Evolution /\ Justified
  BY <1>0, <1>1, <1>2, NothingAdded DEF Evolution, TypeOK, Taken, Accepted, logs
<1>7. \A q \in Proc : Undisturbed(q)
  BY <1>0, <1>1, <1>2 DEF Undisturbed, RequestOK, TypeOK
<1>8. QED
  BY <1>3, <1>4, <1>5, <1>6, <1>7, SoundStepKeepsIInv DEF SoundStep

-----------------------------------------------------------------------------
(* The other steps of requests                                             *)

(* A request that reads an order, and asks about a reference of that       *)
(* order or about none.                                                    *)
LEMMA ReadSound ==
  ASSUME IInv, NEW p \in Proc, NEW o \in Order, NEW r \in Ref \cup {None},
         NEW pc \in {"cancel", "verify", "refund"}, Read(p, pc, o, r),
         pc # "cancel" => r \in Ref /\ r = order[o].ref,
         UNCHANGED <<order, short, sent, tx, payment, logs>>
  PROVE  SoundStep /\ IInv'
<1>0. TypeOK /\ RefsBelong
  BY DEF IInv
<1>1. /\ proc' \in [Proc -> Request]
      /\ proc'[p] = [pc |-> pc, order |-> o, row |-> order[o], ref |-> r]
      /\ \A q \in Proc : q # p => proc'[q] = proc[q]
  BY <1>0, AfterRead, pc \in {"cancel", "pay", "verify", "refund"}
<1>2. TypeOK' /\ Justified
  BY <1>0, <1>1, NothingAdded DEF TypeOK, logs
<1>3. order[o].ref # None => tx[order[o].ref].order = o
  BY <1>0 DEF RefsBelong
<1>4. pc # "cancel" => r \in Ref /\ tx[r].order = o
  BY <1>0, <1>3, ConstantsAssumption
<1>5. RequestOK(p)'
  BY <1>1, <1>3, <1>4 DEF RequestOK, At, Asks, Paid, Refunding
<1>6. \A q \in Proc : proc'[q] = proc[q] \/ (proc'[q].pc # "pay" /\ RequestOK(q)')
  BY <1>1, <1>5
<1>7. QED
  BY <1>0, <1>2, <1>6, RowStep DEF RefsBelong, logs

(* A handler that reads and asks writes no row.                            *)
LEMMA AskingSound ==
  ASSUME IInv, NEW p \in Proc, Asking(p)
  PROVE  SoundStep /\ IInv'
<1>1. ASSUME NEW o \in Order, CancelOrder(p, o)  PROVE SoundStep /\ IInv'
  BY <1>1, ReadSound DEF CancelOrder
<1>2. ASSUME NEW o \in Order, NEW r \in Ref, VerifyOrderPayment(p, o, r)
      PROVE  SoundStep /\ IInv'
  BY <1>2, ReadSound DEF VerifyOrderPayment
<1>3. ASSUME NEW o \in Order, RefundOrder(p, o)  PROVE SoundStep /\ IInv'
  <2>1. order[o].ref \in Ref
    BY <1>3 DEF RefundOrder, IInv, TypeOK, Row
  <2>2. QED
    BY <1>3, <2>1, ReadSound DEF RefundOrder
<1>4. QED
  BY <1>1, <1>2, <1>3, PayOrderSound DEF Asking

(* A request that ends without writing.                                    *)
LEMMA FinishSound ==
  ASSUME IInv, NEW p \in Proc, Finish(p),
         UNCHANGED <<order, short, sent, tx, payment, logs>>
  PROVE  SoundStep /\ IInv'
<1>0. TypeOK /\ RefsBelong
  BY DEF IInv
<1>1. /\ proc' \in [Proc -> Request] /\ proc'[p] = Idle
      /\ \A q \in Proc : q # p => proc'[q] = proc[q]
  BY <1>0, AfterFinish
<1>2. TypeOK' /\ Justified
  BY <1>0, <1>1, NothingAdded DEF TypeOK, logs
<1>3. \A q \in Proc : proc'[q] = proc[q] \/ (proc'[q].pc # "pay" /\ RequestOK(q)')
  BY <1>1, IdleRequestOK DEF Idle
<1>4. QED
  BY <1>0, <1>2, <1>3, RowStep DEF RefsBelong, logs

(* A cancelled row is not paid; it names a reference of the order, old or  *)
(* not.                                                                    *)
LEMMA SaveCancelledSound ==
  ASSUME IInv, NEW p \in Proc, SaveCancelled(p)
  PROVE  SoundStep /\ IInv'
<1> DEFINE o == proc[p].order
           row == proc[p].row
<1>0. TypeOK /\ RefsBelong /\ RequestOK(p)
  BY DEF IInv
<1>1. /\ o \in Order /\ row \in Row
      /\ row.ref # None => tx[row.ref].order = o
  BY <1>0 DEF SaveCancelled, RequestOK, At, TypeOK, Request
<1>2. /\ order' = [order EXCEPT ![o] = [row EXCEPT !.status = "cancelled"]]
      /\ UNCHANGED <<short, sent, tx, payment, logs>>
  BY DEF SaveCancelled
<1>3. /\ proc' \in [Proc -> Request] /\ proc'[p] = Idle
      /\ \A q \in Proc : q # p => proc'[q] = proc[q]
  BY <1>0, AfterFinish DEF SaveCancelled
<1>4. [row EXCEPT !.status = "cancelled"]
        = [status |-> "cancelled", ref |-> row.ref]
  BY <1>1 DEF Row
<1>5. \A q \in Order : order'[q] = IF q = o
                                     THEN [status |-> "cancelled", ref |-> row.ref]
                                     ELSE order[q]
  BY <1>0, <1>2, <1>4 DEF TypeOK
<1>6. order' \in [Order -> Row]
  BY <1>0, <1>1, <1>2, <1>4 DEF TypeOK, Row, Status
<1>7. TypeOK'
  BY <1>0, <1>2, <1>3, <1>6 DEF TypeOK, logs
<1>8. Justified
  BY <1>2, <1>5 DEF Justified, PaidStatus
<1>9. \A q \in Order : order'[q].ref # None => tx[order'[q].ref].order = q
  BY <1>0, <1>1, <1>5 DEF RefsBelong
<1>10. \A q \in Proc : proc'[q] = proc[q] \/ (proc'[q].pc # "pay" /\ RequestOK(q)')
  BY <1>3, IdleRequestOK DEF Idle
<1>11. QED
  BY <1>2, <1>7, <1>8, <1>9, <1>10, RowStep DEF logs

(* Only a charged reference lets verify go on.                             *)
LEMMA WeighAnswerSound ==
  ASSUME IInv, NEW p \in Proc, WeighAnswer(p)
  PROVE  SoundStep /\ IInv'
<1>0. TypeOK /\ RefsBelong /\ RequestOK(p) /\ proc[p] \in Request
  BY DEF IInv, TypeOK
<1>1. At(p, "verify") /\ UNCHANGED <<order, short, sent, tx, payment, logs>>
  BY DEF WeighAnswer
<1>2. ASSUME NEW pc \in {"mismatch", "confirm"}, Goto(p, pc),
             Taken(proc[p].ref)
      PROVE  SoundStep /\ IInv'
  <2>1. /\ proc' \in [Proc -> Request]
        /\ proc'[p] = [proc[p] EXCEPT !.pc = pc]
        /\ \A q \in Proc : q # p => proc'[q] = proc[q]
    BY <1>0, <1>2, AfterGoto
  <2>2. TypeOK' /\ Justified
    BY <1>0, <1>1, <2>1, NothingAdded DEF TypeOK, logs
  <2>3. RequestOK(p)'
    BY <1>0, <1>1, <1>2, <2>1, GotoRequestOK DEF Asks, At
  <2>4. proc'[p].pc # "pay"
    BY <1>0, <2>1 DEF Request
  <2>5. \A q \in Proc : proc'[q] = proc[q] \/ (proc'[q].pc # "pay" /\ RequestOK(q)')
    BY <2>1, <2>3, <2>4
  <2>6. QED
    BY <1>0, <1>1, <2>2, <2>5, RowStep DEF RefsBelong, logs
<1>3. CASE Finish(p)
  BY <1>1, <1>3, FinishSound
<1>4. QED
  BY <1>2, <1>3 DEF WeighAnswer

(* A confirmed or refunded status is written by a request that has         *)
(* Paystack's word for it.                                                 *)
LEMMA SetStatusSound ==
  ASSUME IInv, NEW p \in Proc, Asks(p), NEW s \in PaidStatus,
         NEW pc \in {"record", "unpay"},
         SetStatus(proc[p].order, s), Goto(p, pc),
         Taken(proc[p].ref),
         s = "refunded" \/ pc = "unpay" => Accepted(proc[p].ref),
         UNCHANGED <<short, sent, tx, payment, logs>>
  PROVE  SoundStep /\ IInv'
<1>0. TypeOK /\ RefsBelong /\ RequestOK(p) /\ proc[p] \in Request
  BY DEF IInv, TypeOK
<1>1. /\ proc[p].order \in Order /\ proc[p].ref \in Ref
      /\ tx[proc[p].ref].order = proc[p].order
  BY <1>0 DEF RequestOK, Asks, At
<1>2. Charged(proc[p].order) /\ (s = "refunded" => Repaid(proc[p].order))
  BY <1>1 DEF Charged, Repaid
<1>3. /\ order' \in [Order -> Row] /\ Justified
      /\ \A q \in Order : order'[q].ref = order[q].ref
  BY <1>1, <1>2, AfterSetStatus DEF PaidStatus
<1>4. /\ proc' \in [Proc -> Request]
      /\ proc'[p] = [proc[p] EXCEPT !.pc = pc]
      /\ \A q \in Proc : q # p => proc'[q] = proc[q]
  BY <1>0, AfterGoto
<1>5. TypeOK'
  BY <1>0, <1>3, <1>4 DEF TypeOK, logs
<1>6. RequestOK(p)'
  BY <1>0, <1>4, GotoRequestOK
<1>7. proc'[p].pc # "pay"
  BY <1>0, <1>4 DEF Request
<1>8. \A q \in Proc : proc'[q] = proc[q] \/ (proc'[q].pc # "pay" /\ RequestOK(q)')
  BY <1>4, <1>6, <1>7
<1>9. QED
  BY <1>0, <1>3, <1>5, <1>8, RowStep DEF RefsBelong, logs

(* What verify confirms has been charged for that order.                   *)
LEMMA ConfirmVerifiedSound ==
  ASSUME IInv, NEW p \in Proc, ConfirmVerified(p)
  PROVE  SoundStep /\ IInv'
<1>1. Asks(p) /\ Taken(proc[p].ref)
  BY DEF ConfirmVerified, IInv, RequestOK, Asks, Paid, At
<1>2. QED
  BY <1>1, SetStatusSound DEF ConfirmVerified, PaidStatus, Status, Awaiting

(* What is marked refunded has a refund that Paystack has accepted.        *)
LEMMA MarkRefundedSound ==
  ASSUME IInv, NEW p \in Proc, MarkRefunded(p)
  PROVE  SoundStep /\ IInv'
<1>1. Asks(p) /\ Taken(proc[p].ref) /\ Accepted(proc[p].ref)
  BY DEF MarkRefunded, IInv, RequestOK, Asks, Refunding, At, Taken
<1>2. QED
  BY <1>1, SetStatusSound DEF MarkRefunded, PaidStatus, Status, Awaiting

(* A request that ends with a write to the payments rows.                  *)
LEMMA PaymentSound ==
  ASSUME IInv, NEW p \in Proc, Finish(p),
         payment' \in [Ref -> {"none", "success", "refunded"}],
         \A r \in Ref :
           /\ payment'[r] # "none" => payment[r] # "none" \/ Taken(r)
           /\ payment'[r] = "refunded" =>
                payment[r] = "refunded" \/ Repaid(tx[r].order),
         UNCHANGED <<order, short, sent, tx, logs>>
  PROVE  SoundStep /\ IInv'
<1>0. TypeOK /\ RefsBelong
  BY DEF IInv
<1>1. /\ proc' \in [Proc -> Request] /\ proc'[p] = Idle
      /\ \A q \in Proc : q # p => proc'[q] = proc[q]
  BY <1>0, AfterFinish
<1>2. TypeOK'
  BY <1>0, <1>1 DEF TypeOK, logs
<1>3. Justified
  BY DEF Justified
<1>4. \A q \in Proc : proc'[q] = proc[q] \/ (proc'[q].pc # "pay" /\ RequestOK(q)')
  BY <1>1, IdleRequestOK DEF Idle
<1>5. QED
  BY <1>0, <1>2, <1>3, <1>4, RowStep DEF RefsBelong, logs

(* A payments row is written for a charge.                                 *)
LEMMA RecordPaymentSound ==
  ASSUME IInv, NEW p \in Proc, RecordPayment(p)
  PROVE  SoundStep /\ IInv'
<1>0. TypeOK /\ RequestOK(p)
  BY DEF IInv
<1>1. proc[p].ref \in Ref /\ Taken(proc[p].ref)
  BY <1>0 DEF RecordPayment, RequestOK, Asks, Paid, At
<1>2. /\ payment' = [payment EXCEPT ![proc[p].ref] =
                        IF @ = "none" THEN "success" ELSE @]
      /\ Finish(p) /\ UNCHANGED <<order, short, sent, tx, logs>>
  BY DEF RecordPayment
<1>3. payment' \in [Ref -> {"none", "success", "refunded"}]
  BY <1>0, <1>1, <1>2 DEF TypeOK
<1>4. \A r \in Ref :
        /\ payment'[r] # "none" => payment[r] # "none" \/ Taken(r)
        /\ payment'[r] = "refunded" => payment[r] = "refunded"
  BY <1>0, <1>1, <1>2 DEF TypeOK
<1>5. QED
  BY <1>2, <1>3, <1>4, PaymentSound

(* A payments row is marked refunded after Paystack accepted a refund.     *)
LEMMA MarkPaymentsRefundedSound ==
  ASSUME IInv, NEW p \in Proc, MarkPaymentsRefunded(p)
  PROVE  SoundStep /\ IInv'
<1>0. TypeOK /\ RequestOK(p)
  BY DEF IInv
<1>1. Repaid(proc[p].order)
  BY <1>0 DEF MarkPaymentsRefunded, RequestOK, Asks, Refunding, At, Repaid
<1>2. /\ payment' = [r \in Ref |->
                       IF tx[r].order = proc[p].order /\ payment[r] # "none"
                         THEN "refunded" ELSE payment[r]]
      /\ Finish(p) /\ UNCHANGED <<order, short, sent, tx, logs>>
  BY DEF MarkPaymentsRefunded
<1>3. payment' \in [Ref -> {"none", "success", "refunded"}]
  BY <1>0, <1>2 DEF TypeOK
<1>4. \A r \in Ref :
        /\ payment'[r] # "none" => payment[r] # "none"
        /\ payment'[r] = "refunded" =>
             payment[r] = "refunded" \/ Repaid(tx[r].order)
  BY <1>1, <1>2
<1>5. QED
  BY <1>2, <1>3, <1>4, PaymentSound

(* Every later step of a request.                                          *)
LEMMA HandlingSound ==
  ASSUME IInv, NEW p \in Proc, Handling(p)
  PROVE  SoundStep /\ IInv'
BY SaveCancelledSound, SaveReferenceSound, WeighAnswerSound,
   ConfirmVerifiedSound, RecordPaymentSound, CallRefundSound,
   MarkRefundedSound, MarkPaymentsRefundedSound
   DEF Handling

-----------------------------------------------------------------------------
(* The theorems                                                            *)

(* There is nothing to rely on at first.                                   *)
LEMMA InitIInv == Init => IInv
<1> SUFFICES ASSUME Init  PROVE IInv
  OBVIOUS
<1>1. TypeOK
  BY DEF Init, TypeOK, NoRow, Idle, Row, Status, TxState, Request
<1>2. RefsBelong /\ PayersAlone
  BY DEF Init, RefsBelong, PayersAlone, At, NoRow, Idle
<1>3. \A p \in Proc : RequestOK(p)
  BY DEF Init, RequestOK, At, Asks, Paid, Refunding, Idle
<1>4. PaidMeansCharged /\ RefundedMeansAccepted /\ sent = {}
  BY DEF Init, PaidMeansCharged, RefundedMeansAccepted, PaidStatus, NoRow
<1>5. QED
  BY <1>1, <1>2, <1>3, <1>4 DEF IInv

(* Every step of the system is sound.                                      *)
LEMMA NextSound ==
  ASSUME IInv, Next
  PROVE  SoundStep /\ IInv'
<1>1. ASSUME NEW p \in Proc, Stop(p)  PROVE SoundStep /\ IInv'
  BY <1>1, FinishSound DEF Stop
<1>2. QED
  BY <1>1, CreateOrderSound, AskingSound, HandlingSound, PaySound,
     SettleRefundSound, HandlePaystackSound, PrepareOrderSound,
     AssignOrderSound, UpdateOrderTrackingSound, ResetExpiredSound,
     FlagStuckSound
     DEF Next

(* A step that changes nothing.                                            *)
LEMMA StutterKeepsIInv ==
  ASSUME IInv, UNCHANGED vars
  PROVE  IInv'
BY DEF IInv, vars, logs, TypeOK, RefsBelong, PayersAlone, RequestOK, At,
       Asks, Paid, Refunding, Taken, Accepted, Charged, Repaid, PaidMeansCharged,
       RefundedMeansAccepted

(* IInv is an inductive invariant of the shopper orders.                   *)
THEOREM Invariance == Spec => []IInv
<1>1. IInv /\ [Next]_vars => IInv'
  BY NextSound, StutterKeepsIInv
<1>2. QED
  BY <1>1, InitIInv, PTL DEF Spec

(* Every variable keeps its type: rows hold statuses of the column's enum, *)
(* requests hold rows and references that exist.                           *)
THEOREM TypeCorrect == Spec => []TypeOK
<1>1. IInv => TypeOK
  BY DEF IInv
<1>2. QED
  BY <1>1, Invariance, PTL

(* An order treated as paid, and a payments row, has a charge made for it, *)
(* however checkouts, verifications, cancellations, refunds, webhooks and  *)
(* restarts interleave; for an order, unless a stray tracking request has  *)
(* written its status.                                                     *)
THEOREM PaidOrdersAreCharged == Spec => []PaidMeansCharged
<1>1. IInv => PaidMeansCharged
  BY DEF IInv
<1>2. QED
  BY <1>1, Invariance, PTL

(* An order or a payments row marked refunded has a charge whose refund    *)
(* Paystack has accepted; for an order, unless a stray tracking request    *)
(* has written its status.                                                 *)
THEOREM RefundedOrdersAreAccepted == Spec => []RefundedMeansAccepted
<1>1. IInv => RefundedMeansAccepted
  BY DEF IInv
<1>2. QED
  BY <1>1, Invariance, PTL

=============================================================================
