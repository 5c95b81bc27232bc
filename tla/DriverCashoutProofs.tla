------------------------ MODULE DriverCashoutProofs ------------------------
(***************************************************************************)
(* Proofs about DriverCashout, for any drivers, number of requests and     *)
(* amounts.  A request that holds the lock knows a balance that is never   *)
(* more than what is left: only the holder can make the sum of the driver's*)
(* requests grow, and everything else that happens while the balance is    *)
(* read leaves more of it, not less.                                       *)
(***************************************************************************)
EXTENDS DriverCashout, TLAPS

(* A request between lock and answer is the one the lock is held by.       *)
LockHeld(p) ==
  proc[p].pc \in Holding => lock[proc[p].driver] = p

(* What the request has read so far does not exceed what it stands for.    *)
ReadingOK(p) ==
  LET d == proc[p].driver
      got == proc[p].got
  IN /\ proc[p].pc \in {"lock", "parcel"} => got <= 0
     /\ proc[p].pc = "shop" => got <= parcel[d]
     /\ proc[p].pc = "pending" => got <= parcel[d] + peak[d]
     /\ proc[p].pc = "paid" => got <= parcel[d] + peak[d] - pend[d]
     /\ proc[p].pc \in {"decide", "commit"} =>
          got <= parcel[d] + peak[d] - pend[d] - paid[d]
     /\ proc[p].pc = "commit" => proc[p].amount <= got

PeakOK == \A d \in Driver : shop[d] <= peak[d]

IInv ==
  /\ TypeOK
  /\ PeakOK
  /\ NeverOverdrawn
  /\ \A p \in Proc : LockHeld(p)
  /\ \A p \in Proc : ReadingOK(p)

(* Nothing is taken from what the driver d has left.                       *)
LeavesAsMuch(d) ==
  /\ parcel[d] + peak[d] <= parcel'[d] + peak'[d]
  /\ parcel[d] <= parcel'[d]
  /\ pend'[d] <= pend[d]
  /\ pend'[d] + paid'[d] <= pend[d] + paid[d]

-----------------------------------------------------------------------------

(* The fields of a request in progress.                                    *)
LEMMA Fields ==
  ASSUME TypeOK, NEW p \in Proc, proc[p].pc # "idle"
  PROVE  /\ proc[p] \in Request
         /\ proc[p].driver \in Driver
         /\ proc[p].amount \in Nat
         /\ proc[p].amount \in MinCashout .. MaxAmount
         /\ proc[p].got \in Int
         /\ proc[p].pc \in Pc
<1>1. proc[p] \in {Idle} \cup Request
  BY DEF TypeOK
<1>2. proc[p] # Idle
  BY DEF Idle
<1>3. proc[p] \in Request
  BY <1>1, <1>2
<1> QED
  BY <1>3, ConstantsAssumption DEF Request

(* The sums of a driver are natural numbers.                               *)
LEMMA SumsAreNat ==
  ASSUME TypeOK, NEW d \in Driver
  PROVE  /\ parcel[d] \in Nat /\ shop[d] \in Nat /\ peak[d] \in Nat
         /\ pend[d] \in Nat /\ paid[d] \in Nat
BY DEF TypeOK

(* A request that takes no step keeps what it knows about the balance, when*)
(* nothing is taken from what its driver has left.                         *)
LEMMA ReadingKept ==
  ASSUME TypeOK, TypeOK', NEW p \in Proc, ReadingOK(p), proc'[p] = proc[p],
         proc[p].pc \notin {"idle", "lock", "parcel"} =>
           \A d \in Driver : d = proc[p].driver => LeavesAsMuch(d)
  PROVE  ReadingOK(p)'
<1>1. CASE proc[p].pc \in {"idle", "lock", "parcel"}
  BY <1>1 DEF ReadingOK
<1>2. CASE proc[p].pc \notin {"idle", "lock", "parcel"}
  <2> DEFINE d == proc[p].driver
  <2>1. d \in Driver /\ proc[p].got \in Int
    BY <1>2, Fields
  <2>2. LeavesAsMuch(d)
    BY <1>2, <2>1
  <2>3. /\ parcel[d] \in Nat /\ peak[d] \in Nat
        /\ pend[d] \in Nat /\ paid[d] \in Nat
    BY <2>1, SumsAreNat
  <2>4. /\ parcel'[d] \in Nat /\ peak'[d] \in Nat
        /\ pend'[d] \in Nat /\ paid'[d] \in Nat
    BY <2>1 DEF TypeOK
  <2> QED
    BY <1>2, <2>1, <2>2, <2>3, <2>4 DEF ReadingOK, LeavesAsMuch
<1> QED
  BY <1>1, <1>2

(* Unchanged sums take nothing from anybody.                               *)
LEMMA SameSums ==
  ASSUME TypeOK, UNCHANGED sums
  PROVE  \A d \in Driver : LeavesAsMuch(d)
BY SumsAreNat DEF sums, LeavesAsMuch

(* The process is idle, so it holds and knows nothing.                     *)
LEMMA IdleIsQuiet ==
  ASSUME NEW p \in Proc, proc'[p] = Idle
  PROVE  LockHeld(p)' /\ ReadingOK(p)'
BY DEF Idle, LockHeld, ReadingOK, Holding

(* When a request gives its lock back, no other request loses one.         *)
LEMMA OthersKeepLocks ==
  ASSUME TypeOK, NEW p \in Proc, proc[p].pc \in Holding,
         \A q \in Proc : LockHeld(q), Release(p)
  PROVE  /\ proc'[p] = Idle
         /\ \A q \in Proc : q # p => proc'[q] = proc[q]
         /\ \A q \in Proc : LockHeld(q)'
         /\ lock' \in [Driver -> Proc \cup {None}]
         /\ proc' \in [Proc -> {Idle} \cup Request]
<1>1. proc[p].driver \in Driver
  BY Fields DEF Holding
<1>2. proc'[p] = Idle /\ \A q \in Proc : q # p => proc'[q] = proc[q]
  BY DEF Release, TypeOK
<1>3. lock' = [lock EXCEPT ![proc[p].driver] = None]
  BY DEF Release
<1>4. ASSUME NEW q \in Proc
      PROVE  LockHeld(q)'
  <2>1. CASE q = p
    BY <2>1, <1>2, IdleIsQuiet
  <2>2. CASE q # p
    <3>1. SUFFICES ASSUME proc[q].pc \in Holding
                   PROVE  lock'[proc[q].driver] = q
      BY <2>2, <1>2 DEF LockHeld
    <3>2. proc[q].driver \in Driver
      BY <3>1, Fields DEF Holding
    <3>3. lock[proc[q].driver] = q /\ lock[proc[p].driver] = p
      BY <3>1 DEF LockHeld
    <3>4. proc[q].driver # proc[p].driver
      BY <3>3, <2>2
    <3> QED
      BY <3>2, <3>3, <3>4, <1>3 DEF TypeOK
  <2> QED
    BY <2>1, <2>2
<1>5. lock' \in [Driver -> Proc \cup {None}]
  BY <1>1, <1>3 DEF TypeOK
<1>6. proc' \in [Proc -> {Idle} \cup Request]
  BY DEF Release, TypeOK
<1> QED
  BY <1>2, <1>4, <1>5, <1>6

(* Ending a transaction without a new row keeps the invariant.             *)
LEMMA ReleaseKeeps ==
  ASSUME IInv, NEW p \in Proc, proc[p].pc \in Holding, Release(p),
         UNCHANGED <<sums, crashes>>
  PROVE  IInv'
<1>1. /\ proc'[p] = Idle
      /\ \A q \in Proc : q # p => proc'[q] = proc[q]
      /\ \A q \in Proc : LockHeld(q)'
      /\ lock' \in [Driver -> Proc \cup {None}]
      /\ proc' \in [Proc -> {Idle} \cup Request]
  BY OthersKeepLocks DEF IInv
<1>2. TypeOK'
  BY <1>1 DEF IInv, TypeOK, sums
<1>3. PeakOK' /\ NeverOverdrawn'
  BY DEF IInv, PeakOK, NeverOverdrawn, Earned, Withdrawn, sums
<1>4. \A d \in Driver : LeavesAsMuch(d)
  BY SameSums DEF IInv
<1>5. ASSUME NEW q \in Proc
      PROVE  ReadingOK(q)'
  <2>1. CASE q = p
    BY <2>1, <1>1, IdleIsQuiet
  <2>2. CASE q # p
    BY <2>2, <1>1, <1>2, <1>4, ReadingKept DEF IInv
  <2> QED
    BY <2>1, <2>2
<1> QED
  BY <1>1, <1>2, <1>3, <1>5 DEF IInv

(* A step of one request that changes neither the sums nor the locks keeps *)
(* the invariant when the request itself stays in order.                   *)
LEMMA OwnStepKeeps ==
  ASSUME IInv, NEW p \in Proc,
         UNCHANGED <<sums, lock, crashes>>,
         proc' \in [Proc -> {Idle} \cup Request],
         \A q \in Proc : q # p => proc'[q] = proc[q],
         LockHeld(p)', ReadingOK(p)'
  PROVE  IInv'
<1>1. TypeOK'
  BY DEF IInv, TypeOK, sums
<1>2. PeakOK' /\ NeverOverdrawn'
  BY DEF IInv, PeakOK, NeverOverdrawn, Earned, Withdrawn, sums
<1>3. \A d \in Driver : LeavesAsMuch(d)
  BY SameSums DEF IInv
<1>4. ASSUME NEW q \in Proc, q # p
      PROVE  LockHeld(q)' /\ ReadingOK(q)'
  <2>1. proc'[q] = proc[q]
    BY <1>4
  <2>2. LockHeld(q)'
    BY <2>1 DEF IInv, LockHeld
  <2> QED
    BY <2>1, <2>2, <1>1, <1>3, ReadingKept DEF IInv
<1> QED
  BY <1>1, <1>2, <1>4 DEF IInv

(* A step of the surroundings keeps the invariant when no driver has less  *)
(* left afterwards.                                                        *)
LEMMA OutsideStepKeeps ==
  ASSUME IInv, TypeOK', PeakOK', UNCHANGED <<lock, proc, crashes>>,
         \A d \in Driver : LeavesAsMuch(d)
  PROVE  IInv'
<1>1. NeverOverdrawn'
  <2>1. SUFFICES ASSUME NEW d \in Driver
                 PROVE  pend'[d] + paid'[d] <= parcel'[d] + peak'[d]
    BY DEF NeverOverdrawn, Earned, Withdrawn
  <2>2. pend[d] + paid[d] <= parcel[d] + peak[d]
    BY DEF IInv, NeverOverdrawn, Earned, Withdrawn
  <2>3. /\ parcel[d] \in Nat /\ peak[d] \in Nat
        /\ pend[d] \in Nat /\ paid[d] \in Nat
    BY SumsAreNat DEF IInv
  <2>4. /\ parcel'[d] \in Nat /\ peak'[d] \in Nat
        /\ pend'[d] \in Nat /\ paid'[d] \in Nat
    BY DEF TypeOK
  <2>5. LeavesAsMuch(d)
    OBVIOUS
  <2> QED
    BY <2>2, <2>3, <2>4, <2>5 DEF LeavesAsMuch
<1>2. ASSUME NEW q \in Proc
      PROVE  LockHeld(q)' /\ ReadingOK(q)'
  <2>1. LockHeld(q)'
    BY DEF IInv, LockHeld
  <2> QED
    BY <2>1, ReadingKept DEF IInv
<1> QED
  BY <1>1, <1>2 DEF IInv

-----------------------------------------------------------------------------
(* What happens around a request                                           *)

(* A confirmed parcel delivery only adds to the driver's balance.          *)
LEMMA EarnParcelKeeps ==
  ASSUME IInv, NEW d \in Driver, EarnParcel(d)
  PROVE  IInv'
<1>1. PICK n \in 1 .. MaxEarned : parcel' = [parcel EXCEPT ![d] = @ + n]
  BY DEF EarnParcel
<1>2. n \in Nat
  BY ConstantsAssumption
<1>3. TypeOK' /\ PeakOK'
  BY <1>1, <1>2 DEF EarnParcel, IInv, TypeOK, PeakOK
<1>4. ASSUME NEW e \in Driver
      PROVE  LeavesAsMuch(e)
  <2>1. parcel[e] \in Nat /\ peak[e] \in Nat /\ pend[e] \in Nat /\ paid[e] \in Nat
    BY SumsAreNat DEF IInv
  <2>2. parcel'[e] = IF e = d THEN parcel[e] + n ELSE parcel[e]
    BY <1>1 DEF IInv, TypeOK
  <2> QED
    BY <2>1, <2>2, <1>2 DEF EarnParcel, LeavesAsMuch
<1> QED
  BY <1>3, <1>4, OutsideStepKeeps DEF EarnParcel

(* The shopper total may fall, its peak does not.                          *)
LEMMA ShopTotalChangesKeeps ==
  ASSUME IInv, NEW d \in Driver, ShopTotalChanges(d)
  PROVE  IInv'
<1>1. PICK n \in 0 .. MaxEarned :
        /\ shop' = [shop EXCEPT ![d] = n]
        /\ peak' = [peak EXCEPT ![d] = IF n > @ THEN n ELSE @]
  BY DEF ShopTotalChanges
<1>2. n \in Nat
  BY ConstantsAssumption
<1>3. ASSUME NEW e \in Driver
      PROVE  /\ peak[e] <= peak'[e]
             /\ shop'[e] <= peak'[e]
             /\ shop'[e] \in Nat
             /\ peak'[e] \in Nat
  <2>1. peak[e] \in Nat /\ shop[e] \in Nat /\ shop[e] <= peak[e]
    BY SumsAreNat DEF IInv, PeakOK
  <2>2. /\ shop'[e] = IF e = d THEN n ELSE shop[e]
        /\ peak'[e] = IF e = d /\ n > peak[e] THEN n ELSE peak[e]
    BY <1>1 DEF IInv, TypeOK
  <2> QED
    BY <2>1, <2>2, <1>2
<1>4. TypeOK'
  <2>1. shop' \in [Driver -> Nat] /\ peak' \in [Driver -> Nat]
    BY <1>1, <1>2 DEF IInv, TypeOK
  <2> QED
    BY <2>1 DEF ShopTotalChanges, IInv, TypeOK
<1>5. PeakOK'
  BY <1>3 DEF PeakOK
<1>6. ASSUME NEW e \in Driver
      PROVE  LeavesAsMuch(e)
  <2>1. parcel[e] \in Nat /\ peak[e] \in Nat /\ pend[e] \in Nat /\ paid[e] \in Nat
    BY SumsAreNat DEF IInv
  <2> QED
    BY <2>1, <1>3 DEF ShopTotalChanges, LeavesAsMuch
<1> QED
  BY <1>4, <1>5, <1>6, OutsideStepKeeps DEF ShopTotalChanges

(* Paying moves an amount from pending to paid.                            *)
LEMMA PayOutKeeps ==
  ASSUME IInv, NEW d \in Driver, PayOut(d)
  PROVE  IInv'
<1>1. PICK n \in 1 .. pend[d] : /\ pend' = [pend EXCEPT ![d] = @ - n]
                               /\ paid' = [paid EXCEPT ![d] = @ + n]
  BY DEF PayOut
<1>2. pend[d] \in Nat /\ paid[d] \in Nat
  BY SumsAreNat DEF IInv
<1>3. n \in Nat /\ pend[d] - n \in Nat /\ paid[d] + n \in Nat
  BY <1>2
<1>4. TypeOK' /\ PeakOK'
  BY <1>1, <1>3 DEF PayOut, IInv, TypeOK, PeakOK
<1>5. ASSUME NEW e \in Driver
      PROVE  LeavesAsMuch(e)
  <2>1. parcel[e] \in Nat /\ peak[e] \in Nat /\ pend[e] \in Nat /\ paid[e] \in Nat
    BY SumsAreNat DEF IInv
  <2>2. /\ pend'[e] = IF e = d THEN pend[e] - n ELSE pend[e]
        /\ paid'[e] = IF e = d THEN paid[e] + n ELSE paid[e]
    BY <1>1 DEF IInv, TypeOK
  <2> QED
    BY <2>1, <2>2, <1>3 DEF PayOut, LeavesAsMuch
<1> QED
  BY <1>4, <1>5, OutsideStepKeeps DEF PayOut

(* Rejecting gives an amount back.                                         *)
LEMMA RejectCashoutKeeps ==
  ASSUME IInv, NEW d \in Driver, RejectCashout(d)
  PROVE  IInv'
<1>1. PICK n \in 1 .. pend[d] : pend' = [pend EXCEPT ![d] = @ - n]
  BY DEF RejectCashout
<1>2. pend[d] \in Nat
  BY SumsAreNat DEF IInv
<1>3. n \in Nat /\ pend[d] - n \in Nat
  BY <1>2
<1>4. TypeOK' /\ PeakOK'
  BY <1>1, <1>3 DEF RejectCashout, IInv, TypeOK, PeakOK
<1>5. ASSUME NEW e \in Driver
      PROVE  LeavesAsMuch(e)
  <2>1. parcel[e] \in Nat /\ peak[e] \in Nat /\ pend[e] \in Nat /\ paid[e] \in Nat
    BY SumsAreNat DEF IInv
  <2>2. pend'[e] = IF e = d THEN pend[e] - n ELSE pend[e]
    BY <1>1 DEF IInv, TypeOK
  <2> QED
    BY <2>1, <2>2, <1>3 DEF RejectCashout, LeavesAsMuch
<1> QED
  BY <1>4, <1>5, OutsideStepKeeps DEF RejectCashout

-----------------------------------------------------------------------------
(* RequestCashout                                                          *)

(* A new request has read nothing.                                         *)
LEMMA RequestCashoutKeeps ==
  ASSUME IInv, NEW p \in Proc, NEW d \in Driver, RequestCashout(p, d)
  PROVE  IInv'
<1>1. PICK n \in MinCashout .. MaxAmount :
        proc' = [proc EXCEPT
                   ![p] = [pc |-> "lock", driver |-> d, amount |-> n, got |-> 0]]
  BY DEF RequestCashout
<1>2. [pc |-> "lock", driver |-> d, amount |-> n, got |-> 0] \in Request
  BY DEF Request, Pc
<1>3. /\ proc'[p] = [pc |-> "lock", driver |-> d, amount |-> n, got |-> 0]
      /\ \A q \in Proc : q # p => proc'[q] = proc[q]
      /\ proc' \in [Proc -> {Idle} \cup Request]
  BY <1>1, <1>2 DEF IInv, TypeOK
<1>4. LockHeld(p)' /\ ReadingOK(p)'
  BY <1>3 DEF LockHeld, ReadingOK, Holding
<1> QED
  BY <1>3, <1>4, OwnStepKeeps DEF RequestCashout

(* The lock is given to one request only while nobody holds it.            *)
LEMMA AcquireLockKeeps ==
  ASSUME IInv, NEW p \in Proc, AcquireLock(p)
  PROVE  IInv'
<1>1. /\ proc[p] \in Request /\ proc[p].pc = "lock"
      /\ proc[p].driver \in Driver /\ proc[p].got \in Int
  BY Fields DEF IInv, AcquireLock
<1>2. [proc[p] EXCEPT !.pc = "parcel"] \in Request
  BY <1>1 DEF Request, Pc
<1>3. /\ proc'[p] = [proc[p] EXCEPT !.pc = "parcel"]
      /\ \A q \in Proc : q # p => proc'[q] = proc[q]
      /\ proc' \in [Proc -> {Idle} \cup Request]
  BY <1>2 DEF AcquireLock, IInv, TypeOK
<1>4. lock' = [lock EXCEPT ![proc[p].driver] = p]
  BY DEF AcquireLock
<1>5. TypeOK'
  BY <1>1, <1>3, <1>4 DEF AcquireLock, IInv, TypeOK, sums
<1>6. PeakOK' /\ NeverOverdrawn'
  BY DEF AcquireLock, IInv, PeakOK, NeverOverdrawn, Earned, Withdrawn, sums
<1>7. proc'[p].pc = "parcel" /\ proc'[p].driver = proc[p].driver
      /\ proc'[p].got = proc[p].got
  BY <1>1, <1>3 DEF Request
<1>8. LockHeld(p)' /\ ReadingOK(p)'
  <2>1. lock'[proc[p].driver] = p
    BY <1>1, <1>4 DEF IInv, TypeOK
  <2>2. proc[p].got <= 0
    BY <1>1 DEF IInv, ReadingOK
  <2> QED
    BY <1>7, <2>1, <2>2 DEF LockHeld, ReadingOK
<1>9. \A d \in Driver : LeavesAsMuch(d)
  BY SameSums DEF IInv, AcquireLock
<1>10. ASSUME NEW q \in Proc, q # p
       PROVE  LockHeld(q)' /\ ReadingOK(q)'
  <2>1. proc'[q] = proc[q]
    BY <1>3, <1>10
  <2>2. LockHeld(q)'
    <3>1. SUFFICES ASSUME proc[q].pc \in Holding
                   PROVE  lock'[proc[q].driver] = q
      BY <2>1 DEF LockHeld
    <3>2. proc[q].driver \in Driver
      BY <3>1, Fields DEF Holding, IInv
    <3>3. lock[proc[q].driver] = q
      BY <3>1 DEF LockHeld, IInv
    <3>4. proc[q].driver # proc[p].driver
      BY <3>3, ConstantsAssumption DEF AcquireLock
    <3> QED
      BY <3>2, <3>3, <3>4, <1>4 DEF IInv, TypeOK
  <2> QED
    BY <2>1, <2>2, <1>5, <1>9, ReadingKept DEF IInv
<1> QED
  BY <1>5, <1>6, <1>8, <1>10 DEF IInv

(* A request that gives up before it has the lock knows nothing.           *)
LEMMA LockFailsKeeps ==
  ASSUME IInv, NEW p \in Proc, LockFails(p)
  PROVE  IInv'
<1>1. /\ proc'[p] = Idle
      /\ \A q \in Proc : q # p => proc'[q] = proc[q]
      /\ proc' \in [Proc -> {Idle} \cup Request]
  BY DEF LockFails, IInv, TypeOK
<1>2. LockHeld(p)' /\ ReadingOK(p)'
  BY <1>1, IdleIsQuiet
<1> QED
  BY <1>1, <1>2, OwnStepKeeps DEF LockFails

(* What one read does: it adds to what the request knows, and leaves the   *)
(* rest alone.                                                             *)
LEMMA ReadFacts ==
  ASSUME IInv, NEW p \in Proc, NEW from \in Holding, NEW to \in Holding,
         NEW n \in Int, Read(p, from, to, n)
  PROVE  /\ proc[p].pc = from
         /\ proc[p].driver \in Driver
         /\ proc[p].got \in Int
         /\ proc'[p].pc = to
         /\ proc'[p].driver = proc[p].driver
         /\ proc'[p].got = proc[p].got + n
         /\ LockHeld(p)'
         /\ proc' \in [Proc -> {Idle} \cup Request]
         /\ \A q \in Proc : q # p => proc'[q] = proc[q]
<1>1. /\ proc[p] \in Request /\ proc[p].pc = from
      /\ proc[p].driver \in Driver /\ proc[p].got \in Int
  BY Fields DEF IInv, Read, Holding
<1> DEFINE r == [proc[p] EXCEPT !.pc = to, !.got = proc[p].got + n]
<1>2. proc' = [proc EXCEPT ![p] = r]
  BY DEF Read
<1>3. to \in Pc \ {"idle"} /\ proc[p].got + n \in Int
  BY <1>1 DEF Holding
<1>4. r \in Request
  BY <1>1, <1>3 DEF Request
<1>5. r.pc = to /\ r.driver = proc[p].driver /\ r.got = proc[p].got + n
  BY <1>1 DEF Request
<1>6. /\ proc'[p] = r
      /\ \A q \in Proc : q # p => proc'[q] = proc[q]
      /\ proc' \in [Proc -> {Idle} \cup Request]
  BY <1>2, <1>4 DEF IInv, TypeOK
<1>7. LockHeld(p)'
  <2>1. lock[proc[p].driver] = p
    BY <1>1 DEF IInv, LockHeld
  <2>2. lock'[proc[p].driver] = p
    BY <2>1 DEF Read
  <2> QED
    BY <2>2, <1>5, <1>6 DEF LockHeld
<1> QED
  BY <1>1, <1>5, <1>6, <1>7

(* The first sum is what the parcels have earned.                          *)
LEMMA ReadParcelEarningsKeeps ==
  ASSUME IInv, NEW p \in Proc, ReadParcelEarnings(p)
  PROVE  IInv'
<1> DEFINE n == parcel[proc[p].driver]
<1>1. proc[p].driver \in Driver /\ proc[p].pc = "parcel"
  BY Fields DEF IInv, ReadParcelEarnings
<1>2. n \in Nat /\ proc[p].got <= 0
  BY <1>1, SumsAreNat DEF IInv, ReadingOK
<1>3. Read(p, "parcel", "shop", n)
  BY DEF ReadParcelEarnings
<1>4. /\ proc'[p].pc = "shop" /\ proc'[p].driver = proc[p].driver
      /\ proc[p].got \in Int /\ proc'[p].got = proc[p].got + n
      /\ LockHeld(p)' /\ proc' \in [Proc -> {Idle} \cup Request]
      /\ \A q \in Proc : q # p => proc'[q] = proc[q]
  BY <1>2, <1>3, ReadFacts DEF Holding, Pc
<1>5. parcel'[proc[p].driver] = n
  BY <1>3 DEF Read, sums
<1>6. ReadingOK(p)'
  BY <1>2, <1>4, <1>5 DEF ReadingOK
<1> QED
  BY <1>3, <1>4, <1>6, OwnStepKeeps DEF Read

(* The second sum is zero or the shopper total, never more than its peak.  *)
LEMMA ReadShopperEarningsKeeps ==
  ASSUME IInv, NEW p \in Proc, ReadShopperEarnings(p)
  PROVE  IInv'
<1> DEFINE d == proc[p].driver
<1>1. d \in Driver /\ proc[p].pc = "shop"
  BY Fields DEF IInv, ReadShopperEarnings
<1>2. /\ parcel[d] \in Nat /\ shop[d] \in Nat /\ peak[d] \in Nat
      /\ shop[d] <= peak[d]
      /\ proc[p].got <= parcel[d]
  BY <1>1, SumsAreNat DEF IInv, ReadingOK, PeakOK
<1>3. PICK n \in {0, shop[d]} : Read(p, "shop", "pending", n)
  BY DEF ReadShopperEarnings
<1>4. n \in Nat /\ n <= peak[d]
  BY <1>2
<1>5. /\ proc'[p].pc = "pending" /\ proc'[p].driver = d
      /\ proc[p].got \in Int /\ proc'[p].got = proc[p].got + n
      /\ LockHeld(p)' /\ proc' \in [Proc -> {Idle} \cup Request]
      /\ \A q \in Proc : q # p => proc'[q] = proc[q]
  BY <1>3, <1>4, ReadFacts DEF Holding, Pc
<1>6. parcel'[d] = parcel[d] /\ peak'[d] = peak[d]
  BY <1>3 DEF Read, sums
<1>7. ReadingOK(p)'
  BY <1>2, <1>4, <1>5, <1>6 DEF ReadingOK
<1> QED
  BY <1>3, <1>5, <1>7, OwnStepKeeps DEF Read

(* Pending first, paid second: an amount that is paid in between is        *)
(* subtracted twice, never missed.                                         *)
LEMMA SubtractRequestsKeeps ==
  ASSUME IInv, NEW p \in Proc, SubtractRequests(p)
  PROVE  IInv'
<1> DEFINE d == proc[p].driver
<1>1. d \in Driver
  BY Fields DEF IInv, SubtractRequests
<1>2. /\ parcel[d] \in Nat /\ peak[d] \in Nat
      /\ pend[d] \in Nat /\ paid[d] \in Nat
  BY <1>1, SumsAreNat DEF IInv
<1>3. CASE proc[p].pc = "pending" /\ Read(p, "pending", "paid", -pend[d])
  <2>1. /\ proc'[p].pc = "paid" /\ proc'[p].driver = d
        /\ proc[p].got \in Int /\ proc'[p].got = proc[p].got + (-pend[d])
        /\ LockHeld(p)' /\ proc' \in [Proc -> {Idle} \cup Request]
        /\ \A q \in Proc : q # p => proc'[q] = proc[q]
    BY <1>2, <1>3, ReadFacts DEF Holding, Pc
  <2>2. proc[p].got <= parcel[d] + peak[d]
    BY <1>3 DEF IInv, ReadingOK
  <2>3. parcel'[d] = parcel[d] /\ peak'[d] = peak[d] /\ pend'[d] = pend[d]
    BY <1>3 DEF Read, sums
  <2>4. ReadingOK(p)'
    BY <1>2, <2>1, <2>2, <2>3 DEF ReadingOK
  <2> QED
    BY <1>3, <2>1, <2>4, OwnStepKeeps DEF Read
<1>4. CASE proc[p].pc = "paid" /\ Read(p, "paid", "decide", -paid[d])
  <2>1. /\ proc'[p].pc = "decide" /\ proc'[p].driver = d
        /\ proc[p].got \in Int /\ proc'[p].got = proc[p].got + (-paid[d])
        /\ LockHeld(p)' /\ proc' \in [Proc -> {Idle} \cup Request]
        /\ \A q \in Proc : q # p => proc'[q] = proc[q]
    BY <1>2, <1>4, ReadFacts DEF Holding, Pc
  <2>2. proc[p].got <= parcel[d] + peak[d] - pend[d]
    BY <1>4 DEF IInv, ReadingOK
  <2>3. /\ parcel'[d] = parcel[d] /\ peak'[d] = peak[d]
        /\ pend'[d] = pend[d] /\ paid'[d] = paid[d]
    BY <1>4 DEF Read, sums
  <2>4. ReadingOK(p)'
    BY <1>2, <2>1, <2>2, <2>3 DEF ReadingOK
  <2> QED
    BY <1>4, <2>1, <2>4, OwnStepKeeps DEF Read
<1> QED
  BY <1>3, <1>4 DEF SubtractRequests

(* A request goes on only with an amount its balance covers.               *)
LEMMA DecideKeeps ==
  ASSUME IInv, NEW p \in Proc, Decide(p)
  PROVE  IInv'
<1>1. /\ proc[p] \in Request /\ proc[p].pc = "decide"
      /\ proc[p].driver \in Driver
      /\ proc[p].got \in Int /\ proc[p].amount \in Nat
  BY Fields DEF IInv, Decide
<1>2. CASE proc[p].amount > proc[p].got /\ Release(p)
  BY <1>1, <1>2, ReleaseKeeps DEF Decide, Holding, Pc
<1>3. CASE /\ proc[p].amount <= proc[p].got
           /\ proc' = [proc EXCEPT ![p].pc = "commit"]
           /\ UNCHANGED lock
  <2> DEFINE r == [proc[p] EXCEPT !.pc = "commit"]
  <2>1. /\ r \in Request /\ r.pc = "commit" /\ r.driver = proc[p].driver
        /\ r.got = proc[p].got /\ r.amount = proc[p].amount
    BY <1>1 DEF Request, Pc
  <2>2. /\ proc'[p] = r
        /\ \A q \in Proc : q # p => proc'[q] = proc[q]
        /\ proc' \in [Proc -> {Idle} \cup Request]
    BY <1>3, <2>1 DEF IInv, TypeOK
  <2>3. lock[proc[p].driver] = p
    BY <1>1 DEF IInv, LockHeld, Holding, Pc
  <2>4. LockHeld(p)'
    BY <1>3, <2>1, <2>2, <2>3 DEF LockHeld
  <2>5. ReadingOK(p)
    BY DEF IInv
  <2>6. UNCHANGED sums
    BY DEF Decide
  <2>7. ReadingOK(p)'
    BY <1>1, <1>3, <2>1, <2>2, <2>5, <2>6 DEF ReadingOK, sums
  <2> QED
    BY <1>3, <2>2, <2>4, <2>7, OwnStepKeeps DEF Decide
<1> QED
  BY <1>2, <1>3 DEF Decide

(* The new row fits into the balance, and no other request of the driver   *)
(* is in progress.                                                         *)
LEMMA CommitKeeps ==
  ASSUME IInv, NEW p \in Proc, Commit(p)
  PROVE  IInv'
<1> DEFINE d == proc[p].driver
<1>1. /\ proc[p].pc = "commit" /\ d \in Driver
      /\ proc[p].got \in Int /\ proc[p].amount \in Nat
  BY Fields DEF IInv, Commit
<1>2. proc[p].pc \in Holding
  BY <1>1 DEF Holding, Pc
<1>3. /\ proc'[p] = Idle
      /\ \A q \in Proc : q # p => proc'[q] = proc[q]
      /\ \A q \in Proc : LockHeld(q)'
      /\ lock' \in [Driver -> Proc \cup {None}]
      /\ proc' \in [Proc -> {Idle} \cup Request]
  BY <1>2, OthersKeepLocks DEF IInv, Commit
<1>4. /\ parcel[d] \in Nat /\ peak[d] \in Nat
      /\ pend[d] \in Nat /\ paid[d] \in Nat
  BY <1>1, SumsAreNat DEF IInv
<1>5. pend' = [pend EXCEPT ![d] = pend[d] + proc[p].amount]
  BY DEF Commit
<1>6. TypeOK'
  <2>1. pend' \in [Driver -> Nat]
    BY <1>1, <1>4, <1>5 DEF IInv, TypeOK
  <2> QED
    BY <1>3, <2>1 DEF Commit, IInv, TypeOK
<1>7. proc[p].amount <= parcel[d] + peak[d] - pend[d] - paid[d]
  BY <1>1, <1>4 DEF IInv, ReadingOK
<1>8. PeakOK'
  BY DEF Commit, IInv, PeakOK
<1>9. NeverOverdrawn'
  <2>1. SUFFICES ASSUME NEW e \in Driver
                 PROVE  pend'[e] + paid[e] <= parcel[e] + peak[e]
    BY DEF NeverOverdrawn, Earned, Withdrawn, Commit
  <2>2. pend[e] + paid[e] <= parcel[e] + peak[e]
    BY DEF IInv, NeverOverdrawn, Earned, Withdrawn
  <2>3. pend'[e] = IF e = d THEN pend[d] + proc[p].amount ELSE pend[e]
    BY <1>5 DEF IInv, TypeOK
  <2> QED
    BY <1>1, <1>4, <1>7, <2>2, <2>3
<1>10. ASSUME NEW q \in Proc
       PROVE  ReadingOK(q)'
  <2>1. CASE q = p
    BY <2>1, <1>3, IdleIsQuiet
  <2>2. CASE q # p
    <3>1. proc'[q] = proc[q]
      BY <2>2, <1>3
    <3>2. ASSUME proc[q].pc \notin {"idle", "lock", "parcel"},
                 NEW e \in Driver, e = proc[q].driver
          PROVE  LeavesAsMuch(e)
      <4>1. proc[q].pc \in Holding
        BY <3>2, Fields DEF IInv, Holding
      <4>2. lock[e] = q /\ lock[d] = p
        BY <1>2, <3>2, <4>1 DEF IInv, LockHeld
      <4>3. e # d
        BY <2>2, <4>2
      <4>4. pend'[e] = pend[e]
        BY <1>5, <4>3 DEF IInv, TypeOK
      <4>5. /\ parcel[e] \in Nat /\ peak[e] \in Nat
            /\ pend[e] \in Nat /\ paid[e] \in Nat
        BY SumsAreNat DEF IInv
      <4> QED
        BY <4>4, <4>5 DEF LeavesAsMuch, Commit
    <3>3. TypeOK /\ ReadingOK(q)
      BY DEF IInv
    <3> QED
      BY <1>6, <3>1, <3>2, <3>3, ReadingKept
  <2> QED
    BY <2>1, <2>2
<1> QED
  BY <1>3, <1>6, <1>8, <1>9, <1>10 DEF IInv

(* A failed transaction leaves nothing behind.                             *)
LEMMA TransactionFailsKeeps ==
  ASSUME IInv, NEW p \in Proc, TransactionFails(p)
  PROVE  IInv'
BY ReleaseKeeps DEF TransactionFails

(* After a restart no request is in progress.                              *)
LEMMA CrashKeeps ==
  ASSUME IInv, Crash
  PROVE  IInv'
<1>1. ASSUME NEW p \in Proc
      PROVE  LockHeld(p)' /\ ReadingOK(p)'
  BY IdleIsQuiet DEF Crash
<1>2. TypeOK'
  BY DEF Crash, IInv, TypeOK, sums
<1>3. PeakOK' /\ NeverOverdrawn'
  BY DEF Crash, IInv, PeakOK, NeverOverdrawn, Earned, Withdrawn, sums
<1> QED
  BY <1>1, <1>2, <1>3 DEF IInv

-----------------------------------------------------------------------------

(* Initially nobody has earned or asked for anything.                      *)
LEMMA InitOK == Init => IInv
BY ConstantsAssumption
   DEF Init, IInv, TypeOK, PeakOK, NeverOverdrawn, Earned, Withdrawn,
       LockHeld, ReadingOK, Idle, Holding

(* Every step keeps the invariant.                                         *)
LEMMA NextKeeps ==
  ASSUME IInv, [Next]_vars
  PROVE  IInv'
<1>1. CASE UNCHANGED vars
  <2>1. TypeOK' /\ PeakOK' /\ NeverOverdrawn'
    BY <1>1 DEF vars, IInv, TypeOK, PeakOK, NeverOverdrawn, Earned, Withdrawn
  <2>2. \A p \in Proc : LockHeld(p)' /\ ReadingOK(p)'
    BY <1>1 DEF vars, IInv, LockHeld, ReadingOK
  <2> QED
    BY <2>1, <2>2 DEF IInv
<1>2. CASE \E d \in Driver : EarnParcel(d)
  BY <1>2, EarnParcelKeeps
<1>3. CASE \E d \in Driver : ShopTotalChanges(d)
  BY <1>3, ShopTotalChangesKeeps
<1>4. CASE \E d \in Driver : PayOut(d)
  BY <1>4, PayOutKeeps
<1>5. CASE \E d \in Driver : RejectCashout(d)
  BY <1>5, RejectCashoutKeeps
<1>6. CASE \E p \in Proc, d \in Driver : RequestCashout(p, d)
  BY <1>6, RequestCashoutKeeps
<1>7. CASE \E p \in Proc : AcquireLock(p)
  BY <1>7, AcquireLockKeeps
<1>8. CASE \E p \in Proc : LockFails(p)
  BY <1>8, LockFailsKeeps
<1>9. CASE \E p \in Proc : Reading(p)
  BY <1>9, ReadParcelEarningsKeeps, ReadShopperEarningsKeeps,
     SubtractRequestsKeeps DEF Reading
<1>10. CASE \E p \in Proc : Decide(p)
  BY <1>10, DecideKeeps
<1>11. CASE \E p \in Proc : Commit(p)
  BY <1>11, CommitKeeps
<1>12. CASE \E p \in Proc : TransactionFails(p)
  BY <1>12, TransactionFailsKeeps
<1>13. CASE Crash
  BY <1>13, CrashKeeps
<1> QED
  BY <1>1, <1>2, <1>3, <1>4, <1>5, <1>6, <1>7, <1>8, <1>9, <1>10, <1>11,
     <1>12, <1>13 DEF Next

(* The balance a request acts on is covered, in every state.               *)
THEOREM Invariance == Spec => []IInv
<1>1. IInv /\ [Next]_vars => IInv'
  BY NextKeeps
<1> QED
  BY InitOK, <1>1, PTL DEF Spec

(* Type correctness.                                                       *)
THEOREM TypeCorrect == Spec => []TypeOK
<1>1. IInv => TypeOK
  BY DEF IInv
<1> QED
  BY Invariance, <1>1, PTL

(* Requests of a driver never add up to more than was earned, however many *)
(* requests, payouts and confirmations overlap.                            *)
THEOREM BalancesAreCovered == Spec => []NeverOverdrawn
<1>1. IInv => NeverOverdrawn
  BY DEF IInv
<1> QED
  BY Invariance, <1>1, PTL

-----------------------------------------------------------------------------
(* The ledger                                                              *)

(* Unchanged sums are a stutter of the ledger.                             *)
LEMMA StutterMaps ==
  ASSUME UNCHANGED sums
  PROVE  UNCHANGED <<Earned, Withdrawn>>
BY DEF sums, Earned, Withdrawn

(* When only d's earnings change, and grow, the ledger earns.              *)
LEMMA EarnMaps ==
  ASSUME TypeOK, TypeOK', NEW d \in Driver, UNCHANGED <<pend, paid>>,
         parcel[d] + peak[d] < parcel'[d] + peak'[d],
         \A e \in Driver : e # d => parcel'[e] = parcel[e] /\ peak'[e] = peak[e]
  PROVE  Ledger!Earn(d)
<1>1. Earned'[d] > Earned[d]
  <2>1. /\ parcel[d] \in Nat /\ peak[d] \in Nat
        /\ parcel'[d] \in Nat /\ peak'[d] \in Nat
    BY DEF TypeOK
  <2> QED
    BY <2>1 DEF Earned
<1>2. Earned' = [Earned EXCEPT ![d] = Earned'[d]]
  BY DEF Earned
<1>3. UNCHANGED Withdrawn
  BY DEF Withdrawn
<1> QED
  BY <1>1, <1>2, <1>3 DEF Ledger!Earn

(* Every step of the requests is a step of the ledger, or none.            *)
LEMMA StepMaps ==
  ASSUME IInv, IInv', [Next]_vars
  PROVE  (\E d \in Driver : Ledger!Earn(d) \/ Ledger!Withdraw(d) \/ Ledger!GiveBack(d))
         \/ UNCHANGED <<Earned, Withdrawn>>
<1>1. CASE UNCHANGED sums
  BY <1>1, StutterMaps
<1>2. ASSUME NEW d \in Driver, EarnParcel(d)
      PROVE  Ledger!Earn(d)
  <2>1. PICK n \in 1 .. MaxEarned : parcel' = [parcel EXCEPT ![d] = @ + n]
    BY <1>2 DEF EarnParcel
  <2>2. parcel[d] \in Nat /\ peak[d] \in Nat
    BY SumsAreNat DEF IInv
  <2>3. parcel'[d] = parcel[d] + n
    BY <2>1 DEF IInv, TypeOK
  <2>4. parcel[d] + peak[d] < parcel'[d] + peak'[d]
    BY <1>2, <2>2, <2>3 DEF EarnParcel
  <2>5. \A e \in Driver : e # d => parcel'[e] = parcel[e] /\ peak'[e] = peak[e]
    BY <1>2, <2>1 DEF EarnParcel, IInv, TypeOK
  <2> QED
    BY <1>2, <2>4, <2>5, EarnMaps DEF EarnParcel, IInv
<1>3. ASSUME NEW d \in Driver, ShopTotalChanges(d)
      PROVE  Ledger!Earn(d) \/ UNCHANGED <<Earned, Withdrawn>>
  <2>1. PICK n \in 0 .. MaxEarned :
          peak' = [peak EXCEPT ![d] = IF n > @ THEN n ELSE @]
    BY <1>3 DEF ShopTotalChanges
  <2>2. n \in Nat /\ parcel[d] \in Nat /\ peak[d] \in Nat
    BY SumsAreNat, ConstantsAssumption DEF IInv
  <2>3. /\ peak'[d] = IF n > peak[d] THEN n ELSE peak[d]
        /\ \A e \in Driver : e # d => peak'[e] = peak[e]
    BY <2>1 DEF IInv, TypeOK
  <2>4. CASE n > peak[d]
    <3>1. parcel[d] + peak[d] < parcel'[d] + peak'[d]
      BY <1>3, <2>2, <2>3, <2>4 DEF ShopTotalChanges
    <3>2. \A e \in Driver : e # d => parcel'[e] = parcel[e] /\ peak'[e] = peak[e]
      BY <1>3, <2>3 DEF ShopTotalChanges
    <3> QED
      BY <1>3, <3>1, <3>2, EarnMaps DEF ShopTotalChanges, IInv
  <2>5. CASE ~(n > peak[d])
    <3>1. \A e \in Driver : peak'[e] = peak[e]
      BY <2>3, <2>5
    <3> QED
      BY <1>3, <3>1 DEF ShopTotalChanges, Earned, Withdrawn
  <2> QED
    BY <2>4, <2>5
<1>4. ASSUME NEW d \in Driver, PayOut(d)
      PROVE  UNCHANGED <<Earned, Withdrawn>>
  <2>1. PICK n \in 1 .. pend[d] : /\ pend' = [pend EXCEPT ![d] = @ - n]
                                 /\ paid' = [paid EXCEPT ![d] = @ + n]
    BY <1>4 DEF PayOut
  <2>2. ASSUME NEW e \in Driver
        PROVE  pend'[e] + paid'[e] = pend[e] + paid[e]
    <3>1. pend[e] \in Nat /\ paid[e] \in Nat /\ n \in Int
      BY SumsAreNat DEF IInv
    <3>2. /\ pend'[e] = IF e = d THEN pend[e] - n ELSE pend[e]
          /\ paid'[e] = IF e = d THEN paid[e] + n ELSE paid[e]
      BY <2>1 DEF IInv, TypeOK
    <3> QED
      BY <3>1, <3>2
  <2>3. UNCHANGED Withdrawn
    BY <2>2 DEF Withdrawn
  <2> QED
    BY <1>4, <2>3 DEF PayOut, Earned
<1>5. ASSUME NEW d \in Driver, RejectCashout(d)
      PROVE  Ledger!GiveBack(d)
  <2>1. PICK n \in 1 .. pend[d] : pend' = [pend EXCEPT ![d] = @ - n]
    BY <1>5 DEF RejectCashout
  <2>2. pend[d] \in Nat /\ paid[d] \in Nat /\ n \in Int /\ n >= 1
    BY SumsAreNat DEF IInv
  <2>3. /\ pend'[d] = pend[d] - n
        /\ \A e \in Driver : e # d => pend'[e] = pend[e]
    BY <2>1 DEF IInv, TypeOK
  <2>4. Withdrawn'[d] < Withdrawn[d]
    BY <1>5, <2>2, <2>3 DEF RejectCashout, Withdrawn
  <2>5. Withdrawn' = [Withdrawn EXCEPT ![d] = Withdrawn'[d]]
    BY <1>5, <2>3 DEF RejectCashout, Withdrawn
  <2>6. UNCHANGED Earned
    BY <1>5 DEF RejectCashout, Earned
  <2> QED
    BY <2>4, <2>5, <2>6 DEF Ledger!GiveBack
<1>6. ASSUME NEW p \in Proc, Commit(p)
      PROVE  \E d \in Driver : Ledger!Withdraw(d)
  <2> DEFINE d == proc[p].driver
  <2>1. /\ d \in Driver /\ proc[p].amount \in Nat
        /\ proc[p].amount \in MinCashout .. MaxAmount
    BY <1>6, Fields DEF IInv, Commit
  <2>2. proc[p].amount > 0
    BY <2>1, ConstantsAssumption
  <2>3. pend' = [pend EXCEPT ![d] = pend[d] + proc[p].amount]
    BY <1>6 DEF Commit
  <2>4. /\ pend[d] \in Nat /\ paid[d] \in Nat
        /\ parcel[d] \in Nat /\ peak[d] \in Nat
    BY <2>1, SumsAreNat DEF IInv
  <2>5. /\ pend'[d] = pend[d] + proc[p].amount
        /\ \A e \in Driver : e # d => pend'[e] = pend[e]
    BY <2>1, <2>3 DEF IInv, TypeOK
  <2>6. Withdrawn'[d] > Withdrawn[d]
    BY <1>6, <2>1, <2>2, <2>4, <2>5 DEF Commit, Withdrawn
  <2>7. UNCHANGED Earned
    BY <1>6 DEF Commit, Earned
  <2>8. Withdrawn'[d] <= Earned'[d]
    BY <2>1 DEF IInv, NeverOverdrawn
  <2>9. Withdrawn' = [Withdrawn EXCEPT ![d] = Withdrawn'[d]]
    <3>1. \A e \in Driver : e # d => Withdrawn'[e] = Withdrawn[e]
      BY <1>6, <2>5 DEF Commit, Withdrawn
    <3>2. Withdrawn' = [e \in Driver |-> Withdrawn'[e]]
      BY DEF Withdrawn
    <3>3. Withdrawn = [e \in Driver |-> Withdrawn[e]]
      BY DEF Withdrawn
    <3> HIDE DEF d
    <3> QED
      BY <3>1, <3>2, <3>3
  <2> QED
    BY <2>1, <2>6, <2>7, <2>8, <2>9 DEF Ledger!Withdraw
<1>7. \/ UNCHANGED sums
      \/ \E d \in Driver : EarnParcel(d) \/ ShopTotalChanges(d)
      \/ \E d \in Driver : PayOut(d) \/ RejectCashout(d)
      \/ \E p \in Proc : Commit(p)
  BY DEF Next, vars, sums, RequestCashout, AcquireLock, LockFails, Reading,
         ReadParcelEarnings, ReadShopperEarnings, SubtractRequests, Read,
         Decide, TransactionFails, Crash
<1> QED
  BY <1>1, <1>2, <1>3, <1>4, <1>5, <1>6, <1>7

(* The cashout requests implement the ledger: seen from outside, a driver  *)
(* earns, draws on what was earned, and gets back what is rejected.        *)
THEOREM RequestsAreALedger == Spec => IsLedger
<1>1. Init => Ledger!LInit
  BY DEF Init, Ledger!LInit, Earned, Withdrawn
<1>2. IInv /\ IInv' /\ [Next]_vars => [Ledger!LNext]_(Ledger!ledger)
  BY StepMaps DEF Ledger!LNext, Ledger!ledger
<1> QED
  BY Invariance, <1>1, <1>2, PTL DEF Spec, IsLedger, Ledger!LSpec

=============================================================================
