--------------------------- MODULE DriverCashout ---------------------------
(***************************************************************************)
(* RequestCashout: a driver draws on what parcel deliveries (sokodelivery) *)
(* and shopper deliveries (sokoshopper) have earned.                       *)
(*                                                                         *)
(* The four sums behind the balance are separate queries at READ COMMITTED *)
(* isolation, one of them in another database; a per-driver advisory lock  *)
(* keeps other cashout requests of the driver out until the transaction    *)
(* ends.  It does not keep out the deliveries that are being confirmed, nor*)
(* the staff, who pay and reject requests in SokoWeb.  Amounts are whole   *)
(* units of money.                                                         *)
(***************************************************************************)
EXTENDS Integers

CONSTANTS
  Driver,      \* drivers
  Proc,        \* cashout requests handled at the same time
  None,        \* "nobody"
  MinCashout,  \* smallest amount that may be asked for
  MaxAmount,   \* bound: largest amount a driver asks for
  MaxEarned,   \* bound: what a driver may earn from either source
  MaxCrashes   \* how often the API process may stop and restart

ASSUME ConstantsAssumption ==
  /\ None \notin Driver \cup Proc
  /\ MinCashout \in Nat \ {0}
  /\ MaxAmount \in Nat
  /\ MaxEarned \in Nat
  /\ MaxCrashes \in Nat

VARIABLES
  parcel,   \* parcel[d]: sum of d's driver_earnings rows
  shop,     \* shop[d]: d's share of the delivery fees of delivered orders
  peak,     \* peak[d]: the most shop[d] has been
  pend,     \* pend[d]: sum of d's pending cashout requests
  paid,     \* paid[d]: sum of d's paid cashout requests
  lock,     \* lock[d]: the request that holds d's advisory lock
  proc,     \* proc[p]: the request p is handling
  crashes   \* restarts so far

vars == <<parcel, shop, peak, pend, paid, lock, proc, crashes>>
sums == <<parcel, shop, peak, pend, paid>>

Pc == {"idle", "lock", "parcel", "shop", "pending", "paid", "decide", "commit"}

Holding == Pc \ {"idle", "lock"}

Idle == [pc |-> "idle", driver |-> None, amount |-> 0, got |-> 0]

Request ==
  [pc : Pc \ {"idle"}, driver : Driver, amount : MinCashout .. MaxAmount, got : Int]

(* Every variable has its type, and a request in progress names a driver   *)
(* and an amount that may be asked for.                                    *)
TypeOK ==
  /\ parcel \in [Driver -> Nat]
  /\ shop \in [Driver -> Nat]
  /\ peak \in [Driver -> Nat]
  /\ pend \in [Driver -> Nat]
  /\ paid \in [Driver -> Nat]
  /\ lock \in [Driver -> Proc \cup {None}]
  /\ proc \in [Proc -> {Idle} \cup Request]
  /\ crashes \in Nat

Init ==
  /\ parcel = [d \in Driver |-> 0]
  /\ shop = [d \in Driver |-> 0]
  /\ peak = [d \in Driver |-> 0]
  /\ pend = [d \in Driver |-> 0]
  /\ paid = [d \in Driver |-> 0]
  /\ lock = [d \in Driver |-> None]
  /\ proc = [p \in Proc |-> Idle]
  /\ crashes = 0

-----------------------------------------------------------------------------
(* What happens around a request                                           *)

(* VerifyOTP creates a driver_earnings row.                                *)
EarnParcel(d) ==
  /\ \E n \in 1 .. MaxEarned :
       /\ parcel[d] + n <= MaxEarned
       /\ parcel' = [parcel EXCEPT ![d] = @ + n]
  /\ UNCHANGED <<shop, peak, pend, paid, lock, proc, crashes>>

(* Order deliveries become delivered by their code; a status written from  *)
(* a stale app takes a delivered one out of the sum again.                 *)
ShopTotalChanges(d) ==
  /\ \E n \in 0 .. MaxEarned :
       /\ n # shop[d]
       /\ shop' = [shop EXCEPT ![d] = n]
       /\ peak' = [peak EXCEPT ![d] = IF n > @ THEN n ELSE @]
  /\ UNCHANGED <<parcel, pend, paid, lock, proc, crashes>>

(* Staff mark pending requests paid or rejected, any of them at any time.  *)
PayOut(d) ==
  /\ \E n \in 1 .. pend[d] :
       /\ pend' = [pend EXCEPT ![d] = @ - n]
       /\ paid' = [paid EXCEPT ![d] = @ + n]
  /\ UNCHANGED <<parcel, shop, peak, lock, proc, crashes>>

RejectCashout(d) ==
  /\ \E n \in 1 .. pend[d] : pend' = [pend EXCEPT ![d] = @ - n]
  /\ UNCHANGED <<parcel, shop, peak, paid, lock, proc, crashes>>

-----------------------------------------------------------------------------
(* RequestCashout                                                          *)

Read(p, from, to, n) ==
  /\ proc[p].pc = from
  /\ proc' = [proc EXCEPT ![p].pc = to, ![p].got = @ + n]
  /\ UNCHANGED <<sums, lock, crashes>>

(* The end of a transaction releases its advisory lock.                    *)
Release(p) ==
  /\ lock' = [lock EXCEPT ![proc[p].driver] = None]
  /\ proc' = [proc EXCEPT ![p] = Idle]

(* Mutant: any amount may be asked for.                                    *)
RequestAnyAmount(p, d) ==
  /\ proc[p].pc = "idle"
  /\ \E n \in 0 .. MaxAmount :
       proc' = [proc EXCEPT
                  ![p] = [pc |-> "lock", driver |-> d, amount |-> n, got |-> 0]]
  /\ UNCHANGED <<sums, lock, crashes>>

(* Less than the minimum is refused before the transaction begins.         *)
RequestCashout(p, d) ==
  /\ proc[p].pc = "idle"
  /\ \E n \in MinCashout .. MaxAmount :
       proc' = [proc EXCEPT
                  ![p] = [pc |-> "lock", driver |-> d, amount |-> n, got |-> 0]]
  /\ UNCHANGED <<sums, lock, crashes>>

(* Mutant: the transaction does not take the lock.                         *)
GoOnUnlocked(p) ==
  /\ proc[p].pc = "lock"
  /\ proc' = [proc EXCEPT ![p].pc = "parcel"]
  /\ UNCHANGED <<sums, lock, crashes>>

(* pg_advisory_xact_lock waits for the holder's transaction to end.        *)
AcquireLock(p) ==
  /\ proc[p].pc = "lock"
  /\ lock[proc[p].driver] = None
  /\ lock' = [lock EXCEPT ![proc[p].driver] = p]
  /\ proc' = [proc EXCEPT ![p].pc = "parcel"]
  /\ UNCHANGED <<sums, crashes>>

(* The lock cannot be waited for (the connection is lost, say).            *)
LockFails(p) ==
  /\ proc[p].pc = "lock"
  /\ proc' = [proc EXCEPT ![p] = Idle]
  /\ UNCHANGED <<sums, lock, crashes>>

ReadParcelEarnings(p) ==
  /\ proc[p].pc = "parcel"
  /\ Read(p, "parcel", "shop", parcel[proc[p].driver])

(* An error of the query in the other database leaves its sum zero.        *)
ReadShopperEarnings(p) ==
  /\ proc[p].pc = "shop"
  /\ \E n \in {0, shop[proc[p].driver]} : Read(p, "shop", "pending", n)

(* Mutant: what was paid is read before what is pending.                   *)
SubtractPaidFirst(p) ==
  \/ /\ proc[p].pc = "pending"
     /\ Read(p, "pending", "paid", -paid[proc[p].driver])
  \/ /\ proc[p].pc = "paid"
     /\ Read(p, "paid", "decide", -pend[proc[p].driver])

(* What is pending is subtracted before what is paid.                      *)
SubtractRequests(p) ==
  \/ /\ proc[p].pc = "pending"
     /\ Read(p, "pending", "paid", -pend[proc[p].driver])
  \/ /\ proc[p].pc = "paid"
     /\ Read(p, "paid", "decide", -paid[proc[p].driver])

(* Mutant: a refusal answers without ending the transaction.               *)
DecideAndKeepLock(p) ==
  /\ proc[p].pc = "decide"
  /\ \/ /\ proc[p].amount > proc[p].got
        /\ proc' = [proc EXCEPT ![p] = Idle]
     \/ /\ proc[p].amount <= proc[p].got
        /\ proc' = [proc EXCEPT ![p].pc = "commit"]
  /\ UNCHANGED <<sums, lock, crashes>>

(* More than the balance is refused; the deferred rollback ends the        *)
(* transaction.                                                            *)
Decide(p) ==
  /\ proc[p].pc = "decide"
  /\ \/ /\ proc[p].amount > proc[p].got
        /\ Release(p)
     \/ /\ proc[p].amount <= proc[p].got
        /\ proc' = [proc EXCEPT ![p].pc = "commit"]
        /\ UNCHANGED lock
  /\ UNCHANGED <<sums, crashes>>

(* The new row becomes visible as the transaction commits.                 *)
Commit(p) ==
  /\ proc[p].pc = "commit"
  /\ pend' = [pend EXCEPT ![proc[p].driver] = @ + proc[p].amount]
  /\ Release(p)
  /\ UNCHANGED <<parcel, shop, peak, paid, crashes>>

(* A statement of the transaction fails.  The errors of the reads are not  *)
(* looked at, but the transaction is aborted and the insert fails as well. *)
TransactionFails(p) ==
  /\ proc[p].pc \in Holding
  /\ Release(p)
  /\ UNCHANGED <<sums, crashes>>

(* The API process stops: its transactions are rolled back, their locks    *)
(* released.                                                               *)
Crash ==
  /\ crashes < MaxCrashes
  /\ \E p \in Proc : proc[p].pc # "idle"
  /\ proc' = [p \in Proc |-> Idle]
  /\ lock' = [d \in Driver |-> None]
  /\ crashes' = crashes + 1
  /\ UNCHANGED sums

-----------------------------------------------------------------------------

Reading(p) ==
  \/ ReadParcelEarnings(p)
  \/ ReadShopperEarnings(p)
  \/ SubtractRequests(p)

Next ==
  \/ \E d \in Driver : EarnParcel(d)
  \/ \E d \in Driver : ShopTotalChanges(d)
  \/ \E d \in Driver : PayOut(d)
  \/ \E d \in Driver : RejectCashout(d)
  \/ \E p \in Proc, d \in Driver : RequestCashout(p, d)
  \/ \E p \in Proc : AcquireLock(p)
  \/ \E p \in Proc : LockFails(p)
  \/ \E p \in Proc : Reading(p)
  \/ \E p \in Proc : Decide(p)
  \/ \E p \in Proc : Commit(p)
  \/ \E p \in Proc : TransactionFails(p)
  \/ Crash

Spec == Init /\ [][Next]_vars

(* Handlers run to their end, and PostgreSQL grants a lock in the order it *)
(* was asked for.                                                          *)
FairSpec ==
  /\ Spec
  /\ \A p \in Proc : WF_vars(Reading(p) \/ Decide(p) \/ Commit(p))
  /\ \A p \in Proc : SF_vars(AcquireLock(p))

-----------------------------------------------------------------------------
(* Properties                                                              *)

Earned == [d \in Driver |-> parcel[d] + peak[d]]
Withdrawn == [d \in Driver |-> pend[d] + paid[d]]

(* Requests of a driver, pending and paid, never add up to more than the   *)
(* driver has earned, although the balance is read piece by piece while    *)
(* deliveries are confirmed and requests are paid and rejected.            *)
NeverOverdrawn == \A d \in Driver : Withdrawn[d] <= Earned[d]

(* The requests, seen from outside, are the steps of a ledger.             *)
Ledger == INSTANCE CashoutLedger WITH earned <- Earned, withdrawn <- Withdrawn
IsLedger == Ledger!LSpec

(* Every request is answered: nobody waits for ever for the lock.          *)
RequestsAnswered ==
  \A p \in Proc : proc[p].pc = "lock" ~> proc[p].pc = "idle"

=============================================================================
