--------------------------- MODULE ParcelDispatch ---------------------------
(***************************************************************************)
(* From a paid parcel's assignment row to the driver's earning: the worker *)
(* that picks a driver, the driver's requests (accept, status updates,     *)
(* handover code), the driver's online state, and the sweeps that take     *)
(* back what went silent.                                                  *)
(*                                                                         *)
(* A request reads the assignment first and writes it later; its steps are *)
(* separate actions, so that watcher, worker, staff and other requests can *)
(* come between.  Time is abstract: an accepted assignment or a silent     *)
(* driver may exceed its window at any moment.                             *)
(***************************************************************************)
EXTENDS Naturals, FiniteSets, Sequences

CONSTANTS
  Driver,       \* drivers with a profile
  Assignment,   \* delivery_assignments rows
  Proc,         \* requests the API server handles at the same time
  Worker,       \* jobs the worker process runs at the same time
  None,         \* "no value" of a column or of a local
  MaxAttempts,  \* utils.MaxHandoverOTPAttempts
  MaxRetry,     \* retries of a job before it is given up
  MaxFaults     \* how often the API or the worker may stop and restart, or
                \* a database call of the handover may fail unnoticed

ASSUME ConstantsAssumption ==
  /\ None \notin Driver \cup Assignment
  /\ IsFiniteSet(Proc)
  /\ MaxAttempts \in Nat \ {0}
  /\ MaxRetry \in Nat
  /\ MaxFaults \in Nat

VARIABLES
  asg,      \* the assignment rows
  drv,      \* the driver_profiles rows
  job,      \* job[a]: the auto-assign job of a, on the Redis queue
  worker,   \* worker[w]: the job it runs, and the driver it has picked
  proc,     \* proc[p]: the driver's request p is handling
  app,      \* app[d][a]: the status of a in d's app, as last loaded
  earned,   \* earned[a]: the drivers of a's driver_earnings rows
  faults    \* restarts and unnoticed failures so far

vars == <<asg, drv, job, worker, proc, app, earned, faults>>

(* The statuses this code writes; "broadcast" and the arrived_at, failed   *)
(* and cancelled ones have no writer here.                                 *)
Status == {"absent", "pending", "assigned", "accepted", "picked_up",
           "in_transit", "delivered"}

Row     == [status : Status, driver : Driver \cup {None}, old : BOOLEAN,
            pin : BOOLEAN, attempts : Nat]
Profile == [online : BOOLEAN, avail : BOOLEAN, gps : BOOLEAN]
Job     == [st : {"none", "queued", "active", "done", "exhausted"},
            tries : 0 .. MaxRetry]
Run     == [pc : {"idle", "assign", "occupy"}, asg : Assignment \cup {None},
            driver : Driver \cup {None}]
NoJob   == [pc |-> "idle", asg |-> None, driver |-> None]

(* late is a history variable: an earning of the assignment was stored     *)
(* when the request read the row.  "blind" is "create" after a lookup of   *)
(* the earnings that failed.                                               *)
Idle    == [pc |-> "idle", asg |-> None, driver |-> None, late |-> FALSE]
Request == [pc : {"accept", "occupy", "generate", "wrong", "confirm", "earning",
                  "create", "blind", "free"},
            asg : Assignment, driver : Driver, late : BOOLEAN] \cup {Idle}

(* Every variable has its type; a row's status is one the database's enum  *)
(* type knows.                                                             *)
TypeOK ==
  /\ asg \in [Assignment -> Row]
  /\ drv \in [Driver -> Profile]
  /\ job \in [Assignment -> Job]
  /\ worker \in [Worker -> Run]
  /\ proc \in [Proc -> Request]
  /\ app \in [Driver -> [Assignment -> Status \cup {None}]]
  /\ earned \in [Assignment -> Seq(Driver)]
  /\ faults \in Nat

Init ==
  /\ asg = [a \in Assignment |-> [status |-> "absent", driver |-> None,
              old |-> FALSE, pin |-> FALSE, attempts |-> 0]]
  /\ drv = [d \in Driver |-> [online |-> FALSE, avail |-> FALSE, gps |-> FALSE]]
  /\ job = [a \in Assignment |-> [st |-> "none", tries |-> 0]]
  /\ worker = [w \in Worker |-> NoJob]
  /\ proc = [p \in Proc |-> Idle]
  /\ app = [d \in Driver |-> [a \in Assignment |-> None]]
  /\ earned = [a \in Assignment |-> <<>>]
  /\ faults = 0

-----------------------------------------------------------------------------
(* Helpers                                                                 *)

At(p, pc) == proc[p].pc = pc
Goto(p, pc) == proc' = [proc EXCEPT ![p].pc = pc]
Finish(p) == proc' = [proc EXCEPT ![p] = Idle]
Start(p, pc, a, d) ==
  proc' = [proc EXCEPT ![p] = [pc |-> pc, asg |-> a, driver |-> d,
                               late |-> earned[a] # <<>>]]

Fault == faults < MaxFaults /\ faults' = faults + 1

SetAvailable(d, b) == drv' = [drv EXCEPT ![d].avail = b]

-----------------------------------------------------------------------------
(* The webhook's and the staff's side                                      *)

(* createAndAssignDelivery: a pending row; its job is queued, unless the   *)
(* queue fails.                                                            *)
CreateAssignment(a) ==
  /\ asg[a].status = "absent"
  /\ asg' = [asg EXCEPT ![a].status = "pending"]
  /\ \/ job' = [job EXCEPT ![a].st = "queued"]
     \/ UNCHANGED job
  /\ UNCHANGED <<drv, worker, proc, app, earned, faults>>

(* SokoWeb's staff assign a driver by hand, or another one instead.        *)
AdminAssign(a, d) ==
  /\ asg[a].status \in {"pending", "assigned"}
  /\ asg' = [asg EXCEPT ![a].status = "assigned", ![a].driver = d]
  /\ UNCHANGED <<drv, job, worker, proc, app, earned, faults>>

-----------------------------------------------------------------------------
(* ProcessTaskAssignDriver                                                 *)

Candidates == {d \in Driver : drv[d].online /\ drv[d].avail /\ drv[d].gps}

(* An attempt that fails is retried; the last one is audited and dropped.  *)
JobFails(a) ==
  job' = [job EXCEPT ![a] = IF @.tries < MaxRetry
                              THEN [st |-> "queued", tries |-> @.tries + 1]
                              ELSE [@ EXCEPT !.st = "exhausted"]]

(* The worker picks the nearest candidate (some candidate: distances and   *)
(* vehicles are not told apart), or fails for want of one.                 *)
PickDriver(w, a) ==
  /\ worker[w].pc = "idle"
  /\ job[a].st = "queued"
  /\ \/ \E d \in Candidates :
          /\ worker' = [worker EXCEPT
                          ![w] = [pc |-> "assign", asg |-> a, driver |-> d]]
          /\ job' = [job EXCEPT ![a].st = "active"]
     \/ /\ Candidates = {}
        /\ JobFails(a)
        /\ UNCHANGED worker
  /\ UNCHANGED <<asg, drv, proc, app, earned, faults>>

(* Mutant: the update is not guarded by the row's status.                  *)
AssignUnguarded(w) ==
  LET a == worker[w].asg IN
  /\ worker[w].pc = "assign"
  /\ asg' = [asg EXCEPT ![a].status = "assigned", ![a].driver = worker[w].driver]
  /\ worker' = [worker EXCEPT ![w].pc = "occupy"]
  /\ UNCHANGED <<drv, job, proc, app, earned, faults>>

(* Mutant: an assignment found handled is put on the queue again.          *)
AssignOrRequeue(w) ==
  LET a == worker[w].asg IN
  /\ worker[w].pc = "assign"
  /\ IF asg[a].status = "pending"
       THEN /\ asg' = [asg EXCEPT ![a].status = "assigned",
                                  ![a].driver = worker[w].driver]
            /\ worker' = [worker EXCEPT ![w].pc = "occupy"]
            /\ UNCHANGED job
       ELSE /\ worker' = [worker EXCEPT ![w] = NoJob]
            /\ job' = [job EXCEPT ![a] = [st |-> "queued", tries |-> 0]]
            /\ UNCHANGED asg
  /\ UNCHANGED <<drv, proc, app, earned, faults>>

(* The update is guarded by the row's status.  No row means that somebody  *)
(* else has handled the assignment, and the job is done.                   *)
AssignDriver(w) ==
  LET a == worker[w].asg IN
  /\ worker[w].pc = "assign"
  /\ \/ /\ asg[a].status = "pending"
        /\ asg' = [asg EXCEPT ![a].status = "assigned",
                              ![a].driver = worker[w].driver]
        /\ worker' = [worker EXCEPT ![w].pc = "occupy"]
        /\ UNCHANGED job
     \/ /\ asg[a].status # "pending"
        /\ worker' = [worker EXCEPT ![w] = NoJob]
        /\ job' = [job EXCEPT ![a].st = "done"]
        /\ UNCHANGED asg
  /\ UNCHANGED <<drv, proc, app, earned, faults>>

OccupyDriver(w) ==
  /\ worker[w].pc = "occupy"
  /\ SetAvailable(worker[w].driver, FALSE)
  /\ worker' = [worker EXCEPT ![w] = NoJob]
  /\ job' = [job EXCEPT ![worker[w].asg].st = "done"]
  /\ UNCHANGED <<asg, proc, app, earned, faults>>

(* A worker that stops loses its lease on the job, which asynq hands out   *)
(* again as one more retry.                                                *)
WorkerCrash(w) ==
  /\ Fault
  /\ worker[w].pc # "idle"
  /\ JobFails(worker[w].asg)
  /\ worker' = [worker EXCEPT ![w] = NoJob]
  /\ UNCHANGED <<asg, drv, proc, app, earned>>

-----------------------------------------------------------------------------
(* The driver's app                                                        *)

(* ListDriverDeliveries                                                    *)
LoadDeliveries(d) ==
  /\ app' = [app EXCEPT ![d] = [a \in Assignment |->
               IF asg[a].driver = d THEN asg[a].status ELSE None]]
  /\ UNCHANGED <<asg, drv, job, worker, proc, earned, faults>>

(* AcceptDelivery: the caller and the status are checked on a copy ...     *)
AcceptDelivery(p, d, a) ==
  /\ At(p, "idle")
  /\ app[d][a] = "assigned"
  /\ asg[a].driver = d
  /\ asg[a].status = "assigned"
  /\ Start(p, "accept", a, d)
  /\ UNCHANGED <<asg, drv, job, worker, app, earned, faults>>

(* ... and the row, whatever it says now, becomes accepted.                *)
SaveAccepted(p) ==
  /\ At(p, "accept")
  /\ asg' = [asg EXCEPT ![proc[p].asg].status = "accepted",
                        ![proc[p].asg].old = FALSE]
  /\ Goto(p, "occupy")
  /\ UNCHANGED <<drv, job, worker, app, earned, faults>>

OccupyAccepting(p) ==
  /\ At(p, "occupy")
  /\ SetAvailable(proc[p].driver, FALSE)
  /\ Finish(p)
  /\ UNCHANGED <<asg, job, worker, app, earned, faults>>

(* Mutant: the app's name of the next step is written for an assigned row. *)
UpdateStatusToStep(d, a) ==
  /\ app[d][a] = "assigned"
  /\ asg' = [asg EXCEPT ![a].status = "accept"]
  /\ UNCHANGED <<drv, job, worker, proc, app, earned, faults>>

(* UpdateStatus writes the status the app derives from the one it shows;   *)
(* the row's status and driver are not looked at.                          *)
NextStatus == [accepted |-> "picked_up", picked_up |-> "in_transit"]

UpdateStatus(d, a) ==
  /\ app[d][a] \in DOMAIN NextStatus
  /\ asg' = [asg EXCEPT ![a].status = NextStatus[app[d][a]]]
  /\ UNCHANGED <<drv, job, worker, proc, app, earned, faults>>

(* GenerateOTP checks the caller, then writes a fresh code.                *)
GenerateOTP(p, d, a) ==
  /\ At(p, "idle")
  /\ app[d][a] = "in_transit"
  /\ asg[a].driver = d
  /\ Start(p, "generate", a, d)
  /\ UNCHANGED <<asg, drv, job, worker, app, earned, faults>>

SaveOTP(p) ==
  /\ At(p, "generate")
  /\ asg' = [asg EXCEPT ![proc[p].asg].pin = TRUE, ![proc[p].asg].attempts = 0]
  /\ Finish(p)
  /\ UNCHANGED <<drv, job, worker, app, earned, faults>>

(* Mutant: one attempt too many.                                           *)
VerifyOnceMore(p, d, a) ==
  /\ At(p, "idle")
  /\ app[d][a] = "in_transit"
  /\ asg[a].driver = d
  /\ asg[a].status # "delivered"
  /\ asg[a].pin /\ asg[a].attempts <= MaxAttempts
  /\ \E pc \in {"wrong", "confirm"} : Start(p, pc, a, d)
  /\ UNCHANGED <<asg, drv, job, worker, app, earned, faults>>

(* VerifyOTP decides on a copy of the row: whether the caller may answer,  *)
(* and whether the typed code is the row's.                                *)
VerifyOTP(p, d, a) ==
  /\ At(p, "idle")
  /\ app[d][a] = "in_transit"
  /\ asg[a].driver = d
  /\ asg[a].status # "delivered"
  /\ asg[a].pin /\ asg[a].attempts < MaxAttempts
  /\ \E pc \in {"wrong", "confirm"} : Start(p, pc, a, d)
  /\ UNCHANGED <<asg, drv, job, worker, app, earned, faults>>

CountWrongCode(p) ==
  /\ At(p, "wrong")
  /\ asg' = [asg EXCEPT ![proc[p].asg].attempts = @ + 1]
  /\ Finish(p)
  /\ UNCHANGED <<drv, job, worker, app, earned, faults>>

(* The row becomes delivered, and the code is used up.  An error of this   *)
(* write is not looked at.                                                 *)
ConfirmDelivery(p) ==
  /\ At(p, "confirm")
  /\ \/ /\ asg' = [asg EXCEPT ![proc[p].asg].status = "delivered",
                              ![proc[p].asg].pin = FALSE]
        /\ UNCHANGED faults
     \/ Fault /\ UNCHANGED asg
  /\ Goto(p, "earning")
  /\ UNCHANGED <<drv, job, worker, app, earned>>

(* Mutant: every confirmation creates an earning.                          *)
SkipEarningCheck(p) ==
  /\ At(p, "earning")
  /\ Goto(p, "create")
  /\ UNCHANGED <<asg, drv, job, worker, app, earned, faults>>

(* An earning of the assignment, whoever's, is not created twice; an error *)
(* of the lookup counts as "none".                                         *)
CheckEarning(p) ==
  /\ At(p, "earning")
  /\ \/ /\ earned[proc[p].asg] # <<>>
        /\ Goto(p, "free")
        /\ UNCHANGED faults
     \/ /\ earned[proc[p].asg] = <<>>
        /\ Goto(p, "create")
        /\ UNCHANGED faults
     \/ Fault /\ Goto(p, "blind")
  /\ UNCHANGED <<asg, drv, job, worker, app, earned>>

CreateEarning(p) ==
  /\ At(p, "create") \/ At(p, "blind")
  /\ \/ /\ earned' = [earned EXCEPT ![proc[p].asg] = Append(@, proc[p].driver)]
        /\ UNCHANGED faults
     \/ Fault /\ UNCHANGED earned
  /\ Goto(p, "free")
  /\ UNCHANGED <<asg, drv, job, worker, app>>

FreeDriver(p) ==
  /\ At(p, "free")
  /\ SetAvailable(proc[p].driver, TRUE)
  /\ Finish(p)
  /\ UNCHANGED <<asg, job, worker, app, earned, faults>>

(* The API process stops in the middle of its requests and starts again.   *)
Crash ==
  /\ Fault
  /\ \E p \in Proc : ~At(p, "idle")
  /\ proc' = [p \in Proc |-> Idle]
  /\ UNCHANGED <<asg, drv, job, worker, app, earned>>

-----------------------------------------------------------------------------
(* Online state and sweeps                                                 *)

ToggleOnlineStatus(d, on) ==
  /\ drv' = [drv EXCEPT ![d] = [online |-> on, avail |-> on, gps |-> on /\ @.gps]]
  /\ UNCHANGED <<asg, job, worker, proc, app, earned, faults>>

(* UpdateLocation stores the coordinates of a driver who is online or has  *)
(* just gone offline with a ping under way.                                *)
UpdateLocation(d) ==
  /\ drv' = [drv EXCEPT ![d].gps = TRUE]
  /\ UNCHANGED <<asg, job, worker, proc, app, earned, faults>>

(* resetStaleOnlineDrivers                                                 *)
ResetStaleOnlineDrivers(S) ==
  /\ S # {} /\ \A d \in S : drv[d].online
  /\ drv' = [d \in Driver |->
               IF d \in S THEN [online |-> FALSE, avail |-> FALSE, gps |-> FALSE]
                          ELSE drv[d]]
  /\ UNCHANGED <<asg, job, worker, proc, app, earned, faults>>

(* The pickup window is over, which is longer than any request takes.      *)
PickupWindowEnds(a) ==
  /\ asg[a].status = "accepted" /\ ~asg[a].old
  /\ \A p \in Proc : At(p, "idle")
  /\ asg' = [asg EXCEPT ![a].old = TRUE]
  /\ UNCHANGED <<drv, job, worker, proc, app, earned, faults>>

(* resetExpiredDeliveryAssignments                                         *)
ResetExpiredDeliveryAssignments(S) ==
  /\ S # {} /\ \A a \in S : asg[a].status = "accepted" /\ asg[a].old
  /\ asg' = [a \in Assignment |->
               IF a \in S THEN [asg[a] EXCEPT !.status = "pending", !.driver = None,
                                        !.old = FALSE]
                          ELSE asg[a]]
  /\ UNCHANGED <<drv, job, worker, proc, app, earned, faults>>

-----------------------------------------------------------------------------

Dispatch(w) ==
  \/ \E a \in Assignment : PickDriver(w, a)
  \/ AssignDriver(w)
  \/ OccupyDriver(w)

Asking(p) ==
  \E d \in Driver, a \in Assignment :
    \/ AcceptDelivery(p, d, a)
    \/ GenerateOTP(p, d, a)
    \/ VerifyOTP(p, d, a)

Handling(p) ==
  \/ SaveAccepted(p)
  \/ OccupyAccepting(p)
  \/ SaveOTP(p)
  \/ CountWrongCode(p)
  \/ ConfirmDelivery(p)
  \/ CheckEarning(p)
  \/ CreateEarning(p)
  \/ FreeDriver(p)

Next ==
  \/ \E a \in Assignment : CreateAssignment(a)
  \/ \E a \in Assignment, d \in Driver : AdminAssign(a, d)
  \/ \E w \in Worker : Dispatch(w)
  \/ \E w \in Worker : WorkerCrash(w)
  \/ \E d \in Driver : LoadDeliveries(d)
  \/ \E p \in Proc : Asking(p)
  \/ \E p \in Proc : Handling(p)
  \/ \E d \in Driver, a \in Assignment : UpdateStatus(d, a)
  \/ \E d \in Driver, on \in BOOLEAN : ToggleOnlineStatus(d, on)
  \/ \E d \in Driver : UpdateLocation(d)
  \/ \E S \in SUBSET Driver : ResetStaleOnlineDrivers(S)
  \/ \E a \in Assignment : PickupWindowEnds(a)
  \/ \E S \in SUBSET Assignment : ResetExpiredDeliveryAssignments(S)
  \/ Crash

Spec == Init /\ [][Next]_vars

(* asynq hands a queued job to an idle worker, and a worker that has a job *)
(* goes on with it.                                                        *)
FairSpec ==
  /\ Spec
  /\ \A w \in Worker : WF_vars(Dispatch(w))

-----------------------------------------------------------------------------
(* Properties                                                              *)

(* The worker never takes an assignment from a driver: neither from one    *)
(* staff chose while the job was queued, nor, when the job runs again      *)
(* after a crash, from the one it chose itself.                            *)
WorkerTakesNothing ==
  [][\A a \in Assignment :
       worker' # worker /\ asg[a].driver # None => asg'[a] = asg[a]]_vars

(* A delivery confirmed again, after a lost answer, a failed write, a      *)
(* restart or a status written back by a stale app, earns nothing more: a  *)
(* request that read the row after an earning was stored adds none, unless *)
(* its own lookup of the earnings fails.  Confirmations that overlap may   *)
(* both have read the row before.                                          *)
PaidOnce ==
  [][\A p \in Proc :
       /\ proc[p].late /\ ~At(p, "blind")
       /\ proc'[p] # proc[p]
       => earned' = earned]_vars

(* However many requests guess at once, the wrong codes counted since a    *)
(* code was generated exceed the limit by at most the requests that had    *)
(* read the row before the limit was reached.                              *)
AttemptsBounded ==
  \A a \in Assignment :
    asg[a].attempts <= MaxAttempts + Cardinality(Proc) - 1

(* A job is not lost: it ends with the assignment handled, or given up     *)
(* with a critical audit entry.                                            *)
JobsEnd ==
  \A a \in Assignment :
    job[a].st = "queued" ~> job[a].st \in {"done", "exhausted"}

(* The comment of AcceptDelivery: "Only the assigned driver can call this; *)
(* only works when status is 'assigned'."  What it writes, it writes to a  *)
(* row that may be past that by then.                                      *)
AcceptsAssigned ==
  [][\A a \in Assignment :
       asg'[a].status = "accepted" /\ asg[a].status # "accepted"
         => asg[a].status = "assigned"]_vars

(* A parcel on its way has a driver, whom a stale app does not bring back  *)
(* after the row was swept.                                                *)
CarriedHasDriver ==
  \A a \in Assignment :
    asg[a].status \in {"picked_up", "in_transit"} => asg[a].driver # None

(* A delivery confirmed by its code shows in the earnings of its driver.   *)
DeliveredMeansEarned ==
  \A a \in Assignment :
    /\ asg[a].status = "delivered"
    /\ \A p \in Proc : proc[p].asg # a
    => earned[a] # <<>>

=============================================================================
