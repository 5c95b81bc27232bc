------------------------ MODULE ParcelDispatchProofs ------------------------
(***************************************************************************)
(* Proofs about ParcelDispatch, for any number of drivers, assignments,    *)
(* workers and requests: a row without a driver is the only one the worker *)
(* gives one to, and the wrong codes counted, together with those about to *)
(* be, exceed the limit by less than the number of requests.               *)
(***************************************************************************)
EXTENDS ParcelDispatch, FiniteSetTheorems, TLAPS

(* A row that waits for a driver has none.                                 *)
Unassigned ==
  \A a \in Assignment : asg[a].status \in {"absent", "pending"} => asg[a].driver = None

(* The requests that are about to count a wrong code for a.                *)
Guessing(a) == {p \in Proc : proc[p].pc = "wrong" /\ proc[p].asg = a}

(* Whoever is about to count a wrong code read the row below the limit.    *)
Guesses ==
  \A a \in Assignment :
    asg[a].attempts + Cardinality(Guessing(a)) <= MaxAttempts + Cardinality(Proc) - 1

IInv == TypeOK /\ Unassigned /\ Guesses

-----------------------------------------------------------------------------
(* The guesses.                                                            *)

(* There are as many guesses for an assignment as requests, at most.       *)
LEMMA GuessingCount ==
  ASSUME NEW a \in Assignment
  PROVE  /\ IsFiniteSet(Guessing(a)) /\ Cardinality(Guessing(a)) \in Nat
         /\ Cardinality(Guessing(a)) <= Cardinality(Proc) /\ Cardinality(Proc) \in Nat
<1>1. Guessing(a) \subseteq Proc
  BY DEF Guessing
<1> QED
  BY <1>1, ConstantsAssumption, FS_Subset, FS_CardinalityType

(* A step that counts nothing, and after which no new request guesses.     *)
LEMMA NoGuess ==
  ASSUME IInv, TypeOK',
         \A a \in Assignment : asg'[a].attempts <= asg[a].attempts,
         \A a \in Assignment : Guessing(a)' \subseteq Guessing(a)
  PROVE  Guesses'
<1> SUFFICES ASSUME NEW a \in Assignment
             PROVE  asg'[a].attempts + Cardinality(Guessing(a)')
                      <= MaxAttempts + Cardinality(Proc) - 1
  BY DEF Guesses
<1>1. Cardinality(Guessing(a)') \in Nat /\ Cardinality(Guessing(a)') <= Cardinality(Guessing(a))
  BY GuessingCount, FS_Subset, FS_CardinalityType
<1>2. asg[a].attempts \in Nat /\ asg'[a].attempts \in Nat
  BY DEF IInv, TypeOK, Row
<1>3. Cardinality(Guessing(a)) \in Nat /\ Cardinality(Proc) \in Nat
  BY GuessingCount
<1>4. asg[a].attempts + Cardinality(Guessing(a)) <= MaxAttempts + Cardinality(Proc) - 1
  BY DEF IInv, Guesses
<1> QED
  BY <1>1, <1>2, <1>3, <1>4, ConstantsAssumption

(* A step that leaves the requests alone, or moves one of them elsewhere,  *)
(* begins no guess.                                                        *)
LEMMA Elsewhere ==
  ASSUME TypeOK,
         \/ proc' = proc \/ proc' = [p \in Proc |-> Idle]
         \/ \E p \in Proc : Finish(p)
         \/ \E p \in Proc, pc \in {"occupy", "earning", "create", "blind", "free"} : Goto(p, pc)
         \/ \E p \in Proc, pc \in {"accept", "generate", "confirm"}, a \in Assignment, d \in Driver :
              Start(p, pc, a, d)
  PROVE  \A a \in Assignment : Guessing(a)' \subseteq Guessing(a)
<1> SUFFICES ASSUME NEW a \in Assignment, NEW q \in Proc,
                    proc'[q].pc = "wrong", proc'[q].asg = a
             PROVE  proc[q].pc = "wrong" /\ proc[q].asg = a
  BY DEF Guessing
<1>1. proc \in [Proc -> Request]
  BY DEF TypeOK
<1>2. CASE proc' = proc
  BY <1>2
<1>3. CASE proc' = [p \in Proc |-> Idle]
  BY <1>3 DEF Idle
<1>4. CASE \E p \in Proc : Finish(p)
  BY <1>1, <1>4 DEF Finish, Idle
<1>5. CASE \E p \in Proc, pc \in {"occupy", "earning", "create", "blind", "free"} : Goto(p, pc)
  BY <1>1, <1>5 DEF Goto, Request
<1>6. CASE \E p \in Proc, pc \in {"accept", "generate", "confirm"}, b \in Assignment, d \in Driver :
             Start(p, pc, b, d)
  BY <1>1, <1>6 DEF Start
<1> QED
  BY <1>2, <1>3, <1>4, <1>5, <1>6
-----------------------------------------------------------------------------
(* The types.                                                              *)

(* A request that goes on is one, and so is none.                          *)
LEMMA Requests ==
  ASSUME proc \in [Proc -> Request], NEW p \in Proc, ~At(p, "idle"),
         Finish(p) \/ \E pc \in {"occupy", "earning", "create", "blind", "free"} : Goto(p, pc)
  PROVE  proc' \in [Proc -> Request]
<1>1. Idle \in Request /\ proc[p] \in Request /\ proc[p] # Idle
  BY DEF Request, At, Idle
<1>2. CASE Finish(p)
  BY <1>1, <1>2 DEF Finish
<1>3. ASSUME NEW pc \in {"occupy", "earning", "create", "blind", "free"}, Goto(p, pc)
      PROVE  proc' \in [Proc -> Request]
  <2>1. [proc[p] EXCEPT !.pc = pc] \in Request
    BY <1>1 DEF Request
  <2>2. proc' = [proc EXCEPT ![p] = [proc[p] EXCEPT !.pc = pc]]
    BY <1>3 DEF Goto
  <2> QED
    BY <2>1, <2>2
<1> QED
  BY <1>2, <1>3

(* A row whose status, driver or counters are replaced by others is a row. *)
LEMMA Rows ==
  ASSUME NEW r \in Row
  PROVE  /\ \A s \in Status : [r EXCEPT !.status = s] \in Row
         /\ \A s \in Status, d \in Driver \cup {None} : [r EXCEPT !.status = s, !.driver = d] \in Row
         /\ \A s \in Status, b \in BOOLEAN : /\ [r EXCEPT !.status = s, !.old = b] \in Row
                                           /\ [r EXCEPT !.status = s, !.pin = b] \in Row
         /\ [r EXCEPT !.status = "pending", !.driver = None, !.old = FALSE] \in Row
         /\ [r EXCEPT !.old = TRUE] \in Row
         /\ [r EXCEPT !.pin = TRUE, !.attempts = 0] \in Row
         /\ [r EXCEPT !.attempts = r.attempts + 1] \in Row
<1>1. \A s \in Status : [r EXCEPT !.status = s] \in Row
  BY DEF Row
<1>2. \A s \in Status, d \in Driver \cup {None} : [r EXCEPT !.status = s, !.driver = d] \in Row
  BY DEF Row
<1>3. \A s \in Status, b \in BOOLEAN : [r EXCEPT !.status = s, !.old = b] \in Row
  BY DEF Row
<1>4. \A s \in Status, b \in BOOLEAN : [r EXCEPT !.status = s, !.pin = b] \in Row
  BY DEF Row
<1>5. [r EXCEPT !.status = "pending", !.driver = None, !.old = FALSE] \in Row
  BY DEF Row, Status
<1>6. [r EXCEPT !.old = TRUE] \in Row
  BY DEF Row
<1>7. [r EXCEPT !.pin = TRUE, !.attempts = 0] \in Row
  BY DEF Row
<1>8. [r EXCEPT !.attempts = r.attempts + 1] \in Row
  <2>1. r.attempts + 1 \in Nat
    BY DEF Row
  <2> QED
    BY <2>1 DEF Row
<1> QED
  BY <1>1, <1>2, <1>3, <1>4, <1>5, <1>6, <1>7, <1>8

(* A failed attempt leaves every job a job.                                *)
LEMMA Failing ==
  ASSUME TypeOK, NEW a, JobFails(a)
  PROVE  job' \in [Assignment -> Job]
<1>1. job \in [Assignment -> Job]
  BY DEF TypeOK
<1>2. \A b \in Assignment :
        /\ job[b].tries \in 0 .. MaxRetry
        /\ job[b].tries < MaxRetry => job[b].tries + 1 \in 0 .. MaxRetry
  BY <1>1, ConstantsAssumption DEF Job
<1>3. \A b \in Assignment :
        /\ job[b].tries < MaxRetry => [st |-> "queued", tries |-> job[b].tries + 1] \in Job
        /\ [job[b] EXCEPT !.st = "exhausted"] \in Job
  BY <1>1, <1>2 DEF Job
<1> QED
  BY <1>1, <1>3 DEF JobFails

(* The webhook's, the staff's and the worker's side.                       *)
LEMMA Dispatching ==
  ASSUME IInv,
         \/ \E a \in Assignment : CreateAssignment(a)
         \/ \E a \in Assignment, d \in Driver : AdminAssign(a, d)
         \/ \E w \in Worker : Dispatch(w) \/ WorkerCrash(w)
  PROVE  IInv'
<1>1. /\ asg \in [Assignment -> Row] /\ drv \in [Driver -> Profile] /\ job \in [Assignment -> Job]
      /\ worker \in [Worker -> Run] /\ faults \in Nat
  BY DEF IInv, TypeOK
<1>2. \A x \in Job, st \in {"queued", "active", "done"} : [x EXCEPT !.st = st] \in Job
  BY DEF Job
<1>3. NoJob \in Run
  BY DEF NoJob, Run
<1>4. UNCHANGED <<proc, app, earned>>
  BY DEF CreateAssignment, AdminAssign, Dispatch, PickDriver, AssignDriver, OccupyDriver, WorkerCrash
<1>5. ASSUME asg' \in [Assignment -> Row], drv' \in [Driver -> Profile],
             job' \in [Assignment -> Job], worker' \in [Worker -> Run], faults' \in Nat,
             \A a \in Assignment : asg'[a].attempts = asg[a].attempts, Unassigned'
      PROVE  IInv'
  <2>1. TypeOK'
    BY <1>4, <1>5 DEF IInv, TypeOK
  <2>2. \A a \in Assignment : asg'[a].attempts <= asg[a].attempts
    BY <1>1, <1>5 DEF Row
  <2>3. Guesses'
    BY <2>1, <2>2, <1>4, NoGuess, Elsewhere DEF IInv
  <2> QED
    BY <1>5, <2>1, <2>3 DEF IInv
<1>6. CASE \E a \in Assignment : CreateAssignment(a)
  <2>1. PICK a \in Assignment : CreateAssignment(a)
    BY <1>6
  <2>2. asg' = [asg EXCEPT ![a] = [asg[a] EXCEPT !.status = "pending"]]
    BY <2>1, <1>1 DEF CreateAssignment
  <2>5. asg' \in [Assignment -> Row] /\ \A b \in Assignment : asg'[b].attempts = asg[b].attempts
    <3>1. "pending" \in Status
      BY DEF Status
    <3>2. [asg[a] EXCEPT !.status = "pending"] \in Row
      BY <1>1, <3>1, Rows
    <3>3. [asg[a] EXCEPT !.status = "pending"].attempts = asg[a].attempts
      BY <1>1 DEF Row
    <3> QED
      BY <2>2, <1>1, <3>2, <3>3
  <2>3. job' \in [Assignment -> Job]
    <3>1. [job[a] EXCEPT !.st = "queued"] \in Job
      BY <1>1, <1>2
    <3>2. job' = job \/ job' = [job EXCEPT ![a] = [job[a] EXCEPT !.st = "queued"]]
      BY <2>1, <1>1 DEF CreateAssignment
    <3> QED
      BY <1>1, <3>1, <3>2
  <2>4. Unassigned'
    BY <2>1, <1>1 DEF CreateAssignment, IInv, Unassigned, Row
  <2> QED
    BY <2>1, <2>3, <2>4, <2>5, <1>1, <1>5 DEF CreateAssignment
<1>7. CASE \E a \in Assignment, d \in Driver : AdminAssign(a, d)
  <2>1. PICK a \in Assignment, d \in Driver : AdminAssign(a, d)
    BY <1>7
  <2>2. asg' = [asg EXCEPT ![a] = [asg[a] EXCEPT !.status = "assigned", !.driver = d]]
    BY <2>1, <1>1 DEF AdminAssign
  <2>3. asg' \in [Assignment -> Row] /\ \A b \in Assignment : asg'[b].attempts = asg[b].attempts
    <3>1. "assigned" \in Status
      BY DEF Status
    <3>2. [asg[a] EXCEPT !.status = "assigned", !.driver = d] \in Row
      BY <1>1, <3>1, Rows
    <3>3. [asg[a] EXCEPT !.status = "assigned", !.driver = d].attempts = asg[a].attempts
      BY <1>1 DEF Row
    <3> QED
      BY <2>2, <1>1, <3>2, <3>3
  <2>4. Unassigned'
    BY <2>2, <1>1 DEF IInv, Unassigned, Row
  <2> QED
    BY <2>1, <2>3, <2>4, <1>1, <1>5 DEF AdminAssign
<1>8. ASSUME NEW w \in Worker, NEW a \in Assignment, PickDriver(w, a) PROVE IInv'
  <2>1. asg' = asg /\ drv' = drv /\ faults' = faults
    BY <1>8 DEF PickDriver
  <2>2. worker' \in [Worker -> Run] /\ job' \in [Assignment -> Job]
    <3>1. CASE \E d \in Candidates :
                 /\ worker' = [worker EXCEPT ![w] = [pc |-> "assign", asg |-> a, driver |-> d]]
                 /\ job' = [job EXCEPT ![a].st = "active"]
      <4>1. [job[a] EXCEPT !.st = "active"] \in Job
        BY <1>1, <1>2
      <4>2. job' \in [Assignment -> Job]
        BY <1>1, <3>1, <4>1
      <4>3. \A d \in Candidates : [pc |-> "assign", asg |-> a, driver |-> d] \in Run
        BY DEF Candidates, Run
      <4> QED
        BY <1>1, <3>1, <4>2, <4>3
    <3>2. CASE JobFails(a) /\ UNCHANGED worker
      BY <3>2, <1>1, Failing DEF IInv
    <3> QED
      BY <1>8, <3>1, <3>2 DEF PickDriver
  <2>3. Unassigned'
    BY <2>1 DEF IInv, Unassigned
  <2> QED
    BY <2>1, <2>2, <2>3, <1>1, <1>5
<1>9. ASSUME NEW w \in Worker, AssignDriver(w) PROVE IInv'
  <2> DEFINE a == worker[w].asg
  <2>1. drv' = drv /\ faults' = faults
    BY <1>9 DEF AssignDriver
  <2>2. CASE /\ asg' = [asg EXCEPT ![a].status = "assigned", ![a].driver = worker[w].driver]
             /\ worker' = [worker EXCEPT ![w].pc = "occupy"] /\ job' = job
    <3>1. worker[w].driver \in Driver \cup {None} /\ worker' \in [Worker -> Run]
      BY <1>1, <2>2 DEF Run
    <3>2. asg' = [asg EXCEPT ![a] = [asg[a] EXCEPT !.status = "assigned", !.driver = worker[w].driver]]
      BY <1>1, <2>2
    <3>3. asg' \in [Assignment -> Row] /\ \A b \in Assignment : asg'[b].attempts = asg[b].attempts
      <4>1. "assigned" \in Status
        BY DEF Status
      <4>2. ASSUME a \in Assignment
            PROVE  /\ [asg[a] EXCEPT !.status = "assigned", !.driver = worker[w].driver] \in Row
                   /\ [asg[a] EXCEPT !.status = "assigned", !.driver = worker[w].driver].attempts
                        = asg[a].attempts
        <5>1. asg[a] \in Row
          BY <1>1, <4>2
        <5>2. [asg[a] EXCEPT !.status = "assigned", !.driver = worker[w].driver] \in Row
          BY <3>1, <4>1, <5>1, Rows
        <5>3. [asg[a] EXCEPT !.status = "assigned", !.driver = worker[w].driver].attempts
                = asg[a].attempts
          BY <5>1 DEF Row
        <5> QED
          BY <5>2, <5>3
      <4> QED
        BY <3>2, <1>1, <4>2
    <3>4. Unassigned'
      BY <3>2, <1>1 DEF IInv, Unassigned, Row
    <3> QED
      BY <2>1, <2>2, <3>1, <3>3, <3>4, <1>1, <1>5
  <2>3. CASE asg' = asg /\ worker' = [worker EXCEPT ![w] = NoJob] /\ job' = [job EXCEPT ![a].st = "done"]
    <3>1. Unassigned' /\ worker' \in [Worker -> Run] /\ job' \in [Assignment -> Job]
      BY <2>3, <1>1, <1>2, <1>3 DEF IInv, Unassigned
    <3> QED
      BY <2>1, <2>3, <3>1, <1>1, <1>5
  <2> QED
    BY <1>9, <2>2, <2>3 DEF AssignDriver
<1>10. ASSUME NEW w \in Worker, OccupyDriver(w) PROVE IInv'
  <2>1. asg' = asg /\ faults' = faults
    BY <1>10 DEF OccupyDriver
  <2>2. drv' \in [Driver -> Profile]
    BY <1>10, <1>1 DEF OccupyDriver, SetAvailable, Profile
  <2>3. worker' \in [Worker -> Run] /\ job' \in [Assignment -> Job]
    BY <1>10, <1>1, <1>2, <1>3 DEF OccupyDriver
  <2>4. Unassigned'
    BY <2>1 DEF IInv, Unassigned
  <2> QED
    BY <2>1, <2>2, <2>3, <2>4, <1>1, <1>5
<1>11. ASSUME NEW w \in Worker, WorkerCrash(w) PROVE IInv'
  <2>1. asg' = asg /\ drv' = drv /\ faults' \in Nat /\ worker' \in [Worker -> Run]
    BY <1>11, <1>1, <1>3 DEF WorkerCrash, Fault
  <2>2. job' \in [Assignment -> Job]
    BY <1>11, Failing DEF WorkerCrash, IInv
  <2>3. Unassigned'
    BY <2>1 DEF IInv, Unassigned
  <2> QED
    BY <2>1, <2>2, <2>3, <1>1, <1>5
<1> QED
  BY <1>6, <1>7, <1>8, <1>9, <1>10, <1>11 DEF Dispatch
(* A request that begins, or is over.                                      *)
LEMMA Beginning ==
  ASSUME IInv,
         \/ \E p \in Proc : Asking(p)
         \/ Crash
  PROVE  IInv'
<1>1. UNCHANGED <<asg, drv, job, worker, app, earned>> /\ faults' \in Nat
  BY DEF Asking, AcceptDelivery, GenerateOTP, VerifyOTP, Crash, Fault, IInv, TypeOK
<1>2. /\ asg \in [Assignment -> Row] /\ proc \in [Proc -> Request]
      /\ \A a \in Assignment : asg[a].attempts \in Nat
  BY DEF IInv, TypeOK, Row
<1>3. ASSUME proc' \in [Proc -> Request] PROVE TypeOK' /\ Unassigned'
  BY <1>1, <1>3 DEF IInv, TypeOK, Unassigned
<1>4. ASSUME proc' \in [Proc -> Request], \A a \in Assignment : Guessing(a)' \subseteq Guessing(a)
      PROVE  IInv'
  BY <1>1, <1>2, <1>3, <1>4, NoGuess DEF IInv
<1>5. CASE Crash
  <2>1. proc' \in [Proc -> Request]
    BY <1>5 DEF Crash, Idle, Request
  <2> QED
    BY <2>1, <1>4, <1>5, Elsewhere DEF Crash, IInv
<1>6. ASSUME NEW p \in Proc, Asking(p) PROVE IInv'
  <2>1. PICK d \in Driver, a \in Assignment :
          AcceptDelivery(p, d, a) \/ GenerateOTP(p, d, a) \/ VerifyOTP(p, d, a)
    BY <1>6 DEF Asking
  <2>2. PICK pc \in {"accept", "generate", "wrong", "confirm"} :
          Start(p, pc, a, d) /\ (pc = "wrong" => VerifyOTP(p, d, a))
    BY <2>1 DEF AcceptDelivery, GenerateOTP, VerifyOTP
  <2>3. [pc |-> pc, asg |-> a, driver |-> d, late |-> earned[a] # <<>>] \in Request
    BY DEF Request
  <2>4. proc' = [proc EXCEPT ![p] = [pc |-> pc, asg |-> a, driver |-> d,
                                     late |-> earned[a] # <<>>]]
    BY <2>2 DEF Start
  <2>5. proc' \in [Proc -> Request]
    BY <1>2, <2>3, <2>4
  <2>6. CASE pc # "wrong"
    BY <2>2, <2>5, <2>6, <1>4, Elsewhere DEF IInv
  <2>7. CASE pc = "wrong"
    <3>1. asg[a].attempts < MaxAttempts
      BY <2>2, <2>7 DEF VerifyOTP
    <3>2. Guesses'
      <4> SUFFICES ASSUME NEW b \in Assignment
                   PROVE  asg[b].attempts + Cardinality(Guessing(b)')
                            <= MaxAttempts + Cardinality(Proc) - 1
        BY <1>1 DEF Guesses
      <4>1. Guessing(b)' \subseteq Proc
        BY DEF Guessing
      <4>2. /\ Cardinality(Guessing(b)') \in Nat /\ Cardinality(Proc) \in Nat
            /\ Cardinality(Guessing(b)') <= Cardinality(Proc)
        BY <4>1, ConstantsAssumption, FS_Subset, FS_CardinalityType
      <4>3. CASE b = a
        BY <3>1, <4>2, <4>3, <1>2, ConstantsAssumption
      <4>4. CASE b # a
        <5>1. Guessing(b)' \subseteq Guessing(b)
          BY <1>2, <2>4, <4>4 DEF Guessing
        <5>2. Cardinality(Guessing(b)') <= Cardinality(Guessing(b))
          BY <5>1, GuessingCount, FS_Subset
        <5>3. asg[b].attempts + Cardinality(Guessing(b)) <= MaxAttempts + Cardinality(Proc) - 1
          BY DEF IInv, Guesses
        <5> QED
          BY <5>2, <5>3, <4>2, <1>2, GuessingCount, ConstantsAssumption
      <4> QED
        BY <4>3, <4>4
    <3> QED
      BY <2>5, <3>2, <1>3 DEF IInv
  <2> QED
    BY <2>6, <2>7
<1> QED
  BY <1>5, <1>6

(* The writes of a request to the assignment's row.                        *)
LEMMA WritingRow ==
  ASSUME IInv, NEW p \in Proc,
         SaveAccepted(p) \/ SaveOTP(p) \/ CountWrongCode(p) \/ ConfirmDelivery(p)
  PROVE  IInv'
<1> DEFINE a == proc[p].asg
<1>1. UNCHANGED <<drv, job, worker, app, earned>> /\ faults' \in Nat
  BY DEF SaveAccepted, SaveOTP, CountWrongCode, ConfirmDelivery, Fault, IInv, TypeOK
<1>2. /\ asg \in [Assignment -> Row] /\ proc \in [Proc -> Request]
      /\ \A b \in Assignment : asg[b] \in Row /\ asg[b].attempts \in Nat
  BY DEF IInv, TypeOK, Row
<1>3. proc' \in [Proc -> Request]
  BY <1>2, Requests DEF SaveAccepted, SaveOTP, CountWrongCode, ConfirmDelivery, At
<1>4. ASSUME asg' \in [Assignment -> Row], Unassigned', Guesses' PROVE IInv'
  BY <1>1, <1>3, <1>4 DEF IInv, TypeOK
<1>5. ASSUME asg' \in [Assignment -> Row], Unassigned',
             \A b \in Assignment : asg'[b].attempts <= asg[b].attempts,
             \A b \in Assignment : Guessing(b)' \subseteq Guessing(b)
      PROVE  IInv'
  <2>1. TypeOK'
    BY <1>1, <1>3, <1>5 DEF IInv, TypeOK
  <2> QED
    BY <2>1, <1>5, NoGuess DEF IInv
<1>6. a \in Assignment => asg[a] \in Row
  BY <1>2
<1>7. {"accepted", "delivered"} \subseteq Status
  BY DEF Status
<1>8. CASE SaveAccepted(p)
  <2>1. asg' = [asg EXCEPT ![a] = [asg[a] EXCEPT !.status = "accepted", !.old = FALSE]]
    BY <1>2, <1>8 DEF SaveAccepted
  <2>2. a \in Assignment => [asg[a] EXCEPT !.status = "accepted", !.old = FALSE] \in Row
    BY <1>6, <1>7, Rows
  <2>3. asg' \in [Assignment -> Row]
    BY <1>2, <2>1, <2>2
  <2>4. Unassigned' /\ \A b \in Assignment : asg'[b].attempts <= asg[b].attempts
    BY <1>2, <2>1 DEF IInv, Unassigned, Row
  <2>5. \A b \in Assignment : Guessing(b)' \subseteq Guessing(b)
    BY <1>8, Elsewhere DEF SaveAccepted, IInv
  <2> QED
    BY <2>3, <2>4, <2>5, <1>5
<1>9. CASE SaveOTP(p)
  <2>1. asg' = [asg EXCEPT ![a] = [asg[a] EXCEPT !.pin = TRUE, !.attempts = 0]]
    BY <1>2, <1>9 DEF SaveOTP
  <2>2. a \in Assignment => [asg[a] EXCEPT !.pin = TRUE, !.attempts = 0] \in Row
    BY <1>6, Rows
  <2>3. asg' \in [Assignment -> Row]
    BY <1>2, <2>1, <2>2
  <2>4. Unassigned'
    <3>1. \A b \in Assignment : asg'[b].status = asg[b].status /\ asg'[b].driver = asg[b].driver
      <4>1. ASSUME NEW b \in Assignment, b = a
            PROVE  asg'[b].status = asg[b].status /\ asg'[b].driver = asg[b].driver
        BY <1>2, <2>1, <4>1 DEF Row
      <4>2. ASSUME NEW b \in Assignment, b # a
            PROVE  asg'[b] = asg[b]
        BY <1>2, <2>1, <4>2
      <4> QED
        BY <4>1, <4>2
    <3> QED
      BY <3>1 DEF IInv, Unassigned
  <2>6. \A b \in Assignment : asg'[b].attempts <= asg[b].attempts
    <3>1. \A b \in Assignment : asg'[b].attempts = 0 \/ asg'[b].attempts = asg[b].attempts
      BY <1>2, <2>1 DEF Row
    <3> QED
      BY <1>2, <3>1
  <2>5. \A b \in Assignment : Guessing(b)' \subseteq Guessing(b)
    BY <1>9, Elsewhere DEF SaveOTP, IInv
  <2> QED
    BY <2>3, <2>4, <2>5, <2>6, <1>5
<1>10. CASE ConfirmDelivery(p)
  <2>1. \/ asg' = asg
        \/ asg' = [asg EXCEPT ![a] = [asg[a] EXCEPT !.status = "delivered", !.pin = FALSE]]
    BY <1>2, <1>10 DEF ConfirmDelivery
  <2>2. a \in Assignment => [asg[a] EXCEPT !.status = "delivered", !.pin = FALSE] \in Row
    BY <1>6, <1>7, Rows
  <2>3. asg' \in [Assignment -> Row]
    BY <1>2, <2>1, <2>2
  <2>4. CASE asg' = asg
    BY <1>2, <2>3, <2>4, <1>5, <1>10, Elsewhere DEF ConfirmDelivery, IInv, Unassigned
  <2>5. CASE asg' = [asg EXCEPT ![a] = [asg[a] EXCEPT !.status = "delivered", !.pin = FALSE]]
    <3>1. Unassigned'
      BY <1>2, <2>5 DEF IInv, Unassigned, Row
    <3>2. \A b \in Assignment : asg'[b].attempts <= asg[b].attempts
      <4>1. \A b \in Assignment : asg'[b].attempts = asg[b].attempts
        BY <1>2, <2>5 DEF Row
      <4> QED
        BY <1>2, <4>1
    <3>3. \A b \in Assignment : Guessing(b)' \subseteq Guessing(b)
      BY <1>10, Elsewhere DEF ConfirmDelivery, IInv
    <3> QED
      BY <2>3, <3>1, <3>2, <3>3, <1>5
  <2> QED
    BY <2>1, <2>4, <2>5
<1>11. CASE CountWrongCode(p)
  <2>1. /\ asg' = [asg EXCEPT ![a] = [asg[a] EXCEPT !.attempts = asg[a].attempts + 1]]
        /\ proc' = [proc EXCEPT ![p] = Idle] /\ proc[p].pc = "wrong"
    BY <1>2, <1>11 DEF CountWrongCode, Finish, At
  <2>2. a \in Assignment => [asg[a] EXCEPT !.attempts = asg[a].attempts + 1] \in Row
    BY <1>6, Rows
  <2>3. asg' \in [Assignment -> Row]
    BY <1>2, <2>1, <2>2
  <2>4. Unassigned'
    BY <1>2, <2>1 DEF IInv, Unassigned, Row
  <2>5. ASSUME NEW b \in Assignment
        PROVE  asg'[b].attempts + Cardinality(Guessing(b)') <= MaxAttempts + Cardinality(Proc) - 1
    <3>1. asg[b].attempts + Cardinality(Guessing(b)) <= MaxAttempts + Cardinality(Proc) - 1
      BY DEF IInv, Guesses
    <3>2. Guessing(b)' = Guessing(b) \ {p}
      BY <1>2, <2>1 DEF Guessing, Idle
    <3>3. /\ IsFiniteSet(Guessing(b)) /\ Cardinality(Guessing(b)) \in Nat
          /\ Cardinality(Proc) \in Nat
      BY GuessingCount
    <3>4. CASE b = a
      <4>1. p \in Guessing(b)
        BY <2>1, <3>4 DEF Guessing
      <4>2. Cardinality(Guessing(b)') = Cardinality(Guessing(b)) - 1
        BY <3>2, <3>3, <4>1, FS_RemoveElement
      <4>3. asg'[b].attempts = asg[b].attempts + 1
        BY <1>2, <2>1, <3>4 DEF Row
      <4> QED
        BY <3>1, <3>3, <4>2, <4>3, <1>2, ConstantsAssumption
    <3>5. CASE b # a
      <4>1. p \notin Guessing(b)
        BY <3>5 DEF Guessing
      <4>2. Guessing(b)' = Guessing(b)
        BY <3>2, <4>1
      <4>3. asg'[b] = asg[b]
        BY <1>2, <2>1, <3>5
      <4> QED
        BY <3>1, <4>2, <4>3
    <3> QED
      BY <3>4, <3>5
  <2> QED
    BY <2>3, <2>4, <2>5, <1>4 DEF Guesses
<1> QED
  BY <1>8, <1>9, <1>10, <1>11

(* The other steps of a request, what the app loads, the drivers' state    *)
(* and the window: no row is written but for its status and age.           *)
LEMMA BesideRow ==
  ASSUME IInv,
         \/ \E p \in Proc : \/ OccupyAccepting(p) \/ CheckEarning(p)
                             \/ CreateEarning(p) \/ FreeDriver(p)
         \/ \E d \in Driver : LoadDeliveries(d) \/ UpdateLocation(d)
         \/ \E d \in Driver, on \in BOOLEAN : ToggleOnlineStatus(d, on)
         \/ \E S \in SUBSET Driver : ResetStaleOnlineDrivers(S)
  PROVE  IInv'
<1>1. UNCHANGED <<asg, job, worker>> /\ faults' \in Nat
  <2>1. faults \in Nat /\ faults + 1 \in Nat
    BY DEF IInv, TypeOK
  <2>2. UNCHANGED <<asg, job, worker>> /\ (faults' = faults \/ faults' = faults + 1)
    BY DEF OccupyAccepting, CheckEarning, CreateEarning, FreeDriver, LoadDeliveries, UpdateLocation,
           ToggleOnlineStatus, ResetStaleOnlineDrivers, Fault
  <2> QED
    BY <2>1, <2>2
<1>2. /\ asg \in [Assignment -> Row] /\ drv \in [Driver -> Profile] /\ proc \in [Proc -> Request]
      /\ app \in [Driver -> [Assignment -> Status \cup {None}]]
      /\ earned \in [Assignment -> Seq(Driver)] /\ \A a \in Assignment : asg[a].attempts \in Nat
  BY DEF IInv, TypeOK, Row
<1>3. ASSUME drv' \in [Driver -> Profile], proc' \in [Proc -> Request],
             app' \in [Driver -> [Assignment -> Status \cup {None}]],
             earned' \in [Assignment -> Seq(Driver)],
             \A a \in Assignment : Guessing(a)' \subseteq Guessing(a)
      PROVE  IInv'
  <2>1. TypeOK' /\ Unassigned'
    BY <1>1, <1>3 DEF IInv, TypeOK, Unassigned
  <2> QED
    BY <1>1, <1>2, <1>3, <2>1, NoGuess DEF IInv
<1>4. ASSUME NEW p \in Proc, OccupyAccepting(p) \/ FreeDriver(p) PROVE IInv'
  <2>1. drv' \in [Driver -> Profile]
    BY <1>2, <1>4 DEF OccupyAccepting, FreeDriver, SetAvailable, Profile
  <2>2. app' = app /\ earned' = earned /\ Finish(p)
    BY <1>4 DEF OccupyAccepting, FreeDriver
  <2>3. proc' \in [Proc -> Request]
    <3>1. Idle \in Request
      BY DEF Idle, Request
    <3> QED
      BY <1>2, <2>2, <3>1 DEF Finish
  <2> QED
    BY <1>2, <1>3, <2>1, <2>2, <2>3, Elsewhere DEF IInv
<1>5. ASSUME NEW p \in Proc, CheckEarning(p) PROVE IInv'
  <2>1. drv' = drv /\ app' = app /\ earned' = earned /\ (\E pc \in {"free", "create", "blind"} : Goto(p, pc))
    BY <1>5 DEF CheckEarning
  <2>2. proc' \in [Proc -> Request]
    BY <1>2, <1>5, <2>1, Requests DEF CheckEarning, At
  <2> QED
    BY <1>2, <1>3, <2>1, <2>2, Elsewhere DEF IInv
<1>6. ASSUME NEW p \in Proc, CreateEarning(p) PROVE IInv'
  <2>1. drv' = drv /\ app' = app /\ Goto(p, "free")
    BY <1>6 DEF CreateEarning
  <2>2. proc' \in [Proc -> Request]
    BY <1>2, <1>6, <2>1, Requests DEF CreateEarning, At
  <2>3. earned' \in [Assignment -> Seq(Driver)]
    <3>1. proc[p].asg \in Assignment /\ proc[p].driver \in Driver
      BY <1>2, <1>6 DEF CreateEarning, At, Request, Idle
    <3>2. Append(earned[proc[p].asg], proc[p].driver) \in Seq(Driver)
      BY <1>2, <3>1
    <3> QED
      BY <1>2, <1>6, <3>1, <3>2 DEF CreateEarning
  <2> QED
    BY <1>2, <1>3, <2>1, <2>2, <2>3, Elsewhere DEF IInv
<1>7. ASSUME NEW d \in Driver, LoadDeliveries(d) PROVE IInv'
  <2>1. [a \in Assignment |-> IF asg[a].driver = d THEN asg[a].status ELSE None]
          \in [Assignment -> Status \cup {None}]
    BY <1>2 DEF Row
  <2>2. app' \in [Driver -> [Assignment -> Status \cup {None}]]
    BY <1>2, <1>7, <2>1 DEF LoadDeliveries
  <2> QED
    BY <1>2, <1>3, <1>7, <2>2, Elsewhere DEF LoadDeliveries, IInv
<1>8. ASSUME NEW d \in Driver, UpdateLocation(d) \/ \E on \in BOOLEAN : ToggleOnlineStatus(d, on)
      PROVE  IInv'
  <2>1. UNCHANGED <<proc, app, earned>>
    BY <1>8 DEF UpdateLocation, ToggleOnlineStatus
  <2>2. drv' \in [Driver -> Profile]
    <3>1. CASE UpdateLocation(d)
      BY <1>2, <3>1 DEF UpdateLocation, Profile
    <3>2. ASSUME NEW on \in BOOLEAN, ToggleOnlineStatus(d, on) PROVE drv' \in [Driver -> Profile]
      <4>1. drv' = [drv EXCEPT ![d] = [online |-> on, avail |-> on, gps |-> on /\ drv[d].gps]]
        BY <1>2, <3>2 DEF ToggleOnlineStatus
      <4>2. [online |-> on, avail |-> on, gps |-> on /\ drv[d].gps] \in Profile
        BY DEF Profile
      <4> QED
        BY <1>2, <4>1, <4>2
    <3> QED
      BY <1>8, <3>1, <3>2
  <2> QED
    BY <1>2, <1>3, <2>1, <2>2, Elsewhere DEF IInv
<1>9. ASSUME NEW S \in SUBSET Driver, ResetStaleOnlineDrivers(S) PROVE IInv'
  <2>1. UNCHANGED <<proc, app, earned>>
    BY <1>9 DEF ResetStaleOnlineDrivers
  <2>2. drv' \in [Driver -> Profile]
    BY <1>2, <1>9 DEF ResetStaleOnlineDrivers, Profile
  <2> QED
    BY <1>2, <1>3, <2>1, <2>2, Elsewhere DEF IInv
<1> QED
  BY <1>4, <1>5, <1>6, <1>7, <1>8, <1>9

(* The app's status calls, the window and the sweep of expired pickups.    *)
LEMMA Sweeping ==
  ASSUME IInv,
         \/ \E d \in Driver, a \in Assignment : UpdateStatus(d, a)
         \/ \E a \in Assignment : PickupWindowEnds(a)
         \/ \E S \in SUBSET Assignment : ResetExpiredDeliveryAssignments(S)
  PROVE  IInv'
<1>1. UNCHANGED <<drv, job, worker, proc, app, earned, faults>>
  BY DEF UpdateStatus, PickupWindowEnds, ResetExpiredDeliveryAssignments
<1>2. /\ asg \in [Assignment -> Row]
      /\ \A b \in Assignment : asg[b] \in Row /\ asg[b].attempts \in Nat
  BY DEF IInv, TypeOK, Row
<1>3. ASSUME asg' \in [Assignment -> Row], Unassigned',
             \A b \in Assignment : asg'[b].attempts <= asg[b].attempts
      PROVE  IInv'
  <2>1. TypeOK'
    BY <1>1, <1>3 DEF IInv, TypeOK
  <2> QED
    BY <1>1, <1>3, <2>1, NoGuess, Elsewhere DEF IInv
<1>4. ASSUME NEW d \in Driver, NEW a \in Assignment, UpdateStatus(d, a) PROVE IInv'
  <2>1. PICK st \in {"picked_up", "in_transit"} : asg' = [asg EXCEPT ![a] = [asg[a] EXCEPT !.status = st]]
    <3>1. app[d][a] \in {"accepted", "picked_up"}
      BY <1>4 DEF UpdateStatus, NextStatus
    <3>2. NextStatus[app[d][a]] \in {"picked_up", "in_transit"}
      BY <3>1 DEF NextStatus
    <3>3. asg' = [asg EXCEPT ![a] = [asg[a] EXCEPT !.status = NextStatus[app[d][a]]]]
      BY <1>2, <1>4 DEF UpdateStatus
    <3> QED
      BY <3>2, <3>3
  <2>2. st \in Status
    BY DEF Status
  <2>3. [asg[a] EXCEPT !.status = st] \in Row
    BY <1>2, <2>2, Rows
  <2>4. asg' \in [Assignment -> Row]
    BY <1>2, <2>1, <2>3
  <2>5. Unassigned' /\ \A b \in Assignment : asg'[b].attempts <= asg[b].attempts
    BY <1>2, <2>1 DEF IInv, Unassigned, Row
  <2> QED
    BY <2>4, <2>5, <1>3
<1>5. ASSUME NEW a \in Assignment, PickupWindowEnds(a) PROVE IInv'
  <2>1. asg' = [asg EXCEPT ![a] = [asg[a] EXCEPT !.old = TRUE]]
    BY <1>2, <1>5 DEF PickupWindowEnds
  <2>2. [asg[a] EXCEPT !.old = TRUE] \in Row
    BY <1>2, Rows
  <2>3. asg' \in [Assignment -> Row]
    BY <1>2, <2>1, <2>2
  <2>4. Unassigned' /\ \A b \in Assignment : asg'[b].attempts <= asg[b].attempts
    BY <1>2, <2>1 DEF IInv, Unassigned, Row
  <2> QED
    BY <2>3, <2>4, <1>3
<1>6. ASSUME NEW S \in SUBSET Assignment, ResetExpiredDeliveryAssignments(S) PROVE IInv'
  <2>1. asg' = [b \in Assignment |->
                  IF b \in S THEN [asg[b] EXCEPT !.status = "pending", !.driver = None, !.old = FALSE]
                  ELSE asg[b]]
    BY <1>6 DEF ResetExpiredDeliveryAssignments
  <2>2. \A b \in Assignment :
          [asg[b] EXCEPT !.status = "pending", !.driver = None, !.old = FALSE] \in Row
    BY <1>2, Rows
  <2>3. asg' \in [Assignment -> Row]
    BY <1>2, <2>1, <2>2
  <2>4. Unassigned'
    BY <1>2, <2>1 DEF IInv, Unassigned, Row
  <2>5. \A b \in Assignment : asg'[b].attempts <= asg[b].attempts
    <3>1. \A b \in Assignment : asg'[b].attempts = asg[b].attempts
      BY <1>2, <2>1 DEF Row
    <3> QED
      BY <1>2, <3>1
  <2> QED
    BY <2>3, <2>4, <2>5, <1>3
<1> QED
  BY <1>4, <1>5, <1>6

(* The rows, jobs, drivers and requests as they begin.                     *)
LEMMA Initially == Init => IInv
<1> SUFFICES ASSUME Init PROVE IInv
  OBVIOUS
<1>1. asg \in [Assignment -> Row]
  BY DEF Init, Row, Status
<1>2. job \in [Assignment -> Job]
  BY ConstantsAssumption DEF Init, Job
<1>3. drv \in [Driver -> Profile] /\ worker \in [Worker -> Run] /\ proc \in [Proc -> Request]
  BY DEF Init, Profile, NoJob, Idle, Run, Request
<1>4. /\ app \in [Driver -> [Assignment -> Status \cup {None}]]
      /\ earned \in [Assignment -> Seq(Driver)] /\ faults \in Nat
  BY DEF Init
<1>5. Unassigned
  BY DEF Init, Unassigned
<1>6. Guesses
  <2> SUFFICES ASSUME NEW a \in Assignment
               PROVE  asg[a].attempts + Cardinality(Guessing(a)) <= MaxAttempts + Cardinality(Proc) - 1
    BY DEF Guesses
  <2>1. Guessing(a) = {} /\ asg[a].attempts = 0
    BY DEF Init, Guessing, Idle
  <2> QED
    BY <2>1, FS_EmptySet, GuessingCount, ConstantsAssumption
<1> QED
  BY <1>1, <1>2, <1>3, <1>4, <1>5, <1>6 DEF IInv, TypeOK

-----------------------------------------------------------------------------

(* One step, whoever takes it.                                             *)
LEMMA Inductive ==
  ASSUME IInv, [Next]_vars
  PROVE  IInv'
<1>1. CASE Next
  <2>1. CASE \E p \in Proc : Handling(p)
    BY <2>1, WritingRow, BesideRow DEF Handling
  <2> QED
    BY <1>1, <2>1, Dispatching, Beginning, BesideRow, Sweeping DEF Next
<1>2. CASE UNCHANGED vars
  <2>1. TypeOK' /\ Unassigned'
    BY <1>2 DEF vars, IInv, TypeOK, Unassigned
  <2>2. \A a \in Assignment : asg'[a].attempts <= asg[a].attempts
    BY <1>2 DEF vars, IInv, TypeOK, Row
  <2> QED
    BY <1>2, <2>1, <2>2, NoGuess, Elsewhere DEF vars, IInv
<1> QED
  BY <1>1, <1>2

(* The invariant the properties need: a row that waits for a driver has    *)
(* none, and whoever counts a wrong code read the row below the limit.     *)
THEOREM Invariance == Spec => []IInv
BY Initially, Inductive, PTL DEF Spec

(* Every variable keeps its type; the statuses are the database's.         *)
THEOREM TypeCorrect == Spec => []TypeOK
<1>1. IInv => TypeOK
  BY DEF IInv
<1> QED
  BY <1>1, Invariance, PTL

(* However many requests guess the handover code at once, the wrong codes  *)
(* counted exceed the limit by less than their number.                     *)
THEOREM GuessesAreBounded == Spec => []AttemptsBounded
<1>1. IInv => AttemptsBounded
  <2> SUFFICES ASSUME IInv, NEW a \in Assignment
               PROVE  asg[a].attempts <= MaxAttempts + Cardinality(Proc) - 1
    BY DEF AttemptsBounded
  <2>1. asg[a].attempts \in Nat
    BY DEF IInv, TypeOK, Row
  <2>2. asg[a].attempts + Cardinality(Guessing(a)) <= MaxAttempts + Cardinality(Proc) - 1
    BY DEF IInv, Guesses
  <2> QED
    BY <2>1, <2>2, GuessingCount, ConstantsAssumption
<1> QED
  BY <1>1, Invariance, PTL

(* The worker changes no row that has a driver, however late its job runs. *)
THEOREM WorkerLeavesDrivers == Spec => WorkerTakesNothing
<1> DEFINE Taken == \E a \in Assignment :
                      worker' # worker /\ asg[a].driver # None /\ asg'[a] # asg[a]
<1>1. ASSUME IInv, [Next]_vars PROVE ~Taken
  <2>1. SUFFICES ASSUME NEW a \in Assignment, worker' # worker, asg[a].driver # None
                 PROVE  asg'[a] = asg[a]
    OBVIOUS
  <2>2. asg \in [Assignment -> Row]
    BY <1>1 DEF IInv, TypeOK
  <2>3. PICK w \in Worker : Dispatch(w) \/ WorkerCrash(w)
    BY <1>1, <2>1 DEF Next, vars, CreateAssignment, AdminAssign, LoadDeliveries, Asking,
       AcceptDelivery, GenerateOTP, VerifyOTP, Handling, SaveAccepted, OccupyAccepting, SaveOTP,
       CountWrongCode, ConfirmDelivery, CheckEarning, CreateEarning, FreeDriver, UpdateStatus,
       ToggleOnlineStatus, UpdateLocation, ResetStaleOnlineDrivers, PickupWindowEnds,
       ResetExpiredDeliveryAssignments, Crash
  <2>4. CASE AssignDriver(w)
    <3>1. worker[w].asg = a => asg[a].status # "pending"
      BY <1>1, <2>1 DEF IInv, Unassigned
    <3> QED
      BY <2>2, <2>4, <3>1 DEF AssignDriver
  <2>5. CASE OccupyDriver(w) \/ WorkerCrash(w) \/ \E b \in Assignment : PickDriver(w, b)
    BY <2>5 DEF OccupyDriver, WorkerCrash, PickDriver
  <2> QED
    BY <2>3, <2>4, <2>5 DEF Dispatch
<1>2. ASSUME IInv, [Next]_vars
      PROVE  [\A a \in Assignment :
                worker' # worker /\ asg[a].driver # None => asg'[a] = asg[a]]_vars
  BY <1>1, <1>2
<1> QED
  BY <1>2, Invariance, PTL DEF Spec, WorkerTakesNothing
-----------------------------------------------------------------------------
(* The earnings.                                                           *)

(* A request that read the row after an earning was stored still finds one *)
(* stored, and one that is about to create an earning because it found     *)
(* none had read the row before.                                           *)
Knowing ==
  \A p \in Proc :
    /\ proc[p].late => proc[p].asg \in Assignment /\ earned[proc[p].asg] # <<>>
    /\ At(p, "create") => ~proc[p].late

(* Rows of driver_earnings are added and never taken away.                 *)
LEMMA EarningsStay ==
  ASSUME TypeOK, [Next]_vars, NEW a \in Assignment, earned[a] # <<>>
  PROVE  earned'[a] # <<>>
<1>1. CASE earned' = earned
  BY <1>1
<1>2. ASSUME NEW p \in Proc, CreateEarning(p) PROVE earned'[a] # <<>>
  <2>1. proc[p].asg \in Assignment /\ proc[p].driver \in Driver
    BY <1>2 DEF TypeOK, CreateEarning, At, Request, Idle
  <2>2. Append(earned[proc[p].asg], proc[p].driver) # <<>>
    <3>1. earned[proc[p].asg] \in Seq(Driver)
      BY <2>1 DEF TypeOK
    <3>2. Len(Append(earned[proc[p].asg], proc[p].driver)) = Len(earned[proc[p].asg]) + 1
      BY <2>1, <3>1
    <3> QED
      BY <3>1, <3>2
  <2> QED
    BY <1>2, <2>1, <2>2 DEF CreateEarning, TypeOK
<1> QED
  BY <1>1, <1>2 DEF Next, vars, CreateAssignment, AdminAssign, Dispatch, PickDriver, AssignDriver,
    OccupyDriver, WorkerCrash, LoadDeliveries, Asking, AcceptDelivery, GenerateOTP, VerifyOTP,
    Handling, SaveAccepted, OccupyAccepting, SaveOTP, CountWrongCode, ConfirmDelivery, CheckEarning,
    FreeDriver, UpdateStatus, ToggleOnlineStatus, UpdateLocation, ResetStaleOnlineDrivers,
    PickupWindowEnds, ResetExpiredDeliveryAssignments, Crash

(* What a step does to a request: nothing, end it, begin one, or take it   *)
(* on, to "create" only where no earning is stored.                        *)
Moves(p) ==
  \/ proc'[p] = proc[p]
  \/ proc'[p] = Idle
  \/ \E a \in Assignment : /\ proc'[p].asg = a /\ proc'[p].pc # "create"
                            /\ proc'[p].late = (earned[a] # <<>>) /\ earned' = earned
  \/ /\ proc'[p].asg = proc[p].asg /\ proc'[p].late = proc[p].late
     /\ proc'[p].pc = "create" => earned[proc[p].asg] = <<>>

(* Every step moves every request in one of these ways.                    *)
LEMMA StepsMove ==
  ASSUME TypeOK, [Next]_vars, NEW q \in Proc
  PROVE  Moves(q)
<1>1. proc \in [Proc -> Request]
  BY DEF TypeOK
<1>2. CASE UNCHANGED proc
  BY <1>2 DEF Moves
<1>3. ASSUME NEW p \in Proc, Finish(p) PROVE Moves(q)
  BY <1>1, <1>3 DEF Finish, Moves
<1>4. ASSUME NEW p \in Proc, NEW pc \in {"occupy", "earning", "blind", "free", "create"},
             Goto(p, pc), proc[p].pc # "idle", pc = "create" => earned[proc[p].asg] = <<>>
      PROVE  Moves(q)
  BY <1>1, <1>4 DEF Goto, Moves, Request, Idle
<1>5. ASSUME NEW p \in Proc, NEW pc \in {"accept", "generate", "wrong", "confirm"},
             NEW a \in Assignment, NEW d \in Driver, Start(p, pc, a, d), earned' = earned
      PROVE  Moves(q)
  BY <1>1, <1>5 DEF Start, Moves
<1>6. ASSUME NEW p \in Proc, Asking(p) PROVE Moves(q)
  <2>1. PICK d \in Driver, a \in Assignment :
          AcceptDelivery(p, d, a) \/ GenerateOTP(p, d, a) \/ VerifyOTP(p, d, a)
    BY <1>6 DEF Asking
  <2>2. /\ earned' = earned
        /\ \E pc \in {"accept", "generate", "wrong", "confirm"} : Start(p, pc, a, d)
    BY <2>1 DEF AcceptDelivery, GenerateOTP, VerifyOTP
  <2> QED
    BY <2>2, <1>5
<1>7. ASSUME NEW p \in Proc, Handling(p) PROVE Moves(q)
  <2>1. CASE SaveAccepted(p) \/ ConfirmDelivery(p) \/ CheckEarning(p) \/ CreateEarning(p)
    BY <2>1, <1>4 DEF SaveAccepted, ConfirmDelivery, CheckEarning, CreateEarning, At
  <2>2. CASE OccupyAccepting(p) \/ SaveOTP(p) \/ CountWrongCode(p) \/ FreeDriver(p)
    BY <2>2, <1>3 DEF OccupyAccepting, SaveOTP, CountWrongCode, FreeDriver
  <2> QED
    BY <1>7, <2>1, <2>2 DEF Handling
<1>8. CASE Crash
  BY <1>8 DEF Crash, Moves
<1>9. CASE \/ \E a \in Assignment : CreateAssignment(a) \/ PickupWindowEnds(a)
           \/ \E a \in Assignment, d \in Driver : AdminAssign(a, d) \/ UpdateStatus(d, a)
           \/ \E w \in Worker : Dispatch(w) \/ WorkerCrash(w)
           \/ \E d \in Driver : LoadDeliveries(d) \/ UpdateLocation(d)
           \/ \E d \in Driver, on \in BOOLEAN : ToggleOnlineStatus(d, on)
           \/ \E S \in SUBSET Driver : ResetStaleOnlineDrivers(S)
           \/ \E S \in SUBSET Assignment : ResetExpiredDeliveryAssignments(S)
           \/ UNCHANGED vars
  BY <1>2, <1>9 DEF vars, CreateAssignment, AdminAssign, UpdateStatus, Dispatch, PickDriver,
    AssignDriver, OccupyDriver, WorkerCrash, LoadDeliveries, UpdateLocation, PickupWindowEnds,
    ToggleOnlineStatus, ResetStaleOnlineDrivers, ResetExpiredDeliveryAssignments
<1> QED
  BY <1>6, <1>7, <1>8, <1>9 DEF Next

(* A late request never finds its way to "create": the earning it could    *)
(* have seen is still there when it looks.                                 *)
THEOREM EarningsInvariance == Spec => []Knowing
<1>1. Init => Knowing
  BY DEF Init, Knowing, At, Idle
<1>2. ASSUME IInv, Knowing, [Next]_vars PROVE Knowing'
  <2> SUFFICES ASSUME NEW p \in Proc
               PROVE  /\ proc'[p].late => proc'[p].asg \in Assignment
                                            /\ earned'[proc'[p].asg] # <<>>
                      /\ proc'[p].pc = "create" => ~proc'[p].late
    BY DEF Knowing, At
  <2>1. Moves(p) /\ TypeOK
    BY <1>2, StepsMove DEF IInv
  <2>2. \A a \in Assignment : earned[a] # <<>> => earned'[a] # <<>>
    BY <1>2, <2>1, EarningsStay
  <2>3. /\ proc[p].late => proc[p].asg \in Assignment /\ earned[proc[p].asg] # <<>>
        /\ proc[p].pc = "create" => ~proc[p].late
    BY <1>2 DEF Knowing, At
  <2>4. CASE proc'[p] = proc[p]
    BY <2>2, <2>3, <2>4
  <2>5. CASE proc'[p] = Idle
    BY <2>5 DEF Idle
  <2>6. CASE \E a \in Assignment : /\ proc'[p].asg = a /\ proc'[p].pc # "create"
                                   /\ proc'[p].late = (earned[a] # <<>>) /\ earned' = earned
    BY <2>6
  <2>7. CASE /\ proc'[p].asg = proc[p].asg /\ proc'[p].late = proc[p].late
             /\ proc'[p].pc = "create" => earned[proc[p].asg] = <<>>
    BY <2>2, <2>3, <2>7
  <2> QED
    BY <2>1, <2>4, <2>5, <2>6, <2>7 DEF Moves
<1> QED
  BY <1>1, <1>2, Invariance, PTL DEF Spec

(* A delivery confirmed again earns nothing more, through restarts, failed *)
(* writes and any number of requests, unless the confirmation overlaps the *)
(* first one or its own lookup of the earnings fails.                      *)
THEOREM EarnsOnce == Spec => PaidOnce
<1> DEFINE Adds == \E p \in Proc : /\ proc[p].late /\ ~At(p, "blind")
                                   /\ proc'[p] # proc[p] /\ earned' # earned
<1>1. ASSUME IInv, Knowing, [Next]_vars PROVE ~Adds
  <2> SUFFICES ASSUME NEW p \in Proc, proc[p].late, ~At(p, "blind"),
                      proc'[p] # proc[p], earned' # earned
               PROVE  FALSE
    OBVIOUS
  <2>1. PICK q \in Proc : CreateEarning(q)
    BY <1>1 DEF Next, vars, CreateAssignment, AdminAssign, Dispatch, PickDriver, AssignDriver,
      OccupyDriver, WorkerCrash, LoadDeliveries, Asking, AcceptDelivery, GenerateOTP, VerifyOTP,
      Handling, SaveAccepted, OccupyAccepting, SaveOTP, CountWrongCode, ConfirmDelivery,
      CheckEarning, FreeDriver, UpdateStatus, ToggleOnlineStatus, UpdateLocation,
      ResetStaleOnlineDrivers, PickupWindowEnds, ResetExpiredDeliveryAssignments, Crash
  <2>2. q = p
    BY <1>1, <2>1 DEF CreateEarning, Goto, IInv, TypeOK
  <2> QED
    BY <1>1, <2>1, <2>2 DEF CreateEarning, At, Knowing
<1>2. ASSUME IInv, Knowing, [Next]_vars
      PROVE  [\A p \in Proc :
                /\ proc[p].late /\ ~At(p, "blind")
                /\ proc'[p] # proc[p]
                => earned' = earned]_vars
  BY <1>1, <1>2
<1> QED
  BY <1>2, Invariance, EarningsInvariance, PTL DEF Spec, PaidOnce
=============================================================================
