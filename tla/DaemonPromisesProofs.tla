------------------------ MODULE DaemonPromisesProofs ------------------------
(***************************************************************************)
(* What the daemon promises those who use it, for any number of jobs,      *)
(* clients, faults and cancels.  It implements BuildQueue: the initial     *)
(* state maps to the empty queue, and every statement of the worker or of  *)
(* a handler, every crash and every restart maps to an operation of the    *)
(* queue or to no change.  A Status answer counts at most one job twice,   *)
(* and the events tell what has become of a job.                           *)
(***************************************************************************)
EXTENDS DaemonProofs, DaemonQueue

-----------------------------------------------------------------------------
\* The stamps of the queued rows.

\* Steps that insert no row and make no row queued keep the stamps in order.
LEMMA StampsFrame ==
  ASSUME StampsInOrder, DOMAIN jobs' = DOMAIN jobs, arrival' = arrival, clock' = clock,
         \A k \in DOMAIN jobs : jobs'[k] = jobs[k] \/ StateOf(k)' # "Queued"
  PROVE  StampsInOrder'
  BY DEF StampsInOrder, StateOf

\* Every step of the daemon keeps the stamps in order.
LEMMA StampsStep ==
  ASSUME StoreAssumption, Inv, StampsInOrder, [Next]_vars
  PROVE  StampsInOrder'
<1>1. ASSUME UNCHANGED <<jobs, arrival, clock>> PROVE StampsInOrder'
  BY <1>1, StampsFrame
<1>2. ASSUME NEW c \in Clients, EnqueueInsert(c) PROVE StampsInOrder'
  <2> PICK id \in JobIds : InsertJob(id)
    BY <1>2 DEF EnqueueInsert
  <2> DEFINE n == Cardinality(DOMAIN jobs)
  <2>1. n \in Nat /\ Cardinality(DOMAIN jobs') = n + 1
    <3>1. IsFiniteSet(DOMAIN jobs)
      BY FS_Subset DEF StoreAssumption, Inv, TypeOK, StoreTypeOK
    <3>2. DOMAIN jobs' = DOMAIN jobs \cup {id} /\ id \notin DOMAIN jobs
      BY DEF InsertJob, InsertAt
    <3> QED BY <3>1, <3>2, FS_AddElement, FS_CardinalityType
  <2>2. /\ DOMAIN jobs' = DOMAIN jobs \cup {id}
        /\ id \notin DOMAIN jobs
        /\ \A k \in DOMAIN jobs : jobs'[k] = jobs[k]
        /\ jobs'[id].updated_at = clock'
        /\ clock \in Nat /\ clock' \in Nat /\ clock < clock'
    BY DEF InsertJob, InsertAt, StoreAssumption, Inv, TypeOK, StoreTypeOK
  <2>3. /\ arrival'[id] = n + 1
        /\ \A k \in DOMAIN jobs : arrival'[k] = arrival[k] /\ arrival[k] \in Nat
        /\ \A k \in DOMAIN jobs : jobs[k].updated_at \in Nat
    BY <2>2 DEF InsertJob, InsertAt, Inv, TypeOK, StoreTypeOK, Row
  <2> HIDE DEF n
  <2>4. \A k \in DOMAIN jobs : arrival[k] <= n
    BY DEF StampsInOrder, n
  <2> QED BY <2>1, <2>2, <2>3, <2>4 DEF StampsInOrder, StateOf
<1>3. ASSUME NEW c \in Clients, CancelWrite(c) PROVE StampsInOrder'
  <2>1. "Canceling" \in JobState
    BY DEF JobState
  <2>2. /\ DOMAIN jobs' = DOMAIN jobs
        /\ \A k \in DOMAIN jobs : k = conn[c].id => StateOf(k)' = "Canceling"
    BY <1>3, <2>1, UpdateEffect DEF CancelWrite, Inv, TypeOK, StateOf
  <2>3. \A k \in DOMAIN jobs : k # conn[c].id => jobs'[k] = jobs[k]
    BY <1>3 DEF CancelWrite, UpdateState
  <2> QED BY <1>3, <2>2, <2>3, StampsFrame DEF CancelWrite
<1>4. CASE WriteState
  <2>1. wnext \in JobState /\ wnext # "Queued"
    BY <1>4 DEF WriteState, Inv, TypeOK, WorkerTypeOK, WorkerInv, HasJob, AtItsPlace,
                NextStates
  <2>2. /\ DOMAIN jobs' = DOMAIN jobs
        /\ \A k \in DOMAIN jobs : k = wjob => StateOf(k)' = wnext
    BY <1>4, <2>1, UpdateEffect DEF WriteState, Inv, TypeOK, StateOf
  <2>3. \A k \in DOMAIN jobs : k # wjob => jobs'[k] = jobs[k]
    BY <1>4 DEF WriteState, UpdateState
  <2> QED BY <1>4, <2>1, <2>2, <2>3, StampsFrame DEF WriteState
<1>5. CASE Worker /\ ~WriteState
  <2>1. UNCHANGED <<jobs, arrival, clock>>
    BY <1>5 DEF Worker, WorkerStep, DetectRuntime, OpenStore, NothingQueued, PickJob,
                CheckState, LogState, Prepare, StartBuild, EndBuild, Branch, Collect, Wake,
                storeVars
  <2> QED BY <1>1, <2>1
<1>6. ASSUME NEW c \in Clients, Handler(c), ~EnqueueInsert(c), ~CancelWrite(c)
      PROVE  UNCHANGED <<jobs, arrival, clock>>
  BY <1>6 DEF Handler, HandlerStep, ScheduleReject, CancelRead, LogEvent, CountQueued,
              CountRunning, Respond, storeVars
<1>7. ASSUME NEW c \in Clients, Client(c) \/ Accept(c) \/ HandlerFault(c)
      PROVE  UNCHANGED <<jobs, arrival, clock>>
  BY <1>7 DEF Client, ClientStep, RequestSchedule, RequestCancel, RequestStatus, Send,
              Accept, AcceptConn, HandlerFault, storeVars
<1>8. CASE UNCHANGED vars \/ WorkerFault \/ BindSocket \/ Interrupt \/ Exit \/ Crash
           \/ Restart
  <2>1. UNCHANGED <<jobs, arrival, clock>>
    BY <1>8 DEF vars, storeVars, WorkerFault, BindSocket, Interrupt, Exit, Crash, Restart,
                ProcessGone
  <2> QED BY <1>1, <2>1
<1> QED BY <1>1, <1>2, <1>3, <1>4, <1>5, <1>6, <1>7, <1>8 DEF Next

\* Among the queued rows the time stamps are always in the order of arrival.
THEOREM StampsInvariance == Spec => []StampsInOrder
<1>1. Init => StampsInOrder
  BY DEF Init, StoreInit, StampsInOrder
<1>2. Inv /\ StampsInOrder /\ [Next]_vars => StampsInOrder'
  BY StoreAssumption, StampsStep
<1> QED BY <1>1, <1>2, Invariance, PTL DEF Spec

-----------------------------------------------------------------------------
\* The phases.

\* The phase of a job, case by case.
PhaseCases(id) ==
  /\ id \notin DOMAIN jobs => phaseBar[id] = "absent"
  /\ id \in DOMAIN jobs /\ wjob = id /\ id \notin begun => phaseBar[id] = "taken"
  /\ id \in DOMAIN jobs /\ wjob = id /\ id \in begun => phaseBar[id] = "begun"
  /\ id \in DOMAIN jobs /\ wjob # id /\ id \in begun => phaseBar[id] = "over"
  /\ id \in DOMAIN jobs /\ wjob # id /\ id \notin begun /\ jobs[id].state = "queued"
       => phaseBar[id] = "waiting"
  /\ id \in DOMAIN jobs /\ wjob # id /\ id \notin begun /\ jobs[id].state # "queued"
       => phaseBar[id] = "withdrawn"

\* The phase of a job in the queue, before and after a step, case by case.
LEMMA PhaseOf ==
  ASSUME NEW id \in JobIds
  PROVE  PhaseCases(id) /\ PhaseCases(id)'
<1>1. PhaseCases(id)
  BY DEF PhaseCases, phaseBar
<1>2. PhaseCases(id)'
  BY DEF PhaseCases, phaseBar
<1> QED BY <1>1, <1>2

\* The phases are a function on the jobs, so two of them are the same if they
\* agree everywhere, and one is an update of the other if they differ in a job.
LEMMA PhasesSame ==
  ASSUME \A k \in JobIds : phaseBar'[k] = phaseBar[k]
  PROVE  phaseBar' = phaseBar
<1>1. phaseBar = [k \in JobIds |-> phaseBar[k]]
  BY DEF phaseBar
<1>2. phaseBar' = [k \in JobIds |-> phaseBar'[k]]
  BY DEF phaseBar
<1> QED BY <1>1, <1>2

\* Where one job alone may change its phase, the phases are an update at it.
LEMMA PhasesMove ==
  ASSUME NEW id \in JobIds, \A k \in JobIds \ {id} : phaseBar'[k] = phaseBar[k]
  PROVE  phaseBar' = [phaseBar EXCEPT ![id] = phaseBar'[id]]
<1>1. phaseBar = [k \in JobIds |-> phaseBar[k]]
  BY DEF phaseBar
<1>2. phaseBar' = [k \in JobIds |-> phaseBar'[k]]
  BY DEF phaseBar
<1> QED BY <1>1, <1>2

\* Same rows, same job in the hands of the worker: no change in the queue.
LEMMA QueueStutter ==
  ASSUME UNCHANGED <<jobs, wjob, begun, arrival>>
  PROVE  UNCHANGED Queue!vars
<1>1. phaseBar' = phaseBar
  BY DEF phaseBar
<1> QED BY <1>1 DEF Queue!vars

\* The worker lets go of its job: it is over, or back in the queue if the worker
\* had not marked it, or withdrawn if a cancel has seen to that.
LEMMA QueueForget ==
  ASSUME Inv, Forget, UNCHANGED <<jobs, begun, arrival>>
  PROVE  [Queue!Next]_(Queue!vars)
<1>1. CASE wjob = NoJob
  BY <1>1, QueueStutter DEF Forget
<1>2. CASE wjob # NoJob
  <2>1. wjob \in JobIds /\ wjob \in DOMAIN jobs /\ wjob' = NoJob /\ NoJob \notin JobIds
    BY <1>2, StoreAssumption DEF StoreAssumption, Forget, Inv, TypeOK, WorkerTypeOK,
                                 WorkerInv, Marked, Working
  <2>2. \A k \in JobIds \ {wjob} : phaseBar'[k] = phaseBar[k]
    BY <2>1, PhaseOf DEF PhaseCases
  <2>3. phaseBar' = [phaseBar EXCEPT ![wjob] = phaseBar'[wjob]]
    BY <2>1, <2>2, PhasesMove
  <2>4. UNCHANGED <<arrival, Cardinality(DOMAIN jobs)>>
    OBVIOUS
  <2>5. CASE wjob \in begun
    <3>1. phaseBar[wjob] = "begun" /\ phaseBar'[wjob] = "over"
      BY <2>1, <2>5, PhaseOf DEF PhaseCases
    <3> QED BY <2>1, <2>3, <2>4, <3>1 DEF Queue!Next, Queue!Close, Queue!Move
  <2>6. CASE wjob \notin begun /\ jobs[wjob].state = "queued"
    <3>1. phaseBar[wjob] = "taken" /\ phaseBar'[wjob] = "waiting"
      BY <2>1, <2>6, PhaseOf DEF PhaseCases
    <3> QED BY <2>1, <2>3, <2>4, <3>1 DEF Queue!Next, Queue!PutBack, Queue!Move
  <2>7. CASE wjob \notin begun /\ jobs[wjob].state # "queued"
    <3>1. phaseBar[wjob] = "taken" /\ phaseBar'[wjob] = "withdrawn"
      BY <2>1, <2>7, PhaseOf DEF PhaseCases
    <3> QED BY <2>1, <2>3, <2>4, <3>1 DEF Queue!Next, Queue!Drop, Queue!Move
  <2> QED BY <2>5, <2>6, <2>7
<1> QED BY <1>1, <1>2

\* next_queued finds the job that came first among those that wait.
LEMMA QueueTake ==
  ASSUME Inv, StampsInOrder, NEW id \in JobIds, PickJob(id)
  PROVE  Queue!Take(id)
<1>1. /\ id \in DOMAIN jobs /\ jobs[id].state = "queued" /\ StateOf(id) = "Queued"
      /\ wjob = NoJob /\ wjob' = id /\ UNCHANGED <<jobs, begun, arrival>>
  BY ParseText DEF PickJob, next_queued, storeVars, history, Inv, TypeOK, StoreTypeOK, Row,
                   StateOf, WorkerInv, HasJob, Working
<1>2. id \notin begun /\ NoJob \notin JobIds
  BY <1>1, StoreAssumption DEF StoreAssumption, Inv, WorkerInv, RowsFitHistory
<1>3. \A k \in JobIds : ~Queue!Held(k)
  <2> TAKE k \in JobIds
  <2>1. phaseBar[k] \in {"absent", "over", "waiting", "withdrawn"}
    BY <1>1, <1>2, PhaseOf DEF PhaseCases
  <2> QED BY <2>1 DEF Queue!Held
<1>4. ASSUME NEW k \in JobIds, phaseBar[k] = "waiting" PROVE arrival[id] <= arrival[k]
  <2>1. k \in DOMAIN jobs /\ jobs[k].state = "queued"
    BY <1>1, <1>2, <1>4, PhaseOf DEF PhaseCases
  <2>2. StateOf(k) = "Queued" /\ jobs[id].updated_at <= jobs[k].updated_at
    BY <2>1, ParseText DEF PickJob, next_queued, StateOf, Inv, TypeOK, StoreTypeOK, Row
  <2>3. /\ arrival[id] \in Nat /\ arrival[k] \in Nat
        /\ jobs[id].updated_at \in Nat /\ jobs[k].updated_at \in Nat
    BY <1>1, <2>1 DEF Inv, TypeOK, StoreTypeOK, Row
  <2>4. arrival[k] < arrival[id] => jobs[k].updated_at < jobs[id].updated_at
    BY <1>1, <2>1, <2>2 DEF StampsInOrder
  <2> QED BY <2>2, <2>3, <2>4
<1>5. phaseBar[id] = "waiting" /\ phaseBar'[id] = "taken"
  BY <1>1, <1>2, PhaseOf DEF PhaseCases
<1>6. \A k \in JobIds \ {id} : phaseBar'[k] = phaseBar[k]
  BY <1>1, <1>2, PhaseOf DEF PhaseCases
<1>7. phaseBar' = [phaseBar EXCEPT ![id] = "taken"]
  BY <1>5, <1>6, PhasesMove
<1>8. UNCHANGED <<arrival, Cardinality(DOMAIN jobs)>>
  BY <1>1
<1> QED BY <1>3, <1>4, <1>5, <1>7, <1>8 DEF Queue!Take, Queue!Move

\* The first row that the worker writes for a job begins it, later ones are not
\* seen by the queue.
LEMMA QueueWrite ==
  ASSUME Inv, WriteState
  PROVE  [Queue!Next]_(Queue!vars)
<1>1. /\ wjob \in JobIds /\ wjob \in DOMAIN jobs /\ wjob' = wjob /\ arrival' = arrival
      /\ wpc = "update" /\ DOMAIN jobs' = DOMAIN jobs /\ begun' = begun \cup {wjob}
      /\ \A k \in JobIds \ {wjob} : jobs'[k] = jobs[k]
  BY DEF WriteState, UpdateState, localVars, Inv, TypeOK, StoreTypeOK, WorkerInv, HasJob,
         Marked, Working
<1>2. \A k \in JobIds \ {wjob} : phaseBar'[k] = phaseBar[k]
  <2> TAKE k \in JobIds \ {wjob}
  <2>1. (k \in DOMAIN jobs' <=> k \in DOMAIN jobs) /\ (k \in begun' <=> k \in begun)
        /\ jobs'[k] = jobs[k] /\ wjob' = wjob /\ k # wjob
    BY <1>1
  <2> QED BY <2>1, PhaseOf DEF PhaseCases
<1>3. phaseBar' = [phaseBar EXCEPT ![wjob] = "begun"]
  <2>1. phaseBar'[wjob] = "begun"
    BY <1>1, PhaseOf DEF PhaseCases
  <2> QED BY <1>1, <1>2, <2>1, PhasesMove
<1>4. UNCHANGED <<arrival, Cardinality(DOMAIN jobs)>>
  BY <1>1
<1>5. CASE wjob \notin begun
  <2>1. phaseBar[wjob] = "taken"
    BY <1>1, <1>5, PhaseOf DEF PhaseCases
  <2> QED BY <1>1, <1>3, <1>4, <2>1 DEF Queue!Next, Queue!Begin, Queue!Move
<1>6. CASE wjob \in begun
  <2>1. phaseBar[wjob] = "begun"
    BY <1>1, <1>6, PhaseOf DEF PhaseCases
  <2>2. \A k \in JobIds : phaseBar'[k] = phaseBar[k]
    BY <1>2, <1>3, <2>1
  <2> QED BY <1>4, <2>2, PhasesSame DEF Queue!vars
<1> QED BY <1>5, <1>6

\* The row of an enqueue submits the job.
LEMMA QueueSubmit ==
  ASSUME Inv, NEW c \in Clients, EnqueueInsert(c), UNCHANGED workerVars
  PROVE  Queue!Next
<1> PICK id \in JobIds : InsertJob(id)
  BY DEF EnqueueInsert
<1> DEFINE n == Cardinality(DOMAIN jobs)
<1>1. Cardinality(DOMAIN jobs') = n + 1
  <2>1. IsFiniteSet(DOMAIN jobs)
    BY StoreAssumption, FS_Subset DEF StoreAssumption, Inv, TypeOK, StoreTypeOK
  <2>2. DOMAIN jobs' = DOMAIN jobs \cup {id} /\ id \notin DOMAIN jobs
    BY DEF InsertJob, InsertAt
  <2> QED BY <2>1, <2>2, FS_AddElement
<1>2. /\ DOMAIN jobs' = DOMAIN jobs \cup {id} /\ id \notin DOMAIN jobs
      /\ jobs'[id].state = "queued"
      /\ \A k \in DOMAIN jobs : jobs'[k] = jobs[k]
      /\ wjob' = wjob /\ begun' = begun /\ wjob # id /\ id \notin begun
  BY StoreAssumption
     DEF StoreAssumption, InsertJob, InsertAt, state_name, workerVars, Inv, WorkerInv, Marked,
         Working, RowsFitHistory
<1>3. phaseBar[id] = "absent" /\ phaseBar'[id] = "waiting"
  BY <1>2, PhaseOf DEF PhaseCases
<1>4. \A k \in JobIds \ {id} : phaseBar'[k] = phaseBar[k]
  BY <1>2, PhaseOf DEF PhaseCases
<1>5. phaseBar' = [phaseBar EXCEPT ![id] = "waiting"]
  BY <1>3, <1>4, PhasesMove
<1>6. arrival' = [arrival EXCEPT ![id] = n + 1]
  BY DEF InsertJob, InsertAt
<1> QED BY <1>1, <1>3, <1>5, <1>6 DEF Queue!Next, Queue!Submit, Queue!Move

\* A cancel withdraws a job that waits, and is not seen by the queue otherwise.
LEMMA QueueCancel ==
  ASSUME Inv, NEW c \in Clients, CancelWrite(c), UNCHANGED workerVars
  PROVE  [Queue!Next]_(Queue!vars)
<1> DEFINE id == conn[c].id
<1>1. /\ DOMAIN jobs' = DOMAIN jobs /\ arrival' = arrival
      /\ wjob' = wjob /\ begun' = begun
      /\ \A k \in JobIds \ {id} : jobs'[k] = jobs[k]
      /\ id \in DOMAIN jobs => jobs'[id].state = "canceling"
  BY DEF CancelWrite, UpdateState, state_name, workerVars
<1> HIDE DEF id
<1>2. \A k \in JobIds \ {id} : phaseBar'[k] = phaseBar[k]
  BY <1>1, PhaseOf DEF PhaseCases
<1>3. UNCHANGED <<arrival, Cardinality(DOMAIN jobs)>>
  BY <1>1
<1>4. CASE id \in JobIds /\ phaseBar[id] = "waiting"
  <2>1. phaseBar'[id] = "withdrawn"
    BY <1>1, <1>4, PhaseOf DEF PhaseCases
  <2>2. phaseBar' = [phaseBar EXCEPT ![id] = "withdrawn"]
    BY <1>2, <1>4, <2>1, PhasesMove
  <2> QED BY <1>3, <1>4, <2>2 DEF Queue!Next, Queue!Withdraw, Queue!Move
<1>5. CASE id \notin JobIds \/ phaseBar[id] # "waiting"
  <2>1. \A k \in JobIds : phaseBar'[k] = phaseBar[k]
    BY <1>1, <1>2, <1>5, PhaseOf DEF PhaseCases
  <2> QED BY <1>3, <2>1, PhasesSame DEF Queue!vars
<1> QED BY <1>4, <1>5

\* Every step of the daemon is a step of the queue or no change to it.
LEMMA QueueStep ==
  ASSUME Inv, StampsInOrder, [Next]_vars
  PROVE  [Queue!Next]_(Queue!vars)
<1>1. CASE UNCHANGED <<jobs, wjob, begun, arrival>>
  BY <1>1, QueueStutter
<1>2. ASSUME NEW id \in JobIds, PickJob(id) PROVE [Queue!Next]_(Queue!vars)
  BY <1>2, QueueTake DEF Queue!Next
<1>3. CASE WriteState
  BY <1>3, QueueWrite
<1>4. CASE Forget /\ UNCHANGED <<jobs, begun, arrival>>
  BY <1>4, QueueForget
<1>5. CASE WorkerStep
  <2>1. ASSUME ~WriteState, ~(\E id \in JobIds : PickJob(id))
        PROVE  \/ UNCHANGED <<jobs, wjob, begun, arrival>>
               \/ Forget /\ UNCHANGED <<jobs, begun, arrival>>
    BY <1>5, <2>1
       DEF WorkerStep, DetectRuntime, OpenStore, NothingQueued, CheckState, LogState,
           Prepare, StartBuild, EndBuild, Branch, Collect, Wake, BeginSetState, Fail,
           storeVars, localVars, history
  <2> QED BY <1>1, <1>2, <1>3, <1>4, <2>1
<1>6. ASSUME NEW c \in Clients, Handler(c) PROVE [Queue!Next]_(Queue!vars)
  <2>1. UNCHANGED workerVars
    BY <1>6 DEF Handler
  <2>2. CASE EnqueueInsert(c)
    BY <2>1, <2>2, QueueSubmit
  <2>3. CASE CancelWrite(c)
    BY <2>1, <2>3, QueueCancel
  <2>4. CASE UNCHANGED <<jobs, arrival>>
    BY <2>1, <2>4, QueueStutter DEF workerVars
  <2> QED BY <1>6, <2>2, <2>3, <2>4
             DEF Handler, HandlerStep, ScheduleReject, CancelRead, LogEvent, CountQueued,
                 CountRunning, Respond, storeVars
<1>7. ASSUME NEW c \in Clients, Client(c) \/ Accept(c)
                                \/ (HandlerFault(c) /\ UNCHANGED workerVars)
      PROVE  UNCHANGED <<jobs, wjob, begun, arrival>>
  BY <1>7 DEF Client, ClientStep, RequestSchedule, RequestCancel, RequestStatus, Send,
              Accept, AcceptConn, HandlerFault, storeVars, workerVars
<1>8. CASE UNCHANGED vars \/ BindSocket \/ Restart
  <2>1. UNCHANGED <<jobs, wjob, begun, arrival>>
    BY <1>8 DEF vars, storeVars, workerVars, BindSocket, Restart, localVars, history
  <2> QED BY <1>1, <2>1
<1>9. CASE WorkerFault \/ Interrupt \/ Exit \/ Crash
  <2>1. Forget /\ UNCHANGED <<jobs, begun, arrival>>
    BY <1>9 DEF WorkerFault, Interrupt, Exit, Crash, ProcessGone, Fail, history
  <2> QED BY <1>4, <2>1
<1> QED BY <1>1, <1>5, <1>6, <1>7, <1>8, <1>9 DEF Next, Worker

\* The daemon of an empty database is the empty queue.
LEMMA QueueInitial == Init => Queue!Init
<1> SUFFICES ASSUME Init PROVE Queue!Init
  OBVIOUS
<1>1. DOMAIN jobs = {} /\ arrival = [id \in JobIds |-> 0]
  BY DEF Init, StoreInit
<1>2. phaseBar = [id \in JobIds |-> "absent"]
  BY <1>1 DEF phaseBar
<1>3. Cardinality(DOMAIN jobs) = 0
  BY <1>1, FS_EmptySet
<1> QED BY <1>1, <1>2, <1>3 DEF Queue!Init

\* Every behaviour of the daemon is a behaviour of the queue: first come first
\* served, one at a time, each job served once, a withdrawn one never.
THEOREM DaemonImplementsQueue == Spec => ImplementsQueue
<1>1. Init => Queue!Init
  BY QueueInitial
<1>2. Inv /\ StampsInOrder /\ [Next]_vars => [Queue!Next]_(Queue!vars)
  BY QueueStep
<1> QED BY <1>1, <1>2, Invariance, StampsInvariance, PTL
        DEF Spec, ImplementsQueue, Queue!Spec

QueueOf == INSTANCE BuildQueueProofs WITH
             Job    <- JobIds,
             phase  <- phaseBar,
             ticket <- arrival,
             issued <- Cardinality(DOMAIN jobs)

\* The queue of the proofs is the queue that the daemon implements.
LEMMA SameQueue ==
  /\ Queue!Init => QueueOf!Init
  /\ [Queue!Next]_(Queue!vars) => [QueueOf!Next]_(QueueOf!vars)
<1>1. Queue!Init => QueueOf!Init
  BY DEF Queue!Init, QueueOf!Init
<1>2. UNCHANGED Queue!vars => UNCHANGED QueueOf!vars
  BY DEF Queue!vars, QueueOf!vars
<1>3. Queue!Next => QueueOf!Next
  BY DEF Queue!Next, Queue!Submit, Queue!Withdraw, Queue!Take, Queue!PutBack,
         Queue!Drop, Queue!Begin, Queue!Close, Queue!Move, Queue!Held,
         QueueOf!Next, QueueOf!Submit, QueueOf!Withdraw, QueueOf!Take, QueueOf!PutBack,
         QueueOf!Drop, QueueOf!Begin, QueueOf!Close, QueueOf!Move, QueueOf!Held
<1> QED BY <1>1, <1>2, <1>3

\* The order of the queue is that of the daemon: no job is begun while one that
\* came before it is still queued.
THEOREM DaemonNoOvertaking == Spec => []NoOvertaking
<1>1. Init => QueueOf!QueueInv
  BY QueueOf!QueueInit, SameQueue, QueueInitial
<1>2. QueueOf!QueueInv /\ Inv /\ StampsInOrder /\ [Next]_vars => QueueOf!QueueInv'
  BY QueueOf!QueueNext, SameQueue, QueueStep
<1>3. QueueOf!QueueInv => NoOvertaking
  BY DEF QueueOf!QueueInv, QueueOf!ServedBefore, NoOvertaking, Queue!NoOvertaking
<1> QED BY <1>1, <1>2, <1>3, Invariance, StampsInvariance, PTL DEF Spec

-----------------------------------------------------------------------------
\* The handlers.

\* A step of one client or handler, which takes the mutex only when it is free
\* and gives back only its own.
LEMMA OneHandler ==
  ASSUME TypeOK, HandlersInTurn, NEW c \in Clients, NEW v,
         conn' = [conn EXCEPT ![c] = v],
         \/ lock' = lock
         \/ lock = NoClient
         \/ lock = c,
         v.pc \in {"update", "event", "count"} => lock' = c,
         v.pc = "update" => v.req = "Cancel",
         v.resp # "none" => v.pc = "reply"
  PROVE  HandlersInTurn'
<1> SUFFICES ASSUME NEW d \in Clients
             PROVE  /\ conn'[d].pc \in {"update", "event", "count"} => lock' = d
                    /\ conn'[d].pc = "update" => conn'[d].req = "Cancel"
                    /\ conn'[d].resp # "none" => conn'[d].pc = "reply"
  BY DEF HandlersInTurn
<1>1. CASE d = c
  BY <1>1 DEF TypeOK, ControlTypeOK
<1>2. CASE d # c
  <2>1. conn'[d] = conn[d]
    BY <1>2 DEF TypeOK, ControlTypeOK
  <2>2. conn[d].pc \in {"update", "event", "count"} => lock' = d
    BY <1>2, ControlAssumption DEF HandlersInTurn, ControlAssumption
  <2> QED BY <2>1, <2>2 DEF HandlersInTurn
<1> QED BY <1>1, <1>2

\* Every step keeps the handlers in turn.
LEMMA HandlersStep ==
  ASSUME Inv, HandlersInTurn, [Next]_vars
  PROVE  HandlersInTurn'
<1>1. TypeOK
  BY DEF Inv
<1>2. CASE UNCHANGED <<conn, lock>>
  BY <1>2 DEF HandlersInTurn
<1>3. ASSUME NEW c \in Clients, Client(c) PROVE HandlersInTurn'
  <2>1. PICK req \in {"Schedule", "Cancel", "Status"}, id \in JobIds \cup {NoJob} :
          Send(c, req, id)
    BY <1>3, ControlAssumption
       DEF Client, ClientStep, RequestSchedule, RequestCancel, RequestStatus, Send,
           ControlAssumption
  <2> DEFINE v == [IdleConn EXCEPT !.pc = "connected", !.req = req, !.id = id]
  <2>2. v.pc = "connected" /\ v.resp = "none"
    BY DEF IdleConn
  <2>3. conn' = [conn EXCEPT ![c] = v] /\ lock' = lock
    BY <2>1 DEF Send
  <2> HIDE DEF v
  <2> QED BY <1>1, <2>2, <2>3, OneHandler
<1>4. ASSUME NEW c \in Clients, Accept(c) \/ Handler(c) \/ HandlerFault(c)
      PROVE  HandlersInTurn'
  <2>1. conn[c] \in Conn
    BY <1>1 DEF TypeOK, ControlTypeOK
  <2>2. ASSUME NEW v \in Conn, conn' = [conn EXCEPT ![c] = v], v.pc \in {"idle", "accepted", "reply"},
               v.resp # "none" => v.pc = "reply",
               lock' = lock \/ lock = NoClient \/ lock = c
        PROVE  HandlersInTurn'
    BY <1>1, <2>2, OneHandler
  <2>3. conn[c].pc # "reply" => conn[c].resp = "none"
    BY DEF HandlersInTurn
  <2>4. conn[c].pc \in {"update", "event", "count"} => lock = c
    BY DEF HandlersInTurn
  <2>5. CASE Accept(c)
    <3> DEFINE v == [conn[c] EXCEPT !.pc = "accepted"]
    <3>1. v \in Conn /\ v.pc = "accepted" /\ v.resp = "none"
      BY <2>1, <2>3, <2>5 DEF Accept, AcceptConn, Conn, ConnPC
    <3> HIDE DEF v
    <3> QED BY <2>2, <2>5, <3>1 DEF Accept, AcceptConn, v
  <2>6. ASSUME NEW r \in {"Scheduled", "Canceled", "Status", "Error"}, Answer(c, r),
               lock' = lock \/ lock = NoClient \/ lock = c
        PROVE  HandlersInTurn'
    <3> DEFINE v == [conn[c] EXCEPT !.pc = "reply", !.resp = r]
    <3>1. v \in Conn /\ v.pc = "reply"
      BY <2>1 DEF Conn, ConnPC
    <3>2. conn' = [conn EXCEPT ![c] = v]
      BY <2>6 DEF Answer
    <3> HIDE DEF v
    <3> QED BY <2>2, <2>6, <3>1, <3>2
  <2>7. CASE ScheduleReject(c) \/ LogEvent(c)
    BY <2>4, <2>6, <2>7 DEF ScheduleReject, LogEvent
  <2>8. CASE HandlerFault(c)
    BY <2>6, <2>8 DEF HandlerFault
  <2>9. CASE Respond(c)
    BY <2>2, <2>9, IdleIsConn DEF Respond, IdleConn
  <2>10. CASE CountRunning(c)
    <3> DEFINE v == [conn[c] EXCEPT !.pc = "reply", !.resp = "Status",
                                    !.active = count_by_state("Running")]
    <3>1. v \in Conn
      BY <1>1, <2>1, CountIsNat, StoreAssumption, ConnValues DEF TypeOK, ConnPC
    <3>2. v.pc = "reply" /\ conn' = [conn EXCEPT ![c] = v] /\ lock = c
      BY <2>1, <2>4, <2>10 DEF CountRunning, Conn
    <3> HIDE DEF v
    <3> QED BY <2>2, <3>1, <3>2
  <2>11. CASE EnqueueInsert(c)
    <3> PICK id \in JobIds : conn' = [conn EXCEPT ![c] = [@ EXCEPT !.pc = "event", !.id = id]]
      BY <2>11 DEF EnqueueInsert
    <3> DEFINE v == [conn[c] EXCEPT !.pc = "event", !.id = id]
    <3>1. v.pc = "event" /\ v.resp = "none"
      BY <2>1, <2>3, <2>11 DEF EnqueueInsert, Handling, Conn
    <3>2. conn' = [conn EXCEPT ![c] = v] /\ lock' = c /\ lock = NoClient
      BY <2>11 DEF EnqueueInsert
    <3> HIDE DEF v
    <3> QED BY <1>1, <3>1, <3>2, OneHandler
  <2>12. CASE CancelRead(c)
    <3>1. CASE set_state_allowed(conn[c].id)
      <4> DEFINE v == [conn[c] EXCEPT !.pc = "update"]
      <4>1. v.pc = "update" /\ v.resp = "none" /\ v.req = "Cancel"
        BY <2>1, <2>3, <2>12 DEF CancelRead, Handling, Conn
      <4>2. conn' = [conn EXCEPT ![c] = v] /\ lock' = c /\ lock = NoClient
        BY <2>12, <3>1 DEF CancelRead
      <4> HIDE DEF v
      <4> QED BY <1>1, <4>1, <4>2, OneHandler
    <3>2. CASE ~set_state_allowed(conn[c].id)
      BY <2>6, <2>12, <3>2 DEF CancelRead
    <3> QED BY <3>1, <3>2
  <2>13. CASE CancelWrite(c)
    <3> DEFINE v == [conn[c] EXCEPT !.pc = "event"]
    <3>1. v.pc = "event" /\ v.resp = "none"
      BY <2>1, <2>3, <2>13 DEF CancelWrite, Conn
    <3>2. conn' = [conn EXCEPT ![c] = v] /\ lock' = c /\ lock = c
      BY <2>4, <2>13 DEF CancelWrite
    <3> HIDE DEF v
    <3> QED BY <1>1, <3>1, <3>2, OneHandler
  <2>14. CASE CountQueued(c)
    <3> DEFINE v == [conn[c] EXCEPT !.pc = "count", !.queued = count_by_state("Queued")]
    <3>1. v.pc = "count" /\ v.resp = "none"
      BY <2>1, <2>3, <2>14 DEF CountQueued, Handling, Conn
    <3>2. conn' = [conn EXCEPT ![c] = v] /\ lock' = c /\ lock = NoClient
      BY <2>14 DEF CountQueued
    <3> HIDE DEF v
    <3> QED BY <1>1, <3>1, <3>2, OneHandler
  <2> QED BY <1>4, <2>5, <2>7, <2>8, <2>9, <2>10, <2>11, <2>12, <2>13, <2>14
             DEF Handler, HandlerStep
<1>5. CASE Exit \/ Crash
  BY <1>5 DEF Exit, Crash, ProcessGone, HandlersInTurn, IdleConn
<1>6. CASE UNCHANGED vars \/ Worker \/ (WorkerFault /\ UNCHANGED controlVars) \/ BindSocket
           \/ Interrupt \/ Restart
  <2>1. UNCHANGED <<conn, lock>>
    BY <1>6 DEF vars, controlVars, Worker, BindSocket, Interrupt, Restart
  <2> QED BY <1>2, <2>1
<1> QED BY <1>3, <1>4, <1>5, <1>6 DEF Next

-----------------------------------------------------------------------------
\* The rows.

\* What a step can do to the states in the table: nothing, insert a queued row,
\* or write one row, for the worker or for a cancel.
Quiet == jobs' = jobs
Inserts(c, id) == EnqueueInsert(c) /\ InsertJob(id) /\ UNCHANGED workerVars
Cancels(c) == CancelWrite(c) /\ UNCHANGED workerVars

\* The steps by what they do to the rows: nothing, an insert, a cancel, or a write of
\* the worker.
LEMMA RowSteps ==
  ASSUME [Next]_vars
  PROVE  \/ Quiet
         \/ \E c \in Clients, id \in JobIds : Inserts(c, id)
         \/ \E c \in Clients : Cancels(c)
         \/ WriteState /\ UNCHANGED controlVars
<1>1. CASE Worker
  BY <1>1 DEF Quiet, Worker, WorkerStep, DetectRuntime, OpenStore, NothingQueued, PickJob,
              CheckState, LogState, Prepare, StartBuild, EndBuild, Branch, Collect, Wake,
              storeVars
<1>2. ASSUME NEW c \in Clients, Handler(c), ~EnqueueInsert(c), ~CancelWrite(c)
      PROVE  Quiet
  BY <1>2 DEF Quiet, Handler, HandlerStep, ScheduleReject, CancelRead, LogEvent, CountQueued,
              CountRunning, Respond, storeVars
<1>3. ASSUME NEW c \in Clients, Client(c) \/ Accept(c) \/ HandlerFault(c)
      PROVE  Quiet
  BY <1>3 DEF Quiet, Client, ClientStep, RequestSchedule, RequestCancel, RequestStatus, Send,
              Accept, AcceptConn, HandlerFault, storeVars
<1>4. CASE UNCHANGED vars \/ WorkerFault \/ BindSocket \/ Interrupt \/ Exit \/ Crash
           \/ Restart
  BY <1>4 DEF Quiet, vars, storeVars, WorkerFault, BindSocket, Interrupt, Exit, Crash,
              Restart, ProcessGone
<1>5. ASSUME NEW c \in Clients, Handler(c), EnqueueInsert(c)
      PROVE  \E id \in JobIds : Inserts(c, id)
  BY <1>5 DEF Handler, EnqueueInsert, Inserts
<1>6. ASSUME NEW c \in Clients, Handler(c), CancelWrite(c) PROVE Cancels(c)
  BY <1>6 DEF Handler, Cancels
<1> QED BY <1>1, <1>2, <1>3, <1>4, <1>5, <1>6 DEF Next

\* Every step keeps what the worker has written, but for a cancel.
LEMMA OutcomeStep ==
  ASSUME Inv, OutcomeWritten, [Next]_vars
  PROVE  OutcomeWritten'
<1>1. Inv'
  BY NextInv, StoreAssumption, RuntimeExitsAssumption, ControlAssumption
<1>2. CASE WriteState
  <2>1. wjob \in DOMAIN jobs /\ wnext \in JobState /\ wjob' = wjob /\ wnext' = wnext
    BY <1>2 DEF WriteState, localVars, Inv, TypeOK, WorkerTypeOK, WorkerInv, HasJob, Marked
  <2>2. StateOf(wjob)' = wnext
    BY <1>2, <2>1, UpdateEffect DEF WriteState, Inv, TypeOK, StateOf
  <2> QED BY <2>1, <2>2 DEF OutcomeWritten
<1>3. CASE WorkerStep /\ ~WriteState
  BY <1>3 DEF WorkerStep, DetectRuntime, OpenStore, NothingQueued, PickJob, CheckState,
              LogState, AfterSetState, Prepare, StartBuild, EndBuild, Branch, Collect, Wake,
              BeginSetState, Fail, Forget, storeVars, localVars, Inv, WorkerInv, HasJob,
              AtItsPlace, NextStates, OutcomeWritten, Working, StateOf, is_terminal
<1>4. ASSUME wpc' \in {"exit", "down"} \/ (UNCHANGED workerVars /\ Quiet)
      PROVE  OutcomeWritten'
  BY <1>4 DEF workerVars, Quiet, OutcomeWritten, Working, StateOf
<1>5. ASSUME NEW c \in Clients, NEW id \in JobIds, Inserts(c, id) PROVE OutcomeWritten'
  BY <1>5 DEF Inserts, InsertJob, InsertAt, workerVars, OutcomeWritten, Working, StateOf, Inv, WorkerInv,
              Marked
<1>6. ASSUME NEW c \in Clients, Cancels(c) PROVE OutcomeWritten'
  <2>1. "Canceling" \in JobState
    BY DEF JobState
  <2>2. \A k \in DOMAIN jobs : StateOf(k)' \in {StateOf(k), "Canceling"}
    BY <1>6, <2>1, UpdateEffect DEF Cancels, CancelWrite, Inv, TypeOK, StateOf
  <2> QED BY <1>6, <2>2 DEF Cancels, workerVars, OutcomeWritten, Working, Inv, WorkerInv, Marked
<1>7. CASE WorkerFault \/ Interrupt \/ Exit \/ Crash
  BY <1>4, <1>7 DEF WorkerFault, Interrupt, Exit, Crash, ProcessGone, Fail
<1>8. CASE UNCHANGED vars \/ BindSocket \/ Restart
  BY <1>8 DEF vars, workerVars, storeVars, BindSocket, Restart, OutcomeWritten, Working,
              StateOf
<1>9. ASSUME NEW c \in Clients,
             Client(c) \/ Accept(c) \/ Handler(c) \/ (HandlerFault(c) /\ UNCHANGED workerVars)
      PROVE  UNCHANGED workerVars
  BY <1>9 DEF Client, Accept, Handler
<1>10. CASE WorkerStep \/ ~WriteState
  BY <1>2, <1>3, <1>4, <1>5, <1>6, <1>7, <1>8, <1>9, <1>10, RowSteps DEF Next, Worker
<1> QED BY <1>2, <1>10

-----------------------------------------------------------------------------
\* The events.

\* An event that is recorded stays recorded, and the new one is there.
LEMMA RecordKeeps ==
  ASSUME StoreTypeOK, NEW id, NEW text \in StateText, record_event(id, text), jobs' = jobs,
         DOMAIN jobs \subseteq JobIds
  PROVE  \A k \in DOMAIN jobs :
           /\ Recorded(k) => Recorded(k)'
           /\ k = id /\ jobs[k].state = text => Recorded(k)'
<1> SUFFICES ASSUME NEW k \in DOMAIN jobs
             PROVE  /\ Recorded(k) => Recorded(k)'
                    /\ k = id /\ jobs[k].state = text => Recorded(k)'
  OBVIOUS
<1>1. events[k] \in Seq(StateText) /\ k \in JobIds
  BY DEF StoreTypeOK
<1>2. CASE k # id
  <2>1. events'[k] = events[k]
    BY <1>1, <1>2 DEF record_event, StoreTypeOK
  <2> QED BY <1>2, <2>1 DEF Recorded
<1>3. CASE k = id
  <2>1. events'[k] = Append(events[k], text)
    BY <1>1, <1>3 DEF record_event, StoreTypeOK
  <2>2. /\ \A i \in DOMAIN events[k] : i \in DOMAIN events'[k] /\ events'[k][i] = events[k][i]
        /\ Len(events[k]) + 1 \in DOMAIN events'[k]
        /\ events'[k][Len(events[k]) + 1] = text
    BY <1>1, <2>1
  <2> QED BY <2>2 DEF Recorded
<1> QED BY <1>2, <1>3

\* A step that writes nothing, and in which neither the worker nor a handler
\* leaves the place before its event, keeps the states recorded.
LEMMA RecordsFrame ==
  ASSUME LastWriterRecords, UNCHANGED <<jobs, events>>, faults' = 0 => faults = 0,
         wpc = "event" => UNCHANGED <<wpc, wjob, wnext>>,
         \A c \in Clients : conn[c].pc = "event" => conn'[c] = conn[c]
  PROVE  LastWriterRecords'
<1> SUFFICES ASSUME faults' = 0, NEW id \in DOMAIN jobs
             PROVE  (Recorded(id) \/ WorkerRecords(id) \/ \E c \in Clients : HandlerRecords(c, id))'
  BY DEF LastWriterRecords
<1>1. Recorded(id) => Recorded(id)'
  BY DEF Recorded
<1>2. WorkerRecords(id) => WorkerRecords(id)'
  BY DEF WorkerRecords
<1>3. \A c \in Clients : HandlerRecords(c, id) => HandlerRecords(c, id)'
  BY DEF HandlerRecords, EventOf
<1> QED BY <1>1, <1>2, <1>3 DEF LastWriterRecords

\* Every step keeps the states recorded, but for those with a fault.
LEMMA RecordsStep ==
  ASSUME Inv, HandlersInTurn, LastWriterRecords, [Next]_vars
  PROVE  LastWriterRecords'
<1>1. TypeOK /\ StoreTypeOK /\ WorkerTypeOK /\ ControlTypeOK /\ DOMAIN jobs \subseteq JobIds
  BY DEF Inv, TypeOK, StoreTypeOK
<1>2. ASSUME Fault PROVE LastWriterRecords'
  BY <1>1, <1>2 DEF Fault, StoreTypeOK, LastWriterRecords
<1>3. CASE WriteState /\ UNCHANGED controlVars
  <2>1. \A id \in DOMAIN jobs :
          jobs'[id] = IF id = wjob THEN [state |-> state_name[wnext], updated_at |-> clock]
                                   ELSE jobs[id]
    BY <1>3 DEF WriteState, UpdateState
  <2>2. DOMAIN jobs' = DOMAIN jobs /\ faults' = faults /\ events' = events /\ conn' = conn
        /\ wpc = "update" /\ wpc' = "event" /\ wjob' = wjob /\ wnext' = wnext
    BY <1>3 DEF WriteState, UpdateState, localVars, controlVars
  <2>3. ASSUME NEW id \in DOMAIN jobs, id = wjob PROVE WorkerRecords(id)'
    BY <2>1, <2>2, <2>3 DEF WorkerRecords
  <2>4. ASSUME NEW id \in DOMAIN jobs, id # wjob
        PROVE  /\ Recorded(id) => Recorded(id)'
               /\ ~WorkerRecords(id)
               /\ \A c \in Clients : HandlerRecords(c, id) => HandlerRecords(c, id)'
    BY <2>1, <2>2, <2>4 DEF Recorded, WorkerRecords, HandlerRecords, EventOf
  <2> QED BY <2>2, <2>3, <2>4 DEF LastWriterRecords
<1>4. CASE LogState /\ UNCHANGED controlVars
  <2>1. state_name[wnext] \in StateText
    BY <1>1, ParseName DEF WorkerTypeOK
  <2>2. \A id \in DOMAIN jobs : /\ Recorded(id) => Recorded(id)'
                                /\ WorkerRecords(id) => Recorded(id)'
    BY <1>1, <1>4, <2>1, RecordKeeps DEF LogState, WorkerRecords
  <2>3. \A id \in DOMAIN jobs, c \in Clients : HandlerRecords(c, id) => HandlerRecords(c, id)'
    BY <1>4 DEF LogState, controlVars, HandlerRecords, EventOf
  <2> QED BY <1>4, <2>2, <2>3 DEF LogState, LastWriterRecords
<1>5. CASE WorkerStep /\ ~WriteState /\ ~LogState /\ UNCHANGED controlVars
  <2>1. UNCHANGED <<jobs, events, faults, conn>> /\ wpc # "event"
    BY <1>5 DEF WorkerStep, DetectRuntime, OpenStore, NothingQueued, PickJob, CheckState,
                Prepare, StartBuild, EndBuild, Branch, Collect, Wake, storeVars, controlVars
  <2> QED BY <2>1, RecordsFrame
<1>6. ASSUME NEW c \in Clients, Client(c) \/ Accept(c) \/ Handler(c),
             conn[c].pc # "event", UNCHANGED <<jobs, events, faults>>
      PROVE  LastWriterRecords'
  <2>1. UNCHANGED workerVars
    BY <1>6 DEF Client, Accept, Handler
  <2>2. \A d \in Clients : d # c => conn'[d] = conn[d]
    BY <1>1, <1>6
       DEF Client, ClientStep, RequestSchedule, RequestCancel, RequestStatus, Send, Accept,
           AcceptConn, Handler, HandlerStep, ScheduleReject, EnqueueInsert, CancelRead,
           CancelWrite, LogEvent, CountQueued, CountRunning, Respond, Answer, ControlTypeOK
  <2> QED BY <1>6, <2>1, <2>2, RecordsFrame DEF workerVars
<1>7. ASSUME NEW c \in Clients, NEW id \in JobIds, InsertJob(id), UNCHANGED workerVars,
             EnqueueInsert(c),
             conn' = [conn EXCEPT ![c] = [@ EXCEPT !.pc = "event", !.id = id]]
      PROVE  LastWriterRecords'
  <2>1. DOMAIN jobs' = DOMAIN jobs \cup {id} /\ jobs'[id].state = "queued"
        /\ \A k \in DOMAIN jobs : jobs'[k] = jobs[k]
    BY <1>7 DEF InsertJob, InsertAt, state_name
  <2>2. events' = events /\ faults' = faults
    BY <1>7 DEF EnqueueInsert
  <2>3. conn[c] \in Conn /\ conn[c].pc = "accepted" /\ conn[c].req = "Schedule"
    BY <1>1, <1>7 DEF EnqueueInsert, Handling, ControlTypeOK
  <2>4. conn'[c].pc = "event" /\ conn'[c].id = id /\ conn'[c].req = "Schedule"
    BY <1>1, <1>7, <2>3 DEF ControlTypeOK, Conn
  <2>5. HandlerRecords(c, id)'
    BY <2>1, <2>4 DEF HandlerRecords, EventOf
  <2>6. \A d \in Clients : d # c => conn'[d] = conn[d]
    BY <1>1, <1>7 DEF ControlTypeOK
  <2>7. ASSUME NEW k \in DOMAIN jobs, k # id
        PROVE  /\ Recorded(k) => Recorded(k)'
               /\ WorkerRecords(k) => WorkerRecords(k)'
               /\ \A d \in Clients : HandlerRecords(d, k) => HandlerRecords(d, k)'
    BY <1>7, <2>1, <2>2, <2>3, <2>6, <2>7
       DEF workerVars, Recorded, WorkerRecords, HandlerRecords, EventOf
  <2> QED BY <2>1, <2>2, <2>5, <2>7 DEF LastWriterRecords
<1>8. ASSUME NEW c \in Clients, CancelWrite(c), UNCHANGED workerVars
      PROVE  LastWriterRecords'
  <2> DEFINE id == conn[c].id
  <2>1. DOMAIN jobs' = DOMAIN jobs
        /\ (id \in DOMAIN jobs => jobs'[id].state = state_name["Canceling"])
        /\ \A k \in DOMAIN jobs : k # id => jobs'[k] = jobs[k]
    BY <1>8 DEF CancelWrite, UpdateState
  <2>2. events' = events /\ faults' = faults /\ conn[c].pc = "update"
    BY <1>8 DEF CancelWrite
  <2>3. conn[c] \in Conn /\ conn[c].req = "Cancel"
    BY <1>1, <2>2 DEF ControlTypeOK, HandlersInTurn
  <2>4. conn'[c].pc = "event" /\ conn'[c].id = id /\ conn'[c].req = "Cancel"
    BY <1>1, <1>8, <2>3 DEF CancelWrite, ControlTypeOK, Conn
  <2>5. \A k \in DOMAIN jobs : k = id => HandlerRecords(c, k)'
    BY <2>1, <2>4 DEF HandlerRecords, EventOf
  <2>6. \A d \in Clients : d # c => conn'[d] = conn[d]
    BY <1>1, <1>8 DEF CancelWrite, ControlTypeOK
  <2>7. ASSUME NEW k \in DOMAIN jobs, k # id
        PROVE  /\ Recorded(k) => Recorded(k)'
               /\ WorkerRecords(k) => WorkerRecords(k)'
               /\ \A d \in Clients : HandlerRecords(d, k) => HandlerRecords(d, k)'
    BY <1>8, <2>1, <2>2, <2>6, <2>7
       DEF workerVars, Recorded, WorkerRecords, HandlerRecords, EventOf
  <2> QED BY <2>1, <2>2, <2>5, <2>7 DEF LastWriterRecords
<1>9. ASSUME NEW c \in Clients, LogEvent(c), UNCHANGED workerVars
      PROVE  LastWriterRecords'
  <2>1. EventOf(c) \in StateText /\ record_event(conn[c].id, EventOf(c))
    BY <1>9 DEF LogEvent, EventOf, StateText, parse_state, state_name
  <2>2. jobs' = jobs /\ faults' = faults
    BY <1>9 DEF LogEvent
  <2>3. \A k \in DOMAIN jobs : /\ Recorded(k) => Recorded(k)'
                               /\ HandlerRecords(c, k) => Recorded(k)'
    BY <1>1, <2>1, <2>2, RecordKeeps DEF HandlerRecords
  <2>4. \A d \in Clients : d # c => conn'[d] = conn[d]
    BY <1>1, <1>9 DEF LogEvent, Answer, ControlTypeOK
  <2>5. \A k \in DOMAIN jobs :
          /\ WorkerRecords(k) => WorkerRecords(k)'
          /\ \A d \in Clients : d # c /\ HandlerRecords(d, k) => HandlerRecords(d, k)'
    BY <1>9, <2>2, <2>4 DEF workerVars, WorkerRecords, HandlerRecords, EventOf
  <2> QED BY <2>2, <2>3, <2>5 DEF LastWriterRecords
<1>10. ASSUME NEW c \in Clients, Handler(c) PROVE LastWriterRecords'
  <2>1. UNCHANGED workerVars
    BY <1>10 DEF Handler
  <2>2. CASE EnqueueInsert(c)
    BY <1>7, <2>1, <2>2 DEF EnqueueInsert
  <2>3. CASE CancelWrite(c) \/ LogEvent(c)
    BY <1>8, <1>9, <2>1, <2>3
  <2>4. CASE ScheduleReject(c) \/ CancelRead(c) \/ CountQueued(c) \/ CountRunning(c)
             \/ Respond(c)
    <3>1. UNCHANGED <<jobs, events, faults>> /\ conn[c].pc # "event"
      BY <2>4 DEF ScheduleReject, CancelRead, CountQueued, CountRunning, Respond, Handling,
                  storeVars
    <3> QED BY <1>6, <1>10, <3>1
  <2> QED BY <1>10, <2>2, <2>3, <2>4 DEF Handler, HandlerStep
<1>11. ASSUME NEW c \in Clients, Client(c) \/ Accept(c) PROVE LastWriterRecords'
  <2>1. UNCHANGED <<jobs, events, faults>> /\ conn[c].pc # "event"
    BY <1>11 DEF Client, ClientStep, RequestSchedule, RequestCancel, RequestStatus, Send,
                 Accept, AcceptConn, storeVars
  <2> QED BY <1>6, <1>11, <2>1
<1>12. CASE Exit
  <2>1. \A c \in Clients : conn[c].pc # "event"
    BY <1>12, ControlAssumption DEF Exit, HandlersInTurn, ControlAssumption
  <2> QED BY <1>12, <2>1, RecordsFrame DEF Exit, ProcessGone
<1>13. CASE UNCHANGED vars \/ BindSocket \/ Restart
  BY <1>13, RecordsFrame DEF vars, storeVars, workerVars, controlVars, BindSocket, Restart,
                             localVars
<1>14. CASE WorkerFault \/ Interrupt \/ Crash \/ \E c \in Clients : HandlerFault(c)
  BY <1>2, <1>14 DEF WorkerFault, Interrupt, Crash, HandlerFault
<1> QED BY <1>3, <1>4, <1>5, <1>10, <1>11, <1>12, <1>13, <1>14 DEF Next, Worker

-----------------------------------------------------------------------------
\* The two counts of Status.

\* The queued and the running rows are different rows of a finite table.
LEMMA CountFacts ==
  ASSUME StoreTypeOK
  PROVE  /\ IsFiniteSet(DOMAIN jobs) /\ Cardinality(DOMAIN jobs) \in Nat
         /\ IsFiniteSet(RunningJobs) /\ Cardinality(RunningJobs) \in Nat
         /\ count_by_state("Running") = Cardinality(RunningJobs)
         /\ count_by_state("Queued") + Cardinality(RunningJobs) <= Cardinality(DOMAIN jobs)
<1> DEFINE Q == {id \in DOMAIN jobs : jobs[id].state = state_name["Queued"]}
<1>1. IsFiniteSet(DOMAIN jobs) /\ Cardinality(DOMAIN jobs) \in Nat
  BY StoreAssumption, FS_Subset, FS_CardinalityType DEF StoreAssumption, StoreTypeOK
<1>2. /\ IsFiniteSet(RunningJobs) /\ Cardinality(RunningJobs) \in Nat
      /\ IsFiniteSet(Q) /\ Cardinality(Q) \in Nat
  BY <1>1, FS_Subset, FS_CardinalityType DEF RunningJobs
<1>3. \A id \in DOMAIN jobs : jobs[id].state \in StateText
  BY DEF StoreTypeOK, Row
<1>4. \A id \in DOMAIN jobs : StateOf(id) = "Running" <=> jobs[id].state = "running"
  BY <1>3 DEF StateOf, StateText, parse_state
<1>5. RunningJobs = {id \in DOMAIN jobs : jobs[id].state = state_name["Running"]}
  BY <1>4 DEF RunningJobs, state_name
<1>6. Q \cap RunningJobs = {} /\ Q \cup RunningJobs \in SUBSET (DOMAIN jobs)
  BY <1>5 DEF state_name, RunningJobs
<1>7. Cardinality(Q \cup RunningJobs) = Cardinality(Q) + Cardinality(RunningJobs)
  <2>1. Cardinality(Q \cap RunningJobs) = 0
    BY <1>6, FS_EmptySet
  <2>2. Cardinality(Q \cup RunningJobs)
          = Cardinality(Q) + Cardinality(RunningJobs) - Cardinality(Q \cap RunningJobs)
    BY <1>2, FS_Union
  <2> QED BY <1>2, <2>1, <2>2
<1>8. Cardinality(Q \cup RunningJobs) <= Cardinality(DOMAIN jobs)
  BY <1>1, <1>6, FS_Subset
<1> QED BY <1>1, <1>2, <1>5, <1>7, <1>8 DEF count_by_state

\* A handler comes between its two counts, and to a Status answer, only by the
\* two statements that count.
LEMMA ConnSteps ==
  ASSUME Inv, HandlersInTurn, [Next]_vars, NEW c \in Clients
  PROVE  \/ conn'[c] = conn[c]
         \/ conn'[c].pc # "count" /\ conn'[c].resp # "Status"
         \/ (CountQueued(c) \/ CountRunning(c)) /\ UNCHANGED workerVars
<1>1. conn \in [Clients -> Conn] /\ conn[c] \in Conn
  BY DEF Inv, TypeOK, ControlTypeOK
<1>2. conn[c].pc # "reply" => conn[c].resp = "none"
  BY DEF HandlersInTurn
<1>3. ASSUME NEW d \in Clients, d # c, Client(d) \/ Accept(d) \/ Handler(d) \/ HandlerFault(d)
      PROVE  conn'[c] = conn[c]
  BY <1>1, <1>3
     DEF Client, ClientStep, RequestSchedule, RequestCancel, RequestStatus, Send, Accept,
         AcceptConn, Handler, HandlerStep, ScheduleReject, EnqueueInsert, CancelRead,
         CancelWrite, LogEvent, CountQueued, CountRunning, Respond, Answer, HandlerFault
<1>4. CASE Client(c) \/ Accept(c)
  <2>1. ASSUME NEW req, NEW id, Send(c, req, id)
        PROVE  conn'[c].pc # "count" /\ conn'[c].resp # "Status"
    <3>1. conn'[c] = [IdleConn EXCEPT !.pc = "connected", !.req = req, !.id = id]
      BY <1>1, <2>1 DEF Send
    <3> QED BY <3>1 DEF IdleConn
  <2>2. Accept(c) => conn'[c] = [conn[c] EXCEPT !.pc = "accepted"] /\ conn[c].pc # "reply"
    BY <1>1 DEF Accept, AcceptConn
  <2>3. Accept(c) => conn'[c].pc # "count" /\ conn'[c].resp # "Status"
    BY <1>1, <1>2, <2>2 DEF Conn
  <2> QED BY <1>4, <2>1, <2>3
             DEF Client, ClientStep, RequestSchedule, RequestCancel, RequestStatus
<1>5. CASE ScheduleReject(c) \/ LogEvent(c) \/ HandlerFault(c) \/ Respond(c)
  <2>1. ASSUME NEW r, r # "Status", Answer(c, r)
        PROVE  conn'[c].pc # "count" /\ conn'[c].resp # "Status"
    <3>1. conn'[c] = [conn[c] EXCEPT !.pc = "reply", !.resp = r]
      BY <1>1, <2>1 DEF Answer
    <3> QED BY <1>1, <2>1, <3>1 DEF Conn
  <2>2. CASE Respond(c)
    BY <1>1, <2>2 DEF Respond, IdleConn
  <2> QED BY <1>5, <2>1, <2>2 DEF ScheduleReject, LogEvent, HandlerFault
<1>6. CASE EnqueueInsert(c) \/ CancelRead(c) \/ CancelWrite(c)
  <2>1. CASE EnqueueInsert(c)
    <3>1. PICK id : conn'[c] = [conn[c] EXCEPT !.pc = "event", !.id = id]
      BY <1>1, <2>1 DEF EnqueueInsert
    <3>2. conn'[c].pc = "event"
      BY <1>1, <3>1 DEF Conn
    <3>3. conn'[c].resp = conn[c].resp
      BY <1>1, <3>1 DEF Conn
    <3>4. conn[c].resp = "none"
      BY <1>2, <2>1 DEF EnqueueInsert, Handling
    <3> QED BY <3>2, <3>3, <3>4
  <2>2. CASE CancelRead(c)
    <3>1. \/ conn'[c] = [conn[c] EXCEPT !.pc = "update"]
          \/ conn'[c] = [conn[c] EXCEPT !.pc = "reply", !.resp = "Error"]
      BY <1>1, <2>2 DEF CancelRead, Answer
    <3>2. conn[c].resp = "none"
      BY <1>2, <2>2 DEF CancelRead, Handling
    <3> QED BY <1>1, <3>1, <3>2 DEF Conn
  <2>3. CASE CancelWrite(c)
    <3>1. conn'[c] = [conn[c] EXCEPT !.pc = "event"] /\ conn[c].pc = "update"
      BY <1>1, <2>3 DEF CancelWrite
    <3> QED BY <1>1, <1>2, <3>1 DEF Conn
  <2> QED BY <1>6, <2>1, <2>2, <2>3
<1>7. CASE Exit \/ Crash
  BY <1>7 DEF Exit, Crash, ProcessGone, IdleConn
<1>8. CASE UNCHANGED vars \/ Worker \/ (WorkerFault /\ UNCHANGED controlVars) \/ BindSocket
           \/ Interrupt \/ Restart
  BY <1>8 DEF vars, controlVars, Worker, BindSocket, Interrupt, Restart
<1> QED BY <1>3, <1>4, <1>5, <1>6, <1>7, <1>8 DEF Next, Handler, HandlerStep

\* What the worker does to the row of its job, it does to what is counted twice.
LEMMA TwiceFollows ==
  ASSUME Inv, WriteState
  PROVE  /\ DOMAIN jobs' = DOMAIN jobs
         /\ Cardinality(RunningJobs') - Cardinality(RunningJobs) = Twice' - Twice
<1>1. /\ TypeOK /\ StoreTypeOK /\ wnext \in JobState /\ wjob \in DOMAIN jobs /\ Working
      /\ wpc = "update" /\ wpc' = "event" /\ wjob' = wjob
  BY DEF Inv, TypeOK, WorkerTypeOK, WriteState, localVars, WorkerInv, HasJob, Marked
<1>2. /\ DOMAIN jobs' = DOMAIN jobs
      /\ \A k \in DOMAIN jobs : StateOf(k)' = IF k = wjob THEN wnext ELSE StateOf(k)
  BY <1>1, UpdateEffect DEF WriteState, StateOf
<1>3. IsFiniteSet(RunningJobs) /\ Cardinality(RunningJobs) \in Nat
  BY <1>1, CountFacts
<1>4. /\ Twice = IF wjob \in RunningJobs THEN 1 ELSE 0
      /\ Twice' = IF wjob \in RunningJobs' THEN 1 ELSE 0
  BY <1>1 DEF Twice, Working
<1>5. CASE wnext = "Running"
  <2>1. RunningJobs' = RunningJobs \cup {wjob}
    BY <1>1, <1>2, <1>5 DEF RunningJobs, StateOf
  <2>2. Cardinality(RunningJobs \cup {wjob})
          = IF wjob \in RunningJobs THEN Cardinality(RunningJobs)
                                    ELSE Cardinality(RunningJobs) + 1
    BY <1>3, FS_AddElement
  <2> QED BY <1>2, <1>3, <1>4, <2>1, <2>2
<1>6. CASE wnext # "Running"
  <2>1. RunningJobs' = RunningJobs \ {wjob}
    BY <1>1, <1>2, <1>6 DEF RunningJobs, StateOf
  <2>2. Cardinality(RunningJobs \ {wjob})
          = IF wjob \in RunningJobs THEN Cardinality(RunningJobs) - 1
                                    ELSE Cardinality(RunningJobs)
    BY <1>3, FS_RemoveElement
  <2> QED BY <1>2, <1>3, <1>4, <2>1, <2>2
<1> QED BY <1>5, <1>6

\* The worker lets go of a running job only by an error.
LEMMA TwiceStays ==
  ASSUME Inv, OutcomeWritten, UNCHANGED jobs,
         \/ WorkerStep
         \/ WorkerFault \/ Interrupt
         \/ UNCHANGED workerVars
         \/ Restart
  PROVE  Twice <= Twice'
<1>1. RunningJobs' = RunningJobs
  BY DEF RunningJobs, StateOf
<1>2. CASE wpc' = "exit"
  BY <1>2 DEF Twice
<1>3. CASE UNCHANGED <<wpc, wjob>>
  BY <1>1, <1>3 DEF Twice, Working
<1>4. CASE Wake
  <2>1. wpc = "sleep" /\ (Working => is_terminal(wnext))
    BY <1>4 DEF Wake, Inv, WorkerInv, AtItsPlace
  <2>2. Working => wjob \notin RunningJobs
    BY <2>1 DEF OutcomeWritten, RunningJobs, is_terminal
  <2>3. Twice = 0
    BY <2>1, <2>2 DEF Twice
  <2> QED BY <2>3 DEF Twice
<1>5. CASE wpc \in {"down", "start", "open", "select"}
  <2>1. Twice = 0
    BY <1>5 DEF Twice, Inv, WorkerInv, HasJob
  <2> QED BY <2>1 DEF Twice
<1>6. CASE wpc # "exit" /\ wpc' # "exit" /\ wjob' = wjob
  BY <1>1, <1>6 DEF Twice, Working
<1>7. CASE WorkerStep
  BY <1>2, <1>4, <1>5, <1>6, <1>7
     DEF WorkerStep, DetectRuntime, OpenStore, NothingQueued, PickJob, CheckState, WriteState,
         LogState, Prepare, StartBuild, EndBuild, Branch, Collect, BeginSetState, Fail,
         localVars
<1> QED BY <1>2, <1>3, <1>5, <1>7 DEF WorkerFault, Interrupt, Fail, Restart, workerVars

\* Every step keeps the count of the handler that is between the two.
LEMMA CountedStep ==
  ASSUME Inv, HandlersInTurn, OutcomeWritten, CountedOnce, [Next]_vars
  PROVE  CountedOnce'
<1> SUFFICES ASSUME NEW c \in Clients, conn'[c].pc = "count"
             PROVE  (conn[c].queued + Cardinality(RunningJobs)
                       <= Cardinality(DOMAIN jobs) + Twice)'
  BY DEF CountedOnce
<1>1. StoreTypeOK /\ conn[c] \in Conn /\ conn[c].queued \in Nat
  BY DEF Inv, TypeOK, ControlTypeOK, Conn
<1>2. Twice \in {0, 1} /\ Twice' \in {0, 1}
  BY DEF Twice
<1>3. Cardinality(RunningJobs) \in Nat /\ Cardinality(DOMAIN jobs) \in Nat
  BY <1>1, CountFacts
<1>4. CASE CountQueued(c)
  <2>1. conn'[c].queued = count_by_state("Queued") /\ jobs' = jobs
    BY <1>1, <1>4 DEF CountQueued, storeVars, Inv, TypeOK, ControlTypeOK, Conn
  <2>2. conn'[c].queued + Cardinality(RunningJobs) <= Cardinality(DOMAIN jobs)
    BY <1>1, <2>1, CountFacts
  <2>3. RunningJobs' = RunningJobs
    BY <2>1 DEF RunningJobs, StateOf
  <2>4. conn'[c].queued \in Nat
    BY <1>1, <2>1, CountIsNat, StoreAssumption
  <2> QED BY <1>2, <1>3, <2>1, <2>2, <2>3, <2>4
<1>5. CASE conn'[c] = conn[c]
  <2>1. lock = c /\ conn[c].queued + Cardinality(RunningJobs) <= Cardinality(DOMAIN jobs) + Twice
    BY <1>5 DEF HandlersInTurn, CountedOnce
  <2>2. CASE jobs' = jobs /\ Twice <= Twice'
    <3>1. RunningJobs' = RunningJobs
      BY <2>2 DEF RunningJobs, StateOf
    <3> QED BY <1>1, <1>2, <1>3, <1>5, <2>1, <2>2, <3>1
  <2>3. CASE WriteState
    <3>1. /\ DOMAIN jobs' = DOMAIN jobs
          /\ Cardinality(RunningJobs') - Cardinality(RunningJobs) = Twice' - Twice
      BY <2>3, TwiceFollows
    <3>2. Cardinality(RunningJobs') \in Nat
      <4>1. RunningJobs' \in SUBSET (DOMAIN jobs)
        BY <3>1 DEF RunningJobs
      <4>2. IsFiniteSet(DOMAIN jobs)
        BY <1>1, CountFacts
      <4> QED BY <4>1, <4>2, FS_Subset, FS_CardinalityType
    <3>3. conn[c].queued + Cardinality(RunningJobs') <= Cardinality(DOMAIN jobs) + Twice'
      BY <1>1, <1>2, <1>3, <2>1, <3>1, <3>2
    <3> QED BY <1>5, <3>1, <3>3
  <2>4. ASSUME NEW d \in Clients, NEW id \in JobIds, Inserts(d, id) PROVE FALSE
    BY <2>1, <2>4, ControlAssumption DEF Inserts, EnqueueInsert, ControlAssumption
  <2>5. ASSUME NEW d \in Clients, Cancels(d) PROVE FALSE
    <3>1. conn[d].pc = "update" /\ lock = d
      BY <2>5 DEF Cancels, CancelWrite, HandlersInTurn
    <3> QED BY <1>5, <2>1, <3>1
  <2>6. ~Exit /\ ~Crash
    BY DEF Exit, Crash, ProcessGone, IdleConn
  <2>7. \/ WorkerStep \/ WorkerFault \/ Interrupt \/ UNCHANGED workerVars \/ Restart
    BY <2>6 DEF Next, Worker, Client, Accept, Handler, BindSocket, vars
  <2> QED BY <2>2, <2>3, <2>4, <2>5, <2>7, RowSteps, TwiceStays DEF Quiet
<1>6. ~CountRunning(c)
  BY <1>1 DEF CountRunning, Inv, TypeOK, ControlTypeOK, Conn
<1> QED BY <1>4, <1>5, <1>6, ConnSteps

\* The table never shrinks.
LEMMA RowsStay ==
  ASSUME Inv, [Next]_vars
  PROVE  DOMAIN jobs \subseteq DOMAIN jobs'
<1>1. ASSUME NEW c \in Clients, NEW id \in JobIds, Inserts(c, id)
      PROVE  DOMAIN jobs \subseteq DOMAIN jobs'
  BY <1>1 DEF Inserts, InsertJob, InsertAt
<1>2. ASSUME NEW c \in Clients, Cancels(c) PROVE DOMAIN jobs \subseteq DOMAIN jobs'
  BY <1>2 DEF Cancels, CancelWrite, UpdateState
<1>3. CASE WriteState
  BY <1>3 DEF WriteState, UpdateState
<1> QED BY <1>1, <1>2, <1>3, RowSteps DEF Quiet

\* Every step keeps the answers within one of the number of jobs.
LEMMA StatusStep ==
  ASSUME Inv, HandlersInTurn, CountedOnce, StatusOvercountsByOne, [Next]_vars
  PROVE  StatusOvercountsByOne'
<1> SUFFICES ASSUME NEW c \in Clients, conn'[c].resp = "Status"
             PROVE  conn'[c].queued + conn'[c].active <= Cardinality(DOMAIN jobs') + 1
  BY DEF StatusOvercountsByOne
<1>1. StoreTypeOK /\ conn \in [Clients -> Conn] /\ conn[c] \in Conn
      /\ conn[c].queued \in Nat /\ conn[c].active \in Nat
  BY DEF Inv, TypeOK, ControlTypeOK, Conn
<1>2. Cardinality(DOMAIN jobs) \in Nat /\ Cardinality(RunningJobs) \in Nat
  BY <1>1, CountFacts
<1>3. CASE conn'[c] = conn[c]
  <2>1. conn[c].queued + conn[c].active <= Cardinality(DOMAIN jobs) + 1
    BY <1>3 DEF StatusOvercountsByOne
  <2>2. IsFiniteSet(DOMAIN jobs')
    BY NextInv, CountFacts, StoreAssumption, RuntimeExitsAssumption, ControlAssumption,
       FS_Subset DEF Inv, TypeOK, StoreTypeOK, StoreAssumption
  <2>3. Cardinality(DOMAIN jobs) <= Cardinality(DOMAIN jobs')
        /\ Cardinality(DOMAIN jobs') \in Nat
    BY <2>2, RowsStay, FS_Subset, FS_CardinalityType
  <2> QED BY <1>1, <1>2, <1>3, <2>1, <2>3
<1>4. CASE CountRunning(c)
  <2>1. conn[c].queued + Cardinality(RunningJobs) <= Cardinality(DOMAIN jobs) + 1
    <3>1. Twice \in {0, 1} /\ conn[c].pc = "count"
      BY <1>4 DEF Twice, CountRunning
    <3> QED BY <1>1, <1>2, <3>1 DEF CountedOnce
  <2>2. conn'[c] = [conn[c] EXCEPT !.pc = "reply", !.resp = "Status",
                                   !.active = count_by_state("Running")] /\ jobs' = jobs
    BY <1>1, <1>4 DEF CountRunning, storeVars
  <2>3. conn'[c].queued = conn[c].queued /\ conn'[c].active = Cardinality(RunningJobs)
    BY <1>1, <2>2, CountFacts DEF Conn
  <2> QED BY <2>1, <2>2, <2>3
<1>5. CASE CountQueued(c)
  <2>1. conn'[c].resp = conn[c].resp /\ conn[c].resp = "none"
    BY <1>1, <1>5 DEF CountQueued, Handling, Conn, HandlersInTurn
  <2> QED BY <2>1
<1> QED BY <1>3, <1>4, <1>5, ConnSteps

-----------------------------------------------------------------------------
\* The theorems.

\* The initial states satisfy the invariant.
LEMMA AnswersInit ==
  ASSUME Init
  PROVE  AnswersInv
  BY DEF Init, StoreInit, WorkerInit, ControlInit, IdleConn, AnswersInv, HandlersInTurn,
         OutcomeWritten, Working, LastWriterRecords, CountedOnce, StatusOvercountsByOne

\* Handlers take turns, the worker's outcome is in the row, and who has written a
\* row last records it, in every reachable state.
THEOREM AnswersInvariance == Spec => []AnswersInv
<1>1. Init => AnswersInv
  BY AnswersInit
<1>2. Inv /\ AnswersInv /\ [Next]_vars => AnswersInv'
  BY HandlersStep, OutcomeStep, RecordsStep, CountedStep, StatusStep DEF AnswersInv
<1> QED BY <1>1, <1>2, Invariance, PTL DEF Spec

\* When nothing has failed and nobody is between the UPDATE of a row and its event,
\* the state in the row is among the job's events.
THEOREM DaemonStateIsRecorded == Spec => []StateIsRecorded
<1>1. AnswersInv => StateIsRecorded
  BY DEF AnswersInv, LastWriterRecords, Recorded, WorkerRecords, HandlerRecords,
         StateIsRecorded, InFlight
<1> QED BY <1>1, AnswersInvariance, PTL

\* A Status answer counts at most one job twice.
THEOREM DaemonStatusOvercounts == Spec => []StatusOvercountsByOne
<1>1. AnswersInv => StatusOvercountsByOne
  BY DEF AnswersInv
<1> QED BY <1>1, AnswersInvariance, PTL

-----------------------------------------------------------------------------
\* The events of the worker.

\* The earlier events of the worker have the numbers that they had, and the last one
\* has the next number if it is the worker's.
Numbered(log, text, longer) ==
  /\ OwnUpTo(log, Len(log)) \in Nat
  /\ \A i \in 1 .. Len(log) :
       /\ longer[i] = log[i]
       /\ OwnUpTo(longer, i) = OwnUpTo(log, i)
       /\ OwnUpTo(log, i) \in Nat /\ OwnUpTo(log, i) <= OwnUpTo(log, Len(log))
       /\ log[i] \in WorkerTexts => OwnUpTo(log, i) > 0
  /\ OwnUpTo(longer, Len(longer)) =
       OwnUpTo(log, Len(log)) + (IF text \in WorkerTexts THEN 1 ELSE 0)

\* An event at the end of a log.
LEMMA OwnAppend ==
  ASSUME NEW log \in Seq(StateText), NEW text \in StateText, NEW longer,
         longer = Append(log, text)
  PROVE  Numbered(log, text, longer)
<1> DEFINE own(n) == {k \in 1 .. n : log[k] \in WorkerTexts}
<1>1. /\ Len(log) \in Nat /\ Len(longer) = Len(log) + 1 /\ longer[Len(log) + 1] = text
      /\ \A i \in 1 .. Len(log) : longer[i] = log[i]
  OBVIOUS
<1>2. ASSUME NEW n \in 0 .. Len(log)
      PROVE  IsFiniteSet(own(n)) /\ Cardinality(own(n)) \in Nat
  <2>1. IsFiniteSet(1 .. n)
    BY FS_Interval
  <2>2. own(n) \in SUBSET (1 .. n)
    OBVIOUS
  <2> HIDE DEF own
  <2> QED BY <2>1, <2>2, FS_Subset, FS_CardinalityType
<1>3. ASSUME NEW i \in 1 .. Len(log)
      PROVE  /\ OwnUpTo(longer, i) = OwnUpTo(log, i)
             /\ OwnUpTo(log, i) \in Nat /\ OwnUpTo(log, i) <= OwnUpTo(log, Len(log))
             /\ log[i] \in WorkerTexts => OwnUpTo(log, i) > 0
  <2>1. {k \in 1 .. i : longer[k] \in WorkerTexts} = own(i)
    BY <1>1
  <2>2. own(i) \in SUBSET own(Len(log))
    BY <1>1
  <2>3. IsFiniteSet(own(i)) /\ Cardinality(own(i)) \in Nat
    BY <1>2
  <2>4. IsFiniteSet(own(Len(log)))
    BY <1>1, <1>2
  <2>5. log[i] \in WorkerTexts => own(i) # {}
    OBVIOUS
  <2>6. OwnUpTo(longer, i) = Cardinality(own(i)) /\ OwnUpTo(log, i) = Cardinality(own(i))
        /\ OwnUpTo(log, Len(log)) = Cardinality(own(Len(log)))
    BY <2>1 DEF OwnUpTo
  <2> HIDE DEF own
  <2>7. Cardinality(own(i)) <= Cardinality(own(Len(log)))
    BY <2>2, <2>4, FS_Subset
  <2>8. log[i] \in WorkerTexts => Cardinality(own(i)) > 0
    BY <2>3, <2>5, FS_EmptySet
  <2> QED BY <2>3, <2>6, <2>7, <2>8
<1>4. OwnUpTo(longer, Len(longer)) =
        OwnUpTo(log, Len(log)) + (IF text \in WorkerTexts THEN 1 ELSE 0)
  <2> DEFINE n == Len(log) + 1
  <2>1. {k \in 1 .. n : longer[k] \in WorkerTexts} =
          IF text \in WorkerTexts THEN own(Len(log)) \cup {n} ELSE own(Len(log))
    BY <1>1
  <2>2. IsFiniteSet(own(Len(log))) /\ Cardinality(own(Len(log))) \in Nat
    BY <1>1, <1>2
  <2>3. n \notin own(Len(log))
    BY <1>1
  <2>4. OwnUpTo(log, Len(log)) = Cardinality(own(Len(log)))
        /\ OwnUpTo(longer, Len(longer)) =
             Cardinality({k \in 1 .. n : longer[k] \in WorkerTexts})
    BY <1>1 DEF OwnUpTo
  <2> HIDE DEF own, n
  <2>5. Cardinality(own(Len(log)) \cup {n}) = Cardinality(own(Len(log))) + 1
    BY <2>2, <2>3, FS_AddElement
  <2>6. CASE text \in WorkerTexts
    <3>1. OwnUpTo(longer, Len(longer)) = Cardinality(own(Len(log)) \cup {n})
      BY <2>1, <2>4, <2>6
    <3> QED BY <2>4, <2>5, <2>6, <3>1
  <2>7. CASE text \notin WorkerTexts
    <3>1. OwnUpTo(longer, Len(longer)) = Cardinality(own(Len(log)))
      BY <2>1, <2>4, <2>7
    <3>2. OwnUpTo(log, Len(log)) \in Nat
      BY <2>2, <2>4
    <3>3. OwnUpTo(longer, Len(longer)) = OwnUpTo(log, Len(log))
      BY <2>4, <3>1
    <3> QED BY <2>7, <3>2, <3>3
  <2> QED BY <2>6, <2>7
<1>5. OwnUpTo(log, Len(log)) \in Nat
  <2>1. Len(log) \in 0 .. Len(log)
    BY <1>1
  <2>2. OwnUpTo(log, Len(log)) = Cardinality(own(Len(log)))
    BY DEF OwnUpTo
  <2> HIDE DEF own
  <2> QED BY <1>2, <2>1, <2>2
<1> QED BY <1>1, <1>3, <1>4, <1>5 DEF Numbered

\* A log that follows one run of a job follows every other as long as the worker
\* has recorded at most three states, since runs differ in their ends only.
LEMMA PathsAgree ==
  ASSUME NEW p \in WorkerPaths, NEW q \in WorkerPaths, NEW n \in 1 .. 3
  PROVE  p[n] = q[n] /\ Len(p) = 4
  BY DEF WorkerPaths

\* An event of a handler, or the next event of the worker, keeps a log in order.
LEMMA FollowsAppend ==
  ASSUME NEW log \in Seq(StateText), NEW text \in StateText, NEW longer,
         longer = Append(log, text),
         NEW p \in WorkerPaths, FollowsPath(log, p),
         NEW q \in WorkerPaths,
         \/ text \notin WorkerTexts /\ q = p
         \/ OwnUpTo(log, Len(log)) \in 0 .. 3 /\ text = q[OwnUpTo(log, Len(log)) + 1]
  PROVE  FollowsPath(longer, q)
<1>1. Len(q) = 4
  BY PathsAgree
<1>2. Len(log) \in Nat /\ Len(longer) = Len(log) + 1 /\ longer[Len(log) + 1] = text
      /\ DOMAIN longer = 1 .. Len(log) + 1 /\ DOMAIN log = 1 .. Len(log)
  OBVIOUS
<1>0. /\ \A i \in 1 .. Len(log) :
            /\ longer[i] = log[i]
            /\ OwnUpTo(longer, i) = OwnUpTo(log, i)
            /\ OwnUpTo(log, i) \in Nat /\ OwnUpTo(log, i) <= OwnUpTo(log, Len(log))
            /\ log[i] \in WorkerTexts => OwnUpTo(log, i) > 0
      /\ OwnUpTo(longer, Len(longer)) =
           OwnUpTo(log, Len(log)) + (IF text \in WorkerTexts THEN 1 ELSE 0)
  <2>1. Numbered(log, text, longer)
    BY OwnAppend, Zenon
  <2> QED BY <2>1 DEF Numbered
<1> SUFFICES ASSUME NEW i \in DOMAIN longer, longer[i] \in WorkerTexts
             PROVE  OwnUpTo(longer, i) <= Len(q) /\ longer[i] = q[OwnUpTo(longer, i)]
  BY DEF FollowsPath
<1>3. CASE i \in 1 .. Len(log)
  <2>1. longer[i] = log[i] /\ OwnUpTo(longer, i) = OwnUpTo(log, i) /\ OwnUpTo(log, i) \in Nat
        /\ OwnUpTo(log, i) > 0 /\ OwnUpTo(log, i) <= OwnUpTo(log, Len(log))
    BY <1>0, <1>3
  <2>2. OwnUpTo(log, i) <= Len(p) /\ log[i] = p[OwnUpTo(log, i)]
    BY <1>2, <1>3, <2>1 DEF FollowsPath
  <2>3. CASE text \notin WorkerTexts /\ q = p
    BY <2>1, <2>2, <2>3
  <2>4. CASE OwnUpTo(log, Len(log)) \in 0 .. 3
    <3>1. OwnUpTo(log, i) \in 1 .. 3
      BY <2>1, <2>4
    <3>2. p[OwnUpTo(log, i)] = q[OwnUpTo(log, i)]
      BY <3>1, PathsAgree
    <3> QED BY <1>1, <2>1, <2>2, <3>1, <3>2
  <2> QED BY <2>3, <2>4
<1>4. CASE i = Len(log) + 1
  <2>1. OwnUpTo(longer, i) = OwnUpTo(log, Len(log)) + 1
        /\ OwnUpTo(log, Len(log)) \in 0 .. 3 /\ text = q[OwnUpTo(log, Len(log)) + 1]
    BY <1>0, <1>2, <1>4
  <2> QED BY <1>1, <1>2, <1>4, <2>1
<1> QED BY <1>2, <1>3, <1>4

\* The event of a control request is none of the worker's, and that of a call of
\* the worker is the state of its place on the way of a job.
LEMMA TextsOfEvents ==
  /\ "queued" \in StateText \ WorkerTexts
  /\ state_name["Canceling"] \in StateText \ WorkerTexts
  /\ wnext \in NextStates =>
       /\ state_name[wnext] \in WorkerTexts /\ CallOf \in 1 .. 4
       /\ \E q \in WorkerPaths : state_name[wnext] = q[CallOf]
<1>1. StateText = {"queued", "preparing", "running", "collecting", "succeeded", "canceling",
                   "canceled", "failed", "timed_out"}
  BY DEF StateText, parse_state
<1>2. "queued" \in StateText \ WorkerTexts /\ state_name["Canceling"] \in StateText \ WorkerTexts
  BY <1>1 DEF WorkerTexts, state_name
<1>3. ASSUME wnext \in NextStates
      PROVE  /\ state_name[wnext] \in WorkerTexts /\ CallOf \in 1 .. 4
             /\ \E q \in WorkerPaths : state_name[wnext] = q[CallOf]
  <2>1. CASE wnext \in {"Preparing", "Running", "Collecting"}
    <3> DEFINE q == <<"preparing", "running", "collecting", "failed">>
    <3>1. q \in WorkerPaths
      BY DEF WorkerPaths
    <3>2. state_name[wnext] = q[CallOf] /\ CallOf \in 1 .. 3 /\ state_name[wnext] \in WorkerTexts
      BY <1>1, <2>1 DEF state_name, CallOf, WorkerTexts
    <3> QED BY <3>1, <3>2
  <2>2. CASE wnext \in {"Succeeded", "Failed", "Canceled"}
    <3> DEFINE q == <<"preparing", "running", "collecting", state_name[wnext]>>
    <3>1. state_name[wnext] \in {"succeeded", "failed", "canceled"}
      BY <2>2 DEF state_name
    <3>2. q \in WorkerPaths
      BY <3>1 DEF WorkerPaths
    <3>3. state_name[wnext] = q[CallOf] /\ CallOf = 4 /\ state_name[wnext] \in WorkerTexts
      BY <1>1, <2>2, <3>1 DEF CallOf, WorkerTexts
    <3> QED BY <3>2, <3>3
  <2> QED BY <1>3, <2>1, <2>2 DEF NextStates
<1> QED BY <1>2, <1>3

\* The log of a job after one more event, seen as a whole.
LEMMA OwnRecorded ==
  ASSUME StoreTypeOK, NEW id \in JobIds, NEW text \in StateText, record_event(id, text)
  PROVE  /\ events'[id] = Append(events[id], text) /\ events[id] \in Seq(StateText)
         /\ \A k \in JobIds : k # id => events'[k] = events[k]
         /\ Own(id) \in Nat
         /\ Own(id)' = Own(id) + (IF text \in WorkerTexts THEN 1 ELSE 0)
<1>1. events'[id] = Append(events[id], text) /\ events[id] \in Seq(StateText)
      /\ \A k \in JobIds : k # id => events'[k] = events[k]
  BY DEF record_event, StoreTypeOK
<1>2. /\ OwnUpTo(events[id], Len(events[id])) \in Nat
      /\ OwnUpTo(events'[id], Len(events'[id])) =
           OwnUpTo(events[id], Len(events[id])) + (IF text \in WorkerTexts THEN 1 ELSE 0)
  <2>1. Numbered(events[id], text, events'[id])
    BY <1>1, OwnAppend, Zenon
  <2> QED BY <2>1 DEF Numbered
<1> QED BY <1>1, <1>2 DEF Own

\* A step records an event of a handler or of the worker, or it records none: then
\* the worker stays where it is, has let go of its job, or goes on with it.
LEMMA EventSteps ==
  ASSUME HasJob, [Next]_vars
  PROVE  \/ LogState
         \/ \E c \in Clients : LogEvent(c) /\ UNCHANGED workerVars
         \/ events' = events /\ UNCHANGED workerVars
         \/ events' = events /\ ~Working' /\ begun' = begun
         \/ events' = events /\ WorkerStep /\ ~LogState
<1>1. CASE Worker
  BY <1>1 DEF Worker, WorkerStep, DetectRuntime, OpenStore, NothingQueued, PickJob,
              CheckState, WriteState, Prepare, StartBuild, EndBuild, Branch, Collect, Wake,
              storeVars
<1>2. ASSUME NEW c \in Clients, Handler(c), ~LogEvent(c)
      PROVE  events' = events /\ UNCHANGED workerVars
  BY <1>2 DEF Handler, HandlerStep, ScheduleReject, EnqueueInsert, CancelRead, CancelWrite,
              CountQueued, CountRunning, Respond, storeVars
<1>3. ASSUME NEW c \in Clients,
             Client(c) \/ Accept(c) \/ (HandlerFault(c) /\ UNCHANGED workerVars)
      PROVE  events' = events /\ UNCHANGED workerVars
  BY <1>3 DEF Client, ClientStep, RequestSchedule, RequestCancel, RequestStatus, Send,
              Accept, AcceptConn, HandlerFault, storeVars
<1>4. CASE UNCHANGED vars \/ BindSocket
  BY <1>4 DEF vars, storeVars, BindSocket
<1>5. CASE (WorkerFault /\ UNCHANGED controlVars) \/ Interrupt \/ Exit \/ Crash \/ Restart
  BY <1>5 DEF HasJob, WorkerFault, Interrupt, Exit, Crash, Restart, ProcessGone, Fail, Forget,
              Working, history, localVars, storeVars
<1>6. ASSUME NEW c \in Clients, Handler(c), LogEvent(c) PROVE UNCHANGED workerVars
  BY <1>6 DEF Handler
<1> QED BY <1>1, <1>2, <1>3, <1>4, <1>5, <1>6 DEF Next

\* A step of the worker that records nothing keeps the count of its events.
LEMMA CountedGoingOn ==
  ASSUME Inv, EventsCounted, WorkerStep, ~LogState, \A k \in JobIds : Own(k)' = Own(k)
  PROVE  EventsCounted'
<1>1. begun \subseteq begun'
  BY DEF WorkerStep, DetectRuntime, OpenStore, NothingQueued, PickJob, CheckState,
         WriteState, Prepare, StartBuild, EndBuild, Branch, Collect, Wake, history, Forget
<1>2. wjob' = wjob \/ ~Working' \/ \E id \in JobIds : PickJob(id)
  BY DEF WorkerStep, DetectRuntime, OpenStore, NothingQueued, CheckState, WriteState, Prepare,
         StartBuild, EndBuild, Branch, Collect, Wake, localVars, Fail, Forget, Working
<1>3. CASE wjob' = wjob /\ Working /\ ~\E id \in JobIds : PickJob(id)
  <2>1. wjob \in JobIds /\ wnext \in NextStates
    BY <1>3 DEF Inv, TypeOK, WorkerTypeOK, Working, WorkerInv, AtItsPlace
  <2>2. Own(wjob) = IF wpc \in {"read", "update", "event"} THEN CallOf - 1 ELSE CallOf
    BY <1>3 DEF EventsCounted
  <2>3. (IF wpc \in {"read", "update", "event"} THEN CallOf - 1 ELSE CallOf)'
          = IF wpc \in {"read", "update", "event"} THEN CallOf - 1 ELSE CallOf
    BY <1>3, <2>1 DEF WorkerStep, DetectRuntime, OpenStore, NothingQueued, CheckState,
           WriteState, Prepare, StartBuild, EndBuild, Branch, Collect, Wake, BeginSetState,
           localVars, Fail, Forget, Inv, WorkerInv, HasJob, AtItsPlace, NextStates, CallOf,
           Working
  <2> QED BY <1>1, <1>3, <2>1, <2>2, <2>3 DEF EventsCounted
<1>4. ASSUME NEW id \in JobIds, PickJob(id) PROVE EventsCounted'
  <2>1. id \notin begun /\ begun' = begun
    BY <1>4 DEF PickJob, next_queued, Inv, WorkerInv, RowsFitHistory, StateOf, parse_state,
                history
  <2>2. Own(id) = 0
    BY <2>1 DEF EventsCounted
  <2>3. wjob' = id /\ wpc' = "read" /\ CallOf' = 1
    BY <1>4 DEF PickJob, BeginSetState, CallOf
  <2> QED BY <2>1, <2>2, <2>3 DEF EventsCounted
<1>5. CASE ~Working'
  BY <1>1, <1>5 DEF EventsCounted
<1>6. CASE wjob' = wjob /\ ~Working
  BY <1>5, <1>6 DEF Working
<1> QED BY <1>2, <1>3, <1>4, <1>5, <1>6

\* The worker records a state: its count and the order of its events go on.
LEMMA EventsWorker ==
  ASSUME Inv, EventsInv, LogState
  PROVE  EventsInv'
<1> DEFINE text == state_name[wnext]
<1>1. Working /\ wjob \in JobIds /\ wnext \in NextStates /\ wpc = "event" /\ StoreTypeOK
      /\ wjob \in begun
  BY DEF LogState, Inv, TypeOK, WorkerTypeOK, WorkerInv, HasJob, AtItsPlace, Marked, Working
<1>2. text \in WorkerTexts /\ text \in StateText /\ CallOf \in 1 .. 4
      /\ \E q \in WorkerPaths : text = q[CallOf]
  BY <1>1, TextsOfEvents DEF WorkerTexts
<1>3. record_event(wjob, text) /\ wpc' \notin {"read", "update", "event"} /\ CallOf' = CallOf
      /\ wjob' = wjob /\ begun' = begun
  BY DEF LogState, AfterSetState, localVars, history, CallOf
<1>4. Own(wjob) = CallOf - 1
  BY <1>1 DEF EventsInv, EventsCounted
<1> HIDE DEF text
<1>5. /\ events'[wjob] = Append(events[wjob], text) /\ events[wjob] \in Seq(StateText)
      /\ \A k \in JobIds : k # wjob => events'[k] = events[k]
      /\ Own(wjob)' = Own(wjob) + 1
  BY <1>1, <1>2, <1>3, OwnRecorded
<1>6. \A k \in JobIds : k # wjob => Own(k)' = Own(k)
  BY <1>5 DEF Own
<1>7. EventsCounted'
  BY <1>1, <1>2, <1>3, <1>4, <1>5, <1>6 DEF EventsInv, EventsCounted
<1>8. ASSUME NEW k \in JobIds PROVE \E path \in WorkerPaths : FollowsPath(events'[k], path)
  <2>1. PICK p \in WorkerPaths : FollowsPath(events[k], p)
    BY DEF EventsInv, WorkerEventsInOrder
  <2>2. CASE k # wjob
    BY <1>5, <2>1, <2>2
  <2>3. CASE k = wjob
    <3>1. PICK q \in WorkerPaths : text = q[CallOf]
      BY <1>2
    <3>2. OwnUpTo(events[k], Len(events[k])) = CallOf - 1
      BY <1>4, <2>3 DEF Own
    <3>3. OwnUpTo(events[k], Len(events[k])) \in 0 .. 3
          /\ text = q[OwnUpTo(events[k], Len(events[k])) + 1]
      BY <1>2, <3>1, <3>2
    <3> HIDE DEF StateText
    <3>4. FollowsPath(events'[k], q)
      BY <1>2, <1>5, <2>1, <2>3, <3>3, FollowsAppend
    <3> QED BY <3>4
  <2> QED BY <2>2, <2>3
<1>9. WorkerEventsInOrder'
  BY <1>8 DEF WorkerEventsInOrder
<1> QED BY <1>7, <1>9 DEF EventsInv

\* A handler records its request: the events of the worker stay as they were.
LEMMA EventsHandler ==
  ASSUME Inv, EventsInv, NEW c \in Clients, LogEvent(c), UNCHANGED workerVars
  PROVE  EventsInv'
<1>1. PICK text \in StateText \ WorkerTexts : record_event(conn[c].id, text)
  BY TextsOfEvents DEF LogEvent
<1>2. StoreTypeOK
  BY DEF Inv, TypeOK
<1>3. ASSUME NEW k \in JobIds
      PROVE  /\ Own(k)' = Own(k)
             /\ \E path \in WorkerPaths : FollowsPath(events'[k], path)
  <2>1. PICK p \in WorkerPaths : FollowsPath(events[k], p)
    BY DEF EventsInv, WorkerEventsInOrder
  <2>2. CASE k # conn[c].id
    <3>1. events'[k] = events[k]
      BY <1>1, <1>2, <2>2 DEF record_event, StoreTypeOK
    <3> QED BY <2>1, <3>1 DEF Own
  <2>3. CASE k = conn[c].id
    <3>1. /\ events'[k] = Append(events[k], text) /\ events[k] \in Seq(StateText)
          /\ Own(k) \in Nat /\ Own(k)' = Own(k) + 0
      BY <1>1, <1>2, <2>3, OwnRecorded
    <3> HIDE DEF StateText
    <3>2. FollowsPath(events'[k], p)
      BY <1>1, <2>1, <3>1, FollowsAppend
    <3> QED BY <3>1, <3>2
  <2> QED BY <2>2, <2>3
<1>4. EventsCounted'
  BY <1>3 DEF EventsInv, EventsCounted, workerVars, Working, CallOf, Inv, TypeOK, WorkerTypeOK
<1>5. WorkerEventsInOrder'
  BY <1>3 DEF WorkerEventsInOrder
<1> QED BY <1>4, <1>5 DEF EventsInv

\* Every step keeps the events of the worker counted and in order.
LEMMA EventsStep ==
  ASSUME Inv, EventsInv, [Next]_vars
  PROVE  EventsInv'
<1>1. HasJob
  BY DEF Inv, WorkerInv
<1>2. ASSUME events' = events
      PROVE  (\A k \in JobIds : Own(k)' = Own(k)) /\ WorkerEventsInOrder'
  BY <1>2 DEF Own, EventsInv, WorkerEventsInOrder
<1>3. CASE events' = events /\ UNCHANGED workerVars
  BY <1>2, <1>3 DEF EventsInv, EventsCounted, workerVars, Working, CallOf, Inv, TypeOK,
                    WorkerTypeOK
<1>4. CASE events' = events /\ ~Working' /\ begun' = begun
  BY <1>2, <1>4 DEF EventsInv, EventsCounted
<1>5. CASE events' = events /\ WorkerStep /\ ~LogState
  BY <1>2, <1>5, CountedGoingOn DEF EventsInv
<1> QED BY <1>1, <1>3, <1>4, <1>5, EventSteps, EventsWorker, EventsHandler

\* No log is there at the start.
LEMMA EventsInit ==
  ASSUME Init
  PROVE  EventsInv
<1>1. ~Working /\ \A id \in JobIds : events[id] = << >>
  BY DEF Init, StoreInit, WorkerInit, Working
<1>2. \A id \in JobIds : Own(id) = 0
  <2>1. {k \in 1 .. 0 : << >>[k] \in WorkerTexts} = {}
    OBVIOUS
  <2> QED BY <1>1, <2>1, FS_EmptySet DEF Own, OwnUpTo
<1>3. ASSUME NEW id \in JobIds, NEW path \in WorkerPaths PROVE FollowsPath(events[id], path)
  BY <1>1 DEF FollowsPath
<1>4. WorkerPaths # {}
  BY DEF WorkerPaths
<1> QED BY <1>1, <1>2, <1>3, <1>4 DEF EventsInv, EventsCounted, WorkerEventsInOrder

\* The events of the worker are counted and in order in every reachable state.
THEOREM EventsInvariance == Spec => []EventsInv
<1>1. Init => EventsInv
  BY EventsInit
<1>2. Inv /\ EventsInv /\ [Next]_vars => EventsInv'
  BY EventsStep
<1> QED BY <1>1, <1>2, Invariance, PTL DEF Spec

\* The events that the worker records for a job are an initial part of one way
\* through run_one_queued_job, however the daemon fails and starts again.
THEOREM DaemonWorkerEventsInOrder == Spec => []WorkerEventsInOrder
<1>1. EventsInv => WorkerEventsInOrder
  BY DEF EventsInv
<1> QED BY <1>1, EventsInvariance, PTL

=============================================================================
