---------------------------- MODULE DaemonProofs ----------------------------
(***************************************************************************)
(* The daemon is type correct, the inductive invariant WorkerInv of        *)
(* DaemonInv holds, and with it the properties of Daemon about the worker, *)
(* for any number of jobs, clients, faults and cancels.                    *)
(***************************************************************************)
EXTENDS DaemonInv, FiniteSetTheorems, TLAPS

-----------------------------------------------------------------------------
\* Lemmas about the operators of the store.

\* parse_state undoes state_name.
LEMMA ParseName ==
  ASSUME NEW s \in JobState
  PROVE  state_name[s] \in StateText /\ parse_state[state_name[s]] = s
  BY DEF JobState, StateText, state_name, parse_state

\* The text of every row names a state, and "queued" names Queued only.
LEMMA ParseText ==
  ASSUME NEW t \in StateText
  PROVE  parse_state[t] \in JobState /\ (parse_state[t] = "Queued" <=> t = "queued")
  BY DEF JobState, StateText, parse_state

\* UPDATE writes one row of a well-formed table and no other.
LEMMA UpdateEffect ==
  ASSUME StoreTypeOK, NEW id, NEW next \in JobState, UpdateState(id, next)
  PROVE  /\ DOMAIN jobs' = DOMAIN jobs
         /\ jobs' \in [DOMAIN jobs' -> Row]
         /\ \A k \in DOMAIN jobs :
              parse_state[jobs'[k].state] =
                IF k = id THEN next ELSE parse_state[jobs[k].state]
  BY ParseName DEF StoreTypeOK, UpdateState, Row

\* INSERT adds one queued row to a well-formed table.
LEMMA InsertEffect ==
  ASSUME StoreAssumption, StoreTypeOK, NEW id \in JobIds, InsertJob(id)
  PROVE  /\ DOMAIN jobs' = DOMAIN jobs \cup {id}
         /\ jobs' \in [DOMAIN jobs' -> Row]
         /\ clock' \in Nat
         /\ parse_state[jobs'[id].state] = "Queued"
         /\ \A k \in DOMAIN jobs : jobs'[k] = jobs[k]
<1>1. clock' \in Nat
  BY DEF StoreAssumption, StoreTypeOK, InsertJob, InsertAt
<1>2. "Queued" \in JobState
  BY DEF JobState
<1>3. state_name["Queued"] \in StateText /\ parse_state[state_name["Queued"]] = "Queued"
  BY <1>2, ParseName
<1> QED BY <1>1, <1>3 DEF StoreTypeOK, InsertJob, InsertAt, Row

\* Counting rows gives a number.
LEMMA CountIsNat ==
  ASSUME StoreAssumption, StoreTypeOK
  PROVE  /\ Cardinality(DOMAIN jobs) \in Nat
         /\ \A s : count_by_state(s) \in Nat
<1>1. \A S \in SUBSET (DOMAIN jobs) : Cardinality(S) \in Nat
  BY FS_Subset, FS_CardinalityType DEF StoreAssumption, StoreTypeOK
<1> QED BY <1>1 DEF count_by_state

\* Recording an event keeps the log well formed.
LEMMA RecordEffect ==
  ASSUME StoreTypeOK, NEW id, NEW text \in StateText, record_event(id, text)
  PROVE  events' \in [JobIds -> Seq(StateText)]
<1>1. \A k \in JobIds : Append(events[k], text) \in Seq(StateText)
  BY DEF StoreTypeOK
<1> QED BY <1>1 DEF StoreTypeOK, record_event

-----------------------------------------------------------------------------
\* Type correctness.  TypeOK alone is not inductive: that begun stays a set of
\* jobs needs HasJob, that the worker does have a job when it writes a row.

\* Every step of the worker is type correct.
LEMMA WorkerStepType ==
  ASSUME StoreAssumption, RuntimeExitsAssumption, TypeOK, HasJob, WorkerStep
  PROVE  StoreTypeOK' /\ WorkerTypeOK'
<1> USE DEF TypeOK
<1> DEFINE Locals == wjob' \in JobIds \cup {NoJob} /\ wnext' \in JobState /\ wexit' \in Exits
<1>1. ASSUME UNCHANGED storeVars PROVE StoreTypeOK'
  BY <1>1 DEF storeVars, StoreTypeOK
<1>2. ASSUME Forget PROVE Locals
  BY <1>2 DEF Forget, JobState, Exits
<1>3. ASSUME UNCHANGED localVars PROVE Locals
  BY <1>3 DEF localVars, WorkerTypeOK
<1>4. ASSUME wpc' \in WorkerPC, Locals, UNCHANGED history PROVE WorkerTypeOK'
  BY <1>4 DEF history, WorkerTypeOK
<1> HIDE DEF Locals
<1>5. CASE DetectRuntime \/ OpenStore \/ NothingQueued \/ Wake
  BY <1>1, <1>2, <1>3, <1>4, <1>5
     DEF DetectRuntime, OpenStore, NothingQueued, Wake, WorkerPC
<1>6. ASSUME NEW id \in JobIds, PickJob(id) PROVE StoreTypeOK' /\ WorkerTypeOK'
  <2>1. Locals
    BY <1>6 DEF PickJob, BeginSetState, Locals, WorkerTypeOK, JobState
  <2> QED BY <1>1, <1>4, <1>6, <2>1 DEF PickJob, BeginSetState, WorkerPC
<1>7. CASE CheckState
  BY <1>1, <1>2, <1>3, <1>4, <1>7 DEF CheckState, Fail, WorkerPC
<1>8. CASE WriteState
  <2>1. StoreTypeOK'
    BY <1>8, UpdateEffect DEF WriteState, StoreTypeOK, WorkerTypeOK
  <2>2. wjob \in JobIds
    BY <1>8 DEF WriteState, WorkerTypeOK, HasJob, Working
  <2>3. begun' \subseteq JobIds
    BY <1>8, <2>2 DEF WriteState, WorkerTypeOK
  <2>4. Locals
    BY <1>3, <1>8 DEF WriteState
  <2> QED BY <2>1, <2>3, <2>4, <1>8 DEF WriteState, WorkerTypeOK, Locals, WorkerPC
<1>9. CASE LogState
  <2>1. StoreTypeOK'
    BY <1>9, ParseName, RecordEffect DEF LogState, StoreTypeOK, WorkerTypeOK
  <2>2. AfterSetState(wnext) \in WorkerPC
    BY DEF AfterSetState, WorkerPC
  <2> QED BY <1>3, <1>4, <1>9, <2>1, <2>2 DEF LogState
<1>10. CASE Prepare \/ Branch \/ Collect
  <2>1. wpc' \in WorkerPC /\ Locals
    BY <1>2, <1>10 DEF Prepare, Branch, Collect, BeginSetState, Fail, WorkerPC, Locals,
                       WorkerTypeOK, JobState
  <2> QED BY <1>1, <1>4, <1>10, <2>1 DEF Prepare, Branch, Collect
<1>11. CASE StartBuild
  <2>1. wpc' \in WorkerPC /\ Locals
    BY <1>2, <1>3, <1>11 DEF StartBuild, Fail, WorkerPC
  <2>2. runs' \in [JobIds -> Nat]
    BY <1>11 DEF StartBuild, WorkerTypeOK
  <2> QED BY <1>1, <1>11, <2>1, <2>2 DEF StartBuild, WorkerTypeOK, Locals
<1>12. CASE EndBuild
  <2>1. wpc' \in WorkerPC /\ Locals /\ built' \in [JobIds -> Exits]
    <3>1. CASE Fail /\ UNCHANGED built
      BY <1>2, <3>1 DEF Fail, WorkerPC, WorkerTypeOK
    <3>2. ASSUME NEW result \in RuntimeExits, BeginSetState("Collecting"),
                 wexit' = result, built' = [built EXCEPT ![wjob] = result],
                 UNCHANGED wjob
          PROVE  wpc' \in WorkerPC /\ Locals /\ built' \in [JobIds -> Exits]
      <4>1. result \in Exits
        BY DEF RuntimeExitsAssumption, Exits
      <4> QED BY <3>2, <4>1 DEF BeginSetState, WorkerPC, Locals, WorkerTypeOK, JobState
    <3> QED BY <1>12, <3>1, <3>2 DEF EndBuild
  <2> QED BY <1>1, <1>12, <2>1 DEF EndBuild, WorkerTypeOK, Locals
<1> QED BY <1>5, <1>6, <1>7, <1>8, <1>9, <1>10, <1>11, <1>12 DEF WorkerStep

\* A step of the worker leaves it with a job exactly where it needs one.
LEMMA WorkerStepHasJob ==
  ASSUME StoreAssumption, HasJob, WorkerStep
  PROVE  HasJob'
<1> USE DEF HasJob, Working
<1>1. CASE DetectRuntime \/ OpenStore \/ NothingQueued \/ Wake
  BY <1>1 DEF DetectRuntime, OpenStore, NothingQueued, Wake, Forget, localVars
<1>2. ASSUME NEW id \in JobIds, PickJob(id) PROVE HasJob'
  BY <1>2 DEF PickJob, BeginSetState, StoreAssumption
<1>3. CASE CheckState \/ WriteState
  BY <1>3 DEF CheckState, WriteState, Fail, Forget, localVars
<1>4. CASE LogState
  BY <1>4 DEF LogState, localVars, AfterSetState
<1>5. CASE Prepare \/ StartBuild \/ EndBuild \/ Branch \/ Collect
  BY <1>5 DEF Prepare, StartBuild, EndBuild, Branch, Collect, BeginSetState, Fail, Forget,
              localVars
<1> QED BY <1>1, <1>2, <1>3, <1>4, <1>5 DEF WorkerStep

\* The values of a connection: an idle one, and one with some fields changed.
LEMMA IdleIsConn == IdleConn \in Conn
  BY DEF IdleConn, Conn, ConnPC

\* The fields that handlers change, one combination at a time.
LEMMA ConnValues ==
  ASSUME NEW v \in Conn, NEW pc \in ConnPC, NEW id \in JobIds \cup {NoJob}, NEW n \in Nat,
         NEW r \in {"none", "Scheduled", "Canceled", "Status", "Error"}
  PROVE  /\ [v EXCEPT !.pc = pc] \in Conn
         /\ [v EXCEPT !.pc = pc, !.id = id] \in Conn
         /\ [v EXCEPT !.pc = pc, !.resp = r] \in Conn
         /\ [v EXCEPT !.pc = pc, !.queued = n] \in Conn
         /\ [v EXCEPT !.pc = pc, !.resp = r, !.active = n] \in Conn
<1>1. [v EXCEPT !.pc = pc] \in Conn
  BY DEF Conn
<1>2. [v EXCEPT !.pc = pc, !.id = id] \in Conn
  BY DEF Conn
<1>3. [v EXCEPT !.pc = pc, !.resp = r] \in Conn
  BY DEF Conn
<1>4. [v EXCEPT !.pc = pc, !.queued = n] \in Conn
  BY DEF Conn
<1>5. [v EXCEPT !.pc = pc, !.resp = r, !.active = n] \in Conn
  BY DEF Conn
<1> QED BY <1>1, <1>2, <1>3, <1>4, <1>5

\* Every step of a client is type correct.
LEMMA ClientType ==
  ASSUME ControlAssumption, TypeOK, NEW c \in Clients, Client(c)
  PROVE  TypeOK'
<1> USE DEF TypeOK
<1>1. ASSUME NEW req, NEW id \in JobIds \cup {NoJob}, Send(c, req, id),
             req \in {"Schedule", "Cancel", "Status"}, cancels' \in 0 .. MaxCancels
      PROVE  ControlTypeOK' /\ UNCHANGED storeVars
  <2>1. [IdleConn EXCEPT !.pc = "connected", !.req = req, !.id = id] \in Conn
    BY <1>1 DEF IdleConn, Conn, ConnPC
  <2>2. conn' \in [Clients -> Conn]
    BY <1>1, <2>1 DEF Send, ControlTypeOK
  <2> QED BY <1>1, <2>2 DEF Send, ControlTypeOK
<1>2. CASE RequestSchedule(c) \/ RequestStatus(c)
  <2>1. ControlTypeOK' /\ UNCHANGED storeVars
    BY <1>1, <1>2 DEF RequestSchedule, RequestStatus, ControlTypeOK
  <2> QED BY <2>1 DEF Client, storeVars, workerVars, StoreTypeOK, WorkerTypeOK
<1>3. ASSUME NEW id \in JobIds, RequestCancel(c, id) PROVE TypeOK'
  <2>1. cancels' \in 0 .. MaxCancels
    BY <1>3 DEF RequestCancel, ControlTypeOK, ControlAssumption
  <2>2. ControlTypeOK' /\ UNCHANGED storeVars
    BY <1>1, <1>3, <2>1 DEF RequestCancel
  <2> QED BY <2>2 DEF Client, storeVars, workerVars, StoreTypeOK, WorkerTypeOK
<1> QED BY <1>2, <1>3 DEF Client, ClientStep

\* Every statement of a handler is type correct.
LEMMA HandlerType ==
  ASSUME StoreAssumption, TypeOK, NEW c \in Clients, Handler(c)
  PROVE  TypeOK'
<1> USE DEF TypeOK
<1>1. WorkerTypeOK'
  BY DEF Handler, workerVars, WorkerTypeOK
<1>2. conn[c] \in Conn
  BY DEF ControlTypeOK
<1>3. ASSUME NEW v \in Conn, conn' = [conn EXCEPT ![c] = v]
      PROVE  conn' \in [Clients -> Conn]
  BY <1>3 DEF ControlTypeOK
<1>4. ASSUME NEW r \in {"Scheduled", "Canceled", "Status", "Error"}, Answer(c, r)
      PROVE  conn' \in [Clients -> Conn]
  BY <1>2, <1>4, ConnValues DEF Answer, ControlTypeOK, ConnPC
<1>5. ASSUME UNCHANGED storeVars PROVE StoreTypeOK'
  BY <1>5 DEF storeVars, StoreTypeOK
<1>6. CASE ScheduleReject(c) \/ CancelRead(c)
  <2>1. conn' \in [Clients -> Conn]
    BY <1>2, <1>4, <1>6, ConnValues
       DEF ScheduleReject, CancelRead, ControlTypeOK, ConnPC
  <2> QED BY <1>1, <1>5, <1>6, <2>1 DEF ScheduleReject, CancelRead, ControlTypeOK
<1>7. CASE EnqueueInsert(c)
  <2> PICK id \in JobIds :
        InsertJob(id) /\ conn' = [conn EXCEPT ![c] = [@ EXCEPT !.pc = "event", !.id = id]]
    BY <1>7 DEF EnqueueInsert
  <2>1. conn' \in [Clients -> Conn]
    BY <1>2, ConnValues DEF ControlTypeOK, ConnPC
  <2>2. arrival' \in [JobIds -> Nat]
    BY CountIsNat DEF InsertJob, InsertAt, StoreTypeOK
  <2>3. StoreTypeOK'
    BY <1>7, <2>2, InsertEffect DEF EnqueueInsert, StoreTypeOK
  <2> QED BY <1>1, <1>7, <2>1, <2>3 DEF EnqueueInsert, ControlTypeOK
<1>8. CASE CancelWrite(c)
  <2>1. conn' \in [Clients -> Conn]
    BY <1>2, <1>8, ConnValues DEF CancelWrite, ControlTypeOK, ConnPC
  <2>2. "Canceling" \in JobState
    BY DEF JobState
  <2>3. StoreTypeOK'
    BY <1>8, <2>2, UpdateEffect DEF CancelWrite, StoreTypeOK
  <2> QED BY <1>1, <1>8, <2>1, <2>3 DEF CancelWrite, ControlTypeOK
<1>9. CASE LogEvent(c)
  <2>1. conn' \in [Clients -> Conn]
    BY <1>4, <1>9 DEF LogEvent
  <2>2. {"queued", state_name["Canceling"]} \subseteq StateText
    BY ParseName DEF JobState, StateText, parse_state
  <2>3. events' \in [JobIds -> Seq(StateText)]
    BY <1>9, <2>2, RecordEffect DEF LogEvent
  <2>4. StoreTypeOK'
    BY <1>9, <2>3 DEF LogEvent, StoreTypeOK
  <2> QED BY <1>1, <1>9, <2>1, <2>4 DEF LogEvent, ControlTypeOK
<1>10. CASE CountQueued(c)
  <2>1. conn' \in [Clients -> Conn]
    BY <1>2, <1>10, ConnValues, CountIsNat DEF CountQueued, ControlTypeOK, ConnPC
  <2> QED BY <1>1, <1>5, <1>10, <2>1 DEF CountQueued, ControlTypeOK
<1>11. CASE CountRunning(c)
  <2>1. conn' \in [Clients -> Conn]
    BY <1>2, <1>11, ConnValues, CountIsNat DEF CountRunning, ControlTypeOK, ConnPC
  <2> QED BY <1>1, <1>5, <1>11, <2>1 DEF CountRunning, ControlTypeOK
<1>12. CASE Respond(c)
  BY <1>1, <1>3, <1>5, <1>12, IdleIsConn DEF Respond, ControlTypeOK
<1> QED BY <1>6, <1>7, <1>8, <1>9, <1>10, <1>11, <1>12 DEF Handler, HandlerStep

\* A fault of the environment keeps the bound on faults.
LEMMA FaultType ==
  ASSUME StoreTypeOK, StoreAssumption, Fault, UNCHANGED <<jobs, events, clock, arrival>>
  PROVE  StoreTypeOK'
  BY DEF StoreTypeOK, StoreAssumption, Fault

\* Whatever step the daemon takes keeps it type correct.
LEMMA NextType ==
  ASSUME StoreAssumption, RuntimeExitsAssumption, ControlAssumption, TypeOK, HasJob,
         [Next]_vars
  PROVE  TypeOK' /\ HasJob'
<1> USE DEF TypeOK
<1>1. CASE UNCHANGED vars
  BY <1>1 DEF vars, storeVars, workerVars, controlVars, StoreTypeOK, WorkerTypeOK,
              ControlTypeOK, HasJob, Working
<1>2. ASSUME UNCHANGED workerVars PROVE WorkerTypeOK' /\ HasJob'
  BY <1>2 DEF workerVars, WorkerTypeOK, HasJob, Working
<1>3. ASSUME UNCHANGED controlVars PROVE ControlTypeOK'
  BY <1>3 DEF controlVars, ControlTypeOK
<1>4. ASSUME wpc' \in {"exit", "down"}, Forget, UNCHANGED history
      PROVE  WorkerTypeOK' /\ HasJob'
  BY <1>4 DEF Forget, history, WorkerTypeOK, HasJob, Working, WorkerPC, JobState, Exits
<1>5. CASE Worker
  BY <1>3, <1>5, WorkerStepType, WorkerStepHasJob DEF Worker
<1>6. CASE (WorkerFault /\ UNCHANGED controlVars) \/ Interrupt
  BY <1>3, <1>4, <1>6, FaultType DEF WorkerFault, Interrupt, Fail
<1>7. ASSUME NEW c \in Clients, Client(c) \/ Handler(c) PROVE TypeOK' /\ HasJob'
  BY <1>2, <1>7, ClientType, HandlerType DEF Client, Handler
<1>8. ASSUME NEW c \in Clients, Accept(c) PROVE TypeOK' /\ HasJob'
  <2>1. conn' \in [Clients -> Conn]
    BY <1>8, ConnValues DEF Accept, AcceptConn, ControlTypeOK, ConnPC
  <2> QED BY <1>2, <1>8, <2>1 DEF Accept, AcceptConn, ControlTypeOK, storeVars, StoreTypeOK
<1>9. ASSUME NEW c \in Clients, HandlerFault(c), UNCHANGED workerVars
      PROVE  TypeOK' /\ HasJob'
  <2>1. conn' \in [Clients -> Conn]
    BY <1>9, ConnValues DEF HandlerFault, Answer, ControlTypeOK, ConnPC
  <2>2. StoreTypeOK'
    BY <1>9, FaultType DEF HandlerFault
  <2> QED BY <1>2, <1>9, <2>1, <2>2 DEF HandlerFault, ControlTypeOK
<1>10. CASE BindSocket
  BY <1>2, <1>10 DEF BindSocket, ControlTypeOK, storeVars, StoreTypeOK
<1>11. CASE Exit \/ Crash
  <2>1. StoreTypeOK'
    BY <1>11, FaultType DEF Exit, Crash, ProcessGone, StoreTypeOK
  <2>2. ControlTypeOK'
    BY <1>11, IdleIsConn DEF Exit, Crash, ProcessGone, ControlTypeOK
  <2> QED BY <1>4, <1>11, <2>1, <2>2 DEF Exit, Crash, ProcessGone
<1>12. CASE Restart
  BY <1>3, <1>12 DEF Restart, storeVars, StoreTypeOK, localVars, history, WorkerTypeOK,
                     WorkerPC, HasJob, Working
<1> QED BY <1>1, <1>5, <1>6, <1>7, <1>8, <1>9, <1>10, <1>11, <1>12 DEF Next

\* The daemon starts type correct and without a job.
LEMMA InitType ==
  ASSUME StoreAssumption, ControlAssumption, Init
  PROVE  TypeOK /\ HasJob
<1>1. StoreTypeOK
  BY DEF Init, StoreInit, StoreTypeOK, StoreAssumption
<1>2. WorkerTypeOK /\ HasJob
  BY DEF Init, WorkerInit, WorkerTypeOK, WorkerPC, JobState, Exits, HasJob, Working
<1>3. ControlTypeOK
  <2>1. listening \in BOOLEAN /\ lock \in Clients \cup {NoClient}
    BY DEF Init, ControlInit
  <2>2. conn \in [Clients -> Conn]
    BY IdleIsConn DEF Init, ControlInit
  <2>3. cancels \in 0 .. MaxCancels
    BY DEF Init, ControlInit, ControlAssumption
  <2> QED BY <2>1, <2>2, <2>3 DEF ControlTypeOK
<1> QED BY <1>1, <1>2, <1>3 DEF TypeOK

\* Rows, events, the worker's locals and the connections always have the values
\* that the code can store in them, and the worker has a job where it uses one.
THEOREM TypeCorrect == Spec => [](TypeOK /\ HasJob)
<1>1. Init => TypeOK /\ HasJob
  BY StoreAssumption, ControlAssumption, InitType
<1>2. (TypeOK /\ HasJob) /\ [Next]_vars => (TypeOK /\ HasJob)'
  BY StoreAssumption, RuntimeExitsAssumption, ControlAssumption, NextType
<1> QED BY <1>1, <1>2, PTL DEF Spec

\* The type invariant by itself.
THEOREM DaemonTypeOK == Spec => []TypeOK
  BY TypeCorrect, PTL

-----------------------------------------------------------------------------
\* The inductive invariant of the worker.

Inv == TypeOK /\ WorkerInv

\* The daemon starts in the invariant.
LEMMA InvInit ==
  ASSUME StoreAssumption, ControlAssumption, Init
  PROVE  Inv
<1>1. TypeOK /\ HasJob
  BY InitType
<1>2. WorkerInv
  BY <1>1 DEF Init, StoreInit, WorkerInit, WorkerInv, Working, AtItsPlace, Marked,
              NotOverYet, RowsFitHistory, RunsCounted, AtMostOnce, OutcomeKnown,
              OutcomeIsBuildsOutcome
<1> QED BY <1>1, <1>2 DEF Inv

\* A step that leaves the worker and the rows alone keeps the invariant.
LEMMA FrameInv ==
  ASSUME WorkerInv, UNCHANGED <<jobs, workerVars>>
  PROVE  WorkerInv'
  BY DEF workerVars, WorkerInv, HasJob, AtItsPlace, Marked, NotOverYet, RowsFitHistory,
         RunsCounted, AtMostOnce, OutcomeKnown, OutcomeIsBuildsOutcome, Working, StateOf

\* A step that makes the worker forget its job and leaves the rows and the
\* history alone keeps the invariant.
LEMMA ForgetInv ==
  ASSUME WorkerInv, Forget, UNCHANGED <<jobs, history>>,
         wpc' \in {"down", "start", "open", "select", "exit"}
  PROVE  WorkerInv'
  BY DEF Forget, history, WorkerInv, HasJob, AtItsPlace, Marked, NotOverYet,
         RowsFitHistory, RunsCounted, AtMostOnce, OutcomeKnown, OutcomeIsBuildsOutcome,
         Working, StateOf

\* Every statement of the worker keeps the invariant.
LEMMA WorkerStepInv ==
  ASSUME StoreAssumption, RuntimeExitsAssumption, Inv, WorkerStep
  PROVE  WorkerInv'
<1> USE DEF Inv
<1>a. HasJob'
  BY WorkerStepHasJob DEF WorkerInv
<1>1. CASE DetectRuntime \/ OpenStore
  BY <1>1, <1>a
     DEF DetectRuntime, OpenStore, storeVars, localVars, history, WorkerInv, HasJob,
         AtItsPlace, Marked, NotOverYet, RowsFitHistory, RunsCounted, AtMostOnce,
         OutcomeKnown, OutcomeIsBuildsOutcome, Working, StateOf
<1>2. CASE NothingQueued
  BY <1>2, <1>a
     DEF NothingQueued, storeVars, localVars, history, WorkerInv, HasJob,
         AtItsPlace, Marked, NotOverYet, RowsFitHistory, RunsCounted, AtMostOnce,
         OutcomeKnown, OutcomeIsBuildsOutcome, Working, StateOf
<1>3. CASE Wake
  BY <1>3, ForgetInv DEF Wake, storeVars
<1>4. ASSUME NEW id \in JobIds, PickJob(id) PROVE WorkerInv'
  <2>1. id \in DOMAIN jobs /\ StateOf(id) = "Queued"
    BY <1>4, ParseText DEF PickJob, next_queued, TypeOK, StoreTypeOK, Row, StateOf
  <2>2. id \notin begun /\ wpc = "select"
    BY <1>4, <2>1 DEF PickJob, WorkerInv, RowsFitHistory
  <2> QED
    BY <1>4, <1>a, <2>1, <2>2
       DEF PickJob, BeginSetState, storeVars, history, WorkerInv, NextStates, HasJob,
         AtItsPlace, Marked, NotOverYet, RowsFitHistory, RunsCounted, AtMostOnce,
         OutcomeKnown, OutcomeIsBuildsOutcome, Working, StateOf, is_terminal
<1>5. CASE CheckState
  BY <1>5, <1>a, ForgetInv
     DEF CheckState, Fail, localVars, history, storeVars, WorkerInv, HasJob,
         AtItsPlace, Marked, NotOverYet, RowsFitHistory, RunsCounted, AtMostOnce,
         OutcomeKnown, OutcomeIsBuildsOutcome, Working, StateOf
<1>6. CASE WriteState
  <2>1. /\ DOMAIN jobs' = DOMAIN jobs
        /\ \A k \in DOMAIN jobs : StateOf(k)' = IF k = wjob THEN wnext ELSE StateOf(k)
    BY <1>6, UpdateEffect DEF WriteState, TypeOK, WorkerTypeOK, StateOf
  <2>2. wpc = "update" /\ wpc' = "event" /\ Working /\ wnext \in NextStates
    BY <1>6 DEF WriteState, WorkerInv, HasJob, AtItsPlace
  <2>3. wjob' = wjob /\ wnext' = wnext /\ wexit' = wexit /\ runs' = runs /\ built' = built
    BY <1>6 DEF WriteState, localVars
  <2>4. begun' = begun \cup {wjob}
    BY <1>6, <2>2 DEF WriteState, WorkerInv, Marked
  <2>5. AtItsPlace' /\ Marked' /\ RunsCounted' /\ OutcomeKnown'
    BY <2>1, <2>2, <2>3, <2>4
       DEF WorkerInv, AtItsPlace, Marked, RunsCounted, AtMostOnce, OutcomeKnown, Working
  <2>6. NotOverYet'
    BY <2>1, <2>2, <2>3, <2>4 DEF WorkerInv, Marked, NotOverYet, Working, StateOf
  <2>7. RowsFitHistory'
    BY <2>1, <2>2, <2>3, <2>4 DEF WorkerInv, Marked, RowsFitHistory, NextStates, StateOf
  <2>8. OutcomeIsBuildsOutcome'
    BY <2>1, <2>2, <2>3 DEF WorkerInv, OutcomeKnown, OutcomeIsBuildsOutcome, NextStates,
                            StateOf
  <2> QED BY <1>a, <2>5, <2>6, <2>7, <2>8 DEF WorkerInv
<1>7. CASE LogState
  BY <1>7, <1>a
     DEF LogState, AfterSetState, localVars, history, WorkerInv, NextStates, HasJob,
         AtItsPlace, Marked, NotOverYet, RowsFitHistory, RunsCounted, AtMostOnce,
         OutcomeKnown, OutcomeIsBuildsOutcome, Working, StateOf, is_terminal
<1>8. CASE Prepare
  BY <1>8, <1>a, ForgetInv
     DEF Prepare, Fail, BeginSetState, storeVars, history, WorkerInv, NextStates, HasJob,
         AtItsPlace, Marked, NotOverYet, RowsFitHistory, RunsCounted, AtMostOnce,
         OutcomeKnown, OutcomeIsBuildsOutcome, Working, StateOf, is_terminal
<1>9. CASE StartBuild
  <2>1. CASE Fail /\ UNCHANGED runs
    BY <1>9, <2>1, ForgetInv DEF StartBuild, Fail, storeVars, history
  <2>2. CASE /\ wpc' = "build"
             /\ runs' = [runs EXCEPT ![wjob] = @ + 1]
             /\ UNCHANGED localVars
    <3>1. RunsCounted'
      BY <1>9, <2>2 DEF StartBuild, localVars, WorkerInv, HasJob, AtItsPlace, Marked,
                        RunsCounted, AtMostOnce, Working, TypeOK, WorkerTypeOK
    <3>2. AtItsPlace' /\ Marked' /\ NotOverYet' /\ RowsFitHistory' /\ OutcomeKnown'
          /\ OutcomeIsBuildsOutcome'
      BY <1>9, <2>2
         DEF StartBuild, localVars, storeVars, WorkerInv, AtItsPlace, Marked, NotOverYet,
             RowsFitHistory, OutcomeKnown, OutcomeIsBuildsOutcome, Working, StateOf
    <3> QED BY <1>a, <3>1, <3>2 DEF WorkerInv
  <2> QED BY <1>9, <2>1, <2>2 DEF StartBuild
<1>10. CASE EndBuild
  <2>1. CASE Fail /\ UNCHANGED built
    BY <1>10, <2>1, ForgetInv DEF EndBuild, Fail, storeVars, history
  <2>2. ASSUME NEW result \in RuntimeExits, BeginSetState("Collecting"), wexit' = result,
               built' = [built EXCEPT ![wjob] = result], UNCHANGED wjob
        PROVE  WorkerInv'
    <3>1. wpc = "build" /\ Working /\ wjob \in DOMAIN jobs /\ wnext = "Running"
          /\ ~is_terminal(StateOf(wjob)) /\ wjob \in JobIds
      BY <1>10 DEF EndBuild, WorkerInv, HasJob, AtItsPlace, Marked, NotOverYet, TypeOK,
                   StoreTypeOK
    <3>2. OutcomeIsBuildsOutcome'
      BY <1>10, <2>2, <3>1 DEF EndBuild, storeVars, WorkerInv, OutcomeIsBuildsOutcome,
                               StateOf, is_terminal, TypeOK, StoreTypeOK, WorkerTypeOK
    <3>3. AtItsPlace' /\ Marked' /\ NotOverYet' /\ RowsFitHistory' /\ RunsCounted'
      BY <1>10, <2>2, <3>1
         DEF EndBuild, BeginSetState, storeVars, WorkerInv, NextStates, AtItsPlace, Marked,
             NotOverYet, RowsFitHistory, RunsCounted, AtMostOnce, Working, StateOf
    <3>4. OutcomeKnown'
      BY <2>2, <3>1 DEF BeginSetState, OutcomeKnown, TypeOK, WorkerTypeOK
    <3> QED BY <1>a, <3>2, <3>3, <3>4 DEF WorkerInv
  <2> QED BY <1>10, <2>1, <2>2 DEF EndBuild
<1>11. CASE Branch
  BY <1>11, <1>a
     DEF Branch, BeginSetState, storeVars, history, RuntimeExitsAssumption, WorkerInv,
         NextStates, HasJob, AtItsPlace, Marked, NotOverYet, RowsFitHistory, RunsCounted,
         AtMostOnce, OutcomeKnown, OutcomeIsBuildsOutcome, Working, StateOf, is_terminal
<1>12. CASE Collect
  BY <1>12, <1>a, ForgetInv
     DEF Collect, Fail, BeginSetState, storeVars, history, WorkerInv, NextStates, HasJob,
         AtItsPlace, Marked, NotOverYet, RowsFitHistory, RunsCounted, AtMostOnce,
         OutcomeKnown, OutcomeIsBuildsOutcome, Working, StateOf, is_terminal
<1> QED BY <1>1, <1>2, <1>3, <1>4, <1>5, <1>6, <1>7, <1>8, <1>9, <1>10, <1>11, <1>12
           DEF WorkerStep

\* The row of an enqueue that commits beside the worker keeps the invariant.
LEMMA EnqueueInv ==
  ASSUME StoreAssumption, Inv, NEW c \in Clients, EnqueueInsert(c), UNCHANGED workerVars
  PROVE  WorkerInv'
<1> PICK id \in JobIds : InsertJob(id)
  BY DEF EnqueueInsert
<1>1. /\ id \notin DOMAIN jobs
      /\ DOMAIN jobs' = DOMAIN jobs \cup {id}
      /\ StateOf(id)' = "Queued"
      /\ \A k \in DOMAIN jobs : StateOf(k)' = StateOf(k)
  BY InsertEffect DEF Inv, TypeOK, StateOf, InsertJob, InsertAt
<1>2. HasJob' /\ AtItsPlace' /\ RunsCounted' /\ OutcomeKnown' /\ Marked'
  BY <1>1 DEF Inv, workerVars, WorkerInv, HasJob, AtItsPlace, RunsCounted, AtMostOnce,
              OutcomeKnown, Marked, Working
<1>3. NotOverYet'
  BY <1>1 DEF Inv, workerVars, WorkerInv, NotOverYet, Marked, Working, StateOf
<1>4. RowsFitHistory'
  BY <1>1 DEF Inv, workerVars, WorkerInv, RowsFitHistory, StateOf
<1>5. OutcomeIsBuildsOutcome'
  BY <1>1 DEF Inv, workerVars, WorkerInv, OutcomeIsBuildsOutcome, StateOf
<1> QED BY <1>2, <1>3, <1>4, <1>5 DEF WorkerInv

\* A cancel that writes the row beside the worker, also one that comes late,
\* keeps the invariant.
LEMMA CancelInv ==
  ASSUME Inv, NEW c \in Clients, CancelWrite(c), UNCHANGED workerVars
  PROVE  WorkerInv'
<1>1. /\ DOMAIN jobs' = DOMAIN jobs
      /\ \A k \in DOMAIN jobs :
           StateOf(k)' = IF k = conn[c].id THEN "Canceling" ELSE StateOf(k)
  <2>1. "Canceling" \in JobState
    BY DEF JobState
  <2> QED BY <2>1, UpdateEffect DEF CancelWrite, Inv, TypeOK, StateOf
<1>2. HasJob' /\ AtItsPlace' /\ RunsCounted' /\ OutcomeKnown' /\ Marked'
  BY <1>1 DEF Inv, workerVars, WorkerInv, HasJob, AtItsPlace, RunsCounted, AtMostOnce,
              OutcomeKnown, Marked, Working
<1>3. NotOverYet'
  BY <1>1 DEF Inv, workerVars, WorkerInv, NotOverYet, Marked, Working, StateOf, is_terminal
<1>4. RowsFitHistory'
  BY <1>1 DEF Inv, workerVars, WorkerInv, RowsFitHistory, StateOf
<1>5. OutcomeIsBuildsOutcome'
  BY <1>1 DEF Inv, workerVars, WorkerInv, OutcomeIsBuildsOutcome, StateOf
<1> QED BY <1>2, <1>3, <1>4, <1>5 DEF WorkerInv

\* Every step of the daemon keeps the invariant.
LEMMA NextInv ==
  ASSUME StoreAssumption, RuntimeExitsAssumption, ControlAssumption, Inv, [Next]_vars
  PROVE  Inv'
<1>1. TypeOK'
  BY NextType DEF Inv, WorkerInv
<1>2. WorkerInv'
  <2>1. CASE UNCHANGED vars
    BY <2>1, FrameInv DEF vars, storeVars, Inv
  <2>2. CASE Worker
    BY <2>2, WorkerStepInv DEF Worker
  <2>3. CASE WorkerFault \/ Interrupt
    BY <2>3, ForgetInv DEF WorkerFault, Interrupt, Fail, Inv
  <2>4. ASSUME NEW c \in Clients, Client(c) \/ Accept(c) \/ BindSocket
        PROVE  WorkerInv'
    BY <2>4, FrameInv
       DEF Client, ClientStep, RequestSchedule, RequestCancel, RequestStatus, Send, Accept,
           AcceptConn, BindSocket, storeVars, Inv
  <2>5. ASSUME NEW c \in Clients, Handler(c) PROVE WorkerInv'
    <3>1. UNCHANGED workerVars
      BY <2>5 DEF Handler
    <3>2. CASE EnqueueInsert(c)
      BY <3>1, <3>2, EnqueueInv
    <3>3. CASE CancelWrite(c)
      BY <3>1, <3>3, CancelInv
    <3>4. CASE UNCHANGED jobs
      BY <3>1, <3>4, FrameInv DEF Inv
    <3> QED BY <2>5, <3>2, <3>3, <3>4
               DEF Handler, HandlerStep, ScheduleReject, CancelRead, LogEvent, CountQueued,
                   CountRunning, Respond, storeVars
  <2>6. ASSUME NEW c \in Clients, HandlerFault(c), UNCHANGED workerVars PROVE WorkerInv'
    BY <2>6, FrameInv DEF HandlerFault, Inv
  <2>7. CASE BindSocket
    BY <2>7, FrameInv DEF BindSocket, storeVars, Inv
  <2>8. CASE Exit \/ Crash
    BY <2>8, ForgetInv DEF Exit, Crash, ProcessGone, Inv
  <2>9. CASE Restart
    BY <2>9
       DEF Restart, storeVars, localVars, history, Inv, WorkerInv, HasJob,
           AtItsPlace, Marked, NotOverYet, RowsFitHistory, RunsCounted, AtMostOnce,
           OutcomeKnown, OutcomeIsBuildsOutcome, Working, StateOf
  <2> QED BY <2>1, <2>2, <2>3, <2>4, <2>5, <2>6, <2>7, <2>8, <2>9 DEF Next
<1> QED BY <1>1, <1>2 DEF Inv

\* The inductive invariant holds in every reachable state.
THEOREM Invariance == Spec => []Inv
<1>1. Init => Inv
  BY StoreAssumption, ControlAssumption, InvInit
<1>2. Inv /\ [Next]_vars => Inv'
  BY StoreAssumption, RuntimeExitsAssumption, ControlAssumption, NextInv
<1> QED BY <1>1, <1>2, PTL DEF Spec

\* The worker's place in the code, its locals, the row of its job and the history
\* agree at every statement.
THEOREM DaemonWorkerInv == Spec => []WorkerInv
<1>1. Inv => WorkerInv
  BY DEF Inv
<1> QED BY <1>1, Invariance, PTL

\* A build is started at most once for a job, whatever crashes, restarts and
\* cancels there are.
THEOREM DaemonAtMostOnce == Spec => []AtMostOnce
<1>1. Inv => AtMostOnce
  BY DEF Inv, WorkerInv, RunsCounted
<1> QED BY <1>1, Invariance, PTL

\* transition_to never refuses a call of the worker, so a cancel cannot end the
\* daemon.
THEOREM DaemonWorkerNeverRefused == Spec => []WorkerNeverRefused
<1>1. Inv => WorkerNeverRefused
  BY DEF Inv, WorkerInv, HasJob, Marked, NotOverYet, WorkerNeverRefused, set_state_allowed,
         transition_to_ok
<1> QED BY <1>1, Invariance, PTL

\* The outcome in a row is that of the job's one run.
THEOREM DaemonOutcome == Spec => []OutcomeIsBuildsOutcome
<1>1. Inv => OutcomeIsBuildsOutcome
  BY DEF Inv, WorkerInv
<1> QED BY <1>1, Invariance, PTL

-----------------------------------------------------------------------------
\* What a single step does to a job that the worker has let go of.
LetGoStep ==
  \A id \in JobIds :
    LetGo(id) => /\ LetGo(id)'
                 /\ jobs'[id] = jobs[id] \/ StateOf(id)' = "Canceling"

\* A step that neither writes a row nor gives the worker another job leaves a
\* job that was let go where it is.
LEMMA LetGoFrame ==
  ASSUME StoreAssumption, UNCHANGED <<jobs, begun>>, wjob' \in {wjob, NoJob}
  PROVE  LetGoStep
  BY DEF StoreAssumption, LetGoStep, LetGo

\* No statement of the worker takes it back.
LEMMA WorkerLetGo ==
  ASSUME StoreAssumption, Inv, WorkerStep
  PROVE  LetGoStep
<1>1. ASSUME NEW id \in JobIds, PickJob(id) PROVE LetGoStep
  <2>1. id \in DOMAIN jobs /\ StateOf(id) = "Queued"
    BY <1>1, ParseText DEF PickJob, next_queued, Inv, TypeOK, StoreTypeOK, Row, StateOf
  <2>2. id \notin begun
    BY <2>1 DEF Inv, WorkerInv, RowsFitHistory
  <2> QED BY <1>1, <2>2 DEF PickJob, storeVars, history, LetGoStep, LetGo
<1>2. CASE WriteState
  BY <1>2 DEF WriteState, UpdateState, localVars, Inv, TypeOK, StoreTypeOK, LetGoStep, LetGo
<1>3. CASE ~WriteState /\ ~(\E id \in JobIds : PickJob(id))
  <2>1. UNCHANGED <<jobs, begun>> /\ wjob' \in {wjob, NoJob}
    BY <1>3
       DEF WorkerStep, DetectRuntime, OpenStore, NothingQueued, CheckState, LogState,
           Prepare, StartBuild, EndBuild, Branch, Collect, Wake, BeginSetState, Fail,
           Forget, storeVars, localVars, history
  <2> QED BY <2>1, LetGoFrame
<1> QED BY <1>1, <1>2, <1>3

\* No step of a handler takes it back; it may add a row, or write "canceling".
LEMMA HandlerLetGo ==
  ASSUME StoreAssumption, Inv, NEW c \in Clients, Handler(c)
  PROVE  LetGoStep
<1>1. UNCHANGED workerVars
  BY DEF Handler
<1>2. CASE EnqueueInsert(c)
  <2> PICK id \in JobIds : InsertJob(id)
    BY <1>2 DEF EnqueueInsert
  <2>1. \A k \in DOMAIN jobs : jobs'[k] = jobs[k]
    BY InsertEffect DEF Inv, TypeOK
  <2> QED BY <1>1, <2>1 DEF workerVars, Inv, WorkerInv, RowsFitHistory, LetGoStep, LetGo
<1>3. CASE CancelWrite(c)
  <2>1. "Canceling" \in JobState
    BY DEF JobState
  <2>2. \A k \in DOMAIN jobs : k = conn[c].id => StateOf(k)' = "Canceling"
    BY <1>3, <2>1, UpdateEffect DEF CancelWrite, Inv, TypeOK, StateOf
  <2>3. \A k \in DOMAIN jobs : k # conn[c].id => jobs'[k] = jobs[k]
    BY <1>3 DEF CancelWrite, UpdateState
  <2> QED BY <1>1, <2>2, <2>3
             DEF workerVars, Inv, WorkerInv, RowsFitHistory, LetGoStep, LetGo
<1>4. CASE UNCHANGED jobs
  BY <1>1, <1>4, LetGoFrame DEF workerVars
<1> QED BY <1>2, <1>3, <1>4
           DEF Handler, HandlerStep, ScheduleReject, CancelRead, LogEvent, CountQueued,
               CountRunning, Respond, storeVars

\* Once the worker has let go of a job it never takes it again, and only a cancel
\* can still write its row.
THEOREM DaemonLetGoForGood == Spec => LetGoForGood
<1>1. ASSUME Inv, [Next]_vars PROVE LetGoStep
  <2> USE StoreAssumption
  <2>1. CASE Worker
    BY <1>1, <2>1, WorkerLetGo DEF Worker
  <2>2. ASSUME NEW c \in Clients, Handler(c) PROVE LetGoStep
    BY <1>1, <2>2, HandlerLetGo
  <2>3. CASE UNCHANGED <<jobs, begun>> /\ wjob' \in {wjob, NoJob}
    BY <2>3, LetGoFrame
  <2>4. CASE UNCHANGED vars \/ WorkerFault \/ BindSocket \/ Interrupt \/ Exit \/ Crash
             \/ Restart
    <3>1. UNCHANGED <<jobs, begun>> /\ wjob' \in {wjob, NoJob}
      BY <2>4 DEF vars, storeVars, workerVars, WorkerFault, BindSocket, Interrupt, Exit,
                  Crash, Restart, ProcessGone, Fail, Forget, localVars, history
    <3> QED BY <3>1, LetGoFrame
  <2>5. ASSUME NEW c \in Clients, Client(c) \/ Accept(c)
                                  \/ (HandlerFault(c) /\ UNCHANGED workerVars)
        PROVE  LetGoStep
    <3>1. UNCHANGED <<jobs, begun>> /\ wjob' \in {wjob, NoJob}
      BY <2>5 DEF Client, ClientStep, RequestSchedule, RequestCancel, RequestStatus, Send,
                  Accept, AcceptConn, HandlerFault, storeVars, workerVars
    <3> QED BY <3>1, LetGoFrame
  <2> QED BY <1>1, <2>1, <2>2, <2>4, <2>5 DEF Next
<1>2. Inv /\ [Next]_vars => [LetGoStep]_vars
  BY <1>1
<1>3. LetGoForGood <=> [][LetGoStep]_vars
  BY DEF LetGoForGood, LetGoStep
<1> QED BY <1>2, <1>3, Invariance, PTL DEF Spec
=============================================================================
