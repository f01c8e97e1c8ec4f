--------------------------- MODULE TwoDaemonsProofs ---------------------------
(***************************************************************************)
(* Two daemons on one database: TwoInv of TwoDaemons is inductive, and the *)
(* promises that are left follow from it, for any number of jobs, faults   *)
(* and outcomes of builds.                                                 *)
(***************************************************************************)
EXTENDS TwoDaemons, FiniteSetTheorems, TLAPS

-----------------------------------------------------------------------------
\* The store.

\* parse_state undoes state_name.
LEMMA ParseName ==
  ASSUME NEW s \in JobState
  PROVE  state_name[s] \in StateText /\ parse_state[state_name[s]] = s
  BY DEF JobState, StateText, state_name, parse_state

\* What next_queued finds is a queued row, and none that waits has an older stamp.
LEMMA NextWaits ==
  ASSUME StoreTypeOK, NEW id \in next_queued
  PROVE  /\ id \in DOMAIN jobs /\ StateOf(id) = "Queued"
         /\ \A k \in DOMAIN jobs :
              StateOf(k) = "Queued" => jobs[id].updated_at <= jobs[k].updated_at
<1>1. \A t \in StateText : parse_state[t] = "Queued" <=> t = "queued"
  BY DEF StateText, parse_state
<1> QED BY <1>1 DEF next_queued, StateOf, StoreTypeOK, Row

\* Recording an event keeps the log well formed.
LEMMA RecordEffect ==
  ASSUME StoreTypeOK, NEW id, NEW text \in StateText, record_event(id, text)
  PROVE  events' \in [JobIds -> Seq(StateText)]
<1>1. \A k \in JobIds : Append(events[k], text) \in Seq(StateText)
  BY DEF StoreTypeOK
<1> QED BY <1>1 DEF StoreTypeOK, record_event

\* UPDATE writes one row of a well-formed table and no other.
LEMMA UpdateEffect ==
  ASSUME StoreTypeOK, NEW id, NEW next \in JobState, UpdateState(id, next)
  PROVE  /\ DOMAIN jobs' = DOMAIN jobs
         /\ jobs' \in [DOMAIN jobs' -> Row]
         /\ \A k \in DOMAIN jobs : k # id => jobs'[k] = jobs[k]
         /\ \A k \in DOMAIN jobs : StateOf(k)' = IF k = id THEN next ELSE StateOf(k)
  BY ParseName DEF StoreTypeOK, UpdateState, Row, StateOf

\* Nothing that waits was in the table before the job that a worker picks was asked
\* for.
LEMMA NextCameFirst ==
  ASSUME TwoInv, NEW id \in next_queued
  PROVE  /\ StateOf(id) = "Queued"
         /\ \A k \in DOMAIN jobs : StateOf(k) = "Queued" => k \notin before[id]
<1>1. /\ id \in DOMAIN jobs /\ StateOf(id) = "Queued"
      /\ \A k \in DOMAIN jobs :
           StateOf(k) = "Queued" => jobs[id].updated_at <= jobs[k].updated_at
  BY NextWaits DEF TwoInv
<1>2. \A k \in DOMAIN jobs : jobs[k].updated_at \in Nat
  BY DEF TwoInv, StoreTypeOK, Row
<1>3. ASSUME NEW k \in DOMAIN jobs, StateOf(k) = "Queued", k \in before[id] PROVE FALSE
  <2>1. jobs[k].updated_at < jobs[id].updated_at
    BY <1>1, <1>3 DEF TwoInv, RowsInv, StampsOfRows
  <2> QED BY <1>1, <1>2, <1>3, <2>1
<1> QED BY <1>1, <1>3

-----------------------------------------------------------------------------
\* The rows.

\* No enqueue reads the clock or changes what it has read.
NothingStamped ==
  /\ handler' \in [Daemons -> Request]
  /\ \A d \in Daemons : handler'[d].pc = "insert" => handler'[d] = handler[d]
  /\ before' = before

\* A step that writes no row, and in which nothing is forgotten of the outcome of a
\* run, keeps what there is to say of the rows.
LEMMA RowsQuiet ==
  ASSUME TwoInv, UNCHANGED <<jobs, clock, begunA, begunB>>, NothingStamped,
         \A id \in JobIds : builtA'[id] = builtA[id] \/ builtA[id] = "none",
         \A id \in JobIds : builtB'[id] = builtB[id] \/ builtB[id] = "none"
  PROVE  RowsInv' /\ StampsToCome'
<1>1. \A id \in DOMAIN jobs : id \in JobIds
  BY DEF TwoInv, StoreTypeOK
<1>2. OutcomeOfSomeRun'
  BY <1>1 DEF TwoInv, RowsInv, OutcomeOfSomeRun, StateOf
<1>3. RowsFitHistory' /\ NobodyOvertakes' /\ StampsOfRows'
  BY DEF TwoInv, RowsInv, RowsFitHistory, NobodyOvertakes, StampsOfRows, StateOf,
         NothingStamped
<1>4. StampsToCome'
  BY DEF TwoInv, StampsToCome, StateOf, NothingStamped, Daemons
<1> QED BY <1>2, <1>3, <1>4 DEF RowsInv

\* A row that is written for a worker which has begun the job, with the outcome of its
\* run if it is one, or for a cancel, fits what has happened.
LEMMA RowsWritten ==
  ASSUME TwoInv, NEW id, NEW next \in JobState, next # "Queued", UpdateState(id, next),
         UNCHANGED <<clock, builtA, builtB>>, NothingStamped,
         begunA \cup begunB \subseteq begunA' \cup begunB',
         begunA' \cup begunB' \subseteq begunA \cup begunB \cup (DOMAIN jobs \cap {id}),
         next # "Canceling" => id \in begunA' \cup begunB',
         id \in begunA' \cup begunB' /\ id \notin begunA \cup begunB =>
           \A k \in DOMAIN jobs : StateOf(k) = "Queued" => k \notin before[id],
         next = "Succeeded" => "ok" \in {builtA[id], builtB[id]},
         next = "Failed" => "failed" \in {builtA[id], builtB[id]},
         next = "Canceled" => "canceled" \in {builtA[id], builtB[id]}
  PROVE  /\ DOMAIN jobs' = DOMAIN jobs /\ jobs' \in [DOMAIN jobs' -> Row]
         /\ RowsInv' /\ StampsToCome'
         /\ \A k \in DOMAIN jobs : StateOf(k)' = IF k = id THEN next ELSE StateOf(k)
<1>1. /\ DOMAIN jobs' = DOMAIN jobs /\ jobs' \in [DOMAIN jobs' -> Row]
      /\ \A k \in DOMAIN jobs : k # id => jobs'[k] = jobs[k]
      /\ \A k \in DOMAIN jobs : StateOf(k)' = IF k = id THEN next ELSE StateOf(k)
  BY UpdateEffect DEF TwoInv
<1>2. RowsFitHistory'
  BY <1>1 DEF TwoInv, RowsInv, RowsFitHistory
<1>3. StampsOfRows'
  BY <1>1 DEF TwoInv, RowsInv, StampsOfRows, NothingStamped
<1>4. StampsToCome'
  <2>1. ASSUME NEW d \in Daemons, handler'[d].pc = "insert"
        PROVE  /\ handler'[d].id \in JobIds \ DOMAIN jobs /\ handler'[d].now <= clock
               /\ \A k \in before[handler'[d].id] :
                    StateOf(k)' = "Queued" => jobs'[k].updated_at < handler'[d].now
    <3>1. handler'[d] = handler[d] /\ before[handler[d].id] \subseteq DOMAIN jobs
      BY <2>1 DEF NothingStamped, TwoInv, StampsToCome, RowsInv, StampsOfRows
    <3> QED BY <1>1, <2>1, <3>1 DEF TwoInv, StampsToCome
  <2>2. (\A d \in Daemons : handler'[d].pc = "insert") => handler'["A"].id # handler'["B"].id
    BY DEF TwoInv, StampsToCome, NothingStamped, Daemons
  <2> QED BY <1>1, <2>1, <2>2 DEF StampsToCome, NothingStamped
<1>5. OutcomeOfSomeRun'
  BY <1>1 DEF TwoInv, RowsInv, OutcomeOfSomeRun
<1>6. NobodyOvertakes'
  BY <1>1 DEF TwoInv, RowsInv, NobodyOvertakes, NothingStamped
<1> QED BY <1>1, <1>2, <1>3, <1>4, <1>5, <1>6 DEF RowsInv

-----------------------------------------------------------------------------
\* A worker that does not move.

\* What types a worker's locals stays when they do not change.
LEMMA WorkersTyped ==
  ASSUME TypeOK, UNCHANGED <<varsA, varsB>>
  PROVE  A!WorkerTypeOK' /\ B!WorkerTypeOK'
  BY DEF TypeOK, varsA, varsB, A!WorkerTypeOK, B!WorkerTypeOK

\* What a worker can rely on stays when rows are added and written.
LEMMA OwnBeside ==
  ASSUME OwnA, OwnB, UNCHANGED <<varsA, varsB>>, DOMAIN jobs \subseteq DOMAIN jobs'
  PROVE  OwnA' /\ OwnB'
<1>1. OwnA'
  BY DEF OwnA, varsA, A!HasJob, A!AtItsPlace, A!Marked, A!RunsCounted, A!AtMostOnce,
         A!NotBuiltYet, A!OutcomeKnown, A!Working, A!NextStates, A!is_terminal
<1>2. OwnB'
  BY DEF OwnB, varsB, B!HasJob, B!AtItsPlace, B!Marked, B!RunsCounted, B!AtMostOnce,
         B!NotBuiltYet, B!OutcomeKnown, B!Working, B!NextStates, B!is_terminal
<1> QED BY <1>1, <1>2

\* The handlers do not read the clock while a worker moves, or when one of them is gone
\* with its process.
LEMMA HandlersBeside ==
  ASSUME TypeOK, before' = before,
         \/ handler' = handler
         \/ \E d \in Daemons : handler' = [handler EXCEPT ![d] = NoRequest]
  PROVE  NothingStamped
<1>1. NoRequest \in Request /\ NoRequest.pc # "insert"
  BY DEF NoRequest, Request
<1> QED BY <1>1 DEF TypeOK, NothingStamped

-----------------------------------------------------------------------------
\* Daemon A.

\* What the worker of A writes in one of its steps: the row of its job, which it then
\* has begun, or no row.
LEMMA WritesOfA ==
  ASSUME A!WorkerStep
  PROVE  \/ /\ A!WriteState /\ wpcA = "update" /\ wpcA' = "event" /\ UpdateState(wjobA, wnextA)
            /\ UNCHANGED <<events, clock, arrival, faults, wjobA, wnextA, wexitA, runsA, builtA>>
            /\ begunA' = IF wnextA = "Preparing" THEN begunA \cup {wjobA} ELSE begunA
         \/ /\ ~A!WriteState /\ UNCHANGED <<jobs, clock, arrival, faults, begunA>>
            /\ \/ events' = events
               \/ wnextA \in JobState => \E text \in StateText : record_event(wjobA, text)
            /\ \/ builtA' = builtA
               \/ /\ wpcA = "build"
                  /\ \E r \in RuntimeExits : builtA' = [builtA EXCEPT ![wjobA] = r]
<1> USE DEF A!localVars, A!history, A!storeVars
<1>1. CASE A!WriteState
  BY <1>1 DEF A!WriteState, A!UpdateState, UpdateState, A!state_name, state_name
<1>2. CASE A!LogState
  <2>1. wnextA \in JobState => state_name[wnextA] \in StateText
    BY ParseName
  <2>2. record_event(wjobA, state_name[wnextA])
    BY <1>2 DEF A!LogState, A!record_event, record_event, A!state_name, state_name
  <2> QED BY <1>2, <2>1, <2>2 DEF A!LogState, A!WriteState
<1>3. CASE A!EndBuild
  BY <1>3 DEF A!EndBuild, A!WriteState
<1> QED BY <1>1, <1>2, <1>3
        DEF A!WorkerStep, A!DetectRuntime, A!OpenStore, A!NothingQueued, A!PickJob,
            A!CheckState, A!Prepare, A!StartBuild, A!Branch, A!Collect, A!Wake

\* Every statement of the worker of A keeps its types.
LEMMA TypesA ==
  ASSUME TwoInv, A!WorkerStep
  PROVE  A!WorkerTypeOK'
<1> USE DEF A!WorkerTypeOK
<1>1. wpcA \in A!WorkerPC /\ wjobA \in JobIds \cup {NoJob} /\ wnextA \in JobState
      /\ wexitA \in A!Exits /\ begunA \subseteq JobIds /\ runsA \in [JobIds -> Nat]
      /\ builtA \in [JobIds -> A!Exits]
  BY DEF TwoInv, TypeOK, A!JobState, JobState
<1>2. wpcA' \in A!WorkerPC
  BY <1>1 DEF A!WorkerStep, A!DetectRuntime, A!OpenStore, A!NothingQueued, A!PickJob,
         A!CheckState, A!WriteState, A!LogState, A!Prepare, A!StartBuild, A!EndBuild,
         A!Branch, A!Collect, A!Wake, A!BeginSetState, A!Fail, A!AfterSetState, A!WorkerPC
<1>3. wjobA' \in JobIds \cup {NoJob}
  BY <1>1 DEF A!WorkerStep, A!DetectRuntime, A!OpenStore, A!NothingQueued, A!PickJob,
         A!CheckState, A!WriteState, A!LogState, A!Prepare, A!StartBuild, A!EndBuild,
         A!Branch, A!Collect, A!Wake, A!Fail, A!Forget, A!localVars
<1>4. wnextA' \in A!JobState /\ wexitA' \in A!Exits
  BY <1>1, ExitsAssumption
     DEF A!WorkerStep, A!DetectRuntime, A!OpenStore, A!NothingQueued, A!PickJob,
         A!CheckState, A!WriteState, A!LogState, A!Prepare, A!StartBuild, A!EndBuild,
         A!Branch, A!Collect, A!Wake, A!BeginSetState, A!Fail, A!Forget, A!localVars,
         A!Exits, A!JobState, JobState, ExitsAssumption
<1>5. begunA' \subseteq JobIds
  <2>1. A!WriteState => wjobA \in JobIds
    BY <1>1 DEF A!WriteState, TwoInv, RunInv, OwnA, A!HasJob, A!Working
  <2> QED BY <1>1, <2>1, WritesOfA
<1>6. runsA' \in [JobIds -> Nat]
  BY <1>1 DEF A!WorkerStep, A!DetectRuntime, A!OpenStore, A!NothingQueued, A!PickJob,
         A!CheckState, A!WriteState, A!LogState, A!Prepare, A!StartBuild, A!EndBuild,
         A!Branch, A!Collect, A!Wake, A!history
<1>7. builtA' \in [JobIds -> A!Exits]
  BY <1>1, WritesOfA, ExitsAssumption DEF A!Exits, ExitsAssumption
<1> QED BY <1>2, <1>3, <1>4, <1>5, <1>6, <1>7

\* Every statement of the worker of A keeps what that worker can rely on.
LEMMA OwnStepA ==
  ASSUME TwoInv, A!WorkerStep
  PROVE  OwnA'
<1> USE DEF A!WorkerStep, A!DetectRuntime, A!OpenStore, A!NothingQueued, A!PickJob,
            A!CheckState, A!LogState, A!AfterSetState, A!Prepare, A!StartBuild, A!EndBuild,
            A!Branch, A!Collect, A!Wake, A!BeginSetState, A!Fail, A!Forget, A!localVars,
            A!history, A!storeVars, A!Working, A!HasJob, A!AtItsPlace, A!NextStates
<1>1. /\ A!HasJob /\ A!AtItsPlace /\ A!Marked /\ A!RunsCounted /\ A!NotBuiltYet
      /\ A!OutcomeKnown
      /\ wjobA \in JobIds \cup {NoJob} /\ NoJob \notin JobIds
      /\ runsA \in [JobIds -> Nat] /\ builtA \in [JobIds -> A!Exits]
  BY StoreAssumption DEF TwoInv, RunInv, OwnA, TypeOK, A!WorkerTypeOK, StoreAssumption
<1>2. CASE A!WriteState
  <2>1. DOMAIN jobs' = DOMAIN jobs
    BY <1>2, WritesOfA DEF UpdateState
  <2> QED BY <1>1, <1>2, <2>1 DEF A!WriteState, A!Marked, A!RunsCounted, A!AtMostOnce,
                                  A!NotBuiltYet, A!OutcomeKnown, OwnA
<1>3. CASE \E id \in JobIds : A!PickJob(id)
  <2>1. PICK id \in JobIds : A!PickJob(id)
    BY <1>3
  <2>2. id \in DOMAIN jobs /\ id \notin begunA
    BY <2>1, NextWaits DEF TwoInv, RowsInv, RowsFitHistory, A!next_queued, next_queued
  <2> HIDE DEF A!next_queued
  <2> QED BY <1>1, <2>1, <2>2 DEF A!Marked, A!RunsCounted, A!AtMostOnce, A!NotBuiltYet,
                                  A!OutcomeKnown, A!PickJob, OwnA
<1>4. CASE ~A!WriteState /\ ~\E id \in JobIds : A!PickJob(id)
  <2>1. A!HasJob'
    BY <1>1, <1>4
  <2>2. A!AtItsPlace'
    BY <1>1, <1>4 DEF A!is_terminal, A!Marked
  <2>3. A!Marked'
    BY <1>1, <1>4 DEF A!Marked
  <2>4. A!RunsCounted'
    BY <1>1, <1>4 DEF A!RunsCounted, A!AtMostOnce, A!Marked
  <2>5. A!NotBuiltYet'
    BY <1>1, <1>4 DEF A!NotBuiltYet, A!Marked
  <2>6. A!OutcomeKnown'
    BY <1>1, <1>4, ExitsAssumption DEF A!OutcomeKnown, ExitsAssumption
  <2> QED BY <2>1, <2>2, <2>3, <2>4, <2>5, <2>6 DEF OwnA
<1> QED BY <1>2, <1>3, <1>4

\* In a step of the worker of A that writes no row, its job is over only if it was, or
\* the other worker has begun it, and the job it picks came before all that wait.
LEMMA AheadA ==
  ASSUME TwoInv, A!WorkerStep, ~A!WriteState
  PROVE  /\ NotOverYet(wpcA', wjobA', wnextA', begunB)
         /\ PickedFirst(wpcA', wjobA', wnextA')
<1> USE DEF NotOverYet, PickedFirst
<1>1. /\ A!HasJob /\ A!AtItsPlace /\ A!Marked
      /\ NotOverYet(wpcA, wjobA, wnextA, begunB) /\ PickedFirst(wpcA, wjobA, wnextA)
  BY DEF TwoInv, RunInv, OwnA
<1>2. ASSUME NEW id \in JobIds, A!PickJob(id)
      PROVE  /\ NotOverYet(wpcA', wjobA', wnextA', begunB)
             /\ PickedFirst(wpcA', wjobA', wnextA')
  <2>1. id \in next_queued /\ wpcA' = "read" /\ wjobA' = id /\ wnextA' = "Preparing"
    BY <1>2 DEF A!PickJob, A!BeginSetState, A!next_queued, next_queued
  <2>2. /\ StateOf(id) = "Queued"
        /\ \A k \in DOMAIN jobs : StateOf(k) = "Queued" => k \notin before[id]
    BY <2>1, NextCameFirst
  <2> QED BY <2>1, <2>2 DEF is_terminal
<1>3. CASE ~\E id \in JobIds : A!PickJob(id)
  BY <1>1, <1>3
     DEF A!WorkerStep, A!DetectRuntime, A!OpenStore, A!NothingQueued, A!CheckState,
         A!LogState, A!AfterSetState, A!Prepare, A!StartBuild, A!EndBuild, A!Branch,
         A!Collect, A!Wake, A!BeginSetState, A!Fail, A!Forget, A!localVars, A!Working,
         A!HasJob, A!AtItsPlace, A!NextStates, A!Marked, is_terminal, A!is_terminal
<1> QED BY <1>2, <1>3

\* A step of daemon A that writes no row keeps the invariant.
LEMMA QuietA ==
  ASSUME TwoInv, OwnA', A!WorkerTypeOK', UNCHANGED varsB, NothingStamped,
         UNCHANGED <<jobs, clock, arrival, begunA>>,
         faults' \in 0 .. MaxFaults, events' \in [JobIds -> Seq(StateText)],
         \/ builtA' = builtA
         \/ wpcA = "build" /\ \E r \in RuntimeExits : builtA' = [builtA EXCEPT ![wjobA] = r],
         NotOverYet(wpcA', wjobA', wnextA', begunB), PickedFirst(wpcA', wjobA', wnextA')
  PROVE  TwoInv'
<1>1. StoreTypeOK' /\ TypeOK'
  <2>1. B!WorkerTypeOK'
    BY DEF TwoInv, TypeOK, varsB, B!WorkerTypeOK, B!JobState
  <2> QED BY <2>1 DEF TwoInv, StoreTypeOK, TypeOK, NothingStamped
<1>2. \A id \in JobIds : builtA'[id] = builtA[id] \/ builtA[id] = "none"
  BY DEF TwoInv, RunInv, OwnA, A!NotBuiltYet, A!HasJob, A!AtItsPlace, A!Working, TypeOK,
         A!WorkerTypeOK
<1>3. RowsInv' /\ StampsToCome'
  BY <1>2, RowsQuiet DEF varsB
<1>4. OwnB'
  BY DEF TwoInv, RunInv, OwnB, varsB, B!HasJob, B!AtItsPlace, B!Marked, B!RunsCounted,
         B!AtMostOnce, B!NotBuiltYet, B!OutcomeKnown, B!Working, B!NextStates,
         B!is_terminal
<1>5. RunInv'
  BY <1>4 DEF TwoInv, RunInv, varsB, NotOverYet, PickedFirst, StateOf, NothingStamped
<1> QED BY <1>1, <1>3, <1>5 DEF TwoInv

\* The worker of A writes the row of its job.
LEMMA WriteA ==
  ASSUME TwoInv, A!WorkerStep, A!WriteState, UNCHANGED varsB, NothingStamped
  PROVE  TwoInv'
<1>1. /\ A!WorkerTypeOK' /\ OwnA'
      /\ A!HasJob /\ A!AtItsPlace /\ A!Marked /\ A!OutcomeKnown
      /\ PickedFirst(wpcA, wjobA, wnextA)
  BY TypesA, OwnStepA DEF TwoInv, RunInv, OwnA
<1>2. /\ wpcA = "update" /\ wpcA' = "event" /\ UpdateState(wjobA, wnextA)
      /\ UNCHANGED <<events, clock, arrival, faults, wjobA, wnextA, builtA>>
      /\ begunA' = IF wnextA = "Preparing" THEN begunA \cup {wjobA} ELSE begunA
  BY WritesOfA DEF A!WriteState
<1>3. /\ wjobA \in DOMAIN jobs /\ wjobA # NoJob /\ wnextA \in JobState \ {"Queued", "Canceling"}
      /\ begunA' = begunA \cup {wjobA}
      /\ wjobA \notin begunA => wnextA = "Preparing"
  BY <1>1, <1>2 DEF A!HasJob, A!AtItsPlace, A!NextStates, A!Marked, A!Working, JobState
<1>4. /\ wnextA = "Succeeded" => builtA[wjobA] = "ok"
      /\ wnextA = "Failed" => builtA[wjobA] = "failed"
      /\ wnextA = "Canceled" => builtA[wjobA] = "canceled"
  BY <1>1, <1>3 DEF A!OutcomeKnown, A!Working
<1>5. \A k \in DOMAIN jobs :
        wjobA \notin begunA /\ StateOf(k) = "Queued" => k \notin before[wjobA]
  BY <1>1, <1>2, <1>3 DEF PickedFirst
<1>6. /\ DOMAIN jobs' = DOMAIN jobs /\ jobs' \in [DOMAIN jobs' -> Row]
      /\ RowsInv' /\ StampsToCome'
      /\ \A k \in DOMAIN jobs : StateOf(k)' = IF k = wjobA THEN wnextA ELSE StateOf(k)
  BY <1>2, <1>3, <1>4, <1>5, RowsWritten DEF varsB
<1>7. StoreTypeOK' /\ TypeOK'
  <2>1. B!WorkerTypeOK'
    BY DEF TwoInv, TypeOK, varsB, B!WorkerTypeOK, B!JobState
  <2> QED BY <1>1, <1>2, <1>6, <2>1 DEF TwoInv, StoreTypeOK, TypeOK, NothingStamped
<1>8. OwnB'
  BY <1>6 DEF TwoInv, RunInv, OwnB, varsB, B!HasJob, B!AtItsPlace, B!Marked, B!RunsCounted,
         B!AtMostOnce, B!NotBuiltYet, B!OutcomeKnown, B!Working, B!NextStates,
         B!is_terminal
<1>9. NotOverYet(wpcB, wjobB, wnextB, begunA)' /\ PickedFirst(wpcB, wjobB, wnextB)'
  BY <1>2, <1>3, <1>6
     DEF TwoInv, RunInv, OwnB, varsB, B!Marked, B!Working, NotOverYet, PickedFirst,
         NothingStamped
<1>10. NotOverYet(wpcA, wjobA, wnextA, begunB)' /\ PickedFirst(wpcA, wjobA, wnextA)'
  BY <1>2, <1>3, <1>6 DEF varsB, NotOverYet, PickedFirst, NothingStamped
<1>11. RunInv'
  BY <1>1, <1>8, <1>9, <1>10 DEF RunInv
<1> QED BY <1>6, <1>7, <1>11 DEF TwoInv

\* Every step of daemon A keeps the invariant.
LEMMA StepA ==
  ASSUME TwoInv, WorkerA \/ DownA \/ UpA, UNCHANGED varsB
  PROVE  TwoInv'
<1>0. NothingStamped
  BY HandlersBeside DEF TwoInv, Daemons, WorkerA, DownA, UpA, handlerVars
<1>1. CASE A!WorkerStep /\ A!WriteState
  BY <1>0, <1>1, WriteA
<1>2. CASE A!WorkerStep /\ ~A!WriteState
  <2>1. /\ OwnA' /\ A!WorkerTypeOK'
        /\ NotOverYet(wpcA', wjobA', wnextA', begunB) /\ PickedFirst(wpcA', wjobA', wnextA')
    BY <1>2, OwnStepA, TypesA, AheadA
  <2>2. /\ UNCHANGED <<jobs, clock, arrival, faults, begunA>>
        /\ \/ events' = events
           \/ wnextA \in JobState => \E text \in StateText : record_event(wjobA, text)
        /\ \/ builtA' = builtA
           \/ wpcA = "build" /\ \E r \in RuntimeExits : builtA' = [builtA EXCEPT ![wjobA] = r]
    BY <1>2, WritesOfA
  <2>3. events' \in [JobIds -> Seq(StateText)] /\ faults' \in 0 .. MaxFaults
    BY <2>2, RecordEffect DEF TwoInv, StoreTypeOK, TypeOK, A!WorkerTypeOK, A!JobState, JobState
  <2> QED BY <2>1, <2>2, <2>3, <1>0, QuietA
<1>3. CASE A!WorkerFault \/ DownA \/ UpA
  <2>1. /\ UNCHANGED <<jobs, events, clock, arrival, historyA>>
        /\ \/ wjobA' = NoJob /\ wnextA' = "Queued" /\ wexitA' = "none"
           \/ wpcA = "down" /\ UNCHANGED <<wjobA, wnextA, wexitA>>
        /\ wpcA' \in {"exit", "down", "start"}
        /\ faults' \in 0 .. MaxFaults
    BY <1>3, StoreAssumption DEF A!WorkerFault, A!Fault, A!Fail, A!Forget, DownA, UpA, Fault, localsA, historyA,
                A!history, storeVars, TwoInv, StoreTypeOK, StoreAssumption
  <2>2. wjobA' = NoJob
    BY <2>1 DEF TwoInv, RunInv, OwnA, A!HasJob, A!Working
  <2>3. OwnA'
    BY <2>1, <2>2
       DEF TwoInv, RunInv, OwnA, historyA, A!HasJob, A!AtItsPlace, A!Marked, A!RunsCounted,
           A!AtMostOnce, A!NotBuiltYet, A!OutcomeKnown, A!Working
  <2>4. A!WorkerTypeOK'
    BY <2>1, <2>2 DEF TwoInv, TypeOK, historyA, A!WorkerTypeOK, A!WorkerPC, A!JobState,
                      A!Exits
  <2>5. /\ NotOverYet(wpcA', wjobA', wnextA', begunB) /\ PickedFirst(wpcA', wjobA', wnextA')
        /\ events' \in [JobIds -> Seq(StateText)]
    BY <2>1, <2>2 DEF NotOverYet, PickedFirst, TwoInv, StoreTypeOK
  <2> QED BY <1>0, <2>1, <2>2, <2>3, <2>4, <2>5, QuietA DEF historyA
<1> QED BY <1>1, <1>2, <1>3 DEF WorkerA

-----------------------------------------------------------------------------
\* Daemon B, which is like A.

\* What the worker of B writes in one of its steps: the row of its job, which it then
\* has begun, or no row.
LEMMA WritesOfB ==
  ASSUME B!WorkerStep
  PROVE  \/ /\ B!WriteState /\ wpcB = "update" /\ wpcB' = "event" /\ UpdateState(wjobB, wnextB)
            /\ UNCHANGED <<events, clock, arrival, faults, wjobB, wnextB, wexitB, runsB, builtB>>
            /\ begunB' = IF wnextB = "Preparing" THEN begunB \cup {wjobB} ELSE begunB
         \/ /\ ~B!WriteState /\ UNCHANGED <<jobs, clock, arrival, faults, begunB>>
            /\ \/ events' = events
               \/ wnextB \in JobState => \E text \in StateText : record_event(wjobB, text)
            /\ \/ builtB' = builtB
               \/ /\ wpcB = "build"
                  /\ \E r \in RuntimeExits : builtB' = [builtB EXCEPT ![wjobB] = r]
<1> USE DEF B!localVars, B!history, B!storeVars
<1>1. CASE B!WriteState
  BY <1>1 DEF B!WriteState, B!UpdateState, UpdateState, B!state_name, state_name
<1>2. CASE B!LogState
  <2>1. wnextB \in JobState => state_name[wnextB] \in StateText
    BY ParseName
  <2>2. record_event(wjobB, state_name[wnextB])
    BY <1>2 DEF B!LogState, B!record_event, record_event, B!state_name, state_name
  <2> QED BY <1>2, <2>1, <2>2 DEF B!LogState, B!WriteState
<1>3. CASE B!EndBuild
  BY <1>3 DEF B!EndBuild, B!WriteState
<1> QED BY <1>1, <1>2, <1>3
        DEF B!WorkerStep, B!DetectRuntime, B!OpenStore, B!NothingQueued, B!PickJob,
            B!CheckState, B!Prepare, B!StartBuild, B!Branch, B!Collect, B!Wake

\* Every statement of the worker of B keeps its types.
LEMMA TypesB ==
  ASSUME TwoInv, B!WorkerStep
  PROVE  B!WorkerTypeOK'
<1> USE DEF B!WorkerTypeOK
<1>1. wpcB \in B!WorkerPC /\ wjobB \in JobIds \cup {NoJob} /\ wnextB \in JobState
      /\ wexitB \in B!Exits /\ begunB \subseteq JobIds /\ runsB \in [JobIds -> Nat]
      /\ builtB \in [JobIds -> B!Exits]
  BY DEF TwoInv, TypeOK, B!JobState, JobState
<1>2. wpcB' \in B!WorkerPC
  BY <1>1 DEF B!WorkerStep, B!DetectRuntime, B!OpenStore, B!NothingQueued, B!PickJob,
         B!CheckState, B!WriteState, B!LogState, B!Prepare, B!StartBuild, B!EndBuild,
         B!Branch, B!Collect, B!Wake, B!BeginSetState, B!Fail, B!AfterSetState, B!WorkerPC
<1>3. wjobB' \in JobIds \cup {NoJob}
  BY <1>1 DEF B!WorkerStep, B!DetectRuntime, B!OpenStore, B!NothingQueued, B!PickJob,
         B!CheckState, B!WriteState, B!LogState, B!Prepare, B!StartBuild, B!EndBuild,
         B!Branch, B!Collect, B!Wake, B!Fail, B!Forget, B!localVars
<1>4. wnextB' \in B!JobState /\ wexitB' \in B!Exits
  BY <1>1, ExitsAssumption
     DEF B!WorkerStep, B!DetectRuntime, B!OpenStore, B!NothingQueued, B!PickJob,
         B!CheckState, B!WriteState, B!LogState, B!Prepare, B!StartBuild, B!EndBuild,
         B!Branch, B!Collect, B!Wake, B!BeginSetState, B!Fail, B!Forget, B!localVars,
         B!Exits, B!JobState, JobState, ExitsAssumption
<1>5. begunB' \subseteq JobIds
  <2>1. B!WriteState => wjobB \in JobIds
    BY <1>1 DEF B!WriteState, TwoInv, RunInv, OwnB, B!HasJob, B!Working
  <2> QED BY <1>1, <2>1, WritesOfB
<1>6. runsB' \in [JobIds -> Nat]
  BY <1>1 DEF B!WorkerStep, B!DetectRuntime, B!OpenStore, B!NothingQueued, B!PickJob,
         B!CheckState, B!WriteState, B!LogState, B!Prepare, B!StartBuild, B!EndBuild,
         B!Branch, B!Collect, B!Wake, B!history
<1>7. builtB' \in [JobIds -> B!Exits]
  BY <1>1, WritesOfB, ExitsAssumption DEF B!Exits, ExitsAssumption
<1> QED BY <1>2, <1>3, <1>4, <1>5, <1>6, <1>7

\* Every statement of the worker of B keeps what that worker can rely on.
LEMMA OwnStepB ==
  ASSUME TwoInv, B!WorkerStep
  PROVE  OwnB'
<1> USE DEF B!WorkerStep, B!DetectRuntime, B!OpenStore, B!NothingQueued, B!PickJob,
            B!CheckState, B!LogState, B!AfterSetState, B!Prepare, B!StartBuild, B!EndBuild,
            B!Branch, B!Collect, B!Wake, B!BeginSetState, B!Fail, B!Forget, B!localVars,
            B!history, B!storeVars, B!Working, B!HasJob, B!AtItsPlace, B!NextStates
<1>1. /\ B!HasJob /\ B!AtItsPlace /\ B!Marked /\ B!RunsCounted /\ B!NotBuiltYet
      /\ B!OutcomeKnown
      /\ wjobB \in JobIds \cup {NoJob} /\ NoJob \notin JobIds
      /\ runsB \in [JobIds -> Nat] /\ builtB \in [JobIds -> B!Exits]
  BY StoreAssumption DEF TwoInv, RunInv, OwnB, TypeOK, B!WorkerTypeOK, StoreAssumption
<1>2. CASE B!WriteState
  <2>1. DOMAIN jobs' = DOMAIN jobs
    BY <1>2, WritesOfB DEF UpdateState
  <2> QED BY <1>1, <1>2, <2>1 DEF B!WriteState, B!Marked, B!RunsCounted, B!AtMostOnce,
                                  B!NotBuiltYet, B!OutcomeKnown, OwnB
<1>3. CASE \E id \in JobIds : B!PickJob(id)
  <2>1. PICK id \in JobIds : B!PickJob(id)
    BY <1>3
  <2>2. id \in DOMAIN jobs /\ id \notin begunB
    BY <2>1, NextWaits DEF TwoInv, RowsInv, RowsFitHistory, B!next_queued, next_queued
  <2> HIDE DEF B!next_queued
  <2> QED BY <1>1, <2>1, <2>2 DEF B!Marked, B!RunsCounted, B!AtMostOnce, B!NotBuiltYet,
                                  B!OutcomeKnown, B!PickJob, OwnB
<1>4. CASE ~B!WriteState /\ ~\E id \in JobIds : B!PickJob(id)
  <2>1. B!HasJob'
    BY <1>1, <1>4
  <2>2. B!AtItsPlace'
    BY <1>1, <1>4 DEF B!is_terminal, B!Marked
  <2>3. B!Marked'
    BY <1>1, <1>4 DEF B!Marked
  <2>4. B!RunsCounted'
    BY <1>1, <1>4 DEF B!RunsCounted, B!AtMostOnce, B!Marked
  <2>5. B!NotBuiltYet'
    BY <1>1, <1>4 DEF B!NotBuiltYet, B!Marked
  <2>6. B!OutcomeKnown'
    BY <1>1, <1>4, ExitsAssumption DEF B!OutcomeKnown, ExitsAssumption
  <2> QED BY <2>1, <2>2, <2>3, <2>4, <2>5, <2>6 DEF OwnB
<1> QED BY <1>2, <1>3, <1>4

\* In a step of the worker of B that writes no row, its job is over only if it was, or
\* the other worker has begun it, and the job it picks came before all that wait.
LEMMA AheadB ==
  ASSUME TwoInv, B!WorkerStep, ~B!WriteState
  PROVE  /\ NotOverYet(wpcB', wjobB', wnextB', begunA)
         /\ PickedFirst(wpcB', wjobB', wnextB')
<1> USE DEF NotOverYet, PickedFirst
<1>1. /\ B!HasJob /\ B!AtItsPlace /\ B!Marked
      /\ NotOverYet(wpcB, wjobB, wnextB, begunA) /\ PickedFirst(wpcB, wjobB, wnextB)
  BY DEF TwoInv, RunInv, OwnB
<1>2. ASSUME NEW id \in JobIds, B!PickJob(id)
      PROVE  /\ NotOverYet(wpcB', wjobB', wnextB', begunA)
             /\ PickedFirst(wpcB', wjobB', wnextB')
  <2>1. id \in next_queued /\ wpcB' = "read" /\ wjobB' = id /\ wnextB' = "Preparing"
    BY <1>2 DEF B!PickJob, B!BeginSetState, B!next_queued, next_queued
  <2>2. /\ StateOf(id) = "Queued"
        /\ \A k \in DOMAIN jobs : StateOf(k) = "Queued" => k \notin before[id]
    BY <2>1, NextCameFirst
  <2> QED BY <2>1, <2>2 DEF is_terminal
<1>3. CASE ~\E id \in JobIds : B!PickJob(id)
  BY <1>1, <1>3
     DEF B!WorkerStep, B!DetectRuntime, B!OpenStore, B!NothingQueued, B!CheckState,
         B!LogState, B!AfterSetState, B!Prepare, B!StartBuild, B!EndBuild, B!Branch,
         B!Collect, B!Wake, B!BeginSetState, B!Fail, B!Forget, B!localVars, B!Working,
         B!HasJob, B!AtItsPlace, B!NextStates, B!Marked, is_terminal, B!is_terminal
<1> QED BY <1>2, <1>3

\* A step of daemon B that writes no row keeps the invariant.
LEMMA QuietB ==
  ASSUME TwoInv, OwnB', B!WorkerTypeOK', UNCHANGED varsA, NothingStamped,
         UNCHANGED <<jobs, clock, arrival, begunB>>,
         faults' \in 0 .. MaxFaults, events' \in [JobIds -> Seq(StateText)],
         \/ builtB' = builtB
         \/ wpcB = "build" /\ \E r \in RuntimeExits : builtB' = [builtB EXCEPT ![wjobB] = r],
         NotOverYet(wpcB', wjobB', wnextB', begunA), PickedFirst(wpcB', wjobB', wnextB')
  PROVE  TwoInv'
<1>1. StoreTypeOK' /\ TypeOK'
  <2>1. A!WorkerTypeOK'
    BY DEF TwoInv, TypeOK, varsA, A!WorkerTypeOK, A!JobState
  <2> QED BY <2>1 DEF TwoInv, StoreTypeOK, TypeOK, NothingStamped
<1>2. \A id \in JobIds : builtB'[id] = builtB[id] \/ builtB[id] = "none"
  BY DEF TwoInv, RunInv, OwnB, B!NotBuiltYet, B!HasJob, B!AtItsPlace, B!Working, TypeOK,
         B!WorkerTypeOK
<1>3. RowsInv' /\ StampsToCome'
  BY <1>2, RowsQuiet DEF varsA
<1>4. OwnA'
  BY DEF TwoInv, RunInv, OwnA, varsA, A!HasJob, A!AtItsPlace, A!Marked, A!RunsCounted,
         A!AtMostOnce, A!NotBuiltYet, A!OutcomeKnown, A!Working, A!NextStates,
         A!is_terminal
<1>5. RunInv'
  BY <1>4 DEF TwoInv, RunInv, varsA, NotOverYet, PickedFirst, StateOf, NothingStamped
<1> QED BY <1>1, <1>3, <1>5 DEF TwoInv

\* The worker of B writes the row of its job.
LEMMA WriteB ==
  ASSUME TwoInv, B!WorkerStep, B!WriteState, UNCHANGED varsA, NothingStamped
  PROVE  TwoInv'
<1>1. /\ B!WorkerTypeOK' /\ OwnB'
      /\ B!HasJob /\ B!AtItsPlace /\ B!Marked /\ B!OutcomeKnown
      /\ PickedFirst(wpcB, wjobB, wnextB)
  BY TypesB, OwnStepB DEF TwoInv, RunInv, OwnB
<1>2. /\ wpcB = "update" /\ wpcB' = "event" /\ UpdateState(wjobB, wnextB)
      /\ UNCHANGED <<events, clock, arrival, faults, wjobB, wnextB, builtB>>
      /\ begunB' = IF wnextB = "Preparing" THEN begunB \cup {wjobB} ELSE begunB
  BY WritesOfB DEF B!WriteState
<1>3. /\ wjobB \in DOMAIN jobs /\ wjobB # NoJob /\ wnextB \in JobState \ {"Queued", "Canceling"}
      /\ begunB' = begunB \cup {wjobB}
      /\ wjobB \notin begunB => wnextB = "Preparing"
  BY <1>1, <1>2 DEF B!HasJob, B!AtItsPlace, B!NextStates, B!Marked, B!Working, JobState
<1>4. /\ wnextB = "Succeeded" => builtB[wjobB] = "ok"
      /\ wnextB = "Failed" => builtB[wjobB] = "failed"
      /\ wnextB = "Canceled" => builtB[wjobB] = "canceled"
  BY <1>1, <1>3 DEF B!OutcomeKnown, B!Working
<1>5. \A k \in DOMAIN jobs :
        wjobB \notin begunB /\ StateOf(k) = "Queued" => k \notin before[wjobB]
  BY <1>1, <1>2, <1>3 DEF PickedFirst
<1>6. /\ DOMAIN jobs' = DOMAIN jobs /\ jobs' \in [DOMAIN jobs' -> Row]
      /\ RowsInv' /\ StampsToCome'
      /\ \A k \in DOMAIN jobs : StateOf(k)' = IF k = wjobB THEN wnextB ELSE StateOf(k)
  BY <1>2, <1>3, <1>4, <1>5, RowsWritten DEF varsA
<1>7. StoreTypeOK' /\ TypeOK'
  <2>1. A!WorkerTypeOK'
    BY DEF TwoInv, TypeOK, varsA, A!WorkerTypeOK, A!JobState
  <2> QED BY <1>1, <1>2, <1>6, <2>1 DEF TwoInv, StoreTypeOK, TypeOK, NothingStamped
<1>8. OwnA'
  BY <1>6 DEF TwoInv, RunInv, OwnA, varsA, A!HasJob, A!AtItsPlace, A!Marked, A!RunsCounted,
         A!AtMostOnce, A!NotBuiltYet, A!OutcomeKnown, A!Working, A!NextStates,
         A!is_terminal
<1>9. NotOverYet(wpcA, wjobA, wnextA, begunB)' /\ PickedFirst(wpcA, wjobA, wnextA)'
  BY <1>2, <1>3, <1>6
     DEF TwoInv, RunInv, OwnA, varsA, A!Marked, A!Working, NotOverYet, PickedFirst,
         NothingStamped
<1>10. NotOverYet(wpcB, wjobB, wnextB, begunA)' /\ PickedFirst(wpcB, wjobB, wnextB)'
  BY <1>2, <1>3, <1>6 DEF varsA, NotOverYet, PickedFirst, NothingStamped
<1>11. RunInv'
  BY <1>1, <1>8, <1>9, <1>10 DEF RunInv
<1> QED BY <1>6, <1>7, <1>11 DEF TwoInv

\* Every step of daemon B keeps the invariant.
LEMMA StepB ==
  ASSUME TwoInv, WorkerB \/ DownB \/ UpB, UNCHANGED varsA
  PROVE  TwoInv'
<1>0. NothingStamped
  BY HandlersBeside DEF TwoInv, Daemons, WorkerB, DownB, UpB, handlerVars
<1>1. CASE B!WorkerStep /\ B!WriteState
  BY <1>0, <1>1, WriteB
<1>2. CASE B!WorkerStep /\ ~B!WriteState
  <2>1. /\ OwnB' /\ B!WorkerTypeOK'
        /\ NotOverYet(wpcB', wjobB', wnextB', begunA) /\ PickedFirst(wpcB', wjobB', wnextB')
    BY <1>2, OwnStepB, TypesB, AheadB
  <2>2. /\ UNCHANGED <<jobs, clock, arrival, faults, begunB>>
        /\ \/ events' = events
           \/ wnextB \in JobState => \E text \in StateText : record_event(wjobB, text)
        /\ \/ builtB' = builtB
           \/ wpcB = "build" /\ \E r \in RuntimeExits : builtB' = [builtB EXCEPT ![wjobB] = r]
    BY <1>2, WritesOfB
  <2>3. events' \in [JobIds -> Seq(StateText)] /\ faults' \in 0 .. MaxFaults
    BY <2>2, RecordEffect DEF TwoInv, StoreTypeOK, TypeOK, B!WorkerTypeOK, B!JobState, JobState
  <2> QED BY <2>1, <2>2, <2>3, <1>0, QuietB
<1>3. CASE B!WorkerFault \/ DownB \/ UpB
  <2>1. /\ UNCHANGED <<jobs, events, clock, arrival, historyB>>
        /\ \/ wjobB' = NoJob /\ wnextB' = "Queued" /\ wexitB' = "none"
           \/ wpcB = "down" /\ UNCHANGED <<wjobB, wnextB, wexitB>>
        /\ wpcB' \in {"exit", "down", "start"}
        /\ faults' \in 0 .. MaxFaults
    BY <1>3, StoreAssumption DEF B!WorkerFault, B!Fault, B!Fail, B!Forget, DownB, UpB, Fault, localsB, historyB,
                B!history, storeVars, TwoInv, StoreTypeOK, StoreAssumption
  <2>2. wjobB' = NoJob
    BY <2>1 DEF TwoInv, RunInv, OwnB, B!HasJob, B!Working
  <2>3. OwnB'
    BY <2>1, <2>2
       DEF TwoInv, RunInv, OwnB, historyB, B!HasJob, B!AtItsPlace, B!Marked, B!RunsCounted,
           B!AtMostOnce, B!NotBuiltYet, B!OutcomeKnown, B!Working
  <2>4. B!WorkerTypeOK'
    BY <2>1, <2>2 DEF TwoInv, TypeOK, historyB, B!WorkerTypeOK, B!WorkerPC, B!JobState,
                      B!Exits
  <2>5. /\ NotOverYet(wpcB', wjobB', wnextB', begunA) /\ PickedFirst(wpcB', wjobB', wnextB')
        /\ events' \in [JobIds -> Seq(StateText)]
    BY <2>1, <2>2 DEF NotOverYet, PickedFirst, TwoInv, StoreTypeOK
  <2> QED BY <1>0, <2>1, <2>2, <2>3, <2>4, <2>5, QuietB DEF historyB
<1> QED BY <1>1, <1>2, <1>3 DEF WorkerB

-----------------------------------------------------------------------------
\* The handlers.

\* Beside the workers an enqueue gets its time.
LEMMA StampStep ==
  ASSUME TwoInv, NEW d \in Daemons, NEW id \in JobIds, Stamp(d, id),
         UNCHANGED <<varsA, varsB>>
  PROVE  TwoInv'
<1>1. /\ id \notin DOMAIN jobs /\ \A e \in Daemons : handler[e].id # id
      /\ clock \in Nat /\ clock' \in Nat /\ clock < clock'
      /\ UNCHANGED <<jobs, events, arrival, faults>>
      /\ \A i \in JobIds : before'[i] = IF i = id THEN DOMAIN jobs ELSE before[i]
      /\ before' \in [JobIds -> SUBSET JobIds]
  BY StoreAssumption DEF Stamp, StoreAssumption, TwoInv, StoreTypeOK, TypeOK
<1>2. /\ handler' \in [Daemons -> Request] /\ handler'[d].id = id /\ handler'[d].now = clock'
      /\ \A e \in Daemons \ {d} : handler'[e] = handler[e]
  BY <1>1 DEF Stamp, TwoInv, TypeOK, Request
<1>3. StoreTypeOK' /\ TypeOK'
  BY <1>1, <1>2, WorkersTyped DEF TwoInv, StoreTypeOK, TypeOK
<1>4. \A k \in DOMAIN jobs : /\ k \in JobIds /\ k # id /\ jobs[k].updated_at \in Nat
                            /\ StateOf(k)' = StateOf(k)
  BY <1>1 DEF TwoInv, StoreTypeOK, Row, StateOf
<1>5. RowsFitHistory' /\ OutcomeOfSomeRun' /\ NobodyOvertakes'
  BY <1>1, <1>4 DEF TwoInv, RowsInv, RowsFitHistory, OutcomeOfSomeRun, NobodyOvertakes,
                    varsA, varsB
<1>6. StampsOfRows'
  BY <1>1, <1>4 DEF TwoInv, RowsInv, StampsOfRows
<1>7. StampsToCome'
  <2>1. ASSUME NEW e \in Daemons, handler'[e].pc = "insert"
        PROVE  /\ handler'[e].id \in JobIds \ DOMAIN jobs' /\ handler'[e].now <= clock'
               /\ \A k \in before'[handler'[e].id] :
                    StateOf(k)' = "Queued" => jobs'[k].updated_at < handler'[e].now
    <3>1. CASE e = d
      BY <1>1, <1>2, <1>4, <3>1 DEF TwoInv, RowsInv, StampsOfRows
    <3>2. CASE e # d
      <4>1. /\ handler'[e] = handler[e] /\ handler[e].id \in JobIds \ DOMAIN jobs
            /\ handler[e].now <= clock /\ handler[e].now \in Nat
            /\ before[handler[e].id] \subseteq DOMAIN jobs
            /\ \A k \in before[handler[e].id] :
                 StateOf(k) = "Queued" => jobs[k].updated_at < handler[e].now
        BY <1>2, <2>1, <3>2 DEF TwoInv, StampsToCome, RowsInv, StampsOfRows, TypeOK, Request
      <4> QED BY <1>1, <1>4, <4>1
    <3> QED BY <3>1, <3>2
  <2>2. handler'["A"].id # handler'["B"].id \/ handler'["A"].pc # "insert"
        \/ handler'["B"].pc # "insert"
    BY <1>1, <1>2 DEF Daemons
  <2> QED BY <2>1, <2>2 DEF StampsToCome, Daemons
<1>8. RunInv'
  <2>1. OwnA' /\ OwnB'
    BY <1>1, OwnBeside DEF TwoInv, RunInv
  <2>2. /\ wjobA # NoJob => wjobA \in DOMAIN jobs
        /\ wjobB # NoJob => wjobB \in DOMAIN jobs
    BY DEF TwoInv, RunInv, OwnA, OwnB, A!Marked, B!Marked, A!Working, B!Working
  <2> QED BY <1>1, <1>4, <2>1, <2>2 DEF TwoInv, RunInv, NotOverYet, PickedFirst, varsA, varsB
<1> QED BY <1>3, <1>5, <1>6, <1>7, <1>8 DEF TwoInv, RowsInv

\* Beside the workers a row is inserted, maybe later than one with a later time.
LEMMA InsertStep ==
  ASSUME TwoInv, NEW d \in Daemons, Insert(d), UNCHANGED <<varsA, varsB>>
  PROVE  TwoInv'
<1>0. PICK id \in JobIds : id = handler[d].id /\ handler[d].pc = "insert"
  BY DEF Insert, TwoInv, StampsToCome
<1>1. /\ id \in JobIds /\ id \notin DOMAIN jobs /\ DOMAIN jobs' = DOMAIN jobs \cup {id}
      /\ \A k \in DOMAIN jobs : jobs'[k] = jobs[k]
      /\ jobs'[id] = [state |-> "queued", updated_at |-> handler[d].now]
      /\ handler[d].now \in Nat /\ clock \in Nat /\ handler[d].now <= clock
      /\ UNCHANGED <<events, clock, faults, before>>
  BY <1>0 DEF Insert, InsertAt, state_name, TwoInv, StoreTypeOK, TypeOK, Request, StampsToCome
<1>2. arrival' \in [JobIds -> Nat]
  <2>1. IsFiniteSet(DOMAIN jobs)
    BY FS_Subset, StoreAssumption DEF StoreAssumption, TwoInv, StoreTypeOK
  <2>2. Cardinality(DOMAIN jobs) + 1 \in Nat
    BY <2>1, FS_CardinalityType
  <2> QED BY <2>2 DEF Insert, InsertAt, TwoInv, StoreTypeOK
<1>3. /\ handler' \in [Daemons -> Request] /\ handler'[d].pc = "event"
      /\ \A e \in Daemons \ {d} : handler'[e] = handler[e]
  BY DEF Insert, TwoInv, TypeOK, Request
<1>4. /\ StateOf(id)' = "Queued" /\ \A k \in DOMAIN jobs : StateOf(k)' = StateOf(k)
      /\ \A k \in DOMAIN jobs : jobs[k].updated_at \in Nat
  <2>1. parse_state["queued"] = "Queued"
    BY DEF parse_state
  <2>2. \A k \in DOMAIN jobs : jobs[k].updated_at \in Nat
    BY DEF TwoInv, StoreTypeOK, Row
  <2> QED BY <1>1, <2>1, <2>2 DEF StateOf
<1>5. /\ \A i \in JobIds : before[i] \subseteq DOMAIN jobs /\ i \notin before[i]
      /\ \A k \in before[id] : StateOf(k) = "Queued" => jobs[k].updated_at < handler[d].now
      /\ \A k \in DOMAIN jobs : k \in JobIds
  BY <1>0 DEF TwoInv, RowsInv, StampsOfRows, StampsToCome, StoreTypeOK
<1>6. StoreTypeOK' /\ TypeOK'
  <2>1. jobs' \in [DOMAIN jobs' -> Row]
    BY <1>1 DEF TwoInv, TypeOK, Row, StateText, parse_state, Insert, InsertAt
  <2> QED BY <1>1, <1>2, <1>3, <1>5, <2>1, WorkersTyped DEF TwoInv, StoreTypeOK, TypeOK
<1>7. StampsToCome'
  <2>1. ASSUME NEW e \in Daemons, handler'[e].pc = "insert"
        PROVE  /\ handler'[e].id \in JobIds \ DOMAIN jobs' /\ handler'[e].now <= clock'
               /\ \A k \in before'[handler'[e].id] :
                    StateOf(k)' = "Queued" => jobs'[k].updated_at < handler'[e].now
    <3>1. e # d /\ handler'[e] = handler[e]
      BY <1>3, <2>1
    <3>2. handler[e].id # id
      BY <1>0, <2>1, <3>1 DEF TwoInv, StampsToCome, Daemons
    <3>3. /\ handler[e].id \in JobIds \ DOMAIN jobs /\ handler[e].now <= clock
          /\ \A k \in before[handler[e].id] :
               StateOf(k) = "Queued" => jobs[k].updated_at < handler[e].now
      BY <2>1, <3>1 DEF TwoInv, StampsToCome
    <3> QED BY <1>1, <1>4, <1>5, <3>1, <3>2, <3>3
  <2>2. ~\A e \in Daemons : handler'[e].pc = "insert"
    BY <1>3
  <2> QED BY <2>1, <2>2 DEF StampsToCome
<1>8. RowsFitHistory' /\ OutcomeOfSomeRun'
  <2>1. RowsFitHistory'
    BY <1>1, <1>4 DEF TwoInv, RowsInv, RowsFitHistory, varsA, varsB
  <2>2. OutcomeOfSomeRun'
    BY <1>1, <1>4 DEF TwoInv, RowsInv, OutcomeOfSomeRun, varsA, varsB
  <2> QED BY <2>1, <2>2
<1>9. NobodyOvertakes'
  BY <1>1, <1>4, <1>5 DEF TwoInv, RowsInv, NobodyOvertakes, RowsFitHistory, varsA, varsB
<1>10. StampsOfRows'
  BY <1>1, <1>4, <1>5 DEF TwoInv, RowsInv, StampsOfRows
<1>11. RunInv'
  <2>1. OwnA' /\ OwnB'
    BY <1>1, OwnBeside DEF TwoInv, RunInv
  <2>2. /\ wjobA # NoJob => wjobA \in DOMAIN jobs
        /\ wjobB # NoJob => wjobB \in DOMAIN jobs
    BY DEF TwoInv, RunInv, OwnA, OwnB, A!Marked, B!Marked, A!Working, B!Working
  <2>3. /\ NotOverYet(wpcA, wjobA, wnextA, begunB)'
        /\ NotOverYet(wpcB, wjobB, wnextB, begunA)'
    BY <1>4, <2>2 DEF TwoInv, RunInv, NotOverYet, varsA, varsB
  <2>4. PickedFirst(wpcA, wjobA, wnextA)' /\ PickedFirst(wpcB, wjobB, wnextB)'
    BY <1>1, <1>4, <1>5, <2>2 DEF TwoInv, RunInv, PickedFirst, varsA, varsB
  <2> QED BY <2>1, <2>3, <2>4 DEF RunInv
<1> QED BY <1>6, <1>7, <1>8, <1>9, <1>10, <1>11 DEF TwoInv, RowsInv

\* What the handlers do besides enqueuing reads no clock.
LEMMA HandlersTyped ==
  ASSUME TypeOK, NEW d \in Daemons,
         CancelWrite(d) \/ LogRequest(d) \/ Abandon(d)
         \/ \E id \in JobIds : CancelRead(d, id)
  PROVE  NothingStamped
<1>1. /\ handler \in [Daemons -> Request] /\ NoRequest \in Request
      /\ NoRequest.pc = "idle"
  BY DEF TypeOK, NoRequest, Request
<1>2. before' = before
  BY DEF CancelWrite, LogRequest, Abandon, CancelRead
<1>3. handler' \in [Daemons -> Request]
  BY <1>1 DEF CancelWrite, LogRequest, Abandon, CancelRead, Request
<1>4. ASSUME NEW e \in Daemons, handler'[e].pc = "insert" PROVE handler'[e] = handler[e]
  <2>1. handler'[d].pc \in {"idle", "event", "update"}
    BY <1>1 DEF CancelWrite, LogRequest, Abandon, CancelRead, Request
  <2>2. e # d => handler'[e] = handler[e]
    BY <1>1 DEF CancelWrite, LogRequest, Abandon, CancelRead
  <2> QED BY <1>4, <2>1, <2>2
<1> QED BY <1>2, <1>3, <1>4 DEF NothingStamped

\* A cancel writes its row, whatever the workers have made of the job since it was
\* read.
LEMMA CancelStep ==
  ASSUME TwoInv, NEW d \in Daemons, CancelWrite(d), UNCHANGED <<varsA, varsB>>
  PROVE  TwoInv'
<1>0. NothingStamped
  BY HandlersTyped DEF TwoInv
<1>1. /\ DOMAIN jobs' = DOMAIN jobs /\ jobs' \in [DOMAIN jobs' -> Row]
      /\ RowsInv' /\ StampsToCome'
      /\ \A k \in DOMAIN jobs :
           StateOf(k)' = IF k = handler[d].id THEN "Canceling" ELSE StateOf(k)
  <2>1. "Canceling" \in JobState
    BY DEF JobState
  <2> QED BY <1>0, <2>1, RowsWritten DEF CancelWrite, varsA, varsB
<1>2. StoreTypeOK' /\ TypeOK'
  BY <1>0, <1>1, WorkersTyped DEF CancelWrite, TwoInv, StoreTypeOK, TypeOK, NothingStamped
<1>3. OwnA' /\ OwnB'
  BY <1>1, OwnBeside DEF TwoInv, RunInv
<1>4. /\ NotOverYet(wpcA, wjobA, wnextA, begunB)' /\ PickedFirst(wpcA, wjobA, wnextA)'
      /\ NotOverYet(wpcB, wjobB, wnextB, begunA)' /\ PickedFirst(wpcB, wjobB, wnextB)'
  BY <1>0, <1>1
     DEF TwoInv, RunInv, OwnA, OwnB, A!Marked, B!Marked, A!Working, B!Working, NotOverYet,
         PickedFirst, is_terminal, varsA, varsB, NothingStamped
<1> QED BY <1>1, <1>2, <1>3, <1>4 DEF TwoInv, RunInv

\* Every step of a handler keeps the invariant.
LEMMA HandlerKeeps ==
  ASSUME TwoInv, NEW d \in Daemons, Handler(d), UNCHANGED <<varsA, varsB>>
  PROVE  TwoInv'
<1>1. ASSUME NothingStamped, UNCHANGED <<jobs, clock, arrival>>,
             events' \in [JobIds -> Seq(StateText)], faults' \in 0 .. MaxFaults
      PROVE  TwoInv'
  <2>1. RowsInv' /\ StampsToCome'
    BY <1>1, RowsQuiet DEF varsA, varsB
  <2>2. StoreTypeOK' /\ TypeOK'
    BY <1>1, WorkersTyped DEF TwoInv, StoreTypeOK, TypeOK, NothingStamped
  <2>3. OwnA' /\ OwnB'
    BY <1>1, OwnBeside DEF TwoInv, RunInv
  <2>4. RunInv'
    BY <1>1, <2>3 DEF TwoInv, RunInv, NotOverYet, PickedFirst, StateOf, varsA, varsB,
                      NothingStamped
  <2> QED BY <2>1, <2>2, <2>4 DEF TwoInv
<1>2. faults \in 0 .. MaxFaults /\ MaxFaults \in Nat /\ events \in [JobIds -> Seq(StateText)]
  BY StoreAssumption DEF TwoInv, StoreTypeOK, StoreAssumption
<1>3. ASSUME NEW id \in JobIds, CancelRead(d, id) PROVE TwoInv'
  <2>1. NothingStamped
    BY <1>3, HandlersTyped DEF TwoInv
  <2> QED BY <1>1, <1>2, <1>3, <2>1 DEF CancelRead, Fault
<1>4. CASE LogRequest(d)
  <2>1. NothingStamped
    BY <1>4, HandlersTyped DEF TwoInv
  <2>2. handler[d].text \in StateText
    BY DEF StateText, parse_state, TwoInv, TypeOK, Request
  <2>3. events' \in [JobIds -> Seq(StateText)]
    BY <1>4, <2>2, RecordEffect DEF LogRequest, TwoInv
  <2> QED BY <1>1, <1>2, <1>4, <2>1, <2>3 DEF LogRequest
<1>5. CASE Abandon(d)
  <2>1. NothingStamped
    BY <1>5, HandlersTyped DEF TwoInv
  <2> QED BY <1>1, <1>2, <1>5, <2>1 DEF Abandon, Fault
<1> QED BY <1>3, <1>4, <1>5, StampStep, InsertStep, CancelStep DEF Handler

-----------------------------------------------------------------------------
\* The theorems.

\* The initial states satisfy the invariant.
LEMMA TwoInit == Init => TwoInv
<1> SUFFICES ASSUME Init PROVE TwoInv
  OBVIOUS
<1>1. /\ StoreTypeOK /\ DOMAIN jobs = {} /\ handler = [d \in Daemons |-> NoRequest]
      /\ before = [id \in JobIds |-> {}]
  BY StoreAssumption DEF Init, StoreInit, StoreTypeOK, StoreAssumption
<1>2. A!WorkerTypeOK /\ OwnA /\ wjobA = NoJob /\ begunA = {}
  BY DEF Init, A!WorkerInit, A!WorkerTypeOK, A!WorkerPC, A!Exits, A!JobState, OwnA, A!HasJob,
         A!AtItsPlace, A!Marked, A!RunsCounted, A!AtMostOnce, A!NotBuiltYet, A!OutcomeKnown,
         A!Working
<1>3. B!WorkerTypeOK /\ OwnB /\ wjobB = NoJob /\ begunB = {}
  BY DEF Init, B!WorkerInit, B!WorkerTypeOK, B!WorkerPC, B!Exits, B!JobState, OwnB, B!HasJob,
         B!AtItsPlace, B!Marked, B!RunsCounted, B!AtMostOnce, B!NotBuiltYet, B!OutcomeKnown,
         B!Working
<1>4. TypeOK
  BY <1>1, <1>2, <1>3 DEF TypeOK, StoreTypeOK, NoRequest, Request
<1>5. RunInv
  BY <1>2, <1>3 DEF RunInv, NotOverYet, PickedFirst
<1>6. RowsInv
  BY <1>1, <1>2, <1>3 DEF RowsInv, RowsFitHistory, StampsOfRows, OutcomeOfSomeRun,
                          NobodyOvertakes
<1>7. StampsToCome
  BY <1>1 DEF StampsToCome, NoRequest, Daemons
<1> QED BY <1>1, <1>4, <1>5, <1>6, <1>7 DEF TwoInv

\* Every step of either daemon or of its handler keeps the invariant.
LEMMA TwoStep ==
  ASSUME TwoInv, [Next]_vars
  PROVE  TwoInv'
<1>1. CASE UNCHANGED vars
  <2>1. StoreTypeOK' /\ TypeOK' /\ OwnA' /\ OwnB'
    BY <1>1, WorkersTyped, OwnBeside
       DEF vars, storeVars, handlerVars, TwoInv, RunInv, StoreTypeOK, TypeOK
  <2>2. RowsInv' /\ StampsToCome'
    <3>1. NothingStamped
      BY <1>1, HandlersBeside DEF vars, handlerVars, TwoInv
    <3> QED BY <1>1, <3>1, RowsQuiet DEF vars, storeVars, varsA, varsB
  <2>3. RunInv'
    BY <1>1, <2>1 DEF vars, storeVars, varsA, varsB, handlerVars, TwoInv, RunInv, NotOverYet,
                      PickedFirst, StateOf
  <2> QED BY <2>1, <2>2, <2>3 DEF TwoInv
<1> QED BY <1>1, StepA, StepB, HandlerKeeps DEF Next

\* Two daemons on one database: TwoInv holds in every reachable state.
THEOREM TwoInvariance == Spec => []TwoInv
  BY TwoInit, TwoStep, PTL DEF Spec

\* The workers, the table and the handlers keep their types beside one another.
THEOREM TwoTypeOK == Spec => []TypeOK
<1>1. TwoInv => TypeOK
  BY DEF TwoInv
<1> QED BY <1>1, TwoInvariance, PTL

\* Neither daemon starts the build of a job twice, whatever the other makes of the row
\* and however often they crash.
THEOREM TwoOncePerDaemon == Spec => []OncePerDaemon
<1>1. TwoInv => OncePerDaemon
  BY DEF TwoInv, RunInv, OwnA, OwnB, A!RunsCounted, A!AtMostOnce, B!RunsCounted,
         B!AtMostOnce, OncePerDaemon
<1> QED BY <1>1, TwoInvariance, PTL

\* An outcome in a row is that of a build of the job by one of the two.
THEOREM TwoOutcome == Spec => []OutcomeOfSomeRun
<1>1. TwoInv => OutcomeOfSomeRun
  BY DEF TwoInv, RowsInv
<1> QED BY <1>1, TwoInvariance, PTL

\* A worker is refused its next state only if the other daemon has begun the job.
THEOREM TwoRefused == Spec => []RefusedOnlyByOther
<1>1. ASSUME TwoInv PROVE RefusedOnlyByOther
  <2>1. wpcA = "read" /\ ~set_state_allowed(wjobA) => wjobA \in begunB
    BY <1>1 DEF TwoInv, RunInv, OwnA, A!HasJob, A!Marked, A!Working, NotOverYet,
                set_state_allowed, transition_to_ok
  <2>2. wpcB = "read" /\ ~set_state_allowed(wjobB) => wjobB \in begunA
    BY <1>1 DEF TwoInv, RunInv, OwnB, B!HasJob, B!Marked, B!Working, NotOverYet,
                set_state_allowed, transition_to_ok
  <2> QED BY <2>1, <2>2 DEF RefusedOnlyByOther
<1> QED BY <1>1, TwoInvariance, PTL

\* Neither daemon begins a job while one waits that was in the table before it was asked
\* for, although two enqueues may insert in the opposite order of their times.
THEOREM TwoNobodyOvertakes == Spec => []NobodyOvertakes
<1>1. TwoInv => NobodyOvertakes
  BY DEF TwoInv, RowsInv
<1> QED BY <1>1, TwoInvariance, PTL
=============================================================================
