----------------------------- MODULE TwoDaemons ------------------------------
(***************************************************************************)
(* Two daemons on one database, which nothing in the code prevents:        *)
(* neither serve_control_socket nor Store::open looks for another process. *)
(* Both workers pick jobs, and which promises of one daemon are left is    *)
(* what this module is about.                                              *)
(*                                                                         *)
(* Each worker is a Scheduler with locals and history of its own over one  *)
(* Store.  Each daemon serves requests behind a mutex of its own, so       *)
(* beside the workers there is a handler per daemon, and between the       *)
(* statements of the one come those of the other.  (Which                  *)
(* daemon a client reaches is the subject of ControlSocket.)               *)
(***************************************************************************)
EXTENDS Store

CONSTANT RuntimeExits

ASSUME ExitsAssumption == RuntimeExits \subseteq {"ok", "failed", "canceled"}

VARIABLES
  wpcA, wjobA, wnextA, wexitA, begunA, runsA, builtA,
  wpcB, wjobB, wnextB, wexitB, begunB, runsB, builtB,
  handler,  \* of each daemon: the statement its handler is at, its job, its clock
  before    \* history: the jobs in the table when the clock was read for a job

varsA == <<wpcA, wjobA, wnextA, wexitA, begunA, runsA, builtA>>
varsB == <<wpcB, wjobB, wnextB, wexitB, begunB, runsB, builtB>>
localsA  == <<wjobA, wnextA, wexitA>>
localsB  == <<wjobB, wnextB, wexitB>>
historyA == <<begunA, runsA, builtA>>
historyB == <<begunB, runsB, builtB>>

handlerVars == <<handler, before>>

vars == <<storeVars, varsA, varsB, handlerVars>>

A == INSTANCE Scheduler WITH
       wpc <- wpcA, wjob <- wjobA, wnext <- wnextA, wexit <- wexitA,
       begun <- begunA, runs <- runsA, built <- builtA

B == INSTANCE Scheduler WITH
       wpc <- wpcB, wjob <- wjobB, wnext <- wnextB, wexit <- wexitB,
       begun <- begunB, runs <- runsB, built <- builtB

Daemons == {"A", "B"}

NoRequest == [pc |-> "idle", id |-> NoJob, text |-> "queued", now |-> 0]

Request == [pc   : {"idle", "insert", "update", "event"},
            id   : JobIds \cup {NoJob},
            text : {"queued", "canceling"},
            now  : Nat]

\* What is type correct besides the event log, which nothing here reads.
TypeOK ==
  /\ jobs \in [DOMAIN jobs -> Row]
  /\ A!WorkerTypeOK /\ B!WorkerTypeOK
  /\ handler \in [Daemons -> Request]
  /\ before \in [JobIds -> SUBSET JobIds]

\* The second daemon may take its first step at any time.
Init ==
  /\ StoreInit /\ A!WorkerInit /\ B!WorkerInit
  /\ handler = [d \in Daemons |-> NoRequest]
  /\ before = [id \in JobIds |-> {}]

-----------------------------------------------------------------------------
\* The handlers.

\* A daemon serves requests from the time it has opened its store.
Serves(d) ==
  (IF d = "A" THEN wpcA ELSE wpcB) \notin {"down", "start", "open"}

\* enqueue makes a new id and reads the clock.
Stamp(d, id) ==
  /\ handler[d].pc = "idle"
  /\ id \notin DOMAIN jobs /\ \A e \in Daemons : handler[e].id # id
  /\ \E step \in ClockSteps : clock' = clock + step
  /\ handler' = [handler EXCEPT ![d] = [pc |-> "insert", id |-> id,
                                       text |-> "queued", now |-> clock']]
  /\ before' = [before EXCEPT ![id] = DOMAIN jobs]
  /\ UNCHANGED <<jobs, events, arrival, faults>>

\* Its INSERT, maybe after one of the other daemon under a later time.
Insert(d) ==
  /\ handler[d].pc = "insert"
  /\ InsertAt(handler[d].id, handler[d].now)
  /\ handler' = [handler EXCEPT ![d].pc = "event"]
  /\ UNCHANGED <<events, clock, faults, before>>

\* set_state(id, Canceling): the read, if transition_to agrees.  A cancel counts
\* towards MaxFaults here.
CancelRead(d, id) ==
  /\ handler[d].pc = "idle"
  /\ Fault
  /\ set_state_allowed(id)
  /\ handler' = [handler EXCEPT ![d] = [pc |-> "update", id |-> id,
                                       text |-> "canceling", now |-> 0]]
  /\ UNCHANGED <<jobs, events, clock, arrival, before>>

\* Mutant: the handler itself finishes the cancellation.
CancelFinishes(d) ==
  /\ handler[d].pc = "update"
  /\ UpdateState(handler[d].id, "Canceled")
  /\ handler' = [handler EXCEPT ![d].pc = "event"]
  /\ UNCHANGED <<events, clock, arrival, faults, before>>

CancelWrite(d) ==
  /\ handler[d].pc = "update"
  /\ UpdateState(handler[d].id, "Canceling")
  /\ handler' = [handler EXCEPT ![d].pc = "event"]
  /\ UNCHANGED <<events, clock, arrival, faults, before>>

LogRequest(d) ==
  /\ handler[d].pc = "event"
  /\ record_event(handler[d].id, handler[d].text)
  /\ handler' = [handler EXCEPT ![d] = NoRequest]
  /\ UNCHANGED <<jobs, clock, arrival, faults, before>>

\* A statement fails.
Abandon(d) ==
  /\ handler[d].pc # "idle"
  /\ Fault
  /\ handler' = [handler EXCEPT ![d] = NoRequest]
  /\ UNCHANGED <<jobs, events, clock, arrival, before>>

Handler(d) ==
  /\ Serves(d)
  /\ \/ \E id \in JobIds : Stamp(d, id) \/ CancelRead(d, id)
     \/ Insert(d) \/ CancelWrite(d) \/ LogRequest(d) \/ Abandon(d)

-----------------------------------------------------------------------------
\* The life of each process, as far as its worker sees it.

\* After an error of the worker the process exits, when its handler is through; a
\* crash may come anywhere, and the handler is gone with the process.
DownA ==
  /\ \/ wpcA = "exit" /\ handler["A"].pc = "idle" /\ UNCHANGED faults
     \/ wpcA # "down" /\ Fault
  /\ wpcA' = "down" /\ A!Forget
  /\ handler' = [handler EXCEPT !["A"] = NoRequest]
  /\ UNCHANGED <<jobs, events, clock, arrival, historyA, before>>

DownB ==
  /\ \/ wpcB = "exit" /\ handler["B"].pc = "idle" /\ UNCHANGED faults
     \/ wpcB # "down" /\ Fault
  /\ wpcB' = "down" /\ B!Forget
  /\ handler' = [handler EXCEPT !["B"] = NoRequest]
  /\ UNCHANGED <<jobs, events, clock, arrival, historyB, before>>

\* Mutant: jobs in work go back to the queue, as nobody else can have them.
RequeueA ==
  /\ wpcA = "down" /\ wpcA' = "start"
  /\ jobs' = [id \in DOMAIN jobs |->
                IF jobs[id].state \in {"preparing", "running", "collecting"}
                THEN [jobs[id] EXCEPT !.state = "queued"] ELSE jobs[id]]
  /\ UNCHANGED <<events, clock, arrival, faults, localsA, historyA, handlerVars>>

UpA ==
  /\ wpcA = "down" /\ wpcA' = "start"
  /\ UNCHANGED <<storeVars, localsA, historyA, handlerVars>>

UpB ==
  /\ wpcB = "down" /\ wpcB' = "start"
  /\ UNCHANGED <<storeVars, localsB, historyB, handlerVars>>

WorkerA == (A!WorkerStep \/ A!WorkerFault) /\ UNCHANGED handlerVars
WorkerB == (B!WorkerStep \/ B!WorkerFault) /\ UNCHANGED handlerVars

Next ==
  \/ (WorkerA \/ DownA \/ UpA) /\ UNCHANGED varsB
  \/ (WorkerB \/ DownB \/ UpB) /\ UNCHANGED varsA
  \/ (\E d \in Daemons : Handler(d)) /\ UNCHANGED <<varsA, varsB>>

Spec == Init /\ [][Next]_vars

-----------------------------------------------------------------------------
\* Properties

\* A job may be built twice, but only by different daemons: neither takes up
\* again what it has begun, or what the other has made of it.
OncePerDaemon == \A id \in JobIds : runsA[id] <= 1 /\ runsB[id] <= 1

\* A row's outcome is that of a build of the job, although the two daemons
\* overwrite each other's states.
OutcomeOfSomeRun ==
  \A id \in DOMAIN jobs :
    /\ StateOf(id) = "Succeeded" => "ok" \in {builtA[id], builtB[id]}
    /\ StateOf(id) = "Failed"    => "failed" \in {builtA[id], builtB[id]}
    /\ StateOf(id) = "Canceled"  => "canceled" \in {builtA[id], builtB[id]}

\* A worker can be refused now, and ends its daemon: but only because the other
\* has begun the same job, never because of a cancel.
RefusedOnlyByOther ==
  /\ wpcA = "read" /\ ~set_state_allowed(wjobA) => wjobA \in begunB
  /\ wpcB = "read" /\ ~set_state_allowed(wjobB) => wjobB \in begunA

\* What is left of the order of arrival: nothing is begun, by either, while a job
\* waits that was in the table before the other was asked for.  (Of two that are
\* enqueued at once, by the two daemons, either may be begun first.)
NobodyOvertakes ==
  \A i, k \in DOMAIN jobs :
    i \in begunA \cup begunB /\ StateOf(k) = "Queued" => k \notin before[i]

-----------------------------------------------------------------------------
\* The inductive invariant: each worker knows its place and what it has done,
\* and the rows fit what both have done.

\* Rows that no worker has marked are waiting or canceled while they waited,
\* rows that one has marked are never queued again.
RowsFitHistory ==
  /\ begunA \cup begunB \subseteq DOMAIN jobs
  /\ \A id \in DOMAIN jobs :
       IF id \in begunA \cup begunB THEN StateOf(id) # "Queued"
                                   ELSE StateOf(id) \in {"Queued", "Canceling"}

\* Until a worker has written an outcome the row of its job is not terminal, but
\* for what the other worker has written if it has begun the job too.
NotOverYet(pc, job, next, others) ==
  job # NoJob /\ ~(pc \in {"event", "sleep"} /\ is_terminal(next))
    => ~is_terminal(StateOf(job)) \/ job \in others

\* Nothing that was in the table before the job that a worker has picked and not
\* marked was asked for still waits.
PickedFirst(pc, job, next) ==
  job # NoJob /\ next = "Preparing" /\ pc \in {"read", "update"} =>
    \A k \in DOMAIN jobs : StateOf(k) = "Queued" => k \notin before[job]

\* A waiting row has an older stamp than any that was read when it was in the table.
StampsOfRows ==
  /\ \A i \in JobIds : before[i] \subseteq DOMAIN jobs /\ i \notin before[i]
  /\ \A k \in DOMAIN jobs : StateOf(k) = "Queued" => jobs[k].updated_at <= clock
  /\ \A i, k \in DOMAIN jobs :
       k \in before[i] /\ StateOf(i) = "Queued" /\ StateOf(k) = "Queued"
       => jobs[k].updated_at < jobs[i].updated_at

\* The same of the rows that are still to be inserted, under ids that are their own.
StampsToCome ==
  /\ \A d \in Daemons : handler[d].pc = "insert" =>
       /\ handler[d].id \in JobIds \ DOMAIN jobs /\ handler[d].now <= clock
       /\ \A k \in before[handler[d].id] :
            StateOf(k) = "Queued" => jobs[k].updated_at < handler[d].now
  /\ (\A d \in Daemons : handler[d].pc = "insert") => handler["A"].id # handler["B"].id

OwnA ==
  /\ A!HasJob /\ A!AtItsPlace /\ A!Marked /\ A!RunsCounted /\ A!NotBuiltYet
  /\ A!OutcomeKnown

OwnB ==
  /\ B!HasJob /\ B!AtItsPlace /\ B!Marked /\ B!RunsCounted /\ B!NotBuiltYet
  /\ B!OutcomeKnown

RunInv ==
  /\ OwnA /\ NotOverYet(wpcA, wjobA, wnextA, begunB) /\ PickedFirst(wpcA, wjobA, wnextA)
  /\ OwnB /\ NotOverYet(wpcB, wjobB, wnextB, begunA) /\ PickedFirst(wpcB, wjobB, wnextB)

RowsInv == RowsFitHistory /\ OutcomeOfSomeRun /\ NobodyOvertakes /\ StampsOfRows

TwoInv == StoreTypeOK /\ TypeOK /\ RunInv /\ RowsInv /\ StampsToCome
=============================================================================
