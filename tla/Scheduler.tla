----------------------------- MODULE Scheduler ------------------------------
(***************************************************************************)
(* The worker: worker_loop of src/src/daemon.rs around run_one_queued_job  *)
(* of src/src/scheduler.rs.  wpc is the place in that code, and there is   *)
(* one action for every statement that reaches the store, the workspace    *)
(* or the build runtime.  An error at any of them travels up through the   *)
(* `?` operators, drops the job and ends the process (wpc = "exit").       *)
(***************************************************************************)
EXTENDS Store

CONSTANT RuntimeExits  \* how a build can end: see EndBuild

ASSUME RuntimeExitsAssumption == RuntimeExits \subseteq {"ok", "failed", "canceled"}

VARIABLES
  wpc,    \* where the worker is; "down" when there is no process
  wjob,   \* the job run_one_queued_job is working on
  wnext,  \* the state that the current set_state call is to write
  wexit,  \* the RuntimeExit of the build
  begun,  \* history: the jobs whose row the worker has set to preparing
  runs,   \* history: how many times the runtime was started for a job
  built   \* history: how the last run of a job ended

workerVars == <<wpc, wjob, wnext, wexit, begun, runs, built>>
localVars  == <<wjob, wnext, wexit>>
history    == <<begun, runs, built>>

WorkerPC ==
  {"down", "start", "open", "select", "read", "update", "event", "prepare",
   "spawn", "build", "branch", "collect", "sleep", "exit"}

Exits == {"none", "ok", "failed", "canceled"}

WorkerTypeOK ==
  /\ wpc \in WorkerPC
  /\ wjob \in JobIds \cup {NoJob}
  /\ wnext \in JobState
  /\ wexit \in Exits
  /\ begun \subseteq JobIds
  /\ runs \in [JobIds -> Nat]
  /\ built \in [JobIds -> Exits]

WorkerInit ==
  /\ wpc = "start" /\ wjob = NoJob /\ wnext = "Queued" /\ wexit = "none"
  /\ begun = {}
  /\ runs = [id \in JobIds |-> 0]
  /\ built = [id \in JobIds |-> "none"]

\* Leave run_one_queued_job: its locals are gone.
Forget == wjob' = NoJob /\ wnext' = "Queued" /\ wexit' = "none"

\* An error leaves worker_loop, and with it the process.
Fail == wpc' = "exit" /\ Forget

\* Enter self.store.set_state(job.id, next).
BeginSetState(next) == wpc' = "read" /\ wnext' = next

-----------------------------------------------------------------------------

\* runtime_from_config has found a container runtime.
DetectRuntime ==
  /\ wpc = "start"
  /\ wpc' = "open"
  /\ UNCHANGED <<storeVars, localVars, history>>

\* Store::open at the head of the loop.  migrate creates the tables only if
\* they do not exist, so whatever was stored stays.
OpenStore ==
  /\ wpc = "open"
  /\ wpc' = "select"
  /\ UNCHANGED <<storeVars, localVars, history>>

\* Mutant: an error of next_queued is taken for an empty queue.
NothingQueuedOrError ==
  /\ wpc = "select"
  /\ wpc' = "sleep"
  /\ UNCHANGED <<storeVars, localVars, history>>

\* next_queued() is None: run_one_queued_job returns, the loop sleeps.
NothingQueued ==
  /\ wpc = "select"
  /\ next_queued = {}
  /\ wpc' = "sleep"
  /\ UNCHANGED <<storeVars, localVars, history>>

\* next_queued() is Some(job).  Its second query reads the job's request, which
\* never changes, and is part of this step.
PickJob(id) ==
  /\ wpc = "select"
  /\ id \in next_queued
  /\ wjob' = id
  /\ BeginSetState("Preparing")
  /\ UNCHANGED <<storeVars, wexit, history>>

\* set_state, first statement: read the row, ask transition_to.
CheckState ==
  /\ wpc = "read"
  /\ IF set_state_allowed(wjob)
     THEN wpc' = "update" /\ UNCHANGED localVars
     ELSE Fail
  /\ UNCHANGED <<storeVars, history>>

\* set_state, second statement: write the row.
WriteState ==
  /\ wpc = "update"
  /\ UpdateState(wjob, wnext)
  /\ wpc' = "event"
  /\ begun' = IF wnext = "Preparing" THEN begun \cup {wjob} ELSE begun
  /\ UNCHANGED <<events, clock, arrival, faults, localVars, runs, built>>

\* Where run_one_queued_job continues after set_state(job.id, next).
AfterSetState(next) ==
  IF next \in {"Preparing", "Running", "Collecting"}
  THEN [Preparing |-> "prepare", Running |-> "spawn", Collecting |-> "branch"][next]
  ELSE "sleep"

\* Mutant: the event is the state that the row has now.
LogCurrentState ==
  /\ wpc = "event"
  /\ record_event(wjob, jobs[wjob].state)
  /\ wpc' = AfterSetState(wnext)
  /\ UNCHANGED <<jobs, clock, arrival, faults, localVars, history>>

\* set_state, third statement: record the event.
LogState ==
  /\ wpc = "event"
  /\ record_event(wjob, state_name[wnext])
  /\ wpc' = AfterSetState(wnext)
  /\ UNCHANGED <<jobs, clock, arrival, faults, localVars, history>>

\* build_runtime_command: clone, resolve the ref, check out, build the script.
\* It touches only the job's own workspace, and any part of it may fail.
Prepare ==
  /\ wpc = "prepare"
  /\ \/ BeginSetState("Running") /\ UNCHANGED <<wjob, wexit>>
     \/ Fail
  /\ UNCHANGED <<storeVars, history>>

\* runtime.run starts the child process, or fails to.
StartBuild ==
  /\ wpc = "spawn"
  /\ \/ /\ wpc' = "build"
        /\ runs' = [runs EXCEPT ![wjob] = @ + 1]
        /\ UNCHANGED localVars
     \/ Fail /\ UNCHANGED runs
  /\ UNCHANGED <<storeVars, begun, built>>

\* runtime.run returns.  HostNativeRuntime and OciRuntime always say
\* canceled: false, so with them RuntimeExits is {"ok", "failed"}; the trait
\* also allows "canceled".  Writing the log may fail.
EndBuild ==
  /\ wpc = "build"
  /\ \/ \E result \in RuntimeExits :
          /\ BeginSetState("Collecting")
          /\ wexit' = result
          /\ built' = [built EXCEPT ![wjob] = result]
          /\ UNCHANGED wjob
     \/ Fail /\ UNCHANGED built
  /\ UNCHANGED <<storeVars, begun, runs>>

\* Mutant: every build that was not canceled counts as a success.
BranchWithoutCode ==
  /\ wpc = "branch"
  /\ IF wexit = "canceled"
     THEN BeginSetState("Canceled")
     ELSE wpc' = "collect" /\ UNCHANGED wnext
  /\ UNCHANGED <<storeVars, wjob, wexit, history>>

\* The if/else on exit.canceled and exit.code.
Branch ==
  /\ wpc = "branch"
  /\ \/ wexit = "canceled" /\ BeginSetState("Canceled")
     \/ wexit = "ok" /\ wpc' = "collect" /\ UNCHANGED wnext
     \/ wexit \notin {"canceled", "ok"} /\ BeginSetState("Failed")
  /\ UNCHANGED <<storeVars, wjob, wexit, history>>

\* collect_artifacts; it writes the artifacts table and files only.
Collect ==
  /\ wpc = "collect"
  /\ \/ BeginSetState("Succeeded") /\ UNCHANGED <<wjob, wexit>>
     \/ Fail
  /\ UNCHANGED <<storeVars, history>>

\* The 500 ms are over: next turn of the loop.
Wake ==
  /\ wpc = "sleep"
  /\ wpc' = "open"
  /\ Forget
  /\ UNCHANGED <<storeVars, history>>

\* A store statement fails (or no runtime is found, at "start").
WorkerFault ==
  /\ wpc \in {"start", "open", "select", "read", "update", "event"}
  /\ Fault
  /\ Fail
  /\ UNCHANGED <<jobs, events, clock, arrival, history>>

WorkerStep ==
  \/ DetectRuntime \/ OpenStore
  \/ NothingQueued \/ (\E id \in JobIds : PickJob(id))
  \/ CheckState \/ WriteState \/ LogState
  \/ Prepare \/ StartBuild \/ EndBuild \/ Branch \/ Collect
  \/ Wake

-----------------------------------------------------------------------------
\* What a worker can rely on, whoever else writes to the rows: the parts of the
\* inductive invariants that are about its place, its locals and its history.

\* A build is started at most once for a job, whatever crashes, restarts and
\* cancels there are between picking the job and reporting its end.
AtMostOnce == \A id \in JobIds : runs[id] <= 1

Working == wjob # NoJob

\* The worker has no job outside run_one_queued_job and has one inside; between
\* the end of one and the next turn of the loop the local may still be set.
HasJob ==
  /\ wpc \in {"read", "update", "event", "prepare", "spawn", "build", "branch",
              "collect"} => Working
  /\ wpc \in {"down", "start", "open", "select", "exit"} => ~Working

\* The states that run_one_queued_job passes to set_state, and where.
NextStates == {"Preparing", "Running", "Collecting", "Succeeded", "Failed", "Canceled"}
AtItsPlace ==
  Working =>
    /\ wnext \in NextStates
    /\ wpc = "prepare" => wnext = "Preparing"
    /\ wpc \in {"spawn", "build"} => wnext = "Running"
    /\ wpc \in {"branch", "collect"} => wnext = "Collecting"
    /\ wpc = "collect" => wexit = "ok"
    /\ wpc \in {"event", "sleep"} /\ wnext = "Preparing" => wjob \in begun
    /\ wpc = "sleep" => is_terminal(wnext)

\* The job of the worker has a row, marked as begun by the first UPDATE.
Marked ==
  Working =>
    /\ wjob \in DOMAIN jobs
    /\ wjob \in begun <=> ~(wnext = "Preparing" /\ wpc \in {"read", "update"})

\* A job has had no run before its worker has come past the start of one, and
\* only one run afterwards.
RunsCounted ==
  /\ AtMostOnce
  /\ \A id \in JobIds : id \notin begun => runs[id] = 0
  /\ Working /\ (wnext = "Preparing" \/ (wnext = "Running" /\ wpc # "build"))
       => runs[wjob] = 0

\* Nothing is known of the outcome of a job before its run has ended.
NotBuiltYet ==
  /\ \A id \in JobIds : id \notin begun => built[id] = "none"
  /\ Working /\ wnext \in {"Preparing", "Running"} => built[wjob] = "none"

\* The outcome that the worker is about to write is that of the run.
OutcomeKnown ==
  Working =>
    /\ wnext = "Collecting" => wexit \in RuntimeExits /\ built[wjob] = wexit
    /\ wnext = "Succeeded"  => built[wjob] = "ok"
    /\ wnext = "Failed"     => built[wjob] = "failed"
    /\ wnext = "Canceled"   => built[wjob] = "canceled"
=============================================================================
