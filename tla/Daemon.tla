------------------------------- MODULE Daemon -------------------------------
(***************************************************************************)
(* The daemon process: run_foreground_with_config of src/src/daemon.rs     *)
(* races the accept loop, the worker loop and ctrl_c in one select!, all   *)
(* polled by one task, while the connection handlers are tasks of their    *)
(* own.  So the accept loop and ctrl_c get their turn only when the worker *)
(* awaits, in a build or in its pause, and the handlers run at any time.   *)
(*                                                                         *)
(* When the worker fails, or on ctrl_c, the process ends in order; a       *)
(* crash or a kill ends it anywhere.  The service manager starts it again. *)
(***************************************************************************)
EXTENDS Scheduler, Control

vars == <<storeVars, workerVars, controlVars>>

TypeOK == StoreTypeOK /\ WorkerTypeOK /\ ControlTypeOK

Init == StoreInit /\ WorkerInit /\ ControlInit

-----------------------------------------------------------------------------

\* The worker is at an await, so select! polls its other branches.
WorkerAwaits == wpc \in {"build", "sleep"}

\* serve_control_socket binds the socket.  Its first await comes before the
\* bind, and the worker runs from there to an await of its own.
BindSocket ==
  /\ WorkerAwaits
  /\ ~listening
  /\ listening' = TRUE
  /\ UNCHANGED <<storeVars, workerVars, lock, conn, cancels>>

Accept(c) ==
  /\ WorkerAwaits
  /\ AcceptConn(c)
  /\ UNCHANGED <<storeVars, workerVars>>

\* ctrl_c wins the select!: the worker's future is dropped where it is.
Interrupt ==
  /\ WorkerAwaits
  /\ Fault
  /\ Fail
  /\ UNCHANGED <<jobs, events, clock, arrival, history, controlVars>>

\* What the process held in memory is gone, its connections are closed.
ProcessGone ==
  /\ wpc' = "down"
  /\ Forget
  /\ listening' = FALSE
  /\ lock' = NoClient
  /\ conn' = [c \in Clients |-> IdleConn]
  /\ UNCHANGED <<jobs, events, clock, arrival, history, cancels>>

\* The runtime shuts down after a handler that is in the middle of its
\* statements has run to its next await; tasks that wait are dropped.
Exit ==
  /\ wpc = "exit"
  /\ lock = NoClient
  /\ ProcessGone
  /\ UNCHANGED faults

Crash ==
  /\ wpc # "down"
  /\ Fault
  /\ ProcessGone

\* Mutant: jobs that were in work go back to the queue.
RestartAndRequeue ==
  /\ wpc = "down"
  /\ wpc' = "start"
  /\ jobs' = [id \in DOMAIN jobs |->
                IF jobs[id].state \in {"preparing", "running", "collecting"}
                THEN [jobs[id] EXCEPT !.state = "queued"]
                ELSE jobs[id]]
  /\ UNCHANGED <<events, clock, arrival, faults, localVars, history, controlVars>>

\* The file is opened again; no job found in it is touched.
Restart ==
  /\ wpc = "down"
  /\ wpc' = "start"
  /\ UNCHANGED <<storeVars, localVars, history, controlVars>>

-----------------------------------------------------------------------------

Worker == WorkerStep /\ UNCHANGED controlVars

Client(c) == ClientStep(c) /\ UNCHANGED workerVars

Handler(c) == HandlerStep(c) /\ UNCHANGED workerVars

Next ==
  \/ Worker
  \/ WorkerFault /\ UNCHANGED controlVars
  \/ \E c \in Clients :
       Client(c) \/ Accept(c) \/ Handler(c)
       \/ (HandlerFault(c) /\ UNCHANGED workerVars)
  \/ BindSocket \/ Interrupt \/ Exit \/ Crash \/ Restart

Spec == Init /\ [][Next]_vars

(***************************************************************************)
(* The worker and the handlers are threads of the process; builds end.     *)
(* A handler is only weakly fair: std::sync::Mutex promises no order among *)
(* those that wait for it.  Accepting and binding are strongly fair: they  *)
(* are possible only at the awaits of the worker, which come and go, and   *)
(* select! polls all its branches at each of them.  Restart is the service *)
(* manager's Restart=on-failure, or the operator after an interrupt.  No   *)
(* client has to call, and no fault has to happen.                         *)
(***************************************************************************)
Fairness ==
  /\ WF_vars(Worker)
  /\ \A c \in Clients : WF_vars(Handler(c)) /\ SF_vars(Accept(c))
  /\ SF_vars(BindSocket)
  /\ WF_vars(Exit) /\ WF_vars(Restart)

FairSpec == Spec /\ Fairness

-----------------------------------------------------------------------------
\* Properties

\* The worker's own set_state calls are never refused, although a cancel may
\* have rewritten the row since the worker last wrote it: the InvalidState
\* error of transition_to never ends the daemon.
WorkerNeverRefused == wpc = "read" => set_state_allowed(wjob)

\* What a row says about the outcome is what the build did, also after a
\* restart: no job is reported succeeded or failed whose run ended otherwise.
OutcomeIsBuildsOutcome ==
  \A id \in DOMAIN jobs :
    /\ StateOf(id) = "Succeeded" => built[id] = "ok"
    /\ StateOf(id) = "Failed"    => built[id] = "failed"
    /\ StateOf(id) = "Canceled"  => built[id] = "canceled"
    /\ StateOf(id) = "TimedOut"  => FALSE

\* The events the worker records for a job, with those of the two control
\* requests taken out, are an initial part of one run_one_queued_job: the n-th of
\* them is the n-th state of the way through it.
WorkerTexts == StateText \ {"queued", "canceling"}
WorkerPaths ==
  {<<"preparing", "running", "collecting", last>> :
     last \in {"succeeded", "failed", "canceled"}}
OwnUpTo(log, n) == Cardinality({k \in 1 .. n : log[k] \in WorkerTexts})
FollowsPath(log, path) ==
  \A i \in DOMAIN log :
    log[i] \in WorkerTexts => /\ OwnUpTo(log, i) <= Len(path)
                             /\ log[i] = path[OwnUpTo(log, i)]
WorkerEventsInOrder ==
  \A id \in JobIds : \E path \in WorkerPaths : FollowsPath(events[id], path)

\* A status answer counts at most one job twice: the one that the worker moves
\* from queued to running between the two queries.
StatusOvercountsByOne ==
  \A c \in Clients :
    conn[c].resp = "Status" =>
      conn[c].queued + conn[c].active <= Cardinality(DOMAIN jobs) + 1

\* When nothing has failed and nobody is between the UPDATE of a row and the
\* INSERT of its event, the state in the row is among the events of the job,
\* whichever of the worker and a cancel wrote last (set_state of db.rs).
InFlight(id) ==
  \/ wpc = "event" /\ wjob = id
  \/ \E c \in Clients : conn[c].pc = "event" /\ conn[c].id = id
StateIsRecorded ==
  \A id \in DOMAIN jobs :
    faults = 0 /\ ~InFlight(id) => \E i \in DOMAIN events[id] :
                                     events[id][i] = jobs[id].state

\* Once the worker has let go of a job, however it came to that, it never takes
\* the job again, and the only write that may still reach the row is that of a
\* cancel: run_one_queued_job, next_queued and the restart together.
LetGo(id) == id \in begun /\ wjob # id
LetGoForGood ==
  [][\A id \in JobIds :
       LetGo(id) => /\ LetGo(id)'
                    /\ jobs'[id] = jobs[id] \/ StateOf(id)' = "Canceling"]_vars

\* A queued job is not forgotten: it is picked, or somebody cancels it, however
\* the daemon fails while it works on the jobs before it.
QueuedIsServed ==
  \A id \in JobIds :
    (id \in DOMAIN jobs /\ jobs[id].state = "queued")
      ~> (id \in DOMAIN jobs /\ jobs[id].state # "queued")

\* A request does not hang: it is answered, or its connection closes.
RequestsEnd == \A c \in Clients : conn[c].pc # "idle" ~> conn[c].pc = "idle"

-----------------------------------------------------------------------------
\* What the repository says of the program and the program does not do.  Each
\* of these is refuted by a run of its own.

\* "Cancel a queued or running build" (src/src/mcp.rs:192): a cancel that was
\* answered with Canceled is carried out.
CancelTakesEffect ==
  \A id \in JobIds :
    (\E c \in Clients : conn[c].pc = "reply" /\ conn[c].id = id
                         /\ conn[c].resp = "Canceled")
      ~> (id \in DOMAIN jobs /\ StateOf(id) = "Canceled")

\* "cannot transition from {self:?} to {next:?}" (src/src/model.rs:33-37): the
\* row of a job that is terminal keeps its state.
TerminalIsFinal ==
  [][\A id \in DOMAIN jobs :
       is_terminal(StateOf(id)) => StateOf(id)' = StateOf(id)]_vars

\* "assert!(events[0].contains("queued"))" (src/tests/db_state.rs:67): the first
\* event of a job is that of its enqueue.
QueuedIsFirstEvent ==
  \A id \in JobIds : events[id] # << >> => events[id][1] = "queued"
=============================================================================
