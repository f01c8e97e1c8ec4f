------------------------------ MODULE Control -------------------------------
(***************************************************************************)
(* The control socket of src/src/control.rs and the handlers behind it,    *)
(* DaemonControl::handle of src/src/daemon.rs.  Every request has its own  *)
(* connection and its own task; the tasks share one store connection       *)
(* behind a mutex.  Modelled are the requests that write the jobs table    *)
(* and the one that reads it twice; the others are a single read.          *)
(***************************************************************************)
EXTENDS Store

CONSTANTS
  Clients,     \* callers of ControlClient::request (the CLI, the MCP server)
  NoClient,    \* no client
  Requests,    \* the requests that the clients make
  MaxCancels   \* bound: how many Cancel requests a behaviour may contain

ASSUME ControlAssumption ==
  /\ NoClient \notin Clients
  /\ Requests \subseteq {"Schedule", "Cancel", "Status"}
  /\ MaxCancels \in Nat

VARIABLES
  listening,  \* the socket is bound
  lock,       \* the client whose handler holds the store mutex
  conn,       \* the connection of each client
  cancels     \* how many Cancel requests there have been

controlVars == <<listening, lock, conn, cancels>>

ConnPC ==
  {"idle", "connected", "accepted", "update", "event", "count", "reply"}

Conn ==
  [pc : ConnPC,
   req : {"none", "Schedule", "Cancel", "Status"},
   id : JobIds \cup {NoJob},
   resp : {"none", "Scheduled", "Canceled", "Status", "Error"},
   queued : Nat, active : Nat]

IdleConn ==
  [pc |-> "idle", req |-> "none", id |-> NoJob, resp |-> "none",
   queued |-> 0, active |-> 0]

ControlTypeOK ==
  /\ listening \in BOOLEAN
  /\ lock \in Clients \cup {NoClient}
  /\ conn \in [Clients -> Conn]
  /\ cancels \in 0 .. MaxCancels

ControlInit ==
  /\ listening = FALSE
  /\ lock = NoClient
  /\ conn = [c \in Clients |-> IdleConn]
  /\ cancels = 0

-----------------------------------------------------------------------------
\* The client side: connect and write one line.  The connection waits in the
\* listener's backlog until the daemon accepts it.

Send(c, req, id) ==
  /\ listening
  /\ req \in Requests
  /\ conn[c].pc = "idle"
  /\ conn' = [conn EXCEPT ![c] = [IdleConn EXCEPT !.pc = "connected",
                                                  !.req = req, !.id = id]]
  /\ UNCHANGED <<storeVars, listening, lock>>

\* Bound: no more Schedule requests than there are ids left.
RequestSchedule(c) ==
  /\ Cardinality(JobIds \ DOMAIN jobs) >
       Cardinality({d \in Clients : /\ conn[d].req = "Schedule"
                                    /\ conn[d].pc \in {"connected", "accepted"}})
  /\ Send(c, "Schedule", NoJob)
  /\ UNCHANGED cancels

\* Any id may be asked for, one that was never scheduled too.
RequestCancel(c, id) ==
  /\ cancels < MaxCancels
  /\ cancels' = cancels + 1
  /\ Send(c, "Cancel", id)

RequestStatus(c) ==
  /\ Send(c, "Status", NoJob)
  /\ UNCHANGED cancels

-----------------------------------------------------------------------------
\* The handler side.  A handler takes the mutex with its first statement and
\* gives it back with its last.

\* The accept loop of serve_control_socket spawns a task for the connection.
AcceptConn(c) ==
  /\ conn[c].pc = "connected"
  /\ conn' = [conn EXCEPT ![c].pc = "accepted"]
  /\ UNCHANGED <<listening, lock, cancels>>

Handling(c, req) == conn[c].pc = "accepted" /\ conn[c].req = req

Answer(c, resp) ==
  conn' = [conn EXCEPT ![c] = [@ EXCEPT !.pc = "reply", !.resp = resp]]

\* The tree is unknown or the policy says no: nothing is stored.
ScheduleReject(c) ==
  /\ Handling(c, "Schedule")
  /\ Answer(c, "Error")
  /\ UNCHANGED <<storeVars, listening, lock, cancels>>

\* enqueue, first statement.
EnqueueInsert(c) ==
  /\ Handling(c, "Schedule")
  /\ lock = NoClient
  /\ lock' = c
  /\ \E id \in JobIds :
       /\ InsertJob(id)
       /\ conn' = [conn EXCEPT ![c] = [@ EXCEPT !.pc = "event", !.id = id]]
  /\ UNCHANGED <<events, faults, listening, cancels>>

\* set_state(id, Canceling), first statement.
CancelRead(c) ==
  /\ Handling(c, "Cancel")
  /\ lock = NoClient
  /\ IF set_state_allowed(conn[c].id)
     THEN lock' = c /\ conn' = [conn EXCEPT ![c] = [@ EXCEPT !.pc = "update"]]
     ELSE Answer(c, "Error") /\ UNCHANGED lock
  /\ UNCHANGED <<storeVars, listening, cancels>>

\* Mutant: the handler itself finishes the cancellation.
CancelAtOnce(c) ==
  /\ conn[c].pc = "update"
  /\ UpdateState(conn[c].id, "Canceled")
  /\ conn' = [conn EXCEPT ![c] = [@ EXCEPT !.pc = "event"]]
  /\ UNCHANGED <<events, clock, arrival, faults, listening, lock, cancels>>

\* set_state(id, Canceling), second statement.
CancelWrite(c) ==
  /\ conn[c].pc = "update"
  /\ UpdateState(conn[c].id, "Canceling")
  /\ conn' = [conn EXCEPT ![c] = [@ EXCEPT !.pc = "event"]]
  /\ UNCHANGED <<events, clock, arrival, faults, listening, lock, cancels>>

\* Mutant: a cancel leaves no event.
LogQueuedOnly(c) ==
  /\ conn[c].pc = "event"
  /\ IF conn[c].req = "Schedule"
     THEN record_event(conn[c].id, "queued") /\ Answer(c, "Scheduled")
     ELSE UNCHANGED events /\ Answer(c, "Canceled")
  /\ lock' = NoClient
  /\ UNCHANGED <<jobs, clock, arrival, faults, listening, cancels>>

\* The last statement of enqueue and of set_state.
LogEvent(c) ==
  /\ conn[c].pc = "event"
  /\ IF conn[c].req = "Schedule"
     THEN record_event(conn[c].id, "queued") /\ Answer(c, "Scheduled")
     ELSE record_event(conn[c].id, state_name["Canceling"]) /\ Answer(c, "Canceled")
  /\ lock' = NoClient
  /\ UNCHANGED <<jobs, clock, arrival, faults, listening, cancels>>

\* Status counts twice, in two statements.
CountQueued(c) ==
  /\ Handling(c, "Status")
  /\ lock = NoClient
  /\ lock' = c
  /\ conn' = [conn EXCEPT ![c] = [@ EXCEPT !.pc = "count",
                                           !.queued = count_by_state("Queued")]]
  /\ UNCHANGED <<storeVars, listening, cancels>>

\* Mutant: every job that is not over counts as active.
CountUnfinished(c) ==
  /\ conn[c].pc = "count"
  /\ conn' = [conn EXCEPT ![c] =
                [@ EXCEPT !.pc = "reply", !.resp = "Status",
                          !.active = Cardinality({id \in DOMAIN jobs :
                                                    ~is_terminal(StateOf(id))})]]
  /\ lock' = NoClient
  /\ UNCHANGED <<storeVars, listening, cancels>>

CountRunning(c) ==
  /\ conn[c].pc = "count"
  /\ conn' = [conn EXCEPT ![c] = [@ EXCEPT !.pc = "reply", !.resp = "Status",
                                           !.active = count_by_state("Running")]]
  /\ lock' = NoClient
  /\ UNCHANGED <<storeVars, listening, cancels>>

\* A statement fails: the handler answers with the error.  What its earlier
\* statements wrote stays written.
HandlerFault(c) ==
  /\ conn[c].pc \in {"accepted", "update", "event", "count"}
  /\ lock \in {NoClient, c}
  /\ Fault
  /\ lock' = NoClient
  /\ Answer(c, "Error")
  /\ UNCHANGED <<jobs, events, clock, arrival, listening, cancels>>

\* Mutant: only a handler that has come to its end closes the connection.
RespondUnlessError(c) ==
  /\ conn[c].pc = "reply"
  /\ conn[c].resp # "Error"
  /\ conn' = [conn EXCEPT ![c] = IdleConn]
  /\ UNCHANGED <<storeVars, listening, lock, cancels>>

\* The answer is written and the connection closed.
Respond(c) ==
  /\ conn[c].pc = "reply"
  /\ conn' = [conn EXCEPT ![c] = IdleConn]
  /\ UNCHANGED <<storeVars, listening, lock, cancels>>

ClientStep(c) ==
  \/ RequestSchedule(c)
  \/ \E id \in JobIds : RequestCancel(c, id)
  \/ RequestStatus(c)

HandlerStep(c) ==
  \/ ScheduleReject(c) \/ EnqueueInsert(c)
  \/ CancelRead(c) \/ CancelWrite(c) \/ LogEvent(c)
  \/ CountQueued(c) \/ CountRunning(c)
  \/ Respond(c)
=============================================================================
