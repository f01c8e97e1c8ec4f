---------------------------- MODULE ControlSocket ----------------------------
(***************************************************************************)
(* The way from a caller to a handler: the socket file that                *)
(* serve_control_socket of src/src/control.rs takes over, what             *)
(* ControlClient finds there, and what a caller of Schedule may conclude   *)
(* from the answer or from none.                                           *)
(*                                                                         *)
(* Nothing stops two daemons from being started with one configuration, so *)
(* there is a set of them.  A daemon is its accept loop and its handlers   *)
(* here; that the accept loop waits for the worker is Daemon's subject.    *)
(* Of the handlers there is the one that writes: Schedule.                 *)
(***************************************************************************)
EXTENDS Naturals, FiniteSets

CONSTANTS
  Daemons,     \* the processes that serve the socket
  Supervised,  \* those that a service manager starts again
  Callers,     \* the CLI, the MCP server
  NoFile,      \* nothing is at the path
  Stale,       \* at the path is the socket of a process that is gone
  Nobody,      \* no daemon, no caller
  MaxTries,    \* how often a caller looks for the file: 50 in the code
  MaxFaults    \* bound: crashes, orders to stop, failing statements

ASSUME SocketAssumption ==
  /\ IsFiniteSet(Daemons)
  /\ Supervised \subseteq Daemons
  /\ NoFile \notin Daemons \cup {Stale}
  /\ Stale \notin Daemons
  /\ Nobody \notin Daemons \cup Callers
  /\ MaxTries \in Nat \ {0}
  /\ MaxFaults \in Nat

VARIABLES
  path,    \* what is at mcp.control_socket; a daemon that listens there
  dpc,     \* where each daemon is in serve_control_socket
  lock,    \* whose handler holds the mutex of each daemon
  call,    \* the request of each caller, from connect to its end
  faults   \* how many failures there have been

vars == <<path, dpc, lock, call, faults>>

\* "failed" is a process that ended with an error or a crash, "off" one that
\* was stopped in order or never started.
DaemonPC == {"off", "failed", "exists", "remove", "bind", "listen"}
Up(d) == dpc[d] \notin {"off", "failed"}

CallPC == {"idle", "exists", "dial", "backlog", "handle", "event", "reply",
           "lost", "done"}
AtServer == {"backlog", "handle", "event", "reply"}

Answers == {"Scheduled", "Error"}
\* "unavailable": no file in time; "io": nobody listens at the path; "empty":
\* the connection ended without a line.
Failures == {"unavailable", "io", "empty"}

\* made: history, the rows that this call has inserted.  calm: history, the
\* path has named one daemon, alive, ever since the call began.
Call == [pc : CallPC, tries : 0 .. MaxTries, server : Daemons \cup {Nobody},
         result : Answers \cup Failures \cup {"none"},
         made : Nat, calm : BOOLEAN]

NoCall == [pc |-> "idle", tries |-> 0, server |-> Nobody, result |-> "none",
           made |-> 0, calm |-> FALSE]

TypeOK ==
  /\ path \in Daemons \cup {NoFile, Stale}
  /\ dpc \in [Daemons -> DaemonPC]
  /\ lock \in [Daemons -> Callers \cup {Nobody}]
  /\ call \in [Callers -> Call]
  /\ faults \in 0 .. MaxFaults

Init ==
  /\ path \in {NoFile, Stale}
  /\ dpc = [d \in Daemons |-> "off"]
  /\ lock = [d \in Daemons |-> Nobody]
  /\ call = [c \in Callers |-> NoCall]
  /\ faults = 0

Fault == faults < MaxFaults /\ faults' = faults + 1

-----------------------------------------------------------------------------
\* The daemon.

\* What is at the path changes, and no call in progress is undisturbed.
PathBecomes(p) ==
  /\ path' = p
  /\ call' = [c \in Callers |-> [call[c] EXCEPT !.calm = FALSE]]

\* `kbs daemon`, by the operator at any time or by the service manager.
Start(d) ==
  /\ ~Up(d)
  /\ dpc' = [dpc EXCEPT ![d] = "exists"]
  /\ UNCHANGED <<path, lock, call, faults>>

Restart(d) == d \in Supervised /\ dpc[d] = "failed" /\ Start(d)

\* Mutant: the daemon binds without looking.
BindAtOnce(d) ==
  /\ dpc[d] = "exists"
  /\ dpc' = [dpc EXCEPT ![d] = "bind"]
  /\ UNCHANGED <<path, lock, call, faults>>

\* fs::try_exists runs on a thread of its own; the daemon goes on from its
\* answer later.
TryExists(d) ==
  /\ dpc[d] = "exists"
  /\ dpc' = [dpc EXCEPT ![d] = IF path = NoFile THEN "bind" ELSE "remove"]
  /\ UNCHANGED <<path, lock, call, faults>>

\* fs::remove_file, whosever socket it is.  Another daemon may have removed
\* it first: then the error ends this one.
RemoveFile(d) ==
  /\ dpc[d] = "remove"
  /\ IF path # NoFile
     THEN PathBecomes(NoFile) /\ dpc' = [dpc EXCEPT ![d] = "bind"]
     ELSE dpc' = [dpc EXCEPT ![d] = "failed"] /\ UNCHANGED <<path, call>>
  /\ UNCHANGED <<lock, faults>>

\* UnixListener::bind refuses a path at which there is a file.
Bind(d) ==
  /\ dpc[d] = "bind"
  /\ IF path = NoFile
     THEN PathBecomes(d) /\ dpc' = [dpc EXCEPT ![d] = "listen"]
     ELSE dpc' = [dpc EXCEPT ![d] = "failed"] /\ UNCHANGED <<path, call>>
  /\ UNCHANGED <<lock, faults>>

\* The process ends: its connections close, its file stays.  The worker may
\* fail without any fault of the environment, so only the order to stop and
\* the crash are counted and an error of the worker is a crash.
Die(d, how) ==
  /\ Up(d)
  /\ Fault
  /\ dpc' = [dpc EXCEPT ![d] = how]
  /\ lock' = [lock EXCEPT ![d] = Nobody]
  /\ path' = IF path = d THEN Stale ELSE path
  /\ call' = [c \in Callers |->
                [call[c] EXCEPT
                   !.pc = IF @ \in AtServer /\ call[c].server = d THEN "lost" ELSE @,
                   !.calm = @ /\ path # d]]

Crash(d) == Die(d, "failed")
Stop(d)  == Die(d, "off")

-----------------------------------------------------------------------------
\* The caller: ControlClient::connect, then ControlClient::request.

Goto(c, pc) == call' = [call EXCEPT ![c].pc = pc]

End(c, result) ==
  call' = [call EXCEPT ![c] = [@ EXCEPT !.pc = "done", !.result = result]]

Begin(c) ==
  /\ call[c].pc = "idle"
  /\ call' = [call EXCEPT ![c] = [NoCall EXCEPT !.pc = "exists",
                                                !.calm = path \in Daemons]]
  /\ UNCHANGED <<path, dpc, lock, faults>>

\* One turn of the loop over MaxTries.  The file is all it looks at.
Look(c) ==
  /\ call[c].pc = "exists"
  /\ IF call[c].tries = MaxTries
     THEN End(c, "unavailable")
     ELSE IF path # NoFile
          THEN Goto(c, "dial")
          ELSE call' = [call EXCEPT ![c].tries = @ + 1]
  /\ UNCHANGED <<path, dpc, lock, faults>>

\* UnixStream::connect and the line with the request, which fits the buffer.
Dial(c) ==
  /\ call[c].pc = "dial"
  /\ IF path \in Daemons
     THEN call' = [call EXCEPT ![c] = [@ EXCEPT !.pc = "backlog", !.server = path]]
     ELSE End(c, "io")
  /\ UNCHANGED <<path, dpc, lock, faults>>

\* Mutant: the caller tries again when it has read nothing.
HangUpRetries(c) ==
  /\ call[c].pc = "lost"
  /\ Goto(c, "exists")
  /\ UNCHANGED <<path, dpc, lock, faults>>

\* read_line returns nothing, or an error.
HangUp(c) ==
  /\ call[c].pc = "lost"
  /\ End(c, "empty")
  /\ UNCHANGED <<path, dpc, lock, faults>>

\* The caller has seen the result.
Return(c) ==
  /\ call[c].pc = "done"
  /\ call' = [call EXCEPT ![c] = NoCall]
  /\ UNCHANGED <<path, dpc, lock, faults>>

-----------------------------------------------------------------------------
\* The handler, in the daemon to which the caller is connected.

Accept(c) ==
  /\ call[c].pc = "backlog"
  /\ Goto(c, "handle")
  /\ UNCHANGED <<path, dpc, lock, faults>>

AnswerWith(c, result) ==
  call' = [call EXCEPT ![c] = [@ EXCEPT !.pc = "reply", !.result = result]]

\* No such tree, or the policy says no.
Reject(c) ==
  /\ call[c].pc = "handle"
  /\ AnswerWith(c, "Error")
  /\ UNCHANGED <<path, dpc, lock, faults>>

\* enqueue: the row, then the event, both under the mutex.
Insert(c) ==
  /\ call[c].pc = "handle"
  /\ lock[call[c].server] = Nobody
  /\ lock' = [lock EXCEPT ![call[c].server] = c]
  /\ call' = [call EXCEPT ![c] = [@ EXCEPT !.pc = "event",
                                                !.made = call[c].made + 1]]
  /\ UNCHANGED <<path, dpc, faults>>

Record(c) ==
  /\ call[c].pc = "event"
  /\ lock' = [lock EXCEPT ![call[c].server] = Nobody]
  /\ AnswerWith(c, "Scheduled")
  /\ UNCHANGED <<path, dpc, faults>>

\* Mutant: the mutex guard outlives the error.
FailLocked(c) ==
  /\ \/ call[c].pc = "handle" /\ lock[call[c].server] = Nobody
     \/ call[c].pc = "event"
  /\ Fault
  /\ AnswerWith(c, "Error")
  /\ UNCHANGED <<path, dpc, lock>>

\* Mutant: the error of a handler leaves handle_stream before the answer.
FailUnanswered(c) ==
  /\ \/ call[c].pc = "handle" /\ lock[call[c].server] = Nobody
     \/ call[c].pc = "event"
  /\ Fault
  /\ lock' = [lock EXCEPT ![call[c].server] = Nobody]
  /\ Goto(c, "lost")
  /\ UNCHANGED <<path, dpc>>

\* The INSERT of the row or of the event fails; a row that is there stays.
FailStatement(c) ==
  /\ \/ call[c].pc = "handle" /\ lock[call[c].server] = Nobody
     \/ call[c].pc = "event"
  /\ Fault
  /\ lock' = [lock EXCEPT ![call[c].server] = Nobody]
  /\ AnswerWith(c, "Error")
  /\ UNCHANGED <<path, dpc>>

\* The line is written and the connection closed.
Respond(c) ==
  /\ call[c].pc = "reply"
  /\ End(c, call[c].result)
  /\ UNCHANGED <<path, dpc, lock, faults>>

-----------------------------------------------------------------------------

Serve(d) == TryExists(d) \/ RemoveFile(d) \/ Bind(d)

Ask(c) == Look(c) \/ Dial(c) \/ HangUp(c) \/ Return(c)

Handle(c) == Accept(c) \/ Insert(c) \/ Record(c) \/ Respond(c)

Next ==
  \/ \E d \in Daemons : Start(d) \/ Serve(d) \/ Crash(d) \/ Stop(d)
  \/ \E c \in Callers : Begin(c) \/ Ask(c) \/ Handle(c) \/ Reject(c) \/ FailStatement(c)

Spec == Init /\ [][Next]_vars

\* Processes run, and a service manager starts what has failed.  Nobody has to
\* call, start another daemon or stop one, and no request has to be one that is
\* rejected: a handler may not get out of waiting for the mutex that way.
Fairness ==
  /\ \A d \in Daemons : WF_vars(Serve(d))
  /\ \A d \in Supervised : WF_vars(Restart(d))
  /\ \A c \in Callers : WF_vars(Ask(c)) /\ WF_vars(Handle(c))

FairSpec == Spec /\ Fairness

-----------------------------------------------------------------------------
\* Properties

\* What the caller of one Schedule may conclude from how the call ended, with
\* daemons that crash, replace each other or fail in the middle of enqueue.
\* Only Scheduled, unavailable and io tell whether there is a job: after an
\* Error or no answer there may be one, and a second call may make a second.
CallEffect ==
  \A c \in Callers :
    /\ call[c].made <= 1
    /\ call[c].pc = "done" =>
         /\ call[c].result = "Scheduled" => call[c].made = 1
         /\ call[c].result \in {"unavailable", "io"} => call[c].made = 0

\* A call fails without an answer only if the daemon at the path died or was
\* replaced while it was made: not for an error of the handler, nor because of
\* other callers, nor of a daemon that is not at the path.
NoSpuriousFailure ==
  \A c \in Callers :
    call[c].pc = "done" /\ call[c].result \in Failures => ~call[c].calm

\* No handler waits for a mutex that a handler which is gone has kept: the guard
\* that DaemonControl::store returns is given up with the process, with an error
\* and with the end of enqueue, and never for another daemon's.
LockIsHeld ==
  \A d \in Daemons :
    lock[d] # Nobody =>
      Up(d) /\ call[lock[d]].pc = "event" /\ call[lock[d]].server = d

\* A daemon that is started, alone, gets the path, whatever its predecessors
\* have left there.
OthersDown(d) == \A e \in Daemons \ {d} : ~Up(e)
TakesPath ==
  \A d \in Supervised :
    [](dpc[d] = "exists" /\ [](OthersDown(d) /\ dpc[d] # "off") => <>(path = d))

\* A call ends, however the daemon serves or fails it, unless other callers
\* take the mutex away from it for ever: std::sync::Mutex keeps no order among
\* those that wait.  A caller that has gone, or a handler that has failed, does
\* not hold anyone up.
OthersInsert(c) == \E e \in Callers \ {c} : call[e].pc = "event"
CallEnds ==
  \A c \in Callers :
    [](call[c].pc # "idle" /\ []~OthersInsert(c) => <>(call[c].pc = "idle"))
=============================================================================
