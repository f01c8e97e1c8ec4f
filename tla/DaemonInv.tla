----------------------------- MODULE DaemonInv ------------------------------
(***************************************************************************)
(* The inductive invariants of the daemon.  The properties of Daemon about  *)
(* rows and runs hold because the worker's place in run_one_queued_job,    *)
(* its local variables, the row of its job and the history agree at every  *)
(* statement, whatever the handlers, crashes and restarts do in between.   *)
(***************************************************************************)
EXTENDS Daemon

\* Until the worker has written an outcome the row of its job is not terminal;
\* a cancel may have made it canceling.
NotOverYet ==
  Working /\ ~(wpc \in {"event", "sleep"} /\ is_terminal(wnext))
    => ~is_terminal(StateOf(wjob))

\* Rows that no worker has marked are waiting or canceled while they waited,
\* rows that one has marked are never queued again.
RowsFitHistory ==
  /\ begun \subseteq DOMAIN jobs
  /\ \A id \in DOMAIN jobs :
       IF id \in begun THEN StateOf(id) # "Queued"
                       ELSE StateOf(id) \in {"Queued", "Canceling"}

WorkerInv ==
  /\ HasJob /\ AtItsPlace /\ Marked /\ NotOverYet
  /\ RowsFitHistory /\ RunsCounted /\ OutcomeKnown
  /\ OutcomeIsBuildsOutcome

\* The log of a job has as many events of the worker as it has come past
\* set_state calls for it, and none before the worker has marked it.
Own(id) == OwnUpTo(events[id], Len(events[id]))
CallOf ==
  CASE wnext = "Preparing"  -> 1
    [] wnext = "Running"    -> 2
    [] wnext = "Collecting" -> 3
    [] OTHER                -> 4
EventsCounted ==
  /\ \A id \in JobIds : id \notin begun => Own(id) = 0
  /\ Working =>
       Own(wjob) = IF wpc \in {"read", "update", "event"} THEN CallOf - 1 ELSE CallOf

EventsInv == EventsCounted /\ WorkerEventsInOrder

-----------------------------------------------------------------------------
\* What holds of the handlers, and of the worker as they see it.

\* A handler between two of its statements has the mutex, so there is one at
\* most; and it has an answer when it replies and not before.
HandlersInTurn ==
  \A c \in Clients :
    /\ conn[c].pc \in {"update", "event", "count"} => lock = c
    /\ conn[c].pc = "update" => conn[c].req = "Cancel"
    /\ conn[c].resp # "none" => conn[c].pc = "reply"

\* The outcome that the worker has written is in the row, or a cancel has
\* replaced it.
OutcomeWritten ==
  Working /\ wpc \in {"event", "sleep"} /\ is_terminal(wnext)
    => StateOf(wjob) \in {wnext, "Canceling"}

\* The state of a row has been recorded, or who wrote it last is about to do so.
Recorded(id) == \E i \in DOMAIN events[id] : events[id][i] = jobs[id].state
EventOf(c) == IF conn[c].req = "Schedule" THEN "queued" ELSE state_name["Canceling"]
WorkerRecords(id) ==
  wpc = "event" /\ wjob = id /\ jobs[id].state = state_name[wnext]
HandlerRecords(c, id) ==
  conn[c].pc = "event" /\ conn[c].id = id /\ jobs[id].state = EventOf(c)
LastWriterRecords ==
  faults = 0 =>
    \A id \in DOMAIN jobs :
      Recorded(id) \/ WorkerRecords(id) \/ \E c \in Clients : HandlerRecords(c, id)

\* While a handler is between its two counts, what it has counted as queued and
\* what it would count as running now are different jobs, but for the one that
\* the worker has in hand or has just failed with.
RunningJobs == {id \in DOMAIN jobs : StateOf(id) = "Running"}
Twice == IF wpc = "exit" \/ (Working /\ wjob \in RunningJobs) THEN 1 ELSE 0
CountedOnce ==
  \A c \in Clients :
    conn[c].pc = "count" =>
      conn[c].queued + Cardinality(RunningJobs) <= Cardinality(DOMAIN jobs) + Twice

AnswersInv ==
  /\ HandlersInTurn /\ OutcomeWritten /\ LastWriterRecords /\ CountedOnce
  /\ StatusOvercountsByOne
=============================================================================
