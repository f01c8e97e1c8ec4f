------------------------------- MODULE Store --------------------------------
(***************************************************************************)
(* The SQLite store of src/src/db.rs, as far as jobs and their events go.  *)
(*                                                                         *)
(* No operation of Store opens a transaction, so each SQL statement        *)
(* commits on its own.  The daemon has two connections to the file, one    *)
(* behind the control handlers' mutex and one in the worker loop, and      *)
(* their statements interleave.  This module therefore gives one operator  *)
(* per statement; Scheduler and Control string them together.              *)
(***************************************************************************)
EXTENDS JobModel, Integers, Sequences, FiniteSets

CONSTANTS
  JobIds,      \* the ids JobId::new may hand out
  NoJob,       \* no job
  ClockSteps,  \* by how much the clock may advance from one enqueue to the next
  MaxFaults    \* bound: how many environment failures a behaviour may contain

ASSUME StoreAssumption ==
  /\ IsFiniteSet(JobIds)
  /\ NoJob \notin JobIds
  /\ ClockSteps \subseteq Nat \ {0}
  /\ MaxFaults \in Nat

VARIABLES
  jobs,     \* the jobs table: a row per id inserted so far
  events,   \* the job_events table: the events of each job in id order
  clock,    \* the wall clock, read at every enqueue
  arrival,  \* history: the position of each job in the order of insertion
  faults    \* how many environment failures there have been

storeVars == <<jobs, events, clock, arrival, faults>>

Row == [state : StateText, updated_at : Nat]

StoreTypeOK ==
  /\ DOMAIN jobs \subseteq JobIds
  /\ jobs \in [DOMAIN jobs -> Row]
  /\ events \in [JobIds -> Seq(StateText)]
  /\ clock \in Nat
  /\ arrival \in [JobIds -> Nat]
  /\ faults \in 0 .. MaxFaults

StoreInit ==
  /\ jobs = [id \in {} |-> NoJob]
  /\ events = [id \in JobIds |-> << >>]
  /\ clock = 0
  /\ arrival = [id \in JobIds |-> 0]
  /\ faults = 0

-----------------------------------------------------------------------------

\* A statement that fails, a crash, an interrupt: whatever comes from outside.
Fault == faults < MaxFaults /\ faults' = faults + 1

\* enqueue's INSERT INTO jobs, with the time that was read before, under an id no
\* earlier job has (a v7 UUID).
InsertAt(id, now) ==
  /\ id \notin DOMAIN jobs
  /\ jobs' = [k \in DOMAIN jobs \cup {id} |->
                IF k = id
                THEN [state |-> state_name["Queued"], updated_at |-> now]
                ELSE jobs[k]]
  /\ arrival' = [arrival EXCEPT ![id] = Cardinality(DOMAIN jobs) + 1]

\* Reading the clock and the INSERT in one, as one process sees them: its mutex
\* keeps other enqueues out.  The clock advances only when enqueue reads it: of
\* all rows only queued ones are ever compared by updated_at, and a queued row
\* carries the time of its enqueue.
InsertJob(id) ==
  /\ \E d \in ClockSteps : clock' = clock + d
  /\ InsertAt(id, clock')

\* What get_job(id) returns in its state field.
StateOf(id) == parse_state[jobs[id].state]

\* The first half of set_state: get_job finds the row and transition_to agrees.
set_state_allowed(id) == id \in DOMAIN jobs /\ transition_to_ok(StateOf(id))

\* Mutant: the row gets the name of the state in the JSON, not in the table.
UpdateStateJsonName(id, next) ==
  jobs' = [jobs EXCEPT ![id] = [state |-> next, updated_at |-> clock]]

\* The second half: UPDATE jobs SET state, updated_at WHERE id.  It does not
\* look at the state that the first half has read.
UpdateState(id, next) ==
  jobs' = [jobs EXCEPT ![id] = [state      |-> state_name[next],
                                updated_at |-> clock]]

\* set_state and enqueue end with INSERT INTO job_events.
record_event(id, text) ==
  events' = [events EXCEPT ![id] = Append(@, text)]

\* Mutant: canceled jobs are chosen too, to finish their cancellation.
next_queued_or_canceling ==
  {id \in DOMAIN jobs :
     /\ jobs[id].state \in {"queued", "canceling"}
     /\ \A k \in DOMAIN jobs :
          jobs[k].state \in {"queued", "canceling"}
            => jobs[id].updated_at <= jobs[k].updated_at}

\* Mutant: ORDER BY updated_at DESC.
next_queued_desc ==
  {id \in DOMAIN jobs :
     /\ jobs[id].state = "queued"
     /\ \A k \in DOMAIN jobs :
          jobs[k].state = "queued" => jobs[id].updated_at >= jobs[k].updated_at}

\* SELECT id FROM jobs WHERE state = 'queued' ORDER BY updated_at ASC LIMIT 1:
\* the rows that may come first.
next_queued ==
  {id \in DOMAIN jobs :
     /\ jobs[id].state = "queued"
     /\ \A k \in DOMAIN jobs :
          jobs[k].state = "queued" => jobs[id].updated_at <= jobs[k].updated_at}

count_by_state(s) ==
  Cardinality({id \in DOMAIN jobs : jobs[id].state = state_name[s]})

-----------------------------------------------------------------------------
\* Parts of the inductive invariants that are about the table alone.

\* Among the queued rows the time stamps are in the order of arrival: what the
\* worker finds by ORDER BY updated_at is the job that came first.
StampsInOrder ==
  /\ \A id \in DOMAIN jobs : arrival[id] <= Cardinality(DOMAIN jobs)
  /\ \A id \in DOMAIN jobs : StateOf(id) = "Queued" => jobs[id].updated_at <= clock
  /\ \A i, j \in DOMAIN jobs :
       /\ StateOf(i) = "Queued" /\ StateOf(j) = "Queued"
       /\ arrival[i] < arrival[j]
       => jobs[i].updated_at < jobs[j].updated_at

\* No two jobs have the same position in the order of insertion.
ArrivalsDiffer == \A i, j \in DOMAIN jobs : arrival[i] = arrival[j] => i = j
=============================================================================
