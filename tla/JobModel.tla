------------------------------ MODULE JobModel ------------------------------
(***************************************************************************)
(* The job states of src/src/model.rs and the text under which             *)
(* src/src/db.rs writes them to the jobs and job_events tables.            *)
(***************************************************************************)

JobState ==
  {"Queued", "Preparing", "Running", "Collecting", "Succeeded",
   "Canceling", "Canceled", "Failed", "TimedOut"}

is_terminal(s) == s \in {"Succeeded", "Canceled", "Failed", "TimedOut"}

\* JobState::transition_to(self, next) is Ok(next) from every state that is
\* not terminal, whatever next is, and Err(InvalidState) from a terminal one.
transition_to_ok(s) == ~is_terminal(s)

\* The text in the state column and in job_events.event.
state_name ==
  [Queued     |-> "queued",     Preparing |-> "preparing",
   Running    |-> "running",    Collecting |-> "collecting",
   Succeeded  |-> "succeeded",  Canceling |-> "canceling",
   Canceled   |-> "canceled",   Failed    |-> "failed",
   TimedOut   |-> "timed_out"]

parse_state ==
  [queued     |-> "Queued",     preparing |-> "Preparing",
   running    |-> "Running",    collecting |-> "Collecting",
   succeeded  |-> "Succeeded",  canceling |-> "Canceling",
   canceled   |-> "Canceled",   failed    |-> "Failed",
   timed_out  |-> "TimedOut"]

StateText == DOMAIN parse_state
=============================================================================
