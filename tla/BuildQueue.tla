----------------------------- MODULE BuildQueue -----------------------------
(***************************************************************************)
(* What the daemon promises about the jobs it is given, told without       *)
(* statements, connections or processes: a first-come first-served queue   *)
(* with one server that serves each job at most once.                      *)
(*                                                                         *)
(*   waiting    in the queue                                               *)
(*   taken      the server has chosen it but not yet marked it             *)
(*   begun      the server has marked it and works on it                   *)
(*   over       the server has let go of it, finished or not               *)
(*   withdrawn  it left the queue without having been served               *)
(***************************************************************************)
EXTENDS Integers

CONSTANT Job

VARIABLES
  phase,   \* how far each job has come
  ticket,  \* the position of each job in the order of submission
  issued   \* how many tickets have been given out

vars == <<phase, ticket, issued>>

Phase == {"absent", "waiting", "taken", "begun", "over", "withdrawn"}

TypeOK ==
  /\ phase \in [Job -> Phase]
  /\ ticket \in [Job -> Nat]
  /\ issued \in Nat

Init ==
  /\ phase = [j \in Job |-> "absent"]
  /\ ticket = [j \in Job |-> 0]
  /\ issued = 0

Held(j) == phase[j] \in {"taken", "begun"}

Move(j, from, to) ==
  /\ phase[j] = from
  /\ phase' = [phase EXCEPT ![j] = to]

Submit(j) ==
  /\ Move(j, "absent", "waiting")
  /\ issued' = issued + 1
  /\ ticket' = [ticket EXCEPT ![j] = issued + 1]

Withdraw(j) == Move(j, "waiting", "withdrawn") /\ UNCHANGED <<ticket, issued>>

\* The server is free and takes the job that has waited longest.
Take(j) ==
  /\ \A k \in Job : ~Held(k)
  /\ \A k \in Job : phase[k] = "waiting" => ticket[j] <= ticket[k]
  /\ Move(j, "waiting", "taken")
  /\ UNCHANGED <<ticket, issued>>

\* The server dies before it has marked the job.  If somebody canceled the job
\* in the meantime it does not go back to the queue.
PutBack(j) == Move(j, "taken", "waiting")   /\ UNCHANGED <<ticket, issued>>
Drop(j)    == Move(j, "taken", "withdrawn") /\ UNCHANGED <<ticket, issued>>

Begin(j) == Move(j, "taken", "begun") /\ UNCHANGED <<ticket, issued>>
Close(j) == Move(j, "begun", "over")  /\ UNCHANGED <<ticket, issued>>

Next ==
  \E j \in Job :
    \/ Submit(j) \/ Withdraw(j)
    \/ Take(j) \/ PutBack(j) \/ Drop(j)
    \/ Begin(j) \/ Close(j)

Spec == Init /\ [][Next]_vars

-----------------------------------------------------------------------------

\* The server never holds two jobs.
OneAtATime == \A j, k \in Job : Held(j) /\ Held(k) => j = k

\* No job is served while one that was submitted before it is still waiting,
\* although a death of the server puts jobs back into the queue.
NoOvertaking ==
  \A j, k \in Job :
    /\ phase[j] \in {"begun", "over"}
    /\ phase[k] = "waiting"
    => ticket[j] < ticket[k]

=============================================================================
