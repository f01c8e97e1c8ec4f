---------------------------- MODULE DaemonQueue -----------------------------
(***************************************************************************)
(* The daemon implements BuildQueue.  The phase of a job is read off its   *)
(* row, the worker's local variables and the history of the worker.        *)
(***************************************************************************)
EXTENDS Daemon

phaseBar ==
  [id \in JobIds |->
     CASE id \notin DOMAIN jobs       -> "absent"
       [] id \in DOMAIN jobs /\ wjob = id /\ id \notin begun -> "taken"
       [] id \in DOMAIN jobs /\ wjob = id /\ id \in begun    -> "begun"
       [] id \in DOMAIN jobs /\ wjob # id /\ id \in begun    -> "over"
       [] id \in DOMAIN jobs /\ wjob # id /\ id \notin begun ->
            IF jobs[id].state = "queued" THEN "waiting" ELSE "withdrawn"]

Queue == INSTANCE BuildQueue WITH
           Job    <- JobIds,
           phase  <- phaseBar,
           ticket <- arrival,
           issued <- Cardinality(DOMAIN jobs)

\* Every behaviour of the daemon, statement by statement, is a behaviour of the
\* queue: first come first served, one at a time, each job served once, and a
\* job canceled while it waits never served.
ImplementsQueue == Queue!Spec

\* What the implementation is worth: no row is marked by the worker while the
\* row of a job that was enqueued before it is still queued, although workers
\* die with jobs they have picked and the next one picks again.
NoOvertaking == Queue!NoOvertaking
=============================================================================
