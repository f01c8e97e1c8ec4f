------------------------------ MODULE MCDaemon ------------------------------
(* Instances of the daemon for TLC. *)
EXTENDS DaemonQueue, DaemonInv, TLC

\* Jobs and clients are interchangeable: no action names one of them, and a
\* queued job is chosen by its time stamp only.
Symmetry == Permutations(JobIds) \cup Permutations(Clients)
=============================================================================
