---------------------------- MODULE MCTwoDaemons -----------------------------
(***************************************************************************)
(* What TLC needs beside the cfg file: which states of two daemons are the *)
(* same.                                                                   *)
(*                                                                         *)
(* No action reads the events.  Of the time stamps only those of rows that *)
(* wait and of rows to come are compared, and a new one is after them all; *)
(* and the two daemons do the same.  So the view has of these stamps only  *)
(* their order, and of the daemons the set, not which of them is A.        *)
(***************************************************************************)
EXTENDS TwoDaemons, TLC

Symmetry == Permutations(JobIds)

Stamps ==
  {jobs[k].updated_at : k \in {id \in DOMAIN jobs : jobs[id].state = state_name["Queued"]}}
    \cup {handler[d].now : d \in {e \in Daemons : handler[e].pc = "insert"}}

Rank(stamp) == Cardinality({s \in Stamps : s < stamp})

VisibleRows ==
  [k \in DOMAIN jobs |->
     <<jobs[k].state,
       IF jobs[k].state = state_name["Queued"] THEN Rank(jobs[k].updated_at) ELSE 0>>]

VisibleHandler(d) ==
  [handler[d] EXCEPT !.now = IF handler[d].pc = "insert" THEN Rank(@) ELSE 0]

Visible ==
  <<VisibleRows, before, faults,
    {<<varsA, VisibleHandler("A")>>, <<varsB, VisibleHandler("B")>>}>>
=============================================================================
