-------------------------- MODULE BuildQueueProofs --------------------------
(***************************************************************************)
(* The queue serves one job at a time and in the order of submission,      *)
(* however many jobs there are.                                            *)
(***************************************************************************)
EXTENDS BuildQueue, TLAPS

\* NoOvertaking is not inductive: PutBack makes a job wait again, so nothing
\* that came after a taken job may have been served either, and Take needs the
\* tickets of two jobs to differ.
Present(j) == phase[j] # "absent"

TicketsIssued == \A j \in Job : Present(j) => ticket[j] <= issued

TicketsDiffer ==
  \A j, k \in Job : Present(j) /\ Present(k) /\ j # k => ticket[j] # ticket[k]

TakenIsFirst ==
  \A j, k \in Job :
    phase[j] = "taken" /\ phase[k] = "waiting" => ticket[j] < ticket[k]

ServedBefore ==
  \A j, k \in Job :
    phase[j] \in {"begun", "over"} /\ phase[k] \in {"waiting", "taken"}
      => ticket[j] < ticket[k]

QueueInv ==
  TypeOK /\ OneAtATime /\ TicketsIssued /\ TicketsDiffer /\ TakenIsFirst /\ ServedBefore

\* The invariant holds of the empty queue.
LEMMA QueueInit == Init => QueueInv
  BY DEF Init, QueueInv, TypeOK, Phase, OneAtATime, Held, TicketsIssued, Present,
         TicketsDiffer, TakenIsFirst, ServedBefore

\* A move of a job that stays present leaves everything alone that is about
\* tickets only.
LEMMA MoveKeepsTickets ==
  ASSUME QueueInv, NEW j \in Job, NEW from \in Phase \ {"absent"},
         NEW to \in Phase \ {"absent"},
         Move(j, from, to), UNCHANGED <<ticket, issued>>
  PROVE  TypeOK' /\ TicketsIssued' /\ TicketsDiffer'
  BY DEF QueueInv, TypeOK, Move, TicketsIssued, TicketsDiffer, Present

\* Every operation of the queue keeps the invariant.
LEMMA QueueNext == QueueInv /\ [Next]_vars => QueueInv'
<1> SUFFICES ASSUME QueueInv, [Next]_vars PROVE QueueInv'
  OBVIOUS
<1> USE DEF Present, Held
<1>1. CASE UNCHANGED vars
  BY <1>1 DEF vars, QueueInv, TypeOK, OneAtATime, TicketsIssued, TicketsDiffer,
              TakenIsFirst, ServedBefore
<1>2. ASSUME NEW j \in Job, Submit(j) PROVE QueueInv'
  <2>1. TypeOK' /\ OneAtATime'
    BY <1>2 DEF QueueInv, Submit, Move, TypeOK, Phase, OneAtATime
  <2>2. TicketsIssued' /\ TicketsDiffer'
    BY <1>2 DEF QueueInv, Submit, Move, TypeOK, TicketsIssued, TicketsDiffer
  <2>3. TakenIsFirst' /\ ServedBefore'
    BY <1>2 DEF QueueInv, Submit, Move, TypeOK, TicketsIssued, TakenIsFirst,
                ServedBefore
  <2> QED BY <2>1, <2>2, <2>3 DEF QueueInv
<1>3. ASSUME NEW j \in Job, Withdraw(j) \/ Drop(j) PROVE QueueInv'
  <2>1. TypeOK' /\ TicketsIssued' /\ TicketsDiffer'
    BY <1>3, MoveKeepsTickets DEF Withdraw, Drop, Phase
  <2>2. OneAtATime' /\ TakenIsFirst' /\ ServedBefore'
    BY <1>3 DEF QueueInv, Withdraw, Drop, Move, TypeOK, OneAtATime, TakenIsFirst,
                ServedBefore
  <2> QED BY <2>1, <2>2 DEF QueueInv
<1>4. ASSUME NEW j \in Job, Take(j) PROVE QueueInv'
  <2>1. TypeOK' /\ TicketsIssued' /\ TicketsDiffer'
    BY <1>4, MoveKeepsTickets DEF Take, Phase
  <2>2. OneAtATime' /\ ServedBefore'
    BY <1>4 DEF QueueInv, Take, Move, TypeOK, OneAtATime, ServedBefore
  <2>3. TakenIsFirst'
    BY <1>4 DEF QueueInv, Take, Move, TypeOK, TicketsDiffer, TakenIsFirst
  <2> QED BY <2>1, <2>2, <2>3 DEF QueueInv
<1>5. ASSUME NEW j \in Job, PutBack(j) PROVE QueueInv'
  <2>1. TypeOK' /\ TicketsIssued' /\ TicketsDiffer'
    BY <1>5, MoveKeepsTickets DEF PutBack, Phase
  <2>2. OneAtATime' /\ TakenIsFirst' /\ ServedBefore'
    BY <1>5 DEF QueueInv, PutBack, Move, TypeOK, OneAtATime, TakenIsFirst,
                ServedBefore
  <2> QED BY <2>1, <2>2 DEF QueueInv
<1>6. ASSUME NEW j \in Job, Begin(j) PROVE QueueInv'
  <2>1. TypeOK' /\ TicketsIssued' /\ TicketsDiffer'
    BY <1>6, MoveKeepsTickets DEF Begin, Phase
  <2>2. OneAtATime' /\ TakenIsFirst' /\ ServedBefore'
    BY <1>6 DEF QueueInv, Begin, Move, TypeOK, OneAtATime, TakenIsFirst, ServedBefore
  <2> QED BY <2>1, <2>2 DEF QueueInv
<1>7. ASSUME NEW j \in Job, Close(j) PROVE QueueInv'
  <2>1. TypeOK' /\ TicketsIssued' /\ TicketsDiffer'
    BY <1>7, MoveKeepsTickets DEF Close, Phase
  <2>2. OneAtATime' /\ TakenIsFirst' /\ ServedBefore'
    BY <1>7 DEF QueueInv, Close, Move, TypeOK, OneAtATime, TakenIsFirst, ServedBefore
  <2> QED BY <2>1, <2>2 DEF QueueInv
<1> QED BY <1>1, <1>2, <1>3, <1>4, <1>5, <1>6, <1>7 DEF Next

\* The invariant holds throughout.
THEOREM QueueInvariance == Spec => []QueueInv
<1>1. Init => QueueInv BY QueueInit
<1>2. QueueInv /\ [Next]_vars => QueueInv' BY QueueNext
<1> QED BY <1>1, <1>2, PTL DEF Spec

\* The server never holds two jobs: one worker loop, one job at a time.
THEOREM QueueOneAtATime == Spec => []OneAtATime
<1>1. QueueInv => OneAtATime BY DEF QueueInv
<1> QED BY <1>1, QueueInvariance, PTL

\* No job is served before one that was submitted earlier and still waits.
THEOREM QueueNoOvertaking == Spec => []NoOvertaking
<1>1. QueueInv => NoOvertaking BY DEF QueueInv, ServedBefore, NoOvertaking
<1> QED BY <1>1, QueueInvariance, PTL
=============================================================================
