------------------------ MODULE ControlSocketProofs -------------------------
(***************************************************************************)
(* What a caller may conclude from the end of its call, for any number of  *)
(* daemons on one path, of callers, of turns of the wait and of failures.  *)
(***************************************************************************)
EXTENDS ControlSocket, TLAPS

\* Who is at the path listens there, and who is connected is connected to a
\* daemon that listens, although its file may be another's by now.
Attached ==
  /\ path \in Daemons => dpc[path] = "listen"
  /\ \A c \in Callers :
       call[c].pc \in AtServer =>
         call[c].server \in Daemons /\ dpc[call[c].server] = "listen"

\* The rows of a call at each of its places: none before the INSERT, one right
\* after it, and from then on as CallEffect has it of the end.
RowsOfCall(c) ==
  /\ call[c].made <= 1
  /\ call[c].pc \in {"idle", "exists", "dial", "backlog", "handle"} => call[c].made = 0
  /\ call[c].pc = "event" => call[c].made = 1
  /\ call[c].pc = "reply" => call[c].result \in Answers
  /\ call[c].pc \in {"reply", "done"} /\ call[c].result = "Scheduled" => call[c].made = 1
  /\ call[c].pc = "done" /\ call[c].result \in {"unavailable", "io"} => call[c].made = 0

\* What an undisturbed call has met: the daemon at the path, at once.
Undisturbed(c) ==
  call[c].calm =>
    /\ path \in Daemons
    /\ call[c].tries = 0
    /\ call[c].pc \in AtServer => call[c].server = path
    /\ call[c].pc # "lost"
    /\ call[c].pc = "done" => call[c].result \notin Failures

SocketInv ==
  /\ TypeOK
  /\ LockIsHeld
  /\ Attached
  /\ \A c \in Callers : RowsOfCall(c) /\ Undisturbed(c)

\* Nothing has been asked yet.
LEMMA SocketInit == Init => SocketInv
  BY SocketAssumption
     DEF SocketAssumption, Init, SocketInv, TypeOK, DaemonPC, Call, CallPC, NoCall, LockIsHeld,
         Attached, RowsOfCall, Undisturbed, AtServer, Answers

-----------------------------------------------------------------------------
\* Calls that a step leaves alone, but for the calm of them, keep their part of
\* the invariant.
SameBut(c) ==
  /\ call'[c].pc = call[c].pc /\ call'[c].tries = call[c].tries
  /\ call'[c].server = call[c].server /\ call'[c].result = call[c].result
  /\ call'[c].made = call[c].made

\* The path changes hands: every call is disturbed.
LEMMA PathStep ==
  ASSUME SocketInv, NEW p \in Daemons \cup {NoFile, Stale}, PathBecomes(p),
         NEW d \in Daemons, NEW pc \in DaemonPC, dpc[d] # "listen",
         dpc' = [dpc EXCEPT ![d] = pc], p \in Daemons => p = d /\ pc = "listen",
         UNCHANGED <<lock, faults>>
  PROVE  SocketInv'
<1>1. /\ path' = p /\ dpc' \in [Daemons -> DaemonPC] /\ dpc'[d] = pc
      /\ \A e \in Daemons : dpc[e] = "listen" => dpc'[e] = "listen"
  BY DEF PathBecomes, SocketInv, TypeOK
<1>2. \A c \in Callers : call'[c] = [call[c] EXCEPT !.calm = FALSE]
  BY DEF PathBecomes
<1>3. ASSUME NEW c \in Callers
      PROVE  call'[c] \in Call /\ SameBut(c) /\ call'[c].calm = FALSE
  <2>1. call[c] \in Call
    BY DEF SocketInv, TypeOK
  <2> QED BY <1>2, <2>1 DEF Call, SameBut
<1>4. call' \in [Callers -> Call]
  BY <1>3 DEF PathBecomes
<1>5. TypeOK'
  BY <1>1, <1>4 DEF SocketInv, TypeOK
<1>6. LockIsHeld'
  <2> SUFFICES ASSUME NEW e \in Daemons, lock'[e] # Nobody
               PROVE  Up(e)' /\ call'[lock'[e]].pc = "event" /\ call'[lock'[e]].server = e
    BY DEF LockIsHeld
  <2>1. lock'[e] = lock[e] /\ lock[e] \in Callers
    BY DEF SocketInv, TypeOK
  <2>2. dpc[e] = "listen" /\ call[lock[e]].pc = "event" /\ call[lock[e]].server = e
    BY <2>1 DEF SocketInv, LockIsHeld, Attached, AtServer
  <2> QED BY <1>1, <1>3, <2>1, <2>2 DEF SameBut, Up
<1>7. Attached'
  BY <1>1, <1>3 DEF SocketInv, Attached, SameBut
<1>8. ASSUME NEW c \in Callers PROVE RowsOfCall(c)' /\ Undisturbed(c)'
  <2>1. RowsOfCall(c)'
    BY <1>3 DEF SocketInv, RowsOfCall, SameBut
  <2>2. ~call'[c].calm
    BY <1>3
  <2> QED BY <2>1, <2>2 DEF Undisturbed
<1> QED BY <1>5, <1>6, <1>7, <1>8 DEF SocketInv

\* A daemon that does not listen goes on, fails or is started, and the path stays
\* as it is: nobody is connected to it.
LEMMA ProcessStep ==
  ASSUME SocketInv, NEW d \in Daemons, NEW pc \in DaemonPC, dpc' = [dpc EXCEPT ![d] = pc],
         dpc[d] # "listen", UNCHANGED <<path, lock, call, faults>>
  PROVE  SocketInv'
<1>1. /\ dpc' \in [Daemons -> DaemonPC]
      /\ \A e \in Daemons : dpc[e] = "listen" => dpc'[e] = "listen"
  BY DEF SocketInv, TypeOK
<1>2. LockIsHeld'
  <2> SUFFICES ASSUME NEW e \in Daemons, lock[e] # Nobody
               PROVE  Up(e)' /\ call[lock[e]].pc = "event" /\ call[lock[e]].server = e
    BY DEF LockIsHeld
  <2>1. lock[e] \in Callers /\ call[lock[e]].pc = "event" /\ call[lock[e]].server = e
    BY DEF SocketInv, TypeOK, LockIsHeld
  <2>2. dpc[e] = "listen"
    BY <2>1 DEF SocketInv, Attached, AtServer
  <2> QED BY <1>1, <2>1, <2>2 DEF Up
<1>4. Attached'
  BY <1>1 DEF SocketInv, Attached
<1>3. \A c \in Callers : (RowsOfCall(c) /\ Undisturbed(c))'
  BY DEF SocketInv, RowsOfCall, Undisturbed
<1> QED BY <1>1, <1>2, <1>3, <1>4 DEF SocketInv, TypeOK

\* A process ends. Its connections are lost, and no call to it is undisturbed.
LEMMA DieStep ==
  ASSUME SocketInv, NEW d \in Daemons, NEW how \in {"failed", "off"}, Die(d, how)
  PROVE  SocketInv'
<1>1. /\ dpc' \in [Daemons -> DaemonPC]
      /\ \A e \in Daemons \ {d} : dpc'[e] = dpc[e] /\ lock'[e] = lock[e]
      /\ lock'[d] = Nobody /\ lock' \in [Daemons -> Callers \cup {Nobody}]
  BY DEF Die, SocketInv, TypeOK, DaemonPC
<1>2. /\ path' \in Daemons \cup {NoFile, Stale}
      /\ path' \in Daemons => path' = path /\ path # d
      /\ path # d => path' = path
  <2>1. path' = (IF path = d THEN Stale ELSE path) /\ path \in Daemons \cup {NoFile, Stale}
    BY DEF Die, SocketInv, TypeOK
  <2> QED BY <2>1, SocketAssumption DEF SocketAssumption
<1>8. faults' \in 0 .. MaxFaults
  <2>1. faults \in 0 .. MaxFaults /\ Fault /\ MaxFaults \in Nat
    BY SocketAssumption DEF SocketAssumption, Die, SocketInv, TypeOK
  <2> QED BY <2>1 DEF Fault
<1>3. ASSUME NEW c \in Callers
      PROVE  /\ call'[c] \in Call
             /\ call'[c].pc = IF call[c].pc \in AtServer /\ call[c].server = d
                              THEN "lost" ELSE call[c].pc
             /\ call'[c].tries = call[c].tries /\ call'[c].server = call[c].server
             /\ call'[c].result = call[c].result /\ call'[c].made = call[c].made
             /\ call'[c].calm = (call[c].calm /\ path # d)
  <2>1. call[c] \in Call
    BY DEF SocketInv, TypeOK
  <2> QED BY <2>1 DEF Die, Call, CallPC
<1>4. TypeOK'
  <2>1. call' \in [Callers -> Call]
    BY <1>3 DEF Die
  <2> QED BY <1>1, <1>2, <1>8, <2>1 DEF TypeOK
<1>5. LockIsHeld'
  <2> SUFFICES ASSUME NEW e \in Daemons, lock'[e] # Nobody
               PROVE  Up(e)' /\ call'[lock'[e]].pc = "event" /\ call'[lock'[e]].server = e
    BY DEF LockIsHeld
  <2>1. e # d /\ lock'[e] = lock[e] /\ lock[e] \in Callers
    BY <1>1 DEF SocketInv, TypeOK
  <2>2. Up(e) /\ call[lock[e]].pc = "event" /\ call[lock[e]].server = e
    BY <2>1 DEF SocketInv, LockIsHeld
  <2> QED BY <1>1, <1>3, <2>1, <2>2 DEF Up
<1>6. Attached'
  BY <1>1, <1>2, <1>3 DEF SocketInv, Attached, AtServer, Up
<1>7. ASSUME NEW c \in Callers PROVE RowsOfCall(c)' /\ Undisturbed(c)'
  <2>1. RowsOfCall(c)'
    BY <1>3 DEF SocketInv, RowsOfCall
  <2>2. CASE ~call[c].calm \/ path = d
    <3>1. ~call'[c].calm
      BY <1>3, <2>2
    <3> QED BY <2>1, <3>1 DEF Undisturbed
  <2>3. CASE call[c].calm /\ path # d
    <3>1. call[c].pc \in AtServer => call[c].server # d
      BY <2>3 DEF SocketInv, Undisturbed
    <3>2. call'[c].pc = call[c].pc /\ path' = path
      BY <1>2, <1>3, <2>3, <3>1
    <3> QED BY <1>3, <2>1, <2>3, <3>2 DEF SocketInv, Undisturbed
  <2> QED BY <2>1, <2>2, <2>3
<1> QED BY <1>4, <1>5, <1>6, <1>7 DEF SocketInv

\* A call goes on, and the path and the processes stay as they are: what is left
\* to see is the call itself, and the mutex it may take or give back.
LEMMA CallStep ==
  ASSUME SocketInv, NEW c \in Callers, NEW r \in Call, call' = [call EXCEPT ![c] = r],
         UNCHANGED <<path, dpc>>, faults' \in 0 .. MaxFaults,
         r.pc \in AtServer => r.server \in Daemons /\ dpc[r.server] = "listen",
         RowsOfCall(c)', Undisturbed(c)',
         \/ r.pc # "event" /\ call[c].pc # "event" /\ lock' = lock
         \/ /\ call[c].pc = "event" /\ r.pc # "event"
            /\ lock' = [lock EXCEPT ![call[c].server] = Nobody]
         \/ /\ call[c].pc = "handle" /\ r.pc # "event"
            /\ lock[call[c].server] = Nobody
            /\ lock' = [lock EXCEPT ![call[c].server] = Nobody]
         \/ /\ r.pc = "event" /\ call[c].pc # "event" /\ r.server \in Daemons
            /\ lock' = [lock EXCEPT ![r.server] = c]
  PROVE  SocketInv'
<1>1. /\ call' \in [Callers -> Call] /\ call'[c] = r
      /\ \A e \in Callers \ {c} : call'[e] = call[e]
  BY DEF SocketInv, TypeOK
<1>2. lock' \in [Daemons -> Callers \cup {Nobody}]
  BY DEF SocketInv, TypeOK
<1>3. TypeOK'
  BY <1>1, <1>2 DEF SocketInv, TypeOK
<1>4. LockIsHeld'
  <2> SUFFICES ASSUME NEW e \in Daemons, lock'[e] # Nobody
               PROVE  Up(e) /\ call'[lock'[e]].pc = "event" /\ call'[lock'[e]].server = e
    BY DEF LockIsHeld, Up
  <2>1. lock[e] # Nobody =>
          /\ lock[e] \in Callers /\ Up(e)
          /\ call[lock[e]].pc = "event" /\ call[lock[e]].server = e
    BY DEF SocketInv, TypeOK, LockIsHeld
  <2>2. lock'[e] = c => r.pc = "event" /\ r.server = e /\ Up(e)
    BY <2>1, SocketAssumption DEF SocketAssumption, SocketInv, TypeOK, AtServer, Up
  <2>3. lock'[e] # c => lock'[e] = lock[e]
    BY DEF SocketInv, TypeOK
  <2> QED BY <1>1, <2>1, <2>2, <2>3
<1>5. Attached'
  BY <1>1 DEF SocketInv, Attached, Up
<1>6. \A e \in Callers \ {c} : RowsOfCall(e)' /\ Undisturbed(e)'
  BY <1>1 DEF SocketInv, RowsOfCall, Undisturbed
<1> QED BY <1>3, <1>4, <1>5, <1>6 DEF SocketInv

-----------------------------------------------------------------------------
\* The statements of a daemon that takes the path over.
LEMMA DaemonStep ==
  ASSUME SocketInv, NEW d \in Daemons, Start(d) \/ Serve(d)
  PROVE  SocketInv'
<1>1. CASE Start(d) \/ TryExists(d)
  <2>1. PICK pc \in DaemonPC : dpc' = [dpc EXCEPT ![d] = pc]
    BY <1>1 DEF Start, TryExists, DaemonPC
  <2>2. dpc[d] # "listen" /\ UNCHANGED <<path, lock, call, faults>>
    BY <1>1 DEF Start, TryExists, Up
  <2> QED BY <2>1, <2>2, ProcessStep
<1>2. CASE RemoveFile(d)
  <2>1. dpc[d] # "listen" /\ UNCHANGED <<lock, faults>>
    BY <1>2 DEF RemoveFile
  <2>2. CASE path # NoFile
    <3>1. PathBecomes(NoFile) /\ dpc' = [dpc EXCEPT ![d] = "bind"]
      BY <1>2, <2>2 DEF RemoveFile
    <3>2. "bind" \in DaemonPC /\ NoFile \notin Daemons
      BY SocketAssumption DEF SocketAssumption, DaemonPC
    <3> QED BY <2>1, <3>1, <3>2, PathStep
  <2>3. CASE path = NoFile
    <3>1. dpc' = [dpc EXCEPT ![d] = "failed"] /\ UNCHANGED <<path, call>>
      BY <1>2, <2>3 DEF RemoveFile
    <3> QED BY <2>1, <3>1, ProcessStep DEF DaemonPC
  <2> QED BY <2>2, <2>3
<1>3. CASE Bind(d)
  <2>1. dpc[d] # "listen" /\ UNCHANGED <<lock, faults>>
    BY <1>3 DEF Bind
  <2>2. CASE path = NoFile
    <3>1. PathBecomes(d) /\ dpc' = [dpc EXCEPT ![d] = "listen"] /\ "listen" \in DaemonPC
      BY <1>3, <2>2 DEF Bind, DaemonPC
    <3> QED BY <2>1, <3>1, PathStep
  <2>3. CASE path # NoFile
    <3>1. dpc' = [dpc EXCEPT ![d] = "failed"] /\ UNCHANGED <<path, call>>
      BY <1>3, <2>3 DEF Bind
    <3> QED BY <2>1, <3>1, ProcessStep DEF DaemonPC
  <2> QED BY <2>2, <2>3
<1> QED BY <1>1, <1>2, <1>3 DEF Serve

-----------------------------------------------------------------------------
\* The ways a call goes on.

\* A call is over for the caller.
LEMMA EndStep ==
  ASSUME SocketInv, NEW c \in Callers, NEW result \in Answers \cup Failures,
         End(c, result), call[c].pc \in {"exists", "dial", "lost", "reply"},
         UNCHANGED <<path, dpc, lock, faults>>,
         result = "Scheduled" => call[c].made = 1,
         result \in {"unavailable", "io"} => call[c].made = 0,
         call[c].calm => result \notin Failures
  PROVE  SocketInv'
<1> DEFINE r == [call[c] EXCEPT !.pc = "done", !.result = result]
<1>1. call[c] \in Call /\ faults \in 0 .. MaxFaults /\ RowsOfCall(c) /\ Undisturbed(c)
  BY DEF SocketInv, TypeOK
<1>2. r \in Call /\ r.pc = "done"
  BY <1>1 DEF Call, CallPC
<1>3. call' = [call EXCEPT ![c] = r] /\ call'[c] = r
  BY DEF End, SocketInv, TypeOK
<1>4. RowsOfCall(c)' /\ Undisturbed(c)'
  BY <1>1, <1>3 DEF Call, RowsOfCall, Undisturbed, AtServer
<1> HIDE DEF r
<1> QED BY <1>1, <1>2, <1>3, <1>4, CallStep DEF AtServer

\* A handler has an answer, and gives the mutex back if it had it.
LEMMA AnswerStep ==
  ASSUME SocketInv, NEW c \in Callers, NEW result \in Answers,
         AnswerWith(c, result), UNCHANGED <<path, dpc>>, faults' \in 0 .. MaxFaults,
         \/ call[c].pc = "handle" /\ lock' = lock
         \/ /\ call[c].pc = "handle" /\ lock[call[c].server] = Nobody
            /\ lock' = [lock EXCEPT ![call[c].server] = Nobody]
         \/ call[c].pc = "event" /\ lock' = [lock EXCEPT ![call[c].server] = Nobody],
         result = "Scheduled" => call[c].pc = "event"
  PROVE  SocketInv'
<1> DEFINE r == [call[c] EXCEPT !.pc = "reply", !.result = result]
<1>1. /\ call[c] \in Call /\ RowsOfCall(c) /\ Undisturbed(c)
      /\ call[c].server \in Daemons /\ dpc[call[c].server] = "listen"
  BY DEF SocketInv, TypeOK, Attached, AtServer
<1>2. r \in Call /\ r.pc = "reply" /\ r.server = call[c].server
  BY <1>1 DEF Call, CallPC
<1>3. call' = [call EXCEPT ![c] = r] /\ call'[c] = r
  BY DEF AnswerWith, SocketInv, TypeOK
<1>4. RowsOfCall(c)'
  BY <1>1, <1>3 DEF Call, RowsOfCall
<1>5. Undisturbed(c)'
  BY <1>1, <1>3 DEF Call, Undisturbed, AtServer
<1> HIDE DEF r
<1> QED BY <1>1, <1>2, <1>3, <1>4, <1>5, CallStep DEF AtServer

\* A call goes on with the same connection, or gets one to whoever is at the path.
LEMMA GoOnStep ==
  ASSUME SocketInv, NEW c \in Callers, NEW pc \in {"dial", "handle", "backlog"},
         NEW server \in Daemons \cup {Nobody},
         call' = [call EXCEPT ![c] = [@ EXCEPT !.pc = pc, !.server = server]],
         call[c].pc \in {"exists", "dial", "backlog"},
         UNCHANGED <<path, dpc, lock, faults>>,
         \/ pc = "dial"
         \/ pc = "handle" /\ call[c].pc = "backlog" /\ server = call[c].server
         \/ pc = "backlog" /\ server = path /\ path \in Daemons
  PROVE  SocketInv'
<1> DEFINE r == [call[c] EXCEPT !.pc = pc, !.server = server]
<1>1. /\ call[c] \in Call /\ faults \in 0 .. MaxFaults /\ RowsOfCall(c) /\ Undisturbed(c)
      /\ call[c].pc = "backlog" =>
           call[c].server \in Daemons /\ dpc[call[c].server] = "listen"
  BY DEF SocketInv, TypeOK, Attached, AtServer
<1>2. r \in Call /\ r.pc = pc /\ r.server = server
  BY <1>1 DEF Call, CallPC
<1>3. call' = [call EXCEPT ![c] = r] /\ call'[c] = r
  BY DEF SocketInv, TypeOK
<1>4. pc \in AtServer => server \in Daemons /\ dpc[server] = "listen"
  BY <1>1 DEF AtServer, SocketInv, Attached
<1>5. RowsOfCall(c)'
  BY <1>1, <1>3 DEF Call, RowsOfCall
<1>6. Undisturbed(c)'
  BY <1>1, <1>3 DEF Call, Undisturbed, AtServer
<1> HIDE DEF r
<1> QED BY <1>1, <1>2, <1>3, <1>4, <1>5, <1>6, CallStep

-----------------------------------------------------------------------------
\* The steps of a caller.
LEMMA CallerStep ==
  ASSUME SocketInv, NEW c \in Callers, Begin(c) \/ Ask(c)
  PROVE  SocketInv'
<1>1. call[c] \in Call /\ faults \in 0 .. MaxFaults /\ RowsOfCall(c) /\ Undisturbed(c)
  BY DEF SocketInv, TypeOK
<1>2. CASE Begin(c) \/ Return(c)
  <2>1. NoCall \in Call
    BY SocketAssumption DEF SocketAssumption, NoCall, Call, CallPC
  <2>2. PICK r \in Call :
          /\ call' = [call EXCEPT ![c] = r]
          /\ r.pc \in {"idle", "exists"} /\ r.made = 0 /\ r.tries = 0
          /\ r.calm => path \in Daemons
    <3>1. CASE Begin(c)
      <4> DEFINE calm == path \in Daemons
                 r == [NoCall EXCEPT !.pc = "exists", !.calm = calm]
      <4>1. calm \in BOOLEAN /\ (calm => path \in Daemons)
        OBVIOUS
      <4>2. call' = [call EXCEPT ![c] = r]
        BY <3>1 DEF Begin
      <4> HIDE DEF calm
      <4>3. r \in Call
        BY <2>1, <4>1 DEF Call, CallPC
      <4>4. r.pc = "exists" /\ r.made = 0 /\ r.tries = 0 /\ r.calm = calm
        BY DEF NoCall
      <4> HIDE DEF r
      <4> QED BY <4>1, <4>2, <4>3, <4>4
    <3>2. CASE Return(c)
      <4>1. NoCall.pc = "idle" /\ NoCall.made = 0 /\ NoCall.tries = 0 /\ ~NoCall.calm
        BY DEF NoCall
      <4> QED BY <2>1, <3>2, <4>1 DEF Return
    <3> QED BY <1>2, <3>1, <3>2
  <2>3. call'[c] = r /\ UNCHANGED <<path, dpc, lock, faults>> /\ call[c].pc \in {"idle", "done"}
    BY <1>2, <2>2 DEF Begin, Return, SocketInv, TypeOK
  <2>4. RowsOfCall(c)'
    BY <2>2, <2>3 DEF RowsOfCall
  <2>5. Undisturbed(c)'
    BY <2>2, <2>3 DEF Undisturbed, AtServer
  <2> QED BY <1>1, <2>2, <2>3, <2>4, <2>5, CallStep DEF AtServer
<1>3. CASE Look(c)
  <2>1. call[c].pc = "exists" /\ UNCHANGED <<path, dpc, lock, faults>>
    BY <1>3 DEF Look
  <2>2. CASE call[c].tries = MaxTries
    <3>1. ~call[c].calm
      BY <1>1, <2>2, SocketAssumption DEF SocketAssumption, Undisturbed
    <3> QED BY <1>1, <1>3, <2>1, <2>2, <3>1, EndStep DEF Look, Failures, RowsOfCall
  <2>3. CASE call[c].tries # MaxTries /\ path # NoFile
    <3>1. call' = [call EXCEPT ![c] = [@ EXCEPT !.pc = "dial", !.server = call[c].server]]
          /\ call[c].server \in Daemons \cup {Nobody}
      BY <1>1, <1>3, <2>3 DEF Look, Goto, Call
    <3> QED BY <2>1, <3>1, GoOnStep
  <2>4. CASE call[c].tries # MaxTries /\ path = NoFile
    <3> DEFINE r == [call[c] EXCEPT !.tries = @ + 1]
    <3>1. ~call[c].calm
      BY <1>1, <2>4, SocketAssumption DEF SocketAssumption, Undisturbed
    <3>2. r \in Call /\ r.pc = "exists" /\ r.made = call[c].made /\ r.calm = call[c].calm
      BY <1>1, <2>1, <2>4, SocketAssumption DEF SocketAssumption, Call
    <3>3. call' = [call EXCEPT ![c] = r] /\ call'[c] = r
      BY <1>3, <2>4 DEF Look, SocketInv, TypeOK
    <3> HIDE DEF r
    <3>4. RowsOfCall(c)' /\ Undisturbed(c)'
      BY <1>1, <2>1, <3>1, <3>2, <3>3 DEF RowsOfCall, Undisturbed
    <3> QED BY <1>1, <2>1, <3>2, <3>3, <3>4, CallStep DEF AtServer
  <2> QED BY <2>2, <2>3, <2>4
<1>4. CASE Dial(c)
  <2>1. CASE path \in Daemons
    BY <1>4, <2>1, GoOnStep DEF Dial
  <2>2. CASE path \notin Daemons
    <3>1. ~call[c].calm
      BY <1>1, <2>2 DEF Undisturbed
    <3> QED BY <1>1, <1>4, <2>2, <3>1, EndStep DEF Dial, Failures, RowsOfCall
  <2> QED BY <2>1, <2>2
<1>5. CASE HangUp(c)
  <2>1. ~call[c].calm
    BY <1>1, <1>5 DEF Undisturbed, HangUp
  <2> QED BY <1>5, <2>1, EndStep DEF HangUp, Failures
<1> QED BY <1>2, <1>3, <1>4, <1>5 DEF Ask

\* The statements of a handler.
LEMMA HandlerStep ==
  ASSUME SocketInv, NEW c \in Callers, Handle(c) \/ Reject(c) \/ FailStatement(c)
  PROVE  SocketInv'
<1>1. call[c] \in Call /\ faults \in 0 .. MaxFaults /\ RowsOfCall(c) /\ Undisturbed(c)
  BY DEF SocketInv, TypeOK
<1>2. CASE Accept(c)
  <2>1. call' = [call EXCEPT ![c] = [@ EXCEPT !.pc = "handle", !.server = call[c].server]]
        /\ call[c].server \in Daemons \cup {Nobody}
    BY <1>1, <1>2 DEF Accept, Goto, Call
  <2> QED BY <1>2, <2>1, GoOnStep DEF Accept
<1>3. CASE Insert(c)
  <2> DEFINE r == [call[c] EXCEPT !.pc = "event", !.made = 1]
  <2>1. call[c].server \in Daemons /\ dpc[call[c].server] = "listen" /\ call[c].made = 0
    BY <1>1, <1>3 DEF SocketInv, Attached, AtServer, Insert, RowsOfCall
  <2>2. r \in Call
    BY <1>1, <2>1 DEF Call, CallPC
  <2>5. /\ r.pc = "event" /\ r.server = call[c].server /\ r.made = 1
        /\ r.tries = call[c].tries /\ r.calm = call[c].calm
    BY <1>1, <2>1 DEF Call
  <2>3. call' = [call EXCEPT ![c] = r] /\ call'[c] = r
    <3>1. call[c].made + 1 = 1
      BY <2>1
    <3>2. call' = [call EXCEPT ![c] = r]
      BY <1>3, <3>1 DEF Insert
    <3> QED BY <3>2 DEF SocketInv, TypeOK
  <2> HIDE DEF r
  <2>4. RowsOfCall(c)'
    BY <2>3, <2>5 DEF RowsOfCall
  <2>6. Undisturbed(c)'
    BY <1>1, <1>3, <2>3, <2>5 DEF Undisturbed, Insert, AtServer
  <2> QED BY <1>1, <1>3, <2>1, <2>2, <2>5, <2>3, <2>4, <2>6, CallStep DEF Insert
<1>4. CASE Record(c)
  BY <1>1, <1>4, AnswerStep DEF Record, Answers
<1>5. CASE Respond(c)
  <2>1. call[c].result \in Answers /\ call[c].result \notin Failures
    BY <1>1, <1>5 DEF Respond, RowsOfCall, Answers, Failures
  <2> QED BY <1>1, <1>5, <2>1, EndStep DEF Respond, RowsOfCall, Failures
<1>6. CASE Reject(c)
  BY <1>1, <1>6, AnswerStep DEF Reject, Answers
<1>7. CASE FailStatement(c)
  <2>1. faults' \in 0 .. MaxFaults
    BY <1>1, <1>7, SocketAssumption DEF SocketAssumption, FailStatement, Fault
  <2> QED BY <1>7, <2>1, AnswerStep DEF FailStatement, Answers
<1> QED BY <1>2, <1>3, <1>4, <1>5, <1>6, <1>7 DEF Handle

\* Every step keeps the invariant.
LEMMA SocketNext == SocketInv /\ [Next]_vars => SocketInv'
<1> SUFFICES ASSUME SocketInv, [Next]_vars PROVE SocketInv'
  OBVIOUS
<1>1. CASE UNCHANGED vars
  BY <1>1 DEF vars, SocketInv, TypeOK, LockIsHeld, Up, Attached, RowsOfCall, Undisturbed
<1>2. ASSUME NEW d \in Daemons, Start(d) \/ Serve(d) PROVE SocketInv'
  BY <1>2, DaemonStep
<1>3. ASSUME NEW d \in Daemons, Crash(d) \/ Stop(d) PROVE SocketInv'
  BY <1>3, DieStep DEF Crash, Stop
<1>4. ASSUME NEW c \in Callers,
             Begin(c) \/ Ask(c) \/ Handle(c) \/ Reject(c) \/ FailStatement(c)
      PROVE  SocketInv'
  BY <1>4, CallerStep, HandlerStep
<1> QED BY <1>1, <1>2, <1>3, <1>4 DEF Next

-----------------------------------------------------------------------------

\* The invariant holds throughout, and with it that the module is type correct.
THEOREM SocketInvariance == Spec => []SocketInv
<1>1. Init => SocketInv BY SocketInit
<1>2. SocketInv /\ [Next]_vars => SocketInv' BY SocketNext
<1> QED BY <1>1, <1>2, PTL DEF Spec

\* The variables keep their types.
THEOREM SocketTypeOK == Spec => []TypeOK
<1>1. SocketInv => TypeOK BY DEF SocketInv
<1> QED BY <1>1, SocketInvariance, PTL

\* The mutex of a daemon is held by a handler of that daemon which is between
\* the two statements of enqueue, or by nobody.
THEOREM SocketLockIsHeld == Spec => []LockIsHeld
<1>1. SocketInv => LockIsHeld BY DEF SocketInv
<1> QED BY <1>1, SocketInvariance, PTL

\* One call makes at most one job; an answer Scheduled means one, and a call that
\* was never connected none.
THEOREM SocketCallEffect == Spec => []CallEffect
<1>1. SocketInv => CallEffect BY DEF SocketInv, RowsOfCall, CallEffect
<1> QED BY <1>1, SocketInvariance, PTL

\* A call to which nothing happened but its own statements gets an answer.
THEOREM SocketNoSpuriousFailure == Spec => []NoSpuriousFailure
<1>1. SocketInv => NoSpuriousFailure
  BY DEF SocketInv, Undisturbed, NoSpuriousFailure
<1> QED BY <1>1, SocketInvariance, PTL
=============================================================================
