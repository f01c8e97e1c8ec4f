------------------------- MODULE SourceTreesProofs --------------------------
(***************************************************************************)
(* The source trees, for any names, sources, configurations and clients.   *)
(***************************************************************************)
EXTENDS SourceTrees, TLAPS

Inv == TypeOK /\ TreesInv

\* A closed connection is one.
LEMMA IdleTyped == IdleConn \in Conn
  BY DEF Conn, IdleConn, Option

\* What the policy accepts has exactly one source.
LEMMA OneSource ==
  ASSUME PolicyAssumption, NEW s \in SecurityConfig, NEW request, source_allowed(s, request)
  PROVE  (request.source_root = None) # (request.source_url = None)
  BY DEF PolicyAssumption, SecurityConfig, source_allowed

\* A resolved request is a request, made from the tree.
LEMMA ResolvedTyped ==
  ASSUME NEW request \in BuildRequest, NEW tree \in TreeRecord
  PROVE  /\ apply_tree_source(request, tree) \in BuildRequest
         /\ apply_tree_source(request, tree).tree_name = request.tree_name
         /\ MadeFrom(apply_tree_source(request, tree), request, tree)
  BY DEF BuildRequest, TreeRecord, apply_tree_source, MadeFrom

\* A registration gives a record.
LEMMA RecordTyped ==
  ASSUME NEW tree \in TreeRegistration
  PROVE  RecordOf(tree) \in TreeRecord
  BY DEF TreeRegistration, TreeRecord, RecordOf

\* The initial states are type correct.
LEMMA TypeInit ==
  ASSUME PolicyAssumption, TreesAssumption, Init
  PROVE  TypeOK
  BY DEF TreesAssumption, Init, TypeOK, Conn, IdleConn, Option

\* An answer without a tree keeps the connections typed.
LEMMA AnswerTyped ==
  ASSUME TypeOK, NEW c \in Clients, NEW resp, Answer(c, resp),
         resp \in {"Scheduled", "TreeRemoved", "Error"}
  PROVE  conn' \in [Clients -> Conn]
<1>1. [conn[c] EXCEPT !.pc = "reply", !.resp = resp] \in Conn
  BY DEF TypeOK, Conn
<1> HIDE DEF Conn
<1> QED BY <1>1 DEF TypeOK, Answer

\* A step of a connection that only moves its place keeps the connections typed.
LEMMA MoveTyped ==
  ASSUME TypeOK, NEW c \in Clients, NEW pc, conn' = [conn EXCEPT ![c].pc = pc],
         pc \in {"validate", "insert", "event", "upsert", "read"}
  PROVE  conn' \in [Clients -> Conn]
  BY DEF TypeOK, Conn

\* A resolved request keeps the connections typed.
LEMMA ResolvedConn ==
  ASSUME TypeOK, NEW c \in Clients, NEW request \in BuildRequest, Resolved(c, request)
  PROVE  conn' \in [Clients -> Conn]
<1>1. conn[c] \in Conn /\ request \in Option(BuildRequest)
  BY DEF TypeOK, Option
<1>2. [conn[c] EXCEPT !.pc = "validate", !.request = request] \in Conn
  BY <1>1 DEF Conn
<1> QED BY <1>2 DEF TypeOK, Resolved

\* What a name means stays typed.
LEMMA MeansTyped ==
  ASSUME TypeOK, NEW name \in Names, NEW record \in Option(TreeRecord), Means(name, record)
  PROVE  /\ meant' \in [Names -> Option(TreeRecord)]
         /\ could' \in [Clients -> SUBSET Option(TreeRecord)]
  BY DEF TypeOK, Means

\* Every step keeps the types.
LEMMA TypeStep ==
  ASSUME PolicyAssumption, TreesAssumption, Inv, [Next]_vars
  PROVE  TypeOK'
<1> USE DEF Inv
<1>1. CASE UNCHANGED vars
  BY <1>1 DEF vars, TypeOK
<1>2. ASSUME NEW c \in Clients, Ask(c) PROVE TypeOK'
  <2>1. ASSUME NEW request \in BuildRequests, AskSchedule(c, request) PROVE TypeOK'
    <3>1. request \in BuildRequest
      BY DEF TreesAssumption
    <3>2. [IdleConn EXCEPT !.pc = "handle", !.request = request,
                           !.asked = [type |-> "schedule", request |-> request]] \in Conn
      BY <3>1 DEF Conn, IdleConn, Option, ControlRequest
    <3>3. could' \in [Clients -> SUBSET Option(TreeRecord)]
      BY <2>1, <3>1 DEF AskSchedule, TypeOK, BuildRequest, Option
    <3> QED
      BY <2>1, <3>2, <3>3 DEF AskSchedule, TypeOK, tables
  <2>2. ASSUME NEW asked \in ControlRequest, AskOther(c, asked) PROVE TypeOK'
    <3>1. [IdleConn EXCEPT !.pc = "handle", !.asked = asked] \in Conn
      BY DEF Conn, IdleConn, Option
    <3> QED
      BY <2>2, <3>1 DEF AskOther, TypeOK, tables, history
  <2> QED
    BY <1>2, <2>1, <2>2 DEF Ask, ControlRequest, TreesAssumption
<1>3. ASSUME NEW c \in Clients, Handle(c) PROVE TypeOK'
  <2>1. CASE ResolveNothing(c)
    <3>1. conn' \in [Clients -> Conn]
      BY <2>1, ResolvedConn DEF ResolveNothing, Asking, TreesInv, AtItsPlace
    <3> QED
      BY <2>1, <3>1 DEF ResolveNothing, TypeOK, tables, history
  <2>2. CASE ResolveTree(c)
    <3>1. conn[c].request \in BuildRequest
      BY <2>2 DEF ResolveTree, Asking, TreesInv, AtItsPlace
    <3>2. ASSUME conn[c].request.tree_name \in DOMAIN trees
          PROVE  apply_tree_source(conn[c].request, trees[conn[c].request.tree_name])
                   \in BuildRequest
      BY <3>1, <3>2, ResolvedTyped DEF TypeOK
    <3>3. conn' \in [Clients -> Conn]
      BY <2>2, <3>2, ResolvedConn, AnswerTyped DEF ResolveTree
    <3> QED
      BY <2>2, <3>3 DEF ResolveTree, TypeOK, tables, history
  <2>3. CASE Validate(c)
    BY <2>3, AnswerTyped, MoveTyped DEF Validate, TypeOK, tables, history
  <2>4. CASE Enqueue(c)
    <3>1. conn[c].request \in BuildRequest
      BY <2>4 DEF Enqueue, TreesInv, AtItsPlace
    <3>2. DOMAIN queue' \subseteq JobIds /\ queue' \in [DOMAIN queue' -> BuildRequest]
      BY <2>4, <3>1 DEF Enqueue, TypeOK
    <3> QED
      BY <2>4, <3>2, MoveTyped DEF Enqueue, TypeOK, history
  <2>5. CASE EnqueueEvent(c)
    BY <2>5, AnswerTyped DEF EnqueueEvent, TypeOK, tables, history
  <2>6. CASE ValidateTree(c)
    BY <2>6, AnswerTyped, MoveTyped DEF ValidateTree, TypeOK, tables, history
  <2>7. CASE UpsertTree(c)
    <3>1. conn[c].asked.tree \in TreeRegistration
      BY <2>7 DEF UpsertTree, TreesInv, AtItsPlace, ControlRequest
    <3>2. conn[c].asked.tree.name \in Names /\ RecordOf(conn[c].asked.tree) \in TreeRecord
      BY <3>1, RecordTyped DEF TreeRegistration
    <3>3. DOMAIN trees' \subseteq Names /\ trees' \in [DOMAIN trees' -> TreeRecord]
      BY <2>7, <3>2 DEF UpsertTree, upsert, TypeOK
    <3>4. conn' \in [Clients -> Conn]
      BY <2>7, MoveTyped DEF UpsertTree
    <3>5. /\ meant' \in [Names -> Option(TreeRecord)]
          /\ could' \in [Clients -> SUBSET Option(TreeRecord)]
      BY <2>7, <3>2, MeansTyped DEF UpsertTree, Option
    <3> QED
      BY <2>7, <3>3, <3>4, <3>5 DEF UpsertTree, TypeOK
  <2>8. CASE ReadTree(c)
    <3>1. conn' \in [Clients -> Conn]
      <4>1. CASE conn[c].asked.tree.name \in DOMAIN trees
        <5> DEFINE tree == trees[conn[c].asked.tree.name]
        <5>1. tree \in Option(TreeRecord) /\ conn[c] \in Conn
          BY <4>1 DEF TypeOK, Option
        <5>2. conn' = [conn EXCEPT ![c] = [@ EXCEPT !.pc = "reply", !.tree = tree,
                                                    !.resp = "TreeRegistered"]]
          BY <2>8, <4>1 DEF ReadTree
        <5> HIDE DEF tree
        <5>3. [conn[c] EXCEPT !.pc = "reply", !.tree = tree,
                              !.resp = "TreeRegistered"] \in Conn
          BY <5>1 DEF Conn
        <5> QED BY <5>2, <5>3 DEF TypeOK
      <4>2. CASE conn[c].asked.tree.name \notin DOMAIN trees
        BY <2>8, <4>2, AnswerTyped DEF ReadTree
      <4> QED BY <4>1, <4>2
    <3> QED
      BY <2>8, <3>1 DEF ReadTree, TypeOK, tables, history
  <2>9. CASE RemoveTree(c)
    <3>1. conn[c].asked.name \in Names
      BY <2>9 DEF RemoveTree, Asking, TreesInv, AtItsPlace, ControlRequest
    <3>2. /\ meant' \in [Names -> Option(TreeRecord)]
          /\ could' \in [Clients -> SUBSET Option(TreeRecord)]
      BY <2>9, <3>1, MeansTyped DEF RemoveTree, Option
    <3>3. DOMAIN trees' \subseteq Names /\ trees' \in [DOMAIN trees' -> TreeRecord]
      BY <2>9 DEF RemoveTree, TypeOK
    <3> QED
      BY <2>9, <3>2, <3>3, AnswerTyped DEF RemoveTree, TypeOK
  <2>10. CASE Respond(c)
    BY <2>10, IdleTyped DEF Respond, TypeOK, tables
  <2> QED
    BY <1>3, <2>1, <2>2, <2>3, <2>4, <2>5, <2>6, <2>7, <2>8, <2>9, <2>10 DEF Handle
<1>4. ASSUME NEW c \in Clients, HandlerFault(c) PROVE TypeOK'
  BY <1>4, AnswerTyped DEF HandlerFault, Fault, TypeOK, tables, history, TreesAssumption
<1>5. CASE Crash
  <2>1. conn' \in [Clients -> Conn] /\ could' \in [Clients -> SUBSET Option(TreeRecord)]
    BY <1>5, IdleTyped DEF Crash
  <2>2. faults' \in 0 .. MaxFaults
    BY <1>5 DEF Crash, Fault, TypeOK, TreesAssumption
  <2>3. up' \in BOOLEAN /\ lock' \in Clients \cup {NoClient}
    BY <1>5 DEF Crash
  <2>4. UNCHANGED <<security, trees, queue, meant>>
    BY <1>5 DEF Crash, tables
  <2> QED
    BY <2>1, <2>2, <2>3, <2>4, Zenon DEF TypeOK
<1>6. CASE Restart
  BY <1>6 DEF Restart, TypeOK, tables, history, TreesAssumption
<1> QED
  BY <1>1, <1>2, <1>3, <1>4, <1>5, <1>6 DEF Next

-----------------------------------------------------------------------------

\* The part of the invariant that is about one connection.
ConnFits(c) ==
  /\ conn[c].pc # "idle" => up /\ conn[c].asked \in ControlRequest
  /\ conn[c].pc \in {"handle", "validate", "insert"} /\ conn[c].asked.type = "schedule"
       => conn[c].request \in BuildRequest
  /\ Asking(c, "schedule") => conn[c].request = conn[c].asked.request
  /\ conn[c].pc \in {"validate", "insert", "event"} => conn[c].asked.type = "schedule"
  /\ conn[c].pc \in {"upsert", "read"} => conn[c].asked.type = "register_tree"
  /\ conn[c].pc \in {"event", "read"} <=> lock = c
  /\ conn[c].pc = "insert" => validate_request(security, conn[c].request)
  /\ NamesTree(c) =>
       /\ meant[conn[c].asked.request.tree_name] \in could[c]
       /\ conn[c].pc # "handle" =>
            \E tree \in could[c] \ {None} :
              MadeFrom(conn[c].request, conn[c].asked.request, tree)
  /\ conn[c].pc = "read" =>
       /\ conn[c].asked.tree.name \in DOMAIN trees
       /\ trees[conn[c].asked.tree.name] = RecordOf(conn[c].asked.tree)
  /\ conn[c].pc = "reply" /\ conn[c].asked.type = "register_tree" =>
       conn[c].resp = "Error" \/ conn[c].tree = RecordOf(conn[c].asked.tree)

\* The invariant, connection by connection.
LEMMA InvByConn ==
  TreesInv <=> /\ \A c \in Clients : ConnFits(c)
               /\ TableIsMeant
               /\ WorkerFindsSource
  BY DEF TreesInv, AtItsPlace, LockHeld, Accepted, ResolvedInTime, OwnTreeIsThere,
         AnswerIsOwnTree, Asking, ConnFits

\* The same of the next state.
LEMMA InvByConnNext ==
  (TreesInv <=> /\ \A c \in Clients : ConnFits(c)
                /\ TableIsMeant
                /\ WorkerFindsSource)'
  BY InvByConn, PTL

Others(c) == \A d \in Clients \ {c} : conn'[d] = conn[d] /\ could'[d] = could[d]

\* A step of one connection under an unchanged table and policy keeps the
\* invariant if it keeps that connection's part of it.
LEMMA OneConnection ==
  ASSUME TreesAssumption, Inv, NEW c \in Clients, Others(c),
         UNCHANGED <<security, up, trees, meant>>,
         lock' = lock \/ {lock, lock'} \subseteq {NoClient, c},
         ConnFits(c)', WorkerFindsSource'
  PROVE  TreesInv'
<1>1. ASSUME NEW d \in Clients \ {c} PROVE ConnFits(d)'
  <2>1. ConnFits(d)
    BY InvByConn DEF Inv
  <2>2. conn'[d] = conn[d] /\ could'[d] = could[d] /\ (lock' = d <=> lock = d)
    BY DEF Others, TreesAssumption
  <2> QED
    BY <2>1, <2>2 DEF ConnFits, Asking, NamesTree
<1>2. TableIsMeant'
  BY DEF Inv, TreesInv, TableIsMeant
<1> QED
  BY <1>1, <1>2, InvByConnNext

\* What an answer, a move and a resolution do to the connections.
LEMMA AnswerEffect ==
  ASSUME TypeOK, NEW c \in Clients, NEW resp, Answer(c, resp)
  PROVE  /\ \A d \in Clients \ {c} : conn'[d] = conn[d]
         /\ conn'[c].pc = "reply" /\ conn'[c].resp = resp
         /\ conn'[c].asked = conn[c].asked
  BY DEF TypeOK, Conn, Answer

\* A connection that goes on to its next statement keeps its request.
LEMMA MoveEffect ==
  ASSUME TypeOK, NEW c \in Clients, NEW pc, conn' = [conn EXCEPT ![c].pc = pc]
  PROVE  /\ \A d \in Clients \ {c} : conn'[d] = conn[d]
         /\ conn'[c].pc = pc
         /\ conn'[c].asked = conn[c].asked /\ conn'[c].request = conn[c].request
  BY DEF TypeOK, Conn

\* A connection whose tree was resolved goes on to the policy with the new request.
LEMMA ResolvedEffect ==
  ASSUME TypeOK, NEW c \in Clients, NEW request, Resolved(c, request)
  PROVE  /\ \A d \in Clients \ {c} : conn'[d] = conn[d]
         /\ conn'[c].pc = "validate"
         /\ conn'[c].asked = conn[c].asked /\ conn'[c].request = request
  BY DEF TypeOK, Conn, Resolved

\* A connection that answers an error fits, if it gives the mutex back.
LEMMA ErrorFits ==
  ASSUME Inv, NEW c \in Clients, Answer(c, "Error"), conn[c].pc # "idle",
         up' = up, lock' # c
  PROVE  ConnFits(c)'
  BY AnswerEffect, InvByConn DEF Inv, ConnFits, Asking, NamesTree

\* The daemon starts in the invariant.
LEMMA InvInit ==
  ASSUME PolicyAssumption, TreesAssumption, Init
  PROVE  Inv
  BY TypeInit
     DEF TreesAssumption, Init, IdleConn, Inv, TreesInv, AtItsPlace, LockHeld, Accepted,
         TableIsMeant, ResolvedInTime, NamesTree, Asking, OwnTreeIsThere, AnswerIsOwnTree,
         WorkerFindsSource

\* A step of a Schedule keeps the invariant.
LEMMA ScheduleInv ==
  ASSUME PolicyAssumption, TreesAssumption, Inv, NEW c \in Clients,
         \/ ResolveNothing(c) \/ ResolveTree(c) \/ Validate(c)
         \/ Enqueue(c) \/ EnqueueEvent(c)
  PROVE  TreesInv'
<1> USE DEF Inv
<1>0. ConnFits(c) /\ WorkerFindsSource /\ TableIsMeant
  BY InvByConn
<1>1. CASE ResolveNothing(c)
  <2>1. Resolved(c, conn[c].request) /\ UNCHANGED <<security, up, lock, tables, history>>
    BY <1>1 DEF ResolveNothing
  <2>2. ConnFits(c)' /\ Others(c)
    BY <1>0, <1>1, <2>1, ResolvedEffect
       DEF ResolveNothing, Asking, ConnFits, NamesTree, history, tables, Others
  <2> QED
    BY <1>0, <2>1, <2>2, OneConnection DEF tables, history, WorkerFindsSource
<1>2. CASE ResolveTree(c)
  <2>1. UNCHANGED <<security, up, lock, tables, history>>
    BY <1>2 DEF ResolveTree
  <2>2. CASE Answer(c, "Error")
    <3>1. ConnFits(c)' /\ Others(c)
      BY <1>0, <1>2, <2>1, <2>2, ErrorFits, AnswerEffect
         DEF ResolveTree, Asking, ConnFits, history, Others
    <3> QED
      BY <1>0, <2>1, <3>1, OneConnection DEF tables, history, WorkerFindsSource
  <2>3. CASE ~Answer(c, "Error")
    <3> DEFINE request == conn[c].request
               tree == trees[request.tree_name]
    <3>1. request.tree_name \in DOMAIN trees /\ Resolved(c, apply_tree_source(request, tree))
      BY <1>2, <2>3 DEF ResolveTree
    <3>2. /\ conn[c].pc = "handle" /\ conn[c].asked.type = "schedule"
          /\ request.tree_name # None /\ request \in BuildRequest
          /\ conn[c].asked \in ControlRequest
      BY <1>0, <1>2 DEF ResolveTree, Asking, ConnFits
    <3>3. request = conn[c].asked.request /\ tree \in could[c] \ {None}
      <4>1. request = conn[c].asked.request /\ NamesTree(c)
        BY <1>0, <3>2 DEF ConnFits, Asking, NamesTree
      <4>2. tree = meant[request.tree_name] /\ meant[request.tree_name] \in could[c]
        BY <1>0, <3>1, <3>2, <4>1 DEF ConnFits, TableIsMeant, BuildRequest, Option
      <4>3. tree # None
        BY <3>1 DEF TypeOK, TreesAssumption
      <4> QED BY <4>1, <4>2, <4>3
    <3>4. tree \in TreeRecord
      BY <3>1 DEF TypeOK
    <3> HIDE DEF request, tree
    <3>5. /\ apply_tree_source(request, tree) \in BuildRequest
          /\ MadeFrom(apply_tree_source(request, tree), request, tree)
      BY <3>2, <3>4, ResolvedTyped
    <3>6. ConnFits(c)' /\ Others(c)
      BY <1>0, <2>1, <3>1, <3>2, <3>3, <3>5, ResolvedEffect
         DEF ConnFits, Asking, NamesTree, history, Others
    <3> QED
      BY <1>0, <2>1, <3>6, OneConnection DEF tables, history, WorkerFindsSource
  <2> QED BY <2>2, <2>3
<1>3. CASE Validate(c)
  <2>1. UNCHANGED <<security, up, lock, tables, history>> /\ conn[c].pc = "validate"
    BY <1>3 DEF Validate
  <2>2. CASE Answer(c, "Error")
    <3>1. ConnFits(c)' /\ Others(c)
      BY <1>0, <2>1, <2>2, ErrorFits, AnswerEffect DEF ConnFits, Asking, history, Others
    <3> QED
      BY <1>0, <2>1, <3>1, OneConnection DEF tables, history, WorkerFindsSource
  <2>3. CASE ~Answer(c, "Error")
    <3>1. /\ conn' = [conn EXCEPT ![c].pc = "insert"]
          /\ validate_request(security, conn[c].request)
      BY <1>3, <2>3 DEF Validate
    <3>2. ConnFits(c)' /\ Others(c)
      BY <1>0, <2>1, <3>1, MoveEffect
         DEF ConnFits, Asking, NamesTree, history, tables, Others, validate_request, source_allowed
    <3> QED
      BY <1>0, <2>1, <3>2, OneConnection DEF tables, history, WorkerFindsSource
  <2> QED BY <2>2, <2>3
<1>4. CASE Enqueue(c)
  <2>1. /\ conn[c].pc = "insert" /\ lock = NoClient /\ lock' = c
        /\ conn' = [conn EXCEPT ![c].pc = "event"]
        /\ UNCHANGED <<security, up, trees, history>>
    BY <1>4 DEF Enqueue
  <2>0. /\ Others(c)
        /\ conn'[c].pc = "event" /\ conn'[c].asked = conn[c].asked
    BY <2>1, MoveEffect DEF history, Others
  <2>2. ConnFits(c)' /\ Others(c)
    BY <1>0, <2>0, <2>1 DEF ConnFits, Asking, NamesTree
  <2>3. (conn[c].request.source_root = None) # (conn[c].request.source_url = None)
    BY <1>0, <2>1, OneSource DEF ConnFits, validate_request, TypeOK
  <2>4. WorkerFindsSource'
    BY <1>0, <1>4, <2>3 DEF Enqueue, WorkerFindsSource
  <2> QED
    BY <2>1, <2>2, <2>4, OneConnection DEF history
<1>5. CASE EnqueueEvent(c)
  <2>1. /\ conn[c].pc = "event" /\ lock' = NoClient /\ Answer(c, "Scheduled")
        /\ UNCHANGED <<security, up, tables, history>>
    BY <1>5 DEF EnqueueEvent
  <2>2. ConnFits(c)' /\ Others(c)
    BY <1>0, <2>1, AnswerEffect DEF ConnFits, Asking, NamesTree, history, Others, TreesAssumption
  <2> QED
    BY <1>0, <2>1, <2>2, OneConnection DEF tables, history, WorkerFindsSource, ConnFits
<1> QED
  BY <1>1, <1>2, <1>3, <1>4, <1>5

\* What happens to the requests under way when a name gets another meaning.
LEMMA MeansEffect ==
  ASSUME TypeOK, NEW name \in Names, NEW record \in Option(TreeRecord), Means(name, record)
  PROVE  /\ meant'[name] = record
         /\ \A n \in Names \ {name} : meant'[n] = meant[n]
         /\ \A d \in Clients : could[d] \subseteq could'[d]
         /\ \A d \in Clients :
              NamesTree(d) /\ conn[d].asked.request.tree_name = name => record \in could'[d]
  BY DEF TypeOK, Means

\* A change of a name's meaning under the mutex keeps the other connections'
\* part of the invariant.
LEMMA OthersAndMeaning ==
  ASSUME PolicyAssumption, TreesAssumption, Inv,
         NEW name \in Names, NEW record \in Option(TreeRecord), Means(name, record),
         NEW c \in Clients, \A d \in Clients \ {c} : conn'[d] = conn[d],
         lock = NoClient, lock' \in {NoClient, c},
         UNCHANGED <<security, up>>,
         NEW d \in Clients \ {c}
  PROVE  ConnFits(d)'
<1> USE DEF Inv
<1>1. ConnFits(d) /\ conn'[d] = conn[d]
  BY InvByConn
<1>2. conn[d].pc \notin {"event", "read"} /\ lock' # d
  BY <1>1 DEF ConnFits, TreesAssumption
<1>3. NamesTree(d) => conn[d].asked.request.tree_name \in Names
  <2>1. NamesTree(d) => conn[d].asked \in ControlRequest
    BY <1>1 DEF ConnFits, NamesTree
  <2> QED
    BY <2>1 DEF NamesTree, ControlRequest, BuildRequest, Option
<1>4. NamesTree(d)' =>
        /\ meant'[conn[d].asked.request.tree_name] \in could'[d]
        /\ conn[d].pc # "handle" =>
             \E tree \in could'[d] \ {None} :
               MadeFrom(conn[d].request, conn[d].asked.request, tree)
  BY <1>1, <1>3, MeansEffect DEF ConnFits, NamesTree
<1> QED
  BY <1>1, <1>2, <1>4 DEF ConnFits, Asking, NamesTree, MadeFrom

\* A step of a registration or a removal keeps the invariant.
LEMMA TreeInv ==
  ASSUME PolicyAssumption, TreesAssumption, Inv, NEW c \in Clients,
         \/ ValidateTree(c) \/ UpsertTree(c) \/ ReadTree(c) \/ RemoveTree(c)
  PROVE  TreesInv'
<1> USE DEF Inv
<1>0. ConnFits(c) /\ WorkerFindsSource /\ TableIsMeant
  BY InvByConn
<1>1. CASE ValidateTree(c)
  <2>1. UNCHANGED <<security, up, lock, tables, history>> /\ Asking(c, "register_tree")
    BY <1>1 DEF ValidateTree
  <2>2. CASE Answer(c, "Error")
    <3>1. ConnFits(c)' /\ Others(c)
      BY <1>0, <2>1, <2>2, ErrorFits, AnswerEffect DEF ConnFits, Asking, history, Others
    <3> QED
      BY <1>0, <2>1, <3>1, OneConnection DEF tables, history, WorkerFindsSource
  <2>3. CASE ~Answer(c, "Error")
    <3>1. conn' = [conn EXCEPT ![c].pc = "upsert"]
      BY <1>1, <2>3 DEF ValidateTree
    <3>2. ConnFits(c)' /\ Others(c)
      BY <1>0, <2>1, <3>1, MoveEffect
         DEF ConnFits, Asking, NamesTree, history, tables, Others
    <3> QED
      BY <1>0, <2>1, <3>2, OneConnection DEF tables, history, WorkerFindsSource
  <2> QED BY <2>2, <2>3
<1>2. CASE UpsertTree(c)
  <2> DEFINE tree == conn[c].asked.tree
  <2>1. /\ conn[c].pc = "upsert" /\ lock = NoClient /\ lock' = c
        /\ trees' = upsert(tree) /\ Means(tree.name, RecordOf(tree))
        /\ conn' = [conn EXCEPT ![c].pc = "read"]
        /\ UNCHANGED <<security, up, queue>>
    BY <1>2 DEF UpsertTree
  <2>2. conn[c].asked \in ControlRequest /\ conn[c].asked.type = "register_tree"
    BY <1>0, <2>1 DEF ConnFits
  <2>3. tree \in TreeRegistration
    BY <2>2 DEF ControlRequest
  <2>4. tree.name \in Names /\ RecordOf(tree) \in Option(TreeRecord)
    BY <2>3, RecordTyped DEF TreeRegistration, Option
  <2>5. /\ \A d \in Clients \ {c} : conn'[d] = conn[d]
        /\ conn'[c].pc = "read" /\ conn'[c].asked = conn[c].asked
    BY <2>1, MoveEffect
  <2>6. \A d \in Clients \ {c} : ConnFits(d)'
    BY <2>1, <2>4, <2>5, OthersAndMeaning
  <2>7. tree.name \in DOMAIN trees' /\ trees'[tree.name] = RecordOf(tree)
    BY <2>1 DEF upsert
  <2>8. ConnFits(c)'
    BY <1>0, <2>1, <2>2, <2>5, <2>7 DEF ConnFits, Asking, NamesTree
  <2>9. TableIsMeant'
    BY <1>0, <2>1, <2>4, MeansEffect DEF TableIsMeant, upsert
  <2> QED
    BY <1>0, <2>1, <2>6, <2>8, <2>9, InvByConnNext DEF WorkerFindsSource
<1>3. CASE ReadTree(c)
  <2>1. /\ conn[c].pc = "read" /\ lock' = NoClient
        /\ UNCHANGED <<security, up, tables, history>>
    BY <1>3 DEF ReadTree
  <2>2. /\ conn[c].asked.tree.name \in DOMAIN trees
        /\ trees[conn[c].asked.tree.name] = RecordOf(conn[c].asked.tree)
        /\ lock = c
    BY <1>0, <2>1 DEF ConnFits
  <2>3. conn' = [conn EXCEPT ![c] = [@ EXCEPT !.pc = "reply", !.resp = "TreeRegistered",
                                             !.tree = trees[conn[c].asked.tree.name]]]
    BY <1>3, <2>2 DEF ReadTree
  <2>4. /\ \A d \in Clients \ {c} : conn'[d] = conn[d]
        /\ conn'[c].pc = "reply" /\ conn'[c].asked = conn[c].asked
        /\ conn'[c].tree = RecordOf(conn[c].asked.tree)
    BY <2>2, <2>3 DEF TypeOK, Conn
  <2>5. ConnFits(c)' /\ Others(c)
    BY <1>0, <2>1, <2>4 DEF ConnFits, Asking, NamesTree, history, Others, TreesAssumption
  <2> QED
    BY <1>0, <2>1, <2>2, <2>5, OneConnection DEF tables, history, WorkerFindsSource
<1>4. CASE RemoveTree(c)
  <2> DEFINE name == conn[c].asked.name
  <2>1. /\ Asking(c, "remove_tree") /\ lock = NoClient
        /\ trees' = [n \in DOMAIN trees \ {name} |-> trees[n]]
        /\ Means(name, None) /\ Answer(c, "TreeRemoved")
        /\ UNCHANGED <<security, up, lock, queue>>
    BY <1>4 DEF RemoveTree
  <2>2. name \in Names /\ None \in Option(TreeRecord)
    BY <1>0, <2>1 DEF ConnFits, Asking, ControlRequest, Option
  <2>3. /\ \A d \in Clients \ {c} : conn'[d] = conn[d]
        /\ conn'[c].pc = "reply" /\ conn'[c].asked = conn[c].asked
    BY <2>1, AnswerEffect
  <2>4. \A d \in Clients \ {c} : ConnFits(d)'
    BY <2>1, <2>2, <2>3, OthersAndMeaning
  <2>5. ConnFits(c)'
    BY <1>0, <2>1, <2>3 DEF ConnFits, Asking, NamesTree, TreesAssumption
  <2>6. TableIsMeant'
    BY <1>0, <2>1, <2>2, MeansEffect DEF TableIsMeant
  <2> QED
    BY <1>0, <2>1, <2>4, <2>5, <2>6, InvByConnNext DEF WorkerFindsSource
<1> QED
  BY <1>1, <1>2, <1>3, <1>4

\* A request that comes, and an answer that is written, keep the invariant.
LEMMA ClientInv ==
  ASSUME PolicyAssumption, TreesAssumption, Inv, NEW c \in Clients,
         Ask(c) \/ Respond(c)
  PROVE  TreesInv'
<1> USE DEF Inv
<1>0. ConnFits(c) /\ WorkerFindsSource /\ TableIsMeant
  BY InvByConn
<1>1. ASSUME NEW request \in BuildRequests, AskSchedule(c, request) PROVE TreesInv'
  <2>1. /\ conn[c].pc = "idle" /\ up
        /\ UNCHANGED <<security, up, lock, tables, meant>>
        /\ conn' = [conn EXCEPT ![c] =
              [IdleConn EXCEPT !.pc = "handle", !.request = request,
                               !.asked = [type |-> "schedule", request |-> request]]]
        /\ request.tree_name # None => could' = [could EXCEPT ![c] = {meant[request.tree_name]}]
        /\ \A d \in Clients \ {c} : could'[d] = could[d]
    BY <1>1 DEF AskSchedule, TypeOK
  <2>2. /\ \A d \in Clients \ {c} : conn'[d] = conn[d]
        /\ conn'[c].pc = "handle" /\ conn'[c].request = request
        /\ conn'[c].asked = [type |-> "schedule", request |-> request]
    BY <2>1 DEF TypeOK, IdleConn
  <2>3. request \in BuildRequest
    BY DEF TreesAssumption
  <2>4. ConnFits(c)' /\ Others(c)
    BY <1>0, <2>1, <2>2, <2>3
       DEF ConnFits, Asking, NamesTree, Others, ControlRequest, TypeOK
  <2> QED
    BY <1>0, <2>1, <2>4, OneConnection DEF tables, WorkerFindsSource
<1>2. ASSUME NEW asked \in ControlRequest, asked.type # "schedule", AskOther(c, asked)
      PROVE  TreesInv'
  <2>1. /\ conn[c].pc = "idle" /\ up
        /\ UNCHANGED <<security, up, lock, tables, history>>
        /\ conn' = [conn EXCEPT ![c] = [IdleConn EXCEPT !.pc = "handle", !.asked = asked]]
    BY <1>2 DEF AskOther
  <2>2. /\ \A d \in Clients \ {c} : conn'[d] = conn[d]
        /\ conn'[c].pc = "handle" /\ conn'[c].asked = asked
    BY <2>1 DEF TypeOK, IdleConn
  <2>3. ConnFits(c)' /\ Others(c)
    BY <1>0, <1>2, <2>1, <2>2 DEF ConnFits, Asking, NamesTree, history, Others
  <2> QED
    BY <1>0, <2>1, <2>3, OneConnection DEF tables, history, WorkerFindsSource
<1>3. CASE Respond(c)
  <2>1. /\ conn[c].pc = "reply"
        /\ UNCHANGED <<security, up, lock, tables, meant>>
        /\ \A d \in Clients \ {c} : conn'[d] = conn[d] /\ could'[d] = could[d]
        /\ conn'[c].pc = "idle"
    BY <1>3 DEF Respond, TypeOK, IdleConn
  <2>2. ConnFits(c)' /\ Others(c)
    BY <1>0, <2>1 DEF ConnFits, Asking, NamesTree, Others
  <2> QED
    BY <1>0, <2>1, <2>2, OneConnection DEF tables, WorkerFindsSource
<1> QED
  BY <1>1, <1>2, <1>3 DEF Ask, ControlRequest, TreesAssumption

\* A failure keeps the invariant.
LEMMA FailureInv ==
  ASSUME TreesAssumption, Inv, \/ \E c \in Clients : HandlerFault(c)
                              \/ Crash \/ Restart
  PROVE  TreesInv'
<1> USE DEF Inv
<1>0. /\ \A c \in Clients : ConnFits(c)
      /\ WorkerFindsSource /\ TableIsMeant
  BY InvByConn
<1>1. ASSUME NEW c \in Clients, HandlerFault(c) PROVE TreesInv'
  <2>1. /\ lock \in {NoClient, c} /\ lock' = NoClient /\ Answer(c, "Error")
        /\ conn[c].pc # "idle" /\ UNCHANGED <<security, up, tables, history>>
    BY <1>1 DEF HandlerFault, AtStatement, Asking
  <2>2. ConnFits(c)' /\ Others(c)
    BY <2>1, ErrorFits, AnswerEffect DEF history, Others, TreesAssumption
  <2> QED
    BY <1>0, <2>1, <2>2, OneConnection DEF tables, history, WorkerFindsSource
<1>2. CASE Crash
  <2>1. /\ \A c \in Clients : conn'[c].pc = "idle"
        /\ lock' = NoClient /\ UNCHANGED <<tables, meant>>
    BY <1>2 DEF Crash, IdleConn
  <2>2. \A c \in Clients : ConnFits(c)'
    BY <2>1 DEF ConnFits, Asking, NamesTree, TreesAssumption
  <2> QED
    BY <1>0, <2>1, <2>2, InvByConnNext DEF tables, TableIsMeant, WorkerFindsSource
<1>3. CASE Restart
  <2>1. ~up /\ UNCHANGED <<lock, conn, tables, history>>
    BY <1>3 DEF Restart
  <2>2. \A c \in Clients : conn[c].pc = "idle"
    BY <1>0, <2>1 DEF ConnFits
  <2>3. \A c \in Clients : ConnFits(c)'
    BY <1>0, <2>1, <2>2 DEF ConnFits, Asking, NamesTree
  <2> QED
    BY <1>0, <2>1, <2>3, InvByConnNext DEF tables, history, TableIsMeant, WorkerFindsSource
<1> QED
  BY <1>1, <1>2, <1>3

\* Every step keeps the invariant.
LEMMA InvStep ==
  ASSUME PolicyAssumption, TreesAssumption, Inv, [Next]_vars
  PROVE  Inv'
<1>1. TypeOK'
  BY TypeStep
<1>2. TreesInv'
  <2>1. CASE UNCHANGED vars
    BY <2>1 DEF vars, Inv, TreesInv, AtItsPlace, LockHeld, Accepted, TableIsMeant,
                ResolvedInTime, NamesTree, Asking, OwnTreeIsThere, AnswerIsOwnTree,
                WorkerFindsSource
  <2>2. CASE Next
    BY <2>2, ScheduleInv, TreeInv, ClientInv, FailureInv DEF Next, Handle
  <2> QED BY <2>1, <2>2
<1> QED BY <1>1, <1>2 DEF Inv

-----------------------------------------------------------------------------

\* The source trees are type correct and in their invariant for ever.
THEOREM TreesInvariant == Spec => [](TypeOK /\ TreesInv)
<1>1. Init => Inv
  BY InvInit, PolicyAssumption, TreesAssumption
<1>2. Inv /\ [Next]_vars => Inv'
  BY InvStep, PolicyAssumption, TreesAssumption
<1>3. Inv => TypeOK /\ TreesInv
  BY DEF Inv
<1> QED BY <1>1, <1>2, <1>3, PTL DEF Spec

\* Every queued request has exactly one source, so that source_location does
\* not fail and end the daemon.
THEOREM TreesWorkerFindsSource == Spec => []WorkerFindsSource
<1>1. TypeOK /\ TreesInv => WorkerFindsSource
  BY DEF TreesInv
<1> QED BY <1>1, TreesInvariant, PTL

\* The answer to a registration shows the tree that was registered.
THEOREM TreesAnswerIsOwnTree == Spec => []AnswerIsOwnTree
<1>1. TypeOK /\ TreesInv => AnswerIsOwnTree
  BY DEF TreesInv
<1> QED BY <1>1, TreesInvariant, PTL

\* A step that adds a job is the first statement of an enqueue.
LEMMA OnlyEnqueueAdds ==
  ASSUME TypeOK, [Next]_vars, NEW id \in DOMAIN queue' \ DOMAIN queue
  PROVE  \E c \in Clients :
           Enqueue(c) /\ lock' = c /\ queue'[id] = conn[c].request
<1>1. queue' # queue
  OBVIOUS
<1>2. PICK c \in Clients : Enqueue(c)
  BY <1>1 DEF Next, vars, Ask, AskSchedule, AskOther, Handle, ResolveNothing, ResolveTree,
       Validate, EnqueueEvent, ValidateTree, UpsertTree, ReadTree, RemoveTree, Respond,
       HandlerFault, Crash, Restart, tables
<1> QED
  BY <1>2 DEF Enqueue

\* A request is queued only under the policy of the daemon that queues it.
THEOREM TreesQueuedUnderPolicy == Spec => QueuedUnderPolicy
<1>1. ASSUME TypeOK /\ TreesInv, [Next]_vars
      PROVE  \A id \in DOMAIN queue' \ DOMAIN queue :
               validate_request(security, queue'[id])
  BY <1>1, OnlyEnqueueAdds DEF Enqueue, TreesInv, Accepted
<1> QED BY <1>1, TreesInvariant, PTL DEF Spec, QueuedUnderPolicy

\* A job scheduled by name has the source and the default ref that the name
\* stood for at some moment since the client asked.
THEOREM TreesNameMeansTree == Spec => NameMeansTree
<1>1. ASSUME TypeOK /\ TreesInv, [Next]_vars
      PROVE  \A c \in Clients, id \in DOMAIN queue' \ DOMAIN queue :
               lock' = c /\ conn[c].asked.request.tree_name # None =>
                 \E tree \in could[c] \ {None} :
                   MadeFrom(queue'[id], conn[c].asked.request, tree)
  <2>1. TAKE c \in Clients, id \in DOMAIN queue' \ DOMAIN queue
  <2>2. HAVE lock' = c /\ conn[c].asked.request.tree_name # None
  <2>3. Enqueue(c) /\ queue'[id] = conn[c].request
    BY <1>1, <2>2, OnlyEnqueueAdds
  <2>4. NamesTree(c) /\ conn[c].pc = "insert"
    BY <1>1, <2>2, <2>3 DEF Enqueue, NamesTree, TreesInv, AtItsPlace
  <2> QED
    BY <1>1, <2>3, <2>4 DEF TreesInv, ResolvedInTime
<1> QED BY <1>1, TreesInvariant, PTL DEF Spec, NameMeansTree

\* The source trees are type correct: what is queued and stored is a well-formed
\* request or tree, whoever writes it.
THEOREM TreesTypeOK == Spec => []TypeOK
<1> QED BY TreesInvariant, PTL
=============================================================================
