---------------------------- MODULE SourceTrees -----------------------------
(***************************************************************************)
(* Named source trees: the trees table of src/src/db.rs, the handlers of   *)
(* RegisterTree, RemoveTree and Schedule of src/src/daemon.rs, and the     *)
(* policy between them.  A Schedule by name looks the tree up under the    *)
(* store mutex, is validated without it, and takes it again to enqueue, so *)
(* other requests can change the tree in between.  The table outlives the  *)
(* process, which may come back with another configuration.                *)
(*                                                                         *)
(* Of a job only its request is here; what becomes of it is in Daemon.     *)
(***************************************************************************)
EXTENDS Policy, FiniteSets

CONSTANTS
  Clients,        \* callers, each with one connection at a time
  NoClient,       \* no client
  JobIds,         \* the ids JobId::new may hand out
  BuildRequests,  \* the build requests that clients make
  Registrations,  \* the registrations that clients make
  Policies,       \* the configurations the daemon is started with
  MaxFaults       \* bound: crashes and failing statements in a behaviour

\* A row of the trees table, without its name and times.
TreeRecord ==
  [source_root : Option(Roots), source_url : Option(Urls),
   default_ref : Option(Refs)]

ASSUME TreesAssumption ==
  /\ NoClient \notin Clients
  /\ None \notin TreeRecord
  /\ BuildRequests \subseteq BuildRequest
  /\ Registrations \subseteq TreeRegistration
  /\ Policies \subseteq SecurityConfig
  /\ MaxFaults \in Nat

VARIABLES
  security,  \* the policy of the running daemon
  up,        \* the daemon runs
  lock,      \* the client whose handler holds the store mutex
  conn,      \* the connection of each client
  trees,     \* the trees table
  queue,     \* the request_json column of the jobs table
  meant,     \* history: what each name stands for by the requests so far
  could,     \* history: what its name has stood for since a client's request
  faults     \* how many crashes and failures there have been

history == <<meant, could>>
tables == <<trees, queue>>
vars == <<security, up, lock, conn, trees, queue, meant, could, faults>>

ControlRequest ==
  [type : {"schedule"}, request : BuildRequest]
    \cup [type : {"register_tree"}, tree : TreeRegistration]
    \cup [type : {"remove_tree"}, name : Names]

\* One connection: what was asked, what resolve_build_request has made of it,
\* and the answer.
Conn ==
  [pc : {"idle", "handle", "validate", "insert", "event", "upsert", "read", "reply"},
   asked : Option(ControlRequest),
   request : Option(BuildRequest),
   resp : {"none", "Scheduled", "TreeRegistered", "TreeRemoved", "Error"},
   tree : Option(TreeRecord)]

IdleConn ==
  [pc |-> "idle", asked |-> None, request |-> None, resp |-> "none", tree |-> None]

TypeOK ==
  /\ security \in SecurityConfig
  /\ up \in BOOLEAN
  /\ lock \in Clients \cup {NoClient}
  /\ conn \in [Clients -> Conn]
  /\ DOMAIN trees \subseteq Names /\ trees \in [DOMAIN trees -> TreeRecord]
  /\ DOMAIN queue \subseteq JobIds /\ queue \in [DOMAIN queue -> BuildRequest]
  /\ meant \in [Names -> Option(TreeRecord)]
  /\ could \in [Clients -> SUBSET Option(TreeRecord)]
  /\ faults \in 0 .. MaxFaults

Init ==
  /\ security \in Policies
  /\ up = TRUE
  /\ lock = NoClient
  /\ conn = [c \in Clients |-> IdleConn]
  /\ trees = [n \in {} |-> None]
  /\ queue = [id \in {} |-> None]
  /\ meant = [n \in Names |-> None]
  /\ could = [c \in Clients |-> {}]
  /\ faults = 0

-----------------------------------------------------------------------------
\* The client side: the connection is accepted and its line is read.

Asking(c, type) == conn[c].pc = "handle" /\ conn[c].asked.type = type

\* Bound: no more Schedule requests than there are ids left.
AskSchedule(c, request) ==
  /\ Cardinality(JobIds \ DOMAIN queue) >
       Cardinality({d \in Clients :
                      conn[d].pc \in {"handle", "validate", "insert"}
                        /\ conn[d].asked.type = "schedule"})
  /\ up
  /\ conn[c].pc = "idle"
  /\ conn' = [conn EXCEPT ![c] =
                [IdleConn EXCEPT !.pc = "handle", !.request = request,
                                 !.asked = [type |-> "schedule", request |-> request]]]
  /\ could' = [could EXCEPT ![c] = IF request.tree_name = None
                                   THEN {} ELSE {meant[request.tree_name]}]
  /\ UNCHANGED <<security, up, lock, tables, meant, faults>>

AskOther(c, asked) ==
  /\ up
  /\ conn[c].pc = "idle"
  /\ conn' = [conn EXCEPT ![c] = [IdleConn EXCEPT !.pc = "handle", !.asked = asked]]
  /\ UNCHANGED <<security, up, lock, tables, history, faults>>

\* The answer is written and the connection closed.
Respond(c) ==
  /\ conn[c].pc = "reply"
  /\ conn' = [conn EXCEPT ![c] = IdleConn]
  /\ could' = [could EXCEPT ![c] = {}]
  /\ UNCHANGED <<security, up, lock, tables, meant, faults>>

Answer(c, resp) ==
  conn' = [conn EXCEPT ![c] = [@ EXCEPT !.pc = "reply", !.resp = resp]]

-----------------------------------------------------------------------------
\* Schedule

apply_tree_source(request, tree) ==
  [request EXCEPT !.source_root = tree.source_root,
                  !.source_url = tree.source_url,
                  !.git_ref = IF @ = None THEN tree.default_ref ELSE @]

Resolved(c, request) ==
  conn' = [conn EXCEPT ![c] = [@ EXCEPT !.pc = "validate", !.request = request]]

\* A request without a tree name is its own resolution.
ResolveNothing(c) ==
  /\ Asking(c, "schedule")
  /\ conn[c].request.tree_name = None
  /\ Resolved(c, conn[c].request)
  /\ UNCHANGED <<security, up, lock, tables, history, faults>>

\* get_tree, one statement under the mutex, unless the request is ambiguous.
ResolveTree(c) ==
  /\ Asking(c, "schedule")
  /\ conn[c].request.tree_name # None
  /\ LET request == conn[c].request
         plain == request.source_root = None /\ request.source_url = None
     IN  \/ ~plain /\ Answer(c, "Error")
         \/ /\ plain
            /\ lock = NoClient
            /\ IF request.tree_name \in DOMAIN trees
               THEN Resolved(c, apply_tree_source(request, trees[request.tree_name]))
               ELSE Answer(c, "Error")
  /\ UNCHANGED <<security, up, lock, tables, history, faults>>

\* Mutant: a registered tree has been validated before.
ValidateUnlessTree(c) ==
  /\ conn[c].pc = "validate"
  /\ IF conn[c].request.tree_name # None \/ validate_request(security, conn[c].request)
     THEN conn' = [conn EXCEPT ![c].pc = "insert"]
     ELSE Answer(c, "Error")
  /\ UNCHANGED <<security, up, lock, tables, history, faults>>

\* validate_request, without the mutex.
Validate(c) ==
  /\ conn[c].pc = "validate"
  /\ IF validate_request(security, conn[c].request)
     THEN conn' = [conn EXCEPT ![c].pc = "insert"]
     ELSE Answer(c, "Error")
  /\ UNCHANGED <<security, up, lock, tables, history, faults>>

\* enqueue, first statement.
Enqueue(c) ==
  /\ conn[c].pc = "insert"
  /\ lock = NoClient
  /\ lock' = c
  /\ \E id \in JobIds \ DOMAIN queue :
       queue' = [k \in DOMAIN queue \cup {id} |->
                   IF k = id THEN conn[c].request ELSE queue[k]]
  /\ conn' = [conn EXCEPT ![c].pc = "event"]
  /\ UNCHANGED <<security, up, trees, history, faults>>

\* enqueue, second statement: the event.
EnqueueEvent(c) ==
  /\ conn[c].pc = "event"
  /\ lock' = NoClient
  /\ Answer(c, "Scheduled")
  /\ UNCHANGED <<security, up, tables, history, faults>>

-----------------------------------------------------------------------------
\* RegisterTree and RemoveTree

\* validate_tree_registration, without the mutex.
ValidateTree(c) ==
  /\ Asking(c, "register_tree")
  /\ IF validate_tree_registration(security, conn[c].asked.tree)
     THEN conn' = [conn EXCEPT ![c].pc = "upsert"]
     ELSE Answer(c, "Error")
  /\ UNCHANGED <<security, up, lock, tables, history, faults>>

RecordOf(tree) ==
  [source_root |-> tree.source_root, source_url |-> tree.source_url,
   default_ref |-> tree.default_ref]

\* A Schedule by name that is not enqueued yet.
NamesTree(c) ==
  /\ conn[c].pc \in {"handle", "validate", "insert"}
  /\ conn[c].asked.type = "schedule"
  /\ conn[c].asked.request.tree_name # None

\* From now on the name stands for record, also for the requests under way.
Means(name, record) ==
  /\ meant' = [meant EXCEPT ![name] = record]
  /\ could' = [d \in Clients |->
                 IF NamesTree(d) /\ conn[d].asked.request.tree_name = name
                 THEN could[d] \cup {record}
                 ELSE could[d]]

\* Mutant: an update without a ref keeps the ref there was.
upsert_keep_ref(tree) ==
  [n \in DOMAIN trees \cup {tree.name} |->
     IF n # tree.name THEN trees[n]
     ELSE IF n \in DOMAIN trees /\ tree.default_ref = None
          THEN [RecordOf(tree) EXCEPT !.default_ref = trees[n].default_ref]
          ELSE RecordOf(tree)]

\* INSERT INTO trees ... ON CONFLICT(name) DO UPDATE SET every column.
upsert(tree) ==
  [n \in DOMAIN trees \cup {tree.name} |->
     IF n = tree.name THEN RecordOf(tree) ELSE trees[n]]

\* Mutant: the mutex is released between the upsert and get_tree.
UpsertTreeUnlocks(c) ==
  /\ conn[c].pc = "upsert"
  /\ lock = NoClient
  /\ trees' = upsert(conn[c].asked.tree)
  /\ Means(conn[c].asked.tree.name, RecordOf(conn[c].asked.tree))
  /\ conn' = [conn EXCEPT ![c].pc = "read"]
  /\ UNCHANGED <<security, up, lock, queue, faults>>

\* register_tree takes the mutex for all its statements.  The first, which
\* reads created_at, has no effect on what is modelled.
UpsertTree(c) ==
  /\ conn[c].pc = "upsert"
  /\ lock = NoClient
  /\ lock' = c
  /\ trees' = upsert(conn[c].asked.tree)
  /\ Means(conn[c].asked.tree.name, RecordOf(conn[c].asked.tree))
  /\ conn' = [conn EXCEPT ![c].pc = "read"]
  /\ UNCHANGED <<security, up, queue, faults>>

\* ... and answers with what get_tree finds then.
ReadTree(c) ==
  /\ conn[c].pc = "read"
  /\ LET name == conn[c].asked.tree.name
     IN  IF name \in DOMAIN trees
         THEN conn' = [conn EXCEPT ![c] = [@ EXCEPT !.pc = "reply",
                                                    !.resp = "TreeRegistered",
                                                    !.tree = trees[name]]]
         ELSE Answer(c, "Error")
  /\ lock' = NoClient
  /\ UNCHANGED <<security, up, tables, history, faults>>

\* DELETE FROM trees: one statement, and no error when there is no such row.
RemoveTree(c) ==
  /\ Asking(c, "remove_tree")
  /\ lock = NoClient
  /\ trees' = [n \in DOMAIN trees \ {conn[c].asked.name} |-> trees[n]]
  /\ Means(conn[c].asked.name, None)
  /\ Answer(c, "TreeRemoved")
  /\ UNCHANGED <<security, up, lock, queue, faults>>

-----------------------------------------------------------------------------
\* Failures

Fault == faults < MaxFaults /\ faults' = faults + 1

\* The next thing that the handler does is a statement.
AtStatement(c) ==
  \/ conn[c].pc \in {"insert", "event", "upsert", "read"}
  \/ Asking(c, "remove_tree")
  \/ Asking(c, "schedule") /\ conn[c].request.tree_name # None

\* A statement, or the wait for the mutex, fails.  The answer is an error; what
\* earlier statements have written stays.
HandlerFault(c) ==
  /\ AtStatement(c)
  /\ lock \in {NoClient, c}
  /\ Fault
  /\ lock' = NoClient
  /\ Answer(c, "Error")
  /\ UNCHANGED <<security, up, tables, history>>

Crash ==
  /\ up
  /\ Fault
  /\ up' = FALSE
  /\ lock' = NoClient
  /\ conn' = [c \in Clients |-> IdleConn]
  /\ could' = [c \in Clients |-> {}]
  /\ UNCHANGED <<security, tables, meant>>

\* The configuration may have been edited; no stored row is validated again.
Restart ==
  /\ ~up
  /\ up' = TRUE
  /\ security' \in Policies
  /\ UNCHANGED <<lock, conn, tables, history, faults>>

Ask(c) ==
  \/ \E request \in BuildRequests : AskSchedule(c, request)
  \/ \E tree \in Registrations : AskOther(c, [type |-> "register_tree", tree |-> tree])
  \/ \E name \in Names : AskOther(c, [type |-> "remove_tree", name |-> name])

Handle(c) ==
  \/ ResolveNothing(c) \/ ResolveTree(c) \/ Validate(c)
  \/ Enqueue(c) \/ EnqueueEvent(c)
  \/ ValidateTree(c) \/ UpsertTree(c) \/ ReadTree(c) \/ RemoveTree(c)
  \/ Respond(c)

Next ==
  \/ \E c \in Clients : Ask(c) \/ Handle(c) \/ HandlerFault(c)
  \/ Crash \/ Restart

Spec == Init /\ [][Next]_vars

-----------------------------------------------------------------------------
\* Properties

\* A request is queued only if the policy of the daemon that queues it accepts
\* it with the source it was resolved to, although its tree may have been
\* accepted by the daemon's predecessor under another configuration.
QueuedUnderPolicy ==
  [][\A id \in DOMAIN queue' \ DOMAIN queue :
       validate_request(security, queue'[id])]_vars

\* source_location of the worker never fails on a queued request: it would end
\* the daemon (src/src/executor.rs:40-48).
WorkerFindsSource ==
  \A id \in DOMAIN queue :
    (queue[id].source_root = None) # (queue[id].source_url = None)

MadeFrom(request, asked, tree) ==
  /\ request.source_root = tree.source_root
  /\ request.source_url = tree.source_url
  /\ request.git_ref = IF asked.git_ref = None THEN tree.default_ref ELSE asked.git_ref

\* A job scheduled by name has a source and a default ref that the name stood
\* for at some moment since the client asked: a tree whose removal or update
\* was answered before is never used, whatever else is under way.
NameMeansTree ==
  [][\A c \in Clients, id \in DOMAIN queue' \ DOMAIN queue :
       lock' = c /\ conn[c].asked.request.tree_name # None =>
         \E tree \in could[c] \ {None} :
           MadeFrom(queue'[id], conn[c].asked.request, tree)]_vars

\* The answer to a registration shows the tree that was registered, not the one
\* of another client that registers or removes the same name.
AnswerIsOwnTree ==
  \A c \in Clients :
    conn[c].pc = "reply" /\ conn[c].asked.type = "register_tree" =>
      conn[c].resp = "Error" \/ conn[c].tree = RecordOf(conn[c].asked.tree)
-----------------------------------------------------------------------------
\* The inductive invariant

\* What a connection is doing fits what it was asked, and nobody is connected
\* to a daemon that is down.
AtItsPlace ==
  \A c \in Clients :
    /\ conn[c].pc # "idle" => up /\ conn[c].asked \in ControlRequest
    /\ conn[c].pc \in {"handle", "validate", "insert"} /\ conn[c].asked.type = "schedule"
         => conn[c].request \in BuildRequest
    /\ Asking(c, "schedule") => conn[c].request = conn[c].asked.request
    /\ conn[c].pc \in {"validate", "insert", "event"} => conn[c].asked.type = "schedule"
    /\ conn[c].pc \in {"upsert", "read"} => conn[c].asked.type = "register_tree"

\* The mutex is held exactly by the one who is between two of its statements.
LockHeld ==
  \A c \in Clients : conn[c].pc \in {"event", "read"} <=> lock = c

\* The verdict of the policy is still that of the running daemon when the
\* request is enqueued.
Accepted ==
  \A c \in Clients :
    conn[c].pc = "insert" => validate_request(security, conn[c].request)

\* The table says what the requests so far mean.
TableIsMeant ==
  \A n \in Names : meant[n] = IF n \in DOMAIN trees THEN trees[n] ELSE None

\* What a name stands for now, and what it was resolved to, is among what it
\* has stood for since the client asked.
ResolvedInTime ==
  \A c \in Clients :
    NamesTree(c) =>
      LET asked == conn[c].asked.request
      IN  /\ meant[asked.tree_name] \in could[c]
          /\ conn[c].pc # "handle" =>
               \E tree \in could[c] \ {None} : MadeFrom(conn[c].request, asked, tree)

\* Nobody comes between the upsert of a registration and its get_tree.
OwnTreeIsThere ==
  \A c \in Clients :
    conn[c].pc = "read" => /\ conn[c].asked.tree.name \in DOMAIN trees
                           /\ trees[conn[c].asked.tree.name] = RecordOf(conn[c].asked.tree)

\* All of these together are preserved by every step.
TreesInv ==
  /\ AtItsPlace
  /\ LockHeld
  /\ Accepted
  /\ TableIsMeant
  /\ ResolvedInTime
  /\ OwnTreeIsThere
  /\ AnswerIsOwnTree
  /\ WorkerFindsSource
=============================================================================
