-------------------------------- MODULE Build --------------------------------
(***************************************************************************)
(* One build from the inside: the workspace that build_runtime_command of  *)
(* src/src/executor.rs prepares, the child process and the log file of     *)
(* run in src/src/runtime.rs, and the daemon's lives around them, each     *)
(* with a configuration of its own.                                        *)
(*                                                                         *)
(* The store's statements are Daemon's subject: a set_state is one step    *)
(* here, and the next job is any queued one.  What happens after the build *)
(* has been reported is in Scheduler and Artifacts.                        *)
(***************************************************************************)
EXTENDS GitRef, RuntimeSelect, LogTail

CONSTANTS
  JobIds, NoJob,
  Sources,   \* what the source repository may hold when it is cloned
  Requests,  \* what is asked for: see Request
  Configs,   \* what the configuration file may come to say
  Outputs,   \* what a build may write: see Output
  NoOutput,
  Missing,   \* there is no such file
  MaxFaults  \* bound: crashes, interrupts, failing system calls

\* What stands between the slashes of a path: the name of a file or directory, the
\* way up, or what leads nowhere, which is "." or nothing at all (as in a//b).
Component == {"d", "..", "."}

\* A config fragment is a path: relative, absolute with what follows the source
\* root, or absolute elsewhere.
Fragment == [at : {"relative", "source", "elsewhere"}, path : Seq(Component)]

\* local: the request has a source_root, not a source_url.
Request == [git_ref : GitRefs, local : BOOLEAN, fragments : SUBSET Fragment]

Output == [stdout : Seq(Byte), stderr : Seq(Byte)]

ASSUME BuildAssumption ==
  /\ NoJob \notin JobIds
  /\ Sources \subseteq Repository
  /\ \A r \in Requests : r \in Request
  /\ Configs \subseteq Config
  /\ \A o \in Outputs : o \in Output
  /\ NoOutput \notin Outputs
  /\ MaxFaults \in Nat

VARIABLES
  jobs,    \* of each job its state and request
  pc,      \* where the worker is; "off" when there is no daemon
  job,     \* the job in hand
  conf,    \* the configuration that this daemon has loaded
  kind,    \* the runtime that it has detected
  ws,      \* the workspace of each job
  child,   \* the process of each job's build, which may outlive its daemon
  output,  \* what that process has given to the worker
  log,     \* log_root/<job>.log
  buffer,  \* what tokio's File has taken and not yet written
  under,   \* history: runtime and configuration under which a build started
  faults

vars == <<jobs, pc, job, conf, kind, ws, child, output, log, buffer,
          under, faults>>

jobVars    == <<jobs, faults>>
daemonVars == <<conf, kind>>
fileVars   == <<log, buffer>>

JobStates == {"absent", "queued", "preparing", "running", "collecting"}
WorkerPC  == {"off", "detect", "select", "clone", "checkout", "script", "spawn",
              "wait", "create", "stdout", "stderr", "flush", "report"}

\* from: history, what the source held when it was cloned.
NoWorkspace == [from |-> << >>, refs |-> << >>, commit |-> Unknown]
NotStarted  == [kind |-> "none", conf |-> << >>]
NoRequest   == [state |-> "absent", request |-> << >>]

TypeOK ==
  /\ jobs \in [JobIds -> [state : JobStates, request : Requests \cup {<< >>}]]
  /\ pc \in WorkerPC
  /\ job \in JobIds \cup {NoJob}
  /\ conf \in Configs \cup {<< >>}
  /\ kind \in Kinds \cup {"none"}
  /\ ws \in [JobIds -> [from : Sources \cup {<< >>},
                        refs : {Clone(source) : source \in Sources} \cup {<< >>},
                        commit : Commits \cup {Unknown}]]
  /\ child \in [JobIds -> {"none", "running", "gone"}]
  /\ output \in [JobIds -> Outputs \cup {NoOutput}]
  /\ log \in [JobIds -> Seq(Byte) \cup {Missing}]
  /\ buffer \in Seq(Byte)
  /\ under \in [JobIds -> [kind : Kinds \cup {"none"}, conf : Configs \cup {<< >>}]]
  /\ faults \in 0 .. MaxFaults

Init ==
  /\ jobs = [j \in JobIds |-> NoRequest]
  /\ pc = "off" /\ job = NoJob /\ conf = << >> /\ kind = "none"
  /\ ws = [j \in JobIds |-> NoWorkspace]
  /\ child = [j \in JobIds |-> "none"]
  /\ output = [j \in JobIds |-> NoOutput]
  /\ log = [j \in JobIds |-> Missing]
  /\ buffer = << >>
  /\ under = [j \in JobIds |-> NotStarted]
  /\ faults = 0

-----------------------------------------------------------------------------
\* Around the daemon.

Enqueue(j) ==
  /\ jobs[j].state = "absent"
  /\ \E r \in Requests : jobs' = [jobs EXCEPT ![j] = [state |-> "queued", request |-> r]]
  /\ UNCHANGED <<faults, pc, job, daemonVars, ws, child, output, fileVars, under>>

\* Mutant: a daemon that starts takes up what the one before it had in hand.
LoadRequeues ==
  /\ pc = "off"
  /\ \E c \in Configs : validate(c) /\ conf' = c
  /\ jobs' = [j \in JobIds |-> IF jobs[j].state \in {"preparing", "running"}
                               THEN [jobs[j] EXCEPT !.state = "queued"] ELSE jobs[j]]
  /\ pc' = "detect"
  /\ UNCHANGED <<faults, job, kind, ws, child, output, fileVars, under>>

\* load_config and validate: the file may have been edited since the last time.
\* A daemon whose configuration is not valid does not start.
Load ==
  /\ pc = "off"
  /\ \E c \in Configs : validate(c) /\ conf' = c
  /\ pc' = "detect"
  /\ UNCHANGED <<jobVars, job, kind, ws, child, output, fileVars, under>>

\* The process is gone, and what it had in memory.  Its child is not: nothing
\* kills it, and it ends when it ends.
Gone ==
  /\ pc' = "off" /\ job' = NoJob
  /\ conf' = << >> /\ kind' = "none"
  /\ buffer' = << >>

\* A crash, ctrl_c, or an error that leaves worker_loop by a `?`.
Die ==
  /\ pc # "off"
  /\ faults < MaxFaults /\ faults' = faults + 1
  /\ Gone
  /\ UNCHANGED <<jobs, ws, child, output, log, under>>

\* An error for which no fault is needed.
Fail == Gone /\ UNCHANGED <<jobVars, ws, child, output, log, under>>

-----------------------------------------------------------------------------
\* The worker: worker_loop, build_runtime_command.

\* runtime_from_config asks for the programs once in the life of a daemon.
Detect ==
  /\ pc = "detect"
  /\ \E installed \in SUBSET Programs :
       IF detect_runtime(conf, installed) = "none"
       THEN Fail
       ELSE /\ kind' = detect_runtime(conf, installed)
            /\ pc' = "select"
            /\ UNCHANGED <<jobVars, job, conf, ws, child, output, fileVars, under>>

SetState(j, state) == jobs' = [jobs EXCEPT ![j].state = state]

Select(j) ==
  /\ pc = "select"
  /\ jobs[j].state = "queued"
  /\ SetState(j, "preparing")
  /\ job' = j /\ pc' = "clone"
  /\ UNCHANGED <<faults, daemonVars, ws, child, output, fileVars, under>>

\* next_queued finds nothing: 500 ms later it looks again.
Sleep ==
  /\ pc = "select"
  /\ \A j \in JobIds : jobs[j].state # "queued"
  /\ UNCHANGED vars

\* prepare_source_checkout: remove what is there, clone.  Whatever anybody has
\* committed, tagged or deleted in the source before is in what it holds now.
CloneSource ==
  /\ pc = "clone"
  /\ \E source \in Sources :
       ws' = [ws EXCEPT ![job] = [from |-> source, refs |-> Clone(source),
                                  commit |-> Unknown]]
  /\ pc' = "checkout"
  /\ UNCHANGED <<jobVars, job, daemonVars, child, output, fileVars, under>>

RequestOf(j) == jobs[j].request

\* resolve_commit in the clone, and git checkout --detach.
Checkout ==
  /\ pc = "checkout"
  /\ LET commit == resolve_commit(ws[job].refs, RequestOf(job).git_ref)
     IN  IF commit = Unknown
         THEN Fail
         ELSE /\ ws' = [ws EXCEPT ![job].commit = commit]
              /\ pc' = "script"
              /\ UNCHANGED <<jobVars, job, daemonVars, child, output, fileVars, under>>

\* Which components strip_prefix leaves behind the source root: those that lead
\* nowhere are dropped at either end, and kept between others.
strip_prefix(path) ==
  {i \in DOMAIN path : \E h, k \in DOMAIN path :
     h <= i /\ i <= k /\ path[h] # "." /\ path[k] # "."}

\* Mutant: only a ".." between two others is seen.
stays_inside_middle(path, parts) ==
  ~\E i \in parts : path[i] = ".." /\ \E h, k \in parts : h < i /\ i < k

\* What is left is not "..", nor does it start with "../" or contain "/../".  It
\* may end in "/..".
stays_inside(path, parts) ==
  ~\E i \in parts : path[i] = ".." /\ (parts = {i} \/ \E k \in parts : i < k)

\* An absolute fragment has to lie under the local source root of its request.
source_fragment_ok(request, fragment) ==
  LET path == fragment.path
  IN  \/ fragment.at = "relative" /\ stays_inside(path, DOMAIN path)
      \/ /\ fragment.at = "source" /\ request.local
         /\ stays_inside(path, strip_prefix(path))

\* build_script, then set_state(Running).  A fragment that is not good is found
\* only now, and ends the daemon.
BuildScript ==
  /\ pc = "script"
  /\ IF \A f \in RequestOf(job).fragments : source_fragment_ok(RequestOf(job), f)
     THEN /\ SetState(job, "running")
          /\ pc' = "spawn"
          /\ UNCHANGED <<faults, job, daemonVars, ws, child, output, fileVars, under>>
     ELSE Fail

-----------------------------------------------------------------------------
\* The runtime.  HostNativeRuntime::run and OciRuntime::run differ in the
\* command only.

StartChild ==
  /\ pc = "spawn"
  /\ child' = [child EXCEPT ![job] = "running"]
  /\ under' = [under EXCEPT ![job] = [kind |-> kind, conf |-> conf]]
  /\ pc' = "wait"
  /\ UNCHANGED <<jobVars, job, daemonVars, ws, output, fileVars>>

\* The process of j ends.  If its daemon is still there it gets the output.
ChildEnds(j) ==
  /\ child[j] = "running"
  /\ child' = [child EXCEPT ![j] = "gone"]
  /\ IF pc = "wait" /\ job = j
     THEN /\ \E o \in Outputs : output' = [output EXCEPT ![j] = o]
          /\ pc' = "create"
     ELSE UNCHANGED <<output, pc>>
  /\ UNCHANGED <<jobVars, job, daemonVars, ws, fileVars, under>>

\* File::create empties a file that is there.
CreateLog ==
  /\ pc = "create"
  /\ log' = [log EXCEPT ![job] = << >>]
  /\ pc' = "stdout"
  /\ UNCHANGED <<jobVars, job, daemonVars, ws, child, output, buffer, under>>

\* write_all of a tokio File returns when it has taken the bytes; a thread of
\* its own writes them, and the next operation on the file waits for that.
Take(bytes, next) ==
  /\ buffer = << >>
  /\ buffer' = bytes
  /\ pc' = next
  /\ UNCHANGED <<jobVars, job, daemonVars, ws, child, output, log, under>>

WriteStdout == pc = "stdout" /\ Take(output[job].stdout, "stderr")
WriteStderr == pc = "stderr" /\ Take(output[job].stderr, "flush")

\* The file grows by some of the bytes.
Drain ==
  /\ buffer # << >>
  /\ \E n \in 1 .. Len(buffer) :
       /\ log' = [log EXCEPT ![job] = @ \o SubSeq(buffer, 1, n)]
       /\ buffer' = SubSeq(buffer, n + 1, Len(buffer))
  /\ UNCHANGED <<jobVars, pc, job, daemonVars, ws, child, output, under>>

\* Mutant: run returns without waiting for the last write.
FlushNothing ==
  /\ pc = "flush"
  /\ pc' = "report"
  /\ UNCHANGED <<jobVars, job, daemonVars, ws, child, output, fileVars, under>>

Flush ==
  /\ pc = "flush"
  /\ buffer = << >>
  /\ pc' = "report"
  /\ UNCHANGED <<jobVars, job, daemonVars, ws, child, output, fileVars, under>>

\* run has returned: set_state(Collecting), and what comes after it.
Report ==
  /\ pc = "report"
  /\ SetState(job, "collecting")
  /\ job' = NoJob /\ pc' = "select"
  /\ UNCHANGED <<faults, daemonVars, ws, child, output, fileVars, under>>

-----------------------------------------------------------------------------

Next ==
  \/ \E j \in JobIds : Enqueue(j) \/ Select(j) \/ ChildEnds(j)
  \/ Load \/ Die \/ Detect \/ Sleep
  \/ CloneSource \/ Checkout \/ BuildScript
  \/ StartChild \/ CreateLog \/ WriteStdout \/ WriteStderr \/ Drain \/ Flush
  \/ Report

Spec == Init /\ [][Next]_vars

-----------------------------------------------------------------------------
\* Properties

\* What is checked out is what the git_ref of the request stands for in the
\* source repository when it is cloned, although the clone has other refs: its
\* own name first, a tag before a branch.  A name that the source tracks itself
\* (origin/n) is the source's branch n in the clone.
MeantBy(repo, ref) ==
  IF ref[1] = "origin" THEN rev_parse(repo, <<"heads", ref[2]>>)
                       ELSE rev_parse(repo, ref)
BuildsWhatIsMeant ==
  \A j \in JobIds :
    ws[j].commit # Unknown => ws[j].commit = MeantBy(ws[j].from, RequestOf(j).git_ref)

\* A short name, a tag or HEAD that the source has is found in the clone; only
\* a full refs/heads/ name of a branch that is not the default one is not.
FoundIfThere ==
  pc = "checkout" =>
    LET ref == RequestOf(job).git_ref
    IN  MeantBy(ws[job].from, ref) # Unknown /\ ref[1] # "heads"
          => resolve_commit(ws[job].refs, ref) # Unknown

\* Once a row says that the build is over, the log is all that the build wrote,
\* stdout before stderr.
LogWhenOver ==
  \A j \in JobIds :
    jobs[j].state = "collecting" => log[j] = output[j].stdout \o output[j].stderr

\* Who follows a log by its tail never sees it become shorter or change: it is
\* written once, through crashes and restarts.
LogOnlyGrows ==
  [][\A j \in JobIds :
       log[j] # Missing => /\ Len(log'[j]) >= Len(log[j])
                           /\ SubSeq(log'[j], 1, Len(log[j])) = log[j]]_vars

\* A tail, taken at any moment and with any limit, is the end of what the log
\* says.
TailIsEndOfLog ==
  \A j \in JobIds :
    LET bytes == IF log[j] = Missing THEN << >> ELSE log[j]
    IN  \A max_bytes \in 0 .. Len(bytes) + 1 :
          IsTail(bytes, max_bytes, tail_log(bytes, max_bytes))

\* No workspace is removed, cloned or checked out under the feet of a build
\* that an earlier daemon has left running in it.
WorkspaceExclusive ==
  pc \in {"clone", "checkout", "script", "spawn"} => child[job] # "running"

\* A build runs on the host only under a configuration that asks for it and
\* enables it, and in the container runtime that was asked for.
Allowed(k, c) ==
  /\ k = "HostNative" => c.preference = "HostNative" /\ c.enable_host_native
  /\ k \in {"Podman", "Docker"} => c.preference \in {"Auto", k}
BuildsWhereAllowed == \A j \in JobIds : Allowed(under[j].kind, under[j].conf)

\* Taking the path of a fragment step by step, no build leaves its source root: but
\* for the last step of a relative path that ends in "..", by which "./.." names the
\* directory above.  No file outside is named, as a file is not named "..".
Inside(path, n) ==
  Cardinality({i \in 1 .. n : path[i] = ".."}) <= Cardinality({i \in 1 .. n : path[i] = "d"})
FragmentsInside ==
  \A j \in JobIds :
    under[j] # NotStarted =>
      \A f \in RequestOf(j).fragments :
        /\ f.at # "elsewhere" /\ (f.at = "source" => RequestOf(j).local)
        /\ \A n \in DOMAIN f.path :
             \/ Inside(f.path, n)
             \/ f.at = "relative" /\ n = Len(f.path) /\ f.path[n] = ".."

-----------------------------------------------------------------------------
\* The inductive invariant

\* The worker has a job from select to report, whose row says how far it is, and
\* a configuration and a runtime that allow each other.
WorkerInv ==
  /\ pc \in {"off", "detect", "select"} <=> job = NoJob
  /\ pc \in {"clone", "checkout", "script"} => jobs[job].state = "preparing"
  /\ pc \in {"spawn", "wait", "create", "stdout", "stderr", "flush", "report"}
       => jobs[job].state = "running"
  /\ pc # "off" => conf \in Configs /\ validate(conf)
  /\ pc \notin {"off", "detect"} => kind \in Kinds /\ Allowed(kind, conf)

\* A job that was not taken has no workspace, one that is not running no child
\* and no log, and one that is running has good fragments.
RowsInv ==
  \A j \in JobIds :
    /\ jobs[j].state # "absent" => jobs[j].request \in Requests
    /\ jobs[j].state \in {"absent", "queued"} => ws[j] = NoWorkspace
    /\ jobs[j].state \in {"absent", "queued", "preparing"} =>
         child[j] = "none" /\ log[j] = Missing /\ under[j] = NotStarted
    /\ jobs[j].state \in {"running", "collecting"} =>
         \A f \in RequestOf(j).fragments : source_fragment_ok(RequestOf(j), f)

\* A workspace is a clone of what the source held.
WorkspaceInv ==
  /\ \A j \in JobIds :
       ws[j] # NoWorkspace => ws[j].from \in Sources /\ ws[j].refs = Clone(ws[j].from)
  /\ pc = "checkout" => ws[job] # NoWorkspace

\* The job in hand has no log until it is created, once, and what the file and
\* the buffer hold between them is what the worker has written.
FileInv ==
  /\ pc = "spawn" => child[job] = "none"
  /\ pc \in {"spawn", "wait", "create"} => log[job] = Missing
  /\ pc \in {"create", "stdout", "stderr", "flush", "report"} => output[job] \in Outputs
  /\ pc \in {"stdout", "stderr", "flush", "report"} => log[job] \in Seq(Byte)
  /\ buffer # << >> => pc \in {"stderr", "flush"}
  /\ pc = "stdout" => log[job] = << >>
  /\ pc = "stderr" => log[job] \o buffer = output[job].stdout
  /\ pc \in {"flush", "report"} =>
       log[job] \o buffer = output[job].stdout \o output[job].stderr

BuildInv ==
  /\ WorkerInv /\ RowsInv /\ WorkspaceInv /\ FileInv
  /\ BuildsWhatIsMeant /\ LogWhenOver /\ BuildsWhereAllowed
=============================================================================
