# Kernel Builder in TLA+

A specification of `kbs`, the single-machine kernel build scheduler of this
repository: a daemon with a SQLite queue, one worker, a control socket, and
clients (the CLI and the MCP server) that talk to it. Implementation sources
are cited as `src/src/<file>.rs`, tests as `src/tests/<file>.rs`.

## 1. The system

| Part | State it keeps | Operations | Interacts with |
|---|---|---|---|
| job states (`model.rs`, `db.rs:351-378`) | - | `is_terminal`, `transition_to`, text of a state | store |
| job store (`db.rs`) | tables `jobs`, `job_events` | `enqueue`, `get_job`, `set_state`, `next_queued`, `count_by_state`, `events` | worker and handlers, on two connections |
| trees (`db.rs:236-315`) | table `trees` | register (upsert), get, list, remove | Schedule by name |
| artifacts (`db.rs:174-213`, `executor.rs:198-239`) | table `artifacts`, copied files | collect, list, manifest | worker writes, handlers read |
| worker (`daemon.rs:162-170`, `scheduler.rs:31-53`) | the job in hand, the exit of the build | one turn: pick, prepare, run, collect, report | store, executor, runtime |
| executor (`executor.rs`) | workspace of a job | clone, resolve ref, checkout, script | worker |
| runtimes (`runtime.rs`) | child process, log file | detect, run, cancel (empty) | worker |
| control socket (`control.rs`) | socket file, connections | accept, read a line, handle, answer | clients, handlers |
| handlers (`daemon.rs:43-108`) | the mutex around one store connection | twelve requests | store, policy |
| policy (`policy.rs`, `paths.rs`) | - | validate request, tree, URL, name | Schedule, RegisterTree |
| daemon process (`daemon.rs:139-160`) | the `select!` | start, exit, interrupt | everything |
| clients (`cli.rs`, `mcp.rs`) | - | translate to a request | control socket |
| configuration (`config.rs`) | - | load, validate | everything |

What makes it hard:

* **No transaction.** Every SQL statement commits alone. `set_state` is a
  read, an UPDATE that ignores what was read, and an INSERT of an event;
  `enqueue` is two INSERTs; a Status answer is two SELECTs. The worker and
  the handlers have different connections, so these statements interleave.
* **No recovery.** Any error of a job ends the worker and the process;
  what was in hand stays as it was. The daemon can die at every statement.
* **One task for two loops.** The accept loop and the worker are branches of
  one `select!`; the worker blocks it while it uses git or the database.
* **A cancel that nobody carries out.** It only writes a row, at any moment
  relative to the worker.
* **A socket file that anyone may take.** A daemon removes what is at the path,
  a dead one leaves its file, and a caller sees only whether there is a file.
  Nothing keeps two daemons from one database, and each has a mutex of its own.
* **A child that outlives its daemon**, a log that is written in pieces by a
  thread of its own while clients read its tail, and a configuration that may
  differ from one life of the daemon to the next.

What makes each part correct: a job runs at most once and in order (store,
worker); a row tells the outcome of its job (worker); the worker is never
refused (store against handlers); events are those of one run (store); nothing
that waits is forgotten and no request hangs (daemon); a Status is nearly right
(handlers); a job's source is one that the policy accepted (trees, policy); an
artifact row describes its file (artifacts); a tail is the end of the log (log);
a build is of the commit that was meant, where it is allowed, in a workspace of
its own (executor, runtimes); an answer, or none, tells the caller what it may
conclude (control socket).

## 2. Modules

| Module | Models | |
|---|---|---|
| `JobModel` | states, `transition_to`, text conversion | |
| `Store` | the two job tables, one operator per SQL statement | extends `JobModel` |
| `Scheduler` | the worker, one action per statement or call | extends `Store` |
| `Control` | clients, connections, handlers of Schedule, Cancel, Status | extends `Store` |
| `Daemon` | the process around worker and handlers; properties | extends `Scheduler`, `Control` |
| `DaemonInv` | the inductive invariants of worker, events and handlers | extends `Daemon` |
| `BuildQueue` | abstract: first come first served, one server, once each | |
| `DaemonQueue` | the refinement mapping to `BuildQueue` | extends `Daemon` |
| `MCDaemon` | what TLC needs beside the cfg files: the symmetry | extends `DaemonQueue`, `DaemonInv` |
| `Policy` | which requests and registrations a configuration accepts | |
| `SourceTrees` | trees, Schedule by name, the policy, a new configuration | extends `Policy` |
| `MCSourceTrees` | the requests, registrations and configurations of the run | extends `SourceTrees` |
| `Artifacts` | `collect_artifacts`: files and rows, step by step | |
| `MCArtifacts` | the patterns of the runs | extends `Artifacts` |
| `ControlSocket` | socket file, daemons that take it over, callers from connect to the answer | |
| `TwoDaemons` | two workers and a handler per daemon over one store | `INSTANCE Scheduler` twice, extends `Store` |
| `MCTwoDaemons` | symmetry and view of the run | extends `TwoDaemons` |
| `GitRef` | refs of a source and its clone, `resolve_commit` | |
| `RuntimeSelect` | `Config::validate`, `detect_runtime` | |
| `LogTail` | the cut and the lossy decoding of `TailLog`, and what a tail has to be | |
| `Build` | one build from the inside: workspace, child, log, lives of the daemon | extends the three above |
| `MCBuild` | sources, requests, configurations and outputs of the run | extends `Build` |
| `BuildQueueProofs`, `DaemonProofs`, `DaemonPromisesProofs`, `TwoDaemonsProofs`, `SourceTreesProofs`, `ArtifactsProofs`, `ControlSocketProofs`, `BuildProofs` | theorems | |

**State and code.** `jobs` is the table as a function from the ids inserted so
far to the columns `state` and `updated_at`; `events[id]` is the sequence that
`Store::events` returns. `wpc` is the worker's place in `worker_loop` and
`run_one_queued_job`, `wjob`, `wnext` and `wexit` are the locals `job`, the
argument of the current `set_state` and `exit`. `conn[c]` is one connection:
its place in `handle_stream` and `handle`, the request, the answer. `lock` is
the mutex of `DaemonControl`, `listening` says that the socket is bound.
`begun`, `runs`, `built` and `arrival` are history: they are written and never
read by an action. `faults` and `cancels` count towards bounds.

**One action per statement.** `set_state` of the worker is `CheckState`,
`WriteState`, `LogState`; of a cancel `CancelRead`, `CancelWrite`, `LogEvent`.
`enqueue` is `EnqueueInsert`, `LogEvent`. An error (`Fail`) at any of the
worker's steps forgets the job and ends the process (`Exit`); one in a handler
(`HandlerFault`) becomes an `Error` answer and gives the mutex back, and what
the earlier statements wrote stays. `Crash` ends the process anywhere.
`Restart` opens the file again and touches no row.

**Time.** The clock advances at each enqueue by some positive amount. Among all
rows only queued ones are compared by `updated_at`, and a queued row carries
the time of its enqueue, so the clock need not advance elsewhere. That it goes
forward is an assumption (`StoreAssumption`): the code reads the wall clock.

**Data left out of `Daemon`.** The request of a job, paths, git, the script,
artifacts, the log: to its properties `Prepare`, `StartBuild`, `EndBuild` and
`Collect` succeed or fail.

**Source trees.** `SourceTrees` has the same daemon seen from its handlers: of a
job it keeps the request only, and the worker is left out because it never
touches `trees` or a request. `ResolveTree` is `get_tree` under the mutex,
`Validate` the policy without it, `Enqueue` and `EnqueueEvent` the two statements
under it; `UpsertTree` and `ReadTree` are the end of `register_tree`. The
configuration is read once, so `security` changes only at `Restart`, and the
table stays. A path or a URL is a member of a set and an allowlist the subset
that it covers; the times in a tree's row are left out. `meant[n]` is what the
answered registrations and removals say the name stands for, `could[c]` what the
name in `c`'s request has stood for since it was made: both are history.

**Artifacts.** `Artifacts` has one action for each call in the loop of
`collect_artifacts`; a copy that is under way is `Torn`. The worker's turn around
it is `Daemon`'s; that a job is collected at most once follows from `AtMostOnce`
there and is the guard `j \notin begun`. Size and hash of a file are its content.
Listing is one SELECT that may come between any two actions, so the properties
are about every state.

**The control socket.** `path` is what is at `mcp.control_socket`: nothing, the
socket of a living daemon, or a file behind which nobody listens (`Stale`; also
whatever else is there, which is treated alike). `TryExists`, `RemoveFile` and
`Bind` are the three calls of `serve_control_socket`, with other daemons between
them; an error of the last two ends the daemon. A listener whose file another
daemon has removed goes on listening and is never reached again, as in the code.
`Look` is one turn of the loop in `ControlClient::connect`, `Dial` to `Return`
are `request` and what `call_control` or `request_control` makes of its end.
`made` counts the rows that one call has inserted and `calm` remembers whether
its daemon stayed at the path: both are history. The handler is that of
`Schedule`, the only request that is not safe to repeat.

**Two daemons.** `TwoDaemons` instantiates `Scheduler` twice over one `Store`, so
each worker has locals and history of its own and both write the same rows. The
mutex of `DaemonControl` belongs to one process, so `handler[d]` is the handler
that has the one of daemon `d`, and two run at the same time. `enqueue` is three
steps: `Stamp` makes the id and reads the clock, `Insert` writes the row under
that time, `LogRequest` its event; between them come those of the other daemon,
and rows may appear in another order than their stamps. (Within one daemon the
mutex keeps enqueues apart, so `InsertJob` of `Store` is the first two in one.)
`before[i]` is history: the jobs in the table when the clock was read for `i`. A
statement that fails is `Abandon`; the handler is gone with its process. What
`SQLITE_BUSY` does after its timeout is `WorkerFault` or `Abandon`.

**A build.** `Build` takes the turn of the worker apart where `Daemon` has
`Prepare`, `StartBuild` and `EndBuild`: `CloneSource`, `Checkout`, `BuildScript`;
`StartChild`, `ChildEnds`; `CreateLog`, `WriteStdout`, `WriteStderr`, `Flush`. In
exchange a `set_state` is one step and the queue is a set. A repository is a
function from full names of refs to commits; what the source holds is chosen
when it is cloned, which stands for any change that anybody made before. The
clone has the source's branches under `refs/remotes/origin`, its tags, and one
local branch. `buffer` is what tokio's `File` has taken and its thread has not
yet written (`Drain`). `child` outlives the daemon. `conf` is chosen at every
`Load`. A log is a sequence of bytes, and a byte one of twelve classes: those that
UTF-8 tells apart in the first and the later places of a character (`LogTail`).
`from_utf8_lossy` has all characters of one to four bytes, and what Rust makes of
overlong forms, surrogates and sequences that break off. A tail is computed by
the properties in every state, for every limit from 0 to one more than the length
of the log. A path in a fragment is a sequence of names, `..` and components that
lead nowhere (`.`, or nothing between two slashes); `strip_prefix` drops the last
at both ends of an absolute one, and a relative one keeps them.

## 3. Runs

All in `MCDaemon` unless said otherwise; deadlock is checked except in
`artifacts` and `listed_retained`, where all jobs may be over.

| Run | Bounds | Shows |
|---|---|---|
| `daemon_faults` | 2 jobs, 1 client, 2 faults, 1 cancel, builds end in three ways | `TypeOK`, `AtMostOnce`, `OutcomeIsBuildsOutcome`, `WorkerEventsInOrder`, `WorkerInv` |
| `daemon_clients` | 2 jobs, 2 clients, 1 cancel | `WorkerNeverRefused`, `StateIsRecorded`, `LetGoForGood`, `ImplementsQueue` |
| `daemon_served` | 2 jobs, 1 client, 1 fault, any number of Status requests, fair | `NoOvertaking`, `StatusOvercountsByOne`, `QueuedIsServed`, `RequestsEnd` |
| `socket` (`ControlSocket`) | 2 daemons of which 1 is supervised, 2 callers, 2 looks, 2 faults, fair | `CallEffect`, `NoSpuriousFailure`, `TakesPath`, `CallEnds` |
| `two_daemons` (`MCTwoDaemons`) | 2 jobs, 2 workers, 2 handlers, 1 fault or cancel, builds succeed | `TypeOK`, `OncePerDaemon`, `OutcomeOfSomeRun`, `RefusedOnlyByOther`, `NobodyOvertakes` |
| `build` (`MCBuild`) | 2 jobs, 3 sources, 10 requests, 5 configurations, 2 outputs, 1 fault | `TypeOK`, `BuildsWhatIsMeant`, `FoundIfThere`, `LogWhenOver`, `TailIsEndOfLog`, `WorkspaceExclusive`, `BuildsWhereAllowed`, `FragmentsInside`, `LogOnlyGrows` |
| `trees` (`MCSourceTrees`) | 2 jobs, 2 clients, 1 fault, 2 configurations, 9 requests, 5 registrations | `TreesInv`, `WorkerFindsSource`, `AnswerIsOwnTree`, `NameMeansTree`, `QueuedUnderPolicy` |
| `artifacts` (`MCArtifacts`) | 2 jobs, 3 patterns of which 2 end in one name, 2 contents | `CollectInv`, `RowDescribesFile`, `ListingComplete`, `LastRowDescribesFile` |
| `cancel_effect` | 1 job, 1 client, fair | `CancelTakesEffect` is false |
| `terminal_final` | 1 job, 1 client | `TerminalIsFinal` is false |
| `first_event` | 1 job, 1 client | `QueuedIsFirstEvent` is false |
| `listed_retained` (`MCArtifacts`) | 1 job | `ListedIsRetained` is false |

Why the bounds are enough: the worker has one job at a time, so its conflicts
need one job in hand, one cancel in flight and one job that waits; order needs
two jobs that wait, of which the first may be put back by a fault. Three and more
are the subject of the theorems. Two faults allow a failure, a restart, and a failure of what the restart
does. Two clients are what the mutex and the duplicate statements of
the handlers need. A run that has cancels has no Status requests and the other
way round: a Status writes nothing and holds the mutex for both of its counts, so
what matters to it is the worker, and one client is enough. `MaxFaults`
bounds the faults of the environment; `Prepare`, `StartBuild`, `EndBuild` and
`Collect` may fail without a bound. `MaxCancels` bounds cancels. Schedule
requests are bounded by the ids. Jobs and clients are symmetric in the safety
runs (no action names one, and the next job is chosen by its stamp); the runs
of liveness use no symmetry.

In `trees` one fault is a crash with a new configuration, or a statement that
fails; two clients are a request under way and one that changes its tree, and the
second job a later request. The registrations differ in source and ref, so that
a mixture of two of them would be seen; each kind of refused request is there. In
`artifacts` failures are not bounded; the second job shows that jobs do not
share files, and lists of three patterns put one between two that collide.

In `socket` two daemons are one that takes the path and one from which it is
taken, two callers one that calls and one that holds the mutex or finds what the
first has left; `MaxTries` is 50 in the code, and two looks let a file appear or
vanish between them. A crash, a stop and a failing statement are faults; an error
of the worker is a crash here. In `two_daemons` a cancel counts as a fault.
Two jobs get two enqueues, two picks and two builds into every order. Workers
still fail without a bound where `Prepare` or another call does, so daemons end
and come back; that a build fails or is canceled adds only other outcomes, and
the theorems have them, as they have more faults. The view leaves out the events,
which no action and no property there reads, has of the stamps their order only,
and does not tell the two daemons apart, which do the same. In
`build` a branch and a tag of one name have different commits, a source tracks
another, and a branch moves from one source to the next; fragments are relative
and absolute, good and bad, with `..` at the head, in the middle and at the end
and with components that lead nowhere; one configuration is not valid. One
output has a character of four bytes, which a tail may cut at each place; the
other one breaks off within a character. The errors that need no fault (no
runtime, no such ref, a bad fragment) are not bounded.

Real runtimes say `canceled: false` always. Most runs have `RuntimeExits = {"ok",
"failed"}`; in `daemon_served` and `two_daemons` builds that end succeed;
`daemon_faults` adds `"canceled"`, which the trait allows, so that all branches
of `run_one_queued_job` are covered.

### What is true within limits

* **An answer.** `Scheduled` means one row; `unavailable` and a refused connection
  mean none. After an `Error` or no answer there may be one: the event of an
  enqueue may fail after its row, and an answer may be lost. A caller that tries
  again may then have two jobs (`CallEffect` says exactly this much).
* **Two daemons.** A job may be built twice, once by each, and the slower is
  refused and ends. What is left is that neither takes up a job again and that a
  row's outcome is that of one of the builds. Of the order of arrival less is left
  than with one daemon: a job that is in the table before another one is asked for
  is not overtaken by it, but of two that are enqueued at the same time, by the
  two daemons, the one whose row comes later may have the older stamp and be
  picked first (`NobodyOvertakes` says exactly this much).
* **A git ref.** A short name, a tag, `HEAD` or a full name of a tag means in
  the clone what it means in the source. `refs/remotes/origin/n` means the
  source's branch `n`, also when the source tracks another repository itself.
  `refs/heads/n` is found only for the default branch, since the clone has no
  other local one and `resolve_commit` tries nothing else for a name that
  starts with `refs/` (`FoundIfThere` excludes it). Not modelled are a commit id
  as a `git_ref`, whole or shortened, a ref named in part (`heads/topic`), and a
  branch that is called `origin`.
* **The socket.** `Bind` is `bind` and `listen` in one, as in tokio: a caller that
  comes between them is refused as with a stale file. The backlog of connections
  that nobody has accepted is not bounded.
* **A tail.** A replacement character takes three bytes and stands for one or
  more, so a text with such characters may be longer than `max_bytes`. Counted
  as one byte each, they never make it longer; counted as three, a tail that
  says it is truncated is not shorter (`IsTail`). A character that is cut leaves
  up to three of them: as many as it has bytes behind the cut. This holds of any
  bytes, also of those that are not valid UTF-8.
* **A fragment.** The test is one of text. `d/..` passes it and is the source root
  itself. The relative `./..` and `././..` pass it too and name the directory
  above: the `.` in front makes the `..` neither the whole, nor the head, nor
  the middle. (Absolute, `strip_prefix` has dropped the `.` before.)
  `FragmentsInside` says what is true: no absolute path leaves the root, a
  relative one only by its last step, if that is a `..`, and so no file outside
  is named.
* **A workspace** is exclusive because no daemon takes a job up again, not
  because anybody waits for the child: a mutant that requeues jobs at a start
  breaks `WorkspaceExclusive` at once. `Build` has one daemon at a time; two that
  build the same job at once (`TwoDaemons`) would share its workspace and its log.

### The four refuted claims

* `CancelTakesEffect`. "Cancel a queued or running build" (`mcp.rs:192`): the
  handler only writes `canceling`. Nobody calls `BuildRuntime::cancel`, the
  worker writes over the state of a running job, and a queued one stays
  `canceling` for ever. The model also says what a cancel does achieve:
  canceled while waiting and before it was chosen, the job is never built
  (`Withdraw` of `BuildQueue`).
* `TerminalIsFinal`. A terminal state refuses a transition (`model.rs:32-38`,
  `tests/db_state.rs:8`): the check and the UPDATE are two statements, and the
  worker's outcome can come between them. `LetGoForGood` says how far the
  damage goes: only to `canceling`, and the job is not taken up again.
* `QueuedIsFirstEvent`. `tests/db_state.rs:67`: the worker can pick the job
  and record `preparing` before the enqueue has recorded `queued`.
* `ListedIsRetained`. "List retained artifacts for a build" (`mcp.rs:251`):
  `executor.rs:219` copies a file under its last name only, so a second pattern
  with that name replaces the first file, while the first row keeps the old size
  and hash. `LastRowDescribesFile` is what remains true.

## 4. Fairness

`Fairness` in `Daemon`: the worker's thread runs and builds end (WF of
`Worker`); there is no timeout in the code, so that builds end is an assumption
about them. A handler that can take a step does (WF): `std::sync::Mutex`
promises no order among waiters, so no strong fairness, and the runs bound the
requests that compete. `Accept` and `BindSocket` are strongly fair: they
are possible only at the worker's awaits, which come again and again, and
`select!` polls all branches there. `Exit` and `Restart` are weakly fair:
`Restart=on-failure` in `packaging/kernel-builder.service`; after an interrupt
the daemon exits with success and it is the operator who starts it again. No
fairness on clients, faults, or on how a build ends.

`Fairness` in `ControlSocket`: a daemon that is starting goes on, the service
manager starts a supervised one again after a failure (not after an orderly
stop), callers and handlers take their steps. `Reject` is not among the fair
steps, or a handler could get out of waiting for the mutex by a rejection that
nothing forces. Nobody has to call, stop or start a daemon otherwise.
`TakesPath` is about a daemon that is alone from some moment on: two that start
at once may end each other. `CallEnds` assumes that others do not take the
mutex again and again, because it keeps no order among those that wait.

## 5. Proofs

Every safety property of the passing runs is also a theorem, for every value of
the constants that the named assumptions allow. TLC agreed with each formula
first, the inductive invariants included.

**The queue and the daemon**, for every set of jobs and clients and every bound,
from `StoreAssumption` (finitely many ids, a clock that advances),
`RuntimeExitsAssumption` and `ControlAssumption`:

* `BuildQueueProofs`: `QueueOneAtATime`, `QueueNoOvertaking`. `NoOvertaking`
  is not inductive, since `PutBack` lets a job wait again: `QueueInv` adds
  that nothing later was served while a job is taken (`ServedBefore`,
  `TakenIsFirst`), and that tickets differ.
* `DaemonProofs`: `TypeCorrect`, `DaemonTypeOK`. `TypeOK` needs `HasJob`, that
  the worker has a job when it writes a row. Then `DaemonWorkerInv`, and from it
  `DaemonAtMostOnce`, `DaemonWorkerNeverRefused`, `DaemonOutcome` and the action
  property `DaemonLetGoForGood`. The argument: a row is marked when the worker
  first writes it, a marked row is never queued again (`RowsFitHistory`), and
  a cancel only writes `canceling`, which is neither queued nor terminal; so a
  job is picked only unmarked, its counter of runs is zero until `StartBuild`
  (`RunsCounted`), its row is not terminal until the worker writes the outcome
  (`NotOverYet`), and that outcome is the one of the run (`OutcomeKnown`).
* `DaemonPromisesProofs`, what the daemon promises its clients:
  * `DaemonImplementsQueue`. The stamps of the queued rows are in the order of
    arrival (`StampsInvariance`), so `PickJob` is `Take`; `EnqueueInsert` is
    `Submit`, the first `WriteState` of a job `Begin`, a `CancelWrite` `Withdraw`
    or nothing, and whatever makes the worker forget its job (the end of a turn,
    an error, a crash) `Close`, `PutBack` or `Drop`. `DaemonNoOvertaking` carries
    the proved invariant of the queue over this mapping.
  * `AnswersInvariance`, and from it `DaemonStateIsRecorded` and
    `DaemonStatusOvercounts`. A handler between two of its statements has the
    mutex (`HandlersInTurn`), so while it is there only the worker writes rows.
    Who has written a row last is about to record it (`LastWriterRecords`), and
    an exit waits for the handler. `CountedOnce` is what makes the counts add up:
    what was counted as queued and what is running now are different jobs, but
    for the one job of the worker; the worker lets go of a running job only by an
    error, since before the end of a turn the row has its outcome
    (`OutcomeWritten`).
  * `EventsInvariance`, and from it `DaemonWorkerEventsInOrder`. How many events
    the worker has recorded of a job follows from its place (`EventsCounted`),
    so the next one is the next of the path; those that handlers append in
    between are told apart by their text, and a job that was let go gets no more.

**Two daemons**, from `StoreAssumption` and `ExitsAssumption`. `TwoDaemonsProofs`:
`TwoInvariance`, and from it `TwoTypeOK`, `TwoOncePerDaemon`, `TwoOutcome`,
`TwoRefused`, `TwoNobodyOvertakes`. What a worker knows of its own job (`OwnA`,
`OwnB`) rests on its own history, which the other never writes. What it knows of
the row holds only up to the other: `NotOverYet` says that a terminal row under its
hands means that the other has begun the job too. The order of arrival rests on
the stamps: a waiting row has an older one than any that was read when it was in
the table, be that in a row (`StampsOfRows`) or still with a handler
(`StampsToCome`), and `PickedFirst` keeps it while both workers have picked and
neither has marked.

**Source trees**, from `PolicyAssumption` and `TreesAssumption` (that `None` is
not a value, that requests are well formed). `SourceTreesProofs`: `TreesInvariant`,
and from it `TreesWorkerFindsSource`, `TreesAnswerIsOwnTree`,
`TreesQueuedUnderPolicy`, `TreesNameMeansTree`. The verdict of `Validate` holds
until `Enqueue` because the policy changes only when no connection is open
(`Accepted`, `AtItsPlace`); nobody comes between the upsert and its read because
the mutex is held there (`LockHeld`, `OwnTreeIsThere`); what a name was resolved
to was among `could[c]`, which only grows (`ResolvedInTime`). The proof takes the
invariant apart by connection (`ConnFits`), so that a step of one connection has
to say only why the others still fit.

**Artifacts**, from `ArtifactsAssumption`. `ArtifactsProofs`: `ArtifactsInvariant`,
`ArtifactsRowDescribesFile`, `ArtifactsLastRow`. Rows belong to patterns that the
worker has passed (`RowsBehind`), so where names differ the next copy goes to a
file that no row names; where they do not, every row but the last of its name may
be wrong, and the last only while its file is being replaced (`LastRowsRight`).
`ArtifactsListingComplete` rests on `CompleteInv`: the rows so far match, in order
and one to one, the patterns left behind that found a file (`RowsOfFound`), and
each insert extends that matching by one.

**The control socket**, from `SocketAssumption`. `ControlSocketProofs`:
`SocketInvariance`, and from it `SocketTypeOK`, `SocketLockIsHeld`,
`SocketCallEffect`, `SocketNoSpuriousFailure`. The place of a call says how many
rows it has made and to which daemon it is connected; while a call is calm its
daemon is the one at the path and is up, so whatever ends it without an answer
ends the calm.

**A build**, for every set of jobs, sources, requests, configurations and outputs,
from `GitAssumption` (that the default branch is a branch and `Unknown` not a
commit) and `BuildAssumption` (that requests and configurations are well formed and outputs are
bytes). `BuildProofs`: `BuildInvariance`, and from it one theorem for each property
of the run.

* `BuildMeant`, `BuildFound`: `ResolveMeant` compares `rev_parse` in a source with
  `resolve_commit` in its clone for every kind of ref, name by name, since the
  clone has other refs and the code tries two forms of the name.
* `BuildWorkspaceExclusive`, `BuildAllowed`, `BuildFragmentsInside`: the row says
  how far a job has come (`RowsInv`); one that was never begun has no workspace
  and no child, and only such a one is selected. The pair of runtime and
  configuration fits from `Detect` until the daemon's end (`WorkerInv`).
  That a fragment stays inside is by counting: a `..` that the test lets pass is
  the last component that `strip_prefix` keeps, or the last of a relative path,
  so there is at most one (`RelativeInside`, `AbsoluteInside`).
* `BuildLogWhenOver`, `BuildLogOnlyGrows`: the file and the buffer hold between
  them what was written (`FileInv`), and `CreateLog` meets no file, because the job
  was begun once.
* `BuildTail` follows from `TailOfAnyLog`, which is about the algorithm alone:
  for any bytes and any limit the result is a tail. It needs induction over the
  log, and the library's induction theorems take an operator, which the provers
  cannot instantiate; `NatInductive` and `DownInductive` state induction for a set
  of numbers instead, and follow from the least element of its complement. With
  them: the recursive function of `from_utf8_lossy` exists and has its equation
  (`TextIs`), the text of a rest is the rest of the text unless a character is
  cut, and then at most three replacement characters come first (`TextEnds`), and
  its size is the number of bytes up to what replacement characters make of it
  (`TextSize`).

The type invariants of `SourceTrees`, `Artifacts` and `ControlSocket`, and
`LockIsHeld`, are proved and need no run. Only model-checked are the liveness
properties `QueuedIsServed`, `RequestsEnd`, `TakesPath` and `CallEnds`, which are
out of the prover's reach (fairness, ENABLED), and the four refuted claims.

## 6. Not modelled

* `cli.rs` and `mcp.rs` beyond their call to the daemon: they keep no state. A
  job id that does not parse is an error without a request; the CLI tails
  `max_log_read_bytes`, the MCP server 4096 or what it is asked for; an `Error`
  answer is printed, and the CLI exits with 0.
* Text: the lines of the build script, the arguments of the container command,
  JSON, TOML, the wording of errors. Of these only what decides something is
  modelled (which fragments get into the script, what `validate` looks at).
* Fields that nothing depends on: `timeout_secs`, `default_timeout_secs`,
  `shutdown_grace_secs`, `retention_days`, `priority`, `failure_json`,
  `concurrency` beyond being positive. In the code no state depends on them
  either: a build that hangs occupies the worker for ever, and the runs of
  liveness assume that builds end.
* `ids.rs` (ids are never handed out twice), `error.rs`, `audit.rs`, which the
  daemon does not use, and installation, with the service manager's limit on
  the rate of restarts.
* Memory: a tail reads the whole log first.
* Reads that are one statement or one snapshot (GetJob, ListJobs, events,
  GetTree, ListTrees, artifacts) have no state to check beyond the store's.

What could come next: the two refuted claims about a cancel against a changed
code; a commit id as a `git_ref`; the arguments by which the liveness properties
could be reduced to leads-to steps.
