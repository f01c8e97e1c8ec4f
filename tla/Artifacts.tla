----------------------------- MODULE Artifacts ------------------------------
(***************************************************************************)
(* collect_artifacts of src/src/executor.rs, pattern by pattern, with the  *)
(* artifacts table of src/src/db.rs beside the copied files.  Rows and     *)
(* files are two stores without a common transaction; whoever lists the    *)
(* artifacts of a job may do so between any two steps, and the daemon may  *)
(* fail at each.  A job is collected at most once (AtMostOnce of Daemon).  *)
(***************************************************************************)
EXTENDS Integers, Sequences

CONSTANTS
  JobIds,        \* jobs
  NoJob,         \* no job
  Patterns,      \* artifact patterns: paths below the output directory
  PatternLists,  \* the artifact_patterns of requests
  Names,         \* file names
  FileName,      \* the last component of a pattern
  Contents,      \* contents of files, and so their sizes and hashes
  Missing,       \* there is no such file
  Torn           \* a copy that is not finished

ASSUME ArtifactsAssumption ==
  /\ NoJob \notin JobIds
  /\ PatternLists \subseteq Seq(Patterns)
  /\ FileName \in [Patterns -> Names]
  /\ Contents \cap {Missing, Torn} = {}

VARIABLES
  patterns,  \* the artifact_patterns of each job
  output,    \* what the build has left at each pattern
  files,     \* the files below artifact_root
  listing,   \* the artifacts table: the rows of each job in id order
  wpc,       \* where the worker is in collect_artifacts
  wjob,      \* the job it collects for
  wpos,      \* the number of the pattern it is at
  wcontent,  \* what it has read back from the copy
  begun,     \* the jobs whose collection has begun: none begins twice
  done       \* the jobs whose collection has returned Ok

requests == <<patterns, output>>
vars == <<patterns, output, files, listing, wpc, wjob, wpos, wcontent, begun, done>>

\* A row: its path below the job's directory, and the size and hash.
Row == [path : Names, content : Contents \cup {Missing, Torn}]

TypeOK ==
  /\ patterns \in [JobIds -> Seq(Patterns)]
  /\ output \in [JobIds -> [Patterns -> Contents \cup {Missing}]]
  /\ files \in [JobIds \X Names -> Contents \cup {Missing, Torn}]
  /\ listing \in [JobIds -> Seq(Row)]
  /\ wpc \in {"idle", "pattern", "copy", "read", "insert"}
  /\ wjob \in JobIds \cup {NoJob}
  /\ wpos \in Nat
  /\ wcontent \in Contents \cup {Missing, Torn}
  /\ begun \subseteq JobIds /\ done \subseteq begun

Init ==
  /\ patterns = [j \in JobIds |-> << >>]
  /\ output = [j \in JobIds |-> [p \in Patterns |-> Missing]]
  /\ files = [f \in JobIds \X Names |-> Missing]
  /\ listing = [j \in JobIds |-> << >>]
  /\ wpc = "idle" /\ wjob = NoJob /\ wpos = 0 /\ wcontent = Missing
  /\ begun = {} /\ done = {}

-----------------------------------------------------------------------------

\* A build has ended well; the worker comes to collect what its request asks.
Begin(j, ps, out) ==
  /\ wpc = "idle"
  /\ j \notin begun
  /\ begun' = begun \cup {j}
  /\ patterns' = [patterns EXCEPT ![j] = ps]
  /\ output' = [output EXCEPT ![j] = out]
  /\ wpc' = "pattern" /\ wjob' = j /\ wpos' = 1
  /\ UNCHANGED <<files, listing, wcontent, done>>

AtPattern == wpc = "pattern" /\ wpos <= Len(patterns[wjob])
Source == output[wjob][patterns[wjob][wpos]]
Name == FileName[patterns[wjob][wpos]]

\* Mutant: one directory for all jobs.
dest_without_id(j) == <<CHOOSE k \in JobIds : TRUE, Name>>

\* artifact_root/job_id/file_name
dest(j) == <<j, Name>>

\* Mutant: the first pattern that matches no file ends the loop.
SkipAll ==
  /\ AtPattern
  /\ Source = Missing
  /\ wpos' = Len(patterns[wjob]) + 1
  /\ UNCHANGED <<requests, files, listing, wpc, wjob, wcontent, begun, done>>

\* if !source.is_file() { continue; }
Skip ==
  /\ AtPattern
  /\ Source = Missing
  /\ wpos' = wpos + 1
  /\ UNCHANGED <<requests, files, listing, wpc, wjob, wcontent, begun, done>>

\* fs::copy truncates what there is at the destination ...
StartCopy ==
  /\ AtPattern
  /\ Source # Missing
  /\ files' = [files EXCEPT ![dest(wjob)] = Torn]
  /\ wpc' = "copy"
  /\ UNCHANGED <<requests, listing, wjob, wpos, wcontent, begun, done>>

\* ... and ends with the source's content there.
FinishCopy ==
  /\ wpc = "copy"
  /\ files' = [files EXCEPT ![dest(wjob)] = Source]
  /\ wpc' = "read"
  /\ UNCHANGED <<requests, listing, wjob, wpos, wcontent, begun, done>>

\* fs::read of the copy, for its size and hash.
ReadBack ==
  /\ wpc = "read"
  /\ wcontent' = files[dest(wjob)]
  /\ wpc' = "insert"
  /\ UNCHANGED <<requests, files, listing, wjob, wpos, begun, done>>

\* Mutant: INSERT OR IGNORE, with the path as a key.
InsertRowOrIgnore ==
  /\ wpc = "insert"
  /\ listing' = [listing EXCEPT ![wjob] =
                   IF \E i \in DOMAIN @ : @[i].path = Name THEN @
                   ELSE Append(@, [path |-> Name, content |-> wcontent])]
  /\ wpc' = "pattern" /\ wpos' = wpos + 1
  /\ UNCHANGED <<requests, files, wjob, wcontent, begun, done>>

\* insert_artifact
InsertRow ==
  /\ wpc = "insert"
  /\ listing' = [listing EXCEPT ![wjob] =
                   Append(@, [path |-> Name, content |-> wcontent])]
  /\ wpc' = "pattern" /\ wpos' = wpos + 1
  /\ UNCHANGED <<requests, files, wjob, wcontent, begun, done>>

\* The loop is over and collect_artifacts returns; the job will be succeeded.
Return ==
  /\ wpc = "pattern"
  /\ wpos > Len(patterns[wjob])
  /\ done' = done \cup {wjob}
  /\ wpc' = "idle" /\ wjob' = NoJob /\ wpos' = 0 /\ wcontent' = Missing
  /\ UNCHANGED <<requests, files, listing, begun>>

\* A call fails and ends the daemon, or the daemon dies.  What is written
\* stays, and the worker of the next daemon does not come back to this job.
Fail ==
  /\ wpc # "idle"
  /\ wpc' = "idle" /\ wjob' = NoJob /\ wpos' = 0 /\ wcontent' = Missing
  /\ UNCHANGED <<requests, files, listing, begun, done>>

Next ==
  \/ \E j \in JobIds, ps \in PatternLists,
        out \in [Patterns -> Contents \cup {Missing}] : Begin(j, ps, out)
  \/ Skip \/ StartCopy \/ FinishCopy \/ ReadBack \/ InsertRow \/ Return
  \/ Fail

Spec == Init /\ [][Next]_vars

-----------------------------------------------------------------------------
\* Properties

\* No two patterns of the job end in the same file name.
NamesDiffer(j) ==
  \A k, l \in DOMAIN patterns[j] :
    FileName[patterns[j][k]] = FileName[patterns[j][l]] => k = l

\* Whenever somebody lists the artifacts of a job whose file names differ, in
\* the middle of the collection or after it has failed, each row describes the
\* file at its path.
RowDescribesFile ==
  \A j \in JobIds :
    NamesDiffer(j) =>
      \A i \in DOMAIN listing[j] :
        files[<<j, listing[j][i].path>>] = listing[j][i].content

\* When the collection has returned, the rows are, in the order of the patterns,
\* those that match a file of the build, each with what the build left there:
\* at[i] is the pattern of the i-th row.
FoundBefore(j, n) ==
  {k \in DOMAIN patterns[j] : k < n /\ output[j][patterns[j][k]] # Missing}
RowOf(j, k) == [path |-> FileName[patterns[j][k]], content |-> output[j][patterns[j][k]]]
RowsOfFound(j, n) ==
  \E at \in [DOMAIN listing[j] -> FoundBefore(j, n)] :
    /\ \A i \in DOMAIN listing[j] : listing[j][i] = RowOf(j, at[i])
    /\ \A i, l \in DOMAIN listing[j] : i < l => at[i] < at[l]
    /\ \A k \in FoundBefore(j, n) : \E i \in DOMAIN listing[j] : at[i] = k
ListingComplete == \A j \in done : RowsOfFound(j, Len(patterns[j]) + 1)

\* When the collection has returned, the last row for a path describes the file
\* there, also if several patterns end in the same name.
IsLast(j, i) ==
  \A k \in DOMAIN listing[j] : k > i => listing[j][k].path # listing[j][i].path
LastRowDescribesFile ==
  \A j \in done : \A i \in DOMAIN listing[j] :
    IsLast(j, i) => files[<<j, listing[j][i].path>>] = listing[j][i].content

-----------------------------------------------------------------------------
\* The inductive invariant

\* The worker has a pattern while it copies and inserts.
HasPattern ==
  /\ wpc # "idle" => wjob \in begun \ done
  /\ wpc = "pattern" => wpos \in Nat \ {0}
  /\ wpc \in {"copy", "read", "insert"} => wpos \in DOMAIN patterns[wjob]

\* Rows belong to patterns that the worker has left behind.
RowsBehind ==
  \A j \in JobIds : \A i \in DOMAIN listing[j] :
    /\ j \in begun
    /\ \E k \in DOMAIN patterns[j] :
         /\ listing[j][i].path = FileName[patterns[j][k]]
         /\ wpc # "idle" /\ wjob = j => k < wpos

\* What the worker is about to insert is what is in the file.
ReadIsFile == wpc = "insert" => wcontent = files[dest(wjob)]

\* The last rows are right, but for the file that the worker is replacing.
Replacing(j, name) == j = wjob /\ wpc \in {"copy", "read", "insert"} /\ name = Name
LastRowsRight ==
  \A j \in JobIds : \A i \in DOMAIN listing[j] :
    (j \in done \/ (wpc # "idle" /\ j = wjob)) /\ IsLast(j, i) =>
      \/ Replacing(j, listing[j][i].path)
      \/ files[<<j, listing[j][i].path>>] = listing[j][i].content

CollectInv ==
  HasPattern /\ RowsBehind /\ ReadIsFile /\ RowDescribesFile /\ LastRowsRight

\* The copy is the file that the build has left, and the rows of the job in hand
\* are those of the patterns that the worker has left behind.
CopyIsSource ==
  /\ wpc \in {"copy", "read", "insert"} => Source # Missing
  /\ wpc = "read" => files[dest(wjob)] = Source
  /\ wpc = "insert" => wcontent = Source
ListedSoFar == wpc # "idle" => RowsOfFound(wjob, wpos)

CompleteInv == CopyIsSource /\ ListedSoFar /\ ListingComplete

-----------------------------------------------------------------------------
\* What the repository says of the program and the program does not do.

\* "List retained artifacts for a build" (src/src/mcp.rs:251): what a row of a
\* finished collection describes is retained at its path.
ListedIsRetained ==
  \A j \in done : \A i \in DOMAIN listing[j] :
    files[<<j, listing[j][i].path>>] = listing[j][i].content
=============================================================================
