-------------------------- MODULE ArtifactsProofs ---------------------------
(***************************************************************************)
(* The collection of artifacts, for any jobs, patterns and file names.     *)
(***************************************************************************)
EXTENDS Artifacts, SequenceTheorems, TLAPS

Inv == TypeOK /\ CollectInv

\* The initial states satisfy the invariant.
LEMMA InvInit ==
  ASSUME ArtifactsAssumption, Init
  PROVE  Inv
  BY DEF ArtifactsAssumption, Init, Inv, TypeOK, CollectInv, HasPattern, RowsBehind,
         ReadIsFile, RowDescribesFile, LastRowsRight

\* While the worker has a pattern, its destination is a file of the job.
LEMMA DestTyped ==
  ASSUME ArtifactsAssumption, TypeOK, HasPattern,
         wpc \in {"copy", "read", "insert"} \/ AtPattern
  PROVE  /\ wjob \in JobIds
         /\ wpos \in DOMAIN patterns[wjob]
         /\ Name \in Names
         /\ dest(wjob) = <<wjob, Name>> /\ dest(wjob) \in JobIds \X Names
         /\ Source \in Contents \cup {Missing}
<1>1. wjob \in JobIds /\ patterns[wjob] \in Seq(Patterns)
  BY DEF HasPattern, TypeOK, AtPattern
<1>2. wpos \in DOMAIN patterns[wjob]
  <2>1. CASE AtPattern
    BY <1>1, <2>1 DEF HasPattern, AtPattern
  <2>2. CASE wpc \in {"copy", "read", "insert"}
    BY <2>2 DEF HasPattern
  <2> QED BY <2>1, <2>2
<1>3. patterns[wjob][wpos] \in Patterns
  BY <1>1, <1>2, ElementOfSeq
<1> QED
  BY <1>1, <1>2, <1>3 DEF Name, Source, dest, ArtifactsAssumption, TypeOK

\* Every step keeps the types.
LEMMA TypeStep ==
  ASSUME ArtifactsAssumption, Inv, [Next]_vars
  PROVE  TypeOK'
<1> USE DEF Inv, CollectInv
<1>1. ASSUME NEW j \in JobIds, NEW ps \in PatternLists,
             NEW out \in [Patterns -> Contents \cup {Missing}], Begin(j, ps, out)
      PROVE  TypeOK'
  BY <1>1 DEF Begin, TypeOK, ArtifactsAssumption
<1>2. CASE Skip
  BY <1>2 DEF Skip, AtPattern, TypeOK, requests
<1>3. CASE StartCopy \/ FinishCopy
  <2>1. dest(wjob) \in JobIds \X Names /\ Source \in Contents \cup {Missing}
    BY <1>3, DestTyped DEF StartCopy, FinishCopy
  <2>2. files' \in [JobIds \X Names -> Contents \cup {Missing, Torn}]
    BY <1>3, <2>1 DEF StartCopy, FinishCopy, TypeOK
  <2> QED
    BY <1>3, <2>2 DEF StartCopy, FinishCopy, TypeOK, requests
<1>4. CASE ReadBack
  BY <1>4, DestTyped DEF ReadBack, TypeOK, requests
<1>5. CASE InsertRow
  <2>1. [path |-> Name, content |-> wcontent] \in Row
    BY <1>5, DestTyped DEF InsertRow, TypeOK, Row
  <2> QED
    BY <1>5, <2>1, DestTyped DEF InsertRow, TypeOK, requests
<1>6. CASE Return
  BY <1>6 DEF Return, TypeOK, HasPattern, requests
<1>7. CASE Fail
  BY <1>7 DEF Fail, TypeOK, requests
<1>8. CASE UNCHANGED vars
  BY <1>8 DEF vars, TypeOK
<1> QED
  BY <1>1, <1>2, <1>3, <1>4, <1>5, <1>6, <1>7, <1>8 DEF Next

\* A job comes to be collected.
LEMMA BeginInv ==
  ASSUME ArtifactsAssumption, Inv, NEW j \in JobIds, NEW ps \in PatternLists,
         NEW out \in [Patterns -> Contents \cup {Missing}], Begin(j, ps, out)
  PROVE  CollectInv'
<1> USE DEF Inv, CollectInv
<1>1. listing[j] = << >>
  BY DEF Begin, RowsBehind, TypeOK
<1>2. /\ \A k \in JobIds \ {j} : patterns'[k] = patterns[k]
      /\ UNCHANGED <<files, listing, done>>
      /\ begun' = begun \cup {j} /\ j \notin begun /\ wpc = "idle"
      /\ wpc' = "pattern" /\ wjob' = j /\ wpos' = 1
  BY DEF Begin, TypeOK
<1>3. HasPattern' /\ ReadIsFile'
  BY <1>2 DEF HasPattern, ReadIsFile, TypeOK
<1>4. RowsBehind'
  BY <1>1, <1>2 DEF RowsBehind
<1>5. RowDescribesFile'
  BY <1>1, <1>2 DEF RowDescribesFile, NamesDiffer
<1>6. LastRowsRight'
  BY <1>1, <1>2 DEF LastRowsRight, IsLast, Replacing
<1> QED BY <1>3, <1>4, <1>5, <1>6

\* The worker passes a pattern, returns, fails, or reads the copy back.
LEMMA QuietInv ==
  ASSUME ArtifactsAssumption, Inv, Skip \/ ReadBack \/ Return \/ Fail
  PROVE  CollectInv'
<1> USE DEF Inv, CollectInv
<1>1. /\ UNCHANGED <<patterns, files, listing, begun>>
      /\ done \subseteq done'
      /\ \A j \in done' : j \in done \/ (j = wjob /\ wpc = "pattern")
  BY DEF Skip, ReadBack, Return, Fail, requests
<1>2. \/ wpc' = "idle" /\ wpc # "idle"
      \/ /\ wjob' = wjob /\ wpos' >= wpos /\ wpos' \in Nat /\ done' = done
         /\ \/ wpc = "pattern" /\ wpc' = "pattern"
            \/ wpc = "read" /\ wpc' = "insert" /\ wpos' = wpos
                            /\ wcontent' = files[dest(wjob)]
  BY DEF Skip, AtPattern, ReadBack, Return, Fail, TypeOK
<1>3. HasPattern' /\ ReadIsFile'
  <2>1. /\ wpc # "idle" => wjob \in begun \ done
        /\ wpc = "pattern" => wpos \in Nat \ {0}
        /\ wpc = "read" => wpos \in DOMAIN patterns[wjob]
    BY DEF HasPattern
  <2>2. HasPattern'
    BY <1>1, <1>2, <2>1 DEF HasPattern
  <2>3. ReadIsFile'
    BY <1>1, <1>2 DEF ReadIsFile, dest, Name
  <2> QED BY <2>2, <2>3
<1>4. RowsBehind'
  <2> SUFFICES ASSUME NEW j \in JobIds, NEW i \in DOMAIN listing[j]
               PROVE  /\ j \in begun
                      /\ \E k \in DOMAIN patterns[j] :
                           /\ listing[j][i].path = FileName[patterns[j][k]]
                           /\ wpc' # "idle" /\ wjob' = j => k < wpos'
    BY <1>1 DEF RowsBehind
  <2>1. PICK k \in DOMAIN patterns[j] :
          /\ listing[j][i].path = FileName[patterns[j][k]]
          /\ wpc # "idle" /\ wjob = j => k < wpos
    BY DEF RowsBehind
  <2>2. j \in begun /\ patterns[j] \in Seq(Patterns) /\ k \in Nat /\ wpos \in Nat
    BY DEF RowsBehind, TypeOK
  <2> QED
    BY <1>2, <2>1, <2>2
<1>5. RowDescribesFile'
  BY <1>1 DEF RowDescribesFile, NamesDiffer
<1>6. LastRowsRight'
  <2> SUFFICES ASSUME NEW j \in JobIds, NEW i \in DOMAIN listing[j], IsLast(j, i),
                      j \in done' \/ (wpc' # "idle" /\ j = wjob'),
                      ~Replacing(j, listing[j][i].path)'
               PROVE  files[<<j, listing[j][i].path>>] = listing[j][i].content
    BY <1>1 DEF LastRowsRight, IsLast
  <2>1. wpc # "idle" => wjob \notin done
    BY DEF HasPattern
  <2>2. ~Replacing(j, listing[j][i].path)
    BY <1>1, <1>2, <2>1 DEF Replacing, Name
  <2>3. j \in done \/ (wpc # "idle" /\ j = wjob)
    BY <1>1, <1>2
  <2> QED
    BY <2>2, <2>3 DEF LastRowsRight
<1> QED BY <1>3, <1>4, <1>5, <1>6

\* Writing the copy touches no file that a row describes, if names differ.
LEMMA CopyInv ==
  ASSUME ArtifactsAssumption, Inv, StartCopy \/ FinishCopy
  PROVE  CollectInv'
<1> USE DEF Inv, CollectInv
<1>1. /\ wjob \in JobIds /\ wpos \in DOMAIN patterns[wjob] /\ Name \in Names
      /\ \A f \in JobIds \X Names : f # <<wjob, Name>> => files'[f] = files[f]
      /\ UNCHANGED <<patterns, listing, wjob, wpos, begun, done>>
      /\ wpc \in {"pattern", "copy"} /\ wpc' \in {"copy", "read"}
  BY DestTyped DEF StartCopy, FinishCopy, AtPattern, requests, TypeOK
<1>2. \A j \in JobIds : \A i \in DOMAIN listing[j] : listing[j][i].path \in Names
  <2> TAKE j \in JobIds
  <2>1. listing[j] \in Seq(Row)
    BY DEF TypeOK
  <2> TAKE i \in DOMAIN listing[j]
  <2>2. listing[j][i] \in Row
    BY <2>1, ElementOfSeq
  <2> QED
    BY <2>2 DEF Row
<1>3. HasPattern' /\ ReadIsFile' /\ RowsBehind'
  BY <1>1 DEF HasPattern, ReadIsFile, RowsBehind
<1>4. RowDescribesFile'
  <2> SUFFICES ASSUME NEW j \in JobIds, NamesDiffer(j), NEW i \in DOMAIN listing[j]
               PROVE  files'[<<j, listing[j][i].path>>] = listing[j][i].content
    BY <1>1 DEF RowDescribesFile, NamesDiffer
  <2>1. ASSUME j = wjob PROVE listing[j][i].path # Name
    <3>1. PICK k \in DOMAIN patterns[j] :
            listing[j][i].path = FileName[patterns[j][k]] /\ k < wpos
      BY <1>1, <2>1 DEF RowsBehind
    <3>2. k \in Nat /\ wpos \in Nat
      BY DEF TypeOK
    <3>3. k # wpos /\ wpos \in DOMAIN patterns[j]
      BY <1>1, <2>1, <3>1, <3>2
    <3> QED
      BY <2>1, <3>1, <3>3 DEF NamesDiffer, Name
  <2> QED
    BY <1>1, <1>2, <2>1 DEF RowDescribesFile
<1>5. LastRowsRight'
  <2> SUFFICES ASSUME NEW j \in JobIds, NEW i \in DOMAIN listing[j], IsLast(j, i),
                      j \in done \/ j = wjob, ~(j = wjob /\ listing[j][i].path = Name)
               PROVE  files'[<<j, listing[j][i].path>>] = listing[j][i].content
    BY <1>1 DEF LastRowsRight, IsLast, Replacing, Name
  <2>1. files[<<j, listing[j][i].path>>] = listing[j][i].content
    BY <1>1 DEF LastRowsRight, Replacing
  <2> QED
    BY <1>1, <1>2, <2>1
<1> QED BY <1>3, <1>4, <1>5

\* The new row is the last one for its path, and describes the file there.
LEMMA InsertInv ==
  ASSUME ArtifactsAssumption, Inv, InsertRow
  PROVE  CollectInv'
<1> USE DEF Inv, CollectInv
<1> DEFINE rows == listing[wjob]
           row == [path |-> Name, content |-> wcontent]
<1>1. /\ wjob \in begun \ done /\ wpos \in DOMAIN patterns[wjob]
      /\ files[<<wjob, Name>>] = wcontent
      /\ wjob \in JobIds /\ rows \in Seq(Row) /\ patterns[wjob] \in Seq(Patterns)
  BY DEF InsertRow, HasPattern, ReadIsFile, dest, TypeOK
<1>2. /\ UNCHANGED <<patterns, files, wjob, begun, done>>
      /\ wpc = "insert" /\ wpc' = "pattern" /\ wpos' = wpos + 1 /\ wpos \in Nat
      /\ listing' = [listing EXCEPT ![wjob] = Append(rows, row)]
  BY DEF InsertRow, requests, TypeOK
<1>3. /\ \A j \in JobIds \ {wjob} : listing'[j] = listing[j]
      /\ DOMAIN listing'[wjob] = DOMAIN rows \cup {Len(rows) + 1}
      /\ \A i \in DOMAIN rows : i < Len(rows) + 1 /\ listing'[wjob][i] = rows[i]
      /\ listing'[wjob][Len(rows) + 1] = row
  BY <1>1, <1>2 DEF TypeOK
<1> HIDE DEF row
<1>4. row.path = Name /\ row.content = wcontent
  BY DEF row
<1>5. HasPattern' /\ ReadIsFile'
  BY <1>1, <1>2 DEF HasPattern, ReadIsFile
<1>6. RowsBehind'
  <2>1. ASSUME NEW j \in JobIds \ {wjob}, NEW i \in DOMAIN listing[j]
        PROVE  j \in begun /\ \E k \in DOMAIN patterns[j] :
                                listing[j][i].path = FileName[patterns[j][k]]
    BY DEF RowsBehind
  <2>2. ASSUME NEW i \in DOMAIN rows
        PROVE  \E k \in DOMAIN patterns[wjob] :
                 rows[i].path = FileName[patterns[wjob][k]] /\ k < wpos + 1
    BY <1>1, <1>2 DEF RowsBehind
  <2>3. row.path = FileName[patterns[wjob][wpos]] /\ wpos < wpos + 1
    BY <1>2, <1>4 DEF Name
  <2> SUFFICES ASSUME NEW j \in JobIds, NEW i \in DOMAIN listing'[j]
               PROVE  /\ j \in begun
                      /\ \E k \in DOMAIN patterns[j] :
                           /\ listing'[j][i].path = FileName[patterns[j][k]]
                           /\ wjob = j => k < wpos + 1
    BY <1>2 DEF RowsBehind
  <2>4. CASE j # wjob
    BY <1>3, <2>1, <2>4
  <2>5. CASE j = wjob /\ i \in DOMAIN rows
    BY <1>1, <1>3, <2>2, <2>5
  <2>6. CASE j = wjob /\ i = Len(rows) + 1
    BY <1>1, <1>3, <2>3, <2>6
  <2> QED BY <1>3, <2>4, <2>5, <2>6
<1>7. RowDescribesFile'
  <2> SUFFICES ASSUME NEW j \in JobIds, NamesDiffer(j), NEW i \in DOMAIN listing'[j]
               PROVE  files[<<j, listing'[j][i].path>>] = listing'[j][i].content
    BY <1>2 DEF RowDescribesFile, NamesDiffer
  <2>1. CASE i \in DOMAIN listing[j] /\ listing'[j][i] = listing[j][i]
    BY <2>1 DEF RowDescribesFile
  <2>2. CASE j = wjob /\ listing'[j][i] = row
    BY <1>1, <1>4, <2>2
  <2> QED BY <1>1, <1>3, <2>1, <2>2
<1>8. LastRowsRight'
  <2>1. ASSUME NEW j \in JobIds \ {wjob}, NEW i \in DOMAIN listing'[j], IsLast(j, i)',
               j \in done
        PROVE  files[<<j, listing[j][i].path>>] = listing[j][i].content
    BY <1>3, <2>1 DEF LastRowsRight, IsLast, Replacing
  <2>2. ASSUME NEW j \in JobIds, j = wjob, NEW i \in DOMAIN rows, IsLast(j, i)'
        PROVE  files[<<wjob, rows[i].path>>] = rows[i].content
    <3>1. IsLast(wjob, i)
      BY <1>2, <1>3, <2>2 DEF IsLast
    <3>2. rows[i].path # Name
      BY <1>2, <1>3, <1>4, <2>2 DEF IsLast
    <3> QED
      BY <1>1, <1>2, <3>1, <3>2 DEF LastRowsRight, Replacing
  <2> SUFFICES ASSUME NEW j \in JobIds, NEW i \in DOMAIN listing'[j], IsLast(j, i)',
                      j \in done \/ j = wjob
               PROVE  files[<<j, listing'[j][i].path>>] = listing'[j][i].content
    BY <1>2 DEF LastRowsRight
  <2>3. CASE j # wjob
    BY <1>3, <2>1, <2>3
  <2>4. CASE j = wjob /\ i \in DOMAIN rows
    BY <1>3, <2>2, <2>4
  <2>5. CASE j = wjob /\ i = Len(rows) + 1
    BY <1>1, <1>3, <1>4, <2>5
  <2> QED BY <1>3, <2>3, <2>4, <2>5
<1> QED BY <1>5, <1>6, <1>7, <1>8

\* The rows and the files of the artifacts agree for ever, as far as CollectInv
\* says.
THEOREM ArtifactsInvariant == Spec => [](TypeOK /\ CollectInv)
<1>1. Init => Inv
  BY InvInit, ArtifactsAssumption
<1>2. Inv /\ [Next]_vars => Inv'
  <2> SUFFICES ASSUME Inv, [Next]_vars PROVE CollectInv'
    BY TypeStep, ArtifactsAssumption DEF Inv
  <2>1. CASE UNCHANGED vars
    BY <2>1 DEF vars, Inv, CollectInv, HasPattern, RowsBehind, ReadIsFile, dest, Name,
                RowDescribesFile, NamesDiffer, LastRowsRight, IsLast, Replacing
  <2>2. CASE Next
    BY <2>2, BeginInv, QuietInv, CopyInv, InsertInv, ArtifactsAssumption DEF Next
  <2> QED BY <2>1, <2>2
<1>3. Inv => TypeOK /\ CollectInv
  BY DEF Inv
<1> QED BY <1>1, <1>2, <1>3, PTL DEF Spec

\* Each row of a job whose file names differ describes the file at its path, at
\* every moment of the collection and after any failure.
THEOREM ArtifactsRowDescribesFile == Spec => []RowDescribesFile
<1>1. TypeOK /\ CollectInv => RowDescribesFile
  BY DEF CollectInv
<1> QED BY <1>1, ArtifactsInvariant, PTL

\* The last row for a path describes the file there when the collection has
\* returned, whatever file names coincide.
THEOREM ArtifactsLastRow == Spec => []LastRowDescribesFile
<1>1. TypeOK /\ CollectInv => LastRowDescribesFile
  BY DEF TypeOK, CollectInv, LastRowsRight, LastRowDescribesFile, Replacing, HasPattern
<1> QED BY <1>1, ArtifactsInvariant, PTL

\* The collection is type correct: rows name files that exist or existed, in the
\* form that list_artifacts returns.
THEOREM ArtifactsTypeOK == Spec => []TypeOK
<1> QED BY ArtifactsInvariant, PTL

-----------------------------------------------------------------------------
\* The rows in the order of the patterns.

\* The copy is the build's file through every step.
LEMMA CopyStep ==
  ASSUME ArtifactsAssumption, Inv, CopyIsSource, [Next]_vars
  PROVE  CopyIsSource'
<1>1. ASSUME NEW j \in JobIds, NEW ps \in PatternLists,
             NEW out \in [Patterns -> Contents \cup {Missing}], Begin(j, ps, out)
      PROVE  CopyIsSource'
  BY <1>1 DEF Begin, CopyIsSource
<1>2. CASE StartCopy
  BY <1>2 DEF StartCopy, CopyIsSource, Source, requests
<1>3. CASE FinishCopy
  <2>1. dest(wjob) \in JobIds \X Names
    BY <1>3, DestTyped DEF FinishCopy, Inv, CollectInv
  <2>2. files'[dest(wjob)] = Source
    BY <1>3, <2>1 DEF FinishCopy, Inv, TypeOK
  <2>3. dest(wjob)' = dest(wjob) /\ Source' = Source
    BY <1>3 DEF FinishCopy, dest, Name, Source, requests
  <2> QED BY <1>3, <2>2, <2>3 DEF FinishCopy, CopyIsSource
<1>4. CASE ReadBack
  <2>1. Source' = Source
    BY <1>4 DEF ReadBack, Source, requests
  <2> QED BY <1>4, <2>1 DEF ReadBack, CopyIsSource
<1>5. CASE Skip \/ InsertRow \/ Return \/ Fail
  BY <1>5 DEF Skip, AtPattern, InsertRow, Return, Fail, CopyIsSource
<1>6. CASE UNCHANGED vars
  BY <1>6 DEF vars, CopyIsSource, Source, dest, Name
<1> QED BY <1>1, <1>2, <1>3, <1>4, <1>5, <1>6 DEF Next

\* The row of a pattern goes to the end, behind those of the patterns before it.
LEMMA InsertListed ==
  ASSUME ArtifactsAssumption, Inv, CopyIsSource, RowsOfFound(wjob, wpos), InsertRow
  PROVE  RowsOfFound(wjob, wpos)'
<1> DEFINE rows == listing[wjob]
           row == [path |-> Name, content |-> wcontent]
           n == Len(rows) + 1
           more == FoundBefore(wjob, wpos) \cup {wpos}
<1>1. /\ wjob \in JobIds /\ wpos \in DOMAIN patterns[wjob] /\ Source # Missing
      /\ wcontent = Source /\ rows \in Seq(Row) /\ patterns[wjob] \in Seq(Patterns)
  BY DestTyped DEF InsertRow, Inv, CollectInv, HasPattern, CopyIsSource, TypeOK
<1>2. /\ UNCHANGED <<patterns, output, wjob>> /\ wpos' = wpos + 1 /\ wpos \in Nat
      /\ listing'[wjob] = Append(rows, row)
  BY <1>1 DEF InsertRow, requests, Inv, TypeOK
<1>3. row = RowOf(wjob, wpos)
  BY <1>1 DEF RowOf, Name, Source
<1>4. FoundBefore(wjob, wpos)' = more
  BY <1>1, <1>2 DEF FoundBefore, Source
<1>5. FoundBefore(wjob, wpos) \in SUBSET Nat /\ \A k \in FoundBefore(wjob, wpos) : k < wpos
  BY <1>1 DEF FoundBefore
<1> HIDE DEF row
<1>6. /\ DOMAIN rows = 1 .. Len(rows) /\ Len(rows) \in Nat
      /\ DOMAIN listing'[wjob] = DOMAIN rows \cup {n}
      /\ \A i \in DOMAIN rows : listing'[wjob][i] = rows[i] /\ i # n /\ i < n /\ ~(n < i)
      /\ listing'[wjob][n] = row
  <2>1. DOMAIN rows = 1 .. Len(rows) /\ Len(rows) \in Nat
    BY <1>1
  <2>2. /\ Len(listing'[wjob]) = n /\ DOMAIN listing'[wjob] = 1 .. n
        /\ \A i \in 1 .. Len(rows) : listing'[wjob][i] = rows[i]
        /\ listing'[wjob][n] = row
    BY <1>1, <1>2
  <2>3. 1 .. n = (1 .. Len(rows)) \cup {n}
    BY <2>1
  <2>4. \A i \in 1 .. Len(rows) : i # n /\ i < n /\ ~(n < i)
    BY <2>1
  <2> HIDE DEF n, rows
  <2> QED BY <2>1, <2>2, <2>3, <2>4
<1>7. PICK at \in [DOMAIN rows -> FoundBefore(wjob, wpos)] :
        /\ \A i \in DOMAIN rows : rows[i] = RowOf(wjob, at[i])
        /\ \A i, l \in DOMAIN rows : i < l => at[i] < at[l]
        /\ \A k \in FoundBefore(wjob, wpos) : \E i \in DOMAIN rows : at[i] = k
  BY DEF RowsOfFound
<1> DEFINE at2 == [i \in DOMAIN rows \cup {n} |-> IF i = n THEN wpos ELSE at[i]]
<1>8. /\ at2 \in [DOMAIN listing'[wjob] -> more]
      /\ at2[n] = wpos /\ \A i \in DOMAIN rows : at2[i] = at[i]
  BY <1>6, <1>7
<1> HIDE DEF at2
<1>9. \A i \in DOMAIN listing'[wjob] : listing'[wjob][i] = RowOf(wjob, at2[i])
  BY <1>3, <1>6, <1>7, <1>8
<1>10. ASSUME NEW i \in DOMAIN listing'[wjob], NEW l \in DOMAIN listing'[wjob], i < l
       PROVE  at2[i] < at2[l]
  <2>1. CASE i \in DOMAIN rows /\ l \in DOMAIN rows
    BY <1>7, <1>8, <1>10, <2>1
  <2>2. CASE i \in DOMAIN rows /\ l = n
    BY <1>5, <1>7, <1>8, <2>2
  <2> QED BY <1>6, <1>10, <2>1, <2>2
<1>11. \A k \in more : \E i \in DOMAIN listing'[wjob] : at2[i] = k
  BY <1>6, <1>7, <1>8
<1> HIDE DEF more, n
<1>12. \E f \in [DOMAIN listing'[wjob] -> more] :
         /\ \A i \in DOMAIN listing'[wjob] : listing'[wjob][i] = RowOf(wjob, f[i])
         /\ \A i, l \in DOMAIN listing'[wjob] : i < l => f[i] < f[l]
         /\ \A k \in more : \E i \in DOMAIN listing'[wjob] : f[i] = k
  BY <1>8, <1>9, <1>10, <1>11
<1>13. wjob' = wjob /\ patterns' = patterns /\ output' = output
  BY <1>2
<1> QED BY <1>4, <1>12, <1>13 DEF RowsOfFound, RowOf

\* The rows of the job in hand are listed as far as the worker has come.
LEMMA ListedStep ==
  ASSUME ArtifactsAssumption, Inv, CopyIsSource, ListedSoFar, [Next]_vars
  PROVE  ListedSoFar'
<1>1. ASSUME NEW j \in JobIds, NEW ps \in PatternLists,
             NEW out \in [Patterns -> Contents \cup {Missing}], Begin(j, ps, out)
      PROVE  ListedSoFar'
  <2>1. listing[j] = << >> /\ patterns'[j] = ps /\ ps \in Seq(Patterns)
    BY <1>1 DEF Begin, Inv, CollectInv, RowsBehind, TypeOK, ArtifactsAssumption
  <2>2. wjob' = j /\ wpos' = 1 /\ listing' = listing
    BY <1>1 DEF Begin
  <2>3. FoundBefore(wjob, wpos)' = {}
    BY <2>1, <2>2 DEF FoundBefore
  <2>4. << >> \in [{} -> {}] /\ DOMAIN listing'[j] = {}
    BY <2>1, <2>2
  <2>5. RowsOfFound(wjob, wpos)'
    BY <2>2, <2>3, <2>4 DEF RowsOfFound
  <2> QED BY <2>5 DEF ListedSoFar
<1>2. CASE Skip
  <2>1. /\ UNCHANGED <<patterns, output, listing, wjob>> /\ wpos' = wpos + 1 /\ wpos \in Nat
        /\ Source = Missing /\ patterns[wjob] \in Seq(Patterns)
    BY <1>2 DEF Skip, requests, Inv, TypeOK, CollectInv, HasPattern, AtPattern
  <2>2. {k \in DOMAIN patterns[wjob] :
           k < wpos + 1 /\ output[wjob][patterns[wjob][k]] # Missing}
          = FoundBefore(wjob, wpos)
    BY <2>1 DEF FoundBefore, Source
  <2>3. RowsOfFound(wjob, wpos)
    BY <1>2 DEF Skip, AtPattern, ListedSoFar
  <2>4. RowsOfFound(wjob, wpos)'
    BY <2>1, <2>2, <2>3 DEF RowsOfFound, FoundBefore, RowOf
  <2> QED BY <2>4 DEF ListedSoFar
<1>3. CASE InsertRow
  BY <1>3, InsertListed DEF InsertRow, ListedSoFar
<1>4. CASE Return \/ Fail
  BY <1>4 DEF Return, Fail, ListedSoFar
<1>5. CASE StartCopy \/ FinishCopy \/ ReadBack \/ UNCHANGED vars
  <2>1. UNCHANGED <<patterns, output, listing, wjob, wpos>> /\ (wpc' # "idle" => wpc # "idle")
    BY <1>5 DEF StartCopy, AtPattern, FinishCopy, ReadBack, vars, requests
  <2> QED BY <2>1 DEF ListedSoFar, RowsOfFound, FoundBefore, RowOf
<1> QED BY <1>1, <1>2, <1>3, <1>4, <1>5 DEF Next

\* A listing that is complete stays so: the job is never collected again.
LEMMA CompleteStep ==
  ASSUME ArtifactsAssumption, Inv, ListedSoFar, ListingComplete, [Next]_vars
  PROVE  ListingComplete'
<1>1. ASSUME NEW j \in done, UNCHANGED <<patterns[j], output[j], listing[j]>>
      PROVE  RowsOfFound(j, Len(patterns[j]) + 1)'
  BY <1>1 DEF ListingComplete, RowsOfFound, FoundBefore, RowOf
<1>2. ASSUME NEW j \in JobIds, NEW ps \in PatternLists,
             NEW out \in [Patterns -> Contents \cup {Missing}], Begin(j, ps, out)
      PROVE  ListingComplete'
  <2>1. done' = done /\ j \notin done
        /\ \A k \in done : UNCHANGED <<patterns[k], output[k], listing[k]>>
    BY <1>2 DEF Begin, Inv, TypeOK
  <2> QED BY <1>1, <2>1 DEF ListingComplete
<1>3. CASE InsertRow
  <2>1. done' = done /\ wjob \notin done
        /\ \A k \in done : UNCHANGED <<patterns[k], output[k], listing[k]>>
    BY <1>3 DEF InsertRow, requests, Inv, TypeOK, CollectInv, HasPattern
  <2> QED BY <1>1, <2>1 DEF ListingComplete
<1>4. CASE Return
  <2>1. /\ UNCHANGED <<patterns, output, listing>> /\ done' = done \cup {wjob}
        /\ wpos \in Nat /\ patterns[wjob] \in Seq(Patterns) /\ wpos > Len(patterns[wjob])
        /\ RowsOfFound(wjob, wpos)
    BY <1>4 DEF Return, requests, Inv, TypeOK, CollectInv, HasPattern, ListedSoFar
  <2>2. FoundBefore(wjob, wpos) = FoundBefore(wjob, Len(patterns[wjob]) + 1)
    BY <2>1 DEF FoundBefore
  <2>3. RowsOfFound(wjob, Len(patterns[wjob]) + 1)
    BY <2>1, <2>2 DEF RowsOfFound
  <2>4. ASSUME NEW j \in done' PROVE RowsOfFound(j, Len(patterns[j]) + 1)'
    <3>1. RowsOfFound(j, Len(patterns[j]) + 1)
      BY <2>1, <2>3 DEF ListingComplete
    <3>2. patterns' = patterns /\ output' = output /\ listing' = listing
      BY <2>1
    <3> QED BY <3>1, <3>2 DEF RowsOfFound, FoundBefore, RowOf
  <2> QED BY <2>4 DEF ListingComplete
<1>5. CASE Skip \/ StartCopy \/ FinishCopy \/ ReadBack \/ Fail \/ UNCHANGED vars
  <2>1. UNCHANGED <<patterns, output, listing, done>>
    BY <1>5 DEF Skip, StartCopy, FinishCopy, ReadBack, Fail, vars, requests
  <2> QED BY <1>1, <2>1 DEF ListingComplete
<1> QED BY <1>2, <1>3, <1>4, <1>5 DEF Next

\* When a collection has returned, its rows are, in the order of the patterns,
\* those of the patterns that match a file of the build, with that file's content.
THEOREM ArtifactsListingComplete == Spec => []ListingComplete
<1>1. Init => Inv /\ CompleteInv
  BY InvInit, ArtifactsAssumption DEF Init, CompleteInv, CopyIsSource, ListedSoFar, ListingComplete
<1>2. Inv /\ CompleteInv /\ [Next]_vars => CompleteInv'
  BY CopyStep, ListedStep, CompleteStep, ArtifactsAssumption DEF CompleteInv
<1>3. CompleteInv => ListingComplete
  BY DEF CompleteInv
<1>4. TypeOK /\ CollectInv <=> Inv
  BY DEF Inv
<1> QED BY <1>1, <1>2, <1>3, <1>4, ArtifactsInvariant, PTL DEF Spec
=============================================================================
