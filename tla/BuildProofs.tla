----------------------------- MODULE BuildProofs -----------------------------
(***************************************************************************)
(* The inside of a build, for any sources, requests, configurations and    *)
(* outputs.                                                                *)
(***************************************************************************)
EXTENDS Build, SequenceTheorems, FiniteSetTheorems, WellFoundedInduction, TLAPS

-----------------------------------------------------------------------------
\* Refs

\* The smallest of a set of numbers is the one that no other is below.
LEMMA MinIs ==
  ASSUME NEW S, S \subseteq Nat, NEW m \in S, \A n \in S : m <= n
  PROVE  Min(S) = m
<1>1. \E x \in S : \A y \in S : x =< y
  OBVIOUS
<1>2. Min(S) \in S /\ \A y \in S : Min(S) =< y
  BY <1>1, Zenon DEF Min
<1>3. Min(S) =< m /\ m =< Min(S) /\ m \in Nat /\ Min(S) \in Nat
  BY <1>2
<1> QED BY <1>3

\* What the clone of a source holds.
LEMMA CloneHolds ==
  ASSUME GitAssumption, NEW source \in Repository, NEW n \in Branches
  PROVE  LET clone == Clone(source)
         IN  /\ DOMAIN clone \subseteq RefNames
             /\ <<"heads", n>> \in DOMAIN clone <=> n = Default
             /\ <<"origin", n>> \in DOMAIN clone <=> <<"heads", n>> \in DOMAIN source
             /\ <<"tags", n>> \in DOMAIN clone <=> <<"tags", n>> \in DOMAIN source
             /\ clone[<<"heads", Default>>] = source[<<"heads", Default>>]
             /\ <<"heads", n>> \in DOMAIN source =>
                  clone[<<"origin", n>>] = source[<<"heads", n>>]
             /\ <<"tags", n>> \in DOMAIN source =>
                  clone[<<"tags", n>>] = source[<<"tags", n>>]
<1> DEFINE taken == {<<"origin", m>> : m \in {m \in Branches : <<"heads", m>> \in DOMAIN source}}
                    \cup {r \in DOMAIN source : r[1] = "tags"}
                    \cup {<<"heads", Default>>}
           clone == Clone(source)
<1>1. DOMAIN source \subseteq RefNames /\ <<"heads", Default>> \in DOMAIN source
  BY DEF Repository
<1>2. clone = [r \in taken |-> IF r[1] = "origin" THEN source[<<"heads", r[2]>>] ELSE source[r]]
  BY DEF Clone
<1>3. DOMAIN clone = taken
  BY <1>2
<1>4. <<"heads", n>> \in taken <=> n = Default
  BY GitAssumption DEF GitAssumption
<1>5. <<"origin", n>> \in taken <=> <<"heads", n>> \in DOMAIN source
  OBVIOUS
<1>6. <<"tags", n>> \in taken <=> <<"tags", n>> \in DOMAIN source
  OBVIOUS
<1>7. clone[<<"heads", Default>>] = source[<<"heads", Default>>]
  BY <1>2
<1>8. <<"heads", n>> \in DOMAIN source => clone[<<"origin", n>>] = source[<<"heads", n>>]
  BY <1>2, <1>5
<1>9. <<"tags", n>> \in DOMAIN source => clone[<<"tags", n>>] = source[<<"tags", n>>]
  BY <1>2, <1>6
<1>10. taken \subseteq RefNames
  <2>1. \A m \in Branches : <<"origin", m>> \in RefNames /\ <<"heads", m>> \in RefNames
    BY DEF RefNames
  <2>2. {r \in DOMAIN source : r[1] = "tags"} \subseteq RefNames
    BY <1>1
  <2> QED BY <2>1, <2>2, GitAssumption, Zenon DEF GitAssumption
<1> QED BY <1>3, <1>4, <1>5, <1>6, <1>7, <1>8, <1>9, <1>10

\* The clone knows a full name, and HEAD, as the source knows what it stands for.
LEMMA FullNameMeant ==
  ASSUME GitAssumption, NEW source \in Repository, NEW ref \in GitRefs, ref[1] # "short"
  PROVE  LET clone == Clone(source)
         IN  /\ rev_parse(clone, ref) # Unknown
                  => rev_parse(clone, ref) = MeantBy(source, ref)
             /\ MeantBy(source, ref) # Unknown /\ ref[1] # "heads"
                  => rev_parse(clone, ref) # Unknown
<1> DEFINE clone == Clone(source)
<1>1. CASE ref = <<"HEAD">>
  <2>1. ref \notin RefNames /\ ref[1] = "HEAD"
    BY <1>1 DEF RefNames
  <2>2. ref \notin DOMAIN source
    BY <2>1 DEF Repository
  <2>3. ref \notin DOMAIN clone
    BY <2>1, CloneHolds, GitAssumption DEF GitAssumption
  <2>4. rev_parse(clone, ref) = clone[<<"heads", Default>>]
    BY <1>1, <2>1, <2>3 DEF rev_parse
  <2>5. MeantBy(source, ref) = source[<<"heads", Default>>]
    BY <1>1, <2>1, <2>2 DEF rev_parse, MeantBy
  <2> QED BY <2>4, <2>5, CloneHolds, GitAssumption DEF GitAssumption
<1>2. ASSUME NEW k \in {"heads", "tags"}, NEW n \in Branches, ref = <<k, n>>
      PROVE  /\ rev_parse(clone, ref) # Unknown => rev_parse(clone, ref) = MeantBy(source, ref)
             /\ MeantBy(source, ref) # Unknown /\ k = "tags" => rev_parse(clone, ref) # Unknown
  <2>1. rev_parse(clone, ref) = IF ref \in DOMAIN clone THEN clone[ref] ELSE Unknown
    BY <1>2 DEF rev_parse
  <2>2. MeantBy(source, ref) = IF ref \in DOMAIN source THEN source[ref] ELSE Unknown
    BY <1>2 DEF rev_parse, MeantBy
  <2>3. <<"heads", Default>> \in DOMAIN source
    BY DEF Repository
  <2>4. CASE k = "heads"
    BY <1>2, <2>1, <2>2, <2>3, <2>4, CloneHolds
  <2>5. CASE k = "tags"
    BY <1>2, <2>1, <2>2, <2>5, CloneHolds
  <2> QED BY <2>4, <2>5
<1>3. ASSUME NEW n \in Branches, ref = <<"origin", n>>
      PROVE  rev_parse(clone, ref) = MeantBy(source, ref)
  <2>1. rev_parse(clone, ref) = IF ref \in DOMAIN clone THEN clone[ref] ELSE Unknown
    BY <1>3 DEF rev_parse
  <2>2. MeantBy(source, ref) =
          IF <<"heads", n>> \in DOMAIN source THEN source[<<"heads", n>>] ELSE Unknown
    BY <1>3 DEF rev_parse, MeantBy
  <2> QED BY <1>3, <2>1, <2>2, CloneHolds
<1>4. \/ ref = <<"HEAD">>
      \/ \E k \in {"heads", "tags"}, n \in Branches : ref = <<k, n>>
      \/ \E n \in Branches : ref = <<"origin", n>>
  BY DEF GitRefs, RefNames
<1> QED BY <1>1, <1>2, <1>3, <1>4

\* A short name is a tag of the source, else a branch of it.
LEMMA ShortNameMeant ==
  ASSUME GitAssumption, NEW source \in Repository, NEW n \in Branches
  PROVE  LET clone  == Clone(source)
             meant  == MeantBy(source, <<"short", n>>)
             origin == rev_parse(clone, <<"origin", n>>)
         IN  IF <<"tags", n>> \in DOMAIN clone \/ n = Default
             THEN rev_parse(clone, <<"short", n>>) = meant /\ meant # Unknown
             ELSE /\ rev_parse(clone, <<"short", n>>) = Unknown
                  /\ origin = meant
                  /\ rev_parse(clone, <<"heads", n>>) = Unknown
                  /\ rev_parse(clone, <<"tags", n>>) = Unknown
<1> DEFINE clone == Clone(source)
<1>1. <<"heads", Default>> \in DOMAIN source
  BY DEF Repository
<1>2. <<"short", n>> \notin DOMAIN source
  BY DEF Repository, RefNames
<1>3. <<"short", n>> \notin DOMAIN clone
  BY <1>1 DEF Clone, Repository
<1>4. MeantBy(source, <<"short", n>>) =
        IF <<"tags", n>> \in DOMAIN source THEN source[<<"tags", n>>]
        ELSE IF <<"heads", n>> \in DOMAIN source THEN source[<<"heads", n>>]
        ELSE Unknown
  BY <1>2 DEF MeantBy, rev_parse
<1>5. rev_parse(clone, <<"short", n>>) =
        IF <<"tags", n>> \in DOMAIN clone THEN clone[<<"tags", n>>]
        ELSE IF <<"heads", n>> \in DOMAIN clone THEN clone[<<"heads", n>>]
        ELSE Unknown
  BY <1>3 DEF rev_parse
<1>6. ASSUME NEW k \in {"heads", "tags", "origin"}
      PROVE  rev_parse(clone, <<k, n>>) =
               IF <<k, n>> \in DOMAIN clone THEN clone[<<k, n>>] ELSE Unknown
  BY DEF rev_parse
<1>7. \A r \in DOMAIN source : source[r] # Unknown
  BY GitAssumption DEF Repository, GitAssumption
<1> QED BY <1>1, <1>4, <1>5, <1>6, <1>7, CloneHolds
\* Whatever resolve_commit finds is what is meant, and it finds it unless it is
\* a full refs/heads/ name.
LEMMA ResolveMeant ==
  ASSUME GitAssumption, NEW source \in Repository, NEW ref \in GitRefs
  PROVE  LET found == resolve_commit(Clone(source), ref)
         IN  /\ found # Unknown => found = MeantBy(source, ref)
             /\ MeantBy(source, ref) # Unknown /\ ref[1] # "heads" => found # Unknown
<1> DEFINE clone == Clone(source)
           C == candidates(ref)
           known == {i \in DOMAIN C : rev_parse(clone, C[i]) # Unknown}
<1>1. resolve_commit(clone, ref) =
        IF known = {} THEN Unknown ELSE rev_parse(clone, C[Min(known)])
  BY DEF resolve_commit
<1>2. ASSUME NEW i \in known, \A k \in known : i <= k, known \subseteq Nat
      PROVE  resolve_commit(clone, ref) = rev_parse(clone, C[i])
  <2> HIDE DEF known, C
  <2>1. known # {} /\ Min(known) = i
    BY <1>2, MinIs
  <2> QED BY <1>1, <2>1
<1>3. CASE ref[1] # "short"
  <2>1. C = <<ref>>
    BY <1>3 DEF candidates
  <2>2. DOMAIN C = {1} /\ C[1] = ref
    BY <2>1
  <2>3. resolve_commit(clone, ref) = rev_parse(clone, ref)
    <3>1. CASE rev_parse(clone, ref) # Unknown
      <4>1. known = {1}
        BY <2>2, <3>1
      <4> QED BY <1>2, <2>2, <4>1
    <3>2. CASE rev_parse(clone, ref) = Unknown
      <4>1. known = {}
        BY <2>2, <3>2
      <4> QED BY <1>1, <3>2, <4>1
    <3> QED BY <3>1, <3>2
  <2> QED BY <1>3, <2>3, FullNameMeant
<1>4. ASSUME NEW n \in Branches, ref = <<"short", n>>
      PROVE  resolve_commit(clone, ref) = MeantBy(source, ref)
  <2>1. C = <<ref, <<"origin", n>>, <<"heads", n>>, <<"tags", n>>>>
    BY <1>4 DEF candidates
  <2>2. /\ DOMAIN C = {1, 2, 3, 4}
        /\ C[1] = ref /\ C[2] = <<"origin", n>>
        /\ C[3] = <<"heads", n>> /\ C[4] = <<"tags", n>>
    BY <2>1
  <2>3. CASE rev_parse(clone, ref) # Unknown
    <3>1. 1 \in known /\ known \subseteq {1, 2, 3, 4}
      BY <2>2, <2>3
    <3>2. resolve_commit(clone, ref) = rev_parse(clone, ref)
      <4> HIDE DEF known, C
      <4> QED BY <1>2, <2>2, <3>1
    <3> QED BY <1>4, <2>3, <3>2, ShortNameMeant
  <2>4. CASE rev_parse(clone, ref) = Unknown /\ rev_parse(clone, <<"origin", n>>) # Unknown
    <3>1. 2 \in known /\ known \subseteq {2, 3, 4}
      BY <2>2, <2>4
    <3>2. resolve_commit(clone, ref) = rev_parse(clone, <<"origin", n>>)
      <4> HIDE DEF known, C
      <4> QED BY <1>2, <2>2, <3>1
    <3>3. <<"tags", n>> \notin DOMAIN clone /\ n # Default
      BY <1>4, <2>4, ShortNameMeant
    <3> QED BY <1>4, <3>2, <3>3, ShortNameMeant
  <2>5. CASE rev_parse(clone, ref) = Unknown /\ rev_parse(clone, <<"origin", n>>) = Unknown
    <3>1. <<"tags", n>> \notin DOMAIN clone /\ n # Default
      BY <1>4, <2>5, ShortNameMeant
    <3>2. MeantBy(source, ref) = Unknown /\ \A i \in {1, 2, 3, 4} : rev_parse(clone, C[i]) = Unknown
      <4> HIDE DEF C
      <4> QED BY <1>4, <2>2, <2>5, <3>1, ShortNameMeant
    <3>3. known = {}
      BY <2>2, <3>2
    <3> QED BY <1>1, <3>2, <3>3
  <2> QED BY <2>3, <2>4, <2>5
<1>5. ref[1] = "short" => \E n \in Branches : ref = <<"short", n>>
  BY DEF GitRefs, RefNames
<1> QED BY <1>3, <1>4, <1>5
-----------------------------------------------------------------------------
\* Runtimes and fragments

\* The runtime that is detected under a valid configuration is one that the
\* configuration allows.
LEMMA DetectedAllowed ==
  ASSUME NEW c \in Config, validate(c), NEW installed \in SUBSET Programs,
         detect_runtime(c, installed) # "none"
  PROVE  /\ detect_runtime(c, installed) \in Kinds
         /\ Allowed(detect_runtime(c, installed), c)
<1> DEFINE k == detect_runtime(c, installed)
<1>1. c.preference \in Preference /\ c.enable_host_native \in BOOLEAN
  BY DEF Config
<1>2. CASE c.preference = "HostNative"
  BY <1>2 DEF detect_runtime, validate, Allowed, Kinds
<1>3. CASE c.preference = "Podman"
  BY <1>3 DEF detect_runtime, Allowed, Kinds
<1>4. CASE c.preference = "Docker"
  BY <1>4 DEF detect_runtime, Allowed, Kinds
<1>5. CASE c.preference = "Auto"
  BY <1>5 DEF detect_runtime, Allowed, Kinds
<1> QED BY <1>1, <1>2, <1>3, <1>4, <1>5 DEF Preference

\* A path that goes up once at most, and only after it has gone down, never leads out.
LEMMA InsideIfDown ==
  ASSUME NEW path \in Seq(Component), NEW n \in DOMAIN path, NEW up \in 1 .. n,
         \A i \in 1 .. n : path[i] = ".." => i = up,
         \E i \in 1 .. n : path[i] = "d"
  PROVE  Inside(path, n)
<1> DEFINE ups == {i \in 1 .. n : path[i] = ".."}
           downs == {i \in 1 .. n : path[i] = "d"}
<1>1. n \in Nat /\ ups \subseteq {up} /\ downs \subseteq 1 .. n
  OBVIOUS
<1>2. PICK i \in 1 .. n : i \in downs
  OBVIOUS
<1>3. IsFiniteSet(downs) /\ {i} \subseteq downs
  <2>1. IsFiniteSet(1 .. n)
    BY <1>1, FS_Interval
  <2> HIDE DEF downs
  <2> QED BY <1>1, <1>2, <2>1, FS_Subset
<1> HIDE DEF ups, downs
<1>4. Cardinality({i}) = 1 /\ Cardinality({up}) = 1 /\ IsFiniteSet({up})
  BY FS_Singleton
<1>5. Cardinality(downs) \in Nat /\ 1 <= Cardinality(downs)
  BY <1>3, <1>4, FS_Subset, FS_CardinalityType
<1>6. Cardinality(ups) \in Nat /\ Cardinality(ups) <= 1
  <2>1. \A T \in SUBSET {up} : IsFiniteSet(T) /\ Cardinality(T) <= Cardinality({up})
    BY <1>4, FS_Subset
  <2> QED BY <1>1, <1>4, <2>1, FS_CardinalityType
<1>7. Cardinality(ups) <= Cardinality(downs)
  BY <1>5, <1>6
<1> QED BY <1>7 DEF Inside, ups, downs

\* Nor does one that does not go up.
LEMMA InsideIfNotUp ==
  ASSUME NEW path \in Seq(Component), NEW n \in DOMAIN path,
         \A i \in 1 .. n : path[i] # ".."
  PROVE  Inside(path, n)
<1> DEFINE ups == {i \in 1 .. n : path[i] = ".."}
           downs == {i \in 1 .. n : path[i] = "d"}
<1>1. n \in Nat /\ ups = {} /\ downs \subseteq 1 .. n
  OBVIOUS
<1>2. IsFiniteSet(downs)
  <2>1. IsFiniteSet(1 .. n)
    BY <1>1, FS_Interval
  <2> HIDE DEF downs
  <2> QED BY <1>1, <2>1, FS_Subset
<1> HIDE DEF ups, downs
<1>3. Cardinality(ups) = 0 /\ Cardinality(downs) \in Nat
  BY <1>1, <1>2, FS_EmptySet, FS_CardinalityType
<1>4. Cardinality(ups) <= Cardinality(downs)
  BY <1>3
<1> QED BY <1>4 DEF Inside, ups, downs

\* A relative path that passes leads out at its last step at most.
LEMMA RelativeInside ==
  ASSUME NEW path \in Seq(Component), stays_inside(path, DOMAIN path), NEW n \in DOMAIN path
  PROVE  Inside(path, n) \/ (n = Len(path) /\ path[n] = "..")
<1>1. PICK m \in Nat : m = Len(path) /\ DOMAIN path = 1 .. m
  OBVIOUS
<1>2. ASSUME NEW i \in 1 .. m, path[i] = ".." PROVE i = m
  <2>1. i \in DOMAIN path /\ m \in DOMAIN path /\ ~(i < m)
    BY <1>1, <1>2 DEF stays_inside
  <2> QED BY <1>1, <2>1
<1>3. n \in 1 .. m
  BY <1>1
<1>4. CASE n = m /\ path[n] = ".."
  BY <1>1, <1>4
<1>5. CASE ~(n = m /\ path[n] = "..")
  <2>1. ASSUME NEW i \in 1 .. n, path[i] = ".." PROVE FALSE
    <3>1. i \in 1 .. m /\ i <= n
      BY <1>3
    <3>2. i = m
      BY <1>2, <2>1, <3>1
    <3> QED BY <1>3, <1>5, <2>1, <3>1, <3>2
  <2> QED BY <2>1, InsideIfNotUp
<1> QED BY <1>4, <1>5

\* An absolute path that passes never leads out: if it goes up, strip_prefix has left
\* something in front, which is not a way up.
LEMMA AbsoluteInside ==
  ASSUME NEW path \in Seq(Component), stays_inside(path, strip_prefix(path)),
         NEW n \in DOMAIN path
  PROVE  Inside(path, n)
<1> DEFINE parts == strip_prefix(path)
<1>1. /\ Len(path) \in Nat /\ DOMAIN path = 1 .. Len(path)
      /\ \A i \in DOMAIN path : path[i] \in Component
  OBVIOUS
<1>2. \A i \in DOMAIN path : path[i] = ".." => i \in parts
  BY <1>1 DEF strip_prefix
<1>3. \A i \in DOMAIN path : path[i] = ".." =>
        parts # {i} /\ \A k \in parts : k <= i
  <2>1. \A k \in parts : k \in Nat
    BY <1>1 DEF strip_prefix
  <2> HIDE DEF parts
  <2>2. ~\E i \in parts : path[i] = ".." /\ (parts = {i} \/ \E k \in parts : i < k)
    BY Zenon DEF stays_inside, parts
  <2> SUFFICES ASSUME NEW i \in DOMAIN path, path[i] = ".."
               PROVE  parts # {i} /\ \A k \in parts : k <= i
    OBVIOUS
  <2>3. i \in parts
    BY <1>2 DEF parts
  <2>4. parts # {i} /\ ~\E k \in parts : i < k
    BY <2>2, <2>3
  <2> QED BY <2>1, <2>3, <2>4
<1>4. CASE \A i \in 1 .. n : path[i] # ".."
  BY <1>4, InsideIfNotUp
<1>5. ASSUME NEW up \in 1 .. n, path[up] = ".." PROVE Inside(path, n)
  <2>1. up \in DOMAIN path /\ up \in parts
    BY <1>1, <1>2, <1>5
  <2>2. PICK k \in parts : k # up /\ k < up
    <3>1. \A k \in parts : k \in Nat
      BY <1>1 DEF strip_prefix
    <3> HIDE DEF parts
    <3>2. PICK k \in parts : k # up
      BY <1>3, <1>5, <2>1
    <3>3. k <= up
      BY <1>3, <1>5, <2>1
    <3> QED BY <3>1, <3>2, <3>3
  <2>3. PICK h \in DOMAIN path : h <= k /\ path[h] # "."
    BY <2>2 DEF strip_prefix
  <2>4. h \in 1 .. n /\ h < up /\ k \in DOMAIN path
    BY <1>1, <2>2, <2>3 DEF strip_prefix
  <2>5. path[h] # ".."
    BY <1>1, <1>3, <2>1, <2>3, <2>4
  <2>6. path[h] = "d"
    BY <1>1, <2>3, <2>5 DEF Component
  <2>7. \A i \in 1 .. n : path[i] = ".." => i = up
    BY <1>1, <1>2, <1>3, <1>5, <2>1
  <2> QED BY <2>4, <2>6, <2>7, InsideIfDown
<1> QED BY <1>4, <1>5

-----------------------------------------------------------------------------
\* The log

\* What is taken from the head of the buffer and put behind the log leaves the
\* two of them together as they were.
LEMMA Drained ==
  ASSUME NEW l \in Seq(Byte), NEW b \in Seq(Byte), NEW n \in 1 .. Len(b)
  PROVE  /\ l \o SubSeq(b, 1, n) \in Seq(Byte)
         /\ SubSeq(b, n + 1, Len(b)) \in Seq(Byte)
         /\ (l \o SubSeq(b, 1, n)) \o SubSeq(b, n + 1, Len(b)) = l \o b
<1>1. SubSeq(b, 1, n) \in Seq(Byte) /\ SubSeq(b, n + 1, Len(b)) \in Seq(Byte)
  OBVIOUS
<1>2. SubSeq(b, 1, n) \o SubSeq(b, n + 1, Len(b)) = SubSeq(b, 1, Len(b))
  BY ConcatAdjacentSubSeq
<1>3. SubSeq(b, 1, Len(b)) = b
  BY SubSeqFull
<1>4. (l \o SubSeq(b, 1, n)) \o SubSeq(b, n + 1, Len(b)) =
        l \o (SubSeq(b, 1, n) \o SubSeq(b, n + 1, Len(b)))
  <2>1. ASSUME NEW t \in Seq(Byte), NEW u \in Seq(Byte)
        PROVE  (l \o t) \o u = l \o (t \o u)
    <3> HIDE DEF Byte
    <3> QED BY ConcatAssociative, SMTT(30)
  <2> QED BY <1>1, <2>1, Zenon
<1>5. l \o SubSeq(b, 1, n) \in Seq(Byte)
  BY <1>1, ConcatProperties
<1> QED BY <1>1, <1>2, <1>3, <1>4, <1>5

\* A log that something is put behind begins as it was.
LEMMA Longer ==
  ASSUME NEW l \in Seq(Byte), NEW b \in Seq(Byte)
  PROVE  Len(l \o b) >= Len(l) /\ SubSeq(l \o b, 1, Len(l)) = l
  OBVIOUS
-----------------------------------------------------------------------------
\* Induction, with a set in the place of a predicate

\* A set that has n + 1 whenever it has n, and has 0, has all numbers.
LEMMA NatInductive ==
  ASSUME NEW S, 0 \in S, \A n \in Nat : n \in S => n + 1 \in S
  PROVE  Nat \subseteq S
<1> DEFINE T == {n \in Nat : n \notin S}
           R == OpToRel(<, Nat)
<1>1. IsWellFoundedOn(R, Nat)
  BY NatLessThanWellFounded
<1>2. ASSUME NEW m \in Nat, NEW n \in Nat, m < n
      PROVE  <<m, n>> \in R
  BY <1>2, Zenon DEF OpToRel
<1> HIDE DEF R
<1> SUFFICES ASSUME T # {} PROVE FALSE
  OBVIOUS
<1>3. PICK x \in T : \A y \in T : <<y, x>> \notin R
  <2>1. T \subseteq Nat
    OBVIOUS
  <2> HIDE DEF T
  <2> QED BY <1>1, <2>1, WFMin
<1>4. x # 0 /\ x \in Nat /\ x - 1 \in Nat
  BY <1>3
<1>5. x - 1 \in T
  BY <1>4
<1>6. <<x - 1, x>> \in R
  BY <1>2, <1>4
<1> QED BY <1>3, <1>5, <1>6

\* The same from the end of a sequence of length n to its beginning.
LEMMA DownInductive ==
  ASSUME NEW n \in Nat, NEW G, n + 1 \in G,
         \A i \in 1 .. n : (\A k \in i + 1 .. n + 1 : k \in G) => i \in G
  PROVE  1 .. n + 1 \subseteq G
<1> DEFINE S == {k \in Nat : \A i \in 1 .. n + 1 : n + 1 - k <= i => i \in G}
<1>1. 0 \in S
  OBVIOUS
<1>2. ASSUME NEW k \in Nat, k \in S PROVE k + 1 \in S
  <2> SUFFICES ASSUME NEW i \in 1 .. n + 1, n + 1 - (k + 1) <= i PROVE i \in G
    OBVIOUS
  <2>1. \A m \in i + 1 .. n + 1 : m \in G
    BY <1>2
  <2> QED BY <2>1
<1>3. Nat \subseteq S
  <2> HIDE DEF S
  <2> QED BY <1>1, <1>2, NatInductive
<1>4. n \in S
  BY <1>3
<1> QED BY <1>4

-----------------------------------------------------------------------------
\* Texts

\* What the text from the i-th byte on is, if f is what it is from any later one.
TextStep(bytes, f, i) ==
  IF i = Len(bytes) + 1 THEN << >>
  ELSE LET rest == SubSeq(bytes, i, Len(bytes))
       IN  <<CharOf(rest)>> \o f[i + Width(rest)]

\* The text from each byte on.
Text(bytes) == CHOOSE f : f = [i \in 1 .. Len(bytes) + 1 |-> TextStep(bytes, f, i)]

\* At the head of some bytes is a whole character of one to four, or as much as three
\* bytes that are none; whatever comes behind the first one is a continuation byte.
LEMMA HeadOf ==
  ASSUME NEW rest \in Seq(Byte), Len(rest) >= 1
  PROVE  /\ Width(rest) \in 1 .. 4 /\ Width(rest) <= Len(rest)
         /\ CharOf(rest) \in Char
         /\ \/ Len(CharOf(rest)) = Width(rest)
            \/ CharOf(rest) = Replacement /\ Width(rest) <= 3
         /\ \A k \in 2 .. Width(rest) : rest[k] \in Continuation
         /\ rest[1] \in Continuation => Width(rest) = 1 /\ CharOf(rest) = Replacement
<1> DEFINE w == Width(rest)
           l == Length(rest[1])
<1>1. Len(rest) \in Nat /\ rest[1] \in Byte
  OBVIOUS
<1>2. l \in 0 .. 4 /\ (rest[1] \in Continuation => l = 0)
  BY <1>1 DEF Byte, Continuation, Length
<1>3. w \in 1 .. 4 /\ w <= Len(rest) /\ (w # 1 => Fits(rest, w))
  BY <1>1 DEF Width, Fits
<1>4. \A k : Follows(rest[1], k) \subseteq Continuation
  BY DEF Follows, Continuation
<1>5. w # 1 => w <= l /\ \A k \in 2 .. w : rest[k] \in Continuation
  BY <1>3, <1>4 DEF Fits
<1>6. w = 4 => l = 4
  BY <1>2, <1>5
<1>7. CharOf(rest) = IF w = l THEN SubSeq(rest, 1, w) ELSE Replacement
  BY DEF CharOf
<1> HIDE DEF w, l
<1>8. SubSeq(rest, 1, w) \in Char /\ Len(SubSeq(rest, 1, w)) = w
  <2>1. SubSeq(rest, 1, w) \in Seq(Byte) /\ Len(SubSeq(rest, 1, w)) = w
    BY <1>1, <1>3, SubSeqProperties
  <2> QED BY <1>3, <2>1 DEF Char
<1>9. Replacement \in Char
  BY DEF Replacement, Char
<1>10. \A k \in 2 .. w : rest[k] \in Continuation
  BY <1>3, <1>5
<1>11. rest[1] \in Continuation => w = 1 /\ CharOf(rest) = Replacement
  BY <1>2, <1>3, <1>5, <1>7
<1>12. CharOf(rest) \in Char /\ (Len(CharOf(rest)) = w \/ (CharOf(rest) = Replacement /\ w <= 3))
  BY <1>3, <1>6, <1>7, <1>8, <1>9
<1> QED BY <1>3, <1>10, <1>11, <1>12 DEF w

\* How many bytes from the i-th on make a character, and which.
LEMMA CharAt ==
  ASSUME NEW bytes \in Seq(Byte), NEW i \in 1 .. Len(bytes)
  PROVE  LET n    == Len(bytes)
             rest == SubSeq(bytes, i, n)
             w    == Width(rest)
         IN  /\ w \in 1 .. 4 /\ i + w <= n + 1
             /\ CharOf(rest) \in Char
             /\ Len(CharOf(rest)) = w \/ (CharOf(rest) = Replacement /\ w <= 3)
             /\ \A k \in i + 1 .. i + w - 1 : bytes[k] \in Continuation
             /\ bytes[i] \in Continuation => w = 1 /\ CharOf(rest) = Replacement
<1> DEFINE n == Len(bytes)
           rest == SubSeq(bytes, i, n)
           w == Width(rest)
<1>1. /\ rest \in Seq(Byte) /\ Len(rest) = n - i + 1 /\ n \in Nat /\ i \in Nat
      /\ \A k \in 1 .. n - i + 1 : rest[k] = bytes[i + k - 1]
  BY SubSeqProperties
<1>2. Len(rest) >= 1 /\ rest[1] = bytes[i]
  BY <1>1
<1> HIDE DEF rest
<1>3. /\ w \in 1 .. 4 /\ w <= Len(rest) /\ CharOf(rest) \in Char
      /\ Len(CharOf(rest)) = w \/ (CharOf(rest) = Replacement /\ w <= 3)
      /\ \A k \in 2 .. w : rest[k] \in Continuation
      /\ rest[1] \in Continuation => w = 1 /\ CharOf(rest) = Replacement
  BY <1>1, <1>2, HeadOf
<1> HIDE DEF w
<1>4. i + w <= n + 1
  BY <1>1, <1>3
<1>5. \A k \in i + 1 .. i + w - 1 : bytes[k] \in Continuation
  <2> SUFFICES ASSUME NEW k \in i + 1 .. i + w - 1 PROVE bytes[k] \in Continuation
    OBVIOUS
  <2>1. /\ k - i + 1 \in 2 .. w /\ k - i + 1 \in 1 .. n - i + 1
        /\ i + (k - i + 1) - 1 = k
    BY <1>1, <1>3, <1>4
  <2> QED BY <1>1, <1>3, <2>1
<1> QED BY <1>2, <1>3, <1>4, <1>5 DEF rest, w

\* There is a text: the recursion of from_utf8_lossy ends.
LEMMA TextIs ==
  ASSUME NEW bytes \in Seq(Byte)
  PROVE  /\ Text(bytes) = [i \in 1 .. Len(bytes) + 1 |-> TextStep(bytes, Text(bytes), i)]
         /\ from_utf8_lossy(bytes) = Text(bytes)[1]
<1> DEFINE n == Len(bytes)
           Part(i) == \E f : f = [k \in i .. n + 1 |-> TextStep(bytes, f, k)]
           G == {i \in 1 .. n + 1 : Part(i)}
<1>1. n \in Nat
  OBVIOUS
<1>2. n + 1 \in G
  <2> DEFINE f == [k \in n + 1 .. n + 1 |-> << >>]
  <2>1. f = [k \in n + 1 .. n + 1 |-> TextStep(bytes, f, k)]
    BY <1>1 DEF TextStep
  <2> HIDE DEF f
  <2>2. Part(n + 1)
    BY <2>1, Zenon
  <2> QED BY <1>1, <2>2
<1>3. ASSUME NEW i \in 1 .. n, \A k \in i + 1 .. n + 1 : k \in G PROVE i \in G
  <2>1. Part(i + 1)
    <3>1. i + 1 \in i + 1 .. n + 1
      BY <1>1
    <3> QED BY <1>3, <3>1
  <2>2. PICK f : f = [k \in i + 1 .. n + 1 |-> TextStep(bytes, f, k)]
    BY <2>1, Zenon
  <2> DEFINE g == [k \in i .. n + 1 |-> IF k = i THEN TextStep(bytes, f, i) ELSE f[k]]
  <2>3. ASSUME NEW k \in i .. n + 1
        PROVE  g[k] = TextStep(bytes, g, k)
    <3>1. \A m \in i + 1 .. n + 1 : g[m] = f[m]
      BY <1>1
    <3>2. CASE k = n + 1
      BY <1>1, <2>2, <3>2 DEF TextStep
    <3>3. CASE k \in i .. n
      <4> DEFINE w == Width(SubSeq(bytes, k, n))
      <4>1. k + w \in i + 1 .. n + 1
        <5>1. k \in 1 .. n /\ k \in Nat /\ i \in Nat
          BY <1>1, <3>3
        <5>2. w \in 1 .. 4 /\ k + w <= n + 1
          BY <5>1, CharAt
        <5> HIDE DEF w
        <5> QED BY <1>1, <3>3, <5>1, <5>2
      <4>2. g[k + w] = f[k + w]
        BY <3>1, <4>1
      <4>3. TextStep(bytes, g, k) = TextStep(bytes, f, k)
        BY <4>2 DEF TextStep
      <4>4. g[k] = TextStep(bytes, f, k)
        BY <1>1, <2>2, <3>1
      <4> QED BY <4>3, <4>4
    <3> QED BY <1>1, <3>2, <3>3
  <2>4. g = [k \in i .. n + 1 |-> TextStep(bytes, g, k)]
    <3>1. \A k \in i .. n + 1 : g[k] = TextStep(bytes, g, k)
      BY <2>3
    <3>2. DOMAIN g = i .. n + 1
      OBVIOUS
    <3> QED BY <3>1, <3>2
  <2> HIDE DEF g
  <2>5. Part(i)
    BY <2>4, Zenon
  <2> QED BY <1>1, <2>5
<1>4. 1 .. n + 1 \subseteq G
  <2> HIDE DEF G
  <2> QED BY <1>1, <1>2, <1>3, DownInductive
<1>5. Part(1)
  BY <1>1, <1>4
<1>6. Text(bytes) = [i \in 1 .. n + 1 |-> TextStep(bytes, Text(bytes), i)]
  BY <1>5, Zenon DEF Text
<1>7. from_utf8_lossy(bytes) = Text(bytes)[1]
  BY Zenon DEF from_utf8_lossy, Text, TextStep
<1> QED BY <1>6, <1>7
\* The text from a byte on is a character and the text that comes after it.
LEMMA TextFrom ==
  ASSUME NEW bytes \in Seq(Byte)
  PROVE  /\ Text(bytes)[Len(bytes) + 1] = << >>
         /\ \A i \in 1 .. Len(bytes) :
              LET rest == SubSeq(bytes, i, Len(bytes))
              IN  Text(bytes)[i] = <<CharOf(rest)>> \o Text(bytes)[i + Width(rest)]
         /\ \A i \in 1 .. Len(bytes) + 1 : Text(bytes)[i] \in Seq(Char)
<1> DEFINE n == Len(bytes)
           f == Text(bytes)
           rest(i) == SubSeq(bytes, i, n)
           G == {i \in 1 .. n + 1 : f[i] \in Seq(Char)}
<1>1. n \in Nat
  OBVIOUS
<1>2. \A i \in 1 .. n + 1 : f[i] = TextStep(bytes, f, i)
  <2> HIDE DEF f
  <2> SUFFICES f = [i \in 1 .. n + 1 |-> TextStep(bytes, f, i)]
    OBVIOUS
  <2> QED BY TextIs DEF f
<1>3. f[n + 1] = << >>
  <2> HIDE DEF f
  <2>1. n + 1 \in 1 .. n + 1
    BY <1>1
  <2>2. TextStep(bytes, f, n + 1) = << >>
    BY DEF TextStep
  <2> QED BY <1>2, <2>1, <2>2
<1>4. ASSUME NEW i \in 1 .. n
      PROVE  f[i] = <<CharOf(rest(i))>> \o f[i + Width(rest(i))]
  <2> HIDE DEF f
  <2>1. i \in 1 .. n + 1 /\ i # n + 1
    BY <1>1
  <2>2. TextStep(bytes, f, i) = <<CharOf(rest(i))>> \o f[i + Width(rest(i))]
    BY <2>1, Zenon DEF TextStep
  <2> QED BY <1>2, <2>1, <2>2
<1>5. n + 1 \in G
  <2> HIDE DEF f
  <2>1. n + 1 \in 1 .. n + 1 /\ << >> \in Seq(Char)
    BY <1>1, EmptySeq
  <2> QED BY <1>3, <2>1
<1>6. ASSUME NEW i \in 1 .. n, \A k \in i + 1 .. n + 1 : k \in G PROVE i \in G
  <2> DEFINE w == Width(rest(i))
             ch == CharOf(rest(i))
  <2>1. w \in 1 .. 4 /\ i + w <= n + 1 /\ ch \in Char
    BY CharAt
  <2>2. f[i] = <<ch>> \o f[i + w]
    BY <1>4
  <2> HIDE DEF w, ch
  <2>3. i + w \in i + 1 .. n + 1
    BY <1>1, <2>1
  <2>4. f[i + w] \in Seq(Char)
    BY <1>6, <2>3
  <2>5. f[i] \in Seq(Char)
    BY <2>1, <2>2, <2>4
  <2> QED BY <1>1, <2>5
<1>7. 1 .. n + 1 \subseteq G
  <2> HIDE DEF G
  <2> QED BY <1>1, <1>5, <1>6, DownInductive
<1> QED BY <1>3, <1>4, <1>7

\* The text of the bytes from the p-th on, taken by themselves, is the text from
\* the p-th byte on.
LEMMA TextOfRest ==
  ASSUME NEW bytes \in Seq(Byte), NEW p \in 1 .. Len(bytes) + 1
  PROVE  from_utf8_lossy(SubSeq(bytes, p, Len(bytes))) = Text(bytes)[p]
<1> DEFINE n == Len(bytes)
           b == SubSeq(bytes, p, n)
           m == Len(b)
           G == {i \in 1 .. m + 1 : Text(b)[i] = Text(bytes)[p + i - 1]}
<1>1. n \in Nat /\ b \in Seq(Byte) /\ m = n - p + 1 /\ m \in Nat
  BY SubSeqProperties
<1>2. m + 1 \in G
  <2>1. Text(b)[m + 1] = << >>
    BY <1>1, TextFrom
  <2>2. Text(bytes)[n + 1] = << >> /\ p + (m + 1) - 1 = n + 1
    BY <1>1, TextFrom
  <2> QED BY <1>1, <2>1, <2>2
<1>3. ASSUME NEW i \in 1 .. m, \A k \in i + 1 .. m + 1 : k \in G PROVE i \in G
  <2> DEFINE q == p + i - 1
             rest == SubSeq(bytes, q, n)
             w == Width(rest)
  <2>1. q \in 1 .. n
    BY <1>1
  <2>2. SubSeq(b, i, m) = rest
    BY <1>1
  <2>3. Text(b)[i] = <<CharOf(rest)>> \o Text(b)[i + w]
    BY <1>1, <2>2, TextFrom
  <2>4. Text(bytes)[q] = <<CharOf(rest)>> \o Text(bytes)[q + w]
    BY <2>1, TextFrom
  <2>5. w \in 1 .. 4 /\ q + w <= n + 1
    BY <2>1, CharAt
  <2>6. i \in 1 .. m + 1 /\ p \in Nat /\ i \in Nat
    BY <1>1
  <2> HIDE DEF w, b, rest
  <2>7. i + w \in i + 1 .. m + 1
    BY <1>1, <2>1, <2>5
  <2>8. Text(b)[i + w] = Text(bytes)[p + (i + w) - 1]
    BY <1>3, <2>7
  <2>9. p + (i + w) - 1 = q + w
    BY <1>1, <2>5, <2>6
  <2>10. Text(b)[i] = Text(bytes)[q]
    BY <2>3, <2>4, <2>8, <2>9, Zenon
  <2> QED BY <2>6, <2>10
<1>4. 1 .. m + 1 \subseteq G
  <2> HIDE DEF G, b
  <2> QED BY <1>1, <1>2, <1>3, DownInductive
<1>5. Text(b)[1] = Text(bytes)[p]
  <2> HIDE DEF b
  <2>1. 1 \in G
    <3> HIDE DEF G
    <3> QED BY <1>1, <1>4
  <2>2. p + 1 - 1 = p
    OBVIOUS
  <2> QED BY <2>1, <2>2
<1>6. from_utf8_lossy(b) = Text(b)[1]
  BY <1>1, TextIs
<1> QED BY <1>5, <1>6
-----------------------------------------------------------------------------
\* Sizes

\* A character in front of a text counts once, among those of its length.
LEMMA CountFront ==
  ASSUME NEW t \in Seq(Char), NEW a \in Char, NEW c
  PROVE  /\ Count(t, c) \in Nat
         /\ Count(<<a>> \o t, c) = Count(t, c) + (IF Len(a) = c THEN 1 ELSE 0)
<1> DEFINE n == Len(t)
           S == {i \in 1 .. n : Len(t[i]) = c}
           U == {i \in 1 .. n + 1 : Len((<<a>> \o t)[i]) = c}
           V == U \ {1}
           next == [i \in S |-> i + 1]
<1>1. n \in Nat /\ Count(t, c) = Cardinality(S)
  <2>1. DOMAIN t = 1 .. n /\ n \in Nat
    OBVIOUS
  <2> QED BY <2>1, Zenon DEF Count
<1>2. /\ Count(<<a>> \o t, c) = Cardinality(U)
      /\ (<<a>> \o t)[1] = a
      /\ \A i \in 1 .. n : (<<a>> \o t)[i + 1] = t[i]
  <2>1. DOMAIN (<<a>> \o t) = 1 .. n + 1
    OBVIOUS
  <2>2. Count(<<a>> \o t, c) = Cardinality(U)
    BY <2>1, Zenon DEF Count
  <2>3. (<<a>> \o t)[1] = a /\ \A i \in 1 .. n : (<<a>> \o t)[i + 1] = t[i]
    OBVIOUS
  <2> QED BY <2>2, <2>3
<1>3. IsFiniteSet(S) /\ IsFiniteSet(V) /\ Cardinality(S) \in Nat
  <2>1. IsFiniteSet(1 .. n) /\ IsFiniteSet(1 .. n + 1)
    BY <1>1, FS_Interval
  <2>2. S \subseteq 1 .. n /\ V \subseteq 1 .. n + 1
    OBVIOUS
  <2> HIDE DEF S, V
  <2> QED BY <2>1, <2>2, FS_Subset, FS_CardinalityType
<1>4. next \in Bijection(S, V)
  <2>1. \A i \in S : i + 1 \in V
    BY <1>1, <1>2
  <2>2. \A k \in V : k - 1 \in S
    BY <1>1, <1>2
  <2>3. \A i \in S : i \in Nat
    BY <1>1
  <2>4. \A k \in V : k \in Nat
    BY <1>1
  <2> HIDE DEF S, V
  <2>5. next \in [S -> V]
    BY <2>1
  <2>6. \A i, k \in S : next[i] = next[k] => i = k
    BY <2>3
  <2>7. \A k \in V : \E i \in S : next[i] = k
    <3> SUFFICES ASSUME NEW k \in V PROVE \E i \in S : next[i] = k
      OBVIOUS
    <3>1. k - 1 \in S /\ next[k - 1] = k
      BY <2>2, <2>4
    <3> QED BY <3>1
  <2> HIDE DEF next
  <2> QED BY <2>5, <2>6, <2>7 DEF Bijection, Injection, Surjection, IsInjective
<1>5. Cardinality(V) = Cardinality(S)
  <2>1. ExistsBijection(S, V)
    BY <1>4, Zenon DEF ExistsBijection
  <2> QED BY <1>3, <2>1, FS_Bijection
<1>6. U = IF Len(a) = c THEN V \cup {1} ELSE V
  BY <1>1, <1>2
<1>7. Cardinality(V \cup {1}) = Cardinality(V) + 1
  <2> HIDE DEF U
  <2>1. 1 \notin V
    OBVIOUS
  <2> HIDE DEF V
  <2> QED BY <1>3, <2>1, FS_AddElement
<1> HIDE DEF S, U, V
<1> QED BY <1>1, <1>2, <1>3, <1>5, <1>6, <1>7

\* A character in front of a text makes it longer by what it takes.
LEMMA SizeFront ==
  ASSUME NEW t \in Seq(Char), NEW a \in Char, NEW r \in {1, 3}
  PROVE  /\ Size(t, r) \in Nat
         /\ Size(<<a>> \o t, r) = Size(t, r) + (IF Len(a) = 0 THEN r ELSE Len(a))
<1> DEFINE u == <<a>> \o t
<1>1. \A c : /\ Count(t, c) \in Nat
             /\ Count(u, c) = Count(t, c) + (IF Len(a) = c THEN 1 ELSE 0)
  BY CountFront
<1>2. PICK l \in 0 .. 4 : l = Len(a)
  <2>1. Len(a) \in Nat /\ Len(a) <= 4
    BY LenProperties DEF Char
  <2>2. \A n \in Nat : n <= 4 => n \in 0 .. 4
    OBVIOUS
  <2> QED BY <2>1, <2>2, Zenon
<1> HIDE DEF u
<1>3. PICK c0, c1, c2, c3, c4 \in Nat :
        /\ c0 = Count(t, 0) /\ c1 = Count(t, 1) /\ c2 = Count(t, 2)
        /\ c3 = Count(t, 3) /\ c4 = Count(t, 4)
  BY <1>1
<1>4. Size(t, r) = c1 + 2 * c2 + 3 * c3 + 4 * c4 + r * c0
  BY <1>3 DEF Size
<1>5. PICK e0, e1, e2, e3, e4 \in {0, 1} :
        /\ e0 = (IF l = 0 THEN 1 ELSE 0) /\ e1 = (IF l = 1 THEN 1 ELSE 0)
        /\ e2 = (IF l = 2 THEN 1 ELSE 0) /\ e3 = (IF l = 3 THEN 1 ELSE 0)
        /\ e4 = (IF l = 4 THEN 1 ELSE 0)
  OBVIOUS
<1>6. /\ Count(u, 0) = c0 + e0 /\ Count(u, 1) = c1 + e1 /\ Count(u, 2) = c2 + e2
      /\ Count(u, 3) = c3 + e3 /\ Count(u, 4) = c4 + e4
  BY <1>1, <1>2, <1>3, <1>5
<1>7. Size(u, r) = (c1 + e1) + 2 * (c2 + e2) + 3 * (c3 + e3) + 4 * (c4 + e4) + r * (c0 + e0)
  BY <1>6 DEF Size
<1>8. e1 + 2 * e2 + 3 * e3 + 4 * e4 = l /\ e0 = (IF l = 0 THEN 1 ELSE 0)
  BY <1>5
<1>9. CASE r = 1
  <2>1. /\ Size(t, 1) = c1 + 2 * c2 + 3 * c3 + 4 * c4 + c0
        /\ Size(u, 1) = (c1 + e1) + 2 * (c2 + e2) + 3 * (c3 + e3) + 4 * (c4 + e4) + (c0 + e0)
    BY <1>4, <1>7, <1>9
  <2>2. Size(t, 1) \in Nat /\ Size(u, 1) = Size(t, 1) + l + e0
    BY <1>8, <2>1
  <2> QED BY <1>2, <1>8, <1>9, <2>2 DEF u
<1>10. CASE r = 3
  <2>1. /\ Size(t, 3) = c1 + 2 * c2 + 3 * c3 + 4 * c4 + 3 * c0
        /\ Size(u, 3) = (c1 + e1) + 2 * (c2 + e2) + 3 * (c3 + e3) + 4 * (c4 + e4)
                           + 3 * (c0 + e0)
    BY <1>4, <1>7, <1>10
  <2>2. Size(t, 3) \in Nat /\ Size(u, 3) = Size(t, 3) + l + 3 * e0
    BY <1>8, <2>1
  <2> QED BY <1>2, <1>8, <1>10, <2>2 DEF u
<1> QED BY <1>9, <1>10

\* The text from a byte on is not longer than the bytes from there on, and not
\* shorter if a replacement character counts three.
LEMMA TextSize ==
  ASSUME NEW bytes \in Seq(Byte), NEW p \in 1 .. Len(bytes) + 1
  PROVE  /\ Size(Text(bytes)[p], 1) \in Nat /\ Size(Text(bytes)[p], 3) \in Nat
         /\ Size(Text(bytes)[p], 1) <= Len(bytes) + 1 - p
         /\ Size(Text(bytes)[p], 3) >= Len(bytes) + 1 - p
<1> DEFINE n == Len(bytes)
           f == Text(bytes)
           Sized(i) == /\ Size(f[i], 1) \in Nat /\ Size(f[i], 3) \in Nat
                      /\ Size(f[i], 1) <= n + 1 - i /\ Size(f[i], 3) >= n + 1 - i
           G == {i \in 1 .. n + 1 : Sized(i)}
<1>1. n \in Nat
  OBVIOUS
<1>2. n + 1 \in G
  <2>1. f[n + 1] = << >>
    BY TextFrom
  <2>2. \A c : {i \in DOMAIN << >> : Len(<< >>[i]) = c} = {}
    OBVIOUS
  <2>3. \A c : Count(<< >>, c) = 0
    BY <2>2, FS_EmptySet, Zenon DEF Count
  <2>4. Size(f[n + 1], 1) = 0 /\ Size(f[n + 1], 3) = 0
    BY <2>1, <2>3 DEF Size
  <2> HIDE DEF f
  <2> QED BY <1>1, <2>4
<1>3. ASSUME NEW i \in 1 .. n, \A k \in i + 1 .. n + 1 : k \in G PROVE i \in G
  <2> DEFINE rest == SubSeq(bytes, i, n)
             w == Width(rest)
             ch == CharOf(rest)
  <2>1. /\ w \in 1 .. 4 /\ i + w <= n + 1 /\ ch \in Char
        /\ Len(ch) = w \/ (ch = Replacement /\ w <= 3)
    BY CharAt
  <2>2. f[i] = <<ch>> \o f[i + w]
    BY TextFrom
  <2> HIDE DEF w, ch
  <2>3. i + w \in i + 1 .. n + 1
    BY <1>1, <2>1
  <2>4. Sized(i + w)
    BY <1>3, <2>3
  <2>5. f[i + w] \in Seq(Char)
    BY <1>1, <2>3, TextFrom
  <2> HIDE DEF f
  <2>6. Sized(i)
    <3>0. PICK c \in 0 .. 4 : c = Len(ch) /\ (c = w \/ (c = 0 /\ w <= 3))
      <4>1. Len(Replacement) = 0
        BY DEF Replacement
      <4>2. CASE Len(ch) = w
        BY <2>1, <4>2
      <4>3. CASE ch = Replacement /\ w <= 3
        BY <4>1, <4>3
      <4> QED BY <2>1, <4>2, <4>3
    <3>1. /\ Size(f[i], 1) = Size(f[i + w], 1) + (IF c = 0 THEN 1 ELSE c)
          /\ Size(f[i], 3) = Size(f[i + w], 3) + (IF c = 0 THEN 3 ELSE c)
      BY <2>1, <2>2, <2>5, <3>0, SizeFront
    <3>2. PICK s, l \in Nat : s = Size(f[i + w], 1) /\ l = Size(f[i + w], 3)
      BY <2>4
    <3>3. s <= n + 1 - (i + w) /\ l >= n + 1 - (i + w)
      BY <2>4, <3>2
    <3>4. PICK m \in Nat : m = n + 1 - i /\ w <= m /\ n + 1 - (i + w) = m - w
      BY <1>1, <2>1
    <3>5. CASE c = 0
      <4>1. Size(f[i], 1) = s + 1 /\ Size(f[i], 3) = l + 3
        BY <3>1, <3>2, <3>5
      <4>2. s + 1 <= m /\ l + 3 >= m
        BY <2>1, <3>0, <3>3, <3>4, <3>5
      <4> QED BY <3>4, <4>1, <4>2
    <3>6. CASE c # 0
      <4>1. Size(f[i], 1) = s + w /\ Size(f[i], 3) = l + w
        BY <3>0, <3>1, <3>2, <3>6
      <4>2. s + w <= m /\ l + w >= m
        BY <2>1, <3>3, <3>4
      <4> QED BY <2>1, <3>4, <4>1, <4>2
    <3> QED BY <3>5, <3>6
  <2> QED BY <1>1, <2>6
<1>4. 1 .. n + 1 \subseteq G
  <2> HIDE DEF G
  <2> QED BY <1>1, <1>2, <1>3, DownInductive
<1>5. p \in G
  <2> HIDE DEF G
  <2> QED BY <1>4
<1> QED BY <1>5
-----------------------------------------------------------------------------
\* Ends

\* A text is the end of another but for a cut character.
EndOf(t, whole, cut) ==
  /\ cut <= Len(t)
  /\ \A i \in 1 .. cut : t[i] = Replacement
  /\ Len(t) - cut <= Len(whole)
  /\ SubSeq(t, cut + 1, Len(t)) =
       SubSeq(whole, Len(whole) - (Len(t) - cut) + 1, Len(whole))

\* The end of a text is still its end when a character is put in front.
LEMMA EndFront ==
  ASSUME NEW t \in Seq(Char), NEW whole \in Seq(Char), NEW a \in Char,
         NEW cut \in 0 .. 3, EndOf(t, whole, cut)
  PROVE  EndOf(t, <<a>> \o whole, cut)
<1> DEFINE long == <<a>> \o whole
           l == Len(whole) - (Len(t) - cut) + 1
<1>1. /\ long \in Seq(Char) /\ Len(long) = Len(whole) + 1
      /\ \A i \in 1 .. Len(whole) : long[i + 1] = whole[i]
  OBVIOUS
<1>2. Len(t) \in Nat /\ Len(whole) \in Nat /\ l \in 1 .. Len(whole) + 1
  BY DEF EndOf
<1>3. SubSeq(long, l + 1, Len(long)) = SubSeq(whole, l, Len(whole))
  BY <1>1, <1>2
<1>4. Len(long) - (Len(t) - cut) + 1 = l + 1
  BY <1>1, <1>2
<1>5. cut <= Len(t) /\ Len(t) - cut <= Len(long)
  BY <1>1, <1>2 DEF EndOf
<1>6. SubSeq(t, cut + 1, Len(t)) = SubSeq(long, Len(long) - (Len(t) - cut) + 1, Len(long))
  BY <1>3, <1>4 DEF EndOf
<1>7. \A i \in 1 .. cut : t[i] = Replacement
  BY DEF EndOf
<1> HIDE DEF long
<1>8. EndOf(t, long, cut)
  BY <1>5, <1>6, <1>7 DEF EndOf
<1> QED BY <1>8 DEF long

\* A text is its own end, and so it is with up to three replacement characters.
LEMMA EndMarked ==
  ASSUME NEW t \in Seq(Char)
  PROVE  LET r == <<Replacement>>
         IN  /\ EndOf(t, t, 0)
             /\ EndOf(r \o t, t, 1)
             /\ EndOf(r \o (r \o t), t, 2)
             /\ EndOf(r \o (r \o (r \o t)), t, 3)
<1>1. Len(t) \in Nat /\ SubSeq(t, 1, Len(t)) = t
  BY SubSeqFull
<1> DEFINE t1 == <<Replacement>> \o t
           t2 == <<Replacement>> \o t1
           t3 == <<Replacement>> \o t2
<1>2. Replacement \in Char
  BY DEF Replacement, Char
<1>3. /\ t1 \in Seq(Char) /\ Len(t1) = Len(t) + 1 /\ t1[1] = Replacement
      /\ \A i \in 1 .. Len(t) : t1[i + 1] = t[i]
  BY <1>2
<1> HIDE DEF t1
<1>4. /\ t2 \in Seq(Char) /\ Len(t2) = Len(t) + 2
      /\ t2[1] = Replacement /\ t2[2] = Replacement
      /\ \A i \in 1 .. Len(t) : t2[i + 2] = t[i]
  BY <1>2, <1>3
<1> HIDE DEF t2
<1>5. /\ t3 \in Seq(Char) /\ Len(t3) = Len(t) + 3
      /\ t3[1] = Replacement /\ t3[2] = Replacement /\ t3[3] = Replacement
      /\ \A i \in 1 .. Len(t) : t3[i + 3] = t[i]
  BY <1>2, <1>4
<1> HIDE DEF t3
<1>6. SubSeq(t1, 2, Len(t1)) = t /\ SubSeq(t2, 3, Len(t2)) = t /\ SubSeq(t3, 4, Len(t3)) = t
  BY <1>1, <1>3, <1>4, <1>5
<1>7. EndOf(t, t, 0)
  BY <1>1 DEF EndOf
<1>8. EndOf(t1, t, 1)
  BY <1>1, <1>3, <1>6 DEF EndOf
<1>9. EndOf(t2, t, 2)
  BY <1>1, <1>4, <1>6 DEF EndOf
<1>10. EndOf(t3, t, 3)
  BY <1>1, <1>5, <1>6 DEF EndOf
<1> QED BY <1>7, <1>8, <1>9, <1>10 DEF t1, t2, t3

\* The text from a byte on is the end of the text from any earlier one.
LEMMA TextEnds ==
  ASSUME NEW bytes \in Seq(Byte), NEW p \in 1 .. Len(bytes) + 1
  PROVE  \E cut \in 0 .. 3 : EndOf(Text(bytes)[p], Text(bytes)[1], cut)
<1> DEFINE n == Len(bytes)
           f == Text(bytes)
           Ends(k, i) == \E cut \in 0 .. 3 : EndOf(f[k], f[i], cut)
           G == {i \in 1 .. n + 1 : \A k \in i .. n + 1 : Ends(k, i)}
<1>1. n \in Nat /\ \A i \in 1 .. n + 1 : f[i] \in Seq(Char) /\ Ends(i, i)
  <2>1. \A i \in 1 .. n + 1 : f[i] \in Seq(Char)
    BY TextFrom
  <2> HIDE DEF f
  <2> QED BY <2>1, EndMarked
<1>2. n + 1 \in G
  <2> HIDE DEF f
  <2>1. \A k \in n + 1 .. n + 1 : k = n + 1
    BY <1>1
  <2> HIDE DEF Ends
  <2> QED BY <1>1, <2>1
<1>3. ASSUME NEW i \in 1 .. n, \A k \in i + 1 .. n + 1 : k \in G PROVE i \in G
  <2> DEFINE w(m) == Width(SubSeq(bytes, m, n))
             ch(m) == CharOf(SubSeq(bytes, m, n))
  <2>1. \A m \in 1 .. n :
          /\ w(m) \in 1 .. 4 /\ m + w(m) <= n + 1 /\ ch(m) \in Char
          /\ \A k \in m + 1 .. m + w(m) - 1 : bytes[k] \in Continuation
          /\ bytes[m] \in Continuation => w(m) = 1 /\ ch(m) = Replacement
    BY CharAt
  <2>2. \A m \in 1 .. n : f[m] = <<ch(m)>> \o f[m + w(m)]
    BY TextFrom
  <2> HIDE DEF w, ch, f
  <2> DEFINE next == i + w(i)
  <2>3. /\ next \in i + 1 .. n + 1 /\ next \in 1 .. n + 1 /\ i \in Nat
        /\ next \in Nat /\ next <= i + 4
    <3>1. w(i) \in 1 .. 4 /\ i + w(i) <= n + 1
      BY <2>1
    <3> QED BY <1>1, <3>1
  <2>4. f[i] = <<ch(i)>> \o f[next] /\ ch(i) \in Char
    BY <2>1, <2>2
  <2>5. \A k \in i + 1 .. next - 1 : bytes[k] \in Continuation
    BY <2>1
  <2> HIDE DEF next
  <2>6. ASSUME NEW k \in i .. n + 1, NEW cut \in 0 .. 3, EndOf(f[k], f[next], cut)
        PROVE  Ends(k, i)
    <3>1. f[k] \in Seq(Char) /\ f[next] \in Seq(Char)
      BY <1>1, <2>3
    <3> QED BY <2>4, <2>6, <3>1, EndFront
  <2>7. ASSUME NEW k \in i + 1 .. next - 1
        PROVE  k \in 1 .. n /\ f[k] = <<Replacement>> \o f[k + 1]
    <3>1. k \in 1 .. n /\ k \in Nat
      BY <1>1, <2>1, <2>3
    <3>2. bytes[k] \in Continuation
      BY <2>5
    <3> QED BY <2>1, <2>2, <3>1, <3>2
  <2>8. SUFFICES ASSUME NEW k \in i .. n + 1 PROVE Ends(k, i)
    BY <1>1
  <2>9. CASE k = i
    BY <1>1, <2>3, <2>9
  <2>10. CASE k \in next .. n + 1
    <3>1. Ends(k, next)
      BY <1>3, <2>3, <2>10
    <3> QED BY <2>6, <3>1
  <2>11. CASE k = next - 1 /\ k # i
    <3>1. f[k] = <<Replacement>> \o f[next] /\ f[next] \in Seq(Char)
      BY <1>1, <2>3, <2>7, <2>11
    <3>2. EndOf(f[k], f[next], 1)
      BY <3>1, EndMarked
    <3> QED BY <2>6, <3>2
  <2>12. CASE k = next - 2 /\ k # i
    <3>1. f[k] = <<Replacement>> \o f[k + 1] /\ f[k + 1] = <<Replacement>> \o f[next]
      BY <1>1, <2>3, <2>7, <2>12
    <3>2. f[next] \in Seq(Char)
      BY <1>1, <2>3
    <3>3. EndOf(f[k], f[next], 2)
      BY <3>1, <3>2, EndMarked
    <3> QED BY <2>6, <3>3
  <2>13. CASE k = next - 3 /\ k # i
    <3>1. /\ f[k] = <<Replacement>> \o f[k + 1] /\ f[k + 1] = <<Replacement>> \o f[k + 2]
          /\ f[k + 2] = <<Replacement>> \o f[next]
      <4>1. /\ k \in i + 1 .. next - 1 /\ k + 1 \in i + 1 .. next - 1
            /\ k + 2 \in i + 1 .. next - 1
            /\ (k + 1) + 1 = k + 2 /\ (k + 2) + 1 = next
        BY <1>1, <2>3, <2>13
      <4> QED BY <2>7, <4>1
    <3>2. f[next] \in Seq(Char)
      BY <1>1, <2>3
    <3>3. EndOf(f[k], f[next], 3)
      BY <3>1, <3>2, EndMarked
    <3> QED BY <2>6, <3>3
  <2> QED BY <1>1, <2>1, <2>3, <2>8, <2>9, <2>10, <2>11, <2>12, <2>13
<1>4. 1 .. n + 1 \subseteq G
  <2> HIDE DEF G
  <2> QED BY <1>1, <1>2, <1>3, DownInductive
<1>5. 1 \in G
  <2> HIDE DEF G
  <2> QED BY <1>1, <1>4
<1> QED BY <1>5

\* Whatever bytes a log has, cut anywhere, and whatever the limit, tail_log gives
\* the end of what the log says.
THEOREM TailOfAnyLog ==
  ASSUME NEW bytes \in Seq(Byte), NEW max_bytes \in Nat
  PROVE  IsTail(bytes, max_bytes, tail_log(bytes, max_bytes))
<1> DEFINE n == Len(bytes)
           start == IF n > max_bytes THEN n - max_bytes ELSE 0
           tail == tail_log(bytes, max_bytes)
           whole == from_utf8_lossy(bytes)
<1>1. n \in Nat /\ start + 1 \in 1 .. n + 1
  OBVIOUS
<1>2. tail.text = Text(bytes)[start + 1] /\ (tail.truncated <=> n > max_bytes)
  <2>1. tail.text = from_utf8_lossy(SubSeq(bytes, start + 1, n))
    BY DEF tail_log
  <2>2. tail.truncated <=> n > max_bytes
    BY Zenon DEF tail_log
  <2> HIDE DEF start
  <2> QED BY <1>1, <2>1, <2>2, TextOfRest
<1> HIDE DEF tail
<1>3. whole = Text(bytes)[1]
  BY TextIs
<1>4. \E cut \in 0 .. 3 : EndOf(tail.text, whole, cut)
  BY <1>1, <1>2, <1>3, TextEnds
<1>5. /\ Size(tail.text, 1) \in Nat /\ Size(tail.text, 3) \in Nat
      /\ Size(tail.text, 1) <= n - start /\ Size(tail.text, 3) >= n - start
  <2>1. n + 1 - (start + 1) = n - start
    BY <1>1
  <2> HIDE DEF start
  <2> QED BY <1>1, <1>2, <2>1, TextSize
<1>6. ~tail.truncated => tail.text = whole
  <2>1. ~(n > max_bytes) => start + 1 = 1
    OBVIOUS
  <2> HIDE DEF start, whole
  <2> QED BY <1>2, <1>3, <2>1
<1>7. Size(tail.text, 1) <= max_bytes /\ (tail.truncated => Size(tail.text, 3) >= max_bytes)
  <2>1. Size(tail.text, 1) <= max_bytes
    BY <1>1, <1>5
  <2>2. n > max_bytes => Size(tail.text, 3) >= max_bytes
    BY <1>1, <1>5
  <2> QED BY <1>2, <2>1, <2>2
<1> QED BY <1>4, <1>6, <1>7 DEF IsTail, EndOf, tail

-----------------------------------------------------------------------------
\* Types

\* What a build has written are bytes.
LEMMA OutputTyped ==
  ASSUME BuildAssumption, NEW o \in Outputs
  PROVE  /\ o.stdout \in Seq(Byte) /\ o.stderr \in Seq(Byte)
         /\ o.stdout \o o.stderr \in Seq(Byte)
<1>1. o \in Output
  BY DEF BuildAssumption
<1>2. o.stdout \in Seq(Byte) /\ o.stderr \in Seq(Byte)
  BY <1>1 DEF Output
<1> QED BY <1>2, ConcatProperties

\* A rev-parse in a clone finds a commit or nothing.
LEMMA ResolveTyped ==
  ASSUME GitAssumption, NEW source \in Repository, NEW ref \in GitRefs
  PROVE  resolve_commit(Clone(source), ref) \in Commits \cup {Unknown}
<1>1. MeantBy(source, ref) \in Commits \cup {Unknown}
  <2>1. <<"heads", Default>> \in DOMAIN source /\ \A r \in DOMAIN source : source[r] \in Commits
    BY DEF Repository
  <2>2. ASSUME NEW r \in GitRefs
        PROVE  rev_parse(source, r) \in Commits \cup {Unknown}
    <3>1. DOMAIN source \subseteq RefNames
      BY DEF Repository
    <3>2. CASE r = <<"HEAD">>
      <4>1. r \notin RefNames /\ r[1] = "HEAD"
        BY <3>2 DEF RefNames
      <4> QED BY <2>1, <3>1, <3>2, <4>1 DEF rev_parse
    <3>3. CASE r # <<"HEAD">> /\ r \in RefNames
      BY <2>1, <3>3 DEF rev_parse, RefNames
    <3>4. ASSUME NEW n \in Branches, r = <<"short", n>>
          PROVE  rev_parse(source, r) \in Commits \cup {Unknown}
      <4>1. r \notin DOMAIN source
        BY <3>1, <3>4 DEF RefNames
      <4> QED BY <2>1, <3>4, <4>1 DEF rev_parse
    <3> QED BY <3>2, <3>3, <3>4 DEF GitRefs
  <2>3. ref[1] = "origin" => <<"heads", ref[2]>> \in GitRefs
    BY DEF GitRefs, RefNames
  <2> QED BY <2>2, <2>3 DEF MeantBy
<1> QED BY <1>1, ResolveMeant

\* The initial states are type correct.
LEMMA TypeInit ==
  ASSUME BuildAssumption, Init
  PROVE  TypeOK
  BY EmptySeq DEF BuildAssumption, Init, TypeOK, JobStates, WorkerPC, NoRequest, NoWorkspace, NotStarted

\* A daemon that is gone leaves everything typed.
LEMMA GoneTyped ==
  ASSUME TypeOK, Gone, UNCHANGED <<jobs, ws, child, output, log, under>>,
         faults' \in 0 .. MaxFaults
  PROVE  TypeOK'
  BY DEF TypeOK, Gone, WorkerPC
\* A statement that sets a state keeps the rows typed.
LEMMA SetStateTyped ==
  ASSUME TypeOK, NEW j \in JobIds, NEW state \in JobStates, SetState(j, state)
  PROVE  jobs' \in [JobIds -> [state : JobStates, request : Requests \cup {<< >>}]]
<1>1. jobs[j] \in [state : JobStates, request : Requests \cup {<< >>}]
  BY DEF TypeOK
<1>2. [jobs[j] EXCEPT !.state = state] \in
        [state : JobStates, request : Requests \cup {<< >>}]
  BY <1>1
<1>3. jobs' = [jobs EXCEPT ![j] = [jobs[j] EXCEPT !.state = state]]
  BY DEF SetState
<1> QED BY <1>2, <1>3 DEF TypeOK

\* One step of anything keeps the types.
LEMMA TypeStep ==
  ASSUME GitAssumption, BuildAssumption, TypeOK, BuildInv, [Next]_vars
  PROVE  TypeOK'
<1> USE DEF TypeOK, BuildInv
<1>1. /\ job # NoJob => job \in JobIds
      /\ pc \in {"clone", "checkout", "script", "spawn", "wait", "create", "stdout",
                 "stderr", "flush", "report"} => job \in JobIds
  BY Zenon DEF WorkerInv
<1>2. ASSUME Fail PROVE TypeOK'
  BY <1>2, GoneTyped DEF Fail, jobVars
<1>3. ASSUME NEW j \in JobIds, Enqueue(j) PROVE TypeOK'
  BY <1>3 DEF Enqueue, JobStates, daemonVars, fileVars
<1>4. ASSUME NEW j \in JobIds, Select(j) PROVE TypeOK'
  BY <1>1, <1>4, SetStateTyped DEF Select, JobStates, WorkerPC, daemonVars, fileVars
<1>5. ASSUME NEW j \in JobIds, ChildEnds(j) PROVE TypeOK'
  <2>1. output' \in [JobIds -> Outputs \cup {NoOutput}] /\ pc' \in WorkerPC
    <3>1. CASE pc = "wait" /\ job = j
      BY <1>5, <3>1 DEF ChildEnds, WorkerPC
    <3>2. CASE ~(pc = "wait" /\ job = j)
      BY <1>5, <3>2, Zenon DEF ChildEnds
    <3> QED BY <3>1, <3>2
  <2>2. child' \in [JobIds -> {"none", "running", "gone"}]
    BY <1>5 DEF ChildEnds
  <2> QED BY <1>5, <2>1, <2>2 DEF ChildEnds, jobVars, daemonVars, fileVars
<1>6. CASE Load
  BY <1>6 DEF Load, WorkerPC, jobVars, fileVars
<1>7. CASE Die
  <2>1. faults' \in 0 .. MaxFaults
    BY <1>7, BuildAssumption DEF Die, BuildAssumption
  <2> QED BY <1>7, <2>1, GoneTyped DEF Die
<1>8. CASE Detect
  <2>1. PICK installed \in SUBSET Programs :
          IF detect_runtime(conf, installed) = "none" THEN Fail
          ELSE /\ kind' = detect_runtime(conf, installed)
               /\ pc' = "select"
               /\ UNCHANGED <<jobVars, job, conf, ws, child, output, fileVars, under>>
    BY <1>8 DEF Detect
  <2>2. conf \in Config /\ validate(conf)
    BY <1>8, BuildAssumption DEF Detect, WorkerInv, BuildAssumption
  <2>3. CASE detect_runtime(conf, installed) # "none"
    <3>1. kind' \in Kinds
      BY <2>1, <2>2, <2>3, DetectedAllowed
    <3> QED BY <2>1, <2>3, <3>1 DEF WorkerPC, jobVars, fileVars
  <2> QED BY <1>2, <2>1, <2>3
<1>9. CASE Sleep
  BY <1>9 DEF Sleep, vars
<1>10. CASE CloneSource
  BY <1>1, <1>10 DEF CloneSource, WorkerPC, jobVars, daemonVars, fileVars
<1>11. CASE Checkout
  <2> DEFINE commit == resolve_commit(ws[job].refs, RequestOf(job).git_ref)
  <2>1. pc = "checkout" /\ job \in JobIds
    BY <1>1, <1>11 DEF Checkout
  <2>2. /\ ws[job].from \in Repository /\ ws[job].refs = Clone(ws[job].from)
        /\ RequestOf(job).git_ref \in GitRefs
    BY <2>1, BuildAssumption
      DEF WorkerInv, WorkspaceInv, RowsInv, RequestOf, BuildAssumption, Request
  <2>3. commit \in Commits \cup {Unknown}
    BY <2>2, ResolveTyped
  <2>4. CASE commit # Unknown
    <3>1. /\ ws' = [ws EXCEPT ![job].commit = commit] /\ pc' = "script"
          /\ UNCHANGED <<jobVars, job, daemonVars, child, output, fileVars, under>>
      BY <1>11, <2>4 DEF Checkout
    <3> HIDE DEF commit
    <3> DEFINE from == Sources \cup {<< >>}
               refs == {Clone(source) : source \in Sources} \cup {<< >>}
               Workspace == [from : from, refs : refs, commit : Commits \cup {Unknown}]
    <3>2. ws \in [JobIds -> Workspace]
      OBVIOUS
    <3> HIDE DEF from, refs
    <3>3. ws' \in [JobIds -> Workspace]
      <4>1. ws[job] \in Workspace
        BY <2>1, <3>2
      <4>2. [ws[job] EXCEPT !.commit = commit] \in Workspace
        BY <2>3, <4>1
      <4> HIDE DEF Workspace
      <4> QED BY <2>1, <3>1, <3>2, <4>2
    <3> USE DEF from, refs
    <3> QED BY <3>1, <3>3 DEF WorkerPC, jobVars, daemonVars, fileVars
  <2> QED BY <1>2, <1>11, <2>4 DEF Checkout
<1>12. CASE BuildScript
  BY <1>1, <1>2, <1>12, SetStateTyped DEF BuildScript, JobStates, WorkerPC, daemonVars, fileVars
<1>13. CASE StartChild
  BY <1>1, <1>13 DEF StartChild, WorkerPC, jobVars, daemonVars, fileVars
<1>14. CASE CreateLog
  BY <1>1, <1>14, EmptySeq DEF CreateLog, WorkerPC, jobVars, daemonVars
<1>15. CASE WriteStdout
  BY <1>15, OutputTyped DEF FileInv, WriteStdout, Take, WorkerPC, jobVars, daemonVars
<1>16. CASE WriteStderr
  BY <1>16, OutputTyped DEF FileInv, WriteStderr, Take, WorkerPC, jobVars, daemonVars
<1>17. CASE Drain
  <2>1. PICK n \in 1 .. Len(buffer) :
          /\ log' = [log EXCEPT ![job] = @ \o SubSeq(buffer, 1, n)]
          /\ buffer' = SubSeq(buffer, n + 1, Len(buffer))
    BY <1>17 DEF Drain
  <2>2. job \in JobIds /\ log[job] \in Seq(Byte)
    BY <1>1, <1>17 DEF Drain, FileInv
  <2>3. buffer' \in Seq(Byte) /\ log[job] \o SubSeq(buffer, 1, n) \in Seq(Byte)
    BY <2>1, <2>2, Drained
  <2> QED BY <1>17, <2>1, <2>2, <2>3 DEF Drain, jobVars, daemonVars
<1>18. CASE Flush
  BY <1>18 DEF Flush, WorkerPC, jobVars, daemonVars, fileVars
<1>19. CASE Report
  BY <1>1, <1>19, SetStateTyped DEF Report, JobStates, WorkerPC, daemonVars, fileVars
<1>20. CASE UNCHANGED vars
  BY <1>20 DEF vars
<1> QED
  BY <1>3, <1>4, <1>5, <1>6, <1>7, <1>8, <1>9, <1>10, <1>11, <1>12, <1>13, <1>14,
     <1>15, <1>16, <1>17, <1>18, <1>19, <1>20 DEF Next
-----------------------------------------------------------------------------
\* The inductive invariant

Inv == TypeOK /\ BuildInv

\* The initial states satisfy the invariant.
LEMMA InvInit ==
  ASSUME BuildAssumption, Init
  PROVE  Inv
<1>1. TypeOK
  BY TypeInit
<1>2. WorkerInv /\ RowsInv /\ WorkspaceInv /\ FileInv
  BY DEF BuildAssumption, Init, WorkerInv, RowsInv, WorkspaceInv, FileInv,
         NoRequest, NoWorkspace, NotStarted
<1>3. BuildsWhatIsMeant /\ LogWhenOver /\ BuildsWhereAllowed
  BY DEF Init, BuildsWhatIsMeant, LogWhenOver, BuildsWhereAllowed, Allowed,
         NoRequest, NoWorkspace, NotStarted
<1> QED BY <1>1, <1>2, <1>3 DEF Inv, BuildInv

\* The job that is in hand, and what its row says then.
LEMMA InHand ==
  ASSUME BuildAssumption, TypeOK, WorkerInv, pc \notin {"off", "detect", "select"}
  PROVE  /\ job \in JobIds /\ conf \in Config /\ validate(conf)
         /\ kind \in Kinds /\ Allowed(kind, conf)
         /\ jobs[job].state =
              IF pc \in {"clone", "checkout", "script"} THEN "preparing" ELSE "running"
<1>1. job \in JobIds
  BY Zenon DEF TypeOK, WorkerInv
<1> QED BY <1>1 DEF BuildAssumption, TypeOK, WorkerInv, WorkerPC

\* The end of a child reaches the worker that waits for it, or nobody.
LEMMA Ending ==
  ASSUME NEW j, ChildEnds(j)
  PROVE  \/ /\ pc = "wait" /\ job = j /\ pc' = "create"
            /\ \E o \in Outputs : output' = [output EXCEPT ![j] = o]
         \/ /\ ~(pc = "wait" /\ job = j)
            /\ pc' = pc /\ output' = output
<1>1. CASE pc = "wait" /\ job = j
  BY <1>1, Zenon DEF ChildEnds
<1>2. CASE ~(pc = "wait" /\ job = j)
  BY <1>2, Zenon DEF ChildEnds
<1> QED BY <1>1, <1>2

\* Every step keeps what the worker knows of its row, configuration and runtime.
LEMMA WorkerStep ==
  ASSUME BuildAssumption, Inv, TypeOK', [Next]_vars
  PROVE  WorkerInv'
<1> USE DEF Inv, BuildInv
<1>1. ASSUME Gone PROVE WorkerInv'
  BY <1>1 DEF Gone, WorkerInv
<1>2. ASSUME NEW j \in JobIds, Enqueue(j) PROVE WorkerInv'
  BY <1>2, InHand DEF Enqueue, TypeOK, WorkerInv, daemonVars
<1>3. ASSUME NEW j \in JobIds, Select(j) PROVE WorkerInv'
  BY <1>3, BuildAssumption DEF Select, SetState, TypeOK, WorkerInv, daemonVars, BuildAssumption
<1>4. ASSUME NEW j \in JobIds, ChildEnds(j) PROVE WorkerInv'
  <2>1. pc' = pc \/ (pc = "wait" /\ pc' = "create")
    BY <1>4, Ending, Zenon
  <2> QED BY <1>4, <2>1, Zenon DEF ChildEnds, WorkerInv, jobVars, daemonVars
<1>5. CASE Load
  BY <1>5 DEF Load, WorkerInv, jobVars
<1>6. CASE Detect
  <2>1. PICK installed \in SUBSET Programs :
          IF detect_runtime(conf, installed) = "none" THEN Fail
          ELSE /\ kind' = detect_runtime(conf, installed)
               /\ pc' = "select"
               /\ UNCHANGED <<jobVars, job, conf, ws, child, output, fileVars, under>>
    BY <1>6 DEF Detect
  <2>2. conf \in Config /\ validate(conf)
    BY <1>6, BuildAssumption DEF Detect, TypeOK, WorkerInv, BuildAssumption
  <2>3. CASE detect_runtime(conf, installed) # "none"
    <3>1. kind' \in Kinds /\ Allowed(kind', conf)
      BY <2>1, <2>2, <2>3, DetectedAllowed
    <3> QED BY <1>6, <2>1, <2>3, <3>1 DEF Detect, WorkerInv, jobVars
  <2> QED BY <1>1, <2>1, <2>3 DEF Fail
<1>7. CASE CloneSource
  BY <1>7 DEF CloneSource, WorkerInv, jobVars, daemonVars
<1>8. CASE Checkout
  BY <1>1, <1>8 DEF Checkout, Fail, WorkerInv, jobVars, daemonVars
<1>9. CASE BuildScript
  BY <1>1, <1>9, InHand DEF BuildScript, Fail, SetState, TypeOK, WorkerInv, daemonVars
<1>10. CASE StartChild
  BY <1>10 DEF StartChild, WorkerInv, jobVars, daemonVars
<1>11. CASE CreateLog
  BY <1>11 DEF CreateLog, WorkerInv, jobVars, daemonVars
<1>12. CASE WriteStdout \/ WriteStderr
  BY <1>12 DEF WriteStdout, WriteStderr, Take, WorkerInv, jobVars, daemonVars
<1>13. CASE Drain
  BY <1>13 DEF Drain, WorkerInv, jobVars, daemonVars
<1>14. CASE Flush
  BY <1>14 DEF Flush, WorkerInv, jobVars, daemonVars
<1>15. CASE Report
  BY <1>15 DEF Report, WorkerInv, daemonVars
<1>16. CASE Sleep \/ UNCHANGED vars
  BY <1>16 DEF Sleep, vars, WorkerInv
<1> QED
  BY <1>1, <1>2, <1>3, <1>4, <1>5, <1>6, <1>7, <1>8, <1>9, <1>10, <1>11, <1>12,
     <1>13, <1>14, <1>15, <1>16 DEF Next, Die

\* Every step keeps what the rows say of workspaces, children and logs.
LEMMA RowsStep ==
  ASSUME BuildAssumption, Inv, TypeOK', [Next]_vars
  PROVE  RowsInv'
<1> USE DEF Inv, BuildInv
<1>1. ASSUME UNCHANGED <<jobs, ws, child, log, under>> PROVE RowsInv'
  BY <1>1 DEF RowsInv, RequestOf
<1>2. ASSUME NEW j \in JobIds, Enqueue(j) PROVE RowsInv'
  BY <1>2 DEF Enqueue, TypeOK, RowsInv, RequestOf, fileVars
<1>3. ASSUME NEW j \in JobIds, Select(j) PROVE RowsInv'
  BY <1>3 DEF Select, SetState, TypeOK, RowsInv, RequestOf, fileVars
<1>4. ASSUME NEW j \in JobIds, ChildEnds(j) PROVE RowsInv'
  BY <1>4 DEF ChildEnds, TypeOK, RowsInv, RequestOf, jobVars, fileVars
<1>5. CASE Detect
  BY <1>1, <1>5 DEF Detect, Fail, jobVars, fileVars
<1>6. CASE CloneSource
  BY <1>6, InHand DEF CloneSource, TypeOK, RowsInv, RequestOf, jobVars, fileVars
<1>7. CASE Checkout
  <2>1. jobs[job].state = "preparing" /\ UNCHANGED <<jobs, child, log, under>>
    BY <1>7, InHand DEF Checkout, Fail, jobVars, fileVars
  <2>2. \A j \in JobIds \ {job} : ws'[j] = ws[j]
    BY <1>7, InHand DEF Checkout, Fail, TypeOK
  <2> QED BY <2>1, <2>2 DEF RowsInv, RequestOf
<1>8. CASE BuildScript
  <2>1. CASE Fail
    BY <1>1, <2>1 DEF Fail, jobVars
  <2>2. CASE ~Fail
    <3>1. /\ \A f \in RequestOf(job).fragments : source_fragment_ok(RequestOf(job), f)
          /\ SetState(job, "running") /\ UNCHANGED <<ws, child, log, under>>
      BY <1>8, <2>2 DEF BuildScript, fileVars
    <3>2. job \in JobIds /\ jobs[job].state = "preparing"
      BY <1>8, InHand DEF BuildScript
    <3> QED BY <3>1, <3>2 DEF SetState, TypeOK, RowsInv, RequestOf
  <2> QED BY <2>1, <2>2
<1>9. CASE StartChild
  BY <1>9, InHand DEF StartChild, TypeOK, RowsInv, RequestOf, jobVars, fileVars
<1>10. CASE CreateLog
  BY <1>10, InHand DEF CreateLog, TypeOK, RowsInv, RequestOf, jobVars
<1>11. CASE WriteStdout \/ WriteStderr
  BY <1>1, <1>11 DEF WriteStdout, WriteStderr, Take, jobVars
<1>12. CASE Drain
  <2>1. jobs[job].state = "running" /\ UNCHANGED <<jobs, ws, child, under>>
    BY <1>12, InHand DEF Drain, FileInv, jobVars
  <2>2. \A j \in JobIds \ {job} : log'[j] = log[j]
    BY <1>12 DEF Drain, TypeOK
  <2> QED BY <2>1, <2>2 DEF RowsInv, RequestOf
<1>13. CASE Report
  BY <1>13, InHand DEF Report, SetState, TypeOK, RowsInv, RequestOf, fileVars
<1>14. CASE Load \/ Die \/ Flush \/ Sleep \/ UNCHANGED vars
  BY <1>1, <1>14 DEF Load, Die, Flush, Sleep, vars, jobVars, fileVars
<1> QED
  BY <1>2, <1>3, <1>4, <1>5, <1>6, <1>7, <1>8, <1>9, <1>10, <1>11, <1>12, <1>13, <1>14
  DEF Next

\* Every step keeps the workspaces clones of what was meant.
LEMMA WorkspaceStep ==
  ASSUME GitAssumption, BuildAssumption, Inv, TypeOK', [Next]_vars
  PROVE  WorkspaceInv' /\ BuildsWhatIsMeant'
<1> USE DEF Inv, BuildInv
<1>1. ASSUME UNCHANGED <<jobs, ws>>, pc' # "checkout" \/ (pc' = pc /\ job' = job)
      PROVE  WorkspaceInv' /\ BuildsWhatIsMeant'
  BY <1>1 DEF WorkspaceInv, BuildsWhatIsMeant, RequestOf
<1>2. ASSUME NEW j \in JobIds, Enqueue(j) PROVE WorkspaceInv' /\ BuildsWhatIsMeant'
  <2>1. ws[j].commit = Unknown
    BY <1>2 DEF Enqueue, RowsInv, NoWorkspace
  <2>2. \A i \in JobIds \ {j} : jobs'[i] = jobs[i]
    BY <1>2 DEF Enqueue, TypeOK
  <2>3. UNCHANGED <<pc, job, ws>>
    BY <1>2 DEF Enqueue
  <2> QED BY <2>1, <2>2, <2>3 DEF WorkspaceInv, BuildsWhatIsMeant, RequestOf
<1>3. ASSUME NEW j \in JobIds, NEW state, SetState(j, state), UNCHANGED ws, pc' # "checkout"
      PROVE  WorkspaceInv' /\ BuildsWhatIsMeant'
  <2>1. \A i \in JobIds : jobs'[i].request = jobs[i].request
    BY <1>3 DEF SetState, TypeOK
  <2> QED BY <1>3, <2>1 DEF WorkspaceInv, BuildsWhatIsMeant, RequestOf
<1>4. CASE CloneSource
  <2>1. PICK source \in Sources :
          ws' = [ws EXCEPT ![job] = [from |-> source, refs |-> Clone(source),
                                     commit |-> Unknown]]
    BY <1>4 DEF CloneSource
  <2>2. job \in JobIds /\ UNCHANGED <<jobs, job>>
    BY <1>4, InHand DEF CloneSource, jobVars
  <2>3. /\ ws'[job].from = source /\ ws'[job].refs = Clone(source)
        /\ ws'[job].commit = Unknown
        /\ \A i \in JobIds \ {job} : ws'[i] = ws[i]
    BY <2>1, <2>2 DEF TypeOK
  <2>4. source # << >>
    BY BuildAssumption DEF BuildAssumption, Repository
  <2>5. ws'[job] # NoWorkspace
    BY <2>3, <2>4 DEF NoWorkspace
  <2> QED BY <2>2, <2>3, <2>5 DEF WorkspaceInv, BuildsWhatIsMeant, RequestOf
<1>5. CASE Checkout
  <2> DEFINE commit == resolve_commit(ws[job].refs, RequestOf(job).git_ref)
  <2>1. CASE Fail
    BY <1>1, <2>1 DEF Fail, Gone, jobVars
  <2>2. CASE ~Fail
    <3>1. /\ ws' = [ws EXCEPT ![job].commit = commit] /\ pc' = "script"
          /\ UNCHANGED <<jobs, job>>
      BY <1>5, <2>2 DEF Checkout, jobVars
    <3>2. /\ job \in JobIds /\ jobs[job].state = "preparing"
          /\ ws[job] # NoWorkspace
      BY <1>5, InHand DEF Checkout, WorkspaceInv
    <3>3. /\ ws[job].from \in Sources /\ ws[job].from \in Repository
          /\ ws[job].refs = Clone(ws[job].from)
          /\ RequestOf(job).git_ref \in GitRefs
      BY <3>2, BuildAssumption DEF WorkspaceInv, RowsInv, RequestOf, BuildAssumption, Request
    <3>4. commit # Unknown => commit = MeantBy(ws[job].from, RequestOf(job).git_ref)
      BY <3>3, ResolveMeant
    <3> HIDE DEF commit
    <3>5. /\ ws'[job].from = ws[job].from /\ ws'[job].refs = ws[job].refs
          /\ ws'[job].commit = commit
          /\ \A i \in JobIds \ {job} : ws'[i] = ws[i]
      BY <3>1, <3>2 DEF TypeOK
    <3> QED BY <3>1, <3>3, <3>4, <3>5 DEF WorkspaceInv, BuildsWhatIsMeant, RequestOf
  <2> QED BY <2>1, <2>2
<1>6. CASE BuildScript
  BY <1>1, <1>3, <1>6, InHand DEF BuildScript, Fail, Gone, jobVars
<1>7. ASSUME NEW j \in JobIds, Select(j) PROVE WorkspaceInv' /\ BuildsWhatIsMeant'
  BY <1>3, <1>7 DEF Select
<1>8. CASE Report
  BY <1>3, <1>8, InHand DEF Report
<1>9. ASSUME NEW j \in JobIds, ChildEnds(j) PROVE WorkspaceInv' /\ BuildsWhatIsMeant'
  <2>1. pc' = pc \/ pc' = "create"
    BY <1>9, Ending, Zenon
  <2> QED BY <1>1, <1>9, <2>1, Zenon DEF ChildEnds, jobVars
<1>10. CASE Load \/ Die \/ Detect
  BY <1>1, <1>10 DEF Load, Die, Detect, Fail, Gone, jobVars
<1>11. CASE StartChild \/ CreateLog
  BY <1>1, <1>11 DEF StartChild, CreateLog, jobVars
<1>12. CASE WriteStdout \/ WriteStderr \/ Drain \/ Flush
  BY <1>1, <1>12 DEF WriteStdout, WriteStderr, Take, Drain, Flush, jobVars
<1>13. CASE Sleep \/ UNCHANGED vars
  BY <1>1, <1>13 DEF Sleep, vars
<1> QED
  BY <1>2, <1>4, <1>5, <1>6, <1>7, <1>8, <1>9, <1>10, <1>11, <1>12, <1>13 DEF Next

\* Every step keeps builds where a configuration allows them: StartChild takes both
\* the runtime and the configuration from the worker, who has a pair that fits.
LEMMA AllowedStep ==
  ASSUME BuildAssumption, Inv, [Next]_vars
  PROVE  BuildsWhereAllowed'
<1>1. CASE StartChild
  BY <1>1, InHand DEF StartChild, Inv, BuildInv, TypeOK, BuildsWhereAllowed
<1>2. ASSUME NEW j \in JobIds, Enqueue(j) \/ Select(j) \/ ChildEnds(j)
      PROVE  BuildsWhereAllowed'
  BY <1>2 DEF Enqueue, Select, ChildEnds, Inv, BuildInv, BuildsWhereAllowed
<1>3. CASE Load \/ Die \/ Detect \/ Sleep \/ CloneSource \/ Checkout \/ BuildScript
  BY <1>3 DEF Load, Die, Detect, Sleep, CloneSource, Checkout, BuildScript, Fail, vars,
              Inv, BuildInv, BuildsWhereAllowed
<1>4. CASE \/ CreateLog \/ WriteStdout \/ WriteStderr \/ Drain \/ Flush \/ Report
           \/ UNCHANGED vars
  BY <1>4 DEF CreateLog, WriteStdout, WriteStderr, Take, Drain, Flush, Report, vars,
              Inv, BuildInv, BuildsWhereAllowed
<1> QED BY <1>1, <1>2, <1>3, <1>4 DEF Next

\* What FileInv and LogWhenOver say does not change when the files, and the rows
\* that matter to them, do not.
LEMMA FileKept ==
  ASSUME Inv, UNCHANGED <<log, buffer, output>>,
         \A j \in JobIds : jobs'[j].state = "collecting" => jobs[j].state = "collecting",
         \/ pc' = pc /\ job' = job /\ child' = child
         \/ /\ pc' \in {"detect", "select", "clone", "checkout", "script"}
            /\ buffer = << >>
  PROVE  FileInv' /\ LogWhenOver'
  BY DEF Inv, BuildInv, FileInv, LogWhenOver

\* Every step keeps the log what the worker has written, but for the buffer: the
\* file is emptied once, when there is none, and reported when the buffer is empty.
LEMMA FileStep ==
  ASSUME BuildAssumption, Inv, TypeOK', [Next]_vars
  PROVE  FileInv' /\ LogWhenOver'
<1> USE DEF Inv, BuildInv
<1>1. ASSUME Gone, UNCHANGED <<jobs, output, log>> PROVE FileInv' /\ LogWhenOver'
  BY <1>1 DEF Gone, FileInv, LogWhenOver
<1>2. ASSUME NEW j \in JobIds, NEW state \in JobStates \ {"collecting"}, SetState(j, state)
      PROVE  \A i \in JobIds : jobs'[i].state = "collecting" => jobs[i].state = "collecting"
  BY <1>2 DEF SetState, TypeOK
<1>3. ASSUME NEW j \in JobIds, Enqueue(j) PROVE FileInv' /\ LogWhenOver'
  <2>1. \A i \in JobIds : jobs'[i].state = "collecting" => jobs[i].state = "collecting"
    BY <1>3 DEF Enqueue, TypeOK
  <2> QED BY <1>3, <2>1, FileKept DEF Enqueue, fileVars
<1>4. ASSUME NEW j \in JobIds, Select(j) PROVE FileInv' /\ LogWhenOver'
  <2>1. \A i \in JobIds : jobs'[i].state = "collecting" => jobs[i].state = "collecting"
    BY <1>2, <1>4 DEF Select, JobStates
  <2> QED BY <1>4, <2>1, FileKept DEF Select, FileInv, fileVars
<1>5. ASSUME NEW j \in JobIds, ChildEnds(j) PROVE FileInv' /\ LogWhenOver'
  <2>1. UNCHANGED <<jobs, job, log, buffer>>
    BY <1>5 DEF ChildEnds, jobVars, fileVars
  <2>2. CASE pc = "wait" /\ job = j
    <3>1. PICK o \in Outputs : output' = [output EXCEPT ![j] = o] /\ pc' = "create"
      BY <1>5, <2>2, Ending, Zenon
    <3>2. output'[job] \in Outputs /\ \A i \in JobIds \ {job} : output'[i] = output[i]
      BY <2>2, <3>1 DEF TypeOK
    <3>3. jobs[job].state = "running" /\ log[job] = Missing /\ buffer = << >>
      BY <2>2, InHand DEF FileInv
    <3> QED BY <2>1, <3>1, <3>2, <3>3 DEF FileInv, LogWhenOver
  <2>3. CASE ~(pc = "wait" /\ job = j)
    <3>1. pc' = pc /\ output' = output
      BY <1>5, <2>3, Ending, Zenon
    <3>2. pc = "spawn" => child'[job] = "none"
      BY <1>5 DEF ChildEnds, FileInv, TypeOK
    <3> QED BY <2>1, <3>1, <3>2 DEF FileInv, LogWhenOver
  <2> QED BY <2>2, <2>3
<1>6. CASE Load
  BY <1>6, FileKept DEF Load, FileInv, jobVars, fileVars
<1>7. CASE Die
  BY <1>1, <1>7 DEF Die
<1>8. CASE Detect
  BY <1>1, <1>8, FileKept DEF Detect, Fail, FileInv, jobVars, fileVars
<1>9. CASE CloneSource
  BY <1>9, FileKept DEF CloneSource, FileInv, jobVars, fileVars
<1>10. CASE Checkout
  BY <1>1, <1>10, FileKept DEF Checkout, Fail, FileInv, jobVars, fileVars
<1>11. CASE BuildScript
  <2>1. CASE Fail
    BY <1>1, <2>1 DEF Fail, jobVars
  <2>2. CASE ~Fail
    <3>1. SetState(job, "running") /\ pc' = "spawn" /\ UNCHANGED <<job, child, output, log, buffer>>
      BY <1>11, <2>2 DEF BuildScript, fileVars
    <3>2. /\ job \in JobIds /\ buffer = << >>
          /\ child[job] = "none" /\ log[job] = Missing
      BY <1>11, InHand DEF BuildScript, FileInv, RowsInv
    <3>3. \A i \in JobIds : jobs'[i].state = "collecting" => jobs[i].state = "collecting"
      BY <1>2, <3>1, <3>2 DEF JobStates
    <3> QED BY <3>1, <3>2, <3>3 DEF FileInv, LogWhenOver
  <2> QED BY <2>1, <2>2
<1>12. CASE StartChild
  BY <1>12 DEF StartChild, FileInv, LogWhenOver, jobVars, fileVars
<1>13. CASE CreateLog
  <2>1. /\ job \in JobIds /\ jobs[job].state = "running"
        /\ output[job] \in Outputs /\ buffer = << >>
    BY <1>13, InHand DEF CreateLog, FileInv
  <2>2. log'[job] = << >> /\ \A i \in JobIds \ {job} : log'[i] = log[i]
    BY <1>13, <2>1 DEF CreateLog, TypeOK
  <2>3. log'[job] \in Seq(Byte)
    BY <2>2, EmptySeq
  <2> QED BY <1>13, <2>1, <2>2, <2>3 DEF CreateLog, FileInv, LogWhenOver, jobVars
<1>14. CASE WriteStdout
  <2>1. /\ log[job] = << >> /\ output[job] \in Outputs /\ buffer' = output[job].stdout
        /\ pc' = "stderr" /\ UNCHANGED <<jobs, job, child, output, log>>
    BY <1>14 DEF WriteStdout, Take, FileInv, jobVars
  <2>2. log[job] \o buffer' = output[job].stdout
    BY <2>1, OutputTyped, ConcatEmptySeq
  <2> QED BY <1>14, <2>1, <2>2 DEF WriteStdout, FileInv, LogWhenOver
<1>15. CASE WriteStderr
  <2>1. /\ log[job] \o buffer = output[job].stdout /\ log[job] \in Seq(Byte) /\ buffer = << >>
        /\ output[job] \in Outputs /\ buffer' = output[job].stderr
        /\ pc' = "flush" /\ UNCHANGED <<jobs, job, child, output, log>>
    BY <1>15 DEF WriteStderr, Take, FileInv, jobVars
  <2>2. log[job] = output[job].stdout
    BY <2>1, ConcatEmptySeq
  <2>3. log[job] \o buffer' = output[job].stdout \o output[job].stderr
    BY <2>1, <2>2
  <2> QED BY <1>15, <2>1, <2>3 DEF WriteStderr, FileInv, LogWhenOver
<1>16. CASE Drain
  <2>1. PICK n \in 1 .. Len(buffer) :
          /\ log' = [log EXCEPT ![job] = @ \o SubSeq(buffer, 1, n)]
          /\ buffer' = SubSeq(buffer, n + 1, Len(buffer))
    BY <1>16 DEF Drain
  <2>2. /\ job \in JobIds /\ log[job] \in Seq(Byte) /\ pc \in {"stderr", "flush"}
        /\ jobs[job].state = "running" /\ output[job] \in Outputs
        /\ UNCHANGED <<jobs, pc, job, child, output>>
    BY <1>16, InHand DEF Drain, FileInv, jobVars
  <2>3. /\ log'[job] = log[job] \o SubSeq(buffer, 1, n)
        /\ \A i \in JobIds \ {job} : log'[i] = log[i]
    BY <2>1, <2>2 DEF TypeOK
  <2>4. log'[job] \in Seq(Byte) /\ log'[job] \o buffer' = log[job] \o buffer
    <3>1. buffer \in Seq(Byte)
      BY DEF TypeOK
    <3>2. /\ log[job] \o SubSeq(buffer, 1, n) \in Seq(Byte)
          /\ (log[job] \o SubSeq(buffer, 1, n)) \o SubSeq(buffer, n + 1, Len(buffer))
               = log[job] \o buffer
      BY <2>1, <2>2, <3>1, Drained
    <3> QED BY <2>1, <2>3, <3>2, Zenon
  <2> QED BY <2>2, <2>3, <2>4 DEF FileInv, LogWhenOver
<1>17. CASE Flush
  BY <1>17 DEF Flush, FileInv, LogWhenOver, jobVars, fileVars
<1>18. CASE Report
  <2>1. /\ job \in JobIds /\ log[job] \in Seq(Byte) /\ buffer = << >>
        /\ log[job] \o buffer = output[job].stdout \o output[job].stderr
    BY <1>18, InHand DEF Report, FileInv
  <2>2. log[job] = output[job].stdout \o output[job].stderr
    BY <2>1, ConcatEmptySeq
  <2>3. \A i \in JobIds \ {job} : jobs'[i] = jobs[i]
    BY <1>18 DEF Report, SetState, TypeOK
  <2> QED BY <1>18, <2>1, <2>2, <2>3 DEF Report, FileInv, LogWhenOver, fileVars
<1>19. CASE Sleep \/ UNCHANGED vars
  BY <1>19 DEF Sleep, vars, FileInv, LogWhenOver
<1> QED
  BY <1>3, <1>4, <1>5, <1>6, <1>7, <1>8, <1>9, <1>10, <1>11, <1>12, <1>13, <1>14,
     <1>15, <1>16, <1>17, <1>18, <1>19 DEF Next

-----------------------------------------------------------------------------
\* The theorems

\* Workers, rows, workspaces and files fit each other in every state.
THEOREM BuildInvariance == Spec => []Inv
<1>1. Init => Inv
  BY BuildAssumption, InvInit
<1>2. Inv /\ [Next]_vars => Inv'
  <2> SUFFICES ASSUME Inv, [Next]_vars PROVE Inv'
    OBVIOUS
  <2>1. TypeOK'
    BY GitAssumption, BuildAssumption, TypeStep DEF Inv
  <2>2. WorkerInv' /\ RowsInv' /\ WorkspaceInv' /\ FileInv'
    BY <2>1, GitAssumption, BuildAssumption, WorkerStep, RowsStep, WorkspaceStep, FileStep
  <2>3. BuildsWhatIsMeant' /\ LogWhenOver' /\ BuildsWhereAllowed'
    BY <2>1, GitAssumption, BuildAssumption, WorkspaceStep, FileStep, AllowedStep
  <2> QED BY <2>1, <2>2, <2>3 DEF Inv, BuildInv
<1> QED BY <1>1, <1>2, PTL DEF Spec

\* Jobs, workspaces, processes and logs stay in their types.
THEOREM BuildTypeOK == Spec => []TypeOK
<1>1. Inv => TypeOK
  BY DEF Inv
<1> QED BY <1>1, BuildInvariance, PTL

\* What is checked out is what the request's git_ref stood for in the source.
THEOREM BuildMeant == Spec => []BuildsWhatIsMeant
<1>1. Inv => BuildsWhatIsMeant
  BY DEF Inv, BuildInv
<1> QED BY <1>1, BuildInvariance, PTL

\* What the source has under a short name, a tag or HEAD is found in the clone.
THEOREM BuildFound == Spec => []FoundIfThere
<1>1. Inv => FoundIfThere
  <2> SUFFICES ASSUME Inv, pc = "checkout",
                      MeantBy(ws[job].from, RequestOf(job).git_ref) # Unknown,
                      RequestOf(job).git_ref[1] # "heads"
               PROVE  resolve_commit(ws[job].refs, RequestOf(job).git_ref) # Unknown
    BY DEF FoundIfThere
  <2>1. job \in JobIds /\ jobs[job].state = "preparing"
    BY BuildAssumption, InHand DEF Inv, BuildInv
  <2>2. /\ ws[job].from \in Repository /\ ws[job].refs = Clone(ws[job].from)
        /\ RequestOf(job).git_ref \in GitRefs
    BY <2>1, BuildAssumption
      DEF Inv, BuildInv, WorkspaceInv, RowsInv, RequestOf, BuildAssumption, Request
  <2> QED BY <2>2, GitAssumption, ResolveMeant
<1> QED BY <1>1, BuildInvariance, PTL

\* Once a row says that the build is over, the log is complete.
THEOREM BuildLogWhenOver == Spec => []LogWhenOver
<1>1. Inv => LogWhenOver
  BY DEF Inv, BuildInv
<1> QED BY <1>1, BuildInvariance, PTL

\* A tail, taken at any moment and with any limit, is the end of the log.
THEOREM BuildTail == Spec => []TailIsEndOfLog
<1>1. Inv => TailIsEndOfLog
  <2> SUFFICES ASSUME Inv, NEW j \in JobIds
               PROVE  LET bytes == IF log[j] = Missing THEN << >> ELSE log[j]
                      IN  \A max_bytes \in 0 .. Len(bytes) + 1 :
                            IsTail(bytes, max_bytes, tail_log(bytes, max_bytes))
    BY DEF TailIsEndOfLog
  <2> DEFINE bytes == IF log[j] = Missing THEN << >> ELSE log[j]
  <2>1. bytes \in Seq(Byte)
    BY EmptySeq DEF Inv, TypeOK
  <2> HIDE DEF bytes
  <2>2. \A max_bytes \in 0 .. Len(bytes) + 1 : max_bytes \in Nat
    BY <2>1
  <2>3. \A max_bytes \in 0 .. Len(bytes) + 1 :
          IsTail(bytes, max_bytes, tail_log(bytes, max_bytes))
    BY <2>1, <2>2, TailOfAnyLog
  <2> QED BY <2>3 DEF bytes
<1> QED BY <1>1, BuildInvariance, PTL

\* A workspace that is being made or used has no build of an earlier daemon.
THEOREM BuildWorkspaceExclusive == Spec => []WorkspaceExclusive
<1>1. Inv => WorkspaceExclusive
  BY BuildAssumption, InHand DEF Inv, BuildInv, RowsInv, FileInv, WorkspaceExclusive
<1> QED BY <1>1, BuildInvariance, PTL

\* Every build runs where the configuration of its daemon allows it.
THEOREM BuildAllowed == Spec => []BuildsWhereAllowed
<1>1. Inv => BuildsWhereAllowed
  BY DEF Inv, BuildInv
<1> QED BY <1>1, BuildInvariance, PTL

\* No fragment of a build that was started leads out of its source root, but for the
\* last step of one that ends in "..".
THEOREM BuildFragmentsInside == Spec => []FragmentsInside
<1>1. Inv => FragmentsInside
  <2> SUFFICES ASSUME Inv, NEW j \in JobIds, under[j] # NotStarted,
                      NEW f \in RequestOf(j).fragments
               PROVE  /\ f.at # "elsewhere" /\ (f.at = "source" => RequestOf(j).local)
                      /\ \A n \in DOMAIN f.path :
                           \/ Inside(f.path, n)
                           \/ f.at = "relative" /\ n = Len(f.path) /\ f.path[n] = ".."
    BY DEF FragmentsInside
  <2>1. jobs[j].state \in {"running", "collecting"}
    BY DEF Inv, BuildInv, TypeOK, JobStates, RowsInv
  <2>2. source_fragment_ok(RequestOf(j), f)
    BY <2>1 DEF Inv, BuildInv, RowsInv
  <2>3. f \in Fragment
    BY <2>1, BuildAssumption DEF Inv, BuildInv, RowsInv, RequestOf, BuildAssumption, Request
  <2>4. f.path \in Seq(Component)
    BY <2>3 DEF Fragment
  <2>5. CASE f.at = "relative" /\ stays_inside(f.path, DOMAIN f.path)
    BY <2>4, <2>5, RelativeInside
  <2>6. CASE f.at = "source" /\ RequestOf(j).local /\ stays_inside(f.path, strip_prefix(f.path))
    BY <2>4, <2>6, AbsoluteInside
  <2> QED BY <2>2, <2>5, <2>6 DEF source_fragment_ok
<1> QED BY <1>1, BuildInvariance, PTL

\* A log that is there never becomes shorter nor changes.
THEOREM BuildLogOnlyGrows == Spec => LogOnlyGrows
<1> DEFINE Grows == \A j \in JobIds :
                      log[j] # Missing => /\ Len(log'[j]) >= Len(log[j])
                                          /\ SubSeq(log'[j], 1, Len(log[j])) = log[j]
<1>1. Inv /\ [Next]_vars => [Grows]_vars
  <2> SUFFICES ASSUME Inv, Next, NEW j \in JobIds, log[j] # Missing
               PROVE  /\ Len(log'[j]) >= Len(log[j])
                      /\ SubSeq(log'[j], 1, Len(log[j])) = log[j]
    OBVIOUS
  <2>1. log[j] \in Seq(Byte)
    BY DEF Inv, TypeOK
  <2>2. CASE log'[j] = log[j]
    BY <2>1, <2>2, SubSeqFull
  <2>3. CASE CreateLog
    <3>1. job # j
      BY <2>3 DEF CreateLog, Inv, BuildInv, FileInv
    <3> QED BY <2>2, <2>3, <3>1 DEF CreateLog, Inv, TypeOK
  <2>4. CASE Drain
    <3>1. PICK n \in 1 .. Len(buffer) :
            log' = [log EXCEPT ![job] = @ \o SubSeq(buffer, 1, n)]
      BY <2>4 DEF Drain
    <3>2. SubSeq(buffer, 1, n) \in Seq(Byte)
      BY <3>1 DEF Inv, TypeOK
    <3>3. log'[j] = log[j] \o SubSeq(buffer, 1, n) \/ log'[j] = log[j]
      BY <3>1 DEF Inv, TypeOK
    <3> QED BY <2>1, <2>2, <3>2, <3>3, Longer
  <2>5. CASE ~CreateLog /\ ~Drain
    <3>1. log' = log
      BY <2>5 DEF Next, Enqueue, Select, ChildEnds, Load, Die, Detect, Sleep, CloneSource,
                  Checkout, BuildScript, StartChild, WriteStdout, WriteStderr, Take, Flush,
                  Report, Fail, fileVars, vars
    <3> QED BY <2>2, <3>1
  <2> QED BY <2>3, <2>4, <2>5
<1> QED BY <1>1, BuildInvariance, PTL DEF Spec, LogOnlyGrows
=============================================================================
