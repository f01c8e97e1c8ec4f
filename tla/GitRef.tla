------------------------------- MODULE GitRef --------------------------------
(***************************************************************************)
(* Which commit a request means by its git_ref, and which one              *)
(* resolve_commit of src/src/executor.rs finds in the clone.               *)
(*                                                                         *)
(* A repository is a function from the names of its refs to commits.       *)
(* <<"heads", n>> is refs/heads/n, <<"tags", n>> refs/tags/n and           *)
(* <<"origin", n>> refs/remotes/origin/n.  A git_ref is such a full name,  *)
(* <<"short", n>> for n alone, or <<"HEAD">>.                              *)
(***************************************************************************)
EXTENDS Naturals, Sequences, FiniteSetsExt

CONSTANTS
  Branches,  \* the names that branches and tags have
  Default,   \* the branch that HEAD of a source names
  Commits,
  Unknown    \* no commit

ASSUME GitAssumption == Default \in Branches /\ Unknown \notin Commits

RefNames == {"heads", "tags", "origin"} \X Branches

GitRefs == RefNames \cup ({"short"} \X Branches) \cup {<<"HEAD">>}

Repository ==
  {repo \in UNION {[R -> Commits] : R \in SUBSET RefNames} :
     <<"heads", Default>> \in DOMAIN repo}

\* git rev-parse: a tag goes before a branch of the same name.
rev_parse(repo, ref) ==
  CASE ref = <<"HEAD">> -> repo[<<"heads", Default>>]
    [] ref \in DOMAIN repo -> repo[ref]
    [] ref[1] = "short" /\ <<"tags", ref[2]>> \in DOMAIN repo ->
         repo[<<"tags", ref[2]>>]
    [] /\ ref[1] = "short"
       /\ <<"tags", ref[2]>> \notin DOMAIN repo
       /\ <<"heads", ref[2]>> \in DOMAIN repo -> repo[<<"heads", ref[2]>>]
    [] OTHER -> Unknown

\* git clone: the branches of the source become remote-tracking ones, the tags
\* are copied, the default branch is the only local one.  What the source
\* itself tracks stays behind.
Clone(source) ==
  LET origin(n) == <<"heads", n>>
      taken == {<<"origin", n>> : n \in {m \in Branches : origin(m) \in DOMAIN source}}
               \cup {r \in DOMAIN source : r[1] = "tags"}
               \cup {<<"heads", Default>>}
  IN  [r \in taken |-> IF r[1] = "origin" THEN source[origin(r[2])] ELSE source[r]]

\* Mutant: the branches of origin are tried first.
candidates_origin_first(ref) ==
  IF ref[1] # "short"
  THEN <<ref>>
  ELSE <<<<"origin", ref[2]>>, ref, <<"heads", ref[2]>>, <<"tags", ref[2]>>>>

\* Mutant: only what was asked for is tried.
candidates_as_given(ref) == <<ref>>

\* The names that resolve_commit tries: one that starts with refs/ only itself.
\* HEAD is in every clone, so what would be tried after it does not matter.
candidates(ref) ==
  IF ref[1] # "short"
  THEN <<ref>>
  ELSE <<ref, <<"origin", ref[2]>>, <<"heads", ref[2]>>, <<"tags", ref[2]>>>>

\* Mutant: the name that was found, not the commit behind it.
resolve_commit_name(repo, ref) ==
  LET known == {i \in DOMAIN candidates(ref) :
                  rev_parse(repo, candidates(ref)[i]) # Unknown}
  IN  IF known = {} THEN Unknown ELSE candidates(ref)[Min(known)]

\* The first candidate that rev-parse knows.
resolve_commit(repo, ref) ==
  LET known == {i \in DOMAIN candidates(ref) :
                  rev_parse(repo, candidates(ref)[i]) # Unknown}
  IN  IF known = {} THEN Unknown
      ELSE rev_parse(repo, candidates(ref)[Min(known)])
=============================================================================
