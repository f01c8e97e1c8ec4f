------------------------------- MODULE Policy -------------------------------
(***************************************************************************)
(* Which sources and requests src/src/policy.rs accepts.  A path and a URL *)
(* are members of a set; an allowlist is the set of those that lie under   *)
(* one of its roots (lexical_child_of) or start with one of its prefixes   *)
(* and are neither empty nor padded (validate_clone_url).                  *)
(***************************************************************************)
EXTENDS Naturals

CONSTANTS
  Names,       \* the names that requests use for trees
  ValidNames,  \* those that pass validate_tree_name
  Roots,       \* local source trees
  Urls,        \* clone URLs
  Refs,        \* git refs
  EnvKeys,     \* environment variables that requests set
  None         \* an Option that is not there

ASSUME PolicyAssumption ==
  /\ ValidNames \subseteq Names
  /\ None \notin Names \cup Roots \cup Urls \cup Refs

Option(S) == S \cup {None}

\* The security section of a configuration.
SecurityConfig ==
  [source_allowlist : SUBSET Roots, clone_url_allowlist : SUBSET Urls,
   denied_env : SUBSET EnvKeys]

TreeRegistration ==
  [name : Names, source_root : Option(Roots), source_url : Option(Urls),
   default_ref : Option(Refs)]

\* make_targets is only counted; what only the build script sees is left out.
BuildRequest ==
  [tree_name : Option(Names), source_root : Option(Roots),
   source_url : Option(Urls), git_ref : Option(Refs),
   env : SUBSET EnvKeys, make_targets : Nat]

\* Mutant: a root decides, whether there is a URL too or not.
source_allowed_root_first(security, source) ==
  \/ source.source_root \in security.source_allowlist
  \/ /\ source.source_root = None
     /\ source.source_url \in security.clone_url_allowlist

\* The match on (source_root, source_url): exactly one of them, and allowed.
source_allowed(security, source) ==
  \/ /\ source.source_root \in security.source_allowlist
     /\ source.source_url = None
  \/ /\ source.source_root = None
     /\ source.source_url \in security.clone_url_allowlist

validate_request(security, request) ==
  /\ source_allowed(security, request)
  /\ request.env \cap security.denied_env = {}
  /\ request.make_targets > 0

validate_tree_registration(security, tree) ==
  /\ tree.name \in ValidNames
  /\ source_allowed(security, tree)
=============================================================================
