--------------------------- MODULE MCSourceTrees ----------------------------
(* Instances of the source trees for TLC. *)
EXTENDS SourceTrees, TLC

CONSTANTS n1, n2, r1, u1, u2, main, topic, preload

Request(name, root, url, ref, env, targets) ==
  [tree_name |-> name, source_root |-> root, source_url |-> url,
   git_ref |-> ref, env |-> env, make_targets |-> targets]

Registration(name, root, url, ref) ==
  [name |-> name, source_root |-> root, source_url |-> url, default_ref |-> ref]

\* By name with and without a ref, by path, and each kind that is refused: a
\* name that nobody can register, two sources, a name and a source, none, a
\* denied variable, no target.
MCBuildRequests ==
  {Request(n1, None, None, None, {}, 1), Request(n1, None, None, topic, {}, 1),
   Request(n2, None, None, None, {}, 1), Request(None, r1, u1, None, {}, 1),
   Request(n1, r1, None, None, {}, 1),
   Request(None, None, None, None, {}, 1), Request(None, r1, None, None, {preload}, 1),
   Request(None, None, u1, None, {}, 0), Request(None, r1, None, None, {}, 1)}

\* One by path, two by URL, one with both, one under a bad name.
MCRegistrations ==
  {Registration(n1, r1, None, main), Registration(n1, None, u1, None),
   Registration(n1, None, u2, main), Registration(n1, r1, u1, None),
   Registration(n2, r1, None, None)}

\* The second configuration allows one URL less and forbids a variable more.
MCPolicies ==
  {[source_allowlist |-> {r1}, clone_url_allowlist |-> {u1, u2}, denied_env |-> {}],
   [source_allowlist |-> {r1}, clone_url_allowlist |-> {u1}, denied_env |-> {preload}]}

Symmetry == Permutations(Clients) \cup Permutations(JobIds)
=============================================================================
