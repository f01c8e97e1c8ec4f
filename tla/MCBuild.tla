------------------------------- MODULE MCBuild -------------------------------
(* What TLC needs beside the cfg file: requests, sources, configurations and  *)
(* outputs.                                                                   *)
EXTENDS Build, TLC

Symmetry == Permutations(JobIds)

CONSTANTS main, topic, a, b, d

\* A branch and a tag of one name with different commits; a tag that has gone
\* and a branch that has moved; a source that tracks another one.
MCSources ==
  {(<<"heads", main>> :> a) @@ (<<"heads", topic>> :> b) @@ (<<"tags", topic>> :> d),
   (<<"heads", main>> :> b) @@ (<<"heads", topic>> :> d) @@ (<<"origin", topic>> :> a),
   (<<"heads", main>> :> a) @@ (<<"tags", main>> :> d)}

Good == {[at |-> "relative", path |-> <<"d", "d">>]}
Root == {[at |-> "source", path |-> <<".", "d", "..", ".">>],
         [at |-> "relative", path |-> <<".", "..">>]}

Ask(ref, local, fragments) ==
  [git_ref |-> ref, local |-> local, fragments |-> fragments]

MCRequests ==
  {Ask(<<"HEAD">>, TRUE, Root),
   Ask(<<"short", main>>, FALSE, Good),
   Ask(<<"short", topic>>, TRUE, Good),
   Ask(<<"tags", topic>>, FALSE, {}),
   Ask(<<"heads", topic>>, FALSE, {}),
   Ask(<<"origin", topic>>, TRUE, {}),
   Ask(<<"HEAD">>, FALSE, Root),
   Ask(<<"HEAD">>, TRUE, {[at |-> "relative", path |-> <<"..", "d">>]}),
   Ask(<<"HEAD">>, TRUE, {[at |-> "source", path |-> <<".", "..">>]}),
   Ask(<<"HEAD">>, TRUE, {[at |-> "relative", path |-> <<"d", "..", "..", "d">>]})}

Conf(preference, host) ==
  [concurrency |-> 1, source_allowlist |-> 1, preference |-> preference,
   enable_host_native |-> host, max_log_read_bytes |-> 1]

MCConfigs ==
  {Conf("Auto", TRUE), Conf("HostNative", TRUE), Conf("HostNative", FALSE),
   Conf("Docker", FALSE), [Conf("Auto", FALSE) EXCEPT !.max_log_read_bytes = 0]}

\* Characters of four bytes and of one, and one of three that breaks off.
MCOutputs ==
  {[stdout |-> <<"F1", "90", "80", "A0">>, stderr |-> <<"00">>],
   [stdout |-> << >>, stderr |-> <<"E0", "A0">>]}
=============================================================================
