---------------------------- MODULE RuntimeSelect -----------------------------
(***************************************************************************)
(* Config::validate of src/src/config.rs and detect_runtime of             *)
(* src/src/runtime.rs: under which configurations the daemon runs, and     *)
(* where it builds.                                                        *)
(***************************************************************************)
EXTENDS Naturals

Preference == {"Auto", "Podman", "Docker", "HostNative"}
Programs   == {"podman", "docker"}
Kinds      == {"Podman", "Docker", "HostNative"}

\* The fields that validate and detect_runtime look at.  Of the allowlist it
\* matters whether it is empty.
Config ==
  [concurrency : Nat, source_allowlist : Nat, preference : Preference,
   enable_host_native : BOOLEAN, max_log_read_bytes : Nat]

\* Mutant: nobody asks whether host-native builds are enabled.
validate_any_runtime(config) ==
  /\ config.concurrency # 0
  /\ config.source_allowlist # 0
  /\ config.max_log_read_bytes # 0

validate(config) ==
  /\ config.concurrency # 0
  /\ config.source_allowlist # 0
  /\ config.preference = "HostNative" => config.enable_host_native
  /\ config.max_log_read_bytes # 0

\* "none" is the error that ends worker_loop.
detect_runtime(config, installed) ==
  LET wanted == CASE config.preference = "Podman" -> <<"podman">>
                  [] config.preference = "Docker" -> <<"docker">>
                  [] config.preference = "Auto"   -> <<"podman", "docker">>
                  [] OTHER -> << >>
      found  == {i \in DOMAIN wanted : wanted[i] \in installed}
      kind   == [podman |-> "Podman", docker |-> "Docker"]
  IN  IF config.preference = "HostNative" THEN "HostNative"
      ELSE IF found = {} THEN "none"
      ELSE kind[wanted[CHOOSE i \in found : \A k \in found : i <= k]]
=============================================================================
