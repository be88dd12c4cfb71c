------------------------------ MODULE MCProbes ------------------------------
EXTENDS Probes

V(major, minor, patch) == [major |-> major, minor |-> minor, patch |-> patch]

(* Versions on both sides of every threshold, with sublevels past 255.     *)
Versions == {V(4, 11, 300), V(4, 12, 0), V(4, 15, 512), V(4, 19, 230), V(5, 1, 256), V(5, 2, 300),
             V(5, 3, 0), V(5, 6, 260), V(5, 7, NoPatch), V(5, 13, 256), V(5, 14, 1)}

E(real, sig, deb, rel, os, arch, open) ==
    [real |-> real, signature |-> sig, debian |-> deb, release |-> rel, os |-> os, arch |-> arch, open |-> open]

MCEnvs ==
    UNION {
      {E(v, Absent, Absent, v, "other", "x64", "wrapped"),                      \* plain
       E(v, v, Absent, V(v.major, v.minor, 0), "other", "x64", "wrapped"),      \* Ubuntu
       E(v, Absent, v, V(v.major, v.minor, 0), "other", "arm64", "wrapped"),    \* Debian
       E(v, Absent, Absent, v, "other", "x64", "SyS_"),
       E(v, Absent, Malformed, v, "other", "x64", "sys_"),
       E(v, Absent, Absent, v, "none", "x64", "wrapped")} :                     \* no os-release
      v \in Versions}
    \cup {E(V(5, 3, 0), Malformed, Absent, V(5, 3, 0), "other", "x64", "wrapped")}
    \cup {E(V(3, 10, 0), Absent, Absent, V(3, 10, 0), "rh7", "x64", "SyS_"),
          E(V(4, 18, 0), Absent, Absent, V(4, 18, 0), "rh8", "x64", "wrapped")}

MCEventSets == {{}, {"init_module", "kprobe"}, {"bpf", "sysctl", "hooked_syscall"}, EventTypes}
MCMissing == {{}, {<<"ptrace", "ia32">>}, {<<"bpf", "native">>},
              {<<"bpf", "native">>, <<"bpf", "ia32">>}, {<<"check_helper_call", "none">>, <<"security", "none">>},
              {<<"write_enabled_file_bool", "none">>}}
=============================================================================
