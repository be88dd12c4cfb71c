------------------------------ MODULE MCLoader ------------------------------
EXTENDS Loader

CONSTANTS a, b

C(valid, btf, events) == [valid |-> valid, btf |-> btf, events |-> events]
MCConfigs == {C(TRUE, "hub", {"init_module", "delete_module"}), C(TRUE, "kernel", {"init_module"}),
              C(FALSE, "kernel", {})}

H(syslog, perf, ia32) == [syslog |-> syslog, perf |-> perf, ia32 |-> ia32]
MCHosts == {H(TRUE, TRUE, TRUE), H(FALSE, TRUE, TRUE), H(FALSE, FALSE, TRUE), H(TRUE, TRUE, FALSE)}
MCBoot == {[m \in Modules |-> NotLoaded], [m \in Modules |-> IF m = a THEN 2 ELSE MaxAddr]}
=============================================================================
