---------------------------- MODULE MCKillSwitch ----------------------------
(* KillSwitch on two CPUs: idle, KRIe and an ordinary process.             *)
EXTENDS KillSwitch

(* The ticker's check only logs, or arms the global switch while the       *)
(* cgroup/sysctl program kills.                                            *)
MCConfigurations ==
  {p \in [EventType -> Action] :
     \/ p["kernel_parameter"] = LOG
     \/ p["kernel_parameter"] = PARANOID /\ p["sysctl"] = KILL}

(* Every policy of the events under consideration. *)
AllConfigurations == [EventType -> Action]
=============================================================================
