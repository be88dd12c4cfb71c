SPECIFICATION FairSpec
CONSTANTS
  KriePid = 2
  SendSignal = TRUE
  OverrideReturn = TRUE
  Cpu = {c1, c2}
  Pid = {0, 2, 3}
  EventType = {"sysctl", "kernel_parameter"}
  Attached = {"cgroup_sysctl", "kernel_parameter_ticker", "generic_lsm_func", "sys_exit"}
  Configurations <- MCConfigurations
INVARIANTS TypeOK RuntimeSpared ArmedSwitchHeeded NothingUnasked
PROPERTIES ArmedForCause FirstKeyOwnsSlot ArmedSwitchKills
