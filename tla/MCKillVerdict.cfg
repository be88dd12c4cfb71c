SPECIFICATION Spec
CONSTANTS
  KriePid = 2
  SendSignal = TRUE
  OverrideReturn = TRUE
  Cpu = {c1}
  Pid = {0, 2, 3}
  EventType = {"ptrace"}
  Attached = {"sys_ptrace"}
  Configurations <- AllConfigurations
PROPERTIES KillVerdictLatched
