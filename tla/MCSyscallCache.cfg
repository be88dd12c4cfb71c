SPECIFICATION Spec
CONSTANTS
  Thread = {t1, t2}
  Exempt = {t2}
  Slots = 2
  Syscalls = {"init_module"}
  OnKprobes = {"disable_kprobe"}
  MaxCalls = 4
INVARIANTS TypeOK EventsOfTheirCall ReturnsReported KindTrue
 
CHECK_DEADLOCK FALSE
