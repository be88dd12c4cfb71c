SPECIFICATION CalledSpec
CONSTANTS
  Cpu = {c1, c2}
  Active = {"table", "syscall"}
  Table = {"sys"}
  MaxSyscallNr = 1
  Nr = {1}
  Addr = {3, 6}
  Stext = 2
  Etext = 5
  MaxEntries = 4
  MaxHooks = 1
  MaxLost = 1
PROPERTIES HookedCallReported
