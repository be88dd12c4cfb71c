SPECIFICATION FairSpec
CONSTANTS
  Cpu = {c1}
  Active = {"table"}
  Table = {"sys", "x32"}
  MaxSyscallNr = 2
  Nr = {1, 2}
  Addr = {3, 6}
  Stext = 2
  Etext = 5
  MaxEntries = 4
  MaxHooks = 1
  MaxLost = 1
PROPERTIES HookReported
