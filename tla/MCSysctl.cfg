SPECIFICATION Spec
CONSTANTS
  Cpu = {c1, c2}
  Pid = {2, 7}
  KriePid = 7
  SendSignal = TRUE
  OverrideReturn = TRUE
  L = 4
  Einval = 4
  Names <- MCNames
  Texts <- MCTexts
  Configs <- MCConfigs
  Paddings <- MCPaddings
SYMMETRY Symmetry
INVARIANTS DecodeFaithful ContextOfCaller
PROPERTIES BlockedKept OverrideHeld
CHECK_DEADLOCK FALSE
