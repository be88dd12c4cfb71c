SPECIFICATION FairSpec
CONSTANTS
  Cpu = {c1}
  Count = 2
  Size <- MCSize
  Expected <- MCExpected
  Resolved = {1, 2}
  Width = 4
  Byte = {0, 1}
  Content <- MCContent
  Ticker = 1
  Boot = 2
  Word = 256
  MaxTime = 5
  MaxChanges = 2
  MaxLost = 1
INVARIANTS NoFalseAlarm
PROPERTIES MismatchReported
