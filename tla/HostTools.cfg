\* The bit fields have the width of the code; fifteen boots use up both slots.
CONSTANTS
  MaxPriority = 15
  MaxTries = 7
  Corrupt = Corrupt
  Absent = Absent
  Short = Short
  NaN = NaN
  Empty = Empty
  Running = Running
  TokenLists <- MCTokenLists
  Earlier <- MCEarlier
  Names <- MCNames
  Behind <- MCBehind
  MaxBoots = 15
\* Every program ends.
CHECK_DEADLOCK FALSE
SPECIFICATION Spec
INVARIANTS
  TypeOK
  UnitTestsPass
  MadeImageBoots
  ConvertsNames
PROPERTIES
  ObeysTheArguments
