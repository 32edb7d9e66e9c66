\* Three ranks and two tries: a slot can outrank, tie with or trail the other,
\* and be on its first, on its last or on no try.  Half of the behaviours have two
\* faults at most, the other half have no bound on them.
CONSTANTS
  MaxPriority = 2
  MaxTries = 2
  Corrupt = Corrupt
  MaxFaults = 2
  MaxUpdates = 1
SPECIFICATION FairSpec
INVARIANTS
  TypeOK
  AttemptBudget
  RunsTheBestLiveSlot
  GivesUpOnlyWhenDead
  IInv
PROPERTIES
  LoaderOnlyDemotes
  ConfirmedSurvives
  KeepsPromise
  FallsBackToGoodKernel
  EndlessSessionFailsMarks
