\* No fault and no update is needed to see the loader give up.
CONSTANTS
  MaxPriority = 2
  MaxTries = 1
  Corrupt = Corrupt
  MaxFaults = 0
  MaxUpdates = 0
SPECIFICATION Spec
INVARIANT
  MarkStopsOnlyOnFailure
