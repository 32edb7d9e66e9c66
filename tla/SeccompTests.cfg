\* Filters of up to 8 instructions, 8 times as many for all of a thread's, as in the code.
CONSTANTS
  BPF_MAXINSNS = 8
  MAX_INSNS_PER_PATH = 64
  TSYNC_SIBLINGS = 2
  Tests <- AllTests
  Envs <- MCEnvs
\* The harness ends; a tracer that is told too late, or a thread that is not there, stops it.
CHECK_DEADLOCK FALSE
SPECIFICATION FairSpec
INVARIANTS
  TypeOK
  RunsInOrder
  SuitePasses
  SuiteDetects
  VerdictIsEarned
PROPERTIES
  SuiteEnds
