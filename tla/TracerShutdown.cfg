\* The tests under a tracer, on a sound machine.
CONSTANTS
  BPF_MAXINSNS = 8
  MAX_INSNS_PER_PATH = 64
  TSYNC_SIBLINGS = 2
  Tests <- TraceTests
  Envs <- SoundEnvs
CHECK_DEADLOCK FALSE
SPECIFICATION FairSpec
PROPERTIES
  ShutdownStopsTracer
