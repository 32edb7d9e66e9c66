\* A HAL whose buffers are half of the sine's buffer, as large, and larger.
CONSTANTS
  kBufferSize = 8
  HalSizes = {4, 8, 12}
  Files <- MCFiles
  kNumBuffersToWrite = 3
  kRecordedDataSize = 10
  Missing = Missing
  Sine = Sine
  Channels = {1, 2, 3}
  SampleSizes = {2, 3}
  MaxChunks = 2
\* The programs end; one of them waits for a buffer that it holds itself.
CHECK_DEADLOCK FALSE
SPECIFICATION FairSpec
INVARIANTS
  TypeOK
  StaysInBuffer
  FillsFromLiveSource
  RecordingIsComplete
  SuccessMeansPlayed
PROPERTIES
  ProgramsEnd
