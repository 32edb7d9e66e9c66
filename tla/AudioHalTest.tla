----------------------------- MODULE AudioHalTest ------------------------------
(***************************************************************************)
(* audio_hal_playback_test.cpp and audio_hal_record_test.cpp: one thread   *)
(* each, over the streams of an audio HAL that answers what it likes.      *)
(***************************************************************************)
EXTENDS SineSource

CONSTANTS
  HalSizes,           \* what get_buffer_size may answer, in bytes
  Files,              \* WAV files: their channels, frames and sample format
  kNumBuffersToWrite,
  kRecordedDataSize,
  Missing, Sine       \* a file that cannot be opened, and no file

ASSUME HalAssumption ==
  /\ kBufferSize \in Nat /\ kNumBuffersToWrite \in Nat /\ kRecordedDataSize \in Nat
  /\ HalSizes \subseteq Nat \ {0}
  /\ \A f \in Files : f.channels \in Nat \ {0} /\ f.frames \in Nat /\ f.format \in Nat

VARIABLES
  open,      \* what is open of the HAL
  hal_size,  \* what get_buffer_size answered first
  buffer,    \* the bytes allocated for the data to play, and for the recording
  reach,     \* how many of them have been written to, or handed to the HAL
  progress,  \* buffers played, frames read of the file, bytes recorded
  answer,    \* of the last call of read
  elapsed,   \* whether 30 seconds have gone by
  saved      \* bytes of the recording in the file

halVars == <<open, hal_size, buffer, reach, progress, answer, elapsed, saved>>

Minimum(a, b) == IF a < b THEN a ELSE b

Playbacks == [test : {"playback"}, given : {"all", "too_few"}, file : Files \cup {Missing, Sine}]
Records == [test : {"record"}, given : {"all", "too_few", "zero"}]

HalInit ==
  /\ open = {} /\ hal_size = 0 /\ buffer = 0 /\ reach = 0 /\ progress = 0
  /\ answer = "some" /\ elapsed = FALSE /\ saved = 0

Playing == args.test = "playback"
PlaysFile == Playing /\ args.file # Sine

--------------------------------------------------------------------------------
\* Both programs begin alike.  Every return in between leaves what is open as it is.

ParseHalArgs ==
  /\ step = "hal_args"
  /\ CASE args.given = "too_few" -> Ends("exit -1")
       [] args.given = "zero" -> Ends("abort")
       [] OTHER -> GoesTo("module")
  /\ UNCHANGED <<group, halVars>>

\* "primary", or else "usb".
GetModule ==
  /\ step = "module"
  /\ GoesTo("device") \/ Ends("exit -1")
  /\ UNCHANGED <<group, halVars>>

OpenDevice ==
  /\ step = "device"
  /\ \/ open' = {"device"} /\ GoesTo(IF PlaysFile THEN "open_file" ELSE "stream")
     \/ Ends("exit -1") /\ UNCHANGED open
  /\ UNCHANGED <<group, hal_size, buffer, reach, progress, answer, elapsed, saved>>

\* A bit of the format is tested, where the formats are numbers.
OpenFile ==
  /\ step = "open_file"
  /\ IF args.file = Missing THEN Ends("abort")
     ELSE IF (args.file.format \div 2) % 2 = 1 THEN GoesTo("stream")
     ELSE Ends("exit -1")
  /\ UNCHANGED <<group, halVars>>

OpenStream ==
  /\ step = "stream"
  /\ \/ /\ open' = open \cup {"stream"}
        /\ GoesTo(IF PlaysFile THEN "file_data" ELSE IF Playing THEN "sine_data" ELSE "recorded_data")
     \/ Ends("exit -1") /\ UNCHANGED open
  /\ UNCHANGED <<group, hal_size, buffer, reach, progress, answer, elapsed, saved>>

--------------------------------------------------------------------------------
\* PlaySineWave and GenerateData, in stereo.

SineData ==
  /\ step = "sine_data"
  /\ hal_size' \in HalSizes
  /\ buffer' = hal_size'
  /\ Starts(2)
  /\ GoesTo("generate")
  /\ UNCHANGED <<open, reach, progress, answer, elapsed, saved>>

\* The buffer is not given back before the next is asked for.
GenerateData ==
  /\ step = "generate"
  /\ Reads
  /\ reach' = Minimum(buffer, reach + sine_bytes(2))
  /\ GoesTo(IF sine_bytes(2) >= buffer - reach THEN "generated" ELSE "generate")
  /\ UNCHANGED <<open, hal_size, buffer, progress, answer, elapsed, saved>>

\* Its release, and the end of the source.
DataGenerated ==
  /\ step = "generated"
  /\ group' = "none"
  /\ GoesTo("write_sine")
  /\ UNCHANGED halVars

bytes_to_write(bytes_wanted) == Minimum(bytes_wanted, buffer)

WriteSine ==
  /\ step = "write_sine" /\ progress < kNumBuffersToWrite
  /\ \E bytes_wanted \in HalSizes :
       reach' = IF bytes_to_write(bytes_wanted) > reach THEN bytes_to_write(bytes_wanted) ELSE reach
  /\ progress' = progress + 1
  /\ GoesTo("write_sine") \/ GoesTo("close")
  /\ UNCHANGED <<group, open, hal_size, buffer, answer, elapsed, saved>>

SineWritten ==
  /\ step = "write_sine" /\ progress = kNumBuffersToWrite
  /\ GoesTo("close")
  /\ UNCHANGED <<group, halVars>>

--------------------------------------------------------------------------------
\* PlayFile.  As many shorts are allocated as the buffer of the HAL has frames.

file_frame == frame_size(args.file.channels, 2)

FileData ==
  /\ step = "file_data"
  /\ hal_size' \in HalSizes
  /\ buffer' = (hal_size' \div file_frame) * 2
  /\ GoesTo("play_file")
  /\ UNCHANGED <<group, open, reach, progress, answer, elapsed, saved>>

PlayFile ==
  /\ step = "play_file"
  /\ \E bytes_wanted \in HalSizes :
       LET frames_read == Minimum(bytes_wanted \div file_frame, args.file.frames - progress)
           bytes == frames_read * file_frame
       IN /\ reach' = IF bytes > reach THEN bytes ELSE reach
          /\ progress' = progress + frames_read
          /\ GoesTo(IF frames_read = 0 THEN "close" ELSE "play_file") \/ GoesTo("close")
  /\ UNCHANGED <<group, open, hal_size, buffer, answer, elapsed, saved>>

\* The result of playing is not looked at.
ClosePlayback ==
  /\ step = "close" /\ Playing
  /\ open' = {}
  /\ Ends("exit 0")
  /\ UNCHANGED <<group, hal_size, buffer, reach, progress, answer, elapsed, saved>>

--------------------------------------------------------------------------------
\* The recording.

RecordedData ==
  /\ step = "recorded_data"
  /\ hal_size' \in HalSizes
  /\ buffer' = kRecordedDataSize
  /\ GoesTo("record")
  /\ UNCHANGED <<group, open, reach, progress, answer, elapsed, saved>>

\* Slip: always a buffer of the HAL is asked for.
bytes_to_copy_all == hal_size

bytes_to_copy == Minimum(hal_size, buffer - progress)

\* Slip: the clock is not looked at.
Record_untimed ==
  /\ step = "record" /\ progress < buffer
  /\ reach' = progress + bytes_to_copy
  /\ \/ \E n \in {0, 1, bytes_to_copy} :
          progress' = progress + n /\ answer' = IF n = 0 THEN "nothing" ELSE "some"
     \/ answer' = "error" /\ UNCHANGED progress
  /\ GoesTo("record")
  /\ UNCHANGED <<group, open, hal_size, buffer, elapsed, saved>>

\* Only an error is followed by a look at the clock.
Record ==
  /\ step = "record" /\ progress < buffer
  /\ reach' = progress + bytes_to_copy
  /\ \/ /\ \E n \in {0, 1, bytes_to_copy} :
             progress' = progress + n /\ answer' = IF n = 0 THEN "nothing" ELSE "some"
        /\ GoesTo("record")
     \/ /\ answer' = "error"
        /\ GoesTo(IF elapsed THEN "close" ELSE "record")
        /\ UNCHANGED progress
  /\ UNCHANGED <<group, open, hal_size, buffer, elapsed, saved>>

Recorded ==
  /\ step = "record" /\ progress >= buffer
  /\ GoesTo("close")
  /\ UNCHANGED <<group, halVars>>

CloseRecord ==
  /\ step = "close" /\ ~Playing
  /\ open' = {}
  /\ GoesTo("save")
  /\ UNCHANGED <<group, hal_size, buffer, reach, progress, answer, elapsed, saved>>

\* Whole frames of one channel.
Save ==
  /\ step = "save"
  /\ \/ saved' = (progress \div 2) * 2 /\ Ends("exit 0")
     \/ Ends("exit -1") /\ UNCHANGED saved
  /\ UNCHANGED <<group, open, hal_size, buffer, reach, progress, answer, elapsed>>

HalStep ==
  \/ ParseHalArgs \/ GetModule \/ OpenDevice \/ OpenFile \/ OpenStream
  \/ SineData \/ GenerateData \/ DataGenerated \/ WriteSine \/ SineWritten
  \/ FileData \/ PlayFile \/ ClosePlayback
  \/ RecordedData \/ Record \/ Recorded \/ CloseRecord \/ Save

\* The 30 seconds of the recording are over.
Clock ==
  /\ step = "record" /\ ~elapsed
  /\ elapsed' = TRUE
  /\ UNCHANGED <<sourceVars, open, hal_size, buffer, reach, progress, answer, saved>>
================================================================================
