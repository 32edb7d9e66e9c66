------------------------------ MODULE AudioTests -------------------------------
(***************************************************************************)
(* The three programs under pts/audio: one of them is run, once.           *)
(***************************************************************************)
EXTENDS AudioHalTest, BrilloAudioTest

vars == <<sourceVars, halVars, libVars>>

TypeOK ==
  /\ args \in Playbacks \cup Records \cup Flags
  /\ group \in {"none", "free", "held"}
  /\ open \subseteq {"device", "stream"}
  /\ {hal_size, buffer, reach, progress, saved, recorded, written} \subseteq Nat
  /\ recorded <= MaxChunks
  /\ answer \in {"some", "nothing", "error"}
  /\ {elapsed, late} \subseteq BOOLEAN
  /\ media \in {"none", "made", "running", "stopped"}
  /\ source \in {"none", "live", "missing", "gone"}
  /\ callback \in {"idle", "busy"}
  /\ out_file \in {"none", "open", "closed"}
  /\ outcome \in {"none", "abort", "error", "exit 0", "exit 1", "exit -1"}
  /\ step = "over" <=> outcome # "none"

Init ==
  /\ \/ args \in Playbacks \cup Records /\ step = "hal_args"
     \/ args \in Flags /\ step = "flags"
  /\ group = "none" /\ outcome = "none"
  /\ HalInit /\ LibInit

Main == (HalStep /\ UNCHANGED libVars) \/ (MainStep /\ UNCHANGED halVars)

Next ==
  \/ Main
  \/ Clock /\ UNCHANGED libVars
  \/ CallbackStep /\ UNCHANGED halVars

Spec == Init /\ [][Next]_vars

\* The main thread runs on where it can, and time goes by.
FairSpec == Spec /\ WF_vars(Main) /\ WF_vars(Clock /\ UNCHANGED libVars)

--------------------------------------------------------------------------------
(* What must hold.                                                          *)

\* A HAL whose buffer never grows beyond what it said first, and a file of one channel,
\* or a sine: what PlayFile allocates is half of what it reads into for two.
Fits == ~Playing \/ args.file = Sine \/ (args.file.channels = 1 /\ \A n \in HalSizes : n <= hal_size)

\* Whatever sizes the HAL answers with, nothing is read or written behind the data to
\* play, and the HAL is never asked for more of the recording than there is room for
\* (audio_hal_playback_test.cpp:91-99, audio_hal_record_test.cpp:109-127).
StaysInBuffer ==
  args.test # "brillo" /\ buffer > 0 => (Fits => reach <= buffer) /\ (~Playing => progress <= buffer)

\* A callback fills from a file that is open, or from a buffer that is held, but for one
\* under way while stop() returned, and for a file that was never opened
\* (libmedia_playback.cpp:50-81 against 126-132).
FillsFromLiveSource ==
  callback = "busy" /\ args.playback => source = "live" \/ late \/ source = "missing"

\* A recording that is reported as a success is in the file, all that the callbacks have
\* delivered, but for one under way while stop() returned (libmedia_record.cpp:94-134).
RecordingIsComplete ==
  outcome = "exit 0" /\ args.test = "brillo" /\ args.record =>
    /\ out_file = "closed"
    /\ args.libmedia /\ ~late => written = recorded

\* "brillo_audio_test ran successfully." (brillo_audio_test.cpp:147) is said of a test
\* whose track, player or record has been started, and a sine that has been played is
\* given back, so that its source goes without complaint.
SuccessMeansPlayed ==
  args.test = "brillo" =>
    /\ outcome = "exit 0" => media \in {"running", "stopped"}
    /\ outcome = "abort" /\ args.playback => media \notin {"running", "stopped"}

\* Every program ends, if the sine fits in the buffer of its source and the HAL does not
\* answer reads with nothing for ever: the 30 seconds bound errors only
\* (audio_hal_record_test.cpp:107-127, audio_hal_playback_test.cpp:50-69).
ProgramsEnd ==
  /\ [](step = "generate" => buffer <= sine_bytes(2))
  /\ []<>(step # "record" \/ answer # "nothing")
  => <>(step = "over")

--------------------------------------------------------------------------------
(* Why it holds: what the programs know at each step.                        *)

BeforeData == {"hal_args", "module", "device", "open_file", "stream", "sine_data", "file_data", "recorded_data"}
HalSteps == BeforeData \cup {"generate", "generated", "write_sine", "play_file", "record", "close", "save"}

BeforeMedia == {"flags", "init_sine", "read_sine", "init_file", "file_source", "media", "min_frames", "audio_source"}
AfterSleep == {"release", "played", "open_out", "write_out", "close_out"}
LibSteps == BeforeMedia \cup {"start", "sleep"} \cup AfterSleep

\* One of the programs runs, and the others leave what is theirs alone.
OneProgram ==
  /\ args.test = "brillo" => step \in LibSteps \cup {"over"}
  /\ args.test # "brillo" => step \in HalSteps \cup {"over"} /\ callback = "idle" /\ media = "none"

\* What is played or recorded by the HAL follows from the step, and stays in the buffer.
HalInv ==
  args.test # "brillo" =>
    /\ step \in {"sine_data", "generate", "generated", "write_sine"} => Playing /\ ~PlaysFile
    /\ step \in {"open_file", "file_data", "play_file"} => PlaysFile
    /\ step \in {"stream", "file_data", "play_file"} /\ PlaysFile => args.file # Missing
    /\ step \in {"recorded_data", "record", "save"} => ~Playing
    /\ step \in BeforeData => reach = 0 /\ progress = 0
    /\ step = "play_file" => progress <= args.file.frames /\ buffer = (hal_size \div file_frame) * 2
    /\ buffer > 0 => hal_size > 0
    /\ hal_size > 0 => (Fits => reach <= buffer)
    /\ ~Playing => progress <= buffer

\* Which of the four tests runs follows from the flags.
FlagsChooseStep ==
  /\ step \in {"init_sine", "read_sine", "init_file", "file_source", "release", "played"} => args.playback
  /\ step \in {"min_frames", "audio_source", "open_out", "write_out", "close_out"} => args.record
  /\ step \in {"read_sine", "init_file", "media", "release", "min_frames"} => args.libmedia
  /\ step \in {"init_sine", "read_sine"} => args.sine
  /\ step \in {"init_file", "file_source"} => ~args.sine
  /\ step \in {"file_source", "audio_source"} => ~args.libmedia
  /\ step \in LibSteps \ {"flags"} => (args.record <=> ~args.playback)

\* stop() comes between the last callback that begins and all that follows.
MediaFollowsStep ==
  /\ step \in BeforeMedia => media = "none"
  /\ step = "start" => media \in {"none", "made"}
  /\ step = "sleep" => media = "running"
  /\ step \in AfterSleep => media \in {"running", "stopped"} /\ (args.libmedia => media = "stopped")
  /\ media = "running" /\ args.libmedia => step = "sleep"

\* A callback is under way between start() and stop(), or was when stop() returned.
CallbackIsInTime ==
  callback = "busy" => args.libmedia /\ (media = "running" \/ (media = "stopped" /\ late))

\* The file or the buffer is there from before start() until stop() has returned.
SourceIsHeld ==
  args.playback /\ args.libmedia /\ step \in {"read_sine", "media", "start", "sleep", "release"} =>
    source \in {"live", "missing"}

LibInv ==
  args.test = "brillo" =>
    /\ FlagsChooseStep
    /\ MediaFollowsStep
    /\ CallbackIsInTime
    /\ SourceIsHeld
    /\ FillsFromLiveSource
    /\ step = "close_out" /\ args.libmedia /\ ~late => written = recorded
    /\ step = "played" /\ args.libmedia /\ args.sine => group # "held"
    /\ RecordingIsComplete
    /\ SuccessMeansPlayed

AudioInv == TypeOK /\ OneProgram /\ HalInv /\ LibInv
================================================================================
