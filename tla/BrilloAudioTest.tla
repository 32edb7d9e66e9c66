---------------------------- MODULE BrilloAudioTest ----------------------------
(***************************************************************************)
(* brillo_audio_test: its flags, and the four tests of libmedia and of     *)
(* stagefright it chooses from.  A track or a record runs a thread of its  *)
(* own that calls back for data, beside the main thread; stop() keeps it   *)
(* from calling again and does not wait for a call under way.              *)
(***************************************************************************)
EXTENDS SineSource

CONSTANTS
  Channels,     \* values of --num_channels
  SampleSizes,  \* of --sample_size, in bytes
  MaxChunks     \* as many chunks of samples are recorded, at most

ASSUME LibraryAssumption == Channels \cup SampleSizes \subseteq Nat /\ MaxChunks \in Nat

VARIABLES
  media,     \* the AudioTrack, AudioRecord, AudioPlayer or AudioSource
  source,    \* in_file_ or sine_data_buffer_, as the callbacks see it
  callback,  \* whether the other thread is in the callback
  late,      \* it was, when stop() returned
  recorded,  \* chunks in audio_data_, or owed by the source
  written,   \* chunks written to the file
  out_file   \* the file the recording goes to

libVars == <<media, source, callback, late, recorded, written, out_file>>

Flags == [test : {"brillo"}, libmedia : BOOLEAN, stagefright : BOOLEAN, playback : BOOLEAN,
          record : BOOLEAN, sine : BOOLEAN, filename : BOOLEAN,
          num_channels : Channels, sample_size : SampleSizes]

LibInit ==
  /\ media = "none" /\ source = "none" /\ callback = "idle" /\ late = FALSE
  /\ recorded = 0 /\ written = 0 /\ out_file = "none"

--------------------------------------------------------------------------------
\* 3 bytes are no format, and have no size.
get_format(sample_size) == IF sample_size \in {1, 2, 4} THEN sample_size ELSE 0

OneOf(a, b) == a # b

ValidFlags ==
  /\ OneOf(args.libmedia, args.stagefright)
  /\ OneOf(args.playback, args.record)
  /\ args.record => args.filename
  /\ args.playback => OneOf(args.sine, args.filename)

ParseFlags ==
  /\ step = "flags"
  /\ IF ~ValidFlags THEN Ends("exit 1")
     ELSE IF args.playback
       THEN GoesTo(IF args.sine THEN "init_sine" ELSE IF args.libmedia THEN "init_file" ELSE "file_source")
       ELSE GoesTo(IF args.libmedia THEN "min_frames" ELSE "audio_source")
  /\ UNCHANGED <<group, libVars>>

\* main returns the status of the test.  LibmediaPlayback, whose member source_ is,
\* goes with it.
Returns(status) ==
  IF args.libmedia /\ args.playback /\ args.sine
    THEN Stops(Ends(status))
    ELSE Ends(status) /\ UNCHANGED group

--------------------------------------------------------------------------------
\* Playback.

\* InitSine, and PlayStagefrightSine: the player takes the source and starts it.
InitSine ==
  /\ step = "init_sine"
  /\ \/ /\ args.num_channels \notin {1, 2}
        /\ Ends("abort") /\ UNCHANGED <<group, source>>
     \/ /\ Starts(args.num_channels)
        /\ source' = "live"
        /\ GoesTo(IF args.libmedia THEN "read_sine" ELSE "start")
  /\ UNCHANGED <<media, callback, late, recorded, written, out_file>>

ReadSine ==
  /\ step = "read_sine"
  /\ Reads
  /\ GoesTo("media")
  /\ UNCHANGED libVars

\* sf_open is not tested for NULL: without a file the callbacks look for a sine.
InitFile ==
  /\ step = "init_file"
  /\ source' \in {"live", "missing"}
  /\ GoesTo("media")
  /\ UNCHANGED <<group, media, callback, late, recorded, written, out_file>>

\* Without an extractor for the file, a track in it or a decoder for that, a null pointer
\* is followed.
FileSource ==
  /\ step = "file_source"
  /\ \/ source' = "live" /\ GoesTo("start") /\ UNCHANGED group
     \/ Returns("error") /\ UNCHANGED source
     \/ Ends("abort") /\ UNCHANGED <<group, source>>
  /\ UNCHANGED <<media, callback, late, recorded, written, out_file>>

\* The format, of which a file brings its own, is one that initCheck refuses if it is none.
InitCheck ==
  /\ step = "media"
  /\ \/ /\ (args.filename /\ args.playback) \/ get_format(args.sample_size) # 0
        /\ media' = "made" /\ GoesTo("start") /\ UNCHANGED group
     \/ Returns("error") /\ UNCHANGED media
  /\ UNCHANGED <<source, callback, late, recorded, written, out_file>>

Start ==
  /\ step = "start"
  /\ \/ media' = "running" /\ GoesTo("sleep") /\ UNCHANGED group
     \/ Returns("error") /\ UNCHANGED media
  /\ UNCHANGED <<source, callback, late, recorded, written, out_file>>

\* The callbacks of a track fill its buffers from the source, those of a record take
\* what it has recorded.  A player does its own reading.
CallbackBegins ==
  /\ media = "running" /\ args.libmedia /\ callback = "idle" /\ step # "over"
  /\ callback' = "busy"
  /\ UNCHANGED <<sourceVars, media, source, late, recorded, written, out_file>>

CallbackEnds ==
  /\ callback = "busy" /\ step # "over"
  /\ callback' = "idle"
  /\ \/ args.record /\ recorded < MaxChunks /\ recorded' = recorded + 1
     \/ UNCHANGED recorded
  /\ UNCHANGED <<sourceVars, media, source, late, written, out_file>>

\* Slip: the file is closed, or the buffer released, before stop().
Stop_behind_release ==
  /\ step = "sleep"
  /\ media' = media /\ late' = FALSE
  /\ source' = IF args.playback THEN "gone" ELSE source
  /\ GoesTo(IF args.record THEN "open_out" ELSE IF args.libmedia THEN "release" ELSE "played")
  /\ UNCHANGED <<group, callback, recorded, written, out_file>>

\* Slip: the recording goes on while it is written.
Stop_left_out ==
  /\ step = "sleep"
  /\ GoesTo(IF args.record THEN "open_out" ELSE IF args.libmedia THEN "release" ELSE "played")
  /\ UNCHANGED <<group, libVars>>

\* sleep, then stop(), or pause(); PlayStagefrightFile and the recording of
\* stagefright go on without.
Stop ==
  /\ step = "sleep"
  /\ LET stops == args.libmedia \/ (args.playback /\ args.sine) IN
     /\ media' = IF stops THEN "stopped" ELSE media
     /\ late' = (stops /\ callback = "busy")
  /\ GoesTo(IF args.record THEN "open_out" ELSE IF args.libmedia THEN "release" ELSE "played")
  /\ UNCHANGED <<group, source, callback, recorded, written, out_file>>

\* Slip: the buffer is not given back.
Release_nothing ==
  /\ step = "release"
  /\ source' = "gone"
  /\ GoesTo("played")
  /\ UNCHANGED <<group, media, callback, late, recorded, written, out_file>>

\* sf_close of the file, or the release of the buffer with the sine.
Release ==
  /\ step = "release"
  /\ source' = "gone"
  /\ group' = IF args.sine THEN "free" ELSE group
  /\ GoesTo("played")
  /\ UNCHANGED <<media, callback, late, recorded, written, out_file>>

Played ==
  /\ step = "played"
  /\ Returns("exit 0")
  /\ UNCHANGED libVars

--------------------------------------------------------------------------------
\* Recording.

\* No least number of frames is known for a format that is none.
MinFrameCount ==
  /\ step = "min_frames"
  /\ \/ get_format(args.sample_size) # 0 /\ GoesTo("media") /\ UNCHANGED group
     \/ Returns("error")
  /\ UNCHANGED libVars

AudioSource ==
  /\ step = "audio_source"
  /\ \/ media' = "made" /\ GoesTo("start") /\ UNCHANGED group
     \/ Returns("error") /\ UNCHANGED media
  /\ UNCHANGED <<source, callback, late, recorded, written, out_file>>

\* The source of stagefright owes what has been played in the time.
OpenOutFile ==
  /\ step = "open_out"
  /\ \/ /\ out_file' = "open"
        /\ recorded' = IF args.libmedia THEN recorded ELSE MaxChunks
        /\ GoesTo("write_out") /\ UNCHANGED group
     \/ Returns("error") /\ UNCHANGED <<out_file, recorded>>
  /\ UNCHANGED <<media, source, callback, late, written>>

\* All at once, CHECKed against the number of frames in audio_data_.
WriteRecorded ==
  /\ step = "write_out" /\ args.libmedia
  /\ \/ written' = recorded /\ GoesTo("close_out")
     \/ Ends("abort") /\ UNCHANGED written
  /\ UNCHANGED <<group, media, source, callback, late, recorded, out_file>>

\* A buffer at a time, until there is enough or nothing comes; none of them is
\* released, and the result of the write is not looked at.
WriteRead ==
  /\ step = "write_out" /\ ~args.libmedia
  /\ \/ written < recorded /\ written' = written + 1 /\ GoesTo("write_out")
     \/ UNCHANGED written /\ GoesTo("close_out")
  /\ UNCHANGED <<group, media, source, callback, late, recorded, out_file>>

CloseOutFile ==
  /\ step = "close_out"
  /\ out_file' = "closed"
  /\ Returns("exit 0")
  /\ UNCHANGED <<media, source, callback, late, recorded, written>>

MainStep ==
  \/ ParseFlags \/ InitSine \/ ReadSine \/ InitFile \/ FileSource \/ InitCheck \/ Start
  \/ Stop \/ Release \/ Played
  \/ MinFrameCount \/ AudioSource \/ OpenOutFile \/ WriteRecorded \/ WriteRead \/ CloseOutFile

CallbackStep == CallbackBegins \/ CallbackEnds
================================================================================
