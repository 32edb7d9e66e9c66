------------------------------- MODULE SineSource ------------------------------
(***************************************************************************)
(* SineSource.cpp: a source whose group holds one buffer, which read hands *)
(* out and the reader gives back.  Shared with the programs that use it:   *)
(* where their main thread is, and how they end.                           *)
(***************************************************************************)
EXTENDS Integers, FiniteSets

CONSTANT kBufferSize  \* the bytes of the buffer

VARIABLES
  args,    \* the command line of the program
  group,   \* of the source: not there, with its buffer, or with the buffer handed out
  step,    \* where the main thread is
  outcome  \* the exit status, or that the program was stopped

sourceVars == <<args, group, step, outcome>>

frame_size(channels, sample_size) == channels * sample_size

\* What the buffer holds, in whole frames of 16 bits a sample.
sine_bytes(channels) ==
  (kBufferSize \div frame_size(channels, 2)) * frame_size(channels, 2)

GoesTo(s) == step' = s /\ UNCHANGED <<args, outcome>>

\* Slip: the status is lost on the way out.
Ends_without(o) == step' = "over" /\ UNCHANGED <<args, outcome>>

Ends(o) == step' = "over" /\ outcome' = o /\ UNCHANGED args

\* CHECK(numChannels == 1 || numChannels == 2), then start.
Starts(channels) == channels \in {1, 2} /\ group' = "free"

\* acquire_buffer waits until the buffer is in the group.
Reads == group = "free" /\ group' = "held"

\* A group that is deleted must have its buffer back.
Stops(after) ==
  IF group = "held" THEN Ends("abort") /\ UNCHANGED group ELSE group' = "none" /\ after
================================================================================
