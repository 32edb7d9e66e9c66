------------------------------ MODULE BootLoader -------------------------------
(***************************************************************************)
(* efi_main of bub_main.c with the A/B flow it runs (bub_ab_flow.c), over  *)
(* a misc partition whose reads and writes may fail and a machine whose    *)
(* power may be cut between, and during, any two accesses to the disk.     *)
(* What a slot's boot partition holds is reduced to what bub_boot_kernel   *)
(* makes of it (BootKernel.tla has that function in full).  The running    *)
(* system, with its Boot Control HAL and its updater, is external: it      *)
(* confirms the slot it runs from, and installs into the other one.        *)
(***************************************************************************)
EXTENDS AbMetadata

CONSTANTS
  MaxFaults,   \* disk errors and power cuts in a behaviour that counts them
  MaxUpdates   \* installations by the running system in a behaviour

ASSUME EnvironmentAssumption ==
  /\ MaxFaults \in Nat
  /\ MaxUpdates \in Nat

VARIABLES
  misc,      \* the record in the misc partition
  image,     \* what the boot partition of each slot holds
  pc,        \* where the machine is
  ab_ctl,    \* the record the current function holds in memory
  target,    \* target_slot_index_to_boot, then slot_suffix
  result,    \* the last ab_result or boot_result
  mark_ret,  \* what bub_ab_mark_as_invalid returned, NotCalled before
  starts,    \* kernels started from a slot since it was last given tries
  faults,    \* faults so far, or Endless: the disk may fail for ever
  updates    \* installations so far

vars == <<misc, image, pc, ab_ctl, target, result, mark_ret, starts, faults, updates>>

--------------------------------------------------------------------------------
NoSlot == "none"
NotCalled == -1
Endless == -1
NotInitialized == "NOT_INITIALIZED"

(* What bub_boot_kernel meets in a boot partition.  "good" and "hangs" both *)
(* start a kernel, of which only a good one ever confirms its slot;         *)
(* "exits" starts an image that returns; "badformat" fails the magic or     *)
(* the size checks; "unusable" is missing, or cannot be loaded or started.  *)
Image == {"good", "hangs", "exits", "badformat", "unusable"}

FlowResult == {"FLOW_OK", "INVALID_METADATA", "NO_VALID_SLOTS", "READ_METADATA",
               "WRITE_METADATA"}
BootResult == {"BOOT_OK", "OOM", "IO", "INVALID_FORMAT", "LOAD_KERNEL",
               "PARAMETER_LOAD", "START_KERNEL"}

\* "write" and "mark_write" hold ab_ctl, not yet on the disk.
LoaderSteps == {"flow", "reset", "write", "boot", "mark", "mark_write"}
Stopped == {"abort", "exit"}
Places == LoaderSteps \cup Stopped \cup {"off", "os"}

NoStarts == [s \in Slots |-> 0]

TypeOK ==
  /\ misc \in AbData \cup {Corrupt}
  /\ image \in [Slots -> Image]
  /\ pc \in Places
  /\ ab_ctl \in AbData
  /\ target \in Slots \cup {NoSlot}
  /\ result \in FlowResult \cup BootResult \cup {NotInitialized}
  /\ mark_ret \in {NotCalled, 0, 1, 2, 4}
  /\ starts \in [Slots -> Nat]
  /\ faults \in Nat \cup {Endless}
  /\ updates \in 0..MaxUpdates

\* The metadata may hold anything the bit fields can hold, or not be metadata.  A
\* behaviour either has MaxFaults faults at most or as many as it likes.
Init ==
  /\ misc \in AbData \cup {Corrupt}
  /\ image \in [Slots -> Image]
  /\ pc = "off"
  /\ ab_ctl = ResetMetadata
  /\ target = NoSlot
  /\ result = "FLOW_OK"
  /\ mark_ret = NotCalled
  /\ starts = NoStarts
  /\ faults \in {0, Endless}
  /\ updates = 0

--------------------------------------------------------------------------------
Fault ==
  \/ faults = Endless /\ UNCHANGED faults
  \/ faults \in 0..(MaxFaults - 1) /\ faults' = faults + 1

\* Once the record is lost, or reset, the earlier starts of a slot count for nothing.
CountFromNewRecord ==
  starts' = IF misc' = Corrupt \/ (pc = "reset" /\ misc' = ResetMetadata)
            THEN NoStarts
            ELSE starts

\* bub_write_ab_data_to_misc returning 1.
WriteSucceeds(ab) == misc' = ab /\ CountFromNewRecord /\ UNCHANGED faults

\* bub_write_ab_data_to_misc returning 0, or the power cut in the middle of it:
\* the old record, the new one, or one whose CRC fails.
WriteFails(ab) == misc' \in {misc, ab, Corrupt} /\ CountFromNewRecord /\ Fault

\* The firmware starts efi_main: bub_init succeeds, and the loop begins.
PowerOn ==
  /\ pc = "off"
  /\ pc' = "flow"
  /\ target' = NoSlot
  /\ mark_ret' = NotCalled
  /\ UNCHANGED <<misc, image, ab_ctl, result, starts, faults, updates>>

\* bub_error.
Abort(r) == pc' = "abort" /\ result' = r

\* bub_init finds no disk with a partition table it can read.
InitFails ==
  /\ pc = "off"
  /\ Fault
  /\ Abort(NotInitialized)
  /\ target' = NoSlot
  /\ mark_ret' = NotCalled
  /\ UNCHANGED <<misc, image, ab_ctl, starts, updates>>

\* bub_ab_flow up to its write: the read, and the choice made in memory.
FlowReadFails ==
  /\ pc = "flow"
  /\ Fault
  /\ Abort("READ_METADATA")
  /\ target' = NoSlot
  /\ UNCHANGED <<misc, image, ab_ctl, mark_ret, starts, updates>>

\* The magic or the CRC is wrong: on the disk, or in what one read returned.
FlowReadsCorrupt ==
  /\ pc = "flow"
  /\ IF misc = Corrupt THEN UNCHANGED faults ELSE Fault
  /\ pc' = "reset"
  /\ target' = NoSlot
  /\ UNCHANGED <<misc, image, ab_ctl, result, mark_ret, starts, updates>>

FlowChooses ==
  /\ pc = "flow"
  /\ misc # Corrupt
  /\ LET normal == NormalizeBoth(misc)
         none   == Bootable(normal) = {}
         chosen == IF none THEN NoSlot ELSE Chosen(normal)
         new    == IF none THEN normal ELSE SpendTry(normal, chosen)
     IN  /\ ab_ctl' = new
         /\ target' = chosen
         /\ \/ /\ new # misc          \* new_metadata
               /\ pc' = "write"
               /\ UNCHANGED result
            \/ /\ new = misc
               /\ none
               /\ Abort("NO_VALID_SLOTS")
            \/ /\ new = misc
               /\ ~none
               /\ pc' = "boot"
               /\ result' = "FLOW_OK"
  /\ UNCHANGED <<misc, image, mark_ret, starts, faults, updates>>

\* reset_metadata; bub_ab_flow returns the error whether it worked or not.
FlowResets ==
  /\ pc = "reset"
  /\ \/ WriteSucceeds(ResetMetadata)
     \/ WriteFails(ResetMetadata)
  /\ Abort("INVALID_METADATA")
  /\ UNCHANGED <<image, ab_ctl, target, mark_ret, updates>>

FlowWrites ==
  /\ pc = "write"
  /\ WriteSucceeds(ab_ctl)
  /\ IF target = NoSlot
     THEN Abort("NO_VALID_SLOTS")
     ELSE pc' = "boot" /\ result' = "FLOW_OK"
  /\ UNCHANGED <<image, ab_ctl, target, mark_ret, updates>>

\* Slip: the error of the write is ignored, and the slot is booted unpaid.
FlowWriteFailsUnseen ==
  /\ pc = "write"
  /\ WriteFails(ab_ctl)
  /\ IF target = NoSlot
     THEN Abort("NO_VALID_SLOTS")
     ELSE pc' = "boot" /\ result' = "FLOW_OK"
  /\ UNCHANGED <<image, ab_ctl, target, mark_ret, updates>>

FlowWriteFails ==
  /\ pc = "write"
  /\ WriteFails(ab_ctl)
  /\ Abort("WRITE_METADATA")
  /\ UNCHANGED <<image, ab_ctl, target, mark_ret, updates>>

--------------------------------------------------------------------------------
(* bub_boot_kernel, and what efi_main does with its result.                 *)

\* A start is counted while the slot has not been confirmed.
CountStart ==
  starts' = IF misc[target].successful_boot
            THEN starts
            ELSE [starts EXCEPT ![target] = @ + 1]

KernelRuns ==
  /\ pc = "boot"
  /\ image[target] \in {"good", "hangs"}
  /\ pc' = "os"
  /\ CountStart
  /\ UNCHANGED <<misc, image, ab_ctl, target, result, mark_ret, faults, updates>>

\* BUB_BOOT_RESULT_OK: the loop ends and efi_main returns EFI_SUCCESS.
KernelReturns ==
  /\ pc = "boot"
  /\ image[target] = "exits"
  /\ pc' = "exit"
  /\ result' = "BOOT_OK"
  /\ CountStart
  /\ UNCHANGED <<misc, image, ab_ctl, target, mark_ret, faults, updates>>

\* Slip: another turn of the loop, with the slot not marked.
KernelRetried ==
  /\ pc = "boot"
  /\ image[target] = "badformat"
  /\ pc' = "flow"
  /\ result' = "INVALID_FORMAT"
  /\ UNCHANGED <<misc, image, ab_ctl, target, mark_ret, starts, faults, updates>>

KernelHasBadFormat ==
  /\ pc = "boot"
  /\ image[target] = "badformat"
  /\ pc' = "mark"
  /\ result' = "INVALID_FORMAT"
  /\ UNCHANGED <<misc, image, ab_ctl, target, mark_ret, starts, faults, updates>>

KernelUnusable ==
  /\ pc = "boot"
  /\ image[target] = "unusable"
  /\ \E r \in {"IO", "LOAD_KERNEL", "START_KERNEL"} : Abort(r)
  /\ UNCHANGED <<misc, image, ab_ctl, target, mark_ret, starts, faults, updates>>

\* Slip: every failure to load the kernel marks its slot.
KernelLoadFailureMarks ==
  /\ pc = "boot"
  /\ Fault
  /\ pc' = "mark"
  /\ result' \in BootResult \ {"BOOT_OK", "INVALID_FORMAT"}
  /\ UNCHANGED <<misc, image, ab_ctl, target, mark_ret, starts, updates>>

\* An allocation, a read or another service of the firmware fails, whatever the image.
KernelLoadFails ==
  /\ pc = "boot"
  /\ Fault
  /\ \E r \in BootResult \ {"BOOT_OK", "INVALID_FORMAT"} : Abort(r)
  /\ UNCHANGED <<misc, image, ab_ctl, target, mark_ret, starts, updates>>

\* bub_ab_mark_as_invalid: a failed read returns the error of
\* bub_read_ab_data_from_misc, READ_METADATA (4) or INVALID_METADATA (2).
MarkReadFails ==
  /\ pc = "mark"
  /\ Fault
  /\ mark_ret' \in {2, 4}
  /\ pc' = "abort"
  /\ UNCHANGED <<misc, image, ab_ctl, target, result, starts, updates>>

\* Slips: the other slot is zeroed, or none.
MarkReadsOther ==
  /\ pc = "mark"
  /\ misc # Corrupt
  /\ ab_ctl' = [misc EXCEPT ![Other(target)] = ZeroSlot]
  /\ pc' = "mark_write"
  /\ UNCHANGED <<misc, image, target, result, mark_ret, starts, faults, updates>>

MarkReadsOnly ==
  /\ pc = "mark"
  /\ misc # Corrupt
  /\ ab_ctl' = misc
  /\ pc' = "mark_write"
  /\ UNCHANGED <<misc, image, target, result, mark_ret, starts, faults, updates>>

MarkReads ==
  /\ pc = "mark"
  /\ misc # Corrupt
  /\ ab_ctl' = [misc EXCEPT ![target] = ZeroSlot]
  /\ pc' = "mark_write"
  /\ UNCHANGED <<misc, image, target, result, mark_ret, starts, faults, updates>>

\* The result of the write is returned as it is: 1 for done, 0 for not done.
\* efi_main stops on a non-zero value and takes another turn on zero.
MarkWrites ==
  /\ pc = "mark_write"
  /\ WriteSucceeds(ab_ctl)
  /\ mark_ret' = 1
  /\ pc' = "abort"
  /\ UNCHANGED <<image, ab_ctl, target, result, updates>>

MarkWriteFails ==
  /\ pc = "mark_write"
  /\ WriteFails(ab_ctl)
  /\ mark_ret' = 0
  /\ pc' = "flow"
  /\ UNCHANGED <<image, ab_ctl, target, result, updates>>

--------------------------------------------------------------------------------
(* The world around the loader.                                             *)

\* What a write under way would put on the disk.
Pending ==
  IF pc = "reset" THEN ResetMetadata
  ELSE IF pc \in {"write", "mark_write"} THEN ab_ctl
  ELSE misc

PowerCut ==
  /\ pc \in LoaderSteps
  /\ pc' = "off"
  /\ IF pc \in {"reset", "write", "mark_write"}
     THEN WriteFails(Pending)
     ELSE Fault /\ UNCHANGED <<misc, starts>>
  /\ UNCHANGED <<image, ab_ctl, target, result, mark_ret, updates>>

\* A stopped loader and a running system are powered off sooner or later.
PowerOff ==
  /\ pc \in Stopped \cup {"os"}
  /\ pc' = "off"
  /\ UNCHANGED <<misc, image, ab_ctl, target, result, mark_ret, starts, faults, updates>>

ConfirmedSlot(slot) ==
  [priority |-> slot.priority, tries_remaining |-> 0, successful_boot |-> TRUE]

\* Below a slot of the highest priority.
Outranked(slot) ==
  [slot EXCEPT !.priority = IF slot.priority = MaxPriority THEN MaxPriority - 1
                            ELSE slot.priority]

\* "Boot Control HAL should do this": the running slot becomes successful.
Confirm ==
  /\ pc = "os"
  /\ image[target] = "good"
  /\ misc' = [misc EXCEPT ![target] = ConfirmedSlot(misc[target])]
  /\ UNCHANGED <<image, pc, ab_ctl, target, result, mark_ret, starts, faults, updates>>

\* A new image in the other slot, which is put on trial at the highest priority.
Update ==
  /\ pc = "os"
  /\ image[target] = "good"
  /\ updates < MaxUpdates
  /\ updates' = updates + 1
  /\ LET s == Other(target) IN
       /\ \E new \in Image : image' = [image EXCEPT ![s] = new]
       /\ misc' = [misc EXCEPT ![s] = ResetSlot, ![target] = Outranked(misc[target])]
       /\ starts' = [starts EXCEPT ![s] = 0]
  /\ UNCHANGED <<pc, ab_ctl, target, result, mark_ret, faults>>

LoaderStep ==
  \/ FlowReadFails \/ FlowReadsCorrupt \/ FlowChooses
  \/ FlowResets \/ FlowWrites \/ FlowWriteFails
  \/ KernelRuns \/ KernelReturns \/ KernelHasBadFormat \/ KernelUnusable \/ KernelLoadFails
  \/ MarkReadFails \/ MarkReads \/ MarkWrites \/ MarkWriteFails

SystemStep == Confirm \/ Update

Next == PowerOn \/ InitFails \/ LoaderStep \/ PowerCut \/ PowerOff \/ SystemStep

Spec == Init /\ [][Next]_vars

\* The firmware runs the loader on while there is power, and a machine that
\* is off, stopped or hung is switched on, or off, in the end.
FairSpec == Spec /\ WF_vars(LoaderStep) /\ WF_vars(PowerOn) /\ WF_vars(PowerOff)

--------------------------------------------------------------------------------
(* What must hold.                                                          *)

\* Where the selected slot has paid for a start it has not made yet.
InFlight(s) == pc = "boot" /\ target = s

\* Tries the record on the disk still gives slot s, and the paid one.
TriesLeft(s) ==
  normalize_slot(misc[s]).tries_remaining + (IF InFlight(s) THEN 1 ELSE 0)

\* bub_ab_flow stores the decremented tries before it returns the suffix
\* (bub_ab_flow.c:116-128): across disk errors, power cuts and new sessions, the
\* starts of a slot never confirmed, and those it may still make, stay within
\* the tries it was given.
AttemptBudget ==
  misc # Corrupt =>
    \A s \in Slots :
      ~normalize_slot(misc[s]).successful_boot => starts[s] + TriesLeft(s) <= MaxTries

\* The kernel being loaded or running comes from a slot that the record on the
\* disk, as it is by then, does not call unbootable (bub_ab_flow.h:47-48), and no
\* bootable slot outranks it while it is loaded (bub_ab_flow.c:96-107).
RunsTheBestLiveSlot ==
  /\ pc \in {"boot", "mark", "mark_write", "os", "exit"} =>
       misc # Corrupt /\ target \in Slots
  /\ pc \in {"boot", "os", "exit"} => misc[target].priority > 0
  /\ pc = "boot" =>
       \A s \in Bootable(misc) : misc[s].priority <= misc[target].priority

\* The device is only declared dead (bub_ab_flow.c:108-114) when the record on
\* the disk, as far as the loader can tell, has given up both slots.
GivesUpOnlyWhenDead ==
  pc = "abort" /\ result = "NO_VALID_SLOTS" => misc = [s \in Slots |-> ZeroSlot]

Demoted(old, new) ==
  /\ new.priority <= old.priority
  /\ new.tries_remaining <= old.tries_remaining
  /\ new.successful_boot => old.successful_boot

DemotingStep ==
  pc # "os" /\ misc # Corrupt /\ misc' \notin {Corrupt, misc} =>
    \/ pc = "reset" /\ misc' = ResetMetadata
    \/ \A s \in Slots : Demoted(misc[s], misc'[s])

\* Outside the running system, a record on the disk changes only by taking away:
\* an exhausted or invalidated slot is never revived.  The one exception is the
\* reset, which gives all (bub_ab_flow.c:45-59).
LoaderOnlyDemotes == [][DemotingStep]_vars

Confirmed(slot) == slot.priority > 0 /\ slot.successful_boot /\ slot.tries_remaining = 0

ConfirmedKept ==
  pc \notin {"os", "reset"} /\ misc # Corrupt /\ misc' # Corrupt =>
    \A s \in Slots :
      Confirmed(misc[s]) /\ image[s] # "badformat" => misc'[s] = misc[s]

\* A confirmed slot is left as it is by everything the loader does with the other
\* one, and by its own failures too unless its image has a bad format
\* (bub_main.c:55-64): only losing the whole record can cost it its place.
ConfirmedSurvives == [][ConfirmedKept]_vars

\* A good kernel the record will let the loader reach: confirmed, or with more
\* tries than there are faults to come, and not ranked behind a confirmed slot
\* whose kernel does not come up, which the loader boots for ever.
Blocks(s) ==
  /\ image[s] \in {"hangs", "exits", "unusable"}
  /\ Confirmed(misc[s])
  /\ Chosen(NormalizeBoth(misc)) = s

FaultsLeft == MaxFaults - faults

Reachable(s) ==
  /\ faults # Endless
  /\ image[s] = "good"
  /\ IF misc = Corrupt
     THEN MaxTries > FaultsLeft
     ELSE /\ ~Blocks(Other(s))
          /\ LET slot == normalize_slot(misc[s]) IN
               slot.successful_boot \/ slot.tries_remaining > FaultsLeft

\* The purpose of the fallback (bub_main.c:46-66): whatever the other slot holds,
\* a good kernel that can be reached runs in the end, once faults stop.
FallsBackToGoodKernel ==
  (\E s \in Slots : Reachable(s)) ~> (pc = "os" /\ image[target] = "good")

\* The loop of bub_main.c:48-66 has no bound of its own: what ends it is that a slot
\* of a bad format is marked, or that its tries are spent.  However often the disk
\* fails, a session that goes on for ever is one in which marks fail to be written
\* again and again, and not one that retries a slot it has not tried to mark.
EndlessSessionFailsMarks ==
  <>[](pc \in LoaderSteps) => []<><<MarkWriteFails>>_vars

\* "Could not mark slot invalid." (bub_main.c:59-60): a slot that cannot be marked
\* stops the loader, so that every session ends, in a kernel, in an error or in a
\* loss of power, whatever the disk does.  One whose mark fails to be written does not:
\* the 0 of the failed write (bub_ab_flow.c:152) is taken for success.
SessionEnds == (pc = "flow") ~> (pc \notin LoaderSteps)

\* "@return: 0 on success. 1 on failure." (bub_ab_flow.h:109): as long as every
\* access to the disk has worked, efi_main has no reason to give up marking.
MarkStopsOnlyOnFailure == pc = "abort" /\ mark_ret # NotCalled => faults # 0

--------------------------------------------------------------------------------
(* The inductive invariant behind the properties above.                     *)

\* The record about to be written is the normalised one on the disk, less the
\* try of the slot that was chosen from it.
WriteHoldsChoice ==
  pc = "write" =>
    /\ misc # Corrupt
    /\ LET normal == NormalizeBoth(misc) IN
         IF target = NoSlot
         THEN Bootable(normal) = {} /\ ab_ctl = normal
         ELSE /\ Bootable(normal) # {}
              /\ target = Chosen(normal)
              /\ ab_ctl = SpendTry(normal, target)

MarkHoldsZeroedSlot ==
  /\ pc \in {"mark", "mark_write"} =>
       result = "INVALID_FORMAT" /\ image[target] = "badformat"
  /\ pc = "mark_write" => ab_ctl = [misc EXCEPT ![target] = ZeroSlot]

\* While a kernel is loaded its slot is either confirmed or under trial, and the
\* other slot is in one of the states the normalisation leaves.
LoadsNormalizedRecord ==
  pc = "boot" =>
    /\ misc[target].successful_boot => misc[target].tries_remaining = 0
    /\ Proper(misc[Other(target)])

StartsBounded ==
  /\ \A s \in Slots : starts[s] <= MaxTries
  /\ misc = Corrupt => starts = NoStarts

\* What every step keeps, and what AttemptBudget and its companions follow from:
\* the memory of the loader agrees with the disk at every place where the power
\* may be cut.
IInv ==
  /\ TypeOK
  /\ WriteHoldsChoice
  /\ MarkHoldsZeroedSlot
  /\ LoadsNormalizedRecord
  /\ StartsBounded
  /\ AttemptBudget
  /\ RunsTheBestLiveSlot
  /\ GivesUpOnlyWhenDead

--------------------------------------------------------------------------------
(* The loader implements the promise.                                       *)

\* A lost record is worth what the reset will make of it; a try that has been paid
\* and not yet used belongs to the slot still.
Budget(s) ==
  IF misc = Corrupt THEN MaxTries
  ELSE IF InFlight(s) /\ Worth(misc[s]) # -1 THEN Worth(misc[s]) + 1
  ELSE Worth(misc[s])

Budgets == [s \in Slots |-> Budget(s)]

Running == IF pc \in {"os", "exit"} THEN target ELSE NoSlot

Promise == INSTANCE AbPromise WITH budget <- Budgets, running <- Running

\* Every step of the loader and its surroundings is one the promise allows.
KeepsPromise == Promise!PromiseSpec

================================================================================
