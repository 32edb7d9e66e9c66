------------------------------ MODULE AbMetadata ------------------------------
(***************************************************************************)
(* The A/B metadata that the boot loader keeps in the "misc" partition:    *)
(* BubAbData and BubSlotData of bub_ab_flow.h, and the pure steps of       *)
(* bub_ab_flow.c that interpret it.  The magic and the CRC are kept only   *)
(* as the question the reader asks of them: a record that fails either is  *)
(* the value Corrupt.  The reserved and version fields decide nothing.     *)
(***************************************************************************)
EXTENDS Integers

CONSTANTS
  MaxPriority,  \* 15 in the code: what four bits of priority hold
  MaxTries,     \* 7 in the code: what three bits of tries_remaining hold
  Corrupt       \* a record whose magic or CRC does not match

ASSUME BitFieldAssumption ==
  /\ MaxPriority \in Nat \ {0, 1}  \* two ranks at least, or no slot could be second
  /\ MaxTries \in Nat \ {0}

\* bub_suffixes[]: the position in the list is the index of the slot.
Slots == {"_a", "_b"}

Other(s) == IF s = "_a" THEN "_b" ELSE "_a"

SlotData == [priority        : 0..MaxPriority,
             tries_remaining : 0..MaxTries,
             successful_boot : BOOLEAN]

AbData == [Slots -> SlotData]

ASSUME CorruptAssumption == Corrupt \notin AbData

\* bub_memset(slot, 0, sizeof(BubSlotData))
ZeroSlot == [priority |-> 0, tries_remaining |-> 0, successful_boot |-> FALSE]

\* The slot that reset_metadata writes for both A and B.
ResetSlot ==
  [priority |-> MaxPriority, tries_remaining |-> MaxTries, successful_boot |-> FALSE]

ResetMetadata == [s \in Slots |-> ResetSlot]

\* No tries left and never successful, or attributes on a slot of priority 0.
Unusable(slot) ==
  IF slot.priority > 0
  THEN slot.tries_remaining = 0 /\ ~slot.successful_boot
  ELSE slot.tries_remaining # 0 \/ slot.successful_boot

\* A slot cannot be both under trial and successful: the trial wins.
Contradictory(slot) ==
  slot.priority > 0 /\ slot.tries_remaining > 0 /\ slot.successful_boot

Proper(slot) == ~Unusable(slot) /\ ~Contradictory(slot)

\* Slip: a slot taken back to its trial gets all of its tries again.
normalize_slot_refilling(slot) ==
  IF Unusable(slot) THEN ZeroSlot
  ELSE IF Contradictory(slot)
       THEN [slot EXCEPT !.successful_boot = FALSE, !.tries_remaining = MaxTries]
  ELSE slot

normalize_slot(slot) ==
  IF Unusable(slot) THEN ZeroSlot
  ELSE IF Contradictory(slot) THEN [slot EXCEPT !.successful_boot = FALSE]
  ELSE slot

NormalizeBoth(ab) == [s \in Slots |-> normalize_slot(ab[s])]

\* Slip: a confirmed slot has no tries left, and is bootable all the same.
slot_has_tries(slot) == slot.tries_remaining > 0

slot_is_bootable(slot) == slot.successful_boot \/ slot.tries_remaining > 0

Bootable(ab) == {s \in Slots : slot_is_bootable(ab[s])}

\* Slip: the comparison of the priorities the other way round.
ChosenLowest(ab) ==
  IF Bootable(ab) = Slots
  THEN IF ab["_b"].priority < ab["_a"].priority THEN "_b" ELSE "_a"
  ELSE CHOOSE s \in Slots : s \in Bootable(ab)

\* B is chosen over a bootable A only when its priority is strictly higher.
Chosen(ab) ==
  IF Bootable(ab) = Slots
  THEN IF ab["_b"].priority > ab["_a"].priority THEN "_b" ELSE "_a"
  ELSE CHOOSE s \in Slots : s \in Bootable(ab)

\* Slips: the decrement without its guard, and no decrement.
SpendTryUnguarded(ab, s) == [ab EXCEPT ![s].tries_remaining = @ - 1]
SpendNothing(ab, s) == ab

\* "Found usable slot to attempt boot on": a slot under trial loses a try.
SpendTry(ab, s) ==
  IF ab[s].tries_remaining > 0
  THEN [ab EXCEPT ![s].tries_remaining = @ - 1]
  ELSE ab

\* What a slot record is worth in starts to come; -1 for no end of them.
Worth(slot) ==
  IF normalize_slot(slot).successful_boot THEN -1 ELSE normalize_slot(slot).tries_remaining
================================================================================
