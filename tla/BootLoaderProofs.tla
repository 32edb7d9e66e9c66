--------------------------- MODULE BootLoaderProofs ----------------------------
(* The loader keeps its inductive invariant, for every width of the bit fields, *)
(* every bound on faults and updates, and disks that fail for ever.             *)
EXTENDS BootLoader, AbMetadataProofs

\* Zeroing a slot, as bub_ab_mark_as_invalid does, concerns that slot alone.
LEMMA ZeroedSlotEffect ==
  ASSUME NEW ab \in AbData, NEW s \in Slots
  PROVE  LET n == [ab EXCEPT ![s] = ZeroSlot] IN
         /\ n \in AbData
         /\ n[s] = ZeroSlot
         /\ \A o \in Slots : o # s => n[o] = ab[o]
BY SlotConstants DEF AbData

\* What FlowChooses computes, whichever way it goes.
LEMMA ChoiceIsARecord ==
  ASSUME NEW ab \in AbData, Bootable(NormalizeBoth(ab)) # {}
  PROVE  /\ Chosen(NormalizeBoth(ab)) \in Slots
         /\ SpendTry(NormalizeBoth(ab), Chosen(NormalizeBoth(ab))) \in AbData
<1>1. Chosen(NormalizeBoth(ab)) \in Slots
  BY NormalizeBothIsProper, ChosenIsBest DEF Bootable
<1> QED BY <1>1, NormalizeBothIsProper, SpendTryEffect

\* What the running system writes for its own slot.
LEMMA ConfirmedSlotFields ==
  ASSUME NEW slot \in SlotData
  PROVE  /\ ConfirmedSlot(slot) \in SlotData
         /\ ConfirmedSlot(slot).priority = slot.priority
         /\ ConfirmedSlot(slot).tries_remaining = 0
         /\ ConfirmedSlot(slot).successful_boot = TRUE
BY BitFieldAssumption, SlotFields DEF ConfirmedSlot, SlotData

\* The rank that an update leaves to the running slot: still a slot, and still as good.
LEMMA OutrankedFields ==
  ASSUME NEW slot \in SlotData
  PROVE  /\ Outranked(slot) \in SlotData
         /\ slot.priority > 0 <=> Outranked(slot).priority > 0
         /\ Outranked(slot).tries_remaining = slot.tries_remaining
         /\ Outranked(slot).successful_boot = slot.successful_boot
<1> DEFINE p == IF slot.priority = MaxPriority THEN MaxPriority - 1 ELSE slot.priority
<1>1. p \in 0..MaxPriority /\ (slot.priority > 0 <=> p > 0)
  BY SlotFields, BitFieldAssumption
<1> HIDE DEF p
<1>2. Outranked(slot) = [slot EXCEPT !.priority = p]
  BY DEF Outranked, p
<1> QED BY <1>1, <1>2 DEF SlotData

\* Two records installed in the two slots.
LEMMA InstalledEffect ==
  ASSUME NEW ab \in AbData, NEW t \in Slots
  PROVE  LET n == [ab EXCEPT ![Other(t)] = ResetSlot, ![t] = Outranked(ab[t])] IN
         /\ Other(t) \in Slots /\ Other(t) # t
         /\ \A s \in Slots : s = t \/ s = Other(t)
         /\ n \in AbData
         /\ n[t] = Outranked(ab[t])
         /\ n[Other(t)] = ResetSlot
<1>1. /\ Other(t) \in Slots /\ Other(t) # t
      /\ \A s \in Slots : s = t \/ s = Other(t)
  BY DEF Other, Slots
<1>2. Outranked(ab[t]) \in SlotData /\ ResetSlot \in SlotData
  BY OutrankedFields, SlotConstants DEF AbData
<1> QED BY <1>1, <1>2 DEF AbData

\* No suffix has been selected: bub_ab_flow.c:73 clears it.
LEMMA NoSlotIsNoSlot == NoSlot \notin Slots
BY DEF NoSlot, Slots

\* The initial states satisfy the invariant.
LEMMA InitIInv == Init => IInv
<1> SUFFICES ASSUME Init PROVE IInv
  OBVIOUS
<1>1. TypeOK
  BY SlotConstants, EnvironmentAssumption
  DEF Init, TypeOK, Places, LoaderSteps, Stopped, FlowResult, BootResult, NotCalled,
      NoStarts
<1>2. WriteHoldsChoice /\ MarkHoldsZeroedSlot /\ LoadsNormalizedRecord
  BY DEF Init, WriteHoldsChoice, MarkHoldsZeroedSlot, LoadsNormalizedRecord
<1>3. StartsBounded
  BY BitFieldAssumption DEF Init, StartsBounded, NoStarts
<1>4. AttemptBudget
  <2> SUFFICES ASSUME misc # Corrupt, NEW s \in Slots
               PROVE  starts[s] + TriesLeft(s) <= MaxTries
    BY DEF AttemptBudget
  <2>1. normalize_slot(misc[s]) \in SlotData
    BY NormalizeIsProper, RecordSlots DEF Init
  <2>2. starts[s] = 0 /\ ~InFlight(s)
    BY DEF Init, NoStarts, InFlight
  <2> QED BY <2>1, <2>2, SlotFields, BitFieldAssumption DEF TriesLeft
<1>5. RunsTheBestLiveSlot /\ GivesUpOnlyWhenDead
  BY DEF Init, RunsTheBestLiveSlot, GivesUpOnlyWhenDead
<1> QED BY <1>1, <1>2, <1>3, <1>4, <1>5 DEF IInv

\* Every step keeps every variable in its type.
LEMMA NextTypeOK ==
  ASSUME IInv, [Next]_vars
  PROVE  TypeOK'
<1> USE DEF Places, LoaderSteps, Stopped, FlowResult, BootResult, NotCalled, NoStarts
<1>0. TypeOK
  BY DEF IInv
<1>1. CASE UNCHANGED vars
  BY <1>0, <1>1 DEF TypeOK, vars
<1>2. CASE PowerOn
  BY <1>0, <1>2 DEF TypeOK, PowerOn, NoSlot
<1>3. ASSUME Fault PROVE faults' \in Nat \cup {Endless}
  BY <1>0, <1>3 DEF TypeOK, Fault
<1>4. ASSUME NEW ab \in AbData, WriteSucceeds(ab) \/ WriteFails(ab)
      PROVE  /\ misc' \in AbData \cup {Corrupt}
             /\ starts' \in [Slots -> Nat]
             /\ faults' \in Nat \cup {Endless}
  BY <1>0, <1>3, <1>4 DEF TypeOK, WriteSucceeds, WriteFails, CountFromNewRecord
<1>5. CASE InitFails \/ FlowReadFails
  BY <1>0, <1>3, <1>5 DEF TypeOK, InitFails, FlowReadFails, Abort, NoSlot
<1>6. CASE FlowReadsCorrupt
  BY <1>0, <1>3, <1>6 DEF TypeOK, FlowReadsCorrupt, NoSlot
<1>7. CASE FlowChooses
  <2>1. misc \in AbData
    BY <1>0, <1>7 DEF FlowChooses, TypeOK
  <2>2. ab_ctl' \in AbData /\ target' \in Slots \cup {NoSlot}
    BY <1>7, <2>1, ChoiceIsARecord, NormalizeBothIsProper DEF FlowChooses
  <2>3. pc' \in Places /\ result' \in FlowResult \cup BootResult \cup {NotInitialized}
    BY <1>0, <1>7 DEF FlowChooses, TypeOK, Abort
  <2> QED BY <1>0, <1>7, <2>2, <2>3 DEF FlowChooses, TypeOK
<1>8. CASE FlowResets
  BY <1>0, <1>4, <1>8, SlotConstants DEF TypeOK, FlowResets, Abort
<1>9. CASE FlowWrites
  BY <1>0, <1>4, <1>9 DEF TypeOK, FlowWrites, Abort
<1>10. CASE FlowWriteFails
  BY <1>0, <1>4, <1>10 DEF TypeOK, FlowWriteFails, Abort
<1>11. CASE KernelRuns \/ KernelReturns
  <2>1. starts' \in [Slots -> Nat]
    BY <1>0, <1>11 DEF IInv, TypeOK, RunsTheBestLiveSlot, KernelRuns, KernelReturns, CountStart
  <2> QED BY <1>0, <1>11, <2>1 DEF TypeOK, KernelRuns, KernelReturns
<1>12. CASE KernelHasBadFormat \/ KernelUnusable
  BY <1>0, <1>12 DEF TypeOK, KernelHasBadFormat, KernelUnusable, Abort
<1>13. CASE KernelLoadFails
  BY <1>0, <1>3, <1>13 DEF TypeOK, KernelLoadFails, Abort
<1>14. CASE MarkReadFails
  BY <1>0, <1>3, <1>14 DEF TypeOK, MarkReadFails
<1>15. CASE MarkReads
  <2>1. ab_ctl' \in AbData
    BY <1>0, <1>15, ZeroedSlotEffect
    DEF MarkReads, TypeOK, IInv, RunsTheBestLiveSlot
  <2> QED BY <1>0, <1>15, <2>1 DEF TypeOK, MarkReads
<1>16. CASE MarkWrites
  BY <1>0, <1>4, <1>16 DEF TypeOK, MarkWrites
<1>17. CASE MarkWriteFails
  BY <1>0, <1>4, <1>17 DEF TypeOK, MarkWriteFails
<1>18. CASE PowerCut
  BY <1>0, <1>3, <1>4, <1>18, SlotConstants DEF TypeOK, PowerCut, Pending
<1>19. CASE PowerOff
  BY <1>0, <1>19 DEF TypeOK, PowerOff
<1>20. CASE Confirm
  <2>1. misc \in AbData /\ target \in Slots
    BY <1>0, <1>20 DEF Confirm, TypeOK, IInv, RunsTheBestLiveSlot
  <2>2. misc' \in AbData
    BY <1>20, <2>1, RecordSlots, ConfirmedSlotFields DEF Confirm, AbData
  <2> QED BY <1>0, <1>20, <2>2 DEF TypeOK, Confirm
<1>21. CASE Update
  <2>1. misc \in AbData /\ target \in Slots /\ Other(target) \in Slots
    BY <1>0, <1>21 DEF Update, TypeOK, IInv, RunsTheBestLiveSlot, Other, Slots
  <2>2. misc' \in AbData
    BY <1>21, <2>1, InstalledEffect DEF Update
  <2>3. /\ image' \in [Slots -> Image]
        /\ starts' \in [Slots -> Nat]
        /\ updates' \in 0..MaxUpdates
    BY <1>0, <1>21, <2>1, EnvironmentAssumption DEF Update, TypeOK
  <2> QED BY <1>0, <1>21, <2>2, <2>3 DEF TypeOK, Update
<1> QED
  BY <1>1, <1>2, <1>5, <1>6, <1>7, <1>8, <1>9, <1>10, <1>11, <1>12, <1>13, <1>14,
     <1>15, <1>16, <1>17, <1>18, <1>19, <1>20, <1>21
  DEF Next, LoaderStep, SystemStep

\* A place of the program is only ever entered by the steps that lead to it.
LEMMA PlacesEntered ==
  ASSUME [Next]_vars
  PROVE  /\ pc' = "write" => FlowChooses \/ UNCHANGED vars
         /\ pc' = "mark" => KernelHasBadFormat \/ UNCHANGED vars
         /\ pc' = "mark_write" => MarkReads \/ UNCHANGED vars
         /\ pc' = "boot" => FlowChooses \/ FlowWrites \/ UNCHANGED vars
         /\ pc' = "exit" => KernelReturns \/ UNCHANGED vars
         /\ pc' = "os" => KernelRuns \/ Confirm \/ Update \/ UNCHANGED vars
<1> USE DEF PowerOn, InitFails, FlowReadFails, FlowReadsCorrupt, FlowResets, FlowWriteFails,
            KernelUnusable, KernelLoadFails, MarkReadFails, MarkWrites, MarkWriteFails,
            PowerCut, PowerOff, Abort
<1>1. CASE FlowChooses
  BY <1>1 DEF FlowChooses
<1>2. CASE FlowWrites
  BY <1>2 DEF FlowWrites
<1>3. CASE KernelRuns \/ KernelReturns \/ KernelHasBadFormat
  BY <1>3 DEF KernelRuns, KernelReturns, KernelHasBadFormat
<1>4. CASE MarkReads \/ Confirm \/ Update
  BY <1>4 DEF MarkReads, Confirm, Update
<1> QED
  BY <1>1, <1>2, <1>3, <1>4 DEF Next, LoaderStep, SystemStep

\* What the loader has chosen agrees with the disk when it starts to write, or
\* when, with nothing to write, it goes on to load the kernel.
LEMMA ChoiceMade ==
  ASSUME TypeOK, FlowChooses
  PROVE  /\ WriteHoldsChoice'
         /\ pc' \in {"write", "boot", "abort"}
         /\ pc' = "boot" =>
              /\ target' \in Slots
              /\ misc' = SpendTry(NormalizeBoth(misc), target')
              /\ Bootable(NormalizeBoth(misc)) # {}
              /\ target' = Chosen(NormalizeBoth(misc))
         /\ pc' = "abort" =>
              misc' = NormalizeBoth(misc) /\ Bootable(NormalizeBoth(misc)) = {}
<1>1. misc \in AbData /\ misc' = misc
  BY DEF TypeOK, FlowChooses
<1>2. CASE Bootable(NormalizeBoth(misc)) = {}
  BY <1>1, <1>2, CorruptAssumption DEF FlowChooses, WriteHoldsChoice, Abort
<1>3. CASE Bootable(NormalizeBoth(misc)) # {}
  <2>1. Chosen(NormalizeBoth(misc)) \in Slots
    BY <1>1, <1>3, ChoiceIsARecord
  <2>2. Chosen(NormalizeBoth(misc)) # NoSlot
    BY <2>1, NoSlotIsNoSlot
  <2> QED
    BY <1>1, <1>3, <2>1, <2>2, CorruptAssumption DEF FlowChooses, WriteHoldsChoice, Abort
<1> QED BY <1>2, <1>3

\* Only the marking of a slot writes it; only the choice fills the record to write.
LEMMA NextMemory ==
  ASSUME IInv, [Next]_vars
  PROVE  WriteHoldsChoice' /\ MarkHoldsZeroedSlot'
<1>0. TypeOK
  BY DEF IInv
<1>1. WriteHoldsChoice'
  <2>1. CASE pc' # "write"
    BY <2>1 DEF WriteHoldsChoice
  <2>2. CASE FlowChooses
    BY <1>0, <2>2, ChoiceMade
  <2>3. CASE UNCHANGED vars
    BY <2>3 DEF IInv, WriteHoldsChoice, vars
  <2> QED BY <2>1, <2>2, <2>3, PlacesEntered
<1>2. MarkHoldsZeroedSlot'
  <2>1. CASE pc' \notin {"mark", "mark_write"}
    BY <2>1 DEF MarkHoldsZeroedSlot
  <2>2. CASE KernelHasBadFormat
    BY <2>2 DEF KernelHasBadFormat, MarkHoldsZeroedSlot
  <2>3. CASE MarkReads
    BY <2>3 DEF IInv, MarkReads, MarkHoldsZeroedSlot
  <2>4. CASE UNCHANGED vars
    BY <2>4 DEF IInv, MarkHoldsZeroedSlot, vars
  <2> QED BY <2>1, <2>2, <2>3, <2>4, PlacesEntered
<1> QED BY <1>1, <1>2

\* What reaches the kernel: either the record on the disk was already the paid one,
\* or it has just been written.
LEMMA EnteringBoot ==
  ASSUME IInv, [Next]_vars, pc' = "boot", ~UNCHANGED vars
  PROVE  /\ misc \in AbData
         /\ Bootable(NormalizeBoth(misc)) # {}
         /\ target' = Chosen(NormalizeBoth(misc))
         /\ misc' = SpendTry(NormalizeBoth(misc), target')
<1>0. TypeOK
  BY DEF IInv
<1>1. CASE FlowChooses
  BY <1>0, <1>1, ChoiceMade DEF FlowChooses, TypeOK
<1>2. CASE FlowWrites
  BY <1>0, <1>2 DEF IInv, TypeOK, WriteHoldsChoice, FlowWrites, WriteSucceeds, Abort
<1> QED BY <1>1, <1>2, PlacesEntered

\* Every step keeps the slot being loaded live and the best there is (bub_ab_flow.c:96-107).
LEMMA NextRunsTheBestLiveSlot ==
  ASSUME IInv, [Next]_vars
  PROVE  RunsTheBestLiveSlot' /\ LoadsNormalizedRecord'
<1> USE DEF IInv
<1>0. CASE pc' \notin {"boot", "mark", "mark_write", "os", "exit"}
  BY <1>0 DEF RunsTheBestLiveSlot, LoadsNormalizedRecord
<1>1. CASE UNCHANGED vars
  <2>1. RunsTheBestLiveSlot'
    BY <1>1 DEF RunsTheBestLiveSlot, vars, Bootable
  <2>2. LoadsNormalizedRecord'
    BY <1>1 DEF LoadsNormalizedRecord, vars
  <2> QED BY <2>1, <2>2
<1>2. CASE pc' = "boot" /\ ~UNCHANGED vars
  <2>1. /\ misc \in AbData
        /\ Bootable(NormalizeBoth(misc)) # {}
        /\ target' = Chosen(NormalizeBoth(misc))
        /\ misc' = SpendTry(NormalizeBoth(misc), target')
    BY <1>2, EnteringBoot
  <2>2. /\ target' \in Slots
        /\ misc' \in AbData
        /\ misc'[target'].priority > 0
        /\ misc'[target'].successful_boot => misc'[target'].tries_remaining = 0
        /\ \A s \in Slots : s # target' => Proper(misc'[s])
        /\ \A s \in Bootable(misc') : misc'[s].priority <= misc'[target'].priority
    BY <2>1, PaidRecord
  <2>3. Other(target') \in Slots /\ Other(target') # target'
    BY <2>2 DEF Other, Slots
  <2>4. misc' # Corrupt
    BY <2>2, CorruptAssumption
  <2>5. RunsTheBestLiveSlot'
    BY <1>2, <2>2, <2>4 DEF RunsTheBestLiveSlot, Bootable
  <2>6. LoadsNormalizedRecord'
    BY <1>2, <2>2, <2>3 DEF LoadsNormalizedRecord
  <2> QED BY <2>5, <2>6
<1>3. CASE KernelRuns \/ KernelReturns
  BY <1>3 DEF KernelRuns, KernelReturns, RunsTheBestLiveSlot, LoadsNormalizedRecord
<1>4. CASE KernelHasBadFormat \/ MarkReads
  BY <1>4 DEF KernelHasBadFormat, MarkReads, RunsTheBestLiveSlot, LoadsNormalizedRecord
<1>5. CASE Confirm
  <2>1. misc \in AbData /\ target \in Slots /\ misc[target].priority > 0
    BY <1>5 DEF Confirm, RunsTheBestLiveSlot, TypeOK
  <2>2. misc'[target] = ConfirmedSlot(misc[target]) /\ misc' \in AbData
    BY <1>5, <2>1, RecordSlots, ConfirmedSlotFields DEF Confirm, AbData
  <2>3. misc'[target].priority > 0
    BY <2>1, <2>2, RecordSlots, ConfirmedSlotFields
  <2> QED
    BY <1>5, <2>1, <2>2, <2>3, CorruptAssumption
    DEF Confirm, RunsTheBestLiveSlot, LoadsNormalizedRecord
<1>6. CASE Update
  <2>1. misc \in AbData /\ target \in Slots /\ misc[target].priority > 0
    BY <1>6 DEF Update, RunsTheBestLiveSlot, TypeOK
  <2>2. misc'[target] = Outranked(misc[target]) /\ misc' \in AbData
    BY <1>6, <2>1, InstalledEffect DEF Update
  <2>3. misc'[target].priority > 0
    BY <2>1, <2>2, RecordSlots, OutrankedFields
  <2> QED
    BY <1>6, <2>1, <2>2, <2>3, CorruptAssumption
    DEF Update, RunsTheBestLiveSlot, LoadsNormalizedRecord
<1> QED BY <1>0, <1>1, <1>2, <1>3, <1>4, <1>5, <1>6, PlacesEntered

\* Two normalised slots that cannot be booted are two zero slots.
LEMMA NothingToBoot ==
  ASSUME NEW ab \in AbData, Bootable(NormalizeBoth(ab)) = {}
  PROVE  NormalizeBoth(ab) = [s \in Slots |-> ZeroSlot]
<1>1. /\ NormalizeBoth(ab) \in AbData
      /\ \A s \in Slots : Proper(NormalizeBoth(ab)[s]) /\ ~slot_is_bootable(NormalizeBoth(ab)[s])
  BY NormalizeBothIsProper DEF Bootable
<1>2. \A s \in Slots : NormalizeBoth(ab)[s] = ZeroSlot
  BY <1>1, RecordSlots, ProperUnbootableIsZero
<1> QED BY <1>1, <1>2 DEF AbData

\* Only a record that has given up both slots stops the flow (bub_ab_flow.c:108-114).
LEMMA NextGivesUpOnlyWhenDead ==
  ASSUME IInv, [Next]_vars
  PROVE  GivesUpOnlyWhenDead'
<1> SUFFICES ASSUME pc' = "abort", result' = "NO_VALID_SLOTS"
             PROVE  misc' = [s \in Slots |-> ZeroSlot]
  BY DEF GivesUpOnlyWhenDead
<1>0. TypeOK
  BY DEF IInv
<1>1. CASE UNCHANGED vars
  BY <1>1 DEF IInv, GivesUpOnlyWhenDead, vars
<1>2. CASE FlowChooses
  <2>1. misc \in AbData
    BY <1>0, <1>2 DEF FlowChooses, TypeOK
  <2> QED BY <1>0, <1>2, <2>1, ChoiceMade, NothingToBoot
<1>3. CASE FlowWrites
  <2>1. misc \in AbData /\ misc' = ab_ctl
    BY <1>0, <1>3 DEF FlowWrites, WriteSucceeds, TypeOK, IInv, WriteHoldsChoice
  <2>2. Bootable(NormalizeBoth(misc)) = {} /\ ab_ctl = NormalizeBoth(misc)
    BY <1>3 DEF FlowWrites, IInv, WriteHoldsChoice, Abort
  <2> QED BY <2>1, <2>2, NothingToBoot
<1>4. CASE MarkReadFails \/ MarkWrites
  BY <1>4 DEF MarkReadFails, MarkWrites, IInv, MarkHoldsZeroedSlot
<1> QED
  BY <1>1, <1>2, <1>3, <1>4
  DEF Next, LoaderStep, SystemStep, PowerOn, InitFails, NotInitialized, FlowReadFails,
      FlowReadsCorrupt, FlowResets, FlowWriteFails, KernelRuns, KernelReturns,
      KernelHasBadFormat, KernelUnusable, KernelLoadFails, MarkReads, MarkWriteFails, PowerCut, PowerOff, Confirm, Update,
      BootResult, Abort

\* Slot s, confirmed or within the tries it was given.
Within(s) ==
  ~normalize_slot(misc[s]).successful_boot => starts[s] + TriesLeft(s) <= MaxTries

\* AttemptBudget, slot by slot.
LEMMA BudgetIsWithin == AttemptBudget <=> (misc # Corrupt => \A s \in Slots : Within(s))
BY DEF AttemptBudget, Within

\* Tries are a natural number, with or without the one in flight.
LEMMA TriesLeftNat ==
  ASSUME misc \in AbData, NEW s \in Slots
  PROVE  /\ normalize_slot(misc[s]).tries_remaining \in 0..MaxTries
         /\ TriesLeft(s) \in Nat
         /\ ~InFlight(s) => TriesLeft(s) = normalize_slot(misc[s]).tries_remaining
         /\ InFlight(s) => TriesLeft(s) = normalize_slot(misc[s]).tries_remaining + 1
<1>1. normalize_slot(misc[s]).tries_remaining \in 0..MaxTries
  BY NormalizeIsProper, RecordSlots, SlotFields
<1> QED BY <1>1, BitFieldAssumption DEF TriesLeft

\* Where a step keeps a slot and its starts and puts no new try in flight, the slot
\* stays within its tries.
LEMMA WithinKept ==
  ASSUME IInv, TypeOK', NEW s \in Slots, misc \in AbData, misc' \in AbData,
         normalize_slot(misc'[s]).tries_remaining <= normalize_slot(misc[s]).tries_remaining,
         normalize_slot(misc[s]).successful_boot => normalize_slot(misc'[s]).successful_boot,
         starts'[s] = starts[s],
         ~InFlight(s)'
  PROVE  Within(s)'
<1>1. /\ normalize_slot(misc[s]).tries_remaining \in 0..MaxTries
      /\ TriesLeft(s) \in Nat
      /\ normalize_slot(misc[s]).tries_remaining <= TriesLeft(s)
  BY TriesLeftNat, BitFieldAssumption
<1>2. /\ normalize_slot(misc'[s]).tries_remaining \in 0..MaxTries
      /\ TriesLeft(s)' = normalize_slot(misc'[s]).tries_remaining
  BY NormalizeIsProper, RecordSlots, SlotFields, BitFieldAssumption DEF TriesLeft
<1>3. Within(s)
  BY BudgetIsWithin, CorruptAssumption DEF IInv
<1>4. starts[s] \in Nat
  BY DEF IInv, TypeOK
<1> QED BY <1>1, <1>2, <1>3, <1>4, BitFieldAssumption DEF Within

\* The paid record leaves every slot within its tries, with the try of the selected
\* slot in flight or not.
LEMMA WithinWhenPaid ==
  ASSUME IInv, TypeOK', NEW s \in Slots, misc \in AbData,
         Bootable(NormalizeBoth(misc)) # {},
         NEW t, t = Chosen(NormalizeBoth(misc)),
         misc' = SpendTry(NormalizeBoth(misc), t),
         starts'[s] = starts[s],
         InFlight(s)' => s = t
  PROVE  Within(s)'
<1> DEFINE n == normalize_slot(misc[s])
<1>1. /\ t \in Slots
      /\ misc' \in AbData
      /\ misc'[t].priority > 0
      /\ misc'[t].successful_boot = normalize_slot(misc[t]).successful_boot
      /\ misc'[t].successful_boot => misc'[t].tries_remaining = 0
      /\ ~misc'[t].successful_boot =>
           misc'[t].tries_remaining + 1 = normalize_slot(misc[t]).tries_remaining
      /\ \A o \in Slots : o # t => misc'[o] = normalize_slot(misc[o]) /\ Proper(misc'[o])
  BY PaidRecord
<1>2. n \in SlotData /\ misc'[s] \in SlotData
  BY <1>1, RecordSlots, NormalizeIsProper
<1>3. CASE s # t
  <2>1. normalize_slot(misc'[s]) = n
    BY <1>1, <1>2, <1>3, NormalizeKeepsProper
  <2>2. n.tries_remaining <= n.tries_remaining
    BY <1>2, SlotFields
  <2> HIDE DEF n
  <2>3. normalize_slot(misc'[s]).tries_remaining <= normalize_slot(misc[s]).tries_remaining
    BY <2>1, <2>2 DEF n
  <2>4. normalize_slot(misc[s]).successful_boot => normalize_slot(misc'[s]).successful_boot
    BY <2>1 DEF n
  <2> QED BY <1>1, <1>3, <2>3, <2>4, WithinKept
<1>4. CASE s = t /\ misc'[t].successful_boot
  <2>1. Proper(misc'[s])
    BY <1>1, <1>2, <1>4, SlotFields DEF Proper, Unusable, Contradictory
  <2>2. normalize_slot(misc'[s]).successful_boot
    BY <1>2, <1>4, <2>1, NormalizeKeepsProper
  <2> QED BY <2>2 DEF Within
<1>5. CASE s = t /\ ~misc'[t].successful_boot
  <2>1. misc'[s].tries_remaining + 1 = n.tries_remaining /\ ~n.successful_boot
    BY <1>1, <1>5
  <2>2. normalize_slot(misc'[s]).tries_remaining <= misc'[s].tries_remaining
    BY <1>2, NormalizeDemotes
  <2>3. Within(s)
    BY BudgetIsWithin, CorruptAssumption DEF IInv
  <2>4. starts[s] + n.tries_remaining <= MaxTries
    BY <2>1, <2>3, TriesLeftNat, BitFieldAssumption DEF Within, IInv, TypeOK
  <2>5. TriesLeft(s)' <= n.tries_remaining
    <3>1. normalize_slot(misc'[s]).tries_remaining \in Nat
      BY <1>2, NormalizeIsProper, SlotFields, BitFieldAssumption
    <3>2. misc'[s].tries_remaining \in Nat /\ n.tries_remaining \in Nat
      BY <1>2, SlotFields, BitFieldAssumption
    <3> HIDE DEF n
    <3> QED BY <2>1, <2>2, <3>1, <3>2 DEF TriesLeft
  <2>6. starts[s] \in Nat /\ TriesLeft(s)' \in Nat /\ n.tries_remaining \in Nat
    BY <1>2, NormalizeIsProper, SlotFields, BitFieldAssumption DEF IInv, TypeOK, TriesLeft
  <2> QED BY <2>4, <2>5, <2>6, BitFieldAssumption DEF Within
<1> QED BY <1>3, <1>4, <1>5

\* Whatever a write under way leaves on the disk, short of losing the record, keeps
\* every slot within its tries.
LEMMA WithinAfterWrite ==
  ASSUME IInv, TypeOK', NEW s \in Slots, pc \in {"reset", "write", "mark_write"},
         misc' \in {misc, Pending}, misc' # Corrupt, CountFromNewRecord, ~InFlight(s)'
  PROVE  Within(s)'
<1>0. TypeOK /\ misc' \in AbData
  BY DEF IInv, TypeOK
<1>1. CASE misc' = misc /\ starts' = starts
  <2>1. /\ normalize_slot(misc'[s]).tries_remaining <= normalize_slot(misc[s]).tries_remaining
        /\ normalize_slot(misc[s]).successful_boot => normalize_slot(misc'[s]).successful_boot
    BY <1>0, <1>1, NormalizeIsProper, RecordSlots, SlotFields
  <2> QED BY <1>0, <1>1, <2>1, WithinKept
<1>2. CASE pc = "reset" /\ misc' = ResetMetadata
  <2>1. starts'[s] = 0 /\ misc'[s] = ResetSlot
    BY <1>2 DEF CountFromNewRecord, NoStarts, ResetMetadata
  <2>2. TriesLeft(s)' = MaxTries
    BY <2>1, NormalizedConstants, BitFieldAssumption DEF TriesLeft, ResetSlot
  <2> QED BY <2>1, <2>2, BitFieldAssumption DEF Within
<1>3. CASE pc = "write" /\ misc' = ab_ctl
  <2>1. misc \in AbData /\ starts' = starts
    BY <1>0, <1>3 DEF IInv, TypeOK, WriteHoldsChoice, CountFromNewRecord
  <2>2. CASE target = NoSlot
    <3>1. misc'[s] = normalize_slot(misc[s])
      BY <1>3, <2>1, <2>2, NormalizeBothIsProper DEF IInv, WriteHoldsChoice
    <3>2. normalize_slot(misc'[s]) = normalize_slot(misc[s])
      BY <2>1, <3>1, RecordSlots, NormalizeIsProper
    <3>3. /\ normalize_slot(misc'[s]).tries_remaining <= normalize_slot(misc[s]).tries_remaining
          /\ normalize_slot(misc[s]).successful_boot => normalize_slot(misc'[s]).successful_boot
      BY <1>0, <3>2, NormalizeIsProper, RecordSlots, SlotFields
    <3> QED BY <1>0, <2>1, <3>3, WithinKept
  <2>3. CASE target # NoSlot
    BY <1>3, <2>1, <2>3, WithinWhenPaid DEF IInv, WriteHoldsChoice
  <2> QED BY <2>2, <2>3
<1>4. CASE pc = "mark_write" /\ misc' = ab_ctl
  <2>1. misc \in AbData /\ target \in Slots /\ starts' = starts
    BY <1>0, <1>4 DEF IInv, TypeOK, RunsTheBestLiveSlot, CountFromNewRecord
  <2>2. misc' = [misc EXCEPT ![target] = ZeroSlot]
    BY <1>4 DEF IInv, MarkHoldsZeroedSlot
  <2>3. CASE s = target
    <3>1. TriesLeft(s)' = 0
      BY <2>1, <2>2, <2>3, NormalizedConstants, ZeroedSlotEffect DEF TriesLeft, ZeroSlot
    <3>2. starts'[s] <= MaxTries /\ starts'[s] \in Nat
      BY <1>0, <2>1 DEF IInv, StartsBounded, TypeOK
    <3> QED BY <3>1, <3>2, BitFieldAssumption DEF Within
  <2>4. CASE s # target
    <3>1. misc'[s] = misc[s]
      BY <2>1, <2>2, <2>4, ZeroedSlotEffect
    <3>2. /\ normalize_slot(misc'[s]).tries_remaining <= normalize_slot(misc[s]).tries_remaining
          /\ normalize_slot(misc[s]).successful_boot => normalize_slot(misc'[s]).successful_boot
      BY <1>0, <3>1, NormalizeIsProper, RecordSlots, SlotFields
    <3> QED BY <1>0, <2>1, <3>2, WithinKept
  <2> QED BY <2>3, <2>4
<1> QED
  BY <1>1, <1>2, <1>3, <1>4, CorruptAssumption DEF Pending, CountFromNewRecord

\* The start of a kernel uses up the try that was in flight.
LEMMA WithinAfterStart ==
  ASSUME IInv, TypeOK', KernelRuns \/ KernelReturns, NEW s \in Slots
  PROVE  Within(s)' /\ starts'[s] <= MaxTries
<1> USE DEF IInv
<1>0. /\ misc \in AbData /\ misc' = misc /\ target \in Slots
      /\ ~InFlight(s)' /\ (InFlight(s) <=> s = target)
      /\ CountStart
      /\ starts \in [Slots -> Nat]
  BY DEF TypeOK, RunsTheBestLiveSlot, KernelRuns, KernelReturns, InFlight
<1>1. Within(s) /\ starts[s] <= MaxTries
  BY <1>0, BudgetIsWithin, CorruptAssumption DEF StartsBounded
<1>2. normalize_slot(misc[s]).tries_remaining \in 0..MaxTries
  BY <1>0, TriesLeftNat
<1>3. TriesLeft(s)' = normalize_slot(misc[s]).tries_remaining
  BY <1>0, <1>2 DEF TriesLeft
<1>4. CASE s # target
  <2>1. starts'[s] = starts[s]
    BY <1>0, <1>4 DEF CountStart
  <2> QED BY <1>0, <1>1, <1>2, <1>3, <1>4, <2>1, TriesLeftNat DEF Within
<1>5. CASE misc[target].successful_boot /\ s = target
  <2>1. misc[s].priority > 0 /\ misc[s].tries_remaining = 0 /\ misc[s].successful_boot
    BY <1>0, <1>5 DEF RunsTheBestLiveSlot, LoadsNormalizedRecord, KernelRuns, KernelReturns
  <2>2. normalize_slot(misc[s]).successful_boot
    BY <2>1, <1>0, RecordSlots, SlotFields DEF normalize_slot, Unusable, Contradictory
  <2>3. starts' = starts
    BY <1>0, <1>5 DEF CountStart
  <2> QED BY <1>0, <1>1, <2>2, <2>3 DEF Within
<1>6. CASE ~misc[target].successful_boot /\ s = target
  <2>1. starts'[s] = starts[s] + 1
    BY <1>0, <1>6 DEF CountStart
  <2>2. TriesLeft(s) = normalize_slot(misc[s]).tries_remaining + 1
    BY <1>0, <1>6, TriesLeftNat
  <2>3. ~normalize_slot(misc[s]).successful_boot
    BY <1>0, <1>6, RecordSlots, NormalizeDemotes
  <2>4. starts[s] \in Nat
    BY <1>0
  <2> QED BY <1>0, <1>1, <1>2, <1>3, <2>1, <2>2, <2>3, <2>4, BitFieldAssumption DEF Within
<1> QED BY <1>4, <1>5, <1>6

\* The steps that touch neither the record nor the counts.
Quiet ==
  \/ PowerOn \/ InitFails \/ FlowReadFails \/ FlowReadsCorrupt
  \/ KernelHasBadFormat \/ KernelUnusable \/ KernelLoadFails
  \/ MarkReadFails \/ MarkReads \/ PowerOff

\* The steps that write the record, and the losses of power that may.
Writing ==
  \/ FlowResets \/ FlowWrites \/ FlowWriteFails \/ MarkWrites \/ MarkWriteFails
  \/ PowerCut /\ pc \in {"reset", "write", "mark_write"}

\* They lead to no kernel to load either.
LEMMA QuietEffect ==
  ASSUME Quiet \/ (PowerCut /\ pc \notin {"reset", "write", "mark_write"})
  PROVE  misc' = misc /\ starts' = starts /\ pc' # "boot"
BY DEF Quiet, PowerOn, InitFails, FlowReadFails, FlowReadsCorrupt, KernelHasBadFormat,
       KernelUnusable, KernelLoadFails, MarkReadFails, MarkReads, PowerOff, PowerCut, Abort

\* The disk gets the record that was under way, keeps the old one, or loses both.
LEMMA WritingEffect ==
  ASSUME Writing
  PROVE  /\ pc \in {"reset", "write", "mark_write"}
         /\ misc' \in {misc, Pending, Corrupt}
         /\ CountFromNewRecord
         /\ pc' = "boot" => FlowWrites
<1>1. CASE FlowResets
  BY <1>1 DEF FlowResets, WriteSucceeds, WriteFails, Pending, Abort
<1>2. CASE FlowWrites
  BY <1>2 DEF FlowWrites, WriteSucceeds, Pending
<1>3. CASE FlowWriteFails
  BY <1>3 DEF FlowWriteFails, WriteFails, Pending, Abort
<1>4. CASE MarkWrites \/ MarkWriteFails
  BY <1>4 DEF MarkWrites, MarkWriteFails, WriteSucceeds, WriteFails, Pending
<1>5. CASE PowerCut /\ pc \in {"reset", "write", "mark_write"}
  BY <1>5 DEF PowerCut, WriteFails
<1> QED BY <1>1, <1>2, <1>3, <1>4, <1>5 DEF Writing

\* Every step is quiet, writes, chooses, starts a kernel or is the running system's.
LEMMA NextSplit ==
  ASSUME [Next]_vars
  PROVE  \/ Quiet \/ (PowerCut /\ pc \notin {"reset", "write", "mark_write"})
         \/ Writing \/ FlowChooses \/ KernelRuns \/ KernelReturns \/ Confirm \/ Update
         \/ UNCHANGED vars
BY DEF Next, LoaderStep, SystemStep, Quiet, Writing

\* What the running system writes is a record.
LEMMA SystemStepRecord ==
  ASSUME IInv, Confirm \/ Update
  PROVE  misc' \in AbData
<1>1. misc \in AbData /\ target \in Slots
  BY DEF IInv, TypeOK, RunsTheBestLiveSlot, Confirm, Update
<1>2. ConfirmedSlot(misc[target]) \in SlotData
  BY <1>1, RecordSlots, ConfirmedSlotFields
<1>3. CASE Confirm
  BY <1>1, <1>2, <1>3 DEF Confirm, AbData
<1>4. CASE Update
  BY <1>1, <1>4, InstalledEffect DEF Update
<1> QED BY <1>3, <1>4

\* The running system vouches for its slot, or gives the other one all its tries.
LEMMA WithinAfterSystemStep ==
  ASSUME IInv, TypeOK', Confirm \/ Update, NEW s \in Slots
  PROVE  Within(s)' /\ starts'[s] <= MaxTries
<1> USE DEF IInv
<1>0. /\ misc \in AbData /\ target \in Slots /\ misc[target].priority > 0
      /\ ~InFlight(s)' /\ starts \in [Slots -> Nat] /\ starts[s] <= MaxTries
  BY DEF TypeOK, RunsTheBestLiveSlot, StartsBounded, Confirm, Update, InFlight
<1>1. ASSUME misc'[s] = misc[s], starts'[s] = starts[s], misc' \in AbData
      PROVE  Within(s)'
  <2>1. /\ normalize_slot(misc'[s]).tries_remaining <= normalize_slot(misc[s]).tries_remaining
        /\ normalize_slot(misc[s]).successful_boot => normalize_slot(misc'[s]).successful_boot
    BY <1>0, <1>1, NormalizeIsProper, RecordSlots, SlotFields
  <2> QED BY <1>0, <1>1, <2>1, WithinKept
<1>2. CASE Confirm
  <2>1. /\ misc' = [misc EXCEPT ![target] = ConfirmedSlot(misc[target])]
        /\ starts' = starts
    BY <1>2 DEF Confirm
  <2>2. misc' \in AbData /\ misc'[target] = ConfirmedSlot(misc[target])
    BY <1>0, <2>1, RecordSlots, ConfirmedSlotFields DEF AbData
  <2>3. CASE s = target
    <3>0. misc[s] \in SlotData /\ misc'[s] = ConfirmedSlot(misc[s]) /\ misc[s].priority > 0
      BY <1>0, <2>2, <2>3, RecordSlots
    <3>1. /\ misc'[s] \in SlotData /\ misc'[s].priority > 0
          /\ misc'[s].tries_remaining = 0 /\ misc'[s].successful_boot = TRUE
      BY <3>0, ConfirmedSlotFields
    <3>2. Proper(misc'[s])
      BY <3>1 DEF Proper, Unusable, Contradictory
    <3>3. normalize_slot(misc'[s]).successful_boot
      BY <3>1, <3>2, NormalizeKeepsProper
    <3> QED BY <1>0, <2>1, <3>3 DEF Within
  <2>4. CASE s # target
    <3>1. misc'[s] = misc[s]
      BY <1>0, <2>1, <2>4 DEF AbData
    <3> QED BY <1>0, <1>1, <2>1, <2>2, <3>1
  <2> QED BY <2>3, <2>4
<1>3. CASE Update
  <2>1. /\ misc' = [misc EXCEPT ![Other(target)] = ResetSlot,
                                ![target] = Outranked(misc[target])]
        /\ starts' = [starts EXCEPT ![Other(target)] = 0]
    BY <1>3 DEF Update
  <2>2. /\ Other(target) \in Slots /\ Other(target) # target
        /\ s = target \/ s = Other(target)
        /\ misc' \in AbData
        /\ misc'[target] = Outranked(misc[target])
        /\ misc'[Other(target)] = ResetSlot
    BY <1>0, <2>1, InstalledEffect
  <2>3. CASE s = Other(target)
    <3>1. starts'[s] = 0
      BY <1>0, <2>1, <2>2, <2>3
    <3>2. TriesLeft(s)' = MaxTries
      BY <1>0, <2>2, <2>3, NormalizedConstants, BitFieldAssumption DEF TriesLeft, ResetSlot
    <3> QED BY <3>1, <3>2, BitFieldAssumption DEF Within
  <2>4. CASE s = target
    <3>1. starts'[s] = starts[s]
      BY <1>0, <2>1, <2>2, <2>4
    <3>2. /\ misc[s] \in SlotData /\ misc'[s] \in SlotData
          /\ misc[s].priority > 0 /\ misc'[s].priority > 0
          /\ misc'[s].tries_remaining = misc[s].tries_remaining
          /\ misc'[s].successful_boot = misc[s].successful_boot
      BY <1>0, <2>2, <2>4, RecordSlots, OutrankedFields
    <3>3. Unusable(misc'[s]) <=> Unusable(misc[s])
      BY <3>2 DEF Unusable
    <3>4. Contradictory(misc'[s]) <=> Contradictory(misc[s])
      BY <3>2 DEF Contradictory
    <3>5. /\ normalize_slot(misc'[s]).tries_remaining = normalize_slot(misc[s]).tries_remaining
          /\ normalize_slot(misc'[s]).successful_boot = normalize_slot(misc[s]).successful_boot
      BY <3>2, <3>3, <3>4 DEF normalize_slot, SlotData
    <3>6. normalize_slot(misc'[s]).tries_remaining <= normalize_slot(misc[s]).tries_remaining
      BY <3>2, <3>5, NormalizeIsProper, SlotFields
    <3> QED BY <1>0, <2>2, <3>1, <3>5, <3>6, WithinKept
  <2> QED BY <2>2, <2>3, <2>4
<1> QED BY <1>2, <1>3

\* Every step keeps the starts within the tries: they are paid first (bub_ab_flow.c:116-125).
LEMMA NextBudget ==
  ASSUME IInv, [Next]_vars
  PROVE  AttemptBudget' /\ StartsBounded'
<1>0. TypeOK /\ TypeOK'
  BY NextTypeOK DEF IInv
<1>1. ASSUME misc' # Corrupt, NEW s \in Slots PROVE Within(s)'
  <2>0. misc' \in AbData
    BY <1>0, <1>1 DEF TypeOK
  <2>1. ASSUME misc' = misc, starts' = starts, ~InFlight(s)' PROVE Within(s)'
    <3>1. /\ normalize_slot(misc'[s]).tries_remaining <= normalize_slot(misc[s]).tries_remaining
          /\ normalize_slot(misc[s]).successful_boot => normalize_slot(misc'[s]).successful_boot
      BY <2>0, <2>1, NormalizeIsProper, RecordSlots, SlotFields
    <3> QED BY <1>0, <2>0, <2>1, <3>1, WithinKept
  <2>2. CASE UNCHANGED vars
    <3>1. Within(s)
      BY <1>1, <2>2, BudgetIsWithin DEF IInv, vars
    <3> QED BY <2>2, <3>1 DEF Within, TriesLeft, InFlight, vars
  <2>3. CASE pc' = "boot" /\ ~UNCHANGED vars
    <3>1. /\ misc \in AbData
          /\ Bootable(NormalizeBoth(misc)) # {}
          /\ target' = Chosen(NormalizeBoth(misc))
          /\ misc' = SpendTry(NormalizeBoth(misc), target')
      BY <2>3, EnteringBoot
    <3>2. starts' = starts
      BY <1>1, <2>3, PlacesEntered DEF FlowChooses, FlowWrites, WriteSucceeds, CountFromNewRecord
    <3> QED BY <1>0, <3>1, <3>2, WithinWhenPaid DEF InFlight
  <2>4. CASE Quiet \/ (PowerCut /\ pc \notin {"reset", "write", "mark_write"})
    BY <2>1, <2>4, QuietEffect DEF InFlight
  <2>5. CASE Writing /\ pc' # "boot"
    BY <1>0, <1>1, <2>5, WritingEffect, WithinAfterWrite DEF InFlight
  <2>6. CASE FlowChooses /\ pc' # "boot"
    BY <2>1, <2>6 DEF FlowChooses, InFlight
  <2>7. CASE KernelRuns \/ KernelReturns
    BY <1>0, <2>7, WithinAfterStart
  <2>8. CASE Confirm \/ Update
    BY <1>0, <2>8, WithinAfterSystemStep
  <2> QED BY <2>2, <2>3, <2>4, <2>5, <2>6, <2>7, <2>8, NextSplit
<1>2. StartsBounded'
  <2>0. \A s \in Slots : NoStarts[s] = 0 /\ 0 <= MaxTries
    BY BitFieldAssumption DEF NoStarts
  <2>1. CASE UNCHANGED vars
    BY <2>1 DEF IInv, StartsBounded, vars
  <2>2. CASE misc' = misc /\ starts' = starts
    BY <2>2 DEF IInv, StartsBounded
  <2>3. CASE Writing
    BY <1>0, <2>0, <2>3, WritingEffect DEF IInv, StartsBounded, CountFromNewRecord
  <2>4. CASE KernelRuns \/ KernelReturns
    <3>1. misc' # Corrupt
      BY <2>4 DEF IInv, RunsTheBestLiveSlot, KernelRuns, KernelReturns
    <3> QED BY <1>0, <2>4, <3>1, WithinAfterStart DEF StartsBounded
  <2>5. CASE Confirm \/ Update
    <3>1. misc' # Corrupt
      BY <2>5, SystemStepRecord, CorruptAssumption
    <3> QED BY <1>0, <2>5, <3>1, WithinAfterSystemStep DEF StartsBounded
  <2> QED BY <2>1, <2>2, <2>3, <2>4, <2>5, NextSplit, QuietEffect DEF FlowChooses
<1> QED BY <1>1, <1>2, BudgetIsWithin DEF AttemptBudget, Within

\* The invariant is inductive.
LEMMA NextIInv == IInv /\ [Next]_vars => IInv'
BY NextTypeOK, NextMemory, NextRunsTheBestLiveSlot, NextGivesUpOnlyWhenDead, NextBudget
DEF IInv

\* The loader's memory and the disk agree at every place of the program, at every
\* moment of every behaviour (bub_main.c:48-66 with bub_ab_flow.c).
THEOREM Invariance == Spec => []IInv
<1>1. IInv /\ [Next]_vars => IInv'
  BY NextIInv
<1> QED BY <1>1, InitIInv, PTL DEF Spec

\* Every variable keeps the type the code gives it: no bit field overflows.
THEOREM TypeCorrect == Spec => []TypeOK
<1>1. IInv => TypeOK
  BY DEF IInv
<1> QED BY <1>1, Invariance, PTL

\* A slot that is never confirmed is started at most as often as it was given tries
\* (bub_ab_flow.c:116-128).
THEOREM BudgetHolds == Spec => []AttemptBudget
<1>1. IInv => AttemptBudget
  BY DEF IInv
<1> QED BY <1>1, Invariance, PTL

\* What is loaded or runs is a live slot, and no bootable slot outranks it
\* (bub_ab_flow.c:96-107).
THEOREM BestLiveSlotRuns == Spec => []RunsTheBestLiveSlot
<1>1. IInv => RunsTheBestLiveSlot
  BY DEF IInv
<1> QED BY <1>1, Invariance, PTL

\* NO_VALID_SLOTS is only ever reported of a record with two zero slots
\* (bub_ab_flow.c:108-114).
THEOREM GivesUpRightly == Spec => []GivesUpOnlyWhenDead
<1>1. IInv => GivesUpOnlyWhenDead
  BY DEF IInv
<1> QED BY <1>1, Invariance, PTL

\* What a write of the loader, whole, puts on the disk.
LEMMA WrittenRecord ==
  ASSUME IInv, Writing, misc # Corrupt, misc' \notin {Corrupt, misc}, pc # "reset",
         NEW s \in Slots
  PROVE  /\ misc \in AbData /\ misc[s] \in SlotData
         /\ \/ misc'[s] = normalize_slot(misc[s])
            \/ misc' = SpendTry(NormalizeBoth(misc), s)
            \/ misc'[s] = ZeroSlot /\ image[s] = "badformat"
            \/ misc'[s] = misc[s]
<1> USE DEF IInv
<1>0. misc \in AbData /\ misc[s] \in SlotData
  BY RecordSlots DEF TypeOK
<1>1. pc \in {"write", "mark_write"} /\ misc' = ab_ctl
  BY WritingEffect DEF Pending
<1>2. CASE pc = "write" /\ target = NoSlot
  BY <1>0, <1>1, <1>2, NormalizeBothIsProper DEF WriteHoldsChoice
<1>3. CASE pc = "write" /\ target # NoSlot
  <2>1. misc' = SpendTry(NormalizeBoth(misc), target) /\ target \in Slots
    BY <1>1, <1>3 DEF WriteHoldsChoice, TypeOK
  <2>2. s # target => misc'[s] = normalize_slot(misc[s])
    BY <1>0, <2>1, NormalizeBothIsProper, SpendTryEffect
  <2> QED BY <1>0, <2>1, <2>2
<1>4. CASE pc = "mark_write"
  <2>1. misc' = [misc EXCEPT ![target] = ZeroSlot] /\ image[target] = "badformat"
    BY <1>1, <1>4 DEF MarkHoldsZeroedSlot
  <2>2. target \in Slots
    BY <1>4 DEF RunsTheBestLiveSlot
  <2> QED BY <1>0, <2>1, <2>2, ZeroedSlotEffect
<1> QED BY <1>1, <1>2, <1>3, <1>4

\* The steps outside the running system that change the record are writes.
LEMMA OnlyWritesChangeTheRecord ==
  ASSUME [Next]_vars, pc # "os", misc' # misc
  PROVE  Writing
BY NextSplit, QuietEffect
DEF FlowChooses, KernelRuns, KernelReturns, Confirm, Update, vars

\* No step of the loader but the reset gives a slot anything.
LEMMA StepDemotes == IInv /\ [Next]_vars => DemotingStep
<1> SUFFICES ASSUME IInv, [Next]_vars, pc # "os", misc # Corrupt, misc' \notin {Corrupt, misc}
             PROVE  \/ pc = "reset" /\ misc' = ResetMetadata
                    \/ \A s \in Slots : Demoted(misc[s], misc'[s])
  BY DEF DemotingStep
<1>1. Writing
  BY OnlyWritesChangeTheRecord
<1>2. CASE pc = "reset"
  BY <1>1, <1>2, WritingEffect DEF Pending
<1>3. CASE pc # "reset"
  <2> SUFFICES ASSUME NEW s \in Slots PROVE Demoted(misc[s], misc'[s])
    OBVIOUS
  <2>1. /\ misc \in AbData /\ misc[s] \in SlotData
        /\ \/ misc'[s] = normalize_slot(misc[s])
           \/ misc' = SpendTry(NormalizeBoth(misc), s)
           \/ misc'[s] = ZeroSlot /\ image[s] = "badformat"
           \/ misc'[s] = misc[s]
    BY <1>1, <1>3, WrittenRecord
  <2>2. CASE misc'[s] = normalize_slot(misc[s])
    BY <2>1, <2>2, NormalizeDemotes DEF Demoted
  <2>3. CASE misc' = SpendTry(NormalizeBoth(misc), s)
    <3> DEFINE n == normalize_slot(misc[s])
    <3>1. /\ n.priority <= misc[s].priority
          /\ n.tries_remaining <= misc[s].tries_remaining
          /\ n.successful_boot => misc[s].successful_boot
          /\ n \in SlotData
      BY <2>1, NormalizeDemotes, NormalizeIsProper
    <3>2. /\ misc'[s].priority = n.priority
          /\ misc'[s].successful_boot = n.successful_boot
          /\ misc'[s].tries_remaining =
               IF n.tries_remaining > 0 THEN n.tries_remaining - 1 ELSE 0
      BY <2>1, <2>3, NormalizeBothIsProper, SpendTryEffect
    <3> HIDE DEF n
    <3> QED BY <2>1, <3>1, <3>2, SlotFields DEF Demoted
  <2>4. CASE misc'[s] = ZeroSlot
    BY <2>1, <2>4, SlotFields DEF Demoted, ZeroSlot
  <2>5. CASE misc'[s] = misc[s]
    BY <2>1, <2>5, SlotFields DEF Demoted
  <2> QED BY <2>1, <2>2, <2>3, <2>4, <2>5
<1> QED BY <1>2, <1>3

\* Outside the running system a record on the disk only ever loses: a dead slot is
\* revived by nothing but a reset of the whole record (bub_ab_flow.c:23-59).
THEOREM OnlyDemotes == Spec => LoaderOnlyDemotes
<1>1. IInv /\ [Next]_vars => [DemotingStep]_vars
  BY StepDemotes
<1> QED BY <1>1, Invariance, PTL DEF Spec, LoaderOnlyDemotes

\* No step of the loader takes anything from a confirmed slot of good format.
LEMMA StepKeepsConfirmed == IInv /\ [Next]_vars => ConfirmedKept
<1> SUFFICES ASSUME IInv, [Next]_vars, pc \notin {"os", "reset"}, misc # Corrupt, misc' # Corrupt,
                    NEW s \in Slots, Confirmed(misc[s]), image[s] # "badformat"
             PROVE  misc'[s] = misc[s]
  BY DEF ConfirmedKept
<1>1. CASE misc' = misc
  BY <1>1
<1>2. CASE misc' # misc
  <2>1. Writing
    BY <1>2, OnlyWritesChangeTheRecord
  <2>2. /\ misc \in AbData /\ misc[s] \in SlotData
        /\ \/ misc'[s] = normalize_slot(misc[s])
           \/ misc' = SpendTry(NormalizeBoth(misc), s)
           \/ misc'[s] = misc[s]
    BY <1>2, <2>1, WrittenRecord
  <2>3. normalize_slot(misc[s]) = misc[s]
    BY <2>2, NormalizeKeepsProper DEF Confirmed, Proper, Unusable, Contradictory
  <2>4. CASE misc' = SpendTry(NormalizeBoth(misc), s)
    <3>1. NormalizeBoth(misc)[s] = misc[s]
      BY <2>2, <2>3, NormalizeBothIsProper
    <3>2. SpendTry(NormalizeBoth(misc), s) = NormalizeBoth(misc)
      BY <3>1 DEF SpendTry, Confirmed
    <3> QED BY <2>4, <3>1, <3>2
  <2> QED BY <2>2, <2>3, <2>4
<1> QED BY <1>1, <1>2

\* Nothing the loader does for one slot, and no failure of its own kernel but a bad
\* format, takes its place from a confirmed slot (bub_main.c:55-64).
THEOREM ConfirmedStays == Spec => ConfirmedSurvives
<1>1. IInv /\ [Next]_vars => [ConfirmedKept]_vars
  BY StepKeepsConfirmed
<1> QED BY <1>1, Invariance, PTL DEF Spec, ConfirmedSurvives

--------------------------------------------------------------------------------
(* The loader implements AbPromise, for every value of the constants.           *)

\* What a slot of a readable record is worth, with the try it has paid.
LEMMA BudgetIs ==
  ASSUME NEW s \in Slots
  PROVE  /\ misc # Corrupt /\ ~InFlight(s) => Budget(s) = Worth(misc[s])
         /\ misc # Corrupt /\ Worth(misc[s]) = -1 => Budget(s) = -1
         /\ misc # Corrupt /\ InFlight(s) /\ Worth(misc[s]) # -1 =>
              Budget(s) = Worth(misc[s]) + 1
         /\ misc = Corrupt => Budget(s) = MaxTries
BY DEF Budget

\* The initial states keep the promise.
LEMMA InitPromise == Init => Promise!PromiseInit
<1> SUFFICES ASSUME Init PROVE Promise!PromiseInit
  OBVIOUS
<1>1. Running = Promise!Nobody
  BY DEF Init, Running, NoSlot, Promise!Nobody
<1>2. ASSUME NEW s \in Slots PROVE Budget(s) \in 0..MaxTries \cup {Promise!Unlimited}
  <2>1. ~InFlight(s)
    BY DEF Init, InFlight
  <2>2. CASE misc = Corrupt
    BY <2>2, BudgetIs, BitFieldAssumption
  <2>3. CASE misc \in AbData
    BY <2>1, <2>3, BudgetIs, WorthType, RecordSlots, CorruptAssumption DEF Promise!Unlimited
  <2> QED BY <2>2, <2>3 DEF Init
<1> QED BY <1>1, <1>2 DEF Promise!PromiseInit, Budgets

\* A step the promise does not see.
Unseen == Budgets' = Budgets /\ Running' = Running

Kept(s) == Budget(s)' = Budget(s)

\* The slots other than t keep their budgets.
OthersKept(t) == \A s \in Slots : s # t => Kept(s)

\* If no slot changes its budget, nothing does.
LEMMA AllKept == (\A s \in Slots : Kept(s)) => Budgets' = Budgets
BY DEF Kept, Budgets

\* If only one slot changes its budget, the others keep theirs.
LEMMA OneChanged ==
  ASSUME NEW t \in Slots, OthersKept(t)
  PROVE  Budgets' = [Budgets EXCEPT ![t] = Budget(t)']
BY DEF OthersKept, Kept, Budgets

\* A slot that loses something, while nothing runs, loses it as the promise allows.
LEMMA Loses ==
  ASSUME Running = NoSlot, Running' = NoSlot, NEW t \in Slots, OthersKept(t),
         \/ Kept(t)
         \/ /\ Budget(t)' \in 0..MaxTries
            /\ Budget(t) # 0
            /\ Budget(t) # -1 => Budget(t)' < Budget(t)
  PROVE  Promise!PromiseNext \/ Unseen
<1>1. CASE Kept(t)
  BY <1>1, AllKept DEF OthersKept, Unseen
<1>2. CASE ~Kept(t)
  <2>1. Budgets[t] = Budget(t)
    BY DEF Budgets
  <2>2. Promise!Lose(t)
    BY <1>2, <2>1, OneChanged DEF Promise!Lose, Promise!Nobody, Promise!Unlimited, NoSlot
  <2> QED BY <2>2 DEF Promise!PromiseNext
<1> QED BY <1>1, <1>2

\* The loss of the whole record, while nothing runs.
LEMMA Forgiven ==
  ASSUME Running = NoSlot, Running' = NoSlot, \A s \in Slots : Budget(s)' = MaxTries
  PROVE  Promise!PromiseNext
<1>1. Budgets' = Promise!Promised
  BY DEF Budgets, Promise!Promised
<1> QED BY <1>1 DEF Promise!PromiseNext, Promise!Amnesty, Promise!Nobody, NoSlot

\* Steps that leave the record alone: they are not seen, but for the loss of a try
\* in flight and the end of a running kernel.
LEMMA QuietPromise ==
  ASSUME IInv, Quiet \/ (PowerCut /\ pc \notin {"reset", "write", "mark_write"})
  PROVE  Promise!PromiseNext \/ Unseen
<1>0. misc' = misc /\ pc' # "boot" /\ (\A s \in Slots : ~InFlight(s)')
  BY QuietEffect DEF InFlight
<1>1. ASSUME NEW s \in Slots, ~InFlight(s) PROVE Kept(s)
  BY <1>0, <1>1 DEF Kept, Budget
<1>2. CASE PowerOff
  <2>1. Budgets' = Budgets
    BY <1>1, <1>2, AllKept DEF PowerOff, InFlight, Stopped
  <2>2. Running' = NoSlot
    BY <1>2 DEF PowerOff, Running
  <2> QED
    BY <2>1, <2>2 DEF Promise!PromiseNext, Promise!Stop, Promise!Nobody, NoSlot
<1>3. CASE ~PowerOff
  <2>1. Running = NoSlot /\ Running' = NoSlot
    BY <1>3 DEF Running, Quiet, PowerOn, InitFails, FlowReadFails, FlowReadsCorrupt,
      KernelHasBadFormat, KernelUnusable, KernelLoadFails, MarkReadFails, MarkReads, PowerCut, LoaderSteps, Abort
  <2>2. CASE pc # "boot"
    BY <1>1, <2>1, <2>2, AllKept DEF InFlight, Unseen
  <2>3. CASE pc = "boot"
    <3>0. PICK t \in Slots : t = target
      BY <2>3 DEF IInv, RunsTheBestLiveSlot
    <3>1. misc \in AbData /\ InFlight(t) /\ OthersKept(t)
      BY <1>1, <2>3, <3>0 DEF IInv, TypeOK, RunsTheBestLiveSlot, InFlight, OthersKept
    <3>2. Budget(t)' = Worth(misc[t])
      BY <1>0, <3>1, CorruptAssumption DEF Budget
    <3>3. /\ Worth(misc[t]) = -1 => Budget(t) = -1
          /\ Worth(misc[t]) # -1 => Budget(t) = Worth(misc[t]) + 1
      BY <3>1, BudgetIs, CorruptAssumption
    <3>4. Worth(misc[t]) = -1 \/ Worth(misc[t]) \in 0..MaxTries
      BY <3>1, WorthType, RecordSlots
    <3> QED BY <2>1, <3>1, <3>2, <3>3, <3>4, Loses, BitFieldAssumption DEF Kept
  <2> QED BY <2>2, <2>3
<1> QED BY <1>2, <1>3

\* Entering the kernel loader, the try that was paid is still the slot's.
LEMMA PayingIsUnseen ==
  ASSUME IInv, [Next]_vars, pc' = "boot", ~UNCHANGED vars
  PROVE  Unseen
<1>1. /\ misc \in AbData
      /\ Bootable(NormalizeBoth(misc)) # {}
      /\ target' = Chosen(NormalizeBoth(misc))
      /\ misc' = SpendTry(NormalizeBoth(misc), target')
  BY EnteringBoot
<1>2. pc \in {"flow", "write"}
  BY PlacesEntered DEF FlowChooses, FlowWrites
<1>3. misc' \in AbData
  BY <1>1, PaidRecord
<1>4. ASSUME NEW s \in Slots PROVE Kept(s)
  <2>1. Budget(s) = Worth(misc[s]) /\ (InFlight(s)' <=> s = target')
    BY <1>1, <1>2, BudgetIs, CorruptAssumption DEF InFlight
  <2>2. Worth(misc[s]) = -1 \/ Worth(misc[s]) \in 0..MaxTries
    BY <1>1, WorthType, RecordSlots
  <2>3. /\ target' \in Slots
        /\ \A o \in Slots : o # target' => Worth(misc'[o]) = Worth(misc[o])
        /\ Worth(misc[target']) = -1 => Worth(misc'[target']) = -1
        /\ Worth(misc[target']) # -1 =>
             Worth(misc'[target']) # -1 /\ Worth(misc'[target']) + 1 = Worth(misc[target'])
    BY <1>1, WorthWhenPaid
  <2>4. Budget(s)' = IF InFlight(s)' /\ Worth(misc'[s]) # -1 THEN Worth(misc'[s]) + 1
                     ELSE Worth(misc'[s])
    BY <1>3, CorruptAssumption DEF Budget
  <2>5. CASE s = target'
    BY <2>1, <2>3, <2>4, <2>5 DEF Kept
  <2>6. CASE s # target'
    BY <2>1, <2>3, <2>4, <2>6 DEF Kept
  <2> QED BY <2>5, <2>6
<1>5. Running = NoSlot /\ Running' = NoSlot
  BY <1>2 DEF Running
<1> QED BY <1>4, <1>5, AllKept DEF Unseen

\* A write that does not lead to a kernel: the promise sees what the slot loses, or
\* the loss of the record.
LEMMA WritingPromise ==
  ASSUME IInv, Writing, pc' # "boot", TypeOK'
  PROVE  Promise!PromiseNext \/ Unseen
<1>0. /\ pc \in {"reset", "write", "mark_write"}
      /\ misc' \in {misc, Pending, Corrupt}
      /\ \A s \in Slots : ~InFlight(s) /\ ~InFlight(s)'
  BY WritingEffect DEF InFlight
<1>1. Running = NoSlot /\ Running' = NoSlot
  BY <1>0 DEF Running, Writing, FlowResets, FlowWrites, FlowWriteFails, MarkWrites,
    MarkWriteFails, PowerCut, Abort
<1>2. CASE misc' = misc
  BY <1>0, <1>1, <1>2, AllKept DEF Kept, Budget, Unseen
<1>3. CASE misc' = Corrupt
  BY <1>1, <1>3, Forgiven DEF Budget
<1>4. CASE pc = "reset" /\ misc' = ResetMetadata
  <2>1. \A s \in Slots : Budget(s)' = MaxTries
    BY <1>0, <1>4, SlotConstants, CorruptAssumption, WorthOfWritten DEF Budget, ResetMetadata
  <2> QED BY <1>1, <2>1, Forgiven
<1>5. misc' = ab_ctl /\ pc # "reset" /\ misc' # Corrupt =>
        /\ misc \in AbData
        /\ \A s \in Slots : Budget(s) = Worth(misc[s]) /\ Budget(s)' = Worth(misc'[s])
        /\ \A s \in Slots : Worth(misc[s]) = -1 \/ Worth(misc[s]) \in 0..MaxTries
        /\ \A s \in Slots : Worth(misc'[s]) = -1 \/ Worth(misc'[s]) \in 0..MaxTries
  <2> SUFFICES ASSUME misc' = ab_ctl, pc # "reset", misc' # Corrupt
               PROVE  /\ misc \in AbData
                      /\ \A s \in Slots : Budget(s) = Worth(misc[s]) /\ Budget(s)' = Worth(misc'[s])
                      /\ \A s \in Slots : Worth(misc[s]) = -1 \/ Worth(misc[s]) \in 0..MaxTries
                      /\ \A s \in Slots : Worth(misc'[s]) = -1 \/ Worth(misc'[s]) \in 0..MaxTries
    OBVIOUS
  <2>1. misc \in AbData /\ misc' \in AbData
    BY <1>0 DEF IInv, TypeOK, WriteHoldsChoice, RunsTheBestLiveSlot
  <2>2. \A s \in Slots : Budget(s) = Worth(misc[s]) /\ Budget(s)' = Worth(misc'[s])
    BY <1>0, <2>1, CorruptAssumption DEF Budget
  <2>3. /\ \A s \in Slots : Worth(misc[s]) = -1 \/ Worth(misc[s]) \in 0..MaxTries
        /\ \A s \in Slots : Worth(misc'[s]) = -1 \/ Worth(misc'[s]) \in 0..MaxTries
    BY <2>1, WorthType, RecordSlots
  <2> QED BY <2>1, <2>2, <2>3
<1>6. CASE pc = "write" /\ misc' = ab_ctl /\ misc' # Corrupt
  <2>1. CASE target = NoSlot
    <3>1. \A s \in Slots : misc'[s] = normalize_slot(misc[s])
      BY <1>5, <1>6, <2>1, NormalizeBothIsProper DEF IInv, WriteHoldsChoice
    <3>2. \A s \in Slots : Kept(s)
      BY <1>5, <1>6, <3>1, WorthOfWritten, RecordSlots DEF Kept
    <3> QED BY <1>1, <3>2, AllKept DEF Unseen
  <2>2. CASE target # NoSlot
    <3>0. PICK t \in Slots : t = target
      BY <2>2 DEF IInv, TypeOK
    <3>1. /\ \A s \in Slots : s # t => Worth(misc'[s]) = Worth(misc[s])
          /\ Worth(misc[t]) = -1 => Worth(misc'[t]) = -1
          /\ Worth(misc[t]) # -1 => Worth(misc'[t]) # -1 /\ Worth(misc'[t]) + 1 = Worth(misc[t])
      BY <1>5, <1>6, <2>2, <3>0, WorthWhenPaid DEF IInv, WriteHoldsChoice
    <3>2. OthersKept(t)
      BY <1>5, <1>6, <3>1 DEF OthersKept, Kept
    <3> QED BY <1>1, <1>5, <1>6, <3>1, <3>2, Loses, BitFieldAssumption DEF Kept
  <2> QED BY <2>1, <2>2
<1>7. CASE pc = "mark_write" /\ misc' = ab_ctl /\ misc' # Corrupt
  <2>0. PICK t \in Slots : t = target
    BY <1>7 DEF IInv, RunsTheBestLiveSlot
  <2>1. misc' = [misc EXCEPT ![t] = ZeroSlot]
    BY <1>7, <2>0 DEF IInv, MarkHoldsZeroedSlot
  <2>2. Worth(misc'[t]) = 0 /\ (\A s \in Slots : s # t => misc'[s] = misc[s])
    BY <1>5, <1>7, <2>1, ZeroedSlotEffect, WorthOfWritten
  <2>3. OthersKept(t)
    BY <1>5, <1>7, <2>2 DEF OthersKept, Kept
  <2>4. Budget(t) # 0 => Budget(t) = -1 \/ 0 < Budget(t)
    BY <1>5, <1>7, BitFieldAssumption
  <2> QED BY <1>1, <1>5, <1>7, <2>2, <2>3, <2>4, Loses, BitFieldAssumption DEF Kept
<1> QED BY <1>0, <1>2, <1>3, <1>4, <1>6, <1>7 DEF Pending

\* Every start of a kernel is paid for.
LEMMA StartPromise ==
  ASSUME IInv, KernelRuns \/ KernelReturns
  PROVE  Promise!PromiseNext
<1>0. PICK t \in Slots : t = target
  BY DEF IInv, RunsTheBestLiveSlot, KernelRuns, KernelReturns
<1>1. /\ misc \in AbData /\ misc' = misc /\ InFlight(t)
      /\ \A s \in Slots : (s # t => ~InFlight(s)) /\ ~InFlight(s)'
  BY <1>0 DEF IInv, TypeOK, RunsTheBestLiveSlot, KernelRuns, KernelReturns, InFlight
<1>2. Worth(misc[t]) = -1 \/ Worth(misc[t]) \in 0..MaxTries
  BY <1>1, WorthType, RecordSlots
<1>3. /\ Budget(t)' = Worth(misc[t])
      /\ Worth(misc[t]) = -1 => Budget(t) = -1
      /\ Worth(misc[t]) # -1 => Budget(t) = Worth(misc[t]) + 1
  BY <1>1, CorruptAssumption DEF Budget
<1>4. OthersKept(t)
  BY <1>1 DEF OthersKept, Kept, Budget
<1>5. Running = NoSlot /\ Running' = t
  BY <1>0 DEF Running, KernelRuns, KernelReturns
<1>6. Budgets[t] = Budget(t) /\ Budgets' = [Budgets EXCEPT ![t] = Budget(t)']
  BY <1>4, OneChanged DEF Budgets
<1>7. Promise!Start(t)
  <2>1. CASE Worth(misc[t]) = -1
    <3>1. Budgets' = Budgets
      BY <1>3, <1>6, <2>1 DEF Budgets
    <3> QED BY <1>3, <1>5, <1>6, <2>1, <3>1
            DEF Promise!Start, Promise!Nobody, Promise!Unlimited, NoSlot
  <2>2. CASE Worth(misc[t]) # -1
    <3>1. Budget(t)' = Budgets[t] - 1 /\ Budgets[t] # 0 /\ Budgets[t] # -1
      BY <1>2, <1>3, <1>6, <2>2, BitFieldAssumption
    <3> QED BY <1>5, <1>6, <3>1 DEF Promise!Start, Promise!Nobody, Promise!Unlimited, NoSlot
  <2> QED BY <2>1, <2>2
<1> QED BY <1>7 DEF Promise!PromiseNext

\* A good system vouches for itself, or installs into the slot it does not run from.
LEMMA SystemPromise ==
  ASSUME IInv, Confirm \/ Update
  PROVE  Promise!PromiseNext
<1>0. PICK t \in Slots : t = target
  BY DEF IInv, RunsTheBestLiveSlot, Confirm, Update
<1>1. /\ misc \in AbData /\ misc' \in AbData
      /\ \A s \in Slots : ~InFlight(s) /\ ~InFlight(s)'
      /\ Running = t /\ Running' = t
      /\ misc[t].priority > 0
  BY <1>0, SystemStepRecord
  DEF IInv, TypeOK, RunsTheBestLiveSlot, Confirm, Update, InFlight, Running
<1>2. \A s \in Slots : Budget(s) = Worth(misc[s]) /\ Budget(s)' = Worth(misc'[s])
  BY <1>1, CorruptAssumption DEF Budget
<1>3. CASE Confirm
  <2>1. misc' = [misc EXCEPT ![t] = ConfirmedSlot(misc[t])]
    BY <1>0, <1>3 DEF Confirm
  <2>2. misc'[t] = ConfirmedSlot(misc[t]) /\ (\A s \in Slots : s # t => misc'[s] = misc[s])
    BY <1>1, <2>1 DEF AbData
  <2>3. /\ misc'[t] \in SlotData /\ misc'[t].priority > 0
        /\ misc'[t].tries_remaining = 0 /\ misc'[t].successful_boot = TRUE
    <3>1. misc[t] \in SlotData
      BY <1>1, RecordSlots
    <3> QED BY <1>1, <2>2, <3>1, ConfirmedSlotFields
  <2>4. normalize_slot(misc'[t]).successful_boot
    BY <2>3, NormalizeKeepsProper DEF Proper, Unusable, Contradictory
  <2>5. Worth(misc'[t]) = -1
    BY <2>3, <2>4, WorthType
  <2>6. OthersKept(t)
    BY <1>2, <2>2 DEF OthersKept, Kept
  <2>7. Budgets' = [Budgets EXCEPT ![t] = -1]
    BY <1>2, <2>5, <2>6, OneChanged
  <2>8. Promise!Vouch(t)
    BY <1>1, <2>7 DEF Promise!Vouch, Promise!Unlimited
  <2> QED BY <2>8 DEF Promise!PromiseNext
<1>4. CASE Update
  <2>0. PICK o \in Slots : o = Other(t)
    BY InstalledEffect, <1>1
  <2>1. misc' = [misc EXCEPT ![o] = ResetSlot, ![t] = Outranked(misc[t])]
    BY <1>0, <1>4, <2>0 DEF Update
  <2>2. /\ o # t /\ (\A s \in Slots : s = t \/ s = o)
        /\ misc'[t] = Outranked(misc[t]) /\ misc'[o] = ResetSlot
    <3>1. o # t /\ (\A s \in Slots : s = t \/ s = o)
      BY <2>0 DEF Other, Slots
    <3>2. t \in DOMAIN misc /\ o \in DOMAIN misc
      BY <1>1 DEF AbData
    <3> QED BY <2>1, <3>1, <3>2
  <2>3. /\ misc[t] \in SlotData /\ misc'[t] \in SlotData
        /\ misc'[t].priority > 0
        /\ misc'[t].tries_remaining = misc[t].tries_remaining
        /\ misc'[t].successful_boot = misc[t].successful_boot
    BY <1>1, <2>2, RecordSlots, OutrankedFields
  <2>4. /\ Unusable(misc'[t]) <=> Unusable(misc[t])
        /\ Contradictory(misc'[t]) <=> Contradictory(misc[t])
    BY <1>1, <2>3 DEF Unusable, Contradictory
  <2>5. /\ normalize_slot(misc'[t]).tries_remaining = normalize_slot(misc[t]).tries_remaining
        /\ normalize_slot(misc'[t]).successful_boot = normalize_slot(misc[t]).successful_boot
    BY <2>3, <2>4 DEF normalize_slot, SlotData
  <2>6. Worth(misc'[t]) = Worth(misc[t])
    BY <2>5 DEF Worth
  <2>7. OthersKept(o)
    BY <1>2, <2>2, <2>6 DEF OthersKept, Kept
  <2>8. Budgets' = [Budgets EXCEPT ![o] = MaxTries]
    BY <1>2, <2>2, <2>7, OneChanged, WorthOfWritten
  <2>9. Promise!Install(o)
    <3>1. t # Promise!Nobody
      BY NoSlotIsNoSlot DEF Promise!Nobody, NoSlot
    <3> QED BY <1>1, <2>2, <2>8, <3>1 DEF Promise!Install
  <2> QED BY <2>9 DEF Promise!PromiseNext
<1> QED BY <1>3, <1>4

\* Every step of the loader is a step of the promise, or is not seen by it.
LEMMA NextPromise == IInv /\ [Next]_vars => [Promise!PromiseNext]_<<Budgets, Running>>
<1> SUFFICES ASSUME IInv, [Next]_vars PROVE Promise!PromiseNext \/ Unseen
  BY DEF Unseen
<1>0. TypeOK'
  BY NextTypeOK
<1>1. CASE UNCHANGED vars
  BY <1>1 DEF Unseen, vars, Budgets, Budget, InFlight, Running
<1>2. CASE pc' = "boot" /\ ~UNCHANGED vars
  BY <1>2, PayingIsUnseen
<1>3. CASE Quiet \/ (PowerCut /\ pc \notin {"reset", "write", "mark_write"})
  BY <1>3, QuietPromise
<1>4. CASE Writing /\ pc' # "boot"
  BY <1>0, <1>4, WritingPromise
<1>5. CASE FlowChooses /\ pc' # "boot"
  <2>1. misc' = misc /\ pc = "flow" /\ pc' \in {"write", "abort"}
    BY <1>5, ChoiceMade DEF FlowChooses, IInv
  <2>2. \A s \in Slots : Kept(s)
    BY <2>1 DEF Kept, Budget, InFlight
  <2> QED BY <2>1, <2>2, AllKept DEF Unseen, Running
<1>6. CASE KernelRuns \/ KernelReturns
  BY <1>6, StartPromise
<1>7. CASE Confirm \/ Update
  BY <1>7, SystemPromise
<1> QED BY <1>1, <1>2, <1>3, <1>4, <1>5, <1>6, <1>7, NextSplit

\* Whatever the disk and the power do, the loader, the Boot Control HAL and the
\* updater together keep the promise of the A/B scheme (bub_main.c:46-66,
\* bub_ab_flow.c): no start of an unconfirmed kernel that was not paid for.
THEOREM LoaderKeepsPromise == Spec => KeepsPromise
<1>1. IInv /\ [Next]_vars => [Promise!PromiseNext]_<<Budgets, Running>>
  BY NextPromise
<1> QED BY <1>1, InitPromise, Invariance, PTL DEF Spec, KeepsPromise, Promise!PromiseSpec
================================================================================
