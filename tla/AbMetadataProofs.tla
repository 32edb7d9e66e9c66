--------------------------- MODULE AbMetadataProofs ----------------------------
(* Facts about the pure steps of the A/B flow, for every width of the bit fields. *)
EXTENDS AbMetadata, TLAPS

\* Field by field, what it is to be a slot record.
LEMMA SlotFields ==
  ASSUME NEW slot \in SlotData
  PROVE  /\ slot.priority \in 0..MaxPriority
         /\ slot.tries_remaining \in 0..MaxTries
         /\ slot.successful_boot \in BOOLEAN
BY DEF SlotData

\* The records that the loader writes over a slot are slot records.
LEMMA SlotConstants ==
  /\ ZeroSlot \in SlotData
  /\ ResetSlot \in SlotData
  /\ ResetMetadata \in AbData
BY BitFieldAssumption DEF ZeroSlot, ResetSlot, ResetMetadata, AbData, SlotData

\* normalize_slot (bub_ab_flow.c:23-39) leaves a slot that is zero, under trial or
\* successful, and never both of the last two: applying it again changes nothing.
THEOREM NormalizeIsProper ==
  ASSUME NEW slot \in SlotData
  PROVE  LET n == normalize_slot(slot) IN
         /\ n \in SlotData
         /\ Proper(n)
         /\ normalize_slot(n) = n
<1>1. CASE Unusable(slot)
  BY <1>1, SlotConstants
  DEF normalize_slot, Proper, Unusable, Contradictory, ZeroSlot
<1>2. CASE ~Unusable(slot) /\ Contradictory(slot)
  <2> DEFINE n == [slot EXCEPT !.successful_boot = FALSE]
  <2>1. /\ n \in SlotData
        /\ n.priority = slot.priority
        /\ n.tries_remaining = slot.tries_remaining
        /\ n.successful_boot = FALSE
    BY DEF SlotData
  <2>2. normalize_slot(slot) = n
    BY <1>2 DEF normalize_slot
  <2>3. ~Unusable(n) /\ ~Contradictory(n)
    BY <1>2, <2>1, SlotFields DEF Unusable, Contradictory
  <2> QED BY <2>1, <2>2, <2>3 DEF normalize_slot, Proper
<1>3. CASE ~Unusable(slot) /\ ~Contradictory(slot)
  BY <1>3 DEF normalize_slot, Proper
<1> QED BY <1>1, <1>2, <1>3

\* Normalising only takes away from a slot.
LEMMA NormalizeDemotes ==
  ASSUME NEW slot \in SlotData
  PROVE  LET n == normalize_slot(slot) IN
         /\ n.priority <= slot.priority
         /\ n.tries_remaining <= slot.tries_remaining
         /\ n.successful_boot => slot.successful_boot
<1>1. CASE Unusable(slot)
  BY <1>1, SlotFields DEF normalize_slot, ZeroSlot
<1>2. CASE ~Unusable(slot) /\ Contradictory(slot)
  BY <1>2, SlotFields DEF normalize_slot, SlotData
<1>3. CASE ~Unusable(slot) /\ ~Contradictory(slot)
  BY <1>3, SlotFields DEF normalize_slot
<1> QED BY <1>1, <1>2, <1>3

\* A slot in one of the proper states is left as it is.
LEMMA NormalizeKeepsProper ==
  ASSUME NEW slot \in SlotData, Proper(slot)
  PROVE  normalize_slot(slot) = slot
BY DEF normalize_slot, Proper

\* A proper slot that cannot be booted has been given up: it is all zero.
LEMMA ProperUnbootableIsZero ==
  ASSUME NEW slot \in SlotData, Proper(slot), ~slot_is_bootable(slot)
  PROVE  slot = ZeroSlot
<1>1. slot.priority = 0 /\ slot.tries_remaining = 0 /\ slot.successful_boot = FALSE
  BY SlotFields DEF Proper, Unusable, slot_is_bootable
<1> QED BY <1>1 DEF SlotData, ZeroSlot

\* A proper slot that can be booted has a priority, and tries only while on trial.
LEMMA ProperBootable ==
  ASSUME NEW slot \in SlotData, Proper(slot), slot_is_bootable(slot)
  PROVE  /\ slot.priority > 0
         /\ slot.successful_boot <=> slot.tries_remaining = 0
BY SlotFields DEF Proper, Unusable, Contradictory, slot_is_bootable

\* bub_ab_flow.c:96-107 selects a bootable slot that no bootable slot outranks.
THEOREM ChosenIsBest ==
  ASSUME NEW ab \in AbData, Bootable(ab) # {}
  PROVE  /\ Chosen(ab) \in Bootable(ab)
         /\ \A s \in Bootable(ab) : ab[s].priority <= ab[Chosen(ab)].priority
<1>1. Bootable(ab) \subseteq {"_a", "_b"}
  BY DEF Bootable, Slots
<1>2. ab["_a"] \in SlotData /\ ab["_b"] \in SlotData
  BY DEF AbData, Slots
<1>3. CASE Bootable(ab) = Slots
  BY <1>2, <1>3, SlotFields DEF Chosen, Slots
<1>4. CASE Bootable(ab) # Slots
  <2>1. \E s \in Slots : Bootable(ab) = {s}
    BY <1>1, <1>4 DEF Slots
  <2>2. PICK s \in Slots : Bootable(ab) = {s}
    BY <2>1
  <2>3. Chosen(ab) = s
    BY <1>4, <2>2 DEF Chosen
  <2>4. ab[s].priority <= ab[s].priority
    BY <1>2, <2>2, SlotFields DEF Slots
  <2> QED BY <2>2, <2>3, <2>4
<1> QED BY <1>3, <1>4

\* Both slots of a normalised record are proper.
LEMMA NormalizeBothIsProper ==
  ASSUME NEW ab \in AbData
  PROVE  /\ NormalizeBoth(ab) \in AbData
         /\ \A s \in Slots : /\ NormalizeBoth(ab)[s] = normalize_slot(ab[s])
                             /\ Proper(NormalizeBoth(ab)[s])
BY NormalizeIsProper DEF NormalizeBoth, AbData

\* Spending a try concerns the chosen slot alone, and takes one of its tries.
LEMMA SpendTryEffect ==
  ASSUME NEW ab \in AbData, NEW s \in Slots
  PROVE  LET n == SpendTry(ab, s) IN
         /\ n \in AbData
         /\ \A o \in Slots : o # s => n[o] = ab[o]
         /\ n[s].priority = ab[s].priority
         /\ n[s].successful_boot = ab[s].successful_boot
         /\ n[s].tries_remaining =
              IF ab[s].tries_remaining > 0 THEN ab[s].tries_remaining - 1 ELSE 0
<1>1. ab[s] \in SlotData
  BY DEF AbData
<1>2. CASE ab[s].tries_remaining > 0
  BY <1>1, <1>2, BitFieldAssumption DEF SpendTry, AbData, SlotData
<1>3. CASE ~(ab[s].tries_remaining > 0)
  BY <1>1, <1>3, SlotFields DEF SpendTry
<1> QED BY <1>2, <1>3

\* A record is a slot record in each of its two slots.
LEMMA RecordSlots ==
  ASSUME NEW ab \in AbData, NEW s \in Slots
  PROVE  ab[s] \in SlotData
BY DEF AbData

\* The record after the selected slot has paid: still normal but for the slot that
\* may be on its last try, and no bootable slot outranks the selected one.
LEMMA PaidRecord ==
  ASSUME NEW ab \in AbData, Bootable(NormalizeBoth(ab)) # {},
         NEW t, t = Chosen(NormalizeBoth(ab)),
         NEW new, new = SpendTry(NormalizeBoth(ab), t)
  PROVE  /\ t \in Slots
         /\ new \in AbData
         /\ new[t].priority > 0
         /\ new[t].successful_boot = normalize_slot(ab[t]).successful_boot
         /\ new[t].successful_boot => new[t].tries_remaining = 0
         /\ ~new[t].successful_boot =>
              new[t].tries_remaining + 1 = normalize_slot(ab[t]).tries_remaining
         /\ \A s \in Slots : s # t => new[s] = normalize_slot(ab[s]) /\ Proper(new[s])
         /\ \A s \in Bootable(new) : new[s].priority <= new[t].priority
<1> DEFINE normal == NormalizeBoth(ab)
<1>1. /\ normal \in AbData
      /\ \A s \in Slots : normal[s] = normalize_slot(ab[s]) /\ Proper(normal[s])
  BY NormalizeBothIsProper
<1>2. /\ t \in Slots
      /\ slot_is_bootable(normal[t])
      /\ \A s \in Bootable(normal) : normal[s].priority <= normal[t].priority
  BY <1>1, ChosenIsBest DEF Bootable
<1>3. normal[t] \in SlotData
  BY <1>1, <1>2, RecordSlots
<1>4. /\ normal[t].priority > 0
      /\ normal[t].successful_boot <=> normal[t].tries_remaining = 0
  BY <1>1, <1>2, <1>3, ProperBootable
<1>5. /\ new \in AbData
      /\ \A o \in Slots : o # t => new[o] = normal[o]
      /\ new[t].priority = normal[t].priority
      /\ new[t].successful_boot = normal[t].successful_boot
      /\ new[t].tries_remaining =
           IF normal[t].tries_remaining > 0 THEN normal[t].tries_remaining - 1 ELSE 0
  BY <1>1, <1>2, SpendTryEffect
<1>6. \A s \in Bootable(new) : new[s].priority <= new[t].priority
  <2> SUFFICES ASSUME NEW s \in Bootable(new) PROVE new[s].priority <= new[t].priority
    OBVIOUS
  <2>1. CASE s = t
    BY <1>3, <1>5, <2>1, SlotFields
  <2>2. CASE s # t
    BY <1>2, <1>5, <2>2 DEF Bootable
  <2> QED BY <2>1, <2>2
<1> HIDE DEF normal
<1>7. normal[t].tries_remaining \in Nat
  BY <1>3, SlotFields
<1> QED BY <1>1, <1>2, <1>4, <1>5, <1>6, <1>7

\* A zero slot has no tries, and a slot that was just reset has all of them.
LEMMA NormalizedConstants ==
  /\ normalize_slot(ZeroSlot) = ZeroSlot
  /\ normalize_slot(ResetSlot) = ResetSlot
BY BitFieldAssumption
DEF normalize_slot, Unusable, Contradictory, ZeroSlot, ResetSlot

\* A slot record is worth its tries, or no end of starts.
LEMMA WorthType ==
  ASSUME NEW slot \in SlotData
  PROVE  /\ Worth(slot) = -1 \/ Worth(slot) \in 0..MaxTries
         /\ Worth(slot) = -1 <=> normalize_slot(slot).successful_boot
         /\ Worth(slot) # -1 => Worth(slot) = normalize_slot(slot).tries_remaining
BY NormalizeIsProper, SlotFields, BitFieldAssumption DEF Worth

\* The worth of the records that the loader and the running system write.
LEMMA WorthOfWritten ==
  /\ Worth(ZeroSlot) = 0
  /\ Worth(ResetSlot) = MaxTries
  /\ \A slot \in SlotData : Worth(normalize_slot(slot)) = Worth(slot)
BY NormalizedConstants, NormalizeIsProper DEF Worth, ZeroSlot, ResetSlot

\* Paying costs the selected slot one try, unless it is confirmed, and the other
\* slot nothing.
LEMMA WorthWhenPaid ==
  ASSUME NEW ab \in AbData, Bootable(NormalizeBoth(ab)) # {},
         NEW t, t = Chosen(NormalizeBoth(ab)),
         NEW new, new = SpendTry(NormalizeBoth(ab), t)
  PROVE  /\ t \in Slots
         /\ \A s \in Slots : s # t => Worth(new[s]) = Worth(ab[s])
         /\ Worth(ab[t]) = -1 => Worth(new[t]) = -1
         /\ Worth(ab[t]) # -1 => Worth(new[t]) # -1 /\ Worth(new[t]) + 1 = Worth(ab[t])
<1>1. /\ t \in Slots
      /\ new \in AbData
      /\ new[t].priority > 0
      /\ new[t].successful_boot = normalize_slot(ab[t]).successful_boot
      /\ new[t].successful_boot => new[t].tries_remaining = 0
      /\ ~new[t].successful_boot =>
           new[t].tries_remaining + 1 = normalize_slot(ab[t]).tries_remaining
      /\ \A s \in Slots : s # t => new[s] = normalize_slot(ab[s])
  BY PaidRecord
<1>2. new[t] \in SlotData /\ ab[t] \in SlotData
  BY <1>1, RecordSlots
<1>3. \A s \in Slots : s # t => Worth(new[s]) = Worth(ab[s])
  BY <1>1, RecordSlots, WorthOfWritten
<1>4. CASE new[t].successful_boot
  <2>1. normalize_slot(new[t]) = new[t]
    BY <1>1, <1>2, <1>4, NormalizeKeepsProper DEF Proper, Unusable, Contradictory
  <2> QED BY <1>1, <1>2, <1>3, <1>4, <2>1, WorthType
<1>5. CASE ~new[t].successful_boot
  <2>1. /\ ~normalize_slot(new[t]).successful_boot
        /\ normalize_slot(new[t]).tries_remaining = new[t].tries_remaining
    <3>1. CASE new[t].tries_remaining = 0
      BY <1>1, <1>2, <1>5, <3>1 DEF normalize_slot, Unusable, ZeroSlot
    <3>2. CASE new[t].tries_remaining # 0
      BY <1>1, <1>2, <1>5, <3>2, SlotFields DEF normalize_slot, Unusable, Contradictory
    <3> QED BY <3>1, <3>2
  <2> QED BY <1>1, <1>2, <1>3, <1>5, <2>1, WorthType
<1> QED BY <1>4, <1>5
================================================================================
