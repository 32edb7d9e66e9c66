---------------------------- MODULE HostToolsProofs ----------------------------
(* The host programs: make_misc_image on every command line, the boots from its *)
(* image, and the conversion of names of every length.                          *)
EXTENDS HostTools, AbMetadataProofs, FiniteSetTheorems, SequenceTheorems,
  WellFoundedInduction

-----------------------------------------------------------------------------
(* Facts about sequences and numbers *)

\* A set of numbers has a least one.
LEMMA LeastNumber ==
  ASSUME NEW S \in SUBSET Nat, S # {}
  PROVE  \E m \in S : \A k \in S : m <= k
<1> DEFINE T == {0..k : k \in S}
<1>1. T \subseteq FiniteSubsetsOf(Nat) /\ T # {}
  <2>1. \A k \in S : IsFiniteSet(0..k) /\ 0..k \subseteq Nat
    BY FS_Interval
  <2> QED BY Zenon, <2>1 DEF FiniteSubsetsOf
<1>2. \E x \in T : \A y \in T : ~(<<y, x>> \in StrictSubsetOrdering(Nat))
  <2> HIDE DEF T
  <2> QED BY <1>1, WFMin, FS_StrictSubsetOrderingWellFounded
<1>3. PICK m \in S : \A k \in S : ~(<<0..k, 0..m>> \in StrictSubsetOrdering(Nat))
  BY Zenon, <1>2
<1>4. ASSUME NEW k \in S
      PROVE  m <= k
  <2>1. k < m => 0..k \subseteq 0..m /\ m \in 0..m /\ m \notin 0..k
    OBVIOUS
  <2>2. k < m => <<0..k, 0..m>> \in StrictSubsetOrdering(Nat)
    BY <2>1 DEF StrictSubsetOrdering
  <2> QED BY <1>3, <2>2
<1> QED BY <1>4

\* A sequence over a set holds elements of that set.
LEMMA ElementOf ==
  ASSUME NEW S, NEW s \in Seq(S), NEW k \in 1..Len(s)
  PROVE  s[k] \in S
OBVIOUS

\* Nothing that is appended to is empty.
LEMMA AppendedTo ==
  ASSUME NEW S, NEW s \in Seq(S), NEW e
  PROVE  Append(s, e) # <<>>
<1> DEFINE T == S \cup {e}
<1>1. S \subseteq T /\ e \in T
  OBVIOUS
<1> HIDE DEF T
<1>2. s \in Seq(T)
  BY <1>1, SeqMonotonic
<1>3. Len(Append(s, e)) = Len(s) + 1 /\ Len(s) \in Nat
  BY <1>1, <1>2, AppendProperties
<1> QED BY <1>3

\* The parts of an encoding, for each length.
LEMMA EncodedParts ==
  ASSUME NEW c \in CodePoint
  PROVE  LET e == Encoded(c) IN
         /\ c \in Nat /\ (c < 2048 => InOneUnit(c)) /\ DOMAIN e = 1..Len(e)
         /\ c < 128 => Len(e) = 1 /\ e[1] = c
         /\ c >= 128 /\ c < 2048 =>
              Len(e) = 2 /\ e[1] = 192 + (c \div 64) /\ e[2] = 128 + (c % 64)
         /\ c >= 2048 /\ InOneUnit(c) =>
              /\ Len(e) = 3 /\ e[1] = 224 + (c \div 4096)
              /\ e[2] = 128 + ((c \div 64) % 64) /\ e[3] = 128 + (c % 64)
         /\ ~InOneUnit(c) => Len(e) = 4 /\ e[1] = 240 + ((c \div 4096) \div 64)
<1>1. c \in Nat /\ (c < 2048 => InOneUnit(c))
  BY SMT DEF CodePoint, InOneUnit
<1>2. /\ c < 128 => Encoded(c) = <<c>>
      /\ c >= 128 /\ c < 2048 => Encoded(c) = <<192 + (c \div 64), 128 + (c % 64)>>
      /\ c >= 2048 /\ InOneUnit(c) =>
           Encoded(c) = <<224 + (c \div 4096), 128 + ((c \div 64) % 64), 128 + (c % 64)>>
      /\ ~InOneUnit(c) =>
           Encoded(c) = <<240 + ((c \div 4096) \div 64), 128 + ((c \div 4096) % 64),
                          128 + ((c \div 64) % 64), 128 + (c % 64)>>
  BY SMT DEF Encoded, Next6, CodePoint, InOneUnit
<1>3. CASE c < 128
  <2> DEFINE w == c
  <2>1. Encoded(c) = <<w>>
    BY <1>2, <1>3
  <2> HIDE DEF w
  <2>2. /\ Len(Encoded(c)) = 1 /\ DOMAIN Encoded(c) = 1..1
        /\ Encoded(c)[1] = w
    BY <2>1
  <2> QED BY <1>1, <1>3, <2>2 DEF w
<1>4. CASE c >= 128 /\ c < 2048
  <2> DEFINE w == 192 + (c \div 64)
             x == 128 + (c % 64)
  <2>1. Encoded(c) = <<w, x>>
    BY <1>2, <1>4
  <2> HIDE DEF w, x
  <2>2. /\ Len(Encoded(c)) = 2 /\ DOMAIN Encoded(c) = 1..2
        /\ Encoded(c)[1] = w /\ Encoded(c)[2] = x
    BY <2>1
  <2> QED BY <1>1, <1>4, <2>2 DEF w, x
<1>5. CASE c >= 2048 /\ InOneUnit(c)
  <2> DEFINE w == 224 + (c \div 4096)
             x == 128 + ((c \div 64) % 64)
             y == 128 + (c % 64)
  <2>1. Encoded(c) = <<w, x, y>>
    BY <1>2, <1>5
  <2> HIDE DEF w, x, y
  <2>2. /\ Len(Encoded(c)) = 3 /\ DOMAIN Encoded(c) = 1..3
        /\ Encoded(c)[1] = w /\ Encoded(c)[2] = x /\ Encoded(c)[3] = y
    BY <2>1
  <2> QED BY <1>1, <1>5, <2>2 DEF w, x, y
<1>6. CASE ~InOneUnit(c)
  <2> DEFINE w == 240 + ((c \div 4096) \div 64)
             x == 128 + ((c \div 4096) % 64)
             y == 128 + ((c \div 64) % 64)
             z == 128 + (c % 64)
  <2>1. Encoded(c) = <<w, x, y, z>>
    BY <1>2, <1>6
  <2> HIDE DEF w, x, y, z
  <2>2. /\ Len(Encoded(c)) = 4 /\ DOMAIN Encoded(c) = 1..4
        /\ Encoded(c)[1] = w /\ Encoded(c)[2] = x /\ Encoded(c)[3] = y /\ Encoded(c)[4] = z
    BY <2>1
  <2> QED BY <1>1, <1>6, <2>2 DEF w, x, y, z
<1> QED BY <1>1, <1>3, <1>4, <1>5, <1>6

\* What a first byte announces, by its range.
LEMMA AnnouncedBy ==
  ASSUME NEW b \in Byte
  PROVE  /\ b < 128 => Announced(b) = 1
         /\ b >= 128 /\ b < 192 => Announced(b) = 0
         /\ b >= 192 /\ b < 224 => Announced(b) = 2
         /\ b >= 224 /\ b < 240 => Announced(b) = 3
         /\ b >= 240 => Announced(b) = 0
         /\ Announced(b) \in 0..3
         /\ Announced(b) = 3 => b \in 224..239
BY SMT DEF Announced, Byte

\* An encoding has one to four bytes, and its first one announces how many there
\* are, unless there are four.
LEMMA EncodedShape ==
  ASSUME NEW c \in CodePoint
  PROVE  /\ Len(Encoded(c)) \in 1..4
         /\ DOMAIN Encoded(c) = 1..Len(Encoded(c))
         /\ InOneUnit(c) => Announced(Encoded(c)[1]) = Len(Encoded(c))
         /\ ~InOneUnit(c) => Announced(Encoded(c)[1]) = 0
<1>0. c \in Nat /\ DOMAIN Encoded(c) = 1..Len(Encoded(c)) /\ (c < 2048 => InOneUnit(c))
  BY SMT, EncodedParts
<1>1. CASE c < 128
  <2>1. Len(Encoded(c)) = 1 /\ Encoded(c)[1] = c
    BY SMT, <1>1, EncodedParts
  <2>2. c \in Byte
    BY <1>0, <1>1 DEF Byte
  <2>3. Announced(c) = 1
    BY <1>1, <2>2, AnnouncedBy
  <2> QED BY <1>0, <1>1, <2>1, <2>3
<1>2. CASE c >= 128 /\ c < 2048
  <2>1. Len(Encoded(c)) = 2 /\ Encoded(c)[1] = 192 + (c \div 64)
    BY SMT, <1>2, EncodedParts
  <2>2. 192 + (c \div 64) \in Byte /\ 192 + (c \div 64) < 224 /\ 192 + (c \div 64) >= 192
    BY SMT, <1>0, <1>2 DEF Byte
  <2>3. Announced(192 + (c \div 64)) = 2
    BY SMT, <2>2, AnnouncedBy DEF Byte
  <2> QED BY SMT, <1>0, <1>2, <2>1, <2>3
<1>3. CASE c >= 2048 /\ InOneUnit(c)
  <2>1. Len(Encoded(c)) = 3 /\ Encoded(c)[1] = 224 + (c \div 4096)
    BY SMT, <1>3, EncodedParts
  <2>2. 224 + (c \div 4096) \in Byte /\ 224 + (c \div 4096) < 240 /\ 224 + (c \div 4096) >= 224
    BY SMT, <1>0, <1>3 DEF Byte, InOneUnit
  <2>3. Announced(224 + (c \div 4096)) = 3
    BY SMT, <2>2, AnnouncedBy DEF Byte
  <2> QED BY SMT, <1>0, <1>3, <2>1, <2>3
<1>4. CASE ~InOneUnit(c)
  <2>1. Len(Encoded(c)) = 4 /\ Encoded(c)[1] = 240 + ((c \div 4096) \div 64)
    BY SMT, <1>4, EncodedParts
  <2>2. 240 + ((c \div 4096) \div 64) \in Byte /\ 240 + ((c \div 4096) \div 64) >= 240
    BY SMT, <1>0 DEF Byte, CodePoint
  <2>3. Announced(240 + ((c \div 4096) \div 64)) = 0
    BY SMT, <2>2, AnnouncedBy DEF Byte
  <2> QED BY SMT, <1>0, <1>4, <2>1, <2>3
<1> QED BY SMT, <1>0, <1>1, <1>2, <1>3, <1>4

\* The bytes of an encoding make up the code point again (bub_util.c:29-43).
LEMMA UnitDecodes ==
  ASSUME NEW c \in CodePoint, InOneUnit(c), NEW bytes, NEW i \in Nat,
         \A j \in DOMAIN Encoded(c) : bytes[i + j] = Encoded(c)[j]
  PROVE  Unit(bytes, i) = c
<1>0. /\ c \in Nat /\ DOMAIN Encoded(c) = 1..Len(Encoded(c))
      /\ Announced(Encoded(c)[1]) = Len(Encoded(c)) /\ Len(Encoded(c)) \in 1..4
  BY SMT, EncodedParts, EncodedShape
<1>a. bytes[i + 1] = Encoded(c)[1] /\ i + 0 + 1 = i + 1 /\ i + 1 + 1 = i + 2 /\ i + 2 + 1 = i + 3
  BY SMT, <1>0
<1>1. CASE c < 128
  <2>1. Len(Encoded(c)) = 1 /\ Encoded(c)[1] = c
    BY SMT, <1>1, EncodedParts
  <2> QED BY SMT, <1>0, <1>a, <2>1 DEF Unit
<1>2. CASE c >= 128 /\ c < 2048
  <2>1. Len(Encoded(c)) = 2 /\ Encoded(c)[1] = 192 + (c \div 64) /\ Encoded(c)[2] = 128 + (c % 64)
    BY SMT, <1>2, EncodedParts
  <2>2. bytes[i + 2] = Encoded(c)[2]
    BY SMT, <1>0, <2>1
  <2>3. ((192 + (c \div 64)) % 32) * 64 + ((128 + (c % 64)) % 64) = c
    BY SMT, <1>0, <1>2
  <2> QED BY SMT, <1>0, <1>a, <2>1, <2>2, <2>3 DEF Unit, Low6
<1>3. CASE c >= 2048
  <2> DEFINE x == c \div 4096
             y == (c \div 64) % 64
             z == c % 64
  <2>1. /\ Len(Encoded(c)) = 3 /\ Encoded(c)[1] = 224 + x
        /\ Encoded(c)[2] = 128 + y /\ Encoded(c)[3] = 128 + z
    BY SMT, <1>3, EncodedParts
  <2>2. bytes[i + 2] = Encoded(c)[2] /\ bytes[i + 3] = Encoded(c)[3]
    BY SMT, <1>0, <2>1
  <2>3. x \in 0..15 /\ y \in 0..63 /\ z \in 0..63 /\ c = x * 4096 + y * 64 + z
    BY SMT, <1>0, <1>3 DEF InOneUnit
  <2> HIDE DEF x, y, z
  <2>4. ((224 + x) * 4096) % 65536 = x * 4096 /\ (128 + y) % 64 = y /\ (128 + z) % 64 = z
    BY SMT, <2>3
  <2> QED BY SMT, <1>0, <1>a, <2>1, <2>2, <2>3, <2>4 DEF Unit, Low6
<1> QED BY SMT, <1>0, <1>1, <1>2, <1>3

\* One, two and three bytes make up sixteen bits at the most.
LEMMA SixteenBits ==
  ASSUME NEW x \in Byte, NEW y \in Byte, NEW z \in Byte
  PROVE  /\ x \in Ucs2Unit
         /\ (x % 32) * 64 + (y % 64) \in Ucs2Unit
         /\ x \in 224..239 => ((x * 4096) % 65536) + (y % 64) * 64 + (z % 64) \in Ucs2Unit
<1>1. x \in Ucs2Unit /\ (x % 32) * 64 + (y % 64) \in Ucs2Unit
  BY SMT DEF Byte, Ucs2Unit
<1>2. y % 64 \in 0..63 /\ z % 64 \in 0..63
  BY SMT DEF Byte
<1>3. ASSUME x \in 224..239
      PROVE  (x * 4096) % 65536 = (x - 224) * 4096
  BY SMT, <1>3
<1>4. ASSUME x \in 224..239
      PROVE  ((x * 4096) % 65536) + (y % 64) * 64 + (z % 64) \in Ucs2Unit
  <2> DEFINE h == (x * 4096) % 65536
             m == y % 64
             l == z % 64
  <2>1. m \in 0..63 /\ l \in 0..63
    BY <1>2
  <2>2. h = (x - 224) * 4096
    BY <1>3, <1>4
  <2> HIDE DEF h, m, l
  <2>3. h + m * 64 + l \in Ucs2Unit
    BY SMT, <1>4, <2>1, <2>2 DEF Ucs2Unit
  <2> QED BY <2>3 DEF h, m, l
<1> QED BY SMT, <1>1, <1>4

\* A unit has sixteen bits, whatever bytes it is made of.
LEMMA UnitType ==
  ASSUME NEW bytes \in Seq(Byte), NEW i \in Nat, i < Len(bytes),
         Announced(bytes[i + 1]) # 0, i + Announced(bytes[i + 1]) <= Len(bytes)
  PROVE  /\ Unit(bytes, i) \in Ucs2Unit
         /\ Announced(bytes[i + 1]) \in 1..3
<1>0. /\ i + 0 + 1 = i + 1 /\ i + 1 + 1 = i + 2 /\ i + 2 + 1 = i + 3
      /\ Len(bytes) \in Nat /\ i + 1 \in 1..Len(bytes)
  OBVIOUS
<1>1. bytes[i + 1] \in Byte
  BY <1>0, ElementOf
<1>2. Announced(bytes[i + 1]) \in 1..3
  BY <1>1, AnnouncedBy
<1>3. CASE Announced(bytes[i + 1]) = 1
  BY <1>0, <1>1, <1>3, SixteenBits DEF Unit
<1>4. CASE Announced(bytes[i + 1]) = 2
  <2>1. bytes[i + 2] \in Byte
    <3>1. i + 2 \in 1..Len(bytes)
      BY <1>0, <1>4
    <3> QED BY <3>1, ElementOf
  <2>2. Unit(bytes, i) = (bytes[i + 1] % 32) * 64 + (bytes[i + 2] % 64)
    BY <1>0, <1>4 DEF Unit, Low6
  <2> QED BY <1>1, <1>2, <2>1, <2>2, SixteenBits
<1>5. CASE Announced(bytes[i + 1]) = 3
  <2>1. bytes[i + 2] \in Byte /\ bytes[i + 3] \in Byte
    <3>1. i + 2 \in 1..Len(bytes) /\ i + 3 \in 1..Len(bytes)
      BY <1>0, <1>5
    <3> QED BY <3>1, ElementOf
  <2>2. bytes[i + 1] \in 224..239
    BY <1>1, <1>5, AnnouncedBy
  <2>3. Unit(bytes, i) =
          ((bytes[i + 1] * 4096) % 65536) + (bytes[i + 2] % 64) * 64 + (bytes[i + 3] % 64)
    BY SMT, <1>0, <1>5 DEF Unit, Low6
  <2> QED BY SMT, <1>1, <1>2, <2>1, <2>2, <2>3, SixteenBits
<1> QED BY <1>2, <1>3, <1>4, <1>5

-----------------------------------------------------------------------------
(* The image *)

\* Both programs write a record that is one.
LEMMA ImageMade ==
  ASSUME NEW magic \in BOOLEAN, NEW slots \in AbData
  PROVE  /\ make_metadata_image(magic, slots) \in BubAbData
         /\ bub_write_ab_data_to_misc(magic, slots) = make_metadata_image(magic, slots)
         /\ make_metadata_image(magic, slots).slots = slots
<1>1. bub_crc32(magic, slots) \in Words
  BY DEF bub_crc32, Words
<1>2. \A w \in Words : bub_be32toh(w) \in Words
  BY DEF bub_be32toh, Words
<1> QED BY <1>1, <1>2 DEF make_metadata_image, bub_write_ab_data_to_misc, BubAbData

\* The bytes of a word turned round twice are the word.
LEMMA TurnedTwice ==
  ASSUME NEW w \in Words
  PROVE  bub_be32toh(bub_be32toh(w)) = w
BY DEF bub_be32toh, Words

\* What was written with the magic is read as valid (bub_ab_flow.c:160-188).
LEMMA ReadsBack ==
  ASSUME NEW slots \in AbData
  PROVE  bub_read_ab_data_from_misc(make_metadata_image(TRUE, slots)) = "OK"
<1>1. bub_crc32(TRUE, slots) \in Words
  BY DEF bub_crc32, Words
<1>2. Readable(make_metadata_image(TRUE, slots))
  BY ImageMade, HostAssumption DEF Readable
<1>3. bub_be32toh(bub_be32toh(bub_crc32(TRUE, slots))) = bub_crc32(TRUE, slots)
  BY <1>1, TurnedTwice
<1> QED BY <1>2, <1>3 DEF bub_read_ab_data_from_misc, make_metadata_image

\* The numbers for two slots fit the fields they are put into, with what is too much
\* cut off.
LEMMA WrittenSlots ==
  ASSUME NEW v \in Sixes
  PROVE  write_ab_metadata(v) \in AbData
<1>0. v \in Seq(Nat) /\ Len(v) = 6
  BY DEF Sixes
<1>1. \A k \in 1..6 : v[k] \in Nat
  BY <1>0, ElementOf
<1>2. ASSUME NEW k \in {1, 4}
      PROVE  SlotOf(v, k) \in SlotData
  <2>1. v[k] \in Nat /\ v[k + 1] \in Nat /\ v[k + 2] \in Nat
    BY <1>1
  <2>2. v[k] % (MaxPriority + 1) \in 0..MaxPriority /\ v[k + 1] % (MaxTries + 1) \in 0..MaxTries
    BY <2>1, BitFieldAssumption
  <2> QED BY <2>2 DEF SlotOf, SlotData
<1> QED BY <1>2 DEF write_ab_metadata, AbData

\* A flow leaves an image, and names a slot if it has found one.
LEMMA FlowType ==
  ASSUME NEW img \in Images
  PROVE  LET flow == bub_ab_flow(img) IN
         /\ flow.image \in Images
         /\ flow.result \in {"OK", "NO_VALID_SLOTS", "READ_METADATA", "INVALID_METADATA"}
         /\ flow.result = "OK" => flow.suffix \in Slots
<1> DEFINE read == bub_read_ab_data_from_misc(img)
           norm == NormalizeBoth(img.slots)
<1>1. read \in {"OK", "READ_METADATA", "INVALID_METADATA"}
  BY DEF bub_read_ab_data_from_misc
<1>2. read # "READ_METADATA" => img \in BubAbData
  BY DEF bub_read_ab_data_from_misc, Readable, Images
<1>3. CASE read = "READ_METADATA"
  BY <1>3 DEF bub_ab_flow, Flow
<1>4. CASE read = "INVALID_METADATA"
  <2>1. bub_write_ab_data_to_misc(TRUE, ResetMetadata) \in Images
    BY ImageMade, SlotConstants DEF Images
  <2> QED BY <1>4, <2>1 DEF bub_ab_flow, Flow
<1>5. CASE read = "OK"
  <2>1. img.slots \in AbData /\ norm \in AbData
    BY <1>2, <1>5, NormalizeBothIsProper DEF BubAbData
  <2>2. ASSUME NEW slots \in AbData
        PROVE  WriteBack(img, slots) \in Images
    BY ImageMade DEF WriteBack, Images
  <2>3. CASE Bootable(norm) = {}
    <3>1. bub_ab_flow(img).result = "NO_VALID_SLOTS" /\ bub_ab_flow(img).image = WriteBack(img, norm)
      BY <1>5, <2>3 DEF bub_ab_flow, Flow
    <3> QED BY <2>1, <2>2, <3>1
  <2>4. CASE Bootable(norm) # {}
    <3>1. Chosen(norm) \in Slots
      BY <2>1, <2>4, ChosenIsBest DEF Bootable
    <3>2. SpendTry(norm, Chosen(norm)) \in AbData
      BY <2>1, <3>1, SpendTryEffect
    <3>3. /\ bub_ab_flow(img).result = "OK" /\ bub_ab_flow(img).suffix = Chosen(norm)
          /\ bub_ab_flow(img).image = WriteBack(img, SpendTry(norm, Chosen(norm)))
      BY <1>5, <2>4 DEF bub_ab_flow, Flow
    <3> QED BY <2>2, <3>1, <3>2, <3>3
  <2> QED BY <2>3, <2>4
<1> QED BY <1>1, <1>3, <1>4, <1>5

\* Marking a slot leaves an image.
LEMMA MarkType ==
  ASSUME NEW img \in Images, NEW s \in Slots
  PROVE  bub_ab_mark_as_invalid(img, s).image \in Images
<1>1. CASE bub_read_ab_data_from_misc(img) = "OK"
  <2>1. img \in BubAbData
    BY <1>1 DEF bub_read_ab_data_from_misc, Readable, Images
  <2>2. [img.slots EXCEPT ![s] = ZeroSlot] \in AbData
    BY <2>1, SlotConstants DEF BubAbData, AbData
  <2> QED BY <1>1, <2>2, ImageMade DEF bub_ab_mark_as_invalid, Images
<1>2. CASE bub_read_ab_data_from_misc(img) # "OK"
  BY <1>2 DEF bub_ab_mark_as_invalid
<1> QED BY <1>1, <1>2

-----------------------------------------------------------------------------
(* The unit tests *)

\* What a step of a test holds.
LEMMA TestStepFields ==
  ASSUME NEW r \in TestSteps
  PROVE  /\ r.op \in {"init", "flow", "mark", "args", "utf8"}
         /\ r.op = "init" => r.magic \in BOOLEAN /\ r.v \in Sixes
         /\ r.op = "flow" => r.v \in Sixes
         /\ r.op = "mark" => r.suffix \in Slots
         /\ r.op = "args" => r.tokens \in Tokens
         /\ r.op = "utf8" => r.bytes \in Seq(Byte) /\ r.num_bytes \in Nat /\ Fits(r)
<1>1. CASE r \in [op : {"init"}, magic : BOOLEAN, v : Sixes]
  BY <1>1
<1>2. CASE r \in [op : {"flow"}, v : Sixes, result : {"OK", "NO_VALID_SLOTS", "INVALID_METADATA"},
                  suffix : Slots \cup {""}]
  BY <1>2
<1>3. CASE r \in [op : {"mark"}, suffix : Slots]
  BY <1>3
<1>4. CASE r \in [op : {"args"}, ret : {0, 1}, tokens : Tokens, output : BOOLEAN]
  BY <1>4
<1>5. CASE r \in {u \in [op : {"utf8"}, bytes : Seq(Byte), num_bytes : Nat, unit : Int] : Fits(u)}
  BY <1>5
<1> QED BY <1>1, <1>2, <1>3, <1>4, <1>5 DEF TestSteps

\* Three numbers and three more are six.
LEMMA TwoTriples ==
  ASSUME NEW a \in Seq(Nat), Len(a) = 3, NEW b \in Seq(Nat), Len(b) = 3
  PROVE  a \o b \in Sixes
<1>1. a \o b \in Seq(Nat) /\ Len(a \o b) = Len(a) + Len(b)
  BY ConcatProperties
<1>2. Len(a \o b) = 6
  BY <1>1
<1> QED BY <1>1, <1>2 DEF Sixes

\* The triples of the tests.
LEMMA Triples ==
  ASSUME NEW p \in Nat, NEW t \in Nat, NEW s \in Nat
  PROVE  /\ <<p, t, s>> \in Seq(Nat) /\ Len(<<p, t, s>>) = 3
         /\ None \in Seq(Nat) /\ Len(None) = 3
         /\ Confirmed(p) \in Seq(Nat) /\ Len(Confirmed(p)) = 3
         /\ Trying(p, t) \in Seq(Nat) /\ Len(Trying(p, t)) = 3
BY DEF None, Confirmed, Trying

\* The steps that the tests are made of, over triples.
LEMMA TestStepTypes ==
  ASSUME NEW a \in Seq(Nat), Len(a) = 3, NEW b \in Seq(Nat), Len(b) = 3, NEW s \in Slots
  PROVE  /\ \A m \in BOOLEAN : ab_init(m, a \o b) \in TestSteps
         /\ Magic(a, b) \in TestSteps
         /\ Selects(s, a, b) \in TestSteps
         /\ test_ab_flow(a \o b, "INVALID_METADATA", "") \in TestSteps
         /\ test_ab_flow(a \o b, "NO_VALID_SLOTS", "") \in TestSteps
         /\ Mark(s) \in TestSteps
<1>1. a \o b \in Sixes
  BY TwoTriples
<1>2. ASSUME NEW v \in Sixes
      PROVE  /\ \A m \in BOOLEAN : ab_init(m, v) \in TestSteps
             /\ \A r \in {"OK", "NO_VALID_SLOTS", "INVALID_METADATA"}, u \in Slots \cup {""} :
                  test_ab_flow(v, r, u) \in TestSteps
  BY DEF ab_init, test_ab_flow, TestSteps
<1>3. Mark(s) \in TestSteps
  BY DEF Mark, TestSteps
<1> QED BY <1>1, <1>2, <1>3 DEF Magic, Selects

\* The steps that look at a command line.
LEMMA ArgsStepTypes ==
  ASSUME NEW tokens \in Tokens
  PROVE  /\ test_args(0, tokens) \in TestSteps /\ test_args(1, tokens) \in TestSteps
         /\ without_output(tokens) \in TestSteps
BY DEF test_args, without_output, TestSteps

\* Sequences of up to four elements.
LEMMA ShortSeqs ==
  ASSUME NEW T, NEW w \in T, NEW x \in T, NEW y \in T, NEW z \in T
  PROVE  /\ <<w>> \in Seq(T) /\ <<w, x>> \in Seq(T) /\ <<w, x, y>> \in Seq(T)
         /\ <<w, x, y, z>> \in Seq(T)
OBVIOUS

\* A function on the first numbers is a sequence.
LEMMA FunctionIsSeq ==
  ASSUME NEW T, NEW n \in Nat, NEW f \in [1..n -> T]
  PROVE  f \in Seq(T) /\ Len(f) = n
OBVIOUS

\* The flows of a countdown.
LEMMA CountdownTypes ==
  ASSUME NEW a \in Seq(Nat), Len(a) = 3
  PROVE  CountdownA(a) \in Seq(TestSteps) /\ CountdownB(a) \in Seq(TestSteps)
<1>1. ASSUME NEW k \in 1..7
      PROVE  /\ Selects("_a", Trying(15, 7 - k), a) \in TestSteps
             /\ Selects("_b", a, Trying(14, 7 - k)) \in TestSteps
  <2>1. 7 - k \in Nat
    OBVIOUS
  <2>2. /\ Trying(15, 7 - k) \in Seq(Nat) /\ Len(Trying(15, 7 - k)) = 3
        /\ Trying(14, 7 - k) \in Seq(Nat) /\ Len(Trying(14, 7 - k)) = 3
    BY <2>1, Triples
  <2>3. "_a" \in Slots /\ "_b" \in Slots
    BY DEF Slots
  <2> QED BY Zenon, <2>2, <2>3, TestStepTypes
<1>2. CountdownA(a) \in [1..7 -> TestSteps] /\ CountdownB(a) \in [1..7 -> TestSteps]
  BY <1>1 DEF CountdownA, CountdownB
<1>3. 7 \in Nat
  OBVIOUS
<1> QED BY Zenon, <1>2, <1>3, FunctionIsSeq

\* The command lines of the tests: a good one, and some with tokens replaced.
LEMMA TestLines ==
  ASSUME NEW token \in Int \cup {NaN, Empty}
  PROVE  /\ Good \in Tokens /\ SubSeq(Good, 1, 5) \in Tokens
         /\ \A positions : Refuses(positions, token) \in TestSteps
         /\ EachRefused(token) \in Seq(TestSteps)
<1> DEFINE V == Int \cup {NaN, Empty}
<1>1. Good \in Seq(Nat) /\ Len(Good) = 6
  <2>1. /\ Confirmed(15) \in Seq(Nat) /\ Len(Confirmed(15)) = 3
        /\ Confirmed(14) \in Seq(Nat) /\ Len(Confirmed(14)) = 3
    BY Triples
  <2>2. Confirmed(15) \o Confirmed(14) \in Sixes
    BY Zenon, <2>1, TwoTriples
  <2> QED BY Zenon, <2>2 DEF Good, Sixes
<1>2. Good \in Seq(V)
  <2>1. Nat \subseteq V
    OBVIOUS
  <2> HIDE DEF V
  <2> QED BY <1>1, <2>1, SeqMonotonic
<1>3. SubSeq(Good, 1, 5) \in Seq(V)
  <2>1. 1 \in 1..Len(Good) + 1 /\ 5 \in 0..Len(Good)
    BY <1>1
  <2> HIDE DEF V
  <2> QED BY <1>2, <2>1, SubSeqProperties
<1>4. ASSUME NEW positions
      PROVE  Refuses(positions, token) \in TestSteps
  <2> DEFINE f == [k \in 1..6 |-> IF k \in positions THEN token ELSE Good[k]]
  <2>1. \A k \in 1..6 : Good[k] \in V
    <3> HIDE DEF V
    <3> QED BY <1>1, <1>2, ElementOf
  <2>2. f \in [1..6 -> V]
    BY <2>1
  <2>3. f \in Seq(V)
    <3> HIDE DEF f, V
    <3> QED BY <2>2, FunctionIsSeq
  <2>4. test_args(0, f) \in TestSteps
    BY Zenon, <2>3, ArgsStepTypes DEF Tokens
  <2> QED BY <2>4 DEF Refuses
<1>5. EachRefused(token) \in [1..6 -> TestSteps]
  BY <1>4 DEF EachRefused
<1>6. EachRefused(token) \in Seq(TestSteps)
  BY <1>5, FunctionIsSeq
<1> QED BY <1>2, <1>3, <1>4, <1>6 DEF Tokens

\* No conversion of the tests leaves the bytes it was given, "AB" not either, of which
\* six bytes are converted, as there are four behind it.
LEMMA ConvertedTypes ==
  ASSUME NEW behind \in Seq(Byte), Len(behind) >= 4
  PROVE  Utf8toUcs2(behind) \in Seq(TestSteps)
<1> DEFINE Within(bytes, num) ==
             /\ num \in 1..Len(bytes)
             /\ \A i \in 0..num : i = 0 \/ i < num - 1 => i + Announced(bytes[i + 1]) <= Len(bytes)
<1>0. ASSUME NEW bytes \in Seq(Byte), NEW num \in Nat, NEW unit \in Int, Within(bytes, num)
      PROVE  converted(bytes, num, unit) \in TestSteps
  <2> DEFINE r == converted(bytes, num, unit)
  <2>1. /\ r \in [op : {"utf8"}, bytes : Seq(Byte), num_bytes : Nat, unit : Int]
        /\ r.bytes = bytes /\ r.num_bytes = num
    BY DEF converted
  <2>2. Len(bytes) \in Nat
    OBVIOUS
  <2>3. Fits(r)
    BY <1>0, <2>1, <2>2 DEF Fits, Starts
  <2> HIDE DEF r
  <2> QED BY <2>1, <2>3 DEF TestSteps, r
<1>1. converted(<<195, 166, 0>>, 3, 230) \in TestSteps
  <2> DEFINE bytes == <<195, 166, 0>>
  <2>1. bytes \in Seq(Byte) /\ Len(bytes) = 3 /\ bytes[1] = 195 /\ bytes[2] = 166
    BY DEF Byte
  <2>2. Announced(195) = 2 /\ Announced(166) = 0
    BY DEF Announced
  <2> HIDE DEF bytes
  <2>3. Within(bytes, 3)
    BY <2>1, <2>2
  <2> DEFINE n == 3
             u == 230
  <2>8. bytes \in Seq(Byte) /\ n \in Nat /\ u \in Int /\ Within(bytes, n)
    BY <2>1, <2>2, <2>3
  <2> HIDE DEF Within, n, u
  <2>9. converted(bytes, n, u) \in TestSteps
    BY Zenon, <1>0, <2>8
  <2> QED BY <2>9 DEF bytes, n, u
<1>2. converted(<<226, 130, 172, 0>>, 4, 8364) \in TestSteps
  <2> DEFINE bytes == <<226, 130, 172, 0>>
  <2>1. bytes \in Seq(Byte) /\ Len(bytes) = 4 /\ bytes[1] = 226 /\ bytes[2] = 130 /\ bytes[3] = 172
    BY DEF Byte
  <2>2. Announced(226) = 3 /\ Announced(130) = 0 /\ Announced(172) = 0
    BY DEF Announced
  <2> HIDE DEF bytes
  <2>3. Within(bytes, 4)
    BY <2>1, <2>2
  <2> DEFINE n == 4
             u == 8364
  <2>8. bytes \in Seq(Byte) /\ n \in Nat /\ u \in Int /\ Within(bytes, n)
    BY <2>1, <2>2, <2>3
  <2> HIDE DEF Within, n, u
  <2>9. converted(bytes, n, u) \in TestSteps
    BY Zenon, <1>0, <2>8
  <2> QED BY <2>9 DEF bytes, n, u
<1>3. converted(<<65, 66, 0>> \o behind, 6, 65) \in TestSteps
  <2> DEFINE front == <<65, 66, 0>>
             bytes == front \o behind
  <2>1. front \in Seq(Byte) /\ Len(front) = 3 /\ front[1] = 65 /\ front[2] = 66 /\ front[3] = 0
    BY DEF Byte
  <2> HIDE DEF front
  <2>2. /\ bytes \in Seq(Byte) /\ Len(bytes) = 3 + Len(behind)
        /\ \A i \in 1..3 + Len(behind) : bytes[i] = IF i <= 3 THEN front[i] ELSE behind[i - 3]
    <3>1. /\ bytes \in Seq(Byte) /\ Len(bytes) = Len(front) + Len(behind)
          /\ \A i \in 1..Len(front) + Len(behind) :
               bytes[i] = IF i <= Len(front) THEN front[i] ELSE behind[i - Len(front)]
      <4>1. front \in Seq(Byte) /\ behind \in Seq(Byte)
        BY <2>1
      <4> HIDE DEF Within
      <4> QED BY Zenon, <4>1, ConcatProperties
    <3> HIDE DEF bytes
    <3> QED BY <2>1, <3>1
  <2>3. Announced(65) = 1 /\ Announced(66) = 1 /\ Announced(0) = 1
    BY DEF Announced
  <2>4. Announced(behind[1]) \in 0..3 /\ Announced(behind[2]) \in 0..3
    BY ElementOf, AnnouncedBy
  <2>5. Len(behind) \in Nat
    OBVIOUS
  <2>6. /\ bytes[1] = 65 /\ bytes[2] = 66 /\ bytes[3] = 0
        /\ bytes[4] = behind[1] /\ bytes[5] = behind[2]
    BY <2>1, <2>2, <2>5
  <2> HIDE DEF bytes
  <2>7. Within(bytes, 6)
    BY <2>2, <2>3, <2>4, <2>5, <2>6
  <2> DEFINE n == 6
             u == 65
  <2>8. bytes \in Seq(Byte) /\ n \in Nat /\ u \in Int /\ Within(bytes, n)
    BY <2>1, <2>2, <2>7
  <2> HIDE DEF Within, n, u
  <2>9. converted(bytes, n, u) \in TestSteps
    BY Zenon, <1>0, <2>8
  <2> QED BY <2>9 DEF bytes, n, u, front
<1>4. converted(<<240, 159, 145, 166, 0>>, 5, Refusal) \in TestSteps
  <2> DEFINE bytes == <<240, 159, 145, 166, 0>>
  <2>1. /\ bytes \in Seq(Byte) /\ Len(bytes) = 5
        /\ bytes[1] = 240 /\ bytes[2] = 159 /\ bytes[3] = 145 /\ bytes[4] = 166
    BY DEF Byte
  <2>2. Announced(240) = 0 /\ Announced(159) = 0 /\ Announced(145) = 0 /\ Announced(166) = 0
    BY DEF Announced
  <2> HIDE DEF bytes
  <2>3. Within(bytes, 5)
    BY <2>1, <2>2
  <2> DEFINE n == 5
             u == Refusal
  <2>8. bytes \in Seq(Byte) /\ n \in Nat /\ u \in Int /\ Within(bytes, n)
    BY <2>1, <2>2, <2>3 DEF Refusal
  <2> HIDE DEF Within, n, u
  <2>9. converted(bytes, n, u) \in TestSteps
    BY Zenon, <1>0, <2>8
  <2> QED BY <2>9 DEF bytes, n, u
<1> DEFINE T == TestSteps
           w == converted(<<195, 166, 0>>, 3, 230)
           x == converted(<<226, 130, 172, 0>>, 4, 8364)
           y == converted(<<65, 66, 0>> \o behind, 6, 65)
           z == converted(<<240, 159, 145, 166, 0>>, 5, Refusal)
<1>5. w \in T /\ x \in T /\ y \in T /\ z \in T
  BY <1>1, <1>2, <1>3, <1>4
<1>6. Utf8toUcs2(behind) = <<w, x, y, z>>
  BY DEF Utf8toUcs2
<1> HIDE DEF T, w, x, y, z
<1> QED BY <1>5, <1>6, ShortSeqs DEF T

\* Every unit test is made of such steps.
LEMMA ScriptTypes ==
  ASSUME NEW test \in Scripts
  PROVE  test \in Seq(TestSteps)
<1> DEFINE T == Seq(TestSteps)
           Triple == {a \in Seq(Nat) : Len(a) = 3}
<1>1. \A p, t, s \in Nat : <<p, t, s>> \in Triple /\ Confirmed(p) \in Triple /\ Trying(p, t) \in Triple
  BY Zenon, Triples
<1>2. \A n \in {0, 1, 3, 2, 6, 7, 8, 9, 14, 15, 20, 100, -1} : n \in Int /\ (n # -1 => n \in Nat)
  OBVIOUS
<1>3. /\ None \in Triple /\ Confirmed(9) \in Triple /\ Confirmed(14) \in Triple /\ Confirmed(15) \in Triple
      /\ Trying(14, 2) \in Triple /\ Trying(14, 3) \in Triple /\ Trying(14, 7) \in Triple
      /\ Trying(15, 6) \in Triple /\ Trying(15, 7) \in Triple
      /\ <<15, 0, 0>> \in Triple /\ <<15, 7, 1>> \in Triple
      /\ <<0, 7, 0>> \in Triple /\ <<0, 0, 1>> \in Triple /\ <<0, 7, 1>> \in Triple
  <2>1. None \in Triple
    BY Triples, <1>2
  <2> HIDE DEF Triple
  <2>2. 0 \in Nat /\ 1 \in Nat /\ 2 \in Nat /\ 3 \in Nat /\ 6 \in Nat /\ 7 \in Nat /\ 9 \in Nat /\ 14 \in Nat /\ 15 \in Nat
    OBVIOUS
  <2>3. Confirmed(9) \in Triple /\ Confirmed(14) \in Triple /\ Confirmed(15) \in Triple
    BY Zenon, <1>1, <2>2
  <2>4. Trying(14, 2) \in Triple /\ Trying(14, 3) \in Triple /\ Trying(14, 7) \in Triple
    BY Zenon, <1>1, <2>2
  <2>5. Trying(15, 6) \in Triple /\ Trying(15, 7) \in Triple
    BY Zenon, <1>1, <2>2
  <2>6. <<15, 0, 0>> \in Triple /\ <<15, 7, 1>> \in Triple
    BY Zenon, <1>1, <2>2
  <2>7. <<0, 7, 0>> \in Triple /\ <<0, 0, 1>> \in Triple /\ <<0, 7, 1>> \in Triple
    BY Zenon, <1>1, <2>2
  <2> QED BY <2>1, <2>3, <2>4, <2>5, <2>6, <2>7
<1>4. ASSUME NEW a \in Triple, NEW b \in Triple
      PROVE  /\ ab_init(FALSE, a \o b) \in TestSteps
             /\ Magic(a, b) \in TestSteps
             /\ Selects("_a", a, b) \in TestSteps /\ Selects("_b", a, b) \in TestSteps
             /\ test_ab_flow(a \o b, "INVALID_METADATA", "") \in TestSteps
             /\ test_ab_flow(a \o b, "NO_VALID_SLOTS", "") \in TestSteps
             /\ Mark("_a") \in TestSteps
             /\ test_args(1, a \o b) \in TestSteps
  <2>1. "_a" \in Slots /\ "_b" \in Slots /\ FALSE \in BOOLEAN
    BY DEF Slots
  <2>2. a \o b \in Seq(Nat)
    BY TwoTriples DEF Sixes
  <2>3. a \o b \in Tokens
    <3>1. Nat \subseteq Int \cup {NaN, Empty}
      OBVIOUS
    <3> QED BY Zenon, <2>2, <3>1, SeqMonotonic DEF Tokens
  <2> QED BY Zenon, <2>1, <2>3, TestStepTypes, ArgsStepTypes
<1>5. SelectsNone \in TestSteps
  BY Zenon, <1>3, <1>4 DEF SelectsNone
<1>6. \A s, t \in T : s \o t \in T
  BY ConcatProperties
<1>7. \A x, y, z, w \in TestSteps : <<x>> \in T /\ <<x, y>> \in T /\ <<x, y, z>> \in T /\ <<x, y, z, w>> \in T
  BY Zenon, ShortSeqs
<1>8. \A a \in Triple : CountdownA(a) \in T /\ CountdownB(a) \in T
  BY Zenon, CountdownTypes
<1>9. /\ TwoValid(15, 14, "_a") \in T /\ TwoValid(14, 15, "_b") \in T
      /\ \A a, b \in Triple : InvalidMetadata(a, b) \in T
  <2> HIDE DEF T, Triple
  <2>1. TwoValid(15, 14, "_a") \in T
    BY Zenon, <1>3, <1>4, <1>7 DEF TwoValid
  <2>2. TwoValid(14, 15, "_b") \in T
    BY Zenon, <1>3, <1>4, <1>7 DEF TwoValid
  <2>3. ASSUME NEW a \in Triple, NEW b \in Triple
        PROVE  InvalidMetadata(a, b) \in T
    BY Zenon, <1>3, <1>4, <1>7 DEF InvalidMetadata
  <2> QED BY Zenon, <2>1, <2>2, <2>3
<1>10. /\ Good \in Tokens /\ SubSeq(Good, 1, 5) \in Tokens
       /\ \A token \in Int \cup {NaN, Empty} :
            (\A positions : Refuses(positions, token) \in TestSteps) /\ EachRefused(token) \in T
  BY Zenon, <1>2, TestLines
<1>11. /\ without_output(Good) \in TestSteps /\ test_args(0, SubSeq(Good, 1, 5)) \in TestSteps
  BY Zenon, <1>10, ArgsStepTypes
<1> HIDE DEF T, Triple
<1>12. /\ NoValidSlots \in T /\ InvalidMetadataMagicInvalidSlots \in T
       /\ InvalidMetadataMagicValidSlots \in T /\ SingleSuccessfulSlot \in T
       /\ SingleTryingSlot \in T /\ TwoValidSlotsA \in T /\ TwoValidSlotsB \in T
  <2>1. NoValidSlots \in T
    BY Zenon, <1>3, <1>4, <1>5, <1>7 DEF NoValidSlots
  <2>2. InvalidMetadataMagicInvalidSlots \in T
    BY Zenon, <1>3, <1>9 DEF InvalidMetadataMagicInvalidSlots
  <2>3. InvalidMetadataMagicValidSlots \in T
    BY Zenon, <1>3, <1>9 DEF InvalidMetadataMagicValidSlots
  <2>4. SingleSuccessfulSlot \in T
    BY Zenon, <1>3, <1>4, <1>7 DEF SingleSuccessfulSlot
  <2>5. SingleTryingSlot \in T
    BY Zenon, <1>3, <1>4, <1>7 DEF SingleTryingSlot
  <2>6. TwoValidSlotsA \in T
    BY Zenon, <1>9 DEF TwoValidSlotsA
  <2>7. TwoValidSlotsB \in T
    BY Zenon, <1>9 DEF TwoValidSlotsB
  <2> QED BY Zenon, <2>1, <2>2, <2>3, <2>4, <2>5, <2>6, <2>7
<1>13. TryingFallback \in T /\ TryingNoFallbackRecovery \in T
  <2>1. /\ <<Magic(Trying(15, 7), Confirmed(14))>> \in T /\ CountdownA(Confirmed(14)) \in T
        /\ <<Selects("_b", None, Confirmed(14))>> \in T
    BY Zenon, <1>3, <1>4, <1>7, <1>8
  <2>2. <<Magic(Trying(15, 7), None)>> \in T /\ CountdownA(None) \in T /\ <<SelectsNone>> \in T
    BY Zenon, <1>3, <1>4, <1>5, <1>7, <1>8
  <2>3. TryingFallback \in T
    BY Zenon, <1>6, <2>1 DEF TryingFallback
  <2>4. TryingNoFallbackRecovery \in T
    BY Zenon, <1>6, <2>2 DEF TryingNoFallbackRecovery
  <2> QED BY <2>3, <2>4
<1>14. SingleTryingSuccess \in T /\ TwoTryingRecovery \in T /\ MarkedInvalidFallback \in T
  <2>1. /\ <<Magic(Trying(15, 7), Confirmed(14))>> \in T /\ CountdownA(Confirmed(14)) \in T
        /\ <<Selects("_a", Confirmed(15), Confirmed(14))>> \in T
    BY Zenon, <1>3, <1>4, <1>7, <1>8
  <2>2. /\ <<Magic(Trying(15, 7), Trying(14, 7))>> \in T /\ CountdownA(Trying(14, 7)) \in T
        /\ CountdownB(None) \in T /\ <<SelectsNone>> \in T
    BY Zenon, <1>3, <1>4, <1>5, <1>7, <1>8
  <2>3. <<Mark("_a"), Selects("_b", None, Confirmed(14))>> \in T
    BY Zenon, <1>3, <1>4, <1>7
  <2>4. SingleTryingSuccess \in T
    BY Zenon, <1>6, <1>9, <2>1 DEF SingleTryingSuccess
  <2>5. TwoTryingRecovery \in T
    BY Zenon, <1>6, <2>2 DEF TwoTryingRecovery
  <2>6. MarkedInvalidFallback \in T
    BY Zenon, <1>6, <1>9, <2>3 DEF MarkedInvalidFallback
  <2> QED BY <2>4, <2>5, <2>6
<1>15. /\ ValidAndInvalidHigherPriority \in T /\ ValidAndUpdatingBadSuccessfulBoot \in T
       /\ InvalidBadTriesRemainingAndValid \in T /\ InvalidBadSuccessfulBootandValid \in T
       /\ InvalidTriesBootAndUpdatingBadSuccessfulBoot \in T
  <2>1. ValidAndInvalidHigherPriority \in T
    BY Zenon, <1>3, <1>4, <1>7 DEF ValidAndInvalidHigherPriority
  <2>2. ValidAndUpdatingBadSuccessfulBoot \in T
    BY Zenon, <1>3, <1>4, <1>7 DEF ValidAndUpdatingBadSuccessfulBoot
  <2>3. InvalidBadTriesRemainingAndValid \in T
    BY Zenon, <1>3, <1>4, <1>7 DEF InvalidBadTriesRemainingAndValid
  <2>4. InvalidBadSuccessfulBootandValid \in T
    BY Zenon, <1>3, <1>4, <1>7 DEF InvalidBadSuccessfulBootandValid
  <2>5. InvalidTriesBootAndUpdatingBadSuccessfulBoot \in T
    BY Zenon, <1>3, <1>4, <1>7 DEF InvalidTriesBootAndUpdatingBadSuccessfulBoot
  <2> QED BY Zenon, <2>1, <2>2, <2>3, <2>4, <2>5
<1>16. ActiveAndBackup \in T /\ TwoUpdating \in T /\ ActiveAndInvalid \in T /\ TwoInvalid \in T
  <2>1. ActiveAndBackup \in T
    BY Zenon, <1>3, <1>4, <1>7 DEF ActiveAndBackup
  <2>2. TwoUpdating \in T
    BY Zenon, <1>3, <1>4, <1>7 DEF TwoUpdating
  <2>3. ActiveAndInvalid \in T
    BY Zenon, <1>3, <1>4, <1>7 DEF ActiveAndInvalid
  <2>4. TwoInvalid \in T
    BY Zenon, <1>3, <1>4, <1>7 DEF TwoInvalid
  <2> QED BY Zenon, <2>1, <2>2, <2>3, <2>4
<1>17. BadPriority \in T /\ BadTriesRemaining \in T /\ BadSuccessfulBoot \in T
  BY Zenon, <1>2, <1>7, <1>10 DEF BadPriority, BadTriesRemaining, BadSuccessfulBoot
<1>18. /\ OutOfRangePositiveAttribute \in T /\ OutOfRangeNegativeAttribute \in T
       /\ NonNumericAtrribute \in T /\ MissingAttributes \in T /\ MissingOutput \in T
  BY Zenon, <1>2, <1>7, <1>10, <1>11
  DEF OutOfRangePositiveAttribute, OutOfRangeNegativeAttribute, NonNumericAtrribute,
      MissingAttributes, MissingOutput
<1> QED BY Zenon, <1>12, <1>13, <1>14, <1>15, <1>16, <1>17, <1>18 DEF Scripts, T

-----------------------------------------------------------------------------
(* Where a program starts, and what its steps are *)

\* What ScriptInv says of each program.
LEMMA Programs ==
  ASSUME ScriptInv
  PROVE  /\ given.op \in {"test", "main", "name"}
         /\ given.op = "test" => script \in Seq(TestSteps)
         /\ given.op = "main" =>
              /\ given.tokens \in Tokens /\ given.output \in BOOLEAN
              /\ script \in {<<given, [op |-> "write"]>>, <<[op |-> "write"]>>, <<>>}
         /\ given.op = "name" =>
              /\ IsName(given.name)
              /\ script \in {<<converted(given.name.bytes, Len(given.name.bytes), 0)>>, <<>>}
<1>1. CASE \E behind \in Behind :
             given = [op |-> "test", behind |-> behind] /\ script \in Seq(TestSteps)
  BY <1>1
<1>2. CASE \E tokens \in TokenLists, output \in BOOLEAN :
             /\ given = [op |-> "main", tokens |-> tokens, output |-> output]
             /\ script \in {<<given, [op |-> "write"]>>, <<[op |-> "write"]>>, <<>>}
  <2>1. TokenLists \subseteq Tokens
    BY HostAssumption DEF Tokens
  <2>2. PICK tokens \in TokenLists, output \in BOOLEAN :
             /\ given = [op |-> "main", tokens |-> tokens, output |-> output]
             /\ script \in {<<given, [op |-> "write"]>>, <<[op |-> "write"]>>, <<>>}
    BY <1>2
  <2>3. given.op = "main" /\ given.tokens = tokens /\ given.output = output
    BY <2>2
  <2> QED BY <2>1, <2>2, <2>3
<1>3. CASE \E n \in Names :
             /\ given = [op |-> "name", name |-> n]
             /\ script \in {<<converted(n.bytes, Len(n.bytes), 0)>>, <<>>}
  <2>1. PICK n \in Names :
             /\ given = [op |-> "name", name |-> n]
             /\ script \in {<<converted(n.bytes, Len(n.bytes), 0)>>, <<>>}
    BY <1>3
  <2>2. given.op = "name" /\ given.name = n
    BY <2>1
  <2> QED BY Zenon, <2>1, <2>2, NamesAssumption
<1> QED BY <1>1, <1>2, <1>3 DEF ScriptInv

\* The first step of what is left of a test, and what is left behind it.
LEMMA FirstStep ==
  ASSUME NEW T, script \in Seq(T), script # <<>>
  PROVE  Step \in T /\ Tail(script) \in Seq(T)
BY DEF Step

\* The numbers among the tokens, and none before the first token.
LEMMA FilledSet ==
  ASSUME given.tokens \in Tokens
  PROVE  /\ Filled \subseteq 1..Len(given.tokens) /\ Len(given.tokens) \in Nat
         /\ IsFiniteSet(Filled)
         /\ \A n \in Nat : /\ IsFiniteSet({j \in Filled : j <= n})
                           /\ Counted(n) \in Nat /\ Counted(n) <= Cardinality(Filled)
         /\ Counted(0) = 0
<1>1. Filled \subseteq 1..Len(given.tokens) /\ Len(given.tokens) \in Nat
  BY DEF Filled, Tokens
<1>2. IsFiniteSet(Filled)
  <2> DEFINE S == 1..Len(given.tokens)
  <2>1. IsFiniteSet(S) /\ Filled \in SUBSET S
    BY <1>1, FS_Interval
  <2> HIDE DEF S
  <2> QED BY <2>1, FS_Subset
<1>3. ASSUME NEW n \in Nat
      PROVE  /\ IsFiniteSet({j \in Filled : j <= n})
             /\ Counted(n) \in Nat /\ Counted(n) <= Cardinality(Filled)
  <2>1. {j \in Filled : j <= n} \in SUBSET Filled
    OBVIOUS
  <2> QED BY <1>2, <2>1, FS_Subset, FS_CardinalityType DEF Counted
<1>4. {j \in Filled : j <= 0} = {}
  <2>1. \A j \in Filled : ~(j <= 0)
    BY <1>1
  <2> QED BY Zenon, <2>1
<1> QED BY <1>1, <1>2, <1>3, <1>4, FS_EmptySet DEF Counted

\* Every program starts in a state of the invariant.
LEMMA InitHolds == Init => HostInv
<1> SUFFICES ASSUME Init
             PROVE  HostInv
  OBVIOUS
<1>1. /\ at = 0 /\ metadata = <<>> /\ status = Running /\ passed = TRUE /\ whole = FALSE
      /\ boots = <<>> /\ i8 = 0 /\ ucs2 = <<>>
  BY DEF Init, Utf8Init
<1>2. image \in Images
  BY HostAssumption DEF Init, TestStarts, main, NameIsConverted, Images
<1>3. ScriptInv
  <2>1. CASE TestStarts
    <3>1. PICK behind \in Behind : /\ given = [op |-> "test", behind |-> behind]
                                   /\ script \in Scripts \cup {Utf8toUcs2(behind)}
      BY <2>1 DEF TestStarts
    <3>2. script \in Seq(TestSteps)
      BY Zenon, <3>1, ScriptTypes, ConvertedTypes, HostAssumption
    <3> QED BY <3>1, <3>2 DEF ScriptInv
  <2>2. CASE main
    BY Zenon, <2>2 DEF main, ScriptInv
  <2>3. CASE NameIsConverted
    BY Zenon, <2>3 DEF NameIsConverted, ScriptInv
  <2> QED BY <2>1, <2>2, <2>3 DEF Init
<1>4. TypeOK
  <2>1. \A S : <<>> \in Seq(S)
    BY EmptySeq
  <2>2. at \in Nat /\ i8 \in Nat /\ Len(metadata) <= 6 /\ DOMAIN metadata = {}
    BY <1>1
  <2> QED BY Zenon, <1>1, <1>2, <2>1, <2>2 DEF TypeOK
<1>5. TestInv
  <2> SUFFICES ASSUME given.op = "test"
               PROVE  /\ IsStep("args") => 0 <= Len(Step.tokens)
                      /\ IsStep("utf8") => 0 \in Starts(Step)
    BY <1>1 DEF TestInv
  <2>1. ASSUME script # <<>>
        PROVE  Step \in TestSteps
    BY <1>3, <2>1, Programs, FirstStep
  <2>2. IsStep("args") => 0 <= Len(Step.tokens)
    <3>1. IsStep("args") => Step.tokens \in Tokens
      BY <2>1, TestStepFields DEF IsStep
    <3> QED BY <3>1 DEF Tokens
  <2>3. IsStep("utf8") => 0 \in Starts(Step)
    <3>1. IsStep("utf8") => Step.num_bytes \in Nat
      BY <2>1, TestStepFields DEF IsStep
    <3> QED BY <3>1 DEF Starts
  <2> QED BY <2>2, <2>3
<1>6. ParseInv
  <2> SUFFICES ASSUME given.op = "main"
               PROVE  ParseInv
    BY DEF ParseInv
  <2>1. script = <<given, [op |-> "write"]>>
    BY DEF Init, main, TestStarts, NameIsConverted
  <2>2. Len(script) = 2 /\ script # <<>>
    BY <2>1
  <2>3. given.tokens \in Tokens
    BY <1>3, Programs
  <2>4. Counted(0) = 0 /\ Len(given.tokens) \in Nat
    BY <2>3, FilledSet
  <2> QED BY <1>1, <2>2, <2>4 DEF ParseInv
<1>7. ImageInv /\ MadeImageBoots
  <2>1. Len(boots) <= MaxBoots
    BY <1>1, HostAssumption
  <2> QED BY Zenon, <1>1, <2>1 DEF ImageInv, MadeImageBoots
<1>8. NameInv
  <2> SUFFICES ASSUME given.op = "name"
               PROVE  NameInv
    BY DEF NameInv
  <2>1. IsName(given.name) /\ script # <<>>
    <3>1. \E n \in Names : script = <<converted(n.bytes, Len(n.bytes), 0)>>
      BY DEF Init, main, TestStarts, NameIsConverted
    <3> QED BY <1>3, <3>1, Programs
  <2>2. given.name.starts[1] = 0
    BY <2>1 DEF IsName
  <2> QED BY <1>1, <2>1, <2>2 DEF NameInv
<1> QED BY <1>3, <1>4, <1>5, <1>6, <1>7, <1>8 DEF HostInv

-----------------------------------------------------------------------------
(* The steps of a unit test *)

\* The parser and the conversion at their start are where every step finds them.
LEMMA FreshStep ==
  ASSUME NEW s \in Seq(TestSteps), s # <<>>
  PROVE  /\ Head(s).op = "args" => 0 <= Len(Head(s).tokens)
         /\ Head(s).op = "utf8" => 0 \in Starts(Head(s))
<1>1. Head(s) \in TestSteps
  <2> HIDE DEF TestSteps
  <2> QED OBVIOUS
<1>2. Head(s).op = "args" => Head(s).tokens \in Tokens
  BY <1>1, TestStepFields
<1>3. Head(s).op = "utf8" => Head(s).num_bytes \in Nat
  BY <1>1, TestStepFields
<1>4. Head(s).op = "args" => 0 <= Len(Head(s).tokens)
  BY <1>2 DEF Tokens
<1> QED BY <1>3, <1>4 DEF Starts

\* A unit test in the invariant.
LEMMA TestProgram ==
  ASSUME HostInv, given.op = "test"
  PROVE  /\ status = Running /\ whole = FALSE /\ boots = <<>>
         /\ script \in Seq(TestSteps)
         /\ script # <<>> => Step \in TestSteps /\ Tail(script) \in Seq(TestSteps)
         /\ IF IsStep("args") THEN at <= Len(Step.tokens) ELSE at = 0 /\ metadata = <<>>
         /\ IF IsStep("utf8") THEN i8 \in Starts(Step) ELSE i8 = 0
<1>1. script \in Seq(TestSteps)
  BY Programs DEF HostInv
<1>2. script # <<>> => Step \in TestSteps /\ Tail(script) \in Seq(TestSteps)
  BY <1>1, FirstStep
<1>3. whole \in BOOLEAN /\ ~whole /\ boots = <<>>
  BY DEF HostInv, TypeOK, ImageInv
<1> QED BY <1>1, <1>2, <1>3 DEF HostInv, TestInv

\* What is left to show of a step of a test.
LEMMA TestKeeps ==
  ASSUME HostInv, given.op = "test", UNCHANGED <<given, whole, boots>>,
         TypeOK', script' \in Seq(TestSteps), TestInv'
  PROVE  HostInv'
<1>1. given'.op = "test" /\ whole' = FALSE /\ boots' = <<>>
  BY TestProgram
<1>2. ScriptInv'
  <2>1. \E behind \in Behind : given = [op |-> "test", behind |-> behind]
    BY DEF HostInv, ScriptInv
  <2>2. given' = given
    OBVIOUS
  <2> QED BY Zenon, <2>1, <2>2 DEF ScriptInv
<1>3. ParseInv' /\ NameInv'
  BY <1>1 DEF ParseInv, NameInv
<1>4. ImageInv' /\ MadeImageBoots'
  <2>1. Len(boots') <= MaxBoots
    BY <1>1, HostAssumption
  <2> QED BY Zenon, <1>1, <2>1 DEF ImageInv, MadeImageBoots
<1> QED BY <1>2, <1>3, <1>4 DEF HostInv

\* A step of a test that leaves the parser and the conversion at their start.
LEMMA TestGoesOn ==
  ASSUME HostInv, given.op = "test", UNCHANGED <<given, whole, boots>>, status' = status,
         script' \in Seq(TestSteps), image' \in Images, passed' \in BOOLEAN,
         at' = 0, metadata' = <<>>, i8' = 0, ucs2' \in Seq(Ucs2Unit)
  PROVE  HostInv'
<1>1. status' = Running /\ whole' = FALSE /\ boots' = <<>>
  BY TestProgram
<1>2. TypeOK'
  <2>1. \A S : <<>> \in Seq(S)
    BY EmptySeq
  <2>2. at' \in Nat /\ i8' \in Nat /\ Len(metadata') <= 6 /\ DOMAIN metadata' = {}
    OBVIOUS
  <2> QED BY Zenon, <1>1, <2>1, <2>2 DEF TypeOK
<1>3. TestInv'
  <2>1. /\ IsStep("args")' => at' <= Len(Step.tokens)'
        /\ IsStep("utf8")' => i8' \in Starts(Step)'
    BY FreshStep DEF IsStep, Step, Starts
  <2> QED BY <1>1, <2>1 DEF TestInv
<1> QED BY <1>2, <1>3, TestKeeps

\* The steps of a test on the image.
LEMMA TestImage ==
  ASSUME HostInv, given.op = "test", GenerateMiscImage \/ TestFlow \/ TestMark
  PROVE  HostInv'
<1>0. /\ image \in Images /\ passed \in BOOLEAN /\ ucs2 \in Seq(Ucs2Unit)
      /\ script # <<>> /\ Step \in TestSteps /\ Step.op \in {"init", "flow", "mark"}
      /\ Tail(script) \in Seq(TestSteps)
      /\ at = 0 /\ metadata = <<>> /\ i8 = 0
  <2>1. script # <<>> /\ Step.op \in {"init", "flow", "mark"}
    BY DEF GenerateMiscImage, TestFlow, TestMark, IsStep
  <2> QED BY <2>1, TestProgram DEF HostInv, TypeOK, IsStep
<1>1. CASE GenerateMiscImage
  <2>1. Step.magic \in BOOLEAN /\ write_ab_metadata(Step.v) \in AbData
    BY <1>0, <1>1, TestStepFields, WrittenSlots DEF GenerateMiscImage, IsStep
  <2>2. image' \in Images
    BY <1>1, <2>1, ImageMade DEF GenerateMiscImage, Images
  <2> QED BY <1>0, <1>1, <2>2, TestGoesOn DEF GenerateMiscImage, parseVars, utf8Vars
<1>2. CASE TestFlow
  <2>1. image' \in Images
    BY <1>0, <1>2, FlowType DEF TestFlow
  <2>2. passed' \in BOOLEAN
    BY <1>2 DEF TestFlow, Expect
  <2> QED BY <1>0, <1>2, <2>1, <2>2, TestGoesOn DEF TestFlow, parseVars, utf8Vars
<1>3. CASE TestMark
  <2>1. Step.suffix \in Slots
    BY <1>0, <1>3, TestStepFields DEF TestMark, IsStep
  <2>2. image' \in Images
    BY <1>0, <1>3, <2>1, MarkType DEF TestMark
  <2>3. passed' \in BOOLEAN
    BY <1>3 DEF TestMark, Expect
  <2> QED BY <1>0, <1>3, <2>2, <2>3, TestGoesOn DEF TestMark, parseVars, utf8Vars
<1> QED BY <1>1, <1>2, <1>3

\* A turn of a conversion of a test: the bytes it looks at are there.
LEMMA TestConversion ==
  ASSUME HostInv, given.op = "test", ConvertRefuses \/ ConvertGoesOn \/ ConvertEnds
  PROVE  HostInv'
<1>0. /\ image \in Images /\ passed \in BOOLEAN /\ ucs2 \in Seq(Ucs2Unit)
      /\ script # <<>> /\ Step.op = "utf8" /\ script \in Seq(TestSteps)
      /\ Tail(script) \in Seq(TestSteps) /\ i8 \in Starts(Step)
      /\ Step.bytes \in Seq(Byte) /\ Step.num_bytes \in Nat /\ Fits(Step)
      /\ at = 0 /\ metadata = <<>>
  <2>1. script # <<>> /\ Step.op = "utf8"
    BY DEF ConvertRefuses, ConvertGoesOn, ConvertEnds, IsStep
  <2>2. Step \in TestSteps
    BY <2>1, TestProgram
  <2> QED BY <2>1, <2>2, TestStepFields, TestProgram DEF HostInv, TypeOK, IsStep
<1>1. CASE ConvertRefuses \/ ConvertEnds
  <2>1. /\ UNCHANGED <<given, image, whole, boots>> /\ script' = Tail(script)
        /\ at' = at /\ metadata' = metadata
    BY <1>1 DEF ConvertRefuses, ConvertEnds, parseVars
  <2>2. passed' \in BOOLEAN /\ status' = status
    BY <1>1 DEF ConvertRefuses, ConvertEnds, ConversionEnds, Expect
  <2>3. i8' = 0 /\ ucs2' = <<>>
    BY <1>1 DEF ConvertRefuses, ConvertEnds
  <2>4. ucs2' \in Seq(Ucs2Unit)
    BY <2>3, EmptySeq
  <2> QED BY <1>0, <2>1, <2>2, <2>3, <2>4, TestGoesOn
<1>2. CASE ConvertGoesOn
  <2> DEFINE bytes == Step.bytes
             many == Announced(Step.bytes[i8 + 1])
  <2>1. /\ UNCHANGED <<given, script, image, status, passed, whole, boots>>
        /\ at' = at /\ metadata' = metadata
        /\ many # 0 /\ ~(i8 + many >= Step.num_bytes - 1)
        /\ i8' = i8 + many /\ ucs2' = Append(ucs2, Unit(bytes, i8))
    BY <1>2 DEF ConvertGoesOn, Refused, LoopEnds, Turn, parseVars
  <2>2. i8 \in Nat /\ i8 < Len(bytes) /\ i8 + many <= Len(bytes)
    BY <1>0 DEF Fits, Starts
  <2>3. Unit(bytes, i8) \in Ucs2Unit /\ many \in 1..3
    BY <1>0, <2>1, <2>2, UnitType
  <2>4. ucs2' \in Seq(Ucs2Unit)
    <3> DEFINE u == Unit(bytes, i8)
    <3>1. ucs2' = Append(ucs2, u) /\ u \in Ucs2Unit
      BY <2>1, <2>3
    <3> HIDE DEF u
    <3> QED BY <1>0, <3>1, AppendProperties
  <2> HIDE DEF many
  <2>5. i8' \in Nat /\ i8' \in 0..Step.num_bytes /\ i8' < Step.num_bytes - 1
    BY <1>0, <2>1, <2>2, <2>3
  <2>6. i8' \in Starts(Step)'
    BY <2>1, <2>5 DEF Starts, Step
  <2>7. TypeOK'
    <3>1. TypeOK
      BY DEF HostInv
    <3> QED BY Zenon, <2>1, <2>4, <2>5, <3>1 DEF TypeOK
  <2>8. TestInv'
    <3>1. status = Running
      BY TestProgram
    <3> QED BY <1>0, <2>1, <2>6, <3>1 DEF TestInv, IsStep, Step
  <2> QED BY <1>0, <2>1, <2>7, <2>8, TestKeeps
<1> QED BY <1>1, <1>2

-----------------------------------------------------------------------------
(* The parser *)

\* A number that is taken is one that its place allows, and a natural number.
LEMMA TokenTaken ==
  ASSUME TypeOK, Len(metadata) < 6, NEW token \in 0..Limit[Len(metadata) + 1]
  PROVE  LET new == Append(metadata, token) IN
         /\ new \in Seq(Nat) /\ Len(new) = Len(metadata) + 1 /\ Len(new) <= 6
         /\ Len(metadata) \in Nat /\ DOMAIN new = 1..Len(metadata) + 1
         /\ \A k \in DOMAIN metadata : new[k] = metadata[k]
         /\ DOMAIN metadata = 1..Len(metadata) /\ new[Len(metadata) + 1] = token
         /\ \A k \in DOMAIN new : new[k] \in 0..Limit[k]
<1>1. /\ metadata \in Seq(Nat) /\ Len(metadata) \in Nat
      /\ \A k \in DOMAIN metadata : metadata[k] \in 0..Limit[k]
  BY DEF TypeOK
<1>2. token \in Nat
  <2>1. \A k \in 1..6 : Limit[k] \in Nat
    BY DEF Limit
  <2>2. Len(metadata) + 1 \in 1..6
    BY <1>1
  <2>3. Limit[Len(metadata) + 1] \in Nat
    BY <2>1, <2>2
  <2> HIDE DEF Limit
  <2> QED BY <2>3
<1> DEFINE new == Append(metadata, token)
<1>3. /\ new \in Seq(Nat) /\ Len(new) = Len(metadata) + 1
      /\ \A k \in 1..Len(metadata) : new[k] = metadata[k]
      /\ new[Len(metadata) + 1] = token
  BY <1>1, <1>2, AppendProperties
<1>4. DOMAIN metadata = 1..Len(metadata) /\ DOMAIN new = 1..Len(metadata) + 1
  BY <1>1, <1>3, LenProperties
<1> HIDE DEF new
<1>5. ASSUME NEW k \in DOMAIN new
      PROVE  new[k] \in 0..Limit[k]
  <2>1. k \in 1..Len(metadata) \/ k = Len(metadata) + 1
    BY <1>1, <1>4
  <2> QED BY Zenon, <1>1, <1>3, <1>4, <2>1
<1>6. Len(new) <= 6
  BY <1>1, <1>3
<1> QED BY Zenon, <1>1, <1>3, <1>4, <1>5, <1>6 DEF new

\* A command line of a test, up to its end.
LEMMA TestParsing ==
  ASSUME HostInv, given.op = "test", SkipEmpty \/ TakeToken \/ RefuseToken \/ TestOutput
  PROVE  HostInv'
<1>0. /\ TypeOK /\ script # <<>> /\ Step.op = "args" /\ script \in Seq(TestSteps)
      /\ Tail(script) \in Seq(TestSteps) /\ Step.tokens \in Tokens
      /\ i8 = 0 /\ status = Running
  <2>1. script # <<>> /\ Step.op \in {"args", "main"}
    BY DEF SkipEmpty, TakeToken, RefuseToken, TestOutput, IsParsing, IsStep
  <2>2. Step \in TestSteps
    BY <2>1, TestProgram
  <2>3. Step.op = "args" /\ Step.tokens \in Tokens
    BY <2>1, <2>2, TestStepFields
  <2> QED BY <2>1, <2>3, TestProgram DEF HostInv, IsStep
<1>1. CASE RefuseToken \/ TestOutput
  <2>1. PICK ret : Returns(ret) /\ UNCHANGED <<given, image, whole, boots, i8, ucs2>>
    BY <1>1 DEF RefuseToken, TestOutput, utf8Vars
  <2>2. /\ passed' \in BOOLEAN /\ script' = Tail(script) /\ at' = 0 /\ metadata' = <<>>
        /\ status' = status
    BY <1>0, <2>1 DEF Returns, Expect
  <2> QED BY <1>0, <2>1, <2>2, TestGoesOn DEF TypeOK
<1>2. CASE SkipEmpty \/ TakeToken
  <2>1. /\ UNCHANGED <<given, script, image, status, passed, whole, boots, i8, ucs2>>
        /\ at < Len(Step.tokens) /\ at' = at + 1
    BY <1>2 DEF SkipEmpty, TakeToken, utf8Vars
  <2>2. at \in Nat /\ Len(Step.tokens) \in Nat
    BY <1>0 DEF TypeOK, Tokens
  <2>3. /\ metadata' \in Seq(Nat) /\ Len(metadata') <= 6
        /\ \A k \in DOMAIN metadata' : metadata'[k] \in 0..Limit[k]
    <3>1. CASE SkipEmpty
      BY <1>0, <3>1 DEF SkipEmpty, TypeOK
    <3>2. CASE TakeToken
      <4>1. /\ Len(metadata) < 6 /\ Step.tokens[at + 1] \in 0..Limit[Len(metadata) + 1]
            /\ metadata' = Append(metadata, Step.tokens[at + 1])
        BY <3>2 DEF TakeToken
      <4> HIDE DEF Limit
      <4> QED BY Zenon, <1>0, <4>1, TokenTaken
    <3> QED BY <1>2, <3>1, <3>2
  <2>4. at' \in Nat /\ at' <= Len(Step.tokens)
    BY <2>1, <2>2
  <2>5. TypeOK'
    BY Zenon, <1>0, <2>1, <2>3, <2>4 DEF TypeOK
  <2>6. TestInv'
    BY <1>0, <2>1, <2>4 DEF TestInv, IsStep, Step
  <2> QED BY <1>0, <2>1, <2>5, <2>6, TestKeeps
<1> QED BY <1>1, <1>2

\* Every step of a unit test.
LEMMA TestNext ==
  ASSUME HostInv, given.op = "test", Next
  PROVE  HostInv'
<1>1. ~make_misc_image /\ ~Boot
  <2>1. script # <<>> => Step.op # "write"
    BY TestProgram, TestStepFields
  <2> QED BY <2>1 DEF make_misc_image, Boot, IsStep
<1> QED BY Zenon, <1>1, TestParsing, TestImage, TestConversion DEF Next

-----------------------------------------------------------------------------
(* The numbers of a command line, and their places *)

\* No two numbers have as many numbers before them.
LEMMA PlacesDiffer ==
  ASSUME given.tokens \in Tokens, NEW i \in Filled, NEW j \in Filled, Counted(i) = Counted(j)
  PROVE  i = j
<1> DEFINE Upto(n) == {x \in Filled : x <= n}
<1>1. i \in Nat /\ j \in Nat /\ Filled \subseteq Nat
  BY FilledSet
<1>2. ASSUME NEW m \in Filled, NEW n \in Filled, m < n, Cardinality(Upto(m)) = Cardinality(Upto(n))
      PROVE  FALSE
  <2>1. m \in Nat /\ n \in Nat
    BY <1>1
  <2>2. Upto(m) \in SUBSET Upto(n) /\ n \in Upto(n) /\ n \notin Upto(m)
    <3>1. \A x \in Nat : x <= m => x <= n
      BY <1>2, <2>1
    <3>2. n <= n /\ ~(n <= m)
      BY <1>2, <2>1
    <3> QED BY Zenon, <1>1, <3>1, <3>2
  <2>3. IsFiniteSet(Upto(n))
    BY <2>1, FilledSet
  <2> HIDE DEF Upto
  <2>4. Upto(n) = Upto(m)
    BY <1>2, <2>2, <2>3, FS_Subset
  <2> QED BY <2>2, <2>4
<1>3. i < j \/ j < i \/ i = j
  BY <1>1
<1> QED BY <1>2, <1>3 DEF Counted

\* A number is counted and has the next place; where nothing stands, nothing is.
LEMMA NextPlace ==
  ASSUME given.tokens \in Tokens, NEW n \in Nat, n < Len(given.tokens)
  PROVE  /\ given.tokens[n + 1] = Empty => Counted(n + 1) = Counted(n)
         /\ given.tokens[n + 1] # Empty =>
              Counted(n + 1) = Counted(n) + 1 /\ Kept(Counted(n) + 1) = given.tokens[n + 1]
<1> DEFINE Upto(m) == {x \in Filled : x <= m}
<1>0. Filled \subseteq Nat /\ IsFiniteSet(Upto(n))
  BY FilledSet
<1>1. n + 1 \in Nat /\ (n + 1 \in Filled <=> given.tokens[n + 1] # Empty)
  <2>1. n + 1 \in Nat /\ n + 1 \in DOMAIN given.tokens
    BY DEF Tokens
  <2> QED BY Zenon, <2>1 DEF Filled
<1>2. n + 1 \notin Filled => Upto(n + 1) = Upto(n)
  <2>1. \A x \in Nat : x = n + 1 \/ (x <= n + 1 <=> x <= n)
    OBVIOUS
  <2> QED BY Zenon, <1>0, <2>1
<1>3. n + 1 \in Filled => Upto(n + 1) = Upto(n) \cup {n + 1} /\ n + 1 \notin Upto(n)
  <2>1. \A x \in Nat : x <= n + 1 <=> x <= n \/ x = n + 1
    OBVIOUS
  <2>2. ~(n + 1 <= n)
    OBVIOUS
  <2> QED BY Zenon, <1>0, <2>1, <2>2
<1>4. ASSUME n + 1 \in Filled
      PROVE  Counted(n + 1) = Counted(n) + 1
  <2> HIDE DEF Upto
  <2>1. Cardinality(Upto(n) \cup {n + 1}) = Cardinality(Upto(n)) + 1
    BY Zenon, <1>0, <1>3, <1>4, FS_AddElement
  <2>2. Cardinality(Upto(n + 1)) = Cardinality(Upto(n)) + 1
    BY <1>3, <1>4, <2>1
  <2> QED BY <2>2 DEF Upto, Counted
<1>5. ASSUME n + 1 \in Filled
      PROVE  Place(Counted(n) + 1) = n + 1
  <2> DEFINE k == Counted(n) + 1
  <2>1. \A j \in Filled : Counted(j) = k => j = n + 1
    BY <1>4, <1>5, PlacesDiffer
  <2>2. Counted(n + 1) = k
    BY <1>4, <1>5
  <2> HIDE DEF k
  <2>3. Place(k) = CHOOSE j \in Filled : Counted(j) = k
    BY DEF Place, Counted
  <2>4. \E j \in Filled : Counted(j) = k
    BY <1>5, <2>2
  <2>5. Place(k) \in Filled /\ Counted(Place(k)) = k
    BY Zenon, <2>3, <2>4
  <2>6. Place(k) = n + 1
    BY <2>1, <2>5
  <2> QED BY <2>6 DEF k
<1> QED BY <1>1, <1>2, <1>4, <1>5 DEF Kept, Counted

\* At the end all of the numbers are counted.
LEMMA AllCounted ==
  ASSUME given.tokens \in Tokens
  PROVE  Counted(Len(given.tokens)) = Cardinality(Filled)
<1>1. {j \in Filled : j <= Len(given.tokens)} = Filled
  <2>1. \A j \in Filled : j <= Len(given.tokens)
    BY FilledSet
  <2> QED BY Zenon, <2>1
<1> QED BY <1>1 DEF Counted

\* The command line stays what it was.
LEMMA SameLine ==
  ASSUME given' = given
  PROVE  /\ Filled' = Filled /\ Taken' = Taken
         /\ \A n : Counted(n)' = Counted(n)
         /\ \A k : Kept(k)' = Kept(k) /\ Lives(k)' = Lives(k) /\ Lasting(k)' = Lasting(k)
         /\ First' = First /\ Second' = Second /\ \A n, k : Used(n, k)' = Used(n, k)
<1>1. Filled' = Filled
  BY Zenon DEF Filled
<1>2. \A k : Kept(k)' = Kept(k)
  BY Zenon, <1>1 DEF Kept, Place
<1>3. \A n : Counted(n)' = Counted(n)
  BY Zenon, <1>1 DEF Counted
<1>4. \A k : Lives(k)' = Lives(k) /\ Lasting(k)' = Lasting(k)
  BY Zenon, <1>2 DEF Lives, Lasting
<1>5. First' = First /\ Second' = Second
  BY Zenon, <1>2 DEF First, Second
<1>6. Taken' = Taken
  BY Zenon, <1>1, <1>2 DEF Taken, InRange
<1>7. \A n, k : Used(n, k)' = Used(n, k)
  BY Zenon, <1>4, <1>5 DEF Used
<1> QED BY Zenon, <1>1, <1>2, <1>3, <1>4, <1>5, <1>6, <1>7

-----------------------------------------------------------------------------
(* The steps of make_misc_image *)

\* make_misc_image in the invariant: at its arguments, before its write, or at its end.
LEMMA MainProgram ==
  ASSUME HostInv, given.op = "main"
  PROVE  /\ given.tokens \in Tokens /\ given.output \in BOOLEAN
         /\ \/ script = <<given, [op |-> "write"]>> /\ Len(script) = 2 /\ script # <<>> /\ Step = given
            \/ script = <<[op |-> "write"]>> /\ Len(script) = 1 /\ script # <<>> /\ Step.op = "write"
            \/ script = <<>> /\ Len(script) = 0
         /\ script # <<>> => status = Running /\ whole = FALSE /\ boots = <<>>
<1>1. /\ given.tokens \in Tokens /\ given.output \in BOOLEAN
      /\ script \in {<<given, [op |-> "write"]>>, <<[op |-> "write"]>>, <<>>}
  BY Programs DEF HostInv
<1>2. \/ script = <<given, [op |-> "write"]>> /\ Len(script) = 2 /\ script # <<>> /\ Step = given
      \/ script = <<[op |-> "write"]>> /\ Len(script) = 1 /\ script # <<>> /\ Step.op = "write"
      \/ script = <<>> /\ Len(script) = 0
  <2> DEFINE w == [op |-> "write"]
  <2>1. w.op = "write" /\ script \in {<<given, w>>, <<w>>, <<>>}
    BY <1>1
  <2> HIDE DEF w
  <2>2. \/ script = <<given, w>> /\ Len(script) = 2 /\ script # <<>> /\ Step = given
        \/ script = <<w>> /\ Len(script) = 1 /\ script # <<>> /\ Step = w
        \/ script = <<>> /\ Len(script) = 0
    BY <2>1 DEF Step
  <2> QED BY Zenon, <2>1, <2>2 DEF w
<1>3. script # <<>> => status = Running
  BY DEF HostInv, ParseInv
<1>4. Running # 1
  BY HostAssumption
<1>5. whole \in BOOLEAN /\ (whole \/ boots # <<>> => status = 1)
  BY Zenon DEF HostInv, TypeOK, ImageInv
<1> QED BY Zenon, <1>1, <1>2, <1>3, <1>4, <1>5

\* What is left to show of a step of make_misc_image.
LEMMA MainKeeps ==
  ASSUME HostInv, given.op = "main", given' = given, TypeOK',
         script' \in {<<given, [op |-> "write"]>>, <<[op |-> "write"]>>, <<>>},
         ParseInv', ImageInv', MadeImageBoots'
  PROVE  HostInv'
<1>1. PICK tokens \in TokenLists, output \in BOOLEAN :
        given = [op |-> "main", tokens |-> tokens, output |-> output]
  BY DEF HostInv, ScriptInv
<1>2. ScriptInv'
  BY Zenon, <1>1 DEF ScriptInv
<1>3. TestInv' /\ NameInv'
  BY DEF TestInv, NameInv
<1> QED BY <1>2, <1>3 DEF HostInv

\* A step of the parser writes nothing.
LEMMA ParserWritesNothing ==
  ASSUME HostInv, given.op = "main", script # <<>>, UNCHANGED <<whole, boots>>
  PROVE  ImageInv' /\ MadeImageBoots'
<1>1. whole' = FALSE /\ boots' = <<>>
  BY MainProgram
<1>2. Len(boots') <= MaxBoots
  BY <1>1, HostAssumption
<1> QED BY Zenon, <1>1, <1>2 DEF ImageInv, MadeImageBoots

\* The parser passes a token.
LEMMA MainReads ==
  ASSUME HostInv, given.op = "main", SkipEmpty \/ TakeToken
  PROVE  HostInv'
<1>0. /\ TypeOK /\ ParseInv
      /\ script = <<given, [op |-> "write"]>> /\ Len(script) = 2 /\ script # <<>> /\ Step = given
      /\ given.tokens \in Tokens
  <2>1. script # <<>> /\ Step.op \in {"args", "main"}
    BY DEF SkipEmpty, TakeToken, IsParsing, IsStep
  <2> QED BY <2>1, MainProgram DEF HostInv
<1>1. /\ UNCHANGED <<given, script, image, status, passed, whole, boots, i8, ucs2>>
      /\ Len(metadata) < 6 /\ at < Len(given.tokens) /\ at' = at + 1
  BY <1>0 DEF SkipEmpty, TakeToken, utf8Vars
<1>2. /\ at \in Nat /\ Len(given.tokens) \in Nat /\ Len(metadata) = Counted(at) /\ Len(metadata) \in Nat
      /\ \A k \in DOMAIN metadata : metadata[k] = Kept(k)
  BY <1>0, FilledSet DEF TypeOK, ParseInv
<1>3. /\ metadata' \in Seq(Nat) /\ Len(metadata') <= 6
      /\ \A k \in DOMAIN metadata' : metadata'[k] \in 0..Limit[k]
      /\ Len(metadata') = Counted(at + 1)
      /\ \A k \in DOMAIN metadata' : metadata'[k] = Kept(k)
  <2>1. CASE SkipEmpty
    <3>1. given.tokens[at + 1] = Empty /\ metadata' = metadata
      BY <1>0, <2>1 DEF SkipEmpty
    <3>2. Counted(at + 1) = Counted(at)
      BY <1>0, <1>1, <1>2, <3>1, NextPlace
    <3> QED BY Zenon, <1>0, <1>2, <3>1, <3>2 DEF TypeOK
  <2>2. CASE TakeToken
    <3> DEFINE token == given.tokens[at + 1]
    <3>1. token \in 0..Limit[Len(metadata) + 1] /\ metadata' = Append(metadata, token)
      BY <1>0, <2>2 DEF TakeToken
    <3> HIDE DEF token
    <3>2. /\ metadata' \in Seq(Nat) /\ Len(metadata') = Len(metadata) + 1 /\ Len(metadata') <= 6
          /\ DOMAIN metadata' = 1..Len(metadata) + 1 /\ DOMAIN metadata = 1..Len(metadata)
          /\ \A k \in DOMAIN metadata : metadata'[k] = metadata[k]
          /\ metadata'[Len(metadata) + 1] = token
          /\ \A k \in DOMAIN metadata' : metadata'[k] \in 0..Limit[k]
      BY Zenon, <1>0, <1>1, <3>1, TokenTaken
    <3>3. token # Empty
      <4>1. token \in Int
        <5>1. 0..Limit[Len(metadata) + 1] \subseteq Int
          BY DEF Limit
        <5> QED BY <3>1, <5>1
      <4> QED BY <4>1, HostAssumption
    <3>4. Counted(at + 1) = Counted(at) + 1 /\ Kept(Counted(at) + 1) = token
      BY <1>0, <1>1, <1>2, <3>3, NextPlace DEF token
    <3>5. ASSUME NEW k \in DOMAIN metadata'
          PROVE  metadata'[k] = Kept(k)
      <4>1. k \in DOMAIN metadata \/ k = Len(metadata) + 1
        BY <1>2, <3>2
      <4> QED BY <1>2, <3>2, <3>4, <4>1
    <3> QED BY <1>2, <3>2, <3>4, <3>5
  <2> QED BY <2>1, <2>2
<1>4. at' \in Nat /\ at' <= Len(given.tokens)
  BY <1>1, <1>2
<1>5. TypeOK'
  BY Zenon, <1>0, <1>1, <1>3, <1>4 DEF TypeOK
<1>6. ParseInv'
  <2>1. status' = Running
    BY <1>0, <1>1 DEF ParseInv
  <2>2. Len(script') = 2 /\ script' # <<>>
    BY <1>0, <1>1
  <2>3. Len(metadata') = Counted(at)' /\ \A k \in DOMAIN metadata' : metadata'[k] = Kept(k)'
    <3>1. given' = given
      BY <1>1
    <3>2. Counted(at)' = Counted(at + 1)
      BY <1>1, <3>1, SameLine DEF Counted
    <3> QED BY <1>3, <3>1, <3>2, SameLine
  <2> QED BY <1>1, <1>4, <2>1, <2>2, <2>3 DEF ParseInv
<1>7. ImageInv' /\ MadeImageBoots'
  BY <1>0, <1>1, ParserWritesNothing
<1> QED BY Zenon, <1>0, <1>1, <1>5, <1>6, <1>7, MainKeeps

\* The parser answers: with a refusal of a line that is not as it should be, or of one
\* that names no output.
LEMMA MainAnswers ==
  ASSUME HostInv, given.op = "main", RefuseToken \/ TestOutput
  PROVE  HostInv'
<1>0. /\ TypeOK /\ ParseInv
      /\ script = <<given, [op |-> "write"]>> /\ Len(script) = 2 /\ script # <<>> /\ Step = given
      /\ given.tokens \in Tokens /\ given.output \in BOOLEAN
  <2>1. script # <<>> /\ Step.op \in {"args", "main"}
    BY DEF RefuseToken, TestOutput, IsParsing, IsStep
  <2> QED BY <2>1, MainProgram DEF HostInv
<1>1. /\ at \in Nat /\ at <= Len(given.tokens) /\ Len(given.tokens) \in Nat
      /\ Len(metadata) = Counted(at) /\ Len(metadata) \in Nat
      /\ Counted(at) <= Cardinality(Filled) /\ Cardinality(Filled) \in Nat
      /\ \A k \in DOMAIN metadata : metadata[k] = Kept(k)
  BY <1>0, FilledSet, FS_CardinalityType DEF TypeOK, ParseInv
<1>2. PICK ret \in {0, 1} :
        /\ Returns(ret) /\ UNCHANGED <<given, image, whole, boots, i8, ucs2>>
        /\ ret = 1 <=> Taken
        /\ Taken => Len(metadata) = 6
  <2>1. CASE RefuseToken
    <3>1. /\ Len(metadata) < 6 /\ Returns(0) /\ UNCHANGED <<given, image, whole, boots, i8, ucs2>>
          /\ \/ at = Len(given.tokens)
             \/ /\ at < Len(given.tokens)
                /\ given.tokens[at + 1] \notin (0..Limit[Len(metadata) + 1]) \cup {Empty}
      BY <1>0, <2>1 DEF RefuseToken, utf8Vars
    <3>2. CASE at = Len(given.tokens)
      <4>1. Cardinality(Filled) < 6
        BY <1>0, <1>1, <3>1, <3>2, AllCounted
      <4>2. ~Taken
        BY <1>1, <4>1 DEF Taken, InRange
      <4> QED BY <3>1, <4>2
    <3>3. CASE /\ at < Len(given.tokens)
               /\ given.tokens[at + 1] \notin (0..Limit[Len(metadata) + 1]) \cup {Empty}
      <4> DEFINE k == Len(metadata) + 1
      <4>1. k \in 1..6
        BY <1>1, <3>1
      <4>2. Kept(k) = given.tokens[at + 1]
        <5>1. given.tokens[at + 1] # Empty
          BY Zenon, <3>3
        <5> QED BY <1>0, <1>1, <3>3, <5>1, NextPlace
      <4>3. Kept(k) \notin 0..Limit[k]
        BY Zenon, <3>3, <4>2
      <4> HIDE DEF k
      <4>4. ~Taken
        BY Zenon, <4>1, <4>3 DEF Taken, InRange
      <4> QED BY <3>1, <4>4
    <3> QED BY <3>1, <3>2, <3>3
  <2>2. CASE TestOutput
    <3>1. /\ Len(metadata) = 6 /\ UNCHANGED <<given, image, whole, boots, i8, ucs2>>
          /\ Returns(IF given.output THEN 1 ELSE 0)
      BY <1>0, <2>2 DEF TestOutput, utf8Vars
    <3>2. DOMAIN metadata = 1..6
      BY <1>0, <3>1, LenProperties DEF TypeOK
    <3>3. \A k \in 1..6 : Kept(k) \in 0..Limit[k]
      BY Zenon, <1>0, <1>1, <3>2 DEF TypeOK
    <3>4. Cardinality(Filled) >= 6
      BY <1>1, <3>1
    <3>5. Taken <=> given.output
      BY Zenon, <3>3, <3>4 DEF Taken, InRange
    <3> QED BY <1>0, <3>1, <3>5
  <2> QED BY <2>1, <2>2
<1>3. /\ script' = IF ret = 1 THEN Tail(script) ELSE <<>>
      /\ status' = IF ret = 1 THEN Running ELSE 0
      /\ UNCHANGED <<passed, at, metadata>>
  BY <1>0, <1>2 DEF Returns, parseVars
<1>4. Tail(script) = <<[op |-> "write"]>>
  <2> DEFINE w == [op |-> "write"]
  <2>1. script = <<given, w>>
    BY <1>0
  <2> HIDE DEF w
  <2>2. Tail(script) = <<w>>
    BY <2>1
  <2> QED BY <2>2 DEF w
<1>5. script' = IF Taken THEN <<[op |-> "write"]>> ELSE <<>>
  BY Zenon, <1>2, <1>3, <1>4
<1>6. status' = IF Taken THEN Running ELSE 0
  BY Zenon, <1>2, <1>3
<1>7. TypeOK'
  BY Zenon, <1>0, <1>2, <1>3, <1>6 DEF TypeOK
<1>8. ParseInv'
  <2>1. /\ Taken' = Taken /\ Counted(at)' = Counted(at)
        /\ \A k \in DOMAIN metadata' : metadata'[k] = Kept(k)'
    <3>1. given' = given /\ at' = at /\ metadata' = metadata
      BY <1>2, <1>3
    <3> QED BY Zenon, <1>1, <3>1, SameLine DEF Counted
  <2>2. /\ Taken => Len(script') = 1 /\ script' # <<>>
        /\ ~Taken => Len(script') = 0 /\ script' = <<>>
    <3> DEFINE w == [op |-> "write"]
    <3>1. script' = IF Taken THEN <<w>> ELSE <<>>
      BY <1>5
    <3> HIDE DEF w
    <3> QED BY <3>1
  <2>3. CASE Taken
    BY <1>1, <1>2, <1>3, <1>6, <2>1, <2>2, <2>3 DEF ParseInv
  <2>4. CASE ~Taken
    BY <1>1, <1>2, <1>3, <1>6, <2>1, <2>2, <2>4 DEF ParseInv
  <2> QED BY <2>3, <2>4
<1>9. ImageInv' /\ MadeImageBoots'
  BY <1>0, <1>2, ParserWritesNothing
<1> QED BY Zenon, <1>2, <1>5, <1>7, <1>8, <1>9, MainKeeps

-----------------------------------------------------------------------------
(* The image that is made, and the boots from it *)

\* The fields of a slot as they were asked for: none is too large for its bits.
LEMMA AskedFields ==
  ASSUME NEW p \in 0..15, NEW t \in 0..7, NEW s \in 0..1
  PROVE  /\ p % (MaxPriority + 1) = p /\ t % (MaxTries + 1) = t
         /\ (s % 2 = 1) = (s = 1)
<1>1. /\ MaxPriority \in Nat /\ MaxPriority >= 15 /\ MaxTries \in Nat /\ MaxTries >= 7
  BY BitFieldAssumption, HostAssumption
<1>2. \A m \in Nat, n \in Nat : m < n => m % n = m
  OBVIOUS
<1>3. p < MaxPriority + 1 /\ t < MaxTries + 1 /\ MaxPriority + 1 \in Nat /\ MaxTries + 1 \in Nat
  BY <1>1
<1>4. p % (MaxPriority + 1) = p /\ t % (MaxTries + 1) = t
  BY <1>2, <1>3
<1>5. (s % 2 = 1) = (s = 1)
  OBVIOUS
<1> QED BY <1>4, <1>5

\* What a slot with the attributes of a command line is worth.
LEMMA WorthAsAsked ==
  ASSUME NEW slot \in SlotData, NEW t \in Int, NEW s, NEW p \in Nat,
         slot.priority = p, slot.tries_remaining = t, slot.successful_boot <=> s = 1
  PROVE  /\ Worth(slot) = IF p = 0 THEN 0 ELSE IF t > 0 THEN t ELSE IF s = 1 THEN -1 ELSE 0
         /\ Worth(slot) # 0 => normalize_slot(slot).priority = p
<1>1. slot.tries_remaining \in Nat
  BY SlotFields, BitFieldAssumption
<1>2. CASE Unusable(slot)
  <2>1. normalize_slot(slot) = ZeroSlot
    BY <1>2 DEF normalize_slot
  <2>2. Worth(slot) = 0
    BY <2>1 DEF Worth, ZeroSlot
  <2>3. p = 0 \/ (t = 0 /\ s # 1)
    BY <1>1, <1>2 DEF Unusable
  <2> QED BY <2>2, <2>3
<1>3. CASE ~Unusable(slot) /\ Contradictory(slot)
  <2>1. /\ normalize_slot(slot).successful_boot = FALSE
        /\ normalize_slot(slot).tries_remaining = slot.tries_remaining
        /\ normalize_slot(slot).priority = slot.priority
    BY <1>3 DEF normalize_slot, SlotData
  <2> QED BY <1>1, <1>3, <2>1 DEF Worth, Contradictory
<1>4. CASE ~Unusable(slot) /\ ~Contradictory(slot)
  <2>1. normalize_slot(slot) = slot
    BY <1>4 DEF normalize_slot
  <2>2. Worth(slot) = IF s = 1 THEN -1 ELSE t
    BY <2>1 DEF Worth
  <2>3. \/ p = 0 /\ t = 0 /\ s # 1
        \/ p # 0 /\ t = 0 /\ s = 1
        \/ p # 0 /\ t > 0 /\ s # 1
    BY <1>1, <1>4 DEF Unusable, Contradictory
  <2> QED BY <2>1, <2>2, <2>3
<1> QED BY <1>2, <1>3, <1>4

\* The numbers of a command line that is taken.
LEMMA AcceptedNumbers ==
  ASSUME Taken
  PROVE  /\ \A k \in {1, 4} : Kept(k) \in 0..15 /\ Kept(k + 1) \in 0..7 /\ Kept(k + 2) \in 0..1
         /\ \A k \in {1, 4} : Lives(k) \in Nat /\ (Lasting(k) => Lives(k) = MaxBoots)
         /\ First \in {1, 4} /\ Second \in {1, 4} /\ First # Second
         /\ \A k \in {1, 4} : k = First \/ k = Second
<1>1. \A k \in 1..6 : Kept(k) \in 0..Limit[k]
  BY DEF Taken, InRange
<1>2. /\ Limit[1] = 15 /\ Limit[2] = 7 /\ Limit[3] = 1
      /\ Limit[4] = 15 /\ Limit[5] = 7 /\ Limit[6] = 1
  BY DEF Limit
<1>3. \A k \in {1, 4} : Kept(k) \in 0..15 /\ Kept(k + 1) \in 0..7 /\ Kept(k + 2) \in 0..1
  BY <1>1, <1>2
<1>4. \A k \in {1, 4} : Lives(k) \in Nat /\ (Lasting(k) => Lives(k) = MaxBoots)
  BY <1>3, HostAssumption DEF Lives, Lasting
<1>5. /\ First \in {1, 4} /\ Second \in {1, 4} /\ First # Second
      /\ \A k \in {1, 4} : k = First \/ k = Second
  BY DEF First, Second
<1> QED BY <1>3, <1>4, <1>5

\* The slots of an image are what was asked for, and are worth it.
LEMMA MadeSlots ==
  ASSUME HostInv, given.op = "main", Taken, Len(metadata) = 6,
         NEW img, img = make_metadata_image(TRUE, write_ab_metadata(metadata))
  PROVE  /\ img \in BubAbData /\ img = make_metadata_image(TRUE, img.slots)
         /\ Holds(img, "_a", 1) /\ Holds(img, "_b", 4)
         /\ \A k \in {1, 4} :
              LET slot == img.slots[Suffix(k)]
              IN /\ Worth(slot) = IF Lasting(k) THEN -1 ELSE Lives(k)
                 /\ Worth(slot) # 0 => normalize_slot(slot).priority = Kept(k)
<1>1. metadata \in Sixes
  BY DEF HostInv, TypeOK, Sixes
<1>2. /\ img \in BubAbData /\ img.slots = write_ab_metadata(metadata)
      /\ write_ab_metadata(metadata) \in AbData
  BY <1>1, WrittenSlots, ImageMade
<1>3. \A k \in 1..6 : metadata[k] = Kept(k)
  <2>1. DOMAIN metadata = 1..6
    BY <1>1, LenProperties DEF Sixes
  <2> QED BY <2>1 DEF HostInv, ParseInv
<1>4. /\ "_a" \in Slots /\ "_b" \in Slots /\ Suffix(1) = "_a" /\ Suffix(4) = "_b"
  BY DEF Slots, Suffix
<1>5. /\ write_ab_metadata(metadata)["_a"] = SlotOf(metadata, 1)
      /\ write_ab_metadata(metadata)["_b"] = SlotOf(metadata, 4)
  BY <1>4 DEF write_ab_metadata
<1>6. ASSUME NEW k \in {1, 4}
      PROVE  /\ img.slots[Suffix(k)] = SlotOf(metadata, k)
             /\ SlotOf(metadata, k) \in SlotData
             /\ SlotOf(metadata, k).priority = Kept(k)
             /\ SlotOf(metadata, k).tries_remaining = Kept(k + 1)
             /\ SlotOf(metadata, k).successful_boot = (Kept(k + 2) = 1)
  <2>1. img.slots[Suffix(k)] = SlotOf(metadata, k) /\ SlotOf(metadata, k) \in SlotData
    BY <1>2, <1>4, <1>5, RecordSlots
  <2>2. metadata[k] = Kept(k) /\ metadata[k + 1] = Kept(k + 1) /\ metadata[k + 2] = Kept(k + 2)
    BY <1>3
  <2>3. Kept(k) \in 0..15 /\ Kept(k + 1) \in 0..7 /\ Kept(k + 2) \in 0..1
    BY AcceptedNumbers
  <2>4. /\ Kept(k) % (MaxPriority + 1) = Kept(k) /\ Kept(k + 1) % (MaxTries + 1) = Kept(k + 1)
        /\ (Kept(k + 2) % 2 = 1) = (Kept(k + 2) = 1)
    BY Zenon, <2>3, AskedFields
  <2> QED BY <2>1, <2>2, <2>4 DEF SlotOf
<1>7. Holds(img, "_a", 1) /\ Holds(img, "_b", 4)
  BY <1>4, <1>6 DEF Holds
<1>8. ASSUME NEW k \in {1, 4}
      PROVE  LET slot == img.slots[Suffix(k)]
             IN /\ Worth(slot) = IF Lasting(k) THEN -1 ELSE Lives(k)
                /\ Worth(slot) # 0 => normalize_slot(slot).priority = Kept(k)
  <2> DEFINE slot == img.slots[Suffix(k)]
  <2>1. Kept(k) \in 0..15 /\ Kept(k + 1) \in 0..7
    BY AcceptedNumbers
  <2>2. /\ slot \in SlotData /\ slot.priority = Kept(k) /\ slot.tries_remaining = Kept(k + 1)
        /\ slot.successful_boot <=> Kept(k + 2) = 1
    BY Zenon, <1>6
  <2> HIDE DEF slot
  <2>3. /\ Worth(slot) = IF Kept(k) = 0 THEN 0
                         ELSE IF Kept(k + 1) > 0 THEN Kept(k + 1)
                         ELSE IF Kept(k + 2) = 1 THEN -1 ELSE 0
        /\ Worth(slot) # 0 => normalize_slot(slot).priority = Kept(k)
    <3> DEFINE p == Kept(k)
               t == Kept(k + 1)
               u == Kept(k + 2)
    <3>1. /\ slot \in SlotData /\ slot.priority = p /\ slot.tries_remaining = t
          /\ slot.successful_boot <=> u = 1
      BY Zenon, <2>2
    <3>2. p \in Nat /\ t \in Int
      BY <2>1
    <3> HIDE DEF p, t, u
    <3>3. /\ Worth(slot) = IF p = 0 THEN 0 ELSE IF t > 0 THEN t ELSE IF u = 1 THEN -1 ELSE 0
          /\ Worth(slot) # 0 => normalize_slot(slot).priority = p
      BY <3>1, <3>2, WorthAsAsked
    <3> QED BY <3>3 DEF p, t, u
  <2>4. Worth(slot) = IF Lasting(k) THEN -1 ELSE Lives(k)
    BY <2>1, <2>3 DEF Lasting, Lives
  <2> QED BY <2>3, <2>4 DEF slot
<1> QED BY <1>2, <1>7, <1>8

\* How the boots are shared out.
LEMMA UsedBy ==
  ASSUME Taken, NEW n \in Nat
  PROVE  LET f == Lives(First)
             s == Lives(Second)
         IN /\ Used(n, First) = IF n < f THEN n ELSE f
            /\ Used(n, Second) = IF n < f THEN 0 ELSE IF n - f < s THEN n - f ELSE s
<1>1. Lives(First) \in Nat /\ Lives(Second) \in Nat /\ First # Second
  BY AcceptedNumbers
<1> QED BY <1>1 DEF Used, AtMost

\* make_misc_image writes the image, or fails to, and returns 1 all the same.
LEMMA MainWrites ==
  ASSUME HostInv, given.op = "main", make_misc_image
  PROVE  HostInv'
<1>1. /\ script = <<[op |-> "write"]>> /\ Len(script) = 1 /\ script # <<>>
      /\ whole = FALSE /\ boots = <<>> /\ Len(boots) = 0
  <2>1. script # <<>> /\ Step.op = "write"
    BY DEF make_misc_image, IsStep
  <2> QED BY <2>1, MainProgram
<1>2. Taken /\ Len(metadata) = 6 /\ TypeOK /\ ParseInv
  <2>1. TypeOK /\ ParseInv
    BY DEF HostInv
  <2>2. Len(script) < 2
    BY <1>1
  <2> QED BY Zenon, <1>1, <2>1, <2>2 DEF ParseInv
<1>3. /\ UNCHANGED <<given, at, metadata, passed, boots, i8, ucs2>>
      /\ status' = 1 /\ script' = <<>>
  BY DEF make_misc_image, parseVars, utf8Vars
<1>4. \/ whole' = TRUE /\ image' = make_metadata_image(TRUE, write_ab_metadata(metadata))
      \/ whole' = FALSE /\ image' \in {image, Short}
  BY <1>1 DEF make_misc_image
<1>5. whole' => /\ image' \in BubAbData /\ image' = make_metadata_image(TRUE, image'.slots)
                /\ Holds(image', "_a", 1) /\ Holds(image', "_b", 4)
                /\ \A k \in {1, 4} :
                     LET slot == image'.slots[Suffix(k)]
                     IN /\ Worth(slot) = IF Lasting(k) THEN -1 ELSE Lives(k)
                        /\ Worth(slot) # 0 => normalize_slot(slot).priority = Kept(k)
  BY <1>2, <1>4, MadeSlots
<1>6. TypeOK'
  <2>1. image' \in Images /\ whole' \in BOOLEAN
    BY <1>2, <1>4, <1>5 DEF TypeOK, Images
  <2> QED BY Zenon, <1>2, <1>3, <2>1 DEF TypeOK
<1>7. ParseInv'
  <2>1. /\ Taken' = Taken /\ Counted(at)' = Counted(at)
        /\ \A k \in DOMAIN metadata' : metadata'[k] = Kept(k)'
    <3>1. given' = given /\ at' = at /\ metadata' = metadata
      BY <1>3
    <3> QED BY Zenon, <1>2, <3>1, SameLine DEF Counted, ParseInv
  <2>2. Len(script') = 0
    BY <1>3
  <2> QED BY <1>2, <1>3, <2>1, <2>2 DEF ParseInv
<1>8. ImageInv' /\ MadeImageBoots'
  <2>1. \A k \in {1, 4} : Used(Len(boots'), k) = 0
    <3>1. Len(boots') = 0
      BY <1>1, <1>3
    <3>2. Used(0, First) = 0 /\ Used(0, Second) = 0
      BY <1>2, UsedBy, AcceptedNumbers
    <3> QED BY <1>2, <3>1, <3>2, AcceptedNumbers
  <2>2. ASSUME whole', NEW k \in {1, 4}
        PROVE  Spends(k)'
    <3> DEFINE slot == image'.slots[Suffix(k)]
    <3>1. /\ Worth(slot) = IF Lasting(k) THEN -1 ELSE Lives(k)
          /\ Worth(slot) # 0 => normalize_slot(slot).priority = Kept(k)
      BY <1>5, <2>2
    <3>2. Lives(k) = Lives(k) - Used(Len(boots'), k)
      BY <1>2, <2>1, AcceptedNumbers
    <3>3. Worth(slot) = IF Lasting(k) THEN -1 ELSE Lives(k) - Used(Len(boots'), k)
      BY <3>1, <3>2
    <3>4. /\ Kept(k)' = Kept(k) /\ Lives(k)' = Lives(k) /\ Lasting(k)' = Lasting(k)
          /\ Used(Len(boots), k)' = Used(Len(boots'), k)
      BY <1>3, SameLine DEF Used
    <3> QED BY Zenon, <3>1, <3>3, <3>4 DEF Spends, Spent
  <2>3. whole' => Holds(image, "_a", 1)' /\ Holds(image, "_b", 4)'
    BY Zenon, <1>3, <1>5, SameLine DEF Holds
  <2>4. Len(boots') <= MaxBoots /\ DOMAIN boots' = {}
    BY <1>1, <1>3, HostAssumption
  <2>5. given'.op = "main" /\ 1 \in {1, 4} /\ 4 \in {1, 4}
    BY <1>3
  <2> QED BY Zenon, <1>3, <1>5, <2>2, <2>3, <2>4, <2>5 DEF ImageInv, MadeImageBoots
<1> QED BY Zenon, <1>3, <1>6, <1>7, <1>8, MainKeeps

\* An image with slots of worth is one from which the loader takes a slot; one without
\* is not.
LEMMA BootableHasWorth ==
  ASSUME NEW ab \in AbData, NEW s \in Slots
  PROVE  s \in Bootable(NormalizeBoth(ab)) <=> Worth(ab[s]) # 0
<1>1. NormalizeBoth(ab)[s] = normalize_slot(ab[s]) /\ normalize_slot(ab[s]) \in SlotData
  BY NormalizeBothIsProper, RecordSlots
<1>2. /\ normalize_slot(ab[s]).tries_remaining \in Nat
      /\ normalize_slot(ab[s]).successful_boot \in BOOLEAN
  BY <1>1, SlotFields, BitFieldAssumption
<1> QED BY <1>1, <1>2 DEF Bootable, slot_is_bootable, Worth

\* A slot of worth keeps its rank.
LEMMA WorthKeepsRank ==
  ASSUME NEW slot \in SlotData, Worth(slot) # 0
  PROVE  normalize_slot(slot).priority = slot.priority
<1>1. ~Unusable(slot)
  BY DEF Worth, normalize_slot, ZeroSlot
<1> QED BY <1>1 DEF normalize_slot, SlotData

\* What a flow does to an image that is valid.
LEMMA MadeFlow ==
  ASSUME NEW ab \in AbData
  PROVE  LET img == make_metadata_image(TRUE, ab)
             norm == NormalizeBoth(ab)
             flow == bub_ab_flow(img)
         IN /\ flow.image \in BubAbData /\ flow.image = make_metadata_image(TRUE, flow.image.slots)
            /\ Bootable(norm) # {} =>
                 /\ flow.result = "OK" /\ flow.suffix = Chosen(norm)
                 /\ flow.image.slots = SpendTry(norm, Chosen(norm))
            /\ Bootable(norm) = {} =>
                 flow.result = "NO_VALID_SLOTS" /\ flow.image.slots = norm
<1> DEFINE img == make_metadata_image(TRUE, ab)
           norm == NormalizeBoth(ab)
           flow == bub_ab_flow(img)
<1>1. bub_read_ab_data_from_misc(img) = "OK" /\ img.slots = ab
  BY ReadsBack, ImageMade
<1>2. ASSUME NEW slots \in AbData
      PROVE  WriteBack(img, slots) = make_metadata_image(TRUE, slots)
  BY <1>1, <1>2, ImageMade DEF WriteBack
<1>3. norm \in AbData
  BY NormalizeBothIsProper
<1>4. CASE Bootable(norm) # {}
  <2> DEFINE new == SpendTry(norm, Chosen(norm))
  <2>1. new \in AbData
    BY <1>3, <1>4, ChosenIsBest, SpendTryEffect DEF Bootable
  <2>2. flow.result = "OK" /\ flow.suffix = Chosen(norm) /\ flow.image = WriteBack(img, new)
    BY <1>1, <1>4 DEF bub_ab_flow, Flow
  <2> HIDE DEF new, flow, img
  <2>3. flow.image = make_metadata_image(TRUE, new)
    BY <1>2, <2>1, <2>2
  <2>4. flow.image \in BubAbData /\ flow.image.slots = new
    BY <2>1, <2>3, ImageMade
  <2> QED BY <1>4, <2>2, <2>3, <2>4 DEF new, flow, img
<1>5. CASE Bootable(norm) = {}
  <2>1. flow.result = "NO_VALID_SLOTS" /\ flow.image = WriteBack(img, norm)
    BY <1>1, <1>5 DEF bub_ab_flow, Flow
  <2> HIDE DEF flow, img
  <2>2. flow.image = make_metadata_image(TRUE, norm)
    BY <1>2, <1>3, <2>1
  <2>3. flow.image \in BubAbData /\ flow.image.slots = norm
    BY <1>3, <2>2, ImageMade
  <2> QED BY <1>5, <2>1, <2>2, <2>3 DEF flow, img
<1> QED BY <1>4, <1>5

\* As long as a slot is worth something, its rank stays what it was.
LEMMA RankStays ==
  ASSUME NEW ab \in AbData, Bootable(NormalizeBoth(ab)) # {},
         NEW new, new = SpendTry(NormalizeBoth(ab), Chosen(NormalizeBoth(ab))),
         NEW s \in Slots, Worth(new[s]) # 0
  PROVE  /\ Worth(ab[s]) # 0
         /\ normalize_slot(new[s]).priority = normalize_slot(ab[s]).priority
<1> DEFINE t == Chosen(NormalizeBoth(ab))
<1>1. /\ t \in Bootable(NormalizeBoth(ab)) /\ t \in Slots /\ NormalizeBoth(ab) \in AbData
      /\ NormalizeBoth(ab)[s] = normalize_slot(ab[s])
  BY ChosenIsBest, NormalizeBothIsProper DEF Bootable
<1>2. CASE s = t
  <2>1. new[s] \in SlotData /\ new[s].priority = NormalizeBoth(ab)[s].priority
    BY <1>1, <1>2, SpendTryEffect, RecordSlots
  <2>2. normalize_slot(new[s]).priority = new[s].priority
    BY <2>1, WorthKeepsRank
  <2>3. Worth(ab[s]) # 0
    BY <1>1, <1>2, BootableHasWorth
  <2> QED BY <1>1, <2>1, <2>2, <2>3
<1>3. CASE s # t
  <2>1. new[s] = normalize_slot(ab[s]) /\ ab[s] \in SlotData
    BY <1>1, <1>3, SpendTryEffect, RecordSlots
  <2>2. normalize_slot(new[s]) = new[s] /\ Worth(new[s]) = Worth(ab[s])
    BY <2>1, NormalizeIsProper, WorthOfWritten
  <2> QED BY <2>1, <2>2
<1> QED BY <1>2, <1>3

\* What the slots are worth behind a flow that has taken one of them.
LEMMA SpentAfter ==
  ASSUME Taken, NEW ab \in AbData, NEW n \in Nat, NEW k \in {1, 4}, Spent(ab, n, k),
         Bootable(NormalizeBoth(ab)) # {},
         NEW t, t = Chosen(NormalizeBoth(ab)),
         NEW new, new = SpendTry(NormalizeBoth(ab), t),
         Used(n, k) \in Nat, Lives(k) >= Used(n, k),
         Used(n + 1, k) = Used(n, k) + IF Suffix(k) = t THEN 1 ELSE 0
  PROVE  Spent(new, n + 1, k)
<1> DEFINE s == Suffix(k)
<1>1. s \in Slots /\ Lives(k) \in Nat
  BY AcceptedNumbers DEF Suffix, Slots
<1>2. /\ Worth(ab[s]) = IF Lasting(k) THEN -1 ELSE Lives(k) - Used(n, k)
      /\ Worth(ab[s]) # 0 => normalize_slot(ab[s]).priority = Kept(k)
  BY DEF Spent
<1>3. /\ s # t => Worth(new[s]) = Worth(ab[s])
      /\ s = t /\ Worth(ab[s]) = -1 => Worth(new[s]) = -1
      /\ s = t /\ Worth(ab[s]) # -1 => Worth(new[s]) # -1 /\ Worth(new[s]) + 1 = Worth(ab[s])
  BY <1>1, WorthWhenPaid
<1>4. Worth(new[s]) # 0 =>
        Worth(ab[s]) # 0 /\ normalize_slot(new[s]).priority = normalize_slot(ab[s]).priority
  BY <1>1, RankStays
<1>5. Worth(new[s]) \in Int
  <2>1. new \in AbData
    BY PaidRecord
  <2>2. new[s] \in SlotData
    BY <1>1, <2>1, RecordSlots
  <2> QED BY <2>2, WorthType, BitFieldAssumption
<1> HIDE DEF s
<1>6. CASE Lasting(k)
  <2>1. Worth(new[s]) = -1
    BY <1>2, <1>3, <1>6
  <2> QED BY <1>2, <1>4, <1>6, <2>1 DEF Spent, s
<1>7. CASE ~Lasting(k)
  <2>1. Worth(ab[s]) = Lives(k) - Used(n, k) /\ Worth(ab[s]) # -1
    BY <1>1, <1>2, <1>7
  <2>2. Worth(new[s]) = Lives(k) - Used(n + 1, k)
    <3>1. CASE s = t
      <4>1. Used(n + 1, k) = Used(n, k) + 1
        BY <3>1 DEF s
      <4> QED BY <1>1, <1>3, <1>5, <2>1, <3>1, <4>1
    <3>2. CASE s # t
      <4>1. Used(n + 1, k) = Used(n, k)
        BY <3>2 DEF s
      <4> QED BY <1>3, <2>1, <3>2, <4>1
    <3> QED BY <3>1, <3>2
  <2> QED BY <1>2, <1>4, <1>7, <2>2 DEF Spent, s
<1> QED BY <1>6, <1>7

\* The preferred slot is taken as long as it is worth something.
LEMMA ChosenFirst ==
  ASSUME Taken, NEW ab \in AbData, NEW n \in Nat, Spent(ab, n, 1), Spent(ab, n, 4)
  PROVE  LET first == Suffix(First)
             second == Suffix(Second)
             norm == NormalizeBoth(ab)
         IN /\ first \in Slots /\ second \in Slots /\ first # second
            /\ Worth(ab[first]) # 0 => Bootable(norm) # {} /\ Chosen(norm) = first
            /\ Worth(ab[first]) = 0 /\ Worth(ab[second]) # 0 =>
                 Bootable(norm) # {} /\ Chosen(norm) = second
            /\ Worth(ab[first]) = 0 /\ Worth(ab[second]) = 0 => Bootable(norm) = {}
<1> DEFINE norm == NormalizeBoth(ab)
<1>1. "_a" \in Slots /\ "_b" \in Slots /\ Bootable(norm) \subseteq Slots /\ Slots = {"_a", "_b"}
  BY DEF Slots, Bootable
<1>2. /\ norm["_a"] = normalize_slot(ab["_a"]) /\ norm["_b"] = normalize_slot(ab["_b"])
      /\ "_a" \in Bootable(norm) <=> Worth(ab["_a"]) # 0
      /\ "_b" \in Bootable(norm) <=> Worth(ab["_b"]) # 0
  BY <1>1, NormalizeBothIsProper, BootableHasWorth
<1>3. /\ Worth(ab["_a"]) # 0 => norm["_a"].priority = Kept(1)
      /\ Worth(ab["_b"]) # 0 => norm["_b"].priority = Kept(4)
  BY <1>2 DEF Spent, Suffix
<1> HIDE DEF norm
<1>4. Kept(1) \in Nat /\ Kept(4) \in Nat
  BY AcceptedNumbers
<1>5. /\ Kept(4) > Kept(1) => Suffix(First) = "_b" /\ Suffix(Second) = "_a"
      /\ ~(Kept(4) > Kept(1)) => Suffix(First) = "_a" /\ Suffix(Second) = "_b"
  BY DEF First, Second, Suffix
<1>6. CASE "_a" \in Bootable(norm) /\ "_b" \in Bootable(norm)
  <2>1. Bootable(norm) = Slots
    BY <1>1, <1>6
  <2>2. Chosen(norm) = IF Kept(4) > Kept(1) THEN "_b" ELSE "_a"
    BY <1>2, <1>3, <1>6, <2>1 DEF Chosen
  <2> QED BY <1>1, <1>2, <1>5, <1>6, <2>1, <2>2 DEF norm
<1>7. CASE "_a" \in Bootable(norm) /\ "_b" \notin Bootable(norm)
  <2>1. Bootable(norm) = {"_a"}
    BY <1>1, <1>7
  <2>2. Chosen(norm) = "_a"
    BY <1>1, <2>1 DEF Chosen
  <2> QED BY <1>1, <1>2, <1>5, <1>7, <2>1, <2>2 DEF norm
<1>8. CASE "_a" \notin Bootable(norm) /\ "_b" \in Bootable(norm)
  <2>1. Bootable(norm) = {"_b"}
    BY <1>1, <1>8
  <2>2. Chosen(norm) = "_b"
    BY <1>1, <2>1 DEF Chosen
  <2> QED BY <1>1, <1>2, <1>5, <1>8, <2>1, <2>2 DEF norm
<1>9. CASE "_a" \notin Bootable(norm) /\ "_b" \notin Bootable(norm)
  <2>1. Bootable(norm) = {}
    BY <1>1, <1>9
  <2> QED BY <1>1, <1>2, <1>5, <1>9, <2>1 DEF norm
<1> QED BY <1>6, <1>7, <1>8, <1>9

\* A boot from a whole image goes as the attributes say, and leaves the next one to.
LEMMA BootOf ==
  ASSUME Taken, NEW ab \in AbData, NEW n \in Nat, n < MaxBoots,
         Spent(ab, n, 1), Spent(ab, n, 4)
  PROVE  LET flow == bub_ab_flow(make_metadata_image(TRUE, ab))
             got == IF flow.result = "OK" THEN flow.suffix ELSE flow.result
         IN /\ got = IF n + 1 <= Lives(First) THEN Suffix(First)
                     ELSE IF n + 1 <= Lives(First) + Lives(Second) THEN Suffix(Second)
                     ELSE "NO_VALID_SLOTS"
            /\ Spent(flow.image.slots, n + 1, 1) /\ Spent(flow.image.slots, n + 1, 4)
<1> DEFINE flow == bub_ab_flow(make_metadata_image(TRUE, ab))
           got == IF flow.result = "OK" THEN flow.suffix ELSE flow.result
           norm == NormalizeBoth(ab)
           a == Suffix(First)
           b == Suffix(Second)
           f == Lives(First)
           s == Lives(Second)
<1>1. /\ f \in Nat /\ s \in Nat /\ MaxBoots \in Nat /\ First \in {1, 4} /\ Second \in {1, 4}
      /\ (Lasting(First) => f = MaxBoots) /\ (Lasting(Second) => s = MaxBoots)
      /\ \A k \in {1, 4} : k = First \/ k = Second
  BY AcceptedNumbers, HostAssumption
<1>2. Spent(ab, n, First) /\ Spent(ab, n, Second)
  BY <1>1
<1>3. /\ Worth(ab[a]) = IF Lasting(First) THEN -1 ELSE f - Used(n, First)
      /\ Worth(ab[b]) = IF Lasting(Second) THEN -1 ELSE s - Used(n, Second)
  BY <1>2 DEF Spent
<1>4. /\ Used(n, First) = IF n < f THEN n ELSE f
      /\ Used(n, Second) = IF n < f THEN 0 ELSE IF n - f < s THEN n - f ELSE s
  BY UsedBy
<1>5. /\ Used(n + 1, First) = IF n + 1 < f THEN n + 1 ELSE f
      /\ Used(n + 1, Second) = IF n + 1 < f THEN 0 ELSE IF (n + 1) - f < s THEN (n + 1) - f ELSE s
  <2> DEFINE m == n + 1
  <2>1. m \in Nat
    OBVIOUS
  <2> HIDE DEF m
  <2>2. /\ Used(m, First) = IF m < f THEN m ELSE f
        /\ Used(m, Second) = IF m < f THEN 0 ELSE IF m - f < s THEN m - f ELSE s
    BY <2>1, UsedBy
  <2> QED BY <2>2 DEF m
<1>6. /\ a \in Slots /\ b \in Slots /\ a # b
      /\ Worth(ab[a]) # 0 => Bootable(norm) # {} /\ Chosen(norm) = a
      /\ Worth(ab[a]) = 0 /\ Worth(ab[b]) # 0 => Bootable(norm) # {} /\ Chosen(norm) = b
      /\ Worth(ab[a]) = 0 /\ Worth(ab[b]) = 0 => Bootable(norm) = {}
  BY ChosenFirst
<1>7. /\ Bootable(norm) # {} =>
           /\ flow.result = "OK" /\ flow.suffix = Chosen(norm)
           /\ flow.image.slots = SpendTry(norm, Chosen(norm))
      /\ Bootable(norm) = {} => flow.result = "NO_VALID_SLOTS" /\ flow.image.slots = norm
  BY MadeFlow
<1> HIDE DEF flow, norm, a, b, f, s
<1>8. ASSUME Spent(flow.image.slots, n + 1, First), Spent(flow.image.slots, n + 1, Second)
      PROVE  Spent(flow.image.slots, n + 1, 1) /\ Spent(flow.image.slots, n + 1, 4)
  BY Zenon, <1>1, <1>8
<1>9. CASE n < f
  <2>1. Worth(ab[a]) # 0
    BY <1>1, <1>3, <1>4, <1>9
  <2>2. Bootable(norm) # {} /\ Chosen(norm) = a
    BY <1>6, <2>1
  <2>3. got = a /\ flow.image.slots = SpendTry(norm, a)
    BY <1>7, <2>2
  <2>4. n + 1 <= f
    BY <1>1, <1>9
  <2>5. /\ Used(n, First) \in Nat /\ f >= Used(n, First) /\ Used(n + 1, First) = Used(n, First) + 1
        /\ Used(n, Second) \in Nat /\ s >= Used(n, Second) /\ Used(n + 1, Second) = Used(n, Second) + 0
    BY <1>1, <1>4, <1>5, <1>9
  <2>6. Spent(flow.image.slots, n + 1, First)
    BY <1>1, <1>2, <2>2, <2>3, <2>5, SpentAfter DEF a, f, norm
  <2>7. Spent(flow.image.slots, n + 1, Second)
    <3>1. Used(n + 1, Second) = Used(n, Second) + IF Suffix(Second) = a THEN 1 ELSE 0
      BY <1>6, <2>5 DEF b
    <3> QED BY Zenon, <1>1, <1>2, <2>2, <2>3, <2>5, <3>1, SpentAfter DEF s, norm
  <2> QED BY <1>8, <2>3, <2>4, <2>6, <2>7 DEF a, f, flow
<1>10. CASE n >= f /\ n - f < s
  <2>1. ~Lasting(First)
    BY <1>1, <1>10
  <2>2. Worth(ab[a]) = 0 /\ Worth(ab[b]) # 0
    BY <1>1, <1>3, <1>4, <1>10, <2>1
  <2>3. Bootable(norm) # {} /\ Chosen(norm) = b
    BY <1>6, <2>2
  <2>4. got = b /\ flow.image.slots = SpendTry(norm, b)
    BY <1>7, <2>3
  <2>5. ~(n + 1 <= f) /\ n + 1 <= f + s
    BY <1>1, <1>10
  <2>6. /\ Used(n, First) \in Nat /\ f >= Used(n, First) /\ Used(n + 1, First) = Used(n, First) + 0
        /\ Used(n, Second) \in Nat /\ s >= Used(n, Second) /\ Used(n + 1, Second) = Used(n, Second) + 1
    BY <1>1, <1>4, <1>5, <1>10
  <2>7. Spent(flow.image.slots, n + 1, First)
    <3>1. Used(n + 1, First) = Used(n, First) + IF Suffix(First) = b THEN 1 ELSE 0
      BY <1>6, <2>6 DEF a
    <3> QED BY Zenon, <1>1, <1>2, <2>3, <2>4, <2>6, <3>1, SpentAfter DEF f, norm
  <2>8. Spent(flow.image.slots, n + 1, Second)
    BY <1>1, <1>2, <2>3, <2>4, <2>6, SpentAfter DEF b, s, norm
  <2> QED BY <1>8, <2>4, <2>5, <2>7, <2>8 DEF b, f, s, flow
<1>11. CASE n >= f /\ n - f >= s
  <2>1. ~Lasting(First) /\ ~Lasting(Second)
    BY <1>1, <1>11
  <2>2. Worth(ab[a]) = 0 /\ Worth(ab[b]) = 0
    BY <1>1, <1>3, <1>4, <1>11, <2>1
  <2>3. Bootable(norm) = {}
    BY <1>6, <2>2
  <2>4. got = "NO_VALID_SLOTS" /\ flow.image.slots = norm
    BY <1>7, <2>3
  <2>5. ~(n + 1 <= f) /\ ~(n + 1 <= f + s)
    BY <1>1, <1>11
  <2>6. Used(n + 1, First) = f /\ Used(n + 1, Second) = s
    BY <1>1, <1>5, <1>11
  <2>7. Worth(norm[a]) = 0 /\ Worth(norm[b]) = 0
    BY <1>6, <2>2, NormalizeBothIsProper, RecordSlots, WorthOfWritten DEF norm
  <2>8. f - f = 0 /\ s - s = 0
    BY <1>1
  <2>9. Spent(norm, n + 1, First) /\ Spent(norm, n + 1, Second)
    BY Zenon, <2>1, <2>6, <2>7, <2>8 DEF Spent, a, b, f, s
  <2>10. Spent(flow.image.slots, n + 1, First) /\ Spent(flow.image.slots, n + 1, Second)
    BY Zenon, <2>4, <2>9
  <2> QED BY <1>8, <2>4, <2>5, <2>10 DEF f, s, flow
<1>12. n < f \/ (n >= f /\ n - f < s) \/ (n >= f /\ n - f >= s)
  BY <1>1
<1> QED BY Zenon, <1>9, <1>10, <1>11, <1>12

\* A boot, from whatever the file holds.
LEMMA MainBoots ==
  ASSUME HostInv, given.op = "main", Boot
  PROVE  HostInv'
<1> DEFINE flow == bub_ab_flow(image)
           got == IF flow.result = "OK" THEN flow.suffix ELSE flow.result
           n == Len(boots)
           R == Slots \cup {"NO_VALID_SLOTS", "READ_METADATA", "INVALID_METADATA"}
<1>1. /\ UNCHANGED <<given, script, at, metadata, status, passed, whole, i8, ucs2>>
      /\ status = 1 /\ n < MaxBoots /\ image' = flow.image /\ boots' = Append(boots, got)
  BY DEF Boot, parseVars, utf8Vars
<1>2. TypeOK /\ ParseInv /\ ImageInv /\ MadeImageBoots
  BY DEF HostInv
<1>3. script = <<>> /\ Taken
  <2>1. Running # 1
    BY HostAssumption
  <2>2. script = <<>>
    BY Zenon, <1>1, <1>2, <2>1 DEF ParseInv
  <2>3. 1 # 0
    OBVIOUS
  <2> QED BY Zenon, <1>1, <1>2, <2>2, <2>3 DEF ParseInv
<1>4. boots \in Seq(R) /\ image \in Images /\ got \in R /\ image' \in Images
  <2>1. boots \in Seq(R) /\ image \in Images
    BY <1>2 DEF TypeOK
  <2> QED BY <1>1, <2>1, FlowType
<1> HIDE DEF R, got, flow
<1>5. /\ boots' \in Seq(R) /\ Len(boots') = n + 1 /\ n \in Nat /\ DOMAIN boots' = 1..n + 1
      /\ DOMAIN boots = 1..n /\ (\A k \in 1..n : boots'[k] = boots[k]) /\ boots'[n + 1] = got
  BY <1>1, <1>4, AppendProperties, LenProperties
<1>6. TypeOK'
  BY Zenon, <1>1, <1>2, <1>4, <1>5 DEF TypeOK, R
<1>7. ParseInv'
  <2>1. /\ Taken' = Taken /\ Counted(at)' = Counted(at)
        /\ \A k \in DOMAIN metadata' : metadata'[k] = Kept(k)'
    <3>1. given' = given /\ at' = at /\ metadata' = metadata
      BY <1>1
    <3> QED BY Zenon, <1>2, <3>1, SameLine DEF Counted, ParseInv
  <2> QED BY Zenon, <1>1, <1>2, <2>1 DEF ParseInv
<1>8. Len(boots') <= MaxBoots /\ boots' # <<>> /\ Len(boots') = n + 1
  BY <1>1, <1>5, HostAssumption
<1>9. ImageInv' /\ MadeImageBoots'
  <2>1. CASE ~whole
    BY Zenon, <1>1, <1>8, <2>1 DEF ImageInv, MadeImageBoots
  <2>2. CASE whole
    <3> DEFINE ab == image.slots
    <3>1. /\ image = make_metadata_image(TRUE, ab) /\ ab \in AbData
          /\ Spent(ab, n, 1) /\ Spent(ab, n, 4)
      BY <1>2, <2>2 DEF ImageInv, Spends, BubAbData
    <3> HIDE DEF ab
    <3>2. /\ got = IF n + 1 <= Lives(First) THEN Suffix(First)
                   ELSE IF n + 1 <= Lives(First) + Lives(Second) THEN Suffix(Second)
                   ELSE "NO_VALID_SLOTS"
          /\ Spent(image'.slots, n + 1, 1) /\ Spent(image'.slots, n + 1, 4)
      BY <1>1, <1>3, <1>5, <3>1, BootOf DEF got, flow
    <3>3. image' \in BubAbData /\ image' = make_metadata_image(TRUE, image'.slots)
      BY <1>1, <3>1, MadeFlow DEF flow
    <3>4. \A k : Spends(k)' <=> Spent(image'.slots, n + 1, k)
      <4>1. Len(boots') = n + 1 /\ given' = given
        BY <1>1, <1>5
      <4> QED BY Zenon, <4>1, SameLine DEF Spends, Spent
    <3>5. ImageInv'
      BY Zenon, <1>1, <1>8, <3>2, <3>3, <3>4 DEF ImageInv
    <3>6. ASSUME NEW k \in DOMAIN boots'
          PROVE  boots'[k] = IF k <= Lives(First) THEN Suffix(First)
                             ELSE IF k <= Lives(First) + Lives(Second) THEN Suffix(Second)
                             ELSE "NO_VALID_SLOTS"
      <4>1. k \in 1..n \/ k = n + 1
        BY <1>5
      <4>2. CASE k \in 1..n
        BY Zenon, <1>2, <1>5, <2>2, <4>2 DEF MadeImageBoots
      <4>3. CASE k = n + 1
        BY Zenon, <1>5, <3>2, <4>3
      <4> QED BY <4>1, <4>2, <4>3
    <3>7. MadeImageBoots'
      <4>1. given' = given
        BY <1>1
      <4> QED BY Zenon, <3>6, <4>1, SameLine DEF MadeImageBoots, Suffix
    <3> QED BY <3>5, <3>7
  <2> QED BY <2>1, <2>2
<1>10. script' = <<>> /\ given' = given
  BY <1>1, <1>3
<1> QED BY Zenon, <1>6, <1>7, <1>9, <1>10, MainKeeps

\* Every step of make_misc_image, and every boot behind it.
LEMMA MainNext ==
  ASSUME HostInv, given.op = "main", Next
  PROVE  HostInv'
<1>1. script # <<>> => Step.op \in {"main", "write"}
  BY MainProgram
<1>2. /\ ~GenerateMiscImage /\ ~TestFlow /\ ~TestMark
      /\ ~ConvertRefuses /\ ~ConvertGoesOn /\ ~ConvertEnds
  BY <1>1
  DEF GenerateMiscImage, TestFlow, TestMark, ConvertRefuses, ConvertGoesOn, ConvertEnds, IsStep
<1> QED BY Zenon, <1>2, MainReads, MainAnswers, MainWrites, MainBoots DEF Next

-----------------------------------------------------------------------------
(* The conversion of a name *)

\* The parts of a name stand one behind the other: the next part of every code point
\* but the last one starts before the terminating byte.
LEMMA StartsAscend ==
  ASSUME NEW name, IsName(name)
  PROVE  LET last == Len(name.points) + 1 IN
         /\ Len(name.points) \in Nat /\ DOMAIN name.points = 1..Len(name.points)
         /\ \A k \in 1..last : name.starts[k] \in Nat /\ name.starts[k] <= name.starts[last]
         /\ \A k \in 1..Len(name.points) : name.starts[k] < name.starts[last]
<1> DEFINE N == Len(name.points)
           start == name.starts
<1>1. N \in Nat /\ DOMAIN name.points = 1..N /\ \A k \in 1..N : name.points[k] \in CodePoint
  BY LenProperties, ElementOf DEF IsName
<1>2. \A k \in 1..N + 1 : start[k] \in Nat
  BY DEF IsName
<1>3. \A k \in 1..N : start[k + 1] = start[k] + Len(Encoded(name.points[k]))
  BY <1>1 DEF IsName
<1>4. \A k \in 1..N : start[k] < start[k + 1]
  <2> SUFFICES ASSUME NEW k \in 1..N
               PROVE  start[k] < start[k + 1]
    OBVIOUS
  <2> DEFINE e == Len(Encoded(name.points[k]))
  <2>1. e \in 1..4 /\ start[k + 1] = start[k] + e
    BY <1>1, <1>3, EncodedShape
  <2>2. start[k] \in Nat
    BY <1>1, <1>2
  <2> HIDE DEF e
  <2> QED BY <2>1, <2>2
<1> HIDE DEF N, start
<1>5. ASSUME NEW k \in 1..N, start[k] >= start[N + 1]
      PROVE  FALSE
  <2> DEFINE Late == {d \in Nat : \E j \in 1..N : d = N - j /\ start[j] >= start[N + 1]}
  <2>1. N - k \in Late
    BY <1>1, <1>5
  <2>2. Late \in SUBSET Nat /\ Late # {}
    BY <2>1
  <2>3. PICK d \in Late : \A e \in Late : d <= e
    <3> HIDE DEF Late
    <3> QED BY <2>2, LeastNumber
  <2>4. PICK j \in 1..N : d = N - j /\ start[j] >= start[N + 1]
    OBVIOUS
  <2>5. start[j] < start[j + 1] /\ start[j] \in Nat /\ start[j + 1] \in Nat /\ start[N + 1] \in Nat
    BY <1>1, <1>2, <1>4
  <2>6. j # N
    BY <2>4, <2>5
  <2>7. j + 1 \in 1..N /\ start[j + 1] >= start[N + 1] /\ N - (j + 1) \in Nat
    BY <1>1, <2>4, <2>5, <2>6
  <2>8. N - (j + 1) \in Late
    BY <2>7
  <2>9. ~(d <= N - (j + 1))
    BY <1>1, <2>4
  <2> QED BY <2>3, <2>8, <2>9
<1>6. \A k \in 1..N : start[k] < start[N + 1]
  BY <1>1, <1>2, <1>5
<1>7. \A k \in 1..N + 1 : start[k] \in Nat /\ start[k] <= start[N + 1]
  BY <1>1, <1>2, <1>6
<1> QED BY <1>1, <1>6, <1>7 DEF N, start

\* A conversion in the invariant.
LEMMA NameProgram ==
  ASSUME HostInv, given.op = "name", script # <<>>
  PROVE  LET name == given.name
             n == Len(ucs2)
         IN /\ IsName(name)
            /\ Step.op = "utf8" /\ Step.bytes = name.bytes /\ Step.num_bytes = Len(name.bytes)
            /\ Tail(script) = <<>>
            /\ n \in Nat /\ i8 = name.starts[n + 1] /\ i8 \in Nat
            /\ n = 0 \/ n < Len(name.points)
            /\ Len(name.bytes) = name.starts[Len(name.points) + 1] + 1
            /\ name.starts[Len(name.points) + 1] \in Nat
            /\ status = Running /\ whole = FALSE /\ boots = <<>>
<1> DEFINE name == given.name
           r == converted(name.bytes, Len(name.bytes), 0)
<1>1. IsName(name) /\ script \in {<<r>>, <<>>}
  BY Programs DEF HostInv
<1>2. r.op = "utf8" /\ r.bytes = name.bytes /\ r.num_bytes = Len(name.bytes)
  BY DEF converted
<1> HIDE DEF r
<1>3. Step = r /\ Tail(script) = <<>>
  <2>1. script = <<r>>
    BY Zenon, <1>1
  <2> QED BY <2>1 DEF Step
<1>4. status = Running /\ i8 = name.starts[Len(ucs2) + 1] /\ (ucs2 = <<>> \/ Len(ucs2) < Len(name.points))
  BY DEF HostInv, NameInv
<1>5. ucs2 \in Seq(Ucs2Unit) /\ i8 \in Nat /\ whole \in BOOLEAN
  BY DEF HostInv, TypeOK
<1>6. Len(ucs2) \in Nat /\ (ucs2 = <<>> => Len(ucs2) = 0)
  BY <1>5, LenProperties
<1>7. /\ Len(name.bytes) = name.starts[Len(name.points) + 1] + 1
      /\ name.starts[Len(name.points) + 1] \in Nat
  <2>1. Len(name.bytes) = name.starts[Len(name.points) + 1] + 1
    BY <1>1 DEF IsName
  <2>2. Len(name.points) \in Nat /\ \A k \in 1..Len(name.points) + 1 : name.starts[k] \in Nat
    BY <1>1, StartsAscend
  <2> QED BY <2>1, <2>2
<1>8. whole = FALSE /\ boots = <<>>
  BY <1>5 DEF HostInv, ImageInv
<1> QED BY <1>1, <1>2, <1>3, <1>4, <1>5, <1>6, <1>7, <1>8

\* A turn of a conversion meets the encoding of the code point it has come to, and the
\* loop ends behind the last one.
LEMMA NameTurn ==
  ASSUME HostInv, given.op = "name", script # <<>>, given.name.points # <<>>
  PROVE  LET points == given.name.points
             n == Len(ucs2)
             c == points[n + 1]
             many == Announced(Step.bytes[i8 + 1])
         IN /\ n \in Nat /\ n + 1 \in DOMAIN points /\ c \in CodePoint
            /\ DOMAIN points = 1..Len(points) /\ Len(points) \in Nat
            /\ \A k \in 1..n : ucs2[k] = points[k] /\ InOneUnit(points[k])
            /\ ~InOneUnit(c) => Refused(Step.bytes)
            /\ InOneUnit(c) =>
                 /\ ~Refused(Step.bytes)
                 /\ LoopEnds(Step.bytes, Step.num_bytes) <=> n + 1 = Len(points)
                 /\ i8 + many = given.name.starts[n + 2] /\ i8 + many \in Nat
                 /\ Unit(Step.bytes, i8) = c /\ c \in Ucs2Unit
<1> DEFINE name == given.name
           points == name.points
           N == Len(points)
           n == Len(ucs2)
           c == points[n + 1]
           bytes == name.bytes
           start == name.starts
<1>1. /\ IsName(name) /\ Step.bytes = bytes /\ Step.num_bytes = Len(bytes)
      /\ n \in Nat /\ i8 = start[n + 1] /\ i8 \in Nat /\ (n = 0 \/ n < N)
      /\ Len(bytes) = start[N + 1] + 1 /\ start[N + 1] \in Nat
  BY NameProgram
<1>2. points \in Seq(CodePoint) /\ N \in Nat /\ DOMAIN points = 1..N /\ N # 0
  BY <1>1, LenProperties DEF IsName
<1>3. n + 1 \in 1..N /\ n + 1 \in DOMAIN points /\ c \in CodePoint
  <2>1. n + 1 \in 1..N
    BY <1>1, <1>2
  <2> QED BY <1>2, <2>1, ElementOf
<1>4. \A k \in 1..n : ucs2[k] = points[k] /\ InOneUnit(points[k])
  <2>1. ucs2 \in Seq(Ucs2Unit) /\ \A k \in DOMAIN ucs2 : ucs2[k] = points[k]
    BY DEF HostInv, TypeOK, NameInv
  <2>2. DOMAIN ucs2 = 1..n /\ \A k \in 1..n : ucs2[k] \in Ucs2Unit
    BY <2>1, LenProperties, ElementOf
  <2>3. \A u \in Ucs2Unit : InOneUnit(u)
    BY SMT DEF Ucs2Unit, InOneUnit
  <2> QED BY <2>1, <2>2, <2>3
<1>5. /\ start[n + 2] = start[n + 1] + Len(Encoded(c))
      /\ \A j \in DOMAIN Encoded(c) : bytes[i8 + j] = Encoded(c)[j]
  <2>1. /\ start[(n + 1) + 1] = start[n + 1] + Len(Encoded(points[n + 1]))
        /\ \A j \in DOMAIN Encoded(points[n + 1]) :
             bytes[start[n + 1] + j] = Encoded(points[n + 1])[j]
    BY Zenon, <1>1, <1>3 DEF IsName
  <2>2. (n + 1) + 1 = n + 2
    BY <1>1
  <2> QED BY Zenon, <1>1, <2>1, <2>2
<1>6. /\ Len(Encoded(c)) \in 1..4 /\ 1 \in DOMAIN Encoded(c)
      /\ InOneUnit(c) => Announced(Encoded(c)[1]) = Len(Encoded(c))
      /\ ~InOneUnit(c) => Announced(Encoded(c)[1]) = 0
  BY <1>3, EncodedShape
<1>7. bytes[i8 + 1] = Encoded(c)[1]
  BY <1>5, <1>6
<1>8. \A k \in 1..N : start[k] < start[N + 1]
  BY <1>1, StartsAscend
<1> HIDE DEF start, N, c, bytes, points
<1>9. ASSUME ~InOneUnit(c)
      PROVE  Refused(Step.bytes)
  BY <1>1, <1>6, <1>7, <1>9 DEF Refused
<1>10. ASSUME InOneUnit(c)
       PROVE  /\ ~Refused(Step.bytes)
              /\ LoopEnds(Step.bytes, Step.num_bytes) <=> n + 1 = N
              /\ i8 + Announced(Step.bytes[i8 + 1]) = start[n + 2]
              /\ i8 + Announced(Step.bytes[i8 + 1]) \in Nat
              /\ Unit(Step.bytes, i8) = c /\ c \in Ucs2Unit
  <2> DEFINE many == Announced(Step.bytes[i8 + 1])
             e == Len(Encoded(c))
  <2>1. many = e
    BY <1>1, <1>6, <1>7, <1>10
  <2>2. e \in 1..4 /\ start[n + 2] = i8 + e
    BY <1>1, <1>5, <1>6
  <2> HIDE DEF many, e
  <2>3. i8 + many = start[n + 2] /\ i8 + many \in Nat /\ many # 0
    BY <1>1, <2>1, <2>2
  <2>4. start[n + 2] >= (start[N + 1] + 1) - 1 <=> n + 1 = N
    <3>1. n + 2 \in 1..N \/ n + 1 = N
      BY <1>1, <1>2, <1>3
    <3>2. start[n + 2] \in Nat
      BY <2>3
    <3>3. CASE n + 1 = N
      <4>1. n + 2 = N + 1
        BY <1>1, <3>3
      <4> QED BY <1>1, <3>3, <4>1
    <3>4. CASE n + 2 \in 1..N
      BY <1>1, <1>2, <1>8, <3>2, <3>4
    <3> QED BY <3>1, <3>3, <3>4
  <2>5. LoopEnds(Step.bytes, Step.num_bytes) <=> start[n + 2] >= (start[N + 1] + 1) - 1
    BY <1>1, <2>3 DEF LoopEnds, many
  <2>6. Unit(bytes, i8) = c
    BY <1>1, <1>3, <1>5, <1>10, UnitDecodes
  <2>7. c \in Ucs2Unit
    BY SMT, <1>3, <1>10 DEF CodePoint, Ucs2Unit, InOneUnit
  <2> QED BY <1>1, <2>3, <2>4, <2>5, <2>6, <2>7 DEF Refused, many
<1> QED BY <1>1, <1>2, <1>3, <1>4, <1>9, <1>10 DEF start, N, c, bytes, points

\* The empty name: the loop still runs once, over the terminating byte.
LEMMA EmptyNameTurn ==
  ASSUME HostInv, given.op = "name", script # <<>>, given.name.points = <<>>
  PROVE  /\ ucs2 = <<>> /\ ~Refused(Step.bytes) /\ LoopEnds(Step.bytes, Step.num_bytes)
         /\ i8 + Announced(Step.bytes[i8 + 1]) = 1 /\ Unit(Step.bytes, i8) = 0
<1> DEFINE name == given.name
<1>1. /\ IsName(name) /\ Step.bytes = name.bytes /\ Step.num_bytes = Len(name.bytes)
      /\ Len(ucs2) \in Nat /\ i8 = name.starts[Len(ucs2) + 1]
      /\ (Len(ucs2) = 0 \/ Len(ucs2) < Len(name.points))
      /\ Len(name.bytes) = name.starts[Len(name.points) + 1] + 1
  BY NameProgram
<1>2. Len(name.points) = 0 /\ name.starts[1] = 0 /\ name.bytes[Len(name.bytes)] = 0
  BY <1>1 DEF IsName
<1>3. Len(ucs2) = 0 /\ i8 = 0 /\ Len(name.bytes) = 1 /\ name.bytes[1] = 0
  BY <1>1, <1>2
<1>4. ucs2 = <<>>
  BY <1>3, EmptySeq DEF HostInv, TypeOK
<1>5. Announced(0) = 1
  BY DEF Announced
<1> HIDE DEF name
<1>6. Announced(Step.bytes[i8 + 1]) = 1 /\ i8 + 0 + 1 = 1
  BY <1>1, <1>3, <1>5
<1>7. ~Refused(Step.bytes) /\ LoopEnds(Step.bytes, Step.num_bytes)
  <2>1. Step.num_bytes = 1
    BY Zenon, <1>1, <1>3
  <2> QED BY <1>3, <1>6, <2>1 DEF Refused, LoopEnds
<1>8. Unit(Step.bytes, i8) = 0
  <2>1. Step.bytes[i8 + 0 + 1] = 0
    BY <1>1, <1>3, <1>6
  <2> QED BY <1>5, <2>1 DEF Unit
<1> QED BY <1>3, <1>4, <1>6, <1>7, <1>8

\* What is left to show of a step of a conversion.
LEMMA NameKeeps ==
  ASSUME HostInv, given.op = "name", script # <<>>,
         UNCHANGED <<given, image, at, metadata, whole, boots>>,
         status' \in {Running, 0, 1}, passed' = passed, script' \in {script, <<>>},
         i8' \in Nat, ucs2' \in Seq(Ucs2Unit), NameInv'
  PROVE  HostInv'
<1>1. whole' = FALSE /\ boots' = <<>>
  BY NameProgram
<1>2. TypeOK'
  <2>1. TypeOK
    BY DEF HostInv
  <2> QED BY Zenon, <2>1 DEF TypeOK
<1>3. ScriptInv'
  <2>1. PICK n \in Names : /\ given = [op |-> "name", name |-> n]
                           /\ script \in {<<converted(n.bytes, Len(n.bytes), 0)>>, <<>>}
    BY DEF HostInv, ScriptInv
  <2> QED BY Zenon, <2>1 DEF ScriptInv
<1>4. TestInv' /\ ParseInv'
  BY DEF TestInv, ParseInv
<1>5. ImageInv' /\ MadeImageBoots'
  <2>1. Len(boots') <= MaxBoots
    BY <1>1, HostAssumption
  <2> QED BY Zenon, <1>1, <2>1 DEF ImageInv, MadeImageBoots
<1> QED BY <1>2, <1>3, <1>4, <1>5 DEF HostInv

\* A code point of more than sixteen bits is refused.
LEMMA NameRefused ==
  ASSUME HostInv, given.op = "name", ConvertRefuses
  PROVE  HostInv'
<1>1. script # <<>> /\ Refused(Step.bytes)
  BY DEF ConvertRefuses, IsStep
<1>2. given.name.points # <<>>
  BY <1>1, EmptyNameTurn
<1>3. \E k \in DOMAIN given.name.points : ~InOneUnit(given.name.points[k])
  BY Zenon, <1>1, <1>2, NameTurn
<1>4. /\ UNCHANGED <<given, image, at, metadata, whole, boots>>
      /\ status' = 1 /\ passed' = passed /\ script' = Tail(script) /\ i8' = 0 /\ ucs2' = <<>>
  BY DEF ConvertRefuses, ConversionEnds, parseVars
<1>5. script' = <<>>
  BY <1>1, <1>4, NameProgram
<1>6. NameInv'
  <2>1. at = 0 /\ metadata = <<>>
    BY DEF HostInv, NameInv
  <2> QED BY Zenon, <1>3, <1>4, <1>5, <2>1 DEF NameInv
<1>7. i8' \in Nat /\ ucs2' \in Seq(Ucs2Unit)
  BY <1>4, EmptySeq
<1> QED BY <1>1, <1>4, <1>5, <1>6, <1>7, NameKeeps

\* A turn with others behind it stores its unit and steps to the next code point.
LEMMA NameGoesOn ==
  ASSUME HostInv, given.op = "name", ConvertGoesOn
  PROVE  HostInv'
<1> DEFINE points == given.name.points
           n == Len(ucs2)
           c == points[n + 1]
<1>1. /\ script # <<>> /\ ~Refused(Step.bytes) /\ ~LoopEnds(Step.bytes, Step.num_bytes)
      /\ i8' = i8 + Announced(Step.bytes[i8 + 1]) /\ ucs2' = Append(ucs2, Unit(Step.bytes, i8))
      /\ UNCHANGED <<given, script, image, at, metadata, status, passed, whole, boots>>
  BY DEF ConvertGoesOn, IsStep, Turn, parseVars
<1>2. points # <<>>
  BY <1>1, EmptyNameTurn
<1>3. /\ n \in Nat /\ n + 1 \in DOMAIN points /\ DOMAIN points = 1..Len(points) /\ Len(points) \in Nat
      /\ \A k \in 1..n : ucs2[k] = points[k]
      /\ n + 1 # Len(points) /\ c \in Ucs2Unit /\ Unit(Step.bytes, i8) = c
      /\ i8' = given.name.starts[n + 2] /\ i8' \in Nat
  BY Zenon, <1>1, <1>2, NameTurn
<1> HIDE DEF c
<1>4. /\ ucs2' \in Seq(Ucs2Unit) /\ Len(ucs2') = n + 1 /\ DOMAIN ucs2' = 1..n + 1
      /\ (\A k \in 1..n : ucs2'[k] = ucs2[k]) /\ ucs2'[n + 1] = c
  <2>1. ucs2 \in Seq(Ucs2Unit) /\ ucs2' = Append(ucs2, c)
    BY <1>1, <1>3 DEF HostInv, TypeOK
  <2> QED BY <1>3, <2>1, AppendProperties, LenProperties
<1>5. \A k \in DOMAIN ucs2' : ucs2'[k] = points[k]
  <2>1. \A k \in DOMAIN ucs2' : k \in 1..n \/ k = n + 1
    BY <1>3, <1>4
  <2> QED BY Zenon, <1>3, <1>4, <2>1 DEF c
<1>6. Len(ucs2') < Len(points) /\ Len(ucs2') + 1 = n + 2
  BY <1>3, <1>4
<1>7. NameInv'
  <2>1. at = 0 /\ metadata = <<>> /\ status = Running
    BY <1>1, NameProgram DEF HostInv, NameInv
  <2>2. i8' = given.name.starts[Len(ucs2') + 1]
    BY <1>3, <1>6
  <2> QED BY Zenon, <1>1, <1>5, <1>6, <2>1, <2>2 DEF NameInv
<1>8. status' \in {Running, 0, 1}
  BY <1>1 DEF HostInv, TypeOK
<1> QED BY Zenon, <1>1, <1>3, <1>4, <1>7, <1>8, NameKeeps

\* The last turn leaves the units of all of the code points.
LEMMA NameEnds ==
  ASSUME HostInv, given.op = "name", ConvertEnds
  PROVE  HostInv'
<1> DEFINE points == given.name.points
           n == Len(ucs2)
           c == points[n + 1]
<1>1. /\ script # <<>> /\ ~Refused(Step.bytes) /\ LoopEnds(Step.bytes, Step.num_bytes)
      /\ i8' = i8 + Announced(Step.bytes[i8 + 1]) /\ ucs2' = Append(ucs2, Unit(Step.bytes, i8))
      /\ UNCHANGED <<given, image, at, metadata, whole, boots>> /\ passed' = passed
      /\ status' = 0 /\ script' = Tail(script)
  BY DEF ConvertEnds, IsStep, ConversionEnds, Turn, parseVars
<1>2. script' = <<>> /\ at = 0 /\ metadata = <<>> /\ ucs2 \in Seq(Ucs2Unit)
  BY <1>1, NameProgram DEF HostInv, NameInv, TypeOK
<1>3. CASE points = <<>>
  <2>1. i8' = 1 /\ ucs2' = Append(<<>>, 0)
    BY <1>1, <1>3, EmptyNameTurn
  <2>2. ucs2' = <<0>> /\ i8' \in Nat
    BY <2>1
  <2>3. 0 \in Ucs2Unit
    BY SMT DEF Ucs2Unit
  <2>4. ucs2' \in Seq(Ucs2Unit)
    BY <2>2, <2>3, ShortSeqs
  <2>5. DOMAIN points = {}
    BY <1>3
  <2>6. NameInv'
    BY Zenon, <1>1, <1>2, <1>3, <2>2, <2>5 DEF NameInv
  <2> QED BY <1>1, <1>2, <2>2, <2>4, <2>6, NameKeeps
<1>4. CASE points # <<>>
  <2>1. InOneUnit(c)
    BY Zenon, <1>1, <1>4, NameTurn
  <2>2. /\ n \in Nat /\ DOMAIN points = 1..Len(points) /\ Len(points) \in Nat
        /\ \A k \in 1..n : ucs2[k] = points[k] /\ InOneUnit(points[k])
        /\ n + 1 = Len(points) /\ c \in Ucs2Unit /\ Unit(Step.bytes, i8) = c
        /\ i8' = given.name.starts[n + 2] /\ i8' \in Nat
    BY Zenon, <1>1, <1>4, <2>1, NameTurn
  <2> HIDE DEF c
  <2>3. /\ ucs2' \in Seq(Ucs2Unit) /\ Len(ucs2') = n + 1 /\ DOMAIN ucs2' = 1..n + 1
        /\ (\A k \in 1..n : ucs2'[k] = ucs2[k]) /\ ucs2'[n + 1] = c
    <3>1. ucs2' = Append(ucs2, c)
      BY <1>1, <2>2
    <3> QED BY <1>2, <2>2, <3>1, AppendProperties, LenProperties
  <2>4. \A k \in 1..n + 1 : k \in 1..n \/ k = n + 1
    BY <2>2
  <2>5. \A k \in 1..n + 1 : ucs2'[k] = points[k] /\ InOneUnit(points[k])
    BY Zenon, <2>1, <2>2, <2>3, <2>4 DEF c
  <2>6. IsName(given.name)
    BY <1>1, NameProgram
  <2>7. ucs2' = points
    <3>1. points \in Seq(CodePoint)
      BY <2>6 DEF IsName
    <3> HIDE DEF points
    <3>2. Len(ucs2') = Len(points) /\ \A k \in 1..Len(ucs2') : ucs2'[k] = points[k]
      BY <2>2, <2>3, <2>5
    <3> QED BY <2>3, <3>1, <3>2, SeqEqual
  <2>8. i8' < Len(given.name.bytes)
    <3>1. n + 2 = Len(points) + 1
      BY <2>2
    <3>2. Len(given.name.bytes) = given.name.starts[Len(points) + 1] + 1
      BY <1>1, NameProgram
    <3>3. i8' = given.name.starts[Len(points) + 1]
      BY <2>2, <3>1
    <3> QED BY <2>2, <3>2, <3>3
  <2>9. ~\E k \in DOMAIN points : ~InOneUnit(points[k])
    BY Zenon, <2>2, <2>5
  <2>10. NameInv'
    BY Zenon, <1>1, <1>2, <1>4, <2>7, <2>8, <2>9 DEF NameInv
  <2> QED BY <1>1, <1>2, <2>2, <2>3, <2>10, NameKeeps
<1> QED BY <1>3, <1>4

\* Every step of a conversion of a name.
LEMMA NameNext ==
  ASSUME HostInv, given.op = "name", Next
  PROVE  HostInv'
<1>1. script # <<>> => Step.op = "utf8"
  BY NameProgram
<1>2. /\ ~SkipEmpty /\ ~TakeToken /\ ~RefuseToken /\ ~TestOutput /\ ~make_misc_image /\ ~Boot
      /\ ~GenerateMiscImage /\ ~TestFlow /\ ~TestMark
  BY <1>1
  DEF SkipEmpty, TakeToken, RefuseToken, TestOutput, IsParsing, make_misc_image, Boot,
      GenerateMiscImage, TestFlow, TestMark, IsStep
<1> QED BY Zenon, <1>2, NameRefused, NameGoesOn, NameEnds DEF Next

-----------------------------------------------------------------------------
(* Theorems *)

\* A step that changes nothing keeps the invariant.
LEMMA HostStutters ==
  ASSUME HostInv, UNCHANGED vars
  PROVE  HostInv'
<1>1. /\ UNCHANGED <<given, script, image, at, metadata, status, passed, whole, boots>>
      /\ UNCHANGED <<i8, ucs2>>
  BY DEF vars, utf8Vars
<1>2. \A n : Counted(n)' = Counted(n)
  BY <1>1, SameLine
<1>3. TypeOK' /\ ScriptInv' /\ TestInv'
  BY Zenon, <1>1 DEF HostInv, TypeOK, ScriptInv, TestInv, IsStep, Step, Starts
<1>4. ParseInv'
  BY Zenon, <1>1, SameLine DEF HostInv, ParseInv, Counted
<1>5. ImageInv'
  BY Zenon, <1>1, SameLine DEF HostInv, ImageInv, Holds, Spends, Spent
<1>6. MadeImageBoots' /\ NameInv'
  BY Zenon, <1>1, SameLine DEF HostInv, MadeImageBoots, NameInv, Suffix
<1> QED BY <1>3, <1>4, <1>5, <1>6 DEF HostInv

\* The host programs, with every command line, output file, name and build: HostInv
\* holds from the start, and every step of parse_command_line_args, main, the boot
\* loader's flow, the unit tests and utf8_to_ucs2 keeps it.
THEOREM HostInvariance == Spec => []HostInv
<1>1. Init => HostInv
  BY InitHolds
<1>2. HostInv /\ [Next]_vars => HostInv'
  <2>1. HostInv => given.op \in {"test", "main", "name"}
    BY Programs DEF HostInv
  <2> QED BY <2>1, HostStutters, TestNext, MainNext, NameNext
<1> QED BY <1>1, <1>2, PTL DEF Spec

\* The host programs keep their types: the parser stores at most six attributes, each in
\* the range of its field, and the conversion units of sixteen bits.
THEOREM HostTypeCorrect == Spec => []TypeOK
<1>1. HostInv => TypeOK
  BY DEF HostInv
<1> QED BY <1>1, HostInvariance, PTL

\* An image that make_misc_image has written whole boots as it was asked to, for every
\* command line that is taken and any number of boots (make_misc_image.cc,
\* bub_image_util.cc, bub_ab_flow.c).
THEOREM ImageBootsAsAsked == Spec => []MadeImageBoots
<1>1. HostInv => MadeImageBoots
  BY DEF HostInv
<1> QED BY <1>1, HostInvariance, PTL

\* utf8_to_ucs2 converts a name of any length to its code points, refuses it exactly when
\* one of them needs more than sixteen bits, and reads no byte behind the terminating one.
THEOREM NamesAreConverted == Spec => []ConvertsNames
<1>1. HostInv => ConvertsNames
  <2> SUFFICES ASSUME HostInv, given.op = "name"
               PROVE  ConvertsNames
    BY DEF ConvertsNames
  <2> DEFINE points == given.name.points
  <2>1. 0 # 1 /\ Running # 0 /\ Running # 1
    BY HostAssumption
  <2>2. IsName(given.name)
    BY Programs DEF HostInv
  <2>3. /\ Len(given.name.bytes) = given.name.starts[Len(points) + 1] + 1
        /\ given.name.starts[Len(points) + 1] \in Nat /\ Len(points) \in Nat
        /\ \A k \in 1..Len(points) + 1 :
             given.name.starts[k] \in Nat /\ given.name.starts[k] <= given.name.starts[Len(points) + 1]
    <3>1. Len(given.name.bytes) = given.name.starts[Len(points) + 1] + 1
      BY <2>2 DEF IsName
    <3>2. /\ Len(points) \in Nat
          /\ \A k \in 1..Len(points) + 1 :
               given.name.starts[k] \in Nat /\ given.name.starts[k] <= given.name.starts[Len(points) + 1]
      BY <2>2, StartsAscend
    <3> QED BY <3>1, <3>2
  <2>4. CASE script # <<>>
    <3>1. /\ status = Running /\ i8 = given.name.starts[Len(ucs2) + 1] /\ Len(ucs2) \in Nat
          /\ (Len(ucs2) = 0 \/ Len(ucs2) < Len(points))
      BY <2>4, NameProgram
    <3>2. i8 < Len(given.name.bytes)
      <4>1. Len(ucs2) + 1 \in 1..Len(points) + 1
        BY <2>3, <3>1
      <4>2. i8 \in Nat /\ i8 <= given.name.starts[Len(points) + 1]
        BY Zenon, <2>3, <3>1, <4>1
      <4>3. given.name.starts[Len(points) + 1] \in Nat
        BY Zenon, <2>3
      <4>4. Len(given.name.bytes) = given.name.starts[Len(points) + 1] + 1
        BY Zenon, <2>3
      <4> QED BY <4>2, <4>3, <4>4
    <3> QED BY Zenon, <2>1, <3>1, <3>2 DEF ConvertsNames
  <2>5. CASE script = <<>>
    <3>1. 0 < Len(given.name.bytes)
      BY <2>3
    <3> QED BY Zenon, <2>1, <2>5, <3>1 DEF HostInv, NameInv, ConvertsNames
  <2> QED BY <2>4, <2>5
<1> QED BY <1>1, HostInvariance, PTL

\* Of the command lines of any length with six values or fewer, make_misc_image refuses
\* exactly those that are not as they should be, and touches no file for them; a whole
\* image of any line holds its first six attributes in their places
\* (parse_command_line_args, write_ab_metadata).
THEOREM ArgumentsAreObeyed == Spec => ObeysTheArguments
<1>1. HostInv /\ HostInv' /\ [Next]_vars =>
        [given.op = "main" /\ boots' = <<>> =>
           /\ Cardinality(Filled) <= 6 =>
                /\ status' # Running => (status' = 1 <=> Acceptable)
                /\ image' # image => Acceptable
           /\ whole' => Holds(image', "_a", 1) /\ Holds(image', "_b", 4)]_vars
  <2> SUFFICES ASSUME HostInv, HostInv', Next, given.op = "main", boots' = <<>>
               PROVE  /\ Cardinality(Filled) <= 6 =>
                           /\ status' # Running => (status' = 1 <=> Acceptable)
                           /\ image' # image => Acceptable
                      /\ whole' => Holds(image', "_a", 1) /\ Holds(image', "_b", 4)
    BY Zenon
  <2>1. given' = given
    BY Zenon DEF Next, SkipEmpty, TakeToken, RefuseToken, TestOutput, make_misc_image, Boot,
        GenerateMiscImage, TestFlow, TestMark, ConvertRefuses, ConvertGoesOn, ConvertEnds
  <2>2. status' # Running => (status' = 1 <=> Taken)
    <3>1. 0 # 1 /\ Taken' = Taken
      BY <2>1, SameLine
    <3> QED BY Zenon, <2>1, <3>1 DEF HostInv, ParseInv
  <2>3. image' # image => Taken
    <3>1. script # <<>> => Step.op \in {"main", "write"}
      BY MainProgram
    <3>2. ~Boot
      <4>1. boots \in Seq(Slots \cup {"NO_VALID_SLOTS", "READ_METADATA", "INVALID_METADATA"})
        BY DEF HostInv, TypeOK
      <4>2. \A e : Append(boots, e) # <<>>
        BY Zenon, <4>1, AppendedTo
      <4> QED BY Zenon, <4>2 DEF Boot
    <3>3. image' # image => make_misc_image
      BY <3>1, <3>2
      DEF Next, SkipEmpty, TakeToken, RefuseToken, TestOutput,
          GenerateMiscImage, TestFlow, TestMark, ConvertRefuses, ConvertGoesOn, ConvertEnds, IsStep
    <3>4. make_misc_image => Len(script) = 1
      BY MainProgram DEF make_misc_image, IsStep
    <3> QED BY Zenon, <3>3, <3>4 DEF HostInv, ParseInv
  <2>4. whole' => Holds(image', "_a", 1) /\ Holds(image', "_b", 4)
    <3>1. \A k : Kept(k)' = Kept(k)
      BY <2>1, SameLine
    <3> QED BY Zenon, <3>1 DEF HostInv, ImageInv, Holds
  <2>5. Cardinality(Filled) <= 6 => (Taken <=> Acceptable)
    <3>1. given.tokens \in Tokens
      BY MainProgram
    <3>2. Cardinality(Filled) \in Nat
      BY <3>1, FilledSet, FS_CardinalityType
    <3>3. Cardinality(Filled) <= 6 => (Cardinality(Filled) >= 6 <=> Cardinality(Filled) = 6)
      BY <3>2
    <3> QED BY Zenon, <3>3 DEF Taken, Acceptable
  <2> QED BY Zenon, <2>2, <2>3, <2>4, <2>5
<1> QED BY <1>1, HostInvariance, PTL DEF Spec, ObeysTheArguments
================================================================================
