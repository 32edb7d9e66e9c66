------------------------------- MODULE MiscImage -------------------------------
(***************************************************************************)
(* The file misc.img as the host programs see it: MyOps of                 *)
(* bub_image_util.cc, which stands for the misc partition, the reader and  *)
(* the writer of bub_ab_flow.c with the checksum and its byte order, and   *)
(* bub_ab_flow and bub_ab_mark_as_invalid run on top of it as one step, as *)
(* the unit tests run them.                                                *)
(***************************************************************************)
EXTENDS AbMetadata, Sequences

CONSTANTS
  Absent,  \* no file of that name
  Short    \* a file with less in it than a BubAbData

\* A checksum is known by what it was computed over and by its byte order.
Words == [of : BOOLEAN \X AbData, big_endian : BOOLEAN]

bub_crc32(magic, slots) == [of |-> <<magic, slots>>, big_endian |-> FALSE]

\* The bytes of a word the other way round: the same both ways.
bub_be32toh(word) == [word EXCEPT !.big_endian = ~@]

\* magic: whether the four bytes are BUB_BOOT_CTRL_MAGIC.
BubAbData == [magic : BOOLEAN, slots : AbData, crc32 : Words]

Images == BubAbData \cup {Absent, Short}

\* The assignments to bit fields of four, three and one bits.
SlotOf(v, k) ==
  [priority        |-> v[k] % (MaxPriority + 1),
   tries_remaining |-> v[k + 1] % (MaxTries + 1),
   successful_boot |-> v[k + 2] % 2 = 1]

\* The slots of write_ab_metadata, from the values for A and then those for B.
write_ab_metadata(v) ==
  [s \in Slots |-> SlotOf(v, IF s = "_a" THEN 1 ELSE 4)]

\* Slip: the checksum stored in the byte order of the host.
make_metadata_image_host_order(magic, slots) ==
  [magic |-> magic, slots |-> slots, crc32 |-> bub_crc32(magic, slots)]

make_metadata_image(magic, slots) ==
  [magic |-> magic, slots |-> slots,
   crc32 |-> bub_be32toh(bub_crc32(magic, slots))]

\* A read of the whole record, which a missing or a short file does not give.
Readable(image) == image \notin {Absent, Short}

bub_read_ab_data_from_misc(image) ==
  IF ~Readable(image) THEN "READ_METADATA"
  ELSE IF image.magic /\ bub_be32toh(image.crc32) = bub_crc32(image.magic, image.slots)
  THEN "OK"
  ELSE "INVALID_METADATA"

\* The file is there whenever something is written: it has just been read.
bub_write_ab_data_to_misc(magic, slots) ==
  [magic |-> magic, slots |-> slots,
   crc32 |-> bub_be32toh(bub_crc32(magic, slots))]

\* The write of a record that was read as OK, when something in it is new.
WriteBack(image, slots) ==
  IF slots = image.slots THEN image ELSE bub_write_ab_data_to_misc(TRUE, slots)

Flow(result, suffix, image) == [result |-> result, suffix |-> suffix, image |-> image]

\* What bub_ab_flow returns, the suffix it leaves, and the file behind it.
bub_ab_flow(image) ==
  LET read == bub_read_ab_data_from_misc(image)
      norm == NormalizeBoth(image.slots)
  IN IF read = "READ_METADATA" THEN Flow(read, "", image)
     ELSE IF read = "INVALID_METADATA"
     THEN Flow(read, "", bub_write_ab_data_to_misc(TRUE, ResetMetadata))
     ELSE IF Bootable(norm) = {}
     THEN Flow("NO_VALID_SLOTS", "", WriteBack(image, norm))
     ELSE Flow("OK", Chosen(norm), WriteBack(image, SpendTry(norm, Chosen(norm))))

\* Slip: 0 for a mark that worked, as bub_ab_flow.h:109 has it.
bub_ab_mark_as_invalid_zero(image, suffix) ==
  IF bub_read_ab_data_from_misc(image) = "OK"
  THEN [ret |-> 0,
        image |-> bub_write_ab_data_to_misc(TRUE, [image.slots EXCEPT ![suffix] = ZeroSlot])]
  ELSE [ret |-> 1, image |-> image]

\* What bub_ab_mark_as_invalid returns, and the file behind it: the 1 of a write that
\* worked, or the BubAbFlowResult of a read that did not, with the file left alone.
bub_ab_mark_as_invalid(image, suffix) ==
  LET read == bub_read_ab_data_from_misc(image)
  IN IF read = "OK"
     THEN [ret |-> 1,
           image |-> bub_write_ab_data_to_misc(TRUE, [image.slots EXCEPT ![suffix] = ZeroSlot])]
     ELSE [ret |-> IF read = "READ_METADATA" THEN 4 ELSE 2, image |-> image]

\* Whether CompareMiscImage finds every field as expected, the checksum too.
CompareMiscImage(image, slots) ==
  Readable(image) /\ image = make_metadata_image(TRUE, slots)
================================================================================
