--------------------------------- MODULE Utf8 ---------------------------------
(***************************************************************************)
(* utf8_to_ucs2 of bub_util.c, which turns the name of a partition into    *)
(* the encoding of the names in a GPT: one turn of its loop, over bytes    *)
(* and 16-bit units as numbers.  The capacity it is given is not used.     *)
(***************************************************************************)
EXTENDS Integers, Sequences

VARIABLES
  i8,    \* the byte the next turn starts at, counted from 0
  ucs2   \* the units stored so far: ucs2_data[0..i2-1]

utf8Vars == <<i8, ucs2>>

Byte == 0..255
Ucs2Unit == {n \in Nat : n < 65536}

Utf8Init == i8 = 0 /\ ucs2 = <<>>

\* The number of bytes a first byte announces; 0 when it is refused.
Announced(byte) ==
  IF byte \div 128 = 0 THEN 1        \* 0xxxxxxx
  ELSE IF byte \div 32 = 6 THEN 2    \* 110xxxxx
  ELSE IF byte \div 16 = 14 THEN 3   \* 1110xxxx
  ELSE 0                             \* 11110xxx is too long, the rest invalid

Low6(byte) == byte % 64

\* The unit that the bytes from the zero-based position i make up.
Unit(bytes, i) ==
  LET b(k) == bytes[i + k + 1]
  IN CASE Announced(b(0)) = 1 -> b(0)
       [] Announced(b(0)) = 2 -> (b(0) % 32) * 64 + Low6(b(1))
       [] Announced(b(0)) = 3 -> ((b(0) * 4096) % 65536) + Low6(b(1)) * 64 + Low6(b(2))

Refused(bytes) == Announced(bytes[i8 + 1]) = 0

\* do ... while (i8 < utf8_num_bytes - 1): the end is tested behind the body.
LoopEnds(bytes, num_bytes) == i8 + Announced(bytes[i8 + 1]) >= num_bytes - 1

\* Slip: a unit of three bytes is stepped over as one of two.
Turn_short(bytes) ==
  /\ i8' = i8 + IF Announced(bytes[i8 + 1]) = 1 THEN 1 ELSE 2
  /\ ucs2' = Append(ucs2, Unit(bytes, i8))

Turn(bytes) ==
  /\ i8' = i8 + Announced(bytes[i8 + 1])
  /\ ucs2' = Append(ucs2, Unit(bytes, i8))
================================================================================
