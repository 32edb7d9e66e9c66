------------------------------- MODULE HostTests -------------------------------
(***************************************************************************)
(* The unit tests of the boot loader, as scripts of the steps they take:   *)
(* bub_ab_flow_unittest.cc and make_misc_image_unittest.cc.  A step holds  *)
(* its inputs and what the test expects of it.                             *)
(***************************************************************************)
EXTENDS Integers, Sequences

CONSTANTS
  NaN,    \* a token that StringToInt refuses: "1A", "3.14"
  Empty   \* nothing between two commas

ab_init(magic, v) == [op |-> "init", magic |-> magic, v |-> v]

test_ab_flow(v, result, suffix) ==
  [op |-> "flow", v |-> v, result |-> result, suffix |-> suffix]

Mark(suffix) == [op |-> "mark", suffix |-> suffix]

test_args(ret, tokens) ==
  [op |-> "args", ret |-> ret, tokens |-> tokens, output |-> TRUE]

\* argc is 2 in both calls of MissingOutput: no third argument is ever seen.
without_output(tokens) ==
  [op |-> "args", ret |-> 0, tokens |-> tokens, output |-> FALSE]

\* converted_utf8_ucs2 compares the first unit with the raw bytes, up to their
\* first zero: any behind it are not looked at.  A refusal is unit Refusal.
Refusal == -1

converted(bytes, num_bytes, unit) ==
  [op |-> "utf8", bytes |-> bytes, num_bytes |-> num_bytes, unit |-> unit]

None == <<0, 0, 0>>
Confirmed(p) == <<p, 0, 1>>
Trying(p, t) == <<p, t, 0>>

Magic(a, b) == ab_init(TRUE, a \o b)
Selects(suffix, a, b) == test_ab_flow(a \o b, "OK", suffix)
SelectsNone == test_ab_flow(None \o None, "NO_VALID_SLOTS", "")

\* Seven flows in a row, each with one try less for the slot it selects.
CountdownA(b) == [k \in 1..7 |-> Selects("_a", Trying(15, 7 - k), b)]
CountdownB(a) == [k \in 1..7 |-> Selects("_b", a, Trying(14, 7 - k))]

InvalidMetadata(a, b) ==
  << ab_init(FALSE, a \o b),
     test_ab_flow(Trying(15, 7) \o Trying(15, 7), "INVALID_METADATA", ""),
     Selects("_a", Trying(15, 6), Trying(15, 7)) >>

TwoValid(a, b, suffix) ==
  << Magic(Confirmed(a), Confirmed(b)), Selects(suffix, Confirmed(a), Confirmed(b)) >>

\* Six bytes of "AB" are to be converted, and the string has three: behind them
\* lies whatever the build has put there.
Utf8toUcs2(behind) ==
  << converted(<<195, 166, 0>>, 3, 230),
     converted(<<226, 130, 172, 0>>, 4, 8364),
     converted(<<65, 66, 0>> \o behind, 6, 65),
     converted(<<240, 159, 145, 166, 0>>, 5, Refusal) >>

NoValidSlots == << Magic(None, None), SelectsNone >>

InvalidMetadataMagicInvalidSlots == InvalidMetadata(None, None)

InvalidMetadataMagicValidSlots == InvalidMetadata(Confirmed(15), Confirmed(14))

SingleSuccessfulSlot ==
  << Magic(Confirmed(14), None), Selects("_a", Confirmed(14), None) >>

SingleTryingSlot ==
  << Magic(Trying(14, 3), None), Selects("_a", Trying(14, 2), None) >>

TwoValidSlotsA == TwoValid(15, 14, "_a")

TwoValidSlotsB == TwoValid(14, 15, "_b")

TryingFallback ==
  << Magic(Trying(15, 7), Confirmed(14)) >> \o CountdownA(Confirmed(14))
  \o << Selects("_b", None, Confirmed(14)) >>

TryingNoFallbackRecovery ==
  << Magic(Trying(15, 7), None) >> \o CountdownA(None) \o << SelectsNone >>

SingleTryingSuccess ==
  << Magic(Trying(15, 7), Confirmed(14)) >> \o CountdownA(Confirmed(14))
  \o TwoValid(15, 14, "_a") \o << Selects("_a", Confirmed(15), Confirmed(14)) >>

TwoTryingRecovery ==
  << Magic(Trying(15, 7), Trying(14, 7)) >> \o CountdownA(Trying(14, 7))
  \o CountdownB(None) \o << SelectsNone >>

MarkedInvalidFallback ==
  TwoValid(15, 14, "_a") \o << Mark("_a"), Selects("_b", None, Confirmed(14)) >>

ValidAndInvalidHigherPriority ==
  << Magic(Confirmed(14), <<15, 0, 0>>), Selects("_a", Confirmed(14), None) >>

ValidAndUpdatingBadSuccessfulBoot ==
  << Magic(Confirmed(14), <<15, 7, 1>>), Selects("_b", Confirmed(14), Trying(15, 6)) >>

InvalidBadTriesRemainingAndValid ==
  << Magic(<<0, 7, 0>>, Confirmed(14)), Selects("_b", None, Confirmed(14)) >>

InvalidBadSuccessfulBootandValid ==
  << Magic(<<0, 0, 1>>, Confirmed(14)), Selects("_b", None, Confirmed(14)) >>

InvalidTriesBootAndUpdatingBadSuccessfulBoot ==
  << Magic(<<0, 7, 1>>, <<15, 7, 1>>), Selects("_b", None, Trying(15, 6)) >>

Good == Confirmed(15) \o Confirmed(14)

\* One token of a good list, or several of them, replaced by something else.
Refuses(positions, token) ==
  test_args(0, [k \in 1..6 |-> IF k \in positions THEN token ELSE Good[k]])

EachRefused(token) == [k \in 1..6 |-> Refuses({k}, token)]

ActiveAndBackup == << test_args(1, Confirmed(15) \o Confirmed(9)) >>

TwoUpdating == << test_args(1, Trying(15, 7) \o Trying(15, 7)) >>

ActiveAndInvalid == << test_args(1, Confirmed(15) \o None) >>

TwoInvalid == << test_args(1, None \o None) >>

BadPriority ==
  << Refuses({1}, 20), Refuses({1}, 20), Refuses({4}, 20), Refuses({1, 4}, 20) >>

BadTriesRemaining ==
  << Refuses({1, 4}, 20), Refuses({2}, 8), Refuses({5}, 8), Refuses({2, 5}, 8) >>

BadSuccessfulBoot == << Refuses({3}, 2), Refuses({6}, 2), Refuses({3, 6}, 2) >>

OutOfRangePositiveAttribute == EachRefused(100)

OutOfRangeNegativeAttribute == EachRefused(-1)

NonNumericAtrribute == EachRefused(NaN)

MissingAttributes == << Refuses({2}, Empty), test_args(0, SubSeq(Good, 1, 5)) >>

MissingOutput == << without_output(Good), without_output(Good) >>

Scripts ==
  { NoValidSlots, InvalidMetadataMagicInvalidSlots,
    InvalidMetadataMagicValidSlots, SingleSuccessfulSlot, SingleTryingSlot,
    TwoValidSlotsA, TwoValidSlotsB, TryingFallback, TryingNoFallbackRecovery,
    SingleTryingSuccess, TwoTryingRecovery, MarkedInvalidFallback,
    ValidAndInvalidHigherPriority, ValidAndUpdatingBadSuccessfulBoot,
    InvalidBadTriesRemainingAndValid, InvalidBadSuccessfulBootandValid,
    InvalidTriesBootAndUpdatingBadSuccessfulBoot, ActiveAndBackup, TwoUpdating,
    ActiveAndInvalid, TwoInvalid, BadPriority, BadTriesRemaining,
    BadSuccessfulBoot, OutOfRangePositiveAttribute, OutOfRangeNegativeAttribute,
    NonNumericAtrribute, MissingAttributes, MissingOutput }
================================================================================
