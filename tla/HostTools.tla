------------------------------- MODULE HostTools -------------------------------
(***************************************************************************)
(* The programs of the boot loader that run on the host: make_misc_image,  *)
(* with the image it makes then booted from, and the two programs of unit  *)
(* tests, one test after SetUp at a time.  One program runs, and a script  *)
(* holds the steps it has before it.                                       *)
(***************************************************************************)
EXTENDS MiscImage, HostTests, Utf8, FiniteSets

CONSTANTS
  TokenLists,  \* what may stand behind --ab_metadata=, split at the commas
  Earlier,     \* what may be in the output file before make_misc_image runs
  Names,       \* the names to convert, with their encodings
  Behind,      \* what a build may put behind the string "AB"
  MaxBoots,    \* bound: how often an image is booted from
  Running      \* the exit status of a program that has not returned

\* A field holds every number that the parser lets pass, and what is no number is none.
ASSUME HostAssumption ==
  /\ MaxPriority >= 15 /\ MaxTries >= 7
  /\ NaN \notin Int /\ Empty \notin Int
  /\ Absent \notin BubAbData /\ Short \notin BubAbData
  /\ Running \notin {0, 1}
  /\ TokenLists \subseteq Seq(Int \cup {NaN, Empty})
  /\ Earlier \subseteq Images
  /\ \A b \in Behind : b \in Seq(Byte) /\ Len(b) >= 4
  /\ MaxBoots \in Nat

VARIABLES
  given,     \* the program and its input
  script,    \* the steps before it
  image,     \* misc.img
  at,        \* the tokens that the tokenizer has passed
  metadata,  \* the attributes stored so far
  status,    \* what the program returned
  passed,    \* no EXPECT of the test has failed
  whole,     \* whether WriteFile wrote the whole image
  boots      \* the result or the slot of every boot from the image

parseVars == <<at, metadata>>
vars == <<given, script, image, at, metadata, status, passed, whole, boots, utf8Vars>>

Step == Head(script)
IsStep(op) == script # <<>> /\ Step.op = op

\* Seventeen planes of sixteen bits each.
CodePoint == {c \in Nat : c > 0 /\ c \div 65536 <= 16}

\* A code point that a unit of sixteen bits holds.
InOneUnit(c) == c < 65536

\* The UTF-8 encoding of a code point.
Next6(n) == 128 + (n % 64)

Encoded(c) ==
  IF c < 128 THEN <<c>>
  ELSE IF c < 2048 THEN <<192 + (c \div 64), Next6(c)>>
  ELSE IF InOneUnit(c) THEN <<224 + (c \div 4096), Next6(c \div 64), Next6(c)>>
  ELSE <<240 + ((c \div 4096) \div 64), Next6(c \div 4096), Next6(c \div 64), Next6(c)>>

\* A name: its code points, the bytes of their encodings with a zero behind them, and
\* how many bytes stand before each of these parts.
IsName(n) ==
  /\ n.points \in Seq(CodePoint) /\ n.bytes \in Seq(Byte)
  /\ n.starts \in [1..Len(n.points) + 1 -> Nat] /\ n.starts[1] = 0
  /\ \A k \in DOMAIN n.points :
       /\ n.starts[k + 1] = n.starts[k] + Len(Encoded(n.points[k]))
       /\ \A j \in DOMAIN Encoded(n.points[k]) :
            n.bytes[n.starts[k] + j] = Encoded(n.points[k])[j]
  /\ Len(n.bytes) = n.starts[Len(n.points) + 1] + 1
  /\ n.bytes[Len(n.bytes)] = 0

ASSUME NamesAssumption == \A n \in Names : IsName(n)

TestStarts ==
  \E behind \in Behind :
    /\ given = [op |-> "test", behind |-> behind]
    /\ script \in Scripts \cup {Utf8toUcs2(behind)}
    /\ image = Absent

main ==
  \E tokens \in TokenLists, output \in BOOLEAN, earlier \in Earlier :
    /\ given = [op |-> "main", tokens |-> tokens, output |-> output]
    /\ script = <<given, [op |-> "write"]>>
    /\ image = earlier

NameIsConverted ==
  \E n \in Names :
    /\ given = [op |-> "name", name |-> n]
    /\ script = <<converted(n.bytes, Len(n.bytes), 0)>>
    /\ image = Absent

Init ==
  /\ TestStarts \/ main \/ NameIsConverted
  /\ at = 0 /\ metadata = <<>>
  /\ status = Running
  /\ passed = TRUE
  /\ whole = FALSE
  /\ boots = <<>>
  /\ Utf8Init

Expect(condition) == passed' = (passed /\ condition)

-----------------------------------------------------------------------------
(* parse_command_line_args *)

\* The bounds of the six attributes, in their order on the command line.
Limit == <<15, 7, 1, 15, 7, 1>>

IsParsing == IsStep("args") \/ IsStep("main")

Returns(ret) ==
  IF Step.op = "args"
  THEN /\ Expect(ret = Step.ret)
       /\ script' = Tail(script)
       /\ at' = 0 /\ metadata' = <<>>
       /\ UNCHANGED status
  ELSE /\ script' = IF ret = 1 THEN Tail(script) ELSE <<>>
       /\ status' = IF ret = 1 THEN Running ELSE 0
       /\ UNCHANGED <<passed, parseVars>>

\* GetNext steps over the tokens with nothing in them.
SkipEmpty ==
  /\ IsParsing
  /\ Len(metadata) < 6 /\ at < Len(Step.tokens)
  /\ Step.tokens[at + 1] = Empty
  /\ at' = at + 1
  /\ UNCHANGED <<given, script, image, metadata, status, passed, whole, boots, utf8Vars>>

\* Slip: every token is stored, a seventh too.
TakeToken_all ==
  /\ IsParsing
  /\ at < Len(Step.tokens)
  /\ Step.tokens[at + 1] \in 0..Limit[(Len(metadata) % 6) + 1]
  /\ at' = at + 1
  /\ metadata' = Append(metadata, Step.tokens[at + 1])
  /\ UNCHANGED <<given, script, image, status, passed, whole, boots, utf8Vars>>

TakeToken ==
  /\ IsParsing
  /\ Len(metadata) < 6 /\ at < Len(Step.tokens)
  /\ Step.tokens[at + 1] \in 0..Limit[Len(metadata) + 1]
  /\ at' = at + 1
  /\ metadata' = Append(metadata, Step.tokens[at + 1])
  /\ UNCHANGED <<given, script, image, status, passed, whole, boots, utf8Vars>>

RefuseToken ==
  /\ IsParsing
  /\ Len(metadata) < 6
  /\ \/ at = Len(Step.tokens)
     \/ /\ at < Len(Step.tokens)
        /\ Step.tokens[at + 1] \notin (0..Limit[Len(metadata) + 1]) \cup {Empty}
  /\ Returns(0)
  /\ UNCHANGED <<given, image, whole, boots, utf8Vars>>

\* Slip: no look at the name of the output.
TestOutput_not ==
  /\ IsParsing
  /\ Len(metadata) = 6
  /\ Returns(1)
  /\ UNCHANGED <<given, image, whole, boots, utf8Vars>>

TestOutput ==
  /\ IsParsing
  /\ Len(metadata) = 6
  /\ Returns(IF Step.output THEN 1 ELSE 0)
  /\ UNCHANGED <<given, image, whole, boots, utf8Vars>>

-----------------------------------------------------------------------------
(* make_misc_image, and the boots from its image *)

\* WriteFile cannot open the file, writes all of it, or empties it and stops:
\* the EXPECT_EQ on its result stops nothing outside of a test.
make_misc_image ==
  /\ IsStep("write")
  /\ \/ /\ image' = make_metadata_image(TRUE, write_ab_metadata(metadata))
        /\ whole' = TRUE
     \/ image' \in {image, Short} /\ UNCHANGED whole
  /\ status' = 1
  /\ script' = <<>>
  /\ UNCHANGED <<given, parseVars, passed, boots, utf8Vars>>

Boot ==
  /\ given.op = "main" /\ status = 1
  /\ Len(boots) < MaxBoots
  /\ LET flow == bub_ab_flow(image)
     IN /\ image' = flow.image
        /\ boots' = Append(boots, IF flow.result = "OK" THEN flow.suffix ELSE flow.result)
  /\ UNCHANGED <<given, script, parseVars, status, passed, whole, utf8Vars>>

-----------------------------------------------------------------------------
(* The steps of the unit tests *)

GenerateMiscImage ==
  /\ IsStep("init")
  /\ image' = make_metadata_image(Step.magic, write_ab_metadata(Step.v))
  /\ script' = Tail(script)
  /\ UNCHANGED <<given, parseVars, status, passed, whole, boots, utf8Vars>>

TestFlow ==
  /\ IsStep("flow")
  /\ LET flow == bub_ab_flow(image)
     IN /\ image' = flow.image
        /\ Expect(/\ flow.result = Step.result
                  /\ flow.suffix = Step.suffix
                  /\ CompareMiscImage(flow.image, write_ab_metadata(Step.v)))
  /\ script' = Tail(script)
  /\ UNCHANGED <<given, parseVars, status, whole, boots, utf8Vars>>

\* EXPECT_TRUE wants what is returned to be other than zero.
TestMark ==
  /\ IsStep("mark")
  /\ LET mark == bub_ab_mark_as_invalid(image, Step.suffix)
     IN /\ image' = mark.image
        /\ Expect(mark.ret # 0)
  /\ script' = Tail(script)
  /\ UNCHANGED <<given, parseVars, status, whole, boots, utf8Vars>>

\* The end of a conversion, with what it returned and the first unit of it.
ConversionEnds(ret, units) ==
  IF given.op = "name"
  THEN /\ status' = ret
       /\ UNCHANGED passed
  ELSE /\ Expect(IF Step.unit = Refusal THEN ret = 1 ELSE ret = 0 /\ units[1] = Step.unit)
       /\ UNCHANGED status

ConvertRefuses ==
  /\ IsStep("utf8")
  /\ Refused(Step.bytes)
  /\ ConversionEnds(1, ucs2)
  /\ script' = Tail(script)
  /\ i8' = 0 /\ ucs2' = <<>>
  /\ UNCHANGED <<given, image, parseVars, whole, boots>>

ConvertGoesOn ==
  /\ IsStep("utf8")
  /\ ~Refused(Step.bytes) /\ ~LoopEnds(Step.bytes, Step.num_bytes)
  /\ Turn(Step.bytes)
  /\ UNCHANGED <<given, script, image, parseVars, status, passed, whole, boots>>

\* The last turn; a test frees its buffer, and the next one starts anew.
ConvertEnds ==
  /\ IsStep("utf8")
  /\ ~Refused(Step.bytes) /\ LoopEnds(Step.bytes, Step.num_bytes)
  /\ ConversionEnds(0, Append(ucs2, Unit(Step.bytes, i8)))
  /\ IF given.op = "name" THEN Turn(Step.bytes) ELSE i8' = 0 /\ ucs2' = <<>>
  /\ script' = Tail(script)
  /\ UNCHANGED <<given, image, parseVars, whole, boots>>

Next ==
  \/ SkipEmpty \/ TakeToken \/ RefuseToken \/ TestOutput
  \/ make_misc_image \/ Boot
  \/ GenerateMiscImage \/ TestFlow \/ TestMark
  \/ ConvertRefuses \/ ConvertGoesOn \/ ConvertEnds

Spec == Init /\ [][Next]_vars

-----------------------------------------------------------------------------
(* Properties *)

\* The file, the parser, the conversion and the history of boots have their
\* types: six attributes of at most four bits, units of sixteen.
TypeOK ==
  /\ image \in Images
  /\ at \in Nat /\ metadata \in Seq(Nat) /\ Len(metadata) <= 6
  /\ \A k \in DOMAIN metadata : metadata[k] \in 0..Limit[k]
  /\ status \in {Running, 0, 1}
  /\ passed \in BOOLEAN /\ whole \in BOOLEAN
  /\ boots \in Seq(Slots \cup {"NO_VALID_SLOTS", "READ_METADATA", "INVALID_METADATA"})
  /\ i8 \in Nat /\ ucs2 \in Seq(Ucs2Unit)

\* The bytes behind "AB" that the fourth and fifth turn of its conversion meet
\* are taken: none is the middle of a character or the start of a long one.
ReadableBehind(b) == \A k \in 1..2 : b[k] < 128

\* Every EXPECT of both unit-test programs holds of the model of the code they
\* test, through all fallbacks, resets, countdowns and refused command lines,
\* unless the build puts something else than ASCII behind the string "AB", of
\* which Utf8toUcs2 has six bytes converted where there are three.  One of them,
\* bub_ab_flow_unittest.cc:421, expects other than 0 of a mark that worked.
UnitTestsPass ==
  given.op = "test" /\ ReadableBehind(given.behind) => passed

\* The values of a command line: a place with nothing in it is no value.
Filled == {j \in DOMAIN given.tokens : given.tokens[j] # Empty}
Place(k) == CHOOSE j \in Filled : Cardinality({i \in Filled : i <= j}) = k
Kept(k) == given.tokens[Place(k)]

InRange == \A k \in 1..6 : Kept(k) \in 0..Limit[k]

\* A command line as the messages of the parser want it (make_misc_image.cc:37-43, 84).
Acceptable == Cardinality(Filled) = 6 /\ InRange /\ given.output

Holds(img, s, k) ==
  /\ img.slots[s].priority = Kept(k)
  /\ img.slots[s].tries_remaining = Kept(k + 1)
  /\ img.slots[s].successful_boot = (Kept(k + 2) = 1)

\* Of command lines with six values or fewer, make_misc_image refuses exactly
\* those that are not as they should be, with 0 and the file left alone; what it
\* writes of the others, and of the lines with more values that it should refuse
\* as well (TakesExactlySix), holds the first six attributes in their places.
\* The 1 it returns for the others says nothing of the file (WritesTheImage).
ObeysTheArguments ==
  [][given.op = "main" /\ boots' = <<>> =>
       /\ Cardinality(Filled) <= 6 =>
            /\ status' # Running => (status' = 1 <=> Acceptable)
            /\ image' # image => Acceptable
       /\ whole' => Holds(image', "_a", 1) /\ Holds(image', "_b", 4)]_vars

\* "Need exactly 6 ab_metadata attribute values." (make_misc_image.cc:38): a line with
\* more of them is not taken.  It is: nothing looks behind the sixth.
TakesExactlySix == given.op = "main" /\ status = 1 => Cardinality(Filled) = 6

\* The image has been written when make_misc_image returns 1: EXPECT_EQ of all of its
\* bytes with what WriteFile returns (bub_image_util.cc:168-171), and main returns 0
\* if it does not work (main.cc:46-49).  It returns 1 always.
WritesTheImage == given.op = "main" /\ status = 1 => whole

\* How many boots in a row a slot made with these attributes is good for.
Lives(k) ==
  IF Kept(k) = 0 THEN 0
  ELSE IF Kept(k + 1) > 0 THEN Kept(k + 1)
  ELSE IF Kept(k + 2) = 1 THEN MaxBoots
  ELSE 0

\* Where the attributes of the preferred slot, and those of the other, stand.
First == IF Kept(4) > Kept(1) THEN 4 ELSE 1
Second == 5 - First
Suffix(k) == IF k = 1 THEN "_a" ELSE "_b"

\* An image that make_misc_image has made whole is valid to the boot loader
\* (the checksum and its byte order agree between the two programs), and the
\* boots from it go as its attributes say: a slot on trial gets as many as it
\* has tries, a confirmed one all, the one of higher priority before the other,
\* A before B, and behind both of them there is no valid slot.
MadeImageBoots ==
  whole =>
    \A n \in DOMAIN boots :
      boots[n] = IF n <= Lives(First) THEN Suffix(First)
                 ELSE IF n <= Lives(First) + Lives(Second) THEN Suffix(Second)
                 ELSE "NO_VALID_SLOTS"

\* utf8_to_ucs2 gives a name the units of its code points, at the limits of
\* each length of encoding too, reads no byte behind the terminating one, and
\* refuses a name exactly when a code point needs more than sixteen bits; the
\* empty name, on which the loop still runs once, gives the terminator.
ConvertsNames ==
  given.op = "name" =>
    LET points == given.name.points
    IN /\ i8 < Len(given.name.bytes) \/ points = <<>>
       /\ status = 0 => ucs2 = IF points = <<>> THEN <<0>> ELSE points
       /\ status # Running =>
            (status = 1 <=> \E k \in DOMAIN points : ~InOneUnit(points[k]))
-----------------------------------------------------------------------------
(* Why it holds: where a program is, and what it has read and written by then *)

Tokens == Seq(Int \cup {NaN, Empty})

\* A command line that is taken, the lines with values behind the sixth included.
Taken == Cardinality(Filled) >= 6 /\ InRange /\ given.output

Sixes == {v \in Seq(Nat) : Len(v) = 6}

\* Where a turn of a conversion may start; and none that starts there leaves the bytes.
Starts(step) == {i \in 0..step.num_bytes : i = 0 \/ i < step.num_bytes - 1}

Fits(step) ==
  \A i \in Starts(step) :
    i < Len(step.bytes) /\ i + Announced(step.bytes[i + 1]) <= Len(step.bytes)

TestSteps ==
  [op : {"init"}, magic : BOOLEAN, v : Sixes]
  \cup [op : {"flow"}, v : Sixes, result : {"OK", "NO_VALID_SLOTS", "INVALID_METADATA"},
        suffix : Slots \cup {""}]
  \cup [op : {"mark"}, suffix : Slots]
  \cup [op : {"args"}, ret : {0, 1}, tokens : Tokens, output : BOOLEAN]
  \cup {r \in [op : {"utf8"}, bytes : Seq(Byte), num_bytes : Nat, unit : Int] : Fits(r)}

\* What each program has still to do.
ScriptInv ==
  \/ \E behind \in Behind :
       given = [op |-> "test", behind |-> behind] /\ script \in Seq(TestSteps)
  \/ \E tokens \in TokenLists, output \in BOOLEAN :
       /\ given = [op |-> "main", tokens |-> tokens, output |-> output]
       /\ script \in {<<given, [op |-> "write"]>>, <<[op |-> "write"]>>, <<>>}
  \/ \E n \in Names :
       /\ given = [op |-> "name", name |-> n]
       /\ script \in {<<converted(n.bytes, Len(n.bytes), 0)>>, <<>>}

\* A step of a test finds the parser and the conversion at their start, or is theirs.
TestInv ==
  given.op = "test" =>
    /\ status = Running
    /\ IF IsStep("args") THEN at <= Len(Step.tokens) ELSE at = 0 /\ metadata = <<>>
    /\ IF IsStep("utf8") THEN i8 \in Starts(Step) ELSE i8 = 0

\* The parser has as many attributes as it has passed numbers, each the one in its place.
Counted(n) == Cardinality({j \in Filled : j <= n})

ParseInv ==
  given.op = "main" =>
    /\ at <= Len(given.tokens) /\ Len(metadata) = Counted(at)
    /\ \A k \in DOMAIN metadata : metadata[k] = Kept(k)
    /\ script # <<>> => status = Running
    /\ Len(script) = 1 => Taken
    /\ script = <<>> => status = IF Taken THEN 1 ELSE 0
    /\ Len(script) < 2 /\ Taken => Len(metadata) = 6

\* How many of n boots a slot gets.
AtMost(m, n) == IF m < n THEN m ELSE n

Used(n, k) ==
  IF k = First THEN AtMost(n, Lives(First))
  ELSE AtMost(n - AtMost(n, Lives(First)), Lives(Second))

\* A slot that is made confirmed, and without tries.
Lasting(k) == Kept(k) > 0 /\ Kept(k + 1) = 0 /\ Kept(k + 2) = 1

\* What a slot is still worth after n boots, and the rank it keeps meanwhile.
Spent(slots, n, k) ==
  LET slot == slots[Suffix(k)]
  IN /\ Worth(slot) = IF Lasting(k) THEN -1 ELSE Lives(k) - Used(n, k)
     /\ Worth(slot) # 0 => normalize_slot(slot).priority = Kept(k)

Spends(k) == Spent(image.slots, Len(boots), k)

ImageInv ==
  /\ whole \/ boots # <<>> => given.op = "main" /\ status = 1
  /\ Len(boots) <= MaxBoots
  /\ whole =>
       /\ image \in BubAbData /\ image = make_metadata_image(TRUE, image.slots)
       /\ boots = <<>> => Holds(image, "_a", 1) /\ Holds(image, "_b", 4)
       /\ Spends(1) /\ Spends(4)

\* A conversion is at the start of the code point it has come to, with those before it
\* stored.
NameInv ==
  given.op = "name" =>
    LET points == given.name.points
    IN /\ at = 0 /\ metadata = <<>>
       /\ script # <<>> =>
            /\ status = Running
            /\ i8 = given.name.starts[Len(ucs2) + 1]
            /\ ucs2 = <<>> \/ Len(ucs2) < Len(points)
            /\ \A k \in DOMAIN ucs2 : ucs2[k] = points[k]
       /\ script = <<>> =>
            IF \E k \in DOMAIN points : ~InOneUnit(points[k])
            THEN status = 1 /\ i8 = 0
            ELSE /\ status = 0 /\ (i8 < Len(given.name.bytes) \/ points = <<>>)
                 /\ ucs2 = IF points = <<>> THEN <<0>> ELSE points

HostInv ==
  TypeOK /\ ScriptInv /\ TestInv /\ ParseInv /\ ImageInv /\ MadeImageBoots /\ NameInv
================================================================================
