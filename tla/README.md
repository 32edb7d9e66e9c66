# Brillo generic devices: a verification project

This directory holds TLA+ specifications of the program in `src/`, the TLC
configurations that model-check them, and proofs that TLAPS checks. The core is
the UEFI A/B boot loader of `src/brillo_uefi_x86_64/boot_loader`, the only part
of the repository that keeps persistent state and has to get it right across
disk errors and power cuts. Beside it stand its host tools and unit tests, and
the two test programs of the repository that have concurrency of their own, for
audio and for seccomp. Paths below are relative to `src/`.

## 1. The system and its parts

| part | state it keeps | operations | who it talks to |
|---|---|---|---|
| A/B flow (`bub_ab_flow.c`) | the record in the `misc` partition: a magic, for each of the slots `_a` and `_b` a priority (4 bits), tries (3 bits) and a success bit, a CRC | `bub_ab_flow` (read, normalise, choose, decrement, write), `bub_ab_mark_as_invalid` (read, zero, write) | partition I/O |
| main loop (`bub_main.c`) | the suffix, the results of the last calls | `efi_main`: flow, boot, mark, again | flow, kernel loading, the firmware |
| partition I/O (`bub_ops_uefi.c`) | none of its own; the disk | `bub_read_from_partition`, `bub_write_to_partition` | GPT lookup, `DiskIo` protocol |
| GPT lookup (`bub_partition_entry_by_name`) | heap buffers for the duration of a call | one lookup with seven returns, and an eighth that cannot be reached | `BlockIo` protocol, `utf8_to_ucs2` |
| kernel loading (`bub_boot_kernel`, `LoadParameters`) | header and kernel buffers | one call with twelve returns, or none once the kernel runs | partition I/O, firmware image services |
| disk discovery (`bub_init`, `getDiskBlockIo`, `walk_path`, `validate_gpt`) | the block and disk devices, the device path | one call at start | firmware device paths |
| image utilities and unit tests (`bub_image_util.cc`, `bub_sysdeps_posix.c`, `bub_crc32.c`, `bub_util.c`) | image files on a host | stand-ins for partition I/O, CRC-32, byte order, UCS-2 | the flow, on a host |
| `make_misc_image` | six numbers from a command line | parse, build the record, write the image | image utilities |
| sensors (`sensor/`) | event queues of a looper | create, destroy, `hasEvents`, `getEvents` | the Android sensor service |
| Wi-Fi initialiser (`wifi_driver_hal/`) | a handle of the HAL for the length of a run | `main`: open, initialise, set the mode, close | the vendor's driver HAL, `init.wifi-setup.sh` |
| audio tests (`pts/audio/`) | buffers of a stream, a recorded file, a sine phase | play, record, generate | audio HAL, libmedia, stagefright, with callbacks on another thread |
| seccomp tests (`pts/seccomp/`) | a list of tests and fixtures, one child process per test | register, fork, wait, report | the kernel |
| init and firewall scripts (`brillo.rc`, `init.*.sh`) | properties, iptables rules | property triggers and one-shot services | Android init |
| developer scripts (`check_brillo_kernel_patch.sh`, `newproduct.sh`, `mergeconfig.sh`, `make_efi_image`, ...) | files and exit codes | one pass over their input | the shell |
| configuration (`*.mk`, `kconfig/`, `sepolicy/`, emulator products, `docs/`) | none | none | the build |

What makes each of them hard, and what makes each correct:

- **A/B flow and main loop.** The record is read, changed in memory and written
  back, once to choose and once more to invalidate, and the power may go at any
  point. Correct means: a slot that was never confirmed is started no more often
  than it was given tries; the best live slot is the one that runs; the loader
  only ever takes away from a slot, never gives; a confirmed slot is not harmed
  by the other one; if there is a good kernel within reach, it runs in the end.
- **Partition I/O.** Signed offsets meet unsigned sizes. Correct means: no write
  leaves the partition it names, all of the partition can be reached, and each
  result says what happened.
- **GPT lookup.** Seven returns, each with its own set of frees, and an
  out-parameter. Correct means: nothing leaks, nothing is freed twice, the first
  entry of the name is the one that is returned.
- **Kernel loading.** Sizes from an untrusted header, one result code that costs a
  slot its life. Correct means: reads stay in the partition, and
  `INVALID_FORMAT` comes only from what the partition holds.
- **Disk discovery.** Seven ways back to the head of a loop, each freeing two
  pointers that the firmware calls may have advanced in the meantime, and an
  allocation nobody tests. Correct means: the topmost disk with a sound table is
  handed out, both protocols are of that disk, and the memory of the paths is given
  back.
- **Host tools and unit tests.** Two programs compute one checksum in two places,
  and six numbers go through bit fields. Correct means: an image that is made is
  one the loader accepts and boots as its attributes say, what is not six attributes
  is refused, success means that the image is there, and the unit tests hold.
- **Audio tests.** A callback thread that appends to a vector its owner reads, and
  fills from a file its owner closes; a source with one buffer; sizes that a HAL
  answers anew each time. Correct means: buffers are kept to, callbacks meet a
  live source, a success is one, and the programs end.
- **Seccomp tests.** A child process per test, two sibling threads that are told by
  a condition variable, a tracer that is told by a signal, and nothing with a
  time-out. Correct means: each test runs once and in order, a sound kernel passes
  whatever the interleaving, a flawed one fails, and the run ends.
- **Sensors, init and firewall.** `hasEvents` returns -1 for "nothing there"; two
  triggers start the same one-shot service on overlapping conditions, and it adds
  its rule every time; the Wi-Fi script reports that it is complete whatever
  became of it. These are facts about one line each, or about Android's init.

`PROJECT.json` lists every hazard at its line, with the properties that cover it.

## 2. Modules

| module | what it is | models |
|---|---|---|
| `AbMetadata` | the record and the pure steps that interpret it | `BubAbData`, `normalize_slot`, `slot_is_bootable`, the choice and the decrement of `bub_ab_flow` |
| `AbPromise` | the abstract specification: starts are paid for in advance | the promise of an A/B scheme |
| `BootLoader` | the state machine: loader, disk, power, running system | `efi_main`, `bub_ab_flow`, `bub_ab_mark_as_invalid` |
| `GptLookup` | one lookup as a sequence of allocations, reads and a search | `bub_partition_entry_by_name` |
| `PartitionStore` | the abstract specification: named partitions with bounds | the contract in `bub_ops.h` |
| `PartitionIo` | lookup, offset arithmetic, transfer | `bub_ops_uefi.c` |
| `PartitionIoMC` | two disk layouts and the offsets for TLC | |
| `BootKernel` | from the image header to a started kernel | `bub_boot_kernel`, `LoadParameters` |
| `DiskDiscovery`, `DiskDiscoveryMC` | the walk along the device path | `bub_init`, `getDiskBlockIo`, `walk_path`, `validate_gpt` |
| `Utf8` | one turn of a conversion, over bytes | `utf8_to_ucs2` |
| `MiscImage` | the file `misc.img`, its checksum, the flow over it as one step | `MyOps`, the reader and writer of `bub_ab_flow.c`, on `AbMetadata` |
| `HostTests` | the unit tests as scripts | `bub_ab_flow_unittest.cc`, `make_misc_image_unittest.cc` |
| `HostTools`, `HostToolsMC` | the state machine of the host programs | `make_misc_image`, `main.cc`, the two test programs |
| `SineSource` | a source and its one buffer | `SineSource.cpp` |
| `AudioHalTest` | two programs over an audio HAL | `audio_hal_playback_test.cpp`, `audio_hal_record_test.cpp` |
| `BrilloAudioTest` | one program with a callback thread | `brillo_audio_test.cpp`, `libmedia_*.cpp`, `stagefright_*.cpp` |
| `AudioTests`, `AudioTestsMC` | one of the three programs is run | |
| `TestHarness` | registration, fork, verdict | `test_harness.h` |
| `SeccompKernel` | external: filters and system calls of Linux, sound or with one flaw | |
| `SeccompSuite` | 47 tests as scripts | the `TEST`s of `seccomp_bpf.c` |
| `SeccompTests`, `SeccompTestsMC` | harness, main thread, siblings and tracer together | the threads and the tracer of `seccomp_bpf.c` |
| `AbMetadataProofs`, `BootLoaderProofs`, `PartitionIoProofs`, `BootKernelProofs`, `DiskDiscoveryProofs`, `HostToolsProofs`, `AudioTestsProofs`, `SeccompTestsProofs` | theorems and proofs about the module of that name | |

How the modules meet: `BootLoader` extends `AbMetadata` and uses, for a call of
`bub_boot_kernel`, only its result, which `BootKernel` works out in full;
`BootLoader` and `BootKernel` both see a partition access as one step that
succeeds or fails, which `PartitionIo` (on top of `GptLookup`) works out in full.
`BootLoader` is shown to implement `AbPromise`, `PartitionIo` to implement
`PartitionStore`. `BootLoader`'s `InitFails` is a return of 0 in `DiskDiscovery`.
`MiscImage` uses the same `AbMetadata` as `BootLoader`, so that the unit tests are
run against the operators the theorems are about. `AudioTests` composes the two
audio modules over `SineSource`; `SeccompTests` composes harness, suite and kernel.

### 2.1 BootLoader

A step of the model ends where the code accesses the disk, because that is where
the power may be cut with a different result. `pc` names the place: `flow` (about
to read the record), `reset` and `write` (about to write it), `boot` (in
`bub_boot_kernel`), `mark` and `mark_write` (in `bub_ab_mark_as_invalid`),
`abort` (`bub_error`), `exit`, `os` (a kernel runs) and `off`.

| code | action |
|---|---|
| `efi_main` enters the loop; `bub_init` fails | `PowerOn`; `InitFails` |
| `bub_ab_flow`: read fails; magic or CRC wrong; read, normalise, choose, decrement | `FlowReadFails`; `FlowReadsCorrupt`; `FlowChooses` |
| `bub_ab_flow`: `reset_metadata`; write works; write fails | `FlowResets`; `FlowWrites`; `FlowWriteFails` |
| `bub_boot_kernel`: does not return; returns OK; `INVALID_FORMAT`; another error, from the image or from the firmware | `KernelRuns`; `KernelReturns`; `KernelHasBadFormat`; `KernelUnusable`, `KernelLoadFails` |
| `bub_ab_mark_as_invalid`: read fails; works; write works; write fails | `MarkReadFails`; `MarkReads`; `MarkWrites`; `MarkWriteFails` |

The magic and the CRC are one question to the code, "is this record valid?", so a
record is either one of the values of the bit fields or `Corrupt`. A failed or
interrupted write leaves the old record, the new one or a corrupt one. A read may
return garbage once, from an intact disk: that is a fault too, and makes the flow
reset the record. `faults` counts the faults, or is `Endless` from the start,
for a disk that may fail as often as it likes. `Confirm` and `Update` are the
running system: the unit test says "Boot Control HAL should do this" of the
first; the second is what an updater does before it reboots. They are external
and not taken from code here.

### 2.2 GptLookup and PartitionIo

`heap` counts the allocations of each kind, so that a leak is a positive count
and a double free a negative one (outside the type invariant). `entry_buf` is the
caller's pointer, unset until the function assigns it. A step `"wild"` stands for
the store through a null pointer that line 469 does after line 388 has tested the
wrong variable. Arithmetic is modulo `Width`, for 2^64, wherever C makes it
`UINT64`. `IMG_SIZE` is taken as written: it does not count the last block of a
partition. A buffer to write is one byte repeated.

`PartitionStore` knows two things the code does not. Its partitions end with their
last block, and it tells a partition that is not there from a call that has failed.
Three instances of it divide the question. `Whole` has the partitions of the disk
(`Contents`), `Exact` has no excuse for a failure (`FailureMeansMissing = FALSE`);
the code implements neither (section 5). `Store` has both taken out: partitions as
far as `IMG_SIZE` lets the functions go (`InReach`), and a failure before the entry
is found that may pass for a missing partition. That one it implements.

### 2.3 BootKernel

One step for each call into the firmware or into partition I/O, in the order of
the code. `num_bytes_read` is ignored by the code, so a short read leaves a part
of the buffer undefined; what the firmware makes of such a kernel is left open
(`MayBe`). A partition shorter than a header may hold the magic all the same,
and the fields behind it are then what the buffer happened to have: any of
`Fields`. The command line is copied by `LoadParameters` without a bound; the
model has no character in it, and the hazard is listed.

### 2.4 DiskDiscovery

`device` is what the firmware has for each beginning of the path; `walker` counts
nodes; `path` says for `io_path` and `disk_path` whether there is memory and
whether the pointer is still at its start. `LocateDevicePath` stores what remains
of the path over the pointer it was given (`Locates`), so that the `bub_free` that
follows gets a pointer that was never allocated: `lost` counts the memory of those,
and of `disk_path` where it goes out of scope with the disk found. The path
that is handed in reaches one node beyond the walker (`Reach`), because
`walk_path` copies the node that ends the prefix. Each firmware call may fail.

### 2.5 Host tools

One variable `script` holds what the program has still to do. For the unit tests
it is a test from `HostTests`, each step with its inputs and its expectations,
and `passed` says whether an EXPECT has failed; the value that
`bub_ab_mark_as_invalid` returns is one of the things expected (`TestMark`). For
`make_misc_image` it is the command line, taken token by token (`SkipEmpty`,
`TakeToken`, `RefuseToken`, `TestOutput`), then the write, which may fail or
stop halfway, then boots from what is in the file. A checksum is known by what
it was computed of and by its byte order, which is all that has to agree between
the programs. Bytes of names are numbers, and `utf8_to_ucs2` is followed byte by
byte. A name of `Names` is its code points together with their encoding and
where in it each of them starts (`IsName`), so that names of every length can be
spoken of without recursion; what a command line asks for is said likewise, by
the places of its numbers (`Kept`).

### 2.6 Audio

One of three programs is run with one of its command lines. A HAL answers every
call of `get_buffer_size` with any of `HalSizes`, and every read and write with
any result. In `BrilloAudioTest` a second thread is in its callback or not;
`stop()` keeps it from coming again and does not wait (`late` records that a
callback was under way). Every error return is there, and what it leaves behind:
`Returns` runs the destructor of the source, which aborts if its buffer is out.

### 2.7 Seccomp

Before `main` the constructors run, one step each: `__constructor_order_first`,
`Register` of every test, `__constructor_order_last`, from the top of the file or
from its bottom (`toolchain`). `test_list` is the list that `__register_test`
builds, with `next` and `prev` of every test, and the harness follows it.

A test is a sequence of steps: system calls with what is expected of them, the
start of a thread, a wait, a broadcast, a signal. `SeccompKernel` decides a call
from the filters of the thread, by running their instructions, and keeps mode,
filters and no_new_privs of each thread; `env.flaw` makes it wrong in one of 26
ways. `SeccompTests` interleaves the main thread, two siblings (`SiblingPosts` to
`SiblingDies`, with a mutex, a semaphore and a condition variable that may wake up
by itself) and the tracer process (`TracerAttaches` to `TracerHandles`). The test
of `tracer_running`, the call of `wait` and the wait itself are three moments.
`accident` is one failure of `fork` or `pthread_create`, or one spurious wake-up. A
`fork` that fails is the harness's, or the tracer's (`MainSetUpFails`, which stands
for the `pipe` before it as well).

## 3. Runs

| run | module, cfg | question | states |
|---|---|---|---|
| `boot_loader` | `BootLoader`, `BootLoader.cfg` | budget, choice, giving up, demotion, confirmed slots, the promise, the inductive invariant; does a good kernel run in the end; with faults without end, what can make a session endless | 1538k |
| `partition_io` | `PartitionIoMC`, `PartitionIo.cfg` | leaks, the right entry, bounds of writes, the contract within reach, termination | 260k |
| `boot_kernel` | `BootKernel`, `BootKernel.cfg` | what the size checks keep; does the result say what is in the partition | 319k |
| `disk_discovery` | `DiskDiscoveryMC`, `DiskDiscovery.cfg` | is what is handed out a disk, the topmost, of one device; where alone are paths lost | 73k |
| `misc_image` | `HostToolsMC`, `HostTools.cfg` | does the image hold what was asked for and boot as it says; names; all unit tests | 35k |
| `audio` | `AudioTestsMC`, `AudioTests.cfg` | bounds of buffers, live sources, whole recordings, honest success, termination | 2.5k |
| `seccomp` | `SeccompTestsMC`, `SeccompTests.cfg` | order, a sound kernel passes, a flawed one is found, verdicts are earned, the suite ends | 35k |
| `boot_loader_mark` | `BootLoaderMark.cfg` | violated: the loader stops after marking a slot although nothing failed | |
| `partition_io_past_end` | `PartitionIoPastEnd.cfg` | violated: an offset past the end is not outside the range | |
| `partition_io_last_block` | `PartitionIoLastBlock.cfg` | violated: the last block of a partition is out of reach | |
| `boot_kernel_truncated` | `BootKernelTruncated.cfg` | violated: a kernel cut off by its partition is loaded | |
| `tracer_shutdown` | `TracerShutdown.cfg` | violated: a tracer that is told to stop waits for ever | |

Bounds, and why they are enough:

- *Boot loader.* Priorities 0..2 and tries 0..2 for 0..15 and 0..7: the code only
  compares priorities with each other and with 0, and tries with 0, and counts
  tries down by one; three ranks and two tries have every order, the first try,
  the last and none. Two faults and one update: a fault in two different places
  of one session, or in two sessions, around a new image. The initial record is
  any value of the bit fields or `Corrupt`, the initial images are arbitrary.
  `faults` starts at 0 and counts, or is `Endless`: then every access may fail, for
  ever. All properties but `FallsBackToGoodKernel` are about both. The theorems need
  none of these bounds.
- *Partition I/O.* Eight blocks of two bytes; two tables: two neighbours, and two
  entries of the same name, one of which is so short that `IMG_SIZE` is 0; a name
  that no table holds and one that cannot be converted. Offsets run from one
  before the start to the end, lengths up to the size. `Width` is 64, more than
  twice the disk, as the code's is.
- *Kernel loading.* Partitions shorter than, as long as, and twice as long as a
  header; fields below, at and above each of those.
- *Disk discovery.* Paths of up to three nodes, which have a disk with a node before
  it and a partition behind it; eight kinds of device, a sound disk and one that
  differs from it in each respect the walk looks at.
- *Host tools.* Bit fields of their real width. Attributes at both ends of every
  range and one inside; lists with a token replaced, missing, empty, or one too
  many; 15 boots, enough to use up seven tries of each slot and see what follows.
  Code points at both ends of every length of encoding, in names of up to three.
- *Audio.* A sine buffer of 8 bytes and HAL buffers of 4, 8 and 12: smaller, equal
  and larger. Files of one and two channels; two chunks of a recording, the first
  and one that follows.
- *Seccomp.* Two siblings, as in the code. `BPF_MAXINSNS` is 8 for 4096 and the
  limit of a path 8 times as large, as in the code. A sound machine, for root and
  for others, with one accident; without accidents, both orders of constructors,
  ptrace open, limited to declared tracers, or closed, no_new_privs on entry, and
  each of the flaws.

Deadlock is checked in `boot_loader`, where the power comes back for ever. In the
others it is off: the programs end, a lookup may leave C, and the hang of a sine
that does not fit, or of a tracer told too late, is a deadlock that the code has.

Fairness. Boot loader: `WF(LoaderStep)`, because the firmware runs one thread of the
loader without interruption; `WF(PowerOn)` and `WF(PowerOff)`, because somebody
switches on a device that is off and resets one that is stuck. Nothing is assumed
of the running system, or of faults, except that for `FallsBackToGoodKernel` they
are finitely many (`faults # Endless`). `EndlessSessionFailsMarks` needs no such bound: a
loader that is never switched off and never comes out of its loop fails to write a
mark infinitely often. `FallsBackToGoodKernel` says what it needs: a
good kernel confirmed, or with more tries than there are faults to come, and not
ranked behind a confirmed slot that does not come up. That last condition is real:
the code gives a confirmed slot no way to lose its rank except `INVALID_FORMAT`.
`PartitionIo` has `WF(Next)`: one thread. Audio: `WF(Main)`, the main thread goes
on where it can, and `WF(Clock)`, time goes by; nothing is assumed of the callback
thread. `ProgramsEnd` names the two things it needs of the HAL. Seccomp: weak
fairness of all processes together, since no process but the one that attaches
repeats itself; accidents are not fair. `SuiteEnds` names what the code cannot do
without: ptrace permitted, threads created, and no signal at the wrong moment.

## 4. Proofs

Each theorem holds for every value of the constants that the named assumptions of
its module admit:

| assumption | what it asks |
|---|---|
| `BitFieldAssumption`, `CorruptAssumption`, `EnvironmentAssumption` | bit fields are ranges from 0; a corrupt record is none of them; faults and updates are counted |
| `TableAssumption`, `DiskAssumption` | a table fits its buffer and its `UINT8`, its entries the disk, and sizes their 64 bits |
| `LayoutAssumption`, `NoneAssumption` | entries do not overlap, as the UEFI specification asks; no request is the absence of one |
| `SizeAssumption` | 32-bit fields and the size of a partition add up in 64 bits |
| `DeviceAssumption` | devices are records of the kinds of the firmware, block sizes are not 0 |
| `HostAssumption` | the bit fields hold what the parser lets pass; what is no number is none; command lines and files are of the kinds the programs meet, in any number and of any length; behind "AB" there are four bytes to read |
| `NamesAssumption` | a name is the UTF-8 encoding of its code points, with a zero behind it |
| `HalAssumption`, `LibraryAssumption` | sizes are numbers, those of the HAL not 0 |
| `TestsAssumption`, `SuiteAssumption` | tests are a sequence of sequences of steps; a test that ends itself by a system call has only ASSERTs before it; a tracer is started before it is waited for, and then is; a sibling is started once, and asked for more once; a filter lets the `_exit` of a test in or kills it |
| `EnvsAssumption` | the filter of the siblings does so too; no accident has happened at the start |

`SuiteAssumption` is about the text of the tests, not about what they do: TLC
evaluates it on all 47 of `SeccompSuite`. Of a filter it asks for what it returns for
one call; that all filters of a thread together, with siblings' filters and those
synchronised to it, then agree to let the test end is proved.

- `AbMetadataProofs`: normalisation gives a proper slot and changes nothing when
  repeated (`NormalizeIsProper`), the chosen slot is bootable and none outranks
  it (`ChosenIsBest`).
- `BootLoaderProofs`: `Invariance` (`Spec => []IInv`), and from it
  `TypeCorrect`, `BudgetHolds`, `BestLiveSlotRuns`, `GivesUpRightly`, and the
  action properties `OnlyDemotes` and `ConfirmedStays`.
  `LoaderKeepsPromise`: `BootLoader` implements `AbPromise` under the mapping
  `Budgets`, `Running`.
- `PartitionIoProofs`: `LookupInvariance` (`Spec => []LookupInv`),
  `NeverLeaks`, `AlwaysFindsTheFirst`, and `WritesAreConfined`: as long as no
  caller starts past the end of a partition, no write leaves the one it names.
  `IoInvariance` (`Spec => []IoInv`), `IoTypeCorrect`, and, under the same
  condition, `ContractIsKeptInReach`: `PartitionIo` implements `PartitionStore` over
  what `IMG_SIZE` counts of each partition, but for failures that pass for a missing
  one.
- `BootKernelProofs`: `KernelInvariance` (`Spec => []KernelInv`),
  `KernelTypeCorrect`, `ReadsAlwaysFit`, `ResultsAreEarned`.
- `DiskDiscoveryProofs`: `DiscoveryInvariance` (`Spec => []DiscoveryInv`),
  `DiscoveryTypeCorrect`, `SuccessIsADisk`, `TopmostIsFound`,
  `OnlyMovedPathsLost`, for device paths of every length.
- `HostToolsProofs`: `HostInvariance` (`Spec => []HostInv`), `HostTypeCorrect`,
  `ImageBootsAsAsked`, `NamesAreConverted` and the action property
  `ArgumentsAreObeyed`, for command lines and names of every length, every number
  of boots and every earlier content of the file.
- `AudioTestsProofs`: `AudioInvariance` (`Spec => []AudioInv`),
  `AudioTypeCorrect`, `BuffersAreKept`, `SourceIsLive`, `RecordingsAreComplete`,
  `SuccessIsEarned`.
- `SeccompTestsProofs`: `DeclarationOrder`, `SeccompInvariance`
  (`Spec => []SeccompInv`), `PassIsEarned` and `SeccompTypeCorrect`, for every
  suite of tests, every kernel and every interleaving.

Every inductive invariant stands at the end of its component's module and was
model-checked with that module's run before it was proved.

The argument for the loader. `AttemptBudget` alone is not inductive: between the
choice and the write the decremented record is only in memory, and nothing in
`AttemptBudget` says that what will be written is what was decremented.
`WriteHoldsChoice` says so: at `write`, `ab_ctl` is the normalised record on the
disk less one try of the slot chosen from it. `MarkHoldsZeroedSlot` says the same
of the second read-modify-write. `LoadsNormalizedRecord` carries, over the load of
a kernel, that the record has been normalised, so that a paid try cannot turn
into a success. `StartsBounded` covers the record that is lost: with nothing on
the disk, nothing has been started yet. Each action keeps each part; the budget
moves from the record (`TriesLeft`) to the try in flight (`InFlight`) to the
starts made, and the sum never grows. The refinement proof reuses the invariant:
`FlowWrites` maps to a stutter, because the try paid belongs to the slot until
`KernelRuns` uses it, and a power cut at `boot` maps to `Lose`.

The argument for the lookup. What is on the heap is a function of how far the
call has come (`HeapFollowsStep`), the pointer handed out likewise
(`EntryFollowsStep`), and the search has seen no match so far
(`SearchedInVain`), from which `FindsTheFirst` follows at the end. For the
writes: the entry is one of the table, which fits the disk, so that nothing
wraps (`NoWrap`); a legal offset is at most `IMG_SIZE`, so the room left is a
natural number; and what was let through is not more than the room.

The argument for the contract. `InReach` reads the disk through the first entry
of each name, for `IMG_SIZE` bytes. A transfer touches the bytes of one entry,
at an offset that has been compared with `IMG_SIZE`; since entries do not
overlap, the content of every other name is what it was, and that of the name
itself has changed where the contract says. All other steps, the whole lookup
included, are stutters; a failed lookup, a range outside and a failed transfer
map to the results of the contract; the first is where the excuse is needed,
since `NOT_FOUND` from a search that has not been carried out (`failed`) says
nothing about the table.

The argument for kernel loading. A result can only be judged if it is known what
the function has looked at: `HeadIsRead` says that behind the first read `head` is
the header of the partition, if the partition holds one, `HeadIsAccepted` that the
three comparisons have let it pass, `KernelIsRead` that the second read asked for
what the header says, and `FailureReturns` that a service that fails ends the
function, which is why `INVALID_FORMAT` never stands for a failure. `ReadsFit` has
one part for every partition, that the buffer is as long as what is read and the
header asks for no more than the partition has, and one for a partition that holds a
header: there the subtraction of line 596 does not wrap, so `page_size` is bounded.

The argument for disk discovery. The step alone says which of the two paths is
allocated and whether the firmware has moved it (`PathFollowsStep`); a round of
the walk loses two at most (`TwoLostARound`), and a round that comes to no block
device loses none (`NoneLostUnmoved`): there the first LocateDevicePath fails,
and a call that fails moves nothing. Rounds before the first such node lose
nothing either, since they come to fewer nodes. `HandlesAreLongest`: each handle
is the longest beginning of the path that has the protocol, so that both are the
same if every device has both. `NonePassedOver` counts rounds: the disk at the
end of each beginning of the path is found in a round of its own (`RoundOf`),
and the walk is not beyond it.

The argument for the host tools. `ScriptInv` says which steps a program can have
before it, and the other parts are about one program each. `ParseInv`: the
parser has stored as many attributes as it has passed places with a number in
them (`Counted`), and the k-th is the number in the k-th such place (`Kept`), so
that the sixth fills the record exactly when six are there and within their
limits. What it makes of a longer line is said too (`Taken`): it is treated as
its first six values are. The k-th place exists because a set of naturals that
is not empty has a least element, which is proved from the well-foundedness of
the strict subset ordering of finite sets (`LeastNumber`): so much induction
over data is within reach. `ImageInv`: the checksum in the file is that of its
slots in the byte order of the loader; `Spent` says of each slot what it is
still worth after the boots so far, and that it keeps its rank as long as it is
worth something, from which the next boot follows by `ChosenIsBest`; a boot
takes one from the preferred slot, then from the other, and nothing from one
that lasts. `NameInv`: a turn of the conversion starts where a code point does,
with the ones before it stored; the turn is right because each encoding
announces its length and `Unit` undoes it, shown for each length by division
with remainder.

The argument for the audio programs. `HalInv` ties what has been reached to the
size that was allocated, at each step of the two HAL programs. For the callbacks:
`MediaFollowsStep` says between which steps `start()` and `stop()` have returned,
`CallbackIsInTime` that a callback lies between them or was under way at `stop()`,
`SourceIsHeld` that the source is there for as long.

The argument for the seccomp harness. `ListInv`: the tests registered so far are an
interval of the file, linked in the order of the file, and, where they are appended,
`prev` of the first is the last. With all of them registered, `next` is the
successor, so that the number of tests run is the place in the file. For the verdict
four facts go through every step of main thread and tracer: a main thread under an
event is in a system call (`StoppedInACall`), so that no other step is skipped; what
a living child has missed was an EXPECT (`OnlyNoted`); the tracer is there from its
start and gone behind `waitpid`, with its result in the child's (`TracerFollows`);
hence an exit code that counts is earned (`ExitIsEarned`), by way of `_exit(t->passed)`
or of the `exit` behind nothing but ASSERTs. `PassIsEarned` therefore does not say that
a passed test has a tracer without complaint: one that has aborted is its exception,
as it is the code's (section 5).

Its `TypeOK` bounds what nothing in the code tests: `sem`, `num_waits` and the place of
the main thread. `sem` is bounded by the siblings that have posted (`SiblingsInv`), each
of them once because it leaves `new` for good. `num_waits` is raised by a broadcast that
asks for more: a sibling has more than one wait only when that step is behind the main
thread (`AskedForMore`), where it does not come again; and a sibling that is started is
one that never was (`Started`), so that no record of a running one is overwritten. A
sibling that waits has a wait to count down. The main thread does not go beyond its
`_exit` because that call ends it: every filter in every chain lets it in or kills
(`TaskRecord`), hence so does the one that decides, which is the lowest in rank and the
last of that rank, and strict mode kills (`EndInv`, `DecidedToLeave`).

Only model-checked:

- everything under fairness (`FallsBackToGoodKernel`, `EndlessSessionFailsMarks`,
  `EveryCallReturns`, `ProgramsEnd`, `SuiteEnds`), because liveness is out of the
  prover's reach;
- `SuitePasses` and `SuiteDetects`, facts about these 47 tests, and `UnitTestsPass`,
  about these unit tests: each is what a fixed input computes, and TLC settles it by
  running it. A proof would repeat the run, and hold for no other test.

## 5. Where code and documents disagree

Five of these have a run of their own, named below. Each of the others is a property
that stands in its module with the words it comes from, and that TLC shows to be
violated when it is added to the configuration named.

1. `bub_ab_mark_as_invalid` returns what the write function returns, 1 for done
   and 0 for not done, where `bub_ab_flow.h:109` promises "0 on success. 1 on
   failure." `efi_main` believes the header: having marked a slot it stops
   with "Could not mark slot invalid." (`boot_loader_mark`), so the fallback
   takes a power cycle. The unit test does not notice, because it believes the code:
   `bub_ab_flow_unittest.cc:421` is EXPECT_TRUE of the value of a mark that works.
2. For the same reason a write that failed is taken for done: a slot that cannot be
   marked does not stop the loader, as `bub_main.c:59-60` means it to, but sends it
   round its loop, for ever if the slot is confirmed and the disk goes on refusing
   (`SessionEnds`, `BootLoader.cfg`). It is the only thing that does so
   (`EndlessSessionFailsMarks`, which holds).
3. An offset beyond the end of a partition makes `partition_size - offset` wrap,
   and the access is let through, where `bub_ops.h:62-66` and `83-87` promise
   `RANGE_OUTSIDE_PARTITION` (`partition_io_past_end`). No caller in the
   repository passes a constant offset of that kind; `bub_boot_kernel` passes
   `page_size`, which it has compared with a bound that is itself wrong in a
   partition shorter than a header (8).
4. A lookup that fails, for want of memory or because the disk cannot be read, is
   reported as `NO_SUCH_PARTITION` (`bub_ops_uefi.c:40-41`, `96-97`), which
   `bub_ops.h:33-34` keeps for a partition that does not exist; an I/O error has a
   code of its own (`TellsMissingFromFailed`, `PartitionIo.cfg`).
5. `IMG_SIZE` leaves out the last block of a partition. What `bub_ops.h:58-60` and
   `70-72` say of its end, for negative offsets and for reads that run over it,
   holds of an end one block too early (`partition_io_last_block`). A kernel or a
   record written by something that uses the whole partition may not be seen whole.
6. The second allocation of the lookup is tested through the wrong variable, and
   its failure ends in a store through NULL (`AllocationFailureIsReported`,
   `PartitionIo.cfg`).
7. A kernel whose end lies outside its partition passes the size checks, which
   look at `kernel_size` and `page_size` one at a time, and is loaded as far as it
   goes (`boot_kernel_truncated`).
8. "Checks on buffer overflow." (`bub_boot_kernel.c:590`): in a partition shorter
   than a header `IMG_SIZE - sizeof(boot_img_hdr)` wraps, every `page_size` passes,
   and the kernel may be read from behind the partition (`ReadsInsideThePartition`,
   `BootKernel.cfg`).
9. "Caller is responsible for freeing |next|" (`bub_boot_kernel.c:120-121`): the
   caller lets LocateDevicePath store over its only pointer and frees what it finds
   there, and never frees `disk_path` when the disk is found (`PathsAreGivenBack`,
   `DiskDiscovery.cfg`).
10. "Need exactly 6 ab_metadata attribute values." (`make_misc_image.cc:38`): nothing
    looks behind the sixth, and a list with a seventh is taken (`TakesExactlySix`,
    `HostTools.cfg`).
11. That all bytes of an image have been written is an EXPECT_EQ
    (`bub_image_util.cc:168-171`) that nobody looks at outside a test, so that
    `make_misc_image` returns the 1 of success with an older file, or none, in place
    (`WritesTheImage`, `HostTools.cfg`).
12. "Allow external shutdown.", "Run until we're shut down." (`seccomp_bpf.c:1005`,
    `1029`): SIGUSR1 that arrives between the test of `tracer_running` and the
    `wait` is lost, the tracer waits for the tracee, and the tracee in `waitpid` for
    the tracer (`tracer_shutdown`).
13. "Extract the exit code from the other process and adopt it for ourselves in case
    its asserts failed." (`seccomp_bpf.c:1087-1088`): an ASSERT that fails aborts
    the tracer, the exit code of which is then 0, and the test is counted as passed
    (`AssertsAreAdopted`, `SeccompTests.cfg`).

Met while modelling, and built into the properties as the exceptions they name:

- `GenerateData` does not release the buffer between two reads of a source that has
  one: with a HAL buffer larger than `kBufferSize` it waits for itself.
- `PlayFile` allocates as many shorts as it reads frames: too few for two channels.
- `InitFile` does not test `sf_open`; without a file the callbacks use the sine
  buffer, which was never set. The HAL playback test returns 0 whatever
  `PlayFile` and `PlaySineWave` returned, and takes 24-bit files for 16-bit ones,
  since it tests a bit of what is a number.
- The record test looks at its 30 seconds only after an error.
- `make_misc_image` exits with 1 for success and 0 for failure, against the custom of
  a shell; the usage says `--abmetadata`, the parser `ab_metadata`.
- `Utf8toUcs2` converts six bytes of the three of "AB", and compares the first unit
  only; `MissingOutput` passes an argc that hides what it means to pass.
- The first EXPECTs of a test that is to end by a signal are lost with it;
  `mode_strict_cannot_call_prctl` cannot fail,
  because its own `_exit` is killed; a kill and a trap end a test alike. These, and
  the tracer that aborts, are the flaws `SuiteDetects` excepts.
- A disk of one node with a device behind it is passed over by `getDiskBlockIo`,
  and one with blocks of 4096 bytes is not read, since 512 bytes are asked for.

## 6. Not modelled, and next

- Build files, kernel configurations, SELinux policy, emulator products, documents:
  there is no behaviour to check. Scripts that make one pass over their input are
  left to tests.
- `sensor/`: each function passes its arguments to `libsensor` and keeps nothing;
  what a queue holds is the library's. That `hasEvents` returns -1 when nothing is
  pending is a fact about one expression.
- `wifi_driver_hal/`: one straight line, whose failures all end it.
- `brillo.rc` and the `init.*` scripts: lists of commands and declarations; when a
  trigger fires, and how often, is decided by Android's init.
- `global.syscall_restart` of `seccomp_bpf.c` (2035-2201): a lock-step exchange of
  ptrace stops around the kernel's restart of a `poll`; a model of it would be
  a model of the kernel. `malloc` in fixtures is taken not to fail.
- `BootKernel`: the copy of the command line, and the buffers that are never freed.
- The bits of CRC-32, the samples of a sine, printing and logging.

Abstractions to keep in mind when reading the results: the firmware's `DiskIo`
is taken to have written what it reports written (the code never flushes, so a
write cache can undo the decrement on a power cut); a read of a boot image is
right or fails, unlike a read of the record; a disk has no more entries than
`all_gpt_entries` holds (`bub_boot_kernel.c:458` does not check
`entry_count`, and counts in a `UINT8`); `bub_abort` stops, although
`BS->Exit` may return.
