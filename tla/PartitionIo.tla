------------------------------ MODULE PartitionIo ------------------------------
(***************************************************************************)
(* bub_read_from_partition and bub_write_to_partition of bub_ops_uefi.c:   *)
(* the lookup of the partition, the arithmetic that turns an offset into a *)
(* place on the disk, in the unsigned integers C makes of it, and the      *)
(* transfer.  A buffer to write is one byte repeated.                      *)
(***************************************************************************)
EXTENDS GptLookup

CONSTANTS
  BlockSize,       \* Media->BlockSize
  DiskBlocks,      \* how many there are
  Width,           \* 2^64 in the code: the values of UINT64
  Values,          \* of a byte
  Offsets,         \* offset_from_partition, an int64_t
  Lengths,         \* num_bytes
  OffsetsPastEnd,  \* FALSE: callers ask for nothing that starts past the end
  None

DiskBytes == DiskBlocks * BlockSize

ASSUME DiskAssumption ==
  /\ BlockSize \in Nat \ {0} /\ DiskBlocks \in Nat
  /\ Width \in Nat /\ 2 * DiskBytes < Width
  /\ \A o \in Offsets : o \in Int /\ -Width < 2 * o /\ 2 * o < Width
  /\ Lengths \subseteq 0..(Width - 1)
  /\ OffsetsPastEnd \in BOOLEAN
  /\ \A t \in Tables : \A k \in DOMAIN t :
       t[k].first_lba <= t[k].last_lba /\ t[k].last_lba < DiskBlocks

\* Entries of a table do not overlap: the UEFI specification asks it of a disk, and
\* nothing in the code checks it.
ASSUME LayoutAssumption ==
  \A t \in Tables : \A m, n \in DOMAIN t :
    m < n => t[m].last_lba < t[n].first_lba \/ t[n].last_lba < t[m].first_lba

VARIABLES
  disk,     \* its bytes, counted from 0
  request,  \* the arguments of the call under way
  reply     \* what the last one returned: a BubIOResult and the bytes read

ioVars == <<disk, request, reply>>
vars == <<lookupVars, ioVars>>

--------------------------------------------------------------------------------
IMG_SIZE(e) == ((e.last_lba - e.first_lba) * BlockSize) % Width

IOResult == {"OK", "NO_SUCH_PARTITION", "RANGE_OUTSIDE_PARTITION", "IO"}

Requests ==
  [op : {"read"}, name : Names, offset : Offsets, num : Lengths]
    \cup [op : {"write"}, name : Names, offset : Offsets, num : Lengths, byte : Values]

ASSUME NoneAssumption == None \notin Requests

TypeOK ==
  /\ LookupTypeOK
  /\ disk \in [0..(DiskBytes - 1) -> Values]
  /\ request \in Requests \cup {None}
  /\ reply = None \/ reply.result \in IOResult

Init ==
  /\ LookupInit
  /\ \E v \in Values : disk = [b \in 0..(DiskBytes - 1) |-> v]
  /\ request = None
  /\ reply = None

\* Whether an offset is past the end of the partition that a name stands for.
PastEnd(r) ==
  \E n \in DOMAIN table : table[n].name = r.name /\ r.offset > IMG_SIZE(table[n])

Call ==
  /\ request' \in Requests
  /\ OffsetsPastEnd \/ ~PastEnd(request')
  /\ LookupBegins(request'.name)
  /\ reply' = None
  /\ UNCHANGED disk

Found == step = "returned" /\ status = "SUCCESS"
partition_size == IMG_SIZE(entry_buf)

\* offset_from_partition, negative, is compared with the size as a UINT64.
BeforeStart == request.offset < 0 /\ (-request.offset) % Width > partition_size

offset == IF request.offset < 0 THEN partition_size - (-request.offset) ELSE request.offset

room == (partition_size - offset) % Width

\* Slip: the comparison lets a write run one byte over.
CanWriteOneMore == request.num <= room + 1
CanWrite == request.num <= room

num_read == IF request.num > room THEN room ELSE request.num

\* Slip: the offset is counted from the beginning of the disk.
disk_offset_alone == offset % Width
disk_offset == (entry_buf.first_lba * BlockSize + offset) % Width

\* The device refuses what it does not have.
Transferable(n) == disk_offset + n <= DiskBytes

Finishes(result, data) ==
  /\ Freed({"entry"})
  /\ step' = "idle"
  /\ reply' = [result |-> result, data |-> data]
  /\ request' = None
  /\ entry_buf' = Unset
  /\ UNCHANGED <<table, wanted, i, status>>

NoSuchPartition ==
  /\ step = "returned" /\ status = "NOT_FOUND"
  /\ step' = "idle"
  /\ reply' = [result |-> "NO_SUCH_PARTITION", data |-> << >>]
  /\ request' = None
  /\ entry_buf' = Unset
  /\ UNCHANGED <<table, wanted, heap, i, status, failed, disk>>

OutsideRange ==
  /\ Found
  /\ BeforeStart \/ (request.op = "write" /\ ~CanWrite)
  /\ Finishes("RANGE_OUTSIDE_PARTITION", << >>)
  /\ UNCHANGED <<disk, failed>>

ReadDisk ==
  /\ Found /\ request.op = "read"
  /\ ~BeforeStart
  /\ Transferable(num_read)
  /\ Finishes("OK", [k \in 0..(num_read - 1) |-> disk[disk_offset + k]])
  /\ UNCHANGED <<disk, failed>>

Overwritten(n) ==
  [b \in 0..(DiskBytes - 1) |->
     IF b \in disk_offset..(disk_offset + n - 1) THEN request.byte ELSE disk[b]]

WriteDisk ==
  /\ Found /\ request.op = "write"
  /\ ~BeforeStart /\ CanWrite
  /\ Transferable(request.num)
  /\ disk' = Overwritten(request.num)
  /\ Finishes("OK", << >>)
  /\ UNCHANGED failed

\* The device fails, or refuses; a write may have got part of the way.
TransferFails ==
  /\ Found
  /\ ~BeforeStart
  /\ \/ request.op = "read" /\ UNCHANGED disk
     \/ /\ request.op = "write" /\ CanWrite
        /\ \E n \in 0..request.num : Transferable(n) /\ disk' = Overwritten(n)
  /\ Finishes("IO", << >>)
  /\ failed' = TRUE

Next ==
  \/ Call
  \/ LookupStep /\ UNCHANGED ioVars
  \/ NoSuchPartition \/ OutsideRange \/ ReadDisk \/ WriteDisk \/ TransferFails

Spec == Init /\ [][Next]_vars

\* There is one thread, and the firmware runs it on.
FairSpec == Spec /\ WF_vars(Next)

--------------------------------------------------------------------------------
(* What must hold.                                                          *)

\* The bytes of a partition, to the last byte of its last block.
PartitionBytes(e) == (e.first_lba * BlockSize)..((e.last_lba + 1) * BlockSize - 1)

NamedOnly ==
  \A b \in 0..(DiskBytes - 1) :
    disk'[b] # disk[b] =>
      \E n \in Matches : b \in PartitionBytes(entry(n))

\* Whatever the offset, negative or not, no write reaches the partition table, a
\* neighbouring partition or a byte outside the one it names (bub_ops_uefi.c:99-125).
WritesStayInThePartition == [][NamedOnly]_vars

\* The call under way is one that callers make, for the name being looked up.
RequestIsLegal ==
  step # "idle" =>
    /\ request \in Requests
    /\ request.name = wanted
    /\ OffsetsPastEnd \/ ~PastEnd(request)

\* Every call returns, unless the lookup has stepped out of C.
EveryCallReturns == (step = "alloc_header") ~> (step \in {"idle", "wild"})

\* The bytes of an entry of the table, up to a size.
Bytes(n, size) == [k \in 0..(size - 1) |-> disk[table[n].first_lba * BlockSize + k]]

\* To the last byte of its last block; and as far as IMG_SIZE lets the functions go.
Partition(n) == Bytes(n, (table[n].last_lba - table[n].first_lba + 1) * BlockSize)
PartInReach(n) == Bytes(n, IMG_SIZE(table[n]))

FirstOf(p) ==
  CHOOSE n \in DOMAIN table :
    table[n].name = p /\ \A m \in DOMAIN table : table[m].name = p => n <= m

\* A name that utf8_to_ucs2 refuses is that of no partition.
PartitionNames == {table[n].name : n \in DOMAIN table} \ Unrepresentable

Contents == [p \in PartitionNames |-> Partition(FirstOf(p))]
InReach == [p \in PartitionNames |-> PartInReach(FirstOf(p))]

\* The contract, for callers that start nothing past the end, with the two
\* disagreements with bub_ops.h taken out: the partition ends a block too early
\* (ReachesLastBlock), and a lookup that fails is a partition that is not there
\* (TellsMissingFromFailed).  In all else the functions keep it: "If the operation
\* succeeds as requested BUB_IO_RESULT_OK is returned", RANGE_OUTSIDE_PARTITION "if the
\* requested |offset| is outside the partition", or the byterange for a write, offsets
\* counted from either end, a read cut short at the end and nowhere else
\* (bub_ops.h:57-93).
Store == INSTANCE PartitionStore WITH content <- InReach, FailureMeansMissing <- TRUE

KeepsContractInReach == Store!StoreSpec

\* "BUB_IO_RESULT_ERROR_NO_SUCH_PARTITION is returned if the requested partition does
\* not exist", BUB_IO_RESULT_ERROR_IO "if the underlying disk encountered an I/O
\* error" (bub_ops.h:33-41, 62-66): no failure on the way to an entry is answered as if
\* there were none.  It is: one status stands for all (bub_ops_uefi.c:40-41, 96-97).
Exact == INSTANCE PartitionStore WITH content <- InReach, FailureMeansMissing <- FALSE

TellsMissingFromFailed == Exact!StoreSpec

\* "The only time partial I/O may occur is if reading beyond the end of the partition",
\* and a negative offset counts "from the end of the partition" (bub_ops.h:57-60,
\* 70-72): the end is that of the last block, which is the partition's too.
\* For the code it is a block before that (IMG_SIZE, bub_boot_kernel.h:82).
Whole == INSTANCE PartitionStore WITH content <- Contents, FailureMeansMissing <- TRUE

ReachesLastBlock == Whole!StoreSpec

--------------------------------------------------------------------------------
(* The inductive invariant behind TypeOK and the contract.                 *)

\* Behind the conversion there is a name that could be converted.
NameIsConverted ==
  step \in {"read_table", "search"} \/ Found => wanted \notin Unrepresentable

IdleMeansNoRequest == step = "idle" => request = None

IoInv ==
  /\ LookupInv
  /\ TypeOK
  /\ RequestIsLegal
  /\ IdleMeansNoRequest
  /\ NameIsConverted
================================================================================
