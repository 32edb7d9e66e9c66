--------------------------- MODULE PartitionIoProofs ---------------------------
(* The lookup of a partition frees what it allocates and finds what is there,    *)
(* for every partition table that fits the buffer and every failure on the way;  *)
(* and partition I/O implements PartitionStore as far as IMG_SIZE reaches.      *)
EXTENDS PartitionIo, WellFoundedInduction, TLAPS

\* An entry the search looks at is an entry of the table.
LEMMA EntryOfTable ==
  ASSUME table \in Tables, NEW n \in 0..(entry_count - 1)
  PROVE  /\ entry(n) \in GPTEntry
         /\ entry(n) \notin {NULL, Blank, Unset}
<1>1. table \in Seq(GPTEntry)
  BY TableAssumption
<1>2. n + 1 \in 1..Len(table)
  BY <1>1 DEF entry_count
<1>3. entry(n) \in GPTEntry
  BY <1>1, <1>2 DEF entry
<1> QED BY <1>3, TableAssumption

\* The index never wraps: the table ends before UINT8 does.
LEMMA IndexGoesOn ==
  ASSUME table \in Tables, i \in Nat, i < entry_count
  PROVE  (i + 1) % IndexRange = i + 1 /\ i + 1 \in 0..(IndexRange - 1)
<1>1. Len(table) \in Nat /\ Len(table) <= MaxEntries
  BY TableAssumption
<1>2. i + 1 < IndexRange
  BY <1>1, TableAssumption DEF entry_count
<1>3. IndexRange \in Nat \ {0}
  BY <1>2, TableAssumption
<1> QED BY <1>2, <1>3

\* Nothing is held before the first call.
LEMMA InitLookupInv == LookupInit => LookupInv
<1> SUFFICES ASSUME LookupInit PROVE LookupInv
  OBVIOUS
<1>1. LookupTypeOK
  <2>1. EmptyHeap \in [Kinds -> Nat]
    BY DEF EmptyHeap
  <2>2. 0 \in 0..(IndexRange - 1)
    BY TableAssumption
  <2> QED BY <2>1, <2>2 DEF LookupInit, LookupTypeOK, Steps
<1>2. HeapFollowsStep
  BY DEF LookupInit, HeapFollowsStep, EmptyHeap, Kinds, AfterEntry
<1>3. EntryFollowsStep /\ SearchedInVain /\ FindsTheFirst
  BY DEF LookupInit, EntryFollowsStep, SearchedInVain, FindsTheFirst, AfterEntry
<1> QED BY <1>1, <1>2, <1>3 DEF LookupInv

\* An allocation adds to the heap, and is the only one of its kind there.
LEMMA AllocatedHeap ==
  ASSUME heap \in [Kinds -> Nat], NEW k \in Kinds, Allocated(k)
  PROVE  /\ heap' \in [Kinds -> Nat]
         /\ heap'[k] = heap[k] + 1
         /\ \A o \in Kinds : o # k => heap'[o] = heap[o]
BY DEF Allocated

\* Every early return and every step forward leaves on the heap what it should.
LEMMA LookupStepKeepsInv == LookupInv /\ LookupStep => LookupInv'
<1> SUFFICES ASSUME LookupInv, LookupStep PROVE LookupInv'
  OBVIOUS
<1> USE DEF LookupInv, LookupTypeOK, HeapFollowsStep, EntryFollowsStep, SearchedInVain,
            FindsTheFirst, Kinds, Steps, LookupSteps, AfterEntry, entry_count, entry, Matches
<1>1. CASE AllocHeader
  <2>1. CASE Allocated("header") /\ step' = "alloc_entry" /\ UNCHANGED <<status, failed>>
    BY <1>1, <2>1, AllocatedHeap DEF AllocHeader
  <2>2. CASE step' = "returned" /\ status' = "NOT_FOUND" /\ failed' = TRUE /\ UNCHANGED heap
    BY <1>1, <2>2 DEF AllocHeader
  <2> QED BY <1>1, <2>1, <2>2 DEF AllocHeader
<1>2. CASE AllocEntry
  <2>1. CASE Allocated("entry") /\ entry_buf' = Blank /\ UNCHANGED failed
    BY <1>2, <2>1, AllocatedHeap, TableAssumption DEF AllocEntry
  <2>2. CASE entry_buf' = NULL /\ failed' = TRUE /\ UNCHANGED heap
    BY <1>2, <2>2 DEF AllocEntry
  <2> QED BY <1>2, <2>1, <2>2 DEF AllocEntry
<1>3. CASE ReadHeader
  <2>1. CASE step' = "alloc_name" /\ UNCHANGED <<heap, entry_buf, status, failed>>
    BY <1>3, <2>1 DEF ReadHeader
  <2>2. CASE GivesUp({"header", "entry"}) /\ failed' = TRUE
    BY <1>3, <2>2 DEF ReadHeader, GivesUp, Freed
  <2> QED BY <1>3, <2>1, <2>2 DEF ReadHeader
<1>4. CASE AllocName
  <2>1. CASE Allocated("name") /\ step' = "convert" /\ UNCHANGED <<entry_buf, status, failed>>
    BY <1>4, <2>1, AllocatedHeap DEF AllocName
  <2>2. CASE GivesUp({"header", "entry"}) /\ failed' = TRUE
    BY <1>4, <2>2 DEF AllocName, GivesUp, Freed
  <2> QED BY <1>4, <2>1, <2>2 DEF AllocName
<1>5. CASE Convert
  BY <1>5 DEF Convert, GivesUp, Freed
<1>6. CASE ReadTable
  <2>1. CASE step' = "search" /\ i' = 0 /\ UNCHANGED <<heap, entry_buf, status, failed>>
    BY <1>6, <2>1, TableAssumption DEF ReadTable
  <2>2. CASE GivesUp({"header", "name", "entry"}) /\ failed' = TRUE /\ UNCHANGED i
    BY <1>6, <2>2 DEF ReadTable, GivesUp, Freed
  <2> QED BY <1>6, <2>1, <2>2 DEF ReadTable
<1>7. CASE SearchMatches
  BY <1>7, EntryOfTable DEF SearchMatches, Freed
<1>8. CASE SearchGoesOn
  BY <1>8, IndexGoesOn DEF SearchGoesOn
<1>9. CASE SearchEnds
  BY <1>9 DEF SearchEnds, GivesUp, Freed
<1> QED
  BY <1>1, <1>2, <1>3, <1>4, <1>5, <1>6, <1>7, <1>8, <1>9 DEF LookupStep

\* What bub_read_from_partition and bub_write_to_partition add keeps it too: they
\* take the entry over, and free it whatever they answer.
LEMMA IoStepKeepsInv ==
  LookupInv /\ (NoSuchPartition \/ OutsideRange \/ ReadDisk \/ WriteDisk \/ TransferFails)
    => LookupInv'
<1> SUFFICES ASSUME LookupInv,
                    NoSuchPartition \/ OutsideRange \/ ReadDisk \/ WriteDisk \/ TransferFails
             PROVE  LookupInv'
  OBVIOUS
<1>1. /\ step = "returned" /\ step' = "idle"
      /\ UNCHANGED <<table, wanted, i, status>>
      /\ entry_buf' = Unset
      /\ failed' \in BOOLEAN
      /\ IF status = "SUCCESS" THEN Freed({"entry"}) ELSE UNCHANGED heap
  BY DEF NoSuchPartition, OutsideRange, ReadDisk, WriteDisk, TransferFails, Found, Finishes,
         LookupInv, LookupTypeOK
<1>2. status = "SUCCESS" => entry_buf # NULL
  BY <1>1, EntryOfTable DEF LookupInv, FindsTheFirst, Matches, entry_count, LookupTypeOK
<1>3. heap' \in [Kinds -> Nat] /\ \A k \in Kinds : heap'[k] = 0
  BY <1>1, <1>2 DEF LookupInv, LookupTypeOK, HeapFollowsStep, Freed, Kinds, AfterEntry
<1>4. LookupTypeOK' /\ HeapFollowsStep'
  BY <1>1, <1>3 DEF LookupInv, LookupTypeOK, HeapFollowsStep, Kinds, Steps, AfterEntry
<1>5. EntryFollowsStep' /\ SearchedInVain' /\ FindsTheFirst'
  BY <1>1 DEF EntryFollowsStep, SearchedInVain, FindsTheFirst, AfterEntry
<1> QED BY <1>4, <1>5 DEF LookupInv

\* A call starts with nothing held.
LEMMA CallKeepsInv == LookupInv /\ Call => LookupInv'
<1> SUFFICES ASSUME LookupInv, Call PROVE LookupInv'
  OBVIOUS
<1>1. request'.name \in Names
  BY DEF Call, Requests
<1> QED
  BY <1>1 DEF Call, LookupBegins, LookupInv, LookupTypeOK, HeapFollowsStep, EntryFollowsStep,
              SearchedInVain, FindsTheFirst, Steps, LookupSteps, AfterEntry

\* The lookup's invariant holds throughout: with it, no path leaks.
THEOREM LookupInvariance == Spec => []LookupInv
<1>1. Init => LookupInv
  BY InitLookupInv DEF Init
<1>2. LookupInv /\ [Next]_vars => LookupInv'
  <2> SUFFICES ASSUME LookupInv, [Next]_vars PROVE LookupInv'
    OBVIOUS
  <2>1. CASE UNCHANGED vars
    BY <2>1 DEF vars, lookupVars, LookupInv, LookupTypeOK, HeapFollowsStep, EntryFollowsStep,
                SearchedInVain, FindsTheFirst, entry_count, entry, Matches
  <2>2. CASE Call
    BY <2>2, CallKeepsInv
  <2>3. CASE LookupStep
    BY <2>3, LookupStepKeepsInv
  <2> QED BY <2>1, <2>2, <2>3, IoStepKeepsInv DEF Next
<1> QED BY <1>1, <1>2, PTL DEF Spec

\* Whichever way a lookup returns, what it allocated is freed, but for the entry it
\* hands to its caller, and the callers free that (bub_boot_kernel.h:140-141).
THEOREM NeverLeaks == Spec => []NothingLeaks
<1>1. LookupInv => NothingLeaks
  BY DEF LookupInv, HeapFollowsStep, NothingLeaks, AfterEntry
<1> QED BY <1>1, LookupInvariance, PTL

\* The answer is the first entry of that name; there is none only for a reason.
THEOREM AlwaysFindsTheFirst == Spec => []FindsTheFirst
<1>1. LookupInv => FindsTheFirst
  BY DEF LookupInv
<1> QED BY <1>1, LookupInvariance, PTL

--------------------------------------------------------------------------------
\* Multiplication by the size of a block keeps the order.
LEMMA BlocksInOrder ==
  ASSUME NEW a \in Nat, NEW b \in Nat, NEW c \in Nat, a <= b
  PROVE  /\ a * c \in Nat /\ b * c \in Nat
         /\ a * c <= b * c
         /\ (b - a) * c = b * c - a * c
<1>1. (b - a) * c \in Nat /\ (b - a) * c = b * c - a * c
  OBVIOUS
<1> QED BY <1>1

\* What is below the modulus is its own remainder.
LEMMA NoWrap ==
  ASSUME NEW a \in Nat, NEW w \in Nat, a < w
  PROVE  a % w = a
OBVIOUS

\* Nothing wraps for an entry of a table that fits the disk.
LEMMA EntryOnDisk ==
  ASSUME table \in Tables, NEW n \in 0..(entry_count - 1)
  PROVE  LET e == entry(n) IN
         /\ e.first_lba * BlockSize \in Nat
         /\ e.last_lba * BlockSize \in Nat
         /\ e.first_lba * BlockSize <= e.last_lba * BlockSize
         /\ e.last_lba * BlockSize + BlockSize <= DiskBytes
         /\ IMG_SIZE(e) = e.last_lba * BlockSize - e.first_lba * BlockSize
         /\ (e.last_lba + 1) * BlockSize = e.last_lba * BlockSize + BlockSize
<1> DEFINE e == entry(n)
<1>1. e \in GPTEntry
  BY EntryOfTable
<1>2. e.first_lba \in Nat /\ e.last_lba \in Nat
  BY <1>1 DEF GPTEntry
<1>3. e.first_lba <= e.last_lba /\ e.last_lba + 1 <= DiskBlocks
  <2>1. table \in Seq(GPTEntry)
    BY TableAssumption
  <2>2. n + 1 \in DOMAIN table
    BY <2>1 DEF entry_count
  <2>3. e.first_lba <= e.last_lba /\ e.last_lba < DiskBlocks
    BY <2>2, DiskAssumption DEF entry
  <2> QED BY <1>2, <2>3, DiskAssumption
<1> HIDE DEF e
<1>4. BlockSize \in Nat /\ DiskBlocks \in Nat /\ Width \in Nat /\ 2 * DiskBytes < Width
  BY DiskAssumption
<1>5. /\ e.first_lba * BlockSize \in Nat /\ e.last_lba * BlockSize \in Nat
      /\ e.first_lba * BlockSize <= e.last_lba * BlockSize
      /\ (e.last_lba - e.first_lba) * BlockSize
           = e.last_lba * BlockSize - e.first_lba * BlockSize
  BY <1>2, <1>3, <1>4, BlocksInOrder
<1>6. (e.last_lba + 1) * BlockSize = e.last_lba * BlockSize + BlockSize
  BY <1>2, <1>4
<1>7. (e.last_lba + 1) * BlockSize <= DiskBytes /\ DiskBytes \in Nat
  BY <1>2, <1>3, <1>4, BlocksInOrder DEF DiskBytes
<1>8. IMG_SIZE(e) = e.last_lba * BlockSize - e.first_lba * BlockSize
  <2> DEFINE size == (e.last_lba - e.first_lba) * BlockSize
  <2>1. size = e.last_lba * BlockSize - e.first_lba * BlockSize
    BY <1>5
  <2>2. size \in Nat /\ size < Width
    BY <1>4, <1>5, <1>6, <1>7, <2>1
  <2> HIDE DEF size
  <2>3. size % Width = size
    BY <2>2, <1>4, NoWrap
  <2> QED BY <2>1, <2>3 DEF IMG_SIZE, size
<1> QED BY <1>5, <1>6, <1>7, <1>8 DEF e

\* A legal call lies where it should: between the first byte of the entry and its
\* last block, which IMG_SIZE leaves out.
LEMMA CallOnDisk ==
  ASSUME LookupInv, RequestIsLegal, OffsetsPastEnd = FALSE, Found, ~BeforeStart,
         NEW k \in Matches, entry_buf = entry(k)
  PROVE  LET first == entry_buf.first_lba * BlockSize
             last  == entry_buf.last_lba * BlockSize
         IN  /\ offset \in Nat
             /\ disk_offset = first + offset
             /\ room = last - first - offset
             /\ room \in Nat
<1> DEFINE first == entry_buf.first_lba * BlockSize
           last  == entry_buf.last_lba * BlockSize
           n     == partition_size
<1>1. table \in Tables /\ wanted \in Names /\ k \in 0..(entry_count - 1)
  BY DEF LookupInv, LookupTypeOK, Matches, entry_count
<1>2. /\ first \in Nat /\ last \in Nat /\ first <= last
      /\ last + BlockSize <= DiskBytes /\ n = last - first
  BY <1>1, EntryOnDisk DEF partition_size
<1>3. BlockSize \in Nat /\ Width \in Nat /\ DiskBytes \in Nat /\ 2 * DiskBytes < Width
  BY DiskAssumption DEF DiskBytes
<1>4. request \in Requests /\ request.name = wanted /\ ~PastEnd(request)
  BY DEF RequestIsLegal, Found
<1>5. request.offset \in Int /\ -Width < 2 * request.offset /\ 2 * request.offset < Width
  <2>1. request.offset \in Offsets
    BY <1>4 DEF Requests
  <2> QED BY <2>1, DiskAssumption
<1>6. request.offset <= n
  <2>1. k + 1 \in DOMAIN table
    BY <1>1, TableAssumption DEF entry_count
  <2>2. table[k + 1].name = request.name /\ n = IMG_SIZE(table[k + 1])
    BY <1>4 DEF Matches, entry, partition_size
  <2>3. ~(request.offset > IMG_SIZE(table[k + 1]))
    BY <1>4, <2>1, <2>2 DEF PastEnd
  <2> HIDE DEF n
  <2>4. ~(request.offset > n)
    BY <2>2, <2>3
  <2> QED BY <2>4, <1>2, <1>5 DEF n
<1> HIDE DEF first, last, n
<1>7. offset \in 0..n
  <2>1. CASE request.offset < 0
    <3>1. (-request.offset) % Width = -request.offset
      BY <2>1, <1>3, <1>5, NoWrap
    <3>2. -request.offset <= n
      BY <2>1, <3>1, <1>2, <1>5 DEF BeforeStart, n
    <3> QED BY <2>1, <3>1, <3>2, <1>2, <1>5 DEF offset, n
  <2>2. CASE ~(request.offset < 0)
    BY <2>2, <1>2, <1>5, <1>6 DEF offset
  <2> QED BY <2>1, <2>2
<1>8. room = n - offset
  <2>1. n - offset \in Nat /\ n - offset < Width
    BY <1>2, <1>3, <1>7
  <2>2. (n - offset) % Width = n - offset
    BY <2>1, <1>3, NoWrap
  <2> QED BY <2>2 DEF room, n
<1>9. disk_offset = first + offset
  <2>1. first + offset \in Nat /\ first + offset < Width
    BY <1>2, <1>3, <1>7
  <2>2. (first + offset) % Width = first + offset
    BY <2>1, <1>3, NoWrap
  <2> QED BY <2>2 DEF disk_offset, first
<1> QED BY <1>2, <1>7, <1>8, <1>9 DEF first, last

\* A request asks for a number of bytes.
LEMMA NumIsNatural ==
  ASSUME NEW r \in Requests
  PROVE  r.num \in Nat
<1>1. r.num \in Lengths
  <2>1. CASE r \in [op : {"read"}, name : Names, offset : Offsets, num : Lengths]
    BY <2>1
  <2>2. CASE r \in [op : {"write"}, name : Names, offset : Offsets, num : Lengths,
                    byte : Values]
    BY <2>2
  <2> QED BY <2>1, <2>2 DEF Requests
<1>2. \A l \in Lengths : l \in Nat
  <2>1. Lengths \subseteq 0..(Width - 1) /\ Width \in Nat
    BY DiskAssumption
  <2>2. ASSUME NEW l \in 0..(Width - 1) PROVE l \in Nat
    BY <2>1
  <2> QED BY <2>1, <2>2
<1> QED BY <1>1, <1>2

\* A write that was let through, or any beginning of it, stays in the entry.
LEMMA WriteInside ==
  ASSUME LookupInv, RequestIsLegal, OffsetsPastEnd = FALSE, Found, ~BeforeStart,
         request.op = "write", CanWrite,
         NEW n \in Nat, n <= request.num, disk' = Overwritten(n)
  PROVE  NamedOnly
<1>1. PICK k \in Matches : entry_buf = entry(k)
  BY DEF LookupInv, FindsTheFirst, Found
<1> DEFINE first == entry_buf.first_lba * BlockSize
           last  == entry_buf.last_lba * BlockSize
<1>2. /\ offset \in Nat /\ disk_offset = first + offset
      /\ room = last - first - offset /\ room \in Nat
  BY <1>1, CallOnDisk
<1>3. table \in Tables /\ k \in 0..(entry_count - 1)
  BY DEF LookupInv, LookupTypeOK, Matches, entry_count
<1>4. /\ first \in Nat /\ last \in Nat
      /\ (entry_buf.last_lba + 1) * BlockSize = last + BlockSize
  BY <1>1, <1>3, EntryOnDisk
<1>5. request.num \in Nat
  BY NumIsNatural DEF RequestIsLegal, Found
<1>6. n <= room
  BY <1>2, <1>5 DEF CanWrite
<1>7. ASSUME NEW b \in 0..(DiskBytes - 1), disk'[b] # disk[b]
      PROVE  b \in PartitionBytes(entry(k))
  <2>1. b \in disk_offset..(disk_offset + n - 1)
    BY <1>7 DEF Overwritten
  <2>2. DiskBytes \in Nat /\ BlockSize \in Nat /\ b \in Int
    BY DiskAssumption DEF DiskBytes
  <2>3. PartitionBytes(entry_buf) = first..((entry_buf.last_lba + 1) * BlockSize - 1)
    BY DEF PartitionBytes
  <2> HIDE DEF first, last
  <2>4. first <= b /\ b <= last + BlockSize - 1
    BY <2>1, <2>2, <1>2, <1>4, <1>6
  <2> QED BY <2>2, <2>3, <2>4, <1>1, <1>4
<1> QED BY <1>7 DEF NamedOnly

\* Only a call brings a request, and it keeps it until it returns.
LEMMA LegalKept ==
  ASSUME RequestIsLegal, [Next]_vars
  PROVE  RequestIsLegal'
<1> USE DEF RequestIsLegal
<1>1. CASE UNCHANGED vars
  BY <1>1 DEF vars, lookupVars, ioVars, PastEnd, IMG_SIZE
<1>2. CASE Call
  BY <1>2 DEF Call, LookupBegins, PastEnd, IMG_SIZE
<1>3. CASE LookupStep /\ UNCHANGED ioVars
  <2>1. step # "idle" /\ UNCHANGED <<wanted, request, table>>
    BY <1>3 DEF LookupStep, AllocHeader, AllocEntry, ReadHeader, AllocName, Convert,
         ReadTable, SearchMatches, SearchGoesOn, SearchEnds, ioVars
  <2> QED BY <2>1 DEF PastEnd, IMG_SIZE
<1>4. CASE NoSuchPartition \/ OutsideRange \/ ReadDisk \/ WriteDisk \/ TransferFails
  BY <1>4 DEF NoSuchPartition, OutsideRange, ReadDisk, WriteDisk, TransferFails, Finishes
<1> QED BY <1>1, <1>2, <1>3, <1>4 DEF Next

\* As long as no caller asks for what starts past the end of a partition, no write
\* leaves the partition it names: the table, the neighbours, the rest are safe.
THEOREM WritesAreConfined == OffsetsPastEnd = FALSE => (Spec => WritesStayInThePartition)
<1> SUFFICES ASSUME OffsetsPastEnd = FALSE PROVE Spec => WritesStayInThePartition
  OBVIOUS
<1>1. Init => RequestIsLegal
  BY DEF Init, LookupInit, RequestIsLegal
<1>2. RequestIsLegal /\ [Next]_vars => RequestIsLegal'
  BY LegalKept
<1>3. LookupInv /\ RequestIsLegal /\ [Next]_vars => [NamedOnly]_vars
  <2> SUFFICES ASSUME LookupInv, RequestIsLegal, Next PROVE NamedOnly
    OBVIOUS
  <2>1. CASE UNCHANGED disk
    BY <2>1 DEF NamedOnly
  <2>2. CASE WriteDisk
    <3>1. request.num \in Nat
      BY <2>2, NumIsNatural DEF WriteDisk, Found, RequestIsLegal
    <3>2. /\ Found /\ ~BeforeStart /\ request.op = "write" /\ CanWrite
          /\ disk' = Overwritten(request.num)
      BY <2>2 DEF WriteDisk
    <3>3. request.num <= request.num
      BY <3>1
    <3> QED BY <3>1, <3>2, <3>3, WriteInside
  <2>3. CASE TransferFails /\ request.op = "write" /\ CanWrite
    <3>1. PICK n \in 0..request.num : disk' = Overwritten(n)
      BY <2>3 DEF TransferFails
    <3>2. Found /\ ~BeforeStart
      BY <2>3 DEF TransferFails
    <3>3. request.num \in Nat
      BY <3>2, NumIsNatural DEF Found, RequestIsLegal
    <3>4. n \in Nat /\ n <= request.num
      BY <3>3
    <3> QED BY <2>3, <3>1, <3>2, <3>4, WriteInside
  <2> QED BY <2>1, <2>2, <2>3
        DEF Next, Call, ioVars, NoSuchPartition, OutsideRange, ReadDisk, TransferFails
<1> QED BY <1>1, <1>2, <1>3, LookupInvariance, PTL DEF Spec, WritesStayInThePartition

--------------------------------------------------------------------------------
\* The fields of a request.
LEMMA RequestFields ==
  ASSUME NEW r \in Requests
  PROVE  /\ r.op \in {"read", "write"}
         /\ r.name \in Names
         /\ r.offset \in Offsets
         /\ r.op = "write" => r.byte \in Values
<1>1. CASE r \in [op : {"read"}, name : Names, offset : Offsets, num : Lengths]
  BY <1>1
<1>2. CASE r \in [op : {"write"}, name : Names, offset : Offsets, num : Lengths, byte : Values]
  BY <1>2
<1> QED BY <1>1, <1>2 DEF Requests

\* A write, whole or not, leaves a disk of bytes.
LEMMA OverwrittenType ==
  ASSUME disk \in [0..(DiskBytes - 1) -> Values], request \in Requests,
         request.op = "write", NEW n \in Int
  PROVE  Overwritten(n) \in [0..(DiskBytes - 1) -> Values]
<1>1. request.byte \in Values
  BY RequestFields
<1> QED BY <1>1 DEF Overwritten

\* The lookup ends with a name it has converted.
LEMMA ConvertedKept == NameIsConverted /\ [Next]_vars => NameIsConverted'
<1> SUFFICES ASSUME NameIsConverted, [Next]_vars PROVE NameIsConverted'
  OBVIOUS
<1> USE DEF NameIsConverted, Found
<1>1. CASE UNCHANGED vars
  BY <1>1 DEF vars, lookupVars
<1>2. CASE Call
  BY <1>2 DEF Call, LookupBegins
<1>3. CASE LookupStep
  BY <1>3 DEF LookupStep, AllocHeader, AllocEntry, ReadHeader, AllocName, Convert, ReadTable,
              SearchMatches, SearchGoesOn, SearchEnds, GivesUp
<1>4. CASE NoSuchPartition \/ OutsideRange \/ ReadDisk \/ WriteDisk \/ TransferFails
  BY <1>4 DEF NoSuchPartition, OutsideRange, ReadDisk, WriteDisk, TransferFails, Finishes
<1> QED BY <1>1, <1>2, <1>3, <1>4 DEF Next

\* Only a step of the call itself ends the request.
LEMMA IdleKept == IdleMeansNoRequest /\ [Next]_vars => IdleMeansNoRequest'
<1> SUFFICES ASSUME IdleMeansNoRequest, [Next]_vars PROVE IdleMeansNoRequest'
  OBVIOUS
<1> USE DEF IdleMeansNoRequest
<1>1. CASE UNCHANGED vars
  BY <1>1 DEF vars, lookupVars, ioVars
<1>2. CASE Call
  BY <1>2 DEF Call, LookupBegins
<1>3. CASE LookupStep
  BY <1>3 DEF LookupStep, AllocHeader, AllocEntry, ReadHeader, AllocName, Convert, ReadTable,
              SearchMatches, SearchGoesOn, SearchEnds, GivesUp
<1>4. CASE NoSuchPartition \/ OutsideRange \/ ReadDisk \/ WriteDisk \/ TransferFails
  BY <1>4 DEF NoSuchPartition, OutsideRange, ReadDisk, WriteDisk, TransferFails, Finishes
<1> QED BY <1>1, <1>2, <1>3, <1>4 DEF Next

\* Disk, request and reply keep their types.
LEMMA TypesKept == TypeOK /\ LookupTypeOK' /\ RequestIsLegal /\ [Next]_vars => TypeOK'
<1> SUFFICES ASSUME TypeOK, LookupTypeOK', RequestIsLegal, [Next]_vars PROVE TypeOK'
  OBVIOUS
<1>1. CASE UNCHANGED ioVars
  BY <1>1 DEF ioVars, TypeOK
<1>2. CASE Call
  BY <1>2 DEF Call, TypeOK
<1>3. CASE NoSuchPartition \/ OutsideRange \/ ReadDisk
  BY <1>3 DEF NoSuchPartition, OutsideRange, ReadDisk, Finishes, TypeOK, IOResult
<1>4. CASE WriteDisk
  <2>1. request \in Requests /\ request.op = "write"
    BY <1>4 DEF WriteDisk, Found, RequestIsLegal
  <2>2. request.num \in Int
    BY <2>1, NumIsNatural
  <2>3. disk' \in [0..(DiskBytes - 1) -> Values]
    BY <1>4, <2>1, <2>2, OverwrittenType DEF WriteDisk, TypeOK
  <2> QED BY <1>4, <2>3 DEF WriteDisk, Finishes, TypeOK, IOResult
<1>5. CASE TransferFails
  <2>1. CASE UNCHANGED disk
    BY <1>5, <2>1 DEF TransferFails, Finishes, TypeOK, IOResult
  <2>2. CASE request.op = "write" /\ \E n \in 0..request.num : disk' = Overwritten(n)
    <3>1. request \in Requests
      BY <1>5 DEF TransferFails, Found, RequestIsLegal
    <3>2. disk' \in [0..(DiskBytes - 1) -> Values]
      BY <2>2, <3>1, OverwrittenType DEF TypeOK
    <3> QED BY <1>5, <3>2 DEF TransferFails, Finishes, TypeOK, IOResult
  <2> QED BY <1>5, <2>1, <2>2 DEF TransferFails
<1> QED BY <1>1, <1>2, <1>3, <1>4, <1>5 DEF Next, vars

\* The state of a call agrees with how far it has come, whatever callers ask for.
THEOREM IoInvariance == Spec => []IoInv
<1>1. Init /\ LookupInv => IoInv
  <2> SUFFICES ASSUME Init, LookupInv PROVE IoInv
    OBVIOUS
  <2>1. TypeOK
    BY DEF Init, TypeOK, LookupInv
  <2> QED BY <2>1 DEF Init, LookupInit, IoInv, RequestIsLegal, IdleMeansNoRequest,
               NameIsConverted, Found
<1>2. IoInv /\ LookupInv' /\ [Next]_vars => IoInv'
  BY TypesKept, LegalKept, IdleKept, ConvertedKept DEF IoInv, LookupInv
<1> QED BY <1>1, <1>2, LookupInvariance, PTL DEF Spec

\* Every call answers with one of the results of bub_ops.h, and the disk stays a disk
\* of bytes, for offsets past the end too.
THEOREM IoTypeCorrect == Spec => []TypeOK
<1>1. IoInv => TypeOK
  BY DEF IoInv
<1> QED BY <1>1, IoInvariance, PTL

--------------------------------------------------------------------------------
(* The contract of bub_ops.h.                                               *)

\* A set of natural numbers has a least one.
LEMMA Least ==
  ASSUME NEW T \in SUBSET Nat, T # {}
  PROVE  \E x \in T : \A y \in T : x <= y
<1>1. PICK x \in T : \A y \in T : ~(<<y, x>> \in OpToRel(<, Nat))
  BY NatLessThanWellFounded, WFMin
<1>2. \A y \in T : ~(y < x)
  BY <1>1 DEF OpToRel
<1> QED BY <1>2

\* A name in the table has a first entry.
LEMMA FirstExists ==
  ASSUME table \in Tables, NEW p \in {table[n].name : n \in DOMAIN table}
  PROVE  /\ FirstOf(p) \in DOMAIN table
         /\ table[FirstOf(p)].name = p
<1> DEFINE T == {n \in DOMAIN table : table[n].name = p}
<1>1. DOMAIN table \subseteq Nat
  BY TableAssumption
<1>2. T \in SUBSET Nat /\ T # {}
  BY <1>1
<1>3. PICK n \in T : \A m \in T : n <= m
  BY <1>2, Least
<1>4. /\ n \in DOMAIN table
      /\ table[n].name = p /\ \A m \in DOMAIN table : table[m].name = p => n <= m
  BY <1>3
<1> QED BY <1>4 DEF FirstOf

\* The entry that a lookup has found is the first of its name.
LEMMA FoundIsFirst ==
  ASSUME table \in Tables, NEW k \in Matches, \A m \in Matches : k <= m
  PROVE  k + 1 \in DOMAIN table /\ FirstOf(wanted) = k + 1
<1>1. Len(table) \in Nat /\ DOMAIN table = 1..Len(table)
  BY TableAssumption
<1>2. k + 1 \in DOMAIN table /\ table[k + 1].name = wanted
  BY <1>1 DEF Matches, entry
<1>3. \A m \in DOMAIN table : table[m].name = wanted => k + 1 <= m
  <2> SUFFICES ASSUME NEW m \in DOMAIN table, table[m].name = wanted PROVE k + 1 <= m
    OBVIOUS
  <2>1. m - 1 \in 0..(Len(table) - 1) /\ (m - 1) + 1 = m
    BY <1>1
  <2>2. m - 1 \in Matches
    BY <2>1 DEF Matches, entry
  <2> QED BY <1>1, <2>1, <2>2 DEF Matches
<1>4. ASSUME NEW n \in DOMAIN table, table[n].name = wanted,
             \A m \in DOMAIN table : table[m].name = wanted => n <= m
      PROVE  n = k + 1
  <2>1. n <= k + 1 /\ k + 1 <= n
    BY <1>2, <1>3, <1>4
  <2> QED BY <1>1, <2>1 DEF Matches
<1> QED BY <1>2, <1>3, <1>4 DEF FirstOf

\* A call that has found its entry is one for a partition that the store has, and the
\* store has it with the bytes and the size that the code computes from the entry.
LEMMA FoundInStore ==
  ASSUME IoInv, Found
  PROVE  /\ Store!Exists(request)
         /\ Store!Size(request.name) = partition_size
         /\ partition_size \in Nat
         /\ InReach[request.name] = [b \in 0..(partition_size - 1) |->
                                       disk[entry_buf.first_lba * BlockSize + b]]
<1>1. PICK k \in Matches : entry_buf = entry(k) /\ \A m \in Matches : k <= m
  BY DEF IoInv, LookupInv, FindsTheFirst, Found
<1>2. table \in Tables /\ k \in 0..(entry_count - 1) /\ entry(k).name = wanted
  BY DEF IoInv, LookupInv, LookupTypeOK, Matches, entry_count
<1>3. k + 1 \in DOMAIN table /\ FirstOf(wanted) = k + 1 /\ table[k + 1] = entry_buf
  BY <1>1, <1>2, FoundIsFirst DEF entry
<1>4. request.name = wanted /\ wanted \notin Unrepresentable
  BY DEF IoInv, RequestIsLegal, NameIsConverted, Found
<1>5. wanted \in DOMAIN InReach
  BY <1>1, <1>2, <1>3, <1>4 DEF InReach, PartitionNames
<1>6. InReach[wanted] = PartInReach(k + 1)
  BY <1>3, <1>5 DEF InReach, PartitionNames
<1>7. InReach[wanted] = [b \in 0..(partition_size - 1) |->
                           disk[entry_buf.first_lba * BlockSize + b]]
  BY <1>3, <1>6 DEF PartInReach, Bytes, partition_size
<1>8. partition_size \in Nat
  BY <1>1, <1>2, EntryOnDisk DEF partition_size
<1>9. Store!Size(wanted) = partition_size
  <2>1. DOMAIN InReach[wanted] = 0..(partition_size - 1)
    BY <1>7
  <2>2. CASE partition_size = 0
    BY <2>1, <2>2 DEF Store!Size
  <2>3. CASE partition_size # 0
    <3> DEFINE last == CHOOSE b \in 0..(partition_size - 1) : \A m \in 0..(partition_size - 1) : m <= b
    <3>1. partition_size - 1 \in 0..(partition_size - 1)
      BY <1>8, <2>3
    <3>2. \A m \in 0..(partition_size - 1) : m <= partition_size - 1
      BY <1>8
    <3>3. last \in 0..(partition_size - 1) /\ \A m \in 0..(partition_size - 1) : m <= last
      BY <3>1, <3>2
    <3> HIDE DEF last
    <3>4. last = partition_size - 1
      BY <1>8, <3>1, <3>3
    <3>5. 0..(partition_size - 1) # {}
      BY <3>1
    <3>6. Store!Size(wanted) = 1 + last
      BY <2>1, <3>5 DEF Store!Size, last
    <3> QED BY <1>8, <3>4, <3>6
  <2> QED BY <2>2, <2>3
<1> QED BY <1>4, <1>5, <1>7, <1>8, <1>9 DEF Store!Exists

\* Where the code lets a call through, it starts inside the partition, at the place
\* that the store means, and has the room that the store gives it.
LEMMA StartsInStore ==
  ASSUME IoInv, OffsetsPastEnd = FALSE, Found, ~BeforeStart
  PROVE  /\ Store!StartsInside(request)
         /\ Store!Start(request) = offset
         /\ offset \in 0..partition_size
         /\ room = partition_size - offset
         /\ disk_offset = entry_buf.first_lba * BlockSize + offset
         /\ Store!EndsInside(request) <=> request.num <= room
<1>1. PICK k \in Matches : entry_buf = entry(k)
  BY DEF IoInv, LookupInv, FindsTheFirst, Found
<1> DEFINE first == entry_buf.first_lba * BlockSize
           last  == entry_buf.last_lba * BlockSize
<1>2. /\ offset \in Nat /\ disk_offset = first + offset
      /\ room = last - first - offset /\ room \in Nat
  BY <1>1, CallOnDisk DEF IoInv
<1>3. table \in Tables /\ k \in 0..(entry_count - 1)
  BY DEF IoInv, LookupInv, LookupTypeOK, Matches, entry_count
<1>4. first \in Nat /\ last \in Nat /\ partition_size = last - first
  BY <1>1, <1>3, EntryOnDisk DEF partition_size
<1> HIDE DEF first, last
<1>5. Store!Exists(request) /\ Store!Size(request.name) = partition_size /\ partition_size \in Nat
  BY FoundInStore
<1>6. request \in Requests
  BY DEF IoInv, RequestIsLegal, Found
<1>7. request.offset \in Int /\ request.num \in Nat
  BY <1>6, RequestFields, NumIsNatural, DiskAssumption
<1>8. Store!Start(request) = offset
  BY <1>5, <1>7 DEF Store!Start, offset
<1>9. offset \in 0..partition_size /\ room = partition_size - offset
  BY <1>2, <1>4
<1>10. Store!StartsInside(request)
  BY <1>5, <1>8, <1>9 DEF Store!StartsInside
<1>11. Store!EndsInside(request) <=> offset + request.num <= partition_size
  BY <1>5, <1>8, <1>10 DEF Store!EndsInside
<1> QED BY <1>2, <1>5, <1>7, <1>8, <1>9, <1>10, <1>11 DEF first

\* Where it does not, because of the offset, the store does not either.
LEMMA StartsOutsideStore ==
  ASSUME IoInv, Found, BeforeStart
  PROVE  ~Store!StartsInside(request)
<1>1. Store!Size(request.name) = partition_size /\ partition_size \in Nat
  BY FoundInStore
<1>2. request \in Requests
  BY DEF IoInv, RequestIsLegal, Found
<1>3. request.offset \in Int /\ -Width < 2 * request.offset /\ Width \in Nat
  BY <1>2, RequestFields, DiskAssumption
<1>4. request.offset < 0
  BY DEF BeforeStart
<1>5. (-request.offset) % Width = -request.offset
  BY <1>3, <1>4, NoWrap
<1>6. -request.offset > partition_size
  BY <1>5 DEF BeforeStart
<1>7. Store!Start(request) = partition_size + request.offset
  BY <1>1, <1>4 DEF Store!Start
<1>8. Store!Start(request) < 0
  BY <1>1, <1>3, <1>6, <1>7
<1> QED BY <1>1, <1>3, <1>7, <1>8 DEF Store!StartsInside

\* No byte of another partition, up to its IMG_SIZE, is one of the entry found.
LEMMA OthersApart ==
  ASSUME IoInv, Found, NEW m \in DOMAIN table, table[m].name # wanted,
         NEW b \in 0..(IMG_SIZE(table[m]) - 1)
  PROVE  table[m].first_lba * BlockSize + b
           \notin (entry_buf.first_lba * BlockSize)..(entry_buf.last_lba * BlockSize - 1)
<1>1. PICK k \in Matches : entry_buf = entry(k)
  BY DEF IoInv, LookupInv, FindsTheFirst, Found
<1>2. table \in Tables /\ k \in 0..(entry_count - 1) /\ entry(k).name = wanted
  BY DEF IoInv, LookupInv, LookupTypeOK, Matches, entry_count
<1>3. /\ Len(table) \in Nat /\ DOMAIN table = 1..Len(table) /\ m \in Nat
      /\ k + 1 \in DOMAIN table /\ table[k + 1] = entry_buf
  BY <1>1, <1>2, TableAssumption DEF entry, entry_count
<1> DEFINE e == entry_buf
           o == table[m]
<1>4. e \in GPTEntry /\ o \in GPTEntry
  BY <1>2, <1>3, TableAssumption
<1>5. e.last_lba < o.first_lba \/ o.last_lba < e.first_lba
  <2>1. m # k + 1
    BY <1>1, <1>2, <1>3
  <2>2. m < k + 1 \/ k + 1 < m
    BY <1>2, <1>3, <2>1
  <2> QED BY <1>2, <1>3, <2>2, LayoutAssumption
<1>6. m - 1 \in 0..(entry_count - 1) /\ entry(m - 1) = o
  BY <1>3 DEF entry_count, entry
<1>7. IMG_SIZE(o) = o.last_lba * BlockSize - o.first_lba * BlockSize
  BY <1>2, <1>6, EntryOnDisk
<1>8. /\ e.first_lba \in Nat /\ e.last_lba \in Nat /\ o.first_lba \in Nat /\ o.last_lba \in Nat
      /\ BlockSize \in Nat
  BY <1>4, DiskAssumption DEF GPTEntry
<1> HIDE DEF e, o
<1>9. /\ e.first_lba * BlockSize \in Nat /\ e.last_lba * BlockSize \in Nat
      /\ o.first_lba * BlockSize \in Nat /\ o.last_lba * BlockSize \in Nat
  BY <1>8, BlocksInOrder
<1>10. \/ e.last_lba * BlockSize <= o.first_lba * BlockSize
       \/ o.last_lba * BlockSize <= e.first_lba * BlockSize
  <2>1. CASE e.last_lba < o.first_lba
    BY <1>8, <2>1, BlocksInOrder
  <2>2. CASE o.last_lba < e.first_lba
    BY <1>8, <2>2, BlocksInOrder
  <2> QED BY <1>5, <2>1, <2>2
<1>11. b \in 0..(o.last_lba * BlockSize - o.first_lba * BlockSize - 1)
  BY <1>7 DEF o
<1> QED BY <1>9, <1>10, <1>11 DEF e, o

\* Bytes written to the disk are bytes written to the partition in the store, and to
\* no other.
LEMMA WrittenInStore ==
  ASSUME IoInv, OffsetsPastEnd = FALSE, Found, ~BeforeStart,
         request.op = "write", CanWrite,
         NEW n \in Nat, n <= request.num, disk' = Overwritten(n), table' = table
  PROVE  InReach' = Store!Filled(request.name, Store!Start(request), n, request.byte)
<1>0. PICK w : w = request.name
  OBVIOUS
<1> DEFINE first == entry_buf.first_lba * BlockSize
           last  == entry_buf.last_lba * BlockSize
           names == {table[j].name : j \in DOMAIN table} \ Unrepresentable
<1>1. PICK k \in Matches : entry_buf = entry(k) /\ \A m \in Matches : k <= m
  BY DEF IoInv, LookupInv, FindsTheFirst, Found
<1>2. /\ table \in Tables /\ k \in 0..(entry_count - 1) /\ w = wanted /\ w = request.name
      /\ request \in Requests /\ disk \in [0..(DiskBytes - 1) -> Values]
  BY <1>0 DEF IoInv, LookupInv, LookupTypeOK, Matches, entry_count, RequestIsLegal, Found, TypeOK
<1>3. k + 1 \in DOMAIN table /\ FirstOf(w) = k + 1 /\ table[k + 1] = entry_buf
  BY <1>1, <1>2, FoundIsFirst DEF entry
<1>4. /\ Store!Start(request) = offset /\ offset \in 0..partition_size
      /\ room = partition_size - offset /\ disk_offset = first + offset
  BY StartsInStore
<1>5. /\ w \in names /\ partition_size \in Nat
      /\ InReach[w] = [b \in 0..(partition_size - 1) |-> disk[first + b]]
  BY <1>0, FoundInStore DEF Store!Exists, InReach, PartitionNames
<1>6. /\ first \in Nat /\ last \in Nat /\ partition_size = last - first
      /\ last + BlockSize <= DiskBytes /\ BlockSize \in Nat /\ DiskBytes \in Nat
  BY <1>1, <1>2, EntryOnDisk, DiskAssumption DEF partition_size, DiskBytes
<1>7. n <= room
  <2>1. request.num \in Nat
    BY <1>2, NumIsNatural
  <2> QED BY <1>4, <1>5, <2>1 DEF CanWrite
<1>8. InReach = [q \in names |-> PartInReach(FirstOf(q))]
  BY DEF InReach, PartitionNames
<1>9. InReach' = [q \in names |-> PartInReach(FirstOf(q))']
  BY DEF InReach, PartitionNames, FirstOf
<1> HIDE DEF first, last, names
<1>10. ASSUME NEW q \in names
       PROVE  PartInReach(FirstOf(q))'
                = [b \in 0..(IMG_SIZE(table[FirstOf(q)]) - 1) |->
                     Overwritten(n)[table[FirstOf(q)].first_lba * BlockSize + b]]
  <2>1. FirstOf(q)' = FirstOf(q)
    BY DEF FirstOf
  <2> QED BY <2>1 DEF PartInReach, Bytes, IMG_SIZE
<1>11. PartInReach(FirstOf(w))'
         = [b \in 0..(partition_size - 1) |->
              IF b \in offset..(offset + n - 1) THEN request.byte ELSE InReach[w][b]]
  <2>1. ASSUME NEW b \in 0..(partition_size - 1)
        PROVE  Overwritten(n)[first + b]
                 = IF b \in offset..(offset + n - 1) THEN request.byte ELSE disk[first + b]
    <3>1. first + b \in 0..(DiskBytes - 1)
      BY <1>6
    <3>2. first + b \in disk_offset..(disk_offset + n - 1) <=> b \in offset..(offset + n - 1)
      BY <1>4, <1>5, <1>6
    <3> QED BY <3>1, <3>2 DEF Overwritten
  <2>2. IMG_SIZE(table[FirstOf(w)]) = partition_size /\ table[FirstOf(w)].first_lba * BlockSize = first
    BY <1>3 DEF partition_size, first
  <2> QED BY <1>5, <1>10, <2>1, <2>2
<1>12. ASSUME NEW q \in names, q # w
       PROVE  PartInReach(FirstOf(q))' = PartInReach(FirstOf(q))
  <2> DEFINE m == FirstOf(q)
  <2>1. m \in DOMAIN table /\ table[m].name = q
    BY <1>2, FirstExists DEF names
  <2>2. /\ Len(table) \in Nat /\ DOMAIN table = 1..Len(table)
    BY <1>2, TableAssumption
  <2>3. m - 1 \in 0..(entry_count - 1) /\ entry(m - 1) = table[m]
    BY <2>1, <2>2 DEF entry_count, entry
  <2>4. /\ table[m].first_lba * BlockSize \in Nat
        /\ table[m].last_lba * BlockSize + BlockSize <= DiskBytes
        /\ table[m].last_lba * BlockSize \in Nat
        /\ IMG_SIZE(table[m]) = table[m].last_lba * BlockSize - table[m].first_lba * BlockSize
    BY <1>2, <2>3, EntryOnDisk
  <2> HIDE DEF m
  <2>5. ASSUME NEW b \in 0..(IMG_SIZE(table[m]) - 1)
        PROVE  Overwritten(n)[table[m].first_lba * BlockSize + b]
                 = disk[table[m].first_lba * BlockSize + b]
    <3> DEFINE x == table[m].first_lba * BlockSize + b
    <3>1. x \notin first..(last - 1)
      BY <1>2, <1>12, <2>1, OthersApart DEF first, last
    <3>2. x \in 0..(DiskBytes - 1)
      BY <1>6, <2>4
    <3> HIDE DEF x
    <3>3. x \notin disk_offset..(disk_offset + n - 1)
      BY <1>4, <1>5, <1>6, <1>7, <3>1, <3>2
    <3> QED BY <3>2, <3>3 DEF Overwritten, x
  <2> QED BY <1>10, <2>5 DEF PartInReach, Bytes, m
<1>13. Store!Filled(w, offset, n, request.byte)
         = [q \in names |->
              IF q = w THEN [b \in 0..(partition_size - 1) |->
                               IF b \in offset..(offset + n - 1) THEN request.byte
                               ELSE InReach[w][b]]
              ELSE PartInReach(FirstOf(q))]
  <2>1. DOMAIN InReach[w] = 0..(partition_size - 1)
    BY <1>5
  <2> QED BY <1>5, <1>8, <2>1 DEF Store!Filled
<1> QED BY <1>2, <1>4, <1>5, <1>9, <1>11, <1>12, <1>13

\* A step that leaves table and disk alone is not seen in the store.
LEMMA ContentKept ==
  ASSUME UNCHANGED <<table, disk>>
  PROVE  InReach' = InReach
BY DEF InReach, PartitionNames, PartInReach, Bytes, FirstOf, IMG_SIZE

\* The request under way is one, and not None.
LEMMA RequestUnderWay ==
  ASSUME IoInv, step # "idle"
  PROVE  request \in Requests /\ request # None
BY NoneAssumption DEF IoInv, RequestIsLegal

StoreNext == Store!Ask \/ Store!Fail \/ Store!Answer

\* Failures on the way to the entry are failures of the store, and nothing else of the
\* lookup is seen.
LEMMA LookupInStore ==
  ASSUME IoInv, LookupStep, UNCHANGED ioVars
  PROVE  StoreNext \/ UNCHANGED <<InReach, request, reply, failed>>
<1>1. step # "idle" /\ table' = table /\ (failed' = failed \/ failed' = TRUE)
  BY DEF LookupStep, AllocHeader, AllocEntry, ReadHeader, AllocName, Convert, ReadTable,
         SearchMatches, SearchGoesOn, SearchEnds
<1>2. request # None /\ InReach' = InReach /\ UNCHANGED <<request, reply>>
  BY <1>1, RequestUnderWay, ContentKept DEF ioVars
<1> QED BY <1>1, <1>2 DEF StoreNext, Store!Fail

\* No partition is reported missing that is there, unless something has failed.
LEMMA MissingInStore ==
  ASSUME IoInv, NoSuchPartition
  PROVE  Store!Answer
<1>1. /\ step = "returned" /\ status = "NOT_FOUND" /\ UNCHANGED <<table, disk, failed>>
      /\ request' = None /\ reply' = [result |-> "NO_SUCH_PARTITION", data |-> << >>]
  BY DEF NoSuchPartition
<1>2. request # None /\ request.name = wanted /\ InReach' = InReach
  BY <1>1, RequestUnderWay, ContentKept DEF IoInv, RequestIsLegal
<1>3. failed \/ Matches = {} \/ wanted \in Unrepresentable
  BY <1>1 DEF IoInv, LookupInv, FindsTheFirst
<1>4. Matches = {} => wanted \notin {table[n].name : n \in DOMAIN table}
  <2> SUFFICES ASSUME NEW n \in DOMAIN table, table[n].name = wanted PROVE Matches # {}
    OBVIOUS
  <2>1. Len(table) \in Nat /\ DOMAIN table = 1..Len(table)
    BY TableAssumption DEF IoInv, LookupInv, LookupTypeOK
  <2>2. n - 1 \in 0..(Len(table) - 1) /\ (n - 1) + 1 = n
    BY <2>1
  <2>3. n - 1 \in Matches
    BY <2>2 DEF Matches, entry
  <2> QED BY <2>3
<1>5. Store!NoSuchPartition
  BY <1>1, <1>2, <1>3, <1>4 DEF Store!NoSuchPartition, Store!Exists, Store!Answers, InReach, PartitionNames
<1> QED BY <1>1, <1>2, <1>5 DEF Store!Answer

\* What is refused lies outside.
LEMMA RefusedInStore ==
  ASSUME IoInv, OffsetsPastEnd = FALSE, OutsideRange
  PROVE  Store!Answer
<1>1. /\ Found /\ UNCHANGED <<table, disk, failed>>
      /\ BeforeStart \/ (request.op = "write" /\ ~CanWrite)
      /\ request' = None /\ reply' = [result |-> "RANGE_OUTSIDE_PARTITION", data |-> << >>]
  BY DEF OutsideRange, Finishes
<1>2. request # None /\ InReach' = InReach
  BY <1>1, RequestUnderWay, ContentKept DEF Found
<1>3. Store!Exists(request)
  BY <1>1, FoundInStore
<1>4. IF request.op = "read" THEN ~Store!StartsInside(request) ELSE ~Store!EndsInside(request)
  <2>1. CASE BeforeStart
    BY <1>1, <2>1, StartsOutsideStore DEF Store!EndsInside
  <2>2. CASE ~BeforeStart
    BY <1>1, <2>2, StartsInStore DEF CanWrite
  <2> QED BY <2>1, <2>2
<1>5. Store!OutsideRange
  BY <1>1, <1>2, <1>3, <1>4 DEF Store!OutsideRange, Store!Answers
<1> QED BY <1>1, <1>2, <1>5 DEF Store!Answer

\* What is read is what the store holds, up to the end of the partition.
LEMMA ReadInStore ==
  ASSUME IoInv, OffsetsPastEnd = FALSE, ReadDisk
  PROVE  Store!Answer
<1>1. /\ Found /\ ~BeforeStart /\ request.op = "read" /\ UNCHANGED <<table, disk, failed>>
      /\ request' = None
      /\ reply' = [result |-> "OK", data |-> [k \in 0..(num_read - 1) |-> disk[disk_offset + k]]]
  BY DEF ReadDisk, Finishes
<1>2. request # None /\ InReach' = InReach /\ request.num \in Nat
  BY <1>1, RequestUnderWay, ContentKept, NumIsNatural DEF Found
<1> DEFINE first == entry_buf.first_lba * BlockSize
<1>3. /\ Store!Size(request.name) = partition_size /\ partition_size \in Nat
      /\ InReach[request.name] = [b \in 0..(partition_size - 1) |-> disk[first + b]]
  BY <1>1, FoundInStore
<1>4. /\ Store!StartsInside(request) /\ Store!Start(request) = offset
      /\ offset \in 0..partition_size /\ room = partition_size - offset
      /\ disk_offset = first + offset
      /\ Store!EndsInside(request) <=> request.num <= room
  BY <1>1, StartsInStore
<1>5. first \in Nat
  <2>1. PICK k \in Matches : entry_buf = entry(k)
    BY <1>1 DEF IoInv, LookupInv, FindsTheFirst, Found
  <2>2. table \in Tables /\ k \in 0..(entry_count - 1)
    BY DEF IoInv, LookupInv, LookupTypeOK, Matches, entry_count
  <2> QED BY <2>1, <2>2, EntryOnDisk
<1> HIDE DEF first
<1>6. Store!Transferred(request) = num_read
  BY <1>2, <1>3, <1>4 DEF Store!Transferred, num_read
<1>7. num_read \in Nat /\ offset + num_read <= partition_size
  BY <1>2, <1>3, <1>4 DEF num_read
<1>8. Store!Bytes(request.name, offset, num_read)
        = [k \in 0..(num_read - 1) |-> disk[disk_offset + k]]
  <2>1. ASSUME NEW k \in 0..(num_read - 1)
        PROVE  InReach[request.name][offset + k] = disk[disk_offset + k]
    <3>1. offset + k \in 0..(partition_size - 1)
      BY <1>3, <1>4, <1>7
    <3>2. first + (offset + k) = disk_offset + k
      BY <1>3, <1>4, <1>5, <1>7
    <3> QED BY <1>3, <3>1, <3>2
  <2> QED BY <2>1 DEF Store!Bytes
<1>9. Store!Read
  BY <1>1, <1>2, <1>4, <1>6, <1>8 DEF Store!Read, Store!Answers
<1> QED BY <1>1, <1>2, <1>9 DEF Store!Answer

\* What is written is written there, and an error says that it may be so in part.
LEMMA WriteInStore ==
  ASSUME IoInv, OffsetsPastEnd = FALSE, WriteDisk \/ TransferFails
  PROVE  Store!Answer
<1>1. /\ Found /\ ~BeforeStart /\ table' = table /\ request' = None
  BY DEF WriteDisk, TransferFails, Finishes
<1>2. request # None /\ request.num \in Nat
  BY <1>1, RequestUnderWay, NumIsNatural DEF Found
<1>3. CanWrite => Store!EndsInside(request)
  BY <1>1, StartsInStore DEF CanWrite
<1>4. CASE WriteDisk
  <2>1. /\ request.op = "write" /\ CanWrite /\ disk' = Overwritten(request.num)
        /\ reply' = [result |-> "OK", data |-> << >>] /\ UNCHANGED failed
    BY <1>4 DEF WriteDisk, Finishes
  <2>2. request.num <= request.num
    BY <1>2
  <2>3. InReach' = Store!Filled(request.name, Store!Start(request), request.num, request.byte)
    BY <1>1, <1>2, <2>1, <2>2, WrittenInStore
  <2>4. Store!Write
    BY <1>3, <2>1, <2>3 DEF Store!Write, Store!Answers
  <2> QED BY <1>1, <1>2, <2>4 DEF Store!Answer
<1>5. CASE TransferFails
  <2>1. reply' = [result |-> "IO", data |-> << >>] /\ failed' = TRUE
    BY <1>5 DEF TransferFails, Finishes
  <2>2. CASE UNCHANGED disk
    <3>1. InReach' = InReach
      BY <1>1, <2>2, ContentKept
    <3>2. Store!IoError
      BY <2>1, <3>1 DEF Store!IoError
    <3> QED BY <1>1, <1>2, <3>2 DEF Store!Answer
  <2>3. CASE /\ request.op = "write" /\ CanWrite
             /\ \E n \in 0..request.num : disk' = Overwritten(n)
    <3>1. PICK n \in 0..request.num : disk' = Overwritten(n)
      BY <2>3
    <3>2. n \in Nat /\ n <= request.num
      BY <1>2
    <3>3. InReach' = Store!Filled(request.name, Store!Start(request), n, request.byte)
      BY <1>1, <2>3, <3>1, <3>2, WrittenInStore
    <3>4. Store!IoError
      BY <1>3, <2>1, <2>3, <3>3 DEF Store!IoError
    <3> QED BY <1>1, <1>2, <3>4 DEF Store!Answer
  <2> QED BY <1>5, <2>2, <2>3 DEF TransferFails
<1> QED BY <1>4, <1>5

\* A call is a question to the store.
LEMMA CallInStore ==
  ASSUME IoInv, Call
  PROVE  Store!Ask
<1>1. /\ step = "idle" /\ request' \in Requests /\ reply' = None /\ failed' = FALSE
      /\ UNCHANGED <<table, disk>>
  BY DEF Call, LookupBegins
<1>2. request = None /\ InReach' = InReach
  BY <1>1, ContentKept DEF IoInv, IdleMeansNoRequest
<1> QED BY <1>1, <1>2 DEF Store!Ask

\* As long as no caller starts past the end of a partition, the two functions keep what
\* bub_ops.h:57-93 promises, but for two things: the last block of a partition is not
\* part of it, and a lookup that fails may be answered with NO_SUCH_PARTITION.  Reads
\* and writes are of the named partition alone, at offsets from either end of what is
\* in reach, cut short or refused where that ends, and refused for no other reason.
THEOREM ContractIsKeptInReach == OffsetsPastEnd = FALSE => (Spec => KeepsContractInReach)
<1> SUFFICES ASSUME OffsetsPastEnd = FALSE PROVE Spec => KeepsContractInReach
  OBVIOUS
<1>1. Init => Store!StoreInit
  BY DEF Init, LookupInit, Store!StoreInit
<1>2. IoInv /\ [Next]_vars
        => [Store!Ask \/ Store!Fail \/ Store!Answer]_<<InReach, request, reply, failed>>
  <2> SUFFICES ASSUME IoInv, [Next]_vars
               PROVE  StoreNext \/ UNCHANGED <<InReach, request, reply, failed>>
    BY DEF StoreNext
  <2>1. CASE UNCHANGED vars
    BY <2>1, ContentKept DEF vars, lookupVars, ioVars
  <2>2. CASE Call
    BY <2>2, CallInStore DEF StoreNext
  <2>3. CASE LookupStep /\ UNCHANGED ioVars
    BY <2>3, LookupInStore
  <2>4. CASE NoSuchPartition
    BY <2>4, MissingInStore DEF StoreNext
  <2>5. CASE OutsideRange
    BY <2>5, RefusedInStore DEF StoreNext
  <2>6. CASE ReadDisk
    BY <2>6, ReadInStore DEF StoreNext
  <2>7. CASE WriteDisk \/ TransferFails
    BY <2>7, WriteInStore DEF StoreNext
  <2> QED BY <2>1, <2>2, <2>3, <2>4, <2>5, <2>6, <2>7 DEF Next
<1> QED BY <1>1, <1>2, IoInvariance, PTL DEF Spec, KeepsContractInReach, Store!StoreSpec
================================================================================
