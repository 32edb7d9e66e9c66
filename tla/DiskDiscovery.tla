----------------------------- MODULE DiskDiscovery -----------------------------
(***************************************************************************)
(* bub_init and getDiskBlockIo of bub_boot_kernel.c: from the device the   *)
(* loader was started from, the path to it is walked node by node for the  *)
(* disk that holds the partition table.  What the firmware knows by each   *)
(* beginning of that path does not change; any of its services may fail.   *)
(***************************************************************************)
EXTENDS Naturals, FiniteSets, FiniteSetsExt

CONSTANTS
  PathLengths,  \* the numbers of nodes of a device path, without its end
  Devices       \* what a handle may be: protocols, media and GPT header

GPT_MIN_SIZE == 92
BUB_BLOCK_SIZE == 512

Headers == [magic : BOOLEAN, header_size : Nat, crc : BOOLEAN, revision : BOOLEAN]

ASSUME DeviceAssumption ==
  /\ PathLengths \subseteq Nat
  /\ \A d \in Devices :
       /\ d.protocols \subseteq {"BlockIo", "DiskIo"}
       /\ {d.LogicalPartition, d.MediaPresent} \subseteq BOOLEAN
       /\ d.BlockSize \in Nat \ {0}
       /\ d.header \in Headers

VARIABLES
  device,    \* for each length of a beginning of the path, the handle there
  step,      \* where the function is
  walker,    \* the nodes from init_path to walker_path
  path,      \* io_path and disk_path: where in the memory allocated each points
  lost,      \* how many of those allocations nothing points to the start of
  handle,    \* block_handle and disk_handle, as lengths of the path, 0 if not set
  returned,  \* what bub_init returned
  failed     \* a firmware service has failed

vars == <<device, step, walker, path, lost, handle, returned, failed>>

--------------------------------------------------------------------------------
Kinds == {"io", "disk"}
Unallocated == [k \in Kinds |-> "none"]
Steps == {"image", "walk", "alloc_disk", "locate_block", "locate_disk", "handle_block",
          "handle_disk", "media", "read"}

path_length == Max(DOMAIN device)

TypeOK ==
  /\ DOMAIN device \in {0..n : n \in PathLengths}
  /\ \A l \in DOMAIN device : device[l] \in Devices
  /\ step \in Steps \cup {"returned", "wild"}
  /\ walker \in 0..path_length
  /\ path \in [Kinds -> {"none", "start", "inside"}]
  /\ lost \in 0..(2 * path_length)
  /\ handle \in [Kinds -> 0..path_length]
  /\ returned \in 0..1
  /\ failed \in BOOLEAN

Init ==
  /\ \E n \in PathLengths : device \in [0..n -> Devices]
  /\ device[0].protocols = {}             \* no handle has the empty path
  /\ step = "image"
  /\ walker = 0
  /\ path = Unallocated
  /\ lost = 0
  /\ handle = [k \in Kinds |-> 0]
  /\ returned = 0
  /\ failed = FALSE

--------------------------------------------------------------------------------
GoesTo(s) == step' = s /\ UNCHANGED <<device, walker, returned>>

Returns(r) == step' = "returned" /\ returned' = r /\ UNCHANGED <<device, walker>>

Fails == failed' = TRUE
Works == UNCHANGED failed

\* The handle of the image, and the path of its device.
LoadedImage ==
  /\ step = "image"
  /\ \/ GoesTo("walk") /\ Works
     \/ Returns(0) /\ Fails
  /\ UNCHANGED <<path, lost, handle>>

\* Slip: the end of the path is looked for behind the step, not before it.
walk_path_beyond ==
  /\ step = "walk" /\ walker <= path_length
  /\ walker' = walker + 1
  /\ \/ path' = [path EXCEPT !.io = "start"] /\ step' = "alloc_disk" /\ UNCHANGED returned /\ Works
     \/ step' = "returned" /\ returned' = 0 /\ UNCHANGED path /\ Fails
  /\ UNCHANGED <<device, lost, handle>>

\* The path to the node behind the walker goes to new memory.
walk_path ==
  /\ step = "walk" /\ walker < path_length
  /\ walker' = walker + 1
  /\ \/ path' = [path EXCEPT !.io = "start"] /\ step' = "alloc_disk" /\ UNCHANGED returned /\ Works
     \/ step' = "returned" /\ returned' = 0 /\ UNCHANGED path /\ Fails
  /\ UNCHANGED <<device, lost, handle>>

NothingFound ==
  /\ step = "walk" /\ walker = path_length
  /\ Returns(0)
  /\ UNCHANGED <<path, lost, handle, failed>>

\* Not tested for NULL: the copy that follows goes to address 0.
AllocDiskPath ==
  /\ step = "alloc_disk"
  /\ \/ path' = [path EXCEPT !.disk = "start"] /\ GoesTo("locate_block") /\ Works
     \/ GoesTo("wild") /\ UNCHANGED path /\ Fails
  /\ UNCHANGED <<lost, handle>>

\* Slip: only one of the two paths is given back.
Continue_io_only ==
  /\ GoesTo("walk")
  /\ path' = [path EXCEPT !.io = "none"]
  /\ lost' = lost + Cardinality({k \in Kinds : path[k] = "inside"})

\* bub_free of both paths, and the next node.  A path that LocateDevicePath has moved
\* on is no longer where it was allocated, and the pool does not take it back.
Continue ==
  /\ GoesTo("walk")
  /\ path' = Unallocated
  /\ lost' = lost + Cardinality({k \in Kinds : path[k] = "inside"})

\* The path handed to LocateDevicePath reaches one node beyond the walker, but for the
\* last one, that ends where the path does.
ReachOf(w) == IF w < path_length THEN w + 1 ELSE path_length
Reach == ReachOf(walker)

Providing(protocol) == {l \in 1..Reach : protocol \in device[l].protocols}

\* Slip: a node with no such device before it ends the search.
Locates_or_gives_up(k, protocol, next) ==
  \/ /\ Providing(protocol) # {}
     /\ handle' = [handle EXCEPT ![k] = Max(Providing(protocol))]
     /\ path' = [path EXCEPT ![k] = "inside"]
     /\ GoesTo(next) /\ UNCHANGED lost /\ Works
  \/ Providing(protocol) = {} /\ Returns(0) /\ UNCHANGED <<path, lost, handle, failed>>
  \/ Continue /\ UNCHANGED handle /\ Fails

\* LocateDevicePath: the longest beginning that has the protocol; what remains of the
\* path is stored over the pointer to it.
Locates(k, protocol, next) ==
  \/ /\ Providing(protocol) # {}
     /\ handle' = [handle EXCEPT ![k] = Max(Providing(protocol))]
     /\ path' = [path EXCEPT ![k] = "inside"]
     /\ GoesTo(next) /\ UNCHANGED lost /\ Works
  \/ Providing(protocol) = {} /\ Continue /\ UNCHANGED handle /\ Works
  \/ Continue /\ UNCHANGED handle /\ Fails

LocateBlockIo == step = "locate_block" /\ Locates("io", "BlockIo", "locate_disk")

LocateDiskIo == step = "locate_disk" /\ Locates("disk", "DiskIo", "handle_block")

HandleBlockIo ==
  /\ step = "handle_block"
  /\ \/ GoesTo("handle_disk") /\ UNCHANGED <<path, lost>> /\ Works
     \/ Continue /\ Fails
  /\ UNCHANGED handle

HandleDiskIo ==
  /\ step = "handle_disk"
  /\ \/ GoesTo("media") /\ UNCHANGED <<path, lost>> /\ Works
     \/ Continue /\ Fails
  /\ UNCHANGED handle

block_io == device[handle.io]

Whole(d) == ~d.LogicalPartition /\ d.MediaPresent

CheckMedia ==
  /\ step = "media"
  /\ IF Whole(block_io) THEN GoesTo("read") /\ UNCHANGED <<path, lost>> ELSE Continue
  /\ UNCHANGED <<handle, failed>>

\* Slip: the size decides how much the CRC is taken of, and is not looked at first.
validate_gpt_unbounded(h) == h.magic /\ h.crc /\ h.revision

\* The CRC is that of the first header_size bytes, with the CRC itself as zero.
validate_gpt(h) ==
  /\ h.magic
  /\ GPT_MIN_SIZE <= h.header_size /\ h.header_size <= BUB_BLOCK_SIZE
  /\ h.crc
  /\ h.revision

\* The device reads whole blocks only, and 512 bytes are asked for.
ReadsHeader(d) == BUB_BLOCK_SIZE % d.BlockSize = 0

\* With the disk found io_path goes to the caller, and disk_path out of scope.
ReadHeader ==
  /\ step = "read"
  /\ \/ /\ ReadsHeader(block_io) /\ validate_gpt(block_io.header)
        /\ path' = [path EXCEPT !.disk = "none"] /\ lost' = lost + 1
        /\ Returns(1) /\ Works
     \/ /\ ~(ReadsHeader(block_io) /\ validate_gpt(block_io.header))
        /\ Continue /\ Works
     \/ Continue /\ Fails
  /\ UNCHANGED handle

Next ==
  \/ LoadedImage \/ walk_path \/ NothingFound \/ AllocDiskPath \/ LocateBlockIo \/ LocateDiskIo
  \/ HandleBlockIo \/ HandleDiskIo \/ CheckMedia \/ ReadHeader

Spec == Init /\ [][Next]_vars

--------------------------------------------------------------------------------
(* What must hold.                                                          *)

\* A disk the partitions can be read from: whole, with a table that is sound in every
\* particular, sizes of header and block included.
HoldsTable(d) ==
  /\ "BlockIo" \in d.protocols /\ ~d.LogicalPartition /\ d.MediaPresent
  /\ BUB_BLOCK_SIZE % d.BlockSize = 0
  /\ d.header.magic /\ d.header.crc /\ d.header.revision
  /\ d.header.header_size \in 92..512

\* Every handle with one of the two protocols has the other, as DiskIo drivers see to.
Paired == \A l \in DOMAIN device : device[l].protocols \in {{}, {"BlockIo", "DiskIo"}}

\* bub_init returns 1 with a disk that holds the partition table, and both protocols
\* are those of this one device: what block_io says of block sizes and disk_io reads
\* and writes belong together (bub_boot_kernel.c:284-364).
HandsOutADisk ==
  step = "returned" /\ returned = 1 =>
    /\ HoldsTable(block_io)
    /\ Paired => handle.io = handle.disk

\* "The resulting |block_io| device is the top level block device having access to
\* partition entries" (bub_boot_kernel.c:242-245): if nothing fails, the first on the
\* path is found whatever lies before and behind it.  A disk of one node, with a device
\* behind it, is passed over; the paths of real disks have more.
FindsTheTopmost ==
  step = "returned" /\ ~failed /\ Paired =>
    \A l \in 1..path_length :
      /\ HoldsTable(device[l])
      /\ l = 1 => path_length = 1 \/ device[2].protocols = {}
      => returned = 1 /\ handle.io <= l

\* "Caller is responsible for freeing |next|" (bub_boot_kernel.c:120-121): no memory of
\* a round is left behind when the walk goes on or ends.  It is: LocateDevicePath has
\* stored what remains of the path over the pointer, and bub_free is called with that
\* (293, 303); disk_path is not freed at all when the disk is found (365).
PathsAreGivenBack == step \in {"walk", "returned"} => lost = 0

\* No device that a round of w nodes or fewer comes to is of blocks.
NoBlockDeviceBy(w) == \A l \in 1..ReachOf(w) : "BlockIo" \notin device[l].protocols

\* What the code does keep of it: each of the seven ways on to the next node, and each
\* failing return, has called bub_free for both pointers (290-360), and memory is lost
\* only by rounds that come to a block device, two allocations by each: the walk over
\* the nodes before the first one gives back all that it took.
OnlyMovedPathsAreLost ==
  /\ step = "walk" \/ (step = "returned" /\ returned = 0) => path = Unallocated
  /\ \A w \in 0..walker : NoBlockDeviceBy(w) => lost <= 2 * (walker - w)
--------------------------------------------------------------------------------
(* Why it holds: what each step of a round of the walk may rely on.          *)

\* The steps of one round, and those of them that come after each handle is located.
InRound == step \in Steps \ {"image", "walk"}
BlockLocated == step \in {"locate_disk", "handle_block", "handle_disk", "media", "read"} \/ returned = 1
DiskLocated == step \in {"handle_block", "handle_disk", "media", "read"} \/ returned = 1

\* Where the two paths point follows from the step alone.
PathFollowsStep ==
  /\ path.io = IF BlockLocated THEN "inside"
               ELSE IF step \in {"alloc_disk", "locate_block", "wild"} THEN "start" ELSE "none"
  /\ path.disk = IF DiskLocated /\ returned = 0 THEN "inside"
                 ELSE IF step \in {"locate_block", "locate_disk"} THEN "start" ELSE "none"

\* A round loses two allocations at most.
TwoLostARound == lost + (IF InRound THEN 2 ELSE 0) <= 2 * walker

\* A round that comes to no block device loses none, and those before it lost none.
NoneLostUnmoved ==
  \A w \in 0..walker :
    NoBlockDeviceBy(w) => lost + (IF InRound /\ w < walker THEN 2 ELSE 0) <= 2 * (walker - w)

IsLongest(l, protocol) == l \in Providing(protocol) /\ \A m \in Providing(protocol) : m <= l

HandlesAreLongest ==
  /\ BlockLocated => IsLongest(handle.io, "BlockIo")
  /\ DiskLocated => IsLongest(handle.disk, "DiskIo")

\* The round that comes to the disk at the end of each beginning of the path.
RoundOf(l) == IF l = 1 THEN 1 ELSE l - 1

Findable(l) ==
  /\ HoldsTable(device[l])
  /\ l = 1 => path_length = 1 \/ device[2].protocols = {}

\* The walk has not gone by a disk that it should have found.
NonePassedOver ==
  ~failed /\ Paired =>
    \A l \in 1..path_length :
      Findable(l) =>
        /\ InRound \/ returned = 1 => walker <= RoundOf(l)
        /\ step \in {"image", "walk"} => walker < RoundOf(l)
        /\ step = "returned" => returned = 1

DiscoveryInv ==
  /\ TypeOK
  /\ PathFollowsStep
  /\ TwoLostARound
  /\ NoneLostUnmoved
  /\ HandlesAreLongest
  /\ NonePassedOver
  /\ InRound \/ returned = 1 => walker > 0
  /\ returned = 1 => step = "returned" /\ HoldsTable(block_io)
  /\ step = "wild" => failed
  /\ step = "read" => Whole(block_io)
================================================================================
