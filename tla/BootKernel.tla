------------------------------- MODULE BootKernel ------------------------------
(***************************************************************************)
(* bub_boot_kernel of bub_boot_kernel.c, with LoadParameters: from the     *)
(* boot image in a partition to a started kernel, over firmware services   *)
(* any of which may fail.  A partition is read through                     *)
(* bub_read_from_partition (PartitionIo.tla), which is one step here.      *)
(***************************************************************************)
EXTENDS Integers

CONSTANTS
  HeaderSize,  \* sizeof(boot_img_hdr)
  MagicSize,   \* BOOT_MAGIC_SIZE, the first bytes of it
  Width,       \* 2^64 in the code: the values of UINT64
  Fields,      \* values of page_size and kernel_size, UINT32
  Sizes,       \* of a boot partition, in bytes, as IMG_SIZE counts them
  NoPartition

ASSUME SizeAssumption ==
  /\ HeaderSize \in Nat /\ MagicSize \in 1..HeaderSize
  /\ Width \in Nat \ {0}
  /\ Fields \subseteq Nat /\ Sizes \subseteq Nat
  /\ \A f \in Fields, s \in Sizes : f + s + HeaderSize < Width
  /\ NoPartition \notin Sizes

VARIABLES
  image,    \* the header in the partition, and what its kernel does
  size,     \* of the partition, or NoPartition
  step,     \* where the function is
  head,     \* head_buf, once it has been read
  loaded,   \* the bytes of the partition in kernel_buf: from, how many asked, how many read
  result,   \* BubBootResult
  failed    \* a firmware service has failed

vars == <<image, size, step, head, loaded, result, failed>>

--------------------------------------------------------------------------------
Headers == [magic : BOOLEAN, page_size : Fields, kernel_size : Fields]
Kernels == {"runs", "returns", "not_an_image", "does_not_start"}
Images == [header : Headers, kernel : Kernels]

BootResult == {"BOOT_OK", "OOM", "IO", "INVALID_FORMAT", "LOAD_KERNEL",
               "PARAMETER_LOAD", "START_KERNEL"}

Steps == {"alloc_head", "read_head", "lookup", "check", "alloc_kernel", "read_kernel",
          "load", "parameters", "start"}

TypeOK ==
  /\ image \in Images
  /\ size \in Sizes \cup {NoPartition}
  /\ step \in Steps \cup {"running", "returned"}
  /\ head \in Headers
  /\ DOMAIN loaded = {"from", "asked", "read"}
  /\ \A k \in DOMAIN loaded : loaded[k] \in 0..(Width - 1)
  /\ result \in BootResult
  /\ failed \in BOOLEAN

Init ==
  /\ image \in Images
  /\ size \in Sizes \cup {NoPartition}
  /\ step = "alloc_head"
  /\ head \in Headers                     \* allocated memory holds anything
  /\ loaded = [from |-> 0, asked |-> 0, read |-> 0]
  /\ result = "BOOT_OK"
  /\ failed = FALSE

--------------------------------------------------------------------------------
Returns(r) == step' = "returned" /\ result' = r /\ UNCHANGED <<image, size, head, loaded>>

GoesTo(s) == step' = s /\ UNCHANGED <<image, size, head, loaded, result, failed>>

Fails(r) == Returns(r) /\ failed' = TRUE

\* Slip: the difference is taken as a signed number.
num_read_signed(offset, num) ==
  LET room == size - offset IN IF num > room THEN room ELSE num

\* What bub_read_from_partition reads of `num` bytes that start at `offset`.
num_read(offset, num) ==
  LET room == (size - offset) % Width IN IF num > room THEN room ELSE num

AllocHead == step = "alloc_head" /\ (GoesTo("read_head") \/ Fails("OOM"))

\* num_bytes_read is not looked at: a partition too short for a header leaves the
\* rest of head_buf as it was allocated.
ReadHead ==
  /\ step = "read_head"
  /\ \/ /\ size # NoPartition
        /\ LET n == num_read(0, HeaderSize) IN
             head' = IF n = HeaderSize THEN image.header
                     ELSE IF n >= MagicSize THEN [head EXCEPT !.magic = image.header.magic]
                     ELSE head
        /\ step' = "lookup"
        /\ UNCHANGED <<image, size, loaded, result, failed>>
     \/ size = NoPartition /\ Returns("IO") /\ UNCHANGED failed
     \/ Fails("IO")

Lookup == step = "lookup" /\ (GoesTo("check") \/ Fails("IO"))

\* Slips: a page that ends where the partition does is refused; and the size of
\* the header is left out of account.
AcceptedShorter(h) ==
  /\ h.magic
  /\ h.kernel_size <= size
  /\ h.page_size < (size - HeaderSize) % Width
AcceptedWithoutHeader(h) == h.magic /\ h.kernel_size <= size

\* Magic, kernel size, then page size: against what is left behind a header, as a
\* UINT64, so that a partition shorter than a header has the most left.
Accepted(h) ==
  /\ h.magic
  /\ h.kernel_size <= size
  /\ h.page_size <= (size - HeaderSize) % Width

CheckFormat ==
  /\ step = "check"
  /\ IF Accepted(head) THEN GoesTo("alloc_kernel")
     ELSE Returns("INVALID_FORMAT") /\ UNCHANGED failed

\* Slip: running out of memory is taken for a kernel that is too big.
AllocKernelRefused ==
  step = "alloc_kernel" /\ (GoesTo("read_kernel") \/ Fails("INVALID_FORMAT"))

AllocKernel == step = "alloc_kernel" /\ (GoesTo("read_kernel") \/ Fails("OOM"))

\* num_bytes_read is not looked at here either.
ReadKernel ==
  /\ step = "read_kernel"
  /\ \/ /\ loaded' = [from  |-> head.page_size,
                      asked |-> head.kernel_size,
                      read  |-> num_read(head.page_size, head.kernel_size)]
        /\ step' = "load"
        /\ UNCHANGED <<image, size, head, result, failed>>
     \/ Fails("IO")

\* The kernel of the image, if kernel_buf holds all of it, and unknown bytes otherwise.
Whole ==
  /\ head = image.header
  /\ loaded.read = loaded.asked
  /\ loaded.from + loaded.read <= size

MayBe(k) == Whole => image.kernel = k

LoadImage ==
  /\ step = "load"
  /\ \/ (\E k \in Kernels \ {"not_an_image"} : MayBe(k)) /\ GoesTo("parameters")
     \/ MayBe("not_an_image") /\ Returns("LOAD_KERNEL") /\ UNCHANGED failed
     \/ Fails("LOAD_KERNEL")

\* LoadParameters: the handle of the image, and memory for its command line.
LoadParameters == step = "parameters" /\ (GoesTo("start") \/ Fails("PARAMETER_LOAD"))

StartImage ==
  /\ step = "start"
  /\ \/ MayBe("runs") /\ GoesTo("running")
     \/ MayBe("returns") /\ Returns("BOOT_OK") /\ UNCHANGED failed
     \/ MayBe("does_not_start") /\ Returns("START_KERNEL") /\ UNCHANGED failed
     \/ Fails("START_KERNEL")

Next ==
  \/ AllocHead \/ ReadHead \/ Lookup \/ CheckFormat \/ AllocKernel \/ ReadKernel
  \/ LoadImage \/ LoadParameters \/ StartImage

Spec == Init /\ [][Next]_vars

--------------------------------------------------------------------------------
(* What must hold.                                                          *)

\* The partition is long enough for a header: what a boot partition is made for.
HoldsHeader == size # NoPartition /\ size >= HeaderSize

\* "Checks on buffer overflow." (bub_boot_kernel.c:590): whatever the partition and its
\* header are, the kernel is only ever read from within the partition.  In one shorter
\* than a header it is not: there IMG_SIZE - sizeof(boot_img_hdr) wraps (596).
ReadsInsideThePartition ==
  size # NoPartition /\ loaded.read > 0 => loaded.from + loaded.read <= size

\* What the checks do keep.  For every partition, kernel_buf, which is as long as the
\* header asks, is not overrun, and the header asks for no more than the partition has
\* (bub_boot_kernel.c:591, 600-616).  For a partition that holds a header, what is read
\* lies in it; in a shorter one `IMG_SIZE - sizeof(boot_img_hdr)` wraps (596), any
\* page_size is accepted, and ReadsInsideThePartition fails.
ReadsFit ==
  /\ loaded.read <= loaded.asked
  /\ size # NoPartition => loaded.asked <= size
  /\ HoldsHeader => loaded.from + loaded.read <= size

\* The header and the kernel are in the partition, and the kernel is one that runs.
Bootable ==
  /\ HoldsHeader
  /\ image.header.magic
  /\ HeaderSize + image.header.page_size <= size
  /\ image.header.page_size + image.header.kernel_size <= size
  /\ image.kernel = "runs"

\* Magic or sizes that no valid image has.
BadFormat ==
  HoldsHeader =>
    \/ ~image.header.magic
    \/ image.header.kernel_size > size
    \/ HeaderSize + image.header.page_size > size

\* efi_main invalidates the slot on INVALID_FORMAT alone (bub_main.c:55-64): that
\* result must come from the bytes in the partition, never from a service that
\* failed on the way; an image that is whole is refused for no other reason than
\* such a failure, and a bad one is never started.
ResultFitsImage ==
  /\ step = "returned" /\ result = "INVALID_FORMAT" => BadFormat /\ ~failed
  /\ step = "returned" /\ Bootable => failed
  /\ HoldsHeader /\ BadFormat =>
       step # "running" /\ ~(step = "returned" /\ result = "BOOT_OK")

\* "BUB_BOOT_ERROR_PARTITION_INVALID_FORMAT on bad magic or bad size boundaries"
\* (bub_boot_kernel.h:129-130): a kernel that does not fit in the partition is not
\* loaded as far as it goes.
LoadsWholeKernel ==
  HoldsHeader /\ step \in {"parameters", "start", "running"} => loaded.read = loaded.asked

--------------------------------------------------------------------------------
(* The inductive invariant behind ReadsFit and ResultFitsImage.     *)

AfterRead == {"load", "parameters", "start", "running"}
AfterCheck == {"alloc_kernel", "read_kernel"} \cup AfterRead
AfterHead == {"lookup", "check"} \cup AfterCheck

\* A header has been read, and all of it if the partition holds one.
HeadIsRead ==
  step \in AfterHead => size \in Sizes /\ (HoldsHeader => head = image.header)

HeadIsAccepted == step \in AfterCheck => Accepted(head)

\* kernel_buf holds what the accepted header asked for.
KernelIsRead ==
  step \in AfterRead =>
    loaded = [from  |-> head.page_size,
              asked |-> head.kernel_size,
              read  |-> num_read(head.page_size, head.kernel_size)]

\* Every failure of a service ends the function.
FailureReturns == failed => step = "returned"

KernelInv ==
  /\ TypeOK
  /\ HeadIsRead
  /\ HeadIsAccepted
  /\ KernelIsRead
  /\ FailureReturns
  /\ ReadsFit
  /\ ResultFitsImage
================================================================================
