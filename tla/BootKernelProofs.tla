---------------------------- MODULE BootKernelProofs ---------------------------
(* What is read of a boot image fits, and the result of the load is about the   *)
(* image, for every size of header, partition and field.                       *)
EXTENDS BootKernel, TLAPS

\* The fields of a header are numbers, whatever memory it was read from.
LEMMA HeaderFields ==
  ASSUME NEW h \in Headers
  PROVE  /\ h.page_size \in Fields /\ h.page_size \in Nat
         /\ h.kernel_size \in Fields /\ h.kernel_size \in Nat
         /\ h.magic \in BOOLEAN
BY SizeAssumption DEF Headers

\* What is below the modulus is its own remainder.
LEMMA NoWrap ==
  ASSUME NEW a \in Nat, NEW w \in Nat, a < w
  PROVE  a % w = a
OBVIOUS

\* A remainder is a value of UINT64.
LEMMA Remainder ==
  ASSUME NEW a \in Int, NEW w \in Nat \ {0}
  PROVE  a % w \in 0..(w - 1)
OBVIOUS

\* A read returns no more than was asked for, and a number of UINT64.
LEMMA ReadIsBounded ==
  ASSUME size \in Sizes, NEW o \in Fields, NEW n \in Fields
  PROVE  /\ num_read(o, n) \in 0..(Width - 1)
         /\ num_read(o, n) <= n
<1>1. size \in Nat /\ o \in Nat /\ n \in Nat /\ n < Width /\ Width \in Nat \ {0} /\ HeaderSize \in Nat
  BY SizeAssumption
<1>2. (size - o) % Width \in 0..(Width - 1)
  BY <1>1, Remainder
<1> QED BY <1>1, <1>2 DEF num_read

\* An accepted header asks for no more than there is, of a partition of any size.
LEMMA AcceptedAsks ==
  ASSUME NEW h \in Headers, Accepted(h)
  PROVE  h.kernel_size <= size
BY DEF Accepted

\* In a partition that holds a header, an accepted one lies within it, and so does
\* what is read of the kernel: all of it, if it fits.
LEMMA AcceptedFits ==
  ASSUME HoldsHeader, size \in Sizes, NEW h \in Headers, Accepted(h)
  PROVE  /\ HeaderSize + h.page_size <= size
         /\ h.kernel_size <= size
         /\ h.page_size + num_read(h.page_size, h.kernel_size) <= size
         /\ h.page_size + h.kernel_size <= size
              => num_read(h.page_size, h.kernel_size) = h.kernel_size
<1>1. /\ size \in Nat /\ HeaderSize \in Nat /\ Width \in Nat /\ size >= HeaderSize
      /\ h.page_size \in Nat /\ h.kernel_size \in Nat
      /\ h.page_size + size + HeaderSize < Width
  BY SizeAssumption, HeaderFields DEF HoldsHeader
<1>2. (size - HeaderSize) % Width = size - HeaderSize
  BY <1>1, NoWrap
<1>3. HeaderSize + h.page_size <= size /\ h.kernel_size <= size
  BY <1>1, <1>2 DEF Accepted
<1>4. (size - h.page_size) % Width = size - h.page_size
  BY <1>1, <1>3, NoWrap
<1> QED BY <1>1, <1>3, <1>4 DEF num_read

\* A header that is refused is a bad one, if it is the partition's.
LEMMA RefusedIsBad ==
  ASSUME HoldsHeader, size \in Sizes, image \in Images, ~Accepted(image.header)
  PROVE  BadFormat
<1>1. /\ size \in Nat /\ HeaderSize \in Nat /\ Width \in Nat /\ size >= HeaderSize
      /\ image.header \in Headers
  BY SizeAssumption DEF HoldsHeader, Images
<1>2. image.header.page_size \in Nat /\ image.header.kernel_size \in Nat
  BY <1>1, HeaderFields
<1>3. size < Width
  <2>1. image.header.page_size + size + HeaderSize < Width
    BY <1>1, SizeAssumption, HeaderFields
  <2> QED BY <1>1, <1>2, <2>1
<1>4. (size - HeaderSize) % Width = size - HeaderSize
  BY <1>1, <1>3, NoWrap
<1> QED BY <1>1, <1>2, <1>4 DEF Accepted, BadFormat

\* No header of the right form is taken for a bad one, and no bad one is let through.
LEMMA AcceptedIsGood ==
  ASSUME KernelInv, step \in AfterCheck, HoldsHeader
  PROVE  ~BadFormat
<1>1. size \in Sizes /\ head = image.header /\ head \in Headers /\ Accepted(head)
  BY DEF KernelInv, TypeOK, HeadIsRead, HeadIsAccepted, AfterHead
<1>2. HeaderSize + head.page_size <= size /\ head.kernel_size <= size /\ head.magic
  BY <1>1, AcceptedFits DEF Accepted
<1>3. size \in Nat /\ HeaderSize \in Nat /\ head.page_size \in Nat /\ head.kernel_size \in Nat
  BY <1>1, SizeAssumption, HeaderFields
<1> QED BY <1>1, <1>2, <1>3 DEF BadFormat

\* An image cannot be both.
LEMMA BadIsNotBootable ==
  ASSUME image \in Images, size \in Sizes, BadFormat
  PROVE  ~Bootable
<1>1. image.header \in Headers
  BY DEF Images
<1>2. /\ size \in Nat /\ HeaderSize \in Nat
      /\ image.header.page_size \in Nat /\ image.header.kernel_size \in Nat
  BY <1>1, SizeAssumption, HeaderFields
<1> QED BY <1>2 DEF BadFormat, Bootable

\* The kernel of a bootable image is in kernel_buf, all of it.
LEMMA BootableIsWhole ==
  ASSUME KernelInv, step \in AfterRead, Bootable
  PROVE  Whole /\ image.kernel = "runs"
<1>1. /\ HoldsHeader /\ size \in Sizes /\ head = image.header /\ head \in Headers
      /\ Accepted(head)
  BY DEF KernelInv, TypeOK, HeadIsRead, HeadIsAccepted, Bootable, AfterRead, AfterCheck,
         AfterHead
<1>2. /\ loaded.from = head.page_size /\ loaded.asked = head.kernel_size
      /\ loaded.read = num_read(head.page_size, head.kernel_size)
  BY DEF KernelInv, KernelIsRead
<1>3. head.page_size + head.kernel_size <= size
  BY <1>1 DEF Bootable
<1>4. loaded.read = loaded.asked
  BY <1>1, <1>2, <1>3, AcceptedFits
<1> QED BY <1>1, <1>2, <1>3, <1>4 DEF Whole, Bootable

--------------------------------------------------------------------------------
\* Nothing has been read, and nothing has failed, when bub_boot_kernel is called.
LEMMA InitKernelInv == Init => KernelInv
<1> SUFFICES ASSUME Init PROVE KernelInv
  OBVIOUS
<1>1. TypeOK
  <2>1. 0 \in 0..(Width - 1)
    BY SizeAssumption
  <2>2. DOMAIN loaded = {"from", "asked", "read"}
    BY DEF Init
  <2>3. \A k \in DOMAIN loaded : loaded[k] \in 0..(Width - 1)
    BY <2>1, <2>2 DEF Init
  <2> QED BY <2>2, <2>3 DEF Init, TypeOK, Steps, BootResult
<1>2. ReadsFit
  BY SizeAssumption DEF Init, ReadsFit, HoldsHeader
<1> QED BY <1>1, <1>2 DEF Init, KernelInv, HeadIsRead, HeadIsAccepted, KernelIsRead,
             FailureReturns, ResultFitsImage, AfterHead, AfterCheck, AfterRead

\* A step that leaves memory and partition alone keeps what is known of them.
LEMMA GoingOn ==
  ASSUME KernelInv, NEW s \in Steps \cup {"running"}, GoesTo(s), ~failed,
         s \in AfterHead => step \in AfterHead,
         s \in AfterCheck => Accepted(head),
         s \in AfterRead => step \in AfterRead,
         s = "running" => step = "start"
  PROVE  KernelInv'
<1>1. step' = s /\ UNCHANGED <<image, size, head, loaded, result, failed>>
  BY DEF GoesTo
<1>2. TypeOK'
  BY <1>1 DEF KernelInv, TypeOK
<1>3. HeadIsRead' /\ HeadIsAccepted' /\ KernelIsRead' /\ FailureReturns'
  BY <1>1 DEF KernelInv, HeadIsRead, HeadIsAccepted, KernelIsRead, FailureReturns, HoldsHeader,
              Accepted, num_read
<1>4. ReadsFit'
  BY <1>1 DEF KernelInv, ReadsFit, HoldsHeader
<1>5. HoldsHeader /\ BadFormat => s # "running"
  BY AcceptedIsGood DEF AfterCheck, AfterRead
<1>6. ResultFitsImage'
  <2>1. step' # "returned"
    BY <1>1 DEF Steps
  <2>2. (HoldsHeader /\ BadFormat)' => step' # "running"
    BY <1>1, <1>5 DEF HoldsHeader, BadFormat
  <2> QED BY <2>1, <2>2 DEF ResultFitsImage
<1> QED BY <1>2, <1>3, <1>4, <1>6 DEF KernelInv

\* A return keeps it, if its result is about the image or a service has failed.
LEMMA Returning ==
  ASSUME KernelInv, NEW r \in BootResult, Returns(r), failed' \in BOOLEAN,
         r = "INVALID_FORMAT" => BadFormat /\ ~failed',
         Bootable => failed',
         HoldsHeader /\ BadFormat => r # "BOOT_OK"
  PROVE  KernelInv'
<1>1. step' = "returned" /\ result' = r /\ UNCHANGED <<image, size, head, loaded>>
  BY DEF Returns
<1>2. TypeOK'
  BY <1>1 DEF KernelInv, TypeOK
<1>3. HeadIsRead' /\ HeadIsAccepted' /\ KernelIsRead' /\ FailureReturns'
  BY <1>1 DEF HeadIsRead, HeadIsAccepted, KernelIsRead, FailureReturns, AfterHead, AfterCheck,
              AfterRead
<1>4. ReadsFit'
  BY <1>1 DEF KernelInv, ReadsFit, HoldsHeader
<1>5. BadFormat' <=> BadFormat
  BY <1>1 DEF BadFormat, HoldsHeader
<1>6. Bootable' <=> Bootable
  BY <1>1 DEF Bootable, HoldsHeader
<1>7. HoldsHeader' <=> HoldsHeader
  BY <1>1 DEF HoldsHeader
<1>8. ResultFitsImage'
  BY <1>1, <1>5, <1>6, <1>7 DEF ResultFitsImage
<1> QED BY <1>2, <1>3, <1>4, <1>8 DEF KernelInv

\* Every error of a service but a bad format may be returned for it.
LEMMA Failing ==
  ASSUME KernelInv, NEW r \in BootResult \ {"INVALID_FORMAT", "BOOT_OK"}, Fails(r)
  PROVE  KernelInv'
<1>1. Returns(r) /\ failed' = TRUE
  BY DEF Fails
<1> QED BY <1>1, Returning

\* bub_boot_kernel keeps its invariant, whatever fails and wherever it returns.
LEMMA NextKernelInv == KernelInv /\ [Next]_vars => KernelInv'
<1> SUFFICES ASSUME KernelInv, [Next]_vars PROVE KernelInv'
  OBVIOUS
<1> USE DEF AfterHead, AfterCheck, AfterRead, Steps, BootResult
<1>1. CASE UNCHANGED vars
  BY <1>1 DEF vars, KernelInv, TypeOK, HeadIsRead, HeadIsAccepted, KernelIsRead, FailureReturns,
              ReadsFit, ResultFitsImage, HoldsHeader, Accepted, num_read, Bootable,
              BadFormat
<1>2. CASE AllocHead
  BY <1>2, GoingOn, Failing DEF AllocHead, KernelInv, FailureReturns
<1>3. CASE ReadHead
  <2>1. CASE size # NoPartition /\ step' = "lookup"
    <3>1. /\ size \in Sizes /\ image \in Images /\ head \in Headers /\ ~failed
          /\ UNCHANGED <<image, size, loaded, result, failed>>
          /\ head' = IF num_read(0, HeaderSize) = HeaderSize THEN image.header
                     ELSE IF num_read(0, HeaderSize) >= MagicSize
                       THEN [head EXCEPT !.magic = image.header.magic]
                     ELSE head
      BY <1>3, <2>1 DEF ReadHead, Returns, Fails, KernelInv, TypeOK, FailureReturns
    <3>2. head' \in Headers
      BY <3>1 DEF Headers, Images
    <3>3. HoldsHeader => head' = image.header
      <4> SUFFICES ASSUME HoldsHeader PROVE num_read(0, HeaderSize) = HeaderSize
        BY <3>1
      <4>1. /\ size \in Nat /\ HeaderSize \in Nat /\ Width \in Nat /\ HeaderSize <= size
            /\ head.page_size \in Nat /\ head.page_size + size + HeaderSize < Width
        BY <3>1, SizeAssumption, HeaderFields DEF HoldsHeader
      <4>2. size % Width = size /\ size - 0 = size
        BY <4>1, NoWrap
      <4> QED BY <4>1, <4>2 DEF num_read
    <3>4. TypeOK' /\ FailureReturns'
      BY <2>1, <3>1, <3>2 DEF KernelInv, TypeOK, FailureReturns
    <3>5. HeadIsRead' /\ HeadIsAccepted' /\ KernelIsRead'
      BY <2>1, <3>1, <3>3 DEF HeadIsRead, HeadIsAccepted, KernelIsRead, HoldsHeader
    <3>6. ReadsFit' /\ ResultFitsImage'
      BY <2>1, <3>1 DEF KernelInv, ReadsFit, ResultFitsImage, HoldsHeader
    <3> QED BY <3>4, <3>5, <3>6 DEF KernelInv
  <2>2. CASE size = NoPartition /\ Returns("IO") /\ UNCHANGED failed
    BY <2>2, Returning DEF KernelInv, TypeOK, Bootable, HoldsHeader
  <2>3. CASE Fails("IO")
    BY <2>3, Failing
  <2> QED BY <1>3, <2>1, <2>2, <2>3 DEF ReadHead
<1>4. CASE Lookup
  BY <1>4, GoingOn, Failing DEF Lookup, KernelInv, FailureReturns
<1>5. CASE CheckFormat
  <2>1. CASE Accepted(head) /\ GoesTo("alloc_kernel")
    BY <1>5, <2>1, GoingOn DEF CheckFormat, KernelInv, FailureReturns
  <2>2. CASE ~Accepted(head) /\ Returns("INVALID_FORMAT") /\ UNCHANGED failed
    <3>1. /\ step = "check" /\ ~failed /\ size \in Sizes /\ image \in Images
          /\ HoldsHeader => head = image.header
      BY <1>5 DEF CheckFormat, KernelInv, TypeOK, FailureReturns, HeadIsRead
    <3>2. BadFormat
      BY <2>2, <3>1, RefusedIsBad DEF BadFormat
    <3>3. ~Bootable
      BY <3>1, <3>2, BadIsNotBootable
    <3>4. failed' \in BOOLEAN /\ ~failed'
      BY <2>2, <3>1 DEF KernelInv, TypeOK
    <3> QED BY <2>2, <3>2, <3>3, <3>4, Returning
  <2> QED BY <1>5, <2>1, <2>2 DEF CheckFormat
<1>6. CASE AllocKernel
  BY <1>6, GoingOn, Failing DEF AllocKernel, KernelInv, FailureReturns, HeadIsAccepted
<1>7. CASE ReadKernel
  <2>1. CASE step' = "load"
    <3>1. /\ size \in Sizes /\ head \in Headers /\ Accepted(head) /\ ~failed
          /\ UNCHANGED <<image, size, head, result, failed>>
          /\ loaded' = [from  |-> head.page_size,
                        asked |-> head.kernel_size,
                        read  |-> num_read(head.page_size, head.kernel_size)]
          /\ HoldsHeader => head = image.header
      BY <1>7, <2>1 DEF ReadKernel, Returns, Fails, KernelInv, TypeOK, HeadIsRead, HeadIsAccepted,
                        FailureReturns
    <3>2. DOMAIN loaded' = {"from", "asked", "read"}
      BY <3>1
    <3>3. \A k \in DOMAIN loaded' : loaded'[k] \in 0..(Width - 1)
      <4>1. \A f \in Fields : f \in 0..(Width - 1)
        BY <3>1, SizeAssumption
      <4>2. head.page_size \in Fields /\ head.kernel_size \in Fields
        BY <3>1, HeaderFields
      <4>3. num_read(head.page_size, head.kernel_size) \in 0..(Width - 1)
        BY <3>1, <4>2, ReadIsBounded
      <4> QED BY <3>1, <3>2, <4>1, <4>2, <4>3
    <3>4. TypeOK' /\ FailureReturns'
      BY <2>1, <3>1, <3>2, <3>3 DEF KernelInv, TypeOK, FailureReturns
    <3>5. HeadIsRead' /\ HeadIsAccepted' /\ KernelIsRead'
      BY <2>1, <3>1 DEF HeadIsRead, HeadIsAccepted, KernelIsRead, HoldsHeader, Accepted, num_read
    <3>6. ReadsFit'
      <4>1. head.page_size \in Fields /\ head.kernel_size \in Fields
        BY <3>1, HeaderFields
      <4>2. loaded'.read <= loaded'.asked
        BY <3>1, <4>1, ReadIsBounded
      <4>3. loaded'.asked <= size'
        BY <3>1, AcceptedAsks
      <4>4. HoldsHeader' => loaded'.from + loaded'.read <= size'
        BY <3>1, AcceptedFits DEF HoldsHeader
      <4> QED BY <4>2, <4>3, <4>4 DEF ReadsFit
    <3>7. ResultFitsImage'
      BY <2>1 DEF ResultFitsImage
    <3> QED BY <3>4, <3>5, <3>6, <3>7 DEF KernelInv
  <2>2. CASE Fails("IO")
    BY <2>2, Failing
  <2> QED BY <1>7, <2>1, <2>2 DEF ReadKernel
<1>8. CASE LoadImage
  <2>1. CASE GoesTo("parameters")
    BY <1>8, <2>1, GoingOn DEF LoadImage, KernelInv, FailureReturns, HeadIsAccepted
  <2>2. CASE MayBe("not_an_image") /\ Returns("LOAD_KERNEL") /\ UNCHANGED failed
    <3>1. ~Bootable
      BY <1>8, <2>2, BootableIsWhole DEF LoadImage, MayBe
    <3> QED BY <2>2, <3>1, Returning DEF KernelInv, TypeOK
  <2>3. CASE Fails("LOAD_KERNEL")
    BY <2>3, Failing
  <2> QED BY <1>8, <2>1, <2>2, <2>3 DEF LoadImage
<1>9. CASE LoadParameters
  BY <1>9, GoingOn, Failing DEF LoadParameters, KernelInv, FailureReturns, HeadIsAccepted
<1>10. CASE StartImage
  <2>0. step = "start" /\ Accepted(head) /\ ~failed
    BY <1>10 DEF StartImage, KernelInv, FailureReturns, HeadIsAccepted
  <2>1. CASE GoesTo("running")
    BY <2>0, <2>1, GoingOn
  <2>2. CASE MayBe("returns") /\ Returns("BOOT_OK") /\ UNCHANGED failed
    <3>1. ~Bootable
      BY <2>0, <2>2, BootableIsWhole DEF MayBe
    <3>2. HoldsHeader => ~BadFormat
      BY <2>0, AcceptedIsGood
    <3> QED BY <2>2, <3>1, <3>2, Returning DEF KernelInv, TypeOK
  <2>3. CASE MayBe("does_not_start") /\ Returns("START_KERNEL") /\ UNCHANGED failed
    <3>1. ~Bootable
      BY <2>0, <2>3, BootableIsWhole DEF MayBe
    <3> QED BY <2>3, <3>1, Returning DEF KernelInv, TypeOK
  <2>4. CASE Fails("START_KERNEL")
    BY <2>4, Failing
  <2> QED BY <1>10, <2>1, <2>2, <2>3, <2>4 DEF StartImage
<1> QED BY <1>1, <1>2, <1>3, <1>4, <1>5, <1>6, <1>7, <1>8, <1>9, <1>10 DEF Next

\* Whatever fails, bub_boot_kernel has read the header it checks, and the kernel that
\* the accepted header describes (bub_boot_kernel.c:559-647).
THEOREM KernelInvariance == Spec => []KernelInv
BY InitKernelInv, NextKernelInv, PTL DEF Spec

\* Header, sizes and result have their types: no field and no count of bytes read
\* leaves UINT64.
THEOREM KernelTypeCorrect == Spec => []TypeOK
<1>1. KernelInv => TypeOK
  BY DEF KernelInv
<1> QED BY <1>1, KernelInvariance, PTL

\* The size checks of bub_boot_kernel.c:590-599, for every partition and every size in a
\* header: the kernel buffer is not overrun and no more is asked for than the partition
\* has, and what is read lies in the partition if that is long enough for a header.
THEOREM ReadsAlwaysFit == Spec => []ReadsFit
<1>1. KernelInv => ReadsFit
  BY DEF KernelInv
<1> QED BY <1>1, KernelInvariance, PTL

\* A slot is invalidated (bub_main.c:55-64) only for the bytes in its partition, an
\* image that is whole is refused only for a failure, and a bad one never starts.
THEOREM ResultsAreEarned == Spec => []ResultFitsImage
<1>1. KernelInv => ResultFitsImage
  BY DEF KernelInv
<1> QED BY <1>1, KernelInvariance, PTL
================================================================================
