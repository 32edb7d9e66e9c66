-------------------------- MODULE DiskDiscoveryProofs --------------------------
(* The walk along a device path of any length, over any devices, finds the       *)
(* topmost disk with a partition table, and hands out nothing else.              *)
EXTENDS DiskDiscovery, FiniteSetTheorems, WellFoundedInduction, TLAPS

\* Max returns what it says of every set that is bounded.
LEMMA Greatest ==
  ASSUME NEW n \in Nat, NEW T \in SUBSET (0..n), T # {}
  PROVE  Max(T) \in T /\ \A y \in T : y <= Max(T)
<1> DEFINE U == {n - x : x \in T}
<1>1. \A x \in T : x \in Nat /\ x <= n /\ n - x \in Nat
  OBVIOUS
<1>2. PICK z : z \in T
  OBVIOUS
<1>3. n - z \in U
  BY <1>2
<1>4. U \in SUBSET Nat /\ U # {}
  BY <1>1, <1>3
<1>5. PICK u \in U : \A y \in U : ~(<<y, u>> \in OpToRel(<, Nat))
  <2> HIDE DEF U
  <2> QED BY <1>4, NatLessThanWellFounded, WFMin
<1>6. \A y \in U : ~(y < u)
  BY <1>4, <1>5 DEF OpToRel
<1>7. PICK x \in T : u = n - x
  BY <1>5
<1>8. \A y \in T : ~(n - y < n - x)
  BY <1>6, <1>7
<1>9. \A y \in T : x >= y
  BY <1>1, <1>7, <1>8
<1>10. Max(T) \in T /\ \A y \in T : Max(T) >= y
  BY <1>9 DEF Max
<1> QED BY <1>1, <1>10

\* The beginnings of a path are counted from 0, and the longest is the path.
LEMMA PathLength ==
  ASSUME DOMAIN device \in {0..n : n \in PathLengths}
  PROVE  path_length \in Nat /\ DOMAIN device = 0..path_length
<1>1. PICK n \in PathLengths : DOMAIN device = 0..n
  OBVIOUS
<1>2. n \in Nat
  BY DeviceAssumption
<1>3. Max(0..n) \in 0..n /\ \A y \in 0..n : y <= Max(0..n)
  <2>1. (0..n) \in SUBSET (0..n) /\ (0..n) # {}
    BY <1>2
  <2> QED BY <1>2, <2>1, Greatest
<1>4. Max(0..n) = n
  BY <1>2, <1>3
<1> QED BY <1>1, <1>2, <1>4 DEF path_length

\* In a round of the walk the paths end on the path of the device.
LEMMA ReachIsOnPath ==
  ASSUME TypeOK, walker > 0
  PROVE  /\ Reach \in 1..path_length /\ walker <= Reach
         /\ Providing("BlockIo") \subseteq 1..path_length
         /\ Providing("DiskIo") \subseteq 1..path_length
<1>1. path_length \in Nat /\ walker \in 0..path_length
  BY PathLength DEF TypeOK
<1>2. Reach \in 1..path_length /\ walker <= Reach
  BY <1>1 DEF Reach, ReachOf
<1> QED BY <1>1, <1>2 DEF Providing

\* LocateDevicePath finds the longest beginning with the protocol, if there is one.
LEMMA LongestIsLocated ==
  ASSUME TypeOK, walker > 0, NEW protocol \in {"BlockIo", "DiskIo"}, Providing(protocol) # {}
  PROVE  IsLongest(Max(Providing(protocol)), protocol)
<1>1. path_length \in Nat
  BY PathLength DEF TypeOK
<1>2. Providing(protocol) \in SUBSET (0..path_length)
  BY <1>1, ReachIsOnPath
<1>3. Max(Providing(protocol)) \in Providing(protocol)
      /\ \A y \in Providing(protocol) : y <= Max(Providing(protocol))
  BY <1>1, <1>2, Greatest
<1> QED BY <1>3 DEF IsLongest

\* There is one longest.
LEMMA LongestIsUnique ==
  ASSUME TypeOK, walker > 0, NEW protocol \in {"BlockIo", "DiskIo"},
         NEW l, IsLongest(l, protocol), NEW m, IsLongest(m, protocol)
  PROVE  l = m
<1>1. path_length \in Nat
  BY PathLength DEF TypeOK
<1>2. l \in 1..path_length /\ m \in 1..path_length
  BY ReachIsOnPath DEF IsLongest
<1> QED BY <1>1, <1>2 DEF IsLongest

\* The round of a disk that can be found locates this disk, by both protocols.
LEMMA RoundLocatesItsDisk ==
  ASSUME TypeOK, walker > 0, Paired, NEW l \in 1..path_length, Findable(l), walker = RoundOf(l)
  PROVE  IsLongest(l, "BlockIo") /\ IsLongest(l, "DiskIo")
<1>1. path_length \in Nat /\ DOMAIN device = 0..path_length /\ walker \in 0..path_length
  BY PathLength DEF TypeOK
<1>2. "BlockIo" \in device[l].protocols /\ "DiskIo" \in device[l].protocols
  <2>1. "BlockIo" \in device[l].protocols
    BY DEF Findable, HoldsTable
  <2>2. device[l].protocols \in {{}, {"BlockIo", "DiskIo"}}
    BY <1>1 DEF Paired
  <2> QED BY <2>1, <2>2
<1>3. CASE l = 1 /\ path_length # 1
  <2>1. Reach = 2 /\ device[2].protocols = {}
    BY <1>1, <1>3 DEF Findable, RoundOf, Reach, ReachOf
  <2> QED BY <1>2, <1>3, <2>1 DEF IsLongest, Providing
<1>4. CASE ~(l = 1 /\ path_length # 1)
  <2>1. Reach = l
    BY <1>1, <1>4 DEF RoundOf, Reach, ReachOf
  <2> QED BY <1>1, <1>2, <2>1 DEF IsLongest, Providing
<1> QED BY <1>3, <1>4

\* A round loses as many paths as LocateDevicePath has moved, no more than two.
LEMMA LostInRound ==
  LET moved == Cardinality({k \in Kinds : path[k] = "inside"})
  IN  /\ moved \in 0..2
      /\ path.io # "inside" /\ path.disk # "inside" => moved = 0
<1> DEFINE S == {k \in Kinds : path[k] = "inside"}
<1>1. IsFiniteSet(Kinds) /\ Cardinality(Kinds) <= 2
  <2>1. IsFiniteSet({"io"}) /\ Cardinality({"io"}) = 1
    BY FS_Singleton
  <2>2. Kinds = {"io"} \cup {"disk"}
    BY DEF Kinds
  <2> QED BY <2>1, <2>2, FS_AddElement
<1>2. S \subseteq Kinds
  OBVIOUS
<1>3. IsFiniteSet(S) /\ Cardinality(S) <= Cardinality(Kinds)
  BY <1>1, <1>2, FS_Subset
<1>4. Cardinality(S) \in Nat /\ Cardinality(Kinds) \in Nat
  BY <1>1, <1>3, FS_CardinalityType
<1>5. ASSUME path.io # "inside", path.disk # "inside"
      PROVE  Cardinality(S) = 0
  <2>1. S = {}
    BY <1>5 DEF Kinds
  <2> QED BY <2>1, FS_EmptySet
<1> QED BY <1>1, <1>3, <1>4, <1>5

\* A later round comes to all that an earlier one comes to.
LEMMA EarlierRoundsComeToLess ==
  ASSUME TypeOK, walker < path_length, NoBlockDeviceBy(walker + 1)
  PROVE  NoBlockDeviceBy(walker)
<1>1. path_length \in Nat /\ walker \in 0..path_length
  BY PathLength DEF TypeOK
<1>2. ReachOf(walker) \in Nat /\ ReachOf(walker + 1) \in Nat /\ ReachOf(walker) <= ReachOf(walker + 1)
  BY <1>1 DEF ReachOf
<1>3. \A l \in 1..ReachOf(walker) : l \in 1..ReachOf(walker + 1)
  BY <1>2
<1> QED BY <1>3 DEF NoBlockDeviceBy

\* A round in which no block device is in reach locates none.
LEMMA NoneToLocate ==
  ASSUME HandlesAreLongest, NoBlockDeviceBy(walker)
  PROVE  ~BlockLocated
<1>1. Providing("BlockIo") = {}
  BY DEF NoBlockDeviceBy, Providing, Reach
<1> QED BY <1>1 DEF HandlesAreLongest, IsLongest

--------------------------------------------------------------------------------
(* The invariant, action by action.                                          *)

LEMMA DiscoveryInvInit ==
  Init => DiscoveryInv
<1> SUFFICES ASSUME Init PROVE DiscoveryInv
  OBVIOUS
<1>1. DOMAIN device \in {0..n : n \in PathLengths} /\ \A l \in DOMAIN device : device[l] \in Devices
  BY DEF Init
<1>2. path_length \in Nat
  BY <1>1, PathLength
<1>3. TypeOK
  <2>1. path \in [Kinds -> {"none", "start", "inside"}]
    BY DEF Init, Unallocated
  <2>2. handle \in [Kinds -> 0..path_length]
    BY <1>2 DEF Init
  <2>3. lost \in 0..(2 * path_length) /\ walker \in 0..path_length
    BY <1>2 DEF Init
  <2>4. step \in Steps /\ returned \in 0..1
    BY DEF Init, Steps
  <2>5. failed \in BOOLEAN
    BY DEF Init
  <2> QED BY <1>1, <2>1, <2>2, <2>3, <2>4, <2>5 DEF TypeOK
<1>4. \A l \in 1..path_length : 0 < RoundOf(l)
  BY <1>2 DEF RoundOf
<1>5. path.io = "none" /\ path.disk = "none"
  BY DEF Init, Unallocated, Kinds
<1>6. PathFollowsStep
  BY <1>5 DEF Init, PathFollowsStep, BlockLocated, DiskLocated
<1>7. NonePassedOver
  BY <1>4 DEF Init, NonePassedOver, InRound
<1>8. NoneLostUnmoved
  BY DEF Init, NoneLostUnmoved, InRound
<1> QED BY <1>3, <1>6, <1>7, <1>8 DEF Init, DiscoveryInv, TwoLostARound,
      HandlesAreLongest, BlockLocated, DiskLocated, InRound

\* What a step that leaves walker and device alone leaves alone with them.
LEMMA SameRound ==
  ASSUME UNCHANGED <<device, walker>>
  PROVE  /\ path_length' = path_length /\ Reach' = Reach /\ Paired' = Paired
         /\ Providing("BlockIo")' = Providing("BlockIo")
         /\ Providing("DiskIo")' = Providing("DiskIo")
         /\ \A l : Findable(l)' = Findable(l)
         /\ \A w : NoBlockDeviceBy(w)' = NoBlockDeviceBy(w)
BY DEF path_length, Reach, ReachOf, Paired, Providing, Findable, NoBlockDeviceBy

\* The way on to the next node, from each of the steps that it is taken from: either a
\* service has failed, or this round was not that of a disk to be found.
LEMMA ContinuePreservesInv ==
  ASSUME DiscoveryInv, InRound, step # "alloc_disk", Continue, UNCHANGED handle,
         failed' \in BOOLEAN, failed => failed',
         ~failed' /\ Paired => \A l \in 1..path_length : Findable(l) => walker # RoundOf(l)
  PROVE  DiscoveryInv'
<1> DEFINE moved == Cardinality({k \in Kinds : path[k] = "inside"})
<1>1. /\ step' = "walk" /\ UNCHANGED <<device, walker, returned, handle>>
      /\ path' = Unallocated /\ lost' = lost + moved
  BY DEF Continue, GoesTo
<1>2. /\ path_length \in Nat /\ walker \in 0..path_length /\ walker > 0
      /\ lost \in Nat /\ lost + 2 <= 2 * walker /\ returned = 0
  <2>1. path_length \in Nat
    BY PathLength DEF DiscoveryInv, TypeOK
  <2> QED BY <2>1 DEF DiscoveryInv, TypeOK, TwoLostARound, InRound, Steps
<1>3. moved \in 0..2 /\ (path.io # "inside" /\ path.disk # "inside" => moved = 0)
  BY LostInRound
<1> HIDE DEF moved
<1>4. UNCHANGED path_length /\ UNCHANGED Paired /\ \A l : Findable(l)' = Findable(l)
  BY <1>1, SameRound
<1>5. TypeOK'
  <2>1. path' \in [Kinds -> {"none", "start", "inside"}]
    BY <1>1 DEF Unallocated
  <2>2. lost' \in 0..(2 * path_length)
    BY <1>1, <1>2, <1>3
  <2>3. /\ DOMAIN device \in {0..n : n \in PathLengths} /\ \A l \in DOMAIN device : device[l] \in Devices
        /\ handle \in [Kinds -> 0..path_length] /\ returned \in 0..1
    BY DEF DiscoveryInv, TypeOK
  <2>4. step' \in Steps \cup {"returned", "wild"}
    BY <1>1 DEF Steps
  <2> QED BY <1>1, <1>2, <1>4, <2>1, <2>2, <2>3, <2>4 DEF TypeOK
<1>6. PathFollowsStep'
  <2>1. path'.io = "none" /\ path'.disk = "none"
    BY <1>1 DEF Unallocated, Kinds
  <2> QED BY <1>1, <1>2, <2>1 DEF PathFollowsStep, BlockLocated, DiskLocated
<1>7. TwoLostARound'
  BY <1>1, <1>2, <1>3 DEF TwoLostARound, InRound
<1>8. NoneLostUnmoved'
  <2>1. \A w : NoBlockDeviceBy(w)' = NoBlockDeviceBy(w)
    BY <1>1, SameRound
  <2> SUFFICES ASSUME NEW w \in 0..walker, NoBlockDeviceBy(w) PROVE lost' <= 2 * (walker - w)
    BY <1>1, <2>1 DEF NoneLostUnmoved, InRound
  <2>2. CASE w < walker
    <3>1. lost + 2 <= 2 * (walker - w)
      BY <2>2 DEF DiscoveryInv, NoneLostUnmoved
    <3> QED BY <1>1, <1>2, <1>3, <3>1
  <2>3. CASE w = walker
    <3>1. lost <= 0
      BY <1>2, <2>3 DEF DiscoveryInv, NoneLostUnmoved
    <3>2. ~BlockLocated
      BY <2>3, NoneToLocate DEF DiscoveryInv
    <3>3. path.io # "inside" /\ path.disk # "inside"
      BY <3>2 DEF DiscoveryInv, PathFollowsStep, BlockLocated, DiskLocated
    <3> QED BY <1>1, <1>2, <1>3, <2>3, <3>1, <3>3
  <2> QED BY <1>2, <2>2, <2>3
<1>9. HandlesAreLongest'
  BY <1>1, <1>2 DEF HandlesAreLongest, BlockLocated, DiskLocated
<1>10. NonePassedOver'
  <2> SUFFICES ASSUME ~failed', Paired, NEW l \in 1..path_length, Findable(l)
               PROVE  walker < RoundOf(l)
    BY <1>1, <1>2, <1>4 DEF NonePassedOver, InRound
  <2>1. walker <= RoundOf(l)
    BY DEF DiscoveryInv, NonePassedOver
  <2>2. RoundOf(l) \in Nat
    BY <1>2 DEF RoundOf
  <2> QED BY <1>2, <2>1, <2>2
<1> QED BY <1>1, <1>2, <1>5, <1>6, <1>7, <1>8, <1>9, <1>10 DEF DiscoveryInv, InRound

\* A step that stays in the round loses nothing and gives the walk no reason to pass
\* over anything, nor does the one that ends with a disk in hand and disk_path lost.
LEMMA StaysInRound ==
  ASSUME DiscoveryInv, InRound, UNCHANGED <<device, walker, failed>>,
         \/ InRound' /\ lost' = lost
         \/ step' = "returned" /\ returned' = 1 /\ lost' = lost + 1 /\ BlockLocated
  PROVE  TwoLostARound' /\ NoneLostUnmoved' /\ NonePassedOver' /\ walker' > 0
<1>1. /\ UNCHANGED path_length /\ UNCHANGED Paired /\ \A l : Findable(l)' = Findable(l)
      /\ \A w : NoBlockDeviceBy(w)' = NoBlockDeviceBy(w)
  BY SameRound
<1>2. path_length \in Nat /\ walker \in Nat /\ lost \in Nat /\ lost + 2 <= 2 * walker /\ walker > 0
  <2>1. path_length \in Nat
    BY PathLength DEF DiscoveryInv, TypeOK
  <2> QED BY <2>1 DEF DiscoveryInv, TypeOK, TwoLostARound
<1>3. TwoLostARound' /\ walker' > 0
  BY <1>2 DEF TwoLostARound, InRound, Steps
<1>4. NonePassedOver'
  <2> SUFFICES ASSUME ~failed, Paired, NEW l \in 1..path_length, Findable(l)
               PROVE  walker <= RoundOf(l)
    BY <1>1 DEF NonePassedOver, InRound, Steps
  <2> QED BY DEF DiscoveryInv, NonePassedOver
<1>5. NoneLostUnmoved'
  <2> SUFFICES ASSUME NEW w \in 0..walker, NoBlockDeviceBy(w)
               PROVE  lost' + (IF InRound' /\ w < walker THEN 2 ELSE 0) <= 2 * (walker - w)
    BY <1>1 DEF NoneLostUnmoved
  <2>1. lost + (IF w < walker THEN 2 ELSE 0) <= 2 * (walker - w)
    BY DEF DiscoveryInv, NoneLostUnmoved
  <2>2. CASE InRound' /\ lost' = lost
    BY <2>1, <2>2
  <2>3. CASE step' = "returned" /\ lost' = lost + 1 /\ BlockLocated
    <3>1. w # walker
      BY <2>3, NoneToLocate DEF DiscoveryInv
    <3>2. ~InRound'
      BY <2>3 DEF InRound, Steps
    <3> QED BY <1>2, <2>1, <2>3, <3>1, <3>2
  <2> QED BY <2>2, <2>3
<1> QED BY <1>3, <1>4, <1>5

LEMMA LoadedImagePreservesInv ==
  ASSUME DiscoveryInv, LoadedImage
  PROVE  DiscoveryInv'
<1>1. step = "image" /\ UNCHANGED <<device, walker, path, lost, handle>>
  BY DEF LoadedImage, GoesTo, Returns
<1>2. \/ step' = "walk" /\ returned' = returned /\ failed' = failed
      \/ step' = "returned" /\ returned' = 0 /\ failed' = TRUE
  BY DEF LoadedImage, GoesTo, Returns, Works, Fails
<1>3. UNCHANGED path_length /\ UNCHANGED Paired /\ \A l : Findable(l)' = Findable(l)
  BY <1>1, SameRound
<1>4. returned = 0 /\ returned' = 0 /\ step' \in {"walk", "returned"} /\ failed' \in BOOLEAN
  <2>1. returned = 0
    BY <1>1 DEF DiscoveryInv, TypeOK
  <2>2. failed' \in BOOLEAN
    BY <1>2 DEF DiscoveryInv, TypeOK
  <2> QED BY <1>2, <2>1, <2>2
<1>5. TypeOK'
  BY <1>1, <1>3, <1>4 DEF DiscoveryInv, TypeOK, Steps
<1>6. NonePassedOver'
  BY <1>1, <1>2, <1>3, <1>4 DEF DiscoveryInv, NonePassedOver, InRound
<1>7. NoneLostUnmoved'
  BY <1>1, <1>4, SameRound DEF DiscoveryInv, NoneLostUnmoved, InRound, Steps
<1> QED BY <1>1, <1>4, <1>5, <1>6, <1>7 DEF DiscoveryInv, PathFollowsStep, TwoLostARound,
      HandlesAreLongest, BlockLocated, DiskLocated, InRound, Steps

LEMMA WalkPathPreservesInv ==
  ASSUME DiscoveryInv, walk_path
  PROVE  DiscoveryInv'
<1>1. /\ step = "walk" /\ walker < path_length /\ walker' = walker + 1
      /\ UNCHANGED <<device, lost, handle>>
  BY DEF walk_path
<1>2. \/ path' = [path EXCEPT !.io = "start"] /\ step' = "alloc_disk" /\ returned' = returned /\ failed' = failed
      \/ path' = path /\ step' = "returned" /\ returned' = 0 /\ failed' = TRUE
  BY DEF walk_path, Works, Fails
<1>3. UNCHANGED path_length /\ UNCHANGED Paired /\ \A l : Findable(l)' = Findable(l)
  BY <1>1 DEF path_length, Paired, Findable
<1>4. /\ path_length \in Nat /\ walker \in Nat /\ lost \in Nat /\ lost <= 2 * walker
      /\ returned = 0 /\ returned' = 0 /\ step' \in {"alloc_disk", "returned"}
  <2>1. path_length \in Nat
    BY PathLength DEF DiscoveryInv, TypeOK
  <2> QED BY <1>1, <1>2, <2>1 DEF DiscoveryInv, TypeOK, TwoLostARound, InRound
<1>5. failed' \in BOOLEAN
  BY <1>2 DEF DiscoveryInv, TypeOK
<1>6. /\ path' \in [Kinds -> {"none", "start", "inside"}]
      /\ path'.io = IF step' = "alloc_disk" THEN "start" ELSE "none"
      /\ path'.disk = "none"
  <2>1. path \in [Kinds -> {"none", "start", "inside"}] /\ path.io = "none" /\ path.disk = "none"
    BY <1>1, <1>4 DEF DiscoveryInv, TypeOK, PathFollowsStep, BlockLocated, DiskLocated
  <2> QED BY <1>2, <2>1 DEF Kinds
<1>7. TypeOK'
  <2>1. walker' \in 0..path_length /\ lost' \in 0..(2 * path_length) /\ returned' \in 0..1
    BY <1>1, <1>4
  <2> QED BY <1>1, <1>3, <1>4, <1>5, <1>6, <2>1 DEF DiscoveryInv, TypeOK, Steps
<1>8. NonePassedOver'
  <2> SUFFICES ASSUME ~failed', Paired, NEW l \in 1..path_length, Findable(l)
               PROVE  walker' <= RoundOf(l) /\ step' # "returned"
    BY <1>3, <1>4 DEF NonePassedOver
  <2>1. ~failed /\ step' # "returned"
    BY <1>2
  <2>2. walker < RoundOf(l) /\ RoundOf(l) \in Nat
    <3>1. walker < RoundOf(l)
      BY <1>1, <2>1 DEF DiscoveryInv, NonePassedOver
    <3> QED BY <1>4, <3>1 DEF RoundOf
  <2> QED BY <1>1, <1>4, <2>1, <2>2
<1>9. PathFollowsStep'
  BY <1>4, <1>6 DEF PathFollowsStep, BlockLocated, DiskLocated
<1>10. TwoLostARound' /\ walker' > 0
  BY <1>1, <1>4 DEF TwoLostARound, InRound
<1>11. NoneLostUnmoved'
  <2>1. \A w : NoBlockDeviceBy(w)' = NoBlockDeviceBy(w)
    BY <1>1 DEF NoBlockDeviceBy, ReachOf, path_length
  <2>2. \A w \in 0..walker : NoBlockDeviceBy(w) => lost <= 2 * (walker - w)
    <3>1. ~InRound
      BY <1>1 DEF InRound
    <3>2. NoneLostUnmoved
      BY DEF DiscoveryInv
    <3> QED BY <1>4, <3>1, <3>2 DEF NoneLostUnmoved
  <2> SUFFICES ASSUME NEW w \in 0..(walker + 1), NoBlockDeviceBy(w)
               PROVE  lost + (IF w < walker + 1 THEN 2 ELSE 0) <= 2 * (walker + 1 - w)
    BY <1>1, <1>4, <2>1 DEF NoneLostUnmoved
  <2>3. CASE w \in 0..walker
    <3>1. lost <= 2 * (walker - w)
      BY <2>2, <2>3
    <3> QED BY <1>4, <2>3, <3>1
  <2>4. CASE w = walker + 1
    <3>1. NoBlockDeviceBy(walker)
      BY <1>1, <2>4, EarlierRoundsComeToLess DEF DiscoveryInv
    <3>2. lost <= 2 * (walker - walker)
      BY <1>4, <2>2, <3>1
    <3> QED BY <1>4, <2>4, <3>2
  <2> QED BY <1>4, <2>3, <2>4
<1> QED BY <1>1, <1>4, <1>7, <1>8, <1>9, <1>10, <1>11 DEF DiscoveryInv,
      HandlesAreLongest, BlockLocated, DiskLocated

LEMMA NothingFoundPreservesInv ==
  ASSUME DiscoveryInv, NothingFound
  PROVE  DiscoveryInv'
<1>1. /\ step = "walk" /\ walker = path_length /\ step' = "returned" /\ returned' = 0
      /\ UNCHANGED <<device, walker, path, lost, handle, failed>>
  BY DEF NothingFound, Returns
<1>2. UNCHANGED path_length /\ UNCHANGED Paired /\ \A l : Findable(l)' = Findable(l)
  BY <1>1, SameRound
<1>3. returned = 0
  BY <1>1 DEF DiscoveryInv, TypeOK
<1>4. NonePassedOver'
  <2> SUFFICES ASSUME ~failed, Paired, NEW l \in 1..path_length, Findable(l)
               PROVE  FALSE
    BY <1>1, <1>2 DEF NonePassedOver
  <2>1. path_length \in Nat
    BY PathLength DEF DiscoveryInv, TypeOK
  <2>2. path_length < RoundOf(l)
    BY <1>1 DEF DiscoveryInv, NonePassedOver
  <2> QED BY <2>1, <2>2 DEF RoundOf
<1>5. TypeOK'
  BY <1>1, <1>2 DEF DiscoveryInv, TypeOK
<1>6. NoneLostUnmoved'
  BY <1>1, SameRound DEF DiscoveryInv, NoneLostUnmoved, InRound, Steps
<1> QED BY <1>1, <1>3, <1>4, <1>5, <1>6 DEF DiscoveryInv, PathFollowsStep, TwoLostARound,
      HandlesAreLongest, BlockLocated, DiskLocated, InRound, Steps

LEMMA AllocDiskPathPreservesInv ==
  ASSUME DiscoveryInv, AllocDiskPath
  PROVE  DiscoveryInv'
<1>1. step = "alloc_disk" /\ UNCHANGED <<device, walker, lost, handle, returned>>
  BY DEF AllocDiskPath, GoesTo
<1>2. \/ path' = [path EXCEPT !.disk = "start"] /\ step' = "locate_block" /\ failed' = failed
      \/ path' = path /\ step' = "wild" /\ failed' = TRUE
  BY DEF AllocDiskPath, GoesTo, Works, Fails
<1>3. UNCHANGED path_length /\ returned = 0 /\ step' \in {"locate_block", "wild"}
  BY <1>1, <1>2, SameRound DEF DiscoveryInv, TypeOK
<1>4. /\ path' \in [Kinds -> {"none", "start", "inside"}]
      /\ path'.io = "start"
      /\ path'.disk = IF step' = "locate_block" THEN "start" ELSE "none"
  <2>1. path \in [Kinds -> {"none", "start", "inside"}] /\ path.io = "start" /\ path.disk = "none"
    BY <1>1, <1>3 DEF DiscoveryInv, TypeOK, PathFollowsStep, BlockLocated, DiskLocated
  <2> QED BY <1>2, <2>1 DEF Kinds
<1>5. failed' \in BOOLEAN
  BY <1>2 DEF DiscoveryInv, TypeOK
<1>6. TypeOK'
  BY <1>1, <1>3, <1>4, <1>5 DEF DiscoveryInv, TypeOK, Steps
<1>7. InRound /\ walker > 0
  BY <1>1 DEF DiscoveryInv, InRound, Steps
<1>8. NonePassedOver' /\ TwoLostARound' /\ NoneLostUnmoved'
  <2>1. CASE step' = "locate_block"
    <3>1. InRound' /\ UNCHANGED failed
      BY <1>2, <2>1 DEF InRound, Steps
    <3> QED BY <1>1, <1>7, <3>1, StaysInRound
  <2>2. CASE step' = "wild"
    <3>1. NonePassedOver'
      BY <1>2, <2>2 DEF NonePassedOver
    <3>2. ~InRound' /\ walker \in Nat /\ lost \in Nat
      <4>1. path_length \in Nat
        BY PathLength DEF DiscoveryInv, TypeOK
      <4> QED BY <2>2, <4>1 DEF InRound, Steps, DiscoveryInv, TypeOK
    <3>3. TwoLostARound'
      BY <1>1, <1>7, <3>2 DEF DiscoveryInv, TwoLostARound
    <3>4. NoneLostUnmoved'
      <4>1. \A w : NoBlockDeviceBy(w)' = NoBlockDeviceBy(w)
        BY <1>1, SameRound
      <4> SUFFICES ASSUME NEW w \in 0..walker, NoBlockDeviceBy(w) PROVE lost <= 2 * (walker - w)
        BY <1>1, <3>2, <4>1 DEF NoneLostUnmoved
      <4>2. lost + (IF w < walker THEN 2 ELSE 0) <= 2 * (walker - w)
        BY <1>7 DEF DiscoveryInv, NoneLostUnmoved
      <4> QED BY <3>2, <4>2
    <3> QED BY <3>1, <3>3, <3>4
  <2> QED BY <1>3, <2>1, <2>2
<1>9. PathFollowsStep'
  BY <1>1, <1>3, <1>4 DEF PathFollowsStep, BlockLocated, DiskLocated
<1> QED BY <1>1, <1>2, <1>3, <1>6, <1>7, <1>8, <1>9 DEF DiscoveryInv,
      HandlesAreLongest, BlockLocated, DiskLocated, InRound

LEMMA LocateBlockIoPreservesInv ==
  ASSUME DiscoveryInv, LocateBlockIo
  PROVE  DiscoveryInv'
<1>1. /\ step = "locate_block" /\ InRound /\ walker > 0 /\ TypeOK
      /\ path \in [Kinds -> {"none", "start", "inside"}] /\ path.disk = "start"
      /\ handle \in [Kinds -> 0..path_length]
      /\ failed \in BOOLEAN
  <2>1. step = "locate_block"
    BY DEF LocateBlockIo
  <2>2. failed \in BOOLEAN
    BY DEF DiscoveryInv, TypeOK
  <2> QED BY <2>1, <2>2 DEF DiscoveryInv, InRound, Steps, TypeOK, PathFollowsStep, DiskLocated
<1>2. CASE Continue /\ UNCHANGED handle /\ Fails
  <2>1. failed' = TRUE
    BY <1>2 DEF Fails
  <2> QED BY <1>1, <1>2, <2>1, ContinuePreservesInv
<1>3. CASE Providing("BlockIo") = {} /\ Continue /\ UNCHANGED handle /\ Works
  <2>1. UNCHANGED failed
    BY <1>3 DEF Works
  <2>2. Paired => \A l \in 1..path_length : Findable(l) => walker # RoundOf(l)
    BY <1>1, <1>3, RoundLocatesItsDisk DEF IsLongest
  <2> QED BY <1>1, <1>3, <2>1, <2>2, ContinuePreservesInv
<1>4. CASE /\ Providing("BlockIo") # {}
           /\ handle' = [handle EXCEPT !["io"] = Max(Providing("BlockIo"))]
           /\ path' = [path EXCEPT !["io"] = "inside"]
           /\ GoesTo("locate_disk") /\ UNCHANGED lost /\ Works
  <2>1. step' = "locate_disk" /\ InRound' /\ UNCHANGED <<device, walker, returned, lost, failed>>
    BY <1>4 DEF GoesTo, Works, InRound, Steps
  <2>2. UNCHANGED path_length /\ UNCHANGED Providing("BlockIo")
    BY <2>1, SameRound
  <2>3. IsLongest(Max(Providing("BlockIo")), "BlockIo")
    BY <1>1, <1>4, LongestIsLocated
  <2>4. Max(Providing("BlockIo")) \in 0..path_length
    <3>1. path_length \in Nat
      BY PathLength DEF DiscoveryInv, TypeOK
    <3> QED BY <1>1, <2>3, <3>1, ReachIsOnPath DEF IsLongest
  <2>5. handle' \in [Kinds -> 0..path_length] /\ handle'.io = Max(Providing("BlockIo"))
    BY <1>1, <1>4, <2>4 DEF Kinds
  <2>6. path' \in [Kinds -> {"none", "start", "inside"}] /\ path'.io = "inside" /\ path'.disk = "start"
    BY <1>1, <1>4 DEF Kinds
  <2>7. TypeOK'
    BY <2>1, <2>2, <2>5, <2>6 DEF DiscoveryInv, TypeOK, Steps
  <2>8. TwoLostARound' /\ NoneLostUnmoved' /\ NonePassedOver' /\ walker' > 0
    BY <1>1, <2>1, StaysInRound
  <2>9. HandlesAreLongest'
    <3>1. ~DiskLocated'
      BY <1>1, <2>1 DEF DiscoveryInv, DiskLocated
    <3> QED BY <2>2, <2>3, <2>5, <3>1 DEF HandlesAreLongest, IsLongest
  <2>10. returned' = 0
    BY <1>1, <2>1 DEF DiscoveryInv, TypeOK
  <2>11. PathFollowsStep'
    BY <2>1, <2>6, <2>10 DEF PathFollowsStep, BlockLocated, DiskLocated
  <2> QED BY <2>1, <2>7, <2>8, <2>9, <2>10, <2>11 DEF DiscoveryInv
<1> QED BY <1>2, <1>3, <1>4 DEF LocateBlockIo, Locates

LEMMA LocateDiskIoPreservesInv ==
  ASSUME DiscoveryInv, LocateDiskIo
  PROVE  DiscoveryInv'
<1>1. /\ step = "locate_disk" /\ InRound /\ walker > 0 /\ TypeOK
      /\ path \in [Kinds -> {"none", "start", "inside"}] /\ path.io = "inside"
      /\ handle \in [Kinds -> 0..path_length] /\ IsLongest(handle.io, "BlockIo")
      /\ failed \in BOOLEAN
  <2>1. step = "locate_disk"
    BY DEF LocateDiskIo
  <2>2. failed \in BOOLEAN
    BY DEF DiscoveryInv, TypeOK
  <2> QED BY <2>1, <2>2 DEF DiscoveryInv, InRound, Steps, TypeOK, PathFollowsStep, BlockLocated,
            HandlesAreLongest
<1>2. CASE Continue /\ UNCHANGED handle /\ Fails
  <2>1. failed' = TRUE
    BY <1>2 DEF Fails
  <2> QED BY <1>1, <1>2, <2>1, ContinuePreservesInv
<1>3. CASE Providing("DiskIo") = {} /\ Continue /\ UNCHANGED handle /\ Works
  <2>1. UNCHANGED failed
    BY <1>3 DEF Works
  <2>2. Paired => \A l \in 1..path_length : Findable(l) => walker # RoundOf(l)
    BY <1>1, <1>3, RoundLocatesItsDisk DEF IsLongest
  <2> QED BY <1>1, <1>3, <2>1, <2>2, ContinuePreservesInv
<1>4. CASE /\ Providing("DiskIo") # {}
           /\ handle' = [handle EXCEPT !["disk"] = Max(Providing("DiskIo"))]
           /\ path' = [path EXCEPT !["disk"] = "inside"]
           /\ GoesTo("handle_block") /\ UNCHANGED lost /\ Works
  <2>1. step' = "handle_block" /\ InRound' /\ UNCHANGED <<device, walker, returned, lost, failed>>
    BY <1>4 DEF GoesTo, Works, InRound, Steps
  <2>2. UNCHANGED path_length /\ UNCHANGED Providing("BlockIo") /\ UNCHANGED Providing("DiskIo")
    BY <2>1, SameRound
  <2>3. IsLongest(Max(Providing("DiskIo")), "DiskIo")
    BY <1>1, <1>4, LongestIsLocated
  <2>4. Max(Providing("DiskIo")) \in 0..path_length
    <3>1. path_length \in Nat
      BY PathLength DEF DiscoveryInv, TypeOK
    <3> QED BY <1>1, <2>3, <3>1, ReachIsOnPath DEF IsLongest
  <2>5. /\ handle' \in [Kinds -> 0..path_length]
        /\ handle'.io = handle.io /\ handle'.disk = Max(Providing("DiskIo"))
    BY <1>1, <1>4, <2>4 DEF Kinds
  <2>6. path' \in [Kinds -> {"none", "start", "inside"}] /\ path'.io = "inside" /\ path'.disk = "inside"
    BY <1>1, <1>4 DEF Kinds
  <2>7. TypeOK'
    BY <2>1, <2>2, <2>5, <2>6 DEF DiscoveryInv, TypeOK, Steps
  <2>8. TwoLostARound' /\ NoneLostUnmoved' /\ NonePassedOver' /\ walker' > 0
    BY <1>1, <2>1, StaysInRound
  <2>9. HandlesAreLongest'
    BY <1>1, <2>2, <2>3, <2>5 DEF HandlesAreLongest, IsLongest
  <2>10. returned' = 0
    BY <1>1, <2>1 DEF DiscoveryInv, TypeOK
  <2>11. PathFollowsStep'
    BY <2>1, <2>6, <2>10 DEF PathFollowsStep, BlockLocated, DiskLocated
  <2> QED BY <2>1, <2>7, <2>8, <2>9, <2>10, <2>11 DEF DiscoveryInv
<1> QED BY <1>2, <1>3, <1>4 DEF LocateDiskIo, Locates

\* The steps that come after both handles are located, and change neither: within the
\* round, or out of it with the disk.
LEMMA LaterStepPreservesInv ==
  ASSUME DiscoveryInv, step \in {"handle_block", "handle_disk", "media", "read"},
         UNCHANGED <<device, walker, handle, failed>>,
         \/ /\ step' \in {"handle_disk", "media", "read"} /\ UNCHANGED <<path, lost, returned>>
            /\ step' = "read" => Whole(block_io)
         \/ /\ step' = "returned" /\ returned' = 1 /\ HoldsTable(block_io)
            /\ path' = [path EXCEPT !.disk = "none"] /\ lost' = lost + 1
  PROVE  DiscoveryInv'
<1>1. /\ InRound /\ BlockLocated /\ DiskLocated /\ returned = 0
      /\ path \in [Kinds -> {"none", "start", "inside"}] /\ path.io = "inside" /\ path.disk = "inside"
  <2>1. InRound /\ BlockLocated /\ DiskLocated /\ returned = 0
    BY DEF DiscoveryInv, InRound, Steps, BlockLocated, DiskLocated, TypeOK
  <2> QED BY <2>1 DEF DiscoveryInv, TypeOK, PathFollowsStep
<1>2. BlockLocated' /\ DiskLocated'
  BY DEF BlockLocated, DiskLocated
<1>3. TwoLostARound' /\ NoneLostUnmoved' /\ NonePassedOver' /\ walker' > 0
  <2>1. \/ InRound' /\ lost' = lost
        \/ step' = "returned" /\ returned' = 1 /\ lost' = lost + 1 /\ BlockLocated
    BY <1>1 DEF InRound, Steps
  <2> QED BY <1>1, <2>1, StaysInRound
<1>4. UNCHANGED path_length /\ UNCHANGED Providing("BlockIo") /\ UNCHANGED Providing("DiskIo")
  BY SameRound
<1>5. /\ path' \in [Kinds -> {"none", "start", "inside"}] /\ path'.io = "inside"
      /\ path'.disk = IF returned' = 0 THEN "inside" ELSE "none"
  BY <1>1 DEF Kinds
<1>6. TypeOK'
  <2>1. lost' \in 0..(2 * path_length)
    <3>1. path_length \in Nat
      BY PathLength DEF DiscoveryInv, TypeOK
    <3>2. lost \in Nat /\ walker \in 0..path_length /\ lost + 2 <= 2 * walker
      BY <1>1, <3>1 DEF DiscoveryInv, TypeOK, TwoLostARound
    <3>3. lost' = lost \/ lost' = lost + 1
      OBVIOUS
    <3> QED BY <3>1, <3>2, <3>3
  <2>2. step' \in Steps \cup {"returned", "wild"} /\ returned' \in 0..1
    BY <1>1 DEF Steps
  <2> QED BY <1>4, <1>5, <2>1, <2>2 DEF DiscoveryInv, TypeOK
<1>7. HandlesAreLongest'
  BY <1>1, <1>4 DEF DiscoveryInv, HandlesAreLongest, IsLongest
<1>8. PathFollowsStep'
  BY <1>2, <1>5 DEF PathFollowsStep
<1>9. UNCHANGED block_io
  BY DEF block_io
<1> QED BY <1>1, <1>3, <1>6, <1>7, <1>8, <1>9 DEF DiscoveryInv

\* The device located is one of the path, with BlockIo.
LEMMA LocatedIsDevice ==
  ASSUME DiscoveryInv, BlockLocated, walker > 0
  PROVE  block_io \in Devices /\ "BlockIo" \in block_io.protocols
<1>1. path_length \in Nat /\ DOMAIN device = 0..path_length
  BY PathLength DEF DiscoveryInv, TypeOK
<1>2. handle.io \in Providing("BlockIo")
  BY DEF DiscoveryInv, HandlesAreLongest, IsLongest
<1>3. handle.io \in 1..path_length
  BY <1>2, ReachIsOnPath DEF DiscoveryInv
<1>4. \A l \in DOMAIN device : device[l] \in Devices
  BY DEF DiscoveryInv, TypeOK
<1> QED BY <1>1, <1>2, <1>3, <1>4 DEF block_io, Providing

\* In the round of a disk that can be found, it is the one located.
LEMMA LocatedIsFindable ==
  ASSUME DiscoveryInv, BlockLocated, walker > 0, Paired,
         NEW l \in 1..path_length, Findable(l), walker = RoundOf(l)
  PROVE  handle.io = l /\ HoldsTable(block_io)
<1>1. TypeOK /\ IsLongest(handle.io, "BlockIo")
  BY DEF DiscoveryInv, HandlesAreLongest
<1>2. IsLongest(l, "BlockIo")
  BY <1>1, RoundLocatesItsDisk
<1>3. handle.io = l
  BY <1>1, <1>2, LongestIsUnique
<1> QED BY <1>3 DEF Findable, block_io

\* validate_gpt, a device that can be read and its media are what the disk is to have.
LEMMA ChecksAreTheTable ==
  ASSUME NEW d \in Devices, "BlockIo" \in d.protocols
  PROVE  HoldsTable(d) <=> Whole(d) /\ ReadsHeader(d) /\ validate_gpt(d.header)
<1>1. d.header.header_size \in Nat
  BY DeviceAssumption DEF Headers
<1> QED BY <1>1 DEF HoldsTable, Whole, ReadsHeader, validate_gpt, GPT_MIN_SIZE, BUB_BLOCK_SIZE

LEMMA HandlesPreserveInv ==
  ASSUME DiscoveryInv, HandleBlockIo \/ HandleDiskIo
  PROVE  DiscoveryInv'
<1>1. step \in {"handle_block", "handle_disk"} /\ UNCHANGED handle
  BY DEF HandleBlockIo, HandleDiskIo
<1>2. CASE Continue /\ Fails
  <2>1. failed' = TRUE
    BY <1>2 DEF Fails
  <2>2. InRound /\ step # "alloc_disk"
    BY <1>1 DEF InRound, Steps
  <2> QED BY <1>1, <1>2, <2>1, <2>2, ContinuePreservesInv
<1>3. CASE (GoesTo("handle_disk") \/ GoesTo("media")) /\ UNCHANGED <<path, lost>> /\ Works
  <2>1. /\ step' \in {"handle_disk", "media"}
        /\ UNCHANGED <<device, walker, path, lost, handle, failed, returned>>
    BY <1>1, <1>3 DEF GoesTo, Works
  <2> QED BY <1>1, <2>1, LaterStepPreservesInv
<1> QED BY <1>2, <1>3 DEF HandleBlockIo, HandleDiskIo

LEMMA CheckMediaPreservesInv ==
  ASSUME DiscoveryInv, CheckMedia
  PROVE  DiscoveryInv'
<1>1. step = "media" /\ UNCHANGED <<handle, failed>>
  BY DEF CheckMedia
<1>2. InRound /\ BlockLocated /\ walker > 0
  BY <1>1 DEF DiscoveryInv, InRound, BlockLocated, Steps
<1>3. CASE Whole(block_io)
  <2>1. step' = "read" /\ UNCHANGED <<device, walker, path, lost, returned>>
    BY <1>3 DEF CheckMedia, GoesTo
  <2> QED BY <1>1, <1>3, <2>1, LaterStepPreservesInv
<1>4. CASE ~Whole(block_io)
  <2>1. Continue
    BY <1>4 DEF CheckMedia
  <2>2. Paired => \A l \in 1..path_length : Findable(l) => walker # RoundOf(l)
    BY <1>2, <1>4, LocatedIsFindable DEF HoldsTable, Whole
  <2>3. failed' \in BOOLEAN
    BY <1>1 DEF DiscoveryInv, TypeOK
  <2> QED BY <1>1, <1>2, <2>1, <2>2, <2>3, ContinuePreservesInv
<1> QED BY <1>3, <1>4

LEMMA ReadHeaderPreservesInv ==
  ASSUME DiscoveryInv, ReadHeader
  PROVE  DiscoveryInv'
<1>1. step = "read" /\ UNCHANGED handle
  BY DEF ReadHeader
<1>2. InRound /\ BlockLocated /\ walker > 0 /\ Whole(block_io)
  BY <1>1 DEF DiscoveryInv, InRound, BlockLocated, Steps
<1>3. HoldsTable(block_io) <=> ReadsHeader(block_io) /\ validate_gpt(block_io.header)
  BY <1>2, LocatedIsDevice, ChecksAreTheTable
<1>4. CASE Continue /\ Fails
  <2>1. failed' = TRUE
    BY <1>4 DEF Fails
  <2> QED BY <1>1, <1>2, <1>4, <2>1, ContinuePreservesInv
<1>5. CASE ~HoldsTable(block_io) /\ Continue /\ Works
  <2>1. Paired => \A l \in 1..path_length : Findable(l) => walker # RoundOf(l)
    BY <1>2, <1>5, LocatedIsFindable
  <2>2. UNCHANGED failed
    BY <1>5 DEF Works
  <2>3. failed' \in BOOLEAN
    BY <2>2 DEF DiscoveryInv, TypeOK
  <2> QED BY <1>1, <1>2, <1>5, <2>1, <2>2, <2>3, ContinuePreservesInv
<1>6. CASE /\ HoldsTable(block_io) /\ Returns(1) /\ Works
           /\ path' = [path EXCEPT !.disk = "none"] /\ lost' = lost + 1
  <2>1. /\ step' = "returned" /\ returned' = 1
        /\ UNCHANGED <<device, walker, handle, failed>>
    BY <1>1, <1>6 DEF Returns, Works
  <2> QED BY <1>1, <1>6, <2>1, LaterStepPreservesInv
<1> QED BY <1>3, <1>4, <1>5, <1>6 DEF ReadHeader

LEMMA StutterPreservesInv ==
  DiscoveryInv /\ UNCHANGED vars => DiscoveryInv'
<1> SUFFICES ASSUME DiscoveryInv, UNCHANGED vars PROVE DiscoveryInv'
  OBVIOUS
<1>1. UNCHANGED <<device, step, walker, path, lost, handle, returned, failed>>
  BY DEF vars
<1>2. /\ UNCHANGED path_length /\ UNCHANGED Paired /\ \A l : Findable(l)' = Findable(l)
      /\ UNCHANGED Providing("BlockIo") /\ UNCHANGED Providing("DiskIo")
      /\ \A w : NoBlockDeviceBy(w)' = NoBlockDeviceBy(w)
  BY <1>1, SameRound
<1>3. TypeOK' /\ PathFollowsStep' /\ TwoLostARound' /\ NoneLostUnmoved'
  BY <1>1, <1>2 DEF DiscoveryInv, TypeOK, PathFollowsStep, TwoLostARound, NoneLostUnmoved,
     BlockLocated, DiskLocated, InRound
<1>4. HandlesAreLongest'
  BY <1>1, <1>2 DEF DiscoveryInv, HandlesAreLongest, IsLongest, BlockLocated, DiskLocated
<1>5. NonePassedOver'
  BY <1>1, <1>2 DEF DiscoveryInv, NonePassedOver, InRound
<1> QED BY <1>1, <1>3, <1>4, <1>5 DEF DiscoveryInv, InRound, block_io

--------------------------------------------------------------------------------
(* The theorems.                                                             *)

\* Each step of getDiskBlockIo keeps what the others rely on: where the paths point,
\* what each handle is the longest of, and that no disk has been passed over
\* (bub_boot_kernel.c:246-365).
THEOREM DiscoveryInvariance == Spec => []DiscoveryInv
<1>1. Init => DiscoveryInv
  BY DiscoveryInvInit
<1>2. DiscoveryInv /\ [Next]_vars => DiscoveryInv'
  <2> SUFFICES ASSUME DiscoveryInv, [Next]_vars PROVE DiscoveryInv'
    OBVIOUS
  <2>1. CASE LoadedImage
    BY <2>1, LoadedImagePreservesInv
  <2>2. CASE walk_path
    BY <2>2, WalkPathPreservesInv
  <2>3. CASE NothingFound
    BY <2>3, NothingFoundPreservesInv
  <2>4. CASE AllocDiskPath
    BY <2>4, AllocDiskPathPreservesInv
  <2>5. CASE LocateBlockIo
    BY <2>5, LocateBlockIoPreservesInv
  <2>6. CASE LocateDiskIo
    BY <2>6, LocateDiskIoPreservesInv
  <2>7. CASE HandleBlockIo \/ HandleDiskIo
    BY <2>7, HandlesPreserveInv
  <2>8. CASE CheckMedia
    BY <2>8, CheckMediaPreservesInv
  <2>9. CASE ReadHeader
    BY <2>9, ReadHeaderPreservesInv
  <2>10. CASE UNCHANGED vars
    BY <2>10, StutterPreservesInv
  <2> QED BY <2>1, <2>2, <2>3, <2>4, <2>5, <2>6, <2>7, <2>8, <2>9, <2>10 DEF Next
<1> QED BY <1>1, <1>2, PTL DEF Spec

\* The state of the walk keeps its types; no round loses more than its two paths.
THEOREM DiscoveryTypeCorrect == Spec => []TypeOK
<1>1. DiscoveryInv => TypeOK
  BY DEF DiscoveryInv
<1> QED BY <1>1, DiscoveryInvariance, PTL

\* bub_init succeeds with a disk that holds the partition table, and with both of its
\* protocols, for every path and whatever lies on it (bub_boot_kernel.c:284-364).
THEOREM SuccessIsADisk == Spec => []HandsOutADisk
<1>1. DiscoveryInv => HandsOutADisk
  <2> SUFFICES ASSUME DiscoveryInv, step = "returned", returned = 1
               PROVE  HoldsTable(block_io) /\ (Paired => handle.io = handle.disk)
    BY DEF HandsOutADisk
  <2>1. HoldsTable(block_io) /\ TypeOK
    BY DEF DiscoveryInv
  <2>2. IsLongest(handle.io, "BlockIo") /\ IsLongest(handle.disk, "DiskIo")
    BY DEF DiscoveryInv, HandlesAreLongest, BlockLocated, DiskLocated
  <2>3. ASSUME Paired PROVE handle.io = handle.disk
    <3>1. path_length \in Nat /\ DOMAIN device = 0..path_length /\ walker \in 0..path_length
      BY <2>1, PathLength DEF TypeOK
    <3>2. Reach \in 0..path_length
      BY <3>1 DEF Reach, ReachOf
    <3>3. Providing("BlockIo") = Providing("DiskIo") /\ Providing("BlockIo") \subseteq Nat
      BY <2>3, <3>1, <3>2 DEF Providing, Paired
    <3> QED BY <2>2, <3>3 DEF IsLongest
  <2> QED BY <2>1, <2>3
<1> QED BY <1>1, DiscoveryInvariance, PTL

\* If no firmware service fails, the disk returned is the first one on the path that
\* holds a table, and one is returned if there is any (bub_boot_kernel.c:242-245).
THEOREM TopmostIsFound == Spec => []FindsTheTopmost
<1>1. DiscoveryInv => FindsTheTopmost
  <2> SUFFICES ASSUME DiscoveryInv, step = "returned", ~failed, Paired,
                      NEW l \in 1..path_length, Findable(l)
               PROVE  returned = 1 /\ handle.io <= l
    BY DEF FindsTheTopmost, Findable
  <2>1. returned = 1 /\ walker <= RoundOf(l)
    BY DEF DiscoveryInv, NonePassedOver
  <2>2. path_length \in Nat /\ walker \in 0..path_length /\ DOMAIN device = 0..path_length
    BY PathLength DEF DiscoveryInv, TypeOK
  <2>3. BlockLocated /\ handle.io \in Providing("BlockIo")
    BY <2>1 DEF DiscoveryInv, HandlesAreLongest, IsLongest, BlockLocated
  <2>4. handle.io \in Nat /\ handle.io <= Reach /\ walker > 0
    BY <2>1, <2>2, <2>3 DEF Providing, Reach, ReachOf, DiscoveryInv
  <2>5. CASE l = 1
    <3>1. walker = RoundOf(l)
      BY <2>1, <2>2, <2>4, <2>5 DEF RoundOf
    <3>2. handle.io = l
      BY <2>3, <2>4, <3>1, LocatedIsFindable
    <3> QED BY <2>1, <3>2
  <2>6. CASE l # 1
    BY <2>1, <2>2, <2>4, <2>6 DEF RoundOf, Reach, ReachOf
  <2> QED BY <2>5, <2>6
<1> QED BY <1>1, DiscoveryInvariance, PTL

\* For every path and whatever lies on it, every way on to the next node and every failing
\* return has called bub_free for both pointers, and only the rounds that come to a block
\* device lose memory, two allocations each (bub_boot_kernel.c:281-365).
THEOREM OnlyMovedPathsLost == Spec => []OnlyMovedPathsAreLost
<1>1. ASSUME DiscoveryInv, step = "walk" \/ (step = "returned" /\ returned = 0)
      PROVE  path = Unallocated
  <2>1. returned = 0
    BY <1>1 DEF DiscoveryInv, TypeOK
  <2>2. path.io = "none" /\ path.disk = "none" /\ path \in [Kinds -> {"none", "start", "inside"}]
    BY <1>1, <2>1 DEF DiscoveryInv, TypeOK, PathFollowsStep, BlockLocated, DiskLocated
  <2> QED BY <2>2 DEF Unallocated, Kinds
<1>2. ASSUME DiscoveryInv, NEW w \in 0..walker, NoBlockDeviceBy(w)
      PROVE  lost <= 2 * (walker - w)
  <2>1. path_length \in Nat
    BY <1>2, PathLength DEF DiscoveryInv, TypeOK
  <2>2. walker \in Nat /\ lost \in Nat
    BY <1>2, <2>1 DEF DiscoveryInv, TypeOK
  <2>3. lost + (IF InRound /\ w < walker THEN 2 ELSE 0) <= 2 * (walker - w)
    BY <1>2 DEF DiscoveryInv, NoneLostUnmoved
  <2> QED BY <2>2, <2>3
<1>3. DiscoveryInv => OnlyMovedPathsAreLost
  BY <1>1, <1>2 DEF OnlyMovedPathsAreLost
<1> QED BY <1>3, DiscoveryInvariance, PTL
================================================================================
