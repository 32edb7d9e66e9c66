-------------------------- MODULE SeccompTestsProofs ---------------------------
(***************************************************************************)
(* Proofs about SeccompTests, for every suite of tests: they run in the    *)
(* order of their declaration whichever constructors the tool chain calls  *)
(* first, a test that is counted as passed has earned it, and threads,     *)
(* waits and steps stay within what the tests ask for.                     *)
(***************************************************************************)
EXTENDS SeccompTests, FiniteSetTheorems, SequenceTheorems, WellFoundedInduction, TLAPS

orderVars == <<listVars, at, t, count>>

--------------------------------------------------------------------------------
(* The list of tests.                                                       *)

LEMMA ListStarts == Init => ListInv /\ HarnessInv /\ RunsInOrder
<1> SUFFICES ASSUME Init PROVE ListInv /\ HarnessInv /\ RunsInOrder  OBVIOUS
<1>1. toolchain \in {FORWARD, BACKWARD} /\ called = 0 /\ order = 0 /\ test_list = EmptyList
      /\ at = "constructors" /\ count = 0 /\ child = NoChild
  BY DEF Init, ListInit, HarnessInit
<1>2. Registered = {}
  BY <1>1, TestsAssumption DEF Registered, FORWARD, BACKWARD
<1>3. ListInv
  BY <1>1, <1>2, TestsAssumption DEF ListInv, EmptyList, NULL
<1> QED
  BY <1>1, <1>3, TestsAssumption DEF HarnessInv, RunsInOrder

LEMMA FirstCalled == ListInv /\ __constructor_order_first => ListInv'
<1> SUFFICES ASSUME ListInv, __constructor_order_first PROVE ListInv'  OBVIOUS
<1>1. called' = called + 1 /\ toolchain' = toolchain /\ test_list' = test_list /\ called < Len(Tests) + 2
  BY DEF __constructor_order_first, Calls
<1>2. order' = (IF order = 0 THEN FORWARD ELSE order) /\ Constructor = 0
  BY DEF __constructor_order_first, Calls
<1>3. Registered' = Registered
  BY <1>1, <1>2, TestsAssumption DEF ListInv, Registered, Constructor, FORWARD, BACKWARD
<1>4. order' = toolchain
  BY <1>1, <1>2, TestsAssumption DEF ListInv, Constructor, FORWARD, BACKWARD
<1> QED
  BY <1>1, <1>3, <1>4, TestsAssumption DEF ListInv

LEMMA LastCalled == ListInv /\ __constructor_order_last => ListInv'
<1> SUFFICES ASSUME ListInv, __constructor_order_last PROVE ListInv'  OBVIOUS
<1>1. called' = called + 1 /\ toolchain' = toolchain /\ test_list' = test_list /\ called < Len(Tests) + 2
  BY DEF __constructor_order_last, Calls
<1>2. order' = (IF order = 0 THEN BACKWARD ELSE order) /\ Constructor = Len(Tests) + 1
  BY DEF __constructor_order_last, Calls
<1>3. Registered' = Registered
  BY <1>1, <1>2, TestsAssumption DEF ListInv, Registered, Constructor, FORWARD, BACKWARD
<1>4. order' = toolchain
  BY <1>1, <1>2, TestsAssumption DEF ListInv, Constructor, FORWARD, BACKWARD
<1> QED
  BY <1>1, <1>3, <1>4, TestsAssumption DEF ListInv

\* What two links that are set make of the links.
LEMMA TwoChanges ==
  ASSUME NEW k \in Nat, NEW f \in [1 .. k -> 0 .. k], NEW a \in 1 .. k, NEW b \in 1 .. k,
         NEW x \in 0 .. k, NEW y \in 0 .. k
  PROVE  /\ [f EXCEPT ![a] = x, ![b] = y] \in [1 .. k -> 0 .. k]
         /\ a # b => [f EXCEPT ![a] = x, ![b] = y][a] = x
         /\ [f EXCEPT ![a] = x, ![b] = y][b] = y
         /\ \A i \in 1 .. k : i # a /\ i # b => [f EXCEPT ![a] = x, ![b] = y][i] = f[i]
OBVIOUS

LEMMA Intervals ==
  ASSUME NEW k \in Nat, NEW n \in 1 .. k
  PROVE  /\ {i \in 1 .. k : i < n} = 1 .. n - 1 /\ {i \in 1 .. k : i < n + 1} = 1 .. n
         /\ {i \in 1 .. k : i > n} = n + 1 .. k /\ {i \in 1 .. k : i > n - 1} = n .. k
<1>1. \A i : i \in {j \in 1 .. k : j < n} <=> i \in 1 .. n - 1
  OBVIOUS
<1>2. \A i : i \in {j \in 1 .. k : j < n + 1} <=> i \in 1 .. n
  OBVIOUS
<1>3. \A i : i \in {j \in 1 .. k : j > n} <=> i \in n + 1 .. k
  OBVIOUS
<1>4. \A i : i \in {j \in 1 .. k : j > n - 1} <=> i \in n .. k
  OBVIOUS
<1> QED
  BY <1>1, <1>2, <1>3, <1>4

LEMMA TestRegistered == ASSUME NEW new \in DOMAIN Tests, ListInv, Register(new) PROVE ListInv'
<1>1. called' = called + 1 /\ toolchain' = toolchain /\ order' = order /\ called < Len(Tests) + 2
      /\ Constructor = new /\ test_list' = __register_test(new)
  BY DEF Register, Calls
<1>2. new \in 1 .. Len(Tests) /\ called \in Nat /\ called > 0 /\ order = toolchain /\ Len(Tests) \in Nat
  BY <1>1, TestsAssumption DEF ListInv, Constructor, FORWARD, BACKWARD
<1>3. /\ toolchain' = toolchain /\ called' = called + 1 /\ DOMAIN Tests = 1 .. Len(Tests)
      /\ (toolchain = FORWARD /\ called = new) \/ (toolchain = BACKWARD /\ called = Len(Tests) + 1 - new)
  BY <1>1, <1>2, TestsAssumption DEF ListInv, Constructor, FORWARD, BACKWARD
<1>4. /\ toolchain = FORWARD => Registered = 1 .. new - 1
      /\ toolchain = BACKWARD => Registered = new + 1 .. Len(Tests)
      /\ Registered' = Registered \cup {new} /\ new \notin Registered
  <2>1. CASE toolchain = FORWARD /\ called = new
    <3>1. Registered = {i \in 1 .. Len(Tests) : i < new} /\ Registered' = {i \in 1 .. Len(Tests) : i < new + 1}
      <4>1. \A i : i \in Registered <=> i \in 1 .. Len(Tests) /\ i < new
        BY <1>3, <2>1 DEF Registered
      <4>2. \A i : i \in Registered' <=> i \in 1 .. Len(Tests) /\ i < new + 1
        <5>1. toolchain' = FORWARD /\ called' = new + 1 /\ DOMAIN Tests = 1 .. Len(Tests)
          BY <1>3, <2>1
        <5> QED
          BY <5>1 DEF Registered
      <4> QED
        BY <4>1, <4>2
    <3>2. Registered = 1 .. new - 1 /\ Registered' = 1 .. new
      BY <1>2, <3>1, Intervals
    <3>3. 1 .. new = (1 .. new - 1) \cup {new} /\ new \notin 1 .. new - 1
      BY <1>2
    <3> QED
      BY <2>1, <3>2, <3>3 DEF FORWARD, BACKWARD
  <2>2. CASE toolchain = BACKWARD /\ called = Len(Tests) + 1 - new
    <3>1. /\ Registered = {i \in 1 .. Len(Tests) : i > Len(Tests) + 1 - called}
          /\ Registered' = {i \in 1 .. Len(Tests) : i > Len(Tests) + 1 - (called + 1)}
      <4>1. \A i : i \in Registered <=> i \in 1 .. Len(Tests) /\ i > Len(Tests) + 1 - called
        BY <1>3, <2>2 DEF Registered, FORWARD, BACKWARD
      <4>2. \A i : i \in Registered' <=> i \in 1 .. Len(Tests) /\ i > Len(Tests) + 1 - (called + 1)
        <5>1. toolchain' # FORWARD /\ called' = called + 1 /\ DOMAIN Tests = 1 .. Len(Tests)
          BY <1>3, <2>2 DEF FORWARD, BACKWARD
        <5> QED
          BY <5>1 DEF Registered
      <4> QED
        BY <4>1, <4>2
    <3>2. Len(Tests) + 1 - called = new /\ Len(Tests) + 1 - (called + 1) = new - 1
      BY <1>2, <2>2
    <3>3. Registered = new + 1 .. Len(Tests) /\ Registered' = new .. Len(Tests)
      BY <1>2, <3>1, <3>2, Intervals
    <3>4. new .. Len(Tests) = (new + 1 .. Len(Tests)) \cup {new} /\ new \notin new + 1 .. Len(Tests)
      BY <1>2
    <3> QED
      BY <2>2, <3>3, <3>4 DEF FORWARD, BACKWARD
  <2> QED
    BY <1>3, <2>1, <2>2
<1> DEFINE head == test_list.head
           next == test_list.next
           prev == test_list.prev
<1>5. /\ head \in 0 .. Len(Tests)
      /\ next \in [1 .. Len(Tests) -> 0 .. Len(Tests)] /\ prev \in [1 .. Len(Tests) -> 0 .. Len(Tests)]
  BY TestsAssumption DEF ListInv
<1>6. CASE Registered = {}
  <2>1. head = NULL
    BY <1>6 DEF ListInv
  <2>2. test_list' = [head |-> new, next |-> [next EXCEPT ![new] = NULL], prev |-> [prev EXCEPT ![new] = new]]
    BY <1>1, <2>1 DEF __register_test
  <2>3. Registered' = {new}
    BY <1>4, <1>6
  <2>4. /\ test_list'.head = new /\ test_list'.next[new] = 0 /\ test_list'.prev[new] = new
        /\ test_list' \in [head : 0 .. Len(Tests), next : [DOMAIN Tests -> 0 .. Len(Tests)],
                           prev : [DOMAIN Tests -> 0 .. Len(Tests)]]
    BY <1>2, <1>5, <2>2, TestsAssumption DEF NULL
  <2>5. called' \in 0 .. Len(Tests) + 2 /\ order' = (IF called' = 0 THEN 0 ELSE toolchain')
    BY <1>1, <1>2, TestsAssumption DEF ListInv
  <2>6. /\ toolchain' \in {FORWARD, BACKWARD} /\ test_list'.head \in Registered'
        /\ test_list'.head - 1 \notin Registered' /\ Registered' # {}
    BY <1>1, <1>2, <2>3, <2>4 DEF ListInv
  <2>7. ASSUME NEW j \in Registered'
        PROVE  /\ test_list'.next[j] = IF j + 1 \in Registered' THEN j + 1 ELSE NULL
               /\ test_list'.prev[test_list'.head] = j
    BY <1>2, <2>3, <2>4, <2>7 DEF NULL
  <2> QED
    BY <2>4, <2>5, <2>6, <2>7 DEF ListInv
<1>7. CASE Registered # {} /\ toolchain = FORWARD
  <2>1. head = 1 /\ new > 1 /\ Registered = 1 .. new - 1
    BY <1>2, <1>4, <1>7 DEF ListInv
  <2>2. prev[head] = new - 1 /\ new - 1 \in Registered
    BY <1>2, <1>7, <2>1 DEF ListInv
  <2>3. test_list' = [head |-> head, next |-> [next EXCEPT ![new] = NULL, ![new - 1] = new],
                      prev |-> [prev EXCEPT ![new] = new - 1, ![head] = new]]
    BY <1>1, <1>2, <1>7, <2>1, <2>2 DEF __register_test, NULL
  <2> DEFINE next1 == [next EXCEPT ![new] = 0, ![new - 1] = new]
             prev1 == [prev EXCEPT ![new] = new - 1, ![1] = new]
  <2>4. /\ next1 \in [1 .. Len(Tests) -> 0 .. Len(Tests)]
        /\ next1[new] = 0 /\ next1[new - 1] = new
        /\ \A i \in 1 .. Len(Tests) : i # new /\ i # new - 1 => next1[i] = next[i]
    <3>1. new - 1 \in 1 .. Len(Tests) /\ new # new - 1 /\ 0 \in 0 .. Len(Tests) /\ new \in 0 .. Len(Tests)
      BY <1>2, <2>1
    <3>2. ASSUME NEW f \in [1 .. Len(Tests) -> 0 .. Len(Tests)]
          PROVE  LET g == [f EXCEPT ![new] = 0, ![new - 1] = new]
                 IN  /\ g \in [1 .. Len(Tests) -> 0 .. Len(Tests)] /\ g[new] = 0 /\ g[new - 1] = new
                     /\ \A i \in 1 .. Len(Tests) : i # new /\ i # new - 1 => g[i] = f[i]
      BY <1>2, <3>1, TwoChanges
    <3> QED
      BY <1>5, <3>2
  <2>5. prev1 \in [1 .. Len(Tests) -> 0 .. Len(Tests)] /\ prev1[1] = new
    <3>1. 1 \in 1 .. Len(Tests) /\ new - 1 \in 0 .. Len(Tests) /\ new \in 0 .. Len(Tests)
      BY <1>2, <2>1
    <3> HIDE DEF prev
    <3> QED
      BY <1>2, <1>5, <3>1, TwoChanges
  <2>6. test_list' = [head |-> 1, next |-> next1, prev |-> prev1]
    BY <2>1, <2>3 DEF NULL
  <2> HIDE DEF next1, prev1
  <2>7. /\ test_list'.head = 1 /\ test_list'.prev[1] = new /\ test_list'.next = next1
        /\ test_list' \in [head : 0 .. Len(Tests), next : [DOMAIN Tests -> 0 .. Len(Tests)],
                           prev : [DOMAIN Tests -> 0 .. Len(Tests)]]
    BY <1>2, <2>4, <2>5, <2>6, TestsAssumption
  <2>8. Registered' = 1 .. new
    BY <1>2, <1>4, <2>1
  <2>9. \A i \in 1 .. new : test_list'.next[i] = IF i + 1 \in 1 .. new THEN i + 1 ELSE 0
    <3> TAKE i \in 1 .. new
    <3>1. i < new => next[i] = (IF i + 1 \in 1 .. new - 1 THEN i + 1 ELSE 0)
      BY <1>2, <2>1 DEF ListInv, NULL
    <3> QED
      BY <1>2, <2>1, <2>7, <2>4, <3>1
  <2>10. \A i \in Registered' : i + 1 \notin Registered' => i = new
    BY <1>2, <2>8
  <2>11. test_list'.head \in Registered' /\ test_list'.head - 1 \notin Registered'
    BY <1>2, <2>7, <2>8
  <2>12. \A i \in Registered' :
          /\ test_list'.next[i] = IF i + 1 \in Registered' THEN i + 1 ELSE 0
          /\ i + 1 \notin Registered' => test_list'.prev[test_list'.head] = i
    BY <2>7, <2>8, <2>9, <2>10
  <2> QED
    BY <1>1, <1>2, <1>7, <2>7, <2>11, <2>12, TestsAssumption DEF ListInv, NULL
<1>8. CASE Registered # {} /\ toolchain = BACKWARD
  <2>1. head = new + 1 /\ new < Len(Tests) /\ Registered = new + 1 .. Len(Tests)
    BY <1>2, <1>4, <1>8 DEF ListInv
  <2>2. test_list' = [head |-> new, next |-> [next EXCEPT ![new] = head],
                      prev |-> [prev EXCEPT ![head] = new, ![new] = new]]
    BY <1>1, <1>2, <1>8, <2>1 DEF __register_test, NULL, FORWARD, BACKWARD
  <2>3. /\ test_list'.head = new /\ test_list'.next = [next EXCEPT ![new] = new + 1]
        /\ test_list' \in [head : 0 .. Len(Tests), next : [DOMAIN Tests -> 0 .. Len(Tests)],
                           prev : [DOMAIN Tests -> 0 .. Len(Tests)]]
    <3> DEFINE prev1 == [prev EXCEPT ![new + 1] = new, ![new] = new]
               next1 == [next EXCEPT ![new] = new + 1]
    <3>1. new + 1 \in 1 .. Len(Tests) /\ new + 1 \in 0 .. Len(Tests) /\ new \in 0 .. Len(Tests)
      BY <1>2, <2>1
    <3>2. prev1 \in [1 .. Len(Tests) -> 0 .. Len(Tests)]
      <4> HIDE DEF prev
      <4> QED
        BY <1>2, <1>5, <3>1, TwoChanges
    <3>3. next1 \in [1 .. Len(Tests) -> 0 .. Len(Tests)]
      BY <1>2, <1>5, <3>1
    <3>4. test_list' = [head |-> new, next |-> next1, prev |-> prev1]
      BY <2>1, <2>2
    <3> HIDE DEF prev1, next1
    <3>5. test_list'.head = new /\ test_list'.next = next1
      BY <3>4
    <3>6. test_list' \in [head : 0 .. Len(Tests), next : [DOMAIN Tests -> 0 .. Len(Tests)],
                          prev : [DOMAIN Tests -> 0 .. Len(Tests)]]
      BY <3>1, <3>2, <3>3, <3>4, TestsAssumption
    <3> QED
      BY <3>5, <3>6 DEF next1
  <2>4. Registered' = new .. Len(Tests)
    BY <1>2, <1>4, <2>1
  <2>5. \A i \in new .. Len(Tests) : test_list'.next[i] = IF i + 1 \in new .. Len(Tests) THEN i + 1 ELSE 0
    <3> TAKE i \in new .. Len(Tests)
    <3>1. i > new => next[i] = (IF i + 1 \in new + 1 .. Len(Tests) THEN i + 1 ELSE 0)
      BY <1>2, <2>1 DEF ListInv, NULL
    <3> QED
      BY <1>2, <1>5, <2>1, <2>3, <3>1
  <2> QED
    BY <1>1, <1>2, <1>8, <2>3, <2>4, <2>5, TestsAssumption DEF ListInv, NULL, FORWARD, BACKWARD
<1> QED
  BY <1>6, <1>7, <1>8 DEF ListInv

\* When every constructor has been called, next leads from each test to the one below it.
LEMMA ListComplete ==
  ASSUME ListInv, called = Len(Tests) + 2
  PROVE  /\ test_list.head = IF Len(Tests) = 0 THEN NULL ELSE 1
         /\ \A i \in DOMAIN Tests : test_list.next[i] = IF i = Len(Tests) THEN NULL ELSE i + 1
<1>1. Registered = 1 .. Len(Tests) /\ Len(Tests) \in Nat
  BY TestsAssumption DEF Registered, ListInv
<1>2. test_list.head = IF Len(Tests) = 0 THEN NULL ELSE 1
  <2>1. CASE Len(Tests) = 0
    <3>1. Registered = {}
      BY <1>1, <2>1
    <3> QED
      BY <2>1, <3>1 DEF ListInv
  <2>2. CASE Len(Tests) # 0
    <3>1. 1 \in Registered
      BY <1>1, <2>2
    <3>2. test_list.head \in Registered /\ test_list.head - 1 \notin Registered
      BY <3>1 DEF ListInv
    <3> QED
      BY <1>1, <2>2, <3>2
  <2> QED
    BY <2>1, <2>2
<1>3. \A i \in Registered : test_list.next[i] = IF i + 1 \in Registered THEN i + 1 ELSE NULL
  BY DEF ListInv
<1>4. ASSUME NEW i \in DOMAIN Tests
      PROVE  test_list.next[i] = IF i = Len(Tests) THEN NULL ELSE i + 1
  BY <1>1, <1>3, TestsAssumption
<1> QED
  BY <1>2, <1>4

--------------------------------------------------------------------------------
(* The order of the tests.                                                  *)

\* The steps of a child, its threads and its tracer.
ChildStep ==
  \/ MainStep \/ MainStartsSibling \/ MainSetUpFails
  \/ (\E s \in Siblings : SiblingStep(s)) \/ SpuriousWakeUp \/ TracerStep

LEMMA ChildLeavesOrder == ChildStep => at = "running" /\ UNCHANGED orderVars
<1>1. MainStep => at = "running" /\ UNCHANGED orderVars
  BY DEF MainStep, Running, orderVars
<1>2. MainStartsSibling => at = "running" /\ UNCHANGED orderVars
  BY DEF MainStartsSibling, Running, orderVars
<1>3. ASSUME NEW s \in Siblings, SiblingStep(s) PROVE at = "running" /\ UNCHANGED orderVars
  BY <1>3 DEF SiblingStep, Running, orderVars, harnessVars
<1>4. SpuriousWakeUp => at = "running" /\ UNCHANGED orderVars
  BY DEF SpuriousWakeUp, Running, orderVars
<1>5. TracerStep => at = "running" /\ UNCHANGED orderVars
  BY DEF TracerStep, orderVars
<1>6. MainSetUpFails => at = "running" /\ UNCHANGED orderVars
  BY DEF MainSetUpFails, Running, orderVars
<1> QED
  BY <1>1, <1>2, <1>3, <1>4, <1>5, <1>6 DEF ChildStep

LEMMA OrderVarsSuffice ==
  ListInv /\ HarnessInv /\ RunsInOrder /\ UNCHANGED orderVars /\ (at = "constructors" => UNCHANGED child)
    => (ListInv /\ HarnessInv /\ RunsInOrder)'
BY DEF orderVars, listVars, ListInv, Registered, HarnessInv, RunsInOrder

LEMMA OrderStep ==
  ListInv /\ HarnessInv /\ RunsInOrder /\ [Next]_vars => (ListInv /\ HarnessInv /\ RunsInOrder)'
<1> SUFFICES ASSUME ListInv, HarnessInv, RunsInOrder, [Next]_vars
             PROVE  (ListInv /\ HarnessInv /\ RunsInOrder)'
  OBVIOUS
<1>1. /\ at = "running" => t = count /\ count > 0
      /\ at # "constructors" => called = Len(Tests) + 2
  BY DEF HarnessInv, RunsInOrder, NULL
<1>2. count \in 0 .. Len(Tests) /\ Len(Tests) \in Nat
  BY TestsAssumption DEF HarnessInv
<1>3. ASSUME at = "loop", t # NULL PROVE t = count + 1 /\ count + 1 \in 1 .. Len(Tests)
  BY <1>2, <1>3 DEF RunsInOrder, NULL
<1>4. ASSUME at = "loop", t = NULL PROVE count = Len(Tests)
  BY <1>2, <1>4 DEF RunsInOrder, NULL
<1>5. CASE ConstructorStep
  <2>1. ListInv'
    BY <1>5, FirstCalled, LastCalled, TestRegistered DEF ConstructorStep
  <2>2. at = "constructors" /\ at' = at /\ count' = count /\ child' = child
    BY <1>5 DEF ConstructorStep, __constructor_order_first, __constructor_order_last, Register, Calls
  <2> QED
    BY <2>1, <2>2 DEF HarnessInv, RunsInOrder
<1>6. CASE test_harness_run
  <2>1. at = "constructors" /\ called = Len(Tests) + 2 /\ at' = "loop" /\ t' = test_list.head /\ UNCHANGED listVars
        /\ count' = count
    BY <1>6 DEF test_harness_run
  <2>2. ListInv' /\ called' = called
    BY <2>1 DEF listVars, ListInv, Registered
  <2>3. t' = IF Len(Tests) = 0 THEN NULL ELSE 1
    BY <2>1, ListComplete, TestsAssumption
  <2> QED
    BY <1>2, <2>1, <2>2, <2>3 DEF HarnessInv, RunsInOrder
<1>7. CASE Fork
  <2>1. at = "loop" /\ t # NULL /\ count' = count + 1 /\ at' = "running" /\ t' = t /\ UNCHANGED listVars
    BY <1>7 DEF Fork
  <2>2. ListInv' /\ called' = called
    BY <2>1 DEF listVars, ListInv, Registered
  <2>3. t' = count' /\ count' \in 1 .. Len(Tests) /\ count' > 0
    BY <1>3, <1>4, <2>1
  <2> QED
    BY <1>1, <2>1, <2>2, <2>3 DEF HarnessInv, RunsInOrder
<1>8. ASSUME UNCHANGED listVars, at' = "loop", t' = test_list.next[t], at # "constructors", t = count',
             count' \in 1 .. Len(Tests)
      PROVE  (ListInv /\ HarnessInv /\ RunsInOrder)'
  <2>1. ListInv' /\ called' = called
    BY <1>8 DEF listVars, ListInv, Registered
  <2>2. t' = IF t = Len(Tests) THEN NULL ELSE t + 1
    BY <1>1, <1>8, ListComplete, TestsAssumption
  <2>3. t' = IF count' = Len(Tests) THEN NULL ELSE count' + 1
    BY <1>8, <2>2
  <2> QED
    BY <1>1, <1>2, <1>8, <2>1, <2>3 DEF HarnessInv, RunsInOrder
<1>9. CASE ForkFails
  <2>1. UNCHANGED listVars /\ at = "loop" /\ at' = "loop" /\ t' = test_list.next[t] /\ t # NULL /\ count' = count + 1
    BY <1>9 DEF ForkFails, Count
  <2>2. t = count' /\ count' \in 1 .. Len(Tests)
    BY <1>3, <1>4, <2>1
  <2> QED
    BY <1>8, <2>1, <2>2
<1>10. CASE Judge
  <2>1. UNCHANGED listVars /\ at = "running" /\ at' = "loop" /\ t' = test_list.next[t] /\ count' = count
    BY <1>10 DEF Judge, Count
  <2>2. t = count' /\ count' \in 1 .. Len(Tests)
    BY <1>1, <1>2, <2>1
  <2> QED
    BY <1>8, <2>1, <2>2
<1>11. CASE Return
  <2>1. at = "loop" /\ t = NULL /\ at' = "done" /\ count' = count /\ UNCHANGED listVars
    BY <1>11 DEF Return
  <2>2. ListInv' /\ called' = called
    BY <2>1 DEF listVars, ListInv, Registered
  <2>3. count = Len(Tests)
    BY <1>3, <1>4, <2>1
  <2> QED
    BY <1>2, <2>1, <2>2, <2>3 DEF HarnessInv, RunsInOrder
<1>12. CASE ChildStep
  BY <1>12, ChildLeavesOrder, OrderVarsSuffice
<1>13. CASE UNCHANGED vars
  BY <1>13, OrderVarsSuffice DEF vars, harnessVars, orderVars
<1> QED
  BY <1>5, <1>6, <1>7, <1>9, <1>10, <1>11, <1>12, <1>13 DEF Next, HarnessStep, HarnessForkFails, ChildStep

(***************************************************************************)
(* The tests run in the order of their declaration, each of them once,     *)
(* whatever tests there are and whichever constructors the tool chain      *)
(* calls first: the doubly linked list that __register_test keeps.         *)
(***************************************************************************)
THEOREM DeclarationOrder == Spec => []RunsInOrder
<1>1. Spec => [](ListInv /\ HarnessInv /\ RunsInOrder)
  BY ListStarts, OrderStep, PTL DEF Spec
<1> QED
  BY <1>1, PTL

--------------------------------------------------------------------------------
(* The child: what a step of its main thread does.                          *)

\* One step further, or dead of an assertion.
Advances ==
  /\ self' \in SelfRecord /\ self'.pc = self.pc + 1
  /\ self'.passed => self.passed
  /\ child' = Alive /\ CurrentStep.fatal => self'.passed = self.passed
  /\ child' = Alive \/ child'.how = "signalled"

\* Where the tracer is not there, or is gone, it stays so; and it never goes back.
TracerKept ==
  /\ tracer' \in TracerRecord
  /\ IF tracer.at \in {"none", "exited", "aborted"} THEN tracer'.at = tracer.at /\ tracer'.passed = tracer.passed
     ELSE tracer'.at # "none"

LEMMA ScriptFacts ==
  ASSUME HarnessInv, RunsInOrder, at = "running"
  PROVE  /\ t \in DOMAIN Tests /\ t = count
         /\ Len(Script) \in Nat /\ DOMAIN Script = 1 .. Len(Script)
         /\ \A i \in DOMAIN Script :
              Script[i].call.nr \in {"exit", "exit_group"} => \A j \in 1 .. i - 1 : Script[j].fatal
         /\ \A i \in DOMAIN Script : StartsTracer(Script[i]) \/ Script[i].op = "waitpid" => ~Script[i].fatal
         /\ \A i \in DOMAIN Script :
              StartsTracer(Script[i]) =>
                /\ \E j \in DOMAIN Script : i < j /\ Script[j].op = "waitpid"
                /\ \A j \in DOMAIN Script : Script[j].op = "waitpid" => i < j
<1>1. t \in DOMAIN Tests /\ t = count
  BY TestsAssumption DEF HarnessInv, RunsInOrder
<1> QED
  BY <1>1, SuiteAssumption DEF Script

LEMMA StepFacts ==
  ASSUME HarnessInv, RunsInOrder, at = "running", self.pc \in Nat, self.pc > 0
  PROVE  /\ self.pc <= Len(Script) => self.pc \in DOMAIN Script /\ CurrentStep = Script[self.pc]
         /\ self.pc > Len(Script) => CurrentStep.op = "call"
<1>1. Len(Script) \in Nat /\ DOMAIN Script = 1 .. Len(Script)
  BY ScriptFacts
<1>2. ASSUME self.pc > Len(Script) PROVE CurrentStep.op = "call"
  BY <1>2 DEF CurrentStep, Do, Step
<1>3. ASSUME self.pc <= Len(Script) PROVE self.pc \in DOMAIN Script /\ CurrentStep = Script[self.pc]
  BY <1>1, <1>3 DEF CurrentStep
<1> QED
  BY <1>1, <1>2, <1>3

LEMMA SeesAdvances ==
  ASSUME child = Alive, NEW seen, NEW after \in SelfRecord, after.pc = self.pc, self.passed \in BOOLEAN,
         after.passed => self.passed, CurrentStep.fatal => after.passed = self.passed,
         Sees(CurrentStep, seen, after)
  PROVE  Advances
<1> DEFINE met == seen \in (IF env.root THEN CurrentStep.want ELSE CurrentStep.user)
<1>1. /\ self' = [after EXCEPT !.passed = @ /\ met, !.pc = @ + 1]
      /\ child' = IF met \/ ~CurrentStep.fatal THEN child ELSE [how |-> "signalled", code |-> "SIGABRT"]
  BY DEF Sees
<1>2. met \in BOOLEAN /\ after.passed \in BOOLEAN /\ after.pc \in Nat
  BY DEF SelfRecord
<1> HIDE DEF met
<1>3. self'.pc = after.pc + 1 /\ self'.passed = (after.passed /\ met) /\ self' \in SelfRecord
  <2>1. /\ self' = [after EXCEPT !.passed = after.passed /\ met, !.pc = after.pc + 1]
        /\ (after.passed /\ met) \in BOOLEAN /\ after.pc + 1 \in Nat
    BY <1>1, <1>2
  <2>2. ASSUME NEW b \in BOOLEAN, NEW n \in Nat
        PROVE  LET new == [after EXCEPT !.passed = b, !.pc = n]
               IN  new.pc = n /\ new.passed = b /\ new \in SelfRecord
    BY DEF SelfRecord
  <2> QED
    BY <2>1, <2>2
<1>4. CASE met
  <2>1. child' = Alive /\ self'.passed = after.passed
    BY <1>1, <1>2, <1>3, <1>4
  <2> QED
    BY <1>3, <2>1 DEF Advances
<1>5. CASE ~met /\ ~CurrentStep.fatal
  <2>1. child' = Alive /\ ~self'.passed
    BY <1>1, <1>2, <1>3, <1>5
  <2> QED
    BY <1>3, <1>5, <2>1 DEF Advances
<1>6. CASE ~met /\ CurrentStep.fatal
  <2>1. child' = [how |-> "signalled", code |-> "SIGABRT"] /\ ~self'.passed
    BY <1>1, <1>2, <1>3, <1>6
  <2>2. child'.how = "signalled" /\ child' # Alive
    BY <2>1 DEF Alive
  <2> QED
    BY <1>3, <2>1, <2>2 DEF Advances
<1> QED
  BY <1>4, <1>5, <1>6

LEMMA NotedKept ==
  ASSUME HarnessInv, RunsInOrder, at = "running", t' = t, child = Alive, self \in SelfRecord, self.pc > 0,
         OnlyNoted, Advances
  PROVE  OnlyNoted'
<1> SUFFICES ASSUME child' = Alive, ~self'.passed, self'.pc <= Len(Script')
             PROVE  \E i \in DOMAIN Script' : i < self'.pc /\ ~Script'[i].fatal
  BY DEF OnlyNoted, Behind
<1>1. Script' = Script
  BY DEF Script
<1>2. /\ self.pc \in Nat /\ self'.pc = self.pc + 1 /\ Len(Script) \in Nat
      /\ self.passed \in BOOLEAN /\ self'.passed \in BOOLEAN
  BY ScriptFacts DEF Advances, SelfRecord
<1>3. self.pc <= Len(Script) /\ self.pc < self'.pc
  BY <1>1, <1>2
<1>4. self.pc \in DOMAIN Script /\ CurrentStep = Script[self.pc]
  BY <1>2, <1>3, StepFacts
<1>5. CASE ~CurrentStep.fatal
  BY <1>1, <1>3, <1>4, <1>5
<1>6. CASE CurrentStep.fatal
  <2>1. ~self.passed
    BY <1>6 DEF Advances
  <2>2. PICK i \in DOMAIN Script : i < self.pc /\ ~Script[i].fatal
    BY <1>3, <2>1 DEF OnlyNoted, Behind
  <2>3. i \in Nat /\ i < self'.pc
    BY <1>2, <2>2, ScriptFacts
  <2> QED
    BY <1>1, <2>2, <2>3
<1> QED
  BY <1>5, <1>6

LEMMA FollowsKept ==
  ASSUME HarnessInv, RunsInOrder, at = "running", t' = t, self \in SelfRecord, self' \in SelfRecord, self.pc > 0,
         self'.pc = self.pc \/ (self'.pc = self.pc + 1 /\ CurrentStep.op # "waitpid"),
         self'.passed => self.passed, TracerFollows, TracerKept
  PROVE  TracerFollows'
<1>1. Script' = Script
  BY DEF Script
<1>2. /\ self.pc \in Nat /\ self'.pc \in Nat /\ Len(Script) \in Nat /\ DOMAIN Script = 1 .. Len(Script)
  BY ScriptFacts DEF SelfRecord
<1>3. ASSUME NEW i \in DOMAIN Script, i < self.pc PROVE i < self'.pc
  BY <1>2, <1>3
<1>4. ASSUME NEW i \in DOMAIN Script, i < self'.pc, Script[i].op = "waitpid" PROVE i < self.pc
  <2>1. CASE self'.pc = self.pc
    BY <1>4, <2>1
  <2>2. CASE self'.pc = self.pc + 1 /\ CurrentStep.op # "waitpid"
    <3>1. CASE i = self.pc
      <4>1. CurrentStep = Script[i]
        BY <1>2, <3>1, StepFacts
      <4> QED
        BY <1>4, <2>2, <4>1
    <3>2. CASE i # self.pc
      BY <1>2, <1>4, <2>2, <3>2
    <3> QED
      BY <3>1, <3>2
  <2> QED
    BY <2>1, <2>2
<1>5. IF tracer'.at = "none" THEN tracer'.passed
      ELSE \E i \in DOMAIN Script : i < self'.pc /\ StartsTracer(Script[i])
  <2>1. CASE tracer.at = "none"
    BY <2>1 DEF TracerKept, TracerFollows
  <2>2. CASE tracer.at # "none"
    <3>1. tracer'.at # "none"
      BY <2>2 DEF TracerKept
    <3>2. PICK i \in DOMAIN Script : i < self.pc /\ StartsTracer(Script[i])
      BY <2>2 DEF TracerFollows, Behind
    <3> QED
      BY <1>3, <3>1, <3>2
  <2> QED
    BY <2>1, <2>2
<1>6. ASSUME NEW i \in DOMAIN Script, i < self'.pc, Script[i].op = "waitpid"
      PROVE  tracer'.at \in {"exited", "aborted"} /\ (self'.passed /\ tracer'.at = "exited" => tracer'.passed)
  <2>1. tracer.at \in {"exited", "aborted"} /\ (self.passed /\ tracer.at = "exited" => tracer.passed)
    BY <1>4, <1>6 DEF TracerFollows, Behind
  <2> QED
    BY <2>1 DEF TracerKept
<1> QED
  BY <1>1, <1>5, <1>6 DEF TracerFollows, Behind

\* A step of the main thread that leaves no event behind.
LEMMA AdvanceKeeps ==
  ASSUME HarnessInv, RunsInOrder, ChildInv, Running, at' = at, t' = t,
         Advances, event' = NoEvent, tracer' \in TracerRecord, tracer'.at # "event", TracerFollows'
  PROVE  ChildInv'
<1>1. at = "running" /\ child = Alive /\ self \in SelfRecord /\ self.pc > 0 /\ OnlyNoted
  BY DEF Running, ChildInv
<1>2. OnlyNoted'
  BY <1>1, NotedKept
<1>3. StoppedInACall'
  BY DEF StoppedInACall, NoEvent
<1>4. child'.how # "exited"
  <2>1. Alive.how = "alive"
    BY DEF Alive
  <2> QED
    BY <2>1 DEF Advances
<1>5. self' \in SelfRecord /\ self'.pc > 0
  BY <1>1 DEF Advances, SelfRecord
<1> QED
  BY <1>2, <1>3, <1>4, <1>5 DEF ChildInv, ExitIsEarned

\* The main thread stays at its step.
LEMMA RestKeeps ==
  ASSUME HarnessInv, RunsInOrder, ChildInv, Running, at' = at, t' = t, child' = Alive,
         self' \in SelfRecord, self'.pc = self.pc, self'.passed = self.passed, tracer' = tracer,
         event' = event \/ (event = NoEvent /\ CurrentStep.op \in {"call", "until"})
  PROVE  ChildInv'
<1>1. /\ at = "running" /\ child = Alive /\ self \in SelfRecord /\ self.pc > 0 /\ tracer \in TracerRecord
      /\ StoppedInACall /\ OnlyNoted /\ TracerFollows
  BY DEF Running, ChildInv
<1>2. Script' = Script /\ CurrentStep' = CurrentStep
  BY DEF Script, CurrentStep
<1>3. StoppedInACall'
  BY <1>1, <1>2 DEF StoppedInACall
<1>4. OnlyNoted' /\ TracerFollows'
  BY <1>1, <1>2 DEF OnlyNoted, TracerFollows, Behind
<1>5. child'.how # "exited"
  BY DEF Alive
<1> QED
  BY <1>1, <1>3, <1>4, <1>5 DEF ChildInv, ExitIsEarned

\* The child dies.
LEMMA DeathKeeps ==
  ASSUME HarnessInv, RunsInOrder, ChildInv, at = "running", at' = at, t' = t, child' # Alive,
         self' = self, TracerKept, ExitIsEarned'
  PROVE  ChildInv'
<1>1. self \in SelfRecord /\ self.pc > 0 /\ TracerFollows
  BY DEF ChildInv
<1>2. TracerFollows'
  BY <1>1, FollowsKept
<1>3. StoppedInACall' /\ OnlyNoted'
  BY DEF StoppedInACall, OnlyNoted
<1> QED
  BY <1>1, <1>2, <1>3 DEF ChildInv, TracerKept

\* What it takes to leave by exit or by _exit(t->passed).
LEMMA ExitEarned ==
  ASSUME HarnessInv, RunsInOrder, ChildInv, Running, CurrentStep.call.nr \in {"exit", "exit_group"},
         CurrentStep.call.nr = "exit" \/ self.passed
  PROVE  /\ self.passed /\ tracer.at \in {"none", "exited", "aborted"}
         /\ tracer.passed \/ tracer.at = "aborted"
<1>1. /\ at = "running" /\ child = Alive /\ self \in SelfRecord /\ self.pc > 0 /\ self.pc \in Nat
      /\ OnlyNoted /\ TracerFollows
  BY DEF Running, ChildInv, SelfRecord
<1>2. CASE self.pc <= Len(Script)
  <2>1. self.pc \in DOMAIN Script /\ CurrentStep = Script[self.pc]
    BY <1>1, <1>2, StepFacts
  <2>2. ASSUME NEW i \in DOMAIN Script, i < self.pc PROVE Script[i].fatal
    <3>1. i \in 1 .. self.pc - 1
      BY <1>1, <2>2, ScriptFacts
    <3> QED
      BY <1>1, <2>1, <3>1, ScriptFacts
  <2>3. self.passed
    BY <1>1, <1>2, <2>2 DEF OnlyNoted, Behind
  <2>4. tracer.at = "none"
    <3> SUFFICES ASSUME tracer.at # "none" PROVE FALSE
      OBVIOUS
    <3>1. PICK i \in DOMAIN Script : i < self.pc /\ StartsTracer(Script[i])
      BY <1>1 DEF TracerFollows, Behind
    <3> QED
      BY <1>1, <2>2, <3>1, ScriptFacts
  <2> QED
    BY <1>1, <2>3, <2>4 DEF TracerFollows
<1>3. CASE self.pc > Len(Script)
  <2>1. CurrentStep.call.nr = "exit_group"
    BY <1>3 DEF CurrentStep, Do, Step, Call
  <2>2. self.passed
    BY <2>1
  <2>3. CASE tracer.at = "none"
    BY <1>1, <2>2, <2>3 DEF TracerFollows
  <2>4. CASE tracer.at # "none"
    <3>1. PICK i \in DOMAIN Script : i < self.pc /\ StartsTracer(Script[i])
      BY <1>1, <2>4 DEF TracerFollows, Behind
    <3>2. PICK j \in DOMAIN Script : Script[j].op = "waitpid"
      BY <1>1, <3>1, ScriptFacts
    <3>3. j < self.pc
      BY <1>1, <1>3, <3>2, ScriptFacts
    <3> QED
      BY <1>1, <2>2, <3>2, <3>3 DEF TracerFollows, Behind
  <2> QED
    BY <2>3, <2>4
<1>4. self.pc <= Len(Script) \/ self.pc > Len(Script)
  BY <1>1, ScriptFacts
<1> QED
  BY <1>2, <1>3, <1>4

--------------------------------------------------------------------------------
(* The child: the steps of its main thread.                                 *)

LEMMA CallsKeep ==
  ASSUME HarnessInv, RunsInOrder, ChildInv, Running, at' = at, t' = t, MainCalls(CurrentStep)
  PROVE  ChildInv'
<1> DEFINE act == Enter(Main, CurrentStep.call)
<1>1. /\ at = "running" /\ child = Alive /\ self \in SelfRecord /\ self.pc > 0 /\ tracer \in TracerRecord
      /\ StoppedInACall /\ TracerFollows /\ self.passed \in BOOLEAN
  BY DEF Running, ChildInv, SelfRecord
<1>2. CurrentStep.op \in {"call", "until"} /\ event = NoEvent /\ tracer' = tracer
  BY DEF MainCalls
<1>3. tracer.at # "event" /\ TracerKept
  BY <1>1, <1>2 DEF StoppedInACall, TracerKept
<1>4. ASSUME NEW seen, NEW after \in SelfRecord, after.pc = self.pc, after.passed = self.passed,
             Sees(CurrentStep, seen, after), UNCHANGED event
      PROVE  ChildInv'
  <2>1. Advances
    BY <1>1, <1>4, SeesAdvances
  <2>2. TracerFollows'
    BY <1>1, <1>2, <1>3, <2>1, FollowsKept DEF Advances
  <2> QED
    BY <1>1, <1>2, <1>3, <1>4, <2>1, <2>2, AdvanceKeeps
<1>5. ASSUME NEW code, Dies("signalled", code) PROVE ChildInv'
  <2>1. self' = self /\ child'.how = "signalled" /\ child' # Alive
    BY <1>5 DEF Dies, Alive
  <2> QED
    BY <1>1, <1>3, <2>1, DeathKeeps DEF ExitIsEarned
<1>6. CASE Performs(CurrentStep)
  <2>1. UNCHANGED event
    BY <1>6 DEF Performs
  <2>2. CASE CurrentStep.call.nr \in {"exit", "exit_group"}
    <3>1. self' = self /\ child' = [how |-> "exited", code |-> IF CurrentStep.call.nr = "exit" \/ self.passed THEN "1" ELSE "0"]
      BY <1>6, <2>2 DEF Performs, Dies
    <3>2. child' # Alive /\ (child'.code # "0" => CurrentStep.call.nr = "exit" \/ self.passed)
      BY <3>1 DEF Alive
    <3>3. ExitIsEarned'
      BY <1>2, <2>2, <3>1, <3>2, ExitEarned DEF ExitIsEarned
    <3> QED
      BY <1>1, <1>3, <3>1, <3>2, <3>3, DeathKeeps
  <2>3. CASE self' = [self EXCEPT !.tries = @ + 1] /\ UNCHANGED child
    <3>1. self' \in SelfRecord /\ self'.pc = self.pc /\ self'.passed = self.passed
      BY <1>1, <2>3 DEF SelfRecord
    <3> QED
      BY <1>1, <1>2, <2>1, <2>3, <3>1, RestKeeps
  <2>4. CASE Sees(CurrentStep, Returns(Main, CurrentStep.call), self)
    BY <1>1, <1>4, <2>1, <2>4
  <2> QED
    BY <1>6, <2>2, <2>3, <2>4 DEF Performs
<1>7. CASE UNCHANGED <<self, child>>
  BY <1>1, <1>2, <1>7, RestKeeps
<1>8. CASE Sees(CurrentStep, "skipped", [self EXCEPT !.TRAP_nr = "SIGSYS"]) /\ UNCHANGED event
  <2> DEFINE after == [self EXCEPT !.TRAP_nr = "SIGSYS"]
  <2>1. after \in SelfRecord /\ after.pc = self.pc /\ after.passed = self.passed
    BY <1>1 DEF SelfRecord
  <2> HIDE DEF after
  <2>2. Sees(CurrentStep, "skipped", after) /\ UNCHANGED event
    BY <1>8 DEF after
  <2> QED
    BY <1>4, <2>1, <2>2
<1>9. ASSUME NEW seen, Sees(CurrentStep, seen, self) /\ UNCHANGED event PROVE ChildInv'
  BY <1>1, <1>4, <1>9
<1> QED
  BY <1>5, <1>6, <1>7, <1>8, <1>9 DEF MainCalls

LEMMA ContinuesKeep ==
  ASSUME HarnessInv, RunsInOrder, ChildInv, Running, at' = at, t' = t, MainContinues(CurrentStep)
  PROVE  ChildInv'
<1>1. /\ at = "running" /\ child = Alive /\ self \in SelfRecord /\ self.pc > 0 /\ tracer \in TracerRecord
      /\ StoppedInACall /\ TracerFollows /\ self.passed \in BOOLEAN
  BY DEF Running, ChildInv, SelfRecord
<1>2. CurrentStep.op \in {"call", "until"} /\ event' = NoEvent /\ tracer' = tracer
  BY <1>1 DEF MainContinues, StoppedInACall
<1>3. tracer.at # "event" /\ TracerKept
  BY <1>1, <1>2 DEF MainContinues, StoppedInACall, TracerKept, Attached
<1>4. Sees(CurrentStep, IF event.reply # "" THEN event.reply ELSE Returns(Main, event.call), self)
  BY DEF MainContinues
<1>5. Advances
  BY <1>1, <1>4, SeesAdvances
<1>6. TracerFollows'
  BY <1>1, <1>2, <1>3, <1>5, FollowsKept DEF Advances
<1> QED
  BY <1>1, <1>2, <1>3, <1>5, <1>6, AdvanceKeeps

\* The steps that are neither system calls nor about the tracer.
LEMMA OthersKeep ==
  ASSUME HarnessInv, RunsInOrder, ChildInv, Running, at' = at, t' = t,
         NEW seen, NEW after \in SelfRecord, after.pc = self.pc, after.passed = self.passed,
         Sees(CurrentStep, seen, after), CurrentStep.op \notin {"call", "until", "waitpid"},
         UNCHANGED event, tracer' \in TracerRecord, tracer'.at # "event" \/ tracer'.at = tracer.at, TracerKept
  PROVE  ChildInv'
<1>1. /\ at = "running" /\ child = Alive /\ self \in SelfRecord /\ self.pc > 0
      /\ StoppedInACall /\ TracerFollows /\ self.passed \in BOOLEAN
  BY DEF Running, ChildInv, SelfRecord
<1>2. event = NoEvent /\ tracer.at # "event"
  BY <1>1 DEF StoppedInACall
<1>3. Advances
  BY <1>1, SeesAdvances
<1>4. TracerFollows'
  BY <1>1, <1>3, FollowsKept DEF Advances
<1> QED
  BY <1>1, <1>2, <1>3, <1>4, AdvanceKeeps

LEMMA SelfChanged ==
  ASSUME self \in SelfRecord, NEW x \in {"dfl", "ignore", "handler"}, NEW b \in BOOLEAN
  PROVE  /\ [self EXCEPT !.sigsys = x] \in SelfRecord
         /\ [self EXCEPT !.sigsys = x].pc = self.pc /\ [self EXCEPT !.sigsys = x].passed = self.passed
         /\ [self EXCEPT !.ptracer = b] \in SelfRecord
         /\ [self EXCEPT !.ptracer = b].pc = self.pc /\ [self EXCEPT !.ptracer = b].passed = self.passed
BY DEF SelfRecord

LEMMA LooksKeep ==
  ASSUME HarnessInv, RunsInOrder, ChildInv, Running, at' = at, t' = t, MainLooks(CurrentStep)
  PROVE  ChildInv'
<1>1. self \in SelfRecord /\ tracer \in TracerRecord
  BY DEF ChildInv
<1>2. CurrentStep.op \notin {"call", "until", "waitpid"} /\ UNCHANGED <<tracer, event>>
  BY DEF MainLooks, traceVars
<1>3. TracerKept
  BY <1>1, <1>2 DEF TracerKept
<1>4. ASSUME NEW seen, Sees(CurrentStep, seen, self) PROVE ChildInv'
  BY <1>1, <1>2, <1>3, <1>4, OthersKeep
<1>5. ASSUME NEW x \in {"dfl", "ignore", "handler"}, Sees(CurrentStep, "0", [self EXCEPT !.sigsys = x]) PROVE ChildInv'
  <2> DEFINE after == [self EXCEPT !.sigsys = x]
  <2>1. after \in SelfRecord /\ after.pc = self.pc /\ after.passed = self.passed
    BY <1>1, SelfChanged
  <2> HIDE DEF after
  <2>2. Sees(CurrentStep, "0", after)
    BY <1>5 DEF after
  <2> QED
    BY <1>1, <1>2, <1>3, <2>1, <2>2, OthersKeep
<1>6. CASE CurrentStep.op \in {"ignore", "handle"}
  <2>1. Sees(CurrentStep, "0", [self EXCEPT !.sigsys = IF CurrentStep.op = "handle" THEN "handler" ELSE "ignore"])
    BY <1>6, Zenon DEF MainLooks
  <2>2. (IF CurrentStep.op = "handle" THEN "handler" ELSE "ignore") \in {"dfl", "ignore", "handler"}
    OBVIOUS
  <2> QED
    BY <1>5, <2>1, <2>2
<1>7. CASE CurrentStep.op \in {"poked", "TRAP_nr"}
  <2>1. Sees(CurrentStep, self[CurrentStep.op], self)
    <3>1. CurrentStep.op \notin {"ignore", "handle"}
      BY <1>7
    <3> QED
      BY <1>7, <3>1, Zenon DEF MainLooks
  <2> QED
    BY <1>4, <2>1
<1>8. CASE CurrentStep.op \notin {"ignore", "handle", "poked", "TRAP_nr"}
  <2>1. CurrentStep.op \notin {"ignore", "handle"} /\ CurrentStep.op \notin {"poked", "TRAP_nr"}
    BY <1>8
  <2>2. Sees(CurrentStep, "0", self)
    BY <2>1, Zenon DEF MainLooks
  <2> QED
    BY <1>4, <2>2
<1> QED
  BY <1>6, <1>7, <1>8

LEMMA ThreadsKeep ==
  ASSUME HarnessInv, RunsInOrder, ChildInv, Running, at' = at, t' = t,
         \/ MainSemWait(CurrentStep) \/ MainBroadcasts(CurrentStep)
         \/ MainJoins(CurrentStep) \/ MainStarts(CurrentStep)
  PROVE  ChildInv'
<1>1. self \in SelfRecord /\ tracer \in TracerRecord
  BY DEF ChildInv
<1>2. CurrentStep.op \in {"sem_wait", "broadcast", "join", "poll", "start"} /\ UNCHANGED <<tracer, event>>
  BY DEF MainSemWait, MainBroadcasts, Wakes, MainJoins, MainStarts, traceVars
<1>3. TracerKept
  BY <1>1, <1>2 DEF TracerKept
<1>4. \E seen : Sees(CurrentStep, seen, self)
  BY DEF MainSemWait, MainBroadcasts, Wakes, MainJoins, MainStarts
<1> QED
  BY <1>1, <1>2, <1>3, <1>4, OthersKeep

LEMMA SetsUpKeeps ==
  ASSUME HarnessInv, RunsInOrder, ChildInv, Running, at' = at, t' = t, MainSetsUp(CurrentStep)
  PROVE  ChildInv'
<1>1. /\ at = "running" /\ child = Alive /\ self \in SelfRecord /\ self.pc > 0 /\ self.pc \in Nat
      /\ tracer \in TracerRecord /\ StoppedInACall /\ self.passed \in BOOLEAN
  BY DEF Running, ChildInv, SelfRecord
<1>2. UNCHANGED event
  BY DEF MainSetsUp
<1>3. CASE StartsTracer(CurrentStep) /\ Sees(CurrentStep, "0", self)
           /\ tracer' = [at |-> "attach", running |-> TRUE, passed |-> self.passed, func |-> CurrentStep.op]
  <2>1. CurrentStep.op \notin {"call", "until", "waitpid"}
    BY <1>3 DEF StartsTracer
  <2>2. event' = NoEvent
    BY <1>1, <1>2, <2>1 DEF StoppedInACall
  <2>3. Advances
    BY <1>1, <1>3, SeesAdvances
  <2>4. tracer' \in TracerRecord /\ tracer'.at = "attach"
    BY <1>1, <1>3 DEF TracerRecord, StartsTracer
  <2>5. self.pc \in DOMAIN Script /\ CurrentStep = Script[self.pc]
    <3>1. self.pc <= Len(Script)
      BY <1>1, <2>1, StepFacts, ScriptFacts
    <3> QED
      BY <1>1, <3>1, StepFacts
  <2>6. Script' = Script /\ self'.pc = self.pc + 1
    BY <2>3 DEF Script, Advances
  <2>7. \E i \in DOMAIN Script : i < self'.pc /\ StartsTracer(Script[i])
    <3>1. self.pc < self'.pc
      BY <1>1, <2>6
    <3> QED
      BY <1>3, <2>5, <3>1
  <2>8. ASSUME NEW i \in DOMAIN Script, i < self'.pc, Script[i].op = "waitpid" PROVE FALSE
    <3>1. self.pc < i
      BY <1>1, <1>3, <2>5, <2>8, ScriptFacts
    <3> QED
      BY <1>1, <2>6, <2>8, <3>1, ScriptFacts
  <2>9. TracerFollows'
    BY <2>4, <2>6, <2>7, <2>8 DEF TracerFollows, Behind
  <2> QED
    BY <1>1, <2>2, <2>3, <2>4, <2>9, AdvanceKeeps
<1>4. CASE CurrentStep.op \in {"PR_SET_PTRACER", "sync"} /\ UNCHANGED tracer
  <2>1. TracerKept
    BY <1>1, <1>4 DEF TracerKept
  <2>2. CASE Sees(CurrentStep, "0", self)
    BY <1>1, <1>2, <1>4, <2>1, <2>2, OthersKeep
  <2>3. CASE Sees(CurrentStep, "0", [self EXCEPT !.ptracer = TRUE])
    <3> DEFINE after == [self EXCEPT !.ptracer = TRUE]
    <3>1. after \in SelfRecord /\ after.pc = self.pc /\ after.passed = self.passed
      BY <1>1, SelfChanged
    <3> HIDE DEF after
    <3>2. Sees(CurrentStep, "0", after)
      BY <2>3 DEF after
    <3> QED
      BY <1>1, <1>2, <1>4, <2>1, <3>1, <3>2, OthersKeep
  <2> QED
    BY <1>4, <2>2, <2>3 DEF MainSetsUp, StartsTracer
<1> QED
  BY <1>3, <1>4 DEF MainSetsUp, StartsTracer

LEMMA TearsDownKeeps ==
  ASSUME HarnessInv, RunsInOrder, ChildInv, Running, at' = at, t' = t, MainTearsDown(CurrentStep)
  PROVE  ChildInv'
<1>1. /\ at = "running" /\ child = Alive /\ self \in SelfRecord /\ self.pc > 0 /\ self.pc \in Nat
      /\ tracer \in TracerRecord /\ StoppedInACall /\ self.passed \in BOOLEAN /\ TracerFollows
  BY DEF Running, ChildInv, SelfRecord
<1>2. UNCHANGED event
  BY DEF MainTearsDown
<1>3. CASE /\ CurrentStep.op = "SIGUSR1" /\ Sees(CurrentStep, "0", self)
           /\ tracer' = [tracer EXCEPT !.running = FALSE, !.at = IF @ = "waiting" THEN "loop" ELSE @]
  <2>1. /\ tracer' \in TracerRecord /\ tracer'.passed = tracer.passed
        /\ tracer'.at = IF tracer.at = "waiting" THEN "loop" ELSE tracer.at
    BY <1>1, <1>3 DEF TracerRecord
  <2>2. TracerKept /\ (tracer'.at # "event" \/ tracer'.at = tracer.at)
    BY <2>1 DEF TracerKept
  <2> QED
    BY <1>1, <1>2, <1>3, <2>1, <2>2, OthersKeep
<1>4. CASE /\ CurrentStep.op = "waitpid" /\ tracer.at \in {"exited", "aborted"}
           /\ Sees(CurrentStep, "0", [self EXCEPT !.passed = @ /\ (tracer.at = "exited" => tracer.passed)])
           /\ UNCHANGED tracer
  <2> DEFINE b == self.passed /\ (tracer.at = "exited" => tracer.passed)
             after == [self EXCEPT !.passed = b]
  <2>1. after \in SelfRecord /\ after.pc = self.pc /\ after.passed = b
    <3>1. b \in BOOLEAN
      BY <1>1 DEF TracerRecord
    <3> HIDE DEF b
    <3> QED
      BY <1>1, <3>1 DEF SelfRecord
  <2>2. Sees(CurrentStep, "0", after)
    BY <1>4
  <2>3. (after.passed => self.passed) /\ (after.passed /\ tracer.at = "exited" => tracer.passed)
    BY <2>1
  <2> HIDE DEF after, b
  <2>4. self.pc \in DOMAIN Script /\ CurrentStep = Script[self.pc]
    <3>1. self.pc <= Len(Script)
      BY <1>1, <1>4, StepFacts, ScriptFacts
    <3> QED
      BY <1>1, <3>1, StepFacts
  <2>5. ~CurrentStep.fatal
    BY <1>1, <1>4, <2>4, ScriptFacts
  <2>6. Advances
    BY <1>1, <2>1, <2>2, <2>3, <2>5, SeesAdvances
  <2>7. self'.passed => after.passed
    BY <2>1, <2>2 DEF Sees, SelfRecord
  <2>8. Script' = Script /\ self'.pc = self.pc + 1
    BY <2>6 DEF Script, Advances
  <2>9. \E i \in DOMAIN Script : i < self'.pc /\ StartsTracer(Script[i])
    <3>1. PICK i \in DOMAIN Script : i < self.pc /\ StartsTracer(Script[i])
      BY <1>1, <1>4 DEF TracerFollows, Behind
    <3>2. i < self'.pc
      BY <1>1, <2>8, <3>1, ScriptFacts
    <3> QED
      BY <3>1, <3>2
  <2>10. self'.passed /\ tracer'.at = "exited" => tracer'.passed
    BY <1>4, <2>3, <2>7
  <2>11. tracer'.at \in {"exited", "aborted"} /\ tracer'.at # "none"
    BY <1>4
  <2>12. TracerFollows'
    BY <2>8, <2>9, <2>10, <2>11 DEF TracerFollows, Behind
  <2>13. event' = NoEvent /\ tracer' \in TracerRecord /\ tracer'.at # "event"
    BY <1>1, <1>2, <1>4 DEF StoppedInACall
  <2> QED
    BY <1>1, <2>6, <2>12, <2>13, AdvanceKeeps
<1> QED
  BY <1>3, <1>4 DEF MainTearsDown

LEMMA MainKeeps ==
  ASSUME HarnessInv, RunsInOrder, ChildInv, MainStep \/ MainStartsSibling
  PROVE  ChildInv'
<1>1. Running /\ at' = at /\ t' = t
  BY DEF MainStep, MainStartsSibling
<1>2. CASE MainStep
  <2>1. \/ MainCalls(CurrentStep) \/ MainContinues(CurrentStep) \/ MainLooks(CurrentStep)
        \/ MainSemWait(CurrentStep) \/ MainBroadcasts(CurrentStep) \/ MainJoins(CurrentStep)
        \/ MainSetsUp(CurrentStep) \/ MainTearsDown(CurrentStep)
    BY <1>2 DEF MainStep
  <2> QED
    BY <1>1, <2>1, CallsKeep, ContinuesKeep, LooksKeep, ThreadsKeep, SetsUpKeeps, TearsDownKeeps
<1>3. CASE MainStartsSibling
  BY <1>1, <1>3, ThreadsKeep DEF MainStartsSibling
<1> QED
  BY <1>2, <1>3

--------------------------------------------------------------------------------
(* The child: its tracer.                                                   *)

LEMMA TracerMoves ==
  ASSUME HarnessInv, RunsInOrder, ChildInv, at = "running", at' = at, t' = t,
         tracer.at \notin {"none", "exited", "aborted"}, tracer' \in TracerRecord, tracer'.at # "none",
         self' \in SelfRecord, self'.pc = self.pc, self'.passed = self.passed,
         child' = child \/ (child' # Alive /\ child'.how = "signalled"), StoppedInACall'
  PROVE  ChildInv'
<1>1. self \in SelfRecord /\ self.pc > 0 /\ OnlyNoted /\ TracerFollows /\ ExitIsEarned
  BY DEF ChildInv
<1>2. TracerFollows'
  BY <1>1, FollowsKept DEF TracerKept
<1>3. OnlyNoted'
  BY <1>1 DEF OnlyNoted, Behind, Script
<1>4. ExitIsEarned'
  BY <1>1 DEF ExitIsEarned
<1> QED
  BY <1>1, <1>2, <1>3, <1>4 DEF ChildInv

\* The tracer goes on and nothing else changes.
LEMMA TracerGoesOn ==
  ASSUME HarnessInv, RunsInOrder, ChildInv, at = "running", at' = at, t' = t,
         tracer.at \notin {"none", "exited", "aborted"}, tracer' \in TracerRecord, tracer'.at # "none",
         UNCHANGED <<self, event, child>>,
         tracer'.at = "event" => child = Alive /\ event # NoEvent /\ event.reply = ""
  PROVE  ChildInv'
<1>1. self \in SelfRecord /\ StoppedInACall
  BY DEF ChildInv
<1>2. StoppedInACall'
  BY <1>1 DEF StoppedInACall, CurrentStep, Script
<1> QED
  BY <1>1, <1>2, TracerMoves

LEMMA TracerRecordKept ==
  ASSUME tracer \in TracerRecord, NEW to \in {"unblock", "loop", "entering", "waiting", "event", "exited", "aborted"},
         TracerGoes(to)
  PROVE  tracer' \in TracerRecord /\ tracer'.at = to /\ tracer'.passed = tracer.passed
BY DEF TracerGoes, TracerRecord

LEMMA TracerPokes ==
  ASSUME HarnessInv, RunsInOrder, ChildInv, at = "running", at' = at, t' = t, tracer.at = "event", tracer_poke
  PROVE  ChildInv'
<1>1. self \in SelfRecord /\ StoppedInACall /\ tracer \in TracerRecord
  BY DEF ChildInv
<1>2. CASE Message = "0x1001"
  <2>1. self' = [self EXCEPT !.poked = "0x1001"] /\ TracerGoes("loop") /\ UNCHANGED child
    BY <1>2 DEF tracer_poke
  <2>2. tracer' \in TracerRecord /\ tracer'.at = "loop"
    BY <1>1, <2>1, TracerRecordKept
  <2>3. self' \in SelfRecord /\ self'.pc = self.pc /\ self'.passed = self.passed
    BY <1>1, <2>1 DEF SelfRecord
  <2>4. CurrentStep' = CurrentStep
    BY <2>3 DEF CurrentStep, Script
  <2>5. StoppedInACall'
    BY <1>1, <2>1, <2>2, <2>4 DEF StoppedInACall
  <2> QED
    BY <2>1, <2>2, <2>3, <2>5, TracerMoves
<1>3. CASE Message # "0x1001"
  <2>1. TracerGoes("aborted") /\ self' = self /\ child' = [how |-> "signalled", code |-> "SIGKILL"]
    BY <1>3 DEF tracer_poke, Dies
  <2>2. tracer' \in TracerRecord /\ tracer'.at = "aborted"
    BY <1>1, <2>1, TracerRecordKept
  <2>3. child' # Alive /\ child'.how = "signalled"
    BY <2>1 DEF Alive
  <2>4. StoppedInACall'
    BY <2>3 DEF StoppedInACall
  <2> QED
    BY <1>1, <2>1, <2>2, <2>3, <2>4, TracerMoves
<1> QED
  BY <1>2, <1>3

LEMMA TracerChanges ==
  ASSUME HarnessInv, RunsInOrder, ChildInv, at = "running", at' = at, t' = t, tracer.at = "event", tracer_syscall
  PROVE  ChildInv'
<1>1. self \in SelfRecord /\ StoppedInACall /\ tracer \in TracerRecord
  BY DEF ChildInv
<1>2. \E ok \in BOOLEAN : tracer' = [tracer EXCEPT !.at = "loop", !.passed = ok]
  <2>1. (tracer.passed /\ (Message \in {"0", "0x1002", "0x1003", "0x1004"})
         /\ event.call.nr = (CASE Message = "0x1002" -> "getpid" [] Message = "0x1003" -> "gettid"
                               [] Message = "0x1004" -> "getppid" [] OTHER -> event.call.nr)) \in BOOLEAN
    BY Zenon
  <2> QED
    BY <2>1, Zenon DEF tracer_syscall
<1>3. tracer' \in TracerRecord /\ tracer'.at = "loop"
  BY <1>1, <1>2 DEF TracerRecord
<1>4. self' = self /\ (child' = child \/ child' = [how |-> "signalled", code |-> "SIGKILL"])
  BY Zenon DEF tracer_syscall, Dies
<1>5. child' = child \/ (child' # Alive /\ child'.how = "signalled")
  <2>1. ASSUME child' = [how |-> "signalled", code |-> "SIGKILL"] PROVE child' # Alive /\ child'.how = "signalled"
    BY <2>1 DEF Alive
  <2> QED
    BY <1>4, <2>1
<1>6. CurrentStep' = CurrentStep
  BY <1>4 DEF CurrentStep, Script
<1>7. StoppedInACall'
  BY <1>1, <1>3, <1>5, <1>6 DEF StoppedInACall
<1> QED
  BY <1>1, <1>3, <1>4, <1>5, <1>7, TracerMoves

LEMMA TracerKeeps ==
  ASSUME HarnessInv, RunsInOrder, ChildInv, TracerStep
  PROVE  ChildInv'
<1>1. at = "running" /\ at' = at /\ t' = t /\ tracer \in TracerRecord
  BY DEF TracerStep, ChildInv
<1>2. ASSUME NEW to \in {"unblock", "loop", "entering", "waiting", "exited", "aborted"}, TracerGoes(to),
             tracer.at \notin {"none", "exited", "aborted"}, UNCHANGED <<self, event, child>>
      PROVE  ChildInv'
  BY <1>1, <1>2, TracerRecordKept, TracerGoesOn
<1>3. CASE TracerAttaches
  BY <1>2, <1>3 DEF TracerAttaches
<1>4. CASE TracerUnblocks
  BY <1>2, <1>4 DEF TracerUnblocks
<1>5. CASE TracerLoops
  <2>1. CASE tracer.at = "loop"
    <3>1. (IF tracer.running THEN "entering" ELSE "exited") \in {"entering", "exited"}
      OBVIOUS
    <3> QED
      BY <1>2, <1>5, <2>1, <3>1 DEF TracerLoops
  <2>2. CASE tracer.at = "entering"
    BY <1>2, <1>5, <2>2 DEF TracerLoops
  <2> QED
    BY <1>5, <2>1, <2>2 DEF TracerLoops
<1>6. CASE TracerWaits
  <2>1. tracer.at = "waiting" /\ UNCHANGED <<self, event, child>>
    BY <1>6 DEF TracerWaits
  <2>2. CASE child = Alive /\ event # NoEvent /\ event.reply = "" /\ TracerGoes("event")
    BY <1>1, <2>1, <2>2, TracerRecordKept, TracerGoesOn
  <2>3. CASE tracer' = [tracer EXCEPT !.at = "exited", !.passed = TRUE]
    <3>1. tracer' \in TracerRecord /\ tracer'.at = "exited"
      BY <1>1, <2>3 DEF TracerRecord
    <3> QED
      BY <1>1, <2>1, <3>1, TracerGoesOn
  <2> QED
    BY <1>6, <2>2, <2>3 DEF TracerWaits
<1>7. CASE TracerHandles
  BY <1>1, <1>2, <1>7, TracerPokes, TracerChanges DEF TracerHandles
<1> QED
  BY <1>3, <1>4, <1>5, <1>6, <1>7 DEF TracerStep

--------------------------------------------------------------------------------
(* The verdict.                                                             *)

LEMMA ChildStarts == Init => ChildInv /\ KilledBySignal /\ VerdictIsEarned
<1> SUFFICES ASSUME Init PROVE ChildInv /\ KilledBySignal /\ VerdictIsEarned  OBVIOUS
<1>1. at = "constructors" /\ self = NewSelf /\ tracer = NoTracer /\ child = NoChild
  BY DEF Init, HarnessInit
<1>2. NewSelf \in SelfRecord /\ NewSelf.pc = 1
  BY DEF NewSelf, SelfRecord
<1>3. NoTracer \in TracerRecord
  BY DEF NoTracer, TracerRecord
<1>4. child.how = "none"
  BY <1>1 DEF NoChild
<1> QED
  BY <1>1, <1>2, <1>3, <1>4 DEF ChildInv, KilledBySignal, VerdictIsEarned

LEMMA ForkKeeps ==
  ASSUME HarnessInv, RunsInOrder, (HarnessInv /\ RunsInOrder)', Fork,
         self' = NewSelf, tracer' = NoTracer, event' = NoEvent
  PROVE  ChildInv'
<1>1. at' = "running" /\ child' = Alive
  BY DEF Fork
<1>2. self' \in SelfRecord /\ self'.pc = 1 /\ self'.passed = TRUE /\ tracer' \in TracerRecord
  BY DEF NewSelf, NoTracer, SelfRecord, TracerRecord
<1>3. tracer'.at = "none" /\ tracer'.passed
  BY DEF NoTracer
<1>4. DOMAIN Script' = 1 .. Len(Script') /\ Len(Script') \in Nat
  <2>1. count' \in 0 .. Len(Tests) /\ count' > 0 /\ t' = count'
    BY <1>1 DEF HarnessInv, RunsInOrder
  <2>2. t' \in DOMAIN Tests
    BY <2>1, TestsAssumption
  <2> QED
    BY <2>2, SuiteAssumption DEF Script
<1>5. StoppedInACall' /\ OnlyNoted'
  BY <1>2, <1>3 DEF StoppedInACall, OnlyNoted
<1>6. ASSUME NEW i \in DOMAIN Script', i < self'.pc PROVE FALSE
  BY <1>2, <1>4, <1>6
<1>7. TracerFollows'
  BY <1>3, <1>6 DEF TracerFollows, Behind
<1>8. child'.how # "exited"
  BY <1>1 DEF Alive
<1> QED
  BY <1>2, <1>5, <1>7, <1>8 DEF ChildInv, ExitIsEarned

LEMMA ChildVarsSuffice ==
  ChildInv /\ UNCHANGED <<at, t, child, self, tracer, event>> => ChildInv'
BY DEF ChildInv, StoppedInACall, OnlyNoted, TracerFollows, ExitIsEarned, Behind, CurrentStep, Script

\* A child that dies where its tracer is not started leaves nothing to account for.
LEMMA SetUpFailureEnds ==
  ASSUME MainSetUpFails
  PROVE  /\ UNCHANGED <<at, t, env, task, self, sibling, sem, tracer, event>>
         /\ child'.how = "signalled" /\ child' # Alive
<1>1. child' = [how |-> "signalled", code |-> "SIGABRT"]
  BY DEF MainSetUpFails, Dies
<1>2. child'.how = "signalled" /\ Alive.how = "alive"
  BY <1>1 DEF Alive
<1>3. UNCHANGED <<at, t, env, task, self, sibling, sem, tracer, event>>
  BY DEF MainSetUpFails, Dies, threadVars, traceVars
<1> QED
  BY <1>2, <1>3

LEMMA SetUpFailureKeeps ==
  ASSUME ChildInv, MainSetUpFails
  PROVE  ChildInv'
<1>1. /\ UNCHANGED <<at, t, self, tracer, event>>
      /\ child'.how = "signalled" /\ child'.how # "exited" /\ child' # Alive
  BY SetUpFailureEnds
<1>2. Script' = Script
  BY <1>1 DEF Script
<1>3. at = "running" => TracerFollows'
  BY <1>1, <1>2 DEF ChildInv, TracerFollows, Behind
<1> QED
  BY <1>1, <1>3 DEF ChildInv, StoppedInACall, OnlyNoted, ExitIsEarned

LEMMA ChildKept ==
  ASSUME HarnessInv, RunsInOrder, (HarnessInv /\ RunsInOrder)', ChildInv, [Next]_vars
  PROVE  ChildInv'
<1>1. CASE /\ Fork /\ self' = NewSelf /\ tracer' = NoTracer /\ event' = NoEvent
  BY <1>1, ForkKeeps
<1>2. CASE at' # "running" /\ UNCHANGED <<self, tracer>>
  BY <1>2 DEF ChildInv
<1>3. CASE MainStep \/ MainStartsSibling
  BY <1>3, MainKeeps
<1>4. CASE TracerStep
  BY <1>4, TracerKeeps
<1>5. CASE UNCHANGED <<at, t, child, self, tracer, event>>
  BY <1>5, ChildVarsSuffice
<1>6. ConstructorStep => at' # "running" /\ UNCHANGED <<self, tracer>>
  BY DEF ConstructorStep, ByItself, traceVars, __constructor_order_first, __constructor_order_last, Register, Calls
<1>7. (test_harness_run \/ Return \/ Judge \/ ForkFails) /\ ByItself => at' # "running" /\ UNCHANGED <<self, tracer>>
  BY DEF ByItself, traceVars, test_harness_run, Return, Judge, ForkFails, Count
<1>8. ASSUME NEW s \in Siblings, SiblingStep(s) PROVE UNCHANGED <<at, t, child, self, tracer, event>>
  BY <1>8 DEF SiblingStep, harnessVars, traceVars
<1>9. SpuriousWakeUp => UNCHANGED <<at, t, child, self, tracer, event>>
  BY DEF SpuriousWakeUp, traceVars
<1>10. UNCHANGED vars => UNCHANGED <<at, t, child, self, tracer, event>>
  BY DEF vars, harnessVars
<1>11. MainSetUpFails => ChildInv'
  BY SetUpFailureKeeps
<1> QED
  BY <1>1, <1>2, <1>3, <1>4, <1>5, <1>6, <1>7, <1>8, <1>9, <1>10, <1>11 DEF Next, HarnessStep, HarnessForkFails

LEMMA JudgeIsEarned ==
  ASSUME HarnessInv, RunsInOrder, ChildInv, KilledBySignal, Judge, UNCHANGED <<self, tracer>>
  PROVE  VerdictIsEarned'
<1>1. /\ at = "running" /\ child.how \in {"exited", "signalled"} /\ child' = child /\ count' = count
      /\ passed' = Verdict(Tests[t].termsig, child)
  BY DEF Judge, Count
<1>2. t = count
  BY <1>1, ScriptFacts
<1>3. ExitIsEarned
  BY <1>1 DEF ChildInv
<1> SUFFICES ASSUME Verdict(Tests[count].termsig, child)
             PROVE  IF Tests[count].termsig = "-1"
                    THEN child.how = "exited" /\ self.passed /\ (tracer.passed \/ tracer.at = "aborted")
                    ELSE child.how = "signalled" /\ child.code = Tests[count].termsig
  BY <1>1, <1>2 DEF VerdictIsEarned
<1>4. CASE child.how = "exited"
  <2>1. Tests[count].termsig = "-1" /\ child.code # "0"
    BY <1>4 DEF Verdict
  <2> QED
    BY <1>3, <1>4, <2>1 DEF ExitIsEarned
<1>5. CASE child.how = "signalled"
  <2>1. child.code = Tests[count].termsig /\ child.code # "-1"
    BY <1>5 DEF Verdict, KilledBySignal
  <2> QED
    BY <1>5, <2>1
<1> QED
  BY <1>1, <1>4, <1>5

LEMMA SignalKept == KilledBySignal /\ [Next]_vars => KilledBySignal'
<1> SUFFICES ASSUME KilledBySignal, [Next]_vars PROVE KilledBySignal'  OBVIOUS
<1>1. ASSUME UNCHANGED child PROVE KilledBySignal'
  BY <1>1 DEF KilledBySignal
<1>2. ASSUME NEW how, NEW code \in {"0", "1", "SIGABRT", "SIGKILL", "SIGSYS"}, child' = [how |-> how, code |-> code],
             how # "signalled" \/ code \in {"SIGABRT", "SIGKILL", "SIGSYS"}
      PROVE  KilledBySignal'
  BY <1>2 DEF KilledBySignal
<1>3. ASSUME NEW step, NEW seen, NEW after, Sees(step, seen, after) PROVE KilledBySignal'
  BY <1>1, <1>2, <1>3 DEF Sees
<1>4. CASE MainStep
  <2>1. PICK step \in {CurrentStep} :
          MainCalls(step) \/ MainContinues(step) \/ MainLooks(step) \/ MainSemWait(step) \/ MainBroadcasts(step)
          \/ MainJoins(step) \/ MainSetsUp(step) \/ MainTearsDown(step)
    BY <1>4 DEF MainStep
  <2>2. CASE Performs(step)
    BY <1>1, <1>2, <1>3, <2>2 DEF Performs, Dies
  <2>3. CASE MainCalls(step)
    BY <1>1, <1>2, <1>3, <2>2, <2>3 DEF MainCalls, Dies
  <2>4. CASE MainLooks(step)
    BY <1>3, <2>4, Zenon DEF MainLooks
  <2> QED
    BY <1>3, <2>1, <2>3, <2>4
    DEF MainContinues, MainSemWait, MainBroadcasts, Wakes, MainJoins, MainSetsUp, MainTearsDown
<1>5. CASE MainStartsSibling
  BY <1>3, <1>5 DEF MainStartsSibling, MainStarts
<1>6. CASE TracerStep
  <2>1. ASSUME Dies("signalled", "SIGKILL") PROVE KilledBySignal'
    BY <1>2, <2>1 DEF Dies
  <2>2. CASE tracer_poke
    BY <1>1, <2>1, <2>2 DEF tracer_poke
  <2>3. CASE tracer_syscall
    <3>1. UNCHANGED child \/ Dies("signalled", "SIGKILL")
      BY <2>3, Zenon DEF tracer_syscall
    <3> QED
      BY <1>1, <2>1, <3>1
  <2> QED
    BY <1>1, <1>6, <2>2, <2>3
    DEF TracerStep, TracerAttaches, TracerUnblocks, TracerLoops, TracerWaits, TracerHandles
<1>7. CASE Fork \/ ForkFails
  <2>1. Alive.how = "alive" /\ NoChild.how = "none"
    BY DEF Alive, NoChild
  <2>2. child' = Alive \/ child' = NoChild
    BY <1>7 DEF Fork, ForkFails
  <2> QED
    BY <2>1, <2>2 DEF KilledBySignal
<1>8. ASSUME NEW s \in Siblings, SiblingStep(s) PROVE KilledBySignal'
  BY <1>1, <1>8 DEF SiblingStep, harnessVars
<1>9. CASE ConstructorStep \/ test_harness_run \/ Return \/ Judge \/ SpuriousWakeUp \/ UNCHANGED vars
  BY <1>1, <1>9
  DEF ConstructorStep, __constructor_order_first, __constructor_order_last, Register, Calls,
      test_harness_run, Return, Judge, SpuriousWakeUp, vars, harnessVars
<1>10. CASE MainSetUpFails
  BY <1>10 DEF MainSetUpFails, Dies, KilledBySignal
<1> QED
  BY <1>4, <1>5, <1>6, <1>7, <1>8, <1>9, <1>10 DEF Next, HarnessStep, HarnessForkFails

LEMMA VerdictKept ==
  ASSUME HarnessInv, RunsInOrder, ChildInv, KilledBySignal, VerdictIsEarned, [Next]_vars
  PROVE  VerdictIsEarned'
<1>1. CASE Judge /\ UNCHANGED <<self, tracer>>
  BY <1>1, JudgeIsEarned
<1>2. CASE at' # "loop"
  BY <1>2 DEF VerdictIsEarned
<1>3. CASE child' = NoChild
  <2>1. child'.how = "none"
    BY <1>3 DEF NoChild
  <2> QED
    BY <2>1 DEF VerdictIsEarned
<1>4. CASE UNCHANGED vars
  BY <1>4 DEF vars, harnessVars, VerdictIsEarned
<1>5. CASE ConstructorStep
  BY <1>2, <1>5 DEF ConstructorStep, __constructor_order_first, __constructor_order_last, Register, Calls
<1>6. CASE test_harness_run
  BY <1>3, <1>6 DEF test_harness_run, HarnessInv
<1>7. CASE Fork \/ Return
  BY <1>2, <1>7 DEF Fork, Return
<1>8. CASE ForkFails
  BY <1>3, <1>8 DEF ForkFails
<1>9. CASE ChildStep
  BY <1>2, <1>9, ChildLeavesOrder DEF orderVars
<1>10. CASE Judge /\ ByItself
  BY <1>1, <1>10 DEF ByItself, traceVars
<1> QED
  BY <1>4, <1>5, <1>6, <1>7, <1>8, <1>9, <1>10 DEF Next, HarnessStep, HarnessForkFails, ChildStep

\* What the verdict rests on, at every step: the list, the harness's place in it, and
\* what the child and its tracer have seen.
THEOREM SeccompInvariance == Spec => []SeccompInv
<1>1. Init => SeccompInv
  BY ListStarts, ChildStarts DEF SeccompInv
<1>2. SeccompInv /\ [Next]_vars => SeccompInv'
  BY OrderStep, ChildKept, SignalKept, VerdictKept DEF SeccompInv
<1> QED
  BY <1>1, <1>2, PTL DEF Spec

(***************************************************************************)
(* A test is counted as passed only if the child has met every expectation *)
(* and its tracer too, unless the tracer has been aborted by an ASSERT of  *)
(* its own, which is taken for a pass (AssertsAreAdopted); or if it has    *)
(* died of the signal it was to die of: for every suite that waits for its *)
(* tracers, however the kernel answers and whatever threads and tracer do  *)
(* in between (__run_test, ASSERT and EXPECT, setup_trace_fixture and      *)
(* teardown_trace_fixture).                                                *)
(***************************************************************************)
THEOREM PassIsEarned == Spec => []VerdictIsEarned
<1>1. SeccompInv => VerdictIsEarned
  BY DEF SeccompInv
<1> QED
  BY <1>1, SeccompInvariance, PTL

--------------------------------------------------------------------------------
(* How far a step of the main thread goes, and whether the child lives on.  *)

ChildStays == child' = child \/ child'.how \in {"exited", "signalled"}

LEMMA SeesMoves ==
  ASSUME NEW step, NEW seen, NEW after \in SelfRecord, after.pc = self.pc, Sees(step, seen, after)
  PROVE  self'.pc = self.pc + 1 /\ ChildStays
<1>1. /\ \E b : self' = [after EXCEPT !.passed = b, !.pc = after.pc + 1]
      /\ child' = child \/ child' = [how |-> "signalled", code |-> "SIGABRT"]
  BY DEF Sees
<1>2. ASSUME NEW b, NEW n PROVE [after EXCEPT !.passed = b, !.pc = n].pc = n
  BY DEF SelfRecord
<1> QED
  BY <1>1, <1>2 DEF ChildStays

LEMMA DiesMoves ==
  ASSUME NEW how \in {"exited", "signalled"}, NEW code, Dies(how, code)
  PROVE  self' = self /\ ChildStays
BY DEF Dies, ChildStays

LEMMA CallsMove ==
  ASSUME self \in SelfRecord, MainCalls(CurrentStep)
  PROVE  self'.pc \in {self.pc, self.pc + 1} /\ ChildStays
<1>1. ASSUME NEW seen, Sees(CurrentStep, seen, self) PROVE self'.pc = self.pc + 1 /\ ChildStays
  BY <1>1, SeesMoves
<1>2. CASE Performs(CurrentStep)
  <2>1. ASSUME self' = [self EXCEPT !.tries = @ + 1] /\ UNCHANGED child PROVE self'.pc = self.pc /\ ChildStays
    BY <2>1 DEF SelfRecord, ChildStays
  <2>2. ASSUME NEW code, Dies("exited", code) PROVE self'.pc = self.pc /\ ChildStays
    BY <2>2, DiesMoves
  <2> QED
    BY <1>1, <1>2, <2>1, <2>2 DEF Performs
<1>3. CASE UNCHANGED <<self, child>>
  BY <1>3 DEF ChildStays
<1>4. ASSUME NEW code, Dies("signalled", code) PROVE self'.pc = self.pc /\ ChildStays
  BY <1>4, DiesMoves
<1>5. CASE Sees(CurrentStep, "skipped", [self EXCEPT !.TRAP_nr = "SIGSYS"])
  <2> DEFINE after == [self EXCEPT !.TRAP_nr = "SIGSYS"]
  <2>1. after \in SelfRecord /\ after.pc = self.pc
    BY DEF SelfRecord
  <2> HIDE DEF after
  <2>2. Sees(CurrentStep, "skipped", after)
    BY <1>5 DEF after
  <2> QED
    BY <2>1, <2>2, SeesMoves
<1> QED
  BY <1>1, <1>2, <1>3, <1>4, <1>5 DEF MainCalls

LEMMA LooksMove ==
  ASSUME self \in SelfRecord, MainLooks(CurrentStep)
  PROVE  self'.pc = self.pc + 1 /\ ChildStays
<1>1. ASSUME NEW seen, Sees(CurrentStep, seen, self) PROVE self'.pc = self.pc + 1 /\ ChildStays
  BY <1>1, SeesMoves
<1>2. ASSUME NEW x \in {"dfl", "ignore", "handler"}, Sees(CurrentStep, "0", [self EXCEPT !.sigsys = x])
      PROVE  self'.pc = self.pc + 1 /\ ChildStays
  <2> DEFINE after == [self EXCEPT !.sigsys = x]
  <2>1. after \in SelfRecord /\ after.pc = self.pc
    BY SelfChanged
  <2> HIDE DEF after
  <2>2. Sees(CurrentStep, "0", after)
    BY <1>2 DEF after
  <2> QED
    BY <2>1, <2>2, SeesMoves
<1>3. CASE CurrentStep.op \in {"ignore", "handle"}
  <2>1. Sees(CurrentStep, "0", [self EXCEPT !.sigsys = IF CurrentStep.op = "handle" THEN "handler" ELSE "ignore"])
    BY <1>3, Zenon DEF MainLooks
  <2>2. (IF CurrentStep.op = "handle" THEN "handler" ELSE "ignore") \in {"dfl", "ignore", "handler"}
    OBVIOUS
  <2> QED
    BY <1>2, <2>1, <2>2
<1>4. CASE CurrentStep.op \notin {"ignore", "handle"}
  <2>1. Sees(CurrentStep, self[CurrentStep.op], self) \/ Sees(CurrentStep, "0", self)
    BY <1>4, Zenon DEF MainLooks
  <2> QED
    BY <1>1, <2>1
<1> QED
  BY <1>3, <1>4

LEMMA TracesMove ==
  ASSUME self \in SelfRecord, tracer \in TracerRecord, MainSetsUp(CurrentStep) \/ MainTearsDown(CurrentStep)
  PROVE  self'.pc = self.pc + 1 /\ ChildStays
<1>1. CASE Sees(CurrentStep, "0", self)
  BY <1>1, SeesMoves
<1>2. CASE Sees(CurrentStep, "0", [self EXCEPT !.ptracer = TRUE])
  <2> DEFINE after == [self EXCEPT !.ptracer = TRUE]
  <2>1. after \in SelfRecord /\ after.pc = self.pc
    BY SelfChanged
  <2> HIDE DEF after
  <2>2. Sees(CurrentStep, "0", after)
    BY <1>2 DEF after
  <2> QED
    BY <2>1, <2>2, SeesMoves
<1>3. CASE Sees(CurrentStep, "0", [self EXCEPT !.passed = @ /\ (tracer.at = "exited" => tracer.passed)])
  <2> DEFINE b == self.passed /\ (tracer.at = "exited" => tracer.passed)
             after == [self EXCEPT !.passed = b]
  <2>1. b \in BOOLEAN
    BY DEF SelfRecord, TracerRecord
  <2>2. Sees(CurrentStep, "0", after)
    BY <1>3
  <2> HIDE DEF b
  <2>3. after \in SelfRecord /\ after.pc = self.pc
    BY <2>1 DEF SelfRecord
  <2> HIDE DEF after
  <2> QED
    BY <2>2, <2>3, SeesMoves
<1> QED
  BY <1>1, <1>2, <1>3 DEF MainSetsUp, MainTearsDown

LEMMA ThreadsMove ==
  ASSUME self \in SelfRecord,
         \/ MainSemWait(CurrentStep) \/ MainBroadcasts(CurrentStep) \/ MainContinues(CurrentStep)
         \/ MainJoins(CurrentStep) \/ MainStarts(CurrentStep)
  PROVE  self'.pc = self.pc + 1 /\ ChildStays
<1>1. \E seen : Sees(CurrentStep, seen, self)
  BY DEF MainSemWait, MainBroadcasts, Wakes, MainContinues, MainJoins, MainStarts
<1> QED
  BY <1>1, SeesMoves

\* The tracer ends the main thread or lets it be.
LEMMA TracerLeaves ==
  ASSUME self \in SelfRecord, TracerStep
  PROVE  self'.pc = self.pc /\ ChildStays /\ UNCHANGED <<sibling, sem, task, env, accident>>
<1>1. UNCHANGED <<sibling, sem, task, env, accident>>
  BY DEF TracerStep, threadVars
<1>2. CASE UNCHANGED <<self, child>>
  BY <1>1, <1>2 DEF ChildStays
<1>3. CASE Dies("signalled", "SIGKILL")
  BY <1>1, <1>3, DiesMoves
<1>4. CASE tracer_poke
  <2>1. CASE self' = [self EXCEPT !.poked = "0x1001"] /\ UNCHANGED child
    BY <1>1, <2>1 DEF SelfRecord, ChildStays
  <2> QED
    BY <1>3, <1>4, <2>1 DEF tracer_poke
<1>5. CASE tracer_syscall
  <2>1. UNCHANGED <<self, child>> \/ Dies("signalled", "SIGKILL")
    BY <1>5, Zenon DEF tracer_syscall
  <2> QED
    BY <1>2, <1>3, <2>1
<1> QED
  BY <1>2, <1>4, <1>5
  DEF TracerStep, TracerAttaches, TracerUnblocks, TracerLoops, TracerWaits, TracerHandles

--------------------------------------------------------------------------------
(* What the harness counts.                                                 *)

LEMMA MainMoves ==
  ASSUME self \in SelfRecord, tracer \in TracerRecord, MainStep \/ MainStartsSibling
  PROVE  self'.pc \in {self.pc, self.pc + 1} /\ ChildStays
<1>1. CASE MainStep
  <2>1. \/ MainCalls(CurrentStep) \/ MainContinues(CurrentStep) \/ MainLooks(CurrentStep)
        \/ MainSemWait(CurrentStep) \/ MainBroadcasts(CurrentStep) \/ MainJoins(CurrentStep)
        \/ MainSetsUp(CurrentStep) \/ MainTearsDown(CurrentStep)
    BY <1>1 DEF MainStep
  <2> QED
    BY <2>1, CallsMove, LooksMove, TracesMove, ThreadsMove
<1>2. CASE MainStartsSibling
  BY <1>2, ThreadsMove DEF MainStartsSibling
<1> QED
  BY <1>1, <1>2

LEMMA CountStarts == Init => CountInv
<1> SUFFICES ASSUME Init PROVE CountInv  OBVIOUS
<1>1. accident \in {"none", "barred"}
  BY EnvsAssumption DEF Init
<1>2. child.how = "none"
  BY DEF Init, HarnessInit, NoChild
<1> QED
  BY <1>1, <1>2, TestsAssumption DEF Init, HarnessInit, NULL, CountInv

LEMMA CountKept ==
  ASSUME SeccompInv, CountInv, [Next]_vars
  PROVE  CountInv'
<1>1. /\ t' \in 0 .. Len(Tests) /\ Len(Tests) \in Nat /\ pass_count \in Nat /\ count \in Nat
  <2>1. /\ t \in 0 .. Len(Tests) /\ (at = "running" => t \in DOMAIN Tests)
        /\ test_list.head \in 0 .. Len(Tests) /\ test_list.next \in [DOMAIN Tests -> 0 .. Len(Tests)]
    <3>1. at = "running" => t \in DOMAIN Tests
      BY ScriptFacts DEF SeccompInv
    <3>2. t \in 0 .. Len(Tests)
      BY DEF CountInv
    <3>3. test_list.head \in 0 .. Len(Tests) /\ test_list.next \in [DOMAIN Tests -> 0 .. Len(Tests)]
      BY DEF SeccompInv, ListInv
    <3> QED
      BY <3>1, <3>2, <3>3
  <2>2. Len(Tests) \in Nat /\ pass_count \in Nat /\ count \in Nat
    BY TestsAssumption DEF SeccompInv, CountInv, HarnessInv
  <2>3. CASE t' = t
    BY <2>1, <2>2, <2>3
  <2>4. CASE test_harness_run
    BY <2>1, <2>2, <2>4 DEF test_harness_run
  <2>5. CASE ForkFails \/ Judge
    <3>1. t \in DOMAIN Tests
      <4>1. t # 0 \/ at = "running"
        BY <2>5 DEF ForkFails, Judge, NULL
      <4>2. t \in 0 .. Len(Tests) /\ (at = "running" => t \in DOMAIN Tests)
        BY <2>1
      <4> QED
        BY <2>2, <4>1, <4>2, TestsAssumption
    <3> QED
      BY <2>1, <2>2, <2>5, <3>1 DEF ForkFails, Judge, Count
  <2>6. CASE ConstructorStep \/ Fork \/ Return \/ UNCHANGED vars
    BY <2>3, <2>6
    DEF ConstructorStep, __constructor_order_first, __constructor_order_last, Register, Calls, Fork, Return,
        vars, harnessVars
  <2>7. CASE ChildStep
    BY <2>3, <2>7, ChildLeavesOrder DEF orderVars
  <2> QED
    BY <2>4, <2>5, <2>6, <2>7 DEF Next, HarnessStep, HarnessForkFails, ChildStep
<1>2. CASE ChildStep
  <2>1. self \in SelfRecord /\ tracer \in TracerRecord
    BY DEF SeccompInv, ChildInv
  <2>2. ChildStays
    BY <1>2, <2>1, MainMoves, TracerLeaves
    DEF ChildStep, MainSetUpFails, Dies, SiblingStep, SpuriousWakeUp, harnessVars, ChildStays
  <2>3. UNCHANGED <<at, count, pass_count, ret>> /\ accident' \in {accident, "fork", "create", "wake-up"}
    BY <1>2
    DEF ChildStep, MainStep, MainStartsSibling, MainStarts, MainSetUpFails, SiblingStep, SpuriousWakeUp, SiblingWakesUp, TracerStep,
        harnessVars
  <2> QED
    BY <1>1, <2>2, <2>3 DEF CountInv, ChildStays
<1>3. CASE UNCHANGED <<at, count, pass_count, ret, child, accident>>
  BY <1>1, <1>3 DEF CountInv
<1>4. CASE ConstructorStep \/ UNCHANGED vars
  BY <1>3, <1>4
  DEF ConstructorStep, __constructor_order_first, __constructor_order_last, Register, Calls, vars, harnessVars
<1>5. CASE test_harness_run \/ Return
  BY <1>1, <1>5 DEF test_harness_run, Return, CountInv
<1>6. CASE Fork
  <2>1. child'.how = "alive"
    BY <1>6 DEF Fork, Alive
  <2> QED
    BY <1>1, <1>6, <2>1 DEF Fork, CountInv
<1>7. CASE ForkFails
  <2>1. child'.how = "none"
    BY <1>7 DEF ForkFails, NoChild
  <2> QED
    BY <1>1, <1>7, <2>1 DEF ForkFails, Count, CountInv
<1>8. CASE Judge
  BY <1>1, <1>8 DEF Judge, Count, CountInv
<1> QED
  BY <1>2, <1>4, <1>5, <1>6, <1>7, <1>8 DEF Next, HarnessStep, HarnessForkFails, ChildStep

--------------------------------------------------------------------------------
(* The siblings.                                                            *)

LEMMA PostedIsFinite ==
  ASSUME TRUE
  PROVE  /\ IsFiniteSet(Posted) /\ Cardinality(Posted) \in Nat /\ Cardinality(Posted) <= TSYNC_SIBLINGS
         /\ \A s \in Siblings \ Posted : Cardinality(Posted \cup {s}) = Cardinality(Posted) + 1
<1>1. IsFiniteSet(Siblings) /\ Cardinality(Siblings) = TSYNC_SIBLINGS
  <2>1. 0 \in Int /\ TSYNC_SIBLINGS - 1 \in Int /\ TSYNC_SIBLINGS \in Nat
    BY EnvsAssumption
  <2>2. /\ IsFiniteSet(0 .. TSYNC_SIBLINGS - 1)
        /\ Cardinality(0 .. TSYNC_SIBLINGS - 1) = IF 0 > TSYNC_SIBLINGS - 1 THEN 0 ELSE TSYNC_SIBLINGS - 1 - 0 + 1
    BY <2>1, FS_Interval
  <2> QED
    BY <2>1, <2>2 DEF Siblings
<1>2. Posted \in SUBSET Siblings
  BY DEF Posted
<1>3. IsFiniteSet(Posted) /\ Cardinality(Posted) <= Cardinality(Siblings)
  BY <1>1, <1>2, FS_Subset
<1>4. Cardinality(Posted) \in Nat
  BY <1>3, FS_CardinalityType
<1>5. \A s \in Siblings \ Posted : Cardinality(Posted \cup {s}) = Cardinality(Posted) + 1
  BY <1>3, FS_AddElement
<1> QED
  BY <1>1, <1>3, <1>4, <1>5

\* What lies behind the main thread stays behind it.
LEMMA BehindStays ==
  ASSUME HarnessInv, RunsInOrder, at = "running", t' = t, self.pc \in Nat, self'.pc \in {self.pc, self.pc + 1},
         NEW s
  PROVE  (Started(s) => Started(s)') /\ (AskedForMore(s) => AskedForMore(s)')
<1>1. DOMAIN Script \subseteq Nat /\ Script' = Script
  BY ScriptFacts DEF Script
<1>2. ASSUME NEW i \in DOMAIN Script, Behind(i) PROVE Behind(i)'
  BY <1>1, <1>2 DEF Behind
<1> QED
  BY <1>1, <1>2 DEF Started, AskedForMore

\* A step that leaves the siblings alone.
LEMMA SiblingsLeft ==
  ASSUME HarnessInv, RunsInOrder, SiblingsInv, sibling' = sibling, sem' \in {sem, sem - 1}, sem' \in Nat,
         at' = "running" => at = "running" /\ t' = t /\ self.pc \in Nat /\ self'.pc \in {self.pc, self.pc + 1}
  PROVE  SiblingsInv'
<1>1. Posted' = Posted
  BY DEF Posted
<1>2. sem' <= Cardinality(Posted')
  BY <1>1, PostedIsFinite DEF SiblingsInv
<1>3. ASSUME NEW s \in Siblings, at' = "running"
      PROVE  (sibling'[s].at # "absent" => Started(s)') /\ (sibling'[s].num_waits > 1 => AskedForMore(s)')
  BY <1>3, BehindStays DEF SiblingsInv
<1> QED
  BY <1>2, <1>3 DEF SiblingsInv

Places == {"absent", "new", "posted", "waiting", "woken", "nnp", "read", "returned", "dead"}

Statuses == {"none", "FAILURE", "NEWPRIVS", "UNKILLED", "0"}

\* A step that changes where one sibling is, its count of waits, or its status.
Becomes(s, p, n) ==
  /\ sibling' \in [Siblings -> SiblingRecord]
  /\ sibling'[s].at = p /\ sibling'[s].num_waits = n
  /\ \A o \in Siblings \ {s} : sibling'[o] = sibling[o]

LEMMA SiblingChanged ==
  ASSUME sibling \in [Siblings -> SiblingRecord], NEW s \in Siblings, NEW p \in Places
  PROVE  /\ sibling' = [sibling EXCEPT ![s].at = p] => Becomes(s, p, sibling[s].num_waits)
         /\ \A st \in Statuses :
              sibling' = [sibling EXCEPT ![s].at = p, ![s].status = st] => Becomes(s, p, sibling[s].num_waits)
         /\ \A n \in 0 .. 2 : sibling' = [sibling EXCEPT ![s].num_waits = n, ![s].at = p] => Becomes(s, p, n)
BY DEF SiblingRecord, Places, Statuses, Becomes

\* A step of one sibling, which goes on, gives up or is dead, or counts a wait.
LEMMA SiblingGoesOn ==
  ASSUME SiblingsInv, NEW s \in Siblings, NEW p, NEW n \in 0 .. 2, Becomes(s, p, n),
         sibling[s].at # "absent", p \notin {"absent", "new"}, n <= sibling[s].num_waits,
         p \in {"posted", "waiting", "woken"} => n > 0,
         UNCHANGED <<at, t, self>>,
         sem' = IF sibling[s].at = "new" THEN sem + 1 ELSE sem
  PROVE  SiblingsInv'
<1>1. /\ sibling' \in [Siblings -> SiblingRecord]
      /\ sibling'[s].at = p /\ sibling'[s].num_waits = n
      /\ \A o \in Siblings \ {s} : sibling'[o] = sibling[o]
  BY DEF Becomes
<1>2. sem' \in Nat /\ sem' <= Cardinality(Posted')
  <2>1. Posted' = Posted \cup {s}
    BY <1>1 DEF Posted
  <2>2. CASE sibling[s].at = "new"
    <3>1. s \in Siblings \ Posted
      BY <2>2 DEF Posted
    <3> QED
      BY <2>1, <2>2, <3>1, PostedIsFinite DEF SiblingsInv
  <2>3. CASE sibling[s].at # "new"
    <3>1. Posted' = Posted
      BY <2>1, <2>3 DEF Posted
    <3> QED
      BY <2>3, <3>1 DEF SiblingsInv
  <2> QED
    BY <2>2, <2>3
<1>3. \A o \in Siblings : Started(o)' = Started(o) /\ AskedForMore(o)' = AskedForMore(o)
  BY DEF Started, AskedForMore, Behind, Script
<1>4. ASSUME NEW o \in Siblings
      PROVE  /\ sibling'[o].at \in {"absent", "new", "posted", "waiting", "woken"} => sibling'[o].num_waits > 0
             /\ at' = "running" =>
                  (sibling'[o].at # "absent" => Started(o)') /\ (sibling'[o].num_waits > 1 => AskedForMore(o)')
  <2>1. CASE o = s
    <3>1. sibling[s].num_waits \in 0 .. 2
      BY DEF SiblingsInv, SiblingRecord
    <3> QED
      BY <1>1, <1>3, <2>1, <3>1 DEF SiblingsInv
  <2>2. CASE o # s
    BY <1>1, <1>3, <2>2 DEF SiblingsInv
  <2> QED
    BY <2>1, <2>2
<1> QED
  BY <1>1, <1>2, <1>4 DEF SiblingsInv

LEMMA SiblingKeeps ==
  ASSUME SiblingsInv, NEW s \in Siblings, SiblingStep(s)
  PROVE  SiblingsInv'
<1>1. UNCHANGED <<at, t, self>> /\ sibling \in [Siblings -> SiblingRecord] /\ sibling[s].num_waits \in 0 .. 2
  BY DEF SiblingStep, harnessVars, SiblingsInv, SiblingRecord
<1>2. ASSUME NEW p \in Places \ {"absent", "new"}, sibling[s].at # "absent",
             sem' = IF sibling[s].at = "new" THEN sem + 1 ELSE sem,
             p \in {"posted", "waiting", "woken"} => sibling[s].at \in {"new", "posted", "waiting", "woken"},
             \/ sibling' = [sibling EXCEPT ![s].at = p]
             \/ \E st \in Statuses : sibling' = [sibling EXCEPT ![s].at = p, ![s].status = st]
      PROVE  SiblingsInv'
  <2>1. Becomes(s, p, sibling[s].num_waits)
    BY <1>1, <1>2, SiblingChanged
  <2>2. p \in {"posted", "waiting", "woken"} => sibling[s].num_waits > 0
    BY <1>2 DEF SiblingsInv
  <2>3. p \notin {"absent", "new"} /\ sibling[s].num_waits <= sibling[s].num_waits
    BY <1>1
  <2> QED
    BY <1>1, <1>2, <2>1, <2>2, <2>3, SiblingGoesOn
<1>3. CASE SiblingPosts(s)
  <2>1. sibling[s].at = "new" /\ sem' = sem + 1
    BY <1>3 DEF SiblingPosts
  <2>2. PICK st \in {"none", "FAILURE"} : sibling' = [sibling EXCEPT ![s].at = "posted", ![s].status = st]
    <3> DEFINE result == IF ~sibling[s].diverge THEN "0"
                         ELSE IF Enter(s, set_filter(root_prog)).kind = "ERRNO" THEN Enter(s, set_filter(root_prog)).data
                         ELSE Returns(s, set_filter(root_prog))
               st == IF result = "0" THEN "none" ELSE "FAILURE"
    <3>1. sibling' = [sibling EXCEPT ![s].at = "posted", ![s].status = st]
      BY Zenon, <1>3 DEF SiblingPosts
    <3>2. st \in {"none", "FAILURE"}
      OBVIOUS
    <3> HIDE DEF st
    <3> QED
      BY Zenon, <3>1, <3>2
  <2>3. st \in Statuses
    BY <2>2 DEF Statuses
  <2> QED
    BY <1>2, <2>1, <2>2, <2>3 DEF Places
<1>4. CASE SiblingWaits(s)
  <2>1. (IF sibling[s].status = "FAILURE" THEN "returned" ELSE "waiting") \in {"returned", "waiting"}
    OBVIOUS
  <2> QED
    BY <1>2, <1>4, <2>1 DEF SiblingWaits, Places
<1>5. CASE SiblingWoken(s)
  <2> DEFINE p == IF sibling[s].num_waits = 1 THEN "nnp" ELSE "waiting"
             n == sibling[s].num_waits - 1
  <2>1. sibling[s].at = "woken" /\ sem' = sem /\ sibling[s].num_waits > 0
    BY <1>5 DEF SiblingWoken, SiblingsInv
  <2>2. p \in Places \ {"absent", "new"} /\ n \in 0 .. 2 /\ (p \in {"posted", "waiting", "woken"} => n > 0)
    BY <1>1, <2>1 DEF Places
  <2>3. n <= sibling[s].num_waits
    BY <1>1
  <2>4. sibling' = [sibling EXCEPT ![s].num_waits = n, ![s].at = p]
    BY <1>5 DEF SiblingWoken
  <2> HIDE DEF p, n
  <2>5. Becomes(s, p, n)
    BY <1>1, <2>2, <2>4, SiblingChanged
  <2> QED
    BY <1>1, <2>1, <2>2, <2>3, <2>5, SiblingGoesOn
<1>6. CASE SiblingAsks(s)
  <2>1. sibling[s].status \in Statuses
    BY <1>1 DEF SiblingRecord, Statuses
  <2>2. sibling[s].at = "nnp" /\ sem' = sem
    BY <1>6 DEF SiblingAsks
  <2> DEFINE none == Enter(s, prctl("get_nnp")).kind = "ALLOW" /\ ~task[s].nnp
             p == IF none THEN "returned" ELSE "read"
             st == IF none THEN "NEWPRIVS" ELSE sibling[s].status
  <2>3. sibling' = [sibling EXCEPT ![s].at = p, ![s].status = st]
    BY Zenon, <1>6 DEF SiblingAsks
  <2> HIDE DEF none
  <2>4. p \in {"returned", "read"} /\ st \in {"NEWPRIVS", sibling[s].status}
    BY Zenon
  <2> HIDE DEF p, st
  <2>5. st \in Statuses
    BY <2>1, <2>4 DEF Statuses
  <2> QED
    BY <1>2, <2>2, <2>3, <2>4, <2>5 DEF Places
<1>7. CASE SiblingReads(s)
  <2>1. sibling[s].at = "read" /\ sem' = sem
    BY <1>7 DEF SiblingReads
  <2> DEFINE st == IF Enter(s, Call("read")).kind = "KILL" THEN "0" ELSE "UNKILLED"
  <2>2. sibling' = [sibling EXCEPT ![s].at = "returned", ![s].status = st]
    BY Zenon, <1>7 DEF SiblingReads
  <2>3. st \in {"0", "UNKILLED"}
    BY Zenon
  <2> HIDE DEF st
  <2>4. st \in Statuses
    BY <2>3 DEF Statuses
  <2> QED
    BY <1>2, <2>1, <2>2, <2>4 DEF Places
<1>8. CASE SiblingDies(s)
  BY <1>2, <1>8 DEF SiblingDies, Places
<1> QED
  BY <1>3, <1>4, <1>5, <1>6, <1>7, <1>8 DEF SiblingStep

LEMMA WakesUpKeeps ==
  ASSUME SiblingsInv, SpuriousWakeUp
  PROVE  SiblingsInv'
<1>1. PICK s \in Siblings : SiblingWakesUp(s)
  BY DEF SpuriousWakeUp
<1>2. /\ sibling \in [Siblings -> SiblingRecord] /\ sibling[s].num_waits \in 0 .. 2
      /\ sibling[s].at = "waiting" /\ sibling[s].num_waits > 0
  BY <1>1 DEF SiblingWakesUp, SiblingsInv, SiblingRecord
<1>3. Becomes(s, "woken", sibling[s].num_waits)
  <2>1. "woken" \in Places /\ sibling' = [sibling EXCEPT ![s].at = "woken"]
    BY <1>1 DEF Places, SiblingWakesUp
  <2> QED
    BY <1>2, <2>1, SiblingChanged
<1>4. UNCHANGED <<at, t, self, sem>>
  BY <1>1 DEF SpuriousWakeUp, SiblingWakesUp
<1> QED
  BY <1>2, <1>3, <1>4, SiblingGoesOn

\* A sibling is started once in a test, and asked for more once.
LEMMA OnceEach ==
  ASSUME HarnessInv, RunsInOrder, at = "running", self.pc \in DOMAIN Script
  PROVE  /\ Script[self.pc].op = "start" =>
              Script[self.pc].who \in Siblings /\ ~Started(Script[self.pc].who)
         /\ AsksForMore(Script[self.pc]) =>
              Script[self.pc].who \in Siblings /\ ~AskedForMore(Script[self.pc].who)
<1>1. t \in DOMAIN Tests /\ DOMAIN Script \subseteq Nat
  BY ScriptFacts
<1>2. \A i \in DOMAIN Script :
        Script[i].op = "start" \/ AsksForMore(Script[i]) =>
          /\ Script[i].who \in Siblings
          /\ \A j \in DOMAIN Script :
               /\ Script[j].op = Script[i].op /\ Script[j].who = Script[i].who
               /\ Script[i].op = "start" \/ AsksForMore(Script[j])
               => i = j
  BY <1>1, SuiteAssumption DEF Script
<1>3. ASSUME NEW i \in DOMAIN Script, Behind(i) PROVE i # self.pc
  BY <1>1, <1>3 DEF Behind
<1>4. ASSUME Script[self.pc].op = "start", Started(Script[self.pc].who) PROVE FALSE
  <2>1. PICK i \in DOMAIN Script : Behind(i) /\ Script[i].op = "start" /\ Script[i].who = Script[self.pc].who
    BY <1>4 DEF Started
  <2> QED
    BY <1>2, <1>3, <1>4, <2>1
<1>5. ASSUME AsksForMore(Script[self.pc]), AskedForMore(Script[self.pc].who) PROVE FALSE
  <2>1. PICK i \in DOMAIN Script : Behind(i) /\ AsksForMore(Script[i]) /\ Script[i].who = Script[self.pc].who
    BY <1>5 DEF AskedForMore
  <2>2. Script[i].op = Script[self.pc].op
    BY <1>5, <2>1 DEF AsksForMore
  <2> QED
    BY <1>2, <1>3, <1>5, <2>1, <2>2
<1> QED
  BY <1>2, <1>4, <1>5

\* What a step behind the main thread has done.
LEMMA NowBehind ==
  ASSUME HarnessInv, RunsInOrder, at = "running", t' = t, self.pc \in DOMAIN Script, self'.pc = self.pc + 1,
         NEW w, w = Script[self.pc].who
  PROVE  /\ Script[self.pc].op = "start" => Started(w)'
         /\ AsksForMore(Script[self.pc]) => AskedForMore(w)'
<1>1. DOMAIN Script \subseteq Nat /\ Script' = Script
  BY ScriptFacts DEF Script
<1>2. PICK i \in DOMAIN Script : i = self.pc
  OBVIOUS
<1>3. Behind(i)'
  BY <1>1, <1>2 DEF Behind
<1>4. Script[i].op = "start" => Started(w)'
  BY <1>1, <1>2, <1>3 DEF Started
<1>5. AsksForMore(Script[i]) => AskedForMore(w)'
  BY <1>1, <1>2, <1>3 DEF AskedForMore, AsksForMore
<1> QED
  BY <1>2, <1>4, <1>5

\* A step that is no system call is one of the test's.
LEMMA StepOfTest ==
  ASSUME HarnessInv, RunsInOrder, at = "running", self.pc \in Nat, self.pc > 0, CurrentStep.op # "call"
  PROVE  self.pc \in DOMAIN Script /\ CurrentStep = Script[self.pc]
<1>1. self.pc <= Len(Script)
  BY StepFacts, ScriptFacts
<1> QED
  BY <1>1, StepFacts

LEMMA BroadcastKeeps ==
  ASSUME HarnessInv, RunsInOrder, ChildInv, SiblingsInv, Running, at' = at, t' = t, MainBroadcasts(CurrentStep)
  PROVE  SiblingsInv'
<1> DEFINE step == CurrentStep
           place(s) == IF sibling[s].at = "waiting" THEN "woken" ELSE sibling[s].at
           waits(s) == IF s # step.who THEN sibling[s].num_waits
                       ELSE IF step.more = 1 THEN sibling[s].num_waits + 1
                       ELSE IF step.more = -1 /\ sibling[s].num_waits > 1 THEN 1 ELSE sibling[s].num_waits
<1>1. /\ at = "running" /\ self \in SelfRecord /\ self.pc \in Nat /\ self.pc > 0 /\ step.op = "broadcast" /\ sem' = sem
      /\ sibling' = [s \in Siblings |-> [sibling[s] EXCEPT !.at = place(s), !.num_waits = waits(s)]]
  BY DEF Running, ChildInv, SelfRecord, MainBroadcasts, Wakes
<1>2. self'.pc = self.pc + 1
  BY <1>1, ThreadsMove
<1>3. self.pc \in DOMAIN Script /\ step = Script[self.pc]
  <2>1. CurrentStep.op # "call"
    BY <1>1
  <2> QED
    BY <1>1, <2>1, StepOfTest
<1>4. ASSUME NEW s \in Siblings
      PROVE  /\ waits(s) \in 0 .. 2 /\ (sibling[s].num_waits > 0 => waits(s) > 0)
             /\ waits(s) > 1 => AskedForMore(s)'
  <2>1. sibling[s].num_waits \in 0 .. 2 /\ (sibling[s].num_waits > 1 => AskedForMore(s))
    BY <1>1 DEF SiblingsInv, SiblingRecord
  <2>2. AskedForMore(s) => AskedForMore(s)'
    BY <1>1, <1>2, BehindStays
  <2>3. CASE s = step.who /\ step.more = 1
    <3>1. AsksForMore(Script[self.pc]) /\ s = Script[self.pc].who
      BY <1>1, <1>3, <2>3 DEF AsksForMore
    <3>2. AskedForMore(s)'
      <4>1. t' = t /\ at = "running" /\ self.pc \in DOMAIN Script
        BY <1>1, <1>3
      <4> HIDE DEF waits, place, step
      <4> QED
        BY <1>2, <3>1, <4>1, NowBehind
    <3>3. ~AskedForMore(s)
      BY <1>1, <1>3, <3>1, OnceEach
    <3>4. waits(s) = sibling[s].num_waits + 1
      BY <2>3
    <3> HIDE DEF waits
    <3> QED
      BY <2>1, <3>2, <3>3, <3>4
  <2>4. CASE s # step.who \/ step.more # 1
    <3>1. waits(s) = sibling[s].num_waits \/ (waits(s) = 1 /\ sibling[s].num_waits > 1)
      BY <2>4
    <3> HIDE DEF waits
    <3> QED
      BY <2>1, <2>2, <3>1
  <2> QED
    BY <2>3, <2>4
<1>5. ASSUME NEW s \in Siblings
      PROVE  /\ sibling'[s] \in SiblingRecord /\ sibling'[s].at = place(s) /\ sibling'[s].num_waits = waits(s)
             /\ place(s) = sibling[s].at \/ (place(s) = "woken" /\ sibling[s].at = "waiting")
  <2>1. sibling[s] \in SiblingRecord /\ waits(s) \in 0 .. 2
    BY <1>4 DEF SiblingsInv
  <2>2. place(s) = sibling[s].at \/ (place(s) = "woken" /\ sibling[s].at = "waiting")
    OBVIOUS
  <2>3. sibling'[s] = [sibling[s] EXCEPT !.at = place(s), !.num_waits = waits(s)]
    BY <1>1
  <2> HIDE DEF place, waits
  <2> QED
    BY <2>1, <2>2, <2>3 DEF SiblingRecord
<1> HIDE DEF place, waits, step
<1>6. sibling' \in [Siblings -> SiblingRecord]
  BY <1>1, <1>5
<1>7. Posted' = Posted
  BY <1>5 DEF Posted
<1>8. ASSUME NEW s \in Siblings
      PROVE  /\ sibling'[s].at \in {"absent", "new", "posted", "waiting", "woken"} => sibling'[s].num_waits > 0
             /\ sibling'[s].at # "absent" => Started(s)'
             /\ sibling'[s].num_waits > 1 => AskedForMore(s)'
  <2>1. /\ sibling[s].at \in {"absent", "new", "posted", "waiting", "woken"} => sibling[s].num_waits > 0
        /\ sibling[s].at # "absent" => Started(s)
    BY <1>1 DEF SiblingsInv
  <2>2. Started(s) => Started(s)'
    BY <1>1, <1>2, BehindStays
  <2> QED
    BY <1>4, <1>5, <2>1, <2>2
<1> QED
  BY <1>1, <1>6, <1>7, <1>8 DEF SiblingsInv

LEMMA StartKeeps ==
  ASSUME HarnessInv, RunsInOrder, ChildInv, SiblingsInv, MainStartsSibling
  PROVE  SiblingsInv'
<1>1. /\ at = "running" /\ at' = at /\ t' = t /\ child = Alive /\ self \in SelfRecord /\ self.pc \in Nat /\ self.pc > 0
      /\ CurrentStep.op = "start" /\ sem' = sem /\ MainStarts(CurrentStep)
  BY DEF MainStartsSibling, MainStarts, Running, ChildInv, SelfRecord
<1>2. self'.pc = self.pc + 1
  BY <1>1, ThreadsMove
<1>3. self.pc \in DOMAIN Script /\ CurrentStep = Script[self.pc]
  <2>1. CurrentStep.op # "call"
    BY <1>1
  <2> QED
    BY <1>1, <2>1, StepOfTest
<1>4. CASE sibling' = sibling
  BY <1>1, <1>2, <1>4, SiblingsLeft DEF SiblingsInv
<1>5. CASE sibling' # sibling
  <2>0. PICK w : w = CurrentStep.who
    OBVIOUS
  <2>1. w \in Siblings /\ ~Started(w) /\ Started(w)'
    <3>1. Script[self.pc].op = "start" /\ w = Script[self.pc].who
      BY <1>1, <1>3, <2>0
    <3>2. w \in Siblings /\ ~Started(w)
      BY <1>1, <1>3, <3>1, OnceEach
    <3>3. Started(w)'
      BY <1>1, <1>2, <1>3, <3>1, NowBehind
    <3> QED
      BY <3>2, <3>3
  <2>2. sibling[w].at = "absent"
    BY <1>1, <2>1 DEF SiblingsInv
  <2>3. /\ sibling' \in [Siblings -> SiblingRecord]
        /\ sibling'[w].at = "new" /\ sibling'[w].num_waits = sibling[w].num_waits
        /\ \A o \in Siblings \ {w} : sibling'[o] = sibling[o]
    <3>1. sibling' = [sibling EXCEPT ![w].at = "new", ![w].diverge = CurrentStep.more = 1]
      BY <1>1, <1>5, <2>0 DEF MainStarts
    <3>2. sibling \in [Siblings -> SiblingRecord] /\ sibling[w] \in SiblingRecord
      BY <2>1 DEF SiblingsInv
    <3> DEFINE r == [sibling[w] EXCEPT !.at = "new", !.diverge = CurrentStep.more = 1]
    <3>3. sibling' = [sibling EXCEPT ![w] = r]
      BY <2>1, <3>1, <3>2
    <3>4. r \in SiblingRecord /\ r.at = "new" /\ r.num_waits = sibling[w].num_waits
      BY <3>2 DEF SiblingRecord
    <3> HIDE DEF r
    <3> QED
      BY <2>1, <3>2, <3>3, <3>4
  <2>4. Posted' = Posted
    BY <2>1, <2>2, <2>3 DEF Posted
  <2>5. ASSUME NEW s \in Siblings
        PROVE  /\ sibling'[s].at \in {"absent", "new", "posted", "waiting", "woken"} => sibling'[s].num_waits > 0
               /\ sibling'[s].at # "absent" => Started(s)'
               /\ sibling'[s].num_waits > 1 => AskedForMore(s)'
    <3>1. (Started(s) => Started(s)') /\ (AskedForMore(s) => AskedForMore(s)')
      BY <1>1, <1>2, BehindStays
    <3>2. CASE s = w
      <4>1. sibling[w].num_waits > 0 /\ (sibling[w].num_waits > 1 => AskedForMore(w))
        BY <1>1, <2>1, <2>2 DEF SiblingsInv
      <4>2. Started(s)'
        BY <2>1, <3>2 DEF Started
      <4> QED
        BY <2>3, <3>1, <3>2, <4>1, <4>2
    <3>3. CASE s # w
      BY <1>1, <2>3, <3>1, <3>3 DEF SiblingsInv
    <3> QED
      BY <3>2, <3>3
  <2> QED
    BY <1>1, <2>3, <2>4, <2>5 DEF SiblingsInv
<1> QED
  BY <1>4, <1>5

LEMMA NewSiblingsAre ==
  /\ NewSiblings \in [Siblings -> SiblingRecord]
  /\ \A s \in Siblings : NewSiblings[s].at = "absent" /\ NewSiblings[s].num_waits = 1
<1>1. \A s \in Siblings : NewSiblings[s] = [at |-> "absent", num_waits |-> 1, diverge |-> FALSE, status |-> "none"]
  BY DEF NewSiblings
<1>2. [at |-> "absent", num_waits |-> 1, diverge |-> FALSE, status |-> "none"] \in SiblingRecord
  BY DEF SiblingRecord
<1>3. \A s \in Siblings : NewSiblings[s].at = "absent" /\ NewSiblings[s].num_waits = 1
  BY <1>1
<1> QED
  BY <1>2, <1>3 DEF NewSiblings

\* No sibling is there when a child has been forked.
LEMMA SiblingsNew ==
  ASSUME sibling' = NewSiblings, sem' = 0
  PROVE  SiblingsInv'
<1>1. Posted' = {}
  BY NewSiblingsAre DEF Posted
<1>2. sem' \in Nat /\ sem' <= Cardinality(Posted')
  BY <1>1, FS_EmptySet
<1>3. ASSUME NEW s \in Siblings
      PROVE  sibling'[s].at = "absent" /\ sibling'[s].num_waits > 0 /\ ~(sibling'[s].num_waits > 1)
  BY NewSiblingsAre
<1> QED
  BY <1>2, <1>3, NewSiblingsAre DEF SiblingsInv

LEMMA SiblingsStart == Init => SiblingsInv
<1> SUFFICES ASSUME Init PROVE SiblingsInv  OBVIOUS
<1>1. sibling = NewSiblings /\ sem = 0
  BY DEF Init
<1>2. Posted = {}
  BY <1>1, NewSiblingsAre DEF Posted
<1>3. sem \in Nat /\ sem <= Cardinality(Posted)
  BY <1>1, <1>2, FS_EmptySet
<1>4. ASSUME NEW s \in Siblings
      PROVE  sibling[s].at = "absent" /\ sibling[s].num_waits > 0 /\ ~(sibling[s].num_waits > 1)
  BY <1>1, NewSiblingsAre
<1> QED
  BY <1>1, <1>3, <1>4, NewSiblingsAre DEF SiblingsInv

LEMMA MainStepKeeps ==
  ASSUME HarnessInv, RunsInOrder, ChildInv, SiblingsInv, MainStep
  PROVE  SiblingsInv'
<1>1. /\ self \in SelfRecord /\ tracer \in TracerRecord /\ self.pc \in Nat
      /\ at = "running" /\ UNCHANGED <<at, t>> /\ Running
  BY DEF ChildInv, SelfRecord, MainStep, Running
<1>2. self'.pc \in {self.pc, self.pc + 1}
  BY <1>1, MainMoves
<1>3. \/ MainBroadcasts(CurrentStep)
      \/ sibling' = sibling /\ sem' = sem
      \/ sibling' = sibling /\ sem > 0 /\ sem' = sem - 1
  BY DEF MainStep, MainCalls, MainContinues, MainLooks, MainSemWait, MainJoins, MainSetsUp, MainTearsDown, threadVars
<1>4. CASE MainBroadcasts(CurrentStep)
  BY <1>1, <1>4, BroadcastKeeps
<1>5. CASE sibling' = sibling /\ (sem' = sem \/ (sem > 0 /\ sem' = sem - 1))
  <2>1. sem' \in {sem, sem - 1} /\ sem' \in Nat
    BY <1>5 DEF SiblingsInv
  <2> QED
    BY <1>1, <1>2, <1>5, <2>1, SiblingsLeft
<1> QED
  BY <1>3, <1>4, <1>5

LEMMA SiblingsKept ==
  ASSUME HarnessInv, RunsInOrder, ChildInv, SiblingsInv, [Next]_vars
  PROVE  SiblingsInv'
<1>1. self \in SelfRecord /\ self.pc \in Nat /\ sem \in Nat
  BY DEF ChildInv, SelfRecord, SiblingsInv
<1>2. CASE MainStep
  BY <1>2, MainStepKeeps
<1>3. CASE MainStartsSibling
  BY <1>3, StartKeeps
<1>4. ASSUME NEW s \in Siblings, SiblingStep(s) PROVE SiblingsInv'
  BY <1>4, SiblingKeeps
<1>5. CASE SpuriousWakeUp
  BY <1>5, WakesUpKeeps
<1>6. CASE Fork /\ sibling' = NewSiblings /\ sem' = 0
  BY <1>6, SiblingsNew
<1>7. CASE TracerStep
  <2>1. UNCHANGED <<sibling, sem, at, t>> /\ self'.pc = self.pc
    BY <1>1, <1>7, TracerLeaves DEF TracerStep
  <2>2. at = "running"
    BY <1>7 DEF TracerStep
  <2> QED
    BY <1>1, <2>1, <2>2, SiblingsLeft
<1>8. CASE UNCHANGED vars
  <2>1. UNCHANGED <<sibling, sem, at, t, self>>
    BY <1>8 DEF vars, harnessVars, threadVars
  <2> QED
    BY <1>1, <2>1, SiblingsLeft
<1>9. CASE at' # "running" /\ UNCHANGED <<sibling, sem>>
  BY <1>1, <1>9, SiblingsLeft
<1>10. ConstructorStep => at' # "running" /\ UNCHANGED <<sibling, sem>>
  BY DEF ConstructorStep, ByItself, threadVars, __constructor_order_first, __constructor_order_last, Register, Calls
<1>11. (test_harness_run \/ Return \/ Judge \/ ForkFails) /\ ByItself => at' # "running" /\ UNCHANGED <<sibling, sem>>
  BY DEF ByItself, threadVars, test_harness_run, Return, Judge, ForkFails, Count
<1>12. CASE MainSetUpFails
  <2>1. UNCHANGED <<sibling, sem, at, t, self>>
    BY <1>12, SetUpFailureEnds
  <2> QED
    BY <1>1, <2>1, SiblingsLeft
<1> QED
  BY <1>2, <1>3, <1>4, <1>5, <1>6, <1>7, <1>8, <1>9, <1>10, <1>11, <1>12 DEF Next, HarnessStep, HarnessForkFails

--------------------------------------------------------------------------------
(* The kernel: what a thread's filters say of the _exit behind the last step. *)

\* A set of numbers has a least one.
LEMMA LeastNumber ==
  ASSUME NEW S \in SUBSET Nat, S # {}
  PROVE  \E m \in S : \A k \in S : m <= k
<1> DEFINE T == {0 .. k : k \in S}
<1>1. T \subseteq FiniteSubsetsOf(Nat) /\ T # {}
  <2>1. \A k \in S : IsFiniteSet(0 .. k) /\ 0 .. k \subseteq Nat
    BY FS_Interval
  <2> QED
    BY Zenon, <2>1 DEF FiniteSubsetsOf
<1>2. \E x \in T : \A y \in T : ~(<<y, x>> \in StrictSubsetOrdering(Nat))
  <2> HIDE DEF T
  <2> QED
    BY <1>1, WFMin, FS_StrictSubsetOrderingWellFounded
<1>3. PICK m \in S : \A k \in S : ~(<<0 .. k, 0 .. m>> \in StrictSubsetOrdering(Nat))
  BY Zenon, <1>2
<1>4. ASSUME NEW k \in S PROVE m <= k
  <2>1. k < m => 0 .. k \subseteq 0 .. m /\ m \in 0 .. m /\ m \notin 0 .. k
    OBVIOUS
  <2>2. k < m => <<0 .. k, 0 .. m>> \in StrictSubsetOrdering(Nat)
    BY <2>1 DEF StrictSubsetOrdering
  <2> QED
    BY <1>3, <2>2
<1> QED
  BY <1>4

\* Of ranked things in a row, one is ranked lowest and is the last of that rank.
LEMMA LastOfLowest ==
  ASSUME NEW n \in Nat, n > 0, NEW rank \in [1 .. n -> Nat]
  PROVE  \E i \in 1 .. n : \A j \in 1 .. n :
            i = j \/ (i < j /\ rank[i] < rank[j]) \/ (i > j /\ rank[i] <= rank[j])
<1> DEFINE Ranks == {rank[i] : i \in 1 .. n}
<1>1. PICK m \in Ranks : \A r \in Ranks : m <= r
  <2>1. Ranks \in SUBSET Nat /\ rank[1] \in Ranks
    OBVIOUS
  <2> HIDE DEF Ranks
  <2> QED
    BY <2>1, LeastNumber
<1> DEFINE Back == {n - i : i \in {k \in 1 .. n : rank[k] = m}}
<1>2. PICK d \in Back : \A b \in Back : d <= b
  <2>1. Back \in SUBSET Nat /\ Back # {}
    OBVIOUS
  <2> HIDE DEF Back
  <2> QED
    BY <2>1, LeastNumber
<1>3. PICK i \in 1 .. n : rank[i] = m /\ d = n - i
  OBVIOUS
<1>4. ASSUME NEW j \in 1 .. n
      PROVE  i = j \/ (i < j /\ rank[i] < rank[j]) \/ (i > j /\ rank[i] <= rank[j])
  <2>1. m <= rank[j] /\ m \in Nat /\ rank[j] \in Nat
    BY <1>1
  <2>2. rank[j] = m => j <= i
    <3>1. rank[j] = m => n - j \in Back
      OBVIOUS
    <3> HIDE DEF Back
    <3> QED
      BY <1>2, <1>3, <3>1
  <2> HIDE DEF Back, Ranks
  <2> QED
    BY <1>3, <2>1, <2>2
<1> QED
  BY <1>4

LEMMA RankIsNumber ==
  ASSUME NEW kind \in {"ALLOW", "KILL", "UNKNOWN"}
  PROVE  Rank(kind) \in Nat
BY DEF Rank

\* Filters that let the _exit in or kill decide so together.
LEMMA DecidedToLeave ==
  ASSUME NEW chain \in Seq(Filters)
  PROVE  Decide(chain, Call("exit_group")).kind \in {"ALLOW", "KILL", "UNKNOWN"}
<1> DEFINE act(i) == Run(chain[i].prog, Call("exit_group"))
           Over(i, j) == i = j \/ (i < j /\ Rank(act(i).kind) < Rank(act(j).kind))
                               \/ (i > j /\ Rank(act(i).kind) <= Rank(act(j).kind))
<1>1. Len(chain) \in Nat /\ DOMAIN chain = 1 .. Len(chain)
  OBVIOUS
<1>2. ASSUME NEW i \in 1 .. Len(chain) PROVE act(i).kind \in {"ALLOW", "KILL", "UNKNOWN"}
  <2>1. chain[i] \in Filters
    OBVIOUS
  <2> QED
    BY <2>1 DEF Filters, LetsExit
<1>3. CASE chain = <<>>
  BY <1>3 DEF Decide, ALLOW, Action
<1>4. CASE chain # <<>>
  <2>1. Len(chain) > 0
    BY <1>1, <1>4, EmptySeq
  <2>2. \E i \in DOMAIN chain : \A j \in DOMAIN chain : Over(i, j)
    <3> DEFINE rank == [i \in 1 .. Len(chain) |-> Rank(act(i).kind)]
    <3> HIDE DEF act
    <3>1. rank \in [1 .. Len(chain) -> Nat]
      BY <1>2, RankIsNumber
    <3>2. \A i \in 1 .. Len(chain) : rank[i] = Rank(act(i).kind)
      OBVIOUS
    <3> HIDE DEF rank
    <3>3. PICK i \in 1 .. Len(chain) : \A j \in 1 .. Len(chain) :
             i = j \/ (i < j /\ rank[i] < rank[j]) \/ (i > j /\ rank[i] <= rank[j])
      BY <1>1, <2>1, <3>1, LastOfLowest
    <3>4. ASSUME NEW j \in 1 .. Len(chain) PROVE Over(i, j)
      <4>1. rank[i] = Rank(act(i).kind) /\ rank[j] = Rank(act(j).kind)
        BY Zenon, <3>2
      <4>2. i = j \/ (i < j /\ rank[i] < rank[j]) \/ (i > j /\ rank[i] <= rank[j])
        BY Zenon, <3>3
      <4> QED
        BY Zenon, <4>1, <4>2
    <3> HIDE DEF Over
    <3> QED
      BY Zenon, <1>1, <3>4
  <2> DEFINE c == CHOOSE i \in DOMAIN chain : \A j \in DOMAIN chain : Over(i, j)
  <2>3. c \in DOMAIN chain
    BY Zenon, <2>2
  <2>4. Decide(chain, Call("exit_group")) \in {act(Len(chain)), act(1), act(c)}
    BY Zenon, <1>4 DEF Decide
  <2> HIDE DEF c, act
  <2> QED
    BY <1>1, <1>2, <2>1, <2>3, <2>4
<1> QED
  BY <1>3, <1>4

\* So the child's _exit ends it, one way or another.
LEMMA EnteredToLeave ==
  ASSUME task \in [Threads -> TaskRecord]
  PROVE  Enter(Main, Call("exit_group")).kind \in {"ALLOW", "KILL", "STRICT"}
<1>1. task[Main].chain \in Seq(Filters)
  BY DEF Threads, TaskRecord
<1> DEFINE act == Decide(task[Main].chain, Call("exit_group"))
<1>2. act.kind \in {"ALLOW", "KILL", "UNKNOWN"}
  BY <1>1, DecidedToLeave
<1>3. Call("exit_group").nr = "exit_group"
  BY DEF Call
<1>4. CASE task[Main].mode = "strict"
  BY <1>3, <1>4 DEF Enter, Action
<1>5. CASE task[Main].mode # "strict"
  <2>1. act # ERRNO("4096")
    BY <1>2 DEF ERRNO, Action
  <2>2. act.kind = "UNKNOWN" => Enter(Main, Call("exit_group")) \in {ALLOW, KILL}
    BY Zenon, <1>5, <2>1 DEF Enter
  <2>3. act.kind # "UNKNOWN" => Enter(Main, Call("exit_group")) = act
    BY Zenon, <1>5, <2>1 DEF Enter
  <2>4. ALLOW.kind = "ALLOW" /\ KILL.kind = "KILL"
    BY Zenon DEF ALLOW, KILL, Action
  <2> HIDE DEF act
  <2> QED
    BY <1>2, <2>2, <2>3, <2>4
<1> QED
  BY <1>4, <1>5

--------------------------------------------------------------------------------
(* What a system call leaves behind in the threads.                         *)

\* A call that can be asked for: a filter that is installed lets a test end, or is empty.
Askable(call) ==
  call.what = "filter" =>
    call.prog \in Progs /\ Len(call.prog) \in Nat /\ (call.prog = <<>> \/ LetsExit(call.prog))

LEMMA TasksKept ==
  ASSUME task \in [Threads -> TaskRecord], NEW thread \in Threads, NEW call, Askable(call)
  PROVE  TaskAfter(thread, call) \in [Threads -> TaskRecord]
<1> DEFINE node == [prog |-> call.prog, by |-> thread, path |-> PathLength(task[thread].chain) + Len(call.prog) + 4]
           chain == Append(task[thread].chain, node)
           Synced(o) == [task[o] EXCEPT !.mode = "filter", !.chain = chain,
                                        !.nnp = @ \/ (task[thread].nnp /\ ~Flaw("sync without nnp"))]
           Own(o) == [task[o] EXCEPT !.mode = "filter", !.chain = chain]
<1>1. task[thread] \in TaskRecord /\ task[thread].chain \in Seq(Filters)
  BY DEF TaskRecord
<1>2. CASE TaskAfter(thread, call) = task
  BY <1>2
<1>3. CASE TaskAfter(thread, call) = [task EXCEPT ![thread].nnp = TRUE]
  BY <1>3 DEF TaskRecord
<1>4. CASE TaskAfter(thread, call) = [task EXCEPT ![thread].mode = "strict", ![thread].chain = <<>>]
  <2>1. <<>> \in Seq(Filters)
    OBVIOUS
  <2>2. [task[thread] EXCEPT !.mode = "strict", !.chain = <<>>] \in TaskRecord
    BY <1>1, <2>1 DEF TaskRecord
  <2>3. TaskAfter(thread, call) = [task EXCEPT ![thread] = [task[thread] EXCEPT !.mode = "strict", !.chain = <<>>]]
    BY <1>4
  <2> QED
    BY <2>2, <2>3
<1>5. ASSUME call.what = "filter", Returns(thread, call) = "0"
      PROVE  chain \in Seq(Filters)
  <2>1. call.prog # <<>>
    <3>1. Returns(thread, call) = Installs(thread, call)
      BY <1>5, Zenon DEF Returns
    <3>2. ~Invalid(call.prog)
      BY <1>5, <3>1 DEF Installs
    <3>3. Len(call.prog) # 0
      BY <3>2, Zenon DEF Invalid
    <3> QED
      BY <3>3
  <2>2. PathLength(task[thread].chain) \in Nat
    <3>1. CASE task[thread].chain = <<>>
      BY <3>1 DEF PathLength
    <3>2. CASE task[thread].chain # <<>>
      <4>1. Last(task[thread].chain) \in Filters
        <5>1. Len(task[thread].chain) \in Nat /\ Len(task[thread].chain) > 0
          BY <1>1, <3>2, EmptySeq
        <5> QED
          BY <1>1, <5>1 DEF Last
      <4> QED
        BY <3>2, <4>1 DEF PathLength, Filters
    <3> QED
      BY <3>1, <3>2
  <2>3. node \in Filters
    BY <1>5, <2>1, <2>2 DEF Askable, Filters
  <2> HIDE DEF node
  <2> QED
    BY <1>1, <2>3
<1>6. ASSUME chain \in Seq(Filters), NEW o \in Threads
      PROVE  Own(o) \in TaskRecord /\ Synced(o) \in TaskRecord
  <2>1. task[o] \in TaskRecord
    OBVIOUS
  <2> DEFINE b == task[o].nnp \/ (task[thread].nnp /\ ~Flaw("sync without nnp"))
  <2>2. b \in BOOLEAN
    BY <1>1, <2>1 DEF TaskRecord
  <2> HIDE DEF chain
  <2>3. Own(o) \in TaskRecord
    BY <1>6, <2>1 DEF TaskRecord
  <2>4. Synced(o) = [task[o] EXCEPT !.mode = "filter", !.chain = chain, !.nnp = b]
    BY Zenon, <2>1 DEF TaskRecord
  <2> HIDE DEF b
  <2>5. [task[o] EXCEPT !.mode = "filter", !.chain = chain, !.nnp = b] \in TaskRecord
    BY <1>6, <2>1, <2>2 DEF TaskRecord
  <2> QED
    BY <2>3, <2>4, <2>5
<1>7. CASE call.what = "filter" /\ Returns(thread, call) = "0" /\ ~TooLong(task[thread].chain, call.prog)
  <2> DEFINE synced == IF call.flags # "TSYNC" THEN {}
                       ELSE {o \in Others(thread) : ~Flaw("skips the unfiltered") \/ task[o].mode # "none"}
  <2>1. TaskAfter(thread, call) =
          [o \in Threads |-> IF o = thread THEN Own(o) ELSE IF o \in synced THEN Synced(o) ELSE task[o]]
    BY <1>7, Zenon DEF TaskAfter
  <2> HIDE DEF synced, chain
  <2>2. \A o \in Threads : Own(o) \in TaskRecord /\ Synced(o) \in TaskRecord /\ task[o] \in TaskRecord
    BY <1>5, <1>6, <1>7
  <2> HIDE DEF Own, Synced
  <2> QED
    BY <2>1, <2>2
<1>8. \/ TaskAfter(thread, call) = task
      \/ TaskAfter(thread, call) = [task EXCEPT ![thread].nnp = TRUE]
      \/ TaskAfter(thread, call) = [task EXCEPT ![thread].mode = "strict", ![thread].chain = <<>>]
      \/ call.what = "filter" /\ Returns(thread, call) = "0" /\ ~TooLong(task[thread].chain, call.prog)
  BY Zenon DEF TaskAfter
<1> QED
  BY <1>2, <1>3, <1>4, <1>7, <1>8

--------------------------------------------------------------------------------
(* The child and its threads come to the end of the test.                   *)

LEMMA NewTaskIs ==
  ASSUME env.nnp \in BOOLEAN
  PROVE  NewTask \in [Threads -> TaskRecord]
<1>1. <<>> \in Seq(Filters)
  OBVIOUS
<1>2. ASSUME NEW b \in BOOLEAN PROVE [mode |-> "none", chain |-> <<>>, nnp |-> env.nnp, there |-> b] \in TaskRecord
  BY <1>1 DEF TaskRecord
<1>3. \A th \in Threads : (th = Main) \in BOOLEAN
  OBVIOUS
<1> QED
  BY Zenon, <1>2, <1>3 DEF NewTask

\* The calls of a test, and the _exit behind it, can be asked for.
LEMMA StepIsAskable ==
  ASSUME HarnessInv, RunsInOrder, at = "running", self.pc \in Nat, self.pc > 0
  PROVE  Askable(CurrentStep.call)
<1>1. t \in DOMAIN Tests
  BY ScriptFacts
<1>2. CASE self.pc <= Len(Script)
  <2>1. self.pc \in DOMAIN Script /\ CurrentStep = Script[self.pc]
    BY <1>2, StepFacts
  <2>2. Script[self.pc].call.prog \in Progs
    BY <1>1, <2>1 DEF Progs, Script
  <2>3. /\ Len(Script[self.pc].call.prog) \in Nat
        /\ Script[self.pc].call.prog = <<>> \/ LetsExit(Script[self.pc].call.prog)
    BY <1>1, <2>1, SuiteAssumption DEF Script
  <2> QED
    BY <2>1, <2>2, <2>3 DEF Askable
<1>3. CASE self.pc > Len(Script)
  <2>1. CurrentStep.call = Call("exit_group")
    BY <1>3 DEF CurrentStep, Do, Step
  <2>2. Call("exit_group").what # "filter"
    BY DEF Call
  <2> QED
    BY <2>1, <2>2 DEF Askable
<1>4. Len(Script) \in Nat
  BY ScriptFacts
<1> QED
  BY <1>2, <1>3, <1>4

LEMMA SiblingTasksKept ==
  ASSUME task \in [Threads -> TaskRecord], NEW s \in Siblings, SiblingStep(s)
  PROVE  task' \in [Threads -> TaskRecord]
<1>1. s \in Threads
  BY DEF Threads
<1>2. CASE task' = TaskAfter(s, set_filter(root_prog))
  <2>1. set_filter(root_prog).prog = root_prog
    BY DEF set_filter, prctl, Call
  <2>2. root_prog \in Progs /\ Len(root_prog) \in Nat /\ LetsExit(root_prog)
    <3>1. root_prog \in Progs
      BY DEF Progs
    <3>2. Len(root_prog) = 1
      BY DEF root_prog, allow_prog
    <3> QED
      BY <3>1, <3>2, EnvsAssumption
  <2>3. Askable(set_filter(root_prog))
    BY <2>1, <2>2 DEF Askable
  <2> QED
    BY <1>1, <1>2, <2>3, TasksKept
<1>3. CASE task' = task
  BY <1>3
<1>4. CASE task' = [task EXCEPT ![s].there = FALSE]
  <2>1. [task[s] EXCEPT !.there = FALSE] \in TaskRecord
    BY <1>1 DEF TaskRecord
  <2> QED
    BY <1>4, <2>1
<1>5. SiblingPosts(s) => task' = TaskAfter(s, set_filter(root_prog)) \/ task' = task
  BY Zenon DEF SiblingPosts
<1> QED
  BY <1>2, <1>3, <1>4, <1>5
  DEF SiblingStep, SiblingWaits, SiblingWoken, SiblingAsks, SiblingReads, SiblingDies

LEMMA MainTasksKept ==
  ASSUME HarnessInv, RunsInOrder, ChildInv, task \in [Threads -> TaskRecord], MainStep \/ MainStartsSibling
  PROVE  task' \in [Threads -> TaskRecord]
<1>1. at = "running" /\ self.pc \in Nat /\ self.pc > 0 /\ Main \in Threads
  BY DEF MainStep, MainStartsSibling, Running, ChildInv, SelfRecord, Threads
<1>2. CASE task' = TaskAfter(Main, CurrentStep.call)
  <2>1. Askable(CurrentStep.call)
    BY <1>1, StepIsAskable
  <2> QED
    BY <1>1, <1>2, <2>1, TasksKept
<1>3. CASE task' = task
  BY <1>3
<1>4. CASE task' = [task EXCEPT ![CurrentStep.who] = task[Main]]
  BY <1>1, <1>4
<1>5. CASE MainStep
  <2>1. CASE MainCalls(CurrentStep)
    <3>1. task' = TaskAfter(Main, CurrentStep.call) \/ task' = task
      BY <2>1 DEF MainCalls, Performs
    <3> QED
      BY Zenon, <1>2, <1>3, <3>1
  <2>2. CASE \/ MainContinues(CurrentStep) \/ MainLooks(CurrentStep) \/ MainSemWait(CurrentStep)
             \/ MainBroadcasts(CurrentStep) \/ MainJoins(CurrentStep) \/ MainSetsUp(CurrentStep)
             \/ MainTearsDown(CurrentStep)
    <3>1. task' = task
      BY <2>2 DEF MainContinues, MainLooks, MainSemWait, MainBroadcasts, Wakes, MainJoins, MainSetsUp, MainTearsDown
    <3> QED
      BY Zenon, <1>3, <3>1
  <2> QED
    BY Zenon, <1>5, <2>1, <2>2 DEF MainStep
<1>6. CASE MainStartsSibling
  BY <1>3, <1>4, <1>6 DEF MainStartsSibling, MainStarts
<1> QED
  BY <1>5, <1>6

\* The _exit behind the last step ends the child.
LEMMA LastStepEnds ==
  ASSUME HarnessInv, RunsInOrder, at = "running", self.pc > Len(Script), task \in [Threads -> TaskRecord],
         MainCalls(CurrentStep)
  PROVE  child' # Alive /\ self' = self
<1>1. CurrentStep.call = Call("exit_group") /\ Call("exit_group").nr = "exit_group"
  BY DEF CurrentStep, Do, Step, Call
<1>2. Enter(Main, CurrentStep.call).kind \in {"ALLOW", "KILL", "STRICT"}
  BY <1>1, EnteredToLeave
<1>3. ASSUME NEW how \in {"exited", "signalled"}, NEW code, Dies(how, code) PROVE child' # Alive /\ self' = self
  <2>1. child'.how = how /\ self' = self
    BY <1>3 DEF Dies
  <2>2. Alive.how = "alive"
    BY DEF Alive
  <2> QED
    BY <2>1, <2>2
<1>4. CASE Performs(CurrentStep)
  <2>1. PICK code : Dies("exited", code)
    BY <1>1, <1>4 DEF Performs
  <2> QED
    BY <1>3, <2>1
<1>5. CASE \E code : Dies("signalled", code)
  BY <1>3, <1>5
<1>6. Performs(CurrentStep) \/ \E code : Dies("signalled", code)
  BY <1>2 DEF MainCalls
<1> QED
  BY <1>4, <1>5, <1>6

LEMMA EndStarts == Init => EndInv
<1> SUFFICES ASSUME Init PROVE EndInv  OBVIOUS
<1>1. at = "constructors"
  BY DEF Init, HarnessInit
<1>2. env.nnp \in BOOLEAN
  <2>1. PICK e \in Envs : env = e.machine
    BY DEF Init
  <2> QED
    BY <2>1, EnvsAssumption
<1>3. task = NewTask
  BY DEF Init
<1>4. task \in [Threads -> TaskRecord]
  BY <1>2, <1>3, NewTaskIs
<1> QED
  BY <1>1, <1>2, <1>4 DEF EndInv

\* How far the main thread goes: behind its last step at most, and there it is not stopped.
LEMMA MainGoesToTheEnd ==
  ASSUME HarnessInv, RunsInOrder, ChildInv, EndInv, MainStep \/ MainStartsSibling
  PROVE  self'.pc <= Len(Script) + 1 /\ (child' = Alive /\ event' # NoEvent => self'.pc <= Len(Script))
<1>1. /\ at = "running" /\ child = Alive /\ self \in SelfRecord /\ tracer \in TracerRecord
      /\ self.pc \in Nat /\ self.pc > 0 /\ self.pc <= Len(Script) + 1 /\ Len(Script) \in Nat
      /\ event # NoEvent => self.pc <= Len(Script) /\ CurrentStep.op \in {"call", "until"}
      /\ task \in [Threads -> TaskRecord]
  BY ScriptFacts DEF MainStep, MainStartsSibling, Running, ChildInv, SelfRecord, EndInv, StoppedInACall
<1>2. self'.pc \in {self.pc, self.pc + 1}
  BY <1>1, MainMoves
<1>3. CASE CurrentStep.op \notin {"call", "until"} /\ event' = event
  <2>1. self.pc <= Len(Script)
    BY <1>1, <1>3, StepFacts
  <2> QED
    BY <1>1, <1>2, <1>3, <2>1
<1>4. CASE MainContinues(CurrentStep)
  <2>1. event # NoEvent /\ event' = NoEvent
    BY <1>4 DEF MainContinues
  <2> QED
    BY <1>1, <1>2, <2>1
<1>5. CASE MainCalls(CurrentStep)
  <2>1. CASE self.pc > Len(Script)
    <3>1. child' # Alive /\ self' = self
      BY <1>1, <1>5, <2>1, LastStepEnds
    <3> QED
      BY <1>1, <3>1
  <2>2. CASE self.pc <= Len(Script)
    <3>1. event' = NoEvent \/ self' = self
      BY <1>5 DEF MainCalls, Performs
    <3> QED
      BY <1>1, <1>2, <2>2, <3>1
  <2> QED
    BY <1>1, <2>1, <2>2
<1>6. MainStep \/ MainStartsSibling => MainCalls(CurrentStep) \/ MainContinues(CurrentStep)
        \/ (CurrentStep.op \notin {"call", "until"} /\ event' = event)
  BY DEF MainStep, MainStartsSibling, MainLooks, MainSemWait, MainBroadcasts, Wakes, MainJoins, MainSetsUp,
         MainTearsDown, MainStarts, StartsTracer, traceVars
<1> QED
  BY <1>3, <1>4, <1>5, <1>6

\* What the tracer does moves nobody, and stops nobody.
LEMMA TracerStopsNobody ==
  ASSUME ChildInv, TracerStep, child' = Alive, event' # NoEvent
  PROVE  child = Alive /\ event # NoEvent /\ at = "running"
<1>1. at = "running" /\ self \in SelfRecord
  BY DEF TracerStep, ChildInv
<1>2. child = Alive
  <2>1. ChildStays
    BY <1>1, TracerLeaves
  <2>2. Alive.how = "alive"
    BY DEF Alive
  <2> QED
    BY <2>1, <2>2 DEF ChildStays
<1>3. CASE event' = event
  BY <1>1, <1>2, <1>3
<1>4. CASE tracer.at = "event"
  BY <1>1, <1>2, <1>4 DEF ChildInv, StoppedInACall
<1>5. tracer.at = "event" \/ event' = event
  BY DEF TracerStep, TracerAttaches, TracerUnblocks, TracerLoops, TracerWaits, TracerHandles
<1> QED
  BY <1>3, <1>4, <1>5

LEMMA EndKept ==
  ASSUME HarnessInv, RunsInOrder, (HarnessInv /\ RunsInOrder)', ChildInv, EndInv, [Next]_vars
  PROVE  EndInv'
<1>1. /\ env.nnp \in BOOLEAN /\ task \in [Threads -> TaskRecord]
      /\ at = "running" => self.pc <= Len(Script) + 1
      /\ at = "running" /\ child = Alive /\ event # NoEvent => self.pc <= Len(Script)
      /\ self \in SelfRecord
  BY DEF EndInv, ChildInv
<1>2. CASE MainStep \/ MainStartsSibling
  <2>1. task' \in [Threads -> TaskRecord]
    BY <1>1, <1>2, MainTasksKept
  <2>2. self'.pc <= Len(Script) + 1 /\ (child' = Alive /\ event' # NoEvent => self'.pc <= Len(Script))
    BY <1>2, MainGoesToTheEnd
  <2>3. env' = env /\ Script' = Script
    BY <1>2 DEF MainStep, MainStartsSibling, Script
  <2> QED
    BY <1>1, <2>1, <2>2, <2>3 DEF EndInv
<1>3. CASE TracerStep
  <2>1. self'.pc = self.pc /\ UNCHANGED <<task, env>>
    BY <1>1, <1>3, TracerLeaves
  <2>2. Script' = Script /\ at = "running"
    BY <1>3 DEF TracerStep, Script
  <2>3. child' = Alive /\ event' # NoEvent => child = Alive /\ event # NoEvent
    BY <1>3, TracerStopsNobody
  <2> QED
    BY <1>1, <2>1, <2>2, <2>3 DEF EndInv
<1>4. ASSUME NEW s \in Siblings, SiblingStep(s) PROVE EndInv'
  <2>1. task' \in [Threads -> TaskRecord]
    BY <1>1, <1>4, SiblingTasksKept
  <2>2. UNCHANGED <<env, at, child, event, self>> /\ Script' = Script
    BY <1>4 DEF SiblingStep, harnessVars, traceVars, Script
  <2> QED
    BY <1>1, <2>1, <2>2 DEF EndInv
<1>5. CASE UNCHANGED <<env, task, at, child, event, self, t>>
  <2>1. Script' = Script
    BY <1>5 DEF Script
  <2> QED
    BY <1>1, <1>5, <2>1 DEF EndInv
<1>6. CASE at' # "running" /\ UNCHANGED <<env, task>>
  BY <1>1, <1>6 DEF EndInv
<1>7. CASE /\ Fork
           /\ task' = NewTask /\ self' = NewSelf /\ event' = NoEvent
           /\ UNCHANGED env
  <2>1. task' \in [Threads -> TaskRecord]
    BY <1>1, <1>7, NewTaskIs
  <2>2. self'.pc = 1
    BY <1>7 DEF NewSelf
  <2>3. Len(Script') \in Nat
    <3>1. at' = "running"
      BY <1>7 DEF Fork
    <3>2. count' \in 0 .. Len(Tests) /\ count' > 0 /\ t' = count'
      BY <3>1 DEF HarnessInv, RunsInOrder
    <3>3. t' \in DOMAIN Tests
      BY <3>2, TestsAssumption
    <3> QED
      BY <3>3, SuiteAssumption DEF Script
  <2> QED
    BY <1>1, <1>7, <2>1, <2>2, <2>3 DEF EndInv
<1>8. ConstructorStep => at' # "running" /\ UNCHANGED <<env, task>>
  BY DEF ConstructorStep, ByItself, __constructor_order_first, __constructor_order_last, Register, Calls
<1>9. (test_harness_run \/ Return \/ Judge \/ ForkFails) /\ ByItself => at' # "running" /\ UNCHANGED <<env, task>>
  BY DEF ByItself, test_harness_run, Return, Judge, ForkFails, Count
<1>10. SpuriousWakeUp \/ UNCHANGED vars => UNCHANGED <<env, task, at, child, event, self, t>>
  BY DEF SpuriousWakeUp, SiblingWakesUp, vars, harnessVars, traceVars
<1>11. CASE MainSetUpFails
  <2>1. UNCHANGED <<env, task, at, event, self, t>> /\ child' # Alive
    BY <1>11, SetUpFailureEnds
  <2>2. Script' = Script
    BY <2>1 DEF Script
  <2> QED
    BY <1>1, <2>1, <2>2 DEF EndInv
<1> QED
  BY <1>2, <1>3, <1>4, <1>5, <1>6, <1>7, <1>8, <1>9, <1>10, <1>11 DEF Next, HarnessStep, HarnessForkFails

(***************************************************************************)
(* What bounds a test: no more posts than siblings, no more waits than one *)
(* and the one asked for, and a wait before every sibling that waits, for  *)
(* every suite that starts a sibling and asks it for more once; and a main *)
(* thread that takes no step behind its _exit, which none of its filters   *)
(* keeps from ending it (tsync_start_sibling, tsync_sibling, __run_test).  *)
(***************************************************************************)
THEOREM SeccompTypeCorrect == Spec => []TypeOK
<1>1. Init => SeccompInv /\ TypeInv
  BY ListStarts, ChildStarts, CountStarts, SiblingsStart, EndStarts DEF SeccompInv, TypeInv
<1>2. SeccompInv /\ TypeInv /\ [Next]_vars => (SeccompInv /\ TypeInv)'
  <2> SUFFICES ASSUME SeccompInv, TypeInv, [Next]_vars PROVE (SeccompInv /\ TypeInv)'
    OBVIOUS
  <2>1. SeccompInv'
    BY OrderStep, ChildKept, SignalKept, VerdictKept DEF SeccompInv
  <2>2. CountInv'
    BY CountKept DEF TypeInv
  <2>3. SiblingsInv'
    BY SiblingsKept DEF SeccompInv, TypeInv
  <2>4. EndInv'
    BY <2>1, EndKept DEF SeccompInv, TypeInv
  <2> QED
    BY <2>1, <2>2, <2>3, <2>4 DEF TypeInv
<1>3. SeccompInv /\ TypeInv => TypeOK
  <2> SUFFICES ASSUME SeccompInv, TypeInv PROVE TypeOK
    OBVIOUS
  <2>1. /\ at \in {"constructors", "loop", "running", "done"} /\ count \in 0 .. Len(Tests)
        /\ self.pc \in Nat /\ self.pc > 0
        /\ tracer.at \in {"none", "attach", "unblock", "loop", "entering", "waiting", "event", "exited", "aborted"}
    BY DEF SeccompInv, HarnessInv, ChildInv, SelfRecord, TracerRecord
  <2>2. at = "running" => Len(Script) \in Nat
    BY ScriptFacts DEF SeccompInv
  <2>3. at = "running" => self.pc \in 1 .. Len(Script) + 1
    BY <2>1, <2>2 DEF TypeInv, EndInv
  <2>4. \A s \in Siblings :
          /\ sibling[s].at \in {"absent", "new", "posted", "waiting", "woken", "nnp", "read", "returned", "dead"}
          /\ sibling[s].num_waits \in 0 .. 2
          /\ sibling[s].at \in {"waiting", "woken"} => sibling[s].num_waits > 0
    BY DEF TypeInv, SiblingsInv, SiblingRecord
  <2>5. sem \in 0 .. TSYNC_SIBLINGS
    BY PostedIsFinite, EnvsAssumption DEF TypeInv, SiblingsInv
  <2> QED
    BY <2>1, <2>3, <2>4, <2>5 DEF TypeInv, CountInv, TypeOK
<1> QED
  BY <1>1, <1>2, <1>3, PTL DEF Spec
================================================================================
