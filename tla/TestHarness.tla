------------------------------ MODULE TestHarness ------------------------------
(***************************************************************************)
(* The harness of pts/seccomp/test_harness.h: constructors register the    *)
(* tests in a list, main runs each of them in a child process of its own   *)
(* and judges how the child has ended.                                     *)
(***************************************************************************)
EXTENDS Naturals, Integers, Sequences

CONSTANT
  Tests        \* the tests in the order of their declaration, with their termsig

ASSUME TestsAssumption == Len(Tests) \in Nat /\ DOMAIN Tests = 1 .. Len(Tests)

VARIABLES
  toolchain,   \* which of the constructors of a file it has called first
  called,      \* how many of them have been called
  order,       \* __constructor_order, 0 until one of the two has set it
  test_list,   \* __test_list, and next and prev of every test
  at,          \* "constructors", "loop", "running" (in waitpid), or "done"
  t,           \* the test, NULL behind the last one
  count, pass_count, ret,
  passed,      \* t->passed, the harness's copy
  child,       \* the child: how it has ended, and with which code or signal
  accident     \* "none" as yet, what has gone wrong, or "barred"

listVars == <<toolchain, called, order, test_list>>
harnessVars == <<listVars, at, t, count, pass_count, ret, passed, child, accident>>

NULL == 0
FORWARD == 1
BACKWARD == -1

Alive == [how |-> "alive", code |-> ""]
NoChild == [how |-> "none", code |-> ""]

--------------------------------------------------------------------------------
(* The constructors: one before all tests, one for each, and one behind them. *)
(* Of the list they make, only prev is circular.                             *)

EmptyList == [head |-> NULL, next |-> [i \in DOMAIN Tests |-> NULL], prev |-> [i \in DOMAIN Tests |-> NULL]]

ListInit ==
  /\ toolchain \in {FORWARD, BACKWARD} /\ called = 0
  /\ order = 0 /\ test_list = EmptyList

\* The next constructor, by its place in the file.
Constructor == IF toolchain = FORWARD THEN called ELSE Len(Tests) + 1 - called

Calls(c) ==
  /\ at = "constructors" /\ called < Len(Tests) + 2 /\ Constructor = c
  /\ called' = called + 1
  /\ UNCHANGED <<toolchain, at, t, count, pass_count, ret, passed, child, accident>>

__constructor_order_first ==
  /\ Calls(0)
  /\ order' = IF order = 0 THEN FORWARD ELSE order
  /\ UNCHANGED test_list

__constructor_order_last ==
  /\ Calls(Len(Tests) + 1)
  /\ order' = IF order = 0 THEN BACKWARD ELSE order
  /\ UNCHANGED test_list

\* Slip: the new test is linked behind the head and not behind the last one.
__register_test_at_head(new) ==
  LET head == test_list.head
  IN  IF head = NULL
      THEN [test_list EXCEPT !.head = new, !.prev[new] = new]
      ELSE IF order = FORWARD
      THEN [test_list EXCEPT !.next[head] = new, !.prev[new] = head]
      ELSE [test_list EXCEPT !.head = new, !.next[new] = head, !.prev[head] = new, !.prev[new] = new]

__register_test(new) ==
  LET head == test_list.head
      last == test_list.prev[head]
  IN  IF head = NULL
      THEN [head |-> new,
            next |-> [test_list.next EXCEPT ![new] = NULL],
            prev |-> [test_list.prev EXCEPT ![new] = new]]
      ELSE IF order = FORWARD
      THEN [head |-> head,
            next |-> [test_list.next EXCEPT ![new] = NULL, ![last] = new],
            prev |-> [test_list.prev EXCEPT ![new] = last, ![head] = new]]
      ELSE [head |-> new,
            next |-> [test_list.next EXCEPT ![new] = head],
            prev |-> [test_list.prev EXCEPT ![head] = new, ![new] = new]]

Register(new) ==
  /\ Calls(new)
  /\ test_list' = __register_test(new)
  /\ UNCHANGED order

--------------------------------------------------------------------------------
(* test_harness_run and __run_test.                                         *)

HarnessInit ==
  /\ at = "constructors" /\ t = NULL
  /\ count = 0 /\ pass_count = 0 /\ ret = 0
  /\ passed = TRUE /\ child = NoChild

\* main, when every constructor has been called.
test_harness_run ==
  /\ at = "constructors" /\ called = Len(Tests) + 2
  /\ at' = "loop" /\ t' = test_list.head
  /\ UNCHANGED <<listVars, count, pass_count, ret, passed, child, accident>>

\* What follows __run_test: the verdict is counted and the next test taken.
Count(verdict) ==
  /\ passed' = verdict
  /\ pass_count' = IF verdict THEN pass_count + 1 ELSE pass_count
  /\ ret' = IF verdict THEN ret ELSE 1
  /\ at' = "loop" /\ t' = test_list.next[t]

\* The child is forked; its processes and threads start from Fork's other conjuncts.
Fork ==
  /\ at = "loop" /\ t # NULL
  /\ count' = count + 1
  /\ at' = "running" /\ child' = Alive /\ passed' = TRUE
  /\ UNCHANGED <<listVars, t, pass_count, ret, accident>>

ForkFails ==
  /\ at = "loop" /\ t # NULL /\ accident = "none"
  /\ accident' = "fork"
  /\ count' = count + 1 /\ child' = NoChild
  /\ Count(FALSE)
  /\ UNCHANGED listVars

\* Slip: a signal nobody asked for is taken for an end like any other.
Verdict_any_signal(termsig, end) ==
  IF end.how = "exited" THEN termsig = "-1" /\ end.code # "0" ELSE end.code # "SIGABRT"

Verdict(termsig, end) ==
  IF end.how = "exited"
  THEN termsig = "-1" /\ end.code # "0"
  ELSE end.code # "SIGABRT" /\ end.code = termsig

\* waitpid has no time-out.
Judge ==
  /\ at = "running" /\ child.how \in {"exited", "signalled"}
  /\ Count(Verdict(Tests[t].termsig, child))
  /\ UNCHANGED <<listVars, count, child, accident>>

Return ==
  /\ at = "loop" /\ t = NULL
  /\ at' = "done"
  /\ UNCHANGED <<listVars, t, count, pass_count, ret, passed, child, accident>>
================================================================================
