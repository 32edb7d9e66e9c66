----------------------------- MODULE SeccompTests ------------------------------
(***************************************************************************)
(* The program of pts/seccomp: the harness, and in each child the main     *)
(* thread that goes through its test's steps, the sibling threads of the   *)
(* TSYNC tests and the tracer process of the TRACE tests.                  *)
(***************************************************************************)
EXTENDS TestHarness, SeccompSuite

CONSTANT Envs     \* the machines, and the orders of constructors, to run on

StartsTracer(step) == step.op \in {"tracer_poke", "tracer_syscall"}

\* No filter keeps a test from ending: it lets the _exit behind the last step in, or kills.
LetsExit(prog) == Run(prog, Call("exit_group")).kind \in {"ALLOW", "KILL", "UNKNOWN"}

\* A sibling is told to wait once more.
AsksForMore(step) == step.op = "broadcast" /\ step.more = 1

\* A test is a sequence of steps.  One that ends itself by a system call has before it
\* nothing but ASSERTs; a tracer that is started is waited for later, once, and neither
\* step can be fatal; a sibling is started once at most, and asked for more once at most.
ASSUME SuiteAssumption ==
  \A n \in DOMAIN Tests :
    LET script == Tests[n].script
    IN  /\ Len(script) \in Nat /\ DOMAIN script = 1 .. Len(script)
        /\ \A i \in DOMAIN script :
             /\ script[i].call.nr \in {"exit", "exit_group"} => \A j \in 1 .. i - 1 : script[j].fatal
             /\ StartsTracer(script[i]) \/ script[i].op = "waitpid" => ~script[i].fatal
             /\ StartsTracer(script[i]) =>
                  /\ \E j \in DOMAIN script : i < j /\ script[j].op = "waitpid"
                  /\ \A j \in DOMAIN script : script[j].op = "waitpid" => i < j
             /\ Len(script[i].call.prog) \in Nat
             /\ script[i].call.prog = <<>> \/ LetsExit(script[i].call.prog)
             /\ script[i].op = "start" \/ AsksForMore(script[i]) =>
                  /\ script[i].who \in Siblings
                  /\ \A j \in DOMAIN script :
                       /\ script[j].op = script[i].op /\ script[j].who = script[i].who
                       /\ script[i].op = "start" \/ AsksForMore(script[j])
                       => i = j

\* A machine may be kept from accidents; none has happened when the harness starts.
ASSUME EnvsAssumption ==
  /\ TSYNC_SIBLINGS \in Nat /\ LetsExit(root_prog)
  /\ \A e \in Envs : e.machine.nnp \in BOOLEAN /\ e.accident \in {"none", "barred"}

VARIABLES
  self,      \* the main thread: its step, passed, what SIGSYS does, what it has seen
  sibling,   \* of each sibling: where it is, num_waits, diverge, what it returns
  sem,       \* the semaphore started
  tracer,    \* the tracer process: where it is, tracer_running, passed, its function
  event      \* the seccomp event the main thread is stopped for

vars == <<harnessVars, env, task, self, sibling, sem, tracer, event>>
threadVars == <<sibling, sem>>
traceVars == <<tracer, event>>

NoEvent == [msg |-> "", call |-> Call("none"), reply |-> ""]
NoTracer == [at |-> "none", running |-> FALSE, passed |-> TRUE, func |-> ""]

NewTask == [th \in Threads |-> [mode |-> "none", chain |-> <<>>, nnp |-> env.nnp, there |-> th = Main]]
NewSelf ==
  [pc |-> 1, passed |-> TRUE, sigsys |-> "dfl", TRAP_nr |-> "0", poked |-> "0", ptracer |-> FALSE, tries |-> 0]
NewSiblings == [s \in Siblings |-> [at |-> "absent", num_waits |-> 1, diverge |-> FALSE, status |-> "none"]]

Init ==
  /\ \E e \in Envs : env = e.machine /\ toolchain = e.toolchain /\ accident = e.accident
  /\ ListInit /\ HarnessInit
  /\ task = NewTask /\ self = NewSelf /\ sibling = NewSiblings
  /\ sem = 0 /\ tracer = NoTracer /\ event = NoEvent

--------------------------------------------------------------------------------
(* The main thread.                                                         *)

Running == at = "running" /\ child = Alive
Script == Tests[t].script
\* Behind its last step the child does _exit(t->passed).
CurrentStep == IF self.pc > Len(Script) THEN Do(Call("exit_group")) ELSE Script[self.pc]

Dies(how, code) == child' = [how |-> how, code |-> code] /\ UNCHANGED self

\* The rest of EXPECT or ASSERT: what is seen is not what was expected, and then?
Sees(step, seen, after) ==
  LET met == seen \in (IF env.root THEN step.want ELSE step.user)
  IN  /\ self' = [after EXCEPT !.passed = @ /\ met, !.pc = @ + 1]
      /\ child' = IF met \/ ~step.fatal THEN child ELSE [how |-> "signalled", code |-> "SIGABRT"]

\* A call that is let in.
Performs(step) ==
  /\ IF step.call.nr \in {"exit", "exit_group"}
     THEN Dies("exited", IF step.call.nr = "exit" \/ self.passed THEN "1" ELSE "0")
     ELSE IF step.op = "until" /\ Returns(Main, step.call) = "0" /\ self.tries + 1 < MAX_INSNS_PER_PATH
     THEN self' = [self EXCEPT !.tries = @ + 1] /\ UNCHANGED child
     ELSE Sees(step, Returns(Main, step.call), self)
  /\ task' = TaskAfter(Main, step.call)
  /\ UNCHANGED event

Attached == tracer.at \in {"unblock", "loop", "entering", "waiting", "event"}

MainCalls(step) ==
  /\ step.op \in {"call", "until"} /\ event = NoEvent
  /\ \E act \in {Enter(Main, step.call)} :
     \/ /\ act.kind = "ALLOW" \/ (act.kind = "TRACE" /\ ~Attached /\ Flaw("trace without tracer"))
        /\ Performs(step)
     \/ /\ act.kind = "TRACE" /\ Attached
        /\ event' = [msg |-> act.data, call |-> step.call, reply |-> ""]
        /\ UNCHANGED <<self, child, task>>
     \/ /\ act.kind = "TRACE" /\ ~Attached /\ ~Flaw("trace without tracer")
        /\ Sees(step, "ENOSYS", self) /\ UNCHANGED <<task, event>>
     \/ /\ act.kind = "ERRNO"
        /\ Sees(step, act.data, self) /\ UNCHANGED <<task, event>>
     \/ /\ act.kind = "TRAP"
        /\ IF self.sigsys = "handler" THEN Sees(step, "skipped", [self EXCEPT !.TRAP_nr = "SIGSYS"])
           ELSE IF self.sigsys = "ignore" /\ Flaw("trap ignored") THEN Sees(step, "skipped", self)
           ELSE Dies("signalled", "SIGSYS")
        /\ UNCHANGED <<task, event>>
     \/ /\ act.kind \in {"KILL", "STRICT"}
        /\ Dies("signalled", IF act.kind = "KILL" THEN "SIGSYS" ELSE "SIGKILL")
        /\ UNCHANGED <<task, event>>
  /\ UNCHANGED <<threadVars, tracer>>

\* The tracer has continued the call, or is gone, and the call with it goes on as it was.
MainContinues(step) ==
  /\ event # NoEvent /\ (event.reply # "" \/ ~Attached)
  /\ event' = NoEvent
  /\ Sees(step, IF event.reply # "" THEN event.reply ELSE Returns(Main, event.call), self)
  /\ UNCHANGED <<task, threadVars, tracer>>

\* Steps that look at what the main thread itself keeps, and signal dispositions.
MainLooks(step) ==
  /\ step.op \in {"unreachable", "poked", "TRAP_nr", "ignore", "handle", "skip"}
  /\ CASE step.op \in {"ignore", "handle"} ->
            Sees(step, "0", [self EXCEPT !.sigsys = IF step.op = "handle" THEN "handler" ELSE "ignore"])
       [] step.op \in {"poked", "TRAP_nr"} -> Sees(step, self[step.op], self)
       [] OTHER -> Sees(step, "0", self)
  /\ UNCHANGED <<task, threadVars, traceVars>>

--------------------------------------------------------------------------------
(* Siblings.  A sibling that has posted still holds the mutex.              *)

MutexFree == \A s \in Siblings : sibling[s].at # "posted"

\* tsync_start_sibling: what pthread_create returns is not looked at.
MainStarts(step) ==
  /\ step.op = "start"
  /\ \/ /\ task' = [task EXCEPT ![step.who] = task[Main]]
        /\ sibling' = [sibling EXCEPT ![step.who].at = "new", ![step.who].diverge = step.more = 1]
        /\ UNCHANGED accident
     \/ accident = "none" /\ accident' = "create" /\ UNCHANGED <<task, sibling>>
  /\ Sees(step, "0", self)
  /\ UNCHANGED <<sem, traceVars>>

MainSemWait(step) ==
  /\ step.op = "sem_wait" /\ sem > 0
  /\ sem' = sem - 1 /\ Sees(step, "0", self)
  /\ UNCHANGED <<task, sibling, traceVars>>

Wakes(step) ==
  /\ sibling' = [s \in Siblings |->
                   [sibling[s] EXCEPT !.at = IF @ = "waiting" THEN "woken" ELSE @,
                      !.num_waits = IF s # step.who THEN @ ELSE IF step.more = 1 THEN @ + 1
                                    ELSE IF step.more = -1 /\ @ > 1 THEN 1 ELSE @]]
  /\ Sees(step, "0", self)
  /\ UNCHANGED <<task, sem, traceVars>>

\* Slip: the mutex is not taken for the broadcast.
MainBroadcasts_unlocked(step) == step.op = "broadcast" /\ Wakes(step)

MainBroadcasts(step) == step.op = "broadcast" /\ MutexFree /\ Wakes(step)

\* pthread_join returns before the task is gone from the kernel's list; kill tells.
MainJoins(step) ==
  /\ \/ step.op = "join" /\ sibling[step.who].at \in {"returned", "dead"}
     \/ step.op = "poll" /\ ~task[step.who].there
  /\ Sees(step, IF step.op = "join" THEN sibling[step.who].status ELSE "0", self)
  /\ UNCHANGED <<task, threadVars, traceVars>>

\* tsync_sibling up to its wait: it may install a filter of its own, and posts.
SiblingPosts(s) ==
  /\ sibling[s].at = "new" /\ MutexFree
  /\ LET call == set_filter(root_prog)
         act == Enter(s, call)
         result == IF ~sibling[s].diverge THEN "0" ELSE IF act.kind = "ERRNO" THEN act.data ELSE Returns(s, call)
     IN  /\ task' = IF sibling[s].diverge /\ act.kind = "ALLOW" THEN TaskAfter(s, call) ELSE task
         /\ sibling' = [sibling EXCEPT ![s].at = "posted", ![s].status = IF result = "0" THEN "none" ELSE "FAILURE"]
  /\ sem' = sem + 1

SiblingWaits(s) ==
  /\ sibling[s].at = "posted"
  /\ sibling' = [sibling EXCEPT ![s].at = IF sibling[s].status = "FAILURE" THEN "returned" ELSE "waiting"]
  /\ UNCHANGED <<task, sem>>

\* pthread_cond_wait may return with no broadcast.
SiblingWakesUp(s) ==
  /\ sibling[s].at = "waiting" /\ accident = "none"
  /\ accident' = "wake-up"
  /\ sibling' = [sibling EXCEPT ![s].at = "woken"]
  /\ UNCHANGED <<task, sem>>

\* Slip: num_waits is tested before it is counted down.
SiblingWoken_early(s) ==
  /\ sibling[s].at = "woken" /\ MutexFree
  /\ sibling' = [sibling EXCEPT ![s].num_waits = @ - 1,
                                ![s].at = IF sibling[s].num_waits = 0 THEN "nnp" ELSE "waiting"]
  /\ UNCHANGED <<task, sem>>

SiblingWoken(s) ==
  /\ sibling[s].at = "woken" /\ MutexFree
  /\ sibling' = [sibling EXCEPT ![s].num_waits = @ - 1,
                                ![s].at = IF sibling[s].num_waits = 1 THEN "nnp" ELSE "waiting"]
  /\ UNCHANGED <<task, sem>>

SiblingAsks(s) ==
  /\ sibling[s].at = "nnp"
  /\ LET act == Enter(s, prctl("get_nnp"))
         none == act.kind = "ALLOW" /\ ~task[s].nnp
     IN  sibling' = [sibling EXCEPT ![s].at = IF none THEN "returned" ELSE "read",
                                    ![s].status = IF none THEN "NEWPRIVS" ELSE @]
  /\ UNCHANGED <<task, sem>>

\* A thread that is killed leaves 0 to be joined.
SiblingReads(s) ==
  /\ sibling[s].at = "read"
  /\ sibling' = [sibling EXCEPT ![s].at = "returned",
                                ![s].status = IF Enter(s, Call("read")).kind = "KILL" THEN "0" ELSE "UNKILLED"]
  /\ UNCHANGED <<task, sem>>

SiblingDies(s) ==
  /\ sibling[s].at = "returned"
  /\ sibling' = [sibling EXCEPT ![s].at = "dead"]
  /\ task' = [task EXCEPT ![s].there = FALSE]
  /\ UNCHANGED sem

--------------------------------------------------------------------------------
(* The tracer.                                                              *)

\* setup_trace_fixture: fork, PR_SET_PTRACER, and a read that the tracer's write or its
\* end brings back.
MainSetsUp(step) ==
  /\ \/ step.op \in {"tracer_poke", "tracer_syscall"}
        /\ tracer' = [at |-> "attach", running |-> TRUE, passed |-> self.passed, func |-> step.op]
        /\ Sees(step, "0", self)
     \/ step.op = "PR_SET_PTRACER" /\ Sees(step, "0", [self EXCEPT !.ptracer = TRUE]) /\ UNCHANGED tracer
     \/ step.op = "sync" /\ tracer.at \notin {"attach", "unblock"} /\ Sees(step, "0", self) /\ UNCHANGED tracer
  /\ UNCHANGED <<task, threadVars, event>>

\* teardown_trace_fixture.  The signal interrupts a wait under way.  The exit code of a
\* tracer that has aborted is 0.
MainTearsDown(step) ==
  /\ \/ /\ step.op = "SIGUSR1" /\ Sees(step, "0", self)
        /\ tracer' = [tracer EXCEPT !.running = FALSE, !.at = IF @ = "waiting" THEN "loop" ELSE @]
     \/ /\ step.op = "waitpid" /\ tracer.at \in {"exited", "aborted"}
        /\ Sees(step, "0", [self EXCEPT !.passed = @ /\ (tracer.at = "exited" => tracer.passed)])
        /\ UNCHANGED tracer
  /\ UNCHANGED <<task, threadVars, event>>

TracerGoes(to) == tracer' = [tracer EXCEPT !.at = to]

\* Until it is permitted, PTRACE_ATTACH is tried again.
TracerAttaches ==
  /\ tracer.at = "attach"
  /\ env.scope = "open" \/ (env.scope = "declared" /\ self.ptracer)
  /\ TracerGoes("unblock") /\ UNCHANGED <<self, event, child>>

TracerUnblocks == tracer.at = "unblock" /\ TracerGoes("loop") /\ UNCHANGED <<self, event, child>>

\* while (tracer_running) wait(...): the test, the call, and the wait are three moments.
TracerLoops ==
  /\ \/ tracer.at = "loop" /\ TracerGoes(IF tracer.running THEN "entering" ELSE "exited")
     \/ tracer.at = "entering" /\ TracerGoes("waiting")
  /\ UNCHANGED <<self, event, child>>

\* The wait is over: a seccomp event, or the tracee is dead.
TracerWaits ==
  /\ tracer.at = "waiting"
  /\ \/ child = Alive /\ event # NoEvent /\ event.reply = "" /\ TracerGoes("event")
     \/ child # Alive /\ tracer' = [tracer EXCEPT !.at = "exited", !.passed = TRUE]
  /\ UNCHANGED <<self, event, child>>

Message == CASE Flaw("no message") -> "0" [] Flaw("other message") -> "0x1" [] OTHER -> event.msg

\* The call goes on, changed or not.
Replies(call) == event' = [event EXCEPT !.reply = IF Flaw("changes lost") THEN Returns(Main, event.call)
                                                  ELSE IF call.nr = "-1" THEN "skipped" ELSE Returns(Main, call)]

\* tracer_poke: another message than the filter's is fatal, for the tracee too.
tracer_poke ==
  IF Message = "0x1001"
  THEN /\ self' = [self EXCEPT !.poked = "0x1001"]
       /\ Replies(event.call) /\ TracerGoes("loop") /\ UNCHANGED child
  ELSE TracerGoes("aborted") /\ Dies("signalled", "SIGKILL") /\ UNCHANGED event

\* tracer_syscall: getpid becomes getppid, gettid is skipped, getppid is let through.
tracer_syscall ==
  LET expected == CASE Message = "0x1002" -> "getpid" [] Message = "0x1003" -> "gettid"
                    [] Message = "0x1004" -> "getppid" [] OTHER -> event.call.nr
      changed == CASE Message = "0x1002" -> Call("getppid") [] Message = "0x1003" -> Call("-1")
                   [] OTHER -> event.call
      known == Message \in {"0", "0x1002", "0x1003", "0x1004"}
  IN  /\ tracer' = [tracer EXCEPT !.at = "loop", !.passed = @ /\ known /\ event.call.nr = expected]
      /\ IF known THEN Replies(changed) /\ UNCHANGED <<self, child>>
         ELSE Dies("signalled", "SIGKILL") /\ UNCHANGED event

\* ASSERT_EQ(true, IS_SECCOMP_EVENT(status)), the test's function, and PTRACE_CONT.
TracerHandles ==
  /\ tracer.at = "event"
  /\ IF Flaw("other event") THEN TracerGoes("aborted") /\ UNCHANGED <<self, event, child>>
     ELSE IF tracer.func = "tracer_poke" THEN tracer_poke
     ELSE tracer_syscall

--------------------------------------------------------------------------------
(* All of it.                                                               *)

MainStep ==
  /\ Running
  /\ \E step \in {CurrentStep} :
       MainCalls(step) \/ MainContinues(step) \/ MainLooks(step) \/ MainSemWait(step) \/ MainBroadcasts(step)
       \/ MainJoins(step) \/ MainSetsUp(step) \/ MainTearsDown(step)
  /\ UNCHANGED <<listVars, at, t, count, pass_count, ret, passed, accident, env>>

\* No pipe, or no process for the tracer: the ASSERTs of setup_trace_fixture.
MainSetUpFails ==
  /\ Running /\ CurrentStep.op \in {"tracer_poke", "tracer_syscall"}
  /\ accident = "none" /\ accident' = "fork"
  /\ Dies("signalled", "SIGABRT")
  /\ UNCHANGED <<listVars, at, t, count, pass_count, ret, passed, env, task, threadVars, traceVars>>

MainStartsSibling ==
  /\ Running /\ MainStarts(CurrentStep)
  /\ UNCHANGED <<listVars, at, t, count, pass_count, ret, passed, env>>

SiblingStep(s) ==
  /\ Running
  /\ SiblingPosts(s) \/ SiblingWaits(s) \/ SiblingWoken(s) \/ SiblingAsks(s) \/ SiblingReads(s) \/ SiblingDies(s)
  /\ UNCHANGED <<harnessVars, env, self, traceVars>>

SpuriousWakeUp ==
  /\ Running /\ \E s \in Siblings : SiblingWakesUp(s)
  /\ UNCHANGED <<listVars, at, t, count, pass_count, ret, passed, child, env, self, traceVars>>

TracerStep ==
  /\ at = "running"
  /\ TracerAttaches \/ TracerUnblocks \/ TracerLoops \/ TracerWaits \/ TracerHandles
  /\ UNCHANGED <<listVars, at, t, count, pass_count, ret, passed, accident, env, task, threadVars>>

\* Of the harness alone: what the child has left is not touched.
ByItself == UNCHANGED <<env, task, self, threadVars, traceVars>>

ConstructorStep ==
  /\ \/ __constructor_order_first \/ __constructor_order_last
     \/ \E new \in DOMAIN Tests : Register(new)
  /\ ByItself

\* A tracee that has died is its tracer's to wait for first.
HarnessStep ==
  \/ /\ Fork
     /\ task' = NewTask /\ self' = NewSelf /\ sibling' = NewSiblings
     /\ sem' = 0 /\ tracer' = NoTracer /\ event' = NoEvent
     /\ UNCHANGED env
  \/ Judge /\ ~Attached /\ ByItself
  \/ (test_harness_run \/ Return) /\ ByItself

HarnessForkFails == ForkFails /\ ByItself

Next ==
  \/ ConstructorStep
  \/ HarnessStep
  \/ HarnessForkFails
  \/ MainStep
  \/ MainStartsSibling
  \/ MainSetUpFails
  \/ \E s \in Siblings : SiblingStep(s)
  \/ SpuriousWakeUp
  \/ TracerStep

Spec == Init /\ [][Next]_vars

\* As long as a process or a thread can go on, one of them does; none of them repeats a
\* step for ever but the attempt to attach, which changes nothing.
FairSpec ==
  Spec /\ WF_vars(ConstructorStep \/ HarnessStep \/ (\E s \in Siblings : SiblingStep(s))
                  \/ TracerStep \/ MainStep \/ MainStartsSibling)

--------------------------------------------------------------------------------
(* What must hold.                                                          *)

TypeOK ==
  /\ at \in {"constructors", "loop", "running", "done"} /\ t \in 0 .. Len(Tests)
  /\ pass_count \in 0 .. count /\ count \in 0 .. Len(Tests) /\ ret \in {0, 1}
  /\ child.how \in {"none", "alive", "exited", "signalled"}
  /\ accident \in {"none", "barred", "fork", "create", "wake-up"}
  /\ at = "running" => self.pc \in 1 .. Len(Script) + 1
  /\ \A s \in Siblings :
       /\ sibling[s].at \in {"absent", "new", "posted", "waiting", "woken", "nnp", "read", "returned", "dead"}
       /\ sibling[s].num_waits \in 0 .. 2
       /\ sibling[s].at \in {"waiting", "woken"} => sibling[s].num_waits > 0
  /\ sem \in 0 .. TSYNC_SIBLINGS
  /\ tracer.at \in {"none", "attach", "unblock", "loop", "entering", "waiting", "event", "exited", "aborted"}

\* "tests are run in source declaration order" (test_harness.h:416), each of them once,
\* whichever constructors the tool chain calls first.
RunsInOrder ==
  /\ at = "running" => t = count
  /\ at = "loop" => t = (IF count = Len(Tests) THEN NULL ELSE count + 1)
  /\ at = "done" => count = Len(Tests)

\* On a kernel that does what the tests ask for, for root and for others, however threads
\* and tracer interleave, every test passes, unless a fork or a thread fails, a wait
\* returns by itself or the harness was started with no_new_privs.
SuitePasses ==
  at = "done" /\ env.flaw = "none" /\ ~env.nnp /\ accident \in {"none", "barred"} =>
    ret = 0 /\ pass_count = Len(Tests)

\* Each flaw of the kernel fails a test, but for those no test can tell from what is
\* right: in strict mode the _exit behind "Unreachable!" is killed as expected
\* (seccomp_bpf.c:120), a trap ends a test by the same SIGSYS as a kill (798-848), and
\* root may install a filter anyway (171).
SuiteDetects ==
  at = "done" /\ ret = 0 =>
    \/ env.flaw \in {"none", "strict allows prctl", "trap over kill"}
    \/ env.flaw = "anyone installs" /\ env.root

\* A test is counted as passed if every expectation of the child and of its tracer has
\* been met and it has not been killed; a test that is to end by a signal, if it has.
\* Excepted are a tracer that an ASSERT of its own has aborted (AssertsAreAdopted), and
\* what a test has noted before its signal, which is lost (test_harness.h:487).
VerdictIsEarned ==
  at = "loop" /\ passed /\ child.how # "none" =>
    IF Tests[count].termsig = "-1"
    THEN child.how = "exited" /\ self.passed /\ (tracer.passed \/ tracer.at = "aborted")
    ELSE child.how = "signalled" /\ child.code = Tests[count].termsig

\* "Extract the exit code from the other process and adopt it for ourselves in case its
\* asserts failed." (seccomp_bpf.c:1086-1089): with a tracer whose ASSERT has failed no
\* test is counted as passed.  An ASSERT aborts, and WEXITSTATUS of an abort is 0 (1092).
AssertsAreAdopted ==
  at = "loop" /\ passed /\ child.how = "exited" => tracer.at # "aborted"

\* A tracer waits for a tracee that waits for it: it was told to stop after it had looked
\* whether to go on, and before it waited (seccomp_bpf.c:1030-1033).
ToldTooLate == tracer.at = "waiting" /\ ~tracer.running /\ child = Alive

\* The harness comes to its end, if ptrace is permitted, every thread is created and no
\* tracer is told too late: nothing has a time-out (test_harness.h:471).
SuiteEnds ==
  env.scope # "closed" /\ []~ToldTooLate /\ []~(accident = "create") => <>(at = "done")

\* "Allow external shutdown." (seccomp_bpf.c:1005), "Run until we're shut down."
\* (1029): a tracer that has been told to stop does.
ShutdownStopsTracer == (tracer.at # "none" /\ ~tracer.running) ~> tracer.at \in {"none", "exited", "aborted"}
--------------------------------------------------------------------------------
(* Why it holds: the list of tests, how far it is, and what a child owes.   *)

Registered ==
  {i \in DOMAIN Tests : IF toolchain = FORWARD THEN i < called ELSE i > Len(Tests) + 1 - called}

\* The tests registered so far are linked in the order of the file; prev of the first of
\* them is the last one, where tests are appended.
ListInv ==
  /\ toolchain \in {FORWARD, BACKWARD} /\ called \in 0 .. Len(Tests) + 2
  /\ order = IF called = 0 THEN 0 ELSE toolchain
  /\ test_list \in [head : 0 .. Len(Tests), next : [DOMAIN Tests -> 0 .. Len(Tests)],
                    prev : [DOMAIN Tests -> 0 .. Len(Tests)]]
  /\ IF Registered = {} THEN test_list.head = NULL
     ELSE test_list.head \in Registered /\ test_list.head - 1 \notin Registered
  /\ \A i \in Registered :
       /\ test_list.next[i] = IF i + 1 \in Registered THEN i + 1 ELSE NULL
       /\ toolchain = FORWARD /\ i + 1 \notin Registered => test_list.prev[test_list.head] = i

HarnessInv ==
  /\ at \in {"constructors", "loop", "running", "done"}
  /\ IF at = "constructors" THEN count = 0 /\ child = NoChild ELSE called = Len(Tests) + 2
  /\ count \in 0 .. Len(Tests) /\ (at = "running" => count > 0)

SelfRecord ==
  [pc : Nat, passed : BOOLEAN, sigsys : {"dfl", "ignore", "handler"}, TRAP_nr : {"0", "SIGSYS"},
   poked : {"0", "0x1001"}, ptracer : BOOLEAN, tries : Nat]
TracerRecord ==
  [at : {"none", "attach", "unblock", "loop", "entering", "waiting", "event", "exited", "aborted"},
   running : BOOLEAN, passed : BOOLEAN, func : {"", "tracer_poke", "tracer_syscall"}]

\* A step of the test that the main thread has behind it.
Behind(i) == i \in DOMAIN Script /\ i < self.pc

\* A main thread that is stopped is in a system call, and is stopped while its tracer
\* looks at it.
StoppedInACall ==
  child = Alive =>
    /\ event # NoEvent => CurrentStep.op \in {"call", "until"}
    /\ tracer.at = "event" => event # NoEvent /\ event.reply = ""

\* What a living child has not met was only expected.
OnlyNoted ==
  child = Alive /\ ~self.passed /\ self.pc <= Len(Script) => \E i \in DOMAIN Script : Behind(i) /\ ~Script[i].fatal

\* The tracer is there from the step that starts it, is gone when it has been waited for,
\* and its result is then part of the main thread's.
TracerFollows ==
  /\ IF tracer.at = "none" THEN tracer.passed ELSE \E i \in DOMAIN Script : Behind(i) /\ StartsTracer(Script[i])
  /\ \A i \in DOMAIN Script :
       Behind(i) /\ Script[i].op = "waitpid" =>
         /\ tracer.at \in {"exited", "aborted"}
         /\ self.passed /\ tracer.at = "exited" => tracer.passed

\* A child that exits with another code than 0 has seen what it expects, and its tracer too.
ExitIsEarned ==
  child.how = "exited" /\ child.code # "0" =>
    /\ self.passed /\ tracer.at \in {"none", "exited", "aborted"}
    /\ tracer.passed \/ tracer.at = "aborted"

\* Only these signals end a child, and none of them is the -1 of a test that expects none.
KilledBySignal == child.how = "signalled" => child.code \in {"SIGABRT", "SIGKILL", "SIGSYS"}

ChildInv ==
  /\ self \in SelfRecord /\ self.pc > 0 /\ tracer \in TracerRecord
  /\ at = "running" => StoppedInACall /\ OnlyNoted /\ TracerFollows /\ ExitIsEarned

\* Only what has been started runs; each test that has ended is counted, at most once as
\* passed.
CountInv ==
  /\ t \in 0 .. Len(Tests) /\ ret \in {0, 1}
  /\ pass_count \in 0 .. count /\ (at = "running" => pass_count < count)
  /\ child.how \in {"none", "alive", "exited", "signalled"}
  /\ accident \in {"none", "barred", "fork", "create", "wake-up"}

SiblingRecord ==
  [at : {"absent", "new", "posted", "waiting", "woken", "nnp", "read", "returned", "dead"},
   num_waits : 0 .. 2, diverge : BOOLEAN, status : {"none", "FAILURE", "NEWPRIVS", "UNKILLED", "0"}]

\* The siblings that have come to their sem_post.
Posted == {s \in Siblings : sibling[s].at \notin {"absent", "new"}}

\* The main thread has started a sibling, and has asked it for more.
Started(s) == \E i \in DOMAIN Script : Behind(i) /\ Script[i].op = "start" /\ Script[i].who = s
AskedForMore(s) == \E i \in DOMAIN Script : Behind(i) /\ AsksForMore(Script[i]) /\ Script[i].who = s

\* A sibling that is there has been started and has waits before it until it has done the
\* last of them, more than one only if it was asked for more; each posts once.
SiblingsInv ==
  /\ sibling \in [Siblings -> SiblingRecord]
  /\ \A s \in Siblings :
       /\ sibling[s].at \in {"absent", "new", "posted", "waiting", "woken"} => sibling[s].num_waits > 0
       /\ at = "running" => (sibling[s].at # "absent" => Started(s)) /\ (sibling[s].num_waits > 1 => AskedForMore(s))
  /\ sem \in Nat /\ sem <= Cardinality(Posted)

\* Filters come from the tests and from the siblings.
Progs ==
  {root_prog} \cup UNION {{Tests[n].script[i].call.prog : i \in DOMAIN Tests[n].script} : n \in DOMAIN Tests}
Filters == {f \in [prog : Progs, by : Threads, path : Nat] : LetsExit(f.prog)}
TaskRecord ==
  [mode : {"none", "strict", "filter"}, chain : Seq(Filters), nnp : BOOLEAN, there : BOOLEAN]

\* Hence a child that has done its last step ends, and is not stopped in its _exit.
EndInv ==
  /\ env.nnp \in BOOLEAN /\ task \in [Threads -> TaskRecord]
  /\ at = "running" => self.pc <= Len(Script) + 1
  /\ at = "running" /\ child = Alive /\ event # NoEvent => self.pc <= Len(Script)

TypeInv == CountInv /\ SiblingsInv /\ EndInv

SeccompInv == ListInv /\ HarnessInv /\ RunsInOrder /\ ChildInv /\ KilledBySignal /\ VerdictIsEarned
================================================================================
