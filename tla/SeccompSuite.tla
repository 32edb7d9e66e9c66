----------------------------- MODULE SeccompSuite ------------------------------
(***************************************************************************)
(* The tests of pts/seccomp/seccomp_bpf.c, each with the signal it is to   *)
(* end by and the steps of its main thread: system calls and what is       *)
(* expected of them, threads, and the tracer.                              *)
(***************************************************************************)
EXTENDS SeccompKernel

Test(termsig, script) == [termsig |-> termsig, script |-> script]

\* A step; an ASSERT that is not met is fatal, an EXPECT only noted.
Step(op) == [op |-> op, call |-> Call("none"), want |-> Results, user |-> Results, fatal |-> FALSE, who |-> 0, more |-> 0]

Do(call) == [Step("call") EXCEPT !.call = call]
EXPECT(call, want) == [Do(call) EXCEPT !.want = want, !.user = want]
ASSERT(call, want) == [EXPECT(call, want) EXCEPT !.fatal = TRUE]
EXPECT_that(what, want) == [Step(what) EXCEPT !.want = want, !.user = want]

prctl(what) == [Call("prctl") EXCEPT !.what = what]
set_filter(prog) == [prctl("filter") EXCEPT !.prog = prog]
seccomp(flags, prog) == [Call("seccomp") EXCEPT !.what = "filter", !.flags = flags, !.prog = prog]
seccomp_that(what) == [Call("seccomp") EXCEPT !.what = what]

NNP == ASSERT(prctl("set_nnp"), {"0"})
INSTALL(prog) == ASSERT(set_filter(prog), {"0"})

allow_prog == <<RET(ALLOW)>>
\* The call is acted on and every other one is let in.
on(nr, action) == <<LD("nr"), JEQ(nr, 0, 1), RET(action), RET(ALLOW)>>
\* The same, written the other way round.
onlyOn(nr, action) == <<LD("nr"), JEQ(nr, 1, 0), RET(ALLOW), RET(action)>>

--------------------------------------------------------------------------------
(* Modes, limits and single actions.                                        *)

mode_strict_support == Test("-1", <<ASSERT(prctl("strict"), {"0"}), Do(Call("exit"))>>)

\* EXPECT_FALSE(true): whoever gets there has not been killed.
mode_strict_cannot_call_prctl ==
  Test("SIGKILL", <<ASSERT(prctl("strict"), {"0"}), Do(prctl("filter NULL")), EXPECT_that("unreachable", {})>>)

no_new_privs_support == Test("-1", <<EXPECT(prctl("set_nnp"), {"0"})>>)

mode_filter_support == Test("-1", <<NNP, EXPECT(prctl("filter NULL"), {"EFAULT"})>>)

mode_filter_without_nnp ==
  Test("-1", <<ASSERT(prctl("get_nnp"), {"0", "1"}),
               [EXPECT(set_filter(allow_prog), {"0"}) EXCEPT !.user = {"EACCES"}]>>)

allow_times(n) == [pc \in 1 .. n |-> RET(ALLOW)]

filter_size_limits ==
  Test("-1", <<NNP, ASSERT(set_filter(allow_times(BPF_MAXINSNS + 1)), Results \ {"0"}),
               INSTALL(allow_times(BPF_MAXINSNS))>>)

\* The same filter again and again, until it is refused.
filter_chain_limits ==
  Test("-1", <<NNP, INSTALL(allow_prog),
               [ASSERT(set_filter(allow_times(BPF_MAXINSNS)), Results \ {"0"}) EXCEPT !.op = "until"]>>)

mode_filter_cannot_move_to_strict ==
  Test("-1", <<NNP, INSTALL(allow_prog), EXPECT(prctl("strict"), {"EINVAL"})>>)

mode_filter_get_seccomp ==
  Test("-1", <<NNP, EXPECT(prctl("get_seccomp"), {"0"}), INSTALL(allow_prog), EXPECT(prctl("get_seccomp"), {"2"})>>)

ALLOW_all == Test("-1", <<NNP, INSTALL(allow_prog)>>)

empty_prog == Test("-1", <<NNP, EXPECT(set_filter(<<>>), {"EINVAL"})>>)

\* 0x10000000 and 0x90000000 have the same action bits.
unknown_ret_is_kill_inside == Test("SIGSYS", <<NNP, INSTALL(<<RET(UNKNOWN)>>), EXPECT(Call("getpid"), {"0"})>>)
unknown_ret_is_kill_above_allow == Test("SIGSYS", <<NNP, INSTALL(<<RET(UNKNOWN)>>), EXPECT(Call("getpid"), {"0"})>>)

\* Killed by its own _exit.
KILL_all == Test("SIGSYS", <<NNP, INSTALL(<<RET(KILL)>>)>>)

KILL_one ==
  Test("SIGSYS", <<NNP, INSTALL(on("getpid", KILL)),
                   EXPECT(Call("getppid"), {"ppid"}), EXPECT(Call("getpid"), {"0"})>>)

on_argument(arg) ==
  <<LD("nr"), JEQ("getpid", 1, 0), RET(ALLOW), LD(arg), JEQ("0x0C0FFEE", 0, 1), RET(KILL), RET(ALLOW)>>

KILL_one_arg_one ==
  Test("SIGSYS", <<NNP, INSTALL(on_argument("arg0")),
                   EXPECT(Call("getppid"), {"ppid"}), EXPECT(Call("getpid"), {"pid"}),
                   EXPECT([Call("getpid") EXCEPT !.arg0 = "0x0C0FFEE"], {"0"})>>)

KILL_one_arg_six ==
  Test("SIGSYS", <<NNP, INSTALL(on_argument("arg5")),
                   EXPECT(Call("getppid"), {"ppid"}), EXPECT(Call("getpid"), {"pid"}),
                   EXPECT([Call("getpid") EXCEPT !.arg0 = "1", !.arg5 = "0x0C0FFEE"], {"0"})>>)

arg_out_of_range == Test("-1", <<NNP, EXPECT(set_filter(<<LD("arg6"), RET(ALLOW)>>), {"EINVAL"})>>)

\* What read returns under SECCOMP_RET_ERRNO.
refused_read(errno, want) ==
  Test("-1", <<NNP, INSTALL(on("read", ERRNO(errno))), EXPECT(Call("getppid"), {"ppid"}), EXPECT(Call("read"), {want})>>)

\* Slip: that read fails is enough.
ERRNO_uncapped ==
  Test("-1", <<NNP, INSTALL(on("read", ERRNO("4096"))), EXPECT(Call("getppid"), {"ppid"}), EXPECT(Call("read"), Errnos)>>)

ERRNO_valid == refused_read("E2BIG", "E2BIG")
ERRNO_zero == refused_read("0", "0")
ERRNO_capped == refused_read("4096", "4095")

--------------------------------------------------------------------------------
(* SIGSYS: by default, ignored, and with a handler.                         *)

TRAP_prog == on("getpid", TRAP)

TRAP_dfl == Test("SIGSYS", <<NNP, INSTALL(TRAP_prog), Do(Call("getpid"))>>)
TRAP_ign == Test("SIGSYS", <<NNP, Step("ignore"), INSTALL(TRAP_prog), Do(Call("getpid"))>>)
TRAP_handler ==
  Test("-1", <<Step("handle"), NNP, INSTALL(TRAP_prog), Do(Call("getpid")), EXPECT_that("TRAP_nr", {"SIGSYS"})>>)

--------------------------------------------------------------------------------
(* The precedence of actions, over several filters.                         *)

allow == INSTALL(allow_prog)
trace == INSTALL(onlyOn("getpid", TRACE("0")))
error == INSTALL(onlyOn("getpid", ERRNO("0")))
trap == INSTALL(onlyOn("getpid", TRAP))
kill == INSTALL(onlyOn("getpid", KILL))

\* "Should work just fine", then getpid.
precedence(termsig, installs, want) ==
  Test(termsig, <<NNP>> \o installs \o <<EXPECT(Call("getppid"), {"ppid"}), EXPECT(Call("getpid"), want)>>)

precedence_allow_ok ==
  Test("-1", <<NNP, allow, trace, error, trap, kill, EXPECT(Call("getppid"), {"ppid"})>>)
kill_is_highest == precedence("SIGSYS", <<allow, trace, error, trap, kill>>, {"0"})
kill_is_highest_in_any_order == precedence("SIGSYS", <<allow, kill, error, trace, trap>>, {"0"})
trap_is_second == precedence("SIGSYS", <<allow, trace, error, trap>>, {"0"})
trap_is_second_in_any_order == precedence("SIGSYS", <<allow, trap, trace, error>>, {"0"})
errno_is_third == precedence("-1", <<allow, trace, error>>, {"0"})
errno_is_third_in_any_order == precedence("-1", <<error, trace, allow>>, {"0"})
trace_is_fourth == precedence("-1", <<allow, trace>>, Errnos)
trace_is_fourth_in_any_order == precedence("-1", <<trace, allow>>, Errnos)

--------------------------------------------------------------------------------
(* Tests under a tracer.                                                    *)

setup_trace_fixture(tracer_func) == <<Step(tracer_func), Step("PR_SET_PTRACER"), Step("sync")>>
teardown_trace_fixture == <<Step("SIGUSR1"), Step("waitpid")>>

TRACE_poke(steps) ==
  Test("-1", setup_trace_fixture("tracer_poke") \o <<NNP, INSTALL(on("read", TRACE("0x1001")))>>
             \o <<EXPECT_that("poked", {"0"})>> \o steps \o teardown_trace_fixture)

read_has_side_effects ==
  TRACE_poke(<<EXPECT([Call("read") EXCEPT !.what = "read(-1)"], Errnos), EXPECT_that("poked", {"0x1001"})>>)
getpid_runs_normally ==
  TRACE_poke(<<EXPECT(Call("getpid"), Results \ {"0"}), EXPECT_that("poked", {"0"})>>)

TRACE_syscall_prog ==
  <<LD("nr"), JEQ("getpid", 0, 1), RET(TRACE("0x1002")), JEQ("gettid", 0, 1), RET(TRACE("0x1003")),
    JEQ("getppid", 0, 1), RET(TRACE("0x1004")), RET(ALLOW)>>

\* The call is made twice: its result, and what it must not be.
TRACE_syscall(nr, want, never) ==
  Test("-1", setup_trace_fixture("tracer_syscall") \o <<NNP, INSTALL(TRACE_syscall_prog)>>
             \o <<EXPECT(Call(nr), want), EXPECT(Call(nr), Results \ never)>> \o teardown_trace_fixture)

syscall_allowed == TRACE_syscall("getppid", {"ppid"}, {"pid"})
syscall_redirected == TRACE_syscall("getpid", {"ppid"}, {"pid"})
syscall_dropped == TRACE_syscall("gettid", {"skipped"}, {"tid"})

--------------------------------------------------------------------------------
(* The system call seccomp, and thread synchronisation.                     *)

seccomp_syscall ==
  Test("-1", <<NNP, EXPECT(seccomp_that("insane"), {"EINVAL"}), EXPECT(seccomp_that("insane"), {"EINVAL"}),
               EXPECT(seccomp_that("insane"), {"EINVAL"}), EXPECT(seccomp_that("insane"), {"EINVAL"}),
               EXPECT(seccomp_that("filter NULL"), {"EFAULT"}), EXPECT(seccomp("0", allow_prog), {"0"})>>)

seccomp_syscall_mode_lock ==
  Test("-1", <<NNP, EXPECT(seccomp("0", allow_prog), {"0"}),
               EXPECT(prctl("strict"), {"EINVAL"}), EXPECT(seccomp_that("strict"), {"EINVAL"})>>)

TSYNC_first == Test("-1", <<NNP, EXPECT(seccomp("TSYNC", allow_prog), {"0"})>>)

root_prog == allow_prog
apply_prog == on("read", KILL)
SYNC(want) == ASSERT(seccomp("TSYNC", apply_prog), want)
ROOT == ASSERT(seccomp("0", root_prog), {"0"})

start(s) == [Step("start") EXCEPT !.who = s]
start_diverged(s) == [start(s) EXCEPT !.more = 1]
started == <<Step("sem_wait"), Step("sem_wait")>>
\* Broadcast with the mutex held; before it, a sibling may be told to wait once more
\* (more = 1) or no more than once (more = -1).
broadcast(s, more) == [Step("broadcast") EXCEPT !.who = s, !.more = more]
join(s, want) == [EXPECT_that("join", {want}) EXCEPT !.who = s]
join_both(want) == <<join(0, want), join(1, want)>>
\* Slip: what join returns is taken for the death of the task.
poll_skipped(s) == [Step("skip") EXCEPT !.who = s]
\* "Poll for actual task death. pthread_join doesn't guarantee it."
poll(s) == [Step("poll") EXCEPT !.who = s]

siblings_fail_prctl ==
  Test("-1", <<NNP, ASSERT(seccomp("0", on("prctl", ERRNO("EINVAL"))), {"0"}), start_diverged(0), start(1)>>
             \o started \o <<broadcast(1, 0), join(0, "FAILURE"), join(1, "UNKILLED")>>)

two_siblings_with_ancestor ==
  Test("-1", <<NNP, ROOT, start(0), start(1)>> \o started \o <<SYNC({"0"}), broadcast(1, 0)>> \o join_both("0"))

two_sibling_want_nnp ==
  Test("-1", <<start(0), start(1)>> \o started \o <<broadcast(1, 0)>> \o join_both("NEWPRIVS"))

two_siblings_with_no_filter ==
  Test("-1", <<start(0), start(1)>> \o started \o <<NNP, SYNC({"0"}), broadcast(1, 0)>> \o join_both("0"))

two_siblings_with_one_divergence ==
  Test("-1", <<NNP, ROOT, start_diverged(0), start(1)>> \o started
             \o <<SYNC({"tid 0"}), broadcast(1, 0)>> \o join_both("UNKILLED"))

two_siblings_not_under_filter ==
  Test("-1", <<NNP, start_diverged(0), start(1)>> \o started
             \o <<ROOT, SYNC({"tid 0"}), broadcast(1, 1), join(0, "UNKILLED"), poll(0),
                  SYNC({"0"}), broadcast(1, -1), join(1, "0"), poll(1), SYNC({"0"})>>)
================================================================================
