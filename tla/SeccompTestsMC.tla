---------------------------- MODULE SeccompTestsMC -----------------------------
(* All tests, or those under a tracer; a sound machine, for root and for others, and *)
(* machines that differ from it in one respect.                                      *)
EXTENDS SeccompTests

TraceTests == <<read_has_side_effects, getpid_runs_normally, syscall_allowed, syscall_redirected, syscall_dropped>>

AllTests ==
  <<mode_strict_support, mode_strict_cannot_call_prctl, no_new_privs_support, mode_filter_support,
    mode_filter_without_nnp, filter_size_limits, filter_chain_limits, mode_filter_cannot_move_to_strict,
    mode_filter_get_seccomp, ALLOW_all, empty_prog, unknown_ret_is_kill_inside,
    unknown_ret_is_kill_above_allow, KILL_all, KILL_one, KILL_one_arg_one, KILL_one_arg_six,
    arg_out_of_range, ERRNO_valid, ERRNO_zero, ERRNO_capped, TRAP_dfl, TRAP_ign, TRAP_handler,
    precedence_allow_ok, kill_is_highest, kill_is_highest_in_any_order, trap_is_second,
    trap_is_second_in_any_order, errno_is_third, errno_is_third_in_any_order, trace_is_fourth,
    trace_is_fourth_in_any_order>>
  \o TraceTests \o
  <<seccomp_syscall, seccomp_syscall_mode_lock, TSYNC_first, siblings_fail_prctl,
    two_siblings_with_ancestor, two_sibling_want_nnp, two_siblings_with_no_filter,
    two_siblings_with_one_divergence, two_siblings_not_under_filter>>

Flaws ==
  {"no strict mode", "strict allows prctl", "no filter mode", "anyone installs", "no length limit",
   "no path limit", "filter to strict", "unknown allows", "argument out of range", "uncapped errno",
   "trap ignored", "newest filter only", "oldest filter only", "trap over kill", "errno over trap",
   "trace over errno", "allow over trace", "trace without tracer", "accepts anything", "syncs the diverged",
   "skips the unfiltered", "sync without nnp", "other event", "no message", "other message", "changes lost"}

Machine(flaw, root, nnp, scope) == [flaw |-> flaw, root |-> root, nnp |-> nnp, scope |-> scope]
Env(machine, constructors, accidents) == [machine |-> machine, toolchain |-> constructors, accident |-> accidents]

SoundEnvs == {Env(Machine("none", root, FALSE, "declared"), FORWARD, "none") : root \in BOOLEAN}

MCEnvs ==
  SoundEnvs
  \cup {Env(Machine("none", root, FALSE, scope), BACKWARD, "barred") : root \in BOOLEAN, scope \in {"open", "closed"}}
  \cup {Env(Machine("none", root, TRUE, "declared"), FORWARD, "barred") : root \in BOOLEAN}
  \cup {Env(Machine(flaw, FALSE, FALSE, "declared"), FORWARD, "barred") : flaw \in Flaws}
  \cup {Env(Machine("anyone installs", TRUE, FALSE, "declared"), FORWARD, "barred")}
================================================================================
