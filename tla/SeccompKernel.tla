----------------------------- MODULE SeccompKernel -----------------------------
(***************************************************************************)
(* The kernel as the tests of pts/seccomp use it (external): the threads   *)
(* of the test process, what their filters decide, and what the system     *)
(* calls return.  A flaw makes it the kernel the tests are there to find.  *)
(***************************************************************************)
EXTENDS Naturals, Sequences, SequencesExt, FiniteSets, FiniteSetsExt

CONSTANTS
  BPF_MAXINSNS,         \* instructions of one filter
  MAX_INSNS_PER_PATH,   \* instructions of all filters of a thread, four more for each
  TSYNC_SIBLINGS        \* the threads beside the main one

Main == TSYNC_SIBLINGS
Siblings == 0 .. TSYNC_SIBLINGS - 1
Threads == Siblings \cup {Main}

VARIABLES
  env,    \* the machine: its flaw, root, nnp on entry, and the scope of ptrace
  task    \* of each thread: mode, filters, no_new_privs, and whether it is there

Flaw(f) == env.flaw = f

--------------------------------------------------------------------------------
(* Classic BPF: instructions, actions, and what a program returns for a call. *)

LD(field) == [i |-> "ld", k |-> field, jt |-> 0, jf |-> 0]
JEQ(k, jt, jf) == [i |-> "jeq", k |-> k, jt |-> jt, jf |-> jf]
RET(action) == [i |-> "ret", k |-> action, jt |-> 0, jf |-> 0]

Action(kind, data) == [kind |-> kind, data |-> data]
KILL == Action("KILL", "")
TRAP == Action("TRAP", "")
ERRNO(e) == Action("ERRNO", e)
UNKNOWN == Action("UNKNOWN", "")
TRACE(msg) == Action("TRACE", msg)
ALLOW == Action("ALLOW", "")

Call(nr) ==
  [nr |-> nr, what |-> nr, arg0 |-> "0", arg5 |-> "0", prog |-> <<>>, flags |-> "0"]

Run(prog, call) ==
  LET from[pc \in 1 .. Len(prog), a \in {call.nr, call.arg0, call.arg5, ""}] ==
        LET insn == prog[pc] IN
        CASE insn.i = "ret" -> insn.k
          [] insn.i = "ld" -> from[pc + 1, IF insn.k \in DOMAIN call THEN call[insn.k] ELSE ""]
          [] OTHER -> from[pc + 1 + (IF a = insn.k THEN insn.jt ELSE insn.jf), a]
  IN  from[1, ""]

\* The order of the actions' values: the smallest one decides.
Rank(kind) ==
  CASE kind = "KILL" -> IF Flaw("trap over kill") THEN 2 ELSE 0
    [] kind = "TRAP" -> IF Flaw("errno over trap") THEN 4 ELSE 1
    [] kind = "ERRNO" -> IF Flaw("trace over errno") THEN 7 ELSE 3
    [] kind = "UNKNOWN" -> 5
    [] kind = "TRACE" -> IF Flaw("allow over trace") THEN 9 ELSE 6
    [] kind = "ALLOW" -> 8

\* Of equal actions, that of the filter installed last.
Decide(chain, call) ==
  LET act(i) == Run(chain[i].prog, call)
      Over(i, j) == i = j \/ (i < j /\ Rank(act(i).kind) < Rank(act(j).kind))
                          \/ (i > j /\ Rank(act(i).kind) <= Rank(act(j).kind))
  IN  IF chain = <<>> THEN ALLOW
      ELSE IF Flaw("newest filter only") THEN act(Len(chain))
      ELSE IF Flaw("oldest filter only") THEN act(1)
      ELSE act(CHOOSE i \in DOMAIN chain : \A j \in DOMAIN chain : Over(i, j))

\* On entry to a call: strict mode, or the filters.
Enter(thread, call) ==
  IF task[thread].mode = "strict"
  THEN IF call.nr \in {"read", "write", "exit"} \/ (Flaw("strict allows prctl") /\ call.nr = "prctl")
       THEN ALLOW ELSE Action("STRICT", "")
  ELSE LET act == Decide(task[thread].chain, call)
       IN  CASE act.kind = "UNKNOWN" -> IF Flaw("unknown allows") THEN ALLOW ELSE KILL
             [] act = ERRNO("4096") /\ ~Flaw("uncapped errno") -> ERRNO("4095")
             [] OTHER -> act

--------------------------------------------------------------------------------
(* Installing a filter.                                                     *)

Invalid(prog) ==
  \/ Len(prog) = 0
  \/ ~Flaw("no length limit") /\ Len(prog) > BPF_MAXINSNS
  \/ ~Flaw("argument out of range") /\ \E pc \in DOMAIN prog : prog[pc].i = "ld" /\ prog[pc].k = "arg6"

\* Each filter keeps the length of the path up to it, four more for every one of them.
PathLength(chain) == IF chain = <<>> THEN 0 ELSE Last(chain).path

TooLong(chain, prog) == Len(prog) + PathLength(chain) > MAX_INSNS_PER_PATH

Others(thread) == {o \in Threads \ {thread} : task[o].there}

\* Threads whose filters are not among the caller's: none of them can be synchronised.
Diverged(thread) ==
  {o \in Others(thread) : task[o].mode # "none" /\ ~IsPrefix(task[o].chain, task[thread].chain)}

tid(s) == IF s = 0 THEN "tid 0" ELSE "tid 1"

Installs(thread, call) ==
  LET me == task[thread] IN
  IF Invalid(call.prog) \/ Flaw("no filter mode") \/ me.mode = "strict" THEN "EINVAL"
  ELSE IF ~me.nnp /\ ~env.root /\ ~Flaw("anyone installs") THEN "EACCES"
  ELSE IF TooLong(me.chain, call.prog) /\ ~Flaw("no path limit") THEN "ENOMEM"
  ELSE IF call.flags = "TSYNC" /\ ~Flaw("syncs the diverged") /\ Diverged(thread) # {}
  THEN tid(Min(Diverged(thread)))
  ELSE "0"

--------------------------------------------------------------------------------
(* What a call that is let in returns, and what it leaves behind.           *)

Errnos == {"EINVAL", "EFAULT", "EACCES", "ENOMEM", "ENOSYS", "EBADF", "E2BIG", "4095", "4096"}
Results == Errnos \cup {"0", "1", "2", "pid", "ppid", "tid", "tid 0", "tid 1", "skipped"}

Returns(thread, call) ==
  LET me == task[thread] IN
  CASE call.what \in {"set_nnp"} -> "0"
    [] call.what = "get_nnp" -> IF me.nnp THEN "1" ELSE "0"
    [] call.what = "get_seccomp" -> IF me.mode = "filter" THEN "2" ELSE "0"
    [] call.what = "strict" ->
         IF Flaw("no strict mode") \/ (me.mode = "filter" /\ ~Flaw("filter to strict")) THEN "EINVAL" ELSE "0"
    [] call.what = "filter NULL" -> IF Flaw("no filter mode") THEN "EINVAL" ELSE "EFAULT"
    [] call.what = "insane" -> IF Flaw("accepts anything") THEN "0" ELSE "EINVAL"
    [] call.what = "filter" -> Installs(thread, call)
    [] call.what = "getpid" -> "pid"
    [] call.what = "getppid" -> "ppid"
    [] call.what = "gettid" -> "tid"
    [] call.what = "read(-1)" -> "EBADF"
    [] OTHER -> "0"

TaskAfter(thread, call) ==
  LET node == [prog |-> call.prog, by |-> thread, path |-> PathLength(task[thread].chain) + Len(call.prog) + 4]
      chain == Append(task[thread].chain, node)
      synced == IF call.flags # "TSYNC" THEN {}
                ELSE {o \in Others(thread) : ~Flaw("skips the unfiltered") \/ task[o].mode # "none"}
  IN  IF Returns(thread, call) # "0" \/ TooLong(task[thread].chain, call.prog) THEN task
      ELSE IF call.what = "set_nnp" THEN [task EXCEPT ![thread].nnp = TRUE]
      ELSE IF call.what = "strict" THEN [task EXCEPT ![thread].mode = "strict", ![thread].chain = <<>>]
      ELSE IF call.what = "filter"
      THEN [o \in Threads |->
              IF o = thread THEN [task[o] EXCEPT !.mode = "filter", !.chain = chain]
              ELSE IF o \in synced
              THEN [task[o] EXCEPT !.mode = "filter", !.chain = chain,
                                   !.nnp = @ \/ (task[thread].nnp /\ ~Flaw("sync without nnp"))]
              ELSE task[o]]
      ELSE task
================================================================================
