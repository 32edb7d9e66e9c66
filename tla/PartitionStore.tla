----------------------------- MODULE PartitionStore ----------------------------
(***************************************************************************)
(* What bub_ops.h promises of read_from_partition and write_to_partition:  *)
(* a store of named partitions, each a sequence of bytes that knows its    *)
(* own bounds.  A read that runs over the end is cut short, a write that   *)
(* does is refused, and an error is reported as what it is.                *)
(***************************************************************************)
EXTENDS Integers

CONSTANTS
  Requests,    \* records of op, name, offset, num and, for a write, the byte written
  None,        \* no request, or no reply
  FailureMeansMissing  \* FALSE in the contract; TRUE: a call that fails before it has
                       \* found the partition may say that there is none

VARIABLES
  content,     \* from the name of a partition to its bytes, counted from 0
  request,     \* the call under way
  reply,       \* what it returned
  failed       \* the disk or the memory has failed during the call

Size(p) == IF DOMAIN content[p] = {} THEN 0
           ELSE 1 + CHOOSE k \in DOMAIN content[p] : \A m \in DOMAIN content[p] : m <= k

\* "If |offset| is negative, its absolute value should be interpreted as the
\* number of bytes from the end of the partition."
Start(r) == IF r.offset < 0 THEN Size(r.name) + r.offset ELSE r.offset

Exists(r) == r.name \in DOMAIN content
StartsInside(r) == Exists(r) /\ Start(r) \in 0..Size(r.name)
EndsInside(r) == StartsInside(r) /\ Start(r) + r.num <= Size(r.name)

Transferred(r) ==
  IF EndsInside(r) THEN r.num ELSE Size(r.name) - Start(r)

Bytes(p, from, n) == [k \in 0..(n - 1) |-> content[p][from + k]]

Filled(p, from, n, v) ==
  [content EXCEPT ![p] = [k \in DOMAIN @ |-> IF k \in from..(from + n - 1) THEN v ELSE @[k]]]

Answers(result, data) == reply' = [result |-> result, data |-> data] /\ UNCHANGED failed

StoreInit == request = None /\ reply = None /\ failed = FALSE

Ask ==
  /\ request = None
  /\ request' \in Requests
  /\ reply' = None
  /\ failed' = FALSE
  /\ UNCHANGED content

Fail ==
  /\ request # None
  /\ failed' = TRUE
  /\ UNCHANGED <<content, request, reply>>

Read ==
  /\ request.op = "read"
  /\ StartsInside(request)
  /\ Answers("OK", Bytes(request.name, Start(request), Transferred(request)))
  /\ UNCHANGED content

Write ==
  /\ request.op = "write"
  /\ EndsInside(request)
  /\ content' = Filled(request.name, Start(request), request.num, request.byte)
  /\ Answers("OK", << >>)

OutsideRange ==
  /\ Exists(request)
  /\ IF request.op = "read" THEN ~StartsInside(request) ELSE ~EndsInside(request)
  /\ Answers("RANGE_OUTSIDE_PARTITION", << >>)
  /\ UNCHANGED content

NoSuchPartition ==
  /\ ~Exists(request) \/ (FailureMeansMissing /\ failed)
  /\ Answers("NO_SUCH_PARTITION", << >>)
  /\ UNCHANGED content

\* "If there was an I/O error": of the disk, or of what it takes to get at it.  What
\* an unfinished write has left is unknown, within the bytes it was given.
IoError ==
  /\ reply' = [result |-> "IO", data |-> << >>]
  /\ failed' = TRUE
  /\ \/ UNCHANGED content
     \/ /\ request.op = "write"
        /\ EndsInside(request)
        /\ \E n \in 0..request.num :
             content' = Filled(request.name, Start(request), n, request.byte)

Answer ==
  /\ request # None
  /\ request' = None
  /\ Read \/ Write \/ OutsideRange \/ NoSuchPartition \/ IoError

StoreSpec == StoreInit /\ [][Ask \/ Fail \/ Answer]_<<content, request, reply, failed>>
================================================================================
