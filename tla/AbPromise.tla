------------------------------- MODULE AbPromise -------------------------------
(***************************************************************************)
(* What the A/B scheme promises to the owner of a device, whatever disk    *)
(* errors and power cuts do to the loader: every start of a kernel that    *)
(* has not been confirmed is paid for, in advance, from the tries its slot *)
(* was given.  A kernel that never comes up therefore runs a bounded       *)
(* number of times before the device leaves it alone.                      *)
(***************************************************************************)
EXTENDS Integers

CONSTANTS Slots, MaxTries

VARIABLES
  budget,    \* starts a slot still has, or Unlimited once it is confirmed
  running    \* the slot whose kernel was started, or Nobody

Unlimited == -1
Nobody == "none"

Promised == [s \in Slots |-> MaxTries]

PromiseInit ==
  /\ budget \in [Slots -> 0..MaxTries \cup {Unlimited}]
  /\ running = Nobody

\* The start is paid for.
Start(s) ==
  /\ running = Nobody
  /\ budget[s] # 0
  /\ running' = s
  /\ budget' = IF budget[s] = Unlimited THEN budget
               ELSE [budget EXCEPT ![s] = @ - 1]

Stop == running' = Nobody /\ UNCHANGED budget

\* A slot loses tries without a start, or is invalidated.
Lose(s) ==
  /\ running = Nobody
  /\ budget[s] # 0
  /\ \E n \in 0..MaxTries :
       /\ budget[s] # Unlimited => n < budget[s]
       /\ budget' = [budget EXCEPT ![s] = n]
  /\ UNCHANGED running

\* The record is lost: every slot goes on trial again.
Amnesty ==
  /\ running = Nobody
  /\ budget' = Promised
  /\ UNCHANGED running

\* The running system vouches for its slot, or installs into the other one.
Vouch(s) ==
  /\ running = s
  /\ budget' = [budget EXCEPT ![s] = Unlimited]
  /\ UNCHANGED running

Install(s) ==
  /\ running \notin {Nobody, s}
  /\ budget' = [budget EXCEPT ![s] = MaxTries]
  /\ UNCHANGED running

PromiseNext ==
  \/ Stop
  \/ Amnesty
  \/ \E s \in Slots : Start(s) \/ Lose(s) \/ Vouch(s) \/ Install(s)

PromiseSpec == PromiseInit /\ [][PromiseNext]_<<budget, running>>
================================================================================
