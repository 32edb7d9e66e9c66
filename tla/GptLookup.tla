------------------------------- MODULE GptLookup -------------------------------
(***************************************************************************)
(* bub_partition_entry_by_name of bub_boot_kernel.c: three allocations,    *)
(* two block reads and a conversion, each of which may fail, then a search *)
(* of the partition table.  Every early return frees what the function     *)
(* holds by then; the caller gets the entry and has to free it.            *)
(***************************************************************************)
EXTENDS Integers, Sequences

CONSTANTS
  Names,            \* names a caller may ask for, or a table may hold
  Unrepresentable,  \* those that utf8_to_ucs2 refuses
  MaxEntries,       \* MAX_GPT_ENTRIES, 128 in the code: what all_gpt_entries holds
  IndexRange,       \* 256 in the code: the search counts in a UINT8
  Tables,           \* partition tables of a disk
  NULL,             \* what a pointer to an entry may be besides: no entry,
  Blank,            \* memory with no entry in it yet,
  Unset             \* never assigned

GPTEntry == [name : Names, first_lba : Nat, last_lba : Nat]

\* A disk says itself how many entries it has; they are taken to fit the buffer,
\* which nothing in the function checks.
ASSUME TableAssumption ==
  /\ MaxEntries \in Nat /\ IndexRange \in Nat /\ MaxEntries < IndexRange
  /\ Unrepresentable \subseteq Names
  /\ \A t \in Tables : t \in Seq(GPTEntry) /\ Len(t) <= MaxEntries
  /\ GPTEntry \cap {NULL, Blank, Unset} = {}
  /\ NULL # Blank /\ NULL # Unset /\ Blank # Unset

VARIABLES
  table,      \* the partition table on the disk
  step,       \* where the function is
  wanted,     \* partition_name
  heap,       \* allocations not freed
  entry_buf,  \* *entry_buf: Unset, NULL, or what it points to, Blank or an entry
  i,          \* the index of the search
  status,     \* EFI_STATUS returned
  failed      \* an allocation or a transfer has failed since the call began

lookupVars == <<table, step, wanted, heap, entry_buf, i, status, failed>>

--------------------------------------------------------------------------------
Kinds == {"header", "entry", "name"}
EmptyHeap == [k \in Kinds |-> 0]

LookupSteps == {"alloc_header", "alloc_entry", "read_header", "alloc_name", "convert",
                "read_table", "search"}
Steps == LookupSteps \cup {"idle", "returned", "wild"}

\* Slip: the search stops before the last entry.
entry_count_less_one == Len(table) - 1

\* gpt_header->entry_count
entry_count == Len(table)

\* all_gpt_entries[n], which C counts from 0.
entry(n) == table[n + 1]

LookupTypeOK ==
  /\ table \in Tables
  /\ step \in Steps
  /\ wanted \in Names
  /\ heap \in [Kinds -> Nat]
  /\ entry_buf \in {NULL, Blank, Unset} \/ entry_buf \in GPTEntry
  /\ i \in 0..(IndexRange - 1)
  /\ status \in {"SUCCESS", "NOT_FOUND"}
  /\ failed \in BOOLEAN

LookupInit ==
  /\ table \in Tables
  /\ step = "idle"
  /\ wanted \in Names
  /\ heap = EmptyHeap
  /\ entry_buf = Unset
  /\ i = 0
  /\ status = "NOT_FOUND"
  /\ failed = FALSE

--------------------------------------------------------------------------------
Allocated(k) == heap' = [heap EXCEPT ![k] = @ + 1]

\* bub_free of each of the kinds; of NULL it does nothing but complain.
Freed(kinds) ==
  heap' = [k \in Kinds |->
             IF k \in kinds /\ ~(k = "entry" /\ entry_buf = NULL)
             THEN heap[k] - 1
             ELSE heap[k]]

\* The caller comes in, with an uninitialised pointer for the entry.
LookupBegins(name) ==
  /\ step = "idle"
  /\ step' = "alloc_header"
  /\ wanted' = name
  /\ entry_buf' = Unset
  /\ failed' = FALSE
  /\ UNCHANGED <<table, heap, i, status>>

\* EFI_NOT_FOUND, once `kinds` are freed and *entry_buf is NULL.
GivesUp(kinds) ==
  /\ Freed(kinds)
  /\ entry_buf' = NULL
  /\ step' = "returned"
  /\ status' = "NOT_FOUND"

AllocHeader ==
  /\ step = "alloc_header"
  /\ \/ Allocated("header") /\ step' = "alloc_entry" /\ UNCHANGED <<status, failed>>
     \/ step' = "returned" /\ status' = "NOT_FOUND" /\ failed' = TRUE /\ UNCHANGED heap
  /\ UNCHANGED <<table, wanted, entry_buf, i>>

\* The test that follows is of entry_buf, the caller's variable, and never true:
\* a failed allocation goes unnoticed.
AllocEntry ==
  /\ step = "alloc_entry"
  /\ \/ Allocated("entry") /\ entry_buf' = Blank /\ UNCHANGED failed
     \/ entry_buf' = NULL /\ failed' = TRUE /\ UNCHANGED heap
  /\ step' = "read_header"
  /\ UNCHANGED <<table, wanted, i, status>>

\* Slip: the name is freed on a path that has not allocated it yet.
ReadHeaderFreesName ==
  /\ step = "read_header"
  /\ \/ step' = "alloc_name" /\ UNCHANGED <<heap, entry_buf, status, failed>>
     \/ GivesUp({"header", "name", "entry"}) /\ failed' = TRUE
  /\ UNCHANGED <<table, wanted, i>>

ReadHeader ==
  /\ step = "read_header"
  /\ \/ step' = "alloc_name" /\ UNCHANGED <<heap, entry_buf, status, failed>>
     \/ GivesUp({"header", "entry"}) /\ failed' = TRUE
  /\ UNCHANGED <<table, wanted, i>>

AllocName ==
  /\ step = "alloc_name"
  /\ \/ Allocated("name") /\ step' = "convert" /\ UNCHANGED <<entry_buf, status, failed>>
     \/ GivesUp({"header", "entry"}) /\ failed' = TRUE
  /\ UNCHANGED <<table, wanted, i>>

Convert ==
  /\ step = "convert"
  /\ IF wanted \in Unrepresentable
     THEN GivesUp({"header", "name", "entry"})
     ELSE step' = "read_table" /\ UNCHANGED <<heap, entry_buf, status>>
  /\ UNCHANGED <<table, wanted, i, failed>>

ReadTable ==
  /\ step = "read_table"
  /\ \/ step' = "search" /\ i' = 0 /\ UNCHANGED <<heap, entry_buf, status, failed>>
     \/ GivesUp({"header", "name", "entry"}) /\ failed' = TRUE /\ UNCHANGED i
  /\ UNCHANGED <<table, wanted>>

\* Slip: the path that has found the entry forgets the name.
SearchKeepingName ==
  /\ step = "search"
  /\ i < entry_count
  /\ entry(i).name = wanted
  /\ IF entry_buf = NULL
     THEN step' = "wild" /\ UNCHANGED <<heap, entry_buf, status>>
     ELSE /\ entry_buf' = entry(i)
          /\ Freed({"header"})
          /\ step' = "returned"
          /\ status' = "SUCCESS"
  /\ UNCHANGED <<table, wanted, i, failed>>

\* The entry is copied into the buffer, which may not be there.
SearchMatches ==
  /\ step = "search"
  /\ i < entry_count
  /\ entry(i).name = wanted
  /\ IF entry_buf = NULL
     THEN step' = "wild" /\ UNCHANGED <<heap, entry_buf, status>>
     ELSE /\ entry_buf' = entry(i)
          /\ Freed({"name", "header"})
          /\ step' = "returned"
          /\ status' = "SUCCESS"
  /\ UNCHANGED <<table, wanted, i, failed>>

\* Slip: the index wraps before the end of the table.
SearchWraps ==
  /\ step = "search"
  /\ i < entry_count
  /\ entry(i).name # wanted
  /\ i' = (i + 1) % MaxEntries
  /\ UNCHANGED <<table, step, wanted, heap, entry_buf, status, failed>>

SearchGoesOn ==
  /\ step = "search"
  /\ i < entry_count
  /\ entry(i).name # wanted
  /\ i' = (i + 1) % IndexRange
  /\ UNCHANGED <<table, step, wanted, heap, entry_buf, status, failed>>

SearchEnds ==
  /\ step = "search"
  /\ i >= entry_count
  /\ GivesUp({"name", "header", "entry"})
  /\ UNCHANGED <<table, wanted, i, failed>>

LookupStep ==
  \/ AllocHeader \/ AllocEntry \/ ReadHeader \/ AllocName \/ Convert \/ ReadTable
  \/ SearchMatches \/ SearchGoesOn \/ SearchEnds

--------------------------------------------------------------------------------
(* What must hold, whoever calls.                                           *)

\* "Allocates a GPTEntry struct for |entry_buf|. Caller is responsible for freeing"
\* it (bub_boot_kernel.h:140-141): whichever of the seven returns is taken, the
\* header and the name are freed once, and the entry is left to the caller exactly
\* when there is one to free.
NothingLeaks ==
  step \in {"idle", "returned"} =>
    /\ heap["header"] = 0 /\ heap["name"] = 0
    /\ heap["entry"] = IF step = "returned" /\ status = "SUCCESS" THEN 1 ELSE 0

\* The table's answer is the first entry of the name wanted; without one, or when
\* something failed, there is none (bub_boot_kernel.c:456-479).
Matches == {n \in 0..(Len(table) - 1) : entry(n).name = wanted}

FindsTheFirst ==
  step = "returned" =>
    \/ /\ status = "SUCCESS"
       /\ \E n \in Matches : entry_buf = entry(n) /\ \A m \in Matches : n <= m
    \/ /\ status = "NOT_FOUND"
       /\ entry_buf \in {NULL, Unset}
       /\ failed \/ Matches = {} \/ wanted \in Unrepresentable

\* "Could not allocate for partition entry" (bub_boot_kernel.c:389) and
\* "@return EFI_NOT_FOUND on error" (bub_boot_kernel.h:143): running out of memory
\* is an error that is reported, not one that writes through a null pointer.  The test
\* of the second allocation is of the wrong variable (388), and it does.
AllocationFailureIsReported == step # "wild"

--------------------------------------------------------------------------------
(* The inductive invariant behind NothingLeaks and FindsTheFirst.           *)

AfterEntry == {"read_header", "alloc_name", "convert", "read_table", "search"}

\* What is on the heap is decided by how far the function has come.
HeapFollowsStep ==
  /\ heap["header"] = IF step \in {"alloc_entry", "wild"} \cup AfterEntry THEN 1 ELSE 0
  /\ heap["name"] = IF step \in {"convert", "read_table", "search", "wild"} THEN 1 ELSE 0
  /\ heap["entry"] = IF \/ step \in AfterEntry /\ entry_buf # NULL
                        \/ step = "returned" /\ status = "SUCCESS"
                     THEN 1 ELSE 0

EntryFollowsStep ==
  /\ step \in AfterEntry => entry_buf \in {NULL, Blank}
  /\ step \in {"alloc_header", "alloc_entry"} => entry_buf = Unset

\* No entry before the index has the name.
SearchedInVain ==
  step = "search" =>
    /\ i <= entry_count
    /\ \A m \in 0..(i - 1) : entry(m).name # wanted

LookupInv ==
  /\ LookupTypeOK
  /\ HeapFollowsStep
  /\ EntryFollowsStep
  /\ SearchedInVain
  /\ FindsTheFirst
================================================================================
