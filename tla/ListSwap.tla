------------------------------ MODULE ListSwap ------------------------------
(***************************************************************************)
(* The served list as two tasks share it: load_slot (main/blocklist.c, on  *)
(* the updater task) allocates a buffer, reads a slot into it and checks   *)
(* it, swaps the pointer and the count under s_lock and frees the old      *)
(* buffer, or the new one if a check fails; is_blocked (on the DNS task,   *)
(* main/dns_sinkhole.c) looks a name and its parent domains up, taking and *)
(* giving s_lock once per lookup.  The two cores interleave step by step.  *)
(* What the checks are is BlocklistStore's business.                       *)
(***************************************************************************)
EXTENDS Integers, Sequences, FiniteSets, Functions

CONSTANTS
    Buffers,        \* addresses the PSRAM heap may hand out
    Lists,          \* what passes the checks: strictly ascending, not empty
    Names,          \* queried names, sequences of labels
    DomainHash(_)   \* domain_hash of a name

ASSUME ListsAssumption ==
    \A l \in Lists : l \in Seq(Nat) /\ l # <<>> /\ \A i, j \in 1..Len(l) : i < j => l[i] < l[j]

ASSUME NamesAssumption ==
    \A name \in Names : /\ name \in Seq(STRING) /\ name # <<>>
                        /\ \A k \in 1..Len(name) : DomainHash(SubSeq(name, k, Len(name))) \in Nat

VARIABLES
    heap,      \* what each allocated buffer holds, Free if it is not allocated
    hashes,    \* s_hashes
    count,     \* s_count
    lock,      \* the holder of s_lock, or Nobody
    upc,       \* the next step of load_slot
    buf,       \* load_slot's new buffer
    old,       \* load_slot's old
    dpc,       \* the next step of is_blocked
    name,      \* the name being looked up
    k,         \* the label p points at
    lo, hi,    \* the bounds of the binary search
    verdict,   \* what the last is_blocked returned: "none" while one runs
    seen,      \* history: the lists served at some moment of the query
    missed     \* history: some lookup of the query gave up on the lock

updater == <<upc, buf, old>>
dns == <<dpc, name, k, lo, hi, verdict>>
history == <<seen, missed>>
vars == <<heap, hashes, count, lock, updater, dns, history>>

Free == <<>>
Unread == <<-1>>    \* what malloc left in a buffer, or what fails a check
NULL == "NULL"
Nobody == "nobody"

ASSUME BuffersAssumption == NULL \notin Buffers

Live == {b \in Buffers : heap[b] # Free}

\* The list lookups use: nothing is listed before the first load.
Served == IF hashes = NULL THEN <<>> ELSE heap[hashes]

-----------------------------------------------------------------------------
(* load_slot *)

\* The metadata and the size are in range; without PSRAM load_slot returns here.
Malloc ==
    /\ upc = "idle"
    /\ \E b \in Buffers \ Live : heap' = [heap EXCEPT ![b] = Unread] /\ buf' = b
    /\ upc' = "read"
    /\ UNCHANGED <<hashes, count, lock, old, dns, history>>

\* The partition is read into the buffer and passes every check.
Validate ==
    /\ upc = "read"
    /\ \E l \in Lists : heap' = [heap EXCEPT ![buf] = l]
    /\ upc' = "take"
    /\ UNCHANGED <<hashes, count, lock, buf, old, dns, history>>

Mut_Reject ==
    /\ upc = "read"
    /\ upc' = "idle" /\ buf' = NULL
    /\ UNCHANGED <<heap, hashes, count, lock, old, dns, history>>

\* The read fails, or the digest or the order is wrong: goto fail.
Reject ==
    /\ upc = "read"
    /\ heap' = [heap EXCEPT ![buf] = Free]
    /\ upc' = "idle" /\ buf' = NULL
    /\ UNCHANGED <<hashes, count, lock, old, dns, history>>

\* xSemaphoreTake(s_lock, portMAX_DELAY)
TakeForSwap ==
    /\ upc = "take" /\ lock = Nobody
    /\ lock' = "updater"
    /\ upc' = "hashes"
    /\ UNCHANGED <<heap, hashes, count, buf, old, dns, history>>

SwapHashes ==
    /\ upc = "hashes"
    /\ old' = hashes /\ hashes' = buf
    /\ upc' = "count"
    /\ seen' = IF dpc = "idle" THEN seen ELSE seen \cup {heap[buf]}
    /\ UNCHANGED <<heap, count, lock, buf, dns, missed>>

SwapCount ==
    /\ upc = "count"
    /\ count' = Len(heap[buf])
    /\ upc' = "give"
    /\ UNCHANGED <<heap, hashes, lock, buf, old, dns, history>>

GiveAfterSwap ==
    /\ upc = "give"
    /\ lock' = Nobody
    /\ upc' = "free"
    /\ UNCHANGED <<heap, hashes, count, buf, old, dns, history>>

\* free(old); free(NULL) does nothing.
FreeOld ==
    /\ upc = "free"
    /\ heap' = IF old = NULL THEN heap ELSE [heap EXCEPT ![old] = Free]
    /\ upc' = "idle" /\ buf' = NULL /\ old' = NULL
    /\ UNCHANGED <<hashes, count, lock, dns, history>>

-----------------------------------------------------------------------------
(* is_blocked and blocklist_contains *)

\* The hash of the name from label i on, and whether is_blocked stops there.
SuffixHash(nm, i) == DomainHash(SubSeq(nm, i, Len(nm)))
Mut_LastSuffix(nm, i) == Len(nm) - i + 1 = 2
LastSuffix(nm, i) == Len(nm) - i + 1 <= 2

Query ==
    /\ dpc = "idle"
    /\ \E nm \in Names : name' = nm
    /\ k' = 1 /\ verdict' = "none"
    /\ dpc' = "take"
    /\ seen' = {Served} /\ missed' = FALSE
    /\ UNCHANGED <<heap, hashes, count, lock, updater, lo, hi>>

\* The lookup of one suffix is over: stop, or drop the leftmost label.
Found == dpc' = "idle" /\ verdict' = "blocked" /\ k' = k
Missing ==
    IF LastSuffix(name, k)
    THEN dpc' = "idle" /\ verdict' = "pass" /\ k' = k
    ELSE dpc' = "take" /\ verdict' = verdict /\ k' = k + 1

Mut_TakeForLookup ==
    /\ dpc = "take"
    /\ lo' = 0 /\ hi' = count
    /\ dpc' = "search"
    /\ UNCHANGED <<heap, hashes, count, lock, updater, name, k, verdict, history>>

TakeForLookup ==
    /\ dpc = "take" /\ lock = Nobody
    /\ lock' = "dns"
    /\ lo' = 0 /\ hi' = count
    /\ dpc' = "search"
    /\ UNCHANGED <<heap, hashes, count, updater, name, k, verdict, history>>

Mut_TakeTimesOut == FALSE /\ UNCHANGED vars

\* 20 ms have passed with the lock taken: the lookup fails open.
TakeTimesOut ==
    /\ dpc = "take" /\ lock # Nobody
    /\ Missing
    /\ missed' = TRUE
    /\ UNCHANGED <<heap, hashes, count, lock, updater, name, lo, hi, seen>>

Mid == lo + (hi - lo) \div 2

Mut_Search ==
    /\ dpc = "search" /\ lo < hi
    /\ heap[hashes][Mid + 1] # SuffixHash(name, k)
    /\ IF heap[hashes][Mid + 1] < SuffixHash(name, k)
       THEN lo' = Mid + 1 /\ hi' = hi
       ELSE lo' = lo /\ hi' = IF Mid = 0 THEN 0 ELSE Mid - 1
    /\ UNCHANGED <<heap, hashes, count, lock, updater, dpc, name, k, verdict, history>>

\* One halving of the search; C indexes from 0.
Search ==
    /\ dpc = "search" /\ lo < hi
    /\ heap[hashes][Mid + 1] # SuffixHash(name, k)
    /\ IF heap[hashes][Mid + 1] < SuffixHash(name, k)
       THEN lo' = Mid + 1 /\ hi' = hi
       ELSE lo' = lo /\ hi' = Mid
    /\ UNCHANGED <<heap, hashes, count, lock, updater, dpc, name, k, verdict, history>>

\* The search hits, or its interval is empty; either way the lock is given back.
Hit == lo < hi /\ heap[hashes][Mid + 1] = SuffixHash(name, k)

GiveAfterLookup ==
    /\ dpc = "search" /\ (Hit \/ lo >= hi)
    /\ lock' = Nobody
    /\ IF Hit THEN Found ELSE Missing
    /\ UNCHANGED <<heap, hashes, count, updater, name, lo, hi, history>>

-----------------------------------------------------------------------------
Init ==
    /\ heap = [b \in Buffers |-> Free]
    /\ hashes = NULL /\ count = 0 /\ lock = Nobody
    /\ upc = "idle" /\ buf = NULL /\ old = NULL
    /\ dpc = "idle" /\ name = <<>> /\ k = 1 /\ lo = 0 /\ hi = 0 /\ verdict = "none"
    /\ seen = {} /\ missed = FALSE

Load ==
    \/ Malloc \/ Validate \/ Reject
    \/ TakeForSwap \/ SwapHashes \/ SwapCount \/ GiveAfterSwap \/ FreeOld
Lookup == TakeForLookup \/ TakeTimesOut \/ Search \/ GiveAfterLookup

Next == Load \/ Query \/ Lookup

Spec == Init /\ [][Next]_vars

\* The DNS task has the higher priority: it always gets to run.  Nothing is
\* assumed of the updater.
FairSpec == Spec /\ WF_vars(Lookup)

-----------------------------------------------------------------------------
(* Properties *)

TypeOK ==
    /\ heap \in [Buffers -> Lists \cup {Free, Unread}]
    /\ hashes \in Buffers \cup {NULL} /\ buf \in Buffers \cup {NULL} /\ old \in Buffers \cup {NULL}
    /\ count \in Nat /\ lo \in Nat /\ hi \in Nat /\ k \in Nat
    /\ lock \in {Nobody, "updater", "dns"}
    /\ upc \in {"idle", "read", "take", "hashes", "count", "give", "free"}
    /\ dpc \in {"idle", "take", "search"}
    /\ dpc # "idle" => name \in Names /\ k \in 1..Len(name)
    /\ verdict \in {"none", "blocked", "pass"}

\* blocklist.c: "safe: no reader can still hold it once the lock cycled": the
\* search only ever reads inside a buffer that is allocated and was checked.
ReadsLiveMemory ==
    dpc = "search" /\ lo < hi =>
        /\ hashes \in Live /\ heap[hashes] # Unread
        /\ Mid < Len(heap[hashes])

\* An update needs one buffer besides the served one, and none is leaked, neither
\* by a swap nor by a slot that fails a check after its buffer was allocated: PSRAM
\* must hold two lists, not more.
BuffersBounded ==
    /\ Cardinality(Live) <= 2
    /\ upc = "idle" => Live = {hashes} \ {NULL}

\* Whether a list blocks a name: the name itself or a parent domain of two
\* labels or more is listed.
Blocks(list, nm) ==
    \E i \in 1..Len(nm) : (i = 1 \/ Len(nm) - i + 1 >= 2) /\ SuffixHash(nm, i) \in Range(list)

\* A blocked name is blocked by a list that was served during the query, whatever
\* swaps happen in between; a name is let through only if some list served then
\* lets it through, unless a swap or a lock timeout came in between.
VerdictJustified ==
    /\ verdict = "blocked" /\ dpc = "idle" => \E l \in seen : Blocks(l, name)
    /\ verdict = "pass" /\ dpc = "idle" /\ ~missed /\ Cardinality(seen) = 1 =>
          \E l \in seen : ~Blocks(l, name)

\* dns_sinkhole.c: "nothing here can block indefinitely": every query gets its
\* verdict, even if the updater stops for ever while it holds the lock.
LookupEnds == dpc # "idle" ~> dpc = "idle"
=============================================================================
