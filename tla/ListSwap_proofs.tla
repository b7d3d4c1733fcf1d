--------------------------- MODULE ListSwap_proofs ---------------------------
(* Lookups only read memory that is allocated, whatever the heap hands out,  *)
(* however many lists are swapped in and wherever the two tasks interleave.  *)
EXTENDS ListSwap, FiniteSetTheorems, TLAPS

UpdaterPoints == {"idle", "read", "take", "hashes", "count", "give", "free"}

\* Types, as far as the proof needs them.
SwapTypes ==
    /\ heap = [b \in Buffers |-> heap[b]]
    /\ \A b \in Buffers : heap[b] \in Lists \cup {Free, Unread}
    /\ hashes \in Buffers \cup {NULL} /\ buf \in Buffers \cup {NULL} /\ old \in Buffers \cup {NULL}
    /\ lock \in {Nobody, "updater", "dns"}
    /\ upc \in UpdaterPoints /\ dpc \in {"idle", "take", "search"}
    /\ lo \in Nat /\ hi \in Nat /\ count \in Nat

\* The lock is held exactly between its take and its give.
LockHeld ==
    /\ lock = "dns" <=> dpc = "search"
    /\ lock = "updater" <=> upc \in {"hashes", "count", "give"}

\* Pointer and count agree except between their two assignments; the served
\* buffer holds a list that was checked, and is neither the one being filled nor
\* the one that is about to be freed.
ServedIntact ==
    /\ hashes = NULL => upc = "count" \/ count = 0
    /\ hashes # NULL => hashes \in Live /\ heap[hashes] \in Lists
    /\ upc # "count" /\ hashes # NULL => count = Len(heap[hashes])
    /\ upc \in {"read", "take", "hashes"} => buf \in Live /\ buf # hashes
    /\ upc \in {"take", "hashes", "count", "give"} => heap[buf] \in Lists
    /\ upc \in {"count", "give"} => buf = hashes /\ buf \in Live
    /\ upc \in {"count", "give", "free"} => old # hashes

\* The search stays inside the buffer as it was when the lock was taken.
SearchInside == dpc = "search" => hi <= count

SwapInv == SwapTypes /\ LockHeld /\ ServedIntact /\ SearchInside

-----------------------------------------------------------------------------
LEMMA ListsAreLists ==
    ASSUME NEW l \in Lists
    PROVE  l \in Seq(Nat) /\ l # Free /\ l # Unread /\ Len(l) \in Nat /\ Len(l) > 0
<1>1. l \in Seq(Nat) /\ l # Free
  BY ListsAssumption DEF ListsAssumption, Free
<1>2. Len(l) \in Nat /\ Len(l) > 0 /\ l[1] \in Nat
  BY <1>1, SMT DEF Free
<1>3. l # Unread
  BY <1>2, SMT DEF Unread
<1>4. QED
  BY <1>1, <1>2, <1>3

LEMMA UnreadIsLive == Unread # Free
BY SMT DEF Unread, Free

\* The middle of a non-empty interval lies in it.
LEMMA MidInside ==
    ASSUME lo \in Nat, hi \in Nat, lo < hi
    PROVE  Mid \in Nat /\ lo <= Mid /\ Mid < hi
BY SMT DEF Mid

LEMMA InitSwap == Init => SwapInv
<1> SUFFICES ASSUME Init PROVE SwapInv
  OBVIOUS
<1>1. SwapTypes
  BY DEF Init, SwapTypes, UpdaterPoints
<1>2. LockHeld /\ ServedIntact /\ SearchInside
  BY BuffersAssumption DEF Init, LockHeld, ServedIntact, SearchInside, BuffersAssumption, Nobody
<1>3. QED
  BY <1>1, <1>2 DEF SwapInv

-----------------------------------------------------------------------------
(* The steps of load_slot *)

LEMMA MallocKeeps == SwapInv /\ Malloc => SwapInv'
<1> SUFFICES ASSUME SwapInv, Malloc PROVE SwapInv'
  OBVIOUS
<1> USE BuffersAssumption DEF BuffersAssumption
<1>1. PICK b \in Buffers \ Live : heap' = [heap EXCEPT ![b] = Unread] /\ buf' = b
  BY DEF Malloc
<1>2. heap'[b] = Unread /\ \A c \in Buffers \ {b} : heap'[c] = heap[c]
  BY <1>1 DEF SwapInv, SwapTypes
<1>3. b \notin Live /\ Live' = Live \cup {b}
  BY <1>1, <1>2, UnreadIsLive DEF Live
<1>4. SwapTypes'
  BY <1>1, <1>2 DEF SwapInv, SwapTypes, Malloc, UpdaterPoints, dns
<1>5. LockHeld' /\ SearchInside'
  BY DEF SwapInv, LockHeld, SearchInside, Malloc, dns
<1>6. ServedIntact'
  BY <1>1, <1>2, <1>3 DEF SwapInv, SwapTypes, ServedIntact, Malloc, Live
<1>7. QED
  BY <1>4, <1>5, <1>6 DEF SwapInv

\* What the checks decide about is load_slot's own buffer, not the served one.
LEMMA CheckedApart ==
    ASSUME SwapInv, upc = "read", NEW l, heap' = [heap EXCEPT ![buf] = l]
    PROVE  /\ buf \in Buffers /\ buf # hashes /\ heap' = [b \in Buffers |-> heap'[b]]
           /\ \A b \in Buffers : heap'[b] = IF b = buf THEN l ELSE heap[b]
           /\ hashes # NULL => hashes \in Buffers /\ heap'[hashes] = heap[hashes]
BY DEF SwapInv, SwapTypes, ServedIntact, Live

LEMMA ValidateKeeps == SwapInv /\ Validate => SwapInv'
<1> SUFFICES ASSUME SwapInv, Validate PROVE SwapInv'
  OBVIOUS
<1>1. PICK l \in Lists : heap' = [heap EXCEPT ![buf] = l]
  BY DEF Validate
<1>2. /\ buf \in Buffers /\ buf # hashes /\ heap' = [b \in Buffers |-> heap'[b]]
      /\ \A b \in Buffers : heap'[b] = IF b = buf THEN l ELSE heap[b]
      /\ hashes # NULL => hashes \in Buffers /\ heap'[hashes] = heap[hashes]
  BY <1>1, CheckedApart DEF Validate
<1>3. SwapTypes' /\ LockHeld' /\ SearchInside'
  BY <1>2 DEF SwapInv, SwapTypes, LockHeld, SearchInside, Validate, UpdaterPoints, dns
<1>4. heap'[buf] # Free
  BY <1>2, ListsAreLists
<1>5. ServedIntact'
  BY <1>2, <1>4 DEF SwapInv, SwapTypes, ServedIntact, Validate, Live
<1>6. QED
  BY <1>3, <1>5 DEF SwapInv

LEMMA RejectKeeps == SwapInv /\ Reject => SwapInv'
<1> SUFFICES ASSUME SwapInv, Reject PROVE SwapInv'
  OBVIOUS
<1>1. /\ buf \in Buffers /\ buf # hashes /\ heap' = [b \in Buffers |-> heap'[b]]
      /\ \A b \in Buffers : heap'[b] = IF b = buf THEN Free ELSE heap[b]
      /\ hashes # NULL => hashes \in Buffers /\ heap'[hashes] = heap[hashes]
  BY CheckedApart DEF Reject
<1>2. SwapTypes' /\ LockHeld' /\ SearchInside'
  BY <1>1 DEF SwapInv, SwapTypes, LockHeld, SearchInside, Reject, UpdaterPoints, dns
<1>3. ServedIntact'
  BY <1>1 DEF SwapInv, SwapTypes, ServedIntact, Reject, Live
<1>4. QED
  BY <1>2, <1>3 DEF SwapInv

LEMMA TakeForSwapKeeps == SwapInv /\ TakeForSwap => SwapInv'
BY DEF SwapInv, SwapTypes, LockHeld, ServedIntact, SearchInside, TakeForSwap, UpdaterPoints,
       Live, Nobody, dns

LEMMA SwapHashesKeeps == SwapInv /\ SwapHashes => SwapInv'
BY BuffersAssumption DEF SwapInv, SwapTypes, LockHeld, ServedIntact, SearchInside, SwapHashes,
       UpdaterPoints, Live, dns, BuffersAssumption

LEMMA SwapCountKeeps == SwapInv /\ SwapCount => SwapInv'
<1> SUFFICES ASSUME SwapInv, SwapCount PROVE SwapInv'
  OBVIOUS
<1>1. buf \in Live /\ heap[buf] \in Lists
  BY DEF SwapInv, SwapTypes, ServedIntact, SwapCount, Live
<1>2. count' = Len(heap[buf]) /\ count' \in Nat
  BY <1>1, ListsAreLists DEF SwapCount
<1>3. dpc # "search"
  BY DEF SwapInv, LockHeld, SwapCount
<1>4. QED
  BY <1>1, <1>2, <1>3, BuffersAssumption DEF SwapInv, SwapTypes, LockHeld, ServedIntact, SearchInside, SwapCount,
     UpdaterPoints, Live, dns, BuffersAssumption

LEMMA GiveAfterSwapKeeps == SwapInv /\ GiveAfterSwap => SwapInv'
BY DEF SwapInv, SwapTypes, LockHeld, ServedIntact, SearchInside, GiveAfterSwap, UpdaterPoints,
       Live, Nobody, dns

\* Here the old buffer goes: it is not the served one, and the search reads no
\* other.
LEMMA FreeOldKeeps == SwapInv /\ FreeOld => SwapInv'
<1> SUFFICES ASSUME SwapInv, FreeOld PROVE SwapInv'
  OBVIOUS
<1>1. /\ heap' = [b \in Buffers |-> heap'[b]]
      /\ \A b \in Buffers : heap'[b] = IF b = old THEN Free ELSE heap[b]
  BY BuffersAssumption DEF SwapInv, SwapTypes, FreeOld, BuffersAssumption
<1>2. hashes # NULL => hashes \in Buffers /\ heap'[hashes] = heap[hashes]
  BY <1>1 DEF SwapInv, SwapTypes, ServedIntact, FreeOld
<1>3. SwapTypes'
  BY <1>1 DEF SwapInv, SwapTypes, FreeOld, UpdaterPoints, dns
<1>4. LockHeld' /\ SearchInside'
  BY DEF SwapInv, LockHeld, SearchInside, FreeOld, dns
<1>5. ServedIntact'
  BY <1>2 DEF SwapInv, ServedIntact, FreeOld, Live
<1>6. QED
  BY <1>3, <1>4, <1>5 DEF SwapInv

-----------------------------------------------------------------------------
(* The steps of a lookup *)

LEMMA QueryKeeps == SwapInv /\ Query => SwapInv'
BY DEF SwapInv, SwapTypes, LockHeld, ServedIntact, SearchInside, Query, UpdaterPoints, Live, updater

LEMMA TakeForLookupKeeps == SwapInv /\ TakeForLookup => SwapInv'
BY SMT DEF SwapInv, SwapTypes, LockHeld, ServedIntact, SearchInside, TakeForLookup, UpdaterPoints,
       Live, Nobody, updater

LEMMA TakeTimesOutKeeps == SwapInv /\ TakeTimesOut => SwapInv'
BY DEF SwapInv, SwapTypes, LockHeld, ServedIntact, SearchInside, TakeTimesOut, Missing,
       UpdaterPoints, Live, updater

LEMMA SearchKeeps == SwapInv /\ Search => SwapInv'
<1> SUFFICES ASSUME SwapInv, Search PROVE SwapInv'
  OBVIOUS
<1>1. Mid \in Nat /\ lo <= Mid /\ Mid < hi
  BY MidInside DEF SwapInv, SwapTypes, Search
<1>2. lo' \in Nat /\ hi' \in Nat /\ hi' <= hi
  BY <1>1, SMT DEF SwapInv, SwapTypes, Search
<1>3. hi' <= count'
  BY <1>2, SMT DEF SwapInv, SwapTypes, SearchInside, Search
<1>4. QED
  BY <1>2, <1>3 DEF SwapInv, SwapTypes, LockHeld, ServedIntact, SearchInside, Search, UpdaterPoints,
     Live, updater

LEMMA GiveAfterLookupKeeps == SwapInv /\ GiveAfterLookup => SwapInv'
BY DEF SwapInv, SwapTypes, LockHeld, ServedIntact, SearchInside, GiveAfterLookup, Found, Missing,
       UpdaterPoints, Live, Nobody, updater

LEMMA StepSwap == SwapInv /\ [Next]_vars => SwapInv'
<1>1. SwapInv /\ UNCHANGED vars => SwapInv'
  BY DEF vars, updater, dns, SwapInv, SwapTypes, LockHeld, ServedIntact, SearchInside, Live,
         UpdaterPoints
<1>2. QED
  BY <1>1, MallocKeeps, ValidateKeeps, RejectKeeps, TakeForSwapKeeps, SwapHashesKeeps, SwapCountKeeps, GiveAfterSwapKeeps,
     FreeOldKeeps, QueryKeeps, TakeForLookupKeeps, TakeTimesOutKeeps, SearchKeeps,
     GiveAfterLookupKeeps DEF Next, Load, Lookup

-----------------------------------------------------------------------------
\* Every read of the search is inside a buffer that is allocated: see
\* ReadsLiveMemory in ListSwap.
THEOREM ReadsLiveMemoryCorrect == Spec => []ReadsLiveMemory
<1>1. SwapInv => ReadsLiveMemory
  <2> SUFFICES ASSUME SwapInv, dpc = "search", lo < hi
               PROVE  hashes \in Live /\ heap[hashes] # Unread /\ Mid < Len(heap[hashes])
    BY DEF ReadsLiveMemory
  <2>1. Mid \in Nat /\ lo <= Mid /\ Mid < hi
    BY MidInside DEF SwapInv, SwapTypes
  <2>2. upc # "count" /\ hi <= count
    BY DEF SwapInv, LockHeld, SearchInside
  <2>3. count > 0
    BY <2>2, SMT DEF SwapInv, SwapTypes
  <2>4. hashes # NULL
    BY <2>2, <2>3, SMT DEF SwapInv, ServedIntact
  <2>5. hashes \in Live /\ heap[hashes] # Unread /\ count = Len(heap[hashes])
    BY <2>2, <2>4, ListsAreLists DEF SwapInv, ServedIntact
  <2>6. QED
    BY <2>1, <2>2, <2>5, SMT DEF SwapInv, SwapTypes
<1>2. QED
  BY <1>1, InitSwap, StepSwap, PTL DEF Spec

-----------------------------------------------------------------------------
\* Every allocated buffer is served, or the one load_slot is about to serve or
\* has just stopped serving.
LiveAccounted ==
    Live = ({hashes} \cup (IF upc \in {"read", "take", "hashes"} THEN {buf} ELSE {})
                     \cup (IF upc \in {"count", "give", "free"} THEN {old} ELSE {})) \ {NULL}

LEMMA StepAccountsLive == SwapInv /\ LiveAccounted /\ [Next]_vars => LiveAccounted'
<1> SUFFICES ASSUME SwapInv, LiveAccounted, [Next]_vars PROVE LiveAccounted'
  OBVIOUS
<1> USE BuffersAssumption DEF BuffersAssumption
<1>1. CASE Malloc
  <2>1. PICK b \in Buffers \ Live : heap' = [heap EXCEPT ![b] = Unread] /\ buf' = b
    BY <1>1 DEF Malloc
  <2>2. Live' = Live \cup {b} /\ b # NULL
    BY <2>1, UnreadIsLive DEF SwapInv, SwapTypes, Live
  <2>3. upc = "idle" /\ upc' = "read" /\ hashes' = hashes
    BY <1>1 DEF Malloc
  <2>4. QED
    BY <2>1, <2>2, <2>3 DEF LiveAccounted
<1>2. CASE FreeOld
  <2>1. \A b \in Buffers : heap'[b] = IF b = old THEN Free ELSE heap[b]
    BY <1>2 DEF SwapInv, SwapTypes, FreeOld
  <2>2. Live' = Live \ {old}
    BY <2>1 DEF Live
  <2>3. upc = "free" /\ upc' = "idle" /\ hashes' = hashes /\ old # hashes
    BY <1>2 DEF FreeOld, SwapInv, ServedIntact
  <2>4. QED
    BY <2>2, <2>3 DEF LiveAccounted
<1>3. CASE TakeForSwap \/ SwapCount \/ GiveAfterSwap
  BY <1>3 DEF TakeForSwap, SwapCount, GiveAfterSwap, LiveAccounted, Live
<1>4. CASE SwapHashes
  BY <1>4 DEF SwapHashes, LiveAccounted, Live
<1>5. CASE Query \/ Lookup \/ UNCHANGED vars
  BY <1>5 DEF Query, Lookup, TakeForLookup, TakeTimesOut, Search, GiveAfterLookup, updater, vars,
     LiveAccounted, Live
<1>6. CASE Validate
  <2>1. PICK l \in Lists : heap' = [heap EXCEPT ![buf] = l]
    BY <1>6 DEF Validate
  <2>2. buf \in Live /\ \A b \in Buffers : heap'[b] = IF b = buf THEN l ELSE heap[b]
    BY <1>6, <2>1, CheckedApart DEF Validate, SwapInv, ServedIntact
  <2>3. Live' = Live
    BY <2>2, ListsAreLists DEF Live
  <2>4. QED
    BY <1>6, <2>3 DEF Validate, LiveAccounted
<1>7. CASE Reject
  <2>1. buf # hashes /\ \A b \in Buffers : heap'[b] = IF b = buf THEN Free ELSE heap[b]
    BY <1>7, CheckedApart DEF Reject
  <2>2. Live' = Live \ {buf}
    BY <2>1 DEF Live
  <2>3. upc = "read" /\ upc' = "idle" /\ hashes' = hashes
    BY <1>7 DEF Reject
  <2>4. QED
    BY <2>1, <2>2, <2>3 DEF LiveAccounted
<1>8. QED
  BY <1>1, <1>2, <1>3, <1>4, <1>5, <1>6, <1>7 DEF Next, Load

\* Two buffers are enough and none is leaked, by a load that fails after its
\* malloc neither: see BuffersBounded in ListSwap.
THEOREM BuffersBoundedCorrect == Spec => []BuffersBounded
<1>1. Init => LiveAccounted
  BY DEF Init, LiveAccounted, Live
<1>2. SwapInv /\ LiveAccounted => BuffersBounded
  <2> SUFFICES ASSUME SwapInv, LiveAccounted PROVE BuffersBounded
    OBVIOUS
  <2>1. upc = "idle" => Live = {hashes} \ {NULL}
    BY DEF LiveAccounted
  <2>2. PICK b : Live \subseteq {hashes, b}
    BY DEF LiveAccounted
  <2>3. IsFiniteSet({hashes, b}) /\ Cardinality({hashes, b}) <= 2
    <3>1. IsFiniteSet({b}) /\ Cardinality({b}) = 1
      BY FS_Singleton
    <3>2. IsFiniteSet({b} \cup {hashes})
          /\ Cardinality({b} \cup {hashes}) = IF hashes \in {b} THEN 1 ELSE 2
      BY <3>1, FS_AddElement, SMT
    <3>3. {b} \cup {hashes} = {hashes, b}
      OBVIOUS
    <3>4. QED
      BY <3>2, <3>3, SMT
  <2>4. Cardinality(Live) <= Cardinality({hashes, b}) /\ Cardinality(Live) \in Nat
        /\ Cardinality({hashes, b}) \in Nat
    BY <2>2, <2>3, FS_Subset, FS_CardinalityType
  <2>5. QED
    BY <2>1, <2>3, <2>4, SMT DEF BuffersBounded
<1>3. QED
  BY <1>1, <1>2, InitSwap, StepSwap, StepAccountsLive, PTL DEF Spec

-----------------------------------------------------------------------------
(* The verdict *)

\* Which lists the query has met, and where its suffixes stand.
QueryTypes ==
    /\ IsFiniteSet(seen) /\ missed \in BOOLEAN /\ k \in Nat
    /\ verdict \in {"none", "blocked", "pass"}
    /\ dpc # "idle" =>
          /\ name \in Names /\ k \in 1..Len(name) /\ verdict = "none"
          /\ k = 1 \/ Len(name) - k + 1 >= 2
          /\ Served \in seen

\* The suffixes looked up so far were each missing from a list that was served.
PassedOver ==
    dpc # "idle" /\ ~missed =>
        \A i \in 1..k-1 : \E l \in seen : SuffixHash(name, i) \notin Range(l)

\* What the search has excluded: smaller hashes below lo, larger ones from hi on.
Narrowed ==
    dpc = "search" =>
        \A j \in 1..count : /\ j <= lo => heap[hashes][j] < SuffixHash(name, k)
                            /\ j > hi => heap[hashes][j] > SuffixHash(name, k)

VerdictInv == QueryTypes /\ PassedOver /\ Narrowed /\ VerdictJustified

LEMMA NamesAreNames ==
    ASSUME NEW nm \in Names
    PROVE  /\ Len(nm) \in Nat /\ Len(nm) >= 1
           /\ \A i \in 1..Len(nm) : SuffixHash(nm, i) \in Nat
BY NamesAssumption DEF NamesAssumption, SuffixHash

\* While the search runs, what it reads is the served list, whole.
LEMMA SearchesServed ==
    ASSUME SwapInv, dpc = "search"
    PROVE  /\ hashes = NULL => count = 0 /\ Served = <<>>
           /\ hashes # NULL => Served = heap[hashes] /\ Served \in Lists /\ count = Len(Served)
           /\ DOMAIN Served = 1..count
<1>1. upc # "count"
  BY DEF SwapInv, LockHeld
<1>2. hashes = NULL => count = 0 /\ Served = <<>>
  BY <1>1 DEF SwapInv, ServedIntact, Served
<1>3. hashes # NULL => Served = heap[hashes] /\ Served \in Lists /\ count = Len(Served)
  BY <1>1 DEF SwapInv, SwapTypes, ServedIntact, Served, Live
<1>4. DOMAIN Served = 1..count
  BY <1>2, <1>3, ListsAreLists
<1>5. QED
  BY <1>2, <1>3, <1>4

\* An empty interval excludes every position.
LEMMA EmptyIntervalMisses ==
    ASSUME SwapInv, VerdictInv, dpc = "search", lo >= hi
    PROVE  SuffixHash(name, k) \notin Range(Served)
<1>. SUFFICES ASSUME NEW j \in 1..count PROVE Served[j] # SuffixHash(name, k)
  BY SearchesServed DEF Range
<1>1. hashes # NULL /\ Served = heap[hashes] /\ Served \in Seq(Nat) /\ j \in 1..Len(Served)
  BY SearchesServed, ListsAreLists DEF SwapInv, SwapTypes
<1>2. Served[j] \in Nat /\ SuffixHash(name, k) \in Nat
  BY <1>1, NamesAreNames DEF VerdictInv, QueryTypes
<1>3. j <= lo \/ j > hi
  BY DEF SwapInv, SwapTypes
<1>4. QED
  BY <1>1, <1>2, <1>3 DEF VerdictInv, Narrowed

\* A hit is in the list that is served.
LEMMA HitIsListed ==
    ASSUME SwapInv, VerdictInv, dpc = "search", Hit
    PROVE  SuffixHash(name, k) \in Range(Served) /\ Blocks(Served, name)
<1>1. Mid \in Nat /\ Mid < hi /\ hi <= count
  BY MidInside DEF SwapInv, SwapTypes, SearchInside, Hit
<1>2. Mid + 1 \in 1..count
  BY <1>1 DEF SwapInv, SwapTypes
<1>3. hashes # NULL /\ Served = heap[hashes]
  BY <1>2, SearchesServed
<1>4. SuffixHash(name, k) \in Range(Served)
  BY <1>2, <1>3, SearchesServed DEF Range, Hit
<1>5. k \in 1..Len(name) /\ (k = 1 \/ Len(name) - k + 1 >= 2)
  BY DEF VerdictInv, QueryTypes
<1>6. QED
  BY <1>4, <1>5 DEF Blocks

\* When the lookup of a suffix is over without a hit, the query goes on with the
\* next one or ends; a verdict is due only if the lock was never missed.
LEMMA MissingKeeps ==
    ASSUME SwapInv, VerdictInv, dpc # "idle", Missing,
           UNCHANGED <<hashes, heap, seen, name>>, missed' \in BOOLEAN,
           ~missed' => ~missed /\ \E l \in seen : SuffixHash(name, k) \notin Range(l)
    PROVE  VerdictInv'
<1>1. name \in Names /\ Len(name) \in Nat /\ k \in 1..Len(name) /\ Served' = Served
  BY NamesAreNames DEF VerdictInv, QueryTypes, Served
<1>2. ~missed' => \A i \in 1..k : \E l \in seen : SuffixHash(name, i) \notin Range(l)
  <2>1. \A i \in 1..k : i \in 1..k-1 \/ i = k
    BY <1>1
  <2>2. QED
    BY <2>1 DEF VerdictInv, PassedOver
<1>3. CASE LastSuffix(name, k)
  <2>1. dpc' = "idle" /\ verdict' = "pass" /\ k' = k /\ Len(name) - k + 1 <= 2
    BY <1>3 DEF Missing, LastSuffix
  <2>2. ASSUME ~missed', Cardinality(seen) = 1
        PROVE  \E l \in seen : ~Blocks(l, name)
    <3>1. PICK l : seen = {l}
      BY <2>2, FS_Singleton DEF VerdictInv, QueryTypes
    <3>2. \A i \in 1..k : SuffixHash(name, i) \notin Range(l)
      BY <1>2, <2>2, <3>1
    <3>3. ASSUME NEW i \in 1..Len(name), i = 1 \/ Len(name) - i + 1 >= 2
          PROVE  i \in 1..k
      BY <1>1, <2>1, <3>3
    <3>4. QED
      BY <3>1, <3>2, <3>3 DEF Blocks
  <2>3. VerdictJustified'
    BY <2>1, <2>2 DEF VerdictJustified, Blocks, SuffixHash
  <2>4. QED
    BY <2>1, <2>3 DEF VerdictInv, QueryTypes, PassedOver, Narrowed
<1>4. CASE ~LastSuffix(name, k)
  <2>1. dpc' = "take" /\ verdict' = verdict /\ k' = k + 1 /\ Len(name) - k + 1 > 2
    BY <1>1, <1>4 DEF Missing, LastSuffix
  <2>2. k' \in 1..Len(name) /\ Len(name) - k' + 1 >= 2 /\ k' - 1 = k
    BY <1>1, <2>1
  <2>3. QueryTypes'
    BY <1>1, <2>1, <2>2 DEF VerdictInv, QueryTypes
  <2>4. PassedOver' /\ Narrowed' /\ VerdictJustified'
    BY <1>2, <2>1, <2>2 DEF PassedOver, Narrowed, VerdictJustified, SuffixHash
  <2>5. QED
    BY <2>3, <2>4 DEF VerdictInv
<1>5. QED
  BY <1>3, <1>4

LEMMA GiveAfterLookupJustified == SwapInv /\ VerdictInv /\ GiveAfterLookup => VerdictInv'
<1> SUFFICES ASSUME SwapInv, VerdictInv, GiveAfterLookup PROVE VerdictInv'
  OBVIOUS
<1>1. dpc = "search" /\ UNCHANGED <<hashes, heap, seen, name, missed>> /\ Served \in seen
  BY DEF GiveAfterLookup, history, VerdictInv, QueryTypes
<1>2. CASE Hit
  <2>1. dpc' = "idle" /\ verdict' = "blocked" /\ k' = k
    BY <1>2 DEF GiveAfterLookup, Found
  <2>2. \E l \in seen : Blocks(l, name)
    BY <1>1, <1>2, HitIsListed
  <2>3. QED
    BY <1>1, <2>1, <2>2 DEF VerdictInv, QueryTypes, PassedOver, Narrowed, VerdictJustified, Blocks, SuffixHash
<1>3. CASE ~Hit
  <2>1. Missing /\ lo >= hi
    BY <1>3 DEF GiveAfterLookup
  <2>2. SuffixHash(name, k) \notin Range(Served)
    BY <1>1, <2>1, EmptyIntervalMisses
  <2>3. QED
    BY <1>1, <2>1, <2>2, MissingKeeps DEF VerdictInv, QueryTypes
<1>4. QED
  BY <1>2, <1>3

LEMMA TakeTimesOutJustified == SwapInv /\ VerdictInv /\ TakeTimesOut => VerdictInv'
BY MissingKeeps DEF TakeTimesOut

\* A list is ascending: one comparison excludes everything on its side of Mid.
LEMMA SearchJustified == SwapInv /\ VerdictInv /\ Search => VerdictInv'
<1> SUFFICES ASSUME SwapInv, VerdictInv, Search PROVE VerdictInv'
  OBVIOUS
<1>. DEFINE h == SuffixHash(name, k)
<1>1. /\ dpc = "search" /\ lo < hi /\ lo \in Nat /\ hi \in Nat /\ hi <= count /\ count \in Nat
      /\ UNCHANGED <<heap, hashes, count, name, k, dpc, verdict, seen, missed>>
  BY DEF Search, SwapInv, SwapTypes, SearchInside, history
<1>2. Mid \in Nat /\ lo <= Mid /\ Mid < hi /\ Mid + 1 \in 1..count
  BY <1>1, MidInside
<1>3. hashes # NULL /\ heap[hashes] \in Lists /\ count = Len(heap[hashes])
  BY <1>1, <1>2, SearchesServed
<1>4. \A i, j \in 1..count : /\ heap[hashes][i] \in Nat
                             /\ i < j => heap[hashes][i] < heap[hashes][j]
  BY <1>3, ListsAssumption DEF ListsAssumption
<1>5. h \in Nat
  BY <1>1, NamesAreNames DEF VerdictInv, QueryTypes
<1>6. Narrowed'
  <2>. SUFFICES ASSUME NEW j \in 1..count
       PROVE  /\ j <= lo' => heap[hashes][j] < h
              /\ j > hi' => heap[hashes][j] > h
    BY <1>1 DEF Narrowed, SuffixHash
  <2>1. /\ j <= lo => heap[hashes][j] < h
        /\ j > hi => heap[hashes][j] > h
    BY <1>1 DEF VerdictInv, Narrowed
  <2>2. heap[hashes][j] \in Nat /\ heap[hashes][Mid + 1] \in Nat /\ heap[hashes][Mid + 1] # h
    BY <1>2, <1>4 DEF Search
  <2>3. CASE heap[hashes][Mid + 1] < h
    <3>1. lo' = Mid + 1 /\ hi' = hi
      BY <2>3 DEF Search
    <3>2. j < Mid + 1 => heap[hashes][j] < heap[hashes][Mid + 1]
      BY <1>2, <1>4
    <3>3. j <= Mid + 1 => heap[hashes][j] < h
      BY <1>2, <1>5, <2>2, <2>3, <3>2
    <3>4. QED
      BY <2>1, <3>1, <3>3
  <2>4. CASE ~(heap[hashes][Mid + 1] < h)
    <3>1. lo' = lo /\ hi' = Mid
      BY <2>4 DEF Search
    <3>2. j > Mid + 1 => heap[hashes][j] > heap[hashes][Mid + 1]
      BY <1>2, <1>4
    <3>3. j > Mid => heap[hashes][j] > h
      BY <1>2, <1>5, <2>2, <2>4, <3>2
    <3>4. QED
      BY <2>1, <3>1, <3>3
  <2>5. QED
    BY <2>3, <2>4
<1>7. QueryTypes' /\ PassedOver' /\ VerdictJustified'
  BY <1>1 DEF VerdictInv, QueryTypes, PassedOver, VerdictJustified, Blocks, SuffixHash, Served
<1>8. QED
  BY <1>6, <1>7 DEF VerdictInv

\* Nothing is excluded when a search begins.
LEMMA TakeForLookupJustified == SwapInv /\ VerdictInv /\ TakeForLookup => VerdictInv'
<1> SUFFICES ASSUME SwapInv, VerdictInv, TakeForLookup PROVE VerdictInv'
  OBVIOUS
<1>1. /\ dpc = "take" /\ dpc' = "search" /\ lo' = 0 /\ hi' = count
      /\ UNCHANGED <<heap, hashes, count, name, k, verdict, seen, missed>>
  BY DEF TakeForLookup, history
<1>2. QueryTypes' /\ PassedOver' /\ VerdictJustified'
  BY <1>1 DEF VerdictInv, QueryTypes, PassedOver, VerdictJustified, Blocks, SuffixHash, Served
<1>3. Narrowed'
  BY <1>1 DEF Narrowed, SwapInv, SwapTypes
<1>4. QED
  BY <1>2, <1>3 DEF VerdictInv

LEMMA QueryJustified == SwapInv /\ VerdictInv /\ Query => VerdictInv'
<1> SUFFICES ASSUME SwapInv, VerdictInv, Query PROVE VerdictInv'
  OBVIOUS
<1>1. /\ name' \in Names /\ k' = 1 /\ verdict' = "none" /\ dpc' = "take"
      /\ seen' = {Served} /\ missed' = FALSE /\ Served' = Served
  BY DEF Query, Served
<1>2. Len(name') \in Nat /\ Len(name') >= 1
  BY <1>1, NamesAreNames
<1>3. IsFiniteSet({Served})
  BY FS_Singleton
<1>4. QueryTypes'
  <2>1. IsFiniteSet(seen')
    BY <1>1, <1>3, Zenon
  <2>2. k' \in 1..Len(name') /\ k' = 1
    BY <1>1, <1>2
  <2>3. Served' \in seen'
    BY <1>1
  <2>4. missed' \in BOOLEAN
    BY <1>1
  <2>5. QED
    BY <1>1, <2>1, <2>2, <2>3, <2>4 DEF QueryTypes
<1>5. PassedOver' /\ Narrowed' /\ VerdictJustified'
  BY <1>1 DEF PassedOver, Narrowed, VerdictJustified
<1>6. QED
  BY <1>4, <1>5 DEF VerdictInv

\* A swap in the middle of a query adds the new list to those it has met.
LEMMA LoadJustified == SwapInv /\ VerdictInv /\ Load => VerdictInv'
<1> SUFFICES ASSUME SwapInv, VerdictInv, Load PROVE VerdictInv'
  OBVIOUS
<1> USE BuffersAssumption DEF BuffersAssumption
<1>1. CASE SwapHashes
  <2>1. /\ hashes' = buf /\ buf # NULL /\ heap' = heap /\ dpc # "search"
        /\ seen' = IF dpc = "idle" THEN seen ELSE seen \cup {heap[buf]}
        /\ UNCHANGED <<dpc, name, k, verdict, missed>>
    BY <1>1 DEF SwapHashes, SwapInv, ServedIntact, Live, LockHeld, Nobody, dns
  <2>2. Served' = heap[buf]
    BY <2>1 DEF Served
  <2>3. IsFiniteSet(seen) /\ IsFiniteSet(seen \cup {heap[buf]})
    BY FS_AddElement DEF VerdictInv, QueryTypes
  <2>4. QueryTypes'
    BY <2>1, <2>2, <2>3 DEF VerdictInv, QueryTypes
  <2>5. PassedOver' /\ Narrowed' /\ VerdictJustified'
    BY <2>1 DEF VerdictInv, PassedOver, Narrowed, VerdictJustified, Blocks, SuffixHash
  <2>6. QED
    BY <2>4, <2>5 DEF VerdictInv
<1>2. CASE Malloc \/ Validate \/ Reject \/ TakeForSwap \/ SwapCount \/ GiveAfterSwap \/ FreeOld
  <2>1. UNCHANGED <<dpc, name, k, lo, hi, verdict, seen, missed, hashes>>
    BY <1>2 DEF Malloc, Validate, Reject, TakeForSwap, SwapCount, GiveAfterSwap, FreeOld, dns, history
  <2>2. hashes # NULL => heap'[hashes] = heap[hashes]
    <3>1. CASE Malloc
      BY <3>1 DEF Malloc, SwapInv, SwapTypes, ServedIntact, Live
    <3>2. CASE FreeOld
      BY <3>2 DEF FreeOld, SwapInv, SwapTypes, ServedIntact
    <3>3. CASE TakeForSwap \/ SwapCount \/ GiveAfterSwap
      BY <3>3 DEF TakeForSwap, SwapCount, GiveAfterSwap
    <3>4. CASE Validate \/ Reject
      BY <3>4, CheckedApart DEF Validate, Reject
    <3>5. QED
      BY <1>2, <3>1, <3>2, <3>3, <3>4
  <2>3. Served' = Served
    BY <2>1, <2>2 DEF Served
  <2>4. dpc = "search" => count' = count
    BY <1>2 DEF Malloc, Validate, Reject, TakeForSwap, SwapCount, GiveAfterSwap, FreeOld, SwapInv,
       LockHeld
  <2>5. Narrowed'
    <3>1. dpc = "search" /\ hashes = NULL => count = 0
      BY SearchesServed
    <3>2. QED
      BY <2>1, <2>2, <2>4, <3>1 DEF VerdictInv, Narrowed, SuffixHash
  <2>6. QueryTypes' /\ PassedOver' /\ VerdictJustified'
    BY <2>1, <2>3 DEF VerdictInv, QueryTypes, PassedOver, VerdictJustified, Blocks, SuffixHash
  <2>7. QED
    BY <2>5, <2>6 DEF VerdictInv
<1>3. QED
  BY <1>1, <1>2 DEF Load

LEMMA InitJustified == Init => VerdictInv
<1> SUFFICES ASSUME Init PROVE VerdictInv
  OBVIOUS
<1>1. IsFiniteSet(seen)
  BY FS_EmptySet DEF Init
<1>2. QED
  BY <1>1 DEF Init, VerdictInv, QueryTypes, PassedOver, Narrowed, VerdictJustified

LEMMA StepJustified == SwapInv /\ VerdictInv /\ [Next]_vars => VerdictInv'
<1>1. SwapInv /\ VerdictInv /\ UNCHANGED vars => VerdictInv'
  BY DEF vars, dns, history, VerdictInv, QueryTypes, PassedOver, Narrowed, VerdictJustified,
         Blocks, SuffixHash, Served
<1>2. QED
  BY <1>1, LoadJustified, QueryJustified, TakeForLookupJustified, TakeTimesOutJustified,
     SearchJustified, GiveAfterLookupJustified DEF Next, Lookup

\* The verdict of a query is that of a list which was served while it ran, for all
\* lists, names and hash functions: the search finds what is listed and nothing
\* else, and no swap between two suffixes makes up a block.
THEOREM VerdictJustifiedCorrect == Spec => []VerdictJustified
<1>1. VerdictInv => VerdictJustified
  BY DEF VerdictInv
<1>2. QED
  BY <1>1, InitSwap, StepSwap, InitJustified, StepJustified, PTL DEF Spec

\* The types of both tasks' variables.
THEOREM TypeCorrect == Spec => []TypeOK
<1>1. SwapInv /\ VerdictInv => TypeOK
  BY DEF SwapInv, SwapTypes, VerdictInv, QueryTypes, TypeOK, UpdaterPoints
<1>2. QED
  BY <1>1, InitSwap, StepSwap, InitJustified, StepJustified, PTL DEF Spec
=============================================================================
