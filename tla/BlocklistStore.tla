--------------------------- MODULE BlocklistStore ---------------------------
(***************************************************************************)
(* The sinkhole's dual-slot blocklist storage, main/blocklist.c: two flash *)
(* data partitions (blk_a, blk_b), the metadata of each slot and the       *)
(* active-slot record in NVS, and the copy in PSRAM that is being served.  *)
(* blocklist_init and blocklist_commit_slot run one NVS or flash operation *)
(* per step, so that power can be cut between any two of them; the caller  *)
(* is any program that writes only to blocklist_inactive_slot().           *)
(* The lock around the pointer swap, and lookups, are ListSwap's business. *)
(***************************************************************************)
EXTENDS Integers, Sequences

CONSTANTS
    MinDomains,  \* BLOCKLIST_MIN_DOMAINS
    SlotWords,   \* size of a data partition, in 64-bit hashes
    SizeMod,     \* how many hashes have a size of 2^32 bytes, where size_t wraps
    Images,      \* what a caller (or a corruption) may leave in a partition
    Requests,    \* (count, sha256, version) triples a caller may commit
    Sha256(_),   \* the digest of a sequence of hashes
    NoVersion,   \* the empty version string
    Absent,      \* an NVS key that is not there
    Faults       \* what may fail: "nvs", "load", "corrupt", "nvserase"; "reorder":
                 \* NVS need not write its entries in the order they are set in

ASSUME SizesAssumption ==
    /\ MinDomains \in Nat \ {0}
    /\ SlotWords \in Nat /\ SizeMod \in Nat /\ SlotWords < SizeMod
    /\ Images \subseteq [1..SlotWords -> Nat]

ASSUME RequestsAssumption ==
    \A r \in Requests : r = [cnt |-> r.cnt, sha |-> r.sha, ver |-> r.ver] /\ r.cnt \in Nat

VARIABLES
    flash,     \* the contents of the two partitions
    nvs,       \* the NVS entries as the open handle reads them
    nvsFlash,  \* the entries an nvs_commit has made durable
    served,    \* s_hashes and s_count: the list lookups use, <<>> if none
    active,    \* s_active
    version,   \* s_version
    pc,        \* the next step of blocklist_init or blocklist_commit_slot
    arg,       \* the arguments of the running blocklist_commit_slot
    intact     \* history: nothing has corrupted a partition or erased NVS

ram == <<served, active, version>>
vars == <<flash, nvs, nvsFlash, served, active, version, pc, arg, intact>>

Slots == {0, 1}
NoSlot == -1
NoArg == [slot |-> NoSlot, cnt |-> 0, sha |-> Absent, ver |-> NoVersion]

Active == <<"active", 0>>
Meta(s) == {<<"cnt", s>>, <<"sha", s>>, <<"ver", s>>}
Keys == {Active} \cup Meta(0) \cup Meta(1)

\* The entries of a slot that blocklist_commit_slot sets before one of that slot.
Before == [active |-> {}, cnt |-> {}, sha |-> {"cnt"}, ver |-> {"cnt", "sha"}]
InOrder(kept, all) ==
    \A k \in kept : {j \in all : j[2] = k[2] /\ j[1] \in Before[k[1]]} \subseteq kept

\* What an interrupted power supply may leave of the entries set since the last
\* nvs_commit.  The API promises nothing: any of them, in any combination.  When NVS
\* writes them one by one and no call fails, an entry is there only if those set
\* before it in the same commit are.
Survivors ==
    LET unsynced == {k \in Keys : nvs[k] # nvsFlash[k]}
    IN  {[k \in Keys |-> IF k \in kept THEN nvs[k] ELSE nvsFlash[k]] :
            kept \in {K \in SUBSET unsynced :
                        Faults \cap {"nvs", "reorder"} = {} => InOrder(K, unsynced)}}

-----------------------------------------------------------------------------
(* load_slot *)

\* The first n hashes of a partition.
Prefix(img, n) == [i \in 1..n |-> img[i]]

Ascending(list) == \A i \in 2..Len(list) : list[i-1] < list[i]

\* The size of n hashes, itself counted in hashes: n * 8 in a 32-bit size_t.
Words(n) == n % SizeMod

Mut_OrderedFor(buf, n) == Ascending(buf)
\* The check that runs over n hashes.  Behind the buffer it reads what happens to
\* be there, in which it finds a descent, or it faults, which is a Crash.
OrderedFor(buf, n) == n <= Len(buf) /\ Ascending(buf)

Mut_LoadableIn(v, s) ==
    LET cnt == v[<<"cnt", s>>]
        buf == Prefix(flash[s], Words(cnt))
    IN  /\ cnt # Absent /\ cnt >= MinDomains /\ Words(cnt) <= SlotWords
        /\ v[<<"sha", s>>] # Absent
        /\ OrderedFor(buf, cnt)

\* Every check load_slot makes before it swaps the slot in, on the NVS view v.
LoadableIn(v, s) ==
    LET cnt == v[<<"cnt", s>>]
        buf == Prefix(flash[s], Words(cnt))
    IN  /\ cnt # Absent /\ cnt >= MinDomains /\ Words(cnt) <= SlotWords
        /\ v[<<"sha", s>>] # Absent /\ v[<<"sha", s>>] = Sha256(buf)
        /\ OrderedFor(buf, cnt)

Loadable(s) == LoadableIn(nvs, s)

\* load_slot also fails when PSRAM is short or the partition cannot be read.
LoadMayFail(s) == ~Loadable(s) \/ "load" \in Faults

\* s_count hashes from s_hashes on; 0 stands for what may be behind the buffer.
List(s, n) == [i \in 1..n |-> IF i <= Words(n) THEN flash[s][i] ELSE 0]

\* The swap at the end of load_slot; a missing version reads as "".
SwapIn(s) ==
    /\ served' = List(s, nvs[<<"cnt", s>>])
    /\ active' = s
    /\ version' = IF nvs[<<"ver", s>>] = Absent THEN NoVersion ELSE nvs[<<"ver", s>>]

-----------------------------------------------------------------------------
(* blocklist_init, called once per boot by app_main *)

\* app_main erases NVS when nvs_flash_init reports no free pages or a newer
\* version; the erasure is durable before blocklist_init runs.
BootEraseNvs ==
    /\ pc = "boot" /\ "nvserase" \in Faults
    /\ nvs' = [k \in Keys |-> Absent]
    /\ nvsFlash' = nvs'
    /\ intact' = FALSE
    /\ UNCHANGED <<flash, ram, pc, arg>>

InitActive ==
    /\ pc = "boot"
    /\ \/ /\ nvs[Active] \in Slots /\ Loadable(nvs[Active])
          /\ SwapIn(nvs[Active])
          /\ pc' = "ready"
       \/ /\ nvs[Active] \in Slots => LoadMayFail(nvs[Active])
          /\ pc' = "fallback"
          /\ UNCHANGED ram
    /\ UNCHANGED <<flash, nvs, nvsFlash, arg, intact>>

\* The loop over the slots the record did not name, lowest first.
InitFallback ==
    /\ pc = "fallback"
    /\ LET others == Slots \ {nvs[Active]}
       IN  \/ \E s \in others :
                 /\ Loadable(s)
                 /\ \A t \in others : t < s => LoadMayFail(t)
                 /\ SwapIn(s)
                 /\ pc' = "record"
           \/ /\ \A s \in others : LoadMayFail(s)
              /\ pc' = "ready"
              /\ UNCHANGED ram
    /\ UNCHANGED <<flash, nvs, nvsFlash, arg, intact>>

\* nvs_set_u8(s_nvs, "active", slot), whose result both callers ignore.
SetActive(s) ==
    \/ nvs' = [nvs EXCEPT ![Active] = s]
    \/ "nvs" \in Faults /\ nvs' = nvs

RecordFallback ==
    /\ pc = "record"
    /\ SetActive(active)
    /\ pc' = "recordsync"
    /\ UNCHANGED <<flash, nvsFlash, ram, arg, intact>>

\* The nvs_commit after it: its result is ignored too.
RecordFallbackSync ==
    /\ pc = "recordsync"
    /\ \/ nvsFlash' = nvs
       \/ "nvs" \in Faults /\ nvsFlash' = nvsFlash
    /\ pc' = "ready"
    /\ UNCHANGED <<flash, nvs, ram, arg, intact>>

-----------------------------------------------------------------------------
(* The caller's side: blocklist_inactive_slot and writes to its partition *)

Mut_InactiveSlot == IF active = 0 THEN 0 ELSE 1
InactiveSlot == IF active = 0 THEN 1 ELSE 0

WriteInactive ==
    /\ pc = "ready"
    /\ \E img \in Images : flash' = [flash EXCEPT ![InactiveSlot] = img]
    /\ UNCHANGED <<nvs, nvsFlash, ram, pc, arg, intact>>

-----------------------------------------------------------------------------
(* blocklist_commit_slot *)

Mut_ValidTarget(s) == s # active
ValidTarget(s) == s >= 0 /\ s < 2 /\ s # active

CommitBegin(s, r) ==
    /\ pc = "ready"
    /\ IF ValidTarget(s)
       THEN /\ arg' = [slot |-> s, cnt |-> r.cnt, sha |-> r.sha, ver |-> r.ver]
            /\ pc' = "cnt"
       ELSE UNCHANGED <<arg, pc>>
    /\ UNCHANGED <<flash, nvs, nvsFlash, ram, intact>>

CommitFails(may) ==
    /\ may
    /\ pc' = "ready" /\ arg' = NoArg
    /\ UNCHANGED <<flash, nvs, nvsFlash, ram, intact>>

MetaStep == [cnt |-> "sha", sha |-> "ver", ver |-> "sync"]

\* nvs_set of cnt_N, then sha_N, then ver_N; the first failure returns.
SetMeta ==
    /\ pc \in DOMAIN MetaStep
    /\ \/ /\ nvs' = [nvs EXCEPT ![<<pc, arg.slot>>] = arg[pc]]
          /\ pc' = MetaStep[pc]
          /\ UNCHANGED <<flash, nvsFlash, ram, arg, intact>>
       \/ CommitFails("nvs" \in Faults)

Mut_SyncMeta ==
    /\ pc = "sync"
    /\ pc' = "load"
    /\ UNCHANGED <<flash, nvs, nvsFlash, ram, arg, intact>>

SyncMeta ==
    /\ pc = "sync"
    /\ \/ /\ nvsFlash' = nvs
          /\ pc' = "load"
          /\ UNCHANGED <<flash, nvs, ram, arg, intact>>
       \/ CommitFails("nvs" \in Faults)

Mut_LoadCommitted ==
    /\ pc = "load"
    /\ \/ /\ Loadable(arg.slot)
          /\ SwapIn(arg.slot)
       \/ /\ LoadMayFail(arg.slot)
          /\ UNCHANGED ram
    /\ pc' = "flip"
    /\ UNCHANGED <<flash, nvs, nvsFlash, arg, intact>>

LoadCommitted ==
    /\ pc = "load"
    /\ \/ /\ Loadable(arg.slot)
          /\ SwapIn(arg.slot)
          /\ pc' = "flip"
          /\ UNCHANGED <<flash, nvs, nvsFlash, arg, intact>>
       \/ CommitFails(LoadMayFail(arg.slot))

Flip ==
    /\ pc = "flip"
    /\ SetActive(arg.slot)
    /\ pc' = "flipsync"
    /\ UNCHANGED <<flash, nvsFlash, ram, arg, intact>>

FlipSync ==
    /\ pc = "flipsync"
    /\ \/ /\ nvsFlash' = nvs
          /\ pc' = "ready" /\ arg' = NoArg
          /\ UNCHANGED <<flash, nvs, ram, intact>>
       \/ CommitFails("nvs" \in Faults)

-----------------------------------------------------------------------------
(* The environment *)

Corrupt ==
    /\ "corrupt" \in Faults
    /\ \E s \in Slots, img \in Images : flash' = [flash EXCEPT ![s] = img]
    /\ intact' = FALSE
    /\ UNCHANGED <<nvs, nvsFlash, ram, pc, arg>>

\* Power is cut or the watchdog resets the device: the RAM is gone.
Crash ==
    /\ nvs' \in Survivors
    /\ nvsFlash' = nvs'
    /\ served' = <<>> /\ active' = NoSlot /\ version' = NoVersion
    /\ pc' = "boot" /\ arg' = NoArg
    /\ UNCHANGED <<flash, intact>>

-----------------------------------------------------------------------------
\* A device that has never been updated: nothing in NVS, any partition contents.
Init ==
    /\ flash \in [Slots -> Images]
    /\ nvs = [k \in Keys |-> Absent]
    /\ nvsFlash = nvs
    /\ served = <<>> /\ active = NoSlot /\ version = NoVersion
    /\ pc = "boot" /\ arg = NoArg
    /\ intact = TRUE

\* The steps of blocklist.c itself and of its environment, without its caller.
StoreStep ==
    \/ InitActive \/ InitFallback \/ RecordFallback \/ RecordFallbackSync
    \/ SetMeta \/ SyncMeta \/ LoadCommitted \/ Flip \/ FlipSync
    \/ BootEraseNvs \/ Corrupt

Next ==
    \/ StoreStep \/ Crash
    \/ WriteInactive
    \/ \E s \in -1..2, r \in Requests : CommitBegin(s, r)

Spec == Init /\ [][Next]_vars

-----------------------------------------------------------------------------
(* Properties *)

InitSteps == {"boot", "fallback", "record", "recordsync"}
CommitSteps == {"cnt", "sha", "ver", "sync", "load", "flip", "flipsync"}

Digests == {r.sha : r \in Requests}
Labels == {r.ver : r \in Requests}

\* What each NVS key may hold.
NvsTypeOK(v) ==
    /\ v = [k \in Keys |-> v[k]]
    /\ v[Active] \in Slots \cup {Absent}
    /\ \A s \in Slots :
          /\ v[<<"cnt", s>>] \in {r.cnt : r \in Requests} \cup {Absent}
          /\ v[<<"sha", s>>] \in Digests \cup {Absent}
          /\ v[<<"ver", s>>] \in Labels \cup {Absent}

\* The type invariant; the NVS entries hold only what callers passed, a running
\* commit has a slot of its own.
TypeOK ==
    /\ flash \in [Slots -> Images]
    /\ NvsTypeOK(nvs) /\ NvsTypeOK(nvsFlash)
    /\ served \in Seq(Nat)
    /\ active \in Slots \cup {NoSlot}
    /\ version \in Labels \cup {NoVersion}
    /\ pc \in InitSteps \cup CommitSteps \cup {"ready"}
    /\ pc \in {"record", "recordsync"} => active \in Slots
    /\ intact \in BOOLEAN
    /\ IF pc \in CommitSteps
       THEN /\ arg = [slot |-> arg.slot, cnt |-> arg.cnt, sha |-> arg.sha, ver |-> arg.ver]
            /\ arg.slot \in Slots
            /\ [cnt |-> arg.cnt, sha |-> arg.sha, ver |-> arg.ver] \in Requests
       ELSE arg = NoArg

\* Whatever fails, and even when a partition is corrupted at any moment, a list
\* that is served is strictly ascending, not below the floor and has a digest
\* some caller announced ("a corrupted flash slot can never be served").
ServedSound ==
    served # <<>> =>
        /\ Ascending(served)
        /\ Len(served) \in MinDomains..SlotWords
        /\ Sha256(served) \in Digests

\* The slot blocklist_init would serve from the NVS view v, NoSlot if none.
BootSlot(v) ==
    IF v[Active] \in Slots /\ LoadableIn(v, v[Active]) THEN v[Active]
    ELSE IF v[Active] # 0 /\ LoadableIn(v, 0) THEN 0
    ELSE IF v[Active] # 1 /\ LoadableIn(v, 1) THEN 1
    ELSE NoSlot

BootList(v) == IF BootSlot(v) = NoSlot THEN <<>>
               ELSE List(BootSlot(v), v[<<"cnt", BootSlot(v)>>])

\* The lists the next boot may come up with if the power goes now.
Candidates == {BootList(v) : v \in Survivors}

\* While a list is served, a power cut at any point of an update, after any
\* failure of NVS or of an earlier load, leaves a list that boots - as long as
\* flash and NVS hold what was written to them.
PowerCutSafe == intact /\ served # <<>> => <<>> \notin Candidates

\* Why that is so, as an invariant that is inductive while intact holds: the slot
\* being served passes every check and its metadata is durable; only an idle slot
\* is written; metadata is durable before a slot is loaded; an undurable record
\* names the served slot.
PowerCutInv ==
    /\ served # <<>> <=> active \in Slots
    /\ active \in Slots =>
          LoadableIn(nvs, active) /\ \A k \in Meta(active) : nvs[k] = nvsFlash[k]
    /\ pc \in {"boot", "fallback"} => nvs = nvsFlash /\ active = NoSlot
    /\ pc \in {"cnt", "sha", "ver", "sync", "load"} => arg.slot # active
    /\ pc = "load" => nvs = nvsFlash
    /\ pc \in {"flip", "flipsync"} => arg.slot = active
    /\ nvs[Active] # nvsFlash[Active] => active \in Slots /\ nvs[Active] = active

\* blocklist.h: "and only then mark the slot active in NVS": the durable record
\* only ever changes to a slot that passes validation at that moment.
RecordNamesLoadable ==
    [][intact' /\ nvsFlash'[Active] # nvsFlash[Active]
          => nvsFlash'[Active] \in Slots /\ LoadableIn(nvsFlash, nvsFlash'[Active])]_vars

\* The list the next boot serves is the last one made durable, or the one being
\* made durable (the abstract promise, DurableList).
StoredLists ==
    {Prefix(img, r.cnt) : img \in Images, r \in {q \in Requests : q.cnt \in 1..SlotWords}}

Durable == INSTANCE DurableList WITH
    Lists <- StoredLists,
    up <- pc \notin {"boot", "fallback"},
    durable <- Candidates

ImplementsDurableList == Durable!Spec
=============================================================================
