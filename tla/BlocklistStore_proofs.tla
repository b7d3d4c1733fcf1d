------------------------ MODULE BlocklistStore_proofs ------------------------
(* Theorems about BlocklistStore, for every partition size, floor, request,  *)
(* partition contents, digest function and set of faults.                    *)
EXTENDS BlocklistStore, TLAPS

(* What is loaded is a sequence of hashes of the recorded length. *)
LEMMA PrefixOfSlot ==
    ASSUME TypeOK, NEW s \in Slots, NEW n \in 0..SlotWords
    PROVE  /\ Prefix(flash[s], n) \in Seq(Nat)
           /\ Len(Prefix(flash[s], n)) = n
           /\ n > 0 => Prefix(flash[s], n) # <<>>
<1>1. flash[s] \in [1..SlotWords -> Nat]
  BY SizesAssumption DEF TypeOK
<1>2. SlotWords \in Nat /\ n \in Nat
  BY SizesAssumption
<1>3. /\ Prefix(flash[s], n) \in Seq(Nat)
      /\ Len(Prefix(flash[s], n)) = n
  BY <1>1, <1>2 DEF Prefix
<1>4. QED
  BY <1>2, <1>3

(* Below the wrap, a size is what it says. *)
LEMMA WordsSmall == \A n \in 0..SizeMod-1 : Words(n) = n
BY SizesAssumption DEF Words

LEMMA WordsRange == \A n \in Nat : Words(n) \in 0..SizeMod-1
BY SizesAssumption DEF Words

(* A count whose size wraps passes no load: the buffer is as long as the size
   says, and the order is checked for the whole count. *)
LEMMA LoadableCount ==
    ASSUME TypeOK, NEW s \in Slots, NEW v, NvsTypeOK(v), LoadableIn(v, s)
    PROVE  /\ v[<<"cnt", s>>] \in MinDomains..SlotWords
           /\ Words(v[<<"cnt", s>>]) = v[<<"cnt", s>>]
           /\ List(s, v[<<"cnt", s>>]) = Prefix(flash[s], v[<<"cnt", s>>])
<1>. DEFINE cnt == v[<<"cnt", s>>]
            buf == Prefix(flash[s], Words(cnt))
<1>1. /\ cnt # Absent /\ cnt >= MinDomains /\ Words(cnt) <= SlotWords
      /\ cnt <= Len(buf)
  BY DEF LoadableIn, OrderedFor
<1>2. cnt \in Nat
  BY <1>1, RequestsAssumption DEF NvsTypeOK
<1>3. Words(cnt) \in 0..SlotWords
  <2>1. Words(cnt) \in 0..SizeMod-1
    BY <1>2, WordsRange
  <2>2. QED
    BY <1>1, <2>1, SizesAssumption
<1>4. Len(buf) = Words(cnt)
  BY <1>3, PrefixOfSlot
<1>5. cnt <= SlotWords
  BY <1>1, <1>2, <1>3, <1>4, SizesAssumption
<1>6. cnt \in 0..SizeMod-1
  BY <1>2, <1>5, SizesAssumption
<1>7. Words(cnt) = cnt
  BY <1>6, WordsSmall
<1>8. List(s, cnt) = Prefix(flash[s], cnt)
  BY <1>2, <1>7 DEF List, Prefix
<1>9. QED
  BY <1>1, <1>2, <1>5, <1>7, <1>8, SizesAssumption

(* A slot that passes load_slot's checks is typed as ServedSound wants it. *)
LEMMA LoadableIsSound ==
    ASSUME TypeOK, NEW s \in Slots, Loadable(s)
    PROVE  /\ nvs[<<"cnt", s>>] \in MinDomains..SlotWords
           /\ nvs[<<"cnt", s>>] \in 0..SlotWords
           /\ List(s, nvs[<<"cnt", s>>]) = Prefix(flash[s], nvs[<<"cnt", s>>])
           /\ Prefix(flash[s], nvs[<<"cnt", s>>]) \in Seq(Nat)
           /\ Prefix(flash[s], nvs[<<"cnt", s>>]) # <<>>
           /\ Ascending(Prefix(flash[s], nvs[<<"cnt", s>>]))
           /\ Len(Prefix(flash[s], nvs[<<"cnt", s>>])) \in MinDomains..SlotWords
           /\ Sha256(Prefix(flash[s], nvs[<<"cnt", s>>])) \in Digests
<1>. DEFINE cnt == nvs[<<"cnt", s>>]
<1>0. /\ cnt \in MinDomains..SlotWords /\ Words(cnt) = cnt
      /\ List(s, cnt) = Prefix(flash[s], cnt)
  BY LoadableCount DEF TypeOK, Loadable
<1>1. /\ Sha256(Prefix(flash[s], cnt)) = nvs[<<"sha", s>>]
      /\ nvs[<<"sha", s>>] # Absent
      /\ Ascending(Prefix(flash[s], cnt))
  BY <1>0 DEF Loadable, LoadableIn, OrderedFor
<1>2. nvs[<<"sha", s>>] \in Digests
  BY <1>1 DEF TypeOK, NvsTypeOK
<1>3. cnt \in 0..SlotWords /\ cnt > 0
  BY <1>0, SizesAssumption
<1>4. Len(Prefix(flash[s], cnt)) = cnt /\ Prefix(flash[s], cnt) \in Seq(Nat)
  BY <1>3, PrefixOfSlot
<1>5. Prefix(flash[s], cnt) # <<>>
  BY <1>3, PrefixOfSlot
<1>6. QED
  BY <1>0, <1>1, <1>2, <1>3, <1>4, <1>5

(* The swap keeps the types and serves a sound list. *)
LEMMA SwapInSound ==
    ASSUME TypeOK, NEW s \in Slots, Loadable(s), SwapIn(s)
    PROVE  /\ served' \in Seq(Nat) /\ served' # <<>>
           /\ active' = s
           /\ version' \in Labels \cup {NoVersion}
           /\ ServedSound'
<1>1. nvs[<<"ver", s>>] \in Labels \cup {Absent}
  BY DEF TypeOK, NvsTypeOK
<1>2. version' \in Labels \cup {NoVersion}
  BY <1>1 DEF SwapIn
<1>3. QED
  BY <1>2, LoadableIsSound DEF SwapIn, ServedSound, Ascending, Digests

LEMMA SurvivorsTyped ==
    ASSUME TypeOK, NEW v \in Survivors
    PROVE  /\ NvsTypeOK(v)
           /\ \A k \in Keys : v[k] \in {nvs[k], nvsFlash[k]}
<1>1. PICK kept \in SUBSET Keys : v = [k \in Keys |-> IF k \in kept THEN nvs[k] ELSE nvsFlash[k]]
  BY DEF Survivors
<1>2. \A k \in Keys : v[k] \in {nvs[k], nvsFlash[k]}
  BY <1>1
<1>3. v = [k \in Keys |-> v[k]]
  BY <1>1
<1>4. /\ Active \in Keys
      /\ \A s \in Slots : <<"cnt", s>> \in Keys /\ <<"sha", s>> \in Keys /\ <<"ver", s>> \in Keys
  BY DEF Keys, Meta, Slots
<1>5. QED
  BY <1>2, <1>3, <1>4 DEF TypeOK, NvsTypeOK

-----------------------------------------------------------------------------
(* Setting one key to a value of its type keeps the handle's view typed. *)
LEMMA SetActiveTyped ==
    ASSUME TypeOK, NEW s \in Slots, SetActive(s)
    PROVE  NvsTypeOK(nvs')
<1>1. CASE nvs' = nvs
  BY <1>1 DEF TypeOK
<1>2. CASE nvs' = [nvs EXCEPT ![Active] = s]
  <2>1. nvs = [k \in Keys |-> nvs[k]]
    BY DEF TypeOK, NvsTypeOK
  <2>2. nvs' = [k \in Keys |-> IF k = Active THEN s ELSE nvs[k]]
    BY <1>2, <2>1
  <2>3. /\ Active \in Keys
        /\ \A t \in Slots : /\ {<<"cnt", t>>, <<"sha", t>>, <<"ver", t>>} \subseteq Keys
                            /\ Active \notin {<<"cnt", t>>, <<"sha", t>>, <<"ver", t>>}
    BY DEF Keys, Meta, Slots, Active
  <2>4. QED
    BY <2>2, <2>3 DEF TypeOK, NvsTypeOK
<1>3. QED
  BY <1>1, <1>2 DEF SetActive

LEMMA SetMetaTyped ==
    ASSUME TypeOK, pc \in DOMAIN MetaStep,
           nvs' = [nvs EXCEPT ![<<pc, arg.slot>>] = arg[pc]]
    PROVE  NvsTypeOK(nvs')
<1>1. pc \in {"cnt", "sha", "ver"} /\ pc \in CommitSteps
  BY DEF MetaStep, CommitSteps
<1>2. /\ arg.slot \in Slots
      /\ arg = [slot |-> arg.slot, cnt |-> arg.cnt, sha |-> arg.sha, ver |-> arg.ver]
      /\ [cnt |-> arg.cnt, sha |-> arg.sha, ver |-> arg.ver] \in Requests
  BY <1>1 DEF TypeOK
<1>3. arg.cnt \in {r.cnt : r \in Requests} /\ arg.sha \in Digests /\ arg.ver \in Labels
  BY <1>2 DEF Digests, Labels
<1>4. nvs = [k \in Keys |-> nvs[k]]
  BY DEF TypeOK, NvsTypeOK
<1>5. nvs' = [k \in Keys |-> IF k = <<pc, arg.slot>> THEN arg[pc] ELSE nvs[k]]
  BY <1>4
<1>6. /\ Active \in Keys
      /\ \A t \in Slots : {<<"cnt", t>>, <<"sha", t>>, <<"ver", t>>} \subseteq Keys
  BY DEF Keys, Meta, Slots
<1>7. nvs'[Active] = nvs[Active]
  BY <1>1, <1>5, <1>6 DEF Active
<1>8. \A t \in Slots : /\ nvs'[<<"cnt", t>>] \in {nvs[<<"cnt", t>>], arg.cnt}
                       /\ nvs'[<<"sha", t>>] \in {nvs[<<"sha", t>>], arg.sha}
                       /\ nvs'[<<"ver", t>>] \in {nvs[<<"ver", t>>], arg.ver}
  <2>. SUFFICES ASSUME NEW t \in Slots
       PROVE  /\ nvs'[<<"cnt", t>>] \in {nvs[<<"cnt", t>>], arg.cnt}
              /\ nvs'[<<"sha", t>>] \in {nvs[<<"sha", t>>], arg.sha}
              /\ nvs'[<<"ver", t>>] \in {nvs[<<"ver", t>>], arg.ver}
    OBVIOUS
  <2>1. CASE pc = "cnt"
    BY <1>5, <1>6, <2>1
  <2>2. CASE pc = "sha"
    BY <1>5, <1>6, <2>2
  <2>3. CASE pc = "ver"
    BY <1>5, <1>6, <2>3
  <2>4. QED
    BY <1>1, <2>1, <2>2, <2>3
<1>9. nvs' = [k \in Keys |-> nvs'[k]]
  BY <1>5
<1>10. QED
  BY <1>3, <1>7, <1>8, <1>9 DEF TypeOK, NvsTypeOK

-----------------------------------------------------------------------------
(* A commit that gives up ends idle with everything else as it was. *)
LEMMA CommitFailsTyped ==
    ASSUME TypeOK, NEW may, CommitFails(may)
    PROVE  TypeOK'
BY DEF CommitFails, TypeOK, NvsTypeOK, ram, InitSteps, CommitSteps

LEMMA TypeInit == Init => TypeOK
<1>. SUFFICES ASSUME Init PROVE TypeOK
  OBVIOUS
<1>1. NvsTypeOK(nvs) /\ nvsFlash = nvs
  BY DEF Init, NvsTypeOK, Keys, Meta, Slots
<1>2. QED
  BY <1>1 DEF Init, TypeOK, InitSteps, CommitSteps

LEMMA TypeStep == TypeOK /\ [Next]_vars => TypeOK'
<1>. SUFFICES ASSUME TypeOK, [Next]_vars PROVE TypeOK'
  OBVIOUS
<1>. USE DEF InitSteps, CommitSteps
<1>1. CASE InitActive
  <2>1. CASE nvs[Active] \in Slots /\ Loadable(nvs[Active]) /\ SwapIn(nvs[Active]) /\ pc' = "ready"
    BY <1>1, <2>1, SwapInSound DEF InitActive, TypeOK, NvsTypeOK, ram
  <2>2. CASE pc' = "fallback" /\ UNCHANGED ram
    BY <1>1, <2>2 DEF InitActive, TypeOK, NvsTypeOK, ram
  <2>3. QED
    BY <1>1, <2>1, <2>2 DEF InitActive
<1>2. CASE InitFallback
  <2>1. CASE pc' = "ready" /\ UNCHANGED ram
    BY <1>2, <2>1 DEF InitFallback, TypeOK, NvsTypeOK, ram
  <2>2. ASSUME NEW s \in Slots, Loadable(s), SwapIn(s), pc' = "record"
        PROVE  TypeOK'
    BY <1>2, <2>2, SwapInSound DEF InitFallback, TypeOK, NvsTypeOK
  <2>3. QED
    BY <1>2, <2>1, <2>2 DEF InitFallback
<1>3. CASE RecordFallback
  <2>1. active \in Slots
    BY <1>3 DEF RecordFallback, TypeOK
  <2>2. QED
    BY <1>3, <2>1, SetActiveTyped DEF RecordFallback, TypeOK, NvsTypeOK, ram
<1>4. CASE RecordFallbackSync
  BY <1>4 DEF RecordFallbackSync, TypeOK, NvsTypeOK, ram
<1>5. CASE SetMeta
  <2>1. CASE CommitFails("nvs" \in Faults)
    BY <2>1, CommitFailsTyped
  <2>2. CASE /\ nvs' = [nvs EXCEPT ![<<pc, arg.slot>>] = arg[pc]]
             /\ pc' = MetaStep[pc]
             /\ UNCHANGED <<flash, nvsFlash, ram, arg, intact>>
    <3>1. pc \in {"cnt", "sha", "ver"} /\ pc' \in {"sha", "ver", "sync"}
      BY <1>5, <2>2 DEF SetMeta, MetaStep
    <3>2. QED
      BY <1>5, <2>2, <3>1, SetMetaTyped DEF SetMeta, TypeOK, NvsTypeOK, ram
  <2>3. QED
    BY <1>5, <2>1, <2>2 DEF SetMeta
<1>6. CASE SyncMeta
  BY <1>6, CommitFailsTyped DEF SyncMeta, TypeOK, NvsTypeOK, ram
<1>7. CASE LoadCommitted
  <2>1. CASE CommitFails(LoadMayFail(arg.slot))
    BY <2>1, CommitFailsTyped
  <2>2. CASE /\ Loadable(arg.slot) /\ SwapIn(arg.slot) /\ pc' = "flip"
             /\ UNCHANGED <<flash, nvs, nvsFlash, arg, intact>>
    <3>1. arg.slot \in Slots
      BY <1>7 DEF LoadCommitted, TypeOK
    <3>2. QED
      BY <1>7, <2>2, <3>1, SwapInSound DEF LoadCommitted, TypeOK, NvsTypeOK
  <2>3. QED
    BY <1>7, <2>1, <2>2 DEF LoadCommitted
<1>8. CASE Flip
  <2>1. arg.slot \in Slots
    BY <1>8 DEF Flip, TypeOK
  <2>2. QED
    BY <1>8, <2>1, SetActiveTyped DEF Flip, TypeOK, NvsTypeOK, ram
<1>9. CASE FlipSync
  BY <1>9, CommitFailsTyped DEF FlipSync, TypeOK, NvsTypeOK, ram
<1>10. CASE BootEraseNvs
  <2>1. NvsTypeOK(nvs')
    BY <1>10 DEF BootEraseNvs, NvsTypeOK, Keys, Meta, Slots
  <2>2. QED
    BY <1>10, <2>1 DEF BootEraseNvs, TypeOK, NvsTypeOK, ram
<1>11. CASE Corrupt
  BY <1>11 DEF Corrupt, TypeOK, NvsTypeOK, ram
<1>12. CASE Crash
  <2>1. NvsTypeOK(nvs') /\ NvsTypeOK(nvsFlash')
    BY <1>12, SurvivorsTyped DEF Crash
  <2>2. served' \in Seq(Nat)
    BY <1>12 DEF Crash
  <2>3. QED
    BY <1>12, <2>1, <2>2 DEF Crash, TypeOK
<1>13. CASE WriteInactive
  BY <1>13 DEF WriteInactive, TypeOK, NvsTypeOK, ram
<1>14. ASSUME NEW s \in -1..2, NEW r \in Requests, CommitBegin(s, r)
       PROVE  TypeOK'
  <2>1. CASE ValidTarget(s)
    <3>1. s \in Slots
      BY <2>1 DEF ValidTarget, Slots
    <3>2. /\ arg' = [slot |-> s, cnt |-> r.cnt, sha |-> r.sha, ver |-> r.ver]
          /\ pc' = "cnt"
          /\ UNCHANGED <<flash, nvs, nvsFlash, ram, intact>>
      BY <1>14, <2>1 DEF CommitBegin
    <3>3. /\ arg' = [slot |-> arg'.slot, cnt |-> arg'.cnt, sha |-> arg'.sha, ver |-> arg'.ver]
          /\ arg'.slot \in Slots
      BY <3>1, <3>2
    <3>4. [cnt |-> arg'.cnt, sha |-> arg'.sha, ver |-> arg'.ver] \in Requests
      BY <3>2, RequestsAssumption
    <3>5. QED
      BY <3>2, <3>3, <3>4 DEF TypeOK, NvsTypeOK, ram
  <2>2. CASE ~ValidTarget(s)
    BY <1>14, <2>2 DEF CommitBegin, TypeOK, NvsTypeOK, ram
  <2>3. QED
    BY <2>1, <2>2
<1>15. CASE UNCHANGED vars
  BY <1>15 DEF vars, TypeOK, NvsTypeOK
<1>16. QED
  BY <1>1, <1>2, <1>3, <1>4, <1>5, <1>6, <1>7, <1>8, <1>9, <1>10, <1>11, <1>12,
     <1>13, <1>14, <1>15 DEF Next, StoreStep

(* Every reachable state of the storage is typed. *)
THEOREM TypeCorrect == Spec => []TypeOK
<1>1. Init => TypeOK
  BY TypeInit
<1>2. TypeOK /\ [Next]_vars => TypeOK'
  BY TypeStep
<1>3. QED
  BY <1>1, <1>2, PTL DEF Spec

-----------------------------------------------------------------------------
LEMMA ServedSoundStep == TypeOK /\ ServedSound /\ [Next]_vars => ServedSound'
<1>. SUFFICES ASSUME TypeOK, ServedSound, [Next]_vars PROVE ServedSound'
  OBVIOUS
<1>1. CASE UNCHANGED served
  BY <1>1 DEF ServedSound, Ascending, Digests
<1>2. ASSUME NEW s \in Slots, Loadable(s), SwapIn(s)
      PROVE  ServedSound'
  BY <1>2, SwapInSound
<1>3. CASE Crash
  BY <1>3 DEF Crash, ServedSound
<1>4. CASE InitActive
  BY <1>1, <1>2, <1>4 DEF InitActive, ram
<1>5. CASE InitFallback
  BY <1>1, <1>2, <1>5 DEF InitFallback, ram
<1>6. CASE LoadCommitted
  <2>1. arg.slot \in Slots
    BY <1>6 DEF LoadCommitted, TypeOK, CommitSteps
  <2>2. QED
    BY <1>1, <1>2, <1>6, <2>1 DEF LoadCommitted, CommitFails, ram
<1>7. CASE RecordFallback \/ RecordFallbackSync \/ SetMeta \/ SyncMeta \/ Flip \/ FlipSync
  BY <1>1, <1>7 DEF RecordFallback, RecordFallbackSync, SetMeta, SyncMeta, Flip, FlipSync,
     CommitFails, ram
<1>8. CASE BootEraseNvs \/ Corrupt \/ WriteInactive
  BY <1>1, <1>8 DEF BootEraseNvs, Corrupt, WriteInactive, ram
<1>9. ASSUME NEW s \in -1..2, NEW r \in Requests, CommitBegin(s, r)
      PROVE  ServedSound'
  BY <1>1, <1>9 DEF CommitBegin, ram
<1>10. CASE UNCHANGED vars
  BY <1>1, <1>10 DEF vars
<1>11. QED
  BY <1>3, <1>4, <1>5, <1>6, <1>7, <1>8, <1>9, <1>10 DEF Next, StoreStep

(* Whatever fails, only a list that passed every check is ever served. *)
THEOREM ServedSoundCorrect == Spec => []ServedSound
<1>1. Init => ServedSound
  BY DEF Init, ServedSound
<1>2. TypeOK /\ ServedSound /\ [Next]_vars => ServedSound'
  BY ServedSoundStep
<1>3. QED
  BY <1>1, <1>2, TypeCorrect, PTL DEF Spec

-----------------------------------------------------------------------------
(* The checks of load_slot depend on the slot's partition and metadata only. *)
LEMMA LoadableTransfers ==
    ASSUME NEW s \in Slots, NEW v, NEW w, \A k \in Meta(s) : v[k] = w[k], LoadableIn(v, s)
    PROVE  LoadableIn(w, s)
<1>1. v[<<"cnt", s>>] = w[<<"cnt", s>>] /\ v[<<"sha", s>>] = w[<<"sha", s>>]
  BY DEF Meta
<1>2. QED
  BY <1>1 DEF LoadableIn

LEMMA LoadableKept ==
    ASSUME NEW s \in Slots, LoadableIn(nvs, s), flash'[s] = flash[s],
           \A k \in Meta(s) : nvs'[k] = nvs[k]
    PROVE  LoadableIn(nvs, s)'
<1>1. nvs'[<<"cnt", s>>] = nvs[<<"cnt", s>>] /\ nvs'[<<"sha", s>>] = nvs[<<"sha", s>>]
  BY DEF Meta
<1>2. QED
  BY <1>1 DEF LoadableIn

(* Keys of different slots, and the record, are different keys. *)
LEMMA KeysDiffer ==
    /\ \A s \in Slots : Meta(s) \subseteq Keys /\ Active \notin Meta(s)
    /\ Active \in Keys
    /\ \A s \in Slots, t \in Slots : s # t => Meta(s) \cap Meta(t) = {}
    /\ NoSlot \notin Slots
BY DEF Meta, Keys, Active, Slots, NoSlot

(* Setting the record leaves the metadata alone. *)
LEMMA SetActiveKeeps ==
    ASSUME TypeOK, NEW s, SetActive(s)
    PROVE  /\ \A t \in Slots : \A k \in Meta(t) : nvs'[k] = nvs[k]
           /\ nvs'[Active] \in {nvs[Active], s}
<1>1. nvs = [k \in Keys |-> nvs[k]]
  BY DEF TypeOK, NvsTypeOK
<1>2. QED
  BY <1>1, KeysDiffer DEF SetActive

(* A slot is swapped in at a moment when its metadata is durable. *)
LEMMA SwapInKeepsInv ==
    ASSUME TypeOK, NEW s \in Slots, Loadable(s), SwapIn(s), nvs = nvsFlash,
           UNCHANGED <<flash, nvs, nvsFlash>>, pc' \in {"ready", "record", "flip"},
           pc' = "flip" => arg'.slot = s
    PROVE  PowerCutInv'
<1>1. served' # <<>> /\ active' = s
  BY SwapInSound
<1>2. LoadableIn(nvs, s)'
  BY LoadableKept DEF Loadable
<1>3. LoadableIn(nvs, active)' /\ \A k \in Meta(active') : nvs'[k] = nvsFlash'[k]
  BY <1>1, <1>2 DEF LoadableIn
<1>4. QED
  BY <1>1, <1>2, <1>3 DEF PowerCutInv

(* A step that leaves the served slot's partition and metadata alone, and obeys
   the part of the invariant that speaks of the program counter, keeps it. *)
LEMMA QuietStepKeepsInv ==
    ASSUME TypeOK, PowerCutInv, UNCHANGED ram,
           active \in Slots => /\ flash'[active] = flash[active]
                               /\ \A k \in Meta(active) : nvs'[k] = nvs[k] /\ nvsFlash'[k] \in {nvs[k], nvsFlash[k]},
           pc' \in {"boot", "fallback"} => nvs' = nvsFlash' /\ active = NoSlot,
           pc' \in {"cnt", "sha", "ver", "sync", "load"} => arg'.slot # active,
           pc' = "load" => nvs' = nvsFlash',
           pc' \in {"flip", "flipsync"} => arg'.slot = active,
           nvs'[Active] # nvsFlash'[Active] => active \in Slots /\ nvs'[Active] = active
    PROVE  PowerCutInv'
<1>1. served' = served /\ active' = active
  BY DEF ram
<1>2. ASSUME active \in Slots
      PROVE  LoadableIn(nvs, active)' /\ \A k \in Meta(active) : nvs'[k] = nvsFlash'[k]
  <2>1. LoadableIn(nvs, active)
    BY <1>2 DEF PowerCutInv
  <2>2. nvs'[<<"cnt", active>>] = nvs[<<"cnt", active>>] /\ nvs'[<<"sha", active>>] = nvs[<<"sha", active>>]
    BY <1>2 DEF Meta
  <2>3. LoadableIn(nvs, active)'
    BY <1>1, <1>2, <2>1, <2>2 DEF LoadableIn
  <2>4. \A k \in Meta(active) : nvs'[k] = nvsFlash'[k]
    BY <1>2 DEF PowerCutInv
  <2>5. QED
    BY <2>3, <2>4
<1>3. QED
  BY <1>1, <1>2 DEF PowerCutInv

(* What was corrupted or erased once is never intact again. *)
LEMMA IntactKept == [Next]_vars /\ intact' => intact
BY DEF Next, StoreStep, InitActive, InitFallback, RecordFallback, RecordFallbackSync,
       SetMeta, SyncMeta, LoadCommitted, Flip, FlipSync, CommitFails, BootEraseNvs, Corrupt,
       Crash, WriteInactive, CommitBegin, vars

LEMMA PowerCutStep ==
    ASSUME TypeOK, PowerCutInv, [Next]_vars, intact'
    PROVE  PowerCutInv'
<1>1. CASE InitActive
  <2>1. CASE nvs[Active] \in Slots /\ Loadable(nvs[Active]) /\ SwapIn(nvs[Active]) /\ pc' = "ready"
    BY <1>1, <2>1, SwapInKeepsInv DEF InitActive, PowerCutInv
  <2>2. CASE pc' = "fallback" /\ UNCHANGED ram
    BY <1>1, <2>2, QuietStepKeepsInv, KeysDiffer DEF InitActive, PowerCutInv
  <2>3. QED
    BY <1>1, <2>1, <2>2 DEF InitActive
<1>2. CASE InitFallback
  <2>1. CASE pc' = "ready" /\ UNCHANGED ram
    BY <1>2, <2>1, QuietStepKeepsInv, KeysDiffer DEF InitFallback, PowerCutInv
  <2>2. ASSUME NEW s \in Slots, Loadable(s), SwapIn(s), pc' = "record"
        PROVE  PowerCutInv'
    BY <1>2, <2>2, SwapInKeepsInv DEF InitFallback, PowerCutInv
  <2>3. QED
    BY <1>2, <2>1, <2>2 DEF InitFallback
<1>3. CASE RecordFallback
  <2>1. /\ \A t \in Slots : \A k \in Meta(t) : nvs'[k] = nvs[k]
        /\ nvs'[Active] \in {nvs[Active], active}
    BY <1>3, SetActiveKeeps DEF RecordFallback
  <2>2. QED
    BY <1>3, <2>1, QuietStepKeepsInv DEF RecordFallback, PowerCutInv, TypeOK
<1>4. CASE RecordFallbackSync
  BY <1>4, QuietStepKeepsInv DEF RecordFallbackSync, PowerCutInv
<1>5. CASE SetMeta
  <2>1. CASE CommitFails("nvs" \in Faults)
    BY <2>1, QuietStepKeepsInv DEF CommitFails, PowerCutInv
  <2>2. CASE /\ nvs' = [nvs EXCEPT ![<<pc, arg.slot>>] = arg[pc]]
             /\ pc' = MetaStep[pc]
             /\ UNCHANGED <<flash, nvsFlash, ram, arg, intact>>
    <3>1. pc \in {"cnt", "sha", "ver"} /\ pc' \in {"sha", "ver", "sync"}
      BY <1>5, <2>2 DEF SetMeta, MetaStep
    <3>2. arg.slot # active /\ arg.slot \in Slots
      BY <3>1 DEF PowerCutInv, TypeOK, CommitSteps
    <3>3. <<pc, arg.slot>> \in Meta(arg.slot)
      BY <3>1 DEF Meta
    <3>4. nvs = [k \in Keys |-> nvs[k]]
      BY DEF TypeOK, NvsTypeOK
    <3>5. nvs'[Active] = nvs[Active]
      BY <2>2, <3>2, <3>3, <3>4, KeysDiffer
    <3>6. active \in Slots => \A k \in Meta(active) : nvs'[k] = nvs[k]
      BY <2>2, <3>2, <3>3, <3>4, KeysDiffer
    <3>7. QED
      BY <2>2, <3>1, <3>2, <3>5, <3>6, QuietStepKeepsInv DEF PowerCutInv
  <2>3. QED
    BY <1>5, <2>1, <2>2 DEF SetMeta
<1>6. CASE SyncMeta
  <2>1. CASE CommitFails("nvs" \in Faults)
    BY <2>1, QuietStepKeepsInv DEF CommitFails, PowerCutInv
  <2>2. CASE nvsFlash' = nvs /\ pc' = "load" /\ UNCHANGED <<flash, nvs, ram, arg, intact>>
    BY <1>6, <2>2, QuietStepKeepsInv DEF SyncMeta, PowerCutInv
  <2>3. QED
    BY <1>6, <2>1, <2>2 DEF SyncMeta
<1>7. CASE LoadCommitted
  <2>1. CASE CommitFails(LoadMayFail(arg.slot))
    BY <2>1, QuietStepKeepsInv DEF CommitFails, PowerCutInv
  <2>2. CASE /\ Loadable(arg.slot) /\ SwapIn(arg.slot) /\ pc' = "flip"
             /\ UNCHANGED <<flash, nvs, nvsFlash, arg, intact>>
    <3>1. arg.slot \in Slots /\ nvs = nvsFlash
      BY <1>7 DEF LoadCommitted, TypeOK, CommitSteps, PowerCutInv
    <3>2. QED
      BY <2>2, <3>1, SwapInKeepsInv
  <2>3. QED
    BY <1>7, <2>1, <2>2 DEF LoadCommitted
<1>8. CASE Flip
  <2>1. /\ \A t \in Slots : \A k \in Meta(t) : nvs'[k] = nvs[k]
        /\ nvs'[Active] \in {nvs[Active], arg.slot}
    BY <1>8, SetActiveKeeps DEF Flip
  <2>2. QED
    BY <1>8, <2>1, QuietStepKeepsInv DEF Flip, PowerCutInv, TypeOK, CommitSteps
<1>9. CASE FlipSync
  <2>1. CASE CommitFails("nvs" \in Faults)
    BY <2>1, QuietStepKeepsInv DEF CommitFails, PowerCutInv
  <2>2. CASE nvsFlash' = nvs /\ pc' = "ready" /\ UNCHANGED <<flash, nvs, ram, intact>>
    BY <1>9, <2>2, QuietStepKeepsInv DEF FlipSync, PowerCutInv
  <2>3. QED
    BY <1>9, <2>1, <2>2 DEF FlipSync
<1>10. CASE BootEraseNvs \/ Corrupt
  BY <1>10 DEF BootEraseNvs, Corrupt
<1>11. CASE Crash
  BY <1>11, KeysDiffer DEF Crash, PowerCutInv
<1>12. CASE WriteInactive
  <2>1. active \in Slots => flash'[active] = flash[active]
    BY <1>12 DEF WriteInactive, InactiveSlot, TypeOK, Slots
  <2>2. QED
    BY <1>12, <2>1, QuietStepKeepsInv DEF WriteInactive, PowerCutInv
<1>13. ASSUME NEW s \in -1..2, NEW r \in Requests, CommitBegin(s, r)
       PROVE  PowerCutInv'
  <2>1. CASE ValidTarget(s)
    <3>1. s # active /\ arg'.slot = s /\ pc' = "cnt"
      BY <1>13, <2>1 DEF ValidTarget, CommitBegin
    <3>2. QED
      BY <1>13, <3>1, QuietStepKeepsInv DEF CommitBegin, PowerCutInv
  <2>2. CASE ~ValidTarget(s)
    BY <1>13, <2>2, QuietStepKeepsInv DEF CommitBegin, PowerCutInv
  <2>3. QED
    BY <2>1, <2>2
<1>14. CASE UNCHANGED vars
  BY <1>14, QuietStepKeepsInv DEF vars, PowerCutInv, ram
<1>15. QED
  BY <1>1, <1>2, <1>3, <1>4, <1>5, <1>6, <1>7, <1>8, <1>9, <1>10, <1>11, <1>12,
     <1>13, <1>14 DEF Next, StoreStep

(* The inductive invariant implies that any power cut leaves a list that boots. *)
LEMMA InvIsPowerCutSafe == TypeOK /\ (intact => PowerCutInv) => PowerCutSafe
<1>. SUFFICES ASSUME TypeOK, PowerCutInv, served # <<>>, NEW v \in Survivors
     PROVE  BootList(v) # <<>>
  BY DEF PowerCutSafe, Candidates
<1>1. active \in Slots /\ LoadableIn(nvs, active)
  BY DEF PowerCutInv
<1>2. \A k \in Meta(active) : v[k] = nvs[k]
  BY <1>1, SurvivorsTyped, KeysDiffer DEF PowerCutInv
<1>3. LoadableIn(v, active)
  BY <1>1, <1>2, LoadableTransfers
<1>4. BootSlot(v) \in Slots /\ LoadableIn(v, BootSlot(v))
  BY <1>1, <1>3 DEF BootSlot, Slots
<1>5. v[<<"cnt", BootSlot(v)>>] \in 0..SlotWords /\ v[<<"cnt", BootSlot(v)>>] > 0
  BY <1>4, LoadableCount, SurvivorsTyped, SizesAssumption
<1>6. List(BootSlot(v), v[<<"cnt", BootSlot(v)>>]) # <<>>
  BY <1>4, <1>5, PrefixOfSlot, LoadableCount, SurvivorsTyped
<1>7. QED
  BY <1>4, <1>6, KeysDiffer DEF BootList

LEMMA PowerCutInit == Init => PowerCutInv
BY KeysDiffer DEF Init, PowerCutInv

(* While a list is served, no power cut at any step, no failing NVS call and no
   failing load leaves a device that boots without one (blocklist_init and
   blocklist_commit_slot), unless a partition is corrupted or NVS erased. *)
THEOREM PowerCutCorrect == Spec => []PowerCutSafe
<1>1. Init => (intact => PowerCutInv)
  BY PowerCutInit
<1>2. TypeOK /\ (intact => PowerCutInv) /\ [Next]_vars => (intact => PowerCutInv)'
  BY PowerCutStep, IntactKept
<1>3. TypeOK /\ (intact => PowerCutInv) => PowerCutSafe
  BY InvIsPowerCutSafe
<1>4. QED
  BY <1>1, <1>2, <1>3, TypeCorrect, PTL DEF Spec

-----------------------------------------------------------------------------
LEMMA RecordStep ==
    ASSUME TypeOK, PowerCutInv, Next, intact',
           nvsFlash'[Active] # nvsFlash[Active]
    PROVE  nvsFlash'[Active] \in Slots /\ LoadableIn(nvsFlash, nvsFlash'[Active])
<1>1. nvsFlash'[Active] = nvs[Active]
  <2>1. CASE Crash
    BY <2>1, SurvivorsTyped, KeysDiffer DEF Crash
  <2>2. CASE RecordFallbackSync \/ SyncMeta \/ FlipSync
    BY <2>2 DEF RecordFallbackSync, SyncMeta, FlipSync, CommitFails
  <2>3. CASE InitActive \/ InitFallback \/ RecordFallback \/ SetMeta \/ LoadCommitted \/ Flip
    BY <2>3 DEF InitActive, InitFallback, RecordFallback, SetMeta, LoadCommitted, Flip, CommitFails
  <2>4. CASE BootEraseNvs \/ Corrupt \/ WriteInactive
    BY <2>4 DEF BootEraseNvs, Corrupt, WriteInactive
  <2>5. ASSUME NEW s \in -1..2, NEW r \in Requests, CommitBegin(s, r)
        PROVE  FALSE
    BY <2>5 DEF CommitBegin
  <2>6. QED
    BY <2>1, <2>2, <2>3, <2>4, <2>5 DEF Next, StoreStep
<1>2. nvs[Active] = active /\ nvs[Active] # nvsFlash[Active]
  BY <1>1 DEF PowerCutInv
<1>3. active \in Slots
  BY <1>2 DEF PowerCutInv
<1>4. LoadableIn(nvsFlash, active)
  BY <1>3, LoadableTransfers DEF PowerCutInv
<1>5. QED
  BY <1>1, <1>2, <1>3, <1>4

(* The durable record only ever moves to a slot that passes validation then. *)
THEOREM RecordCorrect == Spec => RecordNamesLoadable
<1>1. Init => (intact => PowerCutInv)
  BY PowerCutInit
<1>2. TypeOK /\ (intact => PowerCutInv) /\ [Next]_vars => (intact => PowerCutInv)'
  BY PowerCutStep, IntactKept
<1>3. TypeOK /\ (intact => PowerCutInv) /\ [Next]_vars
        => [intact' /\ nvsFlash'[Active] # nvsFlash[Active]
              => nvsFlash'[Active] \in Slots /\ LoadableIn(nvsFlash, nvsFlash'[Active])]_vars
  BY RecordStep, IntactKept DEF vars
<1>4. QED
  BY <1>1, <1>2, <1>3, TypeCorrect, PTL DEF Spec, RecordNamesLoadable

-----------------------------------------------------------------------------
(* BlocklistStore implements DurableList, for every caller, as long as nothing *)
(* but the power fails: TLC finds that a failing NVS call or load is not among *)
(* the steps of DurableList.                                                   *)

OnlyPowerFails == Faults \cap {"nvs", "load", "corrupt", "nvserase"} = {}

-----------------------------------------------------------------------------
(* The inductive invariant *)

\* The keys a commit or a boot has set and not yet made durable.
Undurable ==
    IF pc \in {"sha", "ver", "sync"} THEN Meta(arg.slot)
    ELSE IF pc \in {"recordsync", "flipsync"} THEN {Active} ELSE {}

\* The list that is served is the one the records name, unless they are about to
\* be changed to name it.
Settled ==
    /\ intact
    /\ \A k \in Keys \ Undurable : nvs[k] = nvsFlash[k]
    /\ served # <<>> => served = List(active, nvs[<<"cnt", active>>])
    /\ served # <<>> /\ pc \in {"ready", "cnt", "sha", "ver", "sync", "load"}
          => nvs[Active] = active /\ nvsFlash[Active] = active
    /\ pc = "fallback" => ~(nvs[Active] \in Slots /\ LoadableIn(nvs, nvs[Active]))
    /\ pc \in {"record", "recordsync"} =>
          BootSlot(nvs) = active /\ BootSlot(nvsFlash) = active
    /\ pc \in {"flip", "flipsync", "record", "recordsync"} => served # <<>>
    /\ pc \in {"recordsync", "flipsync"} => nvs[Active] = active

RInv == TypeOK /\ PowerCutInv /\ Settled

LEMMA RInvInit == Init => RInv
<1>1. Init => TypeOK /\ PowerCutInv
  BY TypeInit, PowerCutInit
<1>2. Init => Settled
  BY DEF Init, Settled
<1>3. QED
  BY <1>1, <1>2 DEF RInv

\* The boot of a view depends on the record, the metadata and the partitions.
LEMMA SameBoot ==
    ASSUME NEW v, NEW w, \A k \in Keys : v[k] = w[k]
    PROVE  BootSlot(v) = BootSlot(w) /\ BootList(v) = BootList(w)
<1>1. v[Active] = w[Active] /\ \A s \in Slots : \A k \in Meta(s) : v[k] = w[k]
  BY KeysDiffer
<1>2. \A s \in Slots : /\ LoadableIn(v, s) <=> LoadableIn(w, s)
                       /\ v[<<"cnt", s>>] = w[<<"cnt", s>>]
  BY <1>1 DEF LoadableIn, Meta
<1>3. BootSlot(v) = BootSlot(w) /\ BootSlot(v) \in Slots \cup {NoSlot}
  BY <1>1, <1>2 DEF BootSlot, Slots
<1>4. QED
  BY <1>2, <1>3 DEF BootList

\* With such faults only, an NVS call succeeds and a load fails only on its checks.
LEMMA OnlyPowerMeans ==
    OnlyPowerFails => /\ "nvs" \notin Faults
                      /\ \A s : LoadMayFail(s) => ~Loadable(s)
BY DEF OnlyPowerFails, LoadMayFail

\* A step that keeps the RAM, the partition served from and the keys of its slot
\* keeps what is served where the records say it is.
LEMMA ServedStays ==
    ASSUME RInv, UNCHANGED ram, served # <<>>, flash'[active] = flash[active],
           \A k \in Meta(active) : nvs'[k] = nvs[k]
    PROVE  served' = List(active, nvs[<<"cnt", active>>])'
<1>1. nvs'[<<"cnt", active>>] = nvs[<<"cnt", active>>]
  BY DEF Meta
<1>2. served = List(active, nvs[<<"cnt", active>>])
  BY DEF RInv, Settled
<1>3. QED
  BY <1>1, <1>2 DEF List, ram

LEMMA SettledStep ==
    ASSUME OnlyPowerFails, RInv, [Next]_vars, TypeOK', PowerCutInv'
    PROVE  Settled'
<1>. USE DEF RInv
<1>0. TypeOK /\ PowerCutInv /\ intact /\ "nvs" \notin Faults /\ Active \in Keys
  BY OnlyPowerMeans, KeysDiffer DEF Settled
<1>1. CASE InitActive
  <2>1. nvs = nvsFlash /\ served = <<>> /\ pc = "boot"
    BY <1>0, <1>1, KeysDiffer DEF InitActive, PowerCutInv
  <2>2. CASE nvs[Active] \in Slots /\ Loadable(nvs[Active]) /\ SwapIn(nvs[Active]) /\ pc' = "ready"
    BY <1>0, <1>1, <2>1, <2>2 DEF InitActive, Settled, Undurable, SwapIn, List
  <2>3. CASE pc' = "fallback" /\ UNCHANGED ram /\ (nvs[Active] \in Slots => ~Loadable(nvs[Active]))
    BY <1>0, <1>1, <2>1, <2>3 DEF InitActive, Settled, Undurable, ram, Loadable, LoadableIn
  <2>4. QED
    BY <1>1, <2>2, <2>3, OnlyPowerMeans DEF InitActive
<1>2. CASE InitFallback
  <2>1. nvs = nvsFlash /\ served = <<>> /\ pc = "fallback"
    BY <1>0, <1>2, KeysDiffer DEF InitFallback, PowerCutInv
  <2>2. ASSUME NEW s \in Slots \ {nvs[Active]}, Loadable(s), SwapIn(s), pc' = "record",
               \A t \in Slots \ {nvs[Active]} : t < s => LoadMayFail(t)
        PROVE  Settled'
    <3>1. BootSlot(nvs) = s
      BY <2>1, <2>2, OnlyPowerMeans DEF Settled, BootSlot, Loadable, Slots
    <3>2. BootSlot(nvs)' = s /\ BootSlot(nvsFlash)' = s
      BY <1>2, <2>1, <3>1 DEF InitFallback, BootSlot, LoadableIn
    <3>3. served' # <<>> /\ active' = s
      BY <1>0, <2>2, SwapInSound
    <3>4. QED
      BY <1>0, <1>2, <2>1, <2>2, <3>2, <3>3 DEF InitFallback, Settled, Undurable, SwapIn, List
  <2>3. CASE pc' = "ready" /\ UNCHANGED ram
    BY <1>0, <1>2, <2>1, <2>3 DEF InitFallback, Settled, Undurable, ram
  <2>4. QED
    BY <1>2, <2>2, <2>3 DEF InitFallback
<1>3. CASE RecordFallback
  <2>1. /\ nvs' = [nvs EXCEPT ![Active] = active]
        /\ served # <<>> /\ active \in Slots
        /\ UNCHANGED <<flash, nvsFlash, served, active, intact>> /\ pc' = "recordsync"
    BY <1>0, <1>3 DEF RecordFallback, SetActive, Settled, PowerCutInv, ram
  <2>2. nvs' = [k \in Keys |-> IF k = Active THEN active ELSE nvs[k]]
    BY <1>0, <2>1 DEF TypeOK, NvsTypeOK
  <2>3. \A k \in Keys \ {Active} : nvs'[k] = nvsFlash'[k]
    BY <1>3, <2>1, <2>2 DEF RecordFallback, Settled, Undurable
  <2>4. BootSlot(nvs)' = active
    BY <1>0, <2>1, <2>2 DEF PowerCutInv, BootSlot
  <2>5. BootSlot(nvsFlash)' = active
    BY <1>3, <2>1 DEF RecordFallback, Settled, BootSlot, LoadableIn
  <2>6. served' = List(active, nvs[<<"cnt", active>>])'
    BY <1>3, <2>1, <2>2, KeysDiffer, ServedStays DEF RecordFallback
  <2>7. QED
    BY <1>0, <2>1, <2>2, <2>3, <2>4, <2>5, <2>6 DEF Settled, Undurable
<1>4. CASE RecordFallbackSync
  BY <1>0, <1>4 DEF RecordFallbackSync, Settled, Undurable, List, ram
<1>5. CASE SetMeta
  <2>1. /\ pc \in {"cnt", "sha", "ver"} /\ pc' \in {"sha", "ver", "sync"}
        /\ nvs' = [nvs EXCEPT ![<<pc, arg.slot>>] = arg[pc]]
        /\ UNCHANGED <<flash, nvsFlash, ram, arg, intact>>
    <3>1. ~CommitFails("nvs" \in Faults)
      BY <1>0 DEF CommitFails
    <3>2. /\ pc \in DOMAIN MetaStep
          /\ nvs' = [nvs EXCEPT ![<<pc, arg.slot>>] = arg[pc]]
          /\ pc' = MetaStep[pc]
          /\ UNCHANGED <<flash, nvsFlash, ram, arg, intact>>
      BY <1>5, <3>1 DEF SetMeta
    <3>3. QED
      BY <3>2 DEF MetaStep
  <2>2. arg.slot \in Slots /\ arg.slot # active /\ <<pc, arg.slot>> \in Meta(arg.slot)
    BY <1>0, <2>1 DEF TypeOK, CommitSteps, PowerCutInv, Meta
  <2>3. nvs' = [k \in Keys |-> IF k = <<pc, arg.slot>> THEN arg[pc] ELSE nvs[k]]
    BY <1>0, <2>1 DEF TypeOK, NvsTypeOK
  <2>4. /\ nvs'[Active] = nvs[Active]
        /\ \A k \in Keys \ Meta(arg.slot) : nvs'[k] = nvsFlash'[k]
    BY <2>1, <2>2, <2>3, KeysDiffer DEF Settled, Undurable
  <2>5. served # <<>> => served' = List(active, nvs[<<"cnt", active>>])'
    BY <1>0, <2>1, <2>2, <2>3, KeysDiffer, ServedStays DEF PowerCutInv
  <2>6. QED
    BY <1>0, <2>1, <2>4, <2>5 DEF Settled, Undurable, ram
<1>6. CASE SyncMeta
  BY <1>0, <1>6 DEF SyncMeta, CommitFails, Settled, Undurable, List, ram
<1>7. CASE LoadCommitted
  <2>1. nvs = nvsFlash /\ arg.slot \in Slots
    BY <1>0, <1>7 DEF LoadCommitted, PowerCutInv, TypeOK, CommitSteps
  <2>2. CASE /\ Loadable(arg.slot) /\ SwapIn(arg.slot) /\ pc' = "flip"
             /\ UNCHANGED <<flash, nvs, nvsFlash, arg, intact>>
    <3>1. served' # <<>>
      BY <1>0, <2>1, <2>2, SwapInSound
    <3>2. QED
      BY <1>0, <2>1, <2>2, <3>1 DEF Settled, Undurable, SwapIn, List
  <2>3. CASE CommitFails(LoadMayFail(arg.slot))
    BY <1>0, <1>7, <2>1, <2>3 DEF LoadCommitted, CommitFails, Settled, Undurable, List, ram
  <2>4. QED
    BY <1>7, <2>2, <2>3 DEF LoadCommitted
<1>8. CASE Flip
  <2>1. /\ nvs' = [nvs EXCEPT ![Active] = active]
        /\ served # <<>> /\ active \in Slots
        /\ UNCHANGED <<flash, nvsFlash, served, active, intact>> /\ pc' = "flipsync"
    BY <1>0, <1>8 DEF Flip, SetActive, Settled, PowerCutInv, ram
  <2>2. nvs' = [k \in Keys |-> IF k = Active THEN active ELSE nvs[k]]
    BY <1>0, <2>1 DEF TypeOK, NvsTypeOK
  <2>3. \A k \in Keys \ {Active} : nvs'[k] = nvsFlash'[k]
    BY <1>8, <2>1, <2>2 DEF Flip, Settled, Undurable
  <2>4. served' = List(active, nvs[<<"cnt", active>>])'
    BY <1>8, <2>1, <2>2, KeysDiffer, ServedStays DEF Flip
  <2>5. QED
    BY <1>0, <2>1, <2>2, <2>3, <2>4 DEF Settled, Undurable
<1>9. CASE FlipSync
  BY <1>0, <1>9 DEF FlipSync, CommitFails, Settled, Undurable, List, ram
<1>10. CASE BootEraseNvs \/ Corrupt
  BY <1>10 DEF BootEraseNvs, Corrupt, OnlyPowerFails
<1>11. CASE Crash
  BY <1>0, <1>11 DEF Crash, Settled, Undurable
<1>12. CASE WriteInactive
  <2>1. flash'[active] = flash[active] \/ active \notin Slots
    BY <1>0, <1>12 DEF WriteInactive, InactiveSlot, TypeOK, Slots
  <2>2. served # <<>> => served' = List(active, nvs[<<"cnt", active>>])'
    BY <1>0, <1>12, <2>1, ServedStays DEF WriteInactive, PowerCutInv
  <2>3. QED
    BY <1>0, <1>12, <2>2 DEF WriteInactive, Settled, Undurable, ram
<1>13. ASSUME NEW s \in -1..2, NEW r \in Requests, CommitBegin(s, r)
       PROVE  Settled'
  BY <1>0, <1>13 DEF CommitBegin, Settled, Undurable, List, ram
<1>14. CASE UNCHANGED vars
  BY <1>14 DEF vars, ram, Settled, Undurable, List, Words, BootSlot, LoadableIn, OrderedFor
<1>15. QED
  BY <1>1, <1>2, <1>3, <1>4, <1>5, <1>6, <1>7, <1>8, <1>9, <1>10, <1>11, <1>12, <1>13, <1>14
     DEF Next, StoreStep

-----------------------------------------------------------------------------
(* What the next boot may find *)

\* While something is served and its slot is the one the record names, that is it.
LEMMA ActiveBoots ==
    ASSUME RInv, served # <<>>, NEW v \in Survivors, v[Active] = active
    PROVE  BootList(v) = served
<1>1. active \in Slots /\ LoadableIn(nvs, active) /\ \A k \in Meta(active) : nvs[k] = nvsFlash[k]
  BY DEF RInv, PowerCutInv
<1>2. \A k \in Meta(active) : v[k] = nvs[k]
  BY <1>1, SurvivorsTyped, KeysDiffer DEF RInv
<1>3. LoadableIn(v, active)
  BY <1>1, <1>2, LoadableTransfers
<1>4. BootSlot(v) = active /\ active # NoSlot /\ v[<<"cnt", active>>] = nvs[<<"cnt", active>>]
  BY <1>1, <1>2, <1>3, KeysDiffer DEF BootSlot, Meta
<1>5. QED
  BY <1>4 DEF BootList, RInv, Settled

LEMMA BothSurvive == TypeOK => nvs \in Survivors /\ nvsFlash \in Survivors
<1>. SUFFICES ASSUME TypeOK PROVE nvs \in Survivors /\ nvsFlash \in Survivors
  OBVIOUS
<1>. DEFINE D == {k \in Keys : nvs[k] # nvsFlash[k]}
            left(kept) == [k \in Keys |-> IF k \in kept THEN nvs[k] ELSE nvsFlash[k]]
<1>1. ASSUME NEW K \in SUBSET D, InOrder(K, D) PROVE left(K) \in Survivors
  BY <1>1 DEF Survivors
<1>2. InOrder(D, D) /\ InOrder({}, D)
  BY DEF InOrder
<1>3. nvs = left(D) /\ nvsFlash = left({})
  BY DEF TypeOK, NvsTypeOK
<1>4. D \in SUBSET D /\ {} \in SUBSET D
  OBVIOUS
<1>. HIDE DEF D, left
<1>5. QED
  BY <1>1, <1>2, <1>3, <1>4

\* Every boot finds a list that was written and announced, or none.
LEMMA BootListStored ==
    ASSUME TypeOK, NEW v \in Survivors
    PROVE  BootList(v) \in StoredLists \cup {<<>>}
<1>1. CASE BootSlot(v) = NoSlot
  BY <1>1 DEF BootList
<1>2. CASE BootSlot(v) # NoSlot
  <2>. DEFINE s == BootSlot(v)
              n == v[<<"cnt", s>>]
  <2>1. s \in Slots /\ LoadableIn(v, s)
    BY <1>2 DEF BootSlot, Slots
  <2>2. NvsTypeOK(v)
    BY SurvivorsTyped
  <2>3. n \in MinDomains..SlotWords /\ BootList(v) = Prefix(flash[s], n)
    BY <1>2, <2>1, <2>2, LoadableCount DEF BootList
  <2>4. \E r \in Requests : r.cnt = n
    BY <2>1, <2>2 DEF NvsTypeOK, LoadableIn
  <2>5. flash[s] \in Images /\ n \in 1..SlotWords
    BY <2>1, <2>3, SizesAssumption DEF TypeOK
  <2>6. QED
    BY <2>3, <2>4, <2>5 DEF StoredLists
<1>3. QED
  BY <1>1, <1>2

\* Candidates, by where the device is.
CandidatesBy ==
    /\ pc \in {"boot", "fallback", "flip"} => Candidates = {BootList(nvs)}
    /\ served # <<>> /\ pc \notin {"flip", "flipsync"} => Candidates = {served}
    /\ pc = "flipsync" => Candidates = {served, BootList(nvsFlash)}
    /\ Candidates # {} /\ Candidates \subseteq StoredLists \cup {<<>>}

LEMMA CandidatesAre == RInv => CandidatesBy
<1>. SUFFICES ASSUME RInv PROVE CandidatesBy
  OBVIOUS
<1>. USE DEF RInv
<1>0. nvs \in Survivors /\ nvsFlash \in Survivors
  BY BothSurvive
<1>1. ASSUME pc \in {"boot", "fallback", "flip"}
      PROVE  Candidates = {BootList(nvs)}
  <2>1. \A v \in Survivors : \A k \in Keys : v[k] = nvs[k]
    BY <1>1, SurvivorsTyped DEF Settled, Undurable
  <2>2. \A v \in Survivors : BootList(v) = BootList(nvs)
    BY <2>1, SameBoot
  <2>3. QED
    BY <1>0, <2>2 DEF Candidates
<1>2. ASSUME served # <<>>, pc \notin {"flip", "flipsync"}
      PROVE  Candidates = {served}
  <2>1. active \in Slots
    BY <1>2 DEF PowerCutInv
  <2>2. CASE pc \in {"ready", "cnt", "sha", "ver", "sync", "load"}
    <3>1. \A v \in Survivors : v[Active] = active
      BY <1>2, <2>2, SurvivorsTyped, KeysDiffer DEF Settled
    <3>2. QED
      BY <1>0, <1>2, <3>1, ActiveBoots DEF Candidates
  <2>3. CASE pc \in {"record", "recordsync"}
    <3>1. ASSUME NEW v \in Survivors PROVE BootSlot(v) = active /\ v[<<"cnt", active>>] = nvs[<<"cnt", active>>]
      <4>1. \A k \in Keys \ {Active} : v[k] = nvs[k] /\ nvs[k] = nvsFlash[k]
        BY <2>3, SurvivorsTyped DEF Settled, Undurable
      <4>2. v[Active] = nvs[Active] \/ v[Active] = nvsFlash[Active]
        BY SurvivorsTyped, KeysDiffer
      <4>3. (\A k \in Keys : v[k] = nvs[k]) \/ (\A k \in Keys : v[k] = nvsFlash[k])
        BY <4>1, <4>2
      <4>4. BootSlot(v) = active
        BY <2>3, <4>3, SameBoot DEF Settled
      <4>5. <<"cnt", active>> \in Keys \ {Active}
        BY <2>1 DEF Keys, Meta, Active, Slots
      <4>6. QED
        BY <4>1, <4>4, <4>5
    <3>2. \A v \in Survivors : BootList(v) = served
      BY <1>2, <2>1, <3>1, KeysDiffer DEF BootList, Settled
    <3>3. QED
      BY <1>0, <3>2 DEF Candidates
  <2>4. pc \in {"ready", "cnt", "sha", "ver", "sync", "load", "record", "recordsync"}
    BY <1>2, <2>1, KeysDiffer DEF TypeOK, InitSteps, CommitSteps, PowerCutInv
  <2>5. QED
    BY <2>2, <2>3, <2>4
<1>3. ASSUME pc = "flipsync"
      PROVE  Candidates = {served, BootList(nvsFlash)}
  <2>1. served # <<>> /\ nvs[Active] = active
    BY <1>3 DEF Settled
  <2>2. BootList(nvs) = served
    BY <1>0, <2>1, ActiveBoots
  <2>3. ASSUME NEW v \in Survivors
        PROVE  BootList(v) \in {served, BootList(nvsFlash)}
    <3>1. \A k \in Keys \ {Active} : v[k] = nvs[k] /\ nvs[k] = nvsFlash[k]
      BY <1>3, SurvivorsTyped DEF Settled, Undurable
    <3>2. v[Active] = nvs[Active] \/ v[Active] = nvsFlash[Active]
      BY SurvivorsTyped, KeysDiffer
    <3>3. (\A k \in Keys : v[k] = nvs[k]) \/ (\A k \in Keys : v[k] = nvsFlash[k])
      BY <3>1, <3>2
    <3>4. QED
      BY <2>2, <3>3, SameBoot
  <2>4. QED
    BY <1>0, <2>2, <2>3 DEF Candidates
<1>4. Candidates # {} /\ Candidates \subseteq StoredLists \cup {<<>>}
  BY <1>0, BootListStored DEF Candidates
<1>5. QED
  BY <1>1, <1>2, <1>3, <1>4 DEF CandidatesBy

-----------------------------------------------------------------------------
(* The refinement *)

\* What the next boot may find depends on flash and NVS alone.
LEMMA CandidatesKept == UNCHANGED <<flash, nvs, nvsFlash>> => Candidates' = Candidates
BY DEF Candidates, Survivors, InOrder, Before, BootList, BootSlot, LoadableIn, OrderedFor, Words, List, Prefix

LEMMA BootListKept == \A v : UNCHANGED flash => BootList(v)' = BootList(v)
BY DEF BootList, BootSlot, LoadableIn, OrderedFor, Words, List, Prefix

\* Outside of boot and of the change of the record, a step that does not change the
\* served list is a stutter or, before there is one, provisioning.
LEMMA QuietStepRefines ==
    ASSUME RInv, CandidatesBy, CandidatesBy', UNCHANGED served,
           pc \notin {"boot", "fallback", "flip", "flipsync"},
           pc' \notin {"boot", "fallback", "flip", "flipsync"}
    PROVE  [Durable!Next]_(Durable!vars)
<1>1. CASE served # <<>>
  <2>1. Candidates = {served} /\ Candidates' = {served}
    BY <1>1 DEF CandidatesBy
  <2>2. QED
    BY <2>1 DEF Durable!vars
<1>2. CASE served = <<>>
  <2>1. Durable!Provision
    BY <1>2 DEF CandidatesBy, Durable!Provision, Durable!None
  <2>2. QED
    BY <2>1 DEF Durable!Next
<1>3. QED
  BY <1>1, <1>2

\* The loop of blocklist_init ends with what BootSlot names.
LEMMA FallbackBoots ==
    ASSUME OnlyPowerFails, RInv, InitFallback
    PROVE  served' = BootList(nvs) /\ pc = "fallback" /\ pc' \in {"record", "ready"}
<1>1. /\ pc = "fallback" /\ pc' \in {"record", "ready"} /\ served = <<>>
      /\ ~(nvs[Active] \in Slots /\ LoadableIn(nvs, nvs[Active]))
  BY KeysDiffer DEF InitFallback, RInv, Settled, PowerCutInv
<1>2. ASSUME NEW s \in Slots \ {nvs[Active]}, Loadable(s), SwapIn(s),
             \A t \in Slots \ {nvs[Active]} : t < s => LoadMayFail(t)
      PROVE  served' = BootList(nvs)
  <2>1. BootSlot(nvs) = s
    BY <1>1, <1>2, OnlyPowerMeans DEF BootSlot, Loadable, Slots
  <2>2. QED
    BY <1>2, <2>1, KeysDiffer DEF BootList, SwapIn
<1>3. CASE (\A s \in Slots \ {nvs[Active]} : LoadMayFail(s)) /\ UNCHANGED ram
  <2>1. BootSlot(nvs) = NoSlot
    BY <1>1, <1>3, OnlyPowerMeans DEF BootSlot, Loadable, Slots
  <2>2. QED
    BY <1>1, <1>3, <2>1 DEF BootList, ram
<1>4. QED
  BY <1>1, <1>2, <1>3 DEF InitFallback

LEMMA RefinementStep ==
    ASSUME OnlyPowerFails, RInv, TypeOK', PowerCutInv', RInv', CandidatesBy, CandidatesBy', Next
    PROVE  [Durable!Next]_(Durable!vars)
<1>0. TypeOK /\ PowerCutInv /\ "nvs" \notin Faults
  BY OnlyPowerMeans DEF RInv
<1>1. CASE InitActive
  <2>1. Candidates = {BootList(nvs)} /\ Candidates' = Candidates /\ pc = "boot"
    BY <1>1, CandidatesKept DEF InitActive, CandidatesBy
  <2>2. CASE nvs[Active] \in Slots /\ Loadable(nvs[Active]) /\ SwapIn(nvs[Active]) /\ pc' = "ready"
    <3>1. served' = BootList(nvs)
      BY <2>2, KeysDiffer DEF BootList, BootSlot, Loadable, SwapIn
    <3>2. Durable!Boot
      BY <2>1, <2>2, <3>1 DEF Durable!Boot
    <3>3. QED
      BY <3>2 DEF Durable!Next
  <2>3. CASE pc' = "fallback" /\ UNCHANGED ram
    BY <2>1, <2>3 DEF ram, Durable!vars
  <2>4. QED
    BY <1>1, <2>2, <2>3 DEF InitActive
<1>2. CASE InitFallback
  <2>1. Candidates = {BootList(nvs)} /\ Candidates' = Candidates
    BY <1>2, CandidatesKept DEF InitFallback, CandidatesBy
  <2>2. Durable!Boot
    BY <1>2, <2>1, FallbackBoots DEF Durable!Boot
  <2>3. QED
    BY <2>2 DEF Durable!Next
<1>3. CASE RecordFallback \/ RecordFallbackSync \/ SetMeta \/ SyncMeta \/ WriteInactive
  <2>1. UNCHANGED served
    BY <1>3 DEF RecordFallback, RecordFallbackSync, SetMeta, SyncMeta, WriteInactive, CommitFails, ram
  <2>2. /\ pc \notin {"boot", "fallback", "flip", "flipsync"}
        /\ pc' \notin {"boot", "fallback", "flip", "flipsync"}
    BY <1>3 DEF RecordFallback, RecordFallbackSync, SetMeta, SyncMeta, WriteInactive, CommitFails, MetaStep
  <2>3. QED
    BY <2>1, <2>2, QuietStepRefines
<1>4. ASSUME NEW s \in -1..2, NEW r \in Requests, CommitBegin(s, r)
      PROVE  [Durable!Next]_(Durable!vars)
  BY <1>4, QuietStepRefines DEF CommitBegin, ram
<1>5. CASE LoadCommitted
  <2>1. CASE CommitFails(LoadMayFail(arg.slot))
    BY <1>5, <2>1, QuietStepRefines DEF LoadCommitted, CommitFails, ram
  <2>2. CASE /\ Loadable(arg.slot) /\ SwapIn(arg.slot) /\ pc' = "flip"
             /\ UNCHANGED <<flash, nvs, nvsFlash, arg, intact>>
    <3>. DEFINE s == arg.slot
                n == nvs[<<"cnt", s>>]
    <3>1. s \in Slots /\ pc = "load"
      BY <1>0, <1>5 DEF LoadCommitted, TypeOK, CommitSteps
    <3>2. served' = Prefix(flash[s], n) /\ served' # <<>> /\ n \in MinDomains..SlotWords
      BY <1>0, <2>2, <3>1, LoadableIsSound DEF SwapIn
    <3>3. \E r \in Requests : r.cnt = n
      BY <1>0, <2>2, <3>1 DEF TypeOK, NvsTypeOK, Loadable, LoadableIn
    <3>4. flash[s] \in Images /\ n \in 1..SlotWords
      BY <1>0, <3>1, <3>2, SizesAssumption DEF TypeOK
    <3>5. served' \in StoredLists
      BY <3>2, <3>3, <3>4 DEF StoredLists
    <3>6. Candidates' = Candidates
      BY <2>2, CandidatesKept
    <3>7. (TypeOK /\ PowerCutInv /\ Settled => PowerCutSafe)'
      BY InvIsPowerCutSafe, PTL
    <3>8. intact'
      BY DEF RInv, Settled
    <3>9. <<>> \notin Candidates
      BY <3>2, <3>6, <3>7, <3>8 DEF PowerCutSafe, RInv
    <3>10. Durable!Serve
      BY <2>2, <3>1, <3>5, <3>6, <3>9 DEF Durable!Serve, Durable!None
    <3>11. QED
      BY <3>10 DEF Durable!Next
  <2>3. QED
    BY <1>5, <2>1, <2>2 DEF LoadCommitted
<1>6. CASE Flip
  <2>1. /\ UNCHANGED <<flash, nvsFlash, served>> /\ served # <<>>
        /\ pc = "flip" /\ pc' = "flipsync"
    BY <1>6 DEF Flip, ram, RInv, Settled
  <2>2. Candidates = {BootList(nvs)} /\ Candidates' = {served', BootList(nvsFlash)'}
    BY <2>1 DEF CandidatesBy
  <2>3. BootList(nvsFlash)' = BootList(nvsFlash)
    BY <2>1 DEF BootList, BootSlot, LoadableIn, OrderedFor, Words, List, Prefix
  <2>4. BootList(nvsFlash) = BootList(nvs)
    <3>1. \A k \in Keys : nvsFlash[k] = nvs[k]
      BY <2>1 DEF RInv, Settled, Undurable
    <3>2. QED
      BY <3>1, SameBoot
  <2>5. Durable!MakeDurable
    BY <2>1, <2>2, <2>3, <2>4 DEF Durable!MakeDurable, Durable!None
  <2>6. QED
    BY <2>5 DEF Durable!Next
<1>7. CASE FlipSync
  <2>1. UNCHANGED served /\ served # <<>> /\ pc = "flipsync" /\ pc' = "ready"
    BY <1>0, <1>7 DEF FlipSync, CommitFails, ram, RInv, Settled
  <2>2. Candidates' = {served}
    BY <2>1 DEF CandidatesBy
  <2>3. Durable!MakeDurable
    BY <2>1, <2>2 DEF Durable!MakeDurable, Durable!None
  <2>4. QED
    BY <2>3 DEF Durable!Next
<1>8. CASE Crash
  <2>1. nvs' \in Survivors /\ UNCHANGED flash /\ served' = <<>> /\ pc' = "boot"
    BY <1>8 DEF Crash
  <2>2. Candidates' = {BootList(nvs)'}
    BY <2>1 DEF CandidatesBy
  <2>3. \E v \in Survivors : BootList(nvs)' = BootList(v)
    <3>1. BootList(nvs)' = BootList(nvs')
      BY <2>1 DEF BootList, BootSlot, LoadableIn, OrderedFor, Words, List, Prefix
    <3>2. QED
      BY <2>1, <3>1
  <2>4. Durable!Crash
    BY <2>1, <2>2, <2>3 DEF Durable!Crash, Durable!None, Candidates
  <2>5. QED
    BY <2>4 DEF Durable!Next
<1>9. CASE BootEraseNvs \/ Corrupt
  BY <1>9 DEF BootEraseNvs, Corrupt, OnlyPowerFails
<1>10. QED
  BY <1>1, <1>2, <1>3, <1>4, <1>5, <1>6, <1>7, <1>8, <1>9 DEF Next, StoreStep

LEMMA RefinementInit == Init => Durable!Init
<1>. SUFFICES ASSUME Init PROVE Durable!Init
  OBVIOUS
<1>1. served = <<>> /\ pc = "boot" /\ \A k \in Keys : nvs[k] = Absent
  BY DEF Init
<1>2. Candidates = {BootList(nvs)}
  BY <1>1, RInvInit, CandidatesAre DEF CandidatesBy
<1>3. \A s \in Slots : ~LoadableIn(nvs, s)
  BY <1>1 DEF LoadableIn, Keys, Meta, Slots
<1>4. BootList(nvs) = <<>>
  BY <1>3 DEF BootList, BootSlot, Slots
<1>5. QED
  BY <1>1, <1>2, <1>4 DEF Durable!Init, Durable!None

\* Every boot, commit and power cut is a step that DurableList allows: the served
\* list changes at once and never before a reboot would find one, the durable one
\* only to the one that is served, and a crash decides between the two at most.
THEOREM ImplementsDurableListCorrect ==
    ASSUME OnlyPowerFails PROVE Spec => ImplementsDurableList
<1>1. Init => RInv /\ CandidatesBy /\ Durable!Init
  BY RInvInit, RefinementInit, CandidatesAre
<1>2. RInv /\ [Next]_vars => RInv'
  <2>1. RInv /\ [Next]_vars => TypeOK'
    BY TypeStep DEF RInv
  <2>2. RInv /\ [Next]_vars => intact'
    BY DEF RInv, Settled, OnlyPowerFails, Next, StoreStep, InitActive, InitFallback,
       RecordFallback, RecordFallbackSync, SetMeta, SyncMeta, LoadCommitted, Flip, FlipSync,
       CommitFails, BootEraseNvs, Corrupt, Crash, WriteInactive, CommitBegin, vars
  <2>3. RInv /\ [Next]_vars => PowerCutInv'
    BY <2>2, PowerCutStep DEF RInv
  <2>4. QED
    BY <2>1, <2>3, SettledStep DEF RInv
<1>3. RInv /\ RInv' /\ [Next]_vars => [Durable!Next]_(Durable!vars)
  <2>1. RInv => CandidatesBy
    BY CandidatesAre
  <2>2. RInv' => CandidatesBy'
    BY CandidatesAre, PTL
  <2>3. RInv /\ RInv' /\ Next => [Durable!Next]_(Durable!vars)
    BY <2>1, <2>2, RefinementStep DEF RInv
  <2>4. UNCHANGED vars => UNCHANGED Durable!vars
    BY CandidatesKept DEF vars, Durable!vars
  <2>5. QED
    BY <2>3, <2>4
<1>4. QED
  BY <1>1, <1>2, <1>3, PTL DEF Spec, ImplementsDurableList, Durable!Spec
==============================================================================
