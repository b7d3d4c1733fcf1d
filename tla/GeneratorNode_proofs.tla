------------------------- MODULE GeneratorNode_proofs -------------------------
(* Theorems about GeneratorNode, for every set of artifacts, of structures the *)
(* heap may hand out, and of faults; where NVS must not fail, the theorem says *)
(* so, and the run Node_nvs shows why.                                         *)
EXTENDS GeneratorNode, FiniteSetTheorems, TLAPS

-----------------------------------------------------------------------------
(* Types *)

SaveSteps == {"erase", "write", "cnt", "sha", "ver", "sync", "verify", "flip", "flipsync"}
TaskSteps == {"fetch", "generate", "clear", "wait"} \cup SaveSteps
PublishSteps == {"publish", "swap", "free"}

Versioned == [art : Artifacts \cup {"blank"}, ver : Artifacts \cup {Absent}]

\* What an NVS view holds.
ViewOK(v) ==
    /\ v = [k \in Keys |-> v[k]]
    /\ v[Active] \in Slots \cup {Absent}
    /\ \A k \in Keys \ {Active} : v[k] \in Artifacts \cup {Absent}

\* TypeOK, with what it leaves to TLC: the shape of every variable, and where an
\* artifact is at hand.
Types ==
    /\ part \in [Slots -> Artifacts \cup {"blank", "garbage"}]
    /\ ViewOK(nvs) /\ ViewOK(nvsFlash)
    /\ art \in Versioned
    /\ objs \in [Objects -> Versioned]
    /\ {current, next, old, sending} \subseteq Objects \cup {NULL}
    /\ \A o \in Allocated : objs[o].art \in Artifacts
    /\ {taskUp, notified, saved, owed} \subseteq BOOLEAN
    /\ pc \in {"boot", "start"} \cup PublishSteps \cup TaskSteps
    /\ pc \in TaskSteps => taskUp
    /\ pc \in SaveSteps \cup {"publish"} => art.art \in Artifacts

LEMMA KeysDiffer ==
    /\ Active \in Keys
    /\ \A s \in Slots : \A x \in {"cnt", "sha", "ver"} :
          <<x, s>> \in Keys \ {Active}
    /\ \A k \in Keys \ {Active} : \E s \in Slots : \E x \in {"cnt", "sha", "ver"} : k = <<x, s>>
BY DEF Keys, Active, Slots

LEMMA SurvivorsTyped ==
    ASSUME ViewOK(nvs), ViewOK(nvsFlash), NEW v \in Survivors
    PROVE  /\ ViewOK(v)
           /\ \A k \in Keys : v[k] \in {nvs[k], nvsFlash[k]}
<1>1. PICK kept \in SUBSET Keys : v = [k \in Keys |-> IF k \in kept THEN nvs[k] ELSE nvsFlash[k]]
  BY DEF Survivors
<1>2. \A k \in Keys : v[k] \in {nvs[k], nvsFlash[k]}
  BY <1>1
<1>3. v = [k \in Keys |-> v[k]]
  BY <1>1
<1>4. QED
  BY <1>2, <1>3, KeysDiffer DEF ViewOK

LEMMA TypesInit == Init => Types
<1>. SUFFICES ASSUME Init PROVE Types
  OBVIOUS
<1>1. ViewOK(nvs) /\ nvsFlash = nvs
  BY KeysDiffer DEF Init, ViewOK
<1>2. QED
  BY <1>1 DEF Init, Types, NoArt, Free, Allocated, Versioned, SaveSteps, TaskSteps, PublishSteps

\* Every step keeps the types.
LEMMA TypesStep == Types /\ [Next]_vars => Types'
<1>. SUFFICES ASSUME Types, [Next]_vars PROVE Types'
  OBVIOUS
<1>. USE DEF SaveSteps, TaskSteps, PublishSteps
<1>1. CASE Restore
  <2>1. CASE Loadable(nvs) /\ art' = [art |-> part[nvs[Active]], ver |-> nvs[<<"ver", nvs[Active]>>]]
             /\ pc' = "publish"
    <3>1. /\ nvs[Active] \in Slots /\ part[nvs[Active]] \in Artifacts
          /\ nvs[<<"ver", nvs[Active]>>] \in Artifacts \cup {Absent}
      BY <2>1, KeysDiffer DEF Loadable, Verifies, Types, ViewOK
    <3>2. QED
      BY <1>1, <2>1, <3>1 DEF Restore, Types, ViewOK, Versioned, Allocated, flash, serve, refresh
  <2>2. CASE art' = art /\ pc' = "start"
    BY <1>1, <2>2 DEF Restore, Types, ViewOK, Allocated, flash, serve, refresh
  <2>3. QED
    BY <1>1, <2>1, <2>2 DEF Restore
<1>2. CASE StartTask \/ Fetch \/ Clear \/ Wake \/ Refresh
  BY <1>2 DEF StartTask, Fetch, Clear, Wake, Refresh, Types, ViewOK, Allocated, flash, serve, refresh
<1>3. CASE Generate
  BY <1>3 DEF Generate, Types, ViewOK, Versioned, Allocated, flash, serve, refresh
<1>4. CASE Erase
  <2>1. SaveSlot \in Slots
    BY DEF SaveSlot, Slots
  <2>2. part' \in [Slots -> Artifacts \cup {"blank", "garbage"}]
    BY <1>4, <2>1 DEF Erase, SaveFails, flash, Types
  <2>3. QED
    BY <1>4, <2>2 DEF Erase, SaveFails, Types, ViewOK, Allocated, flash, serve, refresh
<1>5. CASE Write
  <2>1. SaveSlot \in Slots /\ art.art \in Artifacts
    BY <1>5 DEF SaveSlot, Slots, Write, Types
  <2>2. part' \in [Slots -> Artifacts \cup {"blank", "garbage"}]
    BY <1>5, <2>1 DEF Write, SaveFails, flash, Types
  <2>3. QED
    BY <1>5, <2>2 DEF Write, SaveFails, Types, ViewOK, Allocated, flash, serve, refresh
<1>6. CASE SetMeta
  <2>1. pc \in {"cnt", "sha", "ver"}
    BY <1>6 DEF SetMeta, MetaStep
  <2>2. ViewOK(nvs') /\ pc' \in {"sha", "ver", "sync", "publish"}
    <3>1. CASE nvs' = [nvs EXCEPT ![<<pc, SaveSlot>>] = IF pc = "ver" THEN art.ver ELSE art.art]
               /\ pc' = MetaStep[pc]
      <4>1. SaveSlot \in Slots /\ art.art \in Artifacts /\ art.ver \in Artifacts \cup {Absent}
        BY <2>1 DEF SaveSlot, Slots, Types, Versioned
      <4>2. <<pc, SaveSlot>> \in Keys \ {Active}
        BY <2>1, <4>1, KeysDiffer
      <4>3. nvs' = [k \in Keys |-> IF k = <<pc, SaveSlot>>
                                   THEN IF pc = "ver" THEN art.ver ELSE art.art ELSE nvs[k]]
        BY <3>1 DEF Types, ViewOK
      <4>4. pc' \in {"sha", "ver", "sync"}
        BY <2>1, <3>1 DEF MetaStep
      <4>5. nvs' = [k \in Keys |-> nvs'[k]]
        BY <4>3
      <4>6. QED
        BY <4>1, <4>2, <4>3, <4>4, <4>5, KeysDiffer DEF Types, ViewOK
    <3>2. CASE SaveFails("nvs")
      BY <3>2 DEF SaveFails, flash, Types, ViewOK
    <3>3. QED
      BY <1>6, <3>1, <3>2 DEF SetMeta
  <2>3. QED
    BY <1>6, <2>1, <2>2 DEF SetMeta, SaveFails, Types, ViewOK, Allocated, flash, serve, refresh
<1>7. CASE SyncMeta \/ ReadBack \/ FlipSync
  BY <1>7 DEF SyncMeta, ReadBack, FlipSync, SaveFails, Types, ViewOK, Allocated, flash, serve, refresh
<1>8. CASE Flip
  <2>1. CASE nvs' = [nvs EXCEPT ![Active] = SaveSlot] /\ pc' = "flipsync"
             /\ UNCHANGED <<part, nvsFlash>>
    <3>1. SaveSlot \in Slots
      BY DEF SaveSlot, Slots
    <3>2. nvs' = [k \in Keys |-> IF k = Active THEN SaveSlot ELSE nvs[k]]
      BY <2>1 DEF Types, ViewOK
    <3>3. ViewOK(nvs')
      BY <3>1, <3>2, KeysDiffer DEF Types, ViewOK
    <3>4. QED
      BY <1>8, <2>1, <3>3 DEF Flip, Types, ViewOK, Allocated, serve, refresh
  <2>2. CASE SaveFails("nvs")
    BY <1>8, <2>2 DEF Flip, SaveFails, Types, ViewOK, Allocated, flash, serve, refresh
  <2>3. QED
    BY <1>8, <2>1, <2>2 DEF Flip
<1>9. CASE Encode
  <2>1. art.art \in Artifacts /\ NoArt \in Versioned
    BY <1>9 DEF Encode, Types, NoArt, Versioned
  <2>2. pc' \in {"swap", "clear", "start"} /\ (pc' = "clear" => taskUp)
    BY <1>9 DEF Encode, AfterPublish
  <2>3. /\ objs' \in [Objects -> Versioned] /\ next' \in Objects \cup {NULL}
        /\ \A o \in Objects : objs'[o] # Free => objs'[o].art \in Artifacts
    <3>1. CASE UNCHANGED <<objs, next>>
      BY <3>1 DEF Types, Allocated
    <3>2. CASE \E o \in Objects \ Allocated : objs' = [objs EXCEPT ![o] = art] /\ next' = o
      <4>1. PICK o \in Objects : objs' = [objs EXCEPT ![o] = art] /\ next' = o
        BY <3>2
      <4>2. QED
        BY <2>1, <4>1 DEF Types, Allocated
    <3>3. QED
      BY <1>9, <3>1, <3>2 DEF Encode
  <2>4. QED
    BY <1>9, <2>1, <2>2, <2>3 DEF Encode, Types, ViewOK, Allocated, flash, refresh
<1>10. CASE Swap
  BY <1>10 DEF Swap, Types, ViewOK, Allocated, flash, refresh
<1>11. CASE FreeOld
  <2>1. Free \in Versioned
    BY DEF Free, NoArt, Versioned
  <2>2. pc' \in {"clear", "start"} /\ (pc' = "clear" => taskUp)
    BY <1>11 DEF FreeOld, AfterPublish
  <2>3. /\ objs' \in [Objects -> Versioned]
        /\ \A o \in Objects : objs'[o] \in {objs[o], Free}
    BY <1>11, <2>1 DEF FreeOld, Types
  <2>4. QED
    BY <1>11, <2>2, <2>3 DEF FreeOld, Types, ViewOK, Allocated, flash, refresh
<1>12. CASE SendBegin \/ SendEnd
  BY <1>12 DEF SendBegin, SendEnd, Types, ViewOK, Allocated, flash, serve, refresh
<1>13. CASE Crash
  <2>1. ViewOK(nvs') /\ ViewOK(nvsFlash')
    BY <1>13, SurvivorsTyped DEF Crash, Types
  <2>2. QED
    BY <1>13, <2>1 DEF Crash, Reset, Types, Allocated, NoArt, Free, Versioned
<1>14. CASE UNCHANGED vars
  BY <1>14 DEF vars, Types, ViewOK, Allocated, flash, serve, refresh
<1>15. QED
  BY <1>1, <1>2, <1>3, <1>4, <1>5, <1>6, <1>7, <1>8, <1>9, <1>10, <1>11, <1>12, <1>13, <1>14
     DEF Next, Task

LEMMA TypesImply == Types => TypeOK
BY DEF Types, TypeOK, ViewOK, Versioned, TaskSteps, SaveSteps, PublishSteps, Keys, Active

LEMMA TypesCorrect == Spec => []Types
<1>1. QED
  BY TypesInit, TypesStep, PTL DEF Spec

\* The variables stay in their types, and until the task runs only the restore does.
THEOREM TypeCorrect == Spec => []TypeOK
<1>1. QED
  BY TypesCorrect, TypesImply, PTL

-----------------------------------------------------------------------------
(* The published structures *)

\* The pointers of http_serve_publish own the structures that are allocated, and
\* a handler holds the published one.
Pointers ==
    /\ pc # "swap" => next = NULL
    /\ pc # "free" => old = NULL
    /\ pc = "swap" => next # NULL /\ next # current /\ objs[next] # Free
    /\ current # NULL => objs[current] # Free /\ current # old
    /\ Allocated \subseteq {current, IF pc = "swap" THEN next ELSE old} \ {NULL}
    /\ sending # NULL => sending = current

LEMMA PointersInit == Init => Pointers
BY DEF Init, Pointers, Allocated

LEMMA PointersStep == Types /\ Pointers /\ [Next]_vars => Pointers'
<1>. SUFFICES ASSUME Types, Pointers, [Next]_vars PROVE Pointers'
  OBVIOUS
<1>0. NULL \notin Objects
  BY GeneratorAssumption DEF NULL
<1>1. CASE /\ pc \notin {"swap", "free"} /\ pc' \notin {"swap", "free"}
           /\ UNCHANGED <<serve, sending>>
  BY <1>1 DEF Pointers, Allocated, serve
<1>2. CASE Restore \/ StartTask \/ Fetch \/ Generate \/ Clear \/ Wake
  BY <1>1, <1>2 DEF Restore, StartTask, Fetch, Generate, Clear, Wake
<1>3. CASE Erase \/ Write \/ SyncMeta \/ ReadBack \/ Flip \/ FlipSync
  BY <1>1, <1>3 DEF Erase, Write, SyncMeta, ReadBack, Flip, FlipSync, SaveFails
<1>4. CASE SetMeta
  <2>1. pc \in {"cnt", "sha", "ver"} /\ pc' \in {"sha", "ver", "sync", "publish"}
    BY <1>4 DEF SetMeta, MetaStep, SaveFails
  <2>2. QED
    BY <1>1, <1>4, <2>1 DEF SetMeta
<1>5. CASE Encode
  <2>1. CASE UNCHANGED <<objs, next>> /\ pc' = AfterPublish
    BY <1>1, <1>5, <2>1 DEF Encode, AfterPublish, serve
  <2>2. CASE (\E o \in Objects \ Allocated : objs' = [objs EXCEPT ![o] = art] /\ next' = o) /\ pc' = "swap"
    <3>1. PICK o \in Objects \ Allocated : objs' = [objs EXCEPT ![o] = art] /\ next' = o
      BY <2>2
    <3>2. art # Free
      BY <1>5, GeneratorAssumption DEF Encode, Types, Free, NoArt
    <3>3. objs' = [q \in Objects |-> IF q = o THEN art ELSE objs[q]]
      BY <3>1 DEF Types
    <3>4. Allocated' = Allocated \cup {o}
      BY <3>2, <3>3 DEF Allocated
    <3>5. current # o /\ objs'[o] # Free /\ old = NULL /\ o # NULL
      BY <1>0, <1>5, <3>1, <3>2, <3>3 DEF Encode, Pointers, Allocated
    <3>6. current # NULL => objs'[current] # Free
      BY <3>3, <3>5 DEF Pointers, Types
    <3>7. QED
      BY <1>5, <2>2, <3>1, <3>4, <3>5, <3>6 DEF Encode, Pointers
  <2>3. QED
    BY <1>5, <2>1, <2>2 DEF Encode
<1>6. CASE Swap
  BY <1>6 DEF Swap, Pointers, Allocated
<1>7. CASE FreeOld
  <2>1. pc' \in {"clear", "start"}
    BY <1>7 DEF FreeOld, AfterPublish
  <2>2. CASE old = NULL
    BY <1>7, <2>1, <2>2 DEF FreeOld, Pointers, Allocated
  <2>3. CASE old # NULL
    <3>1. objs' = [q \in Objects |-> IF q = old THEN Free ELSE objs[q]]
      BY <1>7, <2>3 DEF FreeOld, Types
    <3>2. Allocated' = Allocated \ {old}
      BY <3>1 DEF Allocated
    <3>3. current # NULL => objs'[current] # Free
      BY <3>1 DEF Pointers, Types
    <3>4. QED
      BY <1>7, <2>1, <3>2, <3>3 DEF FreeOld, Pointers
  <2>4. QED
    BY <2>2, <2>3
<1>8. CASE Refresh \/ SendBegin \/ SendEnd
  BY <1>8 DEF Refresh, SendBegin, SendEnd, Pointers, Allocated, serve
<1>9. CASE Crash
  BY <1>9 DEF Crash, Reset, Pointers, Allocated
<1>10. CASE UNCHANGED vars
  BY <1>10 DEF vars, Pointers, Allocated, serve
<1>11. QED
  BY <1>2, <1>3, <1>4, <1>5, <1>6, <1>7, <1>8, <1>9, <1>10 DEF Next, Task

LEMMA PairSize ==
    ASSUME NEW a, NEW b, NEW S \in SUBSET {a, b}
    PROVE  Cardinality(S) <= 2
<1>1. IsFiniteSet({a, b}) /\ Cardinality({a, b}) <= 2
  <2>1. IsFiniteSet({b}) /\ Cardinality({b}) = 1
    BY FS_Singleton
  <2>2. {a, b} = {b} \cup {a}
    OBVIOUS
  <2>3. QED
    BY <2>1, <2>2, FS_AddElement
<1>2. IsFiniteSet(S) /\ Cardinality(S) <= Cardinality({a, b})
  BY <1>1, FS_Subset
<1>3. Cardinality(S) \in Nat /\ Cardinality({a, b}) \in Nat
  BY <1>1, <1>2, FS_CardinalityType
<1>4. QED
  BY <1>1, <1>2, <1>3

LEMMA PointersImply == Pointers => SendsLiveArtifact
<1>. SUFFICES ASSUME Pointers PROVE SendsLiveArtifact
  OBVIOUS
<1>1. sending # NULL => objs[sending] # Free
  BY DEF Pointers
<1>2. Allocated \in SUBSET {current, IF pc = "swap" THEN next ELSE old}
  BY DEF Pointers
<1>3. Cardinality(Allocated) <= 2
  BY <1>2, PairSize
<1>4. QED
  BY <1>1, <1>3 DEF SendsLiveArtifact

\* However publishes, sends and crashes interleave, no handler sends freed memory.
THEOREM SendsLiveArtifactCorrect == Spec => []SendsLiveArtifact
<1>1. QED
  BY PointersInit, PointersStep, TypesCorrect, PointersImply, PTL DEF Spec

-----------------------------------------------------------------------------
(* What is persisted, while NVS calls do not fail *)

MetaKeys(s) == {<<x, s>> : x \in {"cnt", "sha", "ver"}}

\* Slot s holds an artifact, and its metadata is that artifact's and durable.
Holds(s) ==
    /\ part[s] \in Artifacts
    /\ \A k \in MetaKeys(s) : nvs[k] = part[s] /\ nvsFlash[k] = part[s]

\* The keys a save has set and not yet made durable.
Undurable ==
    IF pc \in {"sha", "ver", "sync"} THEN MetaKeys(SaveSlot)
    ELSE IF pc = "flipsync" THEN {Active} ELSE {}

\* The metadata a save has set.
SetSoFar ==
    CASE pc = "sha" -> {"cnt"}
      [] pc = "ver" -> {"cnt", "sha"}
      [] pc \in {"sync", "verify", "flip"} -> {"cnt", "sha", "ver"}
      [] OTHER -> {}

\* A slot is named only once it holds an artifact, and no save touches one that
\* is; a label is that of its artifact.
Persisted ==
    /\ \A k \in Keys \ Undurable : nvs[k] = nvsFlash[k]
    /\ nvs[Active] \in Slots => Holds(nvs[Active])
    /\ nvsFlash[Active] \in Slots => Holds(nvsFlash[Active])
    /\ saved => nvs[Active] \in Slots /\ nvsFlash[Active] \in Slots
    /\ \A x \in SetSoFar : nvs[<<x, SaveSlot>>] = art.art
    /\ pc = "flip" => part[SaveSlot] = art.art
    /\ pc = "flipsync" => nvs[Active] \in Slots /\ part[nvs[Active]] = art.art
    /\ art.art \in Artifacts => art.ver = art.art
    /\ \A o \in Allocated : objs[o].ver = objs[o].art

\* The slot of a save is not one that a record names.
LEMMA SaveSlotFree ==
    ASSUME Types, Persisted
    PROVE  /\ SaveSlot \in Slots
           /\ pc # "flipsync" => SaveSlot # nvs[Active] /\ nvsFlash[Active] = nvs[Active]
<1>1. SaveSlot \in Slots
  BY DEF SaveSlot, Slots
<1>2. SaveSlot # nvs[Active]
  BY GeneratorAssumption DEF SaveSlot, Types, ViewOK, Slots
<1>3. pc # "flipsync" => Active \notin Undurable
  BY <1>1, KeysDiffer DEF Undurable, MetaKeys
<1>4. QED
  BY <1>1, <1>2, <1>3, KeysDiffer DEF Persisted

LEMMA MetaKeysDiffer ==
    /\ \A s \in Slots : MetaKeys(s) \subseteq Keys \ {Active}
    /\ \A s \in Slots, t \in Slots : s # t => MetaKeys(s) \cap MetaKeys(t) = {}
BY DEF MetaKeys, Keys, Active, Slots

LEMMA PersistedInit == Init => Persisted
<1>. SUFFICES ASSUME Init PROVE Persisted
  OBVIOUS
<1>1. nvs[Active] \notin Slots /\ nvsFlash = nvs
  BY KeysDiffer, GeneratorAssumption DEF Init, Slots
<1>2. SetSoFar = {} /\ Undurable = {} /\ Allocated = {}
  BY DEF Init, SetSoFar, Undurable, Allocated
<1>3. QED
  BY <1>1, <1>2, GeneratorAssumption DEF Init, Persisted, NoArt

\* What is at hand and what is allocated is labelled with its own version.
LEMMA LabelsStep ==
    ASSUME Types, Persisted, [Next]_vars
    PROVE  /\ art'.art \in Artifacts => art'.ver = art'.art
           /\ \A o \in Allocated' : objs'[o].ver = objs'[o].art
<1>1. art'.art \in Artifacts => art'.ver = art'.art
  <2>1. CASE Restore
    <3>1. CASE art' = art
      BY <3>1 DEF Persisted
    <3>2. CASE Loadable(nvs) /\ art' = [art |-> part[nvs[Active]], ver |-> nvs[<<"ver", nvs[Active]>>]]
      BY <3>2 DEF Loadable, Persisted, Holds, MetaKeys
    <3>3. QED
      BY <2>1, <3>1, <3>2 DEF Restore
  <2>2. CASE Generate
    BY <2>2 DEF Generate, Persisted
  <2>3. CASE Encode \/ Crash
    BY <2>3, GeneratorAssumption DEF Encode, Crash, Reset, NoArt
  <2>4. CASE UNCHANGED art
    BY <2>4 DEF Persisted
  <2>5. QED
    BY <2>1, <2>2, <2>3, <2>4 DEF Next, Task, vars, StartTask, Fetch, Erase, Write, SetMeta,
       SyncMeta, ReadBack, Flip, FlipSync, Swap, FreeOld, Clear, Wake, Refresh, SendBegin, SendEnd
<1>2. \A o \in Allocated' :
         \/ objs'[o] = objs[o] /\ o \in Allocated
         \/ objs'[o] = art /\ art.art \in Artifacts
  <2>1. CASE Encode
    <3>1. CASE UNCHANGED objs
      BY <3>1 DEF Allocated
    <3>2. CASE \E o \in Objects \ Allocated : objs' = [objs EXCEPT ![o] = art]
      <4>1. PICK o \in Objects : objs' = [objs EXCEPT ![o] = art]
        BY <3>2
      <4>2. \A q \in Objects : objs'[q] = IF q = o THEN art ELSE objs[q]
        BY <4>1 DEF Types
      <4>3. art.art \in Artifacts
        BY <2>1 DEF Encode, Types, PublishSteps
      <4>4. QED
        BY <4>2, <4>3 DEF Allocated
    <3>3. QED
      BY <2>1, <3>1, <3>2 DEF Encode
  <2>2. CASE FreeOld
    <3>1. \A q \in Objects : objs'[q] \in {objs[q], Free}
      BY <2>2 DEF FreeOld, Types
    <3>2. QED
      BY <3>1 DEF Allocated
  <2>3. CASE Crash
    BY <2>3 DEF Crash, Reset, Allocated
  <2>4. CASE UNCHANGED objs
    BY <2>4 DEF Allocated
  <2>5. QED
    BY <2>1, <2>2, <2>3, <2>4 DEF Next, Task, vars, serve, Restore, StartTask, Fetch, Generate,
       Erase, Write, SetMeta, SyncMeta, ReadBack, Flip, FlipSync, Swap, Clear, Wake, Refresh,
       SendBegin, SendEnd
<1>3. QED
  BY <1>1, <1>2 DEF Persisted

\* A step that is not part of a save leaves flash alone.
LEMMA PersistedKept ==
    ASSUME Types, Persisted, [Next]_vars, UNCHANGED <<flash, saved>>,
           Undurable \subseteq Undurable', SetSoFar' = {},
           pc' \notin {"flip", "flipsync"}
    PROVE  Persisted'
BY LabelsStep DEF Persisted, Holds, flash

LEMMA PersistedStep ==
    ASSUME "nvs" \notin Faults
    PROVE  Types /\ Persisted /\ [Next]_vars => Persisted'
<1>. SUFFICES ASSUME Types, Persisted, [Next]_vars PROVE Persisted'
  OBVIOUS
<1>. USE DEF SaveSteps, TaskSteps, PublishSteps
<1>0. /\ SaveSlot \in Slots
      /\ pc # "flipsync" => SaveSlot # nvs[Active] /\ nvsFlash[Active] = nvs[Active]
  BY SaveSlotFree
<1>1. CASE Restore \/ StartTask \/ Fetch \/ Generate \/ Clear \/ Wake \/ Encode \/ Swap \/ FreeOld
  <2>1. /\ UNCHANGED <<flash, saved>>
        /\ pc \notin {"sha", "ver", "sync", "flipsync"}
        /\ pc' \notin {"sha", "ver", "sync", "verify", "flip", "flipsync"}
    BY <1>1 DEF Restore, StartTask, Fetch, Generate, Clear, Wake, Encode, Swap, FreeOld, AfterPublish
  <2>2. QED
    BY <2>1, PersistedKept DEF Undurable, SetSoFar
<1>2. CASE Refresh \/ SendBegin \/ SendEnd \/ UNCHANGED vars
  <2>1. UNCHANGED <<flash, saved, pc, art>>
    BY <1>2 DEF Refresh, SendBegin, SendEnd, vars
  <2>2. Undurable' = Undurable /\ SetSoFar' = SetSoFar /\ SaveSlot' = SaveSlot
    BY <2>1 DEF Undurable, SetSoFar, SaveSlot, flash
  <2>3. QED
    BY <2>1, <2>2, LabelsStep DEF Persisted, Holds, flash
<1>3. CASE Erase \/ Write
  <2>1. /\ pc \in {"erase", "write"} /\ pc' \in {"write", "cnt", "publish"}
        /\ UNCHANGED <<nvs, nvsFlash, saved>>
    BY <1>3 DEF Erase, Write, SaveFails, flash
  <2>2. \A s \in Slots \ {SaveSlot} : part'[s] = part[s]
    BY <1>0, <1>3 DEF Erase, Write, SaveFails, flash, Types
  <2>3. Undurable = {} /\ Undurable' = {} /\ SetSoFar' = {}
    BY <2>1 DEF Undurable, SetSoFar
  <2>4. \A v \in {nvs, nvsFlash} : v[Active] \in Slots => part'[v[Active]] = part[v[Active]]
    BY <1>0, <2>1, <2>2
  <2>5. QED
    BY <2>1, <2>3, <2>4, LabelsStep DEF Persisted, Holds
<1>4. CASE SetMeta
  <2>1. /\ pc \in {"cnt", "sha", "ver"} /\ pc' = MetaStep[pc]
        /\ nvs' = [nvs EXCEPT ![<<pc, SaveSlot>>] = IF pc = "ver" THEN art.ver ELSE art.art]
        /\ UNCHANGED <<part, nvsFlash, art, saved>>
    BY <1>4 DEF SetMeta, MetaStep, SaveFails
  <2>2. art.art \in Artifacts /\ art.ver = art.art
    BY <2>1 DEF Types, Persisted
  <2>3. nvs' = [k \in Keys |-> IF k = <<pc, SaveSlot>> THEN art.art ELSE nvs[k]]
    BY <2>1, <2>2 DEF Types, ViewOK
  <2>4. <<pc, SaveSlot>> \in MetaKeys(SaveSlot)
    BY <2>1 DEF MetaKeys
  <2>5. \A k \in Keys \ MetaKeys(SaveSlot) : nvs'[k] = nvs[k]
    BY <2>3, <2>4
  <2>6. nvs'[Active] = nvs[Active] /\ SaveSlot' = SaveSlot
    BY <1>0, <2>5, KeysDiffer, MetaKeysDiffer DEF SaveSlot
  <2>7. Undurable \subseteq MetaKeys(SaveSlot) /\ Undurable' = MetaKeys(SaveSlot)
    BY <2>1, <2>6 DEF Undurable, MetaStep
  <2>8. \A x \in {"cnt", "sha", "ver"} :
            nvs'[<<x, SaveSlot>>] = IF x = pc THEN art.art ELSE nvs[<<x, SaveSlot>>]
    BY <1>0, <2>3, KeysDiffer
  <2>9. \A x \in SetSoFar' : nvs'[<<x, SaveSlot>>] = art.art
    BY <2>1, <2>8 DEF SetSoFar, MetaStep, Persisted
  <2>10. pc' \in {"sha", "ver", "sync"}
    BY <2>1 DEF MetaStep
  <2>11. ASSUME NEW s \in Slots, s # SaveSlot, Holds(s)
         PROVE  Holds(s)'
    BY <1>0, <2>1, <2>5, <2>11, MetaKeysDiffer DEF Holds
  <2>12. /\ nvs'[Active] \in Slots => Holds(nvs[Active])'
         /\ nvsFlash'[Active] \in Slots => Holds(nvsFlash[Active])'
    BY <1>0, <2>1, <2>6, <2>11 DEF Persisted, Holds
  <2>13. QED
    BY <2>1, <2>5, <2>6, <2>7, <2>9, <2>10, <2>12, LabelsStep DEF Persisted
<1>5. CASE SyncMeta
  <2>1. /\ pc = "sync" /\ pc' = "verify" /\ nvsFlash' = nvs
        /\ UNCHANGED <<part, nvs, art, saved>>
    BY <1>5 DEF SyncMeta, SaveFails
  <2>2. Undurable' = {} /\ SetSoFar' = SetSoFar /\ SaveSlot' = SaveSlot
    BY <2>1 DEF Undurable, SetSoFar, SaveSlot
  <2>3. QED
    BY <1>0, <2>1, <2>2, LabelsStep DEF Persisted, Holds
<1>6. CASE ReadBack
  <2>1. /\ pc = "verify" /\ pc' \in {"flip", "publish"}
        /\ pc' = "flip" => part[SaveSlot] = art.art
        /\ UNCHANGED <<flash, art, saved>>
    BY <1>6 DEF ReadBack
  <2>2. Undurable' = Undurable /\ SetSoFar' \subseteq SetSoFar /\ SaveSlot' = SaveSlot
    BY <2>1 DEF Undurable, SetSoFar, SaveSlot, flash
  <2>3. QED
    BY <2>1, <2>2, LabelsStep DEF Persisted, Holds, flash
<1>7. CASE Flip
  <2>1. /\ pc = "flip" /\ pc' = "flipsync"
        /\ nvs' = [nvs EXCEPT ![Active] = SaveSlot]
        /\ UNCHANGED <<part, nvsFlash, art, saved>>
    BY <1>7 DEF Flip, SaveFails
  <2>2. nvs' = [k \in Keys |-> IF k = Active THEN SaveSlot ELSE nvs[k]]
    BY <2>1 DEF Types, ViewOK
  <2>3. \A s \in Slots : \A k \in MetaKeys(s) : nvs'[k] = nvs[k] /\ nvs[k] = nvsFlash[k]
    BY <2>1, <2>2, MetaKeysDiffer DEF Persisted, Undurable
  <2>4. nvs'[Active] = SaveSlot
    BY <2>2, KeysDiffer
  <2>5. part[SaveSlot] = art.art /\ art.art \in Artifacts
    BY <2>1 DEF Persisted, Types
  <2>6. \A k \in MetaKeys(SaveSlot) : nvs[k] = art.art
    BY <2>1 DEF MetaKeys, Persisted, SetSoFar
  <2>7. \A s \in Slots : Holds(s) => Holds(s)'
    BY <2>1, <2>3 DEF Holds
  <2>8. Holds(nvs[Active])'
    BY <1>0, <2>1, <2>3, <2>4, <2>5, <2>6 DEF Holds
  <2>9. nvsFlash[Active] \in Slots => Holds(nvsFlash[Active])'
    BY <2>1, <2>7 DEF Persisted, Holds
  <2>10. Undurable = {} /\ Undurable' = {Active} /\ SetSoFar' = {}
    BY <2>1 DEF Undurable, SetSoFar
  <2>11. \A k \in Keys \ {Active} : nvs'[k] = nvsFlash'[k]
    BY <2>1, <2>2, <2>10 DEF Persisted
  <2>12. QED
    BY <1>0, <2>1, <2>4, <2>5, <2>8, <2>9, <2>10, <2>11, LabelsStep DEF Persisted
<1>8. CASE FlipSync
  <2>1. /\ pc = "flipsync" /\ pc' = "publish" /\ nvsFlash' = nvs
        /\ UNCHANGED <<part, nvs, art>>
    BY <1>8 DEF FlipSync
  <2>2. Undurable = {Active} /\ Undurable' = {} /\ SetSoFar' = {} /\ nvs[Active] \in Slots
    BY <2>1 DEF Undurable, SetSoFar, Persisted
  <2>3. Holds(nvs[Active])'
    BY <2>1, <2>2 DEF Persisted, Holds
  <2>4. QED
    BY <2>1, <2>2, <2>3, LabelsStep DEF Persisted
<1>9. CASE Crash
  <2>1. /\ nvs' \in Survivors /\ nvsFlash' = nvs' /\ pc' = "boot" /\ art' = NoArt
        /\ UNCHANGED <<part, saved>>
    BY <1>9 DEF Crash, Reset
  <2>2. \A k \in Keys : nvs'[k] \in {nvs[k], nvsFlash[k]}
    BY <2>1, SurvivorsTyped DEF Types
  <2>3. nvs'[Active] \in Slots => Holds(nvs'[Active])
    BY <2>2, KeysDiffer DEF Persisted
  <2>4. ASSUME NEW s \in Slots, Holds(s)
        PROVE  Holds(s)'
    BY <2>1, <2>2, <2>4, MetaKeysDiffer DEF Holds
  <2>5. nvs'[Active] \in Slots => Holds(nvs[Active])'
    BY <2>3, <2>4
  <2>6. Undurable' = {} /\ SetSoFar' = {}
    BY <2>1 DEF Undurable, SetSoFar
  <2>7. saved => nvs'[Active] \in Slots
    BY <2>2, KeysDiffer DEF Persisted
  <2>8. QED
    BY <2>1, <2>5, <2>6, <2>7, LabelsStep DEF Persisted, Holds
<1>10. QED
  BY <1>1, <1>2, <1>3, <1>4, <1>5, <1>6, <1>7, <1>8, <1>9 DEF Next, Task

\* Whatever a power cut leaves of the record names a slot that holds an artifact.
LEMMA PersistedImplies == Types /\ Persisted => RestoreSafe /\ PublishedLabelTruthful
<1>. SUFFICES ASSUME Types, Persisted PROVE RestoreSafe /\ PublishedLabelTruthful
  OBVIOUS
<1>1. ASSUME saved, NEW v \in Survivors
      PROVE  Loadable(v)
  <2>1. \A k \in Keys : v[k] \in {nvs[k], nvsFlash[k]}
    BY SurvivorsTyped DEF Types
  <2>2. v[Active] \in Slots /\ Holds(v[Active])
    BY <1>1, <2>1, KeysDiffer DEF Persisted
  <2>3. \A k \in MetaKeys(v[Active]) : v[k] = part[v[Active]]
    BY <2>1, <2>2, MetaKeysDiffer DEF Holds
  <2>4. QED
    BY <2>2, <2>3 DEF Loadable, Verifies, Holds, MetaKeys
<1>2. QED
  BY <1>1 DEF RestoreSafe, PublishedLabelTruthful, Persisted

\* While NVS calls do not fail, a save that has succeeded is never lost again: not
\* to a write that goes wrong, not to a power cut in any later save.
THEOREM RestoreSafeCorrect == ASSUME "nvs" \notin Faults PROVE Spec => []RestoreSafe
<1>1. QED
  BY PersistedInit, PersistedStep, PersistedImplies, TypesCorrect, PTL DEF Spec

\* Under the same condition a version only ever labels the artifact it is that of.
THEOREM PublishedLabelTruthfulCorrect ==
    ASSUME "nvs" \notin Faults PROVE Spec => []PublishedLabelTruthful
<1>1. QED
  BY PersistedInit, PersistedStep, PersistedImplies, TypesCorrect, PTL DEF Spec

-----------------------------------------------------------------------------
(* The node implements DurableArtifact, while NVS calls do not fail *)

\* An artifact is at hand only between its generation, or its restoring, and its
\* publication; one that is restored is the durable one.
AtHand ==
    /\ pc \in {"boot", "start"} => ~taskUp
    /\ pc \notin SaveSteps \cup {"publish"} => art = NoArt
    /\ ~taskUp /\ pc \in {"publish", "swap"} =>
          /\ nvs = nvsFlash /\ nvs[Active] \in Slots
          /\ pc = "publish" => art.art = part[nvs[Active]]
          /\ pc = "swap" => objs[next].art = part[nvs[Active]]

LEMMA AtHandInit == Init => AtHand
BY DEF Init, AtHand, SaveSteps

LEMMA AtHandStep ==
    ASSUME "nvs" \notin Faults
    PROVE  Types /\ Pointers /\ Persisted /\ AtHand /\ [Next]_vars => AtHand'
<1>. SUFFICES ASSUME Types, Pointers, Persisted, AtHand, [Next]_vars PROVE AtHand'
  OBVIOUS
<1>. USE DEF SaveSteps, TaskSteps, PublishSteps
<1>1. CASE Restore
  <2>1. nvs = nvsFlash
    BY <1>1 DEF Restore, Persisted, Undurable, Types, ViewOK
  <2>2. QED
    BY <1>1, <2>1 DEF Restore, AtHand, Loadable, flash, refresh
<1>2. CASE StartTask \/ Fetch \/ Generate \/ Clear \/ Wake \/ Refresh
  BY <1>2 DEF StartTask, Fetch, Generate, Clear, Wake, Refresh, AtHand, flash, serve, refresh, Types
<1>3. CASE Erase \/ Write \/ SyncMeta \/ ReadBack \/ Flip \/ FlipSync
  <2>1. pc \in SaveSteps /\ pc' \in SaveSteps \cup {"publish"} /\ taskUp /\ taskUp'
    BY <1>3 DEF Erase, Write, SyncMeta, ReadBack, Flip, FlipSync, SaveFails, refresh, Types
  <2>2. QED
    BY <2>1 DEF AtHand
<1>4. CASE SetMeta
  <2>1. pc \in SaveSteps /\ pc' \in SaveSteps \cup {"publish"} /\ taskUp /\ taskUp'
    BY <1>4 DEF SetMeta, MetaStep, SaveFails, refresh, Types
  <2>2. QED
    BY <2>1 DEF AtHand
<1>5. CASE Encode
  <2>1. CASE pc' = AfterPublish
    BY <1>5, <2>1 DEF Encode, AfterPublish, AtHand, flash, refresh, NoArt
  <2>2. CASE \E o \in Objects \ Allocated : objs' = [objs EXCEPT ![o] = art] /\ next' = o
    <3>1. next' \in Objects /\ objs'[next'] = art
      BY <2>2 DEF Types
    <3>2. QED
      BY <1>5, <3>1 DEF Encode, AfterPublish, AtHand, flash, refresh, NoArt
  <2>3. QED
    BY <1>5, <2>1, <2>2 DEF Encode
<1>6. CASE Swap \/ FreeOld
  BY <1>6 DEF Swap, FreeOld, AfterPublish, AtHand, flash, refresh
<1>7. CASE SendBegin \/ SendEnd
  BY <1>7 DEF SendBegin, SendEnd, AtHand, flash, serve, refresh
<1>8. CASE Crash
  BY <1>8 DEF Crash, Reset, AtHand
<1>9. CASE UNCHANGED vars
  BY <1>9 DEF vars, AtHand, flash, serve, refresh
<1>10. QED
  BY <1>1, <1>2, <1>3, <1>4, <1>5, <1>6, <1>7, <1>8, <1>9 DEF Next, Task

-----------------------------------------------------------------------------
\* What a boot makes of a record.
Named(a) == IF a \in Slots THEN part[a] ELSE NoArt.art

\* A boot finds what one of the two records names, and either may survive.
LEMMA CandidatesAre ==
    Types /\ Persisted => Candidates = {Named(nvs[Active]), Named(nvsFlash[Active])}
<1>. SUFFICES ASSUME Types, Persisted
     PROVE  Candidates = {Named(nvs[Active]), Named(nvsFlash[Active])}
  OBVIOUS
<1>. DEFINE boot(v) == IF Loadable(v) THEN part[v[Active]] ELSE NoArt.art
<1>1. ASSUME NEW v \in Survivors
      PROVE  v[Active] \in {nvs[Active], nvsFlash[Active]} /\ boot(v) = Named(v[Active])
  <2>1. \A k \in Keys : v[k] \in {nvs[k], nvsFlash[k]}
    BY SurvivorsTyped DEF Types
  <2>2. ASSUME v[Active] \in Slots
        PROVE  Loadable(v)
    <3>1. Holds(v[Active])
      BY <2>1, <2>2, KeysDiffer DEF Persisted
    <3>2. \A k \in MetaKeys(v[Active]) : v[k] = part[v[Active]]
      BY <2>1, <2>2, <3>1, MetaKeysDiffer DEF Holds
    <3>3. QED
      BY <2>2, <3>1, <3>2 DEF Loadable, Verifies, Holds, MetaKeys
  <2>3. QED
    BY <2>1, <2>2, KeysDiffer DEF Loadable, Named
<1>2. nvs \in Survivors
  <2>1. nvs = [k \in Keys |-> IF k \in {j \in Keys : nvs[j] # nvsFlash[j]} THEN nvs[k] ELSE nvsFlash[k]]
    BY DEF Types, ViewOK
  <2>2. QED
    BY <2>1 DEF Survivors
<1>3. nvsFlash \in Survivors
  <2>1. nvsFlash = [k \in Keys |-> IF k \in {} THEN nvs[k] ELSE nvsFlash[k]]
    BY DEF Types, ViewOK
  <2>2. {} \in SUBSET {k \in Keys : nvs[k] # nvsFlash[k]}
    OBVIOUS
  <2>3. \E kept \in SUBSET {k \in Keys : nvs[k] # nvsFlash[k]} :
            nvsFlash = [k \in Keys |-> IF k \in kept THEN nvs[k] ELSE nvsFlash[k]]
    BY <2>1, <2>2
  <2>4. QED
    BY <2>3 DEF Survivors
<1>4. Candidates = {boot(v) : v \in Survivors}
  BY DEF Candidates
<1>. HIDE DEF boot
<1>5. {Named(nvs[Active]), Named(nvsFlash[Active])} \subseteq Candidates
  BY <1>1, <1>2, <1>3, <1>4
<1>6. Candidates \subseteq {Named(nvs[Active]), Named(nvsFlash[Active])}
  BY <1>1, <1>4
<1>7. QED
  BY <1>5, <1>6

\* A step that changes neither the records nor the slots they name keeps what the
\* next boot may find.
LEMMA CandidatesKept ==
    ASSUME Types, Persisted, Types', Persisted',
           UNCHANGED <<nvs[Active], nvsFlash[Active]>>,
           \A s \in Slots : s \in {nvs[Active], nvsFlash[Active]} => part'[s] = part[s]
    PROVE  Candidates' = Candidates
<1>1. (Candidates = {Named(nvs[Active]), Named(nvsFlash[Active])})'
  BY CandidatesAre, PTL
<1>2. /\ Named(nvs[Active])' = Named(nvs[Active])
      /\ Named(nvsFlash[Active])' = Named(nvsFlash[Active])
  BY DEF Named, NoArt
<1>3. QED
  BY <1>1, <1>2, CandidatesAre

\* The two other mapped variables.
Published == IF current = NULL THEN NoArt.art ELSE objs[current].art
Pending == IF taskUp THEN Fresh ELSE NoArt.art

LEMMA Mapped ==
    /\ Durable!vars = <<Published, Candidates, Pending, taskUp>>
    /\ Durable!vars' = <<Published', Candidates', Pending', taskUp'>>
BY DEF Durable!vars, Published, Pending

LEMMA RefinementInit == Init /\ Types /\ Persisted => Durable!Init
<1>. SUFFICES ASSUME Init, Types, Persisted PROVE Durable!Init
  OBVIOUS
<1>1. Candidates = {NoArt.art}
  BY CandidatesAre, KeysDiffer, GeneratorAssumption DEF Init, Named, Slots
<1>2. QED
  BY <1>1 DEF Init, Durable!Init

LEMMA RefinementStep ==
    ASSUME "nvs" \notin Faults,
           Types, Pointers, Persisted, AtHand, Types', Pointers', Persisted', AtHand', [Next]_vars
    PROVE  [Durable!Next]_(Durable!vars)
<1>. USE DEF SaveSteps, TaskSteps, PublishSteps
<1>1. NULL \notin Objects /\ NoArt.art \notin Artifacts
  BY GeneratorAssumption DEF NULL, NoArt
<1>2. CASE Restore \/ Fetch \/ Clear \/ Wake \/ Refresh \/ SendBegin \/ SendEnd \/ UNCHANGED vars
  <2>1. UNCHANGED <<flash, serve, taskUp>> /\ (taskUp => art' = art)
    BY <1>2 DEF Restore, Fetch, Clear, Wake, Refresh, SendBegin, SendEnd, vars, refresh, AtHand
  <2>2. UNCHANGED <<Published, Candidates, Pending, taskUp>>
    BY <2>1, CandidatesKept DEF Published, Pending, Fresh, NoArt, flash, serve
  <2>3. QED
    BY <2>2, Mapped
<1>3. CASE StartTask
  <2>1. UNCHANGED <<flash, serve, art>> /\ ~taskUp /\ taskUp' /\ next = NULL /\ art = NoArt
    BY <1>3 DEF StartTask, AtHand, Pointers
  <2>2. UNCHANGED <<Published, Candidates, Pending>>
    BY <2>1, CandidatesKept DEF Published, Pending, Fresh, NoArt, flash, serve
  <2>3. Durable!Start
    BY <2>1, <2>2 DEF Durable!Start, Published, Pending
  <2>4. QED
    BY <2>3 DEF Durable!Next
<1>4. CASE Generate
  <2>1. UNCHANGED <<flash, serve, taskUp>> /\ taskUp /\ next = NULL /\ art = NoArt
    BY <1>4 DEF Generate, AtHand, Pointers, Types, refresh
  <2>2. UNCHANGED <<Published, Candidates>>
    BY <2>1, CandidatesKept DEF Published, NoArt, flash, serve
  <2>3. CASE art'.art \in Artifacts
    <3>1. Pending = NoArt.art /\ Pending' \in Artifacts
      BY <2>1, <2>3 DEF Pending, Fresh, serve
    <3>2. Durable!Generate
      BY <2>1, <2>2, <3>1 DEF Durable!Generate, Published, Pending
    <3>3. QED
      BY <3>2 DEF Durable!Next
  <2>4. CASE art' = art
    <3>1. UNCHANGED Pending
      BY <2>1, <2>4 DEF Pending, Fresh, NoArt, serve
    <3>2. QED
      BY <2>1, <2>2, <3>1, Mapped
  <2>5. QED
    BY <1>4, <2>3, <2>4 DEF Generate
<1>5. CASE Erase \/ Write \/ SetMeta \/ SyncMeta \/ ReadBack
  <2>1. /\ UNCHANGED <<serve, taskUp, art>>
        /\ pc # "flipsync" /\ pc' # "flipsync"
    BY <1>5 DEF Erase, Write, SetMeta, SyncMeta, ReadBack, MetaStep, SaveFails, refresh
  <2>2. nvs'[Active] = nvs[Active] /\ nvsFlash'[Active] = nvs[Active] /\ nvsFlash[Active] = nvs[Active]
    <3>1. nvs'[Active] = nvs[Active]
      <4>1. CASE SetMeta
        <5>1. CASE SaveFails("nvs")
          BY <5>1 DEF SaveFails
        <5>2. CASE nvs' = [nvs EXCEPT ![<<pc, SaveSlot>>] = IF pc = "ver" THEN art.ver ELSE art.art]
          <6>1. <<pc, SaveSlot>> # Active
            BY <4>1, SaveSlotFree, KeysDiffer DEF SetMeta, MetaStep
          <6>2. QED
            BY <5>2, <6>1, KeysDiffer DEF Types, ViewOK
        <5>3. QED
          BY <4>1, <5>1, <5>2 DEF SetMeta
      <4>2. QED
        BY <1>5, <4>1 DEF Erase, Write, SyncMeta, ReadBack, SaveFails, flash
    <3>2. nvsFlash'[Active] = nvs'[Active]
      <4>1. SaveSlot' \in Slots /\ pc' # "flipsync"
        BY <2>1 DEF SaveSlot, Slots
      <4>2. Active \notin Undurable'
        BY <4>1 DEF Undurable, MetaKeys, Active
      <4>3. QED
        BY <4>2, KeysDiffer DEF Persisted
    <3>3. QED
      BY <2>1, <3>1, <3>2, SaveSlotFree
  <2>3. \A s \in Slots \ {SaveSlot} : part'[s] = part[s]
    BY <1>5, SaveSlotFree DEF Erase, Write, SetMeta, SyncMeta, ReadBack, SaveFails, flash, Types
  <2>4. Candidates' = Candidates
    BY <2>2, <2>3, SaveSlotFree, CandidatesKept, <2>1
  <2>5. UNCHANGED <<Published, Pending>>
    BY <2>1 DEF Published, Pending, Fresh, NoArt, serve
  <2>6. QED
    BY <2>1, <2>4, <2>5, Mapped
<1>6. CASE Flip \/ FlipSync
  <2>1. /\ UNCHANGED <<part, serve, taskUp, art>> /\ taskUp /\ next = NULL /\ art.art \in Artifacts
    BY <1>6 DEF Flip, FlipSync, SaveFails, refresh, Types, Pointers
  <2>2. UNCHANGED <<Published, Pending>> /\ Pending = art.art
    BY <2>1 DEF Published, Pending, Fresh, NoArt, serve
  <2>3. Candidates' \in {Candidates \cup {art.art}, {art.art}}
    <3>1. (Candidates = {Named(nvs[Active]), Named(nvsFlash[Active])})'
      BY CandidatesAre, PTL
    <3>2. CASE Flip
      <4>1. /\ nvs' = [nvs EXCEPT ![Active] = SaveSlot] /\ nvsFlash' = nvsFlash
            /\ SaveSlot \in Slots /\ nvsFlash[Active] = nvs[Active] /\ part[SaveSlot] = art.art
        BY <3>2, SaveSlotFree DEF Flip, SaveFails, Persisted
      <4>2. nvs'[Active] = SaveSlot
        BY <4>1, KeysDiffer DEF Types, ViewOK
      <4>3. Named(nvs[Active])' = art.art /\ Named(nvsFlash[Active])' = Named(nvsFlash[Active])
        BY <2>1, <4>1, <4>2 DEF Named, NoArt
      <4>4. QED
        BY <3>1, <4>1, <4>3, CandidatesAre
    <3>3. CASE FlipSync
      <4>1. nvsFlash' = nvs /\ nvs' = nvs /\ Named(nvs[Active]) = art.art
        BY <3>3 DEF FlipSync, Persisted, Named
      <4>2. Named(nvs[Active])' = art.art /\ Named(nvsFlash[Active])' = art.art
        BY <2>1, <4>1 DEF Named, NoArt
      <4>3. QED
        BY <3>1, <4>2
    <3>4. QED
      BY <1>6, <3>2, <3>3
  <2>4. Durable!Persist
    BY <1>1, <2>1, <2>2, <2>3 DEF Durable!Persist, Published, Pending
  <2>5. QED
    BY <2>4 DEF Durable!Next
<1>7. CASE Encode
  <2>1. UNCHANGED <<flash, current, taskUp>> /\ next = NULL /\ art' = NoArt
    BY <1>7 DEF Encode, refresh, Pointers
  <2>2. CASE UNCHANGED <<objs, next>>
    <3>1. UNCHANGED <<Published, Candidates>> /\ Pending' = NoArt.art
      BY <2>1, <2>2, CandidatesKept DEF Published, Pending, Fresh, NoArt, flash
    <3>2. Durable!Drop
      BY <2>1, <3>1 DEF Durable!Drop, Published, Pending
    <3>3. QED
      BY <3>2 DEF Durable!Next
  <2>3. CASE \E o \in Objects \ Allocated : objs' = [objs EXCEPT ![o] = art] /\ next' = o
    <3>1. PICK o \in Objects \ Allocated : objs' = [objs EXCEPT ![o] = art] /\ next' = o
      BY <2>3
    <3>2. objs' = [q \in Objects |-> IF q = o THEN art ELSE objs[q]] /\ current # o
      BY <1>1, <3>1 DEF Types, Pointers, Allocated
    <3>3. UNCHANGED <<Published, Candidates>>
      BY <2>1, <3>2, CandidatesKept DEF Published, NoArt, flash, Types
    <3>4. UNCHANGED Pending
      BY <1>1, <2>1, <3>1, <3>2 DEF Pending, Fresh, NoArt
    <3>5. QED
      BY <2>1, <3>3, <3>4, Mapped
  <2>4. QED
    BY <1>7, <2>2, <2>3 DEF Encode
<1>8. CASE Swap
  <2>1. /\ UNCHANGED <<flash, objs, taskUp, art>> /\ art = NoArt
        /\ current' = next /\ next' = NULL /\ next # NULL
        /\ pc = "swap" /\ objs[next].art \in Artifacts
    BY <1>8 DEF Swap, refresh, AtHand, Pointers, Types, Allocated
  <2>2. Published' = objs[next].art /\ UNCHANGED Candidates /\ Pending' = NoArt.art
    BY <2>1, CandidatesKept DEF Published, Pending, Fresh, NoArt, flash
  <2>3. CASE taskUp
    <3>1. Pending = objs[next].art
      BY <2>1, <2>3 DEF Pending, Fresh
    <3>2. Durable!Publish
      BY <1>1, <2>1, <2>2, <3>1 DEF Durable!Publish, Published, Pending
    <3>3. QED
      BY <3>2 DEF Durable!Next
  <2>4. CASE ~taskUp
    <3>1. objs[next].art \in Candidates
      BY <2>1, <2>4, CandidatesAre DEF AtHand, Named
    <3>2. Durable!Restore
      BY <2>1, <2>2, <2>4, <3>1 DEF Durable!Restore, Published, Pending
    <3>3. QED
      BY <3>2 DEF Durable!Next
  <2>5. QED
    BY <2>3, <2>4 DEF Types
<1>9. CASE FreeOld
  <2>1. UNCHANGED <<flash, current, next, taskUp, art>> /\ next = NULL
    BY <1>9 DEF FreeOld, refresh, Pointers
  <2>2. current # NULL => objs'[current] = objs[current]
    BY <1>9 DEF FreeOld, Types, Pointers
  <2>3. UNCHANGED <<Published, Candidates, Pending>>
    BY <2>1, <2>2, CandidatesKept DEF Published, Pending, Fresh, NoArt, flash
  <2>4. QED
    BY <2>1, <2>3, Mapped
<1>10. CASE Crash
  <2>1. /\ current' = NULL /\ next' = NULL /\ art' = NoArt /\ ~taskUp'
        /\ nvs' \in Survivors /\ nvsFlash' = nvs' /\ part' = part
    BY <1>10 DEF Crash, Reset
  <2>2. (Candidates = {Named(nvs[Active]), Named(nvsFlash[Active])})'
    BY CandidatesAre, PTL
  <2>3. nvs'[Active] \in {nvs[Active], nvsFlash[Active]}
    BY <2>1, SurvivorsTyped, KeysDiffer DEF Types
  <2>4. \E a \in Candidates : Candidates' = {a}
    BY <2>1, <2>2, <2>3, CandidatesAre DEF Named, NoArt
  <2>5. Durable!Crash
    BY <2>1, <2>4 DEF Durable!Crash, Published, Pending
  <2>6. QED
    BY <2>5 DEF Durable!Next
<1>11. QED
  BY <1>2, <1>3, <1>4, <1>5, <1>6, <1>7, <1>8, <1>9, <1>10 DEF Next, Task

\* Every step of a save, a publish, a restore and a crash is one that DurableArtifact
\* allows, while NVS calls do not fail.
THEOREM ImplementsDurableArtifactCorrect ==
    ASSUME "nvs" \notin Faults PROVE Spec => ImplementsDurableArtifact
<1>1. Types /\ Pointers /\ Persisted /\ AtHand /\ [Next]_vars
        => Types' /\ Pointers' /\ Persisted' /\ AtHand'
  BY TypesStep, PointersStep, PersistedStep, AtHandStep
<1>2. Init => Types /\ Pointers /\ Persisted /\ AtHand
  BY TypesInit, PointersInit, PersistedInit, AtHandInit
<1>3. Types /\ Pointers /\ Persisted /\ AtHand /\ Types' /\ Pointers' /\ Persisted' /\ AtHand'
        /\ [Next]_vars => [Durable!Next]_(Durable!vars)
  BY RefinementStep
<1>4. QED
  BY <1>1, <1>2, <1>3, RefinementInit, PTL DEF Spec, ImplementsDurableArtifact, Durable!Spec
=============================================================================
