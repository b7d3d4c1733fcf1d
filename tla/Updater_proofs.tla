---------------------------- MODULE Updater_proofs ----------------------------
(* Theorems about Updater, for every sequence of releases, partition, sector   *)
(* and chunk size, digest function and set of faults; and with them those of   *)
(* BlocklistStore for the storage as the updater drives it.                    *)
EXTENDS Updater, BlocklistStore_proofs

(* Whole sectors *)

LEMMA TimesMonotone ==
    ASSUME NEW a \in Int, NEW b \in Int, NEW c \in Nat \ {0}
    PROVE  /\ a <= b => a * c <= b * c
           /\ a * c < b * c => a < b
BY SMT

LEMMA DivMod ==
    ASSUME NEW x \in Nat, NEW c \in Nat \ {0}
    PROVE  /\ x \div c \in Nat /\ x % c \in 0..c-1
           /\ x = (x \div c) * c + (x % c)
BY SMT

(* Rounding up to whole sectors covers the size, and does not leave the partition. *)
LEMMA RoundedUp ==
    ASSUME NEW n \in 0..SlotWords
    PROVE  LET q == (n + SectorWords - 1) \div SectorWords
           IN  q \in Nat /\ n <= q * SectorWords /\ q * SectorWords <= SlotWords
<1>. DEFINE x == n + SectorWords - 1
            q == x \div SectorWords
            r == SlotWords \div SectorWords
<1>1. SectorWords \in Nat \ {0} /\ SlotWords \in Nat /\ n \in Nat /\ n <= SlotWords /\ x \in Nat
  BY GeometryAssumption, SizesAssumption
<1>2. q \in Nat /\ x % SectorWords \in 0..SectorWords-1 /\ x = q * SectorWords + (x % SectorWords)
  BY <1>1, DivMod
<1>3. r \in Nat /\ SlotWords = r * SectorWords
  <2>1. r \in Nat /\ SlotWords = r * SectorWords + (SlotWords % SectorWords)
    BY <1>1, DivMod
  <2>2. QED
    BY <1>1, <2>1, GeometryAssumption
<1>. HIDE DEF q, r
<1>4. q * SectorWords \in Nat /\ r * SectorWords \in Nat /\ (r + 1) * SectorWords = r * SectorWords + SectorWords
  BY <1>1, <1>2, <1>3, Z3
<1>5. n <= q * SectorWords
  BY <1>1, <1>2, <1>4
<1>6. q * SectorWords < (r + 1) * SectorWords
  BY <1>1, <1>2, <1>3, <1>4
<1>7. q <= r
  <2>1. q < r + 1
    BY <1>1, <1>2, <1>3, <1>6, TimesMonotone
  <2>2. QED
    BY <1>2, <1>3, <2>1
<1>8. q * SectorWords <= r * SectorWords
  BY <1>1, <1>2, <1>3, <1>7, TimesMonotone
<1>9. QED
  BY <1>2, <1>3, <1>5, <1>8 DEF q

(* A sector that begins below the rounded size ends within it. *)
LEMMA NextSector ==
    ASSUME NEW k \in Nat, NEW q \in Nat, k * SectorWords < q * SectorWords
    PROVE  (k + 1) * SectorWords = k * SectorWords + SectorWords /\ (k + 1) * SectorWords <= q * SectorWords
<1>1. SectorWords \in Nat \ {0}
  BY GeometryAssumption
<1>2. k < q
  BY <1>1, TimesMonotone
<1>3. k + 1 <= q
  BY <1>2
<1>4. QED
  BY <1>1, <1>3, TimesMonotone, Z3

-----------------------------------------------------------------------------
\* UTypeOK, with how far the erase and the download are.
UInv ==
    /\ pub \in DOMAIN Releases
    /\ upc \in {"idle", "erase", "download"}
    /\ upc # "idle" =>
          /\ pc = "ready" /\ m.slot = InactiveSlot
          /\ m.size \in 0..SlotWords
          /\ [cnt |-> m.cnt, sha |-> m.sha, ver |-> m.ver] \in Requests
    /\ done \in 0..SlotWords
    /\ body \in {<<>>} \cup {Releases[i].body : i \in DOMAIN Releases}
    /\ upc = "idle" => done = 0
    /\ upc = "erase" => \E k \in Nat : done = k * SectorWords
    /\ upc = "download" => done <= m.size /\ done <= Len(body)

LEMMA InactiveSlotIsOne == InactiveSlot \in Slots /\ InactiveSlot # active
BY DEF InactiveSlot, Slots

\* A manifest that is accepted asks for what the storage accepts as a request.
LEMMA AcceptedManifest ==
    ASSUME NEW i \in DOMAIN Releases, Acceptable(Releases[i])
    PROVE  /\ Releases[i].size \in 0..SlotWords
           /\ [cnt |-> Releases[i].cnt, sha |-> Releases[i].sha, ver |-> Releases[i].ver] \in Requests
<1>1. Releases[i].cnt \in Nat
  <2>. DEFINE r == [cnt |-> Releases[i].cnt, sha |-> Releases[i].sha, ver |-> Releases[i].ver]
  <2>1. r \in Requests
    BY ReleasesAssumption
  <2>2. r.cnt \in Nat
    BY <2>1, RequestsAssumption
  <2>3. QED
    BY <2>2
<1>2. Words(Releases[i].cnt) \in 0..SizeMod-1
  BY <1>1, WordsRange
<1>3. QED
  BY <1>2, ReleasesAssumption, SizesAssumption DEF Acceptable

(* A step of the updater is one that the storage allows its caller. *)
LEMMA EraseWrites ==
    ASSUME TypeOK, UInv, EraseSector
    PROVE  WriteInactive
<1>. DEFINE img == [i \in 1..SlotWords |->
                      IF i \in done + 1 .. done + SectorWords THEN Erased ELSE flash[m.slot][i]]
<1>1. m.slot \in Slots /\ m.slot = InactiveSlot /\ pc = "ready"
  BY InactiveSlotIsOne DEF EraseSector, UInv
<1>2. flash[m.slot] \in Images /\ flash' = [flash EXCEPT ![m.slot] = img]
  BY <1>1 DEF TypeOK, EraseSector
<1>3. img \in Images
  <2>1. /\ flash[m.slot] \in [1..SlotWords -> UNION {Contents(i) : i \in 1..SlotWords}]
        /\ \A i \in 1..SlotWords : flash[m.slot][i] \in Contents(i)
    BY <1>2, ImagesAssumption
  <2>2. \A i \in 1..SlotWords : Erased \in Contents(i)
    BY DEF Contents
  <2>3. \A i \in 1..SlotWords : img[i] \in Contents(i)
    BY <2>1, <2>2
  <2>4. img \in [1..SlotWords -> UNION {Contents(i) : i \in 1..SlotWords}]
    BY <2>3
  <2>5. QED
    BY <2>3, <2>4, ImagesAssumption
<1>4. QED
  BY <1>1, <1>2, <1>3 DEF WriteInactive, EraseSector, ram

LEMMA DownloadWrites ==
    ASSUME TypeOK, UInv, ReadChunk
    PROVE  WriteInactive \/ UNCHANGED vars
<1>1. PICK n \in 1..ChunkWords :
          /\ done + n <= Len(body)
          /\ IF done + n > m.size
             THEN Idle /\ UNCHANGED <<flash, pub>>
             ELSE /\ flash' = [flash EXCEPT ![m.slot] =
                        [i \in 1..SlotWords |-> IF i \in done + 1 .. done + n
                                                THEN Program(@[i], body[i]) ELSE @[i]]]
                  /\ done' = done + n
                  /\ UNCHANGED <<pub, upc, m, body>>
  BY DEF ReadChunk
<1>2. CASE done + n > m.size
  BY <1>1, <1>2 DEF ReadChunk, vars, ram
<1>3. CASE ~(done + n > m.size)
  <2>. DEFINE img == [i \in 1..SlotWords |-> IF i \in done + 1 .. done + n
                         THEN Program(flash[m.slot][i], body[i]) ELSE flash[m.slot][i]]
  <2>1. m.slot \in Slots /\ m.slot = InactiveSlot /\ pc = "ready"
    BY InactiveSlotIsOne DEF ReadChunk, UInv
  <2>2. flash[m.slot] \in Images /\ flash' = [flash EXCEPT ![m.slot] = img]
    BY <1>1, <1>3, <2>1 DEF TypeOK
  <2>3. /\ flash[m.slot] \in [1..SlotWords -> UNION {Contents(i) : i \in 1..SlotWords}]
        /\ \A i \in 1..SlotWords : flash[m.slot][i] \in Contents(i)
    BY <2>2, ImagesAssumption
  <2>4. ASSUME NEW i \in 1..SlotWords, i \in done + 1 .. done + n
        PROVE  Program(flash[m.slot][i], body[i]) \in Contents(i)
    <3>1. i <= Len(body) /\ body # <<>>
      BY <1>1, <2>4, SizesAssumption, GeometryAssumption DEF UInv
    <3>2. PICK j \in DOMAIN Releases : body = Releases[j].body
      BY <3>1 DEF UInv
    <3>3. QED
      BY <3>1, <3>2 DEF Program, Contents
  <2>5. \A i \in 1..SlotWords : img[i] \in Contents(i)
    BY <2>3, <2>4
  <2>6. img \in [1..SlotWords -> UNION {Contents(i) : i \in 1..SlotWords}]
    BY <2>5
  <2>7. img \in Images
    BY <2>5, <2>6, ImagesAssumption
  <2>8. QED
    BY <2>1, <2>2, <2>7 DEF WriteInactive, ReadChunk, ram
<1>4. QED
  BY <1>2, <1>3

LEMMA FinishCommits ==
    ASSUME TypeOK, UInv, upc = "download", Finish
    PROVE  (\E s \in -1..2, r \in Requests : CommitBegin(s, r)) \/ UNCHANGED vars
<1>1. CASE DownloadOk
  <2>. DEFINE r == [cnt |-> m.cnt, sha |-> m.sha, ver |-> m.ver]
  <2>1. r \in Requests /\ m.slot \in -1..2
    BY InactiveSlotIsOne DEF UInv, Slots
  <2>2. CommitBegin(m.slot, r)
    BY <1>1 DEF Finish, CommitBegin
  <2>3. QED
    BY <2>1, <2>2
<1>2. CASE ~DownloadOk
  BY <1>2 DEF Finish
<1>3. QED
  BY <1>1, <1>2

LEMMA UsesStoreStep == TypeOK /\ UInv /\ [UNext]_allvars => [Next]_vars
<1>. SUFFICES ASSUME TypeOK, UInv, [UNext]_allvars PROVE [Next]_vars
  OBVIOUS
<1>1. CASE StoreStep /\ UNCHANGED uvars
  BY <1>1 DEF Next
<1>2. CASE Poll \/ Open \/ RequestFails \/ Publish
  BY <1>2 DEF Poll, Open, RequestFails, Publish
<1>3. CASE EraseSector
  BY <1>3, EraseWrites DEF Next
<1>4. CASE ReadChunk
  BY <1>4, DownloadWrites DEF Next
<1>5. CASE EndOfBody \/ ClosedEarly
  BY <1>5, FinishCommits DEF EndOfBody, ClosedEarly, Next
<1>6. CASE UCrash
  BY <1>6 DEF UCrash, Next
<1>7. CASE UNCHANGED allvars
  BY <1>7 DEF allvars
<1>8. QED
  BY <1>1, <1>2, <1>3, <1>4, <1>5, <1>6, <1>7 DEF UNext, Device

-----------------------------------------------------------------------------
(* The task's invariant *)

LEMMA UInvInit == UInit => TypeOK /\ UInv
<1>. SUFFICES ASSUME UInit PROVE TypeOK /\ UInv
  OBVIOUS
<1>1. TypeOK
  BY TypeInit DEF UInit
<1>2. UInv
  BY ReleasesAssumption, SizesAssumption DEF UInit, UInv
<1>3. QED
  BY <1>1, <1>2

\* Back to sleep, whatever the storage does next.
LEMMA IdleTyped ==
    ASSUME UInv, Idle, pub' \in DOMAIN Releases
    PROVE  UInv'
BY SizesAssumption DEF UInv, Idle

LEMMA UInvStep == TypeOK /\ UInv /\ [UNext]_allvars => UInv'
<1>. SUFFICES ASSUME TypeOK, UInv, [UNext]_allvars PROVE UInv'
  OBVIOUS
<1>0. SectorWords \in Nat \ {0} /\ ChunkWords \in Nat \ {0} /\ SlotWords \in Nat
  BY GeometryAssumption, SizesAssumption
<1>1. CASE StoreStep /\ UNCHANGED uvars
  <2>1. CASE upc = "idle"
    BY <1>1, <2>1 DEF UInv, uvars
  <2>2. CASE upc # "idle"
    <3>1. Corrupt
      BY <1>1, <2>2 DEF UInv, StoreStep, InitActive, InitFallback, RecordFallback,
         RecordFallbackSync, SetMeta, MetaStep, SyncMeta, LoadCommitted, Flip, FlipSync, BootEraseNvs
    <3>2. UNCHANGED <<pc, active>>
      BY <3>1 DEF Corrupt, ram
    <3>3. QED
      BY <1>1, <3>2 DEF UInv, uvars, InactiveSlot
  <2>3. QED
    BY <2>1, <2>2
<1>2. CASE Poll
  <2>1. Release.size \in 0..SlotWords
        /\ [cnt |-> Release.cnt, sha |-> Release.sha, ver |-> Release.ver] \in Requests
    BY <1>2, AcceptedManifest DEF Poll, Release, UInv
  <2>2. done' = 0 /\ 0 = 0 * SectorWords
    BY <1>0, <1>2 DEF Poll, UInv
  <2>3. QED
    BY <1>2, <2>1, <2>2 DEF Poll, UInv, vars, ram, InactiveSlot
<1>3. CASE EraseSector
  <2>1. PICK k \in Nat : done = k * SectorWords
    BY <1>3 DEF EraseSector, UInv
  <2>2. m.size \in 0..SlotWords /\ upc = "erase"
    BY <1>3 DEF EraseSector, UInv
  <2>. DEFINE q == (m.size + SectorWords - 1) \div SectorWords
  <2>3. q \in Nat /\ q * SectorWords <= SlotWords /\ EraseSize = q * SectorWords
    BY <2>2, RoundedUp DEF EraseSize
  <2>. HIDE DEF q
  <2>4. /\ (k + 1) * SectorWords = k * SectorWords + SectorWords
        /\ (k + 1) * SectorWords <= q * SectorWords
    BY <1>3, <2>1, <2>3, NextSector DEF EraseSector
  <2>5. done' = (k + 1) * SectorWords
    BY <1>3, <2>1, <2>4 DEF EraseSector
  <2>6. done' \in 0..SlotWords
    BY <1>0, <2>1, <2>3, <2>4, <2>5
  <2>7. \E j \in Nat : done' = j * SectorWords
    BY <2>5
  <2>8. QED
    BY <1>3, <2>2, <2>6, <2>7 DEF EraseSector, UInv, InactiveSlot, ram
<1>4. CASE Open
  <2>1. Release.body \in {Releases[i].body : i \in DOMAIN Releases} /\ Len(Release.body) \in Nat
    BY ReleasesAssumption DEF UInv, Release
  <2>2. QED
    BY <1>0, <1>4, <2>1 DEF Open, UInv, vars, ram, InactiveSlot
<1>5. CASE ReadChunk
  <2>1. PICK n \in 1..ChunkWords :
            /\ done + n <= Len(body)
            /\ IF done + n > m.size
               THEN Idle /\ UNCHANGED pub
               ELSE done' = done + n /\ UNCHANGED <<pub, upc, m, body>>
    BY <1>5 DEF ReadChunk
  <2>2. CASE done + n > m.size
    BY <2>1, <2>2, IdleTyped DEF UInv
  <2>3. CASE ~(done + n > m.size)
    <3>1. done' = done + n /\ done + n \in 0..SlotWords /\ done + n <= m.size
      BY <1>0, <1>5, <2>1, <2>3 DEF UInv, ReadChunk
    <3>2. QED
      BY <1>5, <2>1, <2>3, <3>1 DEF UInv, ReadChunk, InactiveSlot, ram
  <2>4. QED
    BY <2>2, <2>3
<1>6. CASE EndOfBody \/ ClosedEarly \/ RequestFails \/ UCrash
  <2>1. Idle /\ pub' = pub
    BY <1>6 DEF EndOfBody, ClosedEarly, Finish, RequestFails, UCrash
  <2>2. QED
    BY <2>1, IdleTyped DEF UInv
<1>7. CASE Publish
  <2>1. pub' \in DOMAIN Releases
    BY <1>7, ReleasesAssumption DEF Publish, UInv
  <2>2. QED
    BY <1>7, <2>1 DEF Publish, UInv, vars, ram, InactiveSlot
<1>8. CASE UNCHANGED allvars
  BY <1>8 DEF allvars, uvars, vars, ram, UInv, InactiveSlot
<1>9. QED
  BY <1>1, <1>2, <1>3, <1>4, <1>5, <1>6, <1>7, <1>8 DEF UNext, Device

LEMMA UInvCorrect == USpec => [](TypeOK /\ UInv)
<1>1. TypeOK /\ UInv /\ [UNext]_allvars => TypeOK'
  BY UsesStoreStep, TypeStep
<1>2. QED
  BY <1>1, UInvInit, UInvStep, PTL DEF USpec

\* The task's variables stay in their types, no download runs while the storage
\* boots or commits, and its slot is the inactive one until it is committed.
THEOREM UTypeCorrect == USpec => []UTypeOK
<1>1. UInv => UTypeOK
  BY DEF UInv, UTypeOK
<1>2. QED
  BY <1>1, UInvCorrect, PTL

\* The updater is one of the callers that BlocklistStore is proved for.
THEOREM UsesStoreCorrect == USpec => UsesStoreProperly
<1>1. UInit => Init
  BY DEF UInit
<1>2. QED
  BY <1>1, UInvCorrect, UsesStoreStep, PTL DEF USpec, UsesStoreProperly, Spec

\* So what is proved of the storage holds of the device: whatever the publisher
\* serves and wherever the power is cut, only sound lists are served, and one that
\* was served stays bootable.
THEOREM DeviceCorrect == USpec => [](ServedSound /\ PowerCutSafe)
<1>1. USpec => Spec
  BY UsesStoreCorrect DEF UsesStoreProperly
<1>2. QED
  BY <1>1, ServedSoundCorrect, PowerCutCorrect, PTL

\* And what a reboot comes back with follows DurableList, through every update.
THEOREM DeviceDurableCorrect ==
    ASSUME OnlyPowerFails PROVE USpec => ImplementsDurableList
<1>1. USpec => Spec
  BY UsesStoreCorrect DEF UsesStoreProperly
<1>2. QED
  BY <1>1, ImplementsDurableListCorrect

-----------------------------------------------------------------------------
(* What is programmed is erased, as long as partitions hold what was written *)

ErasedInv ==
    /\ upc = "erase" => \A i \in 1..done : flash[m.slot][i] = Erased
    /\ ProgramsErasedOnly

LEMMA ErasedStep ==
    ASSUME "corrupt" \notin Faults
    PROVE  TypeOK /\ UInv /\ UInv' /\ ErasedInv /\ [UNext]_allvars => ErasedInv'
<1>. SUFFICES ASSUME TypeOK, UInv, UInv', ErasedInv, [UNext]_allvars PROVE ErasedInv'
  OBVIOUS
<1>0. SectorWords \in Nat \ {0} /\ ChunkWords \in Nat \ {0} /\ SlotWords \in Nat
  BY GeometryAssumption, SizesAssumption
<1>1. CASE upc' = "idle"
  BY <1>1 DEF ErasedInv, ProgramsErasedOnly
<1>2. CASE UNCHANGED <<flash, upc, m, done>>
  BY <1>2 DEF ErasedInv, ProgramsErasedOnly
<1>3. CASE StoreStep /\ UNCHANGED uvars
  <2>1. CASE upc = "idle"
    BY <1>1, <1>3, <2>1 DEF uvars
  <2>2. CASE upc # "idle"
    <3>1. FALSE
      BY <1>3, <2>2 DEF UInv, StoreStep, InitActive, InitFallback, RecordFallback,
         RecordFallbackSync, SetMeta, MetaStep, SyncMeta, LoadCommitted, Flip, FlipSync,
         BootEraseNvs, Corrupt
    <3>2. QED
      BY <3>1
  <2>3. QED
    BY <2>1, <2>2
<1>4. CASE Poll
  <2>1. upc' = "erase" /\ done' = 0
    BY <1>4 DEF Poll, UInv
  <2>2. QED
    BY <2>1 DEF ErasedInv, ProgramsErasedOnly
<1>5. CASE EraseSector
  <2>1. m.slot \in Slots /\ flash \in [Slots -> Images] /\ upc' = "erase" /\ m' = m
    BY <1>5, InactiveSlotIsOne DEF EraseSector, UInv, TypeOK
  <2>2. done \in Nat /\ done' = done + SectorWords /\ done' <= SlotWords
    BY <1>0, <1>5 DEF EraseSector, UInv
  <2>3. \A i \in 1..SlotWords :
            flash'[m.slot][i] = IF i \in done + 1 .. done + SectorWords THEN Erased ELSE flash[m.slot][i]
    BY <1>5, <2>1 DEF EraseSector
  <2>4. ASSUME NEW i \in 1..done'
        PROVE  flash'[m.slot][i] = Erased
    <3>1. i \in 1..SlotWords /\ (i \in 1..done \/ i \in done + 1 .. done + SectorWords)
      BY <1>0, <2>2
    <3>2. QED
      BY <1>5, <2>3, <3>1 DEF ErasedInv, EraseSector
  <2>5. QED
    BY <2>1, <2>4 DEF ErasedInv, ProgramsErasedOnly
<1>6. CASE Open
  <2>1. /\ upc' = "download" /\ done' = 0 /\ m' = m /\ flash' = flash
        /\ upc = "erase" /\ done >= EraseSize
    BY <1>6 DEF Open, vars
  <2>2. m.size \in Nat /\ m.size <= done
    <3>. DEFINE q == (m.size + SectorWords - 1) \div SectorWords
    <3>1. m.size \in 0..SlotWords /\ done \in Nat
      BY <1>0, <2>1 DEF UInv
    <3>2. EraseSize = q * SectorWords /\ q \in Nat /\ m.size <= q * SectorWords
      BY <3>1, RoundedUp DEF EraseSize
    <3>. HIDE DEF q
    <3>3. q * SectorWords \in Nat
      BY <1>0, <3>2
    <3>4. QED
      BY <1>0, <2>1, <3>1, <3>2, <3>3
  <2>3. \A i \in 1..m.size : flash[m.slot][i] = Erased
    BY <1>0, <2>1, <2>2 DEF ErasedInv, UInv
  <2>4. QED
    BY <2>1, <2>3 DEF ErasedInv, ProgramsErasedOnly
<1>7. CASE ReadChunk
  <2>1. CASE upc' = "idle"
    BY <1>1, <2>1
  <2>2. CASE upc' # "idle"
    <3>1. PICK n \in 1..ChunkWords :
              /\ flash' = [flash EXCEPT ![m.slot] =
                     [i \in 1..SlotWords |-> IF i \in done + 1 .. done + n
                                             THEN Program(@[i], body[i]) ELSE @[i]]]
              /\ done' = done + n /\ UNCHANGED <<upc, m>>
      BY <1>7, <2>2 DEF ReadChunk, Idle
    <3>2. /\ upc = "download" /\ m.slot \in Slots /\ flash \in [Slots -> Images]
          /\ done \in Nat /\ m.size \in Nat /\ m.size <= SlotWords
      BY <1>0, <1>7, InactiveSlotIsOne DEF ReadChunk, UInv, TypeOK
    <3>3. ASSUME NEW i \in done' + 1 .. m.size
          PROVE  flash'[m.slot][i] = Erased
      <4>1. i \in 1..SlotWords /\ i \notin done + 1 .. done + n /\ i \in done + 1 .. m.size
        BY <1>0, <3>1, <3>2
      <4>2. flash'[m.slot][i] = flash[m.slot][i]
        BY <3>1, <3>2, <4>1
      <4>3. QED
        BY <3>2, <4>1, <4>2 DEF ErasedInv, ProgramsErasedOnly
    <3>4. QED
      BY <3>1, <3>2, <3>3 DEF ErasedInv, ProgramsErasedOnly
  <2>3. QED
    BY <2>1, <2>2
<1>8. CASE EndOfBody \/ ClosedEarly \/ RequestFails \/ UCrash
  BY <1>1, <1>8 DEF EndOfBody, ClosedEarly, Finish, RequestFails, UCrash, Idle
<1>9. CASE Publish \/ UNCHANGED allvars
  BY <1>2, <1>9 DEF Publish, allvars, vars, uvars
<1>10. QED
  BY <1>3, <1>4, <1>5, <1>6, <1>7, <1>8, <1>9 DEF UNext, Device

\* No position is programmed that was not erased before, whatever an earlier
\* attempt, a failed request or a power cut left in the partition.
THEOREM ProgramsErasedCorrect ==
    ASSUME "corrupt" \notin Faults PROVE USpec => []ProgramsErasedOnly
<1>1. UInit => ErasedInv
  BY DEF UInit, ErasedInv, ProgramsErasedOnly
<1>2. ErasedInv => ProgramsErasedOnly
  BY DEF ErasedInv
<1>3. QED
  BY <1>1, <1>2, UInvCorrect, ErasedStep, PTL DEF USpec

-----------------------------------------------------------------------------
(* Only published blobs are served *)

\* Why ServedIsARelease holds then, as an inductive invariant: a digest gets into
\* NVS, durable or not, only when what was streamed under a published manifest has it.
Announced(digest) == \E j, k \in 1..pub : Describes(j, k) /\ digest = Releases[j].sha

PublishedInv ==
    /\ ServedIsARelease
    /\ \A s \in Slots : /\ nvs[<<"sha", s>>] # Absent => Announced(nvs[<<"sha", s>>])
                        /\ nvsFlash[<<"sha", s>>] # Absent => Announced(nvsFlash[<<"sha", s>>])
    /\ pc \in CommitSteps => Announced(arg.sha)
    /\ upc # "idle" =>
          \E j \in 1..pub : Acceptable(Releases[j]) /\ m.size = Releases[j].size /\ m.sha = Releases[j].sha
    /\ upc = "download" => \E k \in 1..pub : body = Releases[k].body


(* Publishing more takes nothing back. *)
LEMMA AnnouncedStays ==
    ASSUME UInv, pub' \in DOMAIN Releases, pub' >= pub, NEW digest, Announced(digest)
    PROVE  Announced(digest)'
<1>1. pub \in Nat /\ pub' \in Nat
  BY ReleasesAssumption DEF UInv
<1>2. 1..pub \subseteq 1..pub'
  BY <1>1
<1>3. QED
  BY <1>2 DEF Announced, Describes, Acceptable

LEMMA PubGrows == UInv /\ [UNext]_allvars => pub' \in DOMAIN Releases /\ pub' >= pub
<1>. SUFFICES ASSUME UInv, [UNext]_allvars PROVE pub' \in DOMAIN Releases /\ pub' >= pub
  OBVIOUS
<1>1. pub \in Nat /\ pub \in DOMAIN Releases
  BY ReleasesAssumption DEF UInv
<1>2. CASE Publish
  BY <1>1, <1>2, ReleasesAssumption DEF Publish
<1>3. CASE ~Publish
  <2>1. pub' = pub
    BY <1>3 DEF UNext, Device, Poll, EraseSector, Open, ReadChunk, EndOfBody, ClosedEarly, Finish,
       RequestFails, UCrash, Idle, uvars, allvars
  <2>2. QED
    BY <1>1, <2>1
<1>4. QED
  BY <1>2, <1>3

(* A list that load_slot accepts is a blob whose digest was announced. *)
LEMMA LoadableIsARelease ==
    ASSUME NoCollisions, BlobsAnnounced, TypeOK, UInv, NEW s \in Slots, Loadable(s),
           Announced(nvs[<<"sha", s>>])
    PROVE  \E i \in 1..pub : /\ Releases[i].body = List(s, nvs[<<"cnt", s>>])
                             /\ Acceptable(Releases[i])
<1>. DEFINE cnt == nvs[<<"cnt", s>>]
            list == Prefix(flash[s], cnt)
<1>1. /\ cnt \in MinDomains..SlotWords /\ Words(cnt) = cnt /\ cnt # Absent
      /\ List(s, cnt) = list /\ Sha256(list) = nvs[<<"sha", s>>]
  BY LoadableCount DEF TypeOK, Loadable, LoadableIn
<1>2. list \in StoredLists
  <2>1. PICK r \in Requests : r.cnt = cnt
    BY <1>1 DEF TypeOK, NvsTypeOK
  <2>2. r.cnt \in 1..SlotWords /\ flash[s] \in Images
    BY <1>1, <2>1, SizesAssumption DEF TypeOK
  <2>3. QED
    BY <2>1, <2>2 DEF StoredLists
<1>3. PICK j \in 1..pub, k \in 1..pub : Describes(j, k) /\ nvs[<<"sha", s>>] = Releases[j].sha
  BY DEF Announced
<1>4. 1..pub \subseteq DOMAIN Releases /\ pub \in Nat
  BY ReleasesAssumption DEF UInv
<1>. DEFINE n == Releases[j].size
<1>5. n \in 0..Len(Releases[k].body)
  <2>1. n \in 0..SlotWords /\ n <= Len(Releases[k].body)
    BY <1>3, <1>4, AcceptedManifest DEF Describes
  <2>2. Len(Releases[k].body) \in Nat
    BY <1>4, ReleasesAssumption
  <2>3. QED
    BY <2>1, <2>2, SizesAssumption
<1>6. Sha256(list) = Sha256(SubSeq(Releases[k].body, 1, n))
  BY <1>1, <1>3 DEF Describes
<1>. HIDE DEF n, list
<1>7. list = SubSeq(Releases[k].body, 1, n)
  BY <1>2, <1>4, <1>5, <1>6 DEF NoCollisions
<1>8. PICK i \in 1..j \cup 1..k :
          Acceptable(Releases[i]) /\ Releases[i].body = SubSeq(Releases[k].body, 1, n)
  BY <1>3, <1>4 DEF BlobsAnnounced, n
<1>9. i \in 1..pub
  BY <1>4
<1>10. QED
  BY <1>1, <1>7, <1>8, <1>9

(* What was streamed and passed the check is described by what was published. *)
LEMMA DownloadAnnounced ==
    ASSUME UInv, PublishedInv, upc = "download", DownloadOk
    PROVE  Announced(m.sha)
<1>1. PICK j \in 1..pub : Acceptable(Releases[j]) /\ m.size = Releases[j].size /\ m.sha = Releases[j].sha
  BY DEF PublishedInv
<1>2. PICK k \in 1..pub : body = Releases[k].body
  BY DEF PublishedInv
<1>3. Releases[j].size <= Len(Releases[k].body)
      /\ Releases[j].sha = Sha256(SubSeq(Releases[k].body, 1, Releases[j].size))
  BY <1>1, <1>2 DEF DownloadOk, UInv
<1>4. QED
  BY <1>1, <1>3 DEF Announced, Describes

(* Where the storage takes what it serves and what it records from. *)
LEMMA ServedFrom ==
    ASSUME TypeOK, [Next]_vars
    PROVE  \/ served' = served \/ served' = <<>>
           \/ \E s \in Slots : Loadable(s) /\ served' = List(s, nvs[<<"cnt", s>>])
<1>1. CASE InitActive \/ InitFallback \/ LoadCommitted
  <2>1. pc = "load" => arg.slot \in Slots
    BY DEF TypeOK, CommitSteps
  <2>2. QED
    BY <1>1, <2>1 DEF InitActive, InitFallback, LoadCommitted, CommitFails, SwapIn, ram
<1>2. CASE ~(InitActive \/ InitFallback \/ LoadCommitted)
  BY <1>2 DEF Next, StoreStep, RecordFallback, RecordFallbackSync, SetMeta, SyncMeta, Flip, FlipSync,
     CommitFails, BootEraseNvs, Corrupt, Crash, WriteInactive, CommitBegin, vars, ram
<1>3. QED
  BY <1>1, <1>2

LEMMA DigestsFrom ==
    ASSUME TypeOK, [Next]_vars, NEW s \in Slots
    PROVE  /\ \/ nvs'[<<"sha", s>>] \in {nvs[<<"sha", s>>], nvsFlash[<<"sha", s>>], Absent}
              \/ pc = "sha" /\ nvs'[<<"sha", s>>] = arg.sha
           /\ nvsFlash'[<<"sha", s>>] \in {nvs[<<"sha", s>>], nvsFlash[<<"sha", s>>], Absent}
<1>. DEFINE key == <<"sha", s>>
<1>0. key \in Keys /\ key # Active /\ nvs = [k \in Keys |-> nvs[k]]
  BY DEF Keys, Meta, Slots, Active, TypeOK, NvsTypeOK
<1>1. CASE Crash
  BY <1>0, <1>1, SurvivorsTyped DEF Crash
<1>2. CASE BootEraseNvs
  BY <1>0, <1>2 DEF BootEraseNvs
<1>3. CASE SetMeta
  <2>1. nvsFlash' = nvsFlash
    BY <1>3 DEF SetMeta, CommitFails
  <2>2. nvs' = nvs \/ nvs' = [nvs EXCEPT ![<<pc, arg.slot>>] = arg[pc]]
    BY <1>3 DEF SetMeta, CommitFails
  <2>3. nvs'[key] = nvs[key] \/ (<<pc, arg.slot>> = key /\ nvs'[key] = arg[pc])
    BY <1>0, <2>2
  <2>4. QED
    BY <2>1, <2>3
<1>4. CASE RecordFallback \/ Flip
  <2>1. nvs' = nvs \/ \E t : nvs' = [nvs EXCEPT ![Active] = t]
    BY <1>4 DEF RecordFallback, Flip, SetActive
  <2>2. nvs'[key] = nvs[key]
    BY <1>0, <2>1
  <2>3. QED
    BY <1>4, <2>2 DEF RecordFallback, Flip
<1>5. CASE RecordFallbackSync \/ SyncMeta \/ FlipSync
  BY <1>5 DEF RecordFallbackSync, SyncMeta, FlipSync, CommitFails
<1>6. CASE InitActive \/ InitFallback \/ LoadCommitted \/ Corrupt \/ WriteInactive \/ UNCHANGED vars
  BY <1>6 DEF InitActive, InitFallback, LoadCommitted, CommitFails, Corrupt, WriteInactive, vars
<1>7. ASSUME NEW t \in -1..2, NEW r \in Requests, CommitBegin(t, r)
      PROVE  UNCHANGED <<nvs, nvsFlash>>
  BY <1>7 DEF CommitBegin
<1>8. QED
  BY <1>1, <1>2, <1>3, <1>4, <1>5, <1>6, <1>7 DEF Next, StoreStep

(* The digest a running commit records is the one it was called with. *)
LEMMA ArgFrom ==
    ASSUME TypeOK, UInv, [UNext]_allvars, pc' \in CommitSteps
    PROVE  \/ pc \in CommitSteps /\ arg' = arg
           \/ upc = "download" /\ DownloadOk /\ arg'.sha = m.sha
<1>. USE DEF CommitSteps
<1>1. CASE EndOfBody \/ ClosedEarly
  <2>1. upc = "download" /\ Finish
    BY <1>1 DEF EndOfBody, ClosedEarly
  <2>2. CASE DownloadOk
    <3>1. CASE ValidTarget(m.slot)
      BY <2>1, <2>2, <3>1 DEF Finish, CommitBegin
    <3>2. CASE ~ValidTarget(m.slot)
      BY <2>1, <2>2, <3>2 DEF Finish, CommitBegin
    <3>3. QED
      BY <3>1, <3>2
  <2>3. CASE ~DownloadOk
    BY <2>1, <2>3 DEF Finish, vars
  <2>4. QED
    BY <2>2, <2>3
<1>2. CASE Poll \/ Open \/ RequestFails \/ Publish \/ UNCHANGED allvars
  BY <1>2 DEF Poll, Open, RequestFails, Publish, vars, allvars
<1>3. CASE EraseSector \/ ReadChunk
  BY <1>3 DEF EraseSector, ReadChunk
<1>4. CASE UCrash
  BY <1>4 DEF UCrash, Crash
<1>5. CASE StoreStep
  BY <1>5 DEF StoreStep, InitActive, InitFallback, RecordFallback, RecordFallbackSync, SetMeta, MetaStep,
     SyncMeta, LoadCommitted, Flip, FlipSync, CommitFails, BootEraseNvs, Corrupt
<1>6. QED
  BY <1>1, <1>2, <1>3, <1>4, <1>5 DEF UNext, Device

(* The manifest and the blob being downloaded were published. *)
LEMMA DownloadFrom ==
    ASSUME UInv, PublishedInv, [UNext]_allvars
    PROVE  /\ upc' # "idle" =>
                \E j \in 1..pub' : /\ Acceptable(Releases[j])
                                   /\ m'.size = Releases[j].size /\ m'.sha = Releases[j].sha
           /\ upc' = "download" => \E k \in 1..pub' : body' = Releases[k].body
<1>1. pub \in 1..pub /\ 1..pub \subseteq 1..pub'
  <2>1. pub \in Nat /\ pub >= 1 /\ pub' \in Nat /\ pub' >= pub
    BY PubGrows, ReleasesAssumption DEF UInv
  <2>2. QED
    BY <2>1
<1>2. CASE upc' = "idle"
  BY <1>2
<1>3. CASE Poll
  BY <1>1, <1>3 DEF Poll, Release
<1>4. CASE Open
  BY <1>1, <1>4 DEF Open, Release, PublishedInv
<1>5. CASE UNCHANGED <<upc, m, body>>
  BY <1>1, <1>5 DEF PublishedInv
<1>6. CASE EraseSector \/ ReadChunk \/ Publish \/ UNCHANGED uvars \/ UNCHANGED allvars
  BY <1>2, <1>5, <1>6 DEF EraseSector, ReadChunk, Publish, Idle, uvars, allvars
<1>7. CASE EndOfBody \/ ClosedEarly \/ RequestFails \/ UCrash
  BY <1>2, <1>7 DEF EndOfBody, ClosedEarly, Finish, RequestFails, UCrash, Idle
<1>8. QED
  BY <1>3, <1>4, <1>6, <1>7 DEF UNext, Device

LEMMA PublishedStep ==
    ASSUME NoCollisions, BlobsAnnounced
    PROVE  TypeOK /\ UInv /\ UInv' /\ PublishedInv /\ [UNext]_allvars => PublishedInv'
<1>. SUFFICES ASSUME TypeOK, UInv, UInv', PublishedInv, [UNext]_allvars PROVE PublishedInv'
  OBVIOUS
<1>0. [Next]_vars
  BY UsesStoreStep
<1>1. pub' \in DOMAIN Releases /\ pub' >= pub
  BY PubGrows
<1>2. 1..pub \subseteq 1..pub'
  BY <1>1, ReleasesAssumption DEF UInv
<1>3. ASSUME NEW digest, Announced(digest) PROVE Announced(digest)'
  BY <1>1, <1>3, AnnouncedStays
<1>4. ServedIsARelease'
  <2>1. CASE served' = served
    BY <1>2, <2>1 DEF PublishedInv, ServedIsARelease, Acceptable
  <2>2. CASE served' = <<>>
    BY <2>2 DEF ServedIsARelease
  <2>3. ASSUME NEW s \in Slots, Loadable(s), served' = List(s, nvs[<<"cnt", s>>])
        PROVE  ServedIsARelease'
    <3>1. nvs[<<"sha", s>>] # Absent
      BY <2>3 DEF Loadable, LoadableIn
    <3>2. PICK i \in 1..pub : Releases[i].body = served' /\ Acceptable(Releases[i])
      BY <2>3, <3>1, LoadableIsARelease DEF PublishedInv
    <3>3. QED
      BY <1>2, <3>2 DEF ServedIsARelease, Acceptable
  <2>4. QED
    BY <1>0, <2>1, <2>2, <2>3, ServedFrom
<1>5. pc = "sha" => Announced(arg.sha)
  BY DEF PublishedInv, CommitSteps
<1>6. ASSUME NEW s \in Slots
      PROVE  (/\ nvs[<<"sha", s>>] # Absent => Announced(nvs[<<"sha", s>>])
              /\ nvsFlash[<<"sha", s>>] # Absent => Announced(nvsFlash[<<"sha", s>>]))'
  <2>1. /\ nvs'[<<"sha", s>>] # Absent => Announced(nvs'[<<"sha", s>>])
        /\ nvsFlash'[<<"sha", s>>] # Absent => Announced(nvsFlash'[<<"sha", s>>])
    BY <1>0, <1>5, DigestsFrom DEF PublishedInv
  <2>2. QED
    BY <1>3, <2>1
<1>7. pc' \in CommitSteps => Announced(arg.sha)'
  <2>1. pc' \in CommitSteps => Announced(arg'.sha)
    BY ArgFrom, DownloadAnnounced DEF PublishedInv
  <2>2. QED
    BY <1>3, <2>1
<1>8. (\A s \in Slots : /\ nvs[<<"sha", s>>] # Absent => Announced(nvs[<<"sha", s>>])
                        /\ nvsFlash[<<"sha", s>>] # Absent => Announced(nvsFlash[<<"sha", s>>]))'
  BY <1>6
<1>9. QED
  BY <1>4, <1>7, <1>8, DownloadFrom DEF PublishedInv, Acceptable

\* Whatever the network, the publisher's timing, failing writes, crashes and even
\* corruption of the flash do to an update, what lookups answer from is a blob that
\* was published: download_to_slot and load_slot let through nothing else, as long
\* as SHA-256 does not collide and the publisher announces the blobs it serves.
THEOREM ServedIsAReleaseCorrect ==
    ASSUME NoCollisions, BlobsAnnounced PROVE USpec => []ServedIsARelease
<1>1. UInit => PublishedInv
  BY DEF UInit, Init, PublishedInv, ServedIsARelease, CommitSteps, Keys, Meta, Slots
<1>2. TypeOK /\ UInv /\ UInv' /\ PublishedInv /\ [UNext]_allvars => PublishedInv'
  BY PublishedStep
<1>3. PublishedInv => ServedIsARelease
  BY DEF PublishedInv
<1>4. QED
  BY <1>1, <1>2, <1>3, UInvCorrect, PTL DEF USpec
==============================================================================
