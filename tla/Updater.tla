------------------------------- MODULE Updater -------------------------------
(***************************************************************************)
(* The updater task, main/updater.c, on top of BlocklistStore: it polls a  *)
(* manifest, streams the blob it announces into the inactive partition and *)
(* commits it.  The publisher is whoever serves the manifest and the blob: *)
(* they are two requests, and a new release may appear between them.       *)
(* Sizes are counted in 64-bit hashes.                                     *)
(***************************************************************************)
EXTENDS BlocklistStore

CONSTANTS
    Releases,     \* what the publisher serves, in the order it publishes it
    Format,       \* MANIFEST_FORMAT
    SectorWords,  \* the partitions' erase_size
    ChunkWords,   \* sizeof(s_chunk)
    Erased        \* a hash position of an erased flash sector: all ones

VARIABLES
    pub,      \* the release being served by the publisher
    upc,      \* where the task is: "idle", "erase" or "download"
    m,        \* the accepted manifest and the slot chosen for it
    body,     \* the blob the open connection streams
    done      \* positions erased, then positions written

uvars == <<pub, upc, m, body, done>>
allvars == <<vars, uvars>>

NoManifest == [slot |-> NoSlot, cnt |-> 0, size |-> 0, sha |-> Absent, ver |-> NoVersion]
Garbage == 0

ASSUME ReleasesAssumption ==
    /\ Len(Releases) \in Nat \ {0} /\ DOMAIN Releases = 1..Len(Releases)
    /\ \A i \in DOMAIN Releases :
          /\ [cnt |-> Releases[i].cnt, sha |-> Releases[i].sha, ver |-> Releases[i].ver] \in Requests
          /\ Releases[i].body \in Seq(Nat)

ASSUME GeometryAssumption ==
    /\ SectorWords \in Nat \ {0} /\ ChunkWords \in Nat \ {0}
    /\ SlotWords % SectorWords = 0
    /\ Erased \in Nat

\* What a partition may hold at position i: nothing, what a release has there, or
\* what is left of programming it twice.
Contents(i) ==
    {Erased, Garbage} \cup
    {Releases[j].body[i] : j \in {k \in DOMAIN Releases : i <= Len(Releases[k].body)}}

ASSUME ImagesAssumption ==
    LET Mixes == [1..SlotWords -> UNION {Contents(i) : i \in 1..SlotWords}]
    IN  Images = {img \in Mixes : \A i \in 1..SlotWords : img[i] \in Contents(i)}

Release == Releases[pub]

-----------------------------------------------------------------------------
\* Going back to sleep until the next poll.
Idle == upc' = "idle" /\ m' = NoManifest /\ body' = <<>> /\ done' = 0

Mut_Acceptable(r) ==
    /\ r.format = Format
    /\ r.size = Words(r.cnt)
    /\ r.cnt >= MinDomains

\* parse_manifest accepts, and the blob fits the partition (download_to_slot).
Acceptable(r) ==
    /\ r.format = Format
    /\ r.size = Words(r.cnt)
    /\ r.cnt >= MinDomains
    /\ r.size <= SlotWords

Mut_Poll ==
    /\ upc = "idle"
    /\ Acceptable(Release)
    /\ Release.ver # version
    /\ upc' = "erase"
    /\ m' = [slot |-> InactiveSlot, cnt |-> Release.cnt, size |-> Release.size,
             sha |-> Release.sha, ver |-> Release.ver]
    /\ UNCHANGED <<vars, pub, body, done>>

\* check_once up to the download.  A failed fetch, a manifest that is refused
\* and a version already served change nothing.
Poll ==
    /\ pc = "ready" /\ upc = "idle"
    /\ Acceptable(Release)
    /\ Release.ver # version
    /\ upc' = "erase"
    /\ m' = [slot |-> InactiveSlot, cnt |-> Release.cnt, size |-> Release.size,
             sha |-> Release.sha, ver |-> Release.ver]
    /\ UNCHANGED <<vars, pub, body, done>>

Mut_EraseSize == (m.size \div SectorWords) * SectorWords
\* m->size rounded up to whole sectors.
EraseSize == ((m.size + SectorWords - 1) \div SectorWords) * SectorWords

\* esp_partition_erase_range, a sector at a time.
EraseSector ==
    /\ upc = "erase" /\ done < EraseSize
    /\ flash' = [flash EXCEPT ![m.slot] =
          [i \in 1..SlotWords |-> IF i \in done + 1 .. done + SectorWords THEN Erased ELSE @[i]]]
    /\ done' = done + SectorWords
    /\ UNCHANGED <<nvs, nvsFlash, ram, pc, arg, intact, pub, upc, m, body>>

\* The blob request is answered with the release published by then.
Open ==
    /\ upc = "erase" /\ done >= EraseSize
    /\ upc' = "download" /\ body' = Release.body /\ done' = 0
    /\ UNCHANGED <<vars, pub, m>>

\* Programming flash can only clear bits.
Program(old, new) == IF old = Erased THEN new ELSE Garbage

\* A read returns up to a chunk of what is left; it is written unless the blob
\* turns out larger than the manifest said.
ReadChunk ==
    /\ upc = "download"
    /\ \E n \in 1..ChunkWords :
          /\ done + n <= Len(body)
          /\ IF done + n > m.size
             THEN Idle /\ UNCHANGED <<flash, pub>>
             ELSE /\ flash' = [flash EXCEPT ![m.slot] =
                        [i \in 1..SlotWords |-> IF i \in done + 1 .. done + n
                                                THEN Program(@[i], body[i]) ELSE @[i]]]
                  /\ done' = done + n
                  /\ UNCHANGED <<pub, upc, m, body>>
    /\ UNCHANGED <<nvs, nvsFlash, ram, pc, arg, intact>>

DownloadOk == done = m.size /\ Sha256(SubSeq(body, 1, done)) = m.sha

\* The read returned 0: check the length and the digest of what was streamed,
\* and call blocklist_commit_slot, which runs before the task does anything else.
Finish ==
    /\ IF DownloadOk THEN CommitBegin(m.slot, m) ELSE UNCHANGED vars
    /\ Idle
    /\ UNCHANGED pub

EndOfBody == upc = "download" /\ done = Len(body) /\ Finish

-----------------------------------------------------------------------------
(* The environment *)

\* The connection is closed early, which a read cannot tell from the end.
ClosedEarly == "net" \in Faults /\ upc = "download" /\ done < Len(body) /\ Finish

\* A request is refused or answered with an error, or a read fails.
RequestFails ==
    /\ "net" \in Faults /\ upc \in {"erase", "download"}
    /\ Idle
    /\ UNCHANGED <<vars, pub>>

Publish ==
    /\ pub < Len(Releases)
    /\ pub' = pub + 1
    /\ UNCHANGED <<vars, upc, m, body, done>>

UCrash == Crash /\ Idle /\ UNCHANGED pub

-----------------------------------------------------------------------------
UInit ==
    /\ flash = [s \in Slots |-> [i \in 1..SlotWords |-> Erased]]
    /\ Init
    /\ pub = 1
    /\ upc = "idle" /\ m = NoManifest /\ body = <<>> /\ done = 0

\* The device left to itself.
Device ==
    \/ StoreStep /\ UNCHANGED uvars
    \/ Poll \/ EraseSector \/ Open \/ ReadChunk \/ EndOfBody

UNext == Device \/ ClosedEarly \/ RequestFails \/ Publish \/ UCrash

USpec == UInit /\ [][UNext]_allvars

\* One task, which FreeRTOS always gets round to running again.
FairSpec == USpec /\ WF_allvars(Device)

-----------------------------------------------------------------------------
(* Properties *)

\* The type invariant of the task's own variables; no download runs while
\* blocklist_init or blocklist_commit_slot does.
UTypeOK ==
    /\ pub \in DOMAIN Releases
    /\ upc \in {"idle", "erase", "download"}
    /\ upc # "idle" => pc = "ready" /\ m.slot = InactiveSlot
    /\ done \in 0..SlotWords
    /\ body \in {<<>>} \cup {Releases[i].body : i \in DOMAIN Releases}

\* No position is programmed twice without an erase in between: what is still
\* to be written of the blob is erased, whatever an earlier attempt or a crash
\* left in the partition.
ProgramsErasedOnly ==
    upc = "download" => \A i \in done + 1 .. m.size : flash[m.slot][i] = Erased

\* Only a blob that was published, under a manifest that passes every check, is
\* ever served, whatever was torn on the way, the metadata included: never part
\* of one, never a blend of two, and nothing beyond the end of one, even when the
\* count announced with it fits only because its size in bytes wraps.
ServedIsARelease ==
    served # <<>> =>
        \E i \in 1..pub : Releases[i].body = served /\ Acceptable(Releases[i])

\* What the code relies on and cannot check: a list that can be stored and does
\* not come from a blob does not have its digest (collisions of SHA-256), ...
NoCollisions ==
    \A list \in StoredLists, k \in DOMAIN Releases :
        \A n \in 0..Len(Releases[k].body) :
            LET start == SubSeq(Releases[k].body, 1, n)
            IN  Sha256(list) = Sha256(start) => list = start

\* The manifest of release j describes what the blob of release k begins with.
Describes(j, k) ==
    LET r == Releases[j]
        blob == Releases[k].body
    IN  Acceptable(r) /\ r.size <= Len(blob) /\ r.sha = Sha256(SubSeq(blob, 1, r.size))

\* ... and the publisher announces what it serves: where an acceptable manifest
\* describes the beginning of a blob, one of the releases up to those two has just
\* that beginning as its blob, under a manifest that can be accepted.
BlobsAnnounced ==
    \A j, k \in DOMAIN Releases :
        Describes(j, k) =>
            \E i \in 1..j \cup 1..k :
                Acceptable(Releases[i])
                /\ Releases[i].body = SubSeq(Releases[k].body, 1, Releases[j].size)

\* The updater uses the storage the way BlocklistStore lets any caller.
UsesStoreProperly == Spec

\* Once crashes and network failures stop, the device ends up serving what is
\* published, if that can be served at all ("retry next cycle") and is a release
\* of its own: SkipsOnlyWhatIsServed is about publishing an earlier one again.
Servable(r) ==
    /\ Acceptable(r) /\ Len(r.body) = r.size /\ r.cnt = r.size
    /\ Sha256(r.body) = r.sha /\ Ascending(r.body)

Convergence ==
    <>[][~(UCrash \/ ClosedEarly \/ RequestFails)]_allvars
        => <>[](Servable(Release) => served = Release.body)

\* updater.c, where a manifest is passed over because its version is that of the
\* active list: "already serving this version".
SkipsOnlyWhatIsServed ==
    upc = "idle" /\ pc = "ready" =>
        \A i \in 1..pub :
            Servable(Releases[i]) /\ Releases[i].ver = version => served = Releases[i].body
==============================================================================
