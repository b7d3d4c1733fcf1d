---------------------------- MODULE GeneratorNode ----------------------------
(***************************************************************************)
(* The generator node, generator-node/main: refresh_task fetches and       *)
(* generates an artifact, persists it in the slot the NVS record does not  *)
(* name (artifact_store.c) and publishes it (http_serve.c); the HTTP       *)
(* server's task sends the published artifact and takes /refresh requests. *)
(* A reboot publishes the persisted artifact again.  An artifact stands    *)
(* for its hashes; its count, digest and version are determined by them,   *)
(* so each NVS key of a slot names the artifact it was written for.        *)
(***************************************************************************)
EXTENDS Integers, FiniteSets

CONSTANTS
    Artifacts,  \* what a cycle may generate
    Objects,    \* published_t structures the heap may hand out
    Absent,     \* an NVS key that is not there; a missing version
    Faults      \* what may fail: "nvs", "heap", "flash", "net"

ASSUME GeneratorAssumption ==
    /\ "blank" \notin Artifacts /\ "garbage" \notin Artifacts
    /\ Absent \notin Artifacts /\ Absent \notin {0, 1}
    /\ "NULL" \notin Objects

VARIABLES
    part,      \* the contents of art_a and art_b
    nvs,       \* the NVS entries as handles read them
    nvsFlash,  \* the entries made durable
    pc,        \* the next step of app_main's restore, then of refresh_task
    art,       \* the artifact being persisted and published, with its version
    objs,      \* the published_t structures: artifact and version, or Free
    current,   \* s_current
    next,      \* http_serve_publish's next
    old,       \* its old
    sending,   \* the structure a handler is sending, holding s_lock; NULL if none
    taskUp,    \* s_refresh_task is set
    notified,  \* the task's notification value is not 0
    saved,     \* history: some save has succeeded
    owed       \* history: a refresh was acknowledged and no cycle has begun since

flash == <<part, nvs, nvsFlash>>
serve == <<objs, current, next, old>>
refresh == <<taskUp, notified, owed>>
vars == <<flash, pc, art, serve, sending, refresh, saved>>

Slots == {0, 1}
Active == <<"active", 0>>
Keys == {Active} \cup {"cnt", "sha", "ver"} \X Slots
NULL == "NULL"
NoArt == [art |-> "blank", ver |-> Absent]
Free == NoArt
Allocated == {o \in Objects : objs[o] # Free}

Survivors == {[k \in Keys |-> IF k \in kept THEN nvs[k] ELSE nvsFlash[k]] :
                 kept \in SUBSET {k \in Keys : nvs[k] # nvsFlash[k]}}

\* blocklist_verify_blob of a partition against the metadata of view v.
Verifies(v, s) == v[<<"cnt", s>>] = part[s] /\ v[<<"sha", s>>] = part[s] /\ part[s] \in Artifacts

-----------------------------------------------------------------------------
(* app_main: artifact_store_load, then publish *)

Loadable(v) == v[Active] \in Slots /\ Verifies(v, v[Active])

Restore ==
    /\ pc = "boot"
    /\ \/ /\ Loadable(nvs)
          /\ art' = [art |-> part[nvs[Active]], ver |-> nvs[<<"ver", nvs[Active]>>]]
          /\ pc' = "publish"
       \/ /\ ~Loadable(nvs) \/ "heap" \in Faults
          /\ art' = art
          /\ pc' = "start"
    /\ UNCHANGED <<flash, serve, sending, refresh, saved>>

StartTask ==
    /\ pc = "start"
    /\ taskUp' = TRUE
    /\ pc' = "fetch"
    /\ UNCHANGED <<flash, art, serve, sending, notified, owed, saved>>

-----------------------------------------------------------------------------
(* refresh_task *)

\* fetch_and_generate begins, from now on it covers what was asked for before.
\* It yields an artifact, or nothing this cycle.
Fetch ==
    /\ pc = "fetch"
    /\ owed' = FALSE
    /\ pc' = "generate"
    /\ UNCHANGED <<flash, art, serve, sending, taskUp, notified, saved>>

Generate ==
    /\ pc = "generate"
    /\ \/ /\ \E a \in Artifacts : art' = [art |-> a, ver |-> a]
          /\ pc' = "erase"
       \/ /\ "net" \in Faults
          /\ art' = art
          /\ pc' = "clear"
    /\ UNCHANGED <<flash, serve, sending, refresh, saved>>

(* artifact_store_save; a failure is logged and the artifact served anyway *)

Mut_SaveSlot == IF nvs[Active] \in Slots THEN nvs[Active] ELSE 0
SaveSlot == IF nvs[Active] = 0 THEN 1 ELSE 0

SaveFails(fault) ==
    /\ fault \in Faults
    /\ pc' = "publish"
    /\ UNCHANGED flash

Erase ==
    /\ pc = "erase"
    /\ \/ /\ part' = [part EXCEPT ![SaveSlot] = "blank"]
          /\ pc' = "write"
          /\ UNCHANGED <<nvs, nvsFlash>>
       \/ SaveFails("flash")
    /\ UNCHANGED <<art, serve, sending, refresh, saved>>

\* A write may also go wrong without the driver noticing.
Write ==
    /\ pc = "write"
    /\ \/ /\ \/ part' = [part EXCEPT ![SaveSlot] = art.art]
             \/ "flash" \in Faults /\ part' = [part EXCEPT ![SaveSlot] = "garbage"]
          /\ pc' = "cnt"
          /\ UNCHANGED <<nvs, nvsFlash>>
       \/ SaveFails("flash")
    /\ UNCHANGED <<art, serve, sending, refresh, saved>>

MetaStep == [cnt |-> "sha", sha |-> "ver", ver |-> "sync"]

SetMeta ==
    /\ pc \in DOMAIN MetaStep
    /\ \/ /\ nvs' = [nvs EXCEPT ![<<pc, SaveSlot>>] = IF pc = "ver" THEN art.ver ELSE art.art]
          /\ pc' = MetaStep[pc]
          /\ UNCHANGED <<part, nvsFlash>>
       \/ SaveFails("nvs")
    /\ UNCHANGED <<art, serve, sending, refresh, saved>>

Mut_SyncMeta ==
    /\ pc = "sync"
    /\ pc' = "verify"
    /\ UNCHANGED <<flash, art, serve, sending, refresh, saved>>

SyncMeta ==
    /\ pc = "sync"
    /\ \/ /\ nvsFlash' = nvs
          /\ pc' = "verify"
          /\ UNCHANGED <<part, nvs>>
       \/ SaveFails("nvs")
    /\ UNCHANGED <<art, serve, sending, refresh, saved>>

Mut_ReadBack ==
    /\ pc = "verify"
    /\ pc' = "flip"
    /\ UNCHANGED <<flash, art, serve, sending, refresh, saved>>

\* The write is read back and verified before the record may name the slot.
ReadBack ==
    /\ pc = "verify"
    /\ \/ part[SaveSlot] = art.art /\ pc' = "flip"
       \/ (part[SaveSlot] # art.art \/ "heap" \in Faults) /\ pc' = "publish"
    /\ UNCHANGED <<flash, art, serve, sending, refresh, saved>>

Flip ==
    /\ pc = "flip"
    /\ \/ /\ nvs' = [nvs EXCEPT ![Active] = SaveSlot]
          /\ pc' = "flipsync"
          /\ UNCHANGED <<part, nvsFlash>>
       \/ SaveFails("nvs")
    /\ UNCHANGED <<art, serve, sending, refresh, saved>>

FlipSync ==
    /\ pc = "flipsync"
    /\ \/ nvsFlash' = nvs /\ saved' = TRUE
       \/ "nvs" \in Faults /\ UNCHANGED <<nvsFlash, saved>>
    /\ pc' = "publish"
    /\ UNCHANGED <<part, nvs, art, serve, sending, refresh>>

-----------------------------------------------------------------------------
(* http_serve_publish, called by app_main and by refresh_task *)

Mut_AfterPublish == "clear"
AfterPublish == IF taskUp THEN "clear" ELSE "start"

Encode ==
    /\ pc = "publish"
    /\ \/ /\ \E o \in Objects \ Allocated : objs' = [objs EXCEPT ![o] = art] /\ next' = o
          /\ pc' = "swap"
       \/ /\ "heap" \in Faults
          /\ pc' = AfterPublish
          /\ UNCHANGED <<objs, next>>
    /\ art' = NoArt
    /\ UNCHANGED <<flash, current, old, sending, refresh, saved>>

Mut_Swap ==
    /\ pc = "swap"
    /\ old' = current /\ current' = next /\ next' = NULL
    /\ pc' = "free"
    /\ UNCHANGED <<flash, art, objs, sending, refresh, saved>>

\* The pointer swap waits for s_lock, which a handler holds while it sends.
Swap ==
    /\ pc = "swap" /\ sending = NULL
    /\ old' = current /\ current' = next /\ next' = NULL
    /\ pc' = "free"
    /\ UNCHANGED <<flash, art, objs, sending, refresh, saved>>

FreeOld ==
    /\ pc = "free"
    /\ objs' = IF old = NULL THEN objs ELSE [objs EXCEPT ![old] = Free]
    /\ old' = NULL
    /\ pc' = AfterPublish
    /\ UNCHANGED <<flash, art, current, next, sending, refresh, saved>>

-----------------------------------------------------------------------------
(* The end of a cycle, and the HTTP server's task *)

\* ulTaskNotifyValueClear forgets the notifications of the cycle just run.
Clear ==
    /\ pc = "clear"
    /\ notified' = FALSE
    /\ pc' = "wait"
    /\ UNCHANGED <<flash, art, serve, sending, taskUp, owed, saved>>

Mut_Wake ==
    /\ pc = "wait" /\ notified
    /\ notified' = FALSE
    /\ pc' = "fetch"
    /\ UNCHANGED <<flash, art, serve, sending, taskUp, owed, saved>>

\* ulTaskNotifyTake returns when notified, or when the interval is over.
Wake ==
    /\ pc = "wait"
    /\ notified' = FALSE
    /\ pc' = "fetch"
    /\ UNCHANGED <<flash, art, serve, sending, taskUp, owed, saved>>

\* refresh_handler: 503 until the task exists, else "refresh triggered".
Refresh ==
    /\ taskUp
    /\ notified' = TRUE
    /\ owed' = TRUE
    /\ UNCHANGED <<flash, pc, art, serve, sending, taskUp, saved>>

\* manifest_handler and blocklist_handler: 503 if nothing is published, else
\* s_lock is held for the whole send.
SendBegin ==
    /\ sending = NULL /\ current # NULL
    /\ sending' = current
    /\ UNCHANGED <<flash, pc, art, serve, refresh, saved>>

SendEnd ==
    /\ sending # NULL
    /\ sending' = NULL
    /\ UNCHANGED <<flash, pc, art, serve, refresh, saved>>

-----------------------------------------------------------------------------
Reset ==
    /\ pc' = "boot" /\ art' = NoArt
    /\ objs' = [o \in Objects |-> Free]
    /\ current' = NULL /\ next' = NULL /\ old' = NULL /\ sending' = NULL
    /\ taskUp' = FALSE /\ notified' = FALSE /\ owed' = FALSE

Crash ==
    /\ nvs' \in Survivors /\ nvsFlash' = nvs'
    /\ Reset
    /\ UNCHANGED <<part, saved>>

Init ==
    /\ part = [s \in Slots |-> "blank"]
    /\ nvs = [k \in Keys |-> Absent] /\ nvsFlash = nvs
    /\ pc = "boot" /\ art = NoArt
    /\ objs = [o \in Objects |-> Free]
    /\ current = NULL /\ next = NULL /\ old = NULL /\ sending = NULL
    /\ taskUp = FALSE /\ notified = FALSE /\ owed = FALSE /\ saved = FALSE

Task ==
    \/ Restore \/ StartTask \/ Fetch \/ Generate
    \/ Erase \/ Write \/ SetMeta \/ SyncMeta \/ ReadBack \/ Flip \/ FlipSync
    \/ Encode \/ Swap \/ FreeOld \/ Clear \/ Wake

Next == Task \/ Refresh \/ SendBegin \/ SendEnd \/ Crash

Spec == Init /\ [][Next]_vars

\* Both tasks run; a send ends, by the server's own send timeout if not before.
FairSpec == Spec /\ WF_vars(Task) /\ WF_vars(SendEnd)

-----------------------------------------------------------------------------
(* Properties *)

TypeOK ==
    /\ part \in [Slots -> Artifacts \cup {"blank", "garbage"}]
    /\ \A v \in {nvs, nvsFlash} :
          /\ DOMAIN v = Keys
          /\ v[Active] \in Slots \cup {Absent}
          /\ \A k \in Keys \ {Active} : v[k] \in Artifacts \cup {Absent}
    /\ art.art \in Artifacts \cup {"blank"} /\ art.ver \in Artifacts \cup {Absent}
    /\ {current, next, old, sending} \subseteq Objects \cup {NULL}
    /\ \A o \in Allocated : objs[o].art \in Artifacts
    /\ {taskUp, notified, saved, owed} \subseteq BOOLEAN
    /\ pc \in {"boot", "start", "publish", "swap", "free"} \/ taskUp

\* Once a save has succeeded, a power cut at any step of any later save leaves
\* an artifact that the next boot restores, even if flash writes go wrong.
RestoreSafe == saved => \A v \in Survivors : Loadable(v)

\* What this node promises (DurableArtifact): the artifacts the next boot may
\* find if the power goes now, and the one a cycle has made and not published.
Candidates == {IF Loadable(v) THEN part[v[Active]] ELSE NoArt.art : v \in Survivors}
Fresh == IF next # NULL THEN objs[next].art ELSE art.art

Durable == INSTANCE DurableArtifact WITH
    None <- NoArt.art,
    published <- IF current = NULL THEN NoArt.art ELSE objs[current].art,
    durable <- Candidates,
    fresh <- IF taskUp THEN Fresh ELSE NoArt.art,
    up <- taskUp

\* The node keeps that promise step by step, while NVS calls do not fail: what a
\* reboot publishes is the last artifact whose save succeeded, or the one whose
\* record was just being written, and never one that was not generated.
ImplementsDurableArtifact == Durable!Spec

\* artifact_store.c has no fallback slot, so a version never labels a different
\* artifact than the one it was generated for: what is published is consistent,
\* also after a restore.
PublishedLabelTruthful == \A o \in Allocated : objs[o].ver = objs[o].art

\* http_serve.c: "no reader can still hold old once the lock cycled": a handler
\* never sends a structure that is freed, and at most two exist.
SendsLiveArtifact ==
    /\ sending # NULL => objs[sending] # Free
    /\ Cardinality(Allocated) <= 2

\* An acknowledged refresh is followed by a cycle, if downloads leave the lock
\* free at last: publishing waits for them.
RefreshFollowed == <>[](sending = NULL) => [](owed => <>(~owed))
===============================================================================
