----------------------------- MODULE RefreshLoop -----------------------------
(***************************************************************************)
(* The generator's refresh_task against the task watchdog it subscribes    *)
(* to: generator-node/main/generator_main.c and the calls it makes in      *)
(* fetch.c, artifact_store.c and http_serve.c, with the points where each  *)
(* of them feeds the watchdog.  What is fetched, persisted and published   *)
(* is GeneratorNode's business.  Durations are in seconds.                 *)
(***************************************************************************)
EXTENDS Integers

CONSTANTS
    RefreshWdt,    \* WDT_TIMEOUT_S
    FirstDelay,    \* REFRESH_FIRST_DELAY_S
    Interval,      \* CONFIG_GENERATOR_REFRESH_INTERVAL_S
    HttpTimeout,   \* HTTP_TIMEOUT_MS: the longest one call of the client blocks
    SourceCount,   \* configured sources
    GenerateTime,  \* bound: blocklist_builder_finish
    FlashTime,     \* bound: erase, write and NVS updates of a save
    VerifyTime     \* bound: reading the slot back and hashing it

ASSUME RefreshAssumption ==
    /\ {RefreshWdt, FirstDelay, Interval, HttpTimeout, GenerateTime, FlashTime, VerifyTime} \subseteq Nat
    /\ SourceCount \in Nat

\* What lies between two feeds while the task works stays below the window: the first
\* delay, the last call to a source together with the generation that follows it
\* unfed, a save, a read-back.  The code sets the delay and the timeout; how long
\* the generation, the save and the read-back take, no line of it says.
ASSUME WorkAssumption ==
    /\ HttpTimeout + GenerateTime < RefreshWdt
    /\ FirstDelay < RefreshWdt
    /\ FlashTime < RefreshWdt /\ VerifyTime < RefreshWdt

VARIABLES
    step,    \* the next thing refresh_task does
    unfed,   \* time since the watchdog was fed
    left,    \* sources still to be fetched in this cycle
    waited   \* time in ulTaskNotifyTake

refreshVars == <<step, unfed, left, waited>>

\* A step of the task: it ends only if the watchdog lets it.  It takes up to t
\* after what was spent before it, or after feeding the watchdog.
At(p) == step = p /\ unfed < RefreshWdt
Takes(t) == \E d \in 0..t : unfed' = unfed + d
FeedThenTakes(t) == \E d \in 0..t : unfed' = d

-----------------------------------------------------------------------------
StartDelay ==
    /\ At("start")
    /\ FeedThenTakes(FirstDelay)
    /\ step' = "cycle"
    /\ UNCHANGED <<left, waited>>

\* Feed, then create the builder; without memory for it the cycle is over.
Cycle ==
    /\ At("cycle")
    /\ unfed' = 0
    /\ \/ left' = SourceCount /\ step' = "source"
       \/ left' = 0 /\ step' = "end"
    /\ UNCHANGED waited

(* fetch_one_source *)

\* The next configured source; the watchdog is fed before the connection.
Mut_Open ==
    /\ At("source") /\ left > 0
    /\ Takes(HttpTimeout)
    /\ left' = left - 1
    /\ step' \in {"source", "headers"}
    /\ UNCHANGED waited

Open ==
    /\ At("source") /\ left > 0
    /\ FeedThenTakes(HttpTimeout)
    /\ left' = left - 1
    /\ step' \in {"source", "headers"}
    /\ UNCHANGED waited

Headers ==
    /\ At("headers")
    /\ FeedThenTakes(HttpTimeout)
    /\ step' \in {"source", "read"}
    /\ UNCHANGED <<left, waited>>

\* A chunk, or the end of the body, or an error.
ReadChunk ==
    /\ At("read")
    /\ FeedThenTakes(HttpTimeout)
    /\ step' \in {"read", "source"}
    /\ UNCHANGED <<left, waited>>

\* blocklist_builder_finish, with what the last call to the network left.
Finish ==
    /\ At("source") /\ left = 0
    /\ Takes(GenerateTime)
    /\ step' = "generated"
    /\ UNCHANGED <<left, waited>>

(* The rest of the cycle *)

\* Fed after fetch_and_generate, whose status decides.
Generated ==
    /\ At("generated")
    /\ unfed' = 0
    /\ step' \in {"save", "wait"}
    /\ UNCHANGED <<left, waited>>

\* artifact_store_save feeds before the erase and before the readback; each
\* early return goes on to publish.
Save ==
    /\ At("save")
    /\ FeedThenTakes(FlashTime)
    /\ step' \in {"readback", "saved"}
    /\ UNCHANGED <<left, waited>>

ReadBack ==
    /\ At("readback")
    /\ FeedThenTakes(VerifyTime)
    /\ step' = "saved"
    /\ UNCHANGED <<left, waited>>

Saved ==
    /\ At("saved")
    /\ unfed' = 0
    /\ step' = "publish"
    /\ UNCHANGED <<left, waited>>

\* http_serve_publish waits for s_lock as long as a handler sends.
LockTaken ==
    /\ At("publish")
    /\ unfed' = unfed + 1
    /\ UNCHANGED <<step, left, waited>>

Publish ==
    /\ At("publish")
    /\ step' = "wait"
    /\ UNCHANGED <<unfed, left, waited>>

\* A cycle that failed before it fetched anything is fed like any other.
EndOfCycle ==
    /\ At("end")
    /\ unfed' = 0
    /\ step' = "wait"
    /\ UNCHANGED <<left, waited>>

\* ulTaskNotifyTake returns when /refresh notifies the task or the interval is
\* over; nothing feeds the watchdog meanwhile.
Waiting ==
    /\ At("wait") /\ waited < Interval
    /\ unfed' = unfed + 1 /\ waited' = waited + 1
    /\ UNCHANGED <<step, left>>

Wake ==
    /\ At("wait")
    /\ step' = "cycle" /\ waited' = 0
    /\ UNCHANGED <<unfed, left>>

-----------------------------------------------------------------------------
RefreshPanic ==
    /\ unfed >= RefreshWdt
    /\ step' = "start" /\ unfed' = 0 /\ left' = 0 /\ waited' = 0

RefreshInit == step = "start" /\ unfed = 0 /\ left = 0 /\ waited = 0

Work ==
    \/ StartDelay \/ Cycle \/ Open \/ Headers \/ ReadChunk \/ Finish
    \/ Generated \/ Save \/ ReadBack \/ Saved \/ Publish \/ EndOfCycle

RefreshNext == Work \/ LockTaken \/ Waiting \/ Wake \/ RefreshPanic

RefreshSpec == RefreshInit /\ [][RefreshNext]_refreshVars

-----------------------------------------------------------------------------
(* Properties *)

\* generator_main.c: the window "avoids a spurious panic-reboot mid-generation
\* on ordinary network hiccups": whatever stalls or fails in a cycle, for every
\* source, the watchdog does not bite while the task fetches, generates or saves.
WorkIsFed == unfed >= RefreshWdt => step \in {"publish", "wait"}

\* generator_main.c: the task "Waits out the interval".
WaitsOutInterval == step = "wait" => unfed < RefreshWdt
=============================================================================
