--------------------------- MODULE DurableArtifact ---------------------------
(***************************************************************************)
(* What the generator promises of its artifacts (artifact_store.h,         *)
(* http_serve.h): each cycle's artifact may become the durable one, is     *)
(* published whether or not it did, and a reboot publishes the durable one *)
(* again.  durable is the set of artifacts the next boot may find: one,    *)
(* except while the record changes, when a crash decides.                  *)
(***************************************************************************)
CONSTANTS Artifacts, None

VARIABLES published, durable, fresh, up

vars == <<published, durable, fresh, up>>

Init == published = None /\ durable = {None} /\ fresh = None /\ ~up

\* Before the refresh task exists, only what is durable is published.
Restore ==
    /\ ~up
    /\ published' \in durable
    /\ UNCHANGED <<durable, fresh, up>>

Start == ~up /\ up' /\ UNCHANGED <<published, durable, fresh>>

Generate ==
    /\ up /\ fresh = None
    /\ fresh' \in Artifacts
    /\ UNCHANGED <<published, durable, up>>

\* The new artifact becomes the durable one, first as one of two outcomes;
\* nothing else ever does, and no step leaves less than was durable.
Persist ==
    /\ fresh # None
    /\ durable' \in {durable \cup {fresh}, {fresh}}
    /\ UNCHANGED <<published, fresh, up>>

Publish ==
    /\ fresh # None
    /\ published' = fresh /\ fresh' = None
    /\ UNCHANGED <<durable, up>>

\* There is no memory to publish it.
Drop == fresh' = None /\ UNCHANGED <<published, durable, up>>

Crash ==
    /\ \E a \in durable : durable' = {a}
    /\ published' = None /\ fresh' = None /\ ~up'

Next == Restore \/ Start \/ Generate \/ Persist \/ Publish \/ Drop \/ Crash

Spec == Init /\ [][Next]_vars
==============================================================================
