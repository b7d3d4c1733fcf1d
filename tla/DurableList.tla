----------------------------- MODULE DurableList -----------------------------
(***************************************************************************)
(* What the sinkhole's list storage promises (main/blocklist.h): a list    *)
(* that is served, and a durable one a reboot comes back with.  durable is *)
(* the set of lists the next boot may find: one, except while a change of  *)
(* the durable list is under way, when a crash decides.                    *)
(***************************************************************************)
CONSTANT Lists

VARIABLES served, durable, up

vars == <<served, durable, up>>

None == <<>>

Init == served = None /\ durable = {None} /\ ~up

\* Until a list is served nothing is promised: a list that is being written may
\* already boot, or stop booting.
Provision ==
    /\ up /\ served = None
    /\ durable' # {} /\ durable' \subseteq Lists \cup {None}
    /\ UNCHANGED <<served, up>>

\* The served list changes at once, never before a reboot would find a list; the
\* durable one is not touched by that.
Serve ==
    /\ up /\ None \notin durable
    /\ served' \in Lists
    /\ UNCHANGED <<durable, up>>

\* The served list becomes the durable one, first as one of two outcomes.
MakeDurable ==
    /\ up /\ served # None
    /\ durable' \in {durable \cup {served}, {served}}
    /\ UNCHANGED <<served, up>>

Crash ==
    /\ \E l \in durable : durable' = {l}
    /\ served' = None /\ ~up'

Boot ==
    /\ ~up /\ up'
    /\ served' \in durable
    /\ UNCHANGED durable

Next == Provision \/ Serve \/ MakeDurable \/ Crash \/ Boot

Spec == Init /\ [][Next]_vars
==============================================================================
