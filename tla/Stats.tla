-------------------------------- MODULE Stats --------------------------------
(***************************************************************************)
(* Query statistics: the DNS task bumps 32-bit counters without a lock,    *)
(* the stats task (main/stats.c) snapshots them one by one and sends what  *)
(* they grew by as a UDP datagram to the listener of StatsTable.  Either   *)
(* side may reboot, and a datagram may be lost or overtaken.  One sinkhole *)
(* is modelled, and the reports of the others.                             *)
(***************************************************************************)
EXTENDS StatsTable

CONSTANTS
    Me,           \* s_node: the modelled sinkhole's address
    Others,       \* those of the other sinkholes
    Latencies,    \* latency_us a forwarded query may have
    MaxGrowth,    \* bound: how much a counter grows between two snapshots
    MaxQueries,   \* bound: queries counted in a behaviour
    MaxReports,   \* bound: datagrams of the others in a behaviour
    MaxWire       \* bound: datagrams under way

ASSUME StatsAssumption ==
    Latencies \subseteq 0..MaxGrowth /\ MaxGrowth \in 0..Mod - 1

Waiting == 1
Sending == Len(Order) + 1

VARIABLES
    counter,   \* the counters, written by the DNS task
    todo,      \* what the running stats_count_ call still has to add
    spc,       \* the next index of Order to read, the first when Waiting, or Sending
    cur,       \* stats_send_once's snapshot
    last,      \* the snapshot of the report before
    wire,      \* datagrams under way
    queries,   \* history: queries counted
    reports,   \* history: datagrams the others sent
    since,     \* history: growth of each counter since it was last read
    got,       \* history: growth between the last two reads of each counter
    raced      \* history: a count was under way during the snapshot

dns == <<counter, todo, queries>>
sender == <<spc, cur, last, got, raced>>
vars == <<dns, sender, since, wire, reports, table>>

Sub(a, b) == (a - b) % Mod

-----------------------------------------------------------------------------
(* The DNS task *)

Mut_CountForwarded(us) ==
    IF us = 0 THEN << <<"forwarded", 1>> >>
    ELSE << <<"forwarded", 1>>, <<"lat_sum_us", us>>, <<"hist", 1>> >>
CountForwarded(us) == << <<"forwarded", 1>>, <<"lat_sum_us", us>>, <<"hist", 1>> >>

\* stats_count_blocked (or stats_count_timeout) or stats_count_forwarded is called.
Count ==
    /\ todo = <<>> /\ queries < MaxQueries
    /\ todo' \in {<< <<"blocked", 1>> >>} \cup {CountForwarded(us) : us \in Latencies}
    /\ queries' = queries + 1
    /\ UNCHANGED <<counter, sender, since, wire, reports, table>>

\* One atomic_fetch_add.
FetchAdd ==
    /\ todo # <<>>
    /\ LET c == Head(todo)[1]
           n == Head(todo)[2]
       IN  /\ since[c] + n <= MaxGrowth
           /\ counter' = [counter EXCEPT ![c] = Add(@, n)]
           /\ since' = [since EXCEPT ![c] = @ + n]
    /\ todo' = Tail(todo)
    /\ raced' = (raced \/ spc # Waiting)
    /\ UNCHANGED <<queries, spc, cur, last, got, wire, reports, table>>

-----------------------------------------------------------------------------
(* The stats task *)

\* One atomic_load of snap_counters.
SnapRead ==
    /\ spc \in 1..Len(Order)
    /\ cur' = [cur EXCEPT ![Order[spc]] = counter[Order[spc]]]
    /\ got' = [got EXCEPT ![Order[spc]] = since[Order[spc]]]
    /\ since' = [since EXCEPT ![Order[spc]] = 0]
    /\ raced' = (raced \/ todo # <<>>)
    /\ spc' = spc + 1
    /\ UNCHANGED <<dns, last, wire, reports, table>>

Delta == [c \in Counters |-> Sub(cur[c], last[c])]

\* The snapshot is a local variable, and what is recorded of it.
SnapOver == cur' = Zero /\ got' = Zero /\ raced' = FALSE

Mut_Report ==
    /\ spc = Sending
    /\ spc' = Waiting
    /\ \/ /\ Len(wire) < MaxWire
          /\ last' = cur
          /\ wire' = Append(wire, [node |-> Me, delta |-> Delta, growth |-> got])
       \/ UNCHANGED <<last, wire>>
    /\ SnapOver
    /\ UNCHANGED <<dns, since, reports, table>>

\* last advances whether or not the datagram gets out.
Report ==
    /\ spc = Sending
    /\ last' = cur
    /\ spc' = Waiting
    /\ \/ /\ Len(wire) < MaxWire
          /\ wire' = Append(wire, [node |-> Me, delta |-> Delta, growth |-> got])
       \/ UNCHANGED wire
    /\ SnapOver
    /\ UNCHANGED <<dns, since, reports, table>>

-----------------------------------------------------------------------------
(* The network, and the other sinkholes *)

\* A query was blocked in the interval of another sinkhole's report.
One == [Zero EXCEPT !["blocked"] = 1, !["hist"] = 1]

OthersReport ==
    /\ reports < MaxReports /\ Len(wire) < MaxWire
    /\ \E n \in Others : wire' = Append(wire, [node |-> n, delta |-> One, growth |-> One])
    /\ reports' = reports + 1
    /\ UNCHANGED <<dns, sender, since, table>>

\* Any datagram under way arrives.
Ingest ==
    /\ \E i \in 1..Len(wire) : Listen(wire[i]) /\ wire' = RemoveAt(wire, i)
    /\ UNCHANGED <<dns, sender, since, reports>>

-----------------------------------------------------------------------------
SinkholeReboots ==
    /\ counter' = Zero /\ todo' = <<>>
    /\ spc' = Waiting /\ cur' = Zero /\ last' = Zero
    /\ since' = Zero /\ got' = Zero /\ raced' = FALSE
    /\ UNCHANGED <<queries, wire, reports, table>>

GeneratorReboots ==
    /\ rows' = <<>> /\ heard' = [n \in {} |-> Zero]
    /\ UNCHANGED <<dns, sender, since, wire, reports>>

Lost ==
    /\ \E i \in 1..Len(wire) : wire' = RemoveAt(wire, i)
    /\ UNCHANGED <<dns, sender, since, reports, table>>

Init ==
    /\ counter = Zero /\ todo = <<>> /\ queries = 0
    /\ spc = Waiting /\ cur = Zero /\ last = Zero /\ got = Zero /\ raced = FALSE
    /\ since = Zero /\ wire = <<>> /\ reports = 0
    /\ TableInit

Next ==
    \/ Count \/ FetchAdd
    \/ SnapRead \/ Report
    \/ OthersReport \/ Ingest \/ Lost
    \/ SinkholeReboots \/ GeneratorReboots

Spec == Init /\ [][Next]_vars

-----------------------------------------------------------------------------
(* Properties *)

\* A report that no query raced with is consistent: every forwarded query is in
\* the histogram, although no lock is taken.  What a race tears apart, the next
\* quiet report puts right.
QuietReportConsistent ==
    spc = Sending /\ ~raced => cur["hist"] = cur["forwarded"]
==============================================================================
