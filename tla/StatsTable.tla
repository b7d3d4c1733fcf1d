------------------------------ MODULE StatsTable ------------------------------
(***************************************************************************)
(* The generator's side of the query statistics: the listener task of      *)
(* generator-node/main/stats_ui.c adds up what the sinkholes report, one   *)
(* row of s_nodes for each.  A datagram is one line: the sender's address  *)
(* and a number per counter.  The sixteen buckets of the histogram count   *)
(* as one counter, and timeouts, counted and reported the way blocked      *)
(* queries are, as blocked.                                                *)
(***************************************************************************)
EXTENDS Integers, Sequences, FiniteSets, SequencesExt

CONSTANTS
    Mod,        \* 2^32: the sums and the counters are uint32_t
    LongMax,    \* LONG_MAX of strtol, 2^31 - 1 on both chips
    MaxNodes    \* STATS_MAX_NODES

ASSUME TableAssumption == Mod \in Nat \ {0} /\ LongMax \in Nat /\ MaxNodes \in Nat \ {0}

\* The fields of a line, in the order in which they are sent.
Order == <<"blocked", "forwarded", "lat_sum_us", "hist">>
Counters == {Order[i] : i \in 1..Len(Order)}
Zero == [c \in Counters |-> 0]

VARIABLES
    rows,    \* the used entries of s_nodes
    heard    \* history: what the reports that came say of each node, with a row

table == <<rows, heard>>

Add(a, b) == (a + b) % Mod

\* strtol stops at LONG_MAX.
Strtol(n) == IF n > LongMax THEN LongMax ELSE n

Plus(sums, delta) == [c \in Counters |-> Add(sums[c], Strtol(delta[c]))]

-----------------------------------------------------------------------------
Mut_Matches(row, tag) == IsPrefix(tag, row.node)
\* strncmp of the tag's characters, and no other after them.
Matches(row, tag) == row.node = tag

\* find_or_create_node: the first row that matches, or a new one if there is room.
RowOf(tag) ==
    LET found == {i \in DOMAIN rows : Matches(rows[i], tag)}
    IN  IF found # {} THEN Min(found)
        ELSE IF Len(rows) < MaxNodes THEN Len(rows) + 1
        ELSE 0

\* ingest_line: a sender without a row is ignored.
IngestLine(l) ==
    LET row == RowOf(l.node)
    IN  rows' = IF row = 0 THEN rows
                ELSE IF row > Len(rows)
                THEN Append(rows, [node |-> l.node, sums |-> Plus(Zero, l.delta)])
                ELSE [rows EXCEPT ![row].sums = Plus(@, l.delta)]

\* What the line stands for: it adds to its own node, as long as there is room.
Hear(l) ==
    LET before == IF l.node \in DOMAIN heard THEN heard[l.node] ELSE Zero
        after == [c \in Counters |-> Add(before[c], l.growth[c])]
    IN  heard' = IF l.node \in DOMAIN heard \/ Cardinality(DOMAIN heard) < MaxNodes
                 THEN [n \in DOMAIN heard \cup {l.node} |-> IF n = l.node THEN after ELSE heard[n]]
                 ELSE heard

\* stats_listener_task receives a datagram.
Listen(l) == IngestLine(l) /\ Hear(l)

TableInit == rows = <<>> /\ heard = [n \in {} |-> Zero]

-----------------------------------------------------------------------------
(* Properties *)

\* stats_ui.c keeps "running sums of reported deltas", one row per node: what the
\* generator shows of a node is what happened in the intervals whose reports
\* arrived, and only in that node's, however the counters wrap, reports are lost
\* or overtake each other, either side reboots and the table fills up.
SumsExact ==
    /\ Len(rows) = Cardinality(DOMAIN heard)
    /\ \A i \in DOMAIN rows :
          rows[i].node \in DOMAIN heard /\ rows[i].sums = heard[rows[i].node]
===============================================================================
