----------------------------- MODULE Stats_proofs -----------------------------
(* Each row of the generator's table holds what the reports that came say of *)
(* its node, and a snapshot no count raced with is consistent: for every     *)
(* modulus, table size, number of sinkholes and pattern of loss.             *)
EXTENDS Stats, SequenceTheorems, FiniteSetTheorems, TLAPS

\* What a counter grows by between two snapshots is below strtol's limit.
DeltasFit == MaxGrowth <= LongMax /\ 1 <= LongMax

Words == 0..Mod - 1
Growth == 0..MaxGrowth

\* The counters of which the running snapshot has a value.
Read == {Order[i] : i \in 1..spc - 1}

StatsTypes ==
    /\ counter \in [Counters -> Words] /\ cur \in [Counters -> Words]
    /\ last \in [Counters -> Words]
    /\ since \in [Counters -> Growth] /\ got \in [Counters -> Growth]
    /\ todo \in Seq(Counters \X Nat)
    /\ spc \in Waiting..Sending
    /\ raced \in BOOLEAN

\* A counter is what was last reported and what it grew by since then.
Balanced ==
    \A c \in Counters :
        IF c \in Read
        THEN cur[c] = Add(last[c], got[c]) /\ counter[c] = Add(cur[c], since[c])
        ELSE counter[c] = Add(last[c], since[c])

\* A datagram whose numbers are the growth they stand for.
Honest == {d \in [node : {Me} \cup Others, delta : [Counters -> Int], growth : [Counters -> Int]] :
              d.delta = d.growth /\ \A c \in Counters : d.delta[c] <= LongMax}

Row == [node : {Me} \cup Others, sums : [Counters -> Int]]

\* The rows are those of the nodes heard of, one for each.
TableInv ==
    /\ rows \in Seq(Row)
    /\ \A i, j \in DOMAIN rows : rows[i].node = rows[j].node => i = j
    /\ DOMAIN heard = {rows[i].node : i \in DOMAIN rows}
    /\ IsFiniteSet(DOMAIN heard) /\ Cardinality(DOMAIN heard) = Len(rows)
    /\ \A i \in DOMAIN rows : rows[i].sums = heard[rows[i].node]

-----------------------------------------------------------------------------
(* Arithmetic *)

\* The rest of a division by Mod.
LEMMA ModSmall == ASSUME NEW a \in 0..Mod - 1 PROVE a % Mod = a
BY TableAssumption, SMT DEF TableAssumption

LEMMA ModWraps == ASSUME NEW a \in Mod..2 * Mod - 1 PROVE a % Mod = a - Mod
BY TableAssumption, SMT DEF TableAssumption

LEMMA ModBelow == ASSUME NEW a \in -Mod..-1 PROVE a % Mod = a + Mod
BY TableAssumption, SMT DEF TableAssumption

LEMMA ModType == ASSUME NEW a \in Int PROVE a % Mod \in Words
BY TableAssumption, SMT DEF TableAssumption, Words

LEMMA Sizes == Mod \in Nat \ {0} /\ MaxGrowth \in Nat /\ MaxGrowth < Mod /\ LongMax \in Nat
BY TableAssumption, StatsAssumption DEF TableAssumption, StatsAssumption

\* The sum of a word and a growth, with and without a wrap.
LEMMA AddAs ==
    ASSUME NEW a \in Words, NEW g \in Growth
    PROVE  Add(a, g) \in Words /\ Add(a, g) = IF a + g < Mod THEN a + g ELSE a + g - Mod
<1>1. CASE a + g < Mod
  <2>1. a + g \in 0..Mod - 1
    BY <1>1, Sizes DEF Words, Growth
  <2>2. QED
    BY <1>1, <2>1, ModSmall DEF Add, Words
<1>2. CASE ~(a + g < Mod)
  <2>1. PICK x \in Mod..2 * Mod - 1 : x = a + g
    BY <1>2, Sizes DEF Words, Growth
  <2>2. x % Mod = x - Mod
    BY ModWraps
  <2>3. QED
    BY <1>2, <2>1, <2>2, Sizes DEF Add, Words, Growth
<1>3. QED
  BY <1>1, <1>2

\* Growth adds up.
LEMMA AddAdds ==
    ASSUME NEW a \in Words, NEW g \in Growth, NEW n \in Nat, g + n <= MaxGrowth
    PROVE  Add(Add(a, g), n) = Add(a, g + n)
<1>1. g + n \in Growth /\ n \in Growth
  BY Sizes DEF Growth
<1>2. Add(a, g) \in Words
  BY AddAs
<1>3. QED
  BY <1>1, <1>2, AddAs, Sizes DEF Words, Growth

\* What Report sends of a counter is what it grew by.
LEMMA SubUndoesAdd ==
    ASSUME NEW a \in Words, NEW g \in Growth
    PROVE  Sub(Add(a, g), a) = g
<1>1. g \in 0..Mod - 1
  BY Sizes DEF Growth
<1>2. CASE a + g < Mod
  <2>1. Add(a, g) - a = g
    BY <1>2, AddAs, Sizes DEF Words, Growth
  <2>2. QED
    BY <1>1, <2>1, ModSmall DEF Sub
<1>3. CASE ~(a + g < Mod)
  <2>1. Add(a, g) - a = g - Mod
    BY <1>3, AddAs, Sizes DEF Words, Growth
  <2>2. g - Mod \in -Mod..-1
    BY <1>1, Sizes
  <2>3. (g - Mod) % Mod = g - Mod + Mod
    BY <2>2, ModBelow
  <2>4. QED
    BY <1>1, <2>1, <2>3, Sizes DEF Sub
<1>4. QED
  BY <1>2, <1>3

-----------------------------------------------------------------------------
(* The snapshot *)

LEMMA CountersAre ==
    /\ Len(Order) = 4 /\ Sending = 5 /\ Waiting = 1
    /\ Counters = {"blocked", "forwarded", "lat_sum_us", "hist"}
    /\ \A i \in 1..4 : Order[i] \in Counters
    /\ \A i, j \in 1..4 : Order[i] = Order[j] => i = j
<1>1. Len(Order) = 4
  BY DEF Order
<1>2. /\ Order[1] = "blocked" /\ Order[2] = "forwarded" /\ Order[3] = "lat_sum_us"
      /\ Order[4] = "hist"
  BY DEF Order
<1>3. \A i \in 1..4 : i = 1 \/ i = 2 \/ i = 3 \/ i = 4
  BY SMT
<1>4. Counters = {Order[i] : i \in 1..4}
  BY <1>1 DEF Counters
<1>5. Counters = {"blocked", "forwarded", "lat_sum_us", "hist"}
  <2>1. 1 \in 1..4 /\ 2 \in 1..4 /\ 3 \in 1..4 /\ 4 \in 1..4
    BY SMT
  <2>2. QED
    BY <1>2, <1>3, <1>4, <2>1
<1>6. \A i, j \in 1..4 : Order[i] = Order[j] => i = j
  BY <1>2, <1>3
<1>7. QED
  BY <1>1, <1>4, <1>5, <1>6 DEF Sending, Waiting

\* Reading a counter adds it to those read; none is read between two snapshots
\* and all are before a report.
LEMMA ReadAs ==
    /\ spc = Waiting => Read = {}
    /\ spc = Sending => Read = Counters
    /\ spc \in 1..Len(Order) => Order[spc] \in Counters \ Read
    /\ spc \in 1..Len(Order) /\ spc' = spc + 1 => Read' = Read \cup {Order[spc]}
<1>1. spc = Waiting => Read = {}
  BY CountersAre, SMT DEF Read
<1>2. spc = Sending => Read = Counters
  BY CountersAre, SMT DEF Read, Counters
<1>3. spc \in 1..Len(Order) => Order[spc] \in Counters \ Read
  BY CountersAre, SMT DEF Read
<1>4. ASSUME spc \in 1..Len(Order), spc' = spc + 1 PROVE Read' = Read \cup {Order[spc]}
  <2>1. Read' = {Order[i] : i \in 1..spc' - 1}
    BY DEF Read, Order
  <2>2. 1..spc' - 1 = (1..spc - 1) \cup {spc}
    BY <1>4, CountersAre, SMT
  <2>3. QED
    BY <2>1, <2>2 DEF Read
<1>5. QED
  BY <1>1, <1>2, <1>3, <1>4

LEMMA ZeroType ==
    /\ Zero \in [Counters -> Words] /\ Zero \in [Counters -> Growth] /\ Zero \in [Counters -> Int]
    /\ \A c \in Counters : Zero[c] = 0
    /\ \A a \in Words : Add(a, 0) = a
<1>1. 0 \in Words /\ 0 \in Growth /\ 0 \in Int
  BY Sizes DEF Words, Growth
<1>2. \A a \in Words : Add(a, 0) = a
  BY <1>1, AddAs, Sizes DEF Words
<1>3. QED
  BY <1>1, <1>2 DEF Zero

LEMMA ReadNone == spc' = Waiting => Read' = {}
<1> SUFFICES ASSUME spc' = Waiting PROVE Read' = {}
  OBVIOUS
<1>1. Read' = {Order[i] : i \in 1..spc' - 1}
  BY DEF Read, Order
<1>2. 1..spc' - 1 = {}
  BY CountersAre, SMT
<1>3. QED
  BY <1>1, <1>2

-----------------------------------------------------------------------------
(* Types *)

LEMMA TodoAs ==
    /\ << <<"blocked", 1>> >> \in Seq(Counters \X Nat)
    /\ \A us \in Latencies : CountForwarded(us) \in Seq(Counters \X Nat)
<1>1. Latencies \subseteq Nat
  BY StatsAssumption, Sizes DEF StatsAssumption
<1>2. \A us \in Latencies : CountForwarded(us) \in Seq(Counters \X Nat)
  BY <1>1, CountersAre DEF CountForwarded
<1>3. << <<"blocked", 1>> >> \in Seq(Counters \X Nat)
  BY CountersAre
<1>4. QED
  BY <1>2, <1>3

LEMMA TypesInit == Init => StatsTypes
<1> SUFFICES ASSUME Init PROVE StatsTypes
  OBVIOUS
<1>1. spc \in Waiting..Sending
  BY CountersAre DEF Init
<1>2. todo \in Seq(Counters \X Nat)
  BY EmptySeq DEF Init
<1>3. QED
  BY <1>1, <1>2, ZeroType DEF Init, StatsTypes

LEMMA FetchAddAs ==
    ASSUME StatsTypes, FetchAdd
    PROVE  \E c \in Counters, n \in Nat :
              /\ since[c] + n <= MaxGrowth
              /\ counter' = [counter EXCEPT ![c] = Add(@, n)]
              /\ since' = [since EXCEPT ![c] = @ + n]
              /\ since[c] + n \in Growth /\ Add(counter[c], n) \in Words
<1>1. Head(todo) \in Counters \X Nat
  BY HeadTailProperties DEF StatsTypes, FetchAdd
<1> DEFINE c == Head(todo)[1]
           n == Head(todo)[2]
<1>2. c \in Counters /\ n \in Nat
  BY <1>1
<1>3. /\ since[c] + n <= MaxGrowth
      /\ counter' = [counter EXCEPT ![c] = Add(@, n)]
      /\ since' = [since EXCEPT ![c] = @ + n]
  BY DEF FetchAdd
<1>4. since[c] \in Growth /\ counter[c] \in Words
  BY <1>2 DEF StatsTypes
<1>5. since[c] + n \in Growth /\ n \in Growth
  BY <1>2, <1>3, <1>4, Sizes DEF Growth
<1>6. Add(counter[c], n) \in Words
  BY <1>4, <1>5, AddAs
<1> HIDE DEF c, n
<1>7. QED
  BY <1>2, <1>3, <1>5, <1>6

LEMMA TypesStep == StatsTypes /\ [Next]_vars => StatsTypes'
<1> SUFFICES ASSUME StatsTypes, [Next]_vars PROVE StatsTypes'
  OBVIOUS
<1> USE DEF dns, sender, table
<1>1. CASE Count
  BY <1>1, TodoAs DEF Count, StatsTypes
<1>2. CASE FetchAdd
  <2>1. PICK c \in Counters, n \in Nat :
              /\ counter' = [counter EXCEPT ![c] = Add(@, n)]
              /\ since' = [since EXCEPT ![c] = @ + n]
              /\ since[c] + n \in Growth /\ Add(counter[c], n) \in Words
    BY <1>2, FetchAddAs
  <2>2. counter' \in [Counters -> Words] /\ since' \in [Counters -> Growth]
    BY <2>1 DEF StatsTypes
  <2>3. todo' \in Seq(Counters \X Nat)
    BY <1>2, HeadTailProperties DEF StatsTypes, FetchAdd
  <2>4. raced' \in BOOLEAN
    BY <1>2 DEF FetchAdd
  <2>5. QED
    BY <1>2, <2>2, <2>3, <2>4 DEF FetchAdd, StatsTypes
<1>3. CASE SnapRead
  <2>1. Order[spc] \in Counters
    BY <1>3, ReadAs DEF SnapRead
  <2>2. cur' \in [Counters -> Words]
    BY <1>3, <2>1 DEF SnapRead, StatsTypes
  <2>3. got' \in [Counters -> Growth]
    BY <1>3, <2>1 DEF SnapRead, StatsTypes
  <2>4. since' \in [Counters -> Growth]
    BY <1>3, <2>1, Sizes DEF SnapRead, StatsTypes, Growth
  <2>5. spc' \in Waiting..Sending /\ raced' \in BOOLEAN
    BY <1>3, CountersAre DEF SnapRead, StatsTypes
  <2>6. QED
    BY <1>3, <2>2, <2>3, <2>4, <2>5 DEF SnapRead, StatsTypes
<1>4. CASE Report
  <2>1. spc' \in Waiting..Sending
    BY <1>4, CountersAre DEF Report
  <2>2. QED
    BY <1>4, <2>1, ZeroType DEF Report, SnapOver, StatsTypes
<1>5. CASE OthersReport
  BY <1>5 DEF OthersReport, StatsTypes
<1>6. CASE Ingest
  BY <1>6 DEF Ingest, StatsTypes
<1>7. CASE Lost
  BY <1>7 DEF Lost, StatsTypes
<1>8. CASE SinkholeReboots
  <2>1. spc' \in Waiting..Sending /\ todo' \in Seq(Counters \X Nat)
    BY <1>8, CountersAre, EmptySeq DEF SinkholeReboots
  <2>2. QED
    BY <1>8, <2>1, ZeroType DEF SinkholeReboots, StatsTypes
<1>9. CASE GeneratorReboots
  BY <1>9 DEF GeneratorReboots, StatsTypes
<1>10. CASE UNCHANGED vars
  BY <1>10 DEF vars, StatsTypes
<1>11. QED
  BY <1>1, <1>2, <1>3, <1>4, <1>5, <1>6, <1>7, <1>8, <1>9, <1>10 DEF Next

-----------------------------------------------------------------------------
(* The balance of the counters *)

LEMMA BalancedInit == Init => Balanced
<1> SUFFICES ASSUME Init PROVE Balanced
  OBVIOUS
<1>1. Read = {}
  BY ReadAs DEF Init
<1>2. \A c \in Counters : counter[c] = Add(last[c], since[c])
  BY ZeroType, Sizes DEF Init, Words
<1>3. QED
  BY <1>1, <1>2 DEF Balanced

LEMMA BalancedStep == StatsTypes /\ Balanced /\ [Next]_vars => Balanced'
<1> SUFFICES ASSUME StatsTypes, Balanced, [Next]_vars PROVE Balanced'
  OBVIOUS
<1> USE DEF dns, sender, table
<1>1. ASSUME UNCHANGED <<counter, since, sender>> PROVE Balanced'
  <2>1. Read' = Read
    BY <1>1 DEF Read, Order
  <2>2. QED
    BY <1>1, <2>1 DEF Balanced
<1>2. CASE FetchAdd
  <2>1. PICK c \in Counters, n \in Nat :
              /\ since[c] + n <= MaxGrowth
              /\ counter' = [counter EXCEPT ![c] = Add(@, n)]
              /\ since' = [since EXCEPT ![c] = @ + n]
    BY <1>2, FetchAddAs
  <2>2. Read' = Read
    BY <1>2 DEF FetchAdd, Read, Order
  <2>3. UNCHANGED <<cur, last, got>>
    BY <1>2 DEF FetchAdd
  <2>4. ASSUME NEW d \in Counters, NEW a \in Words, counter[d] = Add(a, since[d])
        PROVE  counter'[d] = Add(a, since'[d])
    <3>1. CASE d # c
      BY <2>1, <2>4, <3>1 DEF StatsTypes
    <3>2. CASE d = c
      <4>1. counter'[d] = Add(counter[d], n) /\ since'[d] = since[d] + n
        BY <2>1, <3>2 DEF StatsTypes
      <4>2. since[d] \in Growth
        BY DEF StatsTypes
      <4>3. Add(Add(a, since[d]), n) = Add(a, since[d] + n)
        BY <2>1, <3>2, <4>2, AddAdds
      <4>4. QED
        BY <2>4, <4>1, <4>3
    <3>3. QED
      BY <3>1, <3>2
  <2>5. \A d \in Counters : cur[d] \in Words /\ last[d] \in Words
    BY DEF StatsTypes
  <2>6. QED
    BY <2>2, <2>3, <2>4, <2>5 DEF Balanced
<1>3. CASE SnapRead
  <2>1. PICK r \in Counters : r = Order[spc] /\ r \notin Read
    BY <1>3, ReadAs DEF SnapRead
  <2>2. Read' = Read \cup {r}
    BY <1>3, <2>1, ReadAs DEF SnapRead
  <2>3. /\ cur' = [cur EXCEPT ![r] = counter[r]]
        /\ got' = [got EXCEPT ![r] = since[r]]
        /\ since' = [since EXCEPT ![r] = 0]
        /\ UNCHANGED <<counter, last>>
    BY <1>3, <2>1 DEF SnapRead
  <2>4. /\ cur'[r] = counter[r] /\ got'[r] = since[r] /\ since'[r] = 0
        /\ \A d \in Counters \ {r} : cur'[d] = cur[d] /\ got'[d] = got[d] /\ since'[d] = since[d]
    BY <2>3 DEF StatsTypes
  <2>5. counter[r] = Add(last[r], since[r]) /\ Add(counter[r], 0) = counter[r]
    BY <2>1, ZeroType DEF Balanced, StatsTypes
  <2>6. QED
    BY <2>2, <2>3, <2>4, <2>5 DEF Balanced
<1>4. CASE Report
  <2>1. Read = Counters /\ Read' = {}
    BY <1>4, ReadAs, ReadNone DEF Report
  <2>2. UNCHANGED <<counter, since>> /\ last' = cur
    BY <1>4 DEF Report
  <2>3. QED
    BY <2>1, <2>2 DEF Balanced
<1>5. CASE SinkholeReboots
  <2>1. Read' = {}
    BY <1>5, ReadNone DEF SinkholeReboots
  <2>2. \A c \in Counters : counter'[c] = Add(last'[c], since'[c])
    BY <1>5, ZeroType, Sizes DEF SinkholeReboots, Words
  <2>3. QED
    BY <2>1, <2>2 DEF Balanced
<1>6. CASE Count \/ OthersReport \/ Ingest \/ Lost \/ GeneratorReboots \/ UNCHANGED vars
  BY <1>1, <1>6 DEF Count, OthersReport, Ingest, Lost, GeneratorReboots, vars
<1>7. QED
  BY <1>2, <1>3, <1>4, <1>5, <1>6 DEF Next

-----------------------------------------------------------------------------
(* The datagrams *)

LEMMA RemoveAtType ==
    ASSUME NEW S, NEW s \in Seq(S), NEW i \in 1..Len(s)
    PROVE  RemoveAt(s, i) \in Seq(S)
<1>1. \A j \in 1..Len(s) : s[j] \in S
  BY ElementOfSeq
<1>2. SubSeq(s, 1, i - 1) \in Seq(S)
  <2>1. \A j \in 1..i - 1 : s[j] \in S
    BY <1>1
  <2>2. QED
    BY <2>1, SubSeqProperties
<1>3. SubSeq(s, i + 1, Len(s)) \in Seq(S)
  <2>1. \A j \in i + 1..Len(s) : s[j] \in S
    BY <1>1
  <2>2. Len(s) \in Int
    BY LenProperties
  <2>3. QED
    BY <2>1, <2>2, SubSeqProperties
<1>4. QED
  BY <1>2, <1>3, ConcatProperties DEF RemoveAt

LEMMA ReportHonest ==
    ASSUME DeltasFit, StatsTypes, Balanced, Report
    PROVE  [node |-> Me, delta |-> Delta, growth |-> got] \in Honest
<1>1. Read = Counters
  BY ReadAs DEF Report
<1>2. \A c \in Counters : Sub(cur[c], last[c]) = got[c]
  <2> TAKE c \in Counters
  <2>1. last[c] \in Words /\ got[c] \in Growth /\ cur[c] = Add(last[c], got[c])
    BY <1>1 DEF StatsTypes, Balanced
  <2>2. Sub(Add(last[c], got[c]), last[c]) = got[c]
    BY <2>1, SubUndoesAdd
  <2>3. QED
    BY <2>1, <2>2
<1>3. Delta = got
  BY <1>2 DEF Delta, StatsTypes
<1>4. \A c \in Counters : got[c] \in Int /\ got[c] <= LongMax
  <2> TAKE c \in Counters
  <2>1. got[c] \in Growth
    BY DEF StatsTypes
  <2>2. QED
    BY <2>1, Sizes DEF DeltasFit, Growth
<1>5. got \in [Counters -> Int]
  BY <1>4 DEF StatsTypes
<1>6. QED
  BY <1>3, <1>4, <1>5 DEF Honest

LEMMA OneHonest ==
    ASSUME DeltasFit, NEW n \in Others
    PROVE  [node |-> n, delta |-> One, growth |-> One] \in Honest
<1>1. One \in [Counters -> Int] /\ \A c \in Counters : One[c] \in {0, 1}
  BY CountersAre DEF One, Zero
<1>2. \A c \in Counters : One[c] <= LongMax
  BY <1>1, Sizes DEF DeltasFit
<1>3. QED
  BY <1>1, <1>2 DEF Honest

LEMMA WireStep ==
    ASSUME DeltasFit
    PROVE  StatsTypes /\ Balanced /\ wire \in Seq(Honest) /\ [Next]_vars => wire' \in Seq(Honest)
<1> SUFFICES ASSUME StatsTypes, Balanced, wire \in Seq(Honest), [Next]_vars
             PROVE  wire' \in Seq(Honest)
  OBVIOUS
<1>1. CASE Report
  BY <1>1, ReportHonest, AppendProperties DEF Report
<1>2. CASE OthersReport
  BY <1>2, OneHonest, AppendProperties DEF OthersReport
<1>3. CASE Ingest \/ Lost
  BY <1>3, RemoveAtType DEF Ingest, Lost
<1>4. CASE Count \/ FetchAdd \/ SnapRead \/ SinkholeReboots \/ GeneratorReboots \/ UNCHANGED vars
  BY <1>4 DEF Count, FetchAdd, SnapRead, SinkholeReboots, GeneratorReboots, vars
<1>5. QED
  BY <1>1, <1>2, <1>3, <1>4 DEF Next

-----------------------------------------------------------------------------
(* The table *)

LEMMA EmptyTable ==
    ASSUME TableInit PROVE TableInv
<1>1. DOMAIN rows = {} /\ Len(rows) = 0 /\ rows \in Seq(Row)
  BY EmptySeq DEF TableInit
<1>2. DOMAIN heard = {}
  BY DEF TableInit
<1>3. IsFiniteSet(DOMAIN heard) /\ Cardinality(DOMAIN heard) = 0
  BY <1>2, FS_EmptySet
<1>4. QED
  BY <1>1, <1>2, <1>3 DEF TableInv

\* Both sides of a report add the same.
LEMMA PlusHonest ==
    ASSUME NEW l \in Honest, NEW sums \in [Counters -> Int]
    PROVE  /\ Plus(sums, l.delta) = [c \in Counters |-> Add(sums[c], l.growth[c])]
           /\ Plus(sums, l.delta) \in [Counters -> Int]
<1>1. \A c \in Counters : l.growth[c] \in Int /\ l.delta[c] = l.growth[c] /\ l.delta[c] <= LongMax
  BY DEF Honest
<1>2. \A c \in Counters : Strtol(l.delta[c]) = l.growth[c]
  BY <1>1, Sizes DEF Strtol
<1>3. \A c \in Counters : Add(sums[c], l.growth[c]) \in Int
  <2> TAKE c \in Counters
  <2>1. PICK x \in Int : x = sums[c] + l.growth[c]
    BY <1>1
  <2>2. x % Mod \in Int
    BY ModType, Sizes DEF Words
  <2>3. QED
    BY <2>1, <2>2 DEF Add
<1>4. QED
  BY <1>2, <1>3 DEF Plus

\* A sender with a row adds to it, another gets one if there is room.
LEMMA TableListen ==
    ASSUME TableInv, NEW l \in Honest, Listen(l)
    PROVE  TableInv'
<1> DEFINE before == IF l.node \in DOMAIN heard THEN heard[l.node] ELSE Zero
           after == [c \in Counters |-> Add(before[c], l.growth[c])]
           found == {i \in DOMAIN rows : Matches(rows[i], l.node)}
<1>1. DOMAIN rows = 1..Len(rows) /\ Len(rows) \in Nat
  BY LenProperties DEF TableInv
<1>2. \A i \in DOMAIN rows : rows[i] \in Row
  BY <1>1, ElementOfSeq DEF TableInv
<1>3. l.node \in {Me} \cup Others
  BY DEF Honest
<1>4. found # {} <=> l.node \in DOMAIN heard
  BY DEF Matches, TableInv
<1>5. CASE l.node \in DOMAIN heard
  <2>1. PICK i \in DOMAIN rows : rows[i].node = l.node
    BY <1>5 DEF TableInv
  <2>2. found = {i}
    BY <2>1 DEF TableInv, Matches
  <2>3. Min(found) = i
    BY <1>1, <2>2 DEF Min
  <2>4. RowOf(l.node) = i
    BY <2>2, <2>3 DEF RowOf
  <2>5. rows' = [rows EXCEPT ![i].sums = Plus(@, l.delta)]
    <3>1. RowOf(l.node) # 0 /\ ~(RowOf(l.node) > Len(rows))
      BY <1>1, <2>4
    <3>2. rows' = [rows EXCEPT ![RowOf(l.node)].sums = Plus(@, l.delta)]
      BY <3>1, Zenon DEF Listen, IngestLine
    <3>3. QED
      BY <2>4, <3>2, Zenon
  <2>6. before = rows[i].sums /\ rows[i].sums \in [Counters -> Int]
    BY <1>2, <1>5, <2>1 DEF TableInv, Row
  <2>7. Plus(rows[i].sums, l.delta) = after /\ after \in [Counters -> Int]
    BY <2>6, PlusHonest
  <2>8. heard' = [n \in DOMAIN heard \cup {l.node} |-> IF n = l.node THEN after ELSE heard[n]]
    BY <1>5 DEF Listen, Hear
  <2> HIDE DEF after, before
  <2>9. DOMAIN heard' = DOMAIN heard /\ heard'[l.node] = after
        /\ \A n \in DOMAIN heard : n # l.node => heard'[n] = heard[n]
    BY <1>5, <2>8
  <2>10. PICK row \in Row : row = [node |-> l.node, sums |-> after]
    BY <1>3, <2>7 DEF Row
  <2>11. rows' = [rows EXCEPT ![i] = row]
    <3>1. [rows[i] EXCEPT !.sums = Plus(rows[i].sums, l.delta)] = row
      BY <1>2, <2>1, <2>7, <2>10 DEF Row
    <3>2. rows' = [rows EXCEPT ![i] = [rows[i] EXCEPT !.sums = Plus(rows[i].sums, l.delta)]]
      BY <2>5
    <3>3. QED
      BY <3>1, <3>2
  <2>12. /\ rows' \in Seq(Row) /\ Len(rows') = Len(rows)
         /\ \A j \in DOMAIN rows : rows'[j] = IF j = i THEN row ELSE rows[j]
    BY <1>1, <2>1, <2>11, ExceptSeq DEF TableInv
  <2>13. DOMAIN rows' = DOMAIN rows
    BY <2>11
  <2>14. \A j \in DOMAIN rows : rows'[j].node = rows[j].node
    BY <2>1, <2>10, <2>12
  <2>15. \A j \in DOMAIN rows : rows'[j].sums = heard'[rows'[j].node]
    <3> TAKE j \in DOMAIN rows
    <3>1. CASE j = i
      BY <2>9, <2>10, <2>12, <3>1
    <3>2. CASE j # i
      <4>1. rows'[j] = rows[j] /\ rows[j].node # l.node /\ rows[j].node \in DOMAIN heard
        BY <2>1, <2>12, <3>2 DEF TableInv
      <4>2. QED
        BY <2>9, <4>1 DEF TableInv
    <3>3. QED
      BY <3>1, <3>2
  <2>16. {rows'[j].node : j \in DOMAIN rows'} = {rows[j].node : j \in DOMAIN rows}
    BY <2>13, <2>14
  <2>17. \A j, k \in DOMAIN rows' : rows'[j].node = rows'[k].node => j = k
    BY <2>13, <2>14 DEF TableInv
  <2>18. DOMAIN heard' = {rows'[j].node : j \in DOMAIN rows'}
    BY <2>9, <2>16 DEF TableInv
  <2>19. IsFiniteSet(DOMAIN heard') /\ Cardinality(DOMAIN heard') = Len(rows')
    BY <2>9, <2>12 DEF TableInv
  <2>20. QED
    BY <2>12, <2>13, <2>15, <2>17, <2>18, <2>19 DEF TableInv
<1>6. CASE l.node \notin DOMAIN heard /\ Len(rows) < MaxNodes
  <2>1. RowOf(l.node) = Len(rows) + 1
    BY <1>4, <1>6 DEF RowOf
  <2>2. rows' = Append(rows, [node |-> l.node, sums |-> Plus(Zero, l.delta)])
    BY <1>1, <2>1 DEF Listen, IngestLine
  <2>3. Plus(Zero, l.delta) = after /\ after \in [Counters -> Int]
    BY <1>6, PlusHonest, ZeroType
  <2>4. heard' = [n \in DOMAIN heard \cup {l.node} |-> IF n = l.node THEN after ELSE heard[n]]
    BY <1>6 DEF Listen, Hear, TableInv
  <2> HIDE DEF after, before
  <2>5. /\ DOMAIN heard' = DOMAIN heard \cup {l.node} /\ heard'[l.node] = after
        /\ \A n \in DOMAIN heard : heard'[n] = heard[n]
    BY <1>6, <2>4
  <2>6. PICK row \in Row : row = [node |-> l.node, sums |-> after]
    BY <1>3, <2>3 DEF Row
  <2>7. /\ rows' \in Seq(Row) /\ Len(rows') = Len(rows) + 1
        /\ \A j \in 1..Len(rows) : rows'[j] = rows[j]
        /\ rows'[Len(rows) + 1] = row
    BY <2>2, <2>3, <2>6, AppendProperties DEF TableInv
  <2>8. DOMAIN rows' = DOMAIN rows \cup {Len(rows) + 1}
    BY <1>1, <2>7, LenProperties
  <2>9. \A j \in DOMAIN rows : rows'[j] = rows[j] /\ rows[j].node # l.node
    BY <1>1, <1>6, <2>7 DEF TableInv
  <2>10. rows'[Len(rows) + 1].node = l.node /\ rows'[Len(rows) + 1].sums = after
    BY <2>6, <2>7
  <2>11. DOMAIN heard' = {rows'[j].node : j \in DOMAIN rows'}
    BY <2>5, <2>8, <2>9, <2>10 DEF TableInv
  <2>12. IsFiniteSet(DOMAIN heard') /\ Cardinality(DOMAIN heard') = Len(rows')
    <3>1. IsFiniteSet(DOMAIN heard) /\ Cardinality(DOMAIN heard) = Len(rows)
      BY DEF TableInv
    <3>2. /\ IsFiniteSet(DOMAIN heard \cup {l.node})
          /\ Cardinality(DOMAIN heard \cup {l.node}) = Cardinality(DOMAIN heard) + 1
      BY <1>6, <3>1, FS_AddElement
    <3>3. QED
      BY <2>5, <2>7, <3>1, <3>2
  <2>13. \A j, k \in DOMAIN rows' : rows'[j].node = rows'[k].node => j = k
    BY <2>8, <2>9, <2>10 DEF TableInv
  <2>14. \A j \in DOMAIN rows' : rows'[j].sums = heard'[rows'[j].node]
    BY <2>5, <2>8, <2>9, <2>10 DEF TableInv
  <2>15. QED
    BY <2>7, <2>11, <2>12, <2>13, <2>14 DEF TableInv
<1>7. CASE l.node \notin DOMAIN heard /\ ~(Len(rows) < MaxNodes)
  <2>1. RowOf(l.node) = 0 /\ rows' = rows
    BY <1>4, <1>7 DEF RowOf, Listen, IngestLine
  <2>2. heard' = heard
    BY <1>7 DEF Listen, Hear, TableInv
  <2>3. QED
    BY <2>1, <2>2 DEF TableInv
<1>8. QED
  BY <1>5, <1>6, <1>7

LEMMA TableStep == wire \in Seq(Honest) /\ TableInv /\ [Next]_vars => TableInv'
<1> SUFFICES ASSUME wire \in Seq(Honest), TableInv, [Next]_vars PROVE TableInv'
  OBVIOUS
<1>1. CASE Ingest
  <2>1. PICK i \in 1..Len(wire) : Listen(wire[i])
    BY <1>1 DEF Ingest
  <2>2. wire[i] \in Honest
    BY ElementOfSeq
  <2>3. QED
    BY <2>1, <2>2, TableListen
<1>2. CASE GeneratorReboots
  <2>1. TableInit'
    BY <1>2 DEF GeneratorReboots, TableInit, Zero, Counters, Order
  <2>2. DOMAIN rows' = {} /\ Len(rows') = 0 /\ rows' \in Seq(Row) /\ DOMAIN heard' = {}
    BY <1>2, EmptySeq DEF GeneratorReboots
  <2>3. IsFiniteSet(DOMAIN heard') /\ Cardinality(DOMAIN heard') = 0
    BY <2>2, FS_EmptySet
  <2>4. QED
    BY <2>2, <2>3 DEF TableInv
<1>3. CASE UNCHANGED table
  BY <1>3 DEF table, TableInv
<1>4. QED
  BY <1>1, <1>2, <1>3 DEF Next, vars, Count, FetchAdd, SnapRead, Report, OthersReport, Lost,
                          SinkholeReboots

\* Every row holds what its node counted: see SumsExact in StatsTable.
THEOREM SumsExactCorrect == ASSUME DeltasFit PROVE Spec => []SumsExact
<1> DEFINE Inv == StatsTypes /\ Balanced /\ wire \in Seq(Honest) /\ TableInv
<1>1. Init => Inv
  <2>1. Init => wire \in Seq(Honest)
    BY EmptySeq DEF Init
  <2>2. QED
    BY <2>1, TypesInit, BalancedInit, EmptyTable DEF Init
<1>2. Inv /\ [Next]_vars => Inv'
  BY TypesStep, BalancedStep, WireStep, TableStep
<1>3. Inv => SumsExact
  BY DEF TableInv, SumsExact
<1>4. QED
  BY <1>1, <1>2, <1>3, PTL DEF Spec

-----------------------------------------------------------------------------
(* Quiet reports *)

\* What a call of stats_count_ may have left to do once the query is counted as
\* forwarded and is not in the histogram yet.
Tails == {<< <<"lat_sum_us", us>>, <<"hist", 1>> >> : us \in Latencies} \cup {<< <<"hist", 1>> >>}
Whole == {<< <<"blocked", 1>> >>} \cup {CountForwarded(us) : us \in Latencies}

\* The two counters differ by the query being counted, and a snapshot no count
\* raced with was taken between two of them.
Quiet ==
    /\ todo \in Tails \cup Whole \cup {<<>>}
    /\ counter["forwarded"] =
          IF todo \in Tails THEN Add(counter["hist"], 1) ELSE counter["hist"]
    /\ spc # Waiting /\ ~raced =>
          todo \notin Tails /\ \A c \in Read : cur[c] = counter[c]

LEMMA TailsAs ==
    /\ \A us \in Latencies :
          /\ Tail(CountForwarded(us)) \in Tails
          /\ Head(CountForwarded(us)) = <<"forwarded", 1>>
          /\ CountForwarded(us) # <<>>
    /\ \A t \in Tails : \/ Head(t)[1] = "lat_sum_us" /\ Tail(t) \in Tails
                        \/ Head(t) = <<"hist", 1>> /\ Tail(t) = <<>>
    /\ Head(<< <<"blocked", 1>> >>) = <<"blocked", 1>> /\ Tail(<< <<"blocked", 1>> >>) = <<>>
    /\ \A t \in Whole \cup {<<>>} : t \notin Tails
    /\ <<>> \notin Tails
<1>1. ASSUME NEW us \in Latencies
      PROVE  /\ Tail(CountForwarded(us)) = << <<"lat_sum_us", us>>, <<"hist", 1>> >>
             /\ Head(CountForwarded(us)) = <<"forwarded", 1>>
             /\ CountForwarded(us) # <<>>
  BY DEF CountForwarded
<1>2. ASSUME NEW us \in Latencies
      PROVE  LET t == << <<"lat_sum_us", us>>, <<"hist", 1>> >>
             IN  Head(t)[1] = "lat_sum_us" /\ Tail(t) = << <<"hist", 1>> >>
  OBVIOUS
<1>3. Head(<< <<"hist", 1>> >>) = <<"hist", 1>> /\ Tail(<< <<"hist", 1>> >>) = <<>>
  OBVIOUS
<1>4. Head(<< <<"blocked", 1>> >>) = <<"blocked", 1>> /\ Tail(<< <<"blocked", 1>> >>) = <<>>
  OBVIOUS
<1>5. \A t \in Tails : t # <<>> /\ Head(t)[1] \in {"lat_sum_us", "hist"}
  BY <1>2, <1>3 DEF Tails
<1>6. \A t \in Whole : Head(t)[1] \in {"blocked", "forwarded"}
  BY <1>1, <1>4 DEF Whole
<1>7. QED
  BY <1>1, <1>2, <1>3, <1>4, <1>5, <1>6 DEF Tails

LEMMA QuietInit == Init => Quiet
<1> SUFFICES ASSUME Init PROVE Quiet
  OBVIOUS
<1>1. counter["forwarded"] = counter["hist"]
  BY CountersAre DEF Init, Zero
<1>2. todo = <<>> /\ todo \notin Tails /\ spc = Waiting
  BY TailsAs DEF Init
<1>3. QED
  BY <1>1, <1>2 DEF Quiet

LEMMA QuietFetchAdd ==
    ASSUME StatsTypes, Quiet, FetchAdd
    PROVE  Quiet'
<1>1. PICK c, n : /\ c = Head(todo)[1] /\ n = Head(todo)[2]
                  /\ counter' = [counter EXCEPT ![c] = Add(@, n)]
  BY DEF FetchAdd
<1>2. todo # <<>> /\ todo' = Tail(todo) /\ spc' = spc /\ (spc # Waiting => raced')
  BY DEF FetchAdd
<1>3. CASE todo \in Tails /\ c = "lat_sum_us" /\ todo' \in Tails
  <2>1. counter'["forwarded"] = counter["forwarded"] /\ counter'["hist"] = counter["hist"]
    BY <1>1, <1>3, CountersAre DEF StatsTypes
  <2>2. QED
    BY <1>2, <1>3, <2>1 DEF Quiet
<1>4. CASE todo \in Tails /\ Head(todo) = <<"hist", 1>> /\ todo' = <<>>
  <2>1. c = "hist" /\ n = 1
    BY <1>1, <1>4
  <2>2. counter'["forwarded"] = counter["forwarded"] /\ counter'["hist"] = Add(counter["hist"], 1)
    BY <1>1, <2>1, CountersAre DEF StatsTypes
  <2>3. QED
    BY <1>2, <1>4, <2>2, TailsAs DEF Quiet
<1>5. CASE todo = << <<"blocked", 1>> >>
  <2>1. c = "blocked" /\ todo' = <<>>
    BY <1>1, <1>2, <1>5, TailsAs
  <2>2. counter'["forwarded"] = counter["forwarded"] /\ counter'["hist"] = counter["hist"]
    BY <1>1, <2>1, CountersAre DEF StatsTypes
  <2>3. todo \notin Tails /\ todo' \notin Tails
    BY <1>5, <2>1, TailsAs DEF Whole
  <2>4. QED
    BY <1>2, <2>1, <2>2, <2>3 DEF Quiet
<1>6. ASSUME NEW us \in Latencies, todo = CountForwarded(us) PROVE Quiet'
  <2>1. c = "forwarded" /\ n = 1 /\ todo' \in Tails
    BY <1>1, <1>2, <1>6, TailsAs
  <2>2. /\ counter'["forwarded"] = Add(counter["forwarded"], 1)
        /\ counter'["hist"] = counter["hist"]
    BY <1>1, <2>1, CountersAre DEF StatsTypes
  <2>3. todo \notin Tails
    BY <1>6, TailsAs DEF Whole
  <2>4. QED
    BY <1>2, <2>1, <2>2, <2>3 DEF Quiet
<1>7. QED
  BY <1>1, <1>2, <1>3, <1>4, <1>5, <1>6, TailsAs DEF Quiet, Whole

LEMMA QuietStep == StatsTypes /\ Quiet /\ [Next]_vars => Quiet'
<1> SUFFICES ASSUME StatsTypes, Quiet, [Next]_vars PROVE Quiet'
  OBVIOUS
<1> USE DEF dns, sender, table
<1>1. CASE Count
  <2>1. todo' \in Whole /\ todo' \notin Tails /\ todo \notin Tails
    BY <1>1, TailsAs DEF Count, Whole
  <2>2. Read' = Read /\ UNCHANGED <<counter, spc, raced, cur>>
    BY <1>1 DEF Count, Read, Order
  <2>3. QED
    BY <2>1, <2>2 DEF Quiet
<1>2. CASE FetchAdd
  BY <1>2, QuietFetchAdd
<1>3. CASE SnapRead
  <2>1. PICK r \in Counters : r = Order[spc] /\ r \notin Read
    BY <1>3, ReadAs DEF SnapRead
  <2>2. Read' = Read \cup {r} /\ cur' = [cur EXCEPT ![r] = counter[r]]
    BY <1>3, <2>1, ReadAs DEF SnapRead
  <2>3. UNCHANGED <<counter, todo>> /\ (~raced' => ~raced /\ todo = <<>>)
    BY <1>3 DEF SnapRead
  <2>4. cur'[r] = counter[r] /\ \A d \in Counters \ {r} : cur'[d] = cur[d]
    BY <2>2 DEF StatsTypes
  <2>5. Read \subseteq Counters
    BY CountersAre DEF Read, StatsTypes
  <2>6. ~raced' => \A d \in Read : cur[d] = counter[d]
    BY <2>3, ReadAs DEF Quiet
  <2>7. QED
    BY <2>2, <2>3, <2>4, <2>5, <2>6, TailsAs DEF Quiet
<1>4. CASE Report
  BY <1>4 DEF Report, Quiet
<1>5. CASE SinkholeReboots
  <2>1. counter'["forwarded"] = counter'["hist"]
    BY <1>5, CountersAre DEF SinkholeReboots, Zero
  <2>2. todo' = <<>> /\ todo' \notin Tails /\ spc' = Waiting
    BY <1>5, TailsAs DEF SinkholeReboots
  <2>3. QED
    BY <2>1, <2>2 DEF Quiet
<1>6. CASE OthersReport \/ Ingest \/ Lost \/ GeneratorReboots \/ UNCHANGED vars
  <2>1. Read' = Read /\ UNCHANGED <<counter, todo, spc, raced, cur>>
    BY <1>6 DEF OthersReport, Ingest, Lost, GeneratorReboots, vars, Read, Order
  <2>2. QED
    BY <2>1 DEF Quiet
<1>7. QED
  BY <1>1, <1>2, <1>3, <1>4, <1>5, <1>6 DEF Next

\* A snapshot no count raced with is consistent: see QuietReportConsistent in Stats.
THEOREM QuietReportCorrect == Spec => []QuietReportConsistent
<1>1. StatsTypes /\ Quiet => QuietReportConsistent
  BY ReadAs, CountersAre, TailsAs DEF Quiet, QuietReportConsistent
<1>2. QED
  BY <1>1, TypesInit, TypesStep, QuietInit, QuietStep, PTL DEF Spec
===============================================================================
