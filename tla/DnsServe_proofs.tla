---------------------------- MODULE DnsServe_proofs ----------------------------
(* Theorems about DnsServe, for every set of queries, cache size, lifetime and *)
(* number of tries, and whatever upstream loses, delays or repeats.            *)
EXTENDS DnsServe, SequenceTheorems, WellFoundedInduction, TLAPS

MaxAge == IF TTL + 1 > MaxWait THEN TTL + 1 ELSE MaxWait

\* An entry, valid or not, is a record whose fields stay in their types.
EntryOK(e) ==
    /\ e = [key |-> e.key, ans |-> e.ans, age |-> e.age, used |-> e.used]
    /\ e.age \in 0..MaxAge /\ e.used \in 0..ClockMod - 1
    /\ e # Empty => e.key \in Keys /\ e.ans \in Keys

DnsTypes ==
    /\ cache = [i \in Slots |-> cache[i]] /\ \A i \in Slots : EntryOK(cache[i])
    /\ fetched = [i \in Slots |-> fetched[i]] /\ \A i \in Slots : fetched[i] \in Nat
    /\ clock \in 0..ClockMod - 1
    /\ pc \in {"recv", "wait"} /\ (pc = "wait" => query \in Queries)
    /\ tries \in 0..MaxTries - 1 /\ waited \in 0..MaxWait
    /\ inbox \in Seq(Queries) /\ pending \subseteq Queries

\* While an answer is awaited, its key is not in the cache: nothing inserts it but
\* the answer itself.
MissHolds == pc = "wait" => Matching(query.key) = {}

\* An entry is at least as old as what it holds.
AgesCover ==
    /\ \A i \in Slots : Valid(i) => fetched[i] <= cache[i].age
    /\ reply.from = "cache" => reply.slot \in Slots

DnsInv == DnsTypes /\ MissHolds /\ OneEntryPerKey /\ AgesCover /\ CachedAnswersFresh

-----------------------------------------------------------------------------
(* The smallest element *)

LEMMA LeastNat ==
    ASSUME NEW T \in SUBSET Nat, T # {}
    PROVE  \E x \in T : \A y \in T : x <= y
<1>1. \E x \in T : \A y \in T : ~(<<y, x>> \in OpToRel(<, Nat))
  BY NatLessThanWellFounded, WFMin
<1>2. \A x, y \in Nat : ~(<<y, x>> \in OpToRel(<, Nat)) => x <= y
  BY SMT DEF OpToRel
<1>3. QED
  BY <1>1, <1>2

LEMMA FirstIsIn ==
    ASSUME NEW S \in SUBSET Slots, S # {}
    PROVE  First(S) \in S
<1>1. S \in SUBSET Nat
  BY DnsAssumption DEF Slots, DnsAssumption
<1>2. \E i \in S : \A j \in S : i <= j
  BY <1>1, LeastNat
<1>3. QED
  BY <1>2 DEF First

\* Some slot has the lowest tick.
LEMMA LeastTick == DnsTypes => {i \in Slots : \A j \in Slots : cache[i].used <= cache[j].used} # {}
<1>. SUFFICES ASSUME DnsTypes PROVE \E i \in Slots : \A j \in Slots : cache[i].used <= cache[j].used
  OBVIOUS
<1>. DEFINE ticks == {cache[i].used : i \in Slots}
<1>1. 1 \in Slots /\ \A i \in Slots : cache[i].used \in 0..ClockMod - 1
  BY DnsAssumption DEF DnsAssumption, DnsTypes, EntryOK, Slots
<1>2. ticks \in SUBSET Nat /\ ticks # {}
  BY <1>1, DnsAssumption DEF DnsAssumption
<1>3. \E x \in ticks : \A y \in ticks : x <= y
  BY <1>2, LeastNat
<1>4. QED
  BY <1>3

\* dns_cache_insert always finds a slot.
LEMMA VictimIsSlot == DnsTypes => Victim \in Slots
<1>. SUFFICES ASSUME DnsTypes PROVE Victim \in Slots
  OBVIOUS
<1>. DEFINE free == {i \in Slots : ~Valid(i)}
            least == {i \in Slots : \A j \in Slots : cache[i].used <= cache[j].used}
<1>1. least # {}
  BY LeastTick
<1>2. CASE \E i \in Slots : ~Valid(i)
  <2>1. First(free) \in free
    BY <1>2, FirstIsIn
  <2>2. QED
    BY <1>2, <2>1 DEF Victim
<1>3. CASE ~\E i \in Slots : ~Valid(i)
  <2>1. First(least) \in least
    BY <1>1, FirstIsIn
  <2>2. QED
    BY <1>3, <2>1 DEF Victim
<1>4. QED
  BY <1>2, <1>3

-----------------------------------------------------------------------------
(* The steps *)

LEMMA InitDns == Init => DnsInv
<1>. SUFFICES ASSUME Init PROVE DnsInv
  OBVIOUS
<1>1. EntryOK(Empty)
  BY DnsAssumption DEF DnsAssumption, EntryOK, Empty, MaxAge
<1>2. DnsTypes
  BY <1>1, DnsAssumption DEF Init, DnsTypes, DnsAssumption
<1>3. MissHolds /\ OneEntryPerKey /\ AgesCover /\ CachedAnswersFresh
  BY DEF Init, MissHolds, OneEntryPerKey, AgesCover, CachedAnswersFresh, Valid, NoReply
<1>4. QED
  BY <1>2, <1>3 DEF DnsInv

\* The tick counter stays a uint32_t.
LEMMA TouchTypes ==
    ASSUME DnsInv, NEW i, Touch(i)
    PROVE  clock' \in 0..ClockMod - 1
BY DnsAssumption, SMT DEF Touch, DnsInv, DnsTypes, DnsAssumption

LEMMA RefuseKeeps == ASSUME DnsInv, NEW q \in Queries, Refuse(q) PROVE DnsInv'
<1>1. UNCHANGED <<cache, clock, fetched, pc, query, tries, waited, pending, inbox>>
  BY DEF Refuse, store, task, net
<1>2. reply'.from = "sinkhole"
  BY DEF Refuse
<1>3. QED
  BY <1>1, <1>2 DEF DnsInv, DnsTypes, EntryOK, MissHolds, Matching, OneEntryPerKey, AgesCover,
     CachedAnswersFresh, Valid

\* A hit only moves the tick of its entry.
LEMMA AnswerFromCacheKeeps ==
    ASSUME DnsInv, NEW q \in Queries, AnswerFromCache(q) PROVE DnsInv'
<1>. DEFINE i == First(Matching(q.key))
<1>1. i \in Matching(q.key) /\ i \in Slots /\ Valid(i)
  <2>1. Matching(q.key) \in SUBSET Slots /\ Matching(q.key) # {}
    BY DEF AnswerFromCache, Matching
  <2>2. i \in Matching(q.key)
    BY <2>1, FirstIsIn
  <2>3. QED
    BY <2>2 DEF Matching
<1>2. /\ cache[i].age <= TTL
      /\ cache' = [cache EXCEPT ![i].used = clock']
      /\ UNCHANGED <<fetched, pc, query, tries, waited, pending, inbox>>
      /\ reply'.from = "cache" /\ reply'.slot = i /\ pc = "recv"
  BY DEF AnswerFromCache, Receive, Hit, task, net
<1>3. clock' \in 0..ClockMod - 1
  BY TouchTypes DEF AnswerFromCache, Hit
<1>. HIDE DEF i
<1>4. cache' = [j \in Slots |-> IF j = i THEN [cache[i] EXCEPT !.used = clock'] ELSE cache[j]]
  BY <1>1, <1>2 DEF DnsInv, DnsTypes
<1>5. /\ cache[i] = [key |-> cache[i].key, ans |-> cache[i].ans, age |-> cache[i].age, used |-> cache[i].used]
      /\ cache[i].age \in 0..MaxAge /\ cache[i].key \in Keys /\ cache[i].ans \in Keys
  BY <1>1 DEF DnsInv, DnsTypes, EntryOK, Valid
<1>6. cache'[i] = [key |-> cache[i].key, ans |-> cache[i].ans, age |-> cache[i].age, used |-> clock']
  BY <1>1, <1>4, <1>5
<1>7. \A j \in Slots \ {i} : cache'[j] = cache[j]
  BY <1>4
<1>8. EntryOK(cache'[i])
  BY <1>3, <1>5, <1>6 DEF EntryOK
<1>9. \A j \in Slots : EntryOK(cache[j])'
  BY <1>7, <1>8 DEF DnsInv, DnsTypes, EntryOK
<1>10. DnsTypes'
  BY <1>2, <1>3, <1>4, <1>9 DEF DnsInv, DnsTypes
<1>11. \A j \in Slots : /\ cache'[j].key = cache[j].key /\ cache'[j].age = cache[j].age
                        /\ Valid(j)' => Valid(j)
  BY <1>1, <1>6, <1>7 DEF Valid
<1>12. OneEntryPerKey'
  BY <1>11 DEF DnsInv, OneEntryPerKey
<1>13. AgesCover' /\ CachedAnswersFresh'
  <2>1. fetched[i] <= cache[i].age /\ fetched[i] \in Nat /\ cache[i].age \in Nat
    BY <1>1, <1>5 DEF DnsInv, DnsTypes, AgesCover
  <2>2. fetched[i] <= TTL
    BY <1>2, <2>1, DnsAssumption DEF DnsAssumption
  <2>3. QED
    BY <1>1, <1>2, <1>11, <2>2 DEF DnsInv, AgesCover, CachedAnswersFresh
<1>14. MissHolds'
  BY <1>2 DEF MissHolds
<1>15. QED
  BY <1>10, <1>12, <1>13, <1>14 DEF DnsInv

\* A miss leaves no entry of its key: the only one there was has just expired.
LEMMA ForwardKeeps == ASSUME DnsInv, NEW q \in Queries, Forward(q) PROVE DnsInv'
<1>. DEFINE i == First(Matching(q.key))
<1>1. /\ inbox' = inbox /\ reply' = reply /\ clock' = clock
      /\ \/ /\ pending' = pending \cup {q} /\ pc' = "wait"
            /\ query' = q /\ tries' = 0 /\ waited' = 0
         \/ UNCHANGED <<pending, pc, query, tries, waited>> /\ pc = "recv"
  BY DEF Forward, Receive, Expire, store, task
<1>2. CASE Matching(q.key) = {}
  <2>1. UNCHANGED <<cache, fetched>>
    BY <1>2 DEF Forward, store
  <2>2. DnsTypes'
    BY <1>1, <2>1, DnsAssumption DEF DnsInv, DnsTypes, EntryOK, DnsAssumption
  <2>3. MissHolds'
    BY <1>1, <1>2, <2>1 DEF MissHolds, Matching, Valid
  <2>4. QED
    BY <1>1, <2>1, <2>2, <2>3 DEF DnsInv, OneEntryPerKey, AgesCover, CachedAnswersFresh, Valid
<1>3. CASE Matching(q.key) # {}
  <2>1. i \in Matching(q.key) /\ i \in Slots
    <3>1. Matching(q.key) \in SUBSET Slots
      BY DEF Matching
    <3>2. i \in Matching(q.key)
      BY <1>3, <3>1, FirstIsIn
    <3>3. QED
      BY <3>1, <3>2
  <2>2. cache' = [cache EXCEPT ![i] = Empty] /\ fetched' = [fetched EXCEPT ![i] = 0]
    BY <1>3 DEF Forward, Expire
  <2>. HIDE DEF i
  <2>3. /\ cache' = [j \in Slots |-> IF j = i THEN Empty ELSE cache[j]]
        /\ fetched' = [j \in Slots |-> IF j = i THEN 0 ELSE fetched[j]]
    BY <2>2 DEF DnsInv, DnsTypes
  <2>4. EntryOK(Empty)
    BY DnsAssumption DEF DnsAssumption, EntryOK, Empty, MaxAge
  <2>5. \A j \in Slots : EntryOK(cache[j])'
    BY <2>3, <2>4 DEF DnsInv, DnsTypes, EntryOK
  <2>6. DnsTypes'
    BY <1>1, <2>3, <2>5, DnsAssumption DEF DnsInv, DnsTypes, DnsAssumption
  <2>7. \A j \in Slots : Valid(j)' => Valid(j) /\ j # i /\ cache'[j] = cache[j] /\ fetched'[j] = fetched[j]
    BY <2>3 DEF Valid
  <2>8. Matching(q.key)' = {}
    <3>1. \A j \in Slots : j \in Matching(q.key) => j = i
      BY <2>1 DEF DnsInv, OneEntryPerKey, Matching
    <3>2. QED
      BY <2>7, <3>1 DEF Matching
  <2>9. MissHolds'
    <3>1. pc' = "wait" => query' = q
      BY <1>1
    <3>2. QED
      BY <2>8, <3>1 DEF MissHolds, Matching, Valid
  <2>10. OneEntryPerKey'
    BY <2>7 DEF DnsInv, OneEntryPerKey
  <2>11. AgesCover' /\ CachedAnswersFresh'
    BY <1>1, <2>3, <2>7, DnsAssumption DEF DnsInv, DnsTypes, AgesCover, CachedAnswersFresh, DnsAssumption
  <2>12. QED
    BY <2>6, <2>9, <2>10, <2>11 DEF DnsInv
<1>4. QED
  BY <1>2, <1>3

\* The answer goes into a slot of its own: its key was not there.
LEMMA InsertKeeps ==
    ASSUME DnsInv, pc = "wait", NEW ans \in Keys, Insert(query.key, ans),
           reply'.from = "upstream", Back, inbox' \in Seq(Queries), pending' \subseteq Queries
    PROVE  DnsInv'
<1>. DEFINE v == Victim
<1>1. v \in Slots
  BY VictimIsSlot DEF DnsInv
<1>2. /\ cache' = [cache EXCEPT ![v] = [key |-> query.key, ans |-> ans, age |-> waited, used |-> clock']]
      /\ fetched' = [fetched EXCEPT ![v] = 0]
      /\ clock' \in 0..ClockMod - 1
  BY TouchTypes DEF Insert
<1>3. query.key \in Keys /\ waited \in 0..MaxWait /\ MaxWait \in Nat /\ TTL \in Nat
  BY DnsAssumption DEF DnsInv, DnsTypes, Keys, DnsAssumption
<1>. HIDE DEF v
<1>4. /\ cache' = [j \in Slots |-> IF j = v THEN [key |-> query.key, ans |-> ans, age |-> waited, used |-> clock']
                                   ELSE cache[j]]
      /\ fetched' = [j \in Slots |-> IF j = v THEN 0 ELSE fetched[j]]
  BY <1>2 DEF DnsInv, DnsTypes
<1>5. waited \in 0..MaxAge
  BY <1>3 DEF MaxAge
<1>6. EntryOK(cache'[v])
  BY <1>1, <1>2, <1>3, <1>4, <1>5 DEF EntryOK
<1>7. \A j \in Slots : EntryOK(cache[j])'
  BY <1>4, <1>6 DEF DnsInv, DnsTypes, EntryOK
<1>8. DnsTypes'
  <2>1. cache' = [j \in Slots |-> cache'[j]] /\ fetched' = [j \in Slots |-> fetched'[j]]
    BY <1>4
  <2>2. \A j \in Slots : fetched'[j] \in Nat
    BY <1>4 DEF DnsInv, DnsTypes
  <2>3. pc' = "recv" /\ tries' \in 0..MaxTries - 1 /\ waited' \in 0..MaxWait
    BY DnsAssumption DEF Back, DnsAssumption
  <2>4. QED
    BY <1>2, <1>7, <2>1, <2>2, <2>3 DEF DnsTypes
<1>9. MissHolds'
  BY DEF MissHolds, Back
<1>10. OneEntryPerKey'
  <2>1. \A j \in Slots \ {v} : cache'[j] = cache[j] /\ (Valid(j) => cache[j].key # query.key)
    BY <1>4 DEF DnsInv, MissHolds, Matching
  <2>2. cache'[v].key = query.key
    BY <1>1, <1>4
  <2>3. QED
    BY <2>1, <2>2 DEF DnsInv, OneEntryPerKey, Valid
<1>11. AgesCover' /\ CachedAnswersFresh'
  BY <1>3, <1>4 DEF DnsInv, DnsTypes, AgesCover, CachedAnswersFresh, Valid
<1>12. QED
  BY <1>8, <1>9, <1>10, <1>11 DEF DnsInv

LEMMA AnsweredKeeps == ASSUME DnsInv, Answered PROVE DnsInv'
<1>1. /\ pc = "wait" /\ pending' = pending /\ pending \subseteq Queries
      /\ Head(inbox) \in Queries /\ inbox' \in Seq(Queries)
  BY HeadTailProperties DEF Answered, DnsInv, DnsTypes
<1>2. CASE Accepts(Head(inbox))
  BY <1>1, <1>2, InsertKeeps DEF Answered, Keys
<1>3. CASE ~Accepts(Head(inbox))
  <2>1. UNCHANGED <<cache, fetched, clock, reply>>
    BY <1>3 DEF Answered, store
  <2>2. Back \/ (~LastTry /\ tries' = CountTry /\ UNCHANGED <<pc, query, waited>>)
    BY <1>3 DEF Answered
  <2>3. DnsTypes'
    BY <1>1, <2>1, <2>2, DnsAssumption
       DEF DnsInv, DnsTypes, EntryOK, Back, LastTry, CountTry, DnsAssumption
  <2>4. MissHolds'
    BY <1>1, <2>1, <2>2 DEF DnsInv, MissHolds, Matching, Valid, Back
  <2>5. QED
    BY <2>1, <2>3, <2>4 DEF DnsInv, OneEntryPerKey, AgesCover, CachedAnswersFresh, Valid
<1>4. QED
  BY <1>2, <1>3

LEMMA TimesOutKeeps == DnsInv /\ TimesOut => DnsInv'
BY DnsAssumption DEF TimesOut, Back, store, net, DnsInv, DnsTypes, EntryOK, MissHolds, OneEntryPerKey,
   AgesCover, CachedAnswersFresh, Valid, DnsAssumption

LEMMA UpstreamAnswersKeeps == DnsInv /\ UpstreamAnswers => DnsInv'
<1>. SUFFICES ASSUME DnsInv, UpstreamAnswers PROVE DnsInv'
  OBVIOUS
<1>1. UNCHANGED <<cache, fetched, clock, pc, query, tries, waited, reply>>
  BY DEF UpstreamAnswers, store, task
<1>2. PICK q \in pending : inbox' = Append(inbox, q) /\ pending' \in {pending, pending \ {q}}
  BY DEF UpstreamAnswers
<1>3. inbox' \in Seq(Queries) /\ pending' \subseteq Queries
  BY <1>2, AppendProperties DEF DnsInv, DnsTypes
<1>4. QED
  BY <1>1, <1>3 DEF DnsInv, DnsTypes, EntryOK, MissHolds, Matching, OneEntryPerKey, AgesCover,
     CachedAnswersFresh, Valid

\* Time passes for an entry and for what it holds alike.
LEMMA LaterIsMonotone ==
    ASSUME NEW a \in Nat, NEW b \in Nat, a <= b
    PROVE  /\ Later(a) \in Nat /\ Later(b) \in Nat /\ Later(a) <= Later(b)
           /\ b <= MaxAge => Later(b) <= MaxAge
BY DnsAssumption DEF Later, MaxAge, DnsAssumption

LEMMA TickKeeps == DnsInv /\ Tick => DnsInv'
<1>. SUFFICES ASSUME DnsInv, Tick PROVE DnsInv'
  OBVIOUS
<1>1. /\ cache' = [i \in Slots |-> IF Valid(i) THEN [cache[i] EXCEPT !.age = Later(@)] ELSE Empty]
      /\ fetched' = [i \in Slots |-> IF Valid(i) THEN Later(fetched[i]) ELSE 0]
      /\ UNCHANGED <<clock, pc, query, tries, pending, inbox>>
  BY DEF Tick, net
<1>1a. waited' \in 0..MaxWait
  BY DnsAssumption DEF Tick, DnsInv, DnsTypes, DnsAssumption
<1>1b. reply'.from = "none"
  BY DEF Tick, NoReply
<1>2. \A i \in Slots :
         IF Valid(i)
         THEN cache'[i] = [key |-> cache[i].key, ans |-> cache[i].ans, age |-> Later(cache[i].age), used |-> cache[i].used]
         ELSE cache'[i] = Empty
  <2>. SUFFICES ASSUME NEW i \in Slots
       PROVE  IF Valid(i)
              THEN cache'[i] = [key |-> cache[i].key, ans |-> cache[i].ans, age |-> Later(cache[i].age), used |-> cache[i].used]
              ELSE cache'[i] = Empty
    OBVIOUS
  <2>1. cache[i] = [key |-> cache[i].key, ans |-> cache[i].ans, age |-> cache[i].age, used |-> cache[i].used]
    BY DEF DnsInv, DnsTypes, EntryOK
  <2>2. cache'[i] = IF Valid(i) THEN [cache[i] EXCEPT !.age = Later(@)] ELSE Empty
    BY <1>1
  <2>3. QED
    BY <2>1, <2>2
<1>3. MaxAge \in Nat
  BY DnsAssumption DEF MaxAge, DnsAssumption
<1>4. \A i \in Slots : Valid(i) =>
         /\ fetched[i] \in Nat /\ cache[i].age \in 0..MaxAge /\ fetched[i] <= cache[i].age
         /\ cache[i].used \in 0..ClockMod - 1 /\ cache[i].key \in Keys /\ cache[i].ans \in Keys
  BY DEF DnsInv, DnsTypes, EntryOK, AgesCover, Valid
<1>5. \A i \in Slots : Valid(i) =>
         Later(fetched[i]) \in Nat /\ Later(cache[i].age) \in 0..MaxAge /\ Later(fetched[i]) <= Later(cache[i].age)
  <2>. SUFFICES ASSUME NEW i \in Slots, Valid(i)
       PROVE  Later(fetched[i]) \in Nat /\ Later(cache[i].age) \in 0..MaxAge /\ Later(fetched[i]) <= Later(cache[i].age)
    OBVIOUS
  <2>1. fetched[i] \in Nat /\ cache[i].age \in Nat /\ fetched[i] <= cache[i].age /\ cache[i].age <= MaxAge
    BY <1>3, <1>4
  <2>2. QED
    BY <1>3, <2>1, LaterIsMonotone
<1>6. EntryOK(Empty)
  BY DnsAssumption DEF DnsAssumption, EntryOK, Empty, MaxAge
<1>7. \A i \in Slots : EntryOK(cache'[i])
  <2>. SUFFICES ASSUME NEW i \in Slots PROVE EntryOK(cache'[i])
    OBVIOUS
  <2>1. CASE Valid(i)
    <3>1. cache'[i] = [key |-> cache[i].key, ans |-> cache[i].ans, age |-> Later(cache[i].age), used |-> cache[i].used]
      BY <1>2, <2>1
    <3>2. /\ cache[i].key \in Keys /\ cache[i].ans \in Keys
          /\ Later(cache[i].age) \in 0..MaxAge /\ cache[i].used \in 0..ClockMod - 1
      BY <1>4, <1>5, <2>1
    <3>3. QED
      BY <3>1, <3>2 DEF EntryOK
  <2>2. CASE ~Valid(i)
    BY <1>2, <1>6, <2>2
  <2>3. QED
    BY <2>1, <2>2
<1>8. \A i \in Slots : fetched'[i] \in Nat
  BY <1>1, <1>5
<1>9. DnsTypes'
  BY <1>1, <1>1a, <1>7, <1>8 DEF DnsInv, DnsTypes, EntryOK
<1>10. \A i \in Slots : Valid(i)' => Valid(i) /\ cache'[i].key = cache[i].key
  <2>. SUFFICES ASSUME NEW i \in Slots, Valid(i)' PROVE Valid(i) /\ cache'[i].key = cache[i].key
    OBVIOUS
  <2>1. Valid(i)
    <3>1. ~Valid(i) => cache'[i] = Empty
      BY <1>2
    <3>2. cache'[i] # Empty
      BY DEF Valid
    <3>3. QED
      BY <3>1, <3>2
  <2>2. cache'[i] = [key |-> cache[i].key, ans |-> cache[i].ans, age |-> Later(cache[i].age), used |-> cache[i].used]
    BY <1>2, <2>1
  <2>3. QED
    BY <2>1, <2>2
<1>11. MissHolds' /\ OneEntryPerKey'
  BY <1>1, <1>10 DEF DnsInv, MissHolds, Matching, OneEntryPerKey
<1>12. AgesCover' /\ CachedAnswersFresh'
  <2>1. \A i \in Slots : Valid(i) => fetched'[i] = Later(fetched[i]) /\ cache'[i].age = Later(cache[i].age)
    BY <1>1, <1>2
  <2>2. QED
    BY <1>1b, <1>5, <1>10, <2>1 DEF AgesCover, CachedAnswersFresh
<1>13. QED
  BY <1>9, <1>11, <1>12 DEF DnsInv

LEMMA StepDns == DnsInv /\ [Next]_vars => DnsInv'
<1>1. DnsInv /\ UNCHANGED vars => DnsInv'
  BY DEF vars, store, task, net, DnsInv, DnsTypes, EntryOK, MissHolds, Matching, OneEntryPerKey,
         AgesCover, CachedAnswersFresh, Valid
<1>2. QED
  BY <1>1, RefuseKeeps, AnswerFromCacheKeeps, ForwardKeeps, AnsweredKeeps, TimesOutKeeps,
     UpstreamAnswersKeeps, TickKeeps DEF Next

LEMMA DnsInvCorrect == Spec => []DnsInv
BY InitDns, StepDns, PTL DEF Spec

-----------------------------------------------------------------------------
\* The types of the DNS task's variables, the cache and the socket's queue.
THEOREM TypeCorrect == Spec => []TypeOK
<1>1. DnsInv => TypeOK
  BY DEF DnsInv, DnsTypes, EntryOK, TypeOK, Valid, MaxAge
<1>2. QED
  BY <1>1, DnsInvCorrect, PTL

\* dns_cache_insert makes no duplicate, although it looks for none.
THEOREM OneEntryPerKeyCorrect == Spec => []OneEntryPerKey
<1>1. DnsInv => OneEntryPerKey
  BY DEF DnsInv
<1>2. QED
  BY <1>1, DnsInvCorrect, PTL

\* What the cache answers came from upstream within the lifetime.
THEOREM CachedAnswersFreshCorrect == Spec => []CachedAnswersFresh
<1>1. DnsInv => CachedAnswersFresh
  BY DEF DnsInv
<1>2. QED
  BY <1>1, DnsInvCorrect, PTL

-----------------------------------------------------------------------------
(* The right answer, as long as IDs tell the queries of clients apart *)

IdsDistinguish == \A q, r \in Queries : q.id = r.id => q.key = r.key

\* What is cached under a key answers it.
AnswersTrue ==
    /\ \A i \in Slots : Valid(i) => cache[i].ans = cache[i].key
    /\ AnswerMatchesQuestion

LEMMA StepAnswersTrue ==
    ASSUME IdsDistinguish, DnsInv, AnswersTrue, [Next]_vars
    PROVE  AnswersTrue'
<1>0. cache = [i \in Slots |-> cache[i]]
  BY DEF DnsInv, DnsTypes
<1>1. ASSUME NEW q \in Queries, Refuse(q) PROVE AnswersTrue'
  BY <1>1 DEF Refuse, store, AnswersTrue, AnswerMatchesQuestion, Valid
<1>2. ASSUME NEW q \in Queries, AnswerFromCache(q) PROVE AnswersTrue'
  <2>. DEFINE i == First(Matching(q.key))
  <2>1. i \in Matching(q.key)
    <3>1. Matching(q.key) \in SUBSET Slots /\ Matching(q.key) # {}
      BY <1>2 DEF AnswerFromCache, Matching
    <3>2. QED
      BY <3>1, FirstIsIn
  <2>2. i \in Slots /\ Valid(i) /\ cache[i].key = q.key
    BY <2>1 DEF Matching
  <2>3. /\ cache' = [cache EXCEPT ![i].used = clock']
        /\ reply'.query = q /\ reply'.ans = cache[i].ans
    BY <1>2 DEF AnswerFromCache, Hit
  <2>. HIDE DEF i
  <2>4. /\ cache[i] = [key |-> cache[i].key, ans |-> cache[i].ans, age |-> cache[i].age, used |-> cache[i].used]
        /\ cache'[i] = [cache[i] EXCEPT !.used = clock']
        /\ \A j \in Slots \ {i} : cache'[j] = cache[j]
    BY <1>0, <2>2, <2>3 DEF DnsInv, DnsTypes, EntryOK
  <2>5. cache'[i].ans = cache[i].ans /\ cache'[i].key = cache[i].key
    BY <2>4
  <2>6. QED
    BY <2>2, <2>3, <2>4, <2>5 DEF AnswersTrue, AnswerMatchesQuestion, Valid
<1>3. ASSUME NEW q \in Queries, Forward(q) PROVE AnswersTrue'
  <2>1. reply' = reply
    BY <1>3 DEF Forward
  <2>2. cache' = cache \/ \E i : cache' = [cache EXCEPT ![i] = Empty]
    BY <1>3 DEF Forward, Expire, store
  <2>3. \A j \in Slots : Valid(j)' => Valid(j) /\ cache'[j] = cache[j]
    BY <1>0, <2>2 DEF Valid
  <2>4. QED
    BY <2>1, <2>3 DEF AnswersTrue, AnswerMatchesQuestion
<1>4. CASE Answered
  <2>1. Head(inbox) \in Queries /\ query \in Queries
    BY <1>4, HeadTailProperties DEF Answered, DnsInv, DnsTypes
  <2>2. CASE Accepts(Head(inbox))
    <3>. DEFINE v == Victim
    <3>1. Head(inbox).key = query.key
      BY <2>1, <2>2 DEF Accepts, IdsDistinguish
    <3>2. /\ cache' = [cache EXCEPT ![v] = [key |-> query.key, ans |-> Head(inbox).key, age |-> waited, used |-> clock']]
          /\ reply'.query = query /\ reply'.ans = Head(inbox).key
      BY <1>4, <2>2 DEF Answered, Insert
    <3>. HIDE DEF v
    <3>3. \A j \in Slots : cache'[j] = cache[j] \/ (cache'[j].ans = Head(inbox).key /\ cache'[j].key = query.key)
      BY <1>0, <3>2
    <3>4. QED
      BY <3>1, <3>2, <3>3 DEF AnswersTrue, AnswerMatchesQuestion, Valid
  <2>3. CASE ~Accepts(Head(inbox))
    BY <1>4, <2>3 DEF Answered, store, AnswersTrue, AnswerMatchesQuestion, Valid
  <2>4. QED
    BY <2>2, <2>3
<1>5. CASE TimesOut \/ UpstreamAnswers \/ UNCHANGED vars
  BY <1>5 DEF TimesOut, UpstreamAnswers, vars, store, AnswersTrue, AnswerMatchesQuestion, Valid
<1>6. CASE Tick
  <2>1. \A i \in Slots : cache'[i] = IF Valid(i) THEN [cache[i] EXCEPT !.age = Later(@)] ELSE Empty
    BY <1>6 DEF Tick
  <2>2. \A i \in Slots : Valid(i)' => cache'[i].ans = cache'[i].key
    <3>. SUFFICES ASSUME NEW i \in Slots, cache'[i] # Empty PROVE cache'[i].ans = cache'[i].key
      BY DEF Valid
    <3>1. Valid(i) /\ cache'[i] = [cache[i] EXCEPT !.age = Later(@)]
      BY <2>1
    <3>2. cache[i] = [key |-> cache[i].key, ans |-> cache[i].ans, age |-> cache[i].age, used |-> cache[i].used]
      BY DEF DnsInv, DnsTypes, EntryOK
    <3>3. cache'[i].ans = cache[i].ans /\ cache'[i].key = cache[i].key
      BY <3>1, <3>2
    <3>4. QED
      BY <3>1, <3>3 DEF AnswersTrue
  <2>3. AnswerMatchesQuestion'
    BY <1>6 DEF Tick, AnswerMatchesQuestion, NoReply, NoQuery
  <2>4. QED
    BY <2>2, <2>3 DEF AnswersTrue
<1>7. QED
  BY <1>1, <1>2, <1>3, <1>4, <1>5, <1>6 DEF Next

\* Late and repeated answers to earlier queries never reach a client, nor the cache.
THEOREM AnswerMatchesQuestionCorrect ==
    ASSUME IdsDistinguish PROVE Spec => []AnswerMatchesQuestion
<1>1. Init => AnswersTrue
  <2>1. Init => \A i \in Slots : ~Valid(i)
    BY DEF Init, Valid
  <2>2. Init => AnswerMatchesQuestion
    <3>1. Init => reply = NoReply
      BY DEF Init
    <3>2. NoReply.ans = "" /\ NoReply.query = NoQuery /\ NoQuery.key = ""
      BY DEF NoReply, NoQuery
    <3>3. QED
      BY <3>1, <3>2 DEF AnswerMatchesQuestion
  <2>3. QED
    BY <2>1, <2>2 DEF AnswersTrue
<1>2. AnswersTrue => AnswerMatchesQuestion
  BY DEF AnswersTrue
<1>3. DnsInv /\ AnswersTrue /\ [Next]_vars => AnswersTrue'
  BY StepAnswersTrue
<1>4. QED
  BY <1>1, <1>2, <1>3, DnsInvCorrect, PTL DEF Spec

-----------------------------------------------------------------------------
(* The entry that makes room, as long as the tick counter has not wrapped *)

LEMMA ModSmall == ASSUME NEW a \in Nat, a < ClockMod PROVE a % ClockMod = a
BY DnsAssumption DEF DnsAssumption

\* Ticks are the touches they stand for.
UsesTrue ==
    /\ touches \in 0..MaxClock /\ (pc = "wait" => touches < MaxClock)
    /\ clock = touches
    /\ lastUse = [i \in Slots |-> lastUse[i]]
    /\ \A i \in Slots : Valid(i) => cache[i].used = lastUse[i] /\ lastUse[i] \in Nat

\* A use of a slot sets its tick to the count of touches.
LEMMA TouchUses ==
    ASSUME MaxClock < ClockMod, UsesTrue, touches < MaxClock, NEW i \in Slots, Touch(i)
    PROVE  /\ touches' \in 0..MaxClock /\ clock' = touches' /\ clock' \in Nat
           /\ lastUse' = [j \in Slots |-> IF j = i THEN clock' ELSE lastUse[j]]
<1>1. touches + 1 \in Nat /\ touches + 1 < ClockMod /\ touches + 1 <= MaxClock
  BY DnsAssumption DEF DnsAssumption, UsesTrue
<1>2. touches' = touches + 1 /\ clock' = (touches + 1) % ClockMod
  BY DEF Touch, UsesTrue
<1>3. clock' = touches + 1
  BY <1>1, <1>2, ModSmall
<1>4. lastUse' = [lastUse EXCEPT ![i] = touches']
  BY DEF Touch
<1>5. QED
  BY <1>1, <1>2, <1>3, <1>4, DnsAssumption DEF UsesTrue, DnsAssumption

LEMMA StepUses ==
    ASSUME MaxClock < ClockMod, DnsInv, UsesTrue, [Next]_vars
    PROVE  UsesTrue'
<1>0. cache = [i \in Slots |-> cache[i]] /\ lastUse = [i \in Slots |-> lastUse[i]]
  BY DEF DnsInv, DnsTypes, UsesTrue
<1>1. ASSUME NEW q \in Queries, Refuse(q) PROVE UsesTrue'
  BY <1>1 DEF Refuse, store, task, UsesTrue, Valid
<1>2. ASSUME NEW q \in Queries, AnswerFromCache(q) PROVE UsesTrue'
  <2>. DEFINE i == First(Matching(q.key))
  <2>1. i \in Slots
    <3>1. Matching(q.key) \in SUBSET Slots /\ Matching(q.key) # {}
      BY <1>2 DEF AnswerFromCache, Matching
    <3>2. QED
      BY <3>1, FirstIsIn
  <2>2. /\ Touch(i) /\ cache' = [cache EXCEPT ![i].used = clock']
        /\ touches < MaxClock /\ pc' = "recv"
    BY <1>2 DEF AnswerFromCache, Receive, Hit, task
  <2>. HIDE DEF i
  <2>3. /\ touches' \in 0..MaxClock /\ clock' = touches' /\ clock' \in Nat
        /\ lastUse' = [j \in Slots |-> IF j = i THEN clock' ELSE lastUse[j]]
    BY <2>1, <2>2, TouchUses
  <2>4. /\ cache[i] = [key |-> cache[i].key, ans |-> cache[i].ans, age |-> cache[i].age, used |-> cache[i].used]
        /\ cache'[i] = [cache[i] EXCEPT !.used = clock']
        /\ \A j \in Slots \ {i} : cache'[j] = cache[j]
    BY <1>0, <2>1, <2>2 DEF DnsInv, DnsTypes, EntryOK
  <2>5. cache'[i].used = clock'
    BY <2>4
  <2>6. QED
    BY <2>2, <2>3, <2>4, <2>5 DEF UsesTrue, Valid
<1>3. ASSUME NEW q \in Queries, Forward(q) PROVE UsesTrue'
  <2>1. clock' = clock /\ touches' = touches /\ touches < MaxClock
    BY <1>3 DEF Forward, Receive, Expire, store
  <2>2. UNCHANGED <<cache, lastUse>>
        \/ \E i : cache' = [cache EXCEPT ![i] = Empty] /\ lastUse' = [lastUse EXCEPT ![i] = 0]
    BY <1>3 DEF Forward, Expire, store
  <2>3. lastUse' = [i \in Slots |-> lastUse'[i]]
    BY <1>0, <2>2
  <2>4. \A j \in Slots : Valid(j)' => Valid(j) /\ cache'[j] = cache[j] /\ lastUse'[j] = lastUse[j]
    BY <1>0, <2>2 DEF Valid
  <2>5. QED
    BY <2>1, <2>3, <2>4 DEF UsesTrue
<1>4. CASE Answered
  <2>0. touches < MaxClock /\ pc' \in {"recv", "wait"}
    BY <1>4 DEF Answered, UsesTrue, Back
  <2>1. CASE Accepts(Head(inbox))
    <3>. DEFINE v == Victim
    <3>1. v \in Slots
      BY VictimIsSlot DEF DnsInv
    <3>2. /\ Touch(v) /\ pc' = "recv"
          /\ cache' = [cache EXCEPT ![v] =
                          [key |-> query.key, ans |-> Head(inbox).key, age |-> waited, used |-> clock']]
      BY <1>4, <2>1 DEF Answered, Insert, Back
    <3>. HIDE DEF v
    <3>3. /\ touches' \in 0..MaxClock /\ clock' = touches' /\ clock' \in Nat
          /\ lastUse' = [j \in Slots |-> IF j = v THEN clock' ELSE lastUse[j]]
      BY <2>0, <3>1, <3>2, TouchUses
    <3>4. cache'[v].used = clock' /\ \A j \in Slots \ {v} : cache'[j] = cache[j]
      BY <1>0, <3>1, <3>2
    <3>5. QED
      BY <3>2, <3>3, <3>4 DEF UsesTrue, Valid
  <2>2. CASE ~Accepts(Head(inbox))
    BY <1>4, <2>0, <2>2 DEF Answered, store, UsesTrue, Valid
  <2>3. QED
    BY <2>1, <2>2
<1>5. CASE TimesOut \/ UpstreamAnswers \/ UNCHANGED vars
  BY <1>5 DEF TimesOut, Back, UpstreamAnswers, vars, store, task, UsesTrue, Valid
<1>6. CASE Tick
  <2>1. UNCHANGED <<clock, touches, lastUse, pc>>
    BY <1>6 DEF Tick
  <2>2. \A i \in Slots : cache'[i] = IF Valid(i) THEN [cache[i] EXCEPT !.age = Later(@)] ELSE Empty
    BY <1>6 DEF Tick
  <2>3. ASSUME NEW i \in Slots, cache'[i] # Empty
        PROVE  Valid(i) /\ cache'[i].used = cache[i].used
    <3>1. Valid(i) /\ cache'[i] = [cache[i] EXCEPT !.age = Later(@)]
      BY <2>2, <2>3
    <3>2. cache[i] = [key |-> cache[i].key, ans |-> cache[i].ans, age |-> cache[i].age, used |-> cache[i].used]
      BY DEF DnsInv, DnsTypes, EntryOK
    <3>3. QED
      BY <3>1, <3>2
  <2>4. QED
    BY <2>1, <2>3 DEF UsesTrue, Valid
<1>7. QED
  BY <1>1, <1>2, <1>3, <1>4, <1>5, <1>6 DEF Next

\* Only the insertion of an answer gives a slot to another key.
LEMMA OnlyVictimChangesKey ==
    ASSUME DnsInv, [Next]_vars, NEW i \in Slots,
           Valid(i), cache'[i] # Empty, cache'[i].key # cache[i].key
    PROVE  i = Victim
<1>0. /\ cache = [j \in Slots |-> cache[j]]
      /\ cache[i] = [key |-> cache[i].key, ans |-> cache[i].ans, age |-> cache[i].age, used |-> cache[i].used]
  BY DEF DnsInv, DnsTypes, EntryOK
<1>1. ASSUME NEW q \in Queries, AnswerFromCache(q) PROVE FALSE
  <2>1. \E j : cache' = [cache EXCEPT ![j].used = clock']
    BY <1>1 DEF AnswerFromCache, Hit
  <2>2. cache'[i] = cache[i] \/ cache'[i] = [cache[i] EXCEPT !.used = clock']
    BY <1>0, <2>1
  <2>3. QED
    BY <1>0, <2>2
<1>2. ASSUME NEW q \in Queries, Forward(q) PROVE FALSE
  <2>1. cache' = cache \/ \E j : cache' = [cache EXCEPT ![j] = Empty]
    BY <1>2 DEF Forward, Expire, store
  <2>2. QED
    BY <1>0, <2>1
<1>3. CASE Answered
  <2>1. CASE Accepts(Head(inbox))
    <3>1. \E e : cache' = [cache EXCEPT ![Victim] = e]
      BY <1>3, <2>1 DEF Answered, Insert
    <3>2. QED
      BY <1>0, <3>1
  <2>2. CASE ~Accepts(Head(inbox))
    BY <1>3, <2>2 DEF Answered, store
  <2>3. QED
    BY <2>1, <2>2
<1>4. CASE Tick
  <2>1. cache'[i] = [cache[i] EXCEPT !.age = Later(@)]
    BY <1>4 DEF Tick
  <2>2. QED
    BY <1>0, <2>1
<1>5. ASSUME NEW q \in Queries, Refuse(q) PROVE FALSE
  BY <1>5 DEF Refuse, store
<1>6. CASE TimesOut \/ UpstreamAnswers \/ UNCHANGED vars
  BY <1>6 DEF TimesOut, UpstreamAnswers, vars, store
<1>7. QED
  BY <1>1, <1>2, <1>3, <1>4, <1>5, <1>6 DEF Next

\* dns_cache_insert takes a free slot, else one with the lowest tick.
LEMMA VictimIsLeast ==
    ASSUME DnsTypes, Valid(Victim)
    PROVE  \A j \in Slots : Valid(j) /\ cache[Victim].used <= cache[j].used
<1>. DEFINE free == {i \in Slots : ~Valid(i)}
            least == {i \in Slots : \A j \in Slots : cache[i].used <= cache[j].used}
<1>1. ASSUME \E i \in Slots : ~Valid(i) PROVE FALSE
  <2>1. First(free) \in free
    BY <1>1, FirstIsIn
  <2>2. QED
    BY <1>1, <2>1 DEF Victim
<1>2. least # {}
  BY LeastTick
<1>3. First(least) \in least
  BY <1>2, FirstIsIn
<1>4. Victim \in least
  BY <1>1, <1>3 DEF Victim
<1>5. QED
  BY <1>1, <1>4

\* As long as the 32-bit tick counter has not wrapped, an answer takes the place of
\* another only in a full cache, and of the entry that was used longest ago.
THEOREM EvictsLeastRecentlyUsedCorrect ==
    ASSUME MaxClock < ClockMod PROVE Spec => EvictsLeastRecentlyUsed
<1>1. Init => UsesTrue
  BY DnsAssumption DEF Init, UsesTrue, Valid, DnsAssumption
<1>2. DnsInv /\ UsesTrue /\ [Next]_vars => UsesTrue'
  BY StepUses
<1>3. DnsInv /\ UsesTrue /\ [Next]_vars =>
        [\A i \in Slots :
            Valid(i) /\ cache'[i] # Empty /\ cache'[i].key # cache[i].key
               => \A j \in Slots : Valid(j) /\ lastUse[i] <= lastUse[j]]_vars
  <2>. SUFFICES ASSUME DnsInv, UsesTrue, [Next]_vars, NEW i \in Slots,
                       Valid(i), cache'[i] # Empty, cache'[i].key # cache[i].key
       PROVE  \A j \in Slots : Valid(j) /\ lastUse[i] <= lastUse[j]
    OBVIOUS
  <2>1. i = Victim
    BY OnlyVictimChangesKey
  <2>2. \A j \in Slots : Valid(j) /\ cache[i].used <= cache[j].used
    BY <2>1, VictimIsLeast DEF DnsInv
  <2>3. QED
    BY <2>2 DEF UsesTrue
<1>4. QED
  BY <1>1, <1>2, <1>3, DnsInvCorrect, PTL DEF Spec, EvictsLeastRecentlyUsed
==============================================================================
