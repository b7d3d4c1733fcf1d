------------------------------- MODULE DnsServe -------------------------------
(***************************************************************************)
(* The DNS task's serve loop, main/dns_sinkhole.c: one query at a time is  *)
(* refused, answered from the cache, or forwarded upstream over UDP, where *)
(* answers may be lost, late, duplicated or out of order.  Whether a name  *)
(* is blocked is left open here (ListSwap is about that); a key stands for *)
(* a name and a query type.  Time advances in ticks, of which the cache's  *)
(* lifetime is a few.                                                      *)
(***************************************************************************)
EXTENDS Integers, Sequences

CONSTANTS
    Queries,     \* what clients send: a transaction ID and a key
    CacheSize,   \* DNS_CACHE_SIZE
    TTL,         \* DNS_CACHE_TTL_US, in ticks
    MaxWait,     \* bound: ticks one forwarded query may take
    MaxTries,    \* datagrams forward_upstream looks at
    ClockMod,    \* 2^32: s_cache_clock is a uint32_t
    MaxClock,    \* bound: touches of the cache in a behaviour
    InboxSize    \* bound: datagrams the upstream socket queues

ASSUME DnsAssumption ==
    /\ CacheSize \in Nat \ {0} /\ TTL \in Nat /\ MaxWait \in Nat /\ MaxTries \in Nat \ {0}
    /\ ClockMod \in Nat \ {0} /\ MaxClock \in Nat /\ InboxSize \in Nat
    /\ \A q \in Queries : q = [id |-> q.id, key |-> q.key]

VARIABLES
    cache,     \* s_cache: key, ticks since inserted_us, last_used; or Empty
    clock,     \* s_cache_clock
    pc,        \* "recv": in recvfrom on port 53; "wait": in forward_upstream
    query,     \* the query in s_pkt
    tries,     \* datagrams looked at for it
    waited,    \* ticks since it was received
    pending,   \* queries upstream may still answer
    inbox,     \* answers queued at the upstream socket
    reply,     \* the last reply sent: the query and the key it really answers
    fetched,   \* history: ticks since the content of a cache slot came in
    lastUse,   \* history: the touch at which a cache slot was last used
    touches    \* history: how often s_cache_clock was incremented

task == <<pc, query, tries, waited>>
net == <<pending, inbox>>
store == <<cache, clock, fetched, lastUse, touches>>
vars == <<store, task, net, reply>>

Slots == 1..CacheSize
Empty == [key |-> "", ans |-> "", age |-> 0, used |-> 0]
NoQuery == [id |-> 0, key |-> ""]
NoReply == [query |-> NoQuery, ans |-> "", from |-> "none", slot |-> 0]

Valid(i) == cache[i] # Empty

\* The slot is used now: its tick, and the history kept of it.
Touch(i) ==
    /\ clock' = (clock + 1) % ClockMod
    /\ touches' = touches + 1
    /\ lastUse' = [lastUse EXCEPT ![i] = touches']

-----------------------------------------------------------------------------
(* dns_cache_find, dns_cache_insert *)

Matching(key) == {i \in Slots : Valid(i) /\ cache[i].key = key}
First(S) == CHOOSE i \in S : \A j \in S : i <= j

Mut_Hit(i) ==
    /\ cache[i].age <= TTL
    /\ Touch(i)
    /\ cache' = [cache EXCEPT ![i].used = clock', ![i].age = 0]
    /\ UNCHANGED fetched

Hit(i) ==
    /\ cache[i].age <= TTL
    /\ Touch(i)
    /\ cache' = [cache EXCEPT ![i].used = clock']
    /\ UNCHANGED fetched

Mut_Expire(i) ==
    /\ cache[i].age > TTL
    /\ UNCHANGED store

\* An expired entry is freed in place.
Expire(i) ==
    /\ cache[i].age > TTL
    /\ cache' = [cache EXCEPT ![i] = Empty]
    /\ fetched' = [fetched EXCEPT ![i] = 0] /\ lastUse' = [lastUse EXCEPT ![i] = 0]
    /\ UNCHANGED <<clock, touches>>

Mut_Victim ==
    IF \E i \in Slots : ~Valid(i) THEN First({i \in Slots : ~Valid(i)})
    ELSE First({i \in Slots : \A j \in Slots : cache[i].age >= cache[j].age})

\* The first free slot, else the first with the lowest tick.
Victim ==
    IF \E i \in Slots : ~Valid(i) THEN First({i \in Slots : ~Valid(i)})
    ELSE First({i \in Slots : \A j \in Slots : cache[i].used <= cache[j].used})

\* inserted_us is the time the query came in, before the wait for upstream.
Insert(key, ans) ==
    LET v == Victim
    IN  /\ Touch(v)
        /\ cache' = [cache EXCEPT ![v] =
                        [key |-> key, ans |-> ans, age |-> waited, used |-> clock']]
        /\ fetched' = [fetched EXCEPT ![v] = 0]

-----------------------------------------------------------------------------
(* dns_task *)

Receive(q) == pc = "recv" /\ touches < MaxClock /\ q \in Queries

\* A blocked name: the query is patched into an NXDOMAIN reply.
Refuse(q) ==
    /\ Receive(q)
    /\ reply' = [query |-> q, ans |-> q.key, from |-> "sinkhole", slot |-> 0]
    /\ UNCHANGED <<store, task, net>>

AnswerFromCache(q) ==
    /\ Receive(q) /\ Matching(q.key) # {}
    /\ LET i == First(Matching(q.key))
       IN  /\ Hit(i)
           /\ reply' = [query |-> q, ans |-> cache[i].ans, from |-> "cache", slot |-> i]
    /\ UNCHANGED <<task, net>>

\* A miss: send the query upstream; a failed send drops it.
Forward(q) ==
    /\ Receive(q)
    /\ IF Matching(q.key) = {} THEN UNCHANGED store ELSE Expire(First(Matching(q.key)))
    /\ \/ /\ pending' = pending \cup {q}
          /\ pc' = "wait" /\ query' = q /\ tries' = 0 /\ waited' = 0
       \/ UNCHANGED <<pending, task>>
    /\ UNCHANGED <<inbox, reply>>

Back == pc' = "recv" /\ query' = NoQuery /\ tries' = 0 /\ waited' = 0

Mut_Accepts(ans) == TRUE
\* Only the transaction ID is compared (and the QR bit, which answers have).
Accepts(ans) == ans.id = query.id

Mut_LastTry == tries = MaxTries
LastTry == tries + 1 = MaxTries

Mut_CountTry == tries
CountTry == tries + 1

\* One recv in forward_upstream's loop.
Answered ==
    /\ pc = "wait" /\ inbox # <<>>
    /\ inbox' = Tail(inbox)
    /\ IF Accepts(Head(inbox))
       THEN /\ Insert(query.key, Head(inbox).key)
            /\ reply' = [query |-> query, ans |-> Head(inbox).key, from |-> "upstream", slot |-> Victim]
            /\ Back
       ELSE /\ IF LastTry
               THEN Back
               ELSE tries' = CountTry /\ UNCHANGED <<pc, query, waited>>
            /\ UNCHANGED <<store, reply>>
    /\ UNCHANGED pending

\* SO_RCVTIMEO expires: the query is dropped, the client retries.
TimesOut ==
    /\ pc = "wait" /\ inbox = <<>>
    /\ Back
    /\ UNCHANGED <<store, net, reply>>

-----------------------------------------------------------------------------
(* Upstream and time *)

\* An answer arrives; upstream may send it again, or never.
UpstreamAnswers ==
    /\ Len(inbox) < InboxSize
    /\ \E q \in pending :
          /\ inbox' = Append(inbox, q)
          /\ pending' \in {pending, pending \ {q}}
    /\ UNCHANGED <<store, task, reply>>

Later(age) == IF age > TTL THEN age ELSE age + 1

Tick ==
    /\ pc = "wait" => waited < MaxWait
    /\ waited' = IF pc = "wait" THEN waited + 1 ELSE waited
    /\ cache' = [i \in Slots |-> IF Valid(i) THEN [cache[i] EXCEPT !.age = Later(@)] ELSE Empty]
    /\ fetched' = [i \in Slots |-> IF Valid(i) THEN Later(fetched[i]) ELSE 0]
    /\ reply' = NoReply
    /\ UNCHANGED <<clock, lastUse, touches, pc, query, tries, net>>

-----------------------------------------------------------------------------
Init ==
    /\ cache = [i \in Slots |-> Empty] /\ clock = 0
    /\ fetched = [i \in Slots |-> 0] /\ lastUse = fetched /\ touches = 0
    /\ pc = "recv" /\ query = NoQuery /\ tries = 0 /\ waited = 0
    /\ pending = {} /\ inbox = <<>>
    /\ reply = NoReply

Next ==
    \/ \E q \in Queries : Refuse(q) \/ AnswerFromCache(q) \/ Forward(q)
    \/ Answered \/ TimesOut
    \/ UpstreamAnswers \/ Tick

Spec == Init /\ [][Next]_vars

\* recv returns within its timeout: with a datagram or without.
FairSpec == Spec /\ WF_vars(Answered \/ TimesOut)

-----------------------------------------------------------------------------
(* Properties *)

Keys == {q.key : q \in Queries}

TypeOK ==
    /\ \A i \in Slots : Valid(i) =>
          /\ cache[i].key \in Keys /\ cache[i].ans \in Keys
          /\ cache[i].age \in 0 .. (IF TTL + 1 > MaxWait THEN TTL + 1 ELSE MaxWait)
          /\ cache[i].used \in 0..ClockMod - 1
    /\ DOMAIN cache = Slots
    /\ clock \in 0..ClockMod - 1
    /\ pc \in {"recv", "wait"}
    /\ pc = "wait" => query \in Queries
    /\ tries \in 0..MaxTries - 1
    /\ inbox \in Seq(Queries) /\ pending \subseteq Queries

\* At most one valid entry per key, although dns_cache_insert never looks for
\* one: it relies on the miss before it, up to MaxTries datagrams earlier.
OneEntryPerKey ==
    \A i, j \in Slots : Valid(i) /\ Valid(j) /\ cache[i].key = cache[j].key => i = j

\* An answer served from the cache came from upstream no longer ago than the
\* lifetime, however often it was served in between.
CachedAnswersFresh ==
    reply.from = "cache" => fetched[reply.slot] <= TTL

\* Clients whose transaction IDs tell their queries apart get, from upstream or
\* from the cache, the answer to what they asked: late and duplicated answers
\* to earlier queries are drained.
\* dns_sinkhole.c: forward_upstream "wait[s] (bounded) for the matching answer".
AnswerMatchesQuestion == reply.ans = reply.query.key

\* dns_sinkhole.c: "evicting a free slot if one exists, else the
\* least-recently-used one".
EvictsLeastRecentlyUsed ==
    [][\A i \in Slots :
          Valid(i) /\ cache'[i] # Empty /\ cache'[i].key # cache[i].key
             => \A j \in Slots : Valid(j) /\ lastUse[i] <= lastUse[j]]_vars

\* The loop comes back to port 53 from every forwarded query, whatever arrives.
ForwardEnds == pc = "wait" ~> pc = "recv"
===============================================================================
