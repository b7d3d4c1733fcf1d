---------------------------- MODULE Watchdog_proofs ----------------------------
(* When the watchdogs cannot bite: the serve loop's not in a turn for the    *)
(* name of a host, for every choice of the timeouts that add up              *)
(* (BudgetAssumption), the generator's not while refresh_task works, for all *)
(* timeouts and bounds that WorkAssumption admits.                           *)
EXTENDS ServeLoop, RefreshLoop, TLAPS

-----------------------------------------------------------------------------
(* The serve loop of the sinkhole *)

\* The most labels of a host's name that fits, and the longest that one receive,
\* l lookups and t waits for upstream can take.
MaxLabels == NameSize \div 2
Limit(l, t) == RecvTimeout + l * LockTimeout + t * UpstreamTimeout

\* The time spent in a turn for a host's name is accounted for by its calls.
Accounted ==
    /\ pc \in {"setup", "feed", "recv", "lookup", "forward"}
    /\ spent \in Nat /\ labels \in Nat /\ tries \in 0..MaxTries - 1 /\ host \in BOOLEAN
    /\ pc = "recv" => spent = 0
    /\ pc = "lookup" /\ host =>
          labels \in 1..MaxLabels /\ spent <= Limit(MaxLabels - labels, 0)
    /\ pc = "forward" /\ host => spent <= Limit(MaxLabels, tries)
    /\ pc # "forward" => tries = 0
    /\ pc # "setup" /\ host => spent < Wdt

-----------------------------------------------------------------------------
\* A product grows with its first factor.
LEMMA ProductGrows ==
    ASSUME NEW a \in Nat, NEW b \in Nat, NEW c \in Nat, a <= b
    PROVE  a * c \in Nat /\ b * c \in Nat /\ a * c <= b * c
<1>1. PICK d \in Nat : b = a + d
  BY SMT
<1>2. b * c = a * c + d * c
  BY <1>1, SMT
<1>3. a * c \in Nat /\ d * c \in Nat
  BY <1>1, SMT
<1>4. QED
  BY <1>2, <1>3, SMT

LEMMA MaxLabelsType == MaxLabels \in Nat /\ 2 * MaxLabels <= NameSize /\ NameSize <= 2 * MaxLabels + 1
BY ServeAssumption, SMT DEF ServeAssumption, MaxLabels

\* A host's name that fits has at most MaxLabels labels.
LEMMA HostLikeBound ==
    ASSUME NEW n \in 1..NameSize, HostLike(n)
    PROVE  n \in 1..MaxLabels
BY ServeAssumption, MaxLabelsType, SMT DEF ServeAssumption, HostLike

\* No turn takes as long as the watchdog waits.
LEMMA LimitBelowWdt ==
    ASSUME NEW l \in 0..MaxLabels, NEW t \in 0..MaxTries
    PROVE  Limit(l, t) \in Nat /\ Limit(l, t) < Wdt
<1>1. l * LockTimeout \in Nat /\ l * LockTimeout <= MaxLabels * LockTimeout
  BY MaxLabelsType, ServeAssumption, ProductGrows DEF ServeAssumption
<1>2. t * UpstreamTimeout \in Nat /\ t * UpstreamTimeout <= MaxTries * UpstreamTimeout
  BY ServeAssumption, ProductGrows DEF ServeAssumption
<1>3. MaxLabels * LockTimeout \in Nat /\ MaxTries * UpstreamTimeout \in Nat
  BY MaxLabelsType, ServeAssumption, ProductGrows DEF ServeAssumption
<1>4. RecvTimeout + MaxLabels * LockTimeout + MaxTries * UpstreamTimeout < Wdt
  BY BudgetAssumption DEF BudgetAssumption, MaxLabels
<1>5. RecvTimeout \in Nat /\ Wdt \in Nat
  BY ServeAssumption DEF ServeAssumption
<1>6. QED
  BY <1>1, <1>2, <1>3, <1>4, <1>5, SMT DEF Limit

\* One more lookup, one more wait for upstream.
LEMMA LimitStep ==
    ASSUME NEW l \in Nat, NEW t \in Nat
    PROVE  /\ Limit(l + 1, t) = Limit(l, t) + LockTimeout
           /\ Limit(l, t + 1) = Limit(l, t) + UpstreamTimeout
           /\ Limit(l, t) \in Nat
<1>1. (l + 1) * LockTimeout = l * LockTimeout + LockTimeout /\ l * LockTimeout \in Nat
  BY ServeAssumption, ProductGrows, SMT DEF ServeAssumption
<1>2. (t + 1) * UpstreamTimeout = t * UpstreamTimeout + UpstreamTimeout /\ t * UpstreamTimeout \in Nat
  BY ServeAssumption, ProductGrows, SMT DEF ServeAssumption
<1>3. QED
  BY <1>1, <1>2, ServeAssumption, SMT DEF ServeAssumption, Limit

\* With fewer lookups behind it a turn has not taken longer.
LEMMA LimitGrows ==
    ASSUME NEW l \in 0..MaxLabels
    PROVE  Limit(l, 0) <= Limit(MaxLabels, 0)
<1>1. l * LockTimeout \in Nat /\ l * LockTimeout <= MaxLabels * LockTimeout
      /\ MaxLabels * LockTimeout \in Nat
  BY MaxLabelsType, ServeAssumption, ProductGrows DEF ServeAssumption
<1>2. QED
  BY <1>1, ServeAssumption, SMT DEF ServeAssumption, Limit

-----------------------------------------------------------------------------
LEMMA InitAccounted == Init => Accounted
BY ServeAssumption, SMT DEF Init, Accounted, ServeAssumption

LEMMA StepAccounted == Accounted /\ [Next]_vars => Accounted'
<1> SUFFICES ASSUME Accounted, [Next]_vars PROVE Accounted'
  OBVIOUS
<1> USE MaxLabelsType
<1>t. /\ Wdt \in Nat /\ RetryDelay \in Nat /\ RecvTimeout \in Nat /\ LockTimeout \in Nat
      /\ UpstreamTimeout \in Nat /\ MaxTries \in Nat \ {0} /\ NameSize \in Nat
  BY ServeAssumption DEF ServeAssumption
<1>z. Limit(0, 0) = RecvTimeout /\ 0 < Wdt
  BY <1>t, LimitBelowWdt, SMT DEF Limit
<1>1. CASE SocketFails
  BY <1>1, <1>t, SMT DEF SocketFails, Accounted
<1>2. CASE SocketReady
  BY <1>2, <1>t, SMT DEF SocketReady, Accounted
<1>3. CASE Feed
  BY <1>3, <1>t, <1>z, SMT DEF Feed, Accounted
<1>4. CASE Receive
  <2>1. spent' \in 0..RecvTimeout /\ tries' = 0 /\ tries = 0 /\ labels \in Nat /\ host \in BOOLEAN
    BY <1>4, <1>t, SMT DEF Receive, Blocks, Accounted
  <2>2. spent' <= Limit(0, 0) /\ spent' < Wdt /\ Limit(0, 0) <= Limit(MaxLabels, 0)
    BY <2>1, <1>t, <1>z, LimitBelowWdt, LimitGrows, SMT
  <2>3. CASE pc' = "feed" /\ UNCHANGED <<labels, host>>
    BY <2>1, <2>2, <2>3, <1>t, SMT DEF Accounted
  <2>4. CASE \E n \in {i \in 1..NameSize : Fits(i)} :
               pc' = "lookup" /\ labels' = n /\ host' = HostLike(n)
    <3>1. PICK n \in 1..NameSize : pc' = "lookup" /\ labels' = n /\ host' = HostLike(n)
      BY <2>4
    <3>2. HostLike(n) \in BOOLEAN /\ n \in Nat
      BY <1>t, SMT DEF HostLike
    <3>3. ASSUME HostLike(n)
          PROVE  n \in 1..MaxLabels /\ spent' <= Limit(MaxLabels - n, 0)
      <4>1. n \in 1..MaxLabels /\ MaxLabels - n \in Nat
        BY <3>3, HostLikeBound, SMT
      <4>2. (MaxLabels - n) * LockTimeout \in Nat
        BY <4>1, <1>t, ProductGrows
      <4>3. QED
        BY <4>1, <4>2, <2>1, <1>t, SMT DEF Limit
    <3>4. QED
      BY <3>1, <3>2, <3>3, <2>1, <2>2, <1>t, SMT DEF Accounted
  <2>5. CASE pc' = "forward" /\ UNCHANGED <<labels, host>>
    <3>1. Limit(MaxLabels, 0) \in Nat
      BY LimitStep
    <3>2. QED
      BY <3>1, <2>1, <2>2, <2>5, <1>t, <1>z, SMT DEF Accounted
  <2>6. QED
    BY <1>4, <2>3, <2>4, <2>5 DEF Receive
<1>5. CASE Lookup
  <2> DEFINE l == MaxLabels - labels
  <2>1. /\ pc = "lookup" /\ tries' = 0 /\ tries = 0 /\ host' = host /\ host \in BOOLEAN
        /\ spent \in Nat /\ spent' \in Nat /\ spent' <= spent + LockTimeout
        /\ labels \in Nat
    BY <1>5, <1>t, SMT DEF Lookup, Blocks, Accounted
  <2>2. \/ pc' = "lookup" /\ labels > 2 /\ labels' = labels - 1 /\ labels' \in Nat
        \/ pc' \in {"feed", "forward"} /\ labels' = 0
    BY <1>5, <2>1, SMT DEF Lookup
  <2>3. CASE ~host
    BY <2>1, <2>2, <2>3, <1>t, SMT DEF Accounted
  <2>4. CASE host
    <3>1. labels \in 1..MaxLabels /\ spent <= Limit(l, 0)
      BY <2>1, <2>4 DEF Accounted
    <3>2. l \in 0..MaxLabels - 1 /\ l + 1 \in 0..MaxLabels
      BY <3>1, SMT
    <3>3. spent' <= Limit(l + 1, 0) /\ Limit(l + 1, 0) \in Nat /\ Limit(l + 1, 0) < Wdt
      <4>1. Limit(l + 1, 0) = Limit(l, 0) + LockTimeout /\ Limit(l, 0) \in Nat
        BY <3>2, LimitStep
      <4>2. Limit(l + 1, 0) < Wdt
        BY <3>2, <1>t, LimitBelowWdt
      <4>3. QED
        BY <4>1, <4>2, <3>1, <2>1, <1>t, SMT
    <3>4. Limit(l + 1, 0) <= Limit(MaxLabels, 0) /\ Limit(MaxLabels, 0) \in Nat
      BY <3>2, LimitGrows, LimitStep
    <3>5. spent' < Wdt /\ spent' <= Limit(MaxLabels, 0)
      BY <2>1, <3>3, <3>4, <1>t, SMT
    <3>6. CASE pc' = "lookup" /\ labels > 2 /\ labels' = labels - 1
      <4>1. MaxLabels - labels' = l + 1 /\ labels' \in 1..MaxLabels
        BY <3>1, <3>6, SMT
      <4> HIDE DEF l
      <4>2. QED
        BY <4>1, <2>1, <3>3, <3>5, <3>6, <1>t, SMT DEF Accounted
    <3>7. CASE pc' \in {"feed", "forward"} /\ labels' = 0
      <4> HIDE DEF l
      <4>1. QED
        BY <2>1, <3>5, <3>7, <1>t, SMT DEF Accounted
    <3>8. QED
      BY <2>2, <3>6, <3>7
  <2>5. QED
    BY <2>1, <2>3, <2>4
<1>6. CASE Forward
  <2>1. /\ pc = "forward" /\ tries \in 0..MaxTries - 1 /\ labels' = labels /\ labels \in Nat
        /\ tries \in Nat /\ tries + 1 \in 0..MaxTries
        /\ spent \in Nat /\ spent' \in Nat /\ spent' <= spent + UpstreamTimeout
        /\ host' = host /\ host \in BOOLEAN
        /\ host => spent <= Limit(MaxLabels, tries)
    BY <1>6, <1>t, SMT DEF Forward, Blocks, Accounted
  <2>2. host => spent' <= Limit(MaxLabels, tries + 1) /\ spent' < Wdt
    <3>1. /\ Limit(MaxLabels, tries + 1) = Limit(MaxLabels, tries) + UpstreamTimeout
          /\ Limit(MaxLabels, tries) \in Nat
      BY <2>1, <1>t, LimitStep
    <3>2. Limit(MaxLabels, tries + 1) < Wdt
      BY <2>1, <1>t, LimitBelowWdt
    <3>3. QED
      BY <3>1, <3>2, <2>1, <1>t, SMT
  <2>3. \/ pc' = "feed" /\ tries' = 0
        \/ pc' = "forward" /\ tries' = tries + 1 /\ tries + 1 \in 0..MaxTries - 1
    BY <1>6, <2>1, <1>t, SMT DEF Forward, LastTry
  <2>4. QED
    BY <2>1, <2>2, <2>3, <1>t, SMT DEF Accounted
<1>7. CASE Panic
  BY <1>7, <1>t, <1>z, SMT DEF Panic, Accounted
<1>8. CASE UNCHANGED vars
  BY <1>8 DEF vars, Accounted
<1>9. QED
  BY <1>1, <1>2, <1>3, <1>4, <1>5, <1>6, <1>7, <1>8 DEF Next

\* The watchdog does not bite the serve loop in a turn for the name of a host, by
\* BudgetAssumption: see HostNamesNeverStall in ServeLoop.
THEOREM HostNamesNeverStallCorrect == Spec => []HostNamesNeverStall
<1>1. Accounted => HostNamesNeverStall
  BY ServeAssumption, SMT DEF Accounted, HostNamesNeverStall, ServeAssumption
<1>2. QED
  BY <1>1, InitAccounted, StepAccounted, PTL DEF Spec

-----------------------------------------------------------------------------
(* refresh_task of the generator *)

WorkPoints == {"start", "cycle", "source", "headers", "read", "generated", "save",
               "readback", "saved", "end"}

\* What is left of the window when each piece of work begins.
WindowLeft ==
    /\ step \in WorkPoints \cup {"publish", "wait"}
    /\ unfed \in Nat
    /\ step = "source" => unfed <= HttpTimeout
    /\ step \in WorkPoints => unfed < RefreshWdt

LEMMA RefreshNat ==
    /\ RefreshWdt \in Nat /\ FirstDelay \in Nat /\ HttpTimeout \in Nat /\ GenerateTime \in Nat
    /\ FlashTime \in Nat /\ VerifyTime \in Nat
    /\ 0 < RefreshWdt /\ FirstDelay < RefreshWdt /\ HttpTimeout < RefreshWdt
BY RefreshAssumption, WorkAssumption, SMT DEF RefreshAssumption, WorkAssumption

LEMMA InitWindow == RefreshInit => WindowLeft
BY RefreshNat, SMT DEF RefreshInit, WindowLeft, WorkPoints

LEMMA StepWindow == WindowLeft /\ [RefreshNext]_refreshVars => WindowLeft'
<1> SUFFICES ASSUME WindowLeft, [RefreshNext]_refreshVars PROVE WindowLeft'
  OBVIOUS
<1> USE RefreshNat, WorkAssumption DEF WorkAssumption, WindowLeft, WorkPoints
<1>1. CASE StartDelay
  BY <1>1, SMT DEF StartDelay, At, FeedThenTakes
<1>2. CASE Cycle
  BY <1>2, SMT DEF Cycle, At
<1>3. CASE Open
  BY <1>3, SMT DEF Open, At, FeedThenTakes
<1>4. CASE Headers
  BY <1>4, SMT DEF Headers, At, FeedThenTakes
<1>5. CASE ReadChunk
  BY <1>5, SMT DEF ReadChunk, At, FeedThenTakes
<1>6. CASE Finish
  BY <1>6, SMT DEF Finish, At, Takes
<1>7. CASE Generated
  BY <1>7, SMT DEF Generated, At
<1>8. CASE Save
  BY <1>8, SMT DEF Save, At, FeedThenTakes
<1>9. CASE ReadBack
  BY <1>9, SMT DEF ReadBack, At, FeedThenTakes
<1>10. CASE Saved \/ Publish \/ EndOfCycle
  BY <1>10, SMT DEF Saved, Publish, EndOfCycle, At
<1>11. CASE LockTaken \/ Waiting
  BY <1>11, SMT DEF LockTaken, Waiting, At
<1>12. CASE Wake
  BY <1>12, SMT DEF Wake, At
<1>13. CASE RefreshPanic
  BY <1>13, SMT DEF RefreshPanic
<1>14. CASE UNCHANGED refreshVars
  BY <1>14 DEF refreshVars
<1>15. QED
  BY <1>1, <1>2, <1>3, <1>4, <1>5, <1>6, <1>7, <1>8, <1>9, <1>10, <1>11, <1>12, <1>13, <1>14
     DEF RefreshNext, Work

\* By WorkAssumption the watchdog does not bite while the task works.  The assumption
\* is about sums: a call to a source and the generation of the list after it are one
\* stretch, the other stretches are single calls: see WorkIsFed in RefreshLoop.
THEOREM WorkIsFedCorrect == RefreshSpec => []WorkIsFed
<1>1. WindowLeft => WorkIsFed
  BY RefreshNat, SMT DEF WindowLeft, WorkIsFed, WorkPoints
<1>2. QED
  BY <1>1, InitWindow, StepWindow, PTL DEF RefreshSpec
================================================================================
