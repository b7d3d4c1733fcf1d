------------------------------ MODULE ServeLoop ------------------------------
(***************************************************************************)
(* The time one turn of the DNS task may take between two feeds of the     *)
(* task watchdog, main/dns_sinkhole.c: every call that can block has a     *)
(* timeout, and the watchdog resets the device when the task has not fed   *)
(* it for Wdt.  What is looked up and answered is DnsServe's and           *)
(* ListSwap's business.  Durations are in units of 20 ms.                  *)
(***************************************************************************)
EXTENDS Integers

CONSTANTS
    Wdt,              \* WDT_TIMEOUT_S
    RetryDelay,       \* the delay between two attempts to set a socket up
    RecvTimeout,      \* SO_RCVTIMEO of the listening socket
    LockTimeout,      \* the wait for the list's lock, per lookup
    UpstreamTimeout,  \* SO_RCVTIMEO of the upstream socket
    MaxTries,         \* datagrams forward_upstream looks at
    NameSize          \* DNS_MAX_NAME, the size of s_name

ASSUME ServeAssumption ==
    /\ {Wdt, RetryDelay, RecvTimeout, LockTimeout, UpstreamTimeout} \subseteq Nat
    /\ MaxTries \in Nat \ {0} /\ NameSize \in Nat

\* What the timeouts must add up to for the name of a host: when none of its labels
\* is empty, a name that fits has at most NameSize \div 2 of them.
ASSUME BudgetAssumption ==
    RecvTimeout + (NameSize \div 2) * LockTimeout + MaxTries * UpstreamTimeout < Wdt

VARIABLES
    pc,       \* where dns_task is
    spent,    \* time since the watchdog was fed, or since the task subscribed
    socks,    \* sockets set up so far
    labels,   \* labels of the name still to be dropped before the lookup ends
    tries,    \* datagrams looked at by forward_upstream
    host      \* history: no name of this turn had more labels than a host's can

vars == <<pc, spent, socks, labels, tries, host>>

\* A call that blocks for at most t.
Blocks(t) == \E d \in 0..t : spent' = spent + d

-----------------------------------------------------------------------------
(* dns_task subscribes to the watchdog and sets two sockets up *)

SocketFails ==
    /\ pc = "setup" /\ spent < Wdt
    /\ spent' = spent + RetryDelay
    /\ UNCHANGED <<pc, socks, labels, tries, host>>

SocketReady ==
    /\ pc = "setup" /\ spent < Wdt
    /\ socks' = socks + 1
    /\ pc' = IF socks' = 2 THEN "feed" ELSE "setup"
    /\ UNCHANGED <<spent, labels, tries, host>>

-----------------------------------------------------------------------------
(* The serve loop *)

Feed ==
    /\ pc = "feed" /\ spent < Wdt
    /\ spent' = 0 /\ host' = TRUE
    /\ pc' = "recv"
    /\ UNCHANGED <<socks, labels, tries>>

\* is_blocked counts dots, and a dot may come inside a label of the packet as well:
\* a name in s_name that is all dots has n labels with n - 1 characters.
Fits(n) == n - 1 < NameSize

\* With a character in each, n labels and the dots between them take 2n - 1.
HostLike(n) == 2 * n - 1 < NameSize

\* Nothing came or parse_question refused it; or a name of n labels did, which
\* is_blocked looks up once, and once more for each label above two it drops.
Receive ==
    /\ pc = "recv" /\ spent < Wdt
    /\ Blocks(RecvTimeout)
    /\ \/ pc' = "feed" /\ UNCHANGED <<labels, host>>
       \/ \E n \in {i \in 1..NameSize : Fits(i)} :
             pc' = "lookup" /\ labels' = n /\ host' = HostLike(n)
       \* the root, or a name that begins with a NUL: is_blocked returns at once
       \/ pc' = "forward" /\ UNCHANGED <<labels, host>>
    /\ UNCHANGED <<socks, tries>>

\* One blocklist_contains: the name is blocked and refused, or the lookup goes
\* on, or the name passes: it is answered from the cache or sent upstream.
Lookup ==
    /\ pc = "lookup" /\ spent < Wdt
    /\ Blocks(LockTimeout)
    /\ \/ pc' = "feed" /\ labels' = 0
       \/ /\ labels > 2
          /\ pc' = pc /\ labels' = labels - 1
       \/ /\ labels <= 2
          /\ pc' \in {"feed", "forward"} /\ labels' = 0
    /\ UNCHANGED <<socks, tries, host>>

Mut_LastTry == tries + 1 > MaxTries
LastTry == tries + 1 = MaxTries

\* One recv of forward_upstream: timed out or matched, or a stale datagram.
Forward ==
    /\ pc = "forward" /\ spent < Wdt
    /\ Blocks(UpstreamTimeout)
    /\ \/ pc' = "feed" /\ tries' = 0
       \/ /\ ~LastTry
          /\ pc' = pc /\ tries' = tries + 1
    /\ UNCHANGED <<socks, labels, host>>

-----------------------------------------------------------------------------
\* The watchdog panics and the device reboots.
Panic ==
    /\ spent >= Wdt
    /\ pc' = "setup" /\ spent' = 0 /\ socks' = 0 /\ labels' = 0 /\ tries' = 0 /\ host' = TRUE

Init ==
    /\ pc = "setup" /\ spent = 0 /\ socks = 0 /\ labels = 0 /\ tries = 0
    /\ host = TRUE

Next == SocketFails \/ SocketReady \/ Feed \/ Receive \/ Lookup \/ Forward \/ Panic

Spec == Init /\ [][Next]_vars

-----------------------------------------------------------------------------
(* Properties *)

\* dns_sinkhole.c: "Worst-case iteration (upstream wait + drains) stays well
\* under WDT_TIMEOUT_S": whatever blocks for as long as it can, the watchdog does
\* not bite the loop while it works on the name of a host, however long.  With as
\* many lookups as other names can take the timeouts add up to more than Wdt.
HostNamesNeverStall == spent >= Wdt /\ host => pc = "setup"
=============================================================================
