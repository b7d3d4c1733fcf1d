------------------------------ MODULE MCDnsServe ------------------------------
(* Instances of DnsServe for TLC: three keys compete for two cache slots.    *)
EXTENDS DnsServe

Q(id, key) == [id |-> id, key |-> key]

\* Every key has a transaction ID of its own.
ThreeKeys == {Q(1, "a"), Q(2, "b"), Q(3, "c")}
\* Two clients happen to use the same transaction ID (see the README).
SharedId == {Q(1, "a"), Q(1, "b")}
===============================================================================
