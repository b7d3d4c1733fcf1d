------------------------------ MODULE MCUpdater ------------------------------
(* Instances of Updater for TLC: short sequences of releases, some broken.   *)
EXTENDS Updater

MCSha256(list) == <<"sha256", list>>

Good(list, v) == [format |-> 2, cnt |-> Len(list), size |-> Len(list),
                  sha |-> MCSha256(list), ver |-> v, body |-> list]

A == Good(<<1, 2>>, "A")
C == Good(<<3, 4, 5>>, "C")
\* The publisher announced C but still serves the blob of A.
Mismatched == [C EXCEPT !.body = A.body, !.ver = "X"]
Unsorted == Good(<<2, 1>>, "U")
TooShort == Good(<<1>>, "S")
TooBig == Good(<<1, 2, 3, 4, 5>>, "T")
OtherFormat == [Good(<<1, 2>>, "F") EXCEPT !.format = 1]
SizeOff == [Good(<<1, 2>>, "Z") EXCEPT !.size = 3]
\* Its count wraps to the size of its blob.
Wrapped == [Good(<<2, 4>>, "W") EXCEPT !.cnt = SizeMod + 2]

\* Each of the broken ones must be passed over to come to the last.
MCReleases == <<A, TooShort, TooBig, OtherFormat, SizeOff, Wrapped, Unsorted, Mismatched, C>>

TwoGood == <<A, C>>

MCRequests == {[cnt |-> Releases[i].cnt, sha |-> Releases[i].sha, ver |-> Releases[i].ver] :
                  i \in DOMAIN Releases}

\* Each position holds what some release puts there, nothing, or garbage.
MCImages ==
    LET at(i) == {Erased, Garbage} \cup
                 {Releases[j].body[i] : j \in {k \in DOMAIN Releases : Len(Releases[k].body) >= i}}
    IN  {<<a, b, c, d>> : a \in at(1), b \in at(2), c \in at(3), d \in at(4)}

\* The releases of the instance are such as the theorems ask for.
ASSUME PublisherAssumption == NoCollisions /\ BlobsAnnounced
==============================================================================
