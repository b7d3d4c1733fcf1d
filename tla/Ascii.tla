-------------------------------- MODULE Ascii --------------------------------
(***************************************************************************)
(* What both devices do to the text of a domain name.  A text is a         *)
(* sequence of characters; of the alphabet only the classes matter.        *)
(***************************************************************************)
EXTENDS Integers, Sequences, FiniteSets, SequencesExt

CONSTANTS
    Letters,      \* lower-case letters
    Digits,
    Capital(_)    \* the upper-case form of a letter

Spaces == {" ", "\t", "\r"}

Lower(c) ==
    IF \E l \in Letters : c = Capital(l) THEN CHOOSE l \in Letters : c = Capital(l) ELSE c

LowerCase(s) == [i \in DOMAIN s |-> Lower(s[i])]

Trim(s) ==
    LET solid == {i \in DOMAIN s : s[i] \notin Spaces}
    IN  IF solid = {} THEN <<>> ELSE SubSeq(s, Min(solid), Max(solid))

\* The k-th number of I, and what s has at the positions in I, in their order.
Nth(I, k) == CHOOSE i \in I : Cardinality({j \in I : j <= i}) = k
AtPositions(s, I) == [k \in 1..Cardinality(I) |-> s[Nth(I, k)]]

\* The pieces of s between separators, empty ones included.
Split(s, seps) ==
    LET cuts == {0, Len(s) + 1} \cup {i \in 1..Len(s) : s[i] \in seps}
    IN  [k \in 1..(Cardinality(cuts) - 1) |->
            SubSeq(s, Nth(cuts, k) + 1, Nth(cuts, k + 1) - 1)]

\* The members of a list that are not empty, in their order.
NonEmpty(list) == AtPositions(list, {i \in 1..Len(list) : list[i] # <<>>})
===============================================================================
