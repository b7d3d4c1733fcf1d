------------------------------- MODULE Question -------------------------------
(***************************************************************************)
(* Which names the sinkhole looks up for a query: parse_question and       *)
(* is_blocked in main/dns_sinkhole.c.  The name of a query is a sequence   *)
(* of labels as they come over the wire, in any mixture of letter case; a  *)
(* label may hold any byte, a dot or the NUL that ends a C string as well. *)
(* How the lookups meet a change of the list is ListSwap's business.       *)
(***************************************************************************)
EXTENDS Ascii

CONSTANT NameSize    \* DNS_MAX_NAME, the size of s_name

\* The character whose code is 0.
Nul == "NUL"

\* parse_question: the name after each of the labels, in lower case and joined by
\* dots.  With its terminator it must fit, after every label.
Joined(labels) ==
    LET name[k \in 0..Len(labels)] ==
            IF k = 0 THEN <<>>
            ELSE LET before == name[k-1]
                 IN  (IF before = <<>> THEN <<>> ELSE Append(before, ".")) \o LowerCase(labels[k])
    IN  name
Fits(labels) == \A k \in 0..Len(labels) : Len(Joined(labels)[k]) < NameSize
NameBuffer(labels) == Joined(labels)[Len(labels)]

\* What strlen, strchr and the other readers of a C string see of it.
CString(s) ==
    LET ends == {i \in 1..Len(s) : s[i] = Nul} \cup {Len(s) + 1}
    IN  SubSeq(s, 1, Min(ends) - 1)

\* The name that is_blocked is given.
QuestionName(labels) == CString(NameBuffer(labels))

\* What is_blocked looks up: the name, and what is left of it after each dot as
\* long as another dot follows.
Mut_LookedUp(nm) ==
    {nm} \cup {SubSeq(nm, k + 1, Len(nm)) : k \in
        {i \in DOMAIN nm : nm[i] = "." /\ Cardinality({j \in DOMAIN nm : nm[j] = "."}) > 2}}
LookedUp(nm) ==
    {nm} \cup {SubSeq(nm, k + 1, Len(nm)) : k \in
        {i \in DOMAIN nm : nm[i] = "." /\ \E j \in DOMAIN nm : j > i /\ nm[j] = "."}}
===============================================================================
