------------------------------ MODULE LineParser ------------------------------
(***************************************************************************)
(* What one line of a public list says: parse_line and normalize_domain in *)
(* generator-node/components/blocklist_pipeline/parse.c and normalize.c.   *)
(* The definitions are pure; Pipeline feeds them the lines it assembles.   *)
(***************************************************************************)
EXTENDS Ascii

CONSTANTS
    MaxLine,        \* PARSE_MAX_LINE, which is LINE_MAX of fetch.c
    MaxTokens,      \* PARSE_MAX_TOKENS
    MaxLabel,       \* 63
    MaxName,        \* 253
    IgnoredHosts    \* IGNORED_HOSTS

(* normalize.c *)

Ipv4Shape(s) ==
    LET groups == Split(s, {"."})
    IN  /\ Len(groups) = 4
        /\ \A i \in 1..4 : Len(groups[i]) \in 1..3 /\ ToSet(groups[i]) \subseteq Digits

\* Two labels or more, none empty or too long, none that begins with a hyphen.
ValidDomainShape(s) ==
    LET labels == Split(s, {"."})
        first == Letters \cup Digits \cup {"_"}
    IN  /\ Len(labels) >= 2
        /\ \A i \in 1..Len(labels) :
              /\ Len(labels[i]) \in 1..MaxLabel
              /\ labels[i][1] \in first
              /\ ToSet(labels[i]) \subseteq first \cup {"-"}

\* At most one trailing dot and one "*." prefix are dropped.
Stripped(token) ==
    LET s == Trim(token)
        d == IF s # <<>> /\ Last(s) = "." THEN Front(s) ELSE s
    IN  IF IsPrefix(<<"*", ".">>, d) THEN SubSeq(d, 3, Len(d)) ELSE d

\* normalize_domain: <<>> if the token is not a domain that may be blocked.
NormalizeDomain(token) ==
    LET nm == LowerCase(Stripped(token))
    IN  IF /\ Len(nm) \in 1..MaxName
           /\ nm \notin IgnoredHosts /\ ~Ipv4Shape(nm)
           /\ ValidDomainShape(nm)
        THEN nm ELSE <<>>

-----------------------------------------------------------------------------
(* parse.c *)

BeforeComment(line) ==
    LET hash == SelectInSeq(line, LAMBDA c : c = "#")
    IN  IF hash = 0 THEN line ELSE SubSeq(line, 1, hash - 1)

\* A comment, header or exception of an ad blocker's list.
NeverBlocks(text) == text[1] \in {"!", "["} \/ IsPrefix(<<"@", "@">>, text)

\* The domain of a rule "||domain^" and of no other: what stands between the
\* bars and the caret, unless it is more than a domain.
RuleBody(text) ==
    LET body == SubSeq(text, 3, Len(text) - 1)
    IN  IF Last(text) = "^" /\ ToSet(body) \cap {"/", "^", "*", "$", "|"} = {}
        THEN <<body>> ELSE <<>>

\* The words of a plain or hosts line; the address of the latter is left out.
Names(text) ==
    LET words == NonEmpty(Split(text, Spaces))
        first == IF Ipv4Shape(words[1]) \/ ":" \in ToSet(words[1]) THEN 2 ELSE 1
    IN  SubSeq(words, first, Min({MaxTokens, Len(words)}))

\* parse_line: the domains handed to the sink, in order.
ParseLine(line) ==
    LET text == Trim(BeforeComment(line))
        tokens == IF text = <<>> \/ Len(line) > MaxLine \/ NeverBlocks(text) THEN <<>>
                  ELSE IF IsPrefix(<<"|", "|">>, text) THEN RuleBody(text)
                  ELSE Names(text)
    IN  NonEmpty([i \in DOMAIN tokens |-> NormalizeDomain(tokens[i])])
===============================================================================
