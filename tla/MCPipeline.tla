------------------------------ MODULE MCPipeline ------------------------------
(* Instances of Pipeline for TLC.  A line of a source is its characters and    *)
(* the names it means; the meanings are those of the cases in the pipeline's   *)
(* host tests, with short names and small limits.                              *)
EXTENDS Pipeline

AB == <<"a", ".", "b">>
BA == <<"b", ".", "a">>
AAB == <<"a", ".", "a", ".", "b">>
BB == <<"b", ".", "b">>          \* the canary
Local == <<"a", "a", ".", "a">>   \* an ignored host
Ip == <<"1", ".", "1", ".", "1", ".", "1", " ">>

\* A line and what it means.
L(text, names) == [text |-> text, names |-> names]

Plain == L(<<"A", ".", "b", ".", "\r">>, {AB})
Hosts == L(Ip \o BA \o <<"\t">> \o Local, {BA})
Rule == L(<<"|", "|", "*", ".">> \o BA \o <<"^">>, {})
Exact == L(<<"|", "|">> \o BA \o <<"^", "#">>, {BA})
Exception == L(<<"@", "@", "|", "|">> \o BA \o <<"^">>, {})
Wildcard == L(<<" ", "*", ".">> \o AAB, {AAB})
Ipv6 == L(<<":", ":", "1", " ">> \o AB \o <<" ">> \o BA, {AB})   \* two tokens at most
Comment == L(<<"#">> \o BA, {})
Overlong == L(AB \o <<" ">> \o BA \o <<" ">> \o AAB \o <<" ", " ", " ">> \o BA, {})
Labels == L(<<"a", "a", "a", "a", ".", "b">>, {})                 \* a label too long
LongName == L(<<"a", "b", "a", ".">> \o AAB, {})                  \* a name too long
Allow == L(<<"A", "B", ".", "A">>, {<<"a", "b", ".", "a">>})
AllowCut == L(<<"a", "b", ".", "a", "b">>, {<<"a", "b", ".", "a", "b">>})
Bad == L(<<"-">> \o AB \o <<" ">> \o BB, {BB})

File(lines, rest) ==
    [text |-> FlattenSeq([i \in DOMAIN lines |-> lines[i].text \o <<"\n">>]) \o rest.text,
     names |-> rest.names \cup UNION {lines[i].names : i \in DOMAIN lines}]

MCSources == {
    File(<<Plain, Hosts>>, Comment),
    File(<<Overlong, Exact>>, Wildcard),
    File(<<Labels, Ipv6, Rule>>, Allow),
    File(<<Wildcard, Exception, LongName>>, Plain),
    File(<<AllowCut>>, Bad),
    File(<<Allow>>, Overlong)}

\* The first entry is no name; the third is over the limit.
MCAllowList == <<[text |-> <<"a">>, name |-> <<>>],
                 [text |-> <<" ", "a", "b", ".", "A">>, name |-> <<"a", "b", ".", "a">>],
                 [text |-> BA, name |-> BA]>>
SubAllowed == <<[text |-> AAB, name |-> AAB]>>

Q(labels, name) == [labels |-> labels, name |-> name, read |-> name]
Cut(labels, name, read) == [labels |-> labels, name |-> name, read |-> read]
MCQuestions == {
    Q(<<>>, <<>>),
    Q(<<<<"b">>>>, <<"b">>),
    Q(<<<<"A">>, <<"b">>>>, AB),
    Q(<<<<"b">>, <<"A">>>>, BA),
    Q(<<<<"b">>, <<"b">>, <<"a">>>>, <<"b", ".">> \o BA),
    Q(<<<<"a">>, <<"A">>, <<"B">>>>, AAB),
    Q(<<<<"b">>, <<"a">>, <<"a">>, <<"b">>>>, <<"b", ".">> \o AAB),
    Q(<<<<"a", "b">>, <<"a">>>>, <<"a", "b", ".", "a">>),
    Q(<<<<"b", "a">>, <<"a">>, <<"a">>, <<"b">>>>, <<"b", "a", ".">> \o AAB),
    \* dots inside a label, and at its end
    Q(<<<<"a", ".", "B">>>>, AB),
    Q(<<<<"b", ".", "a">>, <<"b">>>>, <<"b", ".">> \o AB),
    Q(<<<<"a", ".">>, <<"b">>>>, <<"a", ".", ".", "b">>),
    Q(<<<<"a">>, <<"b", ".">>>>, AB \o <<".">>),
    \* a NUL at the end of a label, in its middle, and before everything
    Cut(<<<<"b", Nul>>, <<"a">>, <<"b">>>>, <<"b", Nul, ".">> \o AB, <<"b">>),
    Cut(<<<<"a">>, <<"b", Nul, "a">>, <<"a">>>>, AB \o <<Nul, "a", ".", "a">>, AB),
    Cut(<<<<"b">>, <<"a">>, <<"b", Nul>>>>, <<"b", ".">> \o AB \o <<Nul>>, <<"b", ".">> \o AB),
    Cut(<<<<Nul>>, <<"a">>, <<"b">>>>, <<Nul, ".">> \o AB, <<>>)}

Capitals == [l \in {"a", "b"} |-> IF l = "a" THEN "A" ELSE "B"]
MCCapital(l) == Capitals[l]
Ignored == {Local}
OneCanary == {BB}

\* An injective hash of the names of the instance.
Digit(c) == CASE c = "a" -> 1 [] c = "b" -> 2 [] c = "1" -> 3 [] c = "." -> 4 [] OTHER -> 5
MCDomainHash(nm) == FoldLeft(LAMBDA h, c : 6 * h + Digit(c), 0, nm)

\* The hypotheses of the theorems hold of the instances.
ASSUME MeaningAssumption == SourcesMean /\ AllowMeans /\ QuestionsMean
ASSUME DistinctAssumption == HashesDistinct /\ LookupsDistinct /\ NameSize = MaxName + 1
===============================================================================
