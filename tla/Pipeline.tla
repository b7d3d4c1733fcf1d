------------------------------- MODULE Pipeline -------------------------------
(***************************************************************************)
(* One fetch+generate cycle of the generator: fetch_and_generate in        *)
(* generator-node/main/fetch.c streams every source in chunks, assembles   *)
(* lines, and hands the domains parse_line finds to the builder of         *)
(* components/blocklist_pipeline/generate.c, which sorts, dedupes and      *)
(* tests the list.  Question says what the sinkhole then looks up in it.   *)
(* What is done with the artifact is GeneratorNode's business.             *)
(***************************************************************************)
EXTENDS LineParser, Question

CONSTANTS
    Sources,         \* what a source may serve: its text, and the names it means
    SourceCount,     \* configured sources
    ChunkSize,       \* CHUNK_SIZE
    AllowList,       \* CONFIG_GENERATOR_ALLOWLIST: tokens, and the names they mean
    AllowMax,        \* ALLOWLIST_MAX
    Canaries,        \* NEGATIVE_CANARIES
    MinDomains,      \* CONFIG_GENERATOR_MIN_DOMAINS
    FirstCapacity,   \* BUILDER_INITIAL_CAPACITY
    DomainHash(_),   \* domain_hash of a name
    Questions,       \* what clients ask: the labels sent, the name they mean, and
                     \* what is read of it
    Faults           \* what may fail: "heap", "net"

ASSUME PipelineAssumption ==
    /\ SourceCount \in Nat /\ AllowMax \in Nat
    /\ {ChunkSize, MaxLine, MaxTokens, MaxName, MinDomains, FirstCapacity} \subseteq Nat \ {0}
    /\ \A s \in Sources : /\ s.text \in Seq(ToSet(s.text))
                          /\ \A nm \in s.names : nm \in Seq(ToSet(nm))
    /\ \A q \in Questions : q.labels \in Seq(Seq(UNION {ToSet(l) : l \in ToSet(q.labels)}))

VARIABLES
    pc,        \* "idle" between two cycles, "source", "read"
    left,      \* sources still to be fetched
    body,      \* what the open source still has to send
    chunk,     \* what is left of s_chunk
    line,      \* s_line and line_len
    over,      \* line_overflowed
    emit,      \* what parse_line has still to hand to add_sink
    hashes,    \* the builder's hashes and count
    capacity,  \* the builder's capacity
    status,    \* what fetch_and_generate returned
    blob,      \* out->blob, as a sequence of hashes
    source,    \* history: the open source
    wanted,    \* history: the names meant by the sources read to their end
    received,  \* history: the names in the bytes received of the sources closed
    intact     \* history: no source and no allocation failed in this cycle

input == <<body, chunk, line, over, emit>>
builder == <<hashes, capacity>>
result == <<status, blob>>
history == <<source, wanted, received>>
vars == <<pc, left, input, builder, result, history, intact>>

-----------------------------------------------------------------------------
(* allowlist_init, allowlist_contains, blocklist_builder_add *)

Mut_AllowHashes ==
    {DomainHash(NormalizeDomain(AllowList[i].text)) :
        i \in 1..Min({AllowMax, Len(AllowList)})}
\* The positions of the first AllowMax entries that are domains.
FirstOf(valid) == {i \in valid : Cardinality({j \in valid : j <= i}) <= AllowMax}
AllowHashes ==
    LET name(i) == NormalizeDomain(AllowList[i].text)
    IN  {DomainHash(name(i)) : i \in FirstOf({j \in DOMAIN AllowList : name(j) # <<>>})}

Allowed(h) == h \in AllowHashes

Mut_Grown(n) == IF n > capacity + 1 THEN 2 * capacity ELSE capacity
\* builder_reserve: doubled until n entries fit.
Grown(n) ==
    IF n <= capacity THEN capacity
    ELSE IF capacity = 0 THEN FirstCapacity ELSE 2 * capacity

\* add_sink: an allowlisted name never reaches the builder; one that the builder
\* has no memory for is not counted.
AddSink(h) ==
    \/ Allowed(h) /\ UNCHANGED <<builder, intact>>
    \/ /\ ~Allowed(h)
       /\ hashes' = Append(hashes, h)
       /\ capacity' = Grown(Len(hashes) + 1)
       /\ intact' = intact
    \/ /\ ~Allowed(h)
       /\ "heap" \in Faults /\ Grown(Len(hashes) + 1) # capacity
       /\ intact' = FALSE /\ UNCHANGED builder

-----------------------------------------------------------------------------
(* fetch_and_generate, fetch_one_source *)

\* The builder is created; without memory for it the cycle is over.
Create ==
    /\ pc = "idle"
    /\ hashes' = <<>> /\ capacity' = 0 /\ blob' = <<>>
    /\ wanted' = {} /\ received' = {}
    /\ \/ pc' = "source" /\ left' = SourceCount /\ status' = "none" /\ intact' = TRUE
       \/ "heap" \in Faults /\ status' = "alloc" /\ intact' = FALSE /\ UNCHANGED <<pc, left>>
    /\ UNCHANGED <<input, source>>

Mut_OpenSource ==
    /\ pc = "source" /\ left > 0 /\ emit = <<>>
    /\ left' = left - 1
    /\ \/ /\ source' \in Sources /\ body' = source'.text
          /\ pc' = "read" /\ UNCHANGED <<line, over, intact>>
       \/ "net" \in Faults /\ intact' = FALSE /\ UNCHANGED <<pc, body, line, over, source>>
    /\ UNCHANGED <<chunk, emit, builder, result, wanted, received>>

\* A source that cannot be reached is skipped.
OpenSource ==
    /\ pc = "source" /\ left > 0 /\ emit = <<>>
    /\ left' = left - 1
    /\ \/ /\ source' \in Sources /\ body' = source'.text
          /\ line' = <<>> /\ over' = FALSE
          /\ pc' = "read" /\ UNCHANGED intact
       \/ "net" \in Faults /\ intact' = FALSE /\ UNCHANGED <<pc, body, line, over, source>>
    /\ UNCHANGED <<chunk, emit, builder, result, wanted, received>>

\* The scan of the last chunk is over: fetch_one_source reads on.
AtRead == pc = "read" /\ chunk = <<>> /\ emit = <<>>

ReadChunk ==
    /\ AtRead /\ body # <<>>
    /\ \E n \in 1..Min({ChunkSize, Len(body)}) :
          chunk' = SubSeq(body, 1, n) /\ body' = SubSeq(body, n + 1, Len(body))
    /\ UNCHANGED <<pc, left, line, over, emit, builder, result, history, intact>>

\* What does not fit in s_line is dropped and marks the line.
Kept(text) == SubSeq(text, 1, Min({MaxLine, Len(text)}))
TooLong(text) == over \/ Len(text) > MaxLine

Mut_ScanLine ==
    /\ pc = "read" /\ chunk # <<>> /\ emit = <<>>
    /\ LET eol == SelectInSeq(chunk, LAMBDA c : c = "\n")
           text == line \o SubSeq(chunk, 1, (IF eol = 0 THEN Len(chunk) ELSE eol - 1))
       IN  IF eol = 0
           THEN chunk' = <<>> /\ line' = Kept(text) /\ over' = TooLong(text) /\ emit' = <<>>
           ELSE /\ chunk' = SubSeq(chunk, eol + 1, Len(chunk))
                /\ line' = <<>> /\ over' = TooLong(text)
                /\ emit' = IF TooLong(text) THEN <<>> ELSE ParseLine(text)
    /\ UNCHANGED <<pc, left, body, builder, result, history, intact>>

\* The scan of s_chunk up to the end of a line, or of the chunk.
ScanLine ==
    /\ pc = "read" /\ chunk # <<>> /\ emit = <<>>
    /\ LET eol == SelectInSeq(chunk, LAMBDA c : c = "\n")
           text == line \o SubSeq(chunk, 1, (IF eol = 0 THEN Len(chunk) ELSE eol - 1))
       IN  IF eol = 0
           THEN chunk' = <<>> /\ line' = Kept(text) /\ over' = TooLong(text) /\ emit' = <<>>
           ELSE /\ chunk' = SubSeq(chunk, eol + 1, Len(chunk))
                /\ line' = <<>> /\ over' = FALSE
                /\ emit' = IF TooLong(text) THEN <<>> ELSE ParseLine(text)
    /\ UNCHANGED <<pc, left, body, builder, result, history, intact>>

\* parse_line calls add_sink for each domain of the line.
Sink ==
    /\ emit # <<>>
    /\ AddSink(DomainHash(Head(emit)))
    /\ emit' = Tail(emit)
    /\ UNCHANGED <<pc, left, body, chunk, line, over, result, history>>

\* A read returns 0: a last line without a newline is parsed, too.
LastLine == IF over THEN <<>> ELSE ParseLine(line)

\* The lines of a text: Line is the piece of it that ends before position b, and
\* Ended are those that a newline ends within the first n bytes.
Newlines(text) == {i \in 1..Len(text) : text[i] = "\n"}
Line(text, b) == SubSeq(text, Max({0} \cup {a \in Newlines(text) : a < b}) + 1, b - 1)
Ended(text, n) == {Line(text, b) : b \in {i \in Newlines(text) : i <= n}}
Lines(text, n) == Ended(text, n) \cup {Line(text, n + 1)}
NamesIn(lines) == UNION {ToSet(ParseLine(l)) : l \in lines}

\* The names in the lines of the sources, wherever they break off.
Mentionable == UNION {NamesIn({Line(s.text, b) : b \in 1..(Len(s.text) + 1)}) : s \in Sources}

ASSUME HashAssumption == \A nm \in Mentionable \cup Canaries : DomainHash(nm) \in Nat

\* The bytes of the open source that have come, and the lines in them.
Got == Len(source.text) - Len(body)
WholeLines == Ended(source.text, Got)
AllLines == Lines(source.text, Got)

EndOfSource ==
    /\ AtRead /\ body = <<>>
    /\ pc' = "source" /\ emit' = LastLine
    /\ wanted' = wanted \cup source.names
    /\ received' = received \cup NamesIn(AllLines)
    /\ UNCHANGED <<left, body, chunk, line, over, builder, result, source, intact>>

\* The connection ends early, and looks like the end of the body.
ClosedEarly ==
    /\ "net" \in Faults /\ AtRead /\ body # <<>>
    /\ pc' = "source" /\ emit' = LastLine /\ intact' = FALSE
    /\ received' = received \cup NamesIn(AllLines)
    /\ UNCHANGED <<left, body, chunk, line, over, builder, result, source, wanted>>

\* A read fails: what came of the last line is forgotten, the rest stays.
ReadFails ==
    /\ "net" \in Faults /\ AtRead
    /\ pc' = "source" /\ intact' = FALSE
    /\ received' = received \cup NamesIn(WholeLines)
    /\ UNCHANGED <<left, input, builder, result, source, wanted>>

-----------------------------------------------------------------------------
(* blocklist_builder_finish *)

\* qsort, then the pass that skips what equals its predecessor.
Sorted(list) ==
    LET upTo(i) == {j \in 1..Len(list) : list[j] < list[i] \/ (list[j] = list[i] /\ j <= i)}
    IN  [k \in 1..Len(list) |->
            list[CHOOSE i \in 1..Len(list) : Cardinality(upTo(i)) = k]]
Deduped(list) ==
    LET h == Sorted(list)
    IN  AtPositions(h, {i \in 1..Len(h) : i = 1 \/ h[i] # h[i-1]})

Mut_MeetsFloor(list) == Len(list) >= MinDomains
\* The floor, before and after duplicates are dropped.
MeetsFloor(list) == Len(list) >= MinDomains /\ Len(Deduped(list)) >= MinDomains

Ascending(list) == \A i \in 2..Len(list) : list[i-1] < list[i]

\* blob_contains: lo and hi after each round of its loop, of which there are at
\* most as many as there are entries.
SearchRange(list, h) ==
    LET range[k \in 0..Len(list)] ==
            IF k = 0 THEN [lo |-> 0, hi |-> Len(list)]
            ELSE LET r == range[k-1]
                     mid == r.lo + (r.hi - r.lo) \div 2
                 IN  IF r.lo = r.hi THEN r
                     ELSE IF list[mid + 1] < h THEN [r EXCEPT !.lo = mid + 1]
                     ELSE [r EXCEPT !.hi = mid]
    IN  range
BlobContains(list, h) ==
    LET at == SearchRange(list, h)[Len(list)].lo
    IN  at < Len(list) /\ list[at + 1] = h

\* blocklist_verify_blob of a digest just computed, every hash looked up, and
\* the canaries, none of which may be found.
SelfTestPasses(list, added) ==
    /\ Ascending(list)
    /\ \A i \in 1..Len(added) : BlobContains(list, added[i])
    /\ \A nm \in Canaries : ~BlobContains(list, DomainHash(nm))

Ends(s, list) == pc' = "idle" /\ status' = s /\ blob' = list

Finish ==
    /\ pc = "source" /\ left = 0 /\ emit = <<>>
    /\ \/ ~MeetsFloor(hashes) /\ Ends("below", <<>>) /\ intact' = intact
       \/ "heap" \in Faults /\ Len(hashes) >= MinDomains /\ Ends("alloc", <<>>) /\ intact' = FALSE
       \/ /\ MeetsFloor(hashes) /\ intact' = intact
          /\ IF SelfTestPasses(Deduped(hashes), hashes)
             THEN Ends("ok", Deduped(hashes))
             ELSE Ends("selftest", <<>>)
    /\ UNCHANGED <<left, input, builder, history>>

-----------------------------------------------------------------------------
NoSource == [text |-> <<>>, names |-> {}]

Init ==
    /\ pc = "idle" /\ left = 0
    /\ body = <<>> /\ chunk = <<>> /\ line = <<>> /\ over = FALSE /\ emit = <<>>
    /\ hashes = <<>> /\ capacity = 0
    /\ status = "none" /\ blob = <<>>
    /\ source = NoSource /\ wanted = {} /\ received = {} /\ intact = TRUE

Next ==
    \/ Create \/ OpenSource \/ ReadChunk \/ ScanLine \/ Sink
    \/ EndOfSource \/ ClosedEarly \/ ReadFails \/ Finish

Spec == Init /\ [][Next]_vars

-----------------------------------------------------------------------------
(* Properties *)

TypeOK ==
    /\ pc \in {"idle", "source", "read"}
    /\ left \in 0..SourceCount
    /\ Len(chunk) <= ChunkSize /\ Len(line) <= MaxLine /\ over \in BOOLEAN
    /\ hashes \in Seq(Nat) /\ blob \in Seq(Nat)
    /\ Len(hashes) <= capacity
    /\ status \in {"none", "ok", "alloc", "below", "selftest"}

\* What a cycle yields: an artifact exactly when it succeeds, strictly
\* ascending, not below the floor once duplicates are gone, and holding neither
\* more nor less than what was added, whatever the sources did.
ArtifactCanonical ==
    IF status = "ok"
    THEN /\ Ascending(blob)
         /\ ToSet(blob) = ToSet(hashes)
         /\ Len(blob) >= MinDomains
    ELSE blob = <<>>

\* The first AllowMax entries that mean a name, however they are spelled.
Protected ==
    {AllowList[i].name : i \in FirstOf({j \in DOMAIN AllowList : AllowList[j].name # <<>>})}

\* normalize_domain reads every entry of the allowlist as it is meant.
AllowMeans == \A i \in DOMAIN AllowList : NormalizeDomain(AllowList[i].text) = AllowList[i].name

\* No artifact holds a name that the allowlist protects, whichever source lists
\* it and even if it is what a cut line leaves of another name.
AllowlistKept == \A nm \in Protected : DomainHash(nm) \notin ToSet(blob)

\* Nothing is in the list but the names of lines that came: where the chunks
\* end, an overlong line and a source that breaks off do not make a name of the
\* parts of two lines or of two sources.
NothingInvented ==
    pc # "read" /\ emit = <<>> => ToSet(hashes) \subseteq {DomainHash(nm) : nm \in received}

\* parse_line reads in the lines of a source the names that it means.
SourcesMean == \A s \in Sources : s.names = NamesIn(Lines(s.text, Len(s.text)))

\* No name that a source may list has the hash of another one that is protected.
HashesDistinct ==
    \A nm \in UNION {s.names : s \in Sources}, p \in Protected :
        DomainHash(nm) = DomainHash(p) => nm = p

\* When nothing fails, the cycle fails for one of two reasons only, too few
\* names or a canary among them; else every name that some source means is in
\* the artifact, except the allowlisted ones, and no other.
NothingLost ==
    pc = "idle" /\ intact /\ status # "none" =>
        LET hopes == {DomainHash(nm) : nm \in wanted \ Protected}
            tested == \A nm \in Canaries : DomainHash(nm) \notin hopes
        IN  /\ status = "ok" => tested /\ ToSet(blob) = hopes
            /\ status = "below" => Cardinality(hopes) < MinDomains
            /\ status = "selftest" => ~tested
            /\ status # "alloc"

\* is_blocked with that artifact as its list.
Blocks(nm) == nm # <<>> /\ \E s \in LookedUp(nm) : DomainHash(s) \in ToSet(blob)

\* The name that a question means is that of its labels, and what is read of it is
\* all that comes before a NUL, of most names all there is; and nothing looked up
\* for it has the hash of another name that a source may list.
QuestionsMean ==
    \A q \in Questions : NameBuffer(q.labels) = q.name /\ QuestionName(q.labels) = q.read
LookupsDistinct ==
    \A q \in Questions : \A s \in LookedUp(QuestionName(q.labels)), nm \in UNION {f.names : f \in Sources} :
        DomainHash(s) = DomainHash(nm) => s = nm

\* The two devices mean the same by a name: with the artifact of a cycle in
\* which nothing failed, the sinkhole blocks a question exactly if it is, in
\* whatever letter case, for a name that some source lists and the allowlist
\* does not hold, or for a subdomain of one; and it reads every name that the
\* generator may list.  That is so of names without a NUL.  Of a name with one
\* only what comes before the NUL counts: below a listed name it is not blocked
\* unless that part is listed, or below a listed name, itself.
ListedNamesBlocked ==
    pc = "idle" /\ intact /\ status = "ok" =>
        \A q \in Questions :
            /\ Fits(q.labels) <=> Len(q.name) <= MaxName
            /\ Fits(q.labels) =>
                  (Blocks(QuestionName(q.labels)) <=>
                      \E nm \in wanted \ Protected :
                          nm = q.read \/ IsSuffix(<<".">> \o nm, q.read))

\* README: the allowlist holds "domains that are never blocked".
AllowlistNeverBlocked == \A nm \in Protected : ~Blocks(nm)
===============================================================================
