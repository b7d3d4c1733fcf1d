# A TLA+ model of esp-hole

esp-hole is two ESP32 programs. The **sinkhole** (`src/main`) answers DNS queries
on the local network: a blocked name gets NXDOMAIN, any other is answered from a
cache or forwarded upstream. Its blocklist is a sorted array of 64-bit hashes,
kept in two flash slots and served from PSRAM. The **generator**
(`src/generator-node`) downloads public lists, makes one such array of them,
keeps it in flash and serves it, with a manifest, over HTTP. Sinkholes poll the
manifest; they report query statistics to the generator by UDP.

This directory models the two programs in TLA+, checks the models with TLC on
small instances and proves 37 theorems about them, for all values of the
constants, with TLAPS. `PROJECT.json` maps each definition to the lines it
models and lists the runs, mutants, hazards, findings and theorems.

## 1. Inventory

| component (source) | state | operations | hard behaviour | what makes it correct |
|---|---|---|---|---|
| blocklist store (`main/blocklist.c`) | two partitions; NVS: count, digest, version of each slot and the active slot; the PSRAM copy | `blocklist_init` with its fallback, `load_slot`, `blocklist_commit_slot` | power cuts between NVS and flash operations, failing NVS calls (some ignored), short PSRAM, corruption | what is served was validated; a power cut leaves a list that boots |
| list swap and lookup (`blocklist.c`, `is_blocked` in `dns_sinkhole.c`) | `s_hashes`, `s_count`, `s_lock` | swap and free; one locked binary search per suffix of a name | two tasks on two cores; a lock timeout that fails open | no freed memory is read; verdicts match a list that was served |
| updater (`main/updater.c`) | the accepted manifest, the stream | poll, erase, stream, commit | two requests with a publication between; torn downloads; crashes at any point; retries | only whole published lists are served; polling converges |
| DNS serve loop (`main/dns_sinkhole.c`) | cache, LRU clock, two sockets, the watchdog | receive, refuse, answer from cache, forward | late, lost, duplicated answers; timeouts; one task for everything | right, fresh answers; the loop always returns, and in time for the watchdog |
| question (`parse_question` and the walk of `is_blocked` in `dns_sinkhole.c`) | none | the name of a query; the names looked up for it | boundaries of lengths and dots; labels that hold dots or a NUL; must agree with what the generator hashed | a listed name is found, itself and below |
| query statistics (`main/stats.c`, `generator-node/main/stats_ui.c`) | lock-free 32-bit counters, the last snapshot; a table of sums per node | count, snapshot, report, ingest, find or create a row | races with the snapshot, wrap, loss, reordering, reboots, a full table | each row equals what its node counted in the intervals that were reported |
| artifact store (`generator-node/main/artifact_store.c`) | two partitions, NVS metadata and record | load, save with readback | as in the blocklist store, without a fallback slot | what was saved once is restored after any crash |
| HTTP serving (`http_serve.c`) | the published structure, a lock | publish, send, `/refresh` | a send during a publish | no freed structure is sent |
| generator main loop (`generator_main.c`) | task notification, watchdog | boot restore, cycle, wait | notifications that come during a cycle; the watchdog | `/refresh` is followed by a cycle; work is fed |
| fetch and generate (`fetch.c`, `allowlist.c`, `components/blocklist_pipeline/generate.c`) | the builder's array | stream sources, filter, sort, dedupe, test | sources that fail part-way, allocation failures | a canonical list without gaps |
| line parser and normalizer (`blocklist_pipeline/parse.c`, `normalize.c`) | none | one line to the domains it lists; one token to a domain | dialects of public lists, limits of lengths and counts, lines that were cut | a domain comes from one line that lists it |
| sinkhole bring-up (`app_main` in `main/dns_sinkhole.c`) | - | NVS erased if unusable, watchdog set up, drivers | a boot without NVS | partly modelled: what the store and the watchdog see of it |
| hashing, generator network bring-up, platform glue, configuration, host tests, scripts | none that outlives a call, or driver state | | | not modelled, see section 8 |

How they interact: the updater task calls the store, which the DNS task reads
through `blocklist_contains` under `s_lock`; both count into the statistics,
which a third task sends. On the generator, `refresh_task` calls fetch, generate,
save and publish in turn, while the HTTP server's task sends what is published
and notifies `refresh_task`. Between the devices there are three kinds of
messages: manifest and blob requests, and statistics datagrams.

## 2. Modules

| module | models | built on | variables and the code's |
|---|---|---|---|
| `BlocklistStore` | blocklist store | - | `nvs`/`nvsFlash`: NVS as read and as durable; `served`, `active`, `version`: `s_hashes`+`s_count`, `s_active`, `s_version`; `pc`: the next NVS or flash operation |
| `DurableList` | the abstract promise of the store | - | `served`, and `durable`: the lists the next boot may find |
| `Updater` | updater | EXTENDS `BlocklistStore`; refines `BlocklistStore` and `DurableList` | `m`: the manifest in `check_once`; `done`: bytes erased or written, in hashes; `body`: the stream |
| `ListSwap` | a load, failed or not, against lookups | - | `heap`, `hashes`, `count`, `lock`, and the locals of `load_slot` and `is_blocked` |
| `DnsServe` | cache and forwarding | - | `cache`, `clock`: `s_cache`, `s_cache_clock`; `pending`, `inbox`: upstream and the socket's queue |
| `ServeLoop` | the time of one turn of `dns_task` | - | `spent`: time since the watchdog was fed; `labels`: `is_blocked`'s count of the dots still to go |
| `GeneratorNode` | artifact store, HTTP serving, main loop | refines `DurableArtifact` | `part`, `nvs`, `nvsFlash`; `objs`, `current`, `old`: the `published_t` structures; `notified`: the task's notification value |
| `DurableArtifact` | the abstract promise of the generator | - | `published`, `fresh`, and `durable`: the artifacts the next boot may find |
| `RefreshLoop` | the time `refresh_task` takes between feeds | - | `unfed`: time since a feed; `left`: sources to fetch |
| `StatsTable` | the generator's side of the statistics | - | `rows`: the used entries of `s_nodes` |
| `Stats` | query statistics, both ends | EXTENDS `StatsTable` | `counter`, `cur`, `last`; `wire`: datagrams under way |
| `Ascii` | letter case, trimming, splitting | - | operators; a piece or a word is found by the positions of the separators, in their order (`Nth`), where the code has two indices |
| `LineParser` | line parser and normalizer | EXTENDS `Ascii` | operators: `ParseLine`, `NormalizeDomain` |
| `Question` | the name of a query and its lookups | EXTENDS `Ascii` | operators: `NameBuffer`: what `parse_question` leaves in `s_name`; `CString`: what a reader of it sees; `LookedUp` |
| `Pipeline` | one fetch and generate cycle | EXTENDS `LineParser`, `Question` | `hashes`, `capacity`: the builder; `line`: the line being assembled; `blob`: the artifact; `Sorted`, `Deduped`, `SearchRange`: sort, dedupe and each round of the binary search |
| `MCWatchdog` | both watchdogs in one run | EXTENDS `ServeLoop`, `RefreshLoop` | the two tasks share nothing; one runs while the other has not started |

One action is one operation that can fail, be interrupted by a power cut, or be
interleaved with another task: each `nvs_set`, each `nvs_commit`, each lock
operation, each read from a socket. What no other task or crash can observe in
between is one action. `MC*` modules give the constants values that a `.cfg`
cannot express. `*_proofs` modules hold the theorems. A definition `Mut_X` is a
wrong form of `X`, the way a slip in the code would be; with it in the place of
`X`, one of the properties fails (the list is in `PROJECT.json`). They play no
other part.

Abstractions that all modules share: a list is a short sequence of small numbers;
SHA-256 and FNV-1a are injective operators (the theorems hold for any operator);
sizes are counted in hashes; logging and formatting are left out. Names are
sequences of characters where the text matters (`LineParser`, `Question`,
`Pipeline`), of labels in `ListSwap`, and keys in `DnsServe`. Variables commented
"history" are not in the code; properties use them.

## 3. Runs

Each run finishes in about three minutes or less with two workers.

| run | states | asks |
|---|---|---|
| `Store` | 1 174 000 | Can any failure make the sinkhole serve a list that was not validated (`ServedSound`)? Can a power cut leave it without a list (`PowerCutSafe`)? Is the record only moved to a slot that validates (`RecordNamesLoadable`)? |
| `Updater` | 49 000 | Is anything but a whole published list served (`ServedIsARelease`)? Is flash programmed where it is not erased (`ProgramsErasedOnly`)? Does the updater keep to what the store lets its caller do (`UsesStoreProperly`)? Do both together keep the abstract promise (`ImplementsDurableList`)? Does the published list arrive (`Convergence`)? |
| `Swap` | 165 000 | Is freed memory read (`ReadsLiveMemory`), is a buffer leaked by a swap or by a load that fails (`BuffersBounded`), can a verdict match no list (`VerdictJustified`), does each query end (`LookupEnds`)? |
| `Dns` | 651 000 | Are answers right (`AnswerMatchesQuestion`), fresh (`CachedAnswersFresh`), cached once (`OneEntryPerKey`), evicted in order (`EvictsLeastRecentlyUsed`); does the loop return (`ForwardEnds`)? |
| `Watchdog` | 65 000 | Does the longest turn of the sinkhole's loop for a host's name fit its watchdog's window (`HostNamesNeverStall`: 9.52 s of 10 s with the code's numbers; other names do not, see section 4)? Does the generator's watchdog bite while its task works (`WorkIsFed`)? |
| `Node` | 567 000 | After one good save, does every reboot restore an artifact (`RestoreSafe`), truthfully labelled (`PublishedLabelTruthful`)? Is a freed one sent (`SendsLiveArtifact`)? Does what is durable and published develop as promised (`ImplementsDurableArtifact`)? Is `/refresh` followed by a cycle (`RefreshFollowed`)? |
| `Stats` | 3 045 000 | Does each row hold what its own node counted (`SumsExact`); is an undisturbed report consistent (`QuietReportConsistent`)? |
| `Pipe` | 107 000 | Is the artifact canonical (`ArtifactCanonical`), free of allowlisted names (`AllowlistKept`), of names nobody listed (`NothingInvented`), complete (`NothingLost`), and does the sinkhole block what is in it and below it (`ListedNamesBlocked`)? |
| `Node_nvs` | violated | `RestoreSafe` with failing NVS calls, see section 4 |
| `Refresh_interval` | violated | `WaitsOutInterval`, see section 4 |
| `Updater_label` | violated | `SkipsOnlyWhatIsServed`, see section 4 |
| `Pipe_allow` | violated | `AllowlistNeverBlocked`, see section 4 |

### Bounds, and why they are enough

* **Store.** Two slots, as in the code. Two images and three requests: a list that
  boots; a request of another length whose announced list is unsorted; an image
  that is ascending but not the announced list; a count whose size in bytes wraps
  to that of the good list (`SizeMod = 6` hashes stands for 2^32 bytes, and is
  above the partition's size as it is in the code). So each check of `load_slot`
  decides some state, and metadata of two commits can mix in one slot. A power
  cut keeps any subset of the NVS entries set since the last `nvs_commit`, which
  is what the API promises (the fault `"reorder"`); the implementation orders
  them, so this covers more than can happen. The only version label is the empty one, which reads
  like one that is not there: labels do not decide what boots.
* **Updater.** Nine releases: a good one, one for each rule of the manifest that
  can be broken (too short, too big, wrong format, size and count that differ),
  one whose count wraps to the blob's size and so passes those rules, an unsorted
  list, an announcement whose blob is still the old one, and a good one.
  Partitions of two sectors, chunks of two hashes, a sector of two, so that
  a list of three needs rounding up and a chunk may overrun the manifest's size.
  A power cut keeps any of the undurable NVS entries here, too. `Updater_label` is
  without that fault and without network failures: there entries become durable in
  the order they are set in, and loads may fail.
  No two servable lists of the instance are prefixes of each other, and none is
  published twice: see `Convergence` in section 5.
* **Swap.** Names of four, three and one labels; lists that block by the name
  itself, by a parent, and by a top-level domain that must not count; three
  buffers, one more than the property allows. `Malloc` comes before `Validate` and
  `Reject`, as in the code, and the buffer's contents until then (`Unread`)
  pass no check.
* **Dns.** Three keys compete for two entries, at most four touches of the cache:
  the least that tells "least recently used" from "first in". `MaxTries` is 2
  instead of 4, so that two stale datagrams exhaust it.
* **Node.** Two artifacts, three structures, one more than may exist at a time.
* **Stats.** Counters modulo 3 that wrap; between two snapshots a counter grows by
  less than the modulus and no more than `LongMax`, as the code assumes; two
  datagrams under way; three addresses, of which one begins with another, for a
  table of two rows, so that it fills up.
* **Watchdog.** The code's own numbers, and all names that `s_name` takes, those
  with more labels than a host's included. Durations of a generation (14 s), a save
  and a readback (40 s each) are bounds that no line of the code states; the theorem
  says what they must satisfy. The two tasks run on two devices and share nothing, so the run lets one
  run while the other has not started.
* **Pipe.** Two sources out of six bodies, read in chunks of any length up to
  four characters; lines of up to sixteen, labels of up to three, names of up to
  seven, two tokens to a line, so that each limit is met and exceeded. The lines
  are plain, hosts, ad blocker and commented ones, with duplicates inside and
  between sources, an allowlisted name, a name that becomes an allowlisted one
  when the line breaks off early, a canary, and an allowlist with an entry that
  is no name and one beyond the limit; arrays that must grow twice. Questions are
  listed names, names below them and others, in both letter cases, with dots inside
  and at the end of a label, and with a NUL: such that only the whole name is below
  a listed one, such that only the part before the NUL is listed, and such that
  nothing is before it.

### Fairness

`Updater`: weak fairness of the device's own steps; one task, and FreeRTOS runs
it again. No fairness of the publisher, the network or the crashes:
`Convergence` assumes that they stop failing instead. `Swap`: weak fairness of
the lookup only - the DNS task has the higher priority, and its wait for the lock
is bounded; nothing is assumed of the updater, which may stop with the lock in
its hand. `Dns`: weak fairness of `recv`, which has a timeout; nothing of
upstream. `Node`: weak fairness of `refresh_task` and of the end of a send, which
the server's own send timeout bounds. That publishing gets the lock at last is a
premise of `RefreshFollowed`: a mutex that handlers keep taking may be missed for
ever under weak fairness.

## 4. Where code and documentation disagree

Four disagreements have a run of their own.

* **`Refresh_interval`.** `refresh_task` subscribes to the 45 s watchdog and then
  waits for the interval, six hours by default, without feeding it: the generator
  reboots 45 s after each cycle. The comment says it "waits out the interval".
* **`Node_nvs`.** When the last `nvs_commit` of a save fails, handles read the new
  record but flash holds the old one. The next save believes what it reads, takes
  the other slot, which is the one flash still names, and erases it: a power cut
  then leaves nothing to restore. The header says "on any failure the previously
  persisted artifact (if any) is untouched". The same cannot happen to the
  sinkhole, which falls back to the other slot: `PowerCutSafe` holds with failing
  NVS calls.
* **`Updater_label`.** The count, digest and version of a slot are set one after
  the other, over those of an older commit. A power cut after the digest and
  before the version leaves a slot that validates, because nothing at boot ties
  the version to the content, under the old version. While a list is served the
  other slot is written, and the boot goes back to the served one if that still
  loads; so it takes a boot at which the served slot fails, or two commits to one
  slot with none served in between. In the run it is the latter: the first list is
  downloaded and its metadata made durable, but `load_slot` finds no PSRAM for it;
  `s_active` stays -1, so that the next list goes to the same slot; power is cut in
  the middle of its metadata, of which the count and the digest are durable and
  the version is not; the next boot has memory, falls back to this slot, and serves
  the second list as the first one. Should the first be published again, it is
  passed over as "already serving this version". Nothing in this trace needs NVS
  to reorder entries.
* **`Pipe_allow`.** The allowlist drops a name only if the very name is listed.
  The sinkhole also blocks a name because of a listed parent. So an allowlisted
  `ads.example.com` stays blocked when a source lists `example.com`, although the
  README promises "domains that are never blocked".

Others were met while modelling and have no run. Some can be reproduced by
changing a constant of an existing one:

* `Dns.cfg` with `Queries <- SharedId`: two queries with the same 16-bit
  transaction ID; the late answer to the first is relayed and cached as the
  answer to the second (`AnswerMatchesQuestion`). `IdsDistinguish`, which the
  theorem assumes, excludes just that.
* `Dns.cfg` with `ClockMod = 4` and `MaxClock = 6`: once the 32-bit LRU clock
  wraps, the entry used last is evicted first (`EvictsLeastRecentlyUsed`).
* `Stats.cfg` with `LongMax = 1`: `strtol` stops at 2^31-1, but a delta of the
  latency sum may be larger (`SumsExact`).
* `ingest_line` looks for the separators of the address with `strchr`, which does
  not stop at the end of a line, although the listener takes a datagram for
  several lines. `main/stats.c` never sends more than one, so nothing comes of it.
* `parse_line` cuts a line at its first `#` before it looks for an ad blocker's
  syntax: the cosmetic filter `example.com##.ad`, which hides an element of a
  page, is taken for the domain `example.com`.
* `blocklist_commit_slot` returns an error when its last `nvs_commit` fails, with
  the new list already being served; `blocklist.h` says that on any failure the
  previous one keeps serving.
* `is_blocked` takes the lock once per suffix. A swap between two of its lookups
  lets a name through that the old list and the new one both block, by different
  suffixes. `VerdictJustified` is worded accordingly.
* `Watchdog.cfg` with the invariant `spent >= Wdt => pc = "setup"`, that is for all
  names: `parse_question` copies the bytes of a label as they come, and `is_blocked`
  counts every dot in the result. A name whose labels are full of dots has up to
  254 labels and is looked up 253 times. If each lookup waits its 20 ms for the
  lock, and receiving and upstream take as long as they may, the turn is 1 + 5.06 +
  6 = 12.06 s: more than the 10 s under which the comment at `dns_sinkhole.c:313`
  sees the worst case, which does not count lookups. It takes a lock that is held
  for seconds, where `blocklist.c:169` says that it is held for microseconds.
* A label may hold a NUL as well. `s_name` then is a shorter C string than the name
  is: `is_blocked` looks up, and the cache's key is made of, only what comes before
  the NUL. `ListedNamesBlocked` says so: a question for such a name below a listed
  one is forwarded unless the part before the NUL is itself listed or below a
  listed name.
* `dns_task` subscribes to the watchdog before it sets its sockets up, and the
  retry loop does not feed it: "retrying forever" ends after ten failures in a
  row. `HostNamesNeverStall` is about the loop after the set-up.
* A download that holds `s_lock` for longer than the window delays a publish, as
  the comment says, and then resets the node. `WorkIsFed` leaves the publish out.
* A `/refresh` that comes while a cycle runs has its notification cleared at the
  end: it is followed by a cycle, but only after the interval (`RefreshFollowed`
  says no more than that).
* A source that lists one of the negative canaries makes every cycle fail its
  self-test, which the header says "should never happen". `NothingLost` states
  when it does.

## 5. Properties that need a word

* **`ServedSound`** holds with every fault on, corruption in the middle of a
  commit included, because `load_slot` validates the copy it will serve.
* **`PowerCutSafe`** compares a state with all its possible successors by power
  cut: for each subset of unsynchronised NVS entries, the slot `blocklist_init`
  would come up with. Its premise `intact` (no corruption, no erased NVS so far) is
  a history variable; without it the claim is false, as it should be: a device
  whose flash is lost boots without a list.
* **`ServedIsARelease`** includes a manifest whose count only satisfies
  `size == count * 8` because the product wraps at 32 bits. It passes the
  updater's checks. `load_slot` multiplies in the same way first
  (`blocklist.c:77-78`), so that its floor, which is about the count, and its
  ceiling, which is about the wrapped size, both let it pass, and it allocates and
  hashes the wrapped size only. What stops it is that the order check
  (`blocklist.c:110`) runs over the whole count, and so behind the buffer:
  `OrderedFor`. The theorems about the store need no
  more of `SizeMod` than that a partition's size is below it.
* **`ImplementsDurableList`** maps `durable` to the set of lists the next boot may
  find. The list is served before it is durable, and during the change of the
  record a crash decides; both are in the abstract specification. It holds while
  NVS calls and loads do not fail: with such faults TLC finds steps the abstract
  specification does not allow, and the storage promises less (`PowerCutSafe`
  only). **`ImplementsDurableArtifact`** is the generator's counterpart. It has no
  fallback slot, so its promise is about failing NVS calls too; `Node_nvs` shows
  that they break it.
* **`Convergence`** is about releases that are published once and none of which
  is a prefix of another. One that is published again meets `Updater_label`. If a
  new list only appends to the old one, NVS may, by its interface, keep the new
  label of a slot and lose the new count and digest; the old list then boots from
  the new image under the new label, and the updater does not fetch what it
  believes it has. NVS as implemented writes the three entries in order, which
  rules the second out; the run does not rely on it.
* **`RefreshFollowed`** speaks of `owed`, a history variable that a request sets
  and the start of a fetch clears.
* **`SumsExact`** compares the table with `heard`, which adds up what the arriving
  reports stand for - the growth of each counter between the two reads the report
  is made of - by node and without a table. So a delta that is wrong because of a
  wrap, a snapshot that is not carried over when sending fails, and a row that
  takes in a stranger's report all show.
* **`NothingInvented`**: an overlong line is dropped to its end, and a body that
  breaks off leaves no half of a line behind, or the rest of one line and the
  beginning of another would be taken for a name. It compares the hashes with the
  names of the lines in the bytes received.
* **`ListedNamesBlocked`** takes the artifact of a cycle as the sinkhole's list and
  states, for questions in any letter case, what is blocked in terms of names: the
  listed ones and what is below them. Of a name it takes what is read (`q.read`),
  which is all of it unless a label holds a NUL: see section 4. It relates `normalize.c`, which decides how
  a name is hashed on one device, to `parse_question` and `is_blocked` on the
  other, and the limits of both (253 characters against `DNS_MAX_NAME`).

## 6. Theorems

Proofs are in the `*_proofs` modules, and hold for every value of the constants
that satisfies the modules' ASSUMEs. TLC evaluates those for the instances.
Where a theorem has a condition of its own, it is named in the table.

| theorem | says | argument |
|---|---|---|
| `BlocklistStore_proofs!TypeCorrect` | `Spec => []TypeOK` | inductive as it stands: a running commit keeps a slot and a request of its own |
| `...!ServedSoundCorrect` | `Spec => []ServedSound` | only `SwapIn` changes `served`, only after `Loadable` of that very slot |
| `...!PowerCutCorrect` | `Spec => []PowerCutSafe` | `intact => PowerCutInv` is inductive |
| `...!RecordCorrect` | `Spec => RecordNamesLoadable` | from the same invariant: an undurable record names the served slot |
| `...!ImplementsDurableListCorrect` | `Spec => ImplementsDurableList`, if `OnlyPowerFails` | `RInv` is inductive and says what the next boot may find at each point of a commit; each step then maps to a step of `DurableList` or a stutter |
| `Updater_proofs!UTypeCorrect` | `USpec => []UTypeOK` | `UInv`: which of the two program counters is at rest |
| `...!UsesStoreCorrect` | `USpec => UsesStoreProperly` | each step of the updater is one of `BlocklistStore`'s, its writes are to the inactive slot |
| `...!DeviceCorrect` | `USpec => [](ServedSound /\ PowerCutSafe)` | the store's theorems, through `UsesStoreCorrect` |
| `...!DeviceDurableCorrect` | `USpec => ImplementsDurableList`, if `OnlyPowerFails` | likewise |
| `...!ServedIsAReleaseCorrect` | `USpec => []ServedIsARelease`, if `NoCollisions` and `BlobsAnnounced` | `PublishedInv`: each digest in NVS, as read and as durable, and in a commit under way is one that a manifest of an earlier release announced; what `load_slot` passes has that digest |
| `...!ProgramsErasedCorrect` | `USpec => []ProgramsErasedOnly`, if nothing corrupts flash | `ErasedInv`: what is erased up to `done` covers, in whole sectors, the size announced; what is behind the write position stays erased |
| `ListSwap_proofs!TypeCorrect` | `Spec => []TypeOK` | from the two invariants below |
| `...!ReadsLiveMemoryCorrect` | `Spec => []ReadsLiveMemory` | `SwapInv`: the lock's holder decides who may change `hashes`/`count`; the search interval stays inside the buffer |
| `...!BuffersBoundedCorrect` | `Spec => []BuffersBounded` | each live buffer is the served one or one of the updater's two; a load that fails a check after its allocation frees what it allocated |
| `...!VerdictJustifiedCorrect` | `Spec => []VerdictJustified` | `VerdictInv`: every suffix passed over was missing from a list served at that time; the searched hash is not below `lo` and not above `hi` |
| `DnsServe_proofs!TypeCorrect` | `Spec => []TypeOK` | from `DnsInv` |
| `...!OneEntryPerKeyCorrect` | `Spec => []OneEntryPerKey` | `DnsInv`: while an answer is awaited its key is not in the cache |
| `...!CachedAnswersFreshCorrect` | `Spec => []CachedAnswersFresh` | `DnsInv`: an entry is at least as old as the answer in it, and a hit is not older than the lifetime |
| `...!AnswerMatchesQuestionCorrect` | `Spec => []AnswerMatchesQuestion`, if `IdsDistinguish` | every answer under way is to a query that was forwarded, and its ID names it |
| `...!EvictsLeastRecentlyUsedCorrect` | `Spec => EvictsLeastRecentlyUsed`, if `MaxClock < ClockMod` | `UsesTrue`: the tick of each valid entry is the touch at which it was last used; `Victim` is the least of them |
| `GeneratorNode_proofs!TypeCorrect` | `Spec => []TypeOK` | `Types` |
| `...!SendsLiveArtifactCorrect` | `Spec => []SendsLiveArtifact` | `Pointers`: what is allocated is `current` and, during a publish, the new or the old one; what is being sent is `current` |
| `...!RestoreSafeCorrect` | `Spec => []RestoreSafe`, if NVS calls do not fail | `Persisted`: the slot recorded, for readers and in flash, holds what its durable metadata say; a save works on the other |
| `...!PublishedLabelTruthfulCorrect` | `Spec => []PublishedLabelTruthful`, likewise | from `Persisted` |
| `...!ImplementsDurableArtifactCorrect` | `Spec => ImplementsDurableArtifact`, likewise | `Persisted` and `AtHand` give what a boot may find at each point of a save |
| `Stats_proofs!SumsExactCorrect` | `Spec => []SumsExact`, if `DeltasFit` | `Balanced`: each counter is what was last reported plus what it grew by since, modulo 2^32; so each datagram is `Honest`; `TableInv`: one row per node heard of |
| `...!QuietReportCorrect` | `Spec => []QuietReportConsistent` | `Quiet`: forwarded and histogram differ by the query being counted; without a race the snapshot is the counters between two of them |
| `Pipeline_proofs!TypeOKCorrect` | `Spec => []TypeOK` | from `IInv` |
| `...!ArtifactCanonicalCorrect` | `Spec => []ArtifactCanonical` | `DedupedShape`: the sort is an ordering of the same members (`SortedShape`), and dropping what equals its predecessor leaves each of them once |
| `...!NothingInventedCorrect` | `Spec => []NothingInvented` | `IInv`: `line` is what fits of the line that the scan is in, however the text came in chunks |
| `...!AllowlistKeptCorrect` | `Spec => []AllowlistKept`, if `AllowMeans` | `IInv`: no hash in the builder is one of `AllowHashes`; the artifact holds what the builder does |
| `...!NothingLostCorrect` | `Spec => []NothingLost`, if `SourcesMean`, `AllowMeans` and `HashesDistinct` | `IInv`: while nothing fails each name seen is added or allowlisted; `Complete`: what was received is what the sources mean; `Verdict`: why a cycle failed |
| `...!ListedNamesBlockedCorrect` | `Spec => []ListedNamesBlocked`, if also `QuestionsMean`, `LookupsDistinct` and `NameSize = MaxName + 1` | `q.read` is the C string in `s_name`, which is text (`CStringShape`); `LookedUpMeans`: the walk of `is_blocked` looks up a name with a dot exactly if the question is for it or below it; `NameHasDot`: no other is listed; `JoinedShape`: a name fits after each label if it fits after the last |
| `...!SearchFinds` | `BlobContains(list, h) <=> h \in ToSet(list)` for ascending lists | what is left of `lo` is below `h`, what is right of `hi` is not, and each round leaves less between them |
| `...!LookedUpMeans` | a name with a dot is looked up exactly if it is the question's, or a parent of it | positions of dots, suffix by suffix |
| `Watchdog_proofs!HostNamesNeverStallCorrect` | `Spec => []HostNamesNeverStall` | `Accounted`: in a turn for a host's name, `spent` is at most what the calls made so far may take, and a turn has at most `NameSize \div 2` lookups |
| `...!WorkIsFedCorrect` | `RefreshSpec => []WorkIsFed` | `WindowLeft`: before each step `unfed` is below the window, and before a source or the generation it is at most the timeout of the HTTP call before it |

`PowerCutSafe` is not inductive: it says nothing of an update that has not reached
the swap. `PowerCutInv` adds why the update cannot do harm: the served slot passes
every check against flash and NVS as they are, its metadata is durable, a commit
works on the other slot until it has swapped, metadata is durable before a slot
is loaded, and a record that is not durable yet names the served slot. The
theorem needs no assumption on the digest, on what a caller writes, or on which
calls fail.

The refinement theorems rest on lemmas that compute the refinement mapping: which
lists (artifacts) are candidates for the next boot, by program counter. The power
cut keeps any subset of the undurable entries, so the mapped value is a set
comprehension over subsets; the lemmas show that it has one member or, while the
record changes, two.

`OnlyPowerFails` excludes failing NVS calls and loads, corruption and erased NVS;
failing network requests it does not exclude. The conditions on `Faults` are
needed: without them TLC finds violations (section 4 for the generator, section 5
for the sinkhole).

`DeltasFit` says that no counter grows by more than `LONG_MAX` between two
snapshots; section 4 has what happens if one does. That it grows by less than the
modulus is an assumption of the code (`StatsAssumption`).

`IInv` of `Pipeline` is about a source that is open: `body`, `chunk` and `line` are
consecutive parts of its text, `line` only as far as it fits and `over` exactly if
it does not. So where chunks end is of no consequence: when a newline is reached,
what is parsed is a line of the text, or nothing of it. The hashes in the builder
and those still to be handed to `add_sink` are those of the names in the lines
passed so far, less the allowlisted ones. TLC checked `IInv` on the instance of
`Pipe` before it was proved.

The conditions of the last theorems say what the constants stand for, and no more:
`SourcesMean` that the names of a source are those `ParseLine` finds in its lines,
`AllowMeans` and `QuestionsMean` the same of an allowlist entry and of a question,
`HashesDistinct` and `LookupsDistinct` that FNV-1a does not take a listed name for
a protected one or for a parent of what is asked. 64-bit hashes can collide; the
theorems say that nothing else can go wrong. `NoCollisions` and `BlobsAnnounced`
are the corresponding conditions on SHA-256 and on the publisher: where an acceptable
manifest describes the beginning of some blob, a release has just that list. `MCPipeline` and
`MCUpdater` assume the conditions by name, so that TLC evaluates them for the
instances, and `NameSize = MaxName + 1` is how the code has it (254 and 253).
`MaxClock < ClockMod` says that the LRU clock has not wrapped; section 4 has what
happens when it does.

What the operators of `Pipeline` compute is proved for every input, without an
induction theorem: a set of numbers that holds 0, and with each number the next,
holds them all up to a bound (`UpTo`, from the least number that is missing), and
a recursive function over `0..n` exists because the set of those `m` up to which it
does is such a set (`RecursionExists`). What is sorted or picked out of a list is
found by its rank (`Ranking`): the positions of a finite set are numbered by how
many of them come before.

The timing theorems rest on two assumptions about sums. `BudgetAssumption`: one
receive, a lookup for every second character of a name and all waits for upstream
stay below the sinkhole's window. Every second character, because a host's name has
no empty label; the theorem is about turns for such names only, and with a lookup
for every character the code's numbers do not add up. `WorkAssumption`: the timeout
of an HTTP call plus the time of a generation, because nothing is fed between the
last read and the end of `blocklist_builder_finish`; and the first delay, a save
and a readback, each alone. It is not enough that each of these durations is
below the window, and how long a generation, a save and a readback take is nowhere
in the code. `Watchdog.cfg` gives the code's numbers, and 14, 40 and 40 s for these
three, for which TLC evaluates the assumptions.

## 7. Checked by TLC only

* Liveness (`Convergence`, `LookupEnds`, `ForwardEnds`, `RefreshFollowed`) and
  fairness: beyond TLAPS here.
* That `ParseLine` and `NormalizeDomain` read a public list's dialects as a person
  would: the meanings of the lines of `MCPipeline` are written down by hand, and TLC
  evaluates `SourcesMean` and `AllowMeans` for them. In the theorems both are
  conditions.
* The four violations of section 4.

Every safety invariant, action property and refinement that a run checks is also a
theorem, under the conditions that section 6 names.

## 8. Not modelled

* **Hashing**: an operator; collisions of FNV-1a are not modelled (the instances
  use distinct hashes).
* **DNS packet layout**: `Question` takes the labels of a query as they come over
  the wire, with any byte in them; which other packets `parse_question` refuses is a choice of `DnsServe`.
* **JSON and HTML** of the statistics page and of the manifest: they read state and
  format it. Uptime and last-seen of a node are gauges that nothing decides by.
* **HTTP, TLS, JSON libraries, lwIP, FreeRTOS, NVS**: external, modelled by how
  the code uses them. NVS: set is visible to reads at once, durable after commit,
  in between any subset may survive, or, without the fault `"reorder"`, one that
  keeps the order of the sets.
* **Ethernet bring-up, configuration, platform glue, scripts, host tests**: driver
  calls, values and tools.

Three hazards are listed in `PROJECT.json` without a property, because the code
lets them happen and no property forbids it: the error returned with the new list
served, the socket retry loop and the publish that waits for a download (all in
section 4).

## 9. Plan

Done: the modules of section 2, the runs of section 3 and the theorems of
section 6. Left:

1. `Network`: the artifact that `GeneratorNode` publishes as the releases of
   `Updater`, so that the end-to-end claim - a sinkhole comes to serve what the
   generator generated - is one property. The two halves are `Convergence` and
   `ImplementsDurableArtifact`, joined so far by `ListedNamesBlocked` only.
2. The implementation of `DurableList` under failing NVS calls, by a weaker abstract
   list that says which lists survive such a failure.
3. Bounds on the time to convergence: how many polls, as a safety property.
