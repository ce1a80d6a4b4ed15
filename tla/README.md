# wenchang, specified in TLA+

wenchang stores an agent's memory as small Markdown files in an object store.
Many agents, surfaces and processes edit the same files at once over a storage
service that can time out, resend and drop answers. This directory holds TLA+
models of that code, the TLC runs that check them on small instances, and
TLAPS proofs of the properties that matter most. Paths below are relative to
the repository; `core.py` stands for `src/wenchang/core.py`, and so on.

## 1. The system

| Component | State | Operations | Interacts with |
|---|---|---|---|
| `MemoryStore` file calls (core.py 632-942) | none between calls; within a call the object last read, the edit to store, the attempt | read_file, write_file, replace_fact, append_line, delete_file | Storage (get, put_if_version, delete_if_version), the index cache after every mutation |
| Index cache (core.py 509-630, index_cache.py) | per entity a random generation token and a listing tagged with one, in an adopter's cache | get_memory_index's fill and hit, the invalidation of every mutation, invalidate_index | Storage.list_page, the adopter's get and set |
| Storage protocol, InMemoryStorage | objects with bytes, metadata and a version token that is never reused | get, put, put_if_version, delete_if_version, list_page | called by all of core |
| GcsStorage | a bucket; generations are the tokens | the same, over HTTP with retries and timeouts | google-cloud-storage |
| FilesystemStorage | body and sidecar files under one lock file | the same | the operating system |
| File cap (core.py 694-708, 733-750) | none; counts the entity's files on a create | part of write_file | list_page, get |
| Listing, export (core.py 944-969, 1132-1163) | none; an opaque cursor holds the last key | list_prefix, _drain, export | list_page, get |
| Purge (core.py 1053-1130) | deletes counted, pass, position | purge | list_page, delete_if_version, invalidate_index |
| Memory index assembly (core.py 1015-1051) | none | order, byte budget, capped prefixes | paths, file format |
| Tool layer (tools.py, transport.py), identity and scope policy (identity.py, scope.py), observer (observer.py) | a session's identity, policy and source, fixed when it is bound | the seven tools | a TransportClient, an IdentityResolver, an observer callback |
| MCP adapter (mcp.py, schemas.py) | registered tools | validates, resolves the caller, calls a tool, renders the result | MCP host |
| Paths, file format, prompts | none | pure text functions | everything above |
| Eval server (evals/server.py) | the current trial: client, identity, directory, records, turns and their ends | reset, record_turn, dump, the observer record_call | the MCP adapter, agents' worker threads, the trial directories |
| Grading and reports (evals/report.py, evals/graders.py) | grade.json and the report, in the run's directory | turn-prompt, grade, report | the dumps of the eval server |

What makes each of them correct:

* **File calls.** No update is lost and none is invented, although every call
  reads first and writes later; an answer is true of some moment of the call; a
  guarded call that is retried lands once; provenance only grows; every call
  ends.
* **Index cache.** An index never misses a change whose invalidation had
  completed before the call, whatever readers, writers and the cache's own
  failures do; and the cache does become useful again when writes stop.
* **Storage backends.** A conditional put is atomic, tokens are never reused,
  bytes and metadata of one read come from one write, a page is in key order
  and ends early only at the end of the prefix.
* **Listing, export, purge, cap.** A file present throughout a listing appears
  exactly once; a purge returns only after it saw the prefix empty and deletes
  only what it listed; the cap is exceeded only by creates that are in flight at
  one time, a put whose call has failed counting until it lands.
* **Tools.** No call reaches the store for a scope, path or role that the
  session does not allow; the observer is told at most once of each call, and
  of what the caller is told.
* **Eval server and reports.** A trace gives no call to a turn before its own, nor
  one that was answered by the end of a turn to a later turn, and it says in what
  order calls began and ended (a call that is not answered when its turn is
  recorded may be given a later turn or none, see section 3); a dump's store shows
  what its trace did; a report is about the files that are on disk.

The hard behaviours are: steps of several callers in any order, versions that
are out of date when they are used, storage calls whose fate is unknown (lost
answers, resent and late requests), cache calls that fail or land late, crashes
between two services, listings that are overtaken page by page, and agents'
calls that are still running when their trial is dumped or replaced.

## 2. Modules

| Module | What it is |
|---|---|
| `Files` | Vocabulary shared by the next two: one file's object, a request, the edit each kind of call computes, the path's history (`log`) and the versions in it. Pure operators. |
| `MemoryStore` | The five file calls of core.py on one path, run by concurrent clients step by step. |
| `AtomicFiles` | The abstract specification: a call is one atomic edit or read between its invocation and its answer. |
| `IndexCache` | The cache protocol for one entity: writers with their invalidation, readers with their fill. |
| `StorageCalls` | Vocabulary shared by the next two: the calls of the Storage protocol and their answers. |
| `FilesystemStorage` | The backend on a local file system, system call by system call, used by threads of several processes. |
| `AtomicStorage` | The abstract specification of a Storage: each call is one atomic step, or is abandoned. |
| `Listings` | Pages of keys as GcsStorage.list_page returns them, the files the cap counts, and the index get_memory_index assembles. Pure operators. |
| `EntityScans` | The calls that go through an entity page by page, over GcsStorage: index, export, purge, and creates under the file cap. |
| `ToolCalls` | What a tool does around its client call: checks, policy, target, rendering. Pure operators. |
| `ToolServer` | Tool calls step by step, through the MCP adapter or directly, with resolver, client and observer. |
| `TrialReports` | Grading and reporting as functions of the files in a trial's directory. Pure operators. |
| `EvalTrials` | The eval server over `ToolServer`, the runner, the trial directories, grades and reports (`TrialReports`). |
| `MCMemoryStore`, `MCIndexCache`, `MCFilesystemStorage`, `MCEntityScans`, `MCEvalTrials` | Finite values for the constants. |
| `MemoryStoreProofs`, `MemoryStoreCallsProofs` | TLAPS proofs about `MemoryStore`: lost updates; what callers are told, and the refinement of `AtomicFiles`. |
| `IndexCacheProofs` | TLAPS proofs about `IndexCache`. |
| `FilesystemStorageProofs`, `FilesystemCallsProofs`, `FilesystemRefinementProofs` | TLAPS proofs about `FilesystemStorage`: versions and whole objects; what callers are told and what is left on disk; the refinement of `AtomicStorage`. |
| `EntityScansProofs` | TLAPS proofs about `EntityScans` and `Listings`. |
| `EvalTrialsProofs` | TLAPS proofs about `EvalTrials` with `ToolServer` and `TrialReports`. |

### MemoryStore and the code

Each storage call is one step; the Python between two storage calls runs with
the step before it. `pc[c]` names the storage call a client makes next:

| `pc` | next storage call | code |
|---|---|---|
| `cap` | the cap's count of a create | core.py 694-701 |
| `capget` | the get at the cap | 702 |
| `get` | the get that opens a call, or an attempt of replace_fact | 644, 710, 803, 879, 929 |
| `put` | put_if_version or delete_if_version | 722, 825, 898, 937 |
| `reget` | the re-read after a refusal | 724, 900, 939 |

`got` holds the local variables a call keeps from its get, `draft` the object
it is about to store, `tries` replace_fact's refused attempts. `Call` covers the
checks made before storage is touched. `ReadFile`, `WriteFile`, `ReplaceFact`,
`AppendLine` and `DeleteFile` are what a call does with the object it got;
`PutCommits`, `PutRefused` and `Reget` are the rest of it. `answer` is what the
caller got back.

The data is abstracted to what the properties tell apart. A body is a sequence
of facts; an anchor occurs as often as the fact does; sizes are counted in
facts; of the metadata only `sources` and the time stamp remain (aliases and the
description travel with the put in the same way). An object may fail to parse
(`badMetadata`) or to decode (`badBody`), but only writers outside the library
store such objects. The clock may return the same stamp twice, or an earlier
one. An expected version is any token handed out so far, because agents
pass tokens on to each other and keep them.

The storage service is external to this repository's code and is modelled by
what gcs.py expects of it: any call may be unavailable; a conditional put may be
stored and its answer lost (`PutLost`), be resent by the client library after it
was stored (`PutResent`), or be stored after the caller was told of a timeout
(`PutTimesOut`, `LatePut`). `OutsideEdit` is `Storage.put`, a purge or an
operator: it replaces or deletes the object without a precondition.

`ImplementsAtomicFiles` states that `MemoryStore` implements `AtomicFiles`
under the mapping `open <- InCall` (the clients whose `pc` is not idle); the
other variables are the same. `AtomicFiles` knows nothing of gets, retries,
re-reads or faults: a step of a call commits an edit of the *current* object or
nothing, and an answer must be justified by the file's history between the
call's begin and its end.

### IndexCache and the code

Writers (`wpc`): `storage` is the conditional storage call, `token` the set of a
new token, `tombstone` the set of the listing key after a delete or in
`invalidate_index`; `finally` in core.py 585-594 is why a refused or failed
storage call is followed by the invalidation too. Readers (`rpc`): `token` get,
`mint` (set a token of their own), `listing` get, `drain` page by page, `store`.
A file's contents are abstracted to the number of changes made to it, so a
listing is a function from keys to numbers. Tokens are numbered in the order
they are generated, which is all that matters of `uuid4`. `settled` is a history
variable, the changes whose token replacement has completed; `promised` is its
value when a reader's call began. The cache may fail (`get`, `set`), may apply a
set after it raised (`late`, `lateMint`), and may drop entries (`Expire`).

### FilesystemStorage and the code

Each step is one system call of filesystem.py, or the taking of a lock.
`stage[c]` names what a client does next:

| `stage` | code |
|---|---|
| `wait`, `flock`, `release` | the `with` statement around every method: threading.Lock, flock, and both given up (168-176) |
| `readSidecar`, `readBody` | get (185-201) |
| `collect`, `readPage` | list_page: the walk, then the sidecars of the page (276-324) |
| `check` | the comparison of versions in put_if_version and delete_if_version (221-223, 258-260) |
| `mkdir`, `tempBody`, `tempSidecar`, `replaceBody`, `replaceSidecar` | _write (232-246) |
| `cleanBody`, `cleanSidecar` | its except clause (247-250) |
| `unlinkSidecar`, `unlinkBody`, `prune` | delete_if_version and _prune_empty (261-274) |

A file is abstracted to the token of the put that wrote it: `body[k]` and
`sidecar[k]` are numbers, 0 for no file, `Foreign` for contents the library did
not write. So an object is whole when the two agree. Tokens are numbered in the
order they are drawn. The directory tree is `Trail`, the directories on the way
to each key's files. Keys are numbers in string order; a prefix is the set of
keys that start with it. The encoding of keys into names is left out; a key that
has no encoding is refused before anything happens (`BadKey`).

`Fail` lets a system call raise at any stage in `FailAt`, with what it may leave
behind; `Crash` ends every call of a process, the system releasing its lock
file; `Tamper` edits or removes files without the lock, which the code meets
with "missing body", "invalid sidecar" and "vanished during listing".

`Implements` states that this implements `AtomicStorage`: the object at a key is
its sidecar's version with the body beside it, except that a put between its two
replaces has not happened yet (`shadowed`, a history variable, remembers the
body it has overwritten). The one liberty `AtomicStorage` gives a backend is
`Tear`: a put that is abandoned may leave its body under the version it found.

### Listings, EntityScans and the code

Every request to the bucket is one step, and everything else may happen between
two. `pc` names the scanner's next request, `cpc[c]` a creator's:

| `call`, `pc` | code |
|---|---|
| `index`, `list` | list_prefix (core.py 944-969) as _drain (621-630) calls it, one entity after the other; with the last page get_memory_index orders, cuts and returns |
| `export`, `list` / `object` / `download` / `end` | the page and the loop over it (1153-1163); the metadata request and the generation-matched download of GcsStorage.get (gcs.py 77-109) |
| `purge`, `list` / `object` / `end` / `last` | _purge_passes (1107-1130): a page, a conditional delete, the end of a pass, the last look |
| `purge`, `invalidate` | invalidate_index on every exit of purge (1092-1105) |
| `cpc`: `count` / `get` / `put` | _at_file_cap (733-750), the get at the cap (702-707), the conditional put of a create (719-731) |

Keys are numbers in string order, and an object is its key and its generation.
`Listings.ListBlobs` is the client library's listing with its inclusive
`start_offset`, and `ListKeys` what gcs.py 167-195 makes of it: one object too
many is asked for, and the start key dropped if it is still there. A bucket's
listing and the metadata it carries are one atomic step, as GCS promises; the
get of an object is two. An entry is rendered to `EntryBytes` bytes; of its
metadata only the time stamp remains, and whether it parses. Others overwrite
and delete any object between the requests, and store objects that the library
does not create (`Seed`: system/ files, malformed keys).

A create's requests fail like the scanner's (`CreateFails`), and its put in every
way `MemoryStore`'s may: stored with its answer lost (`CreatePutFails`), stored and
sent again by the client library (`CreateResent`), or given up in flight, to land
later under the precondition it was sent with (`late`, `LatePut`). "refused" is a
create whose put was refused, whatever the file read after it makes of the error.
`races[e]` is a history variable, the most creates of `e` that were in flight at
once, the puts in `late` among them, since a create last began alone with the
entity within its cap.

The index cache is left out of this module: a listing here is always drained,
and `IndexCache` says which listings may be served instead. `answer` tells a
purge's exits apart, `cacheError` being the success whose invalidation raised.

### ToolCalls, ToolServer and the code

A call's `pc` is the next thing that happens to it:

| `pc` | code |
|---|---|
| `credentials`, `resolve` | the adapter's credentials_from_context and resolve_identity (mcp.py 236-256, identity.py 157-184); a direct session starts at `dispatch` under the identity it is bound to |
| `dispatch` | the tool method up to its client call (tools.py 264-482) |
| `client` | the client call, which returns, raises, or, if it is not the library's, returns something else |
| `observe` | rendering and notify_observer (tools.py 153-174, mcp.py 215-230, observer.py) |
| `reply` | the answer |

`ToolCalls.Refusal` is a tool's checks in the order the code makes them: the
types of the location arguments, their encoding, the grant, the segments, the
area slug and the name; then `CheckWrite`, the system/ check and the policy; then
the other arguments. Arguments are values that some check tells apart, and each
check is an argument and the values it refuses, so an error names the argument
of the first check that fails. `Payload` is render_result or render_error;
fields of the wrong type are left out, and what is not the library's own error
is `internal`.

A store is abstracted to the generation each path was last written with and
whether the file still exists: the races inside a client call are
`MemoryStore`'s. `home`, `asked` and `knew` are history (the store when the call was
made, the turns the runner had asked to record, the answers the agent had seen).

### TrialReports, EvalTrials and the code

Agents' calls go on at any time on worker threads; the runner makes one harness
call or command after the other, as the runner's workflow has it
(specs/AIE-1170-eval-harness/plan.md 425-475). `runner` says where it is:

| `runner` | code (evals/server.py, evals/report.py) |
|---|---|
| `resetting` | after the swap under the lock, before transcript.json is written (178-185) |
| `recording`, `writing turn` | between at_ms and the reply found in the subagent's transcript (220-227); before transcript.json is written (228-233) |
| `reading` | between the snapshot and the end of store_dump (283-286), a listing per scope and a read per file |
| `store`, `trace`, `transcript` | the three writes of dump (293-295) |
| `reporting`, `reported` | build_report's loop over the trials (547-581); the report written (655-656) |

Reset replaces client, identity, directory, records and turns in one step, which
is the lock's doing; a call that resolved before it and calls its client after
it straddles two trials. `Tick` is the clock, monotonic for the server and the
files' times for reports; `started` of a record is computed backwards from its
arrival, as record_call does; `heard` is history, the calls that were answered when
a turn was recorded. A file on disk is absent, torn or whole with the
time it was written; a crash may tear the file being written, the server then
starts again without a trial, and reports run in another process. What the
graders other than index_read_first compute is a function of the store, trace
and replies they are given (`Inputs`), so a grade keeps its inputs, and a grade
is stale exactly when its inputs are not those on disk.

## 3. Runs

All bounds are constants of the modules and are set in the `.cfg` files. Two
clients suffice for every race in `MemoryStore`, since a call conflicts with one
other writer at a time and the outside editor is a third; two calls each let a
call be retried, or a stale token be used after a delete and a create; one fault
and one outside edit at any point of a behaviour reach every fault path, also of
the second attempt. `MaxAttempts = 3` is the code's value. Clients that have used
up their calls simply stop, so the runs do not check for deadlock; where waiting
could go wrong a liveness property says so.

| Run | Instance | Shows |
|---|---|---|
| `StoreOutside` | 2 clients x 2 calls, all kinds; intruder deletes or corrupts once; storage unavailable once | `NoLostUpdate`, `ConflictIsNews`, `RefusedLeavesNoTrace`, `ImplementsAtomicFiles` |
| `StoreFaults` | 2 clients x 2 edits, one lost, resent or late put | `TypeOK`, `GuardedCallLandsOnce`, `ProvenanceGrows`, `AckedIsStored`, `ImplementsAtomicFiles`, `EveryCallAnswers` |
| `CacheFresh` | 2 writers, 1 reader, 2 keys on 2 pages, 2 changes, one fault of any kind but `lateMint`, one expiry | `TypeOK`, `IndexIsFresh`, `TagIsCurrent` |
| `CacheSettles` | 1 writer, 2 readers, 1 key, 1 change, one such fault, one expiry | `IndexIsFresh`, `TagIsCurrent`, `SettlesIntoHits` |
| `FsAtomic` | 2 processes, 2 keys, 3 calls of every kind, one crash and one failing system call anywhere | `SidecarHasBody`, `Implements` |
| `FsPlain` | 2 threads of one process and 1 of another, 2 keys, 4 calls, nothing fails | `OneWinnerPerVersion`, `ReadsAreFromOneWrite`, `NoEmptyDirs` |
| `FsFaults` | the same clients, 2 keys, 3 calls, one failing flock or replace, one edit or removal of a file | `TypeOK`, `DamageIsReported`, `NoTempsLeft`, `EveryCallReturns` |
| `Scans` | one scan of any kind, 2 creators of 2 files, 2 entities with 5 and 1 keys in any initial state, pages of 2, 3 calls and disturbances in all, one failing request or lost, resent or late put | `TypeOK`, `ListedOnce`, `FromOneWrite`, `IndexAccountsForAll`, `PurgeErases`, `IncompleteNeedsWriters`, `CapHolds`, `QuotaIsHonest`, `CallsEnd` |
| `Trials` | 2 worker threads; eight deployments, chosen in the initial state | `TypeOK`, `CallsStayInGrants`, `AnswersAreRecorded`, `TraceTellsWhatHappened`, `DumpAccountsForTrace`, `ReportIsCurrent` |

In the `Fs` runs the bounds are on calls made in all: a create, the write or
delete that follows it and a third call that races with either reach every
stage in every combination of two; the two keys lie in one directory and in one
below it. The two `Cache` runs divide the races: `CacheFresh` has those
of two invalidations with each other and with a listing drained half way (two
changes, so that a late set of the first can meet the second), `CacheSettles`
those of two readers that fill the cache at once.

In `Scans` five keys under one entity give three pages, so that a scan resumes
in the middle, behind a malformed key, a system/ file or one whose metadata does
not parse; two disturbances of one scan delete the key a page resumes after and
create one behind it, or overwrite an object twice while it is fetched. Two
passes and two attempts of a get are the fewest that have a second one. The
bound of three calls counts the scan, each create and each change by others,
and nothing begins after a scan has returned. So few disturbances would end a loop
that counted no attempts, too, and `CallsEnd` cannot tell; that GcsStorage.get
counts them is `TypeOK`'s bound on `tries` (gcs.py 77-109).

`FileLimit = 1` with two creators is the least race past the cap, and one fault is
enough for a creator whose put is given up, and lands after its next create has
counted, to pass the cap all by itself. The bound of `CapHolds` is therefore not the number
of creators but of creates: `FileLimit + races[e] - 1`, where `races[e]` counts what
was in flight at one time (a failed put until it lands). Nothing in the code limits
it further: `max_files_per_entity` is exceeded by one for every put of unknown
fate that other creates did not wait for.

`Trials` divides its races among deployments rather than making one of them
large. `Adopter` (through the adapter) and two `Embedded` sessions (direct, with
an observer that raises and with none) make two calls of every kind, good ones
and one for each kind of refusal. `Asking` serves agents while turns are recorded: two calls
and a turn, or one call and two turns, with a tick of the clock for each.
`Dumping` runs writes, deletes and a conflicting call while a dump reads the
store. `Reporting` makes two dumps, two grades or reports, resets and a crash
over two ticks, for a scenario with reply assertions and one without. Agents'
calls and reports share no state but the dumps, which is why the last makes no
calls.

`CallsStayInGrants` and `AnswersAreRecorded` say nothing of the trial or trace
of a call that a reset overtakes: such a call can act under one trial's identity
on the next trial's store, and its record is in the next trace. plan.md 341-353
(specs/AIE-1170-eval-harness) accepts this because trials are serial; what is
checked is that this is the only way. Likewise `ReportIsCurrent` leaves out a
dump written in the very tick of a grade, which `_grade_is_current`'s `>=` cannot
tell from an older one. Two more things the model shows contradict nothing the
repository says: a crash between two whole dump files leaves a new store.json
beside an old trace.json, which the report takes for a dump; and a second reset
of a trial's directory leaves the old dumps and grade beside an empty transcript
until the next dump.

`RefusedLeavesNoTrace` is checked without resends: with them a conflict may be a
call's own landed write, which is the reason append_line checks for it. All
runs of `MemoryStore` let the clock stand still (one stamp), the case in which
append_line can mistake another write for its own most easily; in `StoreFaults`
two requests give the same body for different sources. Two appends of the same
line, by the same surface, at the same clock reading, against the same version
store identical objects, and append_line then takes either for its own (core.py
903); `AckedIsStored` therefore asks that the returned object is stored under
the returned version, put there during the call, and not by whom.

Three runs find a statement of the repository that the code does not keep; each
is a `finding` in `PROJECT.json`:

| Run | Statement | What happens |
|---|---|---|
| `StoreReplaceResend` | ADR 0011 line 35: re-applying is safe | The backend resends a landed put, replace_fact re-reads its own edit and applies it again inside one call. |
| `CacheLateMint` | ADR 0040 lines 45-55: a listing under the current token missed no write | A reader's own token set raises, its listing is stored under that token, a writer replaces the token, and then the set lands. |
| `FsTorn` | plan.md 186 (specs/AIE-1335): a torn object needs a crash | The second os.replace raises; the put fails, and its bytes are read back with the old version and metadata. |

For the same reason `ReadsAreFromOneWrite` is checked where no overwrite is cut
short. The models also show the following, which have no run of their own:

* A record that arrives after its turn was recorded may be tagged with the next turn
  or with none, although plan.md 342 (specs/AIE-1170) says that "a record that arrives
  late is still tagged correctly" and 828 that "time windows stay correct even for a
  record that arrives late". record_call counts the start back from the arrival
  (server.py 204), so the delay between the tool's end and the record moves it: a
  call made at 0 whose tool ends at 1 and whose record arrives at 2 starts at 1, which
  is not before a turn that ended at 1. plan.md 345 has a turn recorded only after its
  reply, so such a call is one its agent did not wait for;
  tests/test_evals_server.py 449 covers only a tool still running at the turn's end.
  `TraceTellsWhatHappened` asks of such a call only that it is in no turn before its
  own, and speaks of the latest turn of a call if it was answered when a turn was
  recorded (notify_observer precedes the answer, mcp.py 215-230).
* A replace_fact whose answer was lost and that its caller retries edits the file
  twice when the new text contains the anchor once. ADR 0009 accepts this; the
  guidance given to agents (errors.py 85) does not say so.
* After its last refused put replace_fact attaches the content that put was
  based on (ADR 0009 line 63), which errors.py 102 calls current.
  `ConflictIsNews` asks only that it was current during the call.
* A temporary file whose writing fails after it was created stays, and keeps its
  directory from being pruned: it is not in the list of the except clause yet.
  `NoTempsLeft` is therefore checked where temporary files can be written and
  unlinked, and `NoEmptyDirs` where nothing fails.

Two further observations contradict nothing the repository says: a create that the backend resends after a
concurrent delete brings the file back (`late` and `resend` in `StoreFaults`
reach it, and `GuardedCallLandsOnce` therefore speaks of calls that name a
version); and errors.py 87, "a retried append_line may duplicate a line", is
more cautious than the code, which `GuardedCallLandsOnce` shows never does so.

### Fairness

`CallsEnd` assumes weak fairness of the scanner and of each creator, for the
same reason as the next two; it assumes nothing of the others, who may change
the bucket between any two requests. `EvalTrials` states no fairness and no
liveness: a runner or an agent may stop anywhere.

`EveryCallAnswers` assumes weak fairness of each client's own next step, and
`SettlesIntoHits` of each reader's: a thread inside a library call keeps running,
because nothing in these calls waits for another thread (no lock is held between
storage calls). `SettlesIntoHits` needs nothing of the writers, who may stop half
way for ever.
Nothing is assumed about calls being made, faults happening, late requests
arriving or entries expiring. Storage and cache calls are assumed to return or
raise, which is what the timeouts of the client libraries give.

`EveryCallReturns` assumes weak fairness of every thread: one that is not
waiting for a lock goes on, and a lock that stays free is taken. It assumes no
fair queue, and needs none because the calls are bounded in number; with an
endless stream of readers a writer could wait for ever, since flock gives no
turn and the code waits without a timeout.

## 4. Proofs

Every safety invariant the passing runs check is also the conclusion of a
theorem, for every value of the constants, and so are both refinements. The
assumptions are the named ones of the modules (`FilesAssumption`,
`StoreAssumption`, `StorageAssumption`, `FilesystemAssumption`,
`TreeAssumption`, `ListingAssumption`, `ScanAssumption`, `ToolsAssumption`,
`ServerAssumption`, `TrialsAssumption`), which TLC evaluates in every run, and
where a theorem needs more it says so; each such proviso is an exception that the
code or its documents make:

| Theorem | Proviso | Why it cannot go |
|---|---|---|
| `IndexStaysFresh`, `TagStaysCurrent` | no `lateMint` among the faults | `CacheLateMint` is the counterexample |
| `RefusalsLeaveNoTrace` | no `resend` | a resent put is refused after it landed, which append_line allows for and replace_fact does not (`StoreReplaceResend`) |
| `SuccessIsTrue`, `ConflictsTell`, `ImplementsFiles` | `MaxAttempts > 1` | core.py has 3; with 1, replace_fact would raise a conflict that carries the version named |
| `ObjectsAreWhole` | nobody but the library removes bodies | a file removed by hand leaves its sidecar |
| `ReadsAreWhole` | no crash, no failing second replace, no body edited in place | `FsTorn`, and the docstring of filesystem.py |
| `TempsAreCleaned` | no crash; temporary files can be written and unlinked | a file whose writing failed is not in the list that is cleaned up |
| `DirsArePruned` | no crash; what fails leaves nothing behind; no sidecar removed by hand | the directory made for a put that fails is not pruned |
| `ImplementsStorage` | nobody edits the files | an `AtomicStorage` has no such step |
| `IndexesAccount` | time stamps are integers | `Updated` is an operator, of which TLC cannot evaluate an assumption over all of `Nat` |

Where an argument needs induction it is put as a smallest counterexample: the
library's induction theorems take an operator, but `WFMin` takes a set, and from
it follows that a set of natural numbers has a least element (`Least`). The sums of
`Bytes`, the positions of `Ascending`, the beginning that `Included` counts, and
the earliest turn or record are all done this way.

### MemoryStore

`MemoryStoreProofs` proves, for any sets of clients, facts and sources, any
number of calls, attempts, faults and outside edits: `TypeCorrect`
(`Spec => []TypeOK`) and `NoUpdateIsLost` (`Spec => []NoLostUpdate`).

`NoLostUpdate` is not inductive: it speaks of what is in the log, while the
danger is a put that has been computed and not yet judged. The inductive
invariant `IInv` adds

* `CallsInProgress`: what `pc` says of the request (a client at the cap is
  creating, a client about to put is mutating, a write in progress fits);
* `DraftsFit`: the draft of a client about to put is the edit of the object *at
  the version its put is conditional on*, wherever the log has got to since;
* `LateFits`: the same of every put still in flight;
* `LogRecorded`: the log names calls that were made.

The lemma `EditOfKept` is the heart of it: the log only grows, so an object that
was the right edit of a version stays the right edit of that version; when
storage accepts the put, that version is the current one, and `NoLostUpdate`
follows for the new entry (`StoreStep`).

`MemoryStoreCallsProofs` adds what a caller may conclude. `RetriesAreSafe` and
`SourcesAreKept` follow from `IInv` alone: a put that names a version can only
land while that version is current, and the log never returns to one it has left
(`HistoryKept`). The others need `Known`, which adds `CallsFit`: what a call in
progress knows of the time since it began (`born`). The delicate case is the
call that storage refused. The version it named has then been overtaken
(`OvertakenFits`), so what it reads again is news, and if the log holds its own
draft under the version after the one it named, its put has landed. From these
`TracelessInv` and `AnswersTrue` say of every answer why it is justified, and
`ImplementsFiles` is that same justification read as a step of `AtomicFiles`:
of all the steps of a call only the one that commits and the one that answers
are steps there.

### IndexCache

`IndexCacheProofs` proves `TypesKept`, `IndexStaysFresh` and `TagStaysCurrent`.
A listing is only as good as the token it is tagged with, and the danger is a
listing under a token that becomes current again. `FreshInv` therefore says of
every listing wherever it is, in the cache (`ListingLivesUp`), on its way there
(`LateListingsLiveUp`) or in the hands of a reader that has drained some of its
pages (`DraftsLiveUp`): if its token is the current one it covers all that is
settled, and if some reader has read its token it covers what that reader was
promised (`LivesUp`). That a token cannot come back is `MintIsOwn` and
`LateTokenIsOwn`: until it is set it is known to the one who generated it.

### FilesystemStorage

`FilesystemStorageProofs` proves, for any sets of keys, directories, threads and
processes, any number of calls, crashes, failing system calls and edits behind
the library's back: `OneWinner` (`Spec => []OneWinnerPerVersion`), `TypesKept`,
and `ObjectsAreWhole` (`Spec => []SidecarHasBody`).

What wins is decided at the check, takes effect at the commit, and is only seen
when two answers are compared, so the inductive invariant `WinnerInv` connects
the three: the holder of the exclusive lock is alone (`WritersAlone`), a client
past its check relies on a version nobody has won (`PassedAlone`), a version
that was won is no longer any object's (`WonIsSpent`), and a token not yet
committed is neither an object's nor a winner's (`PendingIsNew`, from
`TokensDrawn`). `CommitStep` is where they meet; `QuietStep` does once and for
all the steps that change no version. `ObjectsAreWhole` adds `BodyComesFirst`,
the order of the two replaces and of the two unlinks.

`FilesystemCallsProofs` adds `CallsFit`, what is fixed of a call at each stage,
and proves from it `DamageReported`; with `BodyMatches` (a body differs from its
sidecar only between the two replaces of the client that holds the lock)
`ReadsAreWhole`; with `TempsOwned` (a temporary file belongs to a put in progress)
`TempsAreCleaned`. `DirsArePruned` needs the most: `DirsInv` says that each
directory leads to an object or is in the view of a call that will need or prune
it, and that whatever an object or such a call needs is there. It rests on
`TreeAssumption`, that the directories form a tree.

`FilesystemRefinementProofs` proves `ImplementsStorage`. `GroundedInv` says that
what a call has read is still so when it acts on it (it holds the lock, and
`HeldSteady` shows that nobody else changes an object meanwhile); each system
call is then a step of `AtomicStorage` or a stutter, the second replace being
the step where a put takes effect, and a put that dies between the two the
`Tear` that `AtomicStorage` allows.

### EntityScans

`EntityScansProofs` proves all of `EntityScans`' invariants, for any keys,
entities, page sizes, caps, numbers of creators, passes and faults. `IInv` are
the shapes of a scan and of a creator at each `pc`; `Pages` is what a page tells:
it has the first keys after its cursor, and one that is short has all of them.
On these rest, each with an invariant of its own:

* `PurgesErase`: `EmptyIsKnown`, that a pass which has found nothing so far
  leaves the entity empty now or behind it;
* `BlameIsFair`: `PassesArePaid`, that each pass but the first cost others a put,
  and that what lies behind the pass in progress (`Left \ ToSweep`) cost one more;
* `RaceIsBounded`: `RoomIsShared`. The cap does not bound what creators have
  counted, since a count is out of date when it ends. What does hold is about
  every subset of the files there are: it, the creators that would still add to it
  if there were only those, and the puts adrift that would, are together no more
  than the cap and the creates in flight at once but one (`OneLands` is the step
  where one of them is stored, for the first time or again);
* `QuotaIsFair`: `CountIsHonest`, that a count is of files seen while it counted;
* `ScansTellTheTruth`: `OutIsTrue`;
* `ListingsMissNothing`: `OutIsOrdered`, that every file which has been there
  throughout is collected or still to come (`ToCollect`), and that all that is
  collected comes before the cursor;
* `IndexesAccount`: what the index is made of is what was drained
  (`IndexIsMade`), each file once by `OutIsOrdered`. The rest is about
  `AssembleIndex` alone: `Before` orders files with different keys one after the
  other, so `Ordered` lists each of them once (`OrderedLists`); what is included is
  the longest beginning that fits (`IncludedFit`); and what is cut is counted area
  by area (`AssembledAccounts`).

### EvalTrials

`EvalTrialsProofs` proves, for any scopes, identities, policies, requests,
deployments, worker threads, trials, turns and crashes:

* `GrantsAreKept` (`CallsStayInGrants`), two arguments. `RefusalsProtect` is about
  the checks alone: a request that no check refuses points only where its caller's
  grants and the policy let it. The other is about time: identity and store are
  looked up at two moments, so `GrantInv` adds that a call about to be dispatched,
  in the trial it was made in, carries that trial's identity
  (`DispatchedAsServed`), and that every store a call was made in is one a later
  reset leaves alone (`TrialsInOrder`).
* `AnswersRecorded` (`AnswersAreRecorded`): `RecordInv` says that numbers of calls
  are handed out once (`NumbersAreGiven`, `NumbersAreOwn`) and where each call is
  with respect to its record (`RecordsFollowCalls`): none before its observer ran,
  one that shows its outcome after.
* `TracesTell` (`TraceTellsWhatHappened`): `TimesInv` relates the clock to what
  agents and runner had done at each reading of it. A turn the runner had asked to
  record when a call was made ended no later than the call began, an answer the
  agent had seen was recorded by then, and this stays true of the record with the
  start computed from its arrival (`CallsFollow`, `RecordsFollow`); what was
  answered when a turn was recorded had its record by then (`TurnsHeard`). It says
  nothing of the latest turn of a call not answered yet: it may be given a later
  turn than its own, or none (section 3).
  `TagsTellTurns` and `PatienceIsRead` derive from it what tags and
  index_read_first say.
* `DumpsAccount` (`DumpAccountsForTrace`): while a dump reads, each write in its
  trace is in a scope still to be listed, in a file still to be read, or read at
  its version or a later one (`Accounted`). That it will be found needs `InPlace`:
  a call of the trial in progress writes under that trial's grants to its store,
  and a store's generations only grow (`StoresGrow`).
* `ReportsAreCurrent` (`ReportIsCurrent`): of every directory at any time
  (`GoodDir`), a grade that `_grade_is_current` would keep is a grade of the files
  that are there, and a pass was earned by them; of a report in progress
  (`RowsFit`), its rows are about directories nobody has touched since.
* `TypesKept`.

A crash, a reset and an observer that raises are steps like the others.

### What TLC alone checks

Liveness (`EveryCallAnswers`, `SettlesIntoHits`, `EveryCallReturns`, `CallsEnd`):
the prover has no rules for fairness. The three runs that end in a violation,
which are examples and need no proof. The proofs found two faults in the abstract
specifications that TLC had not: a CASE of `AtomicStorage`'s `Result` and one of
`Justified` of `AtomicFiles` had arms that overlapped, of which TLC takes the first and
TLA+ leaves the choice open; the guards are now exclusive. They also made explicit
that directories form a tree and that creators are finitely many.

## 5. Not modelled, and the plan

Left out, and why:

* **merge_runs, judge.json, the Markdown report and the command line**
  (evals/report.py, evals/__main__.py): functions of files that nobody writes at
  the same time.
* **The graders' contents** (evals/graders.py, except index_read_first): text
  matching without state. A grade keeps the inputs they were computed from.
* **Scenarios, the reference adopter and the agent's definition**
  (evals/scenario.py, reference_adopter.py, identity.py, agent.py): loading,
  validation and fixed texts; `EvalTrials` takes them as constants. Edits of a
  scenario between a grade and a report are not modelled either; report.py does
  not look for them.
* **Reading a subagent's transcript** (evals/subagent_transcript.py): one step
  that finds the reply or does not, at any time.
* **Start-up checks and exported schemas of the MCP adapter, descriptions of the
  tools, prompts**: they run before the first call and have no state.
* **Names of files on disk, character rules of paths, fact rendering**: pure text
  functions; where a property depends on one, the models keep its outcome.
* **InMemoryStorage.list_page**: one step under a lock, as in `AtomicStorage`.
* **Conformance suites**: tests, read here as statements of what the code
  promises. **The site and the scripts**: no part of the running system.

To come: nothing is left of the plan but to shorten proofs. The largest,
`ListingsMissNothing` and `DirsArePruned`, treat pages and directories by cases
that could share lemmas.
