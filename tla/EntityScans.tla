---------------------------- MODULE EntityScans ----------------------------
(***************************************************************************)
(* The calls of MemoryStore that go through a whole entity, page by page,  *)
(* while the bucket changes under them (core.py: list_prefix and _drain,   *)
(* get_memory_index, export, purge, _at_file_cap) over GcsStorage.         *)
(*                                                                         *)
(* One scanner drains an index, exports or purges; creators call           *)
(* write_file with expected_version=None and count the entity's files      *)
(* first; everyone else overwrites, deletes and seeds objects in between.  *)
(* Each request to the bucket is one step.                                 *)
(***************************************************************************)
EXTENDS Listings

CONSTANTS
  MaxPasses,    \* purge's max_passes
  GetAttempts,  \* _GET_RETRY_ATTEMPTS
  Creators,
  NewFiles,     \* the files they may create
  Scans,        \* the scans that may be begun: [kind, of]
  MaxCalls,     \* bound: calls begun and changes made by others
  MaxFaults     \* bound: failing storage and cache calls

ASSUME ScanAssumption ==
  /\ MaxPasses \in Nat \ {0}
  /\ GetAttempts \in Nat \ {0}
  /\ IsFiniteSet(Creators)
  /\ NewFiles \subseteq Counted
  /\ \A s \in Scans :
       /\ s.kind \in {"index", "export", "purge"}
       /\ s.of \in (SUBSET Entities) \ {{}}
       /\ s.kind = "index" \/ Cardinality(s.of) = 1
  /\ MaxCalls \in Nat /\ MaxFaults \in Nat

VARIABLES
  bucket,   \* [key -> generation of its object, 0 if there is none]
  gens,     \* generations given out
  call,     \* what the scanner does: "index", "export", "purge"
  pc,       \* the request it makes next, or "idle"
  todo,     \* the entities it has still to go through
  cursor,   \* start_after of its next page, 0 for none
  page,     \* objects of the current page it has not dealt with
  out,      \* what it has collected
  blob,     \* generation of the blob it is downloading
  tries,    \* attempts of the get in progress
  found,    \* purge: this pass has listed something
  passes,   \* purge: passes completed
  answer,   \* how the last call ended
  index,    \* the index it returned
  cpc,      \* [creator -> the request it makes next, or "idle"]
  target,   \* [creator -> the file it creates, 0 for none]
  count,    \* [creator -> files it has counted]
  after,    \* [creator -> start_after of its next page]
  canswer,  \* [creator -> how its last call ended]
  late,     \* puts whose call has failed and that are still to land
  races,    \* history: [entity -> the most creates in flight at once]
  cseen,    \* history: [creator -> files of its entity that existed while it counts]
  stable,   \* history: keys that have been there since the scan began
  lived,    \* history: objects that existed since the scan began
  emptied,  \* history: the entity was empty after the purge's last delete
  owing,    \* history: a delete of the purge awaits its invalidation
  written,  \* history: puts under the entity since the purge began
  calls, faults

scan == <<call, pc, todo, cursor, page, out, blob, tries, found, passes, answer, index>>
create == <<cpc, target, count, after, canswer, late, races>>
history == <<cseen, stable, lived, emptied, owing, written>>
bounds == <<calls, faults>>
vars == <<bucket, gens, scan, create, history, bounds>>

Entity == todo[1]
Versions(b) == {[key |-> k, gen |-> b[k]] : k \in Present(b)}
CountedIn(b, e) == Counted \cap Present(b) \cap Under(e)

(* What a scan collects; data is the generation whose bytes it holds. *)
Collected == [key : Keys, gen : Nat, data : Nat]

TypeOK ==
  /\ bucket \in [Keys -> 0..gens]
  /\ gens \in Nat
  /\ call \in {"none", "index", "export", "purge"}
  /\ pc \in {"idle", "list", "object", "download", "end", "last", "invalidate"}
  /\ todo \in Seq(Entities)
  /\ cursor \in 0..NKeys
  /\ page \in Seq(Object)
  /\ out \in Seq(Collected)
  /\ blob \in Nat
  /\ tries \in 0..(GetAttempts - 1)
  /\ found \in BOOLEAN
  /\ passes \in 0..MaxPasses
  /\ answer \in {"none", "ok", "corrupt", "unavailable", "incomplete", "cacheError"}
  /\ cpc \in [Creators -> {"idle", "count", "get", "put"}]
  /\ target \in [Creators -> 0..NKeys]
  /\ count \in [Creators -> Nat]
  /\ after \in [Creators -> 0..NKeys]
  /\ canswer \in [Creators ->
       {"none", "created", "refused", "exists", "quota", "unavailable"}]
  /\ late \subseteq [fault : 1..MaxFaults, key : NewFiles]
  /\ races \in [Entities -> Nat \ {0}]
  /\ calls \in 0..MaxCalls
  /\ faults \in 0..MaxFaults

Init ==
  /\ \E S \in SUBSET Keys :
       /\ \A e \in Entities : Cardinality(S \cap Counted \cap Under(e)) <= FileLimit
       /\ bucket = [k \in Keys |-> IF k \in S THEN k ELSE 0]
  /\ gens = NKeys
  /\ call = "none" /\ pc = "idle" /\ todo = <<>> /\ cursor = 0
  /\ page = <<>> /\ out = <<>> /\ blob = 0 /\ tries = 0
  /\ found = FALSE /\ passes = 0 /\ answer = "none" /\ index = EmptyIndex
  /\ cpc = [c \in Creators |-> "idle"]
  /\ target = [c \in Creators |-> 0]
  /\ count = [c \in Creators |-> 0]
  /\ after = [c \in Creators |-> 0]
  /\ canswer = [c \in Creators |-> "none"]
  /\ late = {} /\ races = [e \in Entities |-> 1]
  /\ cseen = [c \in Creators |-> {}]
  /\ stable = {} /\ lived = {} /\ emptied = FALSE /\ owing = FALSE /\ written = 0
  /\ calls = 0 /\ faults = 0

(* Bound: a behaviour has one scan, and nothing begins after it returned. *)
BeginCall == answer = "none" /\ calls < MaxCalls /\ calls' = calls + 1

(* What others do while no call runs is in the initial bucket. *)
Disturb == BeginCall /\ (pc # "idle" \/ \E c \in Creators : cpc[c] # "idle")
Fails == faults < MaxFaults /\ faults' = faults + 1

(***************************************************************************)
(* The bucket becomes b; mine says whether a purge's own delete did it.    *)
(***************************************************************************)
Change(b, mine) ==
  /\ bucket' = b
  /\ stable' = stable \cap Present(b)
  /\ cseen' = [c \in Creators |->
       IF cpc[c] \notin {"count", "get"} THEN cseen[c] ELSE cseen[c] \cup CountedIn(b, EntityOf[target[c]])]
  /\ lived' = IF pc # "idle" /\ call # "purge" THEN lived \cup Versions(b) ELSE lived
  /\ IF pc # "idle" /\ call = "purge"
       THEN /\ emptied' = ((emptied /\ ~mine) \/ Present(b) \cap Under(Entity) = {})
            /\ owing' = (owing \/ mine)
            /\ written' = written
                 + Cardinality({k \in Present(b) \cap Under(Entity) : b[k] # bucket[k]})
       ELSE UNCHANGED <<emptied, owing, written>>

Put(k) ==
  /\ gens' = gens + 1
  /\ Change([bucket EXCEPT ![k] = gens + 1], FALSE)

Drop(k, mine) == Change([bucket EXCEPT ![k] = 0], mine) /\ UNCHANGED gens

(***************************************************************************)
(* The scanner's calls.                                                    *)
(***************************************************************************)
Begin(kind, S) ==
  /\ pc = "idle"
  /\ BeginCall
  /\ call' = kind /\ pc' = "list" /\ todo' = Ascending[S]
  /\ cursor' = 0 /\ page' = <<>> /\ out' = <<>> /\ blob' = 0 /\ tries' = 0
  /\ found' = FALSE /\ passes' = 0 /\ answer' = "none" /\ index' = EmptyIndex
  /\ stable' = IF kind = "purge" THEN {} ELSE {k \in Present(bucket) : EntityOf[k] \in S}
  /\ lived' = IF kind = "purge" THEN {} ELSE Versions(bucket)
  /\ emptied' = (kind = "purge" /\ \A e \in S : Present(bucket) \cap Under(e) = {})
  /\ owing' = FALSE /\ written' = 0
  /\ UNCHANGED <<bucket, gens, create, cseen, faults>>

At(kind, step) == call = kind /\ pc = step
(* The call returns or raises, and its locals are gone. *)
Ends(how) ==
  /\ answer' = how /\ pc' = "idle"
  /\ todo' = <<>> /\ cursor' = 0 /\ page' = <<>> /\ blob' = 0 /\ tries' = 0
  /\ found' = FALSE /\ passes' = 0

Raises(how) ==
  /\ Ends(how)
  /\ out' = <<>> /\ stable' = {} /\ lived' = {}
  /\ UNCHANGED <<cseen, emptied, owing, written>>

(* The page is worked off object by object; a short page was the last one. *)
Proceed(rest, next) ==
  /\ page' = rest
  /\ pc' = IF rest # <<>> THEN "object" ELSE IF next # 0 THEN "list" ELSE "end"

Cursor(p) == IF Len(p) < PageSize THEN 0 ELSE p[Len(p)].key

(***************************************************************************)
(* list_prefix, as _drain calls it: one object more than a page tells      *)
(* whether there is another page.                                          *)
(***************************************************************************)
Shown(p) == SubSeq(p, 1, IF Len(p) > PageSize THEN PageSize ELSE Len(p))
NextCursor(p) == IF Len(p) > PageSize THEN p[PageSize].key ELSE 0
ParseFails(p) == \E i \in DOMAIN Shown(p) : p[i].key \in WellFormed \cap Corrupt

Entries(p) ==
  LET good == Ascending[{i \in DOMAIN Shown(p) : p[i].key \in WellFormed}]
  IN  [j \in DOMAIN good |->
         [key |-> p[good[j]].key, gen |-> p[good[j]].gen, data |-> p[good[j]].gen]]

DrainPage(p) ==
  /\ ~ParseFails(p)
  /\ NextCursor(p) # 0
  /\ out' = out \o Entries(p)
  /\ cursor' = NextCursor(p)
  /\ UNCHANGED <<bucket, gens, call, pc, todo, page, blob, tries, found, passes, answer,
                 index, create, history, bounds>>

DrainLastPage(p) ==
  /\ ~ParseFails(p)
  /\ NextCursor(p) = 0
  /\ out' = out \o Entries(p)
  /\ IF Len(todo) > 1
       THEN /\ todo' = Tail(todo) /\ cursor' = 0
            /\ UNCHANGED <<pc, page, blob, tries, found, passes, answer, index>>
       ELSE /\ index' = AssembleIndex({[key |-> out'[i].key, gen |-> out'[i].gen] :
                                         i \in DOMAIN out'})
            /\ Ends("ok")
  /\ UNCHANGED <<bucket, gens, call, create, history, bounds>>

(* metadata_from_map raises and the whole index call with it. *)
DrainRaises(p) ==
  /\ ParseFails(p)
  /\ Raises("corrupt")
  /\ UNCHANGED <<bucket, gens, call, index, create, bounds>>

Drain ==
  /\ At("index", "list")
  /\ \E p \in {ListPage(bucket, Entity, cursor, PageSize + 1)} :
       DrainPage(p) \/ DrainLastPage(p) \/ DrainRaises(p)

(***************************************************************************)
(* export: a page, then a get for each of its keys.  GcsStorage.get asks   *)
(* for the blob's metadata and then for the bytes of that generation.      *)
(***************************************************************************)
ExportPage ==
  /\ At("export", "list")
  /\ \E p \in {ListPage(bucket, Entity, cursor, PageSize)} :
         Proceed(p, Cursor(p)) /\ cursor' = Cursor(p)
  /\ UNCHANGED <<bucket, gens, call, todo, out, blob, tries, found, passes, answer, index,
                 create, history, bounds>>

GetBlob ==
  /\ At("export", "object")
  /\ LET now == bucket[page[1].key]
     IN  IF now = 0
           THEN Proceed(Tail(page), cursor) /\ tries' = 0 /\ UNCHANGED blob
           ELSE blob' = now /\ pc' = "download" /\ UNCHANGED <<page, tries>>
  /\ UNCHANGED <<bucket, gens, call, todo, cursor, out, found, passes, answer, index,
                 create, history, bounds>>

Downloaded(data) ==
  /\ out' = Append(out, [key |-> page[1].key, gen |-> blob, data |-> data])
  /\ Proceed(Tail(page), cursor)
  /\ blob' = 0 /\ tries' = 0
  /\ UNCHANGED <<todo, cursor, found, passes, answer, history>>

(* Mutant: one attempt too many. *)
AnotherAttempt_OneMore ==
  IF tries < GetAttempts
    THEN /\ tries' = tries + 1 /\ blob' = 0 /\ pc' = "object"
         /\ UNCHANGED <<todo, cursor, page, out, found, passes, answer, history>>
    ELSE Raises("unavailable")

(* The generation is gone: get starts again, until its attempts are used up. *)
AnotherAttempt ==
  IF tries + 1 < GetAttempts
    THEN /\ tries' = tries + 1 /\ blob' = 0 /\ pc' = "object"
         /\ UNCHANGED <<todo, cursor, page, out, found, passes, answer, history>>
    ELSE Raises("unavailable")

(* Mutant: the bytes of whatever generation is current, without the match. *)
Download_AnyGeneration ==
  /\ At("export", "download")
  /\ LET now == bucket[page[1].key]
     IN  IF now # 0 THEN Downloaded(now) ELSE AnotherAttempt
  /\ UNCHANGED <<bucket, gens, call, index, create, bounds>>

Download ==
  /\ At("export", "download")
  /\ IF bucket[page[1].key] = blob THEN Downloaded(blob) ELSE AnotherAttempt
  /\ UNCHANGED <<bucket, gens, call, index, create, bounds>>

ExportEnd ==
  /\ At("export", "end")
  /\ Ends("ok")
  /\ UNCHANGED <<bucket, gens, call, out, index, create, history, bounds>>

(***************************************************************************)
(* purge: passes of conditional deletes until one finds nothing, a last    *)
(* look when the passes are used up, and an invalidation on every exit.    *)
(***************************************************************************)
PurgePage ==
  /\ At("purge", "list")
  /\ \E p \in {ListPage(bucket, Entity, cursor, PageSize)} :
         /\ Proceed(p, Cursor(p)) /\ cursor' = Cursor(p)
         /\ found' = (found \/ p # <<>>)
  /\ UNCHANGED <<bucket, gens, call, todo, out, blob, tries, passes, answer, index,
                 create, history, bounds>>

PurgeDeletes ==
  /\ At("purge", "object")
  /\ IF bucket[page[1].key] = page[1].gen
       THEN Drop(page[1].key, TRUE)
       ELSE UNCHANGED <<bucket, gens, history>>
  /\ Proceed(Tail(page), cursor)
  /\ UNCHANGED <<call, todo, cursor, out, blob, tries, found, passes, answer, index,
                 create, bounds>>

(* Mutant: once the passes are used up the purge gives up without the last look. *)
PassEnds_NoLastLook ==
  /\ At("purge", "end")
  /\ IF ~found
       THEN answer' = "ok" /\ pc' = "invalidate" /\ UNCHANGED <<found, passes>>
       ELSE /\ passes' = passes + 1 /\ found' = FALSE
            /\ pc' = IF passes + 1 < MaxPasses THEN "list" ELSE "invalidate"
            /\ answer' = IF passes + 1 < MaxPasses THEN answer ELSE "incomplete"
  /\ UNCHANGED <<bucket, gens, call, todo, cursor, page, out, blob, tries, index, create,
                 history, bounds>>

(* Mutant: a full sweep is trusted, and the pass that finds nothing left out. *)
PassEnds_TrustsDeletes ==
  /\ At("purge", "end")
  /\ answer' = "ok" /\ pc' = "invalidate" /\ passes' = passes + 1
  /\ UNCHANGED <<bucket, gens, call, todo, cursor, page, out, blob, tries, found, index,
                 create, history, bounds>>

PassEnds ==
  /\ At("purge", "end")
  /\ IF ~found
       THEN answer' = "ok" /\ pc' = "invalidate" /\ UNCHANGED <<found, passes>>
       ELSE /\ passes' = passes + 1 /\ found' = FALSE
            /\ pc' = IF passes + 1 < MaxPasses THEN "list" ELSE "last"
            /\ UNCHANGED answer
  /\ UNCHANGED <<bucket, gens, call, todo, cursor, page, out, blob, tries, index, create,
                 history, bounds>>

LastLook ==
  /\ At("purge", "last")
  /\ answer' = IF ListPage(bucket, Entity, 0, 1) = <<>> THEN "ok" ELSE "incomplete"
  /\ pc' = "invalidate"
  /\ UNCHANGED <<bucket, gens, call, todo, cursor, page, out, blob, tries, found, passes,
                 index, create, history, bounds>>

(* invalidate_index; its own exception reaches the caller only after a success. *)
Invalidate ==
  /\ At("purge", "invalidate")
  /\ owing' = FALSE
  /\ \/ Ends(answer) /\ UNCHANGED faults
     \/ Ends(IF answer = "ok" THEN "cacheError" ELSE answer) /\ Fails
  /\ UNCHANGED <<bucket, gens, call, out, index, create, cseen, stable, lived, emptied,
                 written, calls>>

(* Any request may fail as unavailable. *)
StorageFails ==
  /\ call # "purge" /\ pc \in {"list", "object", "download"}
  /\ Fails
  /\ Raises("unavailable")
  /\ UNCHANGED <<bucket, gens, call, index, create, calls>>

AbandonPurge ==
  /\ answer' = "unavailable" /\ pc' = "invalidate"
  /\ UNCHANGED <<todo, cursor, page, blob, tries, found, passes>>

(* A delete that fails may have been made. *)
PurgeFails ==
  /\ call = "purge" /\ pc \in {"list", "object", "last"}
  /\ Fails
  /\ AbandonPurge
  /\ \/ UNCHANGED <<bucket, gens, history>>
     \/ /\ pc = "object" /\ bucket[page[1].key] = page[1].gen
        /\ Drop(page[1].key, TRUE)
  /\ UNCHANGED <<call, out, index, create, calls>>

(***************************************************************************)
(* write_file(expected_version=None) by a creator, under the file cap.     *)
(* "refused" is any refusal by the put's precondition, whatever the file   *)
(* read after it makes of the error.                                       *)
(***************************************************************************)
Racing(e) == {c \in Creators : cpc[c] # "idle" /\ EntityOf[target[c]] = e}
Straying(e) == {s \in late : EntityOf[s.key] = e}
InFlight(e) == Cardinality(Racing(e)) + Cardinality(Straying(e))

(* A create that begins alone, with the entity within its cap, starts the  *)
(* count anew.                                                             *)
Races(e) ==
  IF InFlight(e) = 0 /\ Cardinality(CountedIn(bucket, e)) <= FileLimit
    THEN 1
    ELSE IF InFlight(e) + 1 > races[e] THEN InFlight(e) + 1 ELSE races[e]

CreateFile(c, k) ==
  /\ cpc[c] = "idle"
  /\ BeginCall
  /\ cpc' = [cpc EXCEPT ![c] = "count"]
  /\ target' = [target EXCEPT ![c] = k]
  /\ count' = [count EXCEPT ![c] = 0]
  /\ after' = [after EXCEPT ![c] = 0]
  /\ canswer' = [canswer EXCEPT ![c] = "none"]
  /\ races' = [races EXCEPT ![EntityOf[k]] = Races(EntityOf[k])]
  /\ cseen' = [cseen EXCEPT ![c] = CountedIn(bucket, EntityOf[k])]
  /\ UNCHANGED <<bucket, gens, scan, late, stable, lived, emptied, owing, written, faults>>

(* Mutant: system/ files use up the cap as well. *)
Counts_SystemToo(p) == Cardinality({i \in DOMAIN p : p[i].key \in WellFormed})

Counts(p) == Cardinality({i \in DOMAIN p : p[i].key \in Counted})

(* Mutant: the first page is taken for all of them. *)
IsLast_Always(p, size) == TRUE

IsLast(p, size) == Len(p) < size

(* Mutant: start_after is not moved on. *)
ResumeAfter_Never(c, p) == UNCHANGED after

ResumeAfter(c, p) == after' = [after EXCEPT ![c] = p[Len(p)].key]

CountPage(c) ==
  /\ cpc[c] = "count"
  /\ LET left == FileLimit - count[c]
         size == IF left > PageSize THEN left ELSE PageSize
     IN  \E p \in {ListPage(bucket, EntityOf[target[c]], after[c], size)} :
         \E n \in {count[c] + Counts(p)} :
         /\ count' = [count EXCEPT ![c] = n]
         /\ \/ /\ n >= FileLimit
               /\ cpc' = [cpc EXCEPT ![c] = "get"] /\ UNCHANGED <<after, cseen>>
            \/ /\ n < FileLimit /\ IsLast(p, size)
               /\ cpc' = [cpc EXCEPT ![c] = "put"]
               /\ cseen' = [cseen EXCEPT ![c] = {}] /\ UNCHANGED after
            \/ /\ n < FileLimit /\ ~IsLast(p, size)
               /\ ResumeAfter(c, p) /\ UNCHANGED <<cpc, cseen>>
  /\ UNCHANGED <<bucket, gens, scan, target, canswer, late, races, stable, lived, emptied,
                 owing, written, bounds>>

Answers(c, how) ==
  /\ cpc' = [cpc EXCEPT ![c] = "idle"]
  /\ canswer' = [canswer EXCEPT ![c] = how]
  /\ target' = [target EXCEPT ![c] = 0]
  /\ count' = [count EXCEPT ![c] = 0]
  /\ after' = [after EXCEPT ![c] = 0]

(* At the cap: a conflict if the file is there after all, else the quota error. *)
CapGet(c) ==
  /\ cpc[c] = "get"
  /\ Answers(c, IF bucket[target[c]] = 0 THEN "quota" ELSE "exists")
  /\ UNCHANGED <<bucket, gens, scan, late, races, history, bounds>>

CreatePut(c) ==
  /\ cpc[c] = "put"
  /\ IF bucket[target[c]] = 0
       THEN Put(target[c]) /\ Answers(c, "created")
       ELSE Answers(c, "refused") /\ UNCHANGED <<bucket, gens, history>>
  /\ UNCHANGED <<scan, late, races, bounds>>

(* A request of the create fails and has no effect. *)
CreateFails(c) ==
  /\ cpc[c] # "idle"
  /\ Fails
  /\ Answers(c, "unavailable")
  /\ cseen' = [cseen EXCEPT ![c] = {}]
  /\ UNCHANGED <<bucket, gens, scan, late, races, stable, lived, emptied, owing, written,
                 calls>>

(* The put is stored, its answer is lost, and the client library sends it  *)
(* again.                                                                  *)
CreateResent(c) ==
  /\ cpc[c] = "put"
  /\ bucket[target[c]] = 0
  /\ Fails
  /\ Put(target[c])
  /\ UNCHANGED <<scan, create, calls>>

(* The put is stored but its answer lost, or it is given up in flight: in  *)
(* either case the call fails.                                             *)
CreatePutFails(c) ==
  /\ cpc[c] = "put"
  /\ Fails
  /\ \/ /\ bucket[target[c]] = 0 /\ Put(target[c])
        /\ Answers(c, "unavailable")
        /\ UNCHANGED late
     \/ /\ late' = late \cup {[fault |-> faults', key |-> target[c]]}
        /\ Answers(c, "unavailable")
        /\ UNCHANGED <<bucket, gens, history>>
  /\ UNCHANGED <<scan, races, calls>>

(* A put that was given up arrives, under the precondition it was sent with. *)
LatePut ==
  /\ \E s \in late :
       /\ late' = late \ {s}
       /\ IF bucket[s.key] = 0 THEN Put(s.key) ELSE UNCHANGED <<bucket, gens, history>>
  /\ UNCHANGED <<scan, cpc, target, count, after, canswer, races, bounds>>

(***************************************************************************)
(* Everyone else: edits, deletes, and objects the library does not create. *)
(***************************************************************************)
Overwrite(k) == bucket[k] # 0 /\ Disturb /\ Put(k) /\ UNCHANGED <<scan, create, faults>>
Remove(k) == bucket[k] # 0 /\ Disturb /\ Drop(k, FALSE) /\ UNCHANGED <<scan, create, faults>>
Seed(k) ==
  /\ k \notin Counted /\ bucket[k] = 0
  /\ Disturb /\ Put(k)
  /\ UNCHANGED <<scan, create, faults>>

Scan ==
  \/ Drain
  \/ ExportPage \/ GetBlob \/ Download \/ ExportEnd
  \/ PurgePage \/ PurgeDeletes \/ PassEnds \/ LastLook \/ Invalidate
  \/ StorageFails \/ PurgeFails

Create(c) ==
  \/ CountPage(c) \/ CapGet(c) \/ CreatePut(c)
  \/ CreateFails(c) \/ CreateResent(c) \/ CreatePutFails(c)

Next ==
  \/ \E s \in Scans : Begin(s.kind, s.of)
  \/ Scan
  \/ \E c \in Creators : (\E k \in NewFiles : CreateFile(c, k)) \/ Create(c)
  \/ LatePut
  \/ \E k \in Keys : Overwrite(k) \/ Remove(k) \/ Seed(k)

(* A thread that has begun a call goes on with it. *)
Fairness == WF_vars(Scan) /\ \A c \in Creators : WF_vars(Create(c))

Spec == Init /\ [][Next]_vars /\ Fairness

(***************************************************************************)
(* Properties                                                              *)
(***************************************************************************)
Returned(kind) == call = kind /\ pc = "idle" /\ answer = "ok"
Listing == Returned("index") \/ Returned("export")
OutKeys == {out[i].key : i \in DOMAIN out}

(* A drained index, and an export, holds every file that was there from    *)
(* the call's start to its end (the index without malformed keys), no file *)
(* twice, and an entity's files in order - whatever was created, deleted   *)
(* or overwritten between the pages, the key a page resumes after included *)
(* (core.py 974, gcs.py 184).                                              *)
ListedOnce ==
  Listing =>
    /\ (IF call = "index" THEN stable \ Malformed ELSE stable) \subseteq OutKeys
    /\ \A i, j \in DOMAIN out :
         i < j => IF EntityOf[out[i].key] = EntityOf[out[j].key]
                    THEN out[i].key < out[j].key ELSE out[i].key # out[j].key

(* What a scan returns existed while it ran, and an exported object's      *)
(* bytes, metadata and version are those of one write although they are    *)
(* fetched by two requests (gcs.py 80).                                    *)
FromOneWrite ==
  Listing => \A i \in DOMAIN out :
    /\ [key |-> out[i].key, gen |-> out[i].gen] \in lived
    /\ out[i].data = out[i].gen

(* The index accounts for every file drained, as an entry or in capped;    *)
(* no file left out comes before one that is in; the entries fit the       *)
(* budget, and with the first file left out they would not (core.py 1040). *)
IndexAccountsForAll ==
  Returned("index") =>
    LET shown == index.entries
        kept == {shown[i].key : i \in DOMAIN shown}
        left == {o \in {out[i] : i \in DOMAIN out} : o.key \notin kept}
        Left(area) == Cardinality({o \in left : AreaOf[o.key] = area})
    IN  /\ kept \subseteq OutKeys /\ Cardinality(kept) = Len(shown)
        /\ DOMAIN index.capped = {AreaOf[o.key] : o \in left}
        /\ \A area \in DOMAIN index.capped : index.capped[area] = Left(area)
        /\ \A o \in left, i \in DOMAIN shown : Before(shown[i], o)
        /\ Bytes(shown, Len(shown)) <= IndexBytes
        /\ \A o \in left : (\A p \in left \ {o} : Before(o, p)) =>
             Bytes(shown, Len(shown)) + EntryBytes[o.key] > IndexBytes

(* A purge that returns has had the entity empty at an instant after its   *)
(* last delete, and no exit, by return or by exception, leaves one of its  *)
(* deletes without an invalidation after it (core.py 1081-1129).           *)
PurgeErases ==
  /\ call = "purge" /\ pc = "idle" /\ answer \in {"ok", "cacheError"} => emptied
  /\ pc = "idle" => ~owing

(* PurgeIncompleteError blames the entity's writers, and rightly: there    *)
(* was a put under the prefix for each of the passes (core.py 1130).       *)
IncompleteNeedsWriters ==
  call = "purge" /\ answer = "incomplete" => written >= MaxPasses

(* Creates that race past the cap exceed it by their number at most, less  *)
(* one: the most that were in flight at once since the entity was last     *)
(* within its cap with none in flight.  A put whose call has failed, and   *)
(* that may still land after the next creates have counted, is one of them *)
(* (core.py 742, gcs.py 138; system/ and malformed keys do not count).     *)
CapHolds ==
  \A e \in Entities : Cardinality(CountedIn(bucket, e)) <= FileLimit + races[e] - 1

(* A create refused for its quota met that many files during the call.     *)
QuotaIsHonest ==
  \A c \in Creators : canswer[c] = "quota" => Cardinality(cseen[c]) >= FileLimit

(* Every scan and every create ends, whatever the others do: cursors move, *)
(* passes and attempts are counted.                                        *)
CallsEnd == []<>(pc = "idle") /\ \A c \in Creators : []<>(cpc[c] = "idle")
=============================================================================
