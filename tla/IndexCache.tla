----------------------------- MODULE IndexCache -----------------------------
(***************************************************************************)
(* The optional cache behind MemoryStore.get_memory_index, for one entity  *)
(* (core.py: _cached_entity_entries, _drain, _put_if_version,              *)
(* _delete_if_version, _invalidate_path, invalidate_index; index_cache.py).*)
(*                                                                         *)
(* Readers and writers of any number of hosts share the storage and the    *)
(* cache.  Every storage call and every cache get or set is one step.  A   *)
(* file's state is abstracted to the number of changes made to it, so a    *)
(* listing is a function from the entity's keys to such numbers, and one   *)
(* listing covers another when it is at least as recent on every key.      *)
(* A listing is drained page by page, in key order, while writers write.   *)
(***************************************************************************)
EXTENDS Naturals, FiniteSets

CONSTANTS
  NKeys,        \* the entity's files, in listing order
  PageSize,     \* list_page_size
  Writers, Readers,
  CacheFaults,  \* which cache faults may happen (see AllCacheFaults)
  MaxChanges,   \* bound: mutations, invalidate_index calls and bypassing writes
  MaxFaults,    \* bound: cache and storage faults, crashes
  MaxExpiries   \* bound: entries dropped by ttl or eviction

Keys == 1..NKeys

(* get:      cache.get raises or returns something that is not a str.      *)
(* set:      cache.set raises and nothing is stored.                       *)
(* late:     cache.set raises (a timeout) but takes effect afterwards,     *)
(*           except when it sets the token of a reader that found none.    *)
(* lateMint: the same for that set.                                        *)
AllCacheFaults == {"get", "set", "late", "lateMint"}

ASSUME CacheAssumption ==
  /\ NKeys \in Nat \ {0}
  /\ PageSize \in Nat \ {0}
  /\ CacheFaults \subseteq AllCacheFaults
  /\ MaxChanges \in Nat /\ MaxFaults \in Nat /\ MaxExpiries \in Nat

Listing == [Keys -> Nat]
Covers(new, old) == \A k \in Keys : new[k] >= old[k]
Nowhere == [k \in Keys |-> 0]
Newest(x, y) == [k \in Keys |-> IF x[k] >= y[k] THEN x[k] ELSE y[k]]

(* uuid4 tokens: 1, 2, ... in the order they are generated; 0 is no token. *)
Token == Nat
Tagged == [tag : Token, entries : Listing]

(* The listing key is absent, expired or tombstoned: a miss for any token. *)
NoListing == [tag |-> 0, entries |-> Nowhere]

VARIABLES
  disk,     \* [key -> changes committed to it in storage]
  lateIO,   \* keys of writes that raised and are still on their way
  token,    \* the cache's token entry
  listing,  \* the cache's listing entry
  lateSet,  \* cache sets that raised and are still on their way
  minted,   \* tokens generated so far
  wpc,      \* [writer -> the call it makes next, or "idle"]
  job,      \* [writer -> what it is doing]
  owed,     \* [writer -> the changes its invalidation is about]
  rpc,      \* [reader -> the call it makes next, or "idle"]
  seen,     \* [reader -> the token it got or generated]
  next,     \* [reader -> the key its next page starts at]
  got,      \* [reader -> what it has listed so far, or returned]
  settled,  \* history: the changes whose invalidation has completed
  promised, \* history: [reader -> what was settled when it started]
  changes, troubles, expiries

cache == <<token, listing, lateSet>>
writer == <<wpc, job, owed>>
reader == <<rpc, seen, next, got, promised>>
bounds == <<changes, troubles, expiries>>
vars == <<disk, lateIO, cache, minted, writer, reader, settled, bounds>>

Idle == [kind |-> "none", key |-> 1]
Job == [kind : {"none", "put", "delete", "invalidate"}, key : Keys]

LateSet == [to : {"token"}, value : Token] \union [to : {"listing"}, value : Tagged]

TypeOK ==
  /\ disk \in Listing
  /\ lateIO \subseteq Keys
  /\ token \in 0..minted
  /\ listing \in [tag : 0..minted, entries : Listing]
  /\ lateSet \subseteq LateSet
  /\ minted \in Nat
  /\ wpc \in [Writers -> {"idle", "storage", "token", "tombstone"}]
  /\ job \in [Writers -> Job]
  /\ owed \in [Writers -> Listing]
  /\ rpc \in [Readers -> {"idle", "token", "mint", "listing", "drain", "store"}]
  /\ seen \in [Readers -> 0..minted]
  /\ next \in [Readers -> 1..(NKeys + 1)]
  /\ got \in [Readers -> Listing]
  /\ settled \in Listing
  /\ promised \in [Readers -> Listing]
  /\ changes \in 0..MaxChanges
  /\ troubles \in 0..MaxFaults
  /\ expiries \in 0..MaxExpiries

Init ==
  /\ disk = Nowhere
  /\ lateIO = {}
  /\ token = 0
  /\ listing = NoListing
  /\ lateSet = {}
  /\ minted = 0
  /\ wpc = [w \in Writers |-> "idle"]
  /\ job = [w \in Writers |-> Idle]
  /\ owed = [w \in Writers |-> Nowhere]
  /\ rpc = [r \in Readers |-> "idle"]
  /\ seen = [r \in Readers |-> 0]
  /\ next = [r \in Readers |-> 1]
  /\ got = [r \in Readers |-> Nowhere]
  /\ settled = Nowhere
  /\ promised = [r \in Readers |-> Nowhere]
  /\ changes = 0 /\ troubles = 0 /\ expiries = 0

Trouble ==
  /\ troubles < MaxFaults
  /\ troubles' = troubles + 1
  /\ UNCHANGED <<changes, expiries>>

(* A cache fault of this kind: what cache.set does when it does not store. *)
Fault(kind) == kind \in CacheFaults /\ Trouble

-----------------------------------------------------------------------------
(* Writers: write_file, append_line, one attempt of replace_fact ("put")   *)
(* and delete_file, from their conditional storage call on, and            *)
(* invalidate_index.                                                       *)

WriterGoes(w, pc) == wpc' = [wpc EXCEPT ![w] = pc]
Finish(w) ==
  /\ WriterGoes(w, "idle")
  /\ job' = [job EXCEPT ![w] = Idle]
  /\ owed' = [owed EXCEPT ![w] = Nowhere]

BeginChange(w) ==
  /\ wpc[w] = "idle"
  /\ changes < MaxChanges
  /\ changes' = changes + 1
  /\ \E kind \in {"put", "delete"}, k \in Keys :
       job' = [job EXCEPT ![w] = [kind |-> kind, key |-> k]]
  /\ WriterGoes(w, "storage")
  /\ UNCHANGED <<disk, lateIO, cache, minted, owed, reader, settled, troubles,
                 expiries>>

(* The conditional put or delete commits; it returns, or it raises because *)
(* its response was lost: the invalidation runs either way (finally).      *)
StorageCommits(w) ==
  /\ wpc[w] = "storage"
  /\ disk' = [disk EXCEPT ![job[w].key] = @ + 1]
  /\ owed' = [owed EXCEPT ![w] = [Nowhere EXCEPT ![job[w].key] = disk'[job[w].key]]]
  /\ WriterGoes(w, "token")
  /\ UNCHANGED <<lateIO, cache, minted, job, reader, settled, bounds>>

(* It raises PreconditionFailedError or BackendUnavailableError unstored.  *)
StorageRefuses(w) ==
  /\ wpc[w] = "storage"
  /\ WriterGoes(w, "token")
  /\ UNCHANGED <<disk, lateIO, cache, minted, job, owed, reader, settled, bounds>>

(* It raises BackendUnavailableError and commits later.                    *)
StorageTimesOut(w) ==
  /\ wpc[w] = "storage"
  /\ Trouble
  /\ lateIO' = lateIO \union {job[w].key}
  /\ WriterGoes(w, "token")
  /\ UNCHANGED <<disk, cache, minted, job, owed, reader, settled>>

LateCommit ==
  \E k \in lateIO :
    /\ lateIO' = lateIO \ {k}
    /\ disk' = [disk EXCEPT ![k] = @ + 1]
    /\ UNCHANGED <<cache, minted, writer, reader, settled, bounds>>

(* invalidate_index: what is in storage when it is called must be seen.    *)
BeginInvalidate(w) ==
  /\ wpc[w] = "idle"
  /\ changes < MaxChanges
  /\ changes' = changes + 1
  /\ job' = [job EXCEPT ![w] = [kind |-> "invalidate", key |-> 1]]
  /\ owed' = [owed EXCEPT ![w] = disk]
  /\ WriterGoes(w, "token")
  /\ UNCHANGED <<disk, lateIO, cache, minted, reader, settled, troubles, expiries>>

(* After the token, a delete and invalidate_index tombstone the listing.   *)
AfterToken(w) ==
  IF job[w].kind = "put"
  THEN Finish(w)
  ELSE WriterGoes(w, "tombstone") /\ UNCHANGED <<job, owed>>

(* Mutant: the new token may be one that was generated before. *)
ReplaceToken_Reused(w) ==
  /\ wpc[w] = "token"
  /\ token' = minted + 1
  /\ settled' = Newest(settled, owed[w])
  /\ AfterToken(w)
  /\ UNCHANGED <<disk, lateIO, listing, lateSet, minted, reader, bounds>>

ReplaceToken(w) ==
  /\ wpc[w] = "token"
  /\ minted' = minted + 1
  /\ token' = minted'
  /\ settled' = Newest(settled, owed[w])
  /\ AfterToken(w)
  /\ UNCHANGED <<disk, lateIO, listing, lateSet, reader, bounds>>

(* The set fails: _cache_set swallows it and goes on; invalidate_index     *)
(* propagates it and does not reach the tombstone.                         *)
ReplaceTokenFails(w) ==
  /\ wpc[w] = "token"
  /\ minted' = minted + 1
  /\ \/ Fault("set") /\ UNCHANGED lateSet
     \/ Fault("late") /\ lateSet' = lateSet \union {[to |-> "token", value |-> minted']}
  /\ IF job[w].kind = "invalidate" THEN Finish(w) ELSE AfterToken(w)
  /\ UNCHANGED <<disk, lateIO, token, listing, reader, settled>>

Tombstone(w) ==
  /\ wpc[w] = "tombstone"
  /\ listing' = NoListing
  /\ Finish(w)
  /\ UNCHANGED <<disk, lateIO, token, lateSet, minted, reader, settled, bounds>>

TombstoneFails(w) ==
  /\ wpc[w] = "tombstone"
  /\ \/ Fault("set") /\ UNCHANGED lateSet
     \/ Fault("late") /\ lateSet' = lateSet \union {[to |-> "listing", value |-> NoListing]}
  /\ Finish(w)
  /\ UNCHANGED <<disk, lateIO, token, listing, minted, reader, settled>>

(* The process dies between its storage call and its cache calls.          *)
Crash(w) ==
  /\ wpc[w] # "idle"
  /\ Trouble
  /\ Finish(w)
  /\ UNCHANGED <<disk, lateIO, cache, minted, reader, settled>>

(* A purge, a seeding script, a store configured without the cache.        *)
Bypass ==
  /\ changes < MaxChanges
  /\ changes' = changes + 1
  /\ \E k \in Keys : disk' = [disk EXCEPT ![k] = @ + 1]
  /\ UNCHANGED <<lateIO, cache, minted, writer, reader, settled, troubles, expiries>>

-----------------------------------------------------------------------------
(* Readers: _cached_entity_entries. *)

ReaderGoes(r, pc) == rpc' = [rpc EXCEPT ![r] = pc]

BeginIndex(r) ==
  /\ rpc[r] = "idle"
  /\ ReaderGoes(r, "token")
  /\ promised' = [promised EXCEPT ![r] = settled]
  /\ got' = [got EXCEPT ![r] = Nowhere]
  /\ UNCHANGED <<disk, lateIO, cache, minted, writer, seen, next, settled, bounds>>

GetToken(r) ==
  /\ rpc[r] = "token"
  /\ token # 0
  /\ seen' = [seen EXCEPT ![r] = token]
  /\ ReaderGoes(r, "listing")
  /\ UNCHANGED <<disk, lateIO, cache, minted, writer, next, got, promised, settled, bounds>>

(* No token, or a failed get: generate one. *)
MissToken(r) ==
  /\ rpc[r] = "token"
  /\ \/ token = 0 /\ UNCHANGED bounds
     \/ Fault("get")
  /\ minted' = minted + 1
  /\ seen' = [seen EXCEPT ![r] = minted']
  /\ ReaderGoes(r, "mint")
  /\ UNCHANGED <<disk, lateIO, cache, writer, next, got, promised, settled>>

SetToken(r) ==
  /\ rpc[r] = "mint"
  /\ token' = seen[r]
  /\ ReaderGoes(r, "drain")
  /\ UNCHANGED <<disk, lateIO, listing, lateSet, minted, writer, seen, next, got, promised,
                 settled, bounds>>

(* The failure is swallowed and the reader keeps using its token. *)
SetTokenFails(r) ==
  /\ rpc[r] = "mint"
  /\ \/ Fault("set") /\ UNCHANGED lateSet
     \/ Fault("lateMint") /\ lateSet' = lateSet \union {[to |-> "token", value |-> seen[r]]}
  /\ ReaderGoes(r, "drain")
  /\ UNCHANGED <<disk, lateIO, token, listing, minted, writer, seen, next, got, promised, settled>>

(* Mutant: any listing found is used. *)
Hit_AnyTag(r) ==
  /\ rpc[r] = "listing"
  /\ listing.tag # 0
  /\ got' = [got EXCEPT ![r] = listing.entries]
  /\ seen' = [seen EXCEPT ![r] = 0]
  /\ ReaderGoes(r, "idle")
  /\ UNCHANGED <<disk, lateIO, cache, minted, writer, next, promised, settled, bounds>>

(* _decode_listing: the listing counts only under the token just read. *)
Hit(r) ==
  /\ rpc[r] = "listing"
  /\ listing.tag = seen[r]
  /\ got' = [got EXCEPT ![r] = listing.entries]
  /\ seen' = [seen EXCEPT ![r] = 0]
  /\ ReaderGoes(r, "idle")
  /\ UNCHANGED <<disk, lateIO, cache, minted, writer, next, promised, settled, bounds>>

Miss(r) ==
  /\ rpc[r] = "listing"
  /\ \/ listing.tag # seen[r] /\ UNCHANGED bounds
     \/ Fault("get")
  /\ ReaderGoes(r, "drain")
  /\ UNCHANGED <<disk, lateIO, cache, minted, writer, seen, next, got, promised, settled>>

(* One list_page: the next PageSize keys, as they are now. *)
PageEnd(r) == IF next[r] + PageSize <= NKeys THEN next[r] + PageSize ELSE NKeys + 1

DrainPage(r) ==
  /\ rpc[r] = "drain"
  /\ got' = [got EXCEPT ![r] = [k \in Keys |->
       IF k \in next[r]..(PageEnd(r) - 1) THEN disk[k] ELSE got[r][k]]]
  /\ IF PageEnd(r) <= NKeys
     THEN next' = [next EXCEPT ![r] = PageEnd(r)] /\ UNCHANGED rpc
     ELSE next' = [next EXCEPT ![r] = 1] /\ ReaderGoes(r, "store")
  /\ UNCHANGED <<disk, lateIO, cache, minted, writer, seen, promised, settled, bounds>>

(* MetadataFormatError or BackendUnavailableError propagates; nothing is   *)
(* stored and nothing returned.                                            *)
DrainFails(r) ==
  /\ rpc[r] = "drain"
  /\ Trouble
  /\ next' = [next EXCEPT ![r] = 1]
  /\ seen' = [seen EXCEPT ![r] = 0]
  /\ got' = [got EXCEPT ![r] = Nowhere]
  /\ promised' = [promised EXCEPT ![r] = Nowhere]
  /\ ReaderGoes(r, "idle")
  /\ UNCHANGED <<disk, lateIO, cache, minted, writer, settled>>

(* Mutants: tag with the token of the moment it is stored; never overwrite *)
(* a tombstone.                                                            *)
StoreListing_Retagged(r) ==
  /\ rpc[r] = "store"
  /\ listing' = [tag |-> token, entries |-> got[r]]
  /\ seen' = [seen EXCEPT ![r] = 0]
  /\ ReaderGoes(r, "idle")
  /\ UNCHANGED <<disk, lateIO, token, lateSet, minted, writer, next, got, promised, settled,
                 bounds>>

StoreListing_KeepsTombstone(r) ==
  /\ rpc[r] = "store"
  /\ listing' = IF listing = NoListing
                THEN NoListing
                ELSE [tag |-> seen[r], entries |-> got[r]]
  /\ seen' = [seen EXCEPT ![r] = 0]
  /\ ReaderGoes(r, "idle")
  /\ UNCHANGED <<disk, lateIO, token, lateSet, minted, writer, next, got, promised, settled,
                 bounds>>

(* Store the listing under the token seen before it was drained, return.   *)
StoreListing(r) ==
  /\ rpc[r] = "store"
  /\ listing' = [tag |-> seen[r], entries |-> got[r]]
  /\ seen' = [seen EXCEPT ![r] = 0]
  /\ ReaderGoes(r, "idle")
  /\ UNCHANGED <<disk, lateIO, token, lateSet, minted, writer, next, got, promised, settled,
                 bounds>>

StoreListingFails(r) ==
  /\ rpc[r] = "store"
  /\ \/ Fault("set") /\ UNCHANGED lateSet
     \/ /\ Fault("late")
        /\ lateSet' = lateSet \union
             {[to |-> "listing", value |-> [tag |-> seen[r], entries |-> got[r]]]}
  /\ seen' = [seen EXCEPT ![r] = 0]
  /\ ReaderGoes(r, "idle")
  /\ UNCHANGED <<disk, lateIO, token, listing, minted, writer, next, got, promised, settled>>

-----------------------------------------------------------------------------
(* The cache by itself. *)

(* A set that raised takes effect after all. *)
SetLands ==
  \E s \in lateSet :
    /\ lateSet' = lateSet \ {s}
    /\ \/ s.to = "token" /\ token' = s.value /\ UNCHANGED listing
       \/ s.to = "listing" /\ listing' = s.value /\ UNCHANGED token
    /\ UNCHANGED <<disk, lateIO, minted, writer, reader, settled, bounds>>

(* InMemoryIndexCache.get drops an entry past its ttl; any cache may evict. *)
Expire ==
  /\ expiries < MaxExpiries
  /\ expiries' = expiries + 1
  /\ \/ token' = 0 /\ UNCHANGED listing
     \/ listing' = NoListing /\ UNCHANGED token
  /\ UNCHANGED <<disk, lateIO, lateSet, minted, writer, reader, settled, changes,
                 troubles>>

-----------------------------------------------------------------------------
WriterStep(w) ==
  \/ StorageCommits(w) \/ StorageRefuses(w)
  \/ ReplaceToken(w) \/ Tombstone(w)

WriterTrouble(w) ==
  StorageTimesOut(w) \/ ReplaceTokenFails(w) \/ TombstoneFails(w) \/ Crash(w)

ReaderStep(r) ==
  \/ GetToken(r) \/ MissToken(r) \/ SetToken(r) \/ Hit(r) \/ Miss(r)
  \/ DrainPage(r) \/ StoreListing(r)

ReaderTrouble(r) == SetTokenFails(r) \/ DrainFails(r) \/ StoreListingFails(r)

Next ==
  \/ \E w \in Writers :
       BeginChange(w) \/ BeginInvalidate(w) \/ WriterStep(w) \/ WriterTrouble(w)
  \/ \E r \in Readers : BeginIndex(r) \/ ReaderStep(r) \/ ReaderTrouble(r)
  \/ LateCommit \/ Bypass \/ SetLands \/ Expire

(* A reader inside get_memory_index goes on; a call, a fault or an expiry   *)
(* need not happen, and nothing here relies on a writer finishing.         *)
Spec == Init /\ [][Next]_vars /\ \A r \in Readers : WF_vars(ReaderStep(r))

-----------------------------------------------------------------------------
(* Freshness: an index shows every change whose invalidation had completed  *)
(* when get_memory_index was called, whether it came from the cache or from *)
(* a listing that writers overtook half way (ADR 0040, decision 3).         *)
IndexIsFresh ==
  \A r \in Readers : rpc[r] = "idle" => Covers(got[r], promised[r])

(* Why: a listing whose tag is the current token misses no change whose     *)
(* invalidation has completed (ADR 0040, line 49).                          *)
TagIsCurrent ==
  (token # 0 /\ listing.tag = token) => Covers(listing.entries, settled)

(* The cache is worth having: once changes, faults and expiries stop, every *)
(* later index call is a hit; racing readers do not invalidate each other   *)
(* for ever ("lists each entity once until something writes to it", ADR     *)
(* 0040, line 167).                                                         *)
SettlesIntoHits ==
  <>[](\A r \in Readers : rpc[r] \notin {"mint", "drain", "store"})
=============================================================================
