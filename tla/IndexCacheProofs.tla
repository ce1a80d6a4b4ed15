--------------------------- MODULE IndexCacheProofs ---------------------------
(***************************************************************************)
(* Freshness of the cached index, for any number of hosts, keys, pages,    *)
(* faults, crashes and expiries.                                           *)
(***************************************************************************)
EXTENDS IndexCache, TLAPS

-----------------------------------------------------------------------------
(* The inductive invariant. *)

(* A reader at one of these holds a token. *)
Holding == {"mint", "listing", "drain", "store"}

(* Late sets carry what was generated. *)
LateTyped ==
  \A s \in lateSet :
    /\ s.to = "token" => s.value \in 1..minted
    /\ s.to = "listing" => s.value \in [tag : 0..minted, entries : Listing]

(* A reader that holds a token has one, and a drain starts at the first key. *)
ReadersInOrder ==
  \A r \in Readers :
    /\ rpc[r] \in Holding => seen[r] # 0
    /\ rpc[r] # "drain" => next[r] = 1

(* Storage is at least as recent as what was settled or is owed. *)
DiskIsAhead ==
  /\ Covers(disk, settled)
  /\ \A w \in Writers : Covers(disk, owed[w])
  /\ \A r \in Readers : Covers(settled, promised[r])

(* A token that a reader generated and has not set is known to it alone, *)
MintIsOwn ==
  \A r \in Readers : rpc[r] = "mint" =>
    /\ token # seen[r]
    /\ listing.tag # seen[r]
    /\ \A s \in lateSet : s.to = "listing" => s.value.tag # seen[r]
    /\ \A q \in Readers \ {r} : rpc[q] \in Holding => seen[q] # seen[r]

(* and a token on its way to the cache to nobody. *)
LateTokenIsOwn ==
  \A s \in lateSet : s.to = "token" =>
    /\ token # s.value
    /\ listing.tag # s.value
    /\ \A x \in lateSet : x.to = "listing" => x.value.tag # s.value
    /\ \A q \in Readers : rpc[q] \in Holding => seen[q] # s.value

(* On these keys, entries tagged t show what was settled while t is, or was, *)
(* the current token: it is now, or a reader has read it from the cache.   *)
LivesUp(t, entries, keys) ==
  /\ token = t => \A k \in keys : entries[k] >= settled[k]
  /\ \A r \in Readers : rpc[r] = "listing" /\ seen[r] = t =>
       \A k \in keys : entries[k] >= promised[r][k]

ListingLivesUp ==
  listing.tag # 0 => LivesUp(listing.tag, listing.entries, Keys)

LateListingsLiveUp ==
  \A s \in lateSet : s.to = "listing" /\ s.value.tag # 0 =>
    LivesUp(s.value.tag, s.value.entries, Keys)

(* The keys a reader has listed. *)
Done(r) == IF rpc[r] = "store" THEN Keys ELSE 1..(next[r] - 1)

DraftsLiveUp ==
  \A r \in Readers : rpc[r] \in {"drain", "store"} =>
    /\ LivesUp(seen[r], got[r], Done(r))
    /\ \A k \in Done(r) : got[r][k] >= promised[r][k]

TypeInv == TypeOK /\ LateTyped /\ ReadersInOrder

FreshInv ==
  /\ DiskIsAhead
  /\ MintIsOwn /\ LateTokenIsOwn
  /\ ListingLivesUp /\ LateListingsLiveUp /\ DraftsLiveUp
  /\ IndexIsFresh

-----------------------------------------------------------------------------
(* Types. *)

LEMMA ListingTypes ==
  /\ Nowhere \in Listing
  /\ \A f \in Listing, k \in Keys :
       [f EXCEPT ![k] = @ + 1] \in Listing /\ f[k] \in Nat
  /\ \A k \in Keys, n \in Nat : [Nowhere EXCEPT ![k] = n] \in Listing
  /\ \A f, g \in Listing : Newest(f, g) \in Listing
  BY DEF Nowhere, Listing, Newest

LEMMA IdleType == Idle \in Job /\ 1 \in Keys
  BY CacheAssumption DEF Idle, Job, Keys

LEMMA NoListingType == NoListing.tag = 0 /\ NoListing.entries \in Listing
  BY ListingTypes DEF NoListing

LEMMA InitTypeInv == Init => TypeInv
  <1> SUFFICES ASSUME Init PROVE TypeInv
    OBVIOUS
  <1>1. TypeOK
    <2> USE ListingTypes, IdleType, CacheAssumption DEF Init
    <2>1. listing \in [tag : 0..minted, entries : Listing]
      BY DEF NoListing
    <2>2. next \in [Readers -> 1..(NKeys + 1)]
      BY DEF Keys
    <2>3. QED
      BY <2>1, <2>2 DEF TypeOK
  <1>2. LateTyped /\ ReadersInOrder
    BY DEF Init, LateTyped, ReadersInOrder, Holding
  <1>3. QED
    BY <1>1, <1>2 DEF TypeInv

(* A writer's step. *)
LEMMA WriterTypes ==
  ASSUME TypeInv, NEW w \in Writers,
         \/ BeginChange(w) \/ BeginInvalidate(w) \/ WriterStep(w) \/ WriterTrouble(w)
  PROVE  TypeInv'
  <1> USE DEF TypeInv
  <1>1. job[w].key \in Keys /\ disk[job[w].key] \in Nat
    BY ListingTypes DEF TypeOK, Job
  <1>2. UNCHANGED <<rpc, seen, next, got, promised>>
    BY DEF BeginChange, BeginInvalidate, WriterStep, WriterTrouble, StorageCommits,
           StorageRefuses, ReplaceToken, Tombstone, StorageTimesOut, ReplaceTokenFails,
           TombstoneFails, Crash, reader
  <1>3. ReadersInOrder'
    BY <1>2 DEF ReadersInOrder
  <1>4. /\ minted' \in Nat /\ minted' >= minted
        /\ changes' \in 0..MaxChanges /\ troubles' \in 0..MaxFaults
        /\ expiries' = expiries
    BY CacheAssumption
       DEF TypeOK, BeginChange, BeginInvalidate, WriterStep, WriterTrouble, StorageCommits,
           StorageRefuses, ReplaceToken, Tombstone, StorageTimesOut, ReplaceTokenFails,
           TombstoneFails, Crash, Trouble, Fault, bounds
  <1>5. disk' \in Listing /\ lateIO' \subseteq Keys /\ settled' \in Listing
    <2>1. CASE StorageCommits(w)
      BY <1>1, <2>1, ListingTypes DEF TypeOK, StorageCommits
    <2>2. CASE StorageTimesOut(w)
      BY <1>1, <2>2 DEF TypeOK, StorageTimesOut
    <2>3. CASE ReplaceToken(w)
      <3>1. owed[w] \in Listing /\ settled \in Listing
        BY DEF TypeOK
      <3>2. QED
        BY <2>3, <3>1, ListingTypes DEF TypeOK, ReplaceToken
    <2>4. CASE ~(StorageCommits(w) \/ StorageTimesOut(w) \/ ReplaceToken(w))
      BY <2>4
         DEF TypeOK, BeginChange, BeginInvalidate, WriterStep, WriterTrouble, StorageRefuses,
             Tombstone, ReplaceTokenFails, TombstoneFails, Crash
    <2>5. QED
      BY <2>1, <2>2, <2>3, <2>4
  <1>6. /\ wpc' \in [Writers -> {"idle", "storage", "token", "tombstone"}]
        /\ job' \in [Writers -> Job]
    BY IdleType
       DEF TypeOK, BeginChange, BeginInvalidate, WriterStep, WriterTrouble, StorageCommits,
           StorageRefuses, ReplaceToken, Tombstone, StorageTimesOut, ReplaceTokenFails,
           TombstoneFails, Crash, WriterGoes, Finish, AfterToken, Job, writer
  <1>7. owed' \in [Writers -> Listing]
    <2>1. CASE StorageCommits(w)
      <3>1. disk'[job[w].key] \in Nat
        BY <1>1, <1>5, ListingTypes
      <3>2. [Nowhere EXCEPT ![job[w].key] = disk'[job[w].key]] \in Listing
        BY <1>1, <3>1, ListingTypes
      <3>3. QED
        BY <2>1, <3>2 DEF TypeOK, StorageCommits
    <2>2. CASE BeginInvalidate(w)
      BY <2>2 DEF TypeOK, BeginInvalidate
    <2>3. CASE ~(StorageCommits(w) \/ BeginInvalidate(w))
      BY <2>3, ListingTypes
         DEF TypeOK, BeginChange, WriterStep, WriterTrouble, StorageRefuses, ReplaceToken,
             Tombstone, StorageTimesOut, ReplaceTokenFails, TombstoneFails, Crash, Finish,
             AfterToken, writer
    <2>4. QED
      BY <2>1, <2>2, <2>3
  <1>8. token' \in 0..minted' /\ listing' \in [tag : 0..minted', entries : Listing]
    BY <1>4, ListingTypes
       DEF TypeOK, BeginChange, BeginInvalidate, WriterStep, WriterTrouble, StorageCommits,
           StorageRefuses, ReplaceToken, Tombstone, StorageTimesOut, ReplaceTokenFails,
           TombstoneFails, Crash, cache, NoListing
  <1>9. LateTyped' /\ lateSet' \subseteq LateSet
    <2>1. CASE lateSet' = lateSet
      BY <1>4, <2>1 DEF TypeOK, LateTyped
    <2>2. CASE /\ minted' = minted + 1
               /\ lateSet' = lateSet \union {[to |-> "token", value |-> minted']}
      BY <1>4, <2>2 DEF TypeOK, LateTyped, LateSet, Token
    <2>3. CASE /\ minted' = minted
               /\ lateSet' = lateSet \union {[to |-> "listing", value |-> NoListing]}
      <3>1. NoListing \in [tag : 0..minted, entries : Listing] /\ NoListing \in Tagged
        BY ListingTypes DEF TypeOK, NoListing, Tagged, Token
      <3>2. QED
        BY <2>3, <3>1 DEF TypeOK, LateTyped, LateSet
    <2>4. QED
      BY <2>1, <2>2, <2>3
         DEF BeginChange, BeginInvalidate, WriterStep, WriterTrouble, StorageCommits,
             StorageRefuses, ReplaceToken, Tombstone, StorageTimesOut, ReplaceTokenFails,
             TombstoneFails, Crash, cache
  <1>10. QED
    BY <1>2, <1>3, <1>4, <1>5, <1>6, <1>7, <1>8, <1>9 DEF TypeOK

(* A reader's step. *)
LEMMA ReaderTypes ==
  ASSUME TypeInv, NEW r \in Readers, BeginIndex(r) \/ ReaderStep(r) \/ ReaderTrouble(r)
  PROVE  TypeInv'
  <1> USE DEF TypeInv
  <1>1. UNCHANGED <<disk, lateIO, writer, settled, changes, expiries>>
    BY DEF BeginIndex, ReaderStep, ReaderTrouble, GetToken, MissToken, SetToken, Hit, Miss,
           DrainPage, StoreListing, SetTokenFails, DrainFails, StoreListingFails, bounds,
           Fault, Trouble
  <1>2. /\ minted' \in Nat /\ minted' >= minted
        /\ minted' # minted => minted' = minted + 1 /\ UNCHANGED lateSet
        /\ troubles' \in 0..MaxFaults
    BY CacheAssumption
       DEF TypeOK, BeginIndex, ReaderStep, ReaderTrouble, GetToken, MissToken, SetToken, Hit,
           Miss, DrainPage, StoreListing, SetTokenFails, DrainFails, StoreListingFails,
           bounds, cache, Fault, Trouble
  <1>3. /\ rpc' \in [Readers -> {"idle", "token", "mint", "listing", "drain", "store"}]
        /\ \A q \in Readers \ {r} : rpc'[q] = rpc[q] /\ seen'[q] = seen[q] /\ next'[q] = next[q]
    BY DEF TypeOK, BeginIndex, ReaderStep, ReaderTrouble, GetToken, MissToken, SetToken, Hit,
           Miss, DrainPage, StoreListing, SetTokenFails, DrainFails, StoreListingFails,
           ReaderGoes
  <1>4. seen' \in [Readers -> 0..minted'] /\ token' \in 0..minted'
    BY <1>2
       DEF TypeOK, BeginIndex, ReaderStep, ReaderTrouble, GetToken, MissToken, SetToken, Hit,
           Miss, DrainPage, StoreListing, SetTokenFails, DrainFails, StoreListingFails, cache
  <1>5. next' \in [Readers -> 1..(NKeys + 1)]
    <2>1. PageEnd(r) \in Nat /\ PageEnd(r) >= 1
      BY CacheAssumption DEF PageEnd, TypeOK
    <2>2. CASE DrainPage(r)
      BY <2>1, <2>2, CacheAssumption DEF TypeOK, DrainPage
    <2>3. CASE DrainFails(r)
      BY <2>3, CacheAssumption DEF TypeOK, DrainFails
    <2>4. CASE ~(DrainPage(r) \/ DrainFails(r))
      BY <2>4
         DEF TypeOK, BeginIndex, ReaderStep, ReaderTrouble, GetToken, MissToken, SetToken,
             Hit, Miss, StoreListing, SetTokenFails, StoreListingFails
    <2>5. QED
      BY <2>2, <2>3, <2>4
  <1>6. promised' \in [Readers -> Listing] /\ got' \in [Readers -> Listing]
    <2>1. CASE DrainPage(r)
      <3>1. [k \in Keys |-> IF k \in next[r]..(PageEnd(r) - 1) THEN disk[k] ELSE got[r][k]]
              \in Listing
        BY DEF TypeOK, Listing
      <3>2. QED
        BY <2>1, <3>1 DEF TypeOK, DrainPage
    <2>2. CASE ~DrainPage(r)
      <3>1. \/ UNCHANGED got
            \/ got' = [got EXCEPT ![r] = Nowhere]
            \/ got' = [got EXCEPT ![r] = listing.entries]
        BY <2>2
           DEF BeginIndex, ReaderStep, ReaderTrouble, GetToken, MissToken, SetToken, Hit,
               Miss, StoreListing, SetTokenFails, DrainFails, StoreListingFails
      <3>2. \/ UNCHANGED promised
            \/ promised' = [promised EXCEPT ![r] = settled]
            \/ promised' = [promised EXCEPT ![r] = Nowhere]
        BY <2>2
           DEF BeginIndex, ReaderStep, ReaderTrouble, GetToken, MissToken, SetToken, Hit,
               Miss, StoreListing, SetTokenFails, DrainFails, StoreListingFails
      <3>3. Nowhere \in Listing /\ listing.entries \in Listing /\ settled \in Listing
        BY ListingTypes DEF TypeOK
      <3>4. QED
        BY <3>1, <3>2, <3>3 DEF TypeOK
    <2>3. QED
      BY <2>1, <2>2
  <1>7. listing' \in [tag : 0..minted', entries : Listing]
    BY <1>2
       DEF TypeOK, BeginIndex, ReaderStep, ReaderTrouble, GetToken, MissToken, SetToken, Hit,
           Miss, DrainPage, StoreListing, SetTokenFails, DrainFails, StoreListingFails, cache
  <1>8. LateTyped' /\ lateSet' \subseteq LateSet
    <2>1. CASE lateSet' = lateSet
      BY <1>2, <2>1 DEF TypeOK, LateTyped
    <2>2. CASE SetTokenFails(r) /\ lateSet' # lateSet
      <3>1. seen[r] \in 1..minted
        BY <2>2 DEF TypeOK, SetTokenFails, ReadersInOrder, Holding
      <3>2. lateSet' = lateSet \union {[to |-> "token", value |-> seen[r]]}
        BY <2>2 DEF SetTokenFails
      <3>3. minted' = minted
        BY <2>2 DEF SetTokenFails
      <3>4. QED
        BY <3>1, <3>2, <3>3 DEF TypeOK, LateTyped, LateSet, Token
    <2>3. CASE StoreListingFails(r) /\ lateSet' # lateSet
      <3>1. /\ [tag |-> seen[r], entries |-> got[r]] \in [tag : 0..minted, entries : Listing]
            /\ [tag |-> seen[r], entries |-> got[r]] \in Tagged
        BY DEF TypeOK, Tagged, Token
      <3>2. QED
        BY <2>3, <3>1 DEF TypeOK, LateTyped, LateSet, StoreListingFails
    <2>4. QED
      BY <2>1, <2>2, <2>3
         DEF BeginIndex, ReaderStep, ReaderTrouble, GetToken, MissToken, SetToken, Hit, Miss,
             DrainPage, StoreListing, DrainFails, cache
  <1>9. ReadersInOrder'
    <2>1. /\ rpc'[r] \in Holding => seen'[r] # 0
          /\ rpc'[r] # "drain" => next'[r] = 1
      BY <1>2
         DEF ReadersInOrder, Holding, TypeOK, BeginIndex, ReaderStep, ReaderTrouble, GetToken,
             MissToken, SetToken, Hit, Miss, DrainPage, StoreListing, SetTokenFails,
             DrainFails, StoreListingFails, ReaderGoes
    <2>2. QED
      BY <1>3, <2>1 DEF ReadersInOrder
  <1>10. QED
    BY <1>1, <1>2, <1>3, <1>4, <1>5, <1>6, <1>7, <1>8, <1>9 DEF TypeOK, writer

LEMMA CacheTypes ==
  ASSUME TypeInv, LateCommit \/ Bypass \/ SetLands \/ Expire \/ UNCHANGED vars
  PROVE  TypeInv'
  <1> USE DEF TypeInv
  <1>1. CASE LateCommit
    <2>1. PICK k \in lateIO : /\ lateIO' = lateIO \ {k}
                             /\ disk' = [disk EXCEPT ![k] = @ + 1]
                             /\ UNCHANGED <<cache, minted, writer, reader, settled, bounds>>
      BY <1>1 DEF LateCommit
    <2>2. disk' \in Listing /\ lateIO' \subseteq Keys
      BY <2>1, ListingTypes DEF TypeOK
    <2>3. QED
      BY <2>1, <2>2 DEF TypeOK, LateTyped, ReadersInOrder, cache, writer, reader, bounds
  <1>2. CASE Bypass
    <2>1. PICK k \in Keys : disk' = [disk EXCEPT ![k] = @ + 1]
      BY <1>2 DEF Bypass
    <2>2. disk' \in Listing
      BY <2>1, ListingTypes DEF TypeOK
    <2>3. changes' \in 0..MaxChanges
      BY <1>2, CacheAssumption DEF TypeOK, Bypass
    <2>4. QED
      BY <1>2, <2>2, <2>3 DEF TypeOK, LateTyped, ReadersInOrder, Bypass, cache, writer, reader
  <1>3. CASE SetLands
    <2>1. /\ UNCHANGED <<disk, lateIO, minted, writer, reader, settled, bounds>>
          /\ lateSet' \subseteq lateSet
      BY <1>3 DEF SetLands
    <2>2. LateTyped' /\ ReadersInOrder'
      BY <2>1 DEF LateTyped, ReadersInOrder, reader
    <2>3. token' \in 0..minted /\ listing' \in [tag : 0..minted, entries : Listing]
      BY <1>3 DEF SetLands, LateTyped, TypeOK
    <2>4. QED
      BY <2>1, <2>2, <2>3 DEF TypeOK, writer, reader, bounds
  <1>4. CASE Expire
    <2>1. /\ UNCHANGED <<disk, lateIO, lateSet, minted, writer, reader, settled, changes,
                         troubles>>
          /\ expiries' \in 0..MaxExpiries
      BY <1>4, CacheAssumption DEF Expire, TypeOK
    <2>2. LateTyped' /\ ReadersInOrder'
      BY <2>1 DEF LateTyped, ReadersInOrder, reader
    <2>3. NoListing \in [tag : 0..minted, entries : Listing] /\ 0 \in 0..minted
      BY ListingTypes DEF NoListing, TypeOK
    <2>4. token' \in 0..minted /\ listing' \in [tag : 0..minted, entries : Listing]
      BY <1>4, <2>3 DEF Expire, TypeOK
    <2>5. QED
      BY <2>1, <2>2, <2>4 DEF TypeOK, writer, reader
  <1>5. CASE UNCHANGED vars
    BY <1>5 DEF TypeOK, LateTyped, ReadersInOrder, vars, cache, writer, reader, bounds
  <1>6. QED
    BY <1>1, <1>2, <1>3, <1>4, <1>5

LEMMA NextTypeInv == TypeInv /\ [Next]_vars => TypeInv'
  BY WriterTypes, ReaderTypes, CacheTypes DEF Next

(* Every variable keeps its type, whatever the caches, the storage and the *)
(* processes do: core.py _cached_entity_entries, _put_if_version,          *)
(* _delete_if_version, invalidate_index.                                   *)
THEOREM TypesKept == Spec => []TypeOK
  <1>1. TypeInv => TypeOK
    BY DEF TypeInv
  <1>2. QED
    BY <1>1, InitTypeInv, NextTypeInv, PTL DEF Spec

-----------------------------------------------------------------------------
(* Freshness. *)

LEMMA InitFreshInv == Init => FreshInv
  BY DEF Init, FreshInv, DiskIsAhead, MintIsOwn, LateTokenIsOwn, ListingLivesUp,
         LateListingsLiveUp, DraftsLiveUp, IndexIsFresh, Covers, Nowhere, NoListing

(* A step that leaves the cache, the readers and what is settled alone. *)
LEMMA StorageFresh ==
  ASSUME TypeInv, TypeInv', FreshInv, UNCHANGED <<cache, reader, settled>>,
         Covers(disk', disk), \A w \in Writers : Covers(disk', owed'[w])
  PROVE  FreshInv'
  <1> USE DEF FreshInv
  <1>1. UNCHANGED <<token, listing, lateSet, rpc, seen, next, got, promised, settled>>
    BY DEF cache, reader
  <1>2. DiskIsAhead'
    <2>1. disk \in Listing /\ disk' \in Listing /\ settled \in Listing
      BY DEF TypeInv, TypeOK
    <2>2. Covers(disk', settled)
      BY <2>1 DEF DiskIsAhead, Covers, Listing
    <2>3. QED
      BY <1>1, <2>2 DEF DiskIsAhead
  <1>3. MintIsOwn' /\ LateTokenIsOwn'
    BY <1>1 DEF MintIsOwn, LateTokenIsOwn
  <1>4. ListingLivesUp' /\ LateListingsLiveUp' /\ DraftsLiveUp'
    BY <1>1 DEF ListingLivesUp, LateListingsLiveUp, DraftsLiveUp, LivesUp, Done
  <1>5. IndexIsFresh'
    BY <1>1 DEF IndexIsFresh
  <1>6. QED
    BY <1>2, <1>3, <1>4, <1>5

LEMMA WriterStorageFresh ==
  ASSUME TypeInv, TypeInv', FreshInv, NEW w \in Writers,
         \/ BeginChange(w) \/ BeginInvalidate(w) \/ StorageCommits(w)
         \/ StorageRefuses(w) \/ StorageTimesOut(w) \/ Crash(w)
  PROVE  FreshInv'
  <1>1. UNCHANGED <<cache, reader, settled>>
    BY DEF BeginChange, BeginInvalidate, StorageCommits, StorageRefuses, StorageTimesOut,
           Crash
  <1>2. \A v \in Writers : Covers(disk, owed[v])
    BY DEF FreshInv, DiskIsAhead
  <1>3. /\ disk \in Listing /\ disk' \in Listing /\ owed \in [Writers -> Listing]
        /\ owed' \in [Writers -> Listing]
    BY DEF TypeInv, TypeOK
  <1>4. Covers(disk', disk)
    BY <1>3
       DEF Covers, Listing, BeginChange, BeginInvalidate, StorageCommits, StorageRefuses,
           StorageTimesOut, Crash
  <1>5. \A v \in Writers \ {w} : owed'[v] = owed[v]
    BY <1>3
       DEF BeginChange, BeginInvalidate, StorageCommits, StorageRefuses, StorageTimesOut,
           Crash, Finish
  <1>6. Covers(disk', owed'[w])
    <2>1. CASE StorageCommits(w)
      <3>1. owed'[w] = [Nowhere EXCEPT ![job[w].key] = disk'[job[w].key]]
        BY <1>3, <2>1 DEF StorageCommits
      <3>2. QED
        BY <1>3, <3>1 DEF Covers, Nowhere, Listing
    <2>2. CASE BeginInvalidate(w)
      <3>1. owed'[w] = disk
        BY <1>3, <2>2 DEF BeginInvalidate
      <3>2. QED
        BY <1>4, <3>1
    <2>3. CASE Crash(w)
      <3>1. owed'[w] = Nowhere
        BY <1>3, <2>3 DEF Crash, Finish
      <3>2. QED
        BY <1>3, <3>1 DEF Covers, Nowhere, Listing
    <2>4. CASE BeginChange(w) \/ StorageRefuses(w) \/ StorageTimesOut(w)
      BY <1>2, <2>4 DEF BeginChange, StorageRefuses, StorageTimesOut
    <2>5. QED
      BY <2>1, <2>2, <2>3, <2>4
  <1>7. \A v \in Writers : Covers(disk', owed'[v])
    BY <1>2, <1>3, <1>4, <1>5, <1>6 DEF Covers, Listing
  <1>8. QED
    BY <1>1, <1>4, <1>7, StorageFresh

LEMMA OutsideFresh ==
  ASSUME TypeInv, TypeInv', FreshInv, LateCommit \/ Bypass \/ UNCHANGED vars
  PROVE  FreshInv'
  <1>1. UNCHANGED <<cache, reader, settled, owed>>
    BY DEF LateCommit, Bypass, vars, writer
  <1>2. disk \in Listing /\ disk' \in Listing /\ owed \in [Writers -> Listing]
    BY DEF TypeInv, TypeOK
  <1>3. Covers(disk', disk)
    BY <1>2 DEF Covers, Listing, LateCommit, Bypass, vars
  <1>4. \A w \in Writers : Covers(disk', owed'[w])
    BY <1>1, <1>2, <1>3 DEF Covers, Listing, FreshInv, DiskIsAhead
  <1>5. QED
    BY <1>1, <1>3, <1>4, StorageFresh

(* invalidate_index and _invalidate_path: the token is replaced by one that *)
(* no reader holds and no listing carries.                                 *)
LEMMA ReplaceTokenFresh ==
  ASSUME TypeInv, TypeInv', FreshInv, NEW w \in Writers, ReplaceToken(w)
  PROVE  FreshInv'
  <1> USE DEF FreshInv
  <1>1. /\ token' = minted + 1 /\ minted \in Nat
        /\ settled' = Newest(settled, owed[w])
        /\ \A v \in Writers : owed'[v] \in {owed[v], Nowhere}
    BY DEF ReplaceToken, AfterToken, Finish, TypeInv, TypeOK
  <1>0. UNCHANGED <<disk, listing, lateSet, rpc, seen, next, got, promised>>
    BY DEF ReplaceToken, reader
  <1>2. /\ disk \in Listing /\ settled \in Listing /\ owed[w] \in Listing
        /\ promised \in [Readers -> Listing]
    BY DEF TypeInv, TypeOK
  <1>3. DiskIsAhead'
    <2>1. Covers(disk, Newest(settled, owed[w])) /\ Covers(disk, Nowhere)
      BY <1>2 DEF DiskIsAhead, Covers, Listing, Newest, Nowhere
    <2>2. \A r \in Readers : Covers(Newest(settled, owed[w]), promised[r])
      BY <1>2 DEF DiskIsAhead, Covers, Listing, Newest
    <2>3. QED
      BY <1>0, <1>1, <2>1, <2>2 DEF DiskIsAhead
  <1>4. /\ listing.tag # token'
        /\ \A r \in Readers : seen[r] # token'
        /\ \A s \in lateSet : /\ s.to = "token" => s.value # token'
                              /\ s.to = "listing" => s.value.tag # token'
    BY <1>1 DEF TypeInv, TypeOK, LateTyped
  <1>5. MintIsOwn' /\ LateTokenIsOwn'
    <2>1. MintIsOwn'
      BY <1>0, <1>4 DEF MintIsOwn
    <2>2. LateTokenIsOwn'
      BY <1>0, <1>4 DEF LateTokenIsOwn
    <2>3. QED
      BY <2>1, <2>2
  <1>6. ListingLivesUp' /\ LateListingsLiveUp' /\ DraftsLiveUp'
    <2>1. ListingLivesUp'
      BY <1>0, <1>4 DEF ListingLivesUp, LivesUp
    <2>2. LateListingsLiveUp'
      BY <1>0, <1>4 DEF LateListingsLiveUp, LivesUp
    <2>3. DraftsLiveUp'
      BY <1>0, <1>4 DEF DraftsLiveUp, LivesUp, Done
    <2>4. QED
      BY <2>1, <2>2, <2>3
  <1>7. IndexIsFresh'
    BY <1>0 DEF IndexIsFresh
  <1>8. QED
    BY <1>3, <1>5, <1>6, <1>7

(* Its other cache calls: a token that may arrive late, a tombstone.       *)
LEMMA WriterCacheFresh ==
  ASSUME TypeInv, TypeInv', FreshInv, NEW w \in Writers,
         ReplaceTokenFails(w) \/ Tombstone(w) \/ TombstoneFails(w)
  PROVE  FreshInv'
  <1> USE DEF FreshInv
  <1>1. /\ \A v \in Writers : owed'[v] \in {owed[v], Nowhere}
        /\ UNCHANGED <<disk, token, settled, rpc, seen, next, got, promised>>
    BY DEF ReplaceTokenFails, Tombstone, TombstoneFails, AfterToken, Finish, reader,
           TypeInv, TypeOK
  <1>2. DiskIsAhead'
    <2>1. Covers(disk, Nowhere)
      BY DEF TypeInv, TypeOK, Covers, Listing, Nowhere
    <2>2. QED
      BY <1>1, <2>1 DEF DiskIsAhead
  <1>3. IndexIsFresh' /\ DraftsLiveUp'
    BY <1>1 DEF IndexIsFresh, DraftsLiveUp, LivesUp, Done
  <1>4. CASE /\ listing' \in {listing, NoListing}
             /\ \/ lateSet' = lateSet
                \/ lateSet' = lateSet \union {[to |-> "listing", value |-> NoListing]}
    <2>1. NoListing.tag = 0
      BY DEF NoListing
    <2>2. /\ \A r \in Readers : rpc[r] = "mint" => seen[r] # 0
          /\ \A s \in lateSet : s.to = "token" => s.value # 0
      BY DEF TypeInv, LateTyped, ReadersInOrder, Holding
    <2>3. MintIsOwn' /\ LateTokenIsOwn'
      BY <1>1, <1>4, <2>1, <2>2 DEF MintIsOwn, LateTokenIsOwn
    <2>4. ListingLivesUp' /\ LateListingsLiveUp'
      BY <1>1, <1>4, <2>1 DEF ListingLivesUp, LateListingsLiveUp, LivesUp
    <2>5. QED
      BY <1>2, <1>3, <2>3, <2>4
  <1>5. CASE /\ listing' = listing
             /\ lateSet' = lateSet \union {[to |-> "token", value |-> minted + 1]}
    <2>1. /\ token # minted + 1 /\ listing.tag # minted + 1
          /\ \A r \in Readers : seen[r] # minted + 1
          /\ \A s \in lateSet : s.to = "listing" => s.value.tag # minted + 1
      BY DEF TypeInv, TypeOK, LateTyped
    <2>2. MintIsOwn' /\ LateTokenIsOwn'
      BY <1>1, <1>5, <2>1 DEF MintIsOwn, LateTokenIsOwn
    <2>3. ListingLivesUp' /\ LateListingsLiveUp'
      BY <1>1, <1>5 DEF ListingLivesUp, LateListingsLiveUp, LivesUp
    <2>4. QED
      BY <1>2, <1>3, <2>2, <2>3
  <1>6. QED
    BY <1>4, <1>5 DEF ReplaceTokenFails, Tombstone, TombstoneFails

(* A late set takes effect; entries expire. *)
LEMMA CacheFresh ==
  ASSUME TypeInv, TypeInv', FreshInv, SetLands \/ Expire
  PROVE  FreshInv'
  <1> USE DEF FreshInv
  <1>1. /\ UNCHANGED <<disk, settled, owed, rpc, seen, next, got, promised>>
        /\ lateSet' \subseteq lateSet
    BY DEF SetLands, Expire, writer, reader
  <1>2. DiskIsAhead' /\ IndexIsFresh'
    BY <1>1 DEF DiskIsAhead, IndexIsFresh
  <1>3. /\ \A r \in Readers : rpc[r] \in Holding => seen[r] # 0
        /\ \A s \in lateSet : s.to = "token" => s.value # 0
    BY DEF TypeInv, LateTyped, ReadersInOrder
  <1>4. ASSUME token' = 0 \/ UNCHANGED token,
               UNCHANGED listing \/ listing'.tag = 0
        PROVE  FreshInv'
    <2>1. MintIsOwn' /\ LateTokenIsOwn'
      BY <1>1, <1>3, <1>4 DEF MintIsOwn, LateTokenIsOwn, Holding
    <2>2. ListingLivesUp' /\ LateListingsLiveUp'
      BY <1>1, <1>4 DEF ListingLivesUp, LateListingsLiveUp, LivesUp
    <2>3. DraftsLiveUp'
      BY <1>1, <1>3, <1>4 DEF DraftsLiveUp, LivesUp, Done, Holding
    <2>4. QED
      BY <1>2, <2>1, <2>2, <2>3
  <1>5. ASSUME NEW s \in lateSet, s.to = "token", lateSet' = lateSet \ {s},
               token' = s.value, UNCHANGED listing
        PROVE  FreshInv'
    <2>1. /\ listing.tag # token'
          /\ \A q \in Readers : rpc[q] \in Holding => seen[q] # token'
          /\ \A x \in lateSet : x.to = "listing" => x.value.tag # token'
      BY <1>5 DEF LateTokenIsOwn
    <2>2. \A x \in lateSet' : x.to = "token" => x.value # token'
      <3>1. \A x \in lateSet : x.to = "token" => x = [to |-> "token", value |-> x.value]
        BY DEF TypeInv, TypeOK, LateSet
      <3>2. QED
        BY <1>5, <3>1
    <2>3. MintIsOwn' /\ LateTokenIsOwn'
      BY <1>1, <1>5, <2>1, <2>2 DEF MintIsOwn, LateTokenIsOwn, Holding
    <2>4. ListingLivesUp' /\ LateListingsLiveUp'
      BY <1>1, <1>5, <2>1 DEF ListingLivesUp, LateListingsLiveUp, LivesUp
    <2>5. DraftsLiveUp'
      BY <1>1, <1>5, <2>1 DEF DraftsLiveUp, LivesUp, Done, Holding
    <2>6. QED
      BY <1>2, <2>3, <2>4, <2>5
  <1>6. ASSUME NEW s \in lateSet, s.to = "listing", lateSet' = lateSet \ {s},
               listing' = s.value, UNCHANGED token
        PROVE  FreshInv'
    <2>1. MintIsOwn' /\ LateTokenIsOwn'
      BY <1>1, <1>6 DEF MintIsOwn, LateTokenIsOwn
    <2>2. ListingLivesUp' /\ LateListingsLiveUp'
      BY <1>1, <1>6 DEF ListingLivesUp, LateListingsLiveUp, LivesUp
    <2>3. DraftsLiveUp'
      BY <1>1, <1>6 DEF DraftsLiveUp, LivesUp, Done
    <2>4. QED
      BY <1>2, <2>1, <2>2, <2>3
  <1>7. CASE Expire
    BY <1>4, <1>7, NoListingType DEF Expire
  <1>8. CASE SetLands
    BY <1>5, <1>6, <1>8 DEF SetLands
  <1>9. QED
    BY <1>7, <1>8

-----------------------------------------------------------------------------
(* The steps of a reader leave storage alone, and other readers too. *)

LEMMA ReaderFrame ==
  ASSUME TypeInv, NEW r \in Readers, BeginIndex(r) \/ ReaderStep(r) \/ ReaderTrouble(r)
  PROVE  /\ UNCHANGED <<disk, settled, owed>>
         /\ \A q \in Readers \ {r} :
              /\ rpc'[q] = rpc[q] /\ seen'[q] = seen[q] /\ next'[q] = next[q]
              /\ got'[q] = got[q] /\ promised'[q] = promised[q]
  BY DEF TypeInv, TypeOK, BeginIndex, ReaderStep, ReaderTrouble, GetToken, MissToken,
         SetToken, Hit, Miss, DrainPage, StoreListing, SetTokenFails, DrainFails,
         StoreListingFails, ReaderGoes, writer

(* It begins, or gives up: what it held is forgotten. *)
LEMMA BeginFresh ==
  ASSUME TypeInv, TypeInv', FreshInv, NEW r \in Readers, BeginIndex(r) \/ DrainFails(r)
  PROVE  FreshInv'
  <1> USE DEF FreshInv
  <1>1. /\ UNCHANGED <<disk, settled, owed>>
        /\ \A q \in Readers \ {r} :
             /\ rpc'[q] = rpc[q] /\ seen'[q] = seen[q] /\ next'[q] = next[q]
             /\ got'[q] = got[q] /\ promised'[q] = promised[q]
    BY ReaderFrame DEF ReaderStep, ReaderTrouble
  <1>2. /\ UNCHANGED <<token, listing, lateSet>>
        /\ rpc'[r] \in {"idle", "token"}
        /\ promised'[r] \in {settled, Nowhere}
        /\ rpc'[r] = "idle" => got'[r] = Nowhere /\ promised'[r] = Nowhere
    BY DEF TypeInv, TypeOK, BeginIndex, DrainFails, cache, ReaderGoes
  <1>3. DiskIsAhead'
    <2>1. Covers(settled, promised'[r])
      BY <1>2 DEF TypeInv, TypeOK, Covers, Listing, Nowhere
    <2>2. QED
      BY <1>1, <2>1 DEF DiskIsAhead
  <1>4. MintIsOwn' /\ LateTokenIsOwn'
    BY <1>1, <1>2 DEF MintIsOwn, LateTokenIsOwn, Holding
  <1>5. ListingLivesUp' /\ LateListingsLiveUp' /\ DraftsLiveUp'
    BY <1>1, <1>2 DEF ListingLivesUp, LateListingsLiveUp, DraftsLiveUp, LivesUp, Done
  <1>6. IndexIsFresh'
    <2>1. Covers(Nowhere, Nowhere)
      BY DEF Covers, Nowhere
    <2>2. QED
      BY <1>1, <1>2, <2>1 DEF IndexIsFresh
  <1>7. QED
    BY <1>3, <1>4, <1>5, <1>6

(* It reads the current token: every listing with that tag shows what is   *)
(* settled, hence what this reader was promised.                           *)
LEMMA GetTokenFresh ==
  ASSUME TypeInv, TypeInv', FreshInv, NEW r \in Readers, GetToken(r)
  PROVE  FreshInv'
  <1> USE DEF FreshInv
  <1>1. /\ UNCHANGED <<disk, settled, owed, token, listing, lateSet, next, got, promised>>
        /\ \A q \in Readers \ {r} : rpc'[q] = rpc[q] /\ seen'[q] = seen[q]
    BY ReaderFrame DEF ReaderStep, GetToken, cache
  <1>2. rpc'[r] = "listing" /\ seen'[r] = token /\ token # 0
    BY DEF TypeInv, TypeOK, GetToken, ReaderGoes
  <1>3. /\ settled \in Listing /\ promised \in [Readers -> Listing]
        /\ got \in [Readers -> Listing] /\ listing.entries \in Listing
        /\ \A s \in lateSet : s.to = "listing" => s.value.entries \in Listing
    BY DEF TypeInv, TypeOK, LateTyped
  <1>4. \A k \in Keys : settled[k] \in Nat /\ promised[r][k] \in Nat /\ settled[k] >= promised[r][k]
    BY <1>3 DEF DiskIsAhead, Covers, Listing
  <1>5. DiskIsAhead' /\ IndexIsFresh'
    BY <1>1, <1>2 DEF DiskIsAhead, IndexIsFresh
  <1>6. MintIsOwn' /\ LateTokenIsOwn'
    BY <1>1, <1>2 DEF MintIsOwn, LateTokenIsOwn, Holding
  <1>7. ListingLivesUp'
    <2>1. \A k \in Keys : listing.entries[k] \in Nat
      BY <1>3 DEF Listing
    <2>2. QED
      BY <1>1, <1>2, <1>4, <2>1 DEF ListingLivesUp, LivesUp
  <1>8. LateListingsLiveUp'
    <2>1. \A s \in lateSet : s.to = "listing" => \A k \in Keys : s.value.entries[k] \in Nat
      BY <1>3 DEF Listing
    <2>2. QED
      BY <1>1, <1>2, <1>4, <2>1 DEF LateListingsLiveUp, LivesUp
  <1>9. DraftsLiveUp'
    <2>1. \A q \in Readers, k \in Keys : got[q][k] \in Nat
      BY <1>3 DEF Listing
    <2>2. \A q \in Readers : Done(q) \subseteq Keys
      BY CacheAssumption DEF Done, TypeInv, TypeOK, Keys
    <2>3. QED
      BY <1>1, <1>2, <1>4, <2>1, <2>2 DEF DraftsLiveUp, LivesUp, Done
  <1>10. QED
    BY <1>5, <1>6, <1>7, <1>8, <1>9

(* It generates a token nobody has seen. *)
LEMMA MissTokenFresh ==
  ASSUME TypeInv, TypeInv', FreshInv, NEW r \in Readers, MissToken(r)
  PROVE  FreshInv'
  <1> USE DEF FreshInv
  <1>1. /\ UNCHANGED <<disk, settled, owed>>
        /\ \A q \in Readers \ {r} :
             /\ rpc'[q] = rpc[q] /\ seen'[q] = seen[q] /\ next'[q] = next[q]
             /\ got'[q] = got[q] /\ promised'[q] = promised[q]
    BY ReaderFrame DEF ReaderStep, ReaderTrouble
  <1>2. /\ UNCHANGED <<token, listing, lateSet, next, got, promised>>
        /\ rpc'[r] = "mint" /\ seen'[r] = minted + 1
    BY DEF TypeInv, TypeOK, MissToken, cache, ReaderGoes
  <1>3. /\ token # minted + 1 /\ listing.tag # minted + 1
        /\ \A q \in Readers : seen[q] # minted + 1
        /\ \A s \in lateSet : s.to = "token" => s.value # minted + 1
        /\ \A s \in lateSet : s.to = "listing" => s.value.tag # minted + 1
    BY DEF TypeInv, TypeOK, LateTyped
  <1>4. DiskIsAhead' /\ IndexIsFresh'
    BY <1>1, <1>2 DEF DiskIsAhead, IndexIsFresh
  <1>5. MintIsOwn' /\ LateTokenIsOwn'
    BY <1>1, <1>2, <1>3 DEF MintIsOwn, LateTokenIsOwn
  <1>6. ListingLivesUp' /\ LateListingsLiveUp' /\ DraftsLiveUp'
    BY <1>1, <1>2 DEF ListingLivesUp, LateListingsLiveUp, DraftsLiveUp, LivesUp, Done
  <1>7. QED
    BY <1>4, <1>5, <1>6

(* It sets that token, which no listing carries yet, and starts to drain.  *)
LEMMA SetTokenFresh ==
  ASSUME TypeInv, TypeInv', FreshInv, NEW r \in Readers,
         SetToken(r) \/ SetTokenFails(r), "lateMint" \notin CacheFaults
  PROVE  FreshInv'
  <1> USE DEF FreshInv
  <1>1. /\ UNCHANGED <<disk, settled, owed>>
        /\ \A q \in Readers \ {r} :
             /\ rpc'[q] = rpc[q] /\ seen'[q] = seen[q] /\ next'[q] = next[q]
             /\ got'[q] = got[q] /\ promised'[q] = promised[q]
    BY ReaderFrame DEF ReaderStep, ReaderTrouble
  <1>2. /\ UNCHANGED <<listing, lateSet, seen, next, got, promised>>
        /\ rpc[r] = "mint" /\ rpc'[r] = "drain" /\ token' \in {token, seen[r]}
    BY DEF TypeInv, TypeOK, SetToken, SetTokenFails, Fault, cache, ReaderGoes
  <1>3. /\ token # seen[r] /\ listing.tag # seen[r]
        /\ \A s \in lateSet : s.to = "listing" => s.value.tag # seen[r]
        /\ \A q \in Readers \ {r} : rpc[q] \in Holding => seen[q] # seen[r]
    BY <1>2 DEF MintIsOwn
  <1>4. \A s \in lateSet : s.to = "token" => s.value # seen[r]
    BY <1>2 DEF LateTokenIsOwn, Holding
  <1>5. Done(r)' = {}
    <2>1. next[r] = 1
      BY <1>2 DEF TypeInv, ReadersInOrder
    <2>2. QED
      BY <1>2, <2>1 DEF Done
  <1>6. DiskIsAhead' /\ IndexIsFresh'
    BY <1>1, <1>2 DEF DiskIsAhead, IndexIsFresh
  <1>7. MintIsOwn' /\ LateTokenIsOwn'
    BY <1>1, <1>2, <1>3, <1>4 DEF MintIsOwn, LateTokenIsOwn, Holding
  <1>8. ListingLivesUp' /\ LateListingsLiveUp'
    BY <1>1, <1>2, <1>3 DEF ListingLivesUp, LateListingsLiveUp, LivesUp
  <1>9. DraftsLiveUp'
    <2>1. \A q \in Readers \ {r} : Done(q)' = Done(q)
      BY <1>1 DEF Done
    <2>2. QED
      BY <1>1, <1>2, <1>3, <1>5, <2>1 DEF DraftsLiveUp, LivesUp, Holding
  <1>10. QED
    BY <1>6, <1>7, <1>8, <1>9

(* The listing found under its token shows what it was promised. *)
LEMMA HitFresh ==
  ASSUME TypeInv, TypeInv', FreshInv, NEW r \in Readers, Hit(r)
  PROVE  FreshInv'
  <1> USE DEF FreshInv
  <1>1. /\ UNCHANGED <<disk, settled, owed>>
        /\ \A q \in Readers \ {r} :
             /\ rpc'[q] = rpc[q] /\ seen'[q] = seen[q] /\ next'[q] = next[q]
             /\ got'[q] = got[q] /\ promised'[q] = promised[q]
    BY ReaderFrame DEF ReaderStep, ReaderTrouble
  <1>2. /\ UNCHANGED <<token, listing, lateSet, promised>>
        /\ rpc[r] = "listing" /\ listing.tag = seen[r]
        /\ rpc'[r] = "idle" /\ got'[r] = listing.entries
    BY DEF TypeInv, TypeOK, Hit, cache, ReaderGoes
  <1>3. Covers(listing.entries, promised[r])
    <2>1. listing.tag # 0
      BY <1>2 DEF TypeInv, ReadersInOrder, Holding
    <2>2. QED
      BY <1>2, <2>1 DEF ListingLivesUp, LivesUp, Covers
  <1>4. DiskIsAhead'
    BY <1>1, <1>2 DEF DiskIsAhead
  <1>5. MintIsOwn' /\ LateTokenIsOwn'
    BY <1>1, <1>2 DEF MintIsOwn, LateTokenIsOwn, Holding
  <1>6. ListingLivesUp' /\ LateListingsLiveUp' /\ DraftsLiveUp'
    BY <1>1, <1>2 DEF ListingLivesUp, LateListingsLiveUp, DraftsLiveUp, LivesUp, Done
  <1>7. IndexIsFresh'
    BY <1>1, <1>2, <1>3 DEF IndexIsFresh
  <1>8. QED
    BY <1>4, <1>5, <1>6, <1>7

(* It starts to drain under a token it found. *)
LEMMA MissFresh ==
  ASSUME TypeInv, TypeInv', FreshInv, NEW r \in Readers, Miss(r)
  PROVE  FreshInv'
  <1> USE DEF FreshInv
  <1>1. /\ UNCHANGED <<disk, settled, owed>>
        /\ \A q \in Readers \ {r} :
             /\ rpc'[q] = rpc[q] /\ seen'[q] = seen[q] /\ next'[q] = next[q]
             /\ got'[q] = got[q] /\ promised'[q] = promised[q]
    BY ReaderFrame DEF ReaderStep, ReaderTrouble
  <1>2. /\ UNCHANGED <<token, listing, lateSet, seen, next, got, promised>>
        /\ rpc[r] = "listing" /\ rpc'[r] = "drain"
    BY DEF TypeInv, TypeOK, Miss, cache, ReaderGoes
  <1>3. Done(r)' = {}
    <2>1. next[r] = 1
      BY <1>2 DEF TypeInv, ReadersInOrder
    <2>2. QED
      BY <1>2, <2>1 DEF Done
  <1>4. DiskIsAhead' /\ IndexIsFresh'
    BY <1>1, <1>2 DEF DiskIsAhead, IndexIsFresh
  <1>5. MintIsOwn' /\ LateTokenIsOwn'
    BY <1>1, <1>2 DEF MintIsOwn, LateTokenIsOwn, Holding
  <1>6. ListingLivesUp' /\ LateListingsLiveUp'
    BY <1>1, <1>2 DEF ListingLivesUp, LateListingsLiveUp, LivesUp
  <1>7. DraftsLiveUp'
    <2>1. \A q \in Readers \ {r} : Done(q)' = Done(q)
      BY <1>1 DEF Done
    <2>2. QED
      BY <1>1, <1>2, <1>3, <2>1 DEF DraftsLiveUp, LivesUp
  <1>8. QED
    BY <1>4, <1>5, <1>6, <1>7

(* The keys of the page are as recent as what is settled. *)
LEMMA DrainPageFresh ==
  ASSUME TypeInv, TypeInv', FreshInv, NEW r \in Readers, DrainPage(r)
  PROVE  FreshInv'
  <1> USE DEF FreshInv
  <1>1. /\ UNCHANGED <<disk, settled, owed>>
        /\ \A q \in Readers \ {r} :
             /\ rpc'[q] = rpc[q] /\ seen'[q] = seen[q] /\ next'[q] = next[q]
             /\ got'[q] = got[q] /\ promised'[q] = promised[q]
    BY ReaderFrame DEF ReaderStep, ReaderTrouble
  <1>2. /\ UNCHANGED <<token, listing, lateSet, seen, promised>>
        /\ rpc[r] = "drain" /\ rpc'[r] \in {"drain", "store"}
        /\ got'[r] = [k \in Keys |->
              IF k \in next[r]..(PageEnd(r) - 1) THEN disk[k] ELSE got[r][k]]
    BY DEF TypeInv, TypeOK, DrainPage, cache, ReaderGoes
  <1>3. /\ next[r] \in Nat /\ PageEnd(r) \in Nat
        /\ Done(r) = 1..(next[r] - 1)
        /\ Done(r)' = 1..(PageEnd(r) - 1) /\ Done(r)' \subseteq Keys
    <2>1. next[r] \in 1..(NKeys + 1) /\ PageEnd(r) \in 1..(NKeys + 1)
      BY CacheAssumption DEF TypeInv, TypeOK, PageEnd
    <2>2. CASE PageEnd(r) <= NKeys
      <3>1. next'[r] = PageEnd(r) /\ rpc'[r] = "drain"
        BY <1>2, <2>2 DEF DrainPage, TypeInv, TypeOK
      <3>2. QED
        BY <1>2, <2>1, <2>2, <3>1, CacheAssumption DEF Done, Keys
    <2>3. CASE ~(PageEnd(r) <= NKeys)
      <3>1. PageEnd(r) = NKeys + 1 /\ rpc'[r] = "store"
        BY <2>1, <2>3, CacheAssumption DEF DrainPage, TypeInv, TypeOK, ReaderGoes
      <3>2. QED
        BY <1>2, <2>1, <3>1, CacheAssumption DEF Done, Keys
    <2>4. QED
      BY <2>2, <2>3
  <1>4. /\ settled \in Listing /\ disk \in Listing /\ got[r] \in Listing
        /\ promised \in [Readers -> Listing]
    BY DEF TypeInv, TypeOK
  <1>5. \A k \in Keys :
          /\ disk[k] \in Nat /\ settled[k] \in Nat /\ disk[k] >= settled[k]
          /\ \A q \in Readers : promised[q][k] \in Nat /\ settled[k] >= promised[q][k]
    BY <1>4 DEF DiskIsAhead, Covers, Listing
  <1>6. \A k \in Done(r)' : k \in Keys /\ (k \in Done(r) \/ got'[r][k] = disk[k])
    BY <1>2, <1>3
  <1>7. \A k \in Done(r) : k \in Keys => got'[r][k] = got[r][k]
    BY <1>2, <1>3
  <1>8. DiskIsAhead'
    BY <1>1, <1>2 DEF DiskIsAhead
  <1>9. MintIsOwn' /\ LateTokenIsOwn'
    BY <1>1, <1>2 DEF MintIsOwn, LateTokenIsOwn, Holding
  <1>10. ListingLivesUp' /\ LateListingsLiveUp'
    BY <1>1, <1>2 DEF ListingLivesUp, LateListingsLiveUp, LivesUp
  <1>11. DraftsLiveUp'
    <2>1. ASSUME NEW q \in Readers \ {r}, rpc'[q] \in {"drain", "store"}
          PROVE  /\ LivesUp(seen[q], got[q], Done(q))'
                 /\ \A k \in Done(q)' : got'[q][k] >= promised'[q][k]
      BY <1>1, <1>2, <2>1 DEF DraftsLiveUp, LivesUp, Done
    <2>2. \A k \in Done(r)' : got'[r][k] >= promised[r][k]
      BY <1>2, <1>5, <1>6, <1>7 DEF DraftsLiveUp
    <2>3. token = seen[r] => \A k \in Done(r)' : got'[r][k] >= settled[k]
      BY <1>2, <1>5, <1>6, <1>7 DEF DraftsLiveUp, LivesUp
    <2>4. ASSUME NEW q \in Readers, rpc[q] = "listing", seen[q] = seen[r]
          PROVE  \A k \in Done(r)' : got'[r][k] >= promised[q][k]
      BY <1>2, <1>5, <1>6, <1>7, <2>4 DEF DraftsLiveUp, LivesUp
    <2>5. LivesUp(seen[r], got[r], Done(r))'
      BY <1>1, <1>2, <2>3, <2>4 DEF LivesUp
    <2>6. QED
      BY <1>2, <2>1, <2>2, <2>5 DEF DraftsLiveUp
  <1>12. IndexIsFresh'
    BY <1>1, <1>2 DEF IndexIsFresh
  <1>13. QED
    BY <1>8, <1>9, <1>10, <1>11, <1>12

(* The listing is stored, or arrives late, under the token held while it   *)
(* was drained.                                                            *)
LEMMA StoreListingFresh ==
  ASSUME TypeInv, TypeInv', FreshInv, NEW r \in Readers,
         StoreListing(r) \/ StoreListingFails(r)
  PROVE  FreshInv'
  <1> USE DEF FreshInv
  <1>1. /\ UNCHANGED <<disk, settled, owed>>
        /\ \A q \in Readers \ {r} :
             /\ rpc'[q] = rpc[q] /\ seen'[q] = seen[q] /\ next'[q] = next[q]
             /\ got'[q] = got[q] /\ promised'[q] = promised[q]
    BY ReaderFrame DEF ReaderStep, ReaderTrouble
  <1> DEFINE mine == [tag |-> seen[r], entries |-> got[r]]
  <1>2. /\ UNCHANGED <<token, got, promised>>
        /\ rpc[r] = "store" /\ rpc'[r] = "idle"
        /\ listing' \in {listing, mine}
        /\ lateSet' \in {lateSet, lateSet \union {[to |-> "listing", value |-> mine]}}
    BY DEF TypeInv, TypeOK, StoreListing, StoreListingFails, ReaderGoes
  <1>3. /\ LivesUp(seen[r], got[r], Keys)
        /\ Covers(got[r], promised[r])
    BY <1>2 DEF DraftsLiveUp, Done, Covers
  <1>4. mine.tag = seen[r] /\ mine.entries = got[r]
    OBVIOUS
  <1> HIDE DEF mine
  <1>5. DiskIsAhead'
    BY <1>1, <1>2 DEF DiskIsAhead
  <1>6. MintIsOwn' /\ LateTokenIsOwn'
    <2>1. \A q \in Readers : rpc'[q] = "mint" => seen[q] # seen[r]
      BY <1>1, <1>2 DEF MintIsOwn, Holding
    <2>2. \A s \in lateSet : s.to = "token" => s.value # seen[r]
      BY <1>2 DEF LateTokenIsOwn, Holding
    <2>3. MintIsOwn'
      BY <1>1, <1>2, <1>4, <2>1 DEF MintIsOwn, Holding
    <2>4. LateTokenIsOwn'
      BY <1>1, <1>2, <1>4, <2>2 DEF LateTokenIsOwn, Holding
    <2>5. QED
      BY <2>3, <2>4
  <1>7. ListingLivesUp'
    BY <1>1, <1>2, <1>3, <1>4 DEF ListingLivesUp, LivesUp
  <1>8. LateListingsLiveUp'
    BY <1>1, <1>2, <1>3, <1>4 DEF LateListingsLiveUp, LivesUp
  <1>9. DraftsLiveUp'
    BY <1>1, <1>2 DEF DraftsLiveUp, LivesUp, Done
  <1>10. IndexIsFresh'
    BY <1>1, <1>2, <1>3 DEF IndexIsFresh
  <1>11. QED
    BY <1>5, <1>6, <1>7, <1>8, <1>9, <1>10

LEMMA NextFreshInv ==
  ASSUME "lateMint" \notin CacheFaults
  PROVE  TypeInv /\ FreshInv /\ [Next]_vars => FreshInv'
  <1> SUFFICES ASSUME TypeInv, FreshInv, [Next]_vars PROVE FreshInv'
    OBVIOUS
  <1>1. TypeInv'
    BY NextTypeInv
  <1>2. ASSUME NEW w \in Writers,
               \/ BeginChange(w) \/ BeginInvalidate(w) \/ WriterStep(w) \/ WriterTrouble(w)
        PROVE  FreshInv'
    BY <1>1, <1>2, WriterStorageFresh, ReplaceTokenFresh, WriterCacheFresh
       DEF WriterStep, WriterTrouble
  <1>3. ASSUME NEW r \in Readers, BeginIndex(r) \/ ReaderStep(r) \/ ReaderTrouble(r)
        PROVE  FreshInv'
    BY <1>1, <1>3, BeginFresh, GetTokenFresh, MissTokenFresh, SetTokenFresh, HitFresh,
       MissFresh, DrainPageFresh, StoreListingFresh
       DEF ReaderStep, ReaderTrouble
  <1>4. CASE LateCommit \/ Bypass \/ SetLands \/ Expire \/ UNCHANGED vars
    BY <1>1, <1>4, OutsideFresh, CacheFresh
  <1>5. QED
    BY <1>2, <1>3, <1>4 DEF Next

(* The index a reader returns shows every change whose invalidation had    *)
(* completed when get_memory_index was called (core.py                     *)
(* _cached_entity_entries; ADR 0040, decision 3), for any number of        *)
(* readers, writers, keys and pages, crashes, cache and storage faults,    *)
(* expiries and late sets but one: a token a reader generated may not      *)
(* arrive after its set raised.                                            *)
THEOREM IndexStaysFresh ==
  ASSUME "lateMint" \notin CacheFaults
  PROVE  Spec => []IndexIsFresh
  <1>1. FreshInv => IndexIsFresh
    BY DEF FreshInv
  <1>2. TypeInv /\ FreshInv /\ [Next]_vars => FreshInv'
    BY NextFreshInv
  <1>3. QED
    BY <1>1, <1>2, InitTypeInv, InitFreshInv, NextTypeInv, PTL DEF Spec

(* And under the same proviso a listing tagged with the current token      *)
(* misses no change whose invalidation has completed (ADR 0040, line 49).  *)
THEOREM TagStaysCurrent ==
  ASSUME "lateMint" \notin CacheFaults
  PROVE  Spec => []TagIsCurrent
  <1>1. FreshInv => TagIsCurrent
    BY DEF FreshInv, ListingLivesUp, LivesUp, TagIsCurrent, Covers
  <1>2. TypeInv /\ FreshInv /\ [Next]_vars => FreshInv'
    BY NextFreshInv
  <1>3. QED
    BY <1>1, <1>2, InitTypeInv, InitFreshInv, NextTypeInv, PTL DEF Spec
=============================================================================
