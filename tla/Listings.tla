------------------------------ MODULE Listings ------------------------------
(***************************************************************************)
(* What MemoryStore makes of the objects under an entity's prefix: pages   *)
(* of keys as GcsStorage.list_page returns them, the files that count      *)
(* towards max_files_per_entity, and the index get_memory_index assembles  *)
(* from the entries it drained.  Pure operators; EntityScans.tla runs them *)
(* against a bucket that changes between the pages.                        *)
(*                                                                         *)
(* Keys are numbered in string order, so the keys of one entity, and the   *)
(* entities of one scope map, are visited in numeric order.  An object is  *)
(* its key and its GCS generation.                                         *)
(***************************************************************************)
EXTENDS Naturals, Sequences, FiniteSets

CONSTANTS
  NKeys, NEntities,
  EntityOf,     \* [key -> the scope/entity_id prefix it is under]
  AreaOf,       \* [key -> its area prefix, a number]
  System,       \* well-formed keys in the system/ area
  Malformed,    \* keys that are not well-formed memory paths
  Corrupt,      \* keys whose metadata does not parse
  PageSize,     \* list_page_size
  FileLimit,    \* max_files_per_entity
  TierOf,       \* [entity -> position of its scope in scope_priority]
  Updated(_),   \* generation -> the last_updated its metadata carries
  EntryBytes,   \* [key -> index_entry_bytes of its entry]
  IndexBytes    \* index_max_bytes

Keys == 1..NKeys
Entities == 1..NEntities

ASSUME ListingAssumption ==
  /\ NKeys \in Nat /\ NEntities \in Nat
  /\ EntityOf \in [Keys -> Entities]
  /\ System \subseteq Keys /\ Malformed \subseteq Keys \ System /\ Corrupt \subseteq Keys
  /\ PageSize \in Nat \ {0}
  /\ FileLimit \in Nat \ {0}
  /\ TierOf \in [Entities -> Nat]
  /\ EntryBytes \in [Keys -> Nat] /\ IndexBytes \in Nat \ {0}

Object == [key : Keys, gen : Nat]

WellFormed == Keys \ Malformed
Counted == WellFormed \ System

(***************************************************************************)
(* A bucket is a function from keys to generations, 0 for no object.       *)
(***************************************************************************)
Present(b) == {k \in Keys : b[k] # 0}
Under(e) == {k \in Keys : EntityOf[k] = e}

(* Functions rather than operators: TLC then evaluates their arguments once. *)
First ==
  [S \in SUBSET Keys |-> [n \in Nat |-> {k \in S : Cardinality({j \in S : j < k}) < n}]]
Ascending ==
  [S \in SUBSET Nat |->
     [i \in 1..Cardinality(S) |-> CHOOSE k \in S : Cardinality({j \in S : j < k}) = i - 1]]

(* The client's list_blobs: start_offset is inclusive, 0 stands for none.  *)
ListBlobs(b, e, start, max) ==
  First[{k \in Under(e) : b[k] # 0 /\ k >= start}][max]

(* Mutant: no extra object is asked for to make up for the start key. *)
ListKeys_NoExtra(b, e, after, limit) ==
  First[ListBlobs(b, e, after, limit) \ {after}][limit]

(* start_after may be gone by now: then the object asked for in excess is cut. *)
ListKeys(b, e, after, limit) ==
  First[ListBlobs(b, e, after, limit + 1) \ {after}][limit]

ListPage(b, e, after, limit) ==
  LET keys == Ascending[ListKeys(b, e, after, limit)]
  IN  [i \in DOMAIN keys |-> [key |-> keys[i], gen |-> b[keys[i]]]]

(***************************************************************************)
(* get_memory_index: the entries in tiers, most recent first, cut at the   *)
(* first one that does not fit, and what was cut counted by area.          *)
(***************************************************************************)
Tier(o) == IF o.key \in System THEN 0 ELSE 1 + TierOf[EntityOf[o.key]]

Before(x, y) ==
  \/ Tier(x) < Tier(y)
  \/ Tier(x) = Tier(y) /\ Updated(x.gen) > Updated(y.gen)
  \/ Tier(x) = Tier(y) /\ Updated(x.gen) = Updated(y.gen) /\ x.key < y.key

Ordered(S) ==
  [i \in 1..Cardinality(S) |->
     CHOOSE o \in S : Cardinality({p \in S : Before(p, o)}) = i - 1]

(* The bytes of the first n entries of s. *)
Bytes(s, n) ==
  LET sum[i \in 0..n] == IF i = 0 THEN 0 ELSE sum[i - 1] + EntryBytes[s[i].key]
  IN  sum[n]

(* Mutant: an entry that does not fit is skipped and the ones after it tried. *)
Included_Skips(s) ==
  LET sum[i \in 0..Len(s)] ==
        IF i = 0 THEN 0
        ELSE IF sum[i - 1] + EntryBytes[s[i].key] > IndexBytes THEN sum[i - 1]
        ELSE sum[i - 1] + EntryBytes[s[i].key]
  IN  Cardinality({i \in DOMAIN s : sum[i - 1] + EntryBytes[s[i].key] <= IndexBytes})

Included(s) == Cardinality({i \in DOMAIN s : Bytes(s, i) <= IndexBytes})

(* The entries shown, and how many of each area are left out. *)
Capped ==
  [s \in Seq(Object) |->
     LET left == (Included(s) + 1)..Len(s)
     IN  [entries |-> SubSeq(s, 1, Included(s)),
          capped |-> [area \in {AreaOf[s[i].key] : i \in left} |->
                        Cardinality({i \in left : AreaOf[s[i].key] = area})]]]

AssembleIndex(S) == Capped[Ordered(S)]

EmptyIndex == [entries |-> <<>>, capped |-> <<>>]
=============================================================================
