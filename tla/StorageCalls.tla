---------------------------- MODULE StorageCalls ----------------------------
(***************************************************************************)
(* The calls of the Storage protocol (storage/__init__.py) and what they   *)
(* return, shared by the abstract storage (AtomicStorage) and the backend  *)
(* that implements it on a local file system (FilesystemStorage).          *)
(*                                                                         *)
(* A put is named by the version token it draws, and what it stores (the   *)
(* bytes, and the metadata beside the token) by the same name: an object   *)
(* read whole has body = version.                                          *)
(***************************************************************************)
EXTENDS Naturals, Sequences, FiniteSets

CONSTANTS
  Keys,      \* storage keys, as numbers in string order
  BadKey,    \* a key _locate refuses
  Clients,   \* threads using the storage
  Calls,     \* the calls they may make, with `expected` left 0
  Foreign,   \* contents put in a file by something else than the library
  MaxCalls   \* bound: calls made in all

Ops == {"get", "put", "cas", "delete", "list"}
Puts == {"put", "cas"}
Writes == Puts \union {"delete"}

(* cas is put_if_version, expected = 0 its None.  under, after and limit   *)
(* are list_page's prefix (as the set of keys that start with it),         *)
(* start_after (0 for None) and limit.                                     *)
Request ==
  [op : Ops, key : Keys \union {BadKey}, expected : Nat,
   under : SUBSET Keys, after : Nat, limit : Nat \ {0}]

ASSUME StorageAssumption ==
  /\ Keys \subseteq Nat \ {0}
  /\ BadKey \notin Keys
  /\ Foreign \notin Nat
  /\ Calls \subseteq Request
  /\ MaxCalls \in Nat

NoCall == [op |-> "get", key |-> BadKey, expected |-> 0,
           under |-> {}, after |-> 0, limit |-> 1]

(* delete_if_version always names a version. *)
Sensible(r) == r.op = "delete" => r.expected # 0

-----------------------------------------------------------------------------
Kinds == {"none", "ok", "absent", "precondition", "unavailable", "badKey", "lost"}

Answer ==
  [kind : Kinds, version : Nat, body : Nat \union {Foreign},
   page : SUBSET (Keys \X Nat)]

Plain(kind) == [kind |-> kind, version |-> 0, body |-> 0, page |-> {}]
Object(v, b) == [Plain("ok") EXCEPT !.version = v, !.body = b]
Committed(v) == [Plain("ok") EXCEPT !.version = v]
Page(p) == [Plain("ok") EXCEPT !.page = p]

(* What _locate and list_page answer for a key or prefix that has no encoding. *)
Refused(r) == IF r.op = "list" THEN Page({}) ELSE Plain("badKey")

(* The first `limit` keys of S by the order of keys, those after r.after   *)
(* and under r.under only.                                                 *)
Selected(r, S) ==
  LET further == {k \in S \intersect r.under : k > r.after}
  IN  {k \in further : Cardinality({j \in further : j < k}) < r.limit}
=============================================================================
