------------------------------- MODULE Files -------------------------------
(***************************************************************************)
(* One memory file and the edits wenchang computes on it: what a stored    *)
(* object holds, what a caller asks for, and the object each mutating call *)
(* of MemoryStore builds from the object it read.  Everything here is a    *)
(* pure operator; MemoryStore.tla runs these edits step by step against a  *)
(* shared Storage, AtomicFiles.tla states what that must amount to.        *)
(*                                                                         *)
(* A body is a sequence of facts.  The separator handling of append_line   *)
(* (core.py 883) keeps facts on lines of their own, so at this level it is *)
(* concatenation; counting an anchor is counting the facts equal to it.    *)
(***************************************************************************)
EXTENDS Naturals, Sequences, FiniteSets

CONSTANTS
  Facts,      \* the facts a body is made of
  Sources,    \* calling surfaces recorded in metadata.sources
  Stamps,     \* the values the injected clock may return (not monotonic)
  MaxLen,     \* max_file_bytes, counted in facts
  NoFile,     \* storage.get's None: no object at the path
  Clients,    \* concurrent callers of one or several MemoryStores
  Outside,    \* whoever changes the file without the library
  Calls,      \* the requests a client may make, with `expected` left 0
  OutsideObjects  \* what Outside may store; NoFile stands for a delete

(* How an object decodes: "badMetadata" makes metadata_from_map raise,     *)
(* "badBody" makes the UTF-8 decode raise.  Only writers outside the       *)
(* library produce the last two.                                           *)
Forms == {"ok", "badMetadata", "badBody"}

Object ==
  [body : Seq(Facts), sources : SUBSET Sources, stamp : Stamps, form : Forms]

Decodes(o) == o.form # "badBody"
Parses(o) == o.form # "badMetadata"

-----------------------------------------------------------------------------
Ops == {"read", "write", "replace", "append", "delete"}
Mutators == Ops \ {"read"}

(* What a caller passes.  expected = 0 is None; text is write_file's       *)
(* content, append_line's line (one fact) or replace_fact's new_string;    *)
(* anchor is old_string; sources is metadata.sources with `source` added;  *)
(* valid says the arguments pass the checks made before storage is called. *)
Request ==
  [op : Ops, expected : Nat, text : Seq(Facts), anchor : Facts,
   sources : SUBSET Sources, valid : BOOLEAN]

ASSUME FilesAssumption ==
  /\ NoFile \notin Object
  /\ Outside \notin Clients
  /\ MaxLen \in Nat
  /\ Stamps # {}
  /\ Calls \subseteq Request
  /\ OutsideObjects \subseteq Object \union {NoFile}

(* The calls that name the version they build on. *)
Guarded(r) == r.op \in {"write", "append", "delete"}

Occurrences(body, fact) == Cardinality({i \in DOMAIN body : body[i] = fact})

(* content.replace(old_string, new_string, 1), for an anchor that occurs.  *)
ReplaceFirst(body, fact, new) ==
  LET at == CHOOSE i \in DOMAIN body :
              /\ body[i] = fact
              /\ \A j \in DOMAIN body : body[j] = fact => i <= j
  IN  SubSeq(body, 1, at - 1) \o new \o SubSeq(body, at + 1, Len(body))

(* The body a request leaves behind, from the body it found. *)
NewBody(r, body) ==
  CASE r.op = "replace" -> ReplaceFirst(body, r.anchor, r.text)
    [] r.op = "append" -> body \o r.text
    [] OTHER -> r.text

(* Mutant: the caller's sources replace the stored ones. *)
MergedSources_Replaced(r, o) == r.sources

(* Sources are only ever added: write_file unions the stored ones with the *)
(* caller's, _merge_metadata adds the calling surface.                     *)
MergedSources(r, o) ==
  IF o = NoFile THEN r.sources ELSE o.sources \union r.sources

(* The object a mutating request stores, given the object o it read (or    *)
(* NoFile) and the clock's reading t; deleting stores NoFile.              *)
Edited(r, o, t) ==
  IF r.op = "delete"
  THEN NoFile
  ELSE [body |-> NewBody(r, IF o = NoFile THEN <<>> ELSE o.body),
        sources |-> MergedSources(r, o), stamp |-> t, form |-> "ok"]

Oversize(body) == Len(body) > MaxLen

-----------------------------------------------------------------------------
(* The path's history: a sequence of committed changes.  A version token   *)
(* is the position of the put that made it, so tokens are never reused,    *)
(* which is all the Storage protocol promises of them.                     *)

(* The version current after the first i changes; 0 when no object exists. *)
VersionAt(log, i) == IF i = 0 THEN 0 ELSE IF log[i].object = NoFile THEN 0 ELSE i

Current(log) == VersionAt(log, Len(log))

(* storage.get *)
ObjectAt(log, v) == IF v = 0 THEN NoFile ELSE log[v].object

(* Object o is what request r makes of version v: the caller named v, or    *)
(* its anchor is unique in v, and o is the requested edit of v's object.   *)
EditOf(log, r, v, o) ==
  LET before == ObjectAt(log, v) IN
  /\ r.op \in Mutators
  /\ Guarded(r) => v = r.expected
  /\ r.op = "replace" => /\ before # NoFile
                         /\ Occurrences(before.body, r.anchor) = 1
  /\ \E t \in Stamps : o = Edited(r, before, t)
  /\ o # NoFile => ~Oversize(o.body)

-----------------------------------------------------------------------------
(* What a call returns or raises; version and object are 0 and NoFile when *)
(* none is attached.                                                       *)
Kinds == {"none", "ok", "invalid", "absent", "conflict", "match", "oversize",
          "quota", "malformed", "unavailable"}

Answer == [kind : Kinds, version : Nat, object : Object \union {NoFile}]

NoAnswer == [kind |-> "none", version |-> 0, object |-> NoFile]

(* One committed change: whose call made it, and the object it left. *)
Entry ==
  [client : Clients \union {Outside}, call : Nat, object : Object \union {NoFile}]

(* A conditional put that is still on its way to storage. *)
Straggler == [entry : Entry, expected : Nat]
=============================================================================
