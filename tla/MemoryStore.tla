---------------------------- MODULE MemoryStore ----------------------------
(***************************************************************************)
(* MemoryStore's file calls (core.py: read_file, write_file, replace_fact, *)
(* append_line, delete_file) run by concurrent clients against one path of *)
(* a shared Storage.  Each storage call is one atomic step and the Python  *)
(* between two storage calls runs with the step before it, so another      *)
(* client, another process or an operator editing the bucket can act       *)
(* between any two storage calls of a call in progress.                    *)
(*                                                                         *)
(* The storage backend is external: it keeps the protocol of               *)
(* storage/__init__.py and may fail in the ways GcsStorage reports (see    *)
(* FaultKinds).  The path's history is kept whole in `log`, because a      *)
(* version token identifies one put for ever.                              *)
(***************************************************************************)
EXTENDS Files

CONSTANTS
  FaultKinds,      \* which storage faults may happen
  MaxCalls,        \* bound: calls each client makes
  MaxFaults,       \* bound: storage faults in a behaviour
  MaxEdits,        \* bound: changes made outside the library
  MaxAttempts      \* _MAX_REPLACE_ATTEMPTS

(* unavailable: the call fails and nothing is stored.                      *)
(* lost:        the put is stored, the call fails (a timeout).             *)
(* resend:      the put is stored, the backend's client sends it again.    *)
(* late:        the call fails, the put reaches storage afterwards.        *)
AllFaults == {"unavailable", "lost", "resend", "late"}

ASSUME StoreAssumption ==
  /\ FaultKinds \subseteq AllFaults
  /\ MaxCalls \in Nat /\ MaxFaults \in Nat /\ MaxEdits \in Nat
  /\ MaxAttempts \in Nat \ {0}

VARIABLES
  log,     \* every change committed at the path, oldest first
  late,    \* conditional puts that failed at the client and are still in flight
  asked,   \* [client -> the requests it has made, oldest first]
  pc,      \* [client -> the storage call it makes next, or "idle"]
  got,     \* [client -> the version and object its last get returned]
  draft,   \* [client -> the object its put will store]
  tries,   \* [client -> replace_fact attempts whose put was refused]
  born,    \* [client -> how many changes were committed when the call began]
  answer,  \* [client -> what its last call returned or raised]
  faults,  \* how many storage faults have happened
  edits    \* how many changes were made outside the library

vars == <<log, late, asked, pc, got, draft, tries, born, answer, faults, edits>>

storage == <<log, late>>
bounds == <<faults, edits>>
call == <<asked, born>>

TypeOK ==
  /\ log \in Seq(Entry)
  /\ late \subseteq Straggler
  /\ asked \in [Clients -> Seq(Request)]
  /\ pc \in [Clients -> {"idle", "cap", "capget", "get", "put", "reget"}]
  /\ got \in [Clients -> [version : Nat, object : Object \union {NoFile}]]
  /\ draft \in [Clients -> Object \union {NoFile}]
  /\ tries \in [Clients -> 0..(MaxAttempts - 1)]
  /\ born \in [Clients -> Nat]
  /\ answer \in [Clients -> Answer]
  /\ faults \in 0..MaxFaults
  /\ edits \in 0..MaxEdits

Nothing == [version |-> 0, object |-> NoFile]

Init ==
  /\ log = <<>>
  /\ late = {}
  /\ asked = [c \in Clients |-> <<>>]
  /\ pc = [c \in Clients |-> "idle"]
  /\ got = [c \in Clients |-> Nothing]
  /\ draft = [c \in Clients |-> NoFile]
  /\ tries = [c \in Clients |-> 0]
  /\ born = [c \in Clients |-> 0]
  /\ answer = [c \in Clients |-> NoAnswer]
  /\ faults = 0
  /\ edits = 0

-----------------------------------------------------------------------------
(* The request of the call in progress, and what a get would return now.   *)
req(c) == asked[c][Len(asked[c])]
Top == Current(log)
Here == ObjectAt(log, Top)

(* Mutant: the put replaces whatever is there. *)
Precondition_Latest(c) == Top

(* The version a put or delete is conditional on: the caller's, except     *)
(* that replace_fact re-applies against whatever it just read.             *)
Precondition(c) ==
  IF req(c).op = "replace" THEN got[c].version ELSE req(c).expected

Return(c, kind, version, object) ==
  /\ answer' = [answer EXCEPT ![c] =
       [kind |-> kind, version |-> version, object |-> object]]
  /\ pc' = [pc EXCEPT ![c] = "idle"]
  /\ got' = [got EXCEPT ![c] = Nothing]
  /\ draft' = [draft EXCEPT ![c] = NoFile]
  /\ tries' = [tries EXCEPT ![c] = 0]

(* Raise an error that attaches no content. *)
Raise(c, kind) == Return(c, kind, 0, NoFile)

(* VersionConflictError with the object just read. *)
Conflict(c) == Return(c, "conflict", Top, Here)

(* A step after which the call goes on to storage call `next`. *)
Continue(c, next, newGot, newDraft, newTries) ==
  /\ pc' = [pc EXCEPT ![c] = next]
  /\ got' = [got EXCEPT ![c] = newGot]
  /\ draft' = [draft EXCEPT ![c] = newDraft]
  /\ tries' = [tries EXCEPT ![c] = newTries]
  /\ UNCHANGED answer

(* Keep the object just read and go on to put the edit of it.              *)
Prepare(c) ==
  \E t \in Stamps :
    Continue(c, "put", [version |-> Top, object |-> Here],
             Edited(req(c), Here, t), tries[c])

(* The first storage call of each kind of call. *)
FirstStep(r) == IF r.op = "write" /\ r.expected = 0 THEN "cap" ELSE "get"

(* A client calls.  Bad arguments and an over-size write_file are refused  *)
(* before storage is touched.  The expected version is any token handed    *)
(* out so far, read by this client or told to it; None only for a create.  *)
Call(c) ==
  /\ pc[c] = "idle"
  /\ Len(asked[c]) < MaxCalls
  /\ \E call0 \in Calls, v \in 0..Len(log) :
       LET r == [call0 EXCEPT !.expected = v] IN
       /\ r.op = "read" => v = 0
       /\ r.op \in {"replace", "append", "delete"} => v > 0
       /\ asked' = [asked EXCEPT ![c] = Append(@, r)]
       /\ born' = [born EXCEPT ![c] = Len(log)]
       /\ IF ~r.valid
          THEN Raise(c, "invalid")
          ELSE IF r.op = "write" /\ Oversize(r.text)
               THEN Raise(c, "oversize")
               ELSE /\ answer' = [answer EXCEPT ![c] = NoAnswer]
                    /\ pc' = [pc EXCEPT ![c] = FirstStep(r)]
                    /\ UNCHANGED <<got, draft, tries>>
  /\ UNCHANGED <<storage, bounds>>
-----------------------------------------------------------------------------
(* write_file(expected_version=None) first counts the entity's files       *)
(* (_at_file_cap).  The other files are not modelled here, so the count    *)
(* comes out either way.                                                   *)
BelowCap(c) ==
  /\ pc[c] = "cap"
  /\ \E t \in Stamps :
       Continue(c, "put", Nothing, Edited(req(c), NoFile, t), 0)
  /\ UNCHANGED <<storage, call, bounds>>

AtCap(c) ==
  /\ pc[c] = "cap"
  /\ Continue(c, "capget", Nothing, NoFile, 0)
  /\ UNCHANGED <<storage, call, bounds>>

(* At the cap a create is a conflict if the file exists, else over quota.  *)
CapGet(c) ==
  /\ pc[c] = "capget"
  /\ \/ Top = 0 /\ Raise(c, "quota")
     \/ /\ Top # 0
        /\ IF Decodes(Here) /\ Parses(Here) THEN Conflict(c) ELSE Raise(c, "malformed")
  /\ UNCHANGED <<storage, call, bounds>>

(* storage.get returned None, in any call. *)
GetAbsent(c) ==
  /\ pc[c] \in {"get", "reget"}
  /\ Top = 0
  /\ Raise(c, "absent")
  /\ UNCHANGED <<storage, call, bounds>>

(* The get that opens a call of kind op found an object. *)
Found(c, op) ==
  /\ pc[c] = "get"
  /\ req(c).op = op
  /\ Top # 0
  /\ UNCHANGED <<storage, call, bounds>>

ReadFile(c) ==
  /\ Found(c, "read")
  /\ IF Decodes(Here) /\ Parses(Here)
     THEN Return(c, "ok", Top, Here)
     ELSE Raise(c, "malformed")

(* write_file over an existing file decodes the stored body only to attach *)
(* it to a conflict: a body that is not UTF-8 can be overwritten.          *)
WriteFile(c) ==
  /\ Found(c, "write")
  /\ \/ /\ Top # req(c).expected
        /\ IF Decodes(Here) /\ Parses(Here) THEN Conflict(c) ELSE Raise(c, "malformed")
     \/ /\ Top = req(c).expected
        /\ IF Parses(Here) THEN Prepare(c) ELSE Raise(c, "malformed")

(* One attempt of replace_fact: the anchor decides, not the version. *)
ReplaceFact(c) ==
  LET hits == Occurrences(Here.body, req(c).anchor) IN
  /\ Found(c, "replace")
  /\ \/ ~(Decodes(Here) /\ Parses(Here)) /\ Raise(c, "malformed")
     \/ /\ Decodes(Here) /\ Parses(Here)
        /\ \/ /\ hits # 1
              /\ IF Top = req(c).expected
                 THEN Return(c, "match", Top, Here)
                 ELSE Conflict(c)
           \/ /\ hits = 1
              /\ IF Oversize(NewBody(req(c), Here.body))
                 THEN Raise(c, "oversize")
                 ELSE Prepare(c)

(* append_line checks the version before it parses the metadata. *)
AppendLine(c) ==
  /\ Found(c, "append")
  /\ \/ ~Decodes(Here) /\ Raise(c, "malformed")
     \/ Decodes(Here) /\ Top # req(c).expected /\ Conflict(c)
     \/ /\ Decodes(Here) /\ Top = req(c).expected
        /\ IF ~Parses(Here)
           THEN Raise(c, "malformed")
           ELSE IF Oversize(NewBody(req(c), Here.body))
                THEN Raise(c, "oversize")
                ELSE Prepare(c)

(* delete_file never parses metadata: a corrupt file can be deleted. *)
DeleteFile(c) ==
  /\ Found(c, "delete")
  /\ \/ /\ Top # req(c).expected
        /\ IF Decodes(Here) THEN Conflict(c) ELSE Raise(c, "malformed")
     \/ Top = req(c).expected /\ Prepare(c)

-----------------------------------------------------------------------------
(* put_if_version and delete_if_version: the comparison and the change are *)
(* one atomic step of storage.                                             *)
Accepts(c) == Top = Precondition(c)
Store(entry) == log' = Append(log, entry)

Committed(c) == [client |-> c, call |-> Len(asked[c]), object |-> draft[c]]

(* Mutant: replace_fact's loop goes on after a put that committed. *)
PutCommits_KeepsTrying(c) ==
  /\ pc[c] = "put"
  /\ Accepts(c)
  /\ Store(Committed(c))
  /\ IF req(c).op = "replace" /\ tries[c] + 1 < MaxAttempts
     THEN Continue(c, "get", got[c], NoFile, tries[c] + 1)
     ELSE Return(c, "ok", IF draft[c] = NoFile THEN 0 ELSE Len(log'), draft[c])
  /\ UNCHANGED <<late, call, bounds>>

PutCommits(c) ==
  /\ pc[c] = "put"
  /\ Accepts(c)
  /\ Store(Committed(c))
  /\ Return(c, "ok", IF draft[c] = NoFile THEN 0 ELSE Len(log'), draft[c])
  /\ UNCHANGED <<late, call, bounds>>

(* Mutants of the handling of a refused put: the conflict attaches what    *)
(* the call read first; one attempt too many; the same put is tried again. *)
PutRefused_Stale(c) ==
  /\ pc[c] = "put"
  /\ ~Accepts(c)
  /\ Return(c, "conflict", got[c].version, got[c].object)
  /\ UNCHANGED <<storage, call, bounds>>

PutRefused_OneMore(c) ==
  /\ pc[c] = "put"
  /\ ~Accepts(c)
  /\ IF req(c).op # "replace"
     THEN Continue(c, "reget", got[c], draft[c], 0)
     ELSE IF tries[c] < MaxAttempts
          THEN Continue(c, "get", got[c], NoFile, tries[c] + 1)
          ELSE Return(c, "conflict", got[c].version, got[c].object)
  /\ UNCHANGED <<storage, call, bounds>>

PutRefused_NoReread(c) ==
  /\ pc[c] = "put"
  /\ ~Accepts(c)
  /\ Continue(c, IF req(c).op = "replace" THEN "put" ELSE "reget", got[c], draft[c],
              (tries[c] + 1) % MaxAttempts)
  /\ UNCHANGED <<storage, call, bounds>>

(* PreconditionFailedError: replace_fact re-reads and tries again up to    *)
(* MaxAttempts puts, then gives up with the object its last get returned;  *)
(* the other calls re-read once to say what is there now.                  *)
PutRefused(c) ==
  /\ pc[c] = "put"
  /\ ~Accepts(c)
  /\ IF req(c).op # "replace"
     THEN Continue(c, "reget", got[c], draft[c], 0)
     ELSE IF tries[c] + 1 < MaxAttempts
          THEN Continue(c, "get", got[c], NoFile, tries[c] + 1)
          ELSE Return(c, "conflict", got[c].version, got[c].object)
  /\ UNCHANGED <<storage, call, bounds>>

(* Mutants of the re-read: the landed-write check compares bodies only; a  *)
(* refused delete is taken for done.                                       *)
Reget_BodyOnly(c) ==
  /\ pc[c] = "reget"
  /\ Top # 0
  /\ IF req(c).op = "append" /\ Here.body = draft[c].body
     THEN Return(c, "ok", Top, draft[c])
     ELSE Conflict(c)
  /\ UNCHANGED <<storage, call, bounds>>

Reget_DeleteDone(c) ==
  /\ pc[c] = "reget"
  /\ Top # 0
  /\ IF req(c).op = "delete" THEN Return(c, "ok", 0, NoFile) ELSE Conflict(c)
  /\ UNCHANGED <<storage, call, bounds>>

(* The re-read after a refused write, append or delete.  append_line finds *)
(* its own landed write by comparing bytes and metadata, and does not      *)
(* parse the metadata of a foreign one; delete_file does not either.       *)
Reget(c) ==
  /\ pc[c] = "reget"
  /\ Top # 0
  /\ \/ /\ req(c).op = "append" /\ Here = draft[c]
        /\ Return(c, "ok", Top, draft[c])
     \/ /\ ~(req(c).op = "append" /\ Here = draft[c])
        /\ IF Decodes(Here) /\ (req(c).op = "write" => Parses(Here))
           THEN Conflict(c)
           ELSE Raise(c, "malformed")
  /\ UNCHANGED <<storage, call, bounds>>

-----------------------------------------------------------------------------
(* Faults of the backend. *)

Fault(kind) ==
  /\ kind \in FaultKinds
  /\ faults < MaxFaults
  /\ faults' = faults + 1
  /\ UNCHANGED edits

(* Any storage call may raise BackendUnavailableError, which propagates. *)
Unavailable(c) ==
  /\ pc[c] # "idle"
  /\ Fault("unavailable")
  /\ Raise(c, "unavailable")
  /\ UNCHANGED <<storage, call>>

(* The put is stored and its response is lost. *)
PutLost(c) ==
  /\ pc[c] = "put"
  /\ Accepts(c)
  /\ Fault("lost")
  /\ Store(Committed(c))
  /\ Raise(c, "unavailable")
  /\ UNCHANGED <<late, call>>

(* The put is stored, its response is lost, and the backend's own client   *)
(* sends the same conditional request again.                               *)
PutResent(c) ==
  /\ pc[c] = "put"
  /\ Accepts(c)
  /\ Fault("resend")
  /\ Store(Committed(c))
  /\ UNCHANGED <<late, call, pc, got, draft, tries, answer>>

(* The client times out while the put is still on its way. *)
PutTimesOut(c) ==
  /\ pc[c] = "put"
  /\ Fault("late")
  /\ late' = late \union {[entry |-> Committed(c), expected |-> Precondition(c)]}
  /\ Raise(c, "unavailable")
  /\ UNCHANGED <<log, call>>

(* It reaches storage: its precondition is judged only now. *)
LatePut ==
  \E s \in late :
    /\ late' = late \ {s}
    /\ log' = IF Top = s.expected THEN Append(log, s.entry) ELSE log
    /\ UNCHANGED <<call, pc, got, draft, tries, answer, bounds>>

(* Storage.put, an editor on the file system, a purge, a seeding script.   *)
OutsideEdit ==
  /\ edits < MaxEdits
  /\ edits' = edits + 1
  /\ \E o \in OutsideObjects :
       /\ o = NoFile => Top # 0
       /\ Store([client |-> Outside, call |-> 0, object |-> o])
  /\ UNCHANGED <<late, call, pc, got, draft, tries, answer, faults>>

-----------------------------------------------------------------------------
(* What a call in progress does next when the backend does not fail. *)
Step(c) ==
  \/ BelowCap(c) \/ AtCap(c) \/ CapGet(c)
  \/ GetAbsent(c) \/ ReadFile(c) \/ WriteFile(c)
  \/ ReplaceFact(c) \/ AppendLine(c) \/ DeleteFile(c)
  \/ PutCommits(c) \/ PutRefused(c) \/ Reget(c)

Faulty(c) ==
  Unavailable(c) \/ PutLost(c) \/ PutResent(c) \/ PutTimesOut(c)

Next ==
  \/ \E c \in Clients : Call(c) \/ Step(c) \/ Faulty(c)
  \/ LatePut
  \/ OutsideEdit

(* A thread that is inside a call is scheduled again; nothing forces a     *)
(* client to call, a fault to happen or a late put to arrive.              *)
Spec == Init /\ [][Next]_vars /\ \A c \in Clients : WF_vars(Step(c))
-----------------------------------------------------------------------------
(* The request behind a committed change made by a client. *)
RequestOf(e) == asked[e.client][e.call]

Mine(c, e) == e.client = c /\ e.call = Len(asked[c])

(* Whether version v was current at some moment of the call in progress, or *)
(* last made, by c.                                                         *)
CurrentDuringCall(c, v) ==
  \E i \in born[c]..Len(log) : VersionAt(log, i) = v

(* No lost update: every change a client commits is the edit it asked for,  *)
(* applied to the very object it replaces, however its get and its put were *)
(* interleaved with others'; a write, an append or a delete replaces        *)
(* exactly the version its caller named, and replace_fact an object where   *)
(* its anchor is unique.  (the conditional puts of core.py, ADR 0008-0012)  *)
NoLostUpdate ==
  \A j \in DOMAIN log :
    log[j].client \in Clients =>
      EditOf(log, RequestOf(log[j]), VersionAt(log, j - 1), log[j].object)

(* Provenance: as long as nobody deletes the file or edits it behind the    *)
(* library's back, a source recorded once stays recorded, whoever writes    *)
(* and whatever sources they know of (write_file: "can't remove a source    *)
(* others recorded", core.py 676).                                          *)
ProvenanceGrows ==
  \A i, j \in DOMAIN log :
    (i < j /\ \A k \in i..j : log[k].client \in Clients /\ log[k].object # NoFile)
      => log[i].object.sources \subseteq log[j].object.sources

(* A success is true: what a returned MemoryFile shows is what storage      *)
(* holds under the version it returns, put there during the call (for a     *)
(* read: current during it), and a delete that returned did delete.  The    *)
(* landed-write check of append_line is the interesting case.               *)
AckedIsStored ==
  \A c \in Clients :
    (pc[c] = "idle" /\ answer[c].kind = "ok") =>
      LET v == answer[c].version IN
      IF req(c).op = "delete"
      THEN \E j \in DOMAIN log : Mine(c, log[j]) /\ log[j].object = NoFile
      ELSE /\ v \in DOMAIN log
           /\ log[v].object = answer[c].object
           /\ IF req(c).op = "read" THEN CurrentDuringCall(c, v) ELSE v > born[c]

(* A conflict is news: the content and version it attaches belong together, *)
(* were current at some moment of the call, and are not the version the     *)
(* caller already had.                                                      *)
ConflictIsNews ==
  \A c \in Clients :
    (pc[c] = "idle" /\ answer[c].kind = "conflict") =>
      LET v == answer[c].version IN
      /\ v \in DOMAIN log
      /\ v # req(c).expected
      /\ log[v].object = answer[c].object
      /\ CurrentDuringCall(c, v)

(* An error other than BackendUnavailableError means the call changed       *)
(* nothing, so the agent may correct it and call again ("correct the call   *)
(* and retry in the same turn", errors.py 66).  It needs a backend that     *)
(* does not resend conditional puts by itself.                              *)
RefusedLeavesNoTrace ==
  \A c \in Clients :
    (pc[c] = "idle" /\ answer[c].kind \notin {"none", "ok", "unavailable"}) =>
      \A j \in DOMAIN log : ~Mine(c, log[j])

(* A retry of a write, an append or a delete that names the same version    *)
(* never lands a second time, whatever storage did with the first attempt:  *)
(* lost its response, delayed it or resent it (ADR 0011, line 70).          *)
GuardedCallLandsOnce ==
  \A i, j \in DOMAIN log :
    (i < j /\ log[i].client \in Clients /\ log[i].client = log[j].client) =>
      LET r == RequestOf(log[i])
      IN  ~(Guarded(r) /\ r.expected # 0 /\ RequestOf(log[j]) = r)

(* Every call returns or raises: replace_fact's attempts are bounded and no *)
(* path of any call waits for another client.                               *)
EveryCallAnswers == \A c \in Clients : []<>(pc[c] = "idle")

-----------------------------------------------------------------------------
(* The steps above amount to atomic calls: a client is inside a call from   *)
(* its first storage call to its answer, the rest of the state is shared.   *)
InCall == {c \in Clients : pc[c] # "idle"}

Atomic == INSTANCE AtomicFiles WITH open <- InCall

(* Refinement: concurrent MemoryStore calls, with their stale reads,        *)
(* retries, re-reads and faults, look to every caller like atomic edits.    *)
ImplementsAtomicFiles == Atomic!Spec

-----------------------------------------------------------------------------
(* A statement of the repository that the code does not keep. *)

(* "An attempt that already landed comes back as a version conflict on      *)
(* retry" (errors.py 85), and "matching the same anchor again produces the  *)
(* same edit" (ADR 0011, line 36): a replace_fact, retried or resent with   *)
(* the same arguments, does not edit the file twice.                        *)
ReplaceLandsOnce ==
  \A i, j \in DOMAIN log :
    (i < j /\ log[i].client \in Clients /\ log[i].client = log[j].client) =>
      LET r == RequestOf(log[i])
      IN  ~(r.op = "replace" /\ RequestOf(log[j]) = r)

=============================================================================
