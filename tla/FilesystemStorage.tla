------------------------- MODULE FilesystemStorage -------------------------
(***************************************************************************)
(* FilesystemStorage (storage/filesystem.py): objects as pairs of files in *)
(* a directory tree, shared by the threads of several processes.  Each     *)
(* step below is one system call that can fail, or at which a process can  *)
(* die, or between which another process runs.                             *)
(*                                                                         *)
(* A file is its contents: body[k] and sidecar[k] hold the token of the    *)
(* put that wrote them, 0 when there is no file, Foreign when something    *)
(* else wrote it.  A sidecar carries its metadata with its version.        *)
(***************************************************************************)
EXTENDS StorageCalls

CONSTANTS
  Dirs,          \* directories below the root
  Trail,         \* [key -> the directories from the root down to its files]
  Processes,     \* instances of FilesystemStorage, each in its own process
  ProcessOf,     \* [client -> the process it is a thread of]
  FailAt,        \* the stages at which a system call may fail
  TamperKinds,   \* what may be done to files behind the library's back
  MaxFailures,   \* bound: failing system calls
  MaxCrashes,    \* bound: crashes of a process
  MaxTampers     \* bound: changes behind the library's back

(* The stages that make a system call. *)
SystemCalls ==
  {"flock", "readSidecar", "readBody", "collect", "readPage", "check", "mkdir",
   "tempBody", "tempSidecar", "replaceBody", "replaceSidecar", "cleanBody",
   "cleanSidecar", "unlinkSidecar", "unlinkBody", "prune", "release"}

ASSUME FilesystemAssumption ==
  /\ FailAt \subseteq SystemCalls
  /\ Trail \in [Keys -> Seq(Dirs)]
  /\ ProcessOf \in [Clients -> Processes]
  /\ {MaxFailures, MaxCrashes, MaxTampers} \subseteq Nat

(* A directory has one place in the tree: the same trail leads to it for   *)
(* every key below it.                                                     *)
ASSUME TreeAssumption ==
  \A k, j \in Keys : \A i \in DOMAIN Trail[k], m \in DOMAIN Trail[j] :
    Trail[k][i] = Trail[j][m] => i = m /\ \A q \in 1..i : Trail[k][q] = Trail[j][q]

VARIABLES
  body, sidecar,  \* [key -> contents of its %obj and %meta files]
  temps,          \* temporary files, as [key, token, part]
  dirs,           \* directories that exist
  minted,         \* tokens drawn so far (uuid4: never drawn twice)
  stage,          \* [client -> the system call its call makes next]
  call, token,    \* [client -> its last request; the token its put drew]
  seen,           \* [client -> the version its get has read]
  picked,         \* [client -> the keys its list_page has selected]
  depth,          \* [client -> how far _prune_empty has climbed]
  shadowed,       \* [client -> the body its replace has overwritten]
  answer,         \* [client -> what its call returns]
  begun, failures, crashes, tampers   \* counters for the bounds

disk == <<body, sidecar, temps, dirs>>
local == <<call, token, seen, picked, depth, shadowed>>
counters == <<begun, failures, crashes, tampers>>
vars == <<disk, minted, stage, local, answer, counters>>

Init ==
  /\ body = [k \in Keys |-> 0] /\ sidecar = [k \in Keys |-> 0]
  /\ temps = {} /\ dirs = {}
  /\ minted = 0
  /\ stage = [c \in Clients |-> "idle"]
  /\ call = [c \in Clients |-> NoCall]
  /\ token = [c \in Clients |-> 0]
  /\ seen = [c \in Clients |-> 0]
  /\ picked = [c \in Clients |-> {}]
  /\ depth = [c \in Clients |-> 0]
  /\ shadowed = [c \in Clients |-> 0]
  /\ answer = [c \in Clients |-> Plain("lost")]
  /\ begun = 0 /\ failures = 0 /\ crashes = 0 /\ tampers = 0

key(c) == call[c].key

Go(c, next) == stage' = [stage EXCEPT ![c] = next]
Settle(c, x) == answer' = [answer EXCEPT ![c] = x]

(* Leave the `with` block with an answer: only the locks are still held. *)
Finish(c, x) == Settle(c, x) /\ Go(c, "release")

-----------------------------------------------------------------------------
(* Locks.  The instance's threading.Lock is taken first; the flock is      *)
(* waited for with it held.                                                *)
HoldsThreadLock(c) == stage[c] \notin {"idle", "wait"}
HoldsFileLock(c) == stage[c] \notin {"idle", "wait", "flock"}
Exclusive(c) == call[c].op \in Writes

Begin(c) ==
  /\ stage[c] = "idle" /\ begun < MaxCalls
  /\ begun' = begun + 1
  /\ \E r \in Calls, v \in 0..minted :
       /\ call' = [call EXCEPT ![c] = [r EXCEPT !.expected = v]]
       /\ Sensible(call'[c])
       /\ IF r.key = BadKey
          THEN Settle(c, Refused(r)) /\ UNCHANGED stage
          ELSE Settle(c, Plain("none")) /\ Go(c, "wait")
  /\ token' = [token EXCEPT ![c] = 0]
  /\ shadowed' = [shadowed EXCEPT ![c] = 0]
  /\ seen' = [seen EXCEPT ![c] = 0]
  /\ picked' = [picked EXCEPT ![c] = {}]
  /\ depth' = [depth EXCEPT ![c] = 0]
  /\ UNCHANGED <<disk, minted, failures, crashes, tampers>>

TakeThreadLock(c) ==
  /\ stage[c] = "wait"
  /\ \A d \in Clients : HoldsThreadLock(d) => ProcessOf[d] # ProcessOf[c]
  /\ Go(c, "flock")
  /\ UNCHANGED <<disk, minted, local, answer, counters>>

(* Mutant: a thread lock alone, which other processes do not see. *)
LockIsFree_InProcess(c) ==
  \A d \in Clients \ {c} :
    HoldsFileLock(d) /\ ProcessOf[d] = ProcessOf[c] => ~Exclusive(c) /\ ~Exclusive(d)

(* Mutant: readers do not take the lock. *)
LockIsFree_ForReaders(c) ==
  \A d \in Clients \ {c} : HoldsFileLock(d) => ~Exclusive(c) \/ ~Exclusive(d)

LockIsFree(c) ==
  \A d \in Clients \ {c} : HoldsFileLock(d) => ~Exclusive(c) /\ ~Exclusive(d)

FirstStage(op) ==
  CASE op = "get" -> "readSidecar"
    [] op = "list" -> "collect"
    [] op = "put" -> "mkdir"
    [] OTHER -> "check"

TakeFileLock(c) ==
  /\ stage[c] = "flock" /\ LockIsFree(c)
  /\ Go(c, FirstStage(call[c].op))
  /\ UNCHANGED <<disk, minted, local, answer, counters>>

(* os.close drops the flock, then the thread lock is released. *)
Release(c) ==
  /\ stage[c] = "release"
  /\ Go(c, "idle")
  /\ UNCHANGED <<disk, minted, local, answer, counters>>

-----------------------------------------------------------------------------
(* Reading. *)

(* Mutant: what is in the sidecar is not validated. *)
ReadSidecar_TrustsContents(c) ==
  /\ stage[c] = "readSidecar"
  /\ IF sidecar[key(c)] = 0
     THEN Finish(c, Plain("absent")) /\ UNCHANGED seen
     ELSE /\ seen' = [seen EXCEPT ![c] = sidecar[key(c)]]
          /\ Go(c, "readBody") /\ UNCHANGED answer
  /\ UNCHANGED <<disk, minted, call, token, picked, depth, shadowed, counters>>

ReadSidecar(c) ==
  /\ stage[c] = "readSidecar"
  /\ CASE sidecar[key(c)] = 0 -> Finish(c, Plain("absent")) /\ UNCHANGED seen
       [] sidecar[key(c)] = Foreign -> Finish(c, Plain("unavailable")) /\ UNCHANGED seen
       [] OTHER -> /\ seen' = [seen EXCEPT ![c] = sidecar[key(c)]]
                   /\ Go(c, "readBody") /\ UNCHANGED answer
  /\ UNCHANGED <<disk, minted, call, token, picked, depth, shadowed, counters>>

ReadBody(c) ==
  /\ stage[c] = "readBody"
  /\ Finish(c, IF body[key(c)] = 0 THEN Plain("unavailable")
               ELSE Object(seen[c], body[key(c)]))
  /\ UNCHANGED <<disk, minted, local, counters>>

(* list_page walks the tree for sidecar names, *)
Collect(c) ==
  /\ stage[c] = "collect"
  /\ picked' = [picked EXCEPT ![c] = Selected(call[c], {k \in Keys : sidecar[k] # 0})]
  /\ Go(c, "readPage")
  /\ UNCHANGED <<disk, minted, call, token, seen, depth, shadowed, answer, counters>>

(* Mutants: a listing that meets a bad sidecar starts again; only a sidecar *)
(* that is gone fails it.                                                   *)
ReadPage_StartsAgain(c) ==
  /\ stage[c] = "readPage"
  /\ IF \E k \in picked[c] : sidecar[k] \in {0, Foreign}
     THEN Go(c, "collect") /\ UNCHANGED answer
     ELSE Finish(c, Page({<<k, sidecar[k]>> : k \in picked[c]}))
  /\ UNCHANGED <<disk, minted, local, counters>>

ReadPage_TrustsContents(c) ==
  /\ stage[c] = "readPage"
  /\ Finish(c, IF \E k \in picked[c] : sidecar[k] = 0
               THEN Plain("unavailable")
               ELSE Page({<<k, sidecar[k]>> : k \in picked[c]}))
  /\ UNCHANGED <<disk, minted, local, counters>>

(* then reads the sidecars of the page; one that is invalid, or gone, fails it. *)
ReadPage(c) ==
  /\ stage[c] = "readPage"
  /\ Finish(c, IF \E k \in picked[c] : sidecar[k] \in {0, Foreign}
               THEN Plain("unavailable")
               ELSE Page({<<k, sidecar[k]>> : k \in picked[c]}))
  /\ UNCHANGED <<disk, minted, local, counters>>

-----------------------------------------------------------------------------
(* Writing. *)

(* Mutant: a put_if_version of an absent object's old version goes through. *)
CheckFails_AbsentMatches(c) ==
  sidecar[key(c)] \notin {call[c].expected, 0}

CheckFails(c) == sidecar[key(c)] # call[c].expected

Check(c) ==
  /\ stage[c] = "check"
  /\ CASE sidecar[key(c)] = Foreign -> Finish(c, Plain("unavailable"))
       [] sidecar[key(c)] # Foreign /\ CheckFails(c) -> Finish(c, Plain("precondition"))
       [] OTHER -> /\ Go(c, IF call[c].op = "cas" THEN "mkdir" ELSE "unlinkSidecar")
                   /\ UNCHANGED answer
  /\ UNCHANGED <<disk, minted, local, counters>>

Elements(seq) == {seq[i] : i \in DOMAIN seq}

(* _write draws its token, then makes the directory and its parents. *)
Mkdir(c) ==
  /\ stage[c] = "mkdir"
  /\ minted' = minted + 1
  /\ token' = [token EXCEPT ![c] = minted + 1]
  /\ dirs' = dirs \union Elements(Trail[key(c)])
  /\ Go(c, "tempBody")
  /\ UNCHANGED <<body, sidecar, temps, call, seen, picked, depth, shadowed, answer, counters>>

Temp(c, part) == [key |-> key(c), token |-> token[c], part |-> part]

WriteTemp(c, part, next) ==
  /\ temps' = temps \union {Temp(c, part)}
  /\ Go(c, next)
  /\ UNCHANGED <<body, sidecar, dirs, minted, local, answer, counters>>

TempBody(c) == stage[c] = "tempBody" /\ WriteTemp(c, "body", "tempSidecar")
TempSidecar(c) == stage[c] = "tempSidecar" /\ WriteTemp(c, "sidecar", "replaceBody")

(* os.replace moves the temporary file over the target, atomically. *)
ReplaceBody(c) ==
  /\ stage[c] = "replaceBody"
  /\ shadowed' = [shadowed EXCEPT ![c] = body[key(c)]]
  /\ body' = [body EXCEPT ![key(c)] = token[c]]
  /\ temps' = temps \ {Temp(c, "body")}
  /\ Go(c, "replaceSidecar")
  /\ UNCHANGED <<sidecar, dirs, minted, call, token, seen, picked, depth, answer, counters>>

ReplaceSidecar(c) ==
  /\ stage[c] = "replaceSidecar"
  /\ sidecar' = [sidecar EXCEPT ![key(c)] = token[c]]
  /\ temps' = temps \ {Temp(c, "sidecar")}
  /\ Finish(c, Committed(token[c]))
  /\ UNCHANGED <<body, dirs, minted, local, counters>>

(* _write's except clause unlinks what is in its list of temporary files. *)
CleanBody(c) ==
  /\ stage[c] = "cleanBody"
  /\ temps' = temps \ {Temp(c, "body")}
  /\ Go(c, "cleanSidecar")
  /\ UNCHANGED <<body, sidecar, dirs, minted, local, answer, counters>>

(* Mutant: only the body's temporary file is in the list. *)
CleanSidecar_NotListed(c) ==
  /\ stage[c] = "cleanSidecar"
  /\ Go(c, "release")
  /\ UNCHANGED <<disk, minted, local, answer, counters>>

CleanSidecar(c) ==
  /\ stage[c] = "cleanSidecar"
  /\ temps' = temps \ {Temp(c, "sidecar")}
  /\ Go(c, "release")
  /\ UNCHANGED <<body, sidecar, dirs, minted, local, answer, counters>>

-----------------------------------------------------------------------------
(* Deleting. *)

(* Mutant: the body goes first. *)
UnlinkSidecar_BodyFirst(c) ==
  /\ stage[c] = "unlinkSidecar"
  /\ body' = [body EXCEPT ![key(c)] = 0]
  /\ IF body[key(c)] # 0
     THEN UNCHANGED <<sidecar, answer, stage>>
     ELSE /\ sidecar' = [sidecar EXCEPT ![key(c)] = 0]
          /\ Settle(c, Plain("ok")) /\ Go(c, "unlinkBody")
  /\ UNCHANGED <<temps, dirs, minted, local, counters>>

UnlinkSidecar(c) ==
  /\ stage[c] = "unlinkSidecar"
  /\ IF sidecar[key(c)] = 0
     THEN Finish(c, Plain("unavailable")) /\ UNCHANGED sidecar
     ELSE /\ sidecar' = [sidecar EXCEPT ![key(c)] = 0]
          /\ Settle(c, Plain("ok")) /\ Go(c, "unlinkBody")
  /\ UNCHANGED <<body, temps, dirs, minted, local, counters>>

UnlinkBody(c) ==
  /\ stage[c] = "unlinkBody"
  /\ body' = [body EXCEPT ![key(c)] = 0]
  /\ depth' = [depth EXCEPT ![c] = Len(Trail[key(c)])]
  /\ Go(c, "prune")
  /\ UNCHANGED <<sidecar, temps, dirs, minted, call, token, seen, picked, shadowed, answer, counters>>

(* Directory number i of key k's trail holds nothing. *)
Empty(k, i) ==
  LET d == Trail[k][i] IN
  \A j \in Keys : \A m \in DOMAIN Trail[j] :
    Trail[j][m] = d =>
      IF m = Len(Trail[j])
      THEN body[j] = 0 /\ sidecar[j] = 0 /\ ~ \E t \in temps : t.key = j
      ELSE Trail[j][m + 1] \notin dirs

(* Mutant: only the object's own directory is removed. *)
Prune_OneLevel(c) ==
  /\ stage[c] = "prune"
  /\ LET here == Trail[key(c)][depth[c]] IN
     dirs' = IF depth[c] > 0 /\ Empty(key(c), depth[c]) THEN dirs \ {here} ELSE dirs
  /\ Go(c, "release")
  /\ UNCHANGED <<body, sidecar, temps, minted, local, answer, counters>>

(* _prune_empty: rmdir the directory and climb, until one is not empty. *)
Prune(c) ==
  /\ stage[c] = "prune"
  /\ IF depth[c] > 0 /\ Empty(key(c), depth[c]) /\ Trail[key(c)][depth[c]] \in dirs
     THEN /\ dirs' = dirs \ {Trail[key(c)][depth[c]]}
          /\ depth' = [depth EXCEPT ![c] = @ - 1]
          /\ UNCHANGED stage
     ELSE Go(c, "release") /\ UNCHANGED <<dirs, depth>>
  /\ UNCHANGED <<body, sidecar, temps, minted, call, token, seen, picked, shadowed, answer, counters>>

-----------------------------------------------------------------------------
(* Failures. *)

(* The next system call raises OSError.  A temporary file whose writing    *)
(* fails may already have been created; it is not yet in the list the      *)
(* except clause cleans.  A mkdir that fails may have made some parents.   *)
Fail(c) ==
  /\ stage[c] \in FailAt /\ failures < MaxFailures
  /\ failures' = failures + 1
  /\ IF stage[c] = "prune"
     THEN Go(c, "release") /\ UNCHANGED answer
     ELSE /\ Settle(c, Plain("unavailable"))
          /\ Go(c, CASE stage[c] \in {"tempSidecar", "replaceBody", "replaceSidecar"}
                          -> "cleanBody"
                     [] stage[c] \in {"flock", "release"} -> "idle"
                     [] OTHER -> "release")
  /\ \/ UNCHANGED <<temps, dirs>>
     \/ /\ stage[c] \in {"tempBody", "tempSidecar"}
        /\ temps' = temps \union {Temp(c, "partial")} /\ UNCHANGED dirs
     \/ /\ stage[c] = "mkdir"
        /\ \E i \in DOMAIN Trail[key(c)] :
             dirs' = dirs \union {Trail[key(c)][j] : j \in 1..(i - 1)}
        /\ UNCHANGED temps
  /\ UNCHANGED <<body, sidecar, minted, local, begun, crashes, tampers>>

(* A process dies: its calls vanish, the system closes its lock file.  Its *)
(* clients go on in a process that takes its place.                        *)
Crash(p) ==
  LET dying == {c \in Clients : ProcessOf[c] = p /\ stage[c] # "idle"} IN
  /\ crashes < MaxCrashes
  /\ dying # {}
  /\ crashes' = crashes + 1
  /\ stage' = [c \in Clients |-> IF c \in dying THEN "idle" ELSE stage[c]]
  /\ answer' = [c \in Clients |-> IF c \in dying THEN Plain("lost") ELSE answer[c]]
  /\ UNCHANGED <<disk, minted, local, begun, failures, tampers>>

(* A person or a tool edits the tree without taking the lock. *)
Tamper ==
  /\ tampers < MaxTampers
  /\ tampers' = tampers + 1
  /\ \E k \in Keys :
       \/ /\ "editBody" \in TamperKinds /\ body[k] # 0
          /\ body' = [body EXCEPT ![k] = Foreign] /\ UNCHANGED sidecar
       \/ /\ "removeBody" \in TamperKinds /\ body[k] # 0
          /\ body' = [body EXCEPT ![k] = 0] /\ UNCHANGED sidecar
       \/ /\ "spoilSidecar" \in TamperKinds /\ sidecar[k] # 0
          /\ sidecar' = [sidecar EXCEPT ![k] = Foreign] /\ UNCHANGED body
       \/ /\ "removeSidecar" \in TamperKinds /\ sidecar[k] # 0
          /\ sidecar' = [sidecar EXCEPT ![k] = 0] /\ UNCHANGED body
  /\ UNCHANGED <<temps, dirs, minted, stage, local, answer, begun, failures, crashes>>

Step(c) ==
  \/ TakeThreadLock(c) \/ TakeFileLock(c) \/ Release(c)
  \/ ReadSidecar(c) \/ ReadBody(c) \/ Collect(c) \/ ReadPage(c)
  \/ Check(c) \/ Mkdir(c) \/ TempBody(c) \/ TempSidecar(c)
  \/ ReplaceBody(c) \/ ReplaceSidecar(c) \/ CleanBody(c) \/ CleanSidecar(c)
  \/ UnlinkSidecar(c) \/ UnlinkBody(c) \/ Prune(c)

Next ==
  \/ \E c \in Clients : Begin(c) \/ Step(c) \/ Fail(c)
  \/ \E p \in Processes : Crash(p)
  \/ Tamper

Spec == Init /\ [][Next]_vars

(* A thread that can go on does. *)
FairSpec == Spec /\ \A c \in Clients : WF_vars(Step(c))

-----------------------------------------------------------------------------
Stages == {"idle", "wait"} \union SystemCalls

Temporary == [key : Keys, token : Nat, part : {"body", "sidecar", "partial"}]

TypeOK ==
  /\ body \in [Keys -> Nat \union {Foreign}]
  /\ sidecar \in [Keys -> Nat \union {Foreign}]
  /\ temps \subseteq Temporary
  /\ dirs \subseteq Dirs
  /\ minted \in Nat
  /\ stage \in [Clients -> Stages]
  /\ call \in [Clients -> Request]
  /\ \A c \in Clients : stage[c] # "idle" => key(c) \in Keys
  /\ token \in [Clients -> Nat] /\ seen \in [Clients -> Nat]
  /\ picked \in [Clients -> SUBSET Keys]
  /\ depth \in [Clients -> Nat]
  /\ shadowed \in [Clients -> Nat \union {Foreign}]
  /\ answer \in [Clients -> Answer]
  /\ {begun, failures, crashes, tampers} \subseteq Nat

(* The commit order (sidecar last when writing, first when deleting): an   *)
(* object that exists has its body, at every point where a process may     *)
(* die or a system call fail, so get's "missing body" is never the         *)
(* library's own doing.                                                    *)
SidecarHasBody == \A k \in Keys : sidecar[k] # 0 => body[k] # 0

(* Of the conditional writes and deletes that name one version of an       *)
(* object, at most one succeeds, whichever threads and processes make      *)
(* them, whatever fails, dies or is tampered with.                         *)
Won(c) == call[c].op \in {"cas", "delete"} /\ answer[c].kind = "ok"

OneWinnerPerVersion ==
  \A c, d \in Clients :
    /\ c # d /\ Won(c) /\ Won(d)
    /\ call[c].key = call[d].key
    => call[c].expected = 0 \/ call[c].expected # call[d].expected

(* StoredObject: "the bytes, metadata, and version of one object, from a   *)
(* single write".                                                          *)
ReadsAreFromOneWrite ==
  \A c \in Clients :
    call[c].op = "get" /\ answer[c].kind = "ok" => answer[c].body = answer[c].version

Writing == {c \in Clients : HoldsFileLock(c) /\ Exclusive(c)}

(* Writes clean up after themselves: no temporary file outlives the call   *)
(* that made it, when that call is not cut short.                          *)
NoTempsLeft == Writing = {} => temps = {}

(* Deletes prune: between writes, every directory leads to an object, in   *)
(* whatever order siblings and nested keys come and go.                    *)
NoEmptyDirs ==
  Writing = {} =>
    \A d \in dirs : \E k \in Keys : sidecar[k] # 0 /\ d \in Elements(Trail[k])

(* Damage done behind the library's back surfaces as unavailable, never as *)
(* an object or a listing with contents no put ever wrote as a sidecar, or *)
(* without a body.                                                         *)
DamageIsReported ==
  \A c \in Clients : answer[c].kind = "ok" =>
    /\ call[c].op = "get" => answer[c].version \in 1..minted /\ answer[c].body # 0
    /\ \A entry \in answer[c].page : entry[2] \in 1..minted

(* Every call returns: the two locks are always released, by calls that    *)
(* fail too, and none is awaited in a cycle.                               *)
EveryCallReturns == \A c \in Clients : []<>(stage[c] = "idle")

-----------------------------------------------------------------------------
(* What every step keeps true, besides TypeOK; FilesystemStorageProofs     *)
(* shows that it does.                                                     *)

Passed == {"mkdir", "tempBody", "tempSidecar", "replaceBody", "replaceSidecar"}
Pending == Passed \ {"mkdir"}

(* A holder of the exclusive lock is alone. *)
WritersAlone ==
  \A c, d \in Clients :
    c # d /\ HoldsFileLock(c) /\ HoldsFileLock(d) => ~Exclusive(c)

(* A call is at a stage of its operation. *)
StagesFit ==
  \A c \in Clients :
    /\ stage[c] \in Passed \union {"cleanBody", "cleanSidecar"} => call[c].op \in Puts
    /\ stage[c] \in {"unlinkSidecar", "unlinkBody", "prune"} => call[c].op = "delete"
    /\ stage[c] = "check" => call[c].op \in {"cas", "delete"}
    /\ stage[c] \in {"readSidecar", "readBody", "collect", "readPage"}
         => call[c].op \in {"get", "list"}

(* Every version in use was drawn, and by a call begun before. *)
TokensDrawn ==
  /\ \A k \in Keys : sidecar[k] = Foreign \/ sidecar[k] \in 0..minted
  /\ \A c \in Clients : call[c].expected <= minted /\ token[c] <= minted

(* A token not yet committed is no object's version, and no winner's.      *)
PendingIsNew ==
  \A c \in Clients : stage[c] \in Pending =>
    /\ token[c] \notin {0, call[c].expected}
    /\ \A k \in Keys : sidecar[k] # token[c]
    /\ \A d \in Clients : Won(d) => call[d].expected # token[c]

(* Nobody has won the version that a call past its check relies on.        *)
PassedAlone ==
  \A c, d \in Clients :
    /\ c # d /\ Won(d) /\ call[d].key = call[c].key
    /\ \/ stage[c] \in Passed /\ call[c].op = "cas"
       \/ stage[c] = "unlinkSidecar"
    => call[c].expected = 0 \/ call[d].expected # call[c].expected

(* A version that was won does not come back. *)
WonIsSpent ==
  \A c \in Clients : Won(c) /\ call[c].expected # 0 =>
    /\ call[c].key \in Keys
    /\ sidecar[call[c].key] # call[c].expected

WinnerInv ==
  /\ TypeOK /\ WritersAlone /\ StagesFit /\ TokensDrawn /\ PendingIsNew
  /\ PassedAlone /\ WonIsSpent /\ OneWinnerPerVersion

(* Between its two replaces a put has the body in place, and between its   *)
(* two unlinks a delete has the sidecar gone.                              *)
BodyComesFirst ==
  \A c \in Clients :
    /\ stage[c] = "replaceSidecar" => body[key(c)] # 0
    /\ stage[c] = "unlinkBody" => sidecar[key(c)] = 0

BodyInv == WinnerInv /\ BodyComesFirst /\ SidecarHasBody

-----------------------------------------------------------------------------
(* FilesystemStorage implements the Storage protocol.  The object at a key *)
(* is its sidecar's version with the body beside it, except that a put     *)
(* between its two replaces has not happened yet.                          *)
StoreNow ==
  [k \in Keys |->
     IF sidecar[k] = 0 THEN [version |-> 0, body |-> 0]
     ELSE LET between == {c \in Clients : stage[c] = "replaceSidecar" /\ key(c) = k}
          IN  [version |-> sidecar[k],
               body |-> IF between = {} THEN body[k]
                        ELSE shadowed[CHOOSE c \in between : TRUE]]]

Abstract == INSTANCE AtomicStorage
  WITH store <- StoreNow, open <- {c \in Clients : stage[c] # "idle"}

(* Every call is atomic, under crashes and failing system calls, but for   *)
(* the abandoned overwrite that leaves its body under the old version.     *)
Implements == Abstract!Spec
=============================================================================
