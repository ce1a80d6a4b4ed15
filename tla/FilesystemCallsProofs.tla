------------------------ MODULE FilesystemCallsProofs ------------------------
(***************************************************************************)
(* What the callers of FilesystemStorage are told, for any number of keys, *)
(* clients and processes: damage is reported, reads come from one write,   *)
(* and writes that fail cleanly leave no temporary file.                   *)
(***************************************************************************)
EXTENDS FilesystemStorageProofs

-----------------------------------------------------------------------------
(* A call from its beginning to its end. *)

BeforeAnswer ==
  {"wait", "flock", "readSidecar", "readBody", "collect", "readPage", "check",
   "unlinkSidecar"} \union Passed
AfterAnswer == {"unlinkBody", "prune", "cleanBody", "cleanSidecar", "release"}
BeforeToken == {"wait", "flock", "check", "mkdir"}

(* Its answer is open until the stage that settles it, and it has no token *)
(* before _write draws one.                                                *)
AnswerFits(c) ==
  /\ stage[c] \in BeforeAnswer => answer[c].kind = "none"
  /\ stage[c] \in AfterAnswer => answer[c].kind # "none"
  /\ stage[c] \in BeforeToken => token[c] = 0
  /\ stage[c] \in {"readSidecar", "readBody"} => call[c].op = "get"
  /\ stage[c] \in {"collect", "readPage"} => call[c].op = "list"

(* What it has read, and what it returns, was drawn by a put. *)
ReadsDrawn(c) ==
  /\ stage[c] = "readBody" => seen[c] \in 1..minted
  /\ answer[c].kind = "ok" =>
       /\ call[c].op = "get" => answer[c].version \in 1..minted /\ answer[c].body # 0
       /\ \A entry \in answer[c].page : entry[2] \in 1..minted

CallsFit == \A c \in Clients : AnswerFits(c) /\ ReadsDrawn(c)

(* A step of c leaves the calls of the others alone. *)
LEMMA CallFrame ==
  ASSUME TypeOK, NEW c \in Clients, Begin(c) \/ Step(c) \/ Fail(c)
  PROVE  /\ minted' >= minted
         /\ \A d \in Clients \ {c} :
              /\ stage'[d] = stage[d] /\ call'[d] = call[d] /\ token'[d] = token[d]
              /\ seen'[d] = seen[d] /\ picked'[d] = picked[d]
              /\ shadowed'[d] = shadowed[d] /\ answer'[d] = answer[d]
  <1>1. CASE Begin(c) \/ Fail(c)
    BY <1>1 DEF TypeOK, Begin, Fail, Go, Settle, local
  <1>2. CASE \/ TakeThreadLock(c) \/ TakeFileLock(c) \/ Release(c) \/ ReadSidecar(c)
             \/ ReadBody(c) \/ Collect(c) \/ ReadPage(c) \/ Check(c)
    BY <1>2
       DEF TypeOK, TakeThreadLock, TakeFileLock, Release, ReadSidecar, ReadBody, Collect,
           ReadPage, Check, Finish, Settle, Go, local
  <1>3. CASE \/ Mkdir(c) \/ TempBody(c) \/ TempSidecar(c) \/ ReplaceBody(c)
             \/ ReplaceSidecar(c) \/ CleanBody(c) \/ CleanSidecar(c)
             \/ UnlinkSidecar(c) \/ UnlinkBody(c) \/ Prune(c)
    BY <1>3
       DEF TypeOK, Mkdir, TempBody, TempSidecar, WriteTemp, ReplaceBody, ReplaceSidecar,
           CleanBody, CleanSidecar, UnlinkSidecar, UnlinkBody, Prune, Finish, Settle, Go,
           local
  <1>4. QED
    BY <1>1, <1>2, <1>3 DEF Step

(* The stage each step leaves and the one it enters. *)
LEMMA StageMoves ==
  ASSUME TypeOK, NEW c \in Clients
  PROVE  /\ TakeThreadLock(c) => stage[c] = "wait" /\ stage'[c] = "flock"
         /\ TakeFileLock(c) => stage[c] = "flock" /\ stage'[c] = FirstStage(call[c].op)
         /\ Release(c) => stage[c] = "release" /\ stage'[c] = "idle"
         /\ ReadSidecar(c) => stage[c] = "readSidecar" /\ stage'[c] \in {"release", "readBody"}
         /\ ReadBody(c) => stage[c] = "readBody" /\ stage'[c] = "release"
         /\ Collect(c) => stage[c] = "collect" /\ stage'[c] = "readPage"
         /\ ReadPage(c) => stage[c] = "readPage" /\ stage'[c] = "release"
         /\ Check(c) => stage[c] = "check" /\ stage'[c] \in {"release", "mkdir", "unlinkSidecar"}
         /\ Mkdir(c) => stage[c] = "mkdir" /\ stage'[c] = "tempBody"
         /\ TempBody(c) => stage[c] = "tempBody" /\ stage'[c] = "tempSidecar"
         /\ TempSidecar(c) => stage[c] = "tempSidecar" /\ stage'[c] = "replaceBody"
         /\ ReplaceBody(c) => stage[c] = "replaceBody" /\ stage'[c] = "replaceSidecar"
         /\ ReplaceSidecar(c) => stage[c] = "replaceSidecar" /\ stage'[c] = "release"
         /\ CleanBody(c) => stage[c] = "cleanBody" /\ stage'[c] = "cleanSidecar"
         /\ CleanSidecar(c) => stage[c] = "cleanSidecar" /\ stage'[c] = "release"
         /\ UnlinkSidecar(c) => stage[c] = "unlinkSidecar" /\ stage'[c] \in {"release", "unlinkBody"}
         /\ UnlinkBody(c) => stage[c] = "unlinkBody" /\ stage'[c] = "prune"
         /\ Prune(c) => stage[c] = "prune" /\ stage'[c] \in {"prune", "release"}
  <1> USE DEF TypeOK, Go, Finish
  <1>1. /\ TakeThreadLock(c) => stage[c] = "wait" /\ stage'[c] = "flock"
        /\ TakeFileLock(c) => stage[c] = "flock" /\ stage'[c] = FirstStage(call[c].op)
        /\ Release(c) => stage[c] = "release" /\ stage'[c] = "idle"
    BY DEF TakeThreadLock, TakeFileLock, Release
  <1>2. /\ ReadSidecar(c) => stage[c] = "readSidecar" /\ stage'[c] \in {"release", "readBody"}
        /\ ReadBody(c) => stage[c] = "readBody" /\ stage'[c] = "release"
        /\ Collect(c) => stage[c] = "collect" /\ stage'[c] = "readPage"
        /\ ReadPage(c) => stage[c] = "readPage" /\ stage'[c] = "release"
    BY DEF ReadSidecar, ReadBody, Collect, ReadPage
  <1>3. Check(c) => stage[c] = "check" /\ stage'[c] \in {"release", "mkdir", "unlinkSidecar"}
    BY DEF Check
  <1>4. /\ Mkdir(c) => stage[c] = "mkdir" /\ stage'[c] = "tempBody"
        /\ TempBody(c) => stage[c] = "tempBody" /\ stage'[c] = "tempSidecar"
        /\ TempSidecar(c) => stage[c] = "tempSidecar" /\ stage'[c] = "replaceBody"
    BY DEF Mkdir, TempBody, TempSidecar, WriteTemp
  <1>5. /\ ReplaceBody(c) => stage[c] = "replaceBody" /\ stage'[c] = "replaceSidecar"
        /\ ReplaceSidecar(c) => stage[c] = "replaceSidecar" /\ stage'[c] = "release"
    BY DEF ReplaceBody, ReplaceSidecar
  <1>6. /\ CleanBody(c) => stage[c] = "cleanBody" /\ stage'[c] = "cleanSidecar"
        /\ CleanSidecar(c) => stage[c] = "cleanSidecar" /\ stage'[c] = "release"
    BY DEF CleanBody, CleanSidecar
  <1>7. /\ UnlinkSidecar(c) => stage[c] = "unlinkSidecar" /\ stage'[c] \in {"release", "unlinkBody"}
        /\ UnlinkBody(c) => stage[c] = "unlinkBody" /\ stage'[c] = "prune"
        /\ Prune(c) => stage[c] = "prune" /\ stage'[c] \in {"prune", "release"}
    BY DEF UnlinkSidecar, UnlinkBody, Prune
  <1> QED
    BY <1>1, <1>2, <1>3, <1>4, <1>5, <1>6, <1>7

(* The parts of the answers the calls return. *)
LEMMA AnswerParts ==
  /\ \A kind : Plain(kind).version = 0 /\ Plain(kind).body = 0 /\ Plain(kind).page = {}
  /\ \A v, b : Object(v, b).version = v /\ Object(v, b).body = b /\ Object(v, b).page = {}
  /\ \A v : Committed(v).version = v /\ Committed(v).page = {}
  /\ \A p : Page(p).page = p
  /\ \A r : Refused(r).page = {}
  BY DEF Plain, Object, Committed, Page, Refused

(* A step that settles no answer. *)
LEMMA UnansweredFits ==
  ASSUME WinnerInv, CallsFit, NEW c \in Clients,
         \/ TakeThreadLock(c) \/ TakeFileLock(c) \/ Release(c) \/ Collect(c) \/ Mkdir(c)
         \/ TempBody(c) \/ TempSidecar(c) \/ ReplaceBody(c) \/ CleanBody(c)
         \/ CleanSidecar(c) \/ UnlinkBody(c) \/ Prune(c)
  PROVE  AnswerFits(c)' /\ ReadsDrawn(c)'
  <1>1. UNCHANGED <<call, answer>> /\ minted' >= minted /\ minted \in Nat /\ minted' \in Nat
    BY DEF WinnerInv, TypeOK, TakeThreadLock, TakeFileLock, Release, Collect, Mkdir, TempBody,
           TempSidecar, ReplaceBody, CleanBody, CleanSidecar, UnlinkBody, Prune, WriteTemp, local
  <1>2. \/ UNCHANGED token
        \/ stage[c] = "mkdir" /\ stage'[c] = "tempBody"
    <2>1. CASE Mkdir(c)
      BY <2>1, StageMoves DEF WinnerInv
    <2>2. CASE \/ TakeThreadLock(c) \/ TakeFileLock(c) \/ Release(c) \/ Collect(c)
               \/ TempBody(c) \/ TempSidecar(c) \/ CleanBody(c) \/ CleanSidecar(c)
      BY <2>2
         DEF TakeThreadLock, TakeFileLock, Release, Collect, TempBody, TempSidecar,
             CleanBody, CleanSidecar, WriteTemp, local
    <2>3. CASE ReplaceBody(c) \/ UnlinkBody(c) \/ Prune(c)
      BY <2>3 DEF ReplaceBody, UnlinkBody, Prune
    <2>4. QED
      BY <2>1, <2>2, <2>3
  <1>3. /\ FirstStage(call[c].op) \in {"readSidecar", "collect", "mkdir", "check"}
        /\ FirstStage(call[c].op) = "readSidecar" => call[c].op = "get"
        /\ FirstStage(call[c].op) = "collect" => call[c].op = "list"
    BY DEF FirstStage
  <1>4. AnswerFits(c)
    BY DEF CallsFit
  <1>5. AnswerFits(c)'
    <2> USE DEF AnswerFits, BeforeAnswer, AfterAnswer, BeforeToken, Passed
    <2> DEFINE was == stage[c]
               now == stage'[c]
    <2>1. \/ was = "wait" /\ now = "flock"
          \/ was = "flock" /\ now = FirstStage(call[c].op)
          \/ was = "release" /\ now = "idle"
          \/ was = "collect" /\ now = "readPage"
          \/ was = "mkdir" /\ now = "tempBody"
          \/ was = "tempBody" /\ now = "tempSidecar"
          \/ was = "tempSidecar" /\ now = "replaceBody"
          \/ was = "replaceBody" /\ now = "replaceSidecar"
          \/ was = "cleanBody" /\ now = "cleanSidecar"
          \/ was = "cleanSidecar" /\ now = "release"
          \/ was = "unlinkBody" /\ now = "prune"
          \/ was = "prune" /\ now \in {"prune", "release"}
      BY StageMoves DEF WinnerInv
    <2>2. CASE was = "flock" /\ now = FirstStage(call[c].op)
      BY <1>1, <1>2, <1>3, <1>4, <2>2
    <2>3. CASE was = "mkdir" /\ now = "tempBody"
      BY <1>1, <1>4, <2>3
    <2>4. CASE was \notin {"flock", "mkdir"}
      BY <1>1, <1>2, <1>4, <2>1, <2>4
    <2>5. QED
      BY <2>1, <2>2, <2>3, <2>4
  <1>6. stage'[c] # "readBody"
    BY <1>3, StageMoves DEF WinnerInv
  <1>7. ReadsDrawn(c)'
    <2>1. 1..minted \subseteq 1..minted'
      BY <1>1
    <2>2. ReadsDrawn(c)
      BY DEF CallsFit
    <2>3. QED
      BY <1>1, <1>6, <2>1, <2>2 DEF ReadsDrawn
  <1>8. QED
    BY <1>5, <1>7

(* A step that settles one. *)
LEMMA AnsweredFits ==
  ASSUME WinnerInv, CallsFit, NEW c \in Clients,
         \/ ReadSidecar(c) \/ ReadBody(c) \/ ReadPage(c) \/ Check(c)
         \/ ReplaceSidecar(c) \/ UnlinkSidecar(c)
  PROVE  AnswerFits(c)' /\ ReadsDrawn(c)'
  <1>1. /\ UNCHANGED <<call, minted>> /\ minted \in Nat /\ UNCHANGED token
    BY DEF WinnerInv, TypeOK, ReadSidecar, ReadBody, ReadPage, Check, ReplaceSidecar,
           UnlinkSidecar, local
  <1>2. AnswerFits(c) /\ ReadsDrawn(c) /\ answer \in [Clients -> Answer]
    BY DEF CallsFit, WinnerInv, TypeOK
  <1>3. CASE ReadSidecar(c)
    <2>1. stage[c] = "readSidecar" /\ key(c) \in Keys /\ call[c].op = "get"
      BY <1>2, <1>3 DEF ReadSidecar, AnswerFits, WinnerInv, TypeOK
    <2>2. CASE sidecar[key(c)] \in {0, Foreign}
      <3>1. /\ stage'[c] = "release" /\ answer'[c].kind \in {"absent", "unavailable"}
            /\ answer'[c].page = {}
        BY <1>2, <1>3, <2>2, AnswerKinds, AnswerParts
           DEF ReadSidecar, Finish, Settle, Go, WinnerInv, TypeOK
      <3>2. QED
        BY <3>1 DEF AnswerFits, ReadsDrawn, BeforeAnswer, BeforeToken, Passed
    <2>3. CASE sidecar[key(c)] \notin {0, Foreign}
      <3>1. stage'[c] = "readBody" /\ seen'[c] = sidecar[key(c)] /\ UNCHANGED answer
        BY <1>3, <2>3 DEF ReadSidecar, Go, WinnerInv, TypeOK
      <3>2. seen'[c] \in 1..minted
        BY <1>1, <2>1, <2>3, <3>1 DEF WinnerInv, TokensDrawn
      <3>3. answer[c].kind = "none"
        BY <1>2, <2>1 DEF AnswerFits, BeforeAnswer
      <3>4. QED
        BY <1>1, <2>1, <3>1, <3>2, <3>3
           DEF AnswerFits, ReadsDrawn, BeforeAnswer, AfterAnswer, BeforeToken, Passed
    <2>4. QED
      BY <2>2, <2>3
  <1>4. CASE ReadBody(c)
    <2>1. /\ stage[c] = "readBody" /\ stage'[c] = "release" /\ call[c].op = "get"
          /\ seen[c] \in 1..minted
      BY <1>2, <1>4, StageMoves DEF AnswerFits, ReadsDrawn, WinnerInv
    <2>2. /\ answer'[c].kind \in {"unavailable", "ok"} /\ answer'[c].page = {}
          /\ answer'[c].kind = "ok" => answer'[c].version = seen[c] /\ answer'[c].body # 0
      BY <1>2, <1>4, AnswerKinds, AnswerParts DEF ReadBody, Finish, Settle
    <2>3. QED
      BY <1>1, <2>1, <2>2 DEF AnswerFits, ReadsDrawn, BeforeAnswer, BeforeToken, Passed
  <1>5. CASE ReadPage(c)
    <2> DEFINE entries == {<<k, sidecar[k]>> : k \in picked[c]}
    <2>1. stage[c] = "readPage" /\ stage'[c] = "release" /\ call[c].op = "list"
      BY <1>2, <1>5, StageMoves DEF AnswerFits, WinnerInv
    <2>2. \/ answer'[c].kind = "unavailable"
          \/ /\ ~(\E k \in picked[c] : sidecar[k] \in {0, Foreign})
             /\ answer'[c].kind = "ok" /\ answer'[c].page = entries
      BY <1>2, <1>5, AnswerKinds, AnswerParts DEF ReadPage, Finish, Settle
    <2>3. ~(\E k \in picked[c] : sidecar[k] \in {0, Foreign})
            => \A entry \in entries : entry[2] \in 1..minted
      BY <1>1 DEF WinnerInv, TypeOK, TokensDrawn
    <2>4. QED
      BY <1>1, <2>1, <2>2, <2>3 DEF AnswerFits, ReadsDrawn, BeforeAnswer, BeforeToken, Passed
  <1>6. CASE Check(c)
    <2>1. stage[c] = "check" /\ call[c].op # "get" /\ token[c] = 0 /\ answer[c].kind = "none"
      BY <1>2, <1>6 DEF Check, AnswerFits, BeforeAnswer, BeforeToken, WinnerInv, StagesFit
    <2>2. \/ /\ stage'[c] = "release" /\ answer'[c].page = {}
             /\ answer'[c].kind \in {"unavailable", "precondition"}
          \/ stage'[c] \in {"mkdir", "unlinkSidecar"} /\ UNCHANGED answer
      BY <1>2, <1>6, AnswerKinds, AnswerParts
         DEF Check, Finish, Settle, Go, WinnerInv, TypeOK
    <2>3. QED
      BY <1>1, <2>1, <2>2
         DEF AnswerFits, ReadsDrawn, BeforeAnswer, AfterAnswer, BeforeToken, Passed
  <1>7. CASE ReplaceSidecar(c)
    <2>1. /\ stage[c] = "replaceSidecar" /\ stage'[c] = "release" /\ call[c].op \in Puts
          /\ answer'[c].kind = "ok" /\ answer'[c].page = {}
      BY <1>2, <1>7, StageMoves, AnswerKinds, AnswerParts
         DEF ReplaceSidecar, Finish, Settle, WinnerInv, StagesFit, Passed
    <2>2. QED
      BY <1>1, <2>1 DEF AnswerFits, ReadsDrawn, BeforeAnswer, BeforeToken, Passed, Puts
  <1>8. CASE UnlinkSidecar(c)
    <2>1. /\ stage[c] = "unlinkSidecar" /\ stage'[c] \in {"release", "unlinkBody"}
          /\ call[c].op = "delete"
          /\ answer'[c].kind \in {"ok", "unavailable"} /\ answer'[c].page = {}
      BY <1>2, <1>8, StageMoves, AnswerKinds, AnswerParts
         DEF UnlinkSidecar, Finish, Settle, WinnerInv, StagesFit
    <2>2. QED
      BY <1>1, <2>1 DEF AnswerFits, ReadsDrawn, BeforeAnswer, BeforeToken, Passed
  <1>9. QED
    BY <1>3, <1>4, <1>5, <1>6, <1>7, <1>8

(* A call begins, or is refused. *)
LEMMA BegunCall ==
  ASSUME WinnerInv, NEW c \in Clients, Begin(c)
  PROVE  /\ stage[c] = "idle" /\ stage'[c] \in {"idle", "wait"} /\ token'[c] = 0
         /\ answer'[c].page = {}
         /\ answer'[c].kind = "ok" => call'[c].op = "list"
         /\ stage'[c] = "wait" => answer'[c].kind = "none"
  <1>1. /\ stage'[c] \in {"idle", "wait"} /\ token'[c] = 0
        /\ stage'[c] = "wait" => answer'[c] = Plain("none")
        /\ stage'[c] = "idle" => \E r \in Calls : /\ answer'[c] = Refused(r)
                                                  /\ call'[c].op = r.op
    <2>1. PICK r \in Calls, v \in 0..minted :
            /\ call' = [call EXCEPT ![c] = [r EXCEPT !.expected = v]]
            /\ IF r.key = BadKey
               THEN Settle(c, Refused(r)) /\ UNCHANGED stage
               ELSE Settle(c, Plain("none")) /\ Go(c, "wait")
      BY DEF Begin
    <2>2. stage[c] = "idle" /\ token' = [token EXCEPT ![c] = 0]
      BY DEF Begin
    <2>3. r \in Request /\ [r EXCEPT !.expected = v].op = r.op
      BY StorageAssumption DEF Request
    <2>4. call'[c] = [r EXCEPT !.expected = v]
      BY <2>1 DEF WinnerInv, TypeOK
    <2>5. CASE r.key = BadKey
      <3>1. stage'[c] = "idle" /\ answer'[c] = Refused(r)
        BY <2>1, <2>2, <2>5 DEF WinnerInv, TypeOK, Settle
      <3>2. QED
        BY <2>2, <2>3, <2>4, <3>1 DEF WinnerInv, TypeOK
    <2>6. CASE r.key # BadKey
      BY <2>1, <2>2, <2>6 DEF WinnerInv, TypeOK, Settle, Go
    <2>7. QED
      BY <2>5, <2>6
  <1>2. /\ answer'[c].page = {}
        /\ answer'[c].kind = "ok" => call'[c].op = "list"
        /\ stage'[c] = "wait" => answer'[c].kind = "none"
    BY <1>1, AnswerKinds, AnswerParts, StorageAssumption
  <1>3. QED
    BY <1>1, <1>2 DEF Begin

LEMMA BegunFits ==
  ASSUME WinnerInv, NEW c \in Clients, Begin(c)
  PROVE  AnswerFits(c)' /\ ReadsDrawn(c)'
  BY BegunCall DEF AnswerFits, ReadsDrawn, BeforeAnswer, AfterAnswer, BeforeToken, Passed

(* A system call fails. *)
LEMMA FailedFits ==
  ASSUME WinnerInv, CallsFit, NEW c \in Clients, Fail(c)
  PROVE  AnswerFits(c)' /\ ReadsDrawn(c)'
  <1>1. /\ stage'[c] \in {"idle", "release", "cleanBody"} /\ UNCHANGED <<call, token, minted, seen>>
        /\ \/ stage[c] = "prune" /\ UNCHANGED answer
           \/ answer'[c] = Plain("unavailable")
    BY DEF Fail, Go, Settle, WinnerInv, TypeOK, local
  <1>2. AnswerFits(c) /\ ReadsDrawn(c)
    BY DEF CallsFit
  <1>3. answer'[c].kind # "none"
    BY <1>1, <1>2, AnswerKinds DEF AnswerFits, AfterAnswer
  <1>4. AnswerFits(c)'
    BY <1>1, <1>3 DEF AnswerFits, BeforeAnswer, BeforeToken, Passed
  <1>5. ReadsDrawn(c)'
    BY <1>1, <1>2, AnswerKinds, AnswerParts DEF ReadsDrawn
  <1>6. QED
    BY <1>4, <1>5

LEMMA InitCallsFit == Init => CallsFit
  <1> SUFFICES ASSUME Init, NEW c \in Clients PROVE AnswerFits(c) /\ ReadsDrawn(c)
    BY DEF CallsFit
  <1>1. stage[c] = "idle" /\ answer[c] = Plain("lost")
    BY DEF Init
  <1>2. QED
    BY <1>1, AnswerKinds, AnswerParts
       DEF AnswerFits, ReadsDrawn, BeforeAnswer, AfterAnswer, BeforeToken, Passed

LEMMA NextCallsFit ==
  ASSUME WinnerInv, CallsFit, [Next]_vars
  PROVE  CallsFit'
  <1> SUFFICES ASSUME NEW d \in Clients PROVE AnswerFits(d)' /\ ReadsDrawn(d)'
    BY DEF CallsFit
  <1>1. AnswerFits(d) /\ ReadsDrawn(d)
    BY DEF CallsFit
  <1>2. ASSUME NEW c \in Clients, Begin(c) \/ Step(c) \/ Fail(c)
        PROVE  AnswerFits(d)' /\ ReadsDrawn(d)'
    <2>1. CASE c = d
      BY <1>2, <2>1, UnansweredFits, AnsweredFits, BegunFits, FailedFits DEF Step
    <2>2. CASE c # d
      <3>1. /\ stage'[d] = stage[d] /\ call'[d] = call[d] /\ token'[d] = token[d]
            /\ seen'[d] = seen[d] /\ answer'[d] = answer[d] /\ minted' >= minted
            /\ minted \in Nat
        BY <1>2, <2>2, CallFrame DEF WinnerInv, TypeOK
      <3>2. 1..minted \subseteq 1..minted'
        BY <1>2, <3>1, NextWinnerInv DEF Next, WinnerInv, TypeOK
      <3>3. QED
        BY <1>1, <3>1, <3>2 DEF AnswerFits, ReadsDrawn
    <2>3. QED
      BY <2>1, <2>2
  <1>3. ASSUME NEW p \in Processes, Crash(p) PROVE AnswerFits(d)' /\ ReadsDrawn(d)'
    <2>1. /\ UNCHANGED <<call, token, seen, minted>>
          /\ \/ stage'[d] = "idle" /\ answer'[d] = Plain("lost")
             \/ stage'[d] = stage[d] /\ answer'[d] = answer[d]
      BY <1>3 DEF Crash, local
    <2>2. QED
      BY <1>1, <2>1, AnswerKinds, AnswerParts
         DEF AnswerFits, ReadsDrawn, BeforeAnswer, AfterAnswer, BeforeToken, Passed
  <1>4. CASE Tamper \/ UNCHANGED vars
    <2>1. UNCHANGED <<stage, call, token, seen, answer, minted>>
      BY <1>4 DEF Tamper, vars, local
    <2>2. QED
      BY <1>1, <2>1 DEF AnswerFits, ReadsDrawn
  <1>5. QED
    BY <1>2, <1>3, <1>4 DEF Next

LEMMA AlwaysCallsFit == Spec => [](WinnerInv /\ CallsFit)
  <1>1. Init => WinnerInv /\ CallsFit
    BY InitWinnerInv, InitCallsFit
  <1>2. (WinnerInv /\ CallsFit) /\ [Next]_vars => (WinnerInv /\ CallsFit)'
    BY NextWinnerInv, NextCallsFit
  <1>3. QED
    BY <1>1, <1>2, PTL DEF Spec

(* get and list_page answer with a version that a put drew, and get with a *)
(* body, or they answer unavailable: whatever is edited, removed, crashes  *)
(* or fails, _read_sidecar lets no contents through that no put wrote.     *)
THEOREM DamageReported == Spec => []DamageIsReported
  <1>1. CallsFit => DamageIsReported
    BY DEF CallsFit, ReadsDrawn, DamageIsReported
  <1>2. QED
    BY <1>1, AlwaysCallsFit, PTL

-----------------------------------------------------------------------------
(* Reads.  Nothing but the second replace stands between a body and the    *)
(* sidecar that names it, and nobody reads there.                          *)

Between(k) == \E c \in Clients : stage[c] = "replaceSidecar" /\ key(c) = k

BodyMatches ==
  /\ \A k \in Keys : sidecar[k] \in {0, Foreign} \/ body[k] \in {0, sidecar[k]} \/ Between(k)
  /\ \A c \in Clients :
       /\ stage[c] = "replaceSidecar" => body[key(c)] \in {0, token[c]}
       /\ stage[c] = "readBody" => body[key(c)] \in {0, seen[c]}

PairedInv == WinnerInv /\ CallsFit /\ BodyMatches /\ ReadsAreFromOneWrite

(* A step that changes no file. *)
LEMMA PairedKept ==
  ASSUME "replaceSidecar" \notin FailAt, PairedInv, NEW c \in Clients,
         \/ TakeThreadLock(c) \/ TakeFileLock(c) \/ Release(c) \/ Begin(c) \/ Fail(c)
         \/ Collect(c) \/ ReadPage(c) \/ Check(c) \/ Mkdir(c) \/ TempBody(c)
         \/ TempSidecar(c) \/ CleanBody(c) \/ CleanSidecar(c) \/ Prune(c)
  PROVE  BodyMatches' /\ ReadsAreFromOneWrite'
  <1> USE DEF PairedInv
  <1>1. UNCHANGED <<body, sidecar>>
    BY DEF TakeThreadLock, TakeFileLock, Release, Begin, Collect, ReadPage, Check, Mkdir,
           TempBody, TempSidecar, CleanBody, CleanSidecar, Prune, Fail, WriteTemp, disk
  <1>2. TypeOK /\ (Begin(c) \/ Step(c) \/ Fail(c))
    BY DEF WinnerInv, Step
  <1>3. FirstStage(call[c].op) \in {"readSidecar", "collect", "mkdir", "check"}
    BY DEF FirstStage
  <1>4. /\ stage[c] # "replaceSidecar" /\ stage'[c] # "replaceSidecar"
        /\ stage'[c] # "readBody"
    <2>1. CASE Begin(c)
      BY <2>1, BegunCall
    <2>2. CASE Fail(c)
      BY <2>2 DEF Fail, Go, WinnerInv, TypeOK
    <2>3. CASE ~Begin(c) /\ ~Fail(c)
      BY <1>2, <1>3, <2>3, StageMoves
    <2>4. QED
      BY <2>1, <2>2, <2>3
  <1>5. \A d \in Clients : stage[d] = "replaceSidecar" \/ stage'[d] \in {"replaceSidecar", "readBody"}
          => /\ stage'[d] = stage[d] /\ key(d)' = key(d)
             /\ token'[d] = token[d] /\ seen'[d] = seen[d]
    BY <1>2, <1>4, CallFrame DEF key
  <1>6. \A k \in Keys : Between(k) => Between(k)'
    BY <1>5 DEF Between
  <1>7. BodyMatches'
    BY <1>1, <1>5, <1>6 DEF BodyMatches
  <1>8. answer'[c].kind = "ok" /\ call'[c].op = "get"
          => answer[c].kind = "ok" /\ call'[c] = call[c] /\ answer'[c] = answer[c]
    <2>1. CASE Begin(c)
      BY <2>1, BegunCall
    <2>2. CASE Fail(c)
      BY <2>2, AnswerKinds DEF Fail, Settle, WinnerInv, TypeOK, local
    <2>3. CASE Check(c)
      <3>1. call' = call /\ call[c].op # "get"
        BY <2>3 DEF Check, WinnerInv, StagesFit, local
      <3>2. QED
        BY <3>1
    <2>4. CASE ReadPage(c)
      <3>1. call' = call /\ call[c].op # "get"
        BY <2>4 DEF ReadPage, CallsFit, AnswerFits, local
      <3>2. QED
        BY <3>1
    <2>5. CASE \/ TakeThreadLock(c) \/ TakeFileLock(c) \/ Release(c) \/ Collect(c) \/ Mkdir(c)
               \/ TempBody(c) \/ TempSidecar(c) \/ CleanBody(c) \/ CleanSidecar(c) \/ Prune(c)
      <3>1. UNCHANGED <<call, answer>>
        BY <2>5
           DEF TakeThreadLock, TakeFileLock, Release, Collect, Mkdir, TempBody, TempSidecar,
               CleanBody, CleanSidecar, Prune, WriteTemp, local
      <3>2. QED
        BY <3>1
    <2>6. QED
      BY <2>1, <2>2, <2>3, <2>4, <2>5
  <1>9. ReadsAreFromOneWrite'
    BY <1>2, <1>8, CallFrame DEF ReadsAreFromOneWrite
  <1>10. QED
    BY <1>7, <1>9

(* get reads the sidecar and the body under the shared lock. *)
LEMMA PairedRead ==
  ASSUME PairedInv, NEW c \in Clients, ReadSidecar(c) \/ ReadBody(c)
  PROVE  BodyMatches' /\ ReadsAreFromOneWrite'
  <1> USE DEF PairedInv
  <1>1. /\ UNCHANGED <<body, sidecar, token, call>> /\ key(c) \in Keys
        /\ stage[c] \in {"readSidecar", "readBody"} /\ call[c].op = "get"
    BY DEF ReadSidecar, ReadBody, disk, local, WinnerInv, TypeOK, CallsFit, AnswerFits
  <1>2. Step(c) /\ TypeOK
    BY DEF Step, WinnerInv
  <1>3. \A d \in Clients \ {c} : /\ stage'[d] = stage[d] /\ seen'[d] = seen[d]
                                 /\ answer'[d] = answer[d]
    BY <1>2, CallFrame
  <1>4. \A d \in Clients : stage[d] # "replaceSidecar" /\ stage'[d] # "replaceSidecar"
    <2>1. stage'[c] \in {"readBody", "release"}
      BY <1>2, StageMoves
    <2>2. \A d \in Clients : stage[d] # "replaceSidecar"
      BY <1>1 DEF WinnerInv, WritersAlone, HoldsFileLock, Exclusive, Writes, StagesFit, Passed
    <2>3. QED
      BY <1>3, <2>1, <2>2
  <1>5. \A k \in Keys : sidecar[k] \in {0, Foreign} \/ body[k] \in {0, sidecar[k]}
    BY <1>4 DEF BodyMatches, Between
  <1>6. CASE ReadSidecar(c)
    <2>1. UNCHANGED answer \/ answer'[c].kind \in {"absent", "unavailable"}
      BY <1>6, AnswerKinds DEF ReadSidecar, Finish, Settle, WinnerInv, TypeOK
    <2>2. stage'[c] = "readBody" => seen'[c] = sidecar[key(c)] /\ sidecar[key(c)] \notin {0, Foreign}
      BY <1>6 DEF ReadSidecar, Finish, Go, WinnerInv, TypeOK
    <2>3. BodyMatches'
      BY <1>1, <1>3, <1>4, <1>5, <2>2 DEF BodyMatches, Between, key
    <2>4. ReadsAreFromOneWrite'
      BY <1>1, <1>3, <2>1 DEF ReadsAreFromOneWrite
    <2>5. QED
      BY <2>3, <2>4
  <1>7. CASE ReadBody(c)
    <2>1. stage'[c] = "release" /\ seen' = seen
      BY <1>7 DEF ReadBody, Finish, Go, WinnerInv, TypeOK, local
    <2>2. answer'[c].kind = "ok" => answer'[c].body = answer'[c].version
      BY <1>7, AnswerKinds, AnswerParts
         DEF ReadBody, Finish, Settle, WinnerInv, TypeOK, BodyMatches
    <2>3. BodyMatches'
      BY <1>1, <1>3, <1>4, <1>5, <2>1 DEF BodyMatches, Between, key
    <2>4. ReadsAreFromOneWrite'
      BY <1>1, <1>3, <2>2 DEF ReadsAreFromOneWrite
    <2>5. QED
      BY <2>3, <2>4
  <1>8. QED
    BY <1>6, <1>7

(* The steps that change a file are made by a client that holds the lock   *)
(* alone.                                                                  *)
LEMMA Alone ==
  ASSUME WinnerInv, NEW c \in Clients,
         \/ stage[c] \in Passed \union {"cleanBody", "cleanSidecar"}
         \/ stage[c] \in {"unlinkSidecar", "unlinkBody", "prune"}
  PROVE  \A d \in Clients \ {c} : ~HoldsFileLock(d)
  <1>1. HoldsFileLock(c) /\ Exclusive(c)
    BY DEF WinnerInv, StagesFit, HoldsFileLock, Exclusive, Writes, Passed
  <1>2. QED
    BY <1>1 DEF WinnerInv, WritersAlone

LEMMA PairedWrite ==
  ASSUME PairedInv, NEW c \in Clients,
         ReplaceBody(c) \/ ReplaceSidecar(c) \/ UnlinkSidecar(c) \/ UnlinkBody(c)
  PROVE  BodyMatches' /\ ReadsAreFromOneWrite'
  <1> USE DEF PairedInv
  <1>1. /\ UNCHANGED <<call, token>> /\ key(c) \in Keys
        /\ stage[c] \in {"replaceBody", "replaceSidecar", "unlinkSidecar", "unlinkBody"}
        /\ call[c].op # "get"
    BY DEF ReplaceBody, ReplaceSidecar, UnlinkSidecar, UnlinkBody, local, WinnerInv, TypeOK,
           StagesFit, Passed, Puts
  <1>2. Step(c) /\ TypeOK
    BY DEF Step, WinnerInv
  <1>3. \A d \in Clients \ {c} : /\ stage'[d] = stage[d] /\ answer'[d] = answer[d]
                                 /\ stage[d] \notin {"replaceSidecar", "readBody"}
    BY <1>1, <1>2, CallFrame, Alone DEF HoldsFileLock, Passed
  <1>4. ReadsAreFromOneWrite'
    BY <1>1, <1>3 DEF ReadsAreFromOneWrite
  <1>5. CASE ReplaceBody(c)
    <2>1. /\ stage'[c] = "replaceSidecar" /\ stage[c] = "replaceBody" /\ UNCHANGED sidecar
          /\ body' = [body EXCEPT ![key(c)] = token[c]]
      BY <1>5, <1>2, StageMoves DEF ReplaceBody
    <2>2. \A k \in Keys : Between(k)' <=> k = key(c)
      BY <1>1, <1>3, <2>1 DEF Between, key
    <2>3. \A k \in Keys : ~Between(k)
      BY <1>3, <2>1 DEF Between
    <2>4. QED
      BY <1>1, <1>3, <1>4, <2>1, <2>2, <2>3 DEF BodyMatches, key, WinnerInv, TypeOK
  <1>6. CASE ReplaceSidecar(c)
    <2>1. /\ stage'[c] = "release" /\ stage[c] = "replaceSidecar" /\ UNCHANGED body
          /\ sidecar' = [sidecar EXCEPT ![key(c)] = token[c]]
      BY <1>6, <1>2, StageMoves DEF ReplaceSidecar
    <2>2. \A k \in Keys : Between(k) <=> k = key(c)
      BY <1>1, <1>3, <2>1 DEF Between, key
    <2>3. body[key(c)] \in {0, token[c]}
      BY <2>1 DEF BodyMatches
    <2>4. QED
      BY <1>1, <1>3, <1>4, <2>1, <2>2, <2>3 DEF BodyMatches, key, WinnerInv, TypeOK
  <1>7. CASE UnlinkSidecar(c) \/ UnlinkBody(c)
    <2>1. /\ stage'[c] \in {"release", "unlinkBody", "prune"} /\ stage[c] # "replaceSidecar"
          /\ \A k \in Keys : body'[k] \in {0, body[k]} /\ sidecar'[k] \in {0, sidecar[k]}
      BY <1>1, <1>2, <1>7, StageMoves DEF UnlinkSidecar, UnlinkBody, WinnerInv, TypeOK
    <2>2. \A k \in Keys : ~Between(k)
      BY <1>3, <2>1 DEF Between
    <2>3. QED
      BY <1>1, <1>3, <1>4, <2>1, <2>2 DEF BodyMatches
  <1>8. QED
    BY <1>4, <1>5, <1>6, <1>7

LEMMA NextPaired ==
  ASSUME "replaceSidecar" \notin FailAt, MaxCrashes = 0, "editBody" \notin TamperKinds,
         PairedInv, [Next]_vars
  PROVE  BodyMatches' /\ ReadsAreFromOneWrite'
  <1>1. ASSUME NEW c \in Clients, Begin(c) \/ Step(c) \/ Fail(c)
        PROVE  BodyMatches' /\ ReadsAreFromOneWrite'
    BY <1>1, PairedKept, PairedRead, PairedWrite DEF Step
  <1>2. ASSUME NEW p \in Processes, Crash(p) PROVE FALSE
    BY <1>2 DEF Crash, PairedInv, WinnerInv, TypeOK
  <1>3. CASE Tamper
    <2>1. /\ UNCHANGED <<stage, call, token, seen, answer>>
          /\ \A k \in Keys : body'[k] \in {0, body[k]} /\ sidecar'[k] \in {0, Foreign, sidecar[k]}
      BY <1>3 DEF Tamper, local, PairedInv, WinnerInv, TypeOK
    <2>2. /\ \A k \in Keys : Between(k)' <=> Between(k)
          /\ \A c \in Clients : stage[c] # "idle" => key(c) \in Keys
      BY <2>1 DEF Between, key, PairedInv, WinnerInv, TypeOK
    <2>3. BodyMatches
      BY DEF PairedInv
    <2>4. BodyMatches'
      BY <2>1, <2>2, <2>3 DEF BodyMatches, key
    <2>5. ReadsAreFromOneWrite'
      BY <2>1 DEF ReadsAreFromOneWrite, PairedInv
    <2>6. QED
      BY <2>4, <2>5
  <1>4. CASE UNCHANGED vars
    BY <1>4 DEF vars, disk, local, BodyMatches, Between, key, ReadsAreFromOneWrite, PairedInv
  <1>5. QED
    BY <1>1, <1>2, <1>3, <1>4 DEF Next

(* get returns a body and a version from a single write (StoredObject),    *)
(* among threads and processes, failing system calls and damaged files,    *)
(* save for what the docstring of filesystem.py excepts: a put that ends   *)
(* between its two replaces, and contents edited in place.                 *)
THEOREM ReadsAreWhole ==
  ASSUME "replaceSidecar" \notin FailAt, MaxCrashes = 0, "editBody" \notin TamperKinds
  PROVE  Spec => []ReadsAreFromOneWrite
  <1>1. Init => PairedInv
    <2>1. Init => BodyMatches /\ ReadsAreFromOneWrite
      BY AnswerKinds DEF Init, BodyMatches, ReadsAreFromOneWrite
    <2>2. QED
      BY <2>1, InitWinnerInv, InitCallsFit DEF PairedInv
  <1>2. PairedInv /\ [Next]_vars => PairedInv'
    <2>1. PairedInv => WinnerInv /\ CallsFit
      BY DEF PairedInv
    <2>2. QED
      BY <2>1, NextWinnerInv, NextCallsFit, NextPaired DEF PairedInv
  <1>3. PairedInv => ReadsAreFromOneWrite
    BY DEF PairedInv
  <1>4. QED
    BY <1>1, <1>2, <1>3, PTL DEF Spec

-----------------------------------------------------------------------------
(* Temporary files.  Each belongs to a put that is about to move it into   *)
(* place, or to remove it.                                                 *)

Parts(at) ==
  CASE at \in {"replaceBody", "cleanBody"} -> {"body", "sidecar"}
    [] at = "tempSidecar" -> {"body"}
    [] at \in {"replaceSidecar", "cleanSidecar"} -> {"sidecar"}
    [] OTHER -> {}

TempsOwned ==
  \A t \in temps : \E c \in Clients : \E part \in Parts(stage[c]) : t = Temp(c, part)

LEMMA PartsAt ==
  /\ Parts("tempSidecar") = {"body"}
  /\ Parts("replaceBody") = {"body", "sidecar"} /\ Parts("cleanBody") = {"body", "sidecar"}
  /\ Parts("replaceSidecar") = {"sidecar"} /\ Parts("cleanSidecar") = {"sidecar"}
  /\ \A at : Parts(at) # {} => at \in {"tempSidecar", "replaceBody", "replaceSidecar",
                                       "cleanBody", "cleanSidecar"}
  BY DEF Parts

LEMMA NextTempsOwned ==
  ASSUME FailAt \intersect {"tempBody", "tempSidecar", "cleanBody", "cleanSidecar"} = {},
         MaxCrashes = 0, WinnerInv, TempsOwned, [Next]_vars
  PROVE  TempsOwned'
  <1> USE DEF TempsOwned
  <1>1. ASSUME NEW c \in Clients, Begin(c) \/ Step(c) \/ Fail(c)
        PROVE  TempsOwned'
    <2>1. \A d \in Clients \ {c} : stage'[d] = stage[d] /\ \A part : Temp(d, part)' = Temp(d, part)
      BY <1>1, CallFrame DEF WinnerInv, Temp, key
    (* It is enough that what c had it still has, or has moved, and what is new is its own. *)
    <2>2. SUFFICES
            /\ \A part \in Parts(stage[c]) :
                 Temp(c, part) \notin temps' \/ \E q \in Parts(stage'[c]) : Temp(c, part) = Temp(c, q)'
            /\ \A t \in temps' : t \in temps \/ \E q \in Parts(stage'[c]) : t = Temp(c, q)'
      BY <2>1
    <2>3. TypeOK
      BY DEF WinnerInv
    <2>4. CASE \/ Begin(c) \/ TakeThreadLock(c) \/ TakeFileLock(c) \/ Release(c) \/ ReadSidecar(c)
               \/ ReadBody(c) \/ Collect(c) \/ ReadPage(c) \/ Check(c) \/ Mkdir(c)
               \/ UnlinkSidecar(c) \/ UnlinkBody(c) \/ Prune(c)
      <3>1. UNCHANGED temps
        BY <2>4
           DEF Begin, TakeThreadLock, TakeFileLock, Release, ReadSidecar, ReadBody, Collect,
               ReadPage, Check, Mkdir, UnlinkSidecar, UnlinkBody, Prune, disk
      <3>2. stage[c] \notin {"tempSidecar", "replaceBody", "replaceSidecar", "cleanBody",
                             "cleanSidecar"}
        BY <2>3, <2>4, StageMoves, BegunCall
      <3>3. QED
        BY <3>1, <3>2, PartsAt
    <2>5. CASE TempBody(c) \/ TempSidecar(c)
      <3>1. \A part : Temp(c, part)' = Temp(c, part)
        BY <2>5 DEF TempBody, TempSidecar, WriteTemp, Temp, key, local
      <3>2. QED
        BY <2>3, <2>5, <3>1, StageMoves, PartsAt DEF TempBody, TempSidecar, WriteTemp
    <2>6. CASE ReplaceBody(c) \/ ReplaceSidecar(c) \/ CleanBody(c) \/ CleanSidecar(c)
      <3>1. \A part : Temp(c, part)' = Temp(c, part)
        BY <2>6 DEF ReplaceBody, ReplaceSidecar, CleanBody, CleanSidecar, Temp, key, local
      <3>2. QED
        BY <2>3, <2>6, <3>1, StageMoves, PartsAt
           DEF ReplaceBody, ReplaceSidecar, CleanBody, CleanSidecar
    <2>7. CASE Fail(c)
      <3>1. /\ stage[c] \notin {"tempBody", "tempSidecar", "cleanBody", "cleanSidecar"}
            /\ UNCHANGED temps
        BY <2>7 DEF Fail
      <3>2. \A part : Temp(c, part)' = Temp(c, part)
        BY <2>7 DEF Fail, Temp, key, local
      <3>3. stage[c] \in {"replaceBody", "replaceSidecar"} => stage'[c] = "cleanBody"
        BY <2>3, <2>7 DEF Fail, Go, TypeOK
      <3>4. QED
        BY <3>1, <3>2, <3>3, PartsAt
    <2>8. QED
      BY <1>1, <2>4, <2>5, <2>6, <2>7 DEF Step
  <1>2. ASSUME NEW p \in Processes, Crash(p) PROVE FALSE
    BY <1>2 DEF Crash, WinnerInv, TypeOK
  <1>3. CASE Tamper \/ UNCHANGED vars
    <2>1. UNCHANGED <<temps, stage, call, token>>
      BY <1>3 DEF Tamper, vars, disk, local
    <2>2. QED
      BY <2>1 DEF Temp, key
  <1>4. QED
    BY <1>1, <1>2, <1>3 DEF Next

(* No put leaves a temporary file when it ends, whichever replace or mkdir *)
(* fails: _write's except clause removes all it has listed.  A crash, the  *)
(* writing of a temporary file, and its removal may each leave one.        *)
THEOREM TempsAreCleaned ==
  ASSUME FailAt \intersect {"tempBody", "tempSidecar", "cleanBody", "cleanSidecar"} = {},
         MaxCrashes = 0
  PROVE  Spec => []NoTempsLeft
  <1>1. Init => WinnerInv /\ TempsOwned
    <2>1. Init => TempsOwned
      BY DEF Init, TempsOwned
    <2>2. QED
      BY <2>1, InitWinnerInv
  <1>2. (WinnerInv /\ TempsOwned) /\ [Next]_vars => (WinnerInv /\ TempsOwned)'
    BY NextWinnerInv, NextTempsOwned
  <1>3. WinnerInv /\ TempsOwned => NoTempsLeft
    <2> SUFFICES ASSUME WinnerInv, TempsOwned, NEW t \in temps
                 PROVE  \E c \in Clients : HoldsFileLock(c) /\ Exclusive(c)
      BY DEF NoTempsLeft, Writing
    <2>1. PICK c \in Clients : \E part \in Parts(stage[c]) : t = Temp(c, part)
      BY DEF TempsOwned
    <2>2. stage[c] \in {"tempSidecar", "replaceBody", "replaceSidecar", "cleanBody", "cleanSidecar"}
      BY <2>1, PartsAt
    <2>3. QED
      BY <2>2 DEF WinnerInv, StagesFit, Passed, HoldsFileLock, Exclusive, Writes
  <1>4. QED
    BY <1>1, <1>2, <1>3, PTL DEF Spec

-----------------------------------------------------------------------------
(* Directories.  Each leads to an object, to one that is coming or going,  *)
(* or is still to be looked at by a delete on its way up.                  *)

ComingOrGoing(c) == stage[c] \in Pending \union {"unlinkBody"}
Housed(k) == sidecar[k] # 0 \/ \E c \in Clients : ComingOrGoing(c) /\ key(c) = k
InView(c) == IF stage[c] = "prune" THEN {Trail[key(c)][i] : i \in 1..depth[c]} ELSE {}

DirsInv ==
  /\ \A k \in Keys : Housed(k) => Elements(Trail[k]) \subseteq dirs
  /\ \A c \in Clients : /\ stage[c] = "prune" => depth[c] <= Len(Trail[key(c)])
                        /\ InView(c) \subseteq dirs
  /\ \A d \in dirs : \/ \E k \in Keys : Housed(k) /\ d \in Elements(Trail[k])
                     \/ \E c \in Clients : d \in InView(c)
  /\ \A k \in Keys : body[k] # 0 =>
       \/ sidecar[k] # 0
       \/ \E c \in Clients : stage[c] \in {"replaceSidecar", "unlinkBody"} /\ key(c) = k

LEMMA TrailFacts ==
  ASSUME NEW k \in Keys
  PROVE  /\ Len(Trail[k]) \in Nat /\ DOMAIN Trail[k] = 1..Len(Trail[k])
         /\ Elements(Trail[k]) = {Trail[k][i] : i \in 1..Len(Trail[k])}
  <1>1. Trail[k] \in Seq(Dirs)
    BY FilesystemAssumption
  <1>2. QED
    BY <1>1 DEF Elements

LEMMA TrailHolds ==
  ASSUME NEW k \in Keys, NEW i \in 1..Len(Trail[k])
  PROVE  Trail[k][i] \in Elements(Trail[k])
  BY TrailFacts

LEMMA TrailsAgree ==
  ASSUME NEW k \in Keys, NEW j \in Keys, NEW i \in 1..Len(Trail[k]), NEW m \in 1..Len(Trail[j]),
         Trail[k][i] = Trail[j][m]
  PROVE  i = m /\ \A q \in 1..i : Trail[k][q] = Trail[j][q]
  BY TrailFacts, TreeAssumption

(* The steps a failing system call may cut short without a trace. *)
Traceless ==
  {"flock", "readSidecar", "readBody", "collect", "readPage", "check", "unlinkSidecar", "release"}

(* A step that changes neither objects nor directories, nor where any call *)
(* that does stands.                                                       *)
LEMMA DirsQuiet ==
  ASSUME WinnerInv, DirsInv, FailAt \subseteq Traceless, NEW c \in Clients,
         \/ Begin(c) \/ TakeThreadLock(c) \/ TakeFileLock(c) \/ Release(c) \/ ReadSidecar(c)
         \/ ReadBody(c) \/ Collect(c) \/ ReadPage(c) \/ Check(c) \/ TempBody(c)
         \/ TempSidecar(c) \/ CleanBody(c) \/ CleanSidecar(c) \/ Fail(c)
  PROVE  DirsInv'
  <1> DEFINE watched == Pending \union {"unlinkBody", "prune"}
  <1>1. TypeOK /\ (Begin(c) \/ Step(c) \/ Fail(c))
    BY DEF WinnerInv, Step
  <1>2. UNCHANGED <<body, sidecar, dirs>>
    <2>1. CASE Fail(c)
      BY <2>1 DEF Fail, Traceless
    <2>2. CASE ~Fail(c)
      BY <2>2
         DEF Begin, TakeThreadLock, TakeFileLock, Release, ReadSidecar, ReadBody, Collect,
             ReadPage, Check, TempBody, TempSidecar, CleanBody, CleanSidecar, WriteTemp, disk
    <2>3. QED
      BY <2>1, <2>2
  <1>3. \/ stage[c] \notin watched /\ stage'[c] \notin watched
        \/ /\ stage[c] \in {"tempBody", "tempSidecar"} /\ stage'[c] \in {"tempSidecar", "replaceBody"}
           /\ UNCHANGED call
    <2>1. CASE Begin(c)
      BY <2>1, BegunCall DEF Pending, Passed
    <2>2. CASE Fail(c)
      BY <2>2 DEF Fail, Go, Traceless, Pending, Passed, WinnerInv, TypeOK
    <2>3. CASE TempBody(c) \/ TempSidecar(c)
      BY <1>1, <2>3, StageMoves DEF TempBody, TempSidecar, WriteTemp, local
    <2>4. CASE \/ TakeThreadLock(c) \/ TakeFileLock(c) \/ Release(c) \/ ReadSidecar(c)
               \/ ReadBody(c) \/ Collect(c) \/ ReadPage(c) \/ Check(c)
               \/ CleanBody(c) \/ CleanSidecar(c)
      <3>1. FirstStage(call[c].op) \in {"readSidecar", "collect", "mkdir", "check"}
        BY DEF FirstStage
      <3>2. QED
        BY <1>1, <2>4, <3>1, StageMoves DEF Pending, Passed
    <2>5. QED
      BY <2>1, <2>2, <2>3, <2>4
  <1>4. \A d \in Clients \ {c} : stage'[d] = stage[d] /\ key(d)' = key(d)
    BY <1>1, CallFrame DEF key
  <1>5. \A d \in Clients \ {c} : depth'[d] = depth[d]
    BY DEF Begin, TakeThreadLock, TakeFileLock, Release, ReadSidecar, ReadBody, Collect,
           ReadPage, Check, TempBody, TempSidecar, CleanBody, CleanSidecar, WriteTemp, Fail,
           local, WinnerInv, TypeOK
  <1>6. \A d \in Clients :
          /\ ComingOrGoing(d)' <=> ComingOrGoing(d)
          /\ ComingOrGoing(d) => key(d)' = key(d)
          /\ InView(d)' = InView(d)
          /\ stage'[d] = "prune" => stage[d] = "prune" /\ depth'[d] = depth[d] /\ key(d)' = key(d)
          /\ stage[d] \in {"replaceSidecar", "unlinkBody"} => stage'[d] = stage[d] /\ key(d)' = key(d)
    <2>1. /\ stage[c] # "prune" /\ stage'[c] # "prune"
          /\ ComingOrGoing(c)' <=> ComingOrGoing(c)
          /\ ComingOrGoing(c) => key(c)' = key(c)
          /\ stage[c] \notin {"replaceSidecar", "unlinkBody"}
      BY <1>3 DEF ComingOrGoing, Pending, Passed, key
    <2>2. InView(c) = {} /\ InView(c)' = {}
      BY <2>1 DEF InView
    <2>3. ASSUME NEW d \in Clients \ {c}
          PROVE  InView(d)' = InView(d) /\ (ComingOrGoing(d)' <=> ComingOrGoing(d))
      BY <1>4, <1>5 DEF InView, ComingOrGoing
    <2>4. QED
      BY <1>4, <1>5, <2>1, <2>2, <2>3
  <1>7. \A k \in Keys : Housed(k)' <=> Housed(k)
    BY <1>2, <1>6 DEF Housed
  <1>8. QED
    BY <1>2, <1>6, <1>7 DEF DirsInv

(* While c writes, nobody else is coming, going or climbing. *)
LEMMA AloneInTree ==
  ASSUME WinnerInv, NEW c \in Clients, Step(c),
         stage[c] \in Passed \union {"unlinkSidecar", "unlinkBody", "prune"}
  PROVE  \A d \in Clients \ {c} :
           /\ ~ComingOrGoing(d) /\ InView(d) = {}
           /\ ~ComingOrGoing(d)' /\ InView(d)' = {}
           /\ stage[d] \notin {"replaceSidecar", "unlinkBody"}
           /\ stage'[d] \notin {"prune", "replaceSidecar", "unlinkBody"}
  <1>1. \A d \in Clients \ {c} : stage[d] \in {"idle", "wait", "flock"} /\ stage'[d] = stage[d]
    BY Alone, CallFrame DEF HoldsFileLock, WinnerInv
  <1>2. QED
    BY <1>1 DEF ComingOrGoing, InView, Pending, Passed

(* A put houses its key before its directories can be seen empty, and a    *)
(* delete until it looks at them itself.                                   *)
LEMMA DirsWritten ==
  ASSUME WinnerInv, DirsInv, NEW c \in Clients,
         Mkdir(c) \/ ReplaceBody(c) \/ ReplaceSidecar(c) \/ UnlinkSidecar(c) \/ UnlinkBody(c)
  PROVE  DirsInv'
  <1> DEFINE k == key(c)
  <1>1. TypeOK /\ Step(c)
    BY DEF WinnerInv, Step
  <1>2. /\ stage[c] \in {"mkdir", "replaceBody", "replaceSidecar", "unlinkSidecar", "unlinkBody"}
        /\ call' = call /\ key(c) = k /\ key(c)' = k /\ k \in Keys
    BY <1>1, StageMoves DEF Mkdir, ReplaceBody, ReplaceSidecar, UnlinkSidecar, UnlinkBody, local, key, TypeOK
  <1>3. \A d \in Clients \ {c} :
          /\ ~ComingOrGoing(d) /\ InView(d) = {}
          /\ ~ComingOrGoing(d)' /\ InView(d)' = {}
          /\ stage[d] \notin {"replaceSidecar", "unlinkBody"}
          /\ stage'[d] \notin {"prune", "replaceSidecar", "unlinkBody"}
    BY <1>1, <1>2, AloneInTree DEF Passed
  <1>4. \A j \in Keys : /\ Housed(j) <=> sidecar[j] # 0 \/ (ComingOrGoing(c) /\ k = j)
                        /\ Housed(j)' <=> sidecar'[j] # 0 \/ (ComingOrGoing(c)' /\ k = j)
    BY <1>2, <1>3 DEF Housed
  <1>5. InView(c) = {}
    BY <1>2 DEF InView
  <1> HIDE DEF k
  <1>6. CASE Mkdir(c)
    <2>1. /\ UNCHANGED <<body, sidecar>> /\ dirs' = dirs \union Elements(Trail[k])
          /\ stage[c] = "mkdir" /\ stage'[c] = "tempBody"
      BY <1>1, <1>6, StageMoves DEF Mkdir, k
    <2>2. ~ComingOrGoing(c) /\ ComingOrGoing(c)' /\ InView(c)' = {}
      BY <2>1 DEF ComingOrGoing, InView, Pending, Passed
    <2>3. QED
      BY <1>2, <1>3, <1>4, <1>5, <2>1, <2>2 DEF DirsInv
  <1>7. CASE ReplaceBody(c)
    <2>1. /\ UNCHANGED <<sidecar, dirs>> /\ \A j \in Keys \ {k} : body'[j] = body[j]
          /\ stage[c] = "replaceBody" /\ stage'[c] = "replaceSidecar"
      BY <1>1, <1>7, StageMoves DEF ReplaceBody, k, TypeOK
    <2>2. ComingOrGoing(c) /\ ComingOrGoing(c)' /\ InView(c)' = {}
      BY <2>1 DEF ComingOrGoing, InView, Pending, Passed
    <2>3. QED
      BY <1>2, <1>3, <1>4, <1>5, <2>1, <2>2 DEF DirsInv
  <1>8. CASE ReplaceSidecar(c)
    <2>1. /\ UNCHANGED <<body, dirs>> /\ \A j \in Keys \ {k} : sidecar'[j] = sidecar[j]
          /\ stage[c] = "replaceSidecar" /\ stage'[c] = "release" /\ sidecar'[k] # 0
      BY <1>1, <1>2, <1>8, StageMoves
         DEF ReplaceSidecar, k, TypeOK, WinnerInv, PendingIsNew, Pending, Passed
    <2>2. ComingOrGoing(c) /\ ~ComingOrGoing(c)' /\ InView(c)' = {}
      BY <2>1 DEF ComingOrGoing, InView, Pending, Passed
    <2>3. QED
      BY <1>2, <1>3, <1>4, <1>5, <2>1, <2>2 DEF DirsInv
  <1>9. CASE UnlinkSidecar(c)
    <2>1. /\ UNCHANGED <<body, dirs>> /\ \A j \in Keys \ {k} : sidecar'[j] = sidecar[j]
          /\ stage[c] = "unlinkSidecar"
          /\ \/ stage'[c] = "release" /\ sidecar' = sidecar
             \/ stage'[c] = "unlinkBody" /\ sidecar[k] # 0
      BY <1>1, <1>9, StageMoves DEF UnlinkSidecar, Finish, Go, k, TypeOK
    <2>2. /\ ~ComingOrGoing(c) /\ InView(c)' = {}
          /\ ComingOrGoing(c)' <=> stage'[c] = "unlinkBody"
      BY <2>1 DEF ComingOrGoing, InView, Pending, Passed
    <2>3. QED
      BY <1>2, <1>3, <1>4, <1>5, <2>1, <2>2 DEF DirsInv
  <1>10. CASE UnlinkBody(c)
    <2>1. /\ UNCHANGED <<sidecar, dirs>> /\ \A j \in Keys \ {k} : body'[j] = body[j]
          /\ body'[k] = 0 /\ stage[c] = "unlinkBody" /\ stage'[c] = "prune"
          /\ depth'[c] = Len(Trail[k])
      BY <1>1, <1>2, <1>10, StageMoves DEF UnlinkBody, k, TypeOK
    <2>2. ComingOrGoing(c) /\ ~ComingOrGoing(c)' /\ InView(c)' = Elements(Trail[k])
      BY <1>2, <2>1, TrailFacts DEF ComingOrGoing, InView, Pending, Passed
    <2>3. depth'[c] <= Len(Trail[k])
      BY <1>2, <2>1, TrailFacts
    <2>4. QED
      BY <1>2, <1>3, <1>4, <1>5, <2>1, <2>2, <2>3 DEF DirsInv
  <1>11. QED
    BY <1>6, <1>7, <1>8, <1>9, <1>10

(* rmdir succeeds on a directory no trail needs; it fails on one that still *)
(* leads to an object, as all directories above it then do.                 *)
LEMMA DirsPruned ==
  ASSUME WinnerInv, TempsOwned, DirsInv, NEW c \in Clients, Prune(c)
  PROVE  DirsInv'
  <1> DEFINE k == key(c)
             i == depth[c]
             here == Trail[k][i]
             leads(j) == sidecar[j] # 0
  <1>1. TypeOK /\ Step(c) /\ stage[c] = "prune"
    BY DEF WinnerInv, Step, Prune
  <1>2. /\ call' = call /\ key(c) = k /\ key(c)' = k /\ k \in Keys
        /\ UNCHANGED <<body, sidecar, temps>> /\ i \in Nat /\ i <= Len(Trail[k])
    BY <1>1 DEF Prune, key, TypeOK, DirsInv
  <1>3. \A d \in Clients \ {c} :
          /\ ~ComingOrGoing(d) /\ InView(d) = {}
          /\ ~ComingOrGoing(d)' /\ InView(d)' = {}
          /\ stage[d] \notin {"replaceSidecar", "unlinkBody"}
          /\ stage'[d] \notin {"prune", "replaceSidecar", "unlinkBody"}
    BY <1>1, AloneInTree
  <1>4. /\ ~ComingOrGoing(c) /\ ~ComingOrGoing(c)'
        /\ InView(c) = {Trail[k][q] : q \in 1..i}
        /\ stage'[c] \in {"prune", "release"}
    BY <1>1, StageMoves DEF ComingOrGoing, InView, Pending, Passed
  <1>5. \A j \in Keys : /\ Housed(j) <=> leads(j)
                        /\ Housed(j)' <=> leads(j)
    BY <1>2, <1>3, <1>4 DEF Housed
  <1>6. \A j \in Keys : body[j] # 0 => leads(j)
    BY <1>1, <1>3 DEF DirsInv
  <1>7. \A j \in Keys : leads(j) => Elements(Trail[j]) \subseteq dirs
    BY <1>5 DEF DirsInv
  <1>8. \A d \in dirs : d \in InView(c) \/ \E j \in Keys : leads(j) /\ d \in Elements(Trail[j])
    BY <1>3, <1>5 DEF DirsInv
  <1>9. temps = {}
    <2> SUFFICES ASSUME NEW t \in temps PROVE FALSE
      OBVIOUS
    <2>1. PICK d \in Clients : \E part \in Parts(stage[d]) : t = Temp(d, part)
      BY DEF TempsOwned
    <2>2. stage[d] \in {"tempSidecar", "replaceBody", "replaceSidecar", "cleanBody", "cleanSidecar"}
      BY <2>1, PartsAt
    <2>3. QED
      BY <1>1, <2>2, Alone DEF HoldsFileLock
  <1>10. CASE i > 0 /\ Empty(k, i) /\ here \in dirs
    <2>1. dirs' = dirs \ {here} /\ depth'[c] = i - 1 /\ stage' = stage
      BY <1>1, <1>10 DEF Prune, TypeOK
    <2>2. \A q \in 1..(i - 1) : Trail[k][q] # here
      BY <1>2, <1>10, TrailsAgree
    <2>3. InView(c)' = {Trail[k][q] : q \in 1..(i - 1)}
      BY <1>1, <1>2, <2>1 DEF InView
    <2>4. ASSUME NEW j \in Keys, leads(j) PROVE here \notin Elements(Trail[j])
      <3> SUFFICES ASSUME NEW m \in 1..Len(Trail[j]), Trail[j][m] = here PROVE FALSE
        BY TrailFacts
      <3>1. IF m = Len(Trail[j]) THEN sidecar[j] = 0 ELSE Trail[j][m + 1] \notin dirs
        BY <1>10, TrailFacts DEF Empty
      <3>2. m # Len(Trail[j]) => Trail[j][m + 1] \in dirs
        <4> SUFFICES ASSUME m # Len(Trail[j]) PROVE Trail[j][m + 1] \in dirs
          OBVIOUS
        <4>1. m + 1 \in 1..Len(Trail[j])
          BY TrailFacts
        <4>2. Trail[j][m + 1] \in Elements(Trail[j])
          BY <4>1, TrailHolds
        <4>3. QED
          BY <1>7, <2>4, <4>2
      <3>3. QED
        BY <2>4, <3>1, <3>2
    <2>5. InView(c)' \subseteq dirs'
      BY <1>2, <1>4, <1>10, <2>1, <2>2, <2>3 DEF DirsInv
    <2>6. \A d \in dirs' :
            (\E j \in Keys : leads(j) /\ d \in Elements(Trail[j])) \/ d \in InView(c)'
      BY <1>2, <1>4, <1>8, <2>1, <2>3
    <2>7. depth'[c] <= Len(Trail[k])
      BY <1>2, <2>1, TrailFacts
    <2> HIDE DEF k, i, here, leads
    <2>8. QED
      BY <1>1, <1>2, <1>3, <1>5, <1>6, <1>7, <2>1, <2>4, <2>5, <2>6, <2>7 DEF DirsInv, leads
  <1>11. CASE ~(i > 0 /\ Empty(k, i) /\ here \in dirs)
    <2>1. UNCHANGED <<dirs, depth>> /\ stage'[c] = "release" /\ InView(c)' = {}
      BY <1>1, <1>11 DEF Prune, Go, InView, TypeOK
    <2>2. ASSUME i > 0
          PROVE  \E j \in Keys : leads(j) /\ here \in Elements(Trail[j])
      <3>1. here \in dirs
        BY <1>2, <1>4, <2>2 DEF DirsInv
      <3> DEFINE bare(j, m) ==
                   IF m = Len(Trail[j])
                   THEN body[j] = 0 /\ sidecar[j] = 0 /\ ~ \E t \in temps : t.key = j
                   ELSE Trail[j][m + 1] \notin dirs
      <3>2. PICK j \in Keys : \E m \in DOMAIN Trail[j] : Trail[j][m] = here /\ ~bare(j, m)
        BY <1>11, <2>2, <3>1 DEF Empty
      <3>3. PICK m \in 1..Len(Trail[j]) : Trail[j][m] = here /\ ~bare(j, m)
        BY <3>2, TrailFacts
      <3>4. here \in Elements(Trail[j])
        BY <3>3, TrailFacts
      <3>5. CASE m = Len(Trail[j])
        BY <1>6, <1>9, <3>3, <3>4, <3>5
      <3>6. CASE m # Len(Trail[j])
        <4>1. m + 1 \in 1..Len(Trail[j]) /\ Trail[j][m + 1] \in dirs
          BY <3>3, <3>6, TrailFacts
        <4>2. Trail[j][m + 1] \notin InView(c)
          <5> SUFFICES ASSUME NEW q \in 1..i, Trail[k][q] = Trail[j][m + 1] PROVE FALSE
            BY <1>4
          <5>1. q = m + 1 /\ i = m
            BY <1>2, <2>2, <3>3, <4>1, TrailsAgree
          <5>2. QED
            BY <1>2, <5>1
        <4>3. PICK h \in Keys : leads(h) /\ Trail[j][m + 1] \in Elements(Trail[h])
          BY <1>8, <4>1, <4>2
        <4>4. PICK q \in 1..Len(Trail[h]) : Trail[h][q] = Trail[j][m + 1]
          BY <4>3, TrailFacts
        <4>5. q = m + 1 /\ Trail[h][m] = Trail[j][m]
          BY <3>3, <4>1, <4>4, TrailsAgree
        <4>6. here \in Elements(Trail[h])
          <5>1. m \in 1..Len(Trail[h])
            BY <4>4, <4>5, TrailFacts
          <5>2. QED
            BY <3>3, <4>5, <5>1, TrailHolds
        <4>7. QED
          BY <4>3, <4>6
      <3>7. QED
        BY <3>5, <3>6
    <2>3. \A d \in dirs : \E j \in Keys : leads(j) /\ d \in Elements(Trail[j])
      <3> SUFFICES ASSUME NEW q \in 1..i
                   PROVE  \E j \in Keys : leads(j) /\ Trail[k][q] \in Elements(Trail[j])
        BY <1>4, <1>8
      <3>1. PICK j \in Keys : leads(j) /\ here \in Elements(Trail[j])
        BY <1>2, <2>2
      <3>2. PICK m \in 1..Len(Trail[j]) : Trail[j][m] = here
        BY <3>1, TrailFacts
      <3>3. i = m /\ Trail[j][q] = Trail[k][q]
        BY <1>2, <3>2, TrailsAgree
      <3>4. QED
        <4>1. q \in 1..Len(Trail[j])
          BY <1>2, <3>2, <3>3, TrailFacts
        <4>2. QED
          BY <3>1, <3>3, <4>1, TrailHolds
    <2> HIDE DEF k, i, here, leads
    <2>4. QED
      BY <1>2, <1>3, <1>5, <1>6, <1>7, <2>1, <2>3 DEF DirsInv, leads
  <1>12. QED
    BY <1>10, <1>11

LEMMA NextDirsInv ==
  ASSUME FailAt \subseteq Traceless, MaxCrashes = 0, "removeSidecar" \notin TamperKinds,
         WinnerInv, TempsOwned, DirsInv, [Next]_vars
  PROVE  DirsInv'
  <1>1. ASSUME NEW c \in Clients, Begin(c) \/ Step(c) \/ Fail(c) PROVE DirsInv'
    BY <1>1, DirsQuiet, DirsWritten, DirsPruned DEF Step
  <1>2. ASSUME NEW p \in Processes, Crash(p) PROVE FALSE
    BY <1>2 DEF Crash, WinnerInv, TypeOK
  <1>3. CASE Tamper
    <2>1. /\ UNCHANGED <<stage, call, depth, dirs>>
          /\ \A k \in Keys : /\ body'[k] # 0 => body[k] # 0
                             /\ sidecar'[k] # 0 <=> sidecar[k] # 0
      BY <1>3, StorageAssumption DEF Tamper, local, WinnerInv, TypeOK
    <2>2. \A c \in Clients : /\ ComingOrGoing(c)' <=> ComingOrGoing(c)
                             /\ InView(c)' = InView(c) /\ key(c)' = key(c)
      BY <2>1 DEF ComingOrGoing, InView, key
    <2>3. \A k \in Keys : Housed(k)' <=> Housed(k)
      BY <2>1, <2>2 DEF Housed
    <2>4. QED
      BY <2>1, <2>2, <2>3 DEF DirsInv
  <1>4. CASE UNCHANGED vars
    BY <1>4 DEF vars, disk, local, DirsInv, ComingOrGoing, InView, Housed, key
  <1>5. QED
    BY <1>1, <1>2, <1>3, <1>4 DEF Next

(* Between writes every directory leads to an object: deletes prune what   *)
(* they empty (_prune_empty), and never what a sibling or nested key still *)
(* needs.  A crash, a sidecar removed by hand, and a system call failing   *)
(* between the mkdir and the end of a put or a delete may each leave one   *)
(* behind.                                                                 *)
THEOREM DirsArePruned ==
  ASSUME FailAt \subseteq Traceless, MaxCrashes = 0, "removeSidecar" \notin TamperKinds
  PROVE  Spec => []NoEmptyDirs
  <1> DEFINE Inv == WinnerInv /\ TempsOwned /\ DirsInv
  <1>1. Init => Inv
    <2>1. Init => TempsOwned /\ DirsInv
      BY DEF Init, TempsOwned, DirsInv, Housed, ComingOrGoing, InView, Pending, Passed
    <2>2. QED
      BY <2>1, InitWinnerInv
  <1>2. Inv /\ [Next]_vars => Inv'
    <2>1. FailAt \intersect {"tempBody", "tempSidecar", "cleanBody", "cleanSidecar"} = {}
      BY DEF Traceless
    <2>2. QED
      BY <2>1, NextWinnerInv, NextTempsOwned, NextDirsInv
  <1>3. Inv => NoEmptyDirs
    <2> SUFFICES ASSUME Inv, Writing = {}, NEW d \in dirs
                 PROVE  \E k \in Keys : sidecar[k] # 0 /\ d \in Elements(Trail[k])
      BY DEF NoEmptyDirs
    <2>1. \A c \in Clients : ~(HoldsFileLock(c) /\ Exclusive(c))
      BY DEF Writing
    <2>2. \A c \in Clients : ~ComingOrGoing(c) /\ InView(c) = {}
      BY <2>1 DEF ComingOrGoing, InView, HoldsFileLock, Exclusive, Writes, WinnerInv, StagesFit,
                  Pending, Passed
    <2>3. QED
      BY <2>2 DEF DirsInv, Housed
  <1>4. QED
    BY <1>1, <1>2, <1>3, PTL DEF Spec
=============================================================================
