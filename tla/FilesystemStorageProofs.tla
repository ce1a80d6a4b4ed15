---------------------- MODULE FilesystemStorageProofs ----------------------
(***************************************************************************)
(* Theorems about FilesystemStorage, for any number of keys, clients and   *)
(* processes, crashes and failing system calls: at most one conditional    *)
(* write of a version succeeds, and no object is ever without its body.    *)
(***************************************************************************)
EXTENDS FilesystemStorage, TLAPS

-----------------------------------------------------------------------------
(* Answers. *)

LEMMA AnswerTypes ==
  /\ \A kind \in Kinds : Plain(kind) \in Answer
  /\ \A v \in Nat, b \in Nat \union {Foreign} : Object(v, b) \in Answer
  /\ \A v \in Nat : Committed(v) \in Answer
  /\ \A p \in SUBSET (Keys \X Nat) : Page(p) \in Answer
  /\ \A r \in Request : Refused(r) \in Answer
  BY DEF Plain, Object, Committed, Page, Refused, Answer, Kinds

LEMMA AnswerKinds ==
  /\ \A kind : Plain(kind).kind = kind
  /\ \A v, b : Object(v, b).kind = "ok"
  /\ \A v : Committed(v).kind = "ok"
  /\ \A p : Page(p).kind = "ok"
  /\ \A r : Refused(r).kind = "ok" => r.op = "list"
  BY DEF Plain, Object, Committed, Page, Refused

LEMMA SelectedType == \A r, S : Selected(r, S) \subseteq S
  BY DEF Selected

LEMMA NoCallType == NoCall \in Request
  BY StorageAssumption DEF NoCall, Request, Ops

-----------------------------------------------------------------------------
(* A step that changes neither versions nor calls: a client moves from one *)
(* stage to the next, taking or dropping the lock by the rules, and settles *)
(* at most an answer that wins nothing.                                    *)
LEMMA QuietStep ==
  ASSUME WinnerInv, TypeOK', StagesFit',
         NEW c \in Clients, NEW s \in Stages, NEW x \in Answer,
         stage' = [stage EXCEPT ![c] = s],
         answer' = [answer EXCEPT ![c] = x],
         UNCHANGED <<sidecar, minted, call, token>>,
         \/ s \in {"idle", "wait", "flock"}
         \/ HoldsFileLock(c)
         \/ LockIsFree(c),
         s \in Pending => stage[c] \in Pending,
         (s \in Passed /\ call[c].op = "cas") \/ s = "unlinkSidecar"
           => \/ stage[c] \in Passed /\ call[c].op = "cas"
              \/ stage[c] = "check" /\ sidecar[key(c)] = call[c].expected,
         x.kind = "ok" => x = answer[c] \/ call[c].op \notin {"cas", "delete"}
  PROVE  WinnerInv'
  <1> USE DEF WinnerInv
  <1>1. \A d \in Clients : /\ d # c => stage'[d] = stage[d] /\ answer'[d] = answer[d]
                           /\ d = c => stage'[d] = s /\ answer'[d] = x
    BY DEF TypeOK
  <1>2. \A d \in Clients : Won(d)' => Won(d)
    BY <1>1 DEF Won
  <1>3. WritersAlone'
    BY <1>1 DEF WritersAlone, HoldsFileLock, Exclusive, LockIsFree
  <1>4. TokensDrawn'
    BY DEF TokensDrawn
  <1>5. PendingIsNew'
    BY <1>1, <1>2 DEF PendingIsNew, Pending, Passed
  <1>6. WonIsSpent'
    BY <1>2 DEF WonIsSpent
  <1>7. OneWinnerPerVersion'
    BY <1>2 DEF OneWinnerPerVersion
  <1>8. PassedAlone'
    <2> SUFFICES ASSUME NEW e \in Clients, NEW d \in Clients, e # d, Won(d)',
                        call[d].key = call[e].key,
                        \/ stage'[e] \in Passed /\ call[e].op = "cas"
                        \/ stage'[e] = "unlinkSidecar"
                 PROVE  call[e].expected = 0 \/ call[d].expected # call[e].expected
      BY DEF PassedAlone
    <2>1. Won(d)
      BY <1>2
    <2>2. CASE \/ stage[e] \in Passed /\ call[e].op = "cas"
               \/ stage[e] = "unlinkSidecar"
      BY <2>1, <2>2 DEF PassedAlone
    <2>3. CASE e = c /\ stage[c] = "check" /\ sidecar[key(c)] = call[c].expected
      BY <2>1, <2>3 DEF WonIsSpent, key
    <2>4. QED
      BY <1>1, <2>2, <2>3
  <1>9. QED
    BY <1>3, <1>4, <1>5, <1>6, <1>7, <1>8

(* Taking and dropping the locks. *)
LEMMA LockStep ==
  ASSUME WinnerInv, NEW c \in Clients,
         TakeThreadLock(c) \/ TakeFileLock(c) \/ Release(c)
  PROVE  WinnerInv'
  <1> USE DEF WinnerInv
  <1> DEFINE s == stage'[c]
  <1>0. FirstStage(call[c].op) \in Stages
    BY DEF FirstStage, Stages, SystemCalls
  <1>1. /\ s \in Stages /\ stage' = [stage EXCEPT ![c] = s]
        /\ \/ s \in {"flock", "idle"}
           \/ s = FirstStage(call[c].op) /\ stage[c] = "flock"
    <2>1. "flock" \in Stages /\ "idle" \in Stages
      BY DEF Stages, SystemCalls
    <2>2. CASE TakeThreadLock(c)
      BY <2>1, <2>2 DEF TypeOK, TakeThreadLock, Go
    <2>3. CASE TakeFileLock(c)
      BY <1>0, <2>3 DEF TypeOK, TakeFileLock, Go
    <2>4. CASE Release(c)
      BY <2>1, <2>4 DEF TypeOK, Release, Go
    <2>5. QED
      BY <2>2, <2>3, <2>4
  <1>2. /\ UNCHANGED <<disk, minted, local, answer, counters>>
        /\ answer' = [answer EXCEPT ![c] = answer[c]] /\ answer[c] \in Answer
    BY DEF TypeOK, TakeThreadLock, TakeFileLock, Release
  <1>3. TypeOK'
    BY <1>1, <1>2 DEF TypeOK, disk, local, counters, key, TakeThreadLock, TakeFileLock, Release
  <1>4. call[c].op \in Ops
    BY DEF TypeOK, Request
  <1>5. StagesFit'
    BY <1>1, <1>2, <1>4
       DEF StagesFit, FirstStage, Passed, Puts, Ops, local, TypeOK
  <1>6. s \in {"idle", "wait", "flock"} \/ LockIsFree(c)
    BY <1>1 DEF TakeThreadLock, TakeFileLock, Release, Go, TypeOK
  <1>7. /\ s \notin Pending
        /\ ~((s \in Passed /\ call[c].op = "cas") \/ s = "unlinkSidecar")
    BY <1>1 DEF FirstStage, Pending, Passed
  <1> HIDE DEF s
  <1>8. QED
    BY <1>1, <1>2, <1>3, <1>5, <1>6, <1>7, QuietStep DEF disk, local

(* get and list_page. *)
LEMMA ReadStep ==
  ASSUME WinnerInv, NEW c \in Clients,
         ReadSidecar(c) \/ ReadBody(c) \/ Collect(c) \/ ReadPage(c)
  PROVE  WinnerInv'
  <1> USE DEF WinnerInv
  <1> DEFINE s == stage'[c]
             x == answer'[c]
  <1>0. /\ stage[c] \in {"readSidecar", "readBody", "collect", "readPage"}
        /\ call[c].op \in {"get", "list"} /\ key(c) \in Keys /\ call[c] \in Request
    BY DEF ReadSidecar, ReadBody, Collect, ReadPage, StagesFit, TypeOK
  <1>1. /\ stage' = [stage EXCEPT ![c] = s]
        /\ s \in {"readBody", "readPage", "release"}
    BY DEF TypeOK, ReadSidecar, ReadBody, Collect, ReadPage, Go, Finish
  <1>2. UNCHANGED <<disk, minted, call, token, depth, shadowed, counters>>
    BY DEF ReadSidecar, ReadBody, Collect, ReadPage, local
  <1>3. /\ answer' = [answer EXCEPT ![c] = x] /\ x \in Answer
        /\ seen' \in [Clients -> Nat] /\ picked' \in [Clients -> SUBSET Keys]
    <2>1. CASE ReadSidecar(c)
      BY <1>0, <2>1, AnswerTypes DEF ReadSidecar, Finish, Settle, TypeOK, Kinds
    <2>2. CASE ReadBody(c)
      <3>1. Object(seen[c], body[key(c)]) \in Answer /\ Plain("unavailable") \in Answer
        BY <1>0, AnswerTypes DEF TypeOK, Kinds
      <3>2. QED
        BY <2>2, <3>1 DEF ReadBody, Finish, Settle, TypeOK, local
    <2>3. CASE Collect(c)
      <3>1. Selected(call[c], {k \in Keys : sidecar[k] # 0}) \in SUBSET Keys
        BY SelectedType
      <3>2. QED
        BY <2>3, <3>1 DEF Collect, TypeOK
    <2>4. CASE ReadPage(c)
      <3> DEFINE entries == {<<k, sidecar[k]>> : k \in picked[c]}
      <3>1. ~(\E k \in picked[c] : sidecar[k] \in {0, Foreign})
              => entries \in SUBSET (Keys \X Nat)
        BY DEF TypeOK
      <3>2. /\ ~(\E k \in picked[c] : sidecar[k] \in {0, Foreign}) => Page(entries) \in Answer
            /\ Plain("unavailable") \in Answer
        BY <3>1, AnswerTypes DEF Kinds
      <3>3. QED
        BY <2>4, <3>2 DEF ReadPage, Finish, Settle, TypeOK, local
    <2>5. QED
      BY <2>1, <2>2, <2>3, <2>4
  <1> HIDE DEF s, x
  <1>4. TypeOK'
    BY <1>0, <1>1, <1>2, <1>3 DEF TypeOK, Stages, SystemCalls, disk, counters, key
  <1>5. StagesFit'
    BY <1>0, <1>1, <1>2 DEF StagesFit, Passed, TypeOK
  <1>6. HoldsFileLock(c)
    BY <1>0 DEF HoldsFileLock
  <1>7. s \notin Pending /\ s \notin Passed /\ s # "unlinkSidecar" /\ s \in Stages
    BY <1>1 DEF Pending, Passed, Stages, SystemCalls
  <1>8. QED
    BY <1>0, <1>1, <1>2, <1>3, <1>4, <1>5, <1>6, <1>7, QuietStep DEF disk

(* put_if_version and delete_if_version compare versions. *)
LEMMA CheckStep ==
  ASSUME WinnerInv, NEW c \in Clients, Check(c)
  PROVE  WinnerInv'
  <1> USE DEF WinnerInv
  <1> DEFINE s == stage'[c]
             x == answer'[c]
  <1>0. /\ stage[c] = "check" /\ call[c].op \in {"cas", "delete"} /\ key(c) \in Keys
        /\ UNCHANGED <<disk, minted, local, counters>>
    BY DEF Check, StagesFit, TypeOK
  <1>1. \/ /\ stage' = [stage EXCEPT ![c] = "release"]
           /\ \/ answer' = [answer EXCEPT ![c] = Plain("unavailable")]
              \/ answer' = [answer EXCEPT ![c] = Plain("precondition")]
        \/ /\ sidecar[key(c)] = call[c].expected /\ answer' = answer
           /\ call[c].op = "cas" /\ stage' = [stage EXCEPT ![c] = "mkdir"]
        \/ /\ sidecar[key(c)] = call[c].expected /\ answer' = answer
           /\ call[c].op = "delete" /\ stage' = [stage EXCEPT ![c] = "unlinkSidecar"]
    BY <1>0 DEF Check, CheckFails, Finish, Settle, Go
  <1>2. /\ stage' = [stage EXCEPT ![c] = s] /\ answer' = [answer EXCEPT ![c] = x]
        /\ s \in {"release", "mkdir", "unlinkSidecar"}
        /\ x \in Answer /\ (x.kind = "ok" => x = answer[c])
    BY <1>1, AnswerTypes, AnswerKinds DEF TypeOK, Kinds
  <1>3. s \in Passed \/ s = "unlinkSidecar" => sidecar[key(c)] = call[c].expected
    BY <1>1 DEF Passed, TypeOK
  <1>4. StagesFit'
    BY <1>0, <1>1 DEF StagesFit, Passed, Puts, TypeOK, local
  <1> HIDE DEF s, x
  <1>5. TypeOK'
    BY <1>0, <1>2 DEF TypeOK, Stages, SystemCalls, disk, local, counters, key
  <1>6. HoldsFileLock(c)
    BY <1>0 DEF HoldsFileLock
  <1>7. s \notin Pending /\ s \in Stages
    BY <1>2 DEF Pending, Passed, Stages, SystemCalls
  <1>8. QED
    BY <1>0, <1>2, <1>3, <1>4, <1>5, <1>6, <1>7, QuietStep DEF disk, local

(* The steps of a put, and of its cleaning up, that commit nothing.        *)
LEMMA WriteStep ==
  ASSUME WinnerInv, NEW c \in Clients,
         \/ TempBody(c) \/ TempSidecar(c) \/ ReplaceBody(c)
         \/ CleanBody(c) \/ CleanSidecar(c)
  PROVE  WinnerInv'
  <1> USE DEF WinnerInv
  <1> DEFINE s == stage'[c]
  <1>0. /\ stage[c] \in (Pending \ {"replaceSidecar"}) \union {"cleanBody", "cleanSidecar"}
        /\ call[c].op \in Puts /\ key(c) \in Keys
    BY DEF TempBody, TempSidecar, ReplaceBody, CleanBody, CleanSidecar, StagesFit,
           TypeOK, Pending, Passed
  <1>1. /\ stage' = [stage EXCEPT ![c] = s]
        /\ \/ s \in Pending /\ stage[c] \in Pending
           \/ s \in {"cleanSidecar", "release"}
    BY DEF TempBody, TempSidecar, ReplaceBody, CleanBody, CleanSidecar, WriteTemp, Go,
           TypeOK, Pending, Passed
  <1>2. /\ UNCHANGED <<sidecar, dirs, minted, call, token, seen, picked, depth, answer, counters>>
        /\ answer' = [answer EXCEPT ![c] = answer[c]] /\ answer[c] \in Answer
    BY DEF TempBody, TempSidecar, ReplaceBody, CleanBody, CleanSidecar, WriteTemp, local, TypeOK
  <1>3. /\ temps' \subseteq Temporary
        /\ body' \in [Keys -> Nat \union {Foreign}]
        /\ shadowed' \in [Clients -> Nat \union {Foreign}]
    <2>1. Temp(c, "body") \in Temporary /\ Temp(c, "sidecar") \in Temporary
      BY <1>0 DEF Temp, Temporary, TypeOK
    <2>2. CASE ReplaceBody(c)
      BY <1>0, <2>2 DEF ReplaceBody, TypeOK
    <2>3. CASE TempBody(c) \/ TempSidecar(c) \/ CleanBody(c) \/ CleanSidecar(c)
      BY <2>1, <2>3 DEF TempBody, TempSidecar, CleanBody, CleanSidecar, WriteTemp,
                        TypeOK, local
    <2>4. QED
      BY <2>2, <2>3
  <1> HIDE DEF s
  <1>4. s \in Stages
    BY <1>1 DEF Stages, SystemCalls, Pending, Passed
  <1>5. TypeOK'
    BY <1>0, <1>1, <1>2, <1>3, <1>4 DEF TypeOK, counters, key
  <1>6. StagesFit'
    BY <1>0, <1>1, <1>2 DEF StagesFit, Pending, Passed, TypeOK
  <1>7. HoldsFileLock(c)
    BY <1>0 DEF HoldsFileLock, Pending, Passed
  <1>8. /\ (s \in Passed /\ call[c].op = "cas") \/ s = "unlinkSidecar"
             => stage[c] \in Passed /\ call[c].op = "cas"
        /\ s \in Pending => stage[c] \in Pending
    BY <1>0, <1>1 DEF Pending, Passed
  <1>9. QED
    BY <1>1, <1>2, <1>4, <1>5, <1>6, <1>7, <1>8, QuietStep

(* The steps of a delete after its commit. *)
LEMMA CleanupStep ==
  ASSUME WinnerInv, NEW c \in Clients, UnlinkBody(c) \/ Prune(c)
  PROVE  WinnerInv'
  <1> USE DEF WinnerInv
  <1> DEFINE s == stage'[c]
  <1>0. /\ stage[c] \in {"unlinkBody", "prune"}
        /\ call[c].op = "delete" /\ key(c) \in Keys
    BY DEF UnlinkBody, Prune, StagesFit, TypeOK
  <1>1. /\ stage' = [stage EXCEPT ![c] = s] /\ s \in {"prune", "release"}
    BY DEF UnlinkBody, Prune, Go, TypeOK
  <1>2. /\ UNCHANGED <<sidecar, temps, minted, call, token, seen, picked, shadowed, answer, counters>>
        /\ answer' = [answer EXCEPT ![c] = answer[c]] /\ answer[c] \in Answer
    BY DEF UnlinkBody, Prune, TypeOK
  <1>3. /\ dirs' \subseteq Dirs
        /\ body' \in [Keys -> Nat \union {Foreign}]
        /\ depth' \in [Clients -> Nat]
    <2>1. Len(Trail[key(c)]) \in Nat
      BY <1>0, FilesystemAssumption
    <2>2. CASE UnlinkBody(c)
      BY <1>0, <2>1, <2>2 DEF UnlinkBody, TypeOK
    <2>3. CASE Prune(c)
      BY <2>3 DEF Prune, TypeOK
    <2>4. QED
      BY <2>2, <2>3
  <1> HIDE DEF s
  <1>4. TypeOK'
    BY <1>0, <1>1, <1>2, <1>3 DEF TypeOK, Stages, SystemCalls, counters, key
  <1>5. StagesFit'
    BY <1>0, <1>1, <1>2 DEF StagesFit, Passed, TypeOK
  <1>6. HoldsFileLock(c)
    BY <1>0 DEF HoldsFileLock
  <1>7. s \notin Passed /\ s \notin Pending /\ s # "unlinkSidecar" /\ s \in Stages
    BY <1>1 DEF Passed, Pending, Stages, SystemCalls
  <1>8. QED
    BY <1>1, <1>2, <1>4, <1>5, <1>6, <1>7, QuietStep

(* A system call fails. *)
LEMMA FailStep ==
  ASSUME WinnerInv, NEW c \in Clients, Fail(c)
  PROVE  WinnerInv'
  <1> USE DEF WinnerInv
  <1> DEFINE s == stage'[c]
             x == answer'[c]
  <1>0. stage[c] \in SystemCalls
    BY FilesystemAssumption DEF Fail
  <1>1. /\ stage' = [stage EXCEPT ![c] = s]
        /\ \/ s = "idle"
           \/ s = "release" /\ stage[c] \notin {"flock", "release"}
           \/ s = "cleanBody" /\ stage[c] \in {"tempSidecar", "replaceBody", "replaceSidecar"}
    BY DEF Fail, Go, TypeOK
  <1>2. /\ answer' = [answer EXCEPT ![c] = x] /\ x \in Answer
        /\ x.kind = "ok" => x = answer[c]
    BY AnswerTypes, AnswerKinds DEF Fail, Settle, TypeOK, Kinds
  <1>3. UNCHANGED <<body, sidecar, minted, local, begun, crashes, tampers>>
    BY DEF Fail
  <1>4. temps' \subseteq Temporary /\ dirs' \subseteq Dirs /\ failures' \in Nat
    <2>1. stage[c] # "idle" => Temp(c, "partial") \in Temporary
      BY DEF Temp, Temporary, TypeOK
    <2>2. ASSUME stage[c] = "mkdir", NEW i \in DOMAIN Trail[key(c)]
          PROVE  {Trail[key(c)][j] : j \in 1..(i - 1)} \subseteq Dirs
      <3>1. key(c) \in Keys /\ Trail[key(c)] \in Seq(Dirs)
        BY <2>2, FilesystemAssumption DEF TypeOK
      <3>2. QED
        BY <2>2, <3>1
    <2>3. QED
      BY <2>1, <2>2 DEF Fail, TypeOK
  <1> HIDE DEF s, x
  <1>5. s \in Stages
    BY <1>1 DEF Stages, SystemCalls
  <1>6. TypeOK'
    BY <1>0, <1>1, <1>2, <1>3, <1>4, <1>5 DEF TypeOK, local, key, SystemCalls
  <1>7. StagesFit'
    BY <1>1, <1>3 DEF StagesFit, Passed, TypeOK, local
  <1>8. s = "idle" \/ HoldsFileLock(c)
    BY <1>0, <1>1 DEF HoldsFileLock, SystemCalls
  <1>9. s \notin Passed /\ s \notin Pending /\ s # "unlinkSidecar"
    BY <1>1 DEF Passed, Pending
  <1>10. QED
    BY <1>1, <1>2, <1>3, <1>5, <1>6, <1>7, <1>8, <1>9, QuietStep DEF local

-----------------------------------------------------------------------------
(* The steps that begin or end calls, draw a token, or change a version.   *)

LEMMA BeginStep ==
  ASSUME WinnerInv, NEW c \in Clients, Begin(c)
  PROVE  WinnerInv'
  <1> USE DEF WinnerInv
  <1>1. PICK r \in Calls, v \in 0..minted :
          /\ call' = [call EXCEPT ![c] = [r EXCEPT !.expected = v]]
          /\ IF r.key = BadKey
             THEN Settle(c, Refused(r)) /\ UNCHANGED stage
             ELSE Settle(c, Plain("none")) /\ Go(c, "wait")
    BY DEF Begin
  <1>2. /\ UNCHANGED <<disk, minted, failures, crashes, tampers>>
        /\ begun' \in Nat
        /\ token' = [token EXCEPT ![c] = 0] /\ seen' = [seen EXCEPT ![c] = 0]
        /\ picked' = [picked EXCEPT ![c] = {}] /\ depth' = [depth EXCEPT ![c] = 0]
        /\ shadowed' = [shadowed EXCEPT ![c] = 0]
        /\ stage[c] = "idle"
    BY DEF Begin, TypeOK
  <1>3. /\ r \in Request /\ v \in Nat /\ v <= minted
        /\ [r EXCEPT !.expected = v] \in Request
        /\ [r EXCEPT !.expected = v].expected = v
        /\ [r EXCEPT !.expected = v].key = r.key
        /\ [r EXCEPT !.expected = v].op = r.op
    BY StorageAssumption DEF TypeOK, Request
  <1>4. call'[c] \in Request /\ call'[c].expected = v /\ call'[c].key = r.key /\ call'[c].op = r.op
    BY <1>1, <1>3 DEF TypeOK
  <1>5. \A d \in Clients : d # c => /\ call'[d] = call[d] /\ stage'[d] = stage[d]
                                    /\ answer'[d] = answer[d] /\ token'[d] = token[d]
    BY <1>1, <1>2 DEF TypeOK, Settle, Go
  <1>6. /\ stage'[c] \in {"idle", "wait"}
        /\ stage'[c] = "wait" => r.key \in Keys
        /\ answer'[c].kind = "ok" => call'[c].op = "list"
    BY <1>1, <1>2, <1>3, <1>4, AnswerKinds DEF TypeOK, Settle, Go, Request
  <1>7. TypeOK'
    <2>1. Refused(r) \in Answer /\ Plain("none") \in Answer
      BY <1>3, AnswerTypes DEF Kinds
    <2>2. answer' \in [Clients -> Answer] /\ stage' \in [Clients -> Stages]
      BY <1>1, <2>1 DEF TypeOK, Settle, Go, Stages
    <2>3. call' \in [Clients -> Request]
      BY <1>1, <1>3 DEF TypeOK
    <2>4. \A d \in Clients : stage'[d] # "idle" => call'[d].key \in Keys
      BY <1>4, <1>5, <1>6 DEF TypeOK, key
    <2>5. QED
      BY <1>2, <2>2, <2>3, <2>4 DEF TypeOK, disk, key
  <1>8. \A d \in Clients : Won(d)' => d # c /\ Won(d)
    BY <1>5, <1>6 DEF Won
  <1>9. WritersAlone' /\ StagesFit'
    BY <1>5, <1>6 DEF WritersAlone, StagesFit, HoldsFileLock, Exclusive, Passed
  <1>10. TokensDrawn'
    BY <1>2, <1>3, <1>4, <1>5 DEF TokensDrawn, TypeOK, disk
  <1>11. PendingIsNew'
    BY <1>2, <1>5, <1>6, <1>8 DEF PendingIsNew, disk, Pending, Passed
  <1>12. PassedAlone'
    BY <1>5, <1>6, <1>8 DEF PassedAlone, Passed
  <1>13. WonIsSpent' /\ OneWinnerPerVersion'
    BY <1>2, <1>5, <1>8 DEF WonIsSpent, OneWinnerPerVersion, disk
  <1>14. QED
    BY <1>7, <1>9, <1>10, <1>11, <1>12, <1>13

LEMMA CrashStep ==
  ASSUME WinnerInv, NEW p \in Processes, Crash(p)
  PROVE  WinnerInv'
  <1> USE DEF WinnerInv
  <1>1. /\ UNCHANGED <<disk, minted, local, begun, failures, tampers>>
        /\ crashes' \in Nat
    BY DEF Crash, TypeOK
  <1>2. \A d \in Clients : \/ stage'[d] = "idle" /\ answer'[d] = Plain("lost")
                           \/ stage'[d] = stage[d] /\ answer'[d] = answer[d]
    BY DEF Crash
  <1>3. stage' \in [Clients -> Stages] /\ answer' \in [Clients -> Answer]
    <2>1. Plain("lost") \in Answer /\ "idle" \in Stages
      BY AnswerTypes DEF Kinds, Stages
    <2>2. QED
      BY <2>1 DEF Crash, TypeOK
  <1>4. TypeOK'
    BY <1>1, <1>2, <1>3 DEF TypeOK, disk, local, key
  <1>5. \A d \in Clients : Won(d)' => Won(d)
    BY <1>1, <1>2, AnswerKinds DEF Won, local
  <1>6. WritersAlone' /\ StagesFit'
    BY <1>1, <1>2 DEF WritersAlone, StagesFit, HoldsFileLock, Exclusive, Passed, local
  <1>7. TokensDrawn' /\ PendingIsNew' /\ PassedAlone'
    BY <1>1, <1>2, <1>5 DEF TokensDrawn, PendingIsNew, PassedAlone, Pending, Passed, disk, local
  <1>8. WonIsSpent' /\ OneWinnerPerVersion'
    BY <1>1, <1>5 DEF WonIsSpent, OneWinnerPerVersion, disk, local
  <1>9. QED
    BY <1>4, <1>6, <1>7, <1>8

LEMMA TamperStep ==
  ASSUME WinnerInv, Tamper
  PROVE  WinnerInv'
  <1> USE DEF WinnerInv
  <1>1. /\ UNCHANGED <<temps, dirs, minted, stage, local, answer, begun, failures, crashes>>
        /\ tampers' \in Nat
        /\ body' \in [Keys -> Nat \union {Foreign}]
        /\ sidecar' \in [Keys -> Nat \union {Foreign}]
        /\ \A k \in Keys : sidecar'[k] \in {sidecar[k], 0, Foreign}
    BY DEF Tamper, TypeOK
  <1>2. TypeOK'
    BY <1>1 DEF TypeOK, local, key
  <1>3. WritersAlone' /\ StagesFit' /\ PassedAlone' /\ OneWinnerPerVersion'
    BY <1>1 DEF WritersAlone, StagesFit, HoldsFileLock, Exclusive, PassedAlone,
                OneWinnerPerVersion, Won, local
  <1>4. TokensDrawn'
    BY <1>1 DEF TokensDrawn, local, TypeOK
  <1>5. PendingIsNew'
    BY <1>1, StorageAssumption DEF PendingIsNew, Won, local, TypeOK
  <1>6. WonIsSpent'
    <2>1. \A c \in Clients : call[c].expected \in Nat
      BY DEF TypeOK, Request
    <2>2. UNCHANGED <<call, answer>>
      BY <1>1 DEF local
    <2>3. QED
      BY <1>1, <2>1, <2>2, StorageAssumption DEF WonIsSpent, Won
  <1>7. QED
    BY <1>2, <1>3, <1>4, <1>5, <1>6

LEMMA MkdirStep ==
  ASSUME WinnerInv, NEW c \in Clients, Mkdir(c)
  PROVE  WinnerInv'
  <1> USE DEF WinnerInv
  <1>1. /\ minted' = minted + 1 /\ minted \in Nat
        /\ token' = [token EXCEPT ![c] = minted + 1]
        /\ stage[c] = "mkdir" /\ stage' = [stage EXCEPT ![c] = "tempBody"]
        /\ UNCHANGED <<body, sidecar, temps, call, seen, picked, depth, shadowed, answer, counters>>
    BY DEF Mkdir, Go, TypeOK
  <1>2. key(c) \in Keys /\ call[c].op \in Puts
    BY <1>1 DEF TypeOK, StagesFit, Passed
  <1>3. TypeOK'
    <2>1. Elements(Trail[key(c)]) \subseteq Dirs
      BY <1>2, FilesystemAssumption DEF Elements
    <2>2. QED
      BY <1>1, <1>2, <2>1 DEF Mkdir, TypeOK, Stages, SystemCalls, key, counters
  <1>4. \A d \in Clients : /\ Won(d)' <=> Won(d)
                           /\ d # c => stage'[d] = stage[d] /\ token'[d] = token[d]
                           /\ d = c => stage'[d] = "tempBody" /\ token'[d] = minted + 1
                           /\ call[d].expected \in Nat /\ call[d].expected <= minted
    BY <1>1 DEF Won, TypeOK, TokensDrawn, Request
  <1>5. WritersAlone' /\ StagesFit'
    BY <1>1, <1>2, <1>4 DEF WritersAlone, StagesFit, HoldsFileLock, Exclusive, Passed
  <1>6. TokensDrawn'
    BY <1>1, <1>4 DEF TokensDrawn, TypeOK
  <1>7. PendingIsNew'
    <2>1. \A k \in Keys : sidecar[k] # minted + 1
      BY <1>1, StorageAssumption DEF TokensDrawn, TypeOK
    <2>2. QED
      BY <1>1, <1>4, <2>1 DEF PendingIsNew, Pending, Passed
  <1>8. PassedAlone'
    BY <1>1, <1>4 DEF PassedAlone, Passed
  <1>9. WonIsSpent' /\ OneWinnerPerVersion'
    BY <1>1, <1>4 DEF WonIsSpent, OneWinnerPerVersion
  <1>10. QED
    BY <1>3, <1>5, <1>6, <1>7, <1>8, <1>9

(* The two commit points: a client that holds the lock alone puts a new    *)
(* version, or none, in the place of the one its check saw.                *)
LEMMA CommitStep ==
  ASSUME WinnerInv, NEW c \in Clients, ReplaceSidecar(c) \/ UnlinkSidecar(c)
  PROVE  WinnerInv'
  <1> USE DEF WinnerInv
  <1> DEFINE v == IF stage[c] = "replaceSidecar" THEN token[c] ELSE 0
             s == stage'[c]
             x == answer'[c]
  <1>1. /\ stage[c] \in {"replaceSidecar", "unlinkSidecar"} /\ key(c) \in Keys
        /\ Exclusive(c) /\ HoldsFileLock(c)
        /\ UNCHANGED <<body, dirs, minted, local, counters>>
    BY DEF ReplaceSidecar, UnlinkSidecar, TypeOK, StagesFit, Passed, Exclusive, Writes,
           HoldsFileLock
  <1>2. /\ v \in Nat /\ v <= minted /\ sidecar' = [sidecar EXCEPT ![key(c)] = v]
        /\ call[c].expected # 0 => v # call[c].expected
    <2>1. CASE ReplaceSidecar(c)
      BY <2>1 DEF ReplaceSidecar, TypeOK, TokensDrawn, PendingIsNew, Pending, Passed
    <2>2. CASE UnlinkSidecar(c)
      BY <2>2 DEF UnlinkSidecar, TypeOK
    <2>3. QED
      BY <2>1, <2>2
  <1>3. /\ stage' = [stage EXCEPT ![c] = s] /\ answer' = [answer EXCEPT ![c] = x]
        /\ \/ s = "release"
           \/ s = "unlinkBody" /\ stage[c] = "unlinkSidecar"
        /\ x \in Answer
        /\ temps' \subseteq Temporary
    <2>1. Committed(token[c]) \in Answer /\ Plain("ok") \in Answer /\ Plain("unavailable") \in Answer
      BY AnswerTypes DEF TypeOK, Kinds
    <2>2. CASE ReplaceSidecar(c)
      BY <2>1, <2>2 DEF ReplaceSidecar, Finish, Settle, Go, TypeOK
    <2>3. CASE UnlinkSidecar(c)
      BY <2>1, <2>3 DEF UnlinkSidecar, Finish, Settle, Go, TypeOK
    <2>4. QED
      BY <2>2, <2>3
  <1> HIDE DEF v, s, x
  <1>4. TypeOK'
    BY <1>1, <1>2, <1>3 DEF TypeOK, Stages, SystemCalls, local, counters, key
  <1>5. \A d \in Clients \ {c} : /\ stage'[d] = stage[d] /\ answer'[d] = answer[d]
                                 /\ Won(d)' = Won(d) /\ ~HoldsFileLock(d)
    BY <1>1, <1>3 DEF TypeOK, Won, local, WritersAlone
  <1>6. WritersAlone' /\ StagesFit'
    BY <1>1, <1>3, <1>5 DEF WritersAlone, StagesFit, HoldsFileLock, Exclusive, Passed, local, TypeOK
  <1>7. TokensDrawn'
    BY <1>1, <1>2 DEF TokensDrawn, local, TypeOK
  <1>8. \A d \in Clients : stage'[d] \notin Passed /\ stage'[d] # "unlinkSidecar"
    BY <1>3, <1>5 DEF HoldsFileLock, Passed, TypeOK
  <1>9. PendingIsNew' /\ PassedAlone'
    BY <1>8 DEF PendingIsNew, PassedAlone, Pending
  <1>10. \A d \in Clients \ {c} : Won(d) /\ call[d].expected # 0 /\ call[d].key = key(c)
           => call[d].expected # v
    <2>1. CASE ReplaceSidecar(c)
      BY <2>1 DEF ReplaceSidecar, PendingIsNew, Pending, Passed, v
    <2>2. CASE UnlinkSidecar(c)
      BY <2>2 DEF UnlinkSidecar, v
    <2>3. QED
      BY <2>1, <2>2
  <1>11. WonIsSpent'
    BY <1>1, <1>2, <1>5, <1>10 DEF WonIsSpent, local, key, TypeOK
  <1>12. ASSUME NEW d \in Clients \ {c}, Won(c)', Won(d), call[d].key = call[c].key
         PROVE  call[c].expected = 0 \/ call[d].expected # call[c].expected
    <2>1. \/ stage[c] \in Passed /\ call[c].op = "cas"
          \/ stage[c] = "unlinkSidecar"
      BY <1>1, <1>12 DEF Won, Passed, local, StagesFit, Puts
    <2>2. QED
      BY <1>12, <2>1 DEF PassedAlone
  <1>13. OneWinnerPerVersion'
    BY <1>1, <1>5, <1>12 DEF OneWinnerPerVersion, local
  <1>14. QED
    BY <1>4, <1>6, <1>7, <1>9, <1>11, <1>13

-----------------------------------------------------------------------------
LEMMA InitWinnerInv == Init => WinnerInv
  <1> SUFFICES ASSUME Init PROVE WinnerInv
    OBVIOUS
  <1>1. TypeOK
    BY NoCallType, AnswerTypes DEF Init, TypeOK, Stages, Kinds
  <1>2. \A c \in Clients : stage[c] = "idle" /\ ~Won(c) /\ call[c] = NoCall
    BY DEF Init, Won, NoCall
  <1>3. TokensDrawn
    BY DEF Init, TokensDrawn, NoCall
  <1>4. QED
    BY <1>1, <1>2, <1>3
       DEF WinnerInv, WritersAlone, StagesFit, PendingIsNew, PassedAlone, WonIsSpent,
           OneWinnerPerVersion, HoldsFileLock, Passed, Pending

LEMMA NextWinnerInv == WinnerInv /\ [Next]_vars => WinnerInv'
  <1> SUFFICES ASSUME WinnerInv, [Next]_vars PROVE WinnerInv'
    OBVIOUS
  <1>1. ASSUME NEW c \in Clients, Begin(c) \/ Step(c) \/ Fail(c) PROVE WinnerInv'
    BY <1>1, BeginStep, LockStep, ReadStep, CheckStep, MkdirStep, WriteStep, CommitStep,
       CleanupStep, FailStep DEF Step
  <1>2. ASSUME NEW p \in Processes, Crash(p) PROVE WinnerInv'
    BY <1>2, CrashStep
  <1>3. CASE Tamper
    BY <1>3, TamperStep
  <1>4. CASE UNCHANGED vars
    BY <1>4
       DEF vars, disk, local, counters, WinnerInv, TypeOK, WritersAlone, StagesFit,
           TokensDrawn, PendingIsNew, PassedAlone, WonIsSpent, OneWinnerPerVersion,
           HoldsFileLock, Exclusive, Won, key
  <1>5. QED
    BY <1>1, <1>2, <1>3, <1>4 DEF Next

LEMMA AlwaysWinnerInv == Spec => []WinnerInv
  BY InitWinnerInv, NextWinnerInv, PTL DEF Spec

(* The stages, answers, tokens and files of every thread keep their types  *)
(* and shapes (filesystem.py), whatever fails, crashes or is edited.       *)
THEOREM TypesKept == Spec => []TypeOK
  <1>1. WinnerInv => TypeOK
    BY DEF WinnerInv
  <1>2. QED
    BY <1>1, AlwaysWinnerInv, PTL

(* Of the conditional writes and deletes that name one version of an       *)
(* object at most one succeeds: put_if_version and delete_if_version,      *)
(* whatever the threads and processes, crashes, failures and tampering.    *)
THEOREM OneWinner == Spec => []OneWinnerPerVersion
  <1>1. WinnerInv => OneWinnerPerVersion
    BY DEF WinnerInv
  <1>2. QED
    BY <1>1, AlwaysWinnerInv, PTL

-----------------------------------------------------------------------------
(* Bodies.  The lock keeps every other writer away between the two         *)
(* replaces of a put and between the two unlinks of a delete.              *)
LEMMA NextBodyInv ==
  ASSUME "removeBody" \notin TamperKinds, WinnerInv, WinnerInv',
         BodyComesFirst, SidecarHasBody, [Next]_vars
  PROVE  BodyComesFirst' /\ SidecarHasBody'
  <1> USE DEF BodyComesFirst, SidecarHasBody
  <1>1. ASSUME NEW c \in Clients,
               \/ TakeThreadLock(c) \/ TakeFileLock(c) \/ Release(c) \/ Begin(c)
               \/ ReadSidecar(c) \/ ReadBody(c) \/ Collect(c) \/ ReadPage(c)
               \/ Check(c) \/ Mkdir(c) \/ TempBody(c) \/ TempSidecar(c)
               \/ CleanBody(c) \/ CleanSidecar(c) \/ Prune(c) \/ Fail(c)
        PROVE  BodyComesFirst' /\ SidecarHasBody'
    <2>1. UNCHANGED <<body, sidecar>>
      BY <1>1
         DEF TakeThreadLock, TakeFileLock, Release, Begin, ReadSidecar, ReadBody, Collect,
             ReadPage, Check, Mkdir, TempBody, TempSidecar, CleanBody, CleanSidecar, Prune,
             Fail, WriteTemp, disk
    <2>2. \A d \in Clients : stage'[d] \in {"replaceSidecar", "unlinkBody"}
                               => stage'[d] = stage[d] /\ key(d)' = key(d)
      BY <1>1
         DEF TakeThreadLock, TakeFileLock, Release, Begin, ReadSidecar, ReadBody, Collect,
             ReadPage, Check, Mkdir, TempBody, TempSidecar, CleanBody, CleanSidecar, Prune,
             Fail, WriteTemp, Go, Finish, FirstStage, local, key, WinnerInv, TypeOK
    <2>3. QED
      BY <2>1, <2>2
  <1>2. ASSUME NEW c \in Clients,
               \/ ReplaceBody(c) \/ ReplaceSidecar(c)
               \/ UnlinkSidecar(c) \/ UnlinkBody(c)
        PROVE  BodyComesFirst' /\ SidecarHasBody'
    <2> DEFINE atWork == {"replaceBody", "replaceSidecar", "unlinkSidecar", "unlinkBody"}
    <2>1. /\ stage[c] \in atWork /\ key(c) \in Keys /\ call' = call
          /\ HoldsFileLock(c) /\ Exclusive(c)
      BY <1>2
         DEF ReplaceBody, ReplaceSidecar, UnlinkSidecar, UnlinkBody, local, HoldsFileLock,
             Exclusive, Writes, WinnerInv, TypeOK, StagesFit, Passed
    <2>2. \A d \in Clients \ {c} : stage'[d] = stage[d] /\ ~HoldsFileLock(d)
      BY <1>2, <2>1
         DEF ReplaceBody, ReplaceSidecar, UnlinkSidecar, UnlinkBody, Finish, Go, WinnerInv,
             TypeOK, WritersAlone
    <2>3. \A d \in Clients \ {c} : stage'[d] \notin atWork
      BY <2>2 DEF HoldsFileLock
    <2>4. CASE ReplaceBody(c)
      <3>1. token[c] # 0 /\ UNCHANGED sidecar /\ body' = [body EXCEPT ![key(c)] = token[c]]
        BY <2>4 DEF ReplaceBody, WinnerInv, PendingIsNew, Pending, Passed
      <3>2. stage'[c] = "replaceSidecar"
        BY <2>4 DEF ReplaceBody, Go, WinnerInv, TypeOK
      <3>3. QED
        BY <2>1, <2>3, <3>1, <3>2 DEF key, WinnerInv, TypeOK
    <2>5. CASE ReplaceSidecar(c)
      <3>1. /\ stage'[c] = "release" /\ UNCHANGED body /\ body[key(c)] # 0
            /\ sidecar' = [sidecar EXCEPT ![key(c)] = token[c]]
        BY <2>5 DEF ReplaceSidecar, Finish, Go, WinnerInv, TypeOK
      <3>2. QED
        BY <2>1, <2>3, <3>1 DEF WinnerInv, TypeOK
    <2>6. CASE UnlinkSidecar(c)
      <3>1. /\ sidecar' = [sidecar EXCEPT ![key(c)] = 0] /\ UNCHANGED body
            /\ stage'[c] \in {"release", "unlinkBody"}
        BY <2>1, <2>6 DEF UnlinkSidecar, Finish, Go, WinnerInv, TypeOK
      <3>2. QED
        BY <2>1, <2>3, <3>1 DEF key, WinnerInv, TypeOK
    <2>7. CASE UnlinkBody(c)
      <3>1. /\ stage'[c] = "prune" /\ UNCHANGED sidecar /\ sidecar[key(c)] = 0
            /\ body' = [body EXCEPT ![key(c)] = 0]
        BY <2>7 DEF UnlinkBody, Go, WinnerInv, TypeOK
      <3>2. QED
        BY <2>1, <2>3, <3>1 DEF WinnerInv, TypeOK
    <2>8. QED
      BY <1>2, <2>4, <2>5, <2>6, <2>7
  <1>3. ASSUME NEW p \in Processes, Crash(p)
        PROVE  BodyComesFirst' /\ SidecarHasBody'
    BY <1>3 DEF Crash, disk, local, key
  <1>4. CASE Tamper
    <2>1. UNCHANGED <<stage, call>>
      BY <1>4 DEF Tamper, local
    <2>2. \A k \in Keys : /\ body[k] # 0 => body'[k] # 0
                          /\ sidecar[k] = 0 => sidecar'[k] = 0
      <3>1. Foreign # 0 /\ body \in [Keys -> Nat \union {Foreign}]
            /\ sidecar \in [Keys -> Nat \union {Foreign}]
        BY StorageAssumption DEF WinnerInv, TypeOK
      <3>2. PICK k \in Keys :
              \/ body' = [body EXCEPT ![k] = Foreign] /\ UNCHANGED sidecar
              \/ /\ sidecar[k] # 0 /\ UNCHANGED body
                 /\ \/ sidecar' = [sidecar EXCEPT ![k] = Foreign]
                    \/ sidecar' = [sidecar EXCEPT ![k] = 0]
        BY <1>4 DEF Tamper
      <3>3. QED
        BY <3>1, <3>2
    <2>3. \A c \in Clients : stage[c] # "idle" => key(c) \in Keys
      BY DEF WinnerInv, TypeOK
    <2>4. QED
      BY <2>1, <2>2, <2>3 DEF key
  <1>5. CASE UNCHANGED vars
    BY <1>5 DEF vars, disk, local, key
  <1>6. QED
    BY <1>1, <1>2, <1>3, <1>4, <1>5 DEF Next, Step

LEMMA InitBodyInv == Init => BodyComesFirst /\ SidecarHasBody
  BY DEF Init, BodyComesFirst, SidecarHasBody

(* An object that exists has its body: unless something else removes body  *)
(* files, no crash and no failing system call at any point of put,         *)
(* put_if_version and delete_if_version leaves a sidecar alone.            *)
THEOREM ObjectsAreWhole ==
  ASSUME "removeBody" \notin TamperKinds
  PROVE  Spec => []SidecarHasBody
  <1>1. Init => BodyInv
    BY InitWinnerInv, InitBodyInv DEF BodyInv
  <1>2. BodyInv /\ [Next]_vars => BodyInv'
    BY NextWinnerInv, NextBodyInv DEF BodyInv
  <1>3. BodyInv => SidecarHasBody
    BY DEF BodyInv
  <1>4. QED
    BY <1>1, <1>2, <1>3, PTL DEF Spec
=============================================================================
