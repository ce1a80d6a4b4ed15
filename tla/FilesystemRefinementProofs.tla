--------------------- MODULE FilesystemRefinementProofs ---------------------
(***************************************************************************)
(* FilesystemStorage implements AtomicStorage, for any number of keys,     *)
(* clients and processes, whatever system calls fail and processes die:    *)
(* every call takes effect at one step, where the object it is about is    *)
(* what the call says it was.                                              *)
(***************************************************************************)
EXTENDS FilesystemCallsProofs

-----------------------------------------------------------------------------
(* What a call has read is still so when it acts on it: it holds the lock. *)
StillSo(c) ==
  /\ stage[c] = "readBody" => seen[c] = sidecar[key(c)]
  /\ stage[c] = "readPage" => picked[c] = Selected(call[c], {k \in Keys : sidecar[k] # 0})
  /\ stage[c] \in Passed /\ call[c].op = "cas" => sidecar[key(c)] = call[c].expected
  /\ stage[c] = "unlinkSidecar" => sidecar[key(c)] = call[c].expected
  /\ stage[c] = "replaceSidecar" => body[key(c)] = token[c]
  /\ Sensible(call[c])

GroundedInv ==
  /\ \A k \in Keys : sidecar[k] # Foreign
  /\ \A c \in Clients : StillSo(c)

(* A step changes no object while another client holds the lock. *)
LEMMA HeldSteady ==
  ASSUME WinnerInv, NEW c \in Clients, Begin(c) \/ Step(c) \/ Fail(c),
         NEW d \in Clients \ {c}, HoldsFileLock(d)
  PROVE  UNCHANGED <<body, sidecar>>
  <1>1. ~(ReplaceBody(c) \/ ReplaceSidecar(c) \/ UnlinkSidecar(c) \/ UnlinkBody(c))
    BY StageMoves, Alone DEF WinnerInv, Passed
  <1>2. CASE \/ Begin(c) \/ Fail(c) \/ TakeThreadLock(c) \/ TakeFileLock(c) \/ Release(c)
             \/ ReadSidecar(c) \/ ReadBody(c) \/ Collect(c) \/ ReadPage(c) \/ Check(c)
    BY <1>2
       DEF Begin, Fail, TakeThreadLock, TakeFileLock, Release, ReadSidecar, ReadBody, Collect,
           ReadPage, Check, disk
  <1>3. CASE \/ Mkdir(c) \/ TempBody(c) \/ TempSidecar(c) \/ CleanBody(c) \/ CleanSidecar(c)
             \/ Prune(c)
    BY <1>3 DEF Mkdir, TempBody, TempSidecar, CleanBody, CleanSidecar, Prune, WriteTemp
  <1>4. QED
    BY <1>1, <1>2, <1>3 DEF Step

(* No client but a tamperer writes anything foreign. *)
LEMMA OnlyVersions ==
  ASSUME WinnerInv, GroundedInv, NEW c \in Clients, Begin(c) \/ Step(c) \/ Fail(c)
  PROVE  \A k \in Keys : sidecar'[k] # Foreign
  <1>1. CASE ReplaceSidecar(c) \/ UnlinkSidecar(c)
    BY <1>1, StorageAssumption
       DEF ReplaceSidecar, UnlinkSidecar, GroundedInv, WinnerInv, TypeOK
  <1>2. CASE ~(ReplaceSidecar(c) \/ UnlinkSidecar(c))
    <2>1. UNCHANGED sidecar
      <3>1. CASE \/ Begin(c) \/ Fail(c) \/ TakeThreadLock(c) \/ TakeFileLock(c) \/ Release(c)
                 \/ ReadSidecar(c) \/ ReadBody(c) \/ Collect(c) \/ ReadPage(c) \/ Check(c)
        BY <3>1
           DEF Begin, Fail, TakeThreadLock, TakeFileLock, Release, ReadSidecar, ReadBody,
               Collect, ReadPage, Check, disk
      <3>2. CASE \/ Mkdir(c) \/ TempBody(c) \/ TempSidecar(c) \/ ReplaceBody(c) \/ CleanBody(c)
                 \/ CleanSidecar(c) \/ UnlinkBody(c) \/ Prune(c)
        BY <3>2
           DEF Mkdir, TempBody, TempSidecar, ReplaceBody, CleanBody, CleanSidecar, UnlinkBody,
               Prune, WriteTemp
      <3>3. QED
        BY <1>2, <3>1, <3>2 DEF Step
    <2>2. QED
      BY <2>1 DEF GroundedInv
  <1>3. QED
    BY <1>1, <1>2

(* A call reads, and acts on, the objects as they are. *)
LEMMA OwnStillSo ==
  ASSUME WinnerInv, GroundedInv, NEW c \in Clients, Begin(c) \/ Step(c) \/ Fail(c)
  PROVE  StillSo(c)'
  <1>1. TypeOK /\ StillSo(c)
    BY DEF WinnerInv, GroundedInv
  <1>2. CASE Begin(c)
    <2>1. Sensible(call[c])'
      BY <1>2 DEF Begin, Sensible
    <2>2. QED
      BY <1>2, <2>1, BegunCall DEF StillSo, Passed
  <1>3. CASE Fail(c)
    <2>1. call' = call /\ stage'[c] \in {"idle", "release", "cleanBody"}
      BY <1>1, <1>3 DEF Fail, Go, local, TypeOK
    <2>2. QED
      BY <1>1, <2>1 DEF StillSo, Passed, Sensible
  <1>4. CASE ReadSidecar(c) \/ Collect(c)
    <2>1. /\ UNCHANGED <<call, sidecar>> /\ key(c)' = key(c)
          /\ stage'[c] \in {"release", "readBody", "readPage"}
          /\ stage'[c] = "readBody" => seen'[c] = sidecar[key(c)]
          /\ stage'[c] = "readPage" => picked'[c] = Selected(call[c], {k \in Keys : sidecar[k] # 0})
      BY <1>4, <1>1 DEF ReadSidecar, Collect, Finish, Go, disk, key, TypeOK
    <2>2. QED
      BY <1>1, <2>1 DEF StillSo, Passed, Sensible
  <1>5. CASE Check(c)
    <2>1. /\ UNCHANGED <<call, sidecar>> /\ key(c)' = key(c) /\ call[c].op \in {"cas", "delete"}
          /\ stage'[c] \in {"release", "mkdir", "unlinkSidecar"}
          /\ stage'[c] # "release" => sidecar[key(c)] = call[c].expected
      BY <1>1, <1>5
         DEF Check, CheckFails, Finish, Go, disk, local, key, TypeOK, WinnerInv, StagesFit
    <2>2. QED
      BY <1>1, <2>1 DEF StillSo, Passed, Sensible
  <1>6. CASE Mkdir(c) \/ TempBody(c) \/ TempSidecar(c)
    <2>1. /\ UNCHANGED <<call, sidecar>> /\ key(c)' = key(c)
          /\ stage[c] \in Passed /\ stage'[c] \in Passed \ {"replaceSidecar"}
      BY <1>1, <1>6, StageMoves DEF Mkdir, TempBody, TempSidecar, WriteTemp, local, key, Passed
    <2>2. QED
      BY <1>1, <2>1 DEF StillSo, Passed, Sensible
  <1>7. CASE ReplaceBody(c)
    <2>1. /\ UNCHANGED <<call, sidecar, token>> /\ key(c)' = key(c) /\ key(c) \in Keys
          /\ stage[c] = "replaceBody" /\ stage'[c] = "replaceSidecar"
          /\ body'[key(c)] = token[c]
      BY <1>1, <1>7, StageMoves DEF ReplaceBody, key, TypeOK
    <2>2. QED
      BY <1>1, <2>1 DEF StillSo, Passed, Sensible
  <1>8. CASE \/ TakeThreadLock(c) \/ TakeFileLock(c) \/ Release(c) \/ ReadBody(c) \/ ReadPage(c)
             \/ ReplaceSidecar(c) \/ CleanBody(c) \/ CleanSidecar(c)
             \/ UnlinkSidecar(c) \/ UnlinkBody(c) \/ Prune(c)
    <2>1. call' = call
      BY <1>8
         DEF TakeThreadLock, TakeFileLock, Release, ReadBody, ReadPage, ReplaceSidecar,
             CleanBody, CleanSidecar, UnlinkSidecar, UnlinkBody, Prune, local
    <2>2. \/ FirstStage(call[c].op) \in {"readSidecar", "collect", "check"}
          \/ FirstStage(call[c].op) = "mkdir" /\ call[c].op # "cas"
      BY DEF FirstStage
    <2>3. \/ stage'[c] \notin Passed \union {"readBody", "readPage", "unlinkSidecar"}
          \/ stage'[c] = "mkdir" /\ call[c].op # "cas"
      BY <1>1, <1>8, <2>2, StageMoves DEF Passed
    <2>4. QED
      BY <1>1, <2>1, <2>3 DEF StillSo, Passed, Sensible
  <1>9. QED
    BY <1>2, <1>3, <1>4, <1>5, <1>6, <1>7, <1>8 DEF Step

LEMMA NextGrounded ==
  ASSUME TamperKinds = {}, WinnerInv, GroundedInv, [Next]_vars
  PROVE  GroundedInv'
  <1>1. ASSUME NEW c \in Clients, Begin(c) \/ Step(c) \/ Fail(c) PROVE GroundedInv'
    <2>1. ASSUME NEW d \in Clients \ {c} PROVE StillSo(d)'
      <3>1. /\ stage'[d] = stage[d] /\ call'[d] = call[d] /\ key(d)' = key(d)
            /\ token'[d] = token[d] /\ seen'[d] = seen[d] /\ picked'[d] = picked[d]
        BY <1>1, CallFrame DEF WinnerInv, key
      <3>2. StillSo(d)
        BY DEF GroundedInv
      <3>3. CASE HoldsFileLock(d)
        BY <1>1, <3>1, <3>2, <3>3, HeldSteady DEF StillSo, Sensible
      <3>4. CASE ~HoldsFileLock(d)
        BY <3>1, <3>2, <3>4 DEF StillSo, Sensible, HoldsFileLock, Passed
      <3>5. QED
        BY <3>3, <3>4
    <2>2. QED
      BY <1>1, <2>1, OwnStillSo, OnlyVersions DEF GroundedInv
  <1>2. ASSUME NEW p \in Processes, Crash(p) PROVE GroundedInv'
    <2>1. /\ UNCHANGED <<body, sidecar, call, token, seen, picked>>
          /\ \A c \in Clients : stage'[c] \in {stage[c], "idle"} /\ key(c)' = key(c)
      BY <1>2 DEF Crash, disk, local, key
    <2>2. QED
      BY <2>1 DEF GroundedInv, StillSo, Passed, Sensible
  <1>3. CASE Tamper
    BY <1>3 DEF Tamper
  <1>4. CASE UNCHANGED vars
    BY <1>4 DEF vars, disk, local, GroundedInv, StillSo, Sensible, key
  <1>5. QED
    BY <1>1, <1>2, <1>3, <1>4 DEF Next

LEMMA InitGrounded == Init => GroundedInv
  BY StorageAssumption DEF Init, GroundedInv, StillSo, NoCall, Passed, Sensible

(* The invariant under which a step of the file system is one of the       *)
(* abstract storage.                                                       *)
WholeInv == WinnerInv /\ BodyComesFirst /\ SidecarHasBody /\ CallsFit /\ GroundedInv

LEMMA AlwaysWhole ==
  ASSUME TamperKinds = {}
  PROVE  Spec => []WholeInv
  <1>1. Init => WholeInv
    BY InitWinnerInv, InitBodyInv, InitCallsFit, InitGrounded DEF WholeInv
  <1>2. WholeInv /\ [Next]_vars => WholeInv'
    <2>1. WholeInv => WinnerInv /\ BodyComesFirst /\ SidecarHasBody /\ CallsFit /\ GroundedInv
      BY DEF WholeInv
    <2>2. QED
      BY <2>1, NextWinnerInv, NextBodyInv, NextCallsFit, NextGrounded DEF WholeInv
  <1>3. QED
    BY <1>1, <1>2, PTL DEF Spec

-----------------------------------------------------------------------------
(* The objects. *)

ObjectOf(v, b) == IF v = 0 THEN [version |-> 0, body |-> 0] ELSE [version |-> v, body |-> b]

(* The calls and answers of the abstract storage are the same. *)
LEMMA SameCalls ==
  /\ \A kind : Abstract!Plain(kind) = Plain(kind)
  /\ \A v, b : Abstract!Object(v, b) = Object(v, b)
  /\ \A v : Abstract!Committed(v) = Committed(v)
  /\ \A p : Abstract!Page(p) = Page(p)
  /\ \A r : Abstract!Refused(r) = Refused(r)
  /\ \A r, S : Abstract!Selected(r, S) = Selected(r, S)
  /\ \A r : Abstract!Sensible(r) = Sensible(r)
  /\ Abstract!Puts = Puts /\ Abstract!Writes = Writes /\ Abstract!NoCall = NoCall
  /\ Abstract!NoObject = ObjectOf(0, 0)
  <1>1. \A kind : Abstract!Plain(kind) = Plain(kind)
    BY DEF Abstract!Plain, Plain
  <1>2. /\ \A v, b : Abstract!Object(v, b) = Object(v, b)
        /\ \A v : Abstract!Committed(v) = Committed(v)
        /\ \A p : Abstract!Page(p) = Page(p)
        /\ \A r : Abstract!Refused(r) = Refused(r)
    BY DEF Abstract!Plain, Plain, Abstract!Object, Object, Abstract!Committed, Committed,
           Abstract!Page, Page, Abstract!Refused, Refused
  <1>3. \A r, S : Abstract!Selected(r, S) = Selected(r, S)
    <2>1. \A S : Abstract!Cardinality(S) = Cardinality(S)
      BY DEF Abstract!Cardinality, Cardinality
    <2>2. QED
      BY <2>1 DEF Abstract!Selected, Selected
  <1>4. /\ \A r : Abstract!Sensible(r) = Sensible(r)
        /\ Abstract!Puts = Puts /\ Abstract!Writes = Writes /\ Abstract!NoCall = NoCall
        /\ Abstract!NoObject = ObjectOf(0, 0)
    BY DEF Abstract!Sensible, Sensible, Abstract!Puts, Puts, Abstract!Writes, Writes,
           Abstract!NoCall, NoCall, Abstract!NoObject, ObjectOf
  <1>5. QED
    BY <1>1, <1>2, <1>3, <1>4

StoreShape ==
  /\ StoreNow = [k \in Keys |-> StoreNow[k]]
  /\ \A k \in Keys : ~Between(k) => StoreNow[k] = ObjectOf(sidecar[k], body[k])
  /\ \A c \in Clients : stage[c] = "replaceSidecar" =>
       /\ key(c) \in Keys
       /\ StoreNow[key(c)] = ObjectOf(sidecar[key(c)], shadowed[c])
       /\ \A k \in Keys : k # key(c) => ~Between(k)
  /\ \A k \in Keys : StoreNow[k].version = sidecar[k]

LEMMA StoreFacts == WinnerInv => StoreShape
  <1> SUFFICES ASSUME WinnerInv PROVE StoreShape
    OBVIOUS
  <1> DEFINE between(k) == {c \in Clients : stage[c] = "replaceSidecar" /\ key(c) = k}
  <1>1. StoreNow = [k \in Keys |->
                      IF sidecar[k] = 0 THEN [version |-> 0, body |-> 0]
                      ELSE [version |-> sidecar[k],
                            body |-> IF between(k) = {} THEN body[k]
                                     ELSE shadowed[CHOOSE c \in between(k) : TRUE]]]
    BY DEF StoreNow
  <1>2. ASSUME NEW k \in Keys, ~Between(k)
        PROVE  between(k) = {}
    BY <1>2 DEF Between
  <1>3. ASSUME NEW c \in Clients, stage[c] = "replaceSidecar"
        PROVE  /\ key(c) \in Keys /\ between(key(c)) = {c}
               /\ \A k \in Keys : k # key(c) => ~Between(k)
    <2>1. \A d \in Clients \ {c} : stage[d] # "replaceSidecar"
      BY <1>3, Alone DEF HoldsFileLock, Passed
    <2>2. QED
      BY <1>3, <2>1 DEF Between, WinnerInv, TypeOK
  <1>4. ASSUME NEW c \in Clients, stage[c] = "replaceSidecar"
        PROVE  StoreNow[key(c)] = ObjectOf(sidecar[key(c)], shadowed[c])
    <2>1. (CHOOSE d \in {c} : TRUE) = c
      OBVIOUS
    <2> HIDE DEF between
    <2>2. QED
      BY <1>1, <1>3, <1>4, <2>1 DEF ObjectOf
  <1> HIDE DEF between
  <1>5. \A k \in Keys : ~Between(k) => StoreNow[k] = ObjectOf(sidecar[k], body[k])
    BY <1>1, <1>2 DEF ObjectOf
  <1>6. \A k \in Keys : StoreNow[k].version = sidecar[k]
    BY <1>1
  <1>7. StoreNow = [k \in Keys |-> StoreNow[k]]
    BY <1>1
  <1>8. QED
    BY <1>3, <1>4, <1>5, <1>6, <1>7 DEF StoreShape

(* The same after a step. *)
LEMMA StoreFactsNext == WinnerInv' => StoreShape'
  BY StoreFacts, PTL

(* A step that changes no file, and does not come between two replaces. *)
LEMMA StoreKept ==
  ASSUME WinnerInv, WinnerInv', UNCHANGED <<body, sidecar>>,
         \A d \in Clients :
           /\ stage[d] = "replaceSidecar" <=> stage'[d] = "replaceSidecar"
           /\ stage[d] = "replaceSidecar" => key(d)' = key(d) /\ shadowed'[d] = shadowed[d]
  PROVE  StoreNow' = StoreNow
  <1>1. StoreShape /\ StoreShape'
    BY StoreFacts, StoreFactsNext
  <1>2. ASSUME NEW k \in Keys PROVE (StoreNow')[k] = StoreNow[k]
    <2>1. CASE Between(k)
      <3>1. PICK c \in Clients : stage[c] = "replaceSidecar" /\ key(c) = k
        BY <2>1 DEF Between
      <3>2. stage'[c] = "replaceSidecar" /\ key(c)' = k /\ shadowed'[c] = shadowed[c]
        BY <3>1
      <3>3. StoreNow[k] = ObjectOf(sidecar[k], shadowed[c])
        BY <1>1, <3>1 DEF StoreShape
      <3>4. (StoreNow')[k] = ObjectOf(sidecar[k], shadowed[c])
        BY <1>1, <3>2 DEF StoreShape
      <3>5. QED
        BY <3>3, <3>4
    <2>2. CASE ~Between(k)
      <3>1. ~Between(k)'
        BY <2>2 DEF Between
      <3>2. QED
        BY <1>1, <2>2, <3>1 DEF StoreShape
    <2>3. QED
      BY <2>1, <2>2
  <1>3. QED
    BY <1>1, <1>2 DEF StoreShape

-----------------------------------------------------------------------------
(* Steps the abstract storage does not see. *)

Inside == {c \in Clients : stage[c] # "idle"}
Unseen == UNCHANGED <<StoreNow, minted, begun, call, token, Inside, answer>>

LEMMA UnseenStutters == Unseen => UNCHANGED Abstract!vars
  BY DEF Unseen, Inside, Abstract!vars

(* A client that stays inside its call. *)
LEMMA StaysInside ==
  ASSUME TypeOK, NEW c \in Clients, Step(c) \/ Fail(c), stage[c] # "idle", stage'[c] # "idle"
  PROVE  Inside' = Inside
  BY CallFrame DEF Inside

LEMMA LocksUnseen ==
  ASSUME WholeInv, WholeInv', NEW c \in Clients,
         \/ TakeThreadLock(c) \/ TakeFileLock(c) \/ Collect(c) \/ TempBody(c) \/ TempSidecar(c)
         \/ CleanBody(c) \/ CleanSidecar(c) \/ Prune(c)
  PROVE  Unseen
  <1>1. TypeOK /\ Step(c) /\ WinnerInv /\ WinnerInv'
    BY DEF WholeInv, WinnerInv, Step
  <1>2. UNCHANGED <<body, sidecar, minted, begun, call, token, shadowed, answer>>
    <2>1. CASE TakeThreadLock(c) \/ TakeFileLock(c) \/ Collect(c)
      BY <2>1 DEF TakeThreadLock, TakeFileLock, Collect, disk, local, counters
    <2>2. CASE \/ TempBody(c) \/ TempSidecar(c) \/ CleanBody(c) \/ CleanSidecar(c) \/ Prune(c)
      BY <2>2 DEF TempBody, TempSidecar, CleanBody, CleanSidecar, Prune, WriteTemp, local, counters
    <2>3. QED
      BY <2>1, <2>2
  <1>3. /\ FirstStage(call[c].op) \in {"readSidecar", "collect", "mkdir", "check"}
    BY DEF FirstStage
  <1>4. /\ stage[c] \notin {"idle", "replaceSidecar"} /\ stage'[c] \notin {"idle", "replaceSidecar"}
        /\ \A d \in Clients \ {c} : stage'[d] = stage[d]
    BY <1>1, <1>3, StageMoves, CallFrame
  <1>5. StoreNow' = StoreNow
    BY <1>1, <1>2, <1>4, StoreKept DEF key
  <1>6. QED
    BY <1>1, <1>2, <1>4, <1>5, StaysInside DEF Unseen

(* The first replace of a put moves a body that no sidecar names yet; the  *)
(* second unlink of a delete removes one that none names any more.         *)
LEMMA BodiesUnseen ==
  ASSUME WholeInv, WholeInv', NEW c \in Clients, ReplaceBody(c) \/ UnlinkBody(c)
  PROVE  Unseen
  <1> DEFINE k == key(c)
  <1>1. TypeOK /\ Step(c) /\ WinnerInv /\ WinnerInv' /\ StoreShape /\ StoreShape'
    BY StoreFacts, StoreFactsNext DEF WholeInv, WinnerInv, Step
  <1>2. /\ UNCHANGED <<sidecar, minted, begun, call, token, answer>>
        /\ key(c) = k /\ key(c)' = k /\ k \in Keys
        /\ stage[c] \in {"replaceBody", "unlinkBody"} /\ stage'[c] \in {"replaceSidecar", "prune"}
        /\ \A j \in Keys \ {k} : body'[j] = body[j]
    BY <1>1, StageMoves DEF ReplaceBody, UnlinkBody, counters, key, TypeOK
  <1>3. \A d \in Clients \ {c} : stage[d] # "replaceSidecar" /\ stage'[d] # "replaceSidecar"
    BY <1>1, <1>2, Alone, CallFrame DEF HoldsFileLock, Passed
  <1> HIDE DEF k
  <1>4. /\ \A j \in Keys : ~Between(j)
        /\ \A j \in Keys \ {k} : ~Between(j)'
    BY <1>2, <1>3 DEF Between
  <1>5. \A j \in Keys \ {k} : (StoreNow')[j] = StoreNow[j]
    BY <1>1, <1>2, <1>4 DEF StoreShape
  <1>6. (StoreNow')[k] = StoreNow[k]
    <2>1. StoreNow[k] = ObjectOf(sidecar[k], body[k])
      BY <1>1, <1>2, <1>4 DEF StoreShape
    <2>2. CASE ReplaceBody(c)
      <3>1. stage'[c] = "replaceSidecar" /\ shadowed'[c] = body[k]
        BY <1>1, <1>2, <2>2, StageMoves DEF ReplaceBody, TypeOK
      <3>2. (StoreNow')[k] = ObjectOf(sidecar'[k], shadowed'[c])
        BY <1>1, <1>2, <3>1 DEF StoreShape
      <3>3. QED
        BY <1>2, <2>1, <3>1, <3>2
    <2>3. CASE UnlinkBody(c)
      <3>1. stage[c] = "unlinkBody" /\ stage'[c] = "prune" /\ sidecar[k] = 0
        BY <1>1, <1>2, <2>3, StageMoves DEF WholeInv, BodyComesFirst
      <3>2. \A j \in Keys : ~Between(j)'
        BY <1>3, <3>1 DEF Between
      <3>3. (StoreNow')[k] = ObjectOf(sidecar'[k], body'[k])
        BY <1>1, <1>2, <3>2 DEF StoreShape
      <3>4. QED
        BY <1>2, <2>1, <3>1, <3>3 DEF ObjectOf
    <2>4. QED
      BY <2>2, <2>3
  <1>7. StoreNow' = StoreNow
    BY <1>1, <1>5, <1>6 DEF StoreShape
  <1>8. QED
    BY <1>1, <1>2, <1>7, StaysInside DEF Unseen

-----------------------------------------------------------------------------
(* Steps that read: the answer is settled. *)

(* What a call returns, in terms of the files. *)
LEMMA ResultOf ==
  ASSUME WholeInv, NEW c \in Clients, key(c) \in Keys
  PROVE  /\ call[c].op = "get" /\ sidecar[key(c)] = 0 => Abstract!Result(c) = Plain("absent")
         /\ call[c].op = "get" /\ sidecar[key(c)] # 0
              => Abstract!Result(c) = Object(sidecar[key(c)], StoreNow[key(c)].body)
         /\ call[c].op = "list"
              => Abstract!Result(c) =
                   Page({<<k, sidecar[k]>> : k \in Selected(call[c], {k \in Keys : sidecar[k] # 0})})
         /\ call[c].op \in {"cas", "delete"} /\ sidecar[key(c)] # call[c].expected
              => Abstract!Result(c) = Plain("precondition")
         /\ call[c].op = "delete" /\ sidecar[key(c)] = call[c].expected
              => Abstract!Result(c) = Plain("ok")
         /\ call[c].op = "cas" /\ sidecar[key(c)] = call[c].expected
              => Abstract!Result(c) = Committed(token[c])
         /\ call[c].op = "put" => Abstract!Result(c) = Committed(token[c])
  <1>1. \A k \in Keys : StoreNow[k].version = sidecar[k]
    BY StoreFacts DEF WholeInv, StoreShape
  <1>2. /\ call[c].op = "get" /\ sidecar[key(c)] = 0 => Abstract!Result(c) = Plain("absent")
        /\ call[c].op = "get" /\ sidecar[key(c)] # 0
             => Abstract!Result(c) = Object(sidecar[key(c)], StoreNow[key(c)].body)
    BY <1>1, SameCalls DEF Abstract!Result, key
  <1>3. ASSUME call[c].op = "list"
        PROVE  Abstract!Result(c) =
                 Page({<<k, sidecar[k]>> : k \in Selected(call[c], {k \in Keys : sidecar[k] # 0})})
    <2> DEFINE there == {k \in Keys : StoreNow[k].version # 0}
    <2>1. there = {k \in Keys : sidecar[k] # 0}
      BY <1>1
    <2>2. Abstract!Result(c) =
            Page({<<k, StoreNow[k].version>> : k \in Selected(call[c], there)})
      BY <1>3, SameCalls DEF Abstract!Result
    <2> HIDE DEF there
    <2>3. Selected(call[c], there) \subseteq Keys
      BY <2>1, SelectedType
    <2>4. {<<k, StoreNow[k].version>> : k \in Selected(call[c], there)}
            = {<<k, sidecar[k]>> : k \in Selected(call[c], there)}
      BY <1>1, <2>3
    <2>5. QED
      BY <2>1, <2>2, <2>4
  <1>4. ASSUME call[c].op \in {"cas", "delete"}
        PROVE  /\ sidecar[key(c)] # call[c].expected => Abstract!Result(c) = Plain("precondition")
               /\ sidecar[key(c)] = call[c].expected =>
                    Abstract!Result(c) = IF call[c].op = "delete" THEN Plain("ok")
                                         ELSE Committed(token[c])
    <2>1. StoreNow[call[c].key].version = sidecar[key(c)]
      BY <1>1 DEF key
    <2>2. CASE call[c].op = "cas"
      <3>1. CASE sidecar[key(c)] # call[c].expected
        BY <2>1, <2>2, <3>1, SameCalls DEF Abstract!Result
      <3>2. CASE sidecar[key(c)] = call[c].expected
        <4>1. Abstract!Result(c) = Abstract!Committed(token[c])
          BY <2>1, <2>2, <3>2 DEF Abstract!Result
        <4>2. QED
          BY <2>2, <3>2, <4>1, SameCalls
      <3>3. QED
        BY <3>1, <3>2
    <2>3. CASE call[c].op = "delete"
      BY <2>1, <2>3, SameCalls DEF Abstract!Result
    <2>4. QED
      BY <1>4, <2>2, <2>3
  <1>5. call[c].op = "put" => Abstract!Result(c) = Committed(token[c])
    BY SameCalls DEF Abstract!Result
  <1>6. QED
    BY <1>2, <1>3, <1>4, <1>5

(* A step that settles its answer to the abstract result, and no more. *)
LEMMA ReadEffect ==
  ASSUME WholeInv, WholeInv', NEW c \in Clients, Step(c),
         answer' = [answer EXCEPT ![c] = Abstract!Result(c)],
         stage[c] \in {"readSidecar", "readBody", "readPage", "check"}, stage'[c] = "release",
         UNCHANGED <<body, sidecar, minted, begun, call, token, shadowed>>,
         call[c].op \in Writes => Abstract!Result(c).kind # "ok"
  PROVE  Abstract!Effect(c)
  <1>1. c \in Inside /\ Inside' = Inside /\ answer[c].kind = "none"
    <2>1. TypeOK /\ AnswerFits(c) /\ stage[c] # "idle" /\ stage'[c] # "idle"
      BY DEF WholeInv, WinnerInv, CallsFit
    <2>2. answer[c].kind = "none"
      BY <2>1 DEF AnswerFits, BeforeAnswer
    <2>3. Inside' = Inside
      BY <2>1, StaysInside
    <2>4. QED
      BY <2>1, <2>2, <2>3 DEF Inside
  <1>2. \A d \in Clients \ {c} : stage'[d] = stage[d]
    BY CallFrame DEF WholeInv, WinnerInv
  <1>3. StoreNow' = StoreNow
    BY <1>2, StoreKept DEF WholeInv, key
  <1>4. QED
    BY <1>1, <1>3, SameCalls DEF Abstract!Effect, Inside

LEMMA ReadsSimulated ==
  ASSUME WholeInv, WholeInv', NEW c \in Clients,
         ReadSidecar(c) \/ ReadBody(c) \/ ReadPage(c) \/ Check(c)
  PROVE  Unseen \/ Abstract!Effect(c)
  <1>1. /\ TypeOK /\ WinnerInv /\ WinnerInv' /\ Step(c)
        /\ AnswerFits(c) /\ ReadsDrawn(c) /\ StillSo(c)
    BY DEF WholeInv, WinnerInv, Step, CallsFit, GroundedInv
  <1>2. /\ stage[c] \in {"readSidecar", "readBody", "readPage", "check"} /\ key(c) \in Keys
        /\ UNCHANGED <<body, sidecar, minted, begun, call, token, shadowed>>
        /\ sidecar[key(c)] # Foreign
    BY <1>1 DEF ReadSidecar, ReadBody, ReadPage, Check, disk, local, counters, TypeOK, WholeInv,
                GroundedInv
  <1>3. ASSUME answer' = [answer EXCEPT ![c] = Abstract!Result(c)], stage'[c] = "release",
               call[c].op \in Writes => Abstract!Result(c).kind # "ok"
        PROVE  Abstract!Effect(c)
    BY <1>1, <1>2, <1>3, ReadEffect
  <1>4. ASSUME UNCHANGED answer, stage'[c] \in {"readBody", "mkdir", "unlinkSidecar"}
        PROVE  Unseen
    <2>1. \A d \in Clients \ {c} : stage'[d] = stage[d]
      BY <1>1, CallFrame
    <2>2. StoreNow' = StoreNow
      BY <1>1, <1>2, <1>4, <2>1, StoreKept DEF key
    <2>3. Inside' = Inside
      BY <1>1, <1>2, <1>4, StaysInside
    <2>4. QED
      BY <1>2, <1>4, <2>2, <2>3 DEF Unseen
  <1>5. CASE ReadSidecar(c)
    <2>1. call[c].op = "get"
      BY <1>1, <1>5 DEF ReadSidecar, AnswerFits
    <2>2. CASE sidecar[key(c)] = 0
      <3>1. answer' = [answer EXCEPT ![c] = Plain("absent")] /\ stage'[c] = "release"
        BY <1>1, <1>2, <1>5, <2>2 DEF ReadSidecar, Finish, Settle, Go, TypeOK
      <3>2. QED
        BY <1>2, <1>3, <2>1, <2>2, <3>1, ResultOf DEF Writes, Puts
    <2>3. CASE sidecar[key(c)] # 0
      BY <1>1, <1>2, <1>4, <1>5, <2>3 DEF ReadSidecar, Go, TypeOK
    <2>4. QED
      BY <2>2, <2>3
  <1>6. CASE ReadBody(c)
    <2>1. /\ call[c].op = "get" /\ stage[c] = "readBody"
          /\ seen[c] = sidecar[key(c)] /\ sidecar[key(c)] # 0
      BY <1>1, <1>6 DEF ReadBody, AnswerFits, ReadsDrawn, StillSo, TypeOK
    <2>2. body[key(c)] # 0
      BY <1>2, <2>1 DEF WholeInv, SidecarHasBody
    <2>3. ~Between(key(c))
      BY <1>1, <2>1 DEF Between, WritersAlone, HoldsFileLock, Exclusive, Writes, WinnerInv,
                        StagesFit, Passed
    <2>4. StoreNow[key(c)].body = body[key(c)]
      BY <1>1, <1>2, <2>1, <2>3, StoreFacts DEF StoreShape, ObjectOf
    <2>5. /\ answer' = [answer EXCEPT ![c] = Object(sidecar[key(c)], StoreNow[key(c)].body)]
          /\ stage'[c] = "release"
      BY <1>1, <1>6, <2>1, <2>2, <2>4 DEF ReadBody, Finish, Settle, Go, TypeOK
    <2>6. QED
      BY <1>2, <1>3, <2>1, <2>5, ResultOf DEF Writes, Puts
  <1>7. CASE ReadPage(c)
    <2>1. /\ call[c].op = "list" /\ stage[c] = "readPage" /\ stage'[c] = "release"
          /\ picked[c] = Selected(call[c], {k \in Keys : sidecar[k] # 0})
      BY <1>1, <1>7, StageMoves DEF AnswerFits, StillSo
    <2>2. \A k \in picked[c] : sidecar[k] \notin {0, Foreign}
      BY <2>1, SelectedType DEF WholeInv, GroundedInv
    <2>3. answer' = [answer EXCEPT ![c] =
            Page({<<k, sidecar[k]>> : k \in Selected(call[c], {k \in Keys : sidecar[k] # 0})})]
      BY <1>7, <2>1, <2>2 DEF ReadPage, Finish, Settle
    <2>4. QED
      BY <1>2, <1>3, <2>1, <2>3, ResultOf DEF Writes, Puts
  <1>8. CASE Check(c)
    <2>1. call[c].op \in {"cas", "delete"}
      BY <1>1, <1>8 DEF Check, WinnerInv, StagesFit
    <2>2. CASE sidecar[key(c)] # call[c].expected
      <3>1. answer' = [answer EXCEPT ![c] = Plain("precondition")] /\ stage'[c] = "release"
        BY <1>1, <1>2, <1>8, <2>2 DEF Check, CheckFails, Finish, Settle, Go, TypeOK
      <3>2. QED
        BY <1>2, <1>3, <2>1, <2>2, <3>1, ResultOf, AnswerKinds
    <2>3. CASE sidecar[key(c)] = call[c].expected
      BY <1>1, <1>2, <1>4, <1>8, <2>3 DEF Check, CheckFails, Go, TypeOK
    <2>4. QED
      BY <2>2, <2>3
  <1>9. QED
    BY <1>5, <1>6, <1>7, <1>8

-----------------------------------------------------------------------------
(* The commits. *)

LEMMA CommitsSimulated ==
  ASSUME WholeInv, WholeInv', NEW c \in Clients, ReplaceSidecar(c) \/ UnlinkSidecar(c)
  PROVE  Abstract!Effect(c)
  <1> DEFINE k == key(c)
             deleting == call[c].op = "delete"
             new == IF deleting THEN Abstract!NoObject ELSE Abstract!Stored(c)
  <1>1. /\ TypeOK /\ WinnerInv /\ WinnerInv' /\ Step(c) /\ StoreShape /\ StoreShape'
        /\ AnswerFits(c) /\ StillSo(c)
    BY StoreFacts, StoreFactsNext DEF WholeInv, WinnerInv, Step, CallsFit, GroundedInv
  <1>2. /\ stage[c] \in {"replaceSidecar", "unlinkSidecar"} /\ stage'[c] # "idle"
        /\ key(c) = k /\ k = call[c].key /\ k \in Keys /\ answer[c].kind = "none"
        /\ UNCHANGED <<body, minted, begun, call, token, shadowed>>
        /\ \A j \in Keys \ {k} : sidecar'[j] = sidecar[j]
    BY <1>1, StageMoves
       DEF ReplaceSidecar, UnlinkSidecar, local, counters, key, TypeOK, AnswerFits, BeforeAnswer,
           Passed
  <1>3. \A d \in Clients \ {c} : stage[d] # "replaceSidecar" /\ stage'[d] # "replaceSidecar"
    BY <1>1, <1>2, Alone, CallFrame DEF HoldsFileLock, Passed
  <1>4. stage'[c] # "replaceSidecar"
    BY <1>1, StageMoves
  <1>5. \A j \in Keys : ~Between(j)'
    BY <1>3, <1>4 DEF Between
  <1>6. \A j \in Keys \ {k} : ~Between(j)
    BY <1>2, <1>3 DEF Between
  <1> HIDE DEF k
  <1>7. /\ answer' = [answer EXCEPT ![c] = Abstract!Result(c)]
        /\ Abstract!Result(c).kind = "ok" /\ call[c].op \in Writes
        /\ call[c].op \in Puts => token[c] # 0
        /\ ObjectOf(sidecar'[k], body'[k]) = new
    <2>1. CASE ReplaceSidecar(c)
      <3>1. /\ stage[c] = "replaceSidecar" /\ call[c].op \in Puts /\ token[c] # 0
            /\ body[k] = token[c] /\ sidecar'[k] = token[c]
            /\ call[c].op = "cas" => sidecar[k] = call[c].expected
        BY <1>1, <1>2, <2>1
           DEF ReplaceSidecar, WinnerInv, StagesFit, PendingIsNew, Pending, Passed, StillSo, TypeOK
      <3>2. Abstract!Result(c) = Committed(token[c])
        BY <1>2, <3>1, ResultOf DEF Puts
      <3>3. answer' = [answer EXCEPT ![c] = Committed(token[c])]
        BY <2>1 DEF ReplaceSidecar, Finish, Settle
      <3>4. ObjectOf(sidecar'[k], body'[k]) = Abstract!Stored(c)
        BY <1>2, <3>1 DEF ObjectOf, Abstract!Stored
      <3>5. QED
        BY <3>1, <3>2, <3>3, <3>4, AnswerKinds DEF Puts, Writes
    <2>2. CASE UnlinkSidecar(c)
      <3>1. /\ stage[c] = "unlinkSidecar" /\ deleting
            /\ sidecar[k] = call[c].expected /\ call[c].expected # 0
        BY <1>1, <1>2, <2>2 DEF UnlinkSidecar, WinnerInv, StagesFit, StillSo, Sensible
      <3>2. Abstract!Result(c) = Plain("ok")
        BY <1>2, <3>1, ResultOf
      <3>3. answer' = [answer EXCEPT ![c] = Plain("ok")] /\ sidecar'[k] = 0
        BY <1>1, <1>2, <2>2, <3>1 DEF UnlinkSidecar, Settle, TypeOK
      <3>4. ObjectOf(sidecar'[k], body'[k]) = Abstract!NoObject
        BY <3>3, SameCalls DEF ObjectOf
      <3>5. QED
        BY <3>1, <3>2, <3>3, <3>4, AnswerKinds DEF Puts, Writes
    <2>3. QED
      BY <2>1, <2>2
  <1>8. StoreNow' = [StoreNow EXCEPT ![k] = new]
    <2>1. \A j \in Keys : (StoreNow')[j] = ObjectOf(sidecar'[j], body'[j])
      BY <1>1, <1>5 DEF StoreShape
    <2>2. \A j \in Keys \ {k} : StoreNow[j] = ObjectOf(sidecar[j], body[j])
      BY <1>1, <1>6 DEF StoreShape
    <2>3. \A j \in Keys \ {k} : (StoreNow')[j] = StoreNow[j]
      BY <1>2, <2>1, <2>2
    <2>4. (StoreNow')[k] = new
      BY <1>2, <1>7, <2>1
    <2> HIDE DEF new
    <2>5. /\ StoreNow' = [j \in Keys |-> (StoreNow')[j]]
          /\ StoreNow = [j \in Keys |-> StoreNow[j]]
      BY <1>1 DEF StoreShape
    <2>6. QED
      BY <1>2, <2>3, <2>4, <2>5
  <1>9. Inside' = Inside /\ c \in Inside
    BY <1>1, <1>2, StaysInside DEF Inside
  <1>10. QED
    BY <1>2, <1>7, <1>8, <1>9, SameCalls DEF Abstract!Effect, Inside

-----------------------------------------------------------------------------
(* A call begins, draws its token, returns. *)

LEMMA BeginSimulated ==
  ASSUME WholeInv, WholeInv', NEW c \in Clients, Begin(c)
  PROVE  Abstract!Begin(c)
  <1>1. TypeOK /\ WinnerInv /\ WinnerInv' /\ stage[c] = "idle"
    BY DEF WholeInv, WinnerInv, Begin
  <1>2. \A d \in Clients \ {c} : stage'[d] = stage[d] /\ shadowed'[d] = shadowed[d] /\ key(d)' = key(d)
    BY <1>1, CallFrame DEF key
  <1>3. stage'[c] \in {"idle", "wait"}
    BY <1>1, BegunCall
  <1>4. StoreNow' = StoreNow
    BY <1>1, <1>2, <1>3, StoreKept DEF Begin, disk
  <1>5. PICK r \in Calls, v \in 0..minted :
          /\ call' = [call EXCEPT ![c] = [r EXCEPT !.expected = v]]
          /\ Sensible(call'[c])
          /\ IF r.key = BadKey
             THEN Settle(c, Refused(r)) /\ UNCHANGED stage
             ELSE Settle(c, Plain("none")) /\ Go(c, "wait")
    BY DEF Begin
  <1>6. IF r.key = BadKey
        THEN answer' = [answer EXCEPT ![c] = Refused(r)] /\ Inside' = Inside
        ELSE answer' = [answer EXCEPT ![c] = Plain("none")] /\ Inside' = Inside \union {c}
    BY <1>1, <1>2, <1>5 DEF Settle, Go, Inside, TypeOK
  <1>7. /\ c \notin Inside /\ begun' = begun + 1 /\ UNCHANGED minted
        /\ token' = [token EXCEPT ![c] = 0]
    BY <1>1 DEF Inside, Begin
  <1>8. QED
    BY <1>4, <1>5, <1>6, <1>7, SameCalls DEF Abstract!Begin, Inside

LEMMA DrawSimulated ==
  ASSUME WholeInv, WholeInv', NEW c \in Clients, Mkdir(c)
  PROVE  Abstract!Draw(c)
  <1>1. TypeOK /\ WinnerInv /\ WinnerInv' /\ Step(c) /\ AnswerFits(c)
    BY DEF WholeInv, WinnerInv, Step, CallsFit
  <1>2. /\ stage[c] = "mkdir" /\ stage'[c] = "tempBody"
        /\ call[c].op \in Puts /\ token[c] = 0
    BY <1>1, StageMoves DEF WinnerInv, StagesFit, Passed, AnswerFits, BeforeToken
  <1>3. /\ UNCHANGED <<body, sidecar, call, shadowed, answer, begun>>
        /\ minted' = minted + 1 /\ token' = [token EXCEPT ![c] = minted + 1]
    BY DEF Mkdir, counters
  <1>4. \A d \in Clients \ {c} : stage'[d] = stage[d]
    BY <1>1, CallFrame
  <1>5. StoreNow' = StoreNow
    BY <1>1, <1>2, <1>3, <1>4, StoreKept DEF key
  <1>6. Inside' = Inside /\ c \in Inside
    BY <1>1, <1>2, StaysInside DEF Inside
  <1>7. QED
    BY <1>2, <1>3, <1>5, <1>6, SameCalls DEF Abstract!Draw, Inside

LEMMA ReturnSimulated ==
  ASSUME WholeInv, WholeInv', NEW c \in Clients, Release(c)
  PROVE  Abstract!Return(c)
  <1>1. TypeOK /\ WinnerInv /\ WinnerInv' /\ Step(c) /\ AnswerFits(c)
    BY DEF WholeInv, WinnerInv, Step, CallsFit
  <1>2. stage[c] = "release" /\ stage'[c] = "idle" /\ answer[c].kind # "none"
    BY <1>1, StageMoves DEF AnswerFits, AfterAnswer
  <1>3. UNCHANGED <<body, sidecar, minted, begun, call, token, shadowed, answer>>
    BY DEF Release, disk, local, counters
  <1>4. \A d \in Clients \ {c} : stage'[d] = stage[d]
    BY <1>1, CallFrame
  <1>5. StoreNow' = StoreNow
    BY <1>1, <1>2, <1>3, <1>4, StoreKept DEF key
  <1>6. c \in Inside /\ Inside' = Inside \ {c}
    BY <1>2, <1>4 DEF Inside
  <1>7. QED
    BY <1>2, <1>3, <1>5, <1>6 DEF Abstract!Return, Inside

-----------------------------------------------------------------------------
(* Failures and crashes.  A put that ends between its two replaces leaves  *)
(* its body under the version it found: the one exception to atomicity     *)
(* that the docstring of filesystem.py states.                             *)

LEMMA PutTears ==
  ASSUME WholeInv, WinnerInv', NEW c \in Clients, stage[c] = "replaceSidecar",
         stage'[c] # "replaceSidecar", \A d \in Clients \ {c} : stage'[d] \in {stage[d], "idle"},
         UNCHANGED <<body, sidecar, call, token>>
  PROVE  Abstract!Tear(c) \/ StoreNow' = StoreNow
  <1> DEFINE k == key(c)
  <1>1. /\ TypeOK /\ WinnerInv /\ StoreShape /\ StoreShape' /\ AnswerFits(c) /\ StillSo(c)
        /\ token[c] # 0
    BY StoreFacts, StoreFactsNext
       DEF WholeInv, WinnerInv, CallsFit, GroundedInv, PendingIsNew, Pending, Passed
  <1>2. /\ key(c) = k /\ k = call[c].key /\ k \in Keys /\ body[k] = token[c]
        /\ c \in Inside /\ answer[c].kind = "none"
    BY <1>1 DEF key, TypeOK, StillSo, AnswerFits, BeforeAnswer, Passed, Inside
  <1>3. \A d \in Clients : stage'[d] # "replaceSidecar"
    BY <1>1, Alone DEF HoldsFileLock, Passed
  <1> HIDE DEF k
  <1>4. \A j \in Keys : ~Between(j)'
    BY <1>3 DEF Between
  <1>5. /\ StoreNow[k] = ObjectOf(sidecar[k], shadowed[c])
        /\ \A j \in Keys \ {k} : StoreNow[j] = ObjectOf(sidecar[j], body[j])
        /\ \A j \in Keys : (StoreNow')[j] = ObjectOf(sidecar[j], body[j])
    BY <1>1, <1>2, <1>4 DEF StoreShape
  <1>6. /\ StoreNow' = [j \in Keys |-> (StoreNow')[j]]
        /\ StoreNow = [j \in Keys |-> StoreNow[j]]
        /\ \A j \in Keys \ {k} : (StoreNow')[j] = StoreNow[j]
    BY <1>1, <1>5 DEF StoreShape
  <1>7. CASE sidecar[k] = 0
    BY <1>2, <1>5, <1>6, <1>7 DEF ObjectOf
  <1>8. CASE sidecar[k] # 0
    <2>1. /\ StoreNow[k] = [version |-> sidecar[k], body |-> shadowed[c]]
          /\ (StoreNow')[k] = [version |-> sidecar[k], body |-> token[c]]
      BY <1>2, <1>5, <1>8 DEF ObjectOf
    <2>2. StoreNow[k].version # 0
      BY <1>8, <2>1
    <2>3. [StoreNow[k] EXCEPT !.body = token[c]] = (StoreNow')[k]
      BY <2>1
    <2>4. StoreNow' = [StoreNow EXCEPT ![k] = [StoreNow[k] EXCEPT !.body = token[c]]]
      BY <1>2, <1>6, <2>3
    <2>5. StoreNow' = [StoreNow EXCEPT ![k].body = token[c]]
      BY <2>4
    <2>6. QED
      BY <1>1, <1>2, <2>2, <2>5 DEF Abstract!Tear, Inside
  <1>9. QED
    BY <1>7, <1>8

LEMMA FailSimulated ==
  ASSUME WholeInv, WholeInv', NEW c \in Clients, Fail(c)
  PROVE  Unseen \/ Abstract!Abandon(c) \/ Abstract!Return(c)
  <1>1. TypeOK /\ WinnerInv /\ WinnerInv'
    BY DEF WholeInv, WinnerInv
  <1>2. /\ stage[c] # "idle" /\ c \in Inside
        /\ UNCHANGED <<body, sidecar, minted, begun, call, token, shadowed>>
        /\ stage'[c] \in {"idle", "release", "cleanBody"}
        /\ stage'[c] = "idle" <=> stage[c] \in {"flock", "release"}
        /\ IF stage[c] = "prune" THEN UNCHANGED answer
           ELSE answer' = [answer EXCEPT ![c] = Plain("unavailable")]
    <2>1. stage[c] \in SystemCalls
      BY FilesystemAssumption DEF Fail
    <2>2. stage[c] # "idle"
      BY <2>1 DEF SystemCalls
    <2>3. QED
      BY <1>1, <2>2 DEF Fail, Go, Settle, local, Inside, TypeOK
  <1>3. \A d \in Clients \ {c} : stage'[d] = stage[d]
    BY <1>1, CallFrame
  <1>4. stage[c] # "replaceSidecar" => StoreNow' = StoreNow
    BY <1>1, <1>2, <1>3, StoreKept DEF key
  <1>5. CASE stage[c] = "prune"
    <2>1. Inside' = Inside
      BY <1>1, <1>2, <1>5, StaysInside
    <2>2. QED
      BY <1>2, <1>4, <1>5, <2>1 DEF Unseen
  <1>6. CASE stage[c] \in {"flock", "release"}
    <2>1. Inside' = Inside \ {c}
      BY <1>2, <1>3, <1>6 DEF Inside
    <2>2. QED
      BY <1>2, <1>4, <1>6, <2>1, SameCalls DEF Abstract!Return, Inside
  <1>7. CASE stage[c] \notin {"prune", "flock", "release"}
    <2>1. Inside' = Inside
      BY <1>1, <1>2, <1>7, StaysInside
    <2>2. Abstract!Tear(c) \/ StoreNow' = StoreNow
      BY <1>1, <1>2, <1>3, <1>4, PutTears
    <2>3. QED
      BY <1>2, <1>7, <2>1, <2>2, SameCalls DEF Abstract!Abandon, Inside
  <1>8. QED
    BY <1>5, <1>6, <1>7

LEMMA CrashSimulated ==
  ASSUME WholeInv, WholeInv', NEW p \in Processes, Crash(p)
  PROVE  Abstract!Crash
  <1> DEFINE dying == {c \in Clients : ProcessOf[c] = p /\ stage[c] # "idle"}
  <1>1. TypeOK /\ WinnerInv /\ WinnerInv'
    BY DEF WholeInv, WinnerInv
  <1>2. /\ UNCHANGED <<body, sidecar, minted, begun, call, token, shadowed>>
        /\ stage' = [c \in Clients |-> IF c \in dying THEN "idle" ELSE stage[c]]
        /\ answer' = [c \in Clients |-> IF c \in dying THEN Plain("lost") ELSE answer[c]]
    BY DEF Crash, disk, local
  <1>3. dying \in SUBSET Clients /\ dying \intersect Inside = dying
    BY DEF Inside
  <1>4. Inside' = Inside \ dying
    BY <1>2 DEF Inside
  <1>5. answer' = [c \in Clients |-> IF c \in dying \intersect Inside THEN Abstract!Plain("lost")
                                     ELSE answer[c]]
    BY <1>2, <1>3, SameCalls
  <1>6. (\E c \in dying : Abstract!Tear(c)) \/ StoreNow' = StoreNow
    <2>1. CASE \E c \in dying : stage[c] = "replaceSidecar"
      <3>1. PICK c \in dying : stage[c] = "replaceSidecar"
        BY <2>1
      <3>2. stage'[c] = "idle" /\ \A d \in Clients : stage'[d] \in {stage[d], "idle"}
        BY <1>2
      <3>3. QED
        BY <1>1, <1>2, <3>1, <3>2, PutTears
    <2>2. CASE ~\E c \in dying : stage[c] = "replaceSidecar"
      <3>1. \A d \in Clients : stage[d] = "replaceSidecar" <=> stage'[d] = "replaceSidecar"
        BY <1>2, <2>2
      <3>2. QED
        BY <1>1, <1>2, <3>1, StoreKept DEF key
    <2>3. QED
      BY <2>1, <2>2
  <1> HIDE DEF dying
  <1>7. QED
    BY <1>2, <1>3, <1>4, <1>5, <1>6 DEF Abstract!Crash, Inside

-----------------------------------------------------------------------------
LEMMA InitSimulated == Init => Abstract!Init
  <1> SUFFICES ASSUME Init PROVE Abstract!Init
    OBVIOUS
  <1>1. StoreNow = [k \in Keys |-> Abstract!NoObject]
    BY DEF Init, StoreNow, Abstract!NoObject
  <1>2. {c \in Clients : stage[c] # "idle"} = {}
    BY DEF Init
  <1>3. QED
    BY <1>1, <1>2, SameCalls DEF Init, Abstract!Init

LEMMA NextSimulated ==
  ASSUME TamperKinds = {}, WholeInv, WholeInv', [Next]_vars
  PROVE  [Abstract!Next]_Abstract!vars
  <1>1. ASSUME NEW c \in Clients, Step(c)
        PROVE  Unseen \/ Abstract!Effect(c) \/ Abstract!Draw(c) \/ Abstract!Return(c)
    BY <1>1, LocksUnseen, BodiesUnseen, ReadsSimulated, CommitsSimulated, DrawSimulated,
       ReturnSimulated DEF Step
  <1>2. ASSUME NEW c \in Clients, Begin(c) \/ Fail(c)
        PROVE  Unseen \/ Abstract!Begin(c) \/ Abstract!Abandon(c) \/ Abstract!Return(c)
    BY <1>2, BeginSimulated, FailSimulated
  <1>3. ASSUME NEW p \in Processes, Crash(p) PROVE Abstract!Crash
    BY <1>3, CrashSimulated
  <1>4. CASE Tamper
    BY <1>4 DEF Tamper
  <1>5. CASE UNCHANGED vars
    <2>1. UNCHANGED <<StoreNow, Inside>>
      BY <1>5 DEF vars, disk, local, StoreNow, Inside, key
    <2>2. Unseen
      BY <1>5, <2>1 DEF vars, local, counters, Unseen
    <2>3. QED
      BY <2>2, UnseenStutters
  <1>6. QED
    BY <1>1, <1>2, <1>3, <1>4, <1>5, UnseenStutters DEF Next, Abstract!Next

(* FilesystemStorage implements the Storage protocol: every call of every  *)
(* thread and process takes effect at one step between its beginning and   *)
(* its end, or is given up, under any failing system calls and crashes,    *)
(* but for the abandoned overwrite its docstring excepts.  Files edited    *)
(* behind the library's back are outside what the protocol promises.       *)
THEOREM ImplementsStorage ==
  ASSUME TamperKinds = {}
  PROVE  Spec => Implements
  <1>1. WholeInv /\ WholeInv' /\ [Next]_vars => [Abstract!Next]_Abstract!vars
    BY NextSimulated
  <1>2. Spec => []WholeInv
    BY AlwaysWhole
  <1>3. QED
    BY <1>1, <1>2, InitSimulated, PTL DEF Spec, Implements, Abstract!Spec
=============================================================================
