----------------------- MODULE MemoryStoreCallsProofs -----------------------
(***************************************************************************)
(* What MemoryStore's callers are told is so, and the calls of             *)
(* MemoryStore implement the atomic edits of AtomicFiles, for any number   *)
(* of clients, calls, storage faults and edits outside the library.        *)
(***************************************************************************)
EXTENDS MemoryStoreProofs

-----------------------------------------------------------------------------
(* What a call in progress knows of the time since it began.  A put that   *)
(* storage refused was overtaken, so the version it named is gone for      *)
(* good, and a later read brings another one; an append got as far as its  *)
(* put only because nothing had changed since the call began.              *)

OvertakenFits(c) == Top # 0 => Top # req(c).expected

CallFits(c) ==
  /\ req(c).expected \in 0..born[c]
  /\ req(c).op \in {"replace", "append", "delete"} => req(c).expected > 0
  /\ pc[c] \in {"cap", "capget"} => req(c).op = "write" /\ req(c).expected = 0
  /\ pc[c] = "get" /\ tries[c] > 0 => OvertakenFits(c)
  /\ pc[c] = "put" /\ req(c).op = "replace" =>
       /\ got[c].version \in DOMAIN log
       /\ log[got[c].version].object = got[c].object
       /\ got[c].object # NoFile
       /\ got[c].version >= born[c]
       /\ tries[c] > 0 => got[c].version # req(c).expected
  /\ pc[c] \in {"put", "reget"} /\ req(c).op = "append" => req(c).expected = born[c]
  /\ pc[c] = "reget" =>
       /\ OvertakenFits(c)
       /\ EditOf(log, req(c), req(c).expected, draft[c])

CallsFit ==
  \A c \in Clients :
    /\ born[c] \in 0..Len(log)
    /\ IF pc[c] = "idle" THEN tries[c] = 0 ELSE CallFits(c)

Known == IInv /\ CallsFit

-----------------------------------------------------------------------------
(* Every step leaves the history as it is or adds one change to it. *)
LEMMA HistoryGrows ==
  ASSUME IInv, [Next]_vars
  PROVE  \/ log' = log
         \/ \E e \in Entry : log' = Append(log, e)
  <1>1. ASSUME NEW c \in Clients, Call(c) PROVE log' = log
    BY <1>1 DEF Call, storage
  <1>2. ASSUME NEW c \in Clients, Step(c) \/ Faulty(c)
        PROVE  log' = log \/ \E e \in Entry : log' = Append(log, e)
    <2>1. CASE PutCommits(c) \/ PutLost(c) \/ PutResent(c)
      <3>1. pc[c] = "put" /\ log' = Append(log, Committed(c))
        BY <2>1 DEF PutCommits, PutLost, PutResent, Store
      <3>2. QED
        BY <3>1, CommittedFits
    <2>2. CASE \/ BelowCap(c) \/ AtCap(c) \/ CapGet(c) \/ GetAbsent(c) \/ PutRefused(c)
               \/ Reget(c) \/ Unavailable(c) \/ PutTimesOut(c)
      BY <2>2
         DEF BelowCap, AtCap, CapGet, GetAbsent, PutRefused, Reget, Unavailable, PutTimesOut,
             storage
    <2>3. CASE ReadFile(c) \/ WriteFile(c) \/ ReplaceFact(c) \/ AppendLine(c) \/ DeleteFile(c)
      BY <2>3 DEF ReadFile, WriteFile, ReplaceFact, AppendLine, DeleteFile, Found, storage
    <2>4. QED
      BY <1>2, <2>1, <2>2, <2>3 DEF Step, Faulty
  <1>3. CASE LatePut
    <2>1. PICK s \in late : log' = IF Top = s.expected THEN Append(log, s.entry) ELSE log
      BY <1>3 DEF LatePut
    <2>2. s.entry \in Entry
      BY DEF IInv, TypeOK, Straggler
    <2>3. QED
      BY <2>1, <2>2
  <1>4. CASE OutsideEdit
    <2>1. PICK o \in OutsideObjects :
            log' = Append(log, [client |-> Outside, call |-> 0, object |-> o])
      BY <1>4 DEF OutsideEdit, Store
    <2>2. [client |-> Outside, call |-> 0, object |-> o] \in Entry
      BY FilesAssumption DEF Entry
    <2>3. QED
      BY <2>1, <2>2
  <1>5. CASE UNCHANGED vars
    BY <1>5 DEF vars
  <1>6. QED
    BY <1>1, <1>2, <1>3, <1>4, <1>5 DEF Next

(* So versions keep their objects, and a version that was current once and *)
(* is not any more never is again.                                         *)
LEMMA HistoryKept ==
  ASSUME IInv, [Next]_vars
  PROVE  /\ Len(log) \in Nat /\ Len(log') \in Nat /\ Len(log) <= Len(log')
         /\ DOMAIN log = 1..Len(log) /\ DOMAIN log' = 1..Len(log')
         /\ \A j \in 1..Len(log) : log'[j] = log[j]
         /\ \A v \in 0..Len(log) :
              /\ VersionAt(log', v) = VersionAt(log, v)
              /\ ObjectAt(log', v) = ObjectAt(log, v)
         /\ \A r, o : \A v \in 0..Len(log) :
              EditOf(log, r, v, o) => EditOf(log', r, v, o)
         /\ Top' # 0 => Top' = Top \/ Top' > Len(log)
  <1>1. log \in Seq(Entry) /\ Len(log) \in Nat /\ DOMAIN log = 1..Len(log)
    BY DEF IInv, TypeOK
  <1>2. CASE log' = log
    BY <1>1, <1>2 DEF Top
  <1>3. ASSUME NEW e \in Entry, log' = Append(log, e)
        PROVE  /\ Len(log') \in Nat /\ Len(log) <= Len(log') /\ DOMAIN log' = 1..Len(log')
               /\ \A j \in 1..Len(log) : log'[j] = log[j]
               /\ \A v \in 0..Len(log) :
                    /\ VersionAt(log', v) = VersionAt(log, v)
                    /\ ObjectAt(log', v) = ObjectAt(log, v)
               /\ \A r, o : \A v \in 0..Len(log) :
                    EditOf(log, r, v, o) => EditOf(log', r, v, o)
               /\ Top' # 0 => Top' > Len(log)
    <2>1. /\ Len(log') = Len(log) + 1 /\ DOMAIN log' = 1..Len(log')
          /\ \A j \in 1..Len(log) : log'[j] = log[j]
      BY <1>1, <1>3
    <2>2. Top' # 0 => Top' > Len(log)
      BY <1>1, <2>1 DEF Top, Current, VersionAt
    <2>3. QED
      BY <1>1, <1>3, <2>1, <2>2, AppendKeeps, EditOfKept
  <1>4. QED
    BY <1>1, <1>2, <1>3, HistoryGrows

(* A step of one client is not a step of another. *)
LEMMA OneAtATime ==
  ASSUME IInv, NEW c \in Clients, Call(c) \/ Step(c) \/ Faulty(c), NEW d \in Clients \ {c}
  PROVE  UNCHANGED <<asked[d], born[d], pc[d], got[d], draft[d], tries[d], answer[d]>>
  <1> USE DEF Return, Raise, Conflict, Continue, Prepare, call, IInv, TypeOK
  <1>1. CASE Call(c)
    BY <1>1 DEF Call
  <1>2. CASE BelowCap(c) \/ AtCap(c) \/ CapGet(c) \/ GetAbsent(c) \/ PutRefused(c) \/ Reget(c)
    BY <1>2 DEF BelowCap, AtCap, CapGet, GetAbsent, PutRefused, Reget
  <1>3. CASE ReadFile(c) \/ WriteFile(c) \/ ReplaceFact(c) \/ AppendLine(c) \/ DeleteFile(c)
    BY <1>3 DEF ReadFile, WriteFile, ReplaceFact, AppendLine, DeleteFile, Found
  <1>4. CASE PutCommits(c) \/ Faulty(c)
    BY <1>4 DEF PutCommits, Faulty, Unavailable, PutLost, PutResent, PutTimesOut
  <1>5. QED
    BY <1>1, <1>2, <1>3, <1>4 DEF Step

(* What is known of a call is still so when the history has grown. *)
LEMMA CallFitsKept ==
  ASSUME Known, [Next]_vars, NEW d \in Clients,
         UNCHANGED <<asked[d], born[d], pc[d], got[d], draft[d], tries[d]>>
  PROVE  /\ born'[d] \in 0..Len(log')
         /\ IF pc'[d] = "idle" THEN tries'[d] = 0 ELSE CallFits(d)'
  <1>1. /\ born[d] \in 0..Len(log)
        /\ IF pc[d] = "idle" THEN tries[d] = 0 ELSE CallFits(d)
        /\ req(d)' = req(d)
    BY DEF Known, CallsFit, req
  <1>2. Len(log) \in Nat /\ Len(log') \in Nat /\ Len(log) <= Len(log')
    BY HistoryKept DEF Known
  <1>3. ASSUME pc[d] # "idle" PROVE CallFits(d)'
    <2>1. req(d).expected \in 0..Len(log) /\ req(d).expected \in Nat
      BY <1>1, <1>2, <1>3 DEF CallFits
    <2>2. OvertakenFits(d) => OvertakenFits(d)'
      BY <1>1, <1>2, <2>1, HistoryKept DEF OvertakenFits, Known
    <2>3. EditOf(log, req(d), req(d).expected, draft[d])
            => EditOf(log', req(d), req(d).expected, draft[d])
      BY <2>1, HistoryKept DEF Known
    <2>4. got[d].version \in DOMAIN log =>
            got[d].version \in DOMAIN log' /\ log'[got[d].version] = log[got[d].version]
      BY <1>2, HistoryKept DEF Known
    <2>5. CallFits(d)
      BY <1>1, <1>3
    <2>6. QED
      BY <1>1, <2>2, <2>3, <2>4, <2>5 DEF CallFits
  <1>4. QED
    BY <1>1, <1>2, <1>3

-----------------------------------------------------------------------------
(* A client's own steps keep what is known of its call: one that begins, *)
LEMMA BegunFits ==
  ASSUME Known, NEW c \in Clients, Call(c)
  PROVE  /\ born'[c] \in 0..Len(log')
         /\ IF pc'[c] = "idle" THEN tries'[c] = 0 ELSE CallFits(c)'
  <1>1. PICK call0 \in Calls, v \in 0..Len(log) :
          LET r == [call0 EXCEPT !.expected = v] IN
          /\ r.op \in {"replace", "append", "delete"} => v > 0
          /\ asked' = [asked EXCEPT ![c] = Append(@, r)]
          /\ born' = [born EXCEPT ![c] = Len(log)]
          /\ IF ~r.valid
             THEN Raise(c, "invalid")
             ELSE IF r.op = "write" /\ Oversize(r.text)
                  THEN Raise(c, "oversize")
                  ELSE /\ answer' = [answer EXCEPT ![c] = NoAnswer]
                       /\ pc' = [pc EXCEPT ![c] = FirstStep(r)]
                       /\ UNCHANGED <<got, draft, tries>>
    BY DEF Call
  <1> DEFINE r == [call0 EXCEPT !.expected = v]
  <1>2. /\ log' = log /\ Len(log) \in Nat /\ v \in Nat /\ tries[c] = 0
        /\ log \in Seq(Entry) /\ TypeOK
    BY DEF Call, storage, Known, IInv, TypeOK, CallsFit
  <1>3. r \in Request /\ r.expected = v
    BY <1>2, FilesAssumption DEF Request
  <1>4. req(c)' = r /\ born'[c] = Len(log)
    <2> HIDE DEF r
    <2>1. asked'[c] = Append(asked[c], r) /\ asked[c] \in Seq(Request)
      BY <1>1, <1>2 DEF TypeOK, r
    <2>2. asked'[c][Len(asked'[c])] = r
      BY <1>3, <2>1
    <2>3. QED
      BY <1>1, <1>2, <2>2 DEF req, TypeOK
  <1>5. CASE pc'[c] = "idle"
    <2>1. tries'[c] = 0
      <3> HIDE DEF r
      <3>1. \/ tries' = [tries EXCEPT ![c] = 0]
            \/ UNCHANGED tries
        BY <1>1 DEF Raise, Return, r
      <3>2. QED
        BY <1>2, <3>1 DEF TypeOK
    <2>2. QED
      BY <1>2, <1>4, <1>5, <2>1
  <1>6. CASE pc'[c] # "idle"
    <2>1. pc'[c] = FirstStep(r) /\ tries' = tries
      <3> HIDE DEF r
      <3>1. QED
        BY <1>1, <1>2, <1>6 DEF Raise, Return, TypeOK, r
    <2>2. /\ r.op \in {"replace", "append", "delete"} => v > 0
          /\ pc'[c] = "cap" => r.op = "write" /\ v = 0
          /\ pc'[c] \in {"cap", "get"}
      BY <1>1, <1>3, <2>1 DEF FirstStep
    <2>3. CallFits(c)'
      <3> HIDE DEF r
      <3>1. v \in 0..born'[c]
        BY <1>2, <1>4
      <3>2. ~(tries'[c] > 0)
        BY <1>2, <2>1
      <3>3. QED
        BY <1>3, <1>4, <2>2, <3>1, <3>2 DEF CallFits
    <2>4. QED
      BY <1>2, <1>4, <1>6, <2>3
  <1>7. QED
    BY <1>5, <1>6

(* one that ends, *)
LEMMA EndedFits ==
  ASSUME Known, NEW c \in Clients, NEW k, NEW v, NEW o, Return(c, k, v, o), UNCHANGED born,
         Len(log') \in Nat, Len(log) <= Len(log')
  PROVE  /\ pc'[c] = "idle"
         /\ answer'[c] = [kind |-> k, version |-> v, object |-> o]
         /\ born'[c] \in 0..Len(log')
         /\ tries'[c] = 0
  BY DEF Return, Known, IInv, TypeOK, CallsFit

(* one that has computed its edit of the object it has just read, *)
LEMMA PreparedFits ==
  ASSUME Known, NEW c \in Clients, pc[c] = "get", Prepare(c),
         UNCHANGED <<storage, call, bounds>>, Top # 0,
         req(c).op = "append" => Top = req(c).expected
  PROVE  pc'[c] # "idle" /\ CallFits(c)'
  <1>1. /\ UNCHANGED <<log, asked, born>> /\ req(c)' = req(c)
        /\ CallFits(c) /\ born[c] \in 0..Len(log)
    BY DEF storage, call, req, Known, CallsFit
  <1>2. /\ pc'[c] = "put" /\ got'[c] = [version |-> Top, object |-> Here]
        /\ tries'[c] = tries[c]
    BY DEF Prepare, Continue, Known, IInv, TypeOK
  <1>3. /\ Top = Len(log) /\ Top \in DOMAIN log /\ log[Top].object = Here /\ Here # NoFile
        /\ Len(log) \in Nat
    <2>1. log \in Seq(Entry)
      BY DEF Known, IInv, TypeOK
    <2>2. QED
      BY <2>1, TopType DEF Known, IInv, Top, Here, Current, VersionAt, ObjectAt
  <1>4. req(c).op = "append" => req(c).expected = born[c]
    BY <1>1, <1>3 DEF CallFits
  <1>5. tries[c] > 0 => Top # req(c).expected
    BY <1>1 DEF CallFits, OvertakenFits
  <1>6. Top >= born[c]
    BY <1>1, <1>3
  <1>7. QED
    BY <1>1, <1>2, <1>3, <1>4, <1>5, <1>6 DEF CallFits

(* and one whose put was refused: the version it named is gone. *)
LEMMA RefusedFits ==
  ASSUME Known, NEW c \in Clients, PutRefused(c)
  PROVE  /\ born'[c] \in 0..Len(log')
         /\ IF pc'[c] = "idle" THEN tries'[c] = 0 ELSE CallFits(c)'
  <1>1. /\ UNCHANGED <<log, asked, born>> /\ req(c)' = req(c) /\ pc[c] = "put"
        /\ CallFits(c) /\ born[c] \in 0..Len(log) /\ Top # Precondition(c)
        /\ EditOf(log, req(c), Precondition(c), draft[c])
        /\ DOMAIN log = 1..Len(log) /\ Len(log) \in Nat /\ TypeOK
    BY DEF PutRefused, Accepts, storage, call, req, Known, CallsFit, IInv, DraftsFit, TypeOK
  <1>2. CASE req(c).op # "replace"
    <2>1. Continue(c, "reget", got[c], draft[c], 0)
      BY <1>2 DEF PutRefused
    <2>2. pc'[c] = "reget" /\ draft'[c] = draft[c] /\ tries'[c] = 0
      BY <1>1, <2>1 DEF Continue, TypeOK
    <2>3. Precondition(c) = req(c).expected
      BY <1>2 DEF Precondition
    <2>4. OvertakenFits(c)'
      BY <1>1, <2>3 DEF OvertakenFits, Top
    <2>5. QED
      BY <1>1, <1>2, <2>2, <2>3, <2>4 DEF CallFits
  <1>3. CASE req(c).op = "replace"
    <2>1. /\ Precondition(c) = got[c].version /\ got[c].version \in 1..Len(log)
          /\ got[c].version >= born[c] /\ req(c).expected \in 0..born[c]
      BY <1>1, <1>3 DEF Precondition, CallFits
    <2>2. Top # 0 => Top # req(c).expected
      <3>1. Top # 0 => Top = Len(log)
        BY DEF Top, Current, VersionAt
      <3>2. QED
        BY <1>1, <2>1, <3>1
    <2>3. \/ pc'[c] = "get" /\ Continue(c, "get", got[c], NoFile, tries[c] + 1)
          \/ Return(c, "conflict", got[c].version, got[c].object)
      BY <1>1, <1>3 DEF PutRefused, Continue, TypeOK
    <2>4. CASE pc'[c] = "get" /\ Continue(c, "get", got[c], NoFile, tries[c] + 1)
      <3>1. OvertakenFits(c)'
        BY <1>1, <2>2 DEF OvertakenFits, Top
      <3>2. QED
        BY <1>1, <2>4, <3>1 DEF CallFits
    <2>5. CASE Return(c, "conflict", got[c].version, got[c].object)
      <3>1. UNCHANGED born /\ Len(log') \in Nat /\ Len(log) <= Len(log')
        BY <1>1
      <3>2. pc'[c] = "idle" /\ tries'[c] = 0 /\ born'[c] \in 0..Len(log')
        BY <2>5, <3>1, EndedFits
      <3>3. QED
        BY <3>2
    <2>6. QED
      BY <2>3, <2>4, <2>5
  <1>4. QED
    BY <1>2, <1>3

LEMMA OwnStepFits ==
  ASSUME Known, NEW c \in Clients, Call(c) \/ Step(c) \/ Faulty(c)
  PROVE  /\ born'[c] \in 0..Len(log')
         /\ IF pc'[c] = "idle" THEN tries'[c] = 0 ELSE CallFits(c)'
  <1>0. Call(c) \/ Step(c) \/ Faulty(c) => [Next]_vars
    BY DEF Next
  <1>1. Len(log) \in Nat /\ Len(log') \in Nat /\ Len(log) <= Len(log')
    BY <1>0, HistoryKept DEF Known
  <1>2. ASSUME NEW k, NEW v, NEW o, Return(c, k, v, o), UNCHANGED born
        PROVE  born'[c] \in 0..Len(log') /\ pc'[c] = "idle" /\ tries'[c] = 0
    BY <1>1, <1>2, EndedFits
  <1>3. CASE Call(c)
    BY <1>3, BegunFits
  <1>4. CASE BelowCap(c) \/ AtCap(c)
    <2>1. /\ UNCHANGED <<log, asked, born>> /\ req(c)' = req(c)
          /\ CallFits(c) /\ born[c] \in 0..Len(log) /\ pc[c] = "cap"
          /\ pc'[c] \in {"put", "capget"} /\ tries'[c] = 0
      BY <1>4
         DEF BelowCap, AtCap, Continue, storage, call, req, Known, CallsFit, IInv, TypeOK
    <2>2. QED
      BY <2>1 DEF CallFits
  <1>5. CASE CapGet(c) \/ GetAbsent(c) \/ ReadFile(c) \/ Reget(c)
    BY <1>2, <1>5
       DEF CapGet, GetAbsent, ReadFile, Found, Reget, Conflict, Raise, call
  <1>6. CASE WriteFile(c) \/ ReplaceFact(c) \/ AppendLine(c) \/ DeleteFile(c)
    <2>1. pc[c] = "get" /\ Top # 0 /\ UNCHANGED <<storage, call, bounds>>
      BY <1>6 DEF WriteFile, ReplaceFact, AppendLine, DeleteFile, Found
    <2>2. \/ \E k, v, o : Return(c, k, v, o)
          \/ Prepare(c) /\ (req(c).op = "append" => Top = req(c).expected)
      <3>1. CASE WriteFile(c)
        BY <3>1 DEF WriteFile, Found, Conflict, Raise
      <3>2. CASE ReplaceFact(c)
        BY <3>2 DEF ReplaceFact, Found, Conflict, Raise
      <3>3. CASE AppendLine(c)
        BY <3>3 DEF AppendLine, Found, Conflict, Raise
      <3>4. CASE DeleteFile(c)
        BY <3>4 DEF DeleteFile, Found, Conflict, Raise
      <3>5. QED
        BY <1>6, <3>1, <3>2, <3>3, <3>4
    <2>3. CASE \E k, v, o : Return(c, k, v, o)
      BY <1>2, <2>1, <2>3 DEF call
    <2>4. CASE Prepare(c) /\ (req(c).op = "append" => Top = req(c).expected)
      BY <1>1, <2>1, <2>4, PreparedFits DEF Known, CallsFit, storage, call
    <2>5. QED
      BY <2>2, <2>3, <2>4
  <1>7. CASE PutRefused(c)
    BY <1>7, RefusedFits
  <1>8. CASE PutCommits(c) \/ Unavailable(c) \/ PutLost(c) \/ PutTimesOut(c)
    BY <1>2, <1>8 DEF PutCommits, Unavailable, PutLost, PutTimesOut, Raise, call
  <1>9. CASE PutResent(c)
    BY <1>0, <1>9, CallFitsKept DEF PutResent, Faulty, call
  <1>10. QED
    BY <1>3, <1>4, <1>5, <1>6, <1>7, <1>8, <1>9 DEF Step, Faulty

LEMMA NextCallsFit == Known /\ [Next]_vars => CallsFit'
  <1> SUFFICES ASSUME Known, [Next]_vars, NEW d \in Clients
               PROVE  /\ born'[d] \in 0..Len(log')
                      /\ IF pc'[d] = "idle" THEN tries'[d] = 0 ELSE CallFits(d)'
    BY DEF CallsFit
  <1>1. ASSUME NEW c \in Clients, Call(c) \/ Step(c) \/ Faulty(c)
        PROVE  /\ born'[d] \in 0..Len(log')
               /\ IF pc'[d] = "idle" THEN tries'[d] = 0 ELSE CallFits(d)'
    <2>1. CASE c = d
      BY <1>1, <2>1, OwnStepFits
    <2>2. CASE c # d
      BY <1>1, <2>2, OneAtATime, CallFitsKept DEF Known
    <2>3. QED
      BY <2>1, <2>2
  <1>2. CASE LatePut \/ OutsideEdit \/ UNCHANGED vars
    BY <1>2, CallFitsKept DEF LatePut, OutsideEdit, vars, call
  <1>3. QED
    BY <1>1, <1>2 DEF Next

LEMMA InitKnown == Init => Known
  <1> SUFFICES ASSUME Init PROVE CallsFit
    BY InitIInv DEF Known
  <1>1. Len(log) = 0
    BY DEF Init
  <1>2. QED
    BY <1>1 DEF Init, CallsFit

LEMMA NextKnown == Known /\ [Next]_vars => Known'
  BY NextIInv, NextCallsFit DEF Known

-----------------------------------------------------------------------------
(* What the history alone shows. *)

(* A version is replaced once: a call that names it finds it at one place  *)
(* of the history only.                                                    *)
LEMMA NamedOnce == IInv => GuardedCallLandsOnce
  <1> SUFFICES ASSUME IInv, NEW i \in DOMAIN log, NEW j \in DOMAIN log, i < j,
                      log[i].client \in Clients, log[i].client = log[j].client,
                      Guarded(RequestOf(log[i])), RequestOf(log[i]).expected # 0,
                      RequestOf(log[j]) = RequestOf(log[i])
               PROVE  FALSE
    BY DEF GuardedCallLandsOnce
  <1> DEFINE r == RequestOf(log[i])
  <1>1. DOMAIN log = 1..Len(log) /\ Len(log) \in Nat
    BY DEF IInv, TypeOK
  <1>2. VersionAt(log, i - 1) = r.expected /\ VersionAt(log, j - 1) = r.expected
    BY DEF IInv, NoLostUpdate, EditOf
  <1>3. i - 1 = r.expected /\ j - 1 = r.expected
    BY <1>1, <1>2 DEF VersionAt
  <1>4. QED
    BY <1>1, <1>3

(* One edit only adds to the sources of the object it replaces. *)
SourcesAdded ==
  \A j \in DOMAIN log :
    (/\ log[j].client \in Clients /\ log[j].object # NoFile
     /\ j > 1 /\ log[j - 1].object # NoFile)
      => log[j - 1].object.sources \subseteq log[j].object.sources

LEMMA SourcesMerged == IInv => SourcesAdded
  <1> SUFFICES ASSUME IInv, NEW j \in DOMAIN log, log[j].client \in Clients,
                      log[j].object # NoFile, j > 1, log[j - 1].object # NoFile
               PROVE  log[j - 1].object.sources \subseteq log[j].object.sources
    BY DEF SourcesAdded
  <1> DEFINE r == RequestOf(log[j])
             before == log[j - 1].object
  <1>1. DOMAIN log = 1..Len(log) /\ Len(log) \in Nat
    BY DEF IInv, TypeOK
  <1>2. EditOf(log, r, VersionAt(log, j - 1), log[j].object)
    BY DEF IInv, NoLostUpdate
  <1>3. VersionAt(log, j - 1) = j - 1 /\ ObjectAt(log, j - 1) = before
    BY <1>1 DEF VersionAt, ObjectAt
  <1>4. PICK t \in Stamps : log[j].object = Edited(r, before, t)
    BY <1>2, <1>3 DEF EditOf
  <1>5. log[j].object.sources = before.sources \union r.sources
    BY <1>4 DEF Edited, MergedSources
  <1>6. QED
    BY <1>5

LEMMA InitProvenance == Init => ProvenanceGrows
  BY DEF Init, ProvenanceGrows

LEMMA NextProvenance == IInv /\ ProvenanceGrows /\ [Next]_vars => ProvenanceGrows'
  <1> SUFFICES ASSUME IInv, ProvenanceGrows, [Next]_vars PROVE ProvenanceGrows'
    OBVIOUS
  <1>1. /\ IInv' /\ DOMAIN log = 1..Len(log) /\ DOMAIN log' = 1..Len(log')
        /\ Len(log) \in Nat /\ Len(log') \in Nat
        /\ \A j \in 1..Len(log) : log'[j] = log[j]
    BY NextIInv, HistoryKept
  <1>2. /\ Len(log) \in Nat /\ Len(log') \in Nat
        /\ Len(log') = Len(log) \/ Len(log') = Len(log) + 1
    BY HistoryGrows DEF IInv, TypeOK
  <1> SUFFICES ASSUME NEW i \in 1..Len(log'), NEW j \in 1..Len(log'), i < j,
                      \A k \in i..j : log'[k].client \in Clients /\ log'[k].object # NoFile
               PROVE  log'[i].object.sources \subseteq log'[j].object.sources
    BY <1>1 DEF ProvenanceGrows
  <1>3. ASSUME NEW m \in 1..Len(log), i < m, m <= j
        PROVE  log'[i].object.sources \subseteq log'[m].object.sources
    <2>1. i \in 1..Len(log) /\ log'[i] = log[i] /\ log'[m] = log[m]
      BY <1>1, <1>3
    <2>2. \A k \in i..m : log[k].client \in Clients /\ log[k].object # NoFile
      BY <1>1, <1>3
    <2>3. QED
      BY <1>1, <1>3, <2>1, <2>2 DEF ProvenanceGrows
  <1>4. CASE j <= Len(log)
    BY <1>1, <1>3, <1>4
  <1>5. CASE j = Len(log) + 1
    <2>1. /\ j - 1 \in 1..Len(log) /\ i <= j - 1 /\ j - 1 \in i..j /\ j \in i..j
          /\ j \in DOMAIN log' /\ j > 1
      BY <1>1, <1>5
    <2>2. /\ log'[j].client \in Clients /\ log'[j].object # NoFile
          /\ log'[j - 1].object # NoFile
      BY <2>1
    <2>3. log'[j - 1].object.sources \subseteq log'[j].object.sources
      <3>1. IInv' => SourcesAdded'
        BY SourcesMerged, PTL
      <3>2. QED
        BY <1>1, <2>1, <2>2, <3>1 DEF SourcesAdded
    <2>4. CASE i = j - 1
      BY <2>3, <2>4
    <2>5. CASE i < j - 1
      BY <1>3, <2>1, <2>3, <2>5
    <2>6. QED
      BY <1>1, <2>1, <2>4, <2>5
  <1>6. j <= Len(log) \/ j = Len(log) + 1
    BY <1>2
  <1>7. QED
    BY <1>4, <1>5, <1>6

-----------------------------------------------------------------------------
(* A call that is not over, or that was refused, has left nothing behind,  *)
(* in the history or in flight.                                            *)
Traceless(c) ==
  (pc[c] # "idle" \/ answer[c].kind \notin {"none", "ok", "unavailable"}) =>
    /\ \A j \in DOMAIN log : ~Mine(c, log[j])
    /\ \A s \in late : ~Mine(c, s.entry)

TracelessInv == \A c \in Clients : Traceless(c)

LEMMA NextTraceless ==
  ASSUME "resend" \notin FaultKinds, IInv, TracelessInv, [Next]_vars
  PROVE  TracelessInv'
  <1>1. /\ DOMAIN log = 1..Len(log) /\ DOMAIN log' = 1..Len(log')
        /\ Len(log) \in Nat /\ Len(log') \in Nat
        /\ \A j \in 1..Len(log) : log'[j] = log[j]
    BY HistoryKept
  (* A client that has begun no call meets no new change of its own. *)
  <1>2. ASSUME NEW d \in Clients, UNCHANGED <<asked[d], pc[d], answer[d]>>,
               \A j \in DOMAIN log' : \/ j \in DOMAIN log
                                      \/ log'[j].client # d
                                      \/ \E s \in late : log'[j] = s.entry,
               \A s \in late' : s \in late \/ s.entry.client # d
        PROVE  Traceless(d)'
    BY <1>1, <1>2 DEF TracelessInv, Traceless, Mine
  <1>3. ASSUME NEW c \in Clients, Call(c) PROVE TracelessInv'
    <2>1. UNCHANGED <<log, late>>
      BY <1>3 DEF Call, storage
    <2>2. Traceless(c)'
      <3>1. Len(asked'[c]) = Len(asked[c]) + 1 /\ Len(asked[c]) \in Nat
        <4>1. PICK r \in Request : asked' = [asked EXCEPT ![c] = Append(@, r)]
          <5>1. PICK call0 \in Calls, v \in 0..Len(log) :
                  asked' = [asked EXCEPT ![c] = Append(@, [call0 EXCEPT !.expected = v])]
            BY <1>3 DEF Call
          <5>2. [call0 EXCEPT !.expected = v] \in Request
            BY <1>1, FilesAssumption DEF Request
          <5>3. QED
            BY <5>1, <5>2
        <4>2. asked[c] \in Seq(Request) /\ asked'[c] = Append(asked[c], r)
          BY <4>1 DEF IInv, TypeOK
        <4>3. QED
          BY <4>2
      <3>2. ASSUME NEW e, Recorded(e) PROVE ~Mine(c, e)'
        BY <3>1, <3>2 DEF Recorded, Mine
      <3>3. QED
        BY <2>1, <3>2 DEF IInv, LogRecorded, LateFits, Traceless
    <2>3. \A d \in Clients \ {c} : Traceless(d)'
      BY <1>2, <1>3, <2>1, OneAtATime
    <2>4. QED
      BY <2>2, <2>3 DEF TracelessInv
  <1>4. ASSUME NEW c \in Clients, Step(c) \/ Faulty(c) PROVE TracelessInv'
    <2>0. pc[c] # "idle" /\ UNCHANGED asked
      BY <1>4
         DEF Step, Faulty, BelowCap, AtCap, CapGet, GetAbsent, ReadFile, WriteFile, ReplaceFact,
             AppendLine, DeleteFile, Found, PutCommits, PutRefused, Reget, Unavailable, PutLost,
             PutResent, PutTimesOut, call
    <2>1. CASE PutCommits(c) \/ PutLost(c) \/ PutTimesOut(c)
      <3>1. pc'[c] = "idle" /\ answer'[c].kind \in {"ok", "unavailable"}
        BY <2>1 DEF PutCommits, PutLost, PutTimesOut, Raise, Return, IInv, TypeOK
      <3>2. /\ log' = log \/ log' = Append(log, Committed(c))
            /\ \A s \in late' : s \in late \/ s.entry = Committed(c)
            /\ Committed(c).client = c
        BY <2>1 DEF PutCommits, PutLost, PutTimesOut, Store, Committed
      <3>3. \A j \in DOMAIN log' : j \in DOMAIN log \/ log'[j].client = c
        BY <3>2 DEF IInv, TypeOK
      <3>4. \A d \in Clients \ {c} : Traceless(d)'
        BY <1>2, <1>4, <3>2, <3>3, OneAtATime
      <3>5. Traceless(c)'
        BY <3>1 DEF Traceless
      <3>6. QED
        BY <3>4, <3>5 DEF TracelessInv
    <2>2. CASE ~(PutCommits(c) \/ PutLost(c) \/ PutTimesOut(c))
      <3>1. UNCHANGED <<log, late>>
        BY <1>4, <2>2
           DEF Step, Faulty, BelowCap, AtCap, CapGet, GetAbsent, ReadFile, WriteFile,
               ReplaceFact, AppendLine, DeleteFile, Found, PutRefused, Reget, Unavailable,
               PutResent, Fault, storage
      <3>2. Traceless(c)'
        BY <2>0, <3>1 DEF TracelessInv, Traceless, Mine
      <3>3. \A d \in Clients \ {c} : Traceless(d)'
        BY <1>2, <1>4, <3>1, OneAtATime
      <3>4. QED
        BY <3>2, <3>3 DEF TracelessInv
    <2>3. QED
      BY <2>1, <2>2
  <1>5. CASE LatePut
    <2>1. PICK s \in late :
            /\ late' = late \ {s}
            /\ log' = IF Top = s.expected THEN Append(log, s.entry) ELSE log
      BY <1>5 DEF LatePut
    <2>2. \A j \in DOMAIN log' : j \in DOMAIN log \/ log'[j] = s.entry
      BY <2>1 DEF IInv, TypeOK
    <2>3. QED
      BY <1>2, <1>5, <2>1, <2>2 DEF LatePut, call, TracelessInv
  <1>6. CASE OutsideEdit
    <2>1. PICK o \in OutsideObjects :
            log' = Append(log, [client |-> Outside, call |-> 0, object |-> o])
      BY <1>6 DEF OutsideEdit, Store
    <2>2. \A j \in DOMAIN log' : j \in DOMAIN log \/ log'[j].client = Outside
      BY <2>1 DEF IInv, TypeOK
    <2>3. \A d \in Clients : d # Outside
      BY FilesAssumption
    <2>4. QED
      BY <1>2, <1>6, <2>2, <2>3 DEF OutsideEdit, call, TracelessInv
  <1>7. CASE UNCHANGED vars
    BY <1>7 DEF vars, TracelessInv, Traceless, Mine
  <1>8. QED
    BY <1>3, <1>4, <1>5, <1>6, <1>7 DEF Next

-----------------------------------------------------------------------------
(* The instance of AtomicFiles speaks of the same files. *)
LEMMA SameFiles ==
  /\ \A l, i : Atomic!VersionAt(l, i) = VersionAt(l, i)
  /\ \A l, v : Atomic!ObjectAt(l, v) = ObjectAt(l, v)
  /\ \A l : Atomic!Current(l) = Current(l)
  /\ \A o : (Atomic!Decodes(o) <=> Decodes(o)) /\ (Atomic!Parses(o) <=> Parses(o))
  /\ \A b : Atomic!Oversize(b) <=> Oversize(b)
  /\ \A b, f : Atomic!Occurrences(b, f) = Occurrences(b, f)
  /\ \A r, b : Atomic!NewBody(r, b) = NewBody(r, b)
  /\ \A r, o, t : Atomic!Edited(r, o, t) = Edited(r, o, t)
  /\ \A l, r, v, o : Atomic!EditOf(l, r, v, o) <=> EditOf(l, r, v, o)
  /\ \A c : Atomic!req(c) = req(c)
  /\ Atomic!NoAnswer = NoAnswer
  <1>1. /\ \A l, i : Atomic!VersionAt(l, i) = VersionAt(l, i)
        /\ \A l, v : Atomic!ObjectAt(l, v) = ObjectAt(l, v)
    BY DEF Atomic!VersionAt, VersionAt, Atomic!ObjectAt, ObjectAt
  <1>2. \A l : Atomic!Current(l) = Current(l)
    BY <1>1 DEF Atomic!Current, Current
  <1>3. /\ \A o : (Atomic!Decodes(o) <=> Decodes(o)) /\ (Atomic!Parses(o) <=> Parses(o))
        /\ \A b : Atomic!Oversize(b) <=> Oversize(b)
    BY DEF Atomic!Decodes, Decodes, Atomic!Parses, Parses, Atomic!Oversize, Oversize
  <1>4. \A b, f : Atomic!Occurrences(b, f) = Occurrences(b, f)
    <2>1. \A S : Atomic!Cardinality(S) = Cardinality(S)
      BY DEF Atomic!Cardinality, Cardinality
    <2>2. QED
      BY <2>1 DEF Atomic!Occurrences, Occurrences
  <1>5. \A r, b : Atomic!NewBody(r, b) = NewBody(r, b)
    <2>1. \A b, f, n : Atomic!ReplaceFirst(b, f, n) = ReplaceFirst(b, f, n)
      BY DEF Atomic!ReplaceFirst, ReplaceFirst
    <2>2. QED
      BY <2>1 DEF Atomic!NewBody, NewBody
  <1>6. \A r, o, t : Atomic!Edited(r, o, t) = Edited(r, o, t)
    <2>1. \A r, o : Atomic!MergedSources(r, o) = MergedSources(r, o)
      BY DEF Atomic!MergedSources, MergedSources
    <2>2. QED
      BY <1>5, <2>1 DEF Atomic!Edited, Edited
  <1>7. \A l, r, v, o : Atomic!EditOf(l, r, v, o) <=> EditOf(l, r, v, o)
    <2>1. /\ \A r : Atomic!Guarded(r) <=> Guarded(r)
          /\ Atomic!Mutators = Mutators
      BY DEF Atomic!Guarded, Guarded, Atomic!Mutators, Mutators, Atomic!Ops, Ops
    <2>2. QED
      BY <1>1, <1>3, <1>4, <1>6, <2>1 DEF Atomic!EditOf, EditOf
  <1>8. \A c : Atomic!req(c) = req(c)
    BY DEF Atomic!req, req
  <1>9. Atomic!NoAnswer = NoAnswer
    BY DEF Atomic!NoAnswer, NoAnswer
  <1>10. QED
    BY <1>1, <1>2, <1>3, <1>4, <1>5, <1>6, <1>7, <1>8, <1>9

-----------------------------------------------------------------------------
(* Which answers the history justifies. *)

(* The step of a call that answers: from here on the client is outside. *)
Responds(c) ==
  /\ pc' = [pc EXCEPT ![c] = "idle"]
  /\ answer' = [answer EXCEPT ![c] = answer'[c]]
  /\ Atomic!Justified(c, log', answer'[c])

LEMMA ReturnResponds ==
  ASSUME Known, NEW c \in Clients, NEW k, NEW v, NEW o, Return(c, k, v, o),
         Atomic!Justified(c, log', [kind |-> k, version |-> v, object |-> o])
  PROVE  Responds(c)
  <1>1. /\ pc' = [pc EXCEPT ![c] = "idle"]
        /\ answer' = [answer EXCEPT ![c] = [kind |-> k, version |-> v, object |-> o]]
    BY DEF Return
  <1>2. answer'[c] = [kind |-> k, version |-> v, object |-> o]
    BY <1>1 DEF Known, IInv, TypeOK
  <1>3. QED
    BY <1>1, <1>2 DEF Responds

(* What a get returns was so at that moment of the call. *)
LEMMA HereIsAMoment ==
  ASSUME Known, NEW c \in Clients
  PROVE  /\ Atomic!Was(c, log, Top, Here)
         /\ Here \in Atomic!Moments(c, log)
  <1>1. Len(log) \in born[c]..Len(log)
    BY DEF Known, CallsFit
  <1>2. Top = VersionAt(log, Len(log)) /\ Here = ObjectAt(log, Top)
    BY DEF Top, Current, Here
  <1>3. QED
    BY <1>1, <1>2, SameFiles DEF Atomic!Was, Atomic!Moments

(* Answers that say what is there now. *)
LEMMA HereJustifies ==
  ASSUME Known, NEW c \in Clients, log' = log
  PROVE  /\ Top = 0
              => Atomic!Justified(c, log', [kind |-> "absent", version |-> 0, object |-> NoFile])
         /\ Top = 0 /\ req(c).expected = 0
              => Atomic!Justified(c, log', [kind |-> "quota", version |-> 0, object |-> NoFile])
         /\ Top \notin {0, req(c).expected}
              => Atomic!Justified(c, log', [kind |-> "conflict", version |-> Top, object |-> Here])
         /\ Top # 0 /\ ~(Decodes(Here) /\ Parses(Here))
              => Atomic!Justified(c, log',
                                  [kind |-> "malformed", version |-> 0, object |-> NoFile])
         /\ Top # 0 /\ req(c).op = "read"
              => Atomic!Justified(c, log', [kind |-> "ok", version |-> Top, object |-> Here])
         /\ Top = req(c).expected /\ Occurrences(Here.body, req(c).anchor) # 1
              => Atomic!Justified(c, log', [kind |-> "match", version |-> Top, object |-> Here])
         /\ (/\ Top # 0 /\ Oversize(NewBody(req(c), Here.body))
             /\ (req(c).op = "replace" => Occurrences(Here.body, req(c).anchor) = 1))
              => Atomic!Justified(c, log',
                                  [kind |-> "oversize", version |-> 0, object |-> NoFile])
         /\ Atomic!Justified(c, log',
                             [kind |-> "unavailable", version |-> 0, object |-> NoFile])
  <1>1. /\ Atomic!Was(c, log, Top, Here) /\ Here \in Atomic!Moments(c, log)
        /\ Top = 0 <=> Here = NoFile
    BY HereIsAMoment, TopType DEF Known, IInv
  <1> DEFINE Plain(k) == [kind |-> k, version |-> 0, object |-> NoFile]
             Shown(k) == [kind |-> k, version |-> Top, object |-> Here]
  <1>2. /\ Top = 0 => Atomic!Justified(c, log, Plain("absent"))
        /\ Top = 0 /\ req(c).expected = 0 => Atomic!Justified(c, log, Plain("quota"))
    BY <1>1, SameFiles DEF Atomic!Justified
  <1>3. Top \notin {0, req(c).expected} => Atomic!Justified(c, log, Shown("conflict"))
    BY <1>1, SameFiles DEF Atomic!Justified
  <1>4. Top # 0 /\ ~(Decodes(Here) /\ Parses(Here)) => Atomic!Justified(c, log, Plain("malformed"))
    BY <1>1, SameFiles DEF Atomic!Justified
  <1>5. Top # 0 /\ req(c).op = "read" => Atomic!Justified(c, log, Shown("ok"))
    BY <1>1, SameFiles DEF Atomic!Justified
  <1>6. Top = req(c).expected /\ Occurrences(Here.body, req(c).anchor) # 1
          => Atomic!Justified(c, log, Shown("match"))
    BY <1>1, SameFiles DEF Atomic!Justified
  <1>7. ASSUME Top # 0, Oversize(NewBody(req(c), Here.body)),
               req(c).op = "replace" => Occurrences(Here.body, req(c).anchor) = 1
        PROVE  Atomic!Justified(c, log, Plain("oversize"))
    BY <1>1, <1>7, SameFiles DEF Atomic!Justified
  <1>8. Atomic!Justified(c, log, Plain("unavailable"))
    BY DEF Atomic!Justified
  <1>9. QED
    BY <1>2, <1>3, <1>4, <1>5, <1>6, <1>7, <1>8

(* A put that storage accepted, answered at once. *)
LEMMA CommitResponds ==
  ASSUME Known, NEW c \in Clients, PutCommits(c)
  PROVE  Responds(c)
  <1>1. /\ pc[c] = "put" /\ log' = Append(log, Committed(c))
        /\ Return(c, "ok", IF draft[c] = NoFile THEN 0 ELSE Len(log'), draft[c])
    BY DEF PutCommits, Store
  <1>2. /\ req(c).op \in Mutators /\ Precondition(c) \in 0..Len(log)
        /\ EditOf(log, req(c), Precondition(c), draft[c])
        /\ asked[c] # <<>> /\ TypeOK /\ born[c] \in 0..Len(log)
    BY <1>1 DEF Known, IInv, CallsInProgress, DraftsFit, CallsFit
  <1>3. /\ log \in Seq(Entry) /\ Len(log') = Len(log) + 1 /\ Len(log) \in Nat
        /\ log'[Len(log')] = Committed(c)
        /\ Len(log') \in born[c] + 1..Len(log')
    BY <1>1, <1>2, CommittedFits DEF Known, TypeOK
  <1>4. Atomic!Own(c, log', Len(log'), draft[c])
    BY <1>3 DEF Atomic!Own, Committed
  <1> DEFINE before == ObjectAt(log, Precondition(c))
  <1>5. PICK t \in Stamps : draft[c] = Edited(req(c), before, t)
    BY <1>2 DEF EditOf
  <1>6. CASE req(c).op = "delete"
    <2>1. draft[c] = NoFile
      BY <1>5, <1>6 DEF Edited
    <2>2. Atomic!Justified(c, log', [kind |-> "ok", version |-> 0, object |-> NoFile])
      <3>1. \E j \in born[c] + 1..Len(log') : Atomic!Own(c, log', j, NoFile)
        BY <1>3, <1>4, <2>1
      <3>2. QED
        BY <1>6, <3>1, SameFiles DEF Atomic!Justified
    <2>3. QED
      BY <1>1, <2>1, <2>2, ReturnResponds
  <1>7. CASE req(c).op # "delete"
    <2>1. draft[c] \in Object
      <3>1. before \in MaybeObject
        <4>1. Precondition(c) # 0 => log[Precondition(c)] \in Entry
          BY <1>2, <1>3
        <4>2. QED
          BY <4>1 DEF ObjectAt, MaybeObject, Entry
      <3>2. req(c).op = "replace" => before # NoFile /\ Occurrences(before.body, req(c).anchor) = 1
        BY <1>2 DEF EditOf
      <3>3. req(c) \in Request
        BY <1>2, ReqType
      <3>4. QED
        BY <1>5, <1>7, <3>1, <3>2, <3>3, EditedType
    <2>2. draft[c] # NoFile
      BY <2>1, FilesAssumption
    <2>3. req(c).op \notin {"read", "delete"}
      BY <1>2, <1>7 DEF Mutators
    <2>4. log'[Len(log')].object = draft[c]
      BY <1>3 DEF Committed
    <2>5. Atomic!Justified(c, log', [kind |-> "ok", version |-> Len(log'), object |-> draft[c]])
      BY <1>3, <1>4, <2>3, <2>4, SameFiles DEF Atomic!Justified
    <2>6. QED
      BY <1>1, <2>2, <2>5, ReturnResponds
  <1>8. QED
    BY <1>6, <1>7

(* append_line finds its own line stored, or another's that is the same. *)
LEMMA LandedJustified ==
  ASSUME Known, NEW c \in Clients, pc[c] = "reget", log' = log, Top # 0,
         req(c).op = "append", Here = draft[c]
  PROVE  Atomic!Justified(c, log', [kind |-> "ok", version |-> Top, object |-> draft[c]])
  <1>1. /\ req(c).expected = born[c] /\ Top # req(c).expected
        /\ EditOf(log, req(c), req(c).expected, draft[c])
        /\ born[c] \in 0..Len(log) /\ log \in Seq(Entry)
    BY DEF Known, CallsFit, CallFits, OvertakenFits, IInv, TypeOK
  <1>2. Top = Len(log) /\ log[Top].object = Here
    BY DEF Top, Here, Current, VersionAt, ObjectAt
  <1>3. Top \in born[c] + 1..Len(log)
    BY <1>1, <1>2
  <1>4. \E t \in Stamps : draft[c] = Edited(req(c), ObjectAt(log, req(c).expected), t)
    BY <1>1 DEF EditOf
  <1>5. QED
    BY <1>2, <1>3, <1>4, SameFiles DEF Atomic!Justified

(* replace_fact gives up with the object its last attempt was based on. *)
LEMMA GivenUpJustified ==
  ASSUME Known, MaxAttempts > 1, NEW c \in Clients, pc[c] = "put", log' = log,
         req(c).op = "replace", ~(tries[c] + 1 < MaxAttempts)
  PROVE  Atomic!Justified(c, log',
           [kind |-> "conflict", version |-> got[c].version, object |-> got[c].object])
  <1>1. /\ got[c].version \in DOMAIN log
        /\ log[got[c].version].object = got[c].object
        /\ got[c].object # NoFile
        /\ got[c].version >= born[c]
        /\ tries[c] > 0 => got[c].version # req(c).expected
        /\ tries[c] \in 0..(MaxAttempts - 1) /\ log \in Seq(Entry) /\ born[c] \in Nat
    BY DEF Known, CallsFit, CallFits, IInv, TypeOK
  <1>2. tries[c] > 0
    BY <1>1, StoreAssumption
  <1> DEFINE v == got[c].version
  <1>3. v \in born[c]..Len(log) /\ v # 0
    BY <1>1
  <1>4. VersionAt(log, v) = v /\ ObjectAt(log, v) = got[c].object
    BY <1>1, <1>3 DEF VersionAt, ObjectAt
  <1>5. Atomic!Was(c, log, v, got[c].object)
    BY <1>3, <1>4, SameFiles DEF Atomic!Was
  <1>6. QED
    BY <1>1, <1>2, <1>3, <1>5, SameFiles DEF Atomic!Justified

(* A step of a call answers, and the answer is justified, or goes on. *)
GoesOn(c) ==
  /\ pc'[c] # "idle" /\ \A d \in Clients \ {c} : pc'[d] = pc[d]
  /\ UNCHANGED <<answer, late>>

LEMMA StepResponds ==
  ASSUME Known, MaxAttempts > 1, NEW c \in Clients, Step(c) \/ Faulty(c)
  PROVE  GoesOn(c) \/ Responds(c)
  <1>0. /\ pc[c] # "idle" /\ CallFits(c) /\ TypeOK
        /\ req(c).expected \in 0..born[c] /\ born[c] \in Nat
    <2>1. pc[c] # "idle"
      BY DEF Step, Faulty, BelowCap, AtCap, CapGet, GetAbsent, ReadFile, WriteFile, ReplaceFact,
             AppendLine, DeleteFile, Found, PutCommits, PutRefused, Reget, Unavailable, PutLost,
             PutResent, PutTimesOut
    <2>2. QED
      BY <2>1 DEF Known, CallsFit, CallFits, IInv, TypeOK
  <1>1. CASE \/ BelowCap(c) \/ AtCap(c) \/ PutResent(c)
    BY <1>0, <1>1 DEF BelowCap, AtCap, PutResent, Continue, GoesOn, storage, TypeOK
  <1>2. ASSUME pc[c] = "get", Prepare(c), UNCHANGED late PROVE GoesOn(c)
    BY <1>0, <1>2 DEF Prepare, Continue, GoesOn, TypeOK
  <1>3. CASE CapGet(c) \/ GetAbsent(c) \/ ReadFile(c)
    <2>1. log' = log
      BY <1>3 DEF CapGet, GetAbsent, ReadFile, Found, storage
    <2>2. CapGet(c) => req(c).expected = 0
      BY <1>0 DEF CapGet, CallFits
    <2>3. QED
      BY <1>3, <2>1, <2>2, HereJustifies, ReturnResponds
         DEF CapGet, GetAbsent, ReadFile, Found, Raise, Conflict
  <1>4. CASE WriteFile(c)
    BY <1>2, <1>4, HereJustifies, ReturnResponds DEF WriteFile, Found, storage, Raise, Conflict
  <1>5. CASE ReplaceFact(c)
    <2>1. /\ pc[c] = "get" /\ Top # 0 /\ req(c).op = "replace" /\ UNCHANGED <<log, late>>
      BY <1>5 DEF ReplaceFact, Found, storage
    <2>2. QED
      BY <1>2, <1>5, <2>1, HereJustifies, ReturnResponds DEF ReplaceFact, Raise, Conflict
  <1>6. CASE AppendLine(c)
    <2>1. /\ pc[c] = "get" /\ Top # 0 /\ req(c).op = "append" /\ UNCHANGED <<log, late>>
      BY <1>6 DEF AppendLine, Found, storage
    <2>2. QED
      BY <1>2, <1>6, <2>1, HereJustifies, ReturnResponds DEF AppendLine, Raise, Conflict
  <1>7. CASE DeleteFile(c)
    BY <1>2, <1>7, HereJustifies, ReturnResponds DEF DeleteFile, Found, storage, Raise, Conflict
  <1>8. CASE PutCommits(c)
    BY <1>8, CommitResponds
  <1>9. CASE PutRefused(c)
    <2>1. /\ pc[c] = "put" /\ UNCHANGED <<log, late>>
      BY <1>9 DEF PutRefused, storage
    <2>2. CASE req(c).op # "replace" \/ tries[c] + 1 < MaxAttempts
      BY <1>0, <1>9, <2>2 DEF PutRefused, Continue, GoesOn, storage, TypeOK
    <2>3. CASE req(c).op = "replace" /\ ~(tries[c] + 1 < MaxAttempts)
      BY <1>9, <2>1, <2>3, GivenUpJustified, ReturnResponds DEF PutRefused
    <2>4. QED
      BY <2>2, <2>3
  <1>10. CASE Reget(c)
    <2>1. /\ pc[c] = "reget" /\ Top # 0 /\ UNCHANGED <<log, late>>
      BY <1>10 DEF Reget, storage
    <2>2. Top # req(c).expected
      BY <1>0, <2>1 DEF CallFits, OvertakenFits
    <2>3. CASE req(c).op = "append" /\ Here = draft[c]
      BY <1>10, <2>1, <2>3, LandedJustified, ReturnResponds DEF Reget
    <2>4. CASE ~(req(c).op = "append" /\ Here = draft[c])
      BY <1>10, <2>1, <2>2, <2>4, HereJustifies, ReturnResponds DEF Reget, Raise, Conflict
    <2>5. QED
      BY <2>3, <2>4
  <1>11. CASE Unavailable(c) \/ PutLost(c) \/ PutTimesOut(c)
    <2>1. Atomic!Justified(c, log', [kind |-> "unavailable", version |-> 0, object |-> NoFile])
      BY DEF Atomic!Justified
    <2>2. QED
      BY <1>11, <2>1, ReturnResponds DEF Unavailable, PutLost, PutTimesOut, Raise
  <1>12. QED
    BY <1>1, <1>3, <1>4, <1>5, <1>6, <1>7, <1>8, <1>9, <1>10, <1>11 DEF Step, Faulty

-----------------------------------------------------------------------------
(* What AckedIsStored and ConflictIsNews say of one client's answer x. *)
TrueAnswer(c, l, x) ==
  /\ x.kind = "ok" =>
       IF req(c).op = "delete"
       THEN \E j \in DOMAIN l : Mine(c, l[j]) /\ l[j].object = NoFile
       ELSE /\ x.version \in DOMAIN l
            /\ l[x.version].object = x.object
            /\ IF req(c).op = "read"
               THEN \E i \in born[c]..Len(l) : VersionAt(l, i) = x.version
               ELSE x.version > born[c]
  /\ x.kind = "conflict" =>
       /\ x.version \in DOMAIN l
       /\ x.version # req(c).expected
       /\ l[x.version].object = x.object
       /\ \E i \in born[c]..Len(l) : VersionAt(l, i) = x.version

AnswersTrue ==
  \A c \in Clients : pc[c] = "idle" => TrueAnswer(c, log, answer[c])

LEMMA JustifiedIsTrue ==
  ASSUME Known, NEW c \in Clients, NEW l \in Seq(Entry), NEW x, Atomic!Justified(c, l, x)
  PROVE  TrueAnswer(c, l, x)
  <1>1. born[c] \in Nat /\ Len(l) \in Nat /\ DOMAIN l = 1..Len(l)
    BY DEF Known, IInv, TypeOK
  <1>2. ASSUME x.version # 0, Atomic!Was(c, l, x.version, x.object)
        PROVE  /\ x.version \in DOMAIN l /\ l[x.version].object = x.object
               /\ \E i \in born[c]..Len(l) : VersionAt(l, i) = x.version
    <2>1. PICK i \in born[c]..Len(l) :
            x.version = VersionAt(l, i) /\ x.object = ObjectAt(l, x.version)
      BY <1>2, SameFiles DEF Atomic!Was
    <2>2. x.version = i
      BY <1>2, <2>1 DEF VersionAt
    <2>3. x.version \in DOMAIN l
      BY <1>1, <1>2, <2>2
    <2>4. l[x.version].object = x.object
      BY <1>2, <2>1 DEF ObjectAt
    <2>5. VersionAt(l, i) = x.version
      BY <2>1
    <2>6. QED
      BY <2>3, <2>4, <2>5
  <1>3. CASE x.kind = "conflict"
    <2>1. x.version \notin {0, req(c).expected} /\ Atomic!Was(c, l, x.version, x.object)
      BY <1>3, SameFiles DEF Atomic!Justified
    <2>2. QED
      BY <1>2, <1>3, <2>1 DEF TrueAnswer
  <1>4. CASE x.kind = "ok" /\ req(c).op = "read"
    <2>1. x.version # 0 /\ Atomic!Was(c, l, x.version, x.object)
      BY <1>4, SameFiles DEF Atomic!Justified
    <2>2. QED
      BY <1>2, <1>4, <2>1 DEF TrueAnswer
  <1>5. CASE x.kind = "ok" /\ req(c).op = "delete"
    <2>1. PICK j \in born[c] + 1..Len(l) : Atomic!Own(c, l, j, NoFile)
      BY <1>5, SameFiles DEF Atomic!Justified
    <2>2. Mine(c, l[j]) /\ l[j].object = NoFile
      BY <2>1 DEF Atomic!Own, Mine
    <2>3. j \in DOMAIN l
      BY <1>1, <2>1
    <2>4. QED
      BY <1>5, <2>2, <2>3 DEF TrueAnswer
  <1>6. CASE x.kind = "ok" /\ req(c).op \notin {"read", "delete"}
    <2>1. x.version \in born[c] + 1..Len(l) /\ l[x.version].object = x.object
      BY <1>6, SameFiles DEF Atomic!Justified
    <2>2. x.version \in DOMAIN l /\ x.version > born[c]
      BY <1>1, <2>1
    <2>3. QED
      BY <1>6, <2>1, <2>2 DEF TrueAnswer
  <1>7. QED
    BY <1>3, <1>4, <1>5, <1>6 DEF TrueAnswer

(* An answer stays true: the history it speaks of is never rewritten. *)
LEMMA TruthKept ==
  ASSUME Known, [Next]_vars, NEW d \in Clients, UNCHANGED <<asked[d], born[d], answer[d]>>,
         TrueAnswer(d, log, answer[d])
  PROVE  TrueAnswer(d, log, answer[d])'
  <1>1. /\ DOMAIN log \subseteq DOMAIN log'
        /\ \A j \in DOMAIN log : log'[j] = log[j]
    BY HistoryKept DEF Known
  <1>2. \A i \in born[d]..Len(log) :
          i \in born[d]..Len(log') /\ VersionAt(log', i) = VersionAt(log, i)
    <2>1. born[d] \in Nat
      BY DEF Known, IInv, TypeOK
    <2>2. QED
      BY <2>1, HistoryKept DEF Known
  <1>3. req(d)' = req(d) /\ \A e : Mine(d, e)' <=> Mine(d, e)
    BY DEF req, Mine
  <1>4. QED
    BY <1>1, <1>2, <1>3 DEF TrueAnswer

LEMMA NextAnswersTrue ==
  ASSUME Known, MaxAttempts > 1, AnswersTrue, [Next]_vars
  PROVE  AnswersTrue'
  <1>1. Known' /\ log' \in Seq(Entry)
    BY NextKnown DEF Known, IInv, TypeOK
  <1> SUFFICES ASSUME NEW d \in Clients, pc'[d] = "idle"
               PROVE  TrueAnswer(d, log, answer[d])'
    BY DEF AnswersTrue
  <1>2. ASSUME UNCHANGED <<asked[d], born[d], pc[d], answer[d]>>
        PROVE  TrueAnswer(d, log, answer[d])'
    BY <1>2, TruthKept DEF AnswersTrue
  <1>3. ASSUME NEW c \in Clients, Call(c) \/ Step(c) \/ Faulty(c)
        PROVE  TrueAnswer(d, log, answer[d])'
    <2>1. CASE d # c
      BY <1>2, <1>3, <2>1, OneAtATime DEF Known
    <2>2. CASE d = c /\ Call(c)
      <3>1. answer'[d].kind \in {"invalid", "oversize"}
        <4>1. \E k \in {"invalid", "oversize"} : Return(c, k, 0, NoFile)
          BY <2>2 DEF Call, Raise, FirstStep, Known, IInv, TypeOK
        <4>2. QED
          BY <2>2, <4>1 DEF Return, Known, IInv, TypeOK
      <3>2. QED
        BY <3>1 DEF TrueAnswer
    <2>3. CASE d = c /\ (Step(c) \/ Faulty(c))
      <3>1. Atomic!Justified(d, log', answer'[d])
        BY <2>3, StepResponds DEF GoesOn, Responds
      <3>2. TrueAnswer(d, log', answer'[d])
        BY <1>1, <3>1, JustifiedIsTrue
      <3>3. UNCHANGED <<asked, born>>
        BY <2>3
           DEF Step, Faulty, BelowCap, AtCap, CapGet, GetAbsent, ReadFile, WriteFile,
               ReplaceFact, AppendLine, DeleteFile, Found, PutCommits, PutRefused, Reget,
               Unavailable, PutLost, PutResent, PutTimesOut, call
      <3>4. QED
        BY <3>2, <3>3 DEF TrueAnswer, req, Mine
    <2>4. QED
      BY <1>3, <2>1, <2>2, <2>3
  <1>4. CASE LatePut \/ OutsideEdit \/ UNCHANGED vars
    BY <1>2, <1>4 DEF LatePut, OutsideEdit, vars, call
  <1>5. QED
    BY <1>3, <1>4 DEF Next

LEMMA InitAnswersTrue == Init => AnswersTrue
  BY DEF Init, AnswersTrue, TrueAnswer, NoAnswer

-----------------------------------------------------------------------------
(* A guarded call that names a version lands at most once, whatever        *)
(* storage did with its first attempt: lost its answer, delayed or resent  *)
(* it (the conditional puts of write_file, append_line and delete_file).   *)
THEOREM RetriesAreSafe == Spec => []GuardedCallLandsOnce
  BY NamedOnce, InitIInv, NextIInv, PTL DEF Spec

(* A source recorded once stays recorded while nobody deletes the file or  *)
(* edits it outside the library (core.py 676, _merge_metadata).            *)
THEOREM SourcesAreKept == Spec => []ProvenanceGrows
  <1>1. Init => IInv /\ ProvenanceGrows
    BY InitIInv, InitProvenance
  <1>2. IInv /\ ProvenanceGrows /\ [Next]_vars => (IInv /\ ProvenanceGrows)'
    BY NextIInv, NextProvenance
  <1>3. QED
    BY <1>1, <1>2, PTL DEF Spec

(* An error other than BackendUnavailableError means the call changed      *)
(* nothing and has nothing in flight, with a backend that does not resend  *)
(* conditional puts by itself (errors.py 66: correct the call and retry).  *)
THEOREM RefusalsLeaveNoTrace ==
  ASSUME "resend" \notin FaultKinds
  PROVE  Spec => []RefusedLeavesNoTrace
  <1>1. Init => IInv /\ TracelessInv
    <2>1. Init => TracelessInv
      BY DEF Init, TracelessInv, Traceless, NoAnswer
    <2>2. QED
      BY <2>1, InitIInv
  <1>2. IInv /\ TracelessInv /\ [Next]_vars => (IInv /\ TracelessInv)'
    BY NextIInv, NextTraceless
  <1>3. TracelessInv => RefusedLeavesNoTrace
    BY DEF TracelessInv, Traceless, RefusedLeavesNoTrace
  <1>4. QED
    BY <1>1, <1>2, <1>3, PTL DEF Spec

LEMMA TruthInvariant == MaxAttempts > 1 => (Spec => [](Known /\ AnswersTrue))
  <1>1. Init => Known /\ AnswersTrue
    BY InitKnown, InitAnswersTrue
  <1> SUFFICES ASSUME MaxAttempts > 1 PROVE Spec => [](Known /\ AnswersTrue)
    OBVIOUS
  <1>2. Known /\ AnswersTrue /\ [Next]_vars => (Known /\ AnswersTrue)'
    BY NextKnown, NextAnswersTrue
  <1>3. QED
    BY <1>1, <1>2, PTL DEF Spec

(* A success is true: what a call returned is stored under the version it  *)
(* returned, put there during the call, and a delete that returned did     *)
(* delete; also when append_line takes what it finds for its own landed    *)
(* write (core.py 903).                                                    *)
THEOREM SuccessIsTrue ==
  ASSUME MaxAttempts > 1
  PROVE  Spec => []AckedIsStored
  <1>1. AnswersTrue => AckedIsStored
    BY DEF AnswersTrue, TrueAnswer, AckedIsStored, CurrentDuringCall
  <1>2. QED
    BY <1>1, TruthInvariant, PTL

(* A conflict is news: what it attaches was current during the call and is *)
(* not what the caller already had.  replace_fact gives up with the object *)
(* of its last attempt, which is news if there was an attempt before it    *)
(* (_MAX_REPLACE_ATTEMPTS is 3).                                           *)
THEOREM ConflictsTell ==
  ASSUME MaxAttempts > 1
  PROVE  Spec => []ConflictIsNews
  <1>1. AnswersTrue => ConflictIsNews
    BY DEF AnswersTrue, TrueAnswer, ConflictIsNews, CurrentDuringCall
  <1>2. QED
    BY <1>1, TruthInvariant, PTL

-----------------------------------------------------------------------------
(* Every step is a step of AtomicFiles. *)

LEMMA InitAtomic == Init => Atomic!Init
  BY SameFiles DEF Init, Atomic!Init, InCall

LEMMA CallIsInvoke ==
  ASSUME Known, NEW c \in Clients, Call(c)
  PROVE  Atomic!Invoke(c)
  <1>1. PICK call0 \in Calls, v \in 0..Len(log) :
          LET r == [call0 EXCEPT !.expected = v] IN
          /\ asked' = [asked EXCEPT ![c] = Append(@, r)]
          /\ born' = [born EXCEPT ![c] = Len(log)]
          /\ IF ~r.valid
             THEN Raise(c, "invalid")
             ELSE IF r.op = "write" /\ Oversize(r.text)
                  THEN Raise(c, "oversize")
                  ELSE /\ answer' = [answer EXCEPT ![c] = NoAnswer]
                       /\ pc' = [pc EXCEPT ![c] = FirstStep(r)]
                       /\ UNCHANGED <<got, draft, tries>>
    BY DEF Call
  <1> DEFINE r == [call0 EXCEPT !.expected = v]
  <1>2. pc[c] = "idle" /\ UNCHANGED <<log, late>> /\ c \notin InCall /\ TypeOK
    BY DEF Call, storage, InCall, Known, IInv
  <1>3. \/ /\ r.valid
           /\ InCall' = InCall \union {c}
           /\ answer' = [answer EXCEPT ![c] = Atomic!NoAnswer]
        \/ /\ \/ answer'[c].kind = "invalid" /\ ~r.valid
              \/ answer'[c].kind = "oversize" /\ Atomic!Oversize(r.text)
           /\ answer' = [answer EXCEPT ![c] = answer'[c]]
           /\ UNCHANGED InCall
    <2> HIDE DEF r
    <2>1. \/ Return(c, "invalid", 0, NoFile) /\ ~r.valid
          \/ Return(c, "oversize", 0, NoFile) /\ Oversize(r.text)
          \/ /\ r.valid /\ answer' = [answer EXCEPT ![c] = NoAnswer]
             /\ pc' = [pc EXCEPT ![c] = FirstStep(r)]
      BY <1>1 DEF Raise, r
    <2>2. ASSUME NEW k, Return(c, k, 0, NoFile)
          PROVE  /\ answer'[c].kind = k /\ answer' = [answer EXCEPT ![c] = answer'[c]]
                 /\ UNCHANGED InCall
      BY <1>2, <2>2 DEF Return, InCall, TypeOK
    <2>3. CASE /\ r.valid /\ answer' = [answer EXCEPT ![c] = NoAnswer]
               /\ pc' = [pc EXCEPT ![c] = FirstStep(r)]
      BY <1>2, <2>3, SameFiles DEF InCall, FirstStep, TypeOK
    <2>4. QED
      BY <2>1, <2>2, <2>3, SameFiles
  <1>4. QED
    BY <1>1, <1>2, <1>3 DEF Atomic!Invoke

(* A step of a call takes effect or does not, and answers or goes on. *)
LEMMA StepIsAct ==
  ASSUME Known, MaxAttempts > 1, NEW c \in Clients, Step(c) \/ Faulty(c)
  PROVE  Atomic!Act(c)
  <1>1. pc[c] # "idle" /\ UNCHANGED <<asked, born>> /\ TypeOK /\ c \in InCall
    BY DEF Step, Faulty, BelowCap, AtCap, CapGet, GetAbsent, ReadFile, WriteFile, ReplaceFact,
           AppendLine, DeleteFile, Found, PutCommits, PutRefused, Reget, Unavailable, PutLost,
           PutResent, PutTimesOut, call, InCall, Known, IInv
  <1>2. Atomic!Effect(c)
    <2>1. CASE PutCommits(c) \/ PutLost(c) \/ PutResent(c)
      <3>1. pc[c] = "put" /\ Accepts(c) /\ log' = Append(log, Committed(c))
        BY <2>1 DEF PutCommits, PutLost, PutResent, Store
      <3>2. /\ Committed(c) = [client |-> c, call |-> Len(asked[c]), object |-> draft[c]]
            /\ log'[Len(log')] = Committed(c)
        BY <1>1, <3>1, CommittedFits DEF Committed, Known, TypeOK
      <3>3. Atomic!IsEdit(req(c), draft[c])
        BY <3>1, SameFiles DEF Known, IInv, DraftsFit, Accepts, Top, Atomic!IsEdit
      <3>4. QED
        BY <3>1, <3>2, <3>3, SameFiles DEF Atomic!Effect
    <2>2. CASE ~(PutCommits(c) \/ PutLost(c) \/ PutResent(c))
      <3>1. UNCHANGED log
        BY <2>2
           DEF Step, Faulty, BelowCap, AtCap, CapGet, GetAbsent, ReadFile, WriteFile,
               ReplaceFact, AppendLine, DeleteFile, Found, PutRefused, Reget, Unavailable,
               PutTimesOut, storage
      <3>2. QED
        BY <3>1 DEF Atomic!Effect
    <2>3. QED
      BY <2>1, <2>2
  <1>3. CASE GoesOn(c)
    <2>1. UNCHANGED InCall
      BY <1>1, <1>3 DEF GoesOn, InCall
    <2>2. QED
      BY <1>1, <1>2, <1>3, <2>1 DEF Atomic!Act, GoesOn
  <1>4. CASE Responds(c)
    <2>1. InCall' = InCall \ {c}
      BY <1>1, <1>4 DEF Responds, InCall, TypeOK
    <2>2. /\ late \subseteq late'
          /\ \A s \in late' \ late :
               /\ answer'[c].kind = "unavailable"
               /\ s.entry.client = c /\ s.entry.call = Len(asked[c])
      <3>1. CASE PutTimesOut(c)
        <4>1. answer'[c].kind = "unavailable"
          BY <1>1, <3>1 DEF PutTimesOut, Raise, Return, TypeOK
        <4>2. QED
          BY <3>1, <4>1 DEF PutTimesOut, Committed
      <3>2. CASE ~PutTimesOut(c)
        <4>1. UNCHANGED late
          BY <3>2
             DEF Step, Faulty, BelowCap, AtCap, CapGet, GetAbsent, ReadFile, WriteFile,
                 ReplaceFact, AppendLine, DeleteFile, Found, PutCommits, PutLost, PutResent,
                 PutRefused, Reget, Unavailable, storage
        <4>2. QED
          BY <4>1
      <3>3. QED
        BY <3>1, <3>2
    <2>3. Atomic!Respond(c)
      BY <1>4, <2>1, <2>2 DEF Responds, Atomic!Respond
    <2>4. QED
      BY <1>1, <1>2, <2>3 DEF Atomic!Act
  <1>5. QED
    BY <1>3, <1>4, StepResponds

LEMMA LatePutIsLateEffect ==
  ASSUME Known, LatePut
  PROVE  Atomic!LateEffect
  <1>1. PICK s \in late :
          /\ late' = late \ {s}
          /\ log' = IF Top = s.expected THEN Append(log, s.entry) ELSE log
    BY DEF LatePut
  <1>2. UNCHANGED <<asked, InCall, born, answer>>
    BY DEF LatePut, call, InCall
  <1>3. Top = s.expected =>
          Atomic!IsEdit(asked[s.entry.client][s.entry.call], s.entry.object)
    BY SameFiles DEF Known, IInv, LateFits, RequestOf, Top, Atomic!IsEdit
  <1>4. QED
    BY <1>1, <1>2, <1>3 DEF Atomic!LateEffect

LEMMA NextAtomic ==
  ASSUME Known, MaxAttempts > 1, [Next]_vars
  PROVE  [Atomic!Next]_(Atomic!vars)
  <1>1. ASSUME NEW c \in Clients, Call(c) PROVE Atomic!Next
    BY <1>1, CallIsInvoke DEF Atomic!Next
  <1>2. ASSUME NEW c \in Clients, Step(c) \/ Faulty(c) PROVE Atomic!Next
    BY <1>2, StepIsAct DEF Atomic!Next
  <1>3. CASE LatePut
    BY <1>3, LatePutIsLateEffect DEF Atomic!Next
  <1>4. CASE OutsideEdit
    <2>1. Atomic!OutsideEdit
      BY <1>4 DEF OutsideEdit, Store, call, InCall, Atomic!OutsideEdit
    <2>2. QED
      BY <2>1 DEF Atomic!Next
  <1>5. CASE UNCHANGED vars
    BY <1>5 DEF vars, InCall, Atomic!vars
  <1>6. QED
    BY <1>1, <1>2, <1>3, <1>4, <1>5 DEF Next

(* The file calls, with their stale reads, retries, re-reads and storage   *)
(* faults, look to every caller like atomic edits: each change is an edit  *)
(* of the current object by a call in progress, and each answer is true of *)
(* some moment of its call (core.py 632-942).                              *)
THEOREM ImplementsFiles ==
  ASSUME MaxAttempts > 1
  PROVE  Spec => ImplementsAtomicFiles
  <1>1. Init => Known /\ Atomic!Init
    BY InitKnown, InitAtomic
  <1>2. Known /\ [Next]_vars => Known' /\ [Atomic!Next]_(Atomic!vars)
    BY NextKnown, NextAtomic
  <1>3. QED
    BY <1>1, <1>2, PTL DEF Spec, ImplementsAtomicFiles, Atomic!Spec
=============================================================================
