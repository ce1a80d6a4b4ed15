------------------------- MODULE MemoryStoreProofs -------------------------
(***************************************************************************)
(* Theorems about MemoryStore: type correctness, and that no update is     *)
(* ever lost, for any number of clients, calls, faults and outside edits.  *)
(***************************************************************************)
EXTENDS MemoryStore, FiniteSetTheorems, TLAPS

MaybeObject == Object \union {NoFile}

-----------------------------------------------------------------------------
(* Edits produce objects. *)

LEMMA ReplaceFirstType ==
  ASSUME NEW body \in Seq(Facts), NEW fact \in Facts, NEW new \in Seq(Facts),
         Occurrences(body, fact) = 1
  PROVE  ReplaceFirst(body, fact, new) \in Seq(Facts)
  <1> DEFINE Hits == {i \in DOMAIN body : body[i] = fact}
             First(i) == /\ body[i] = fact
                         /\ \A j \in DOMAIN body : body[j] = fact => i <= j
             at == CHOOSE i \in DOMAIN body : First(i)
  <1>1. IsFiniteSet(Hits)
    <2>1. DOMAIN body = 1..Len(body) /\ Len(body) \in Nat
      OBVIOUS
    <2>2. IsFiniteSet(DOMAIN body)
      BY <2>1, FS_Interval
    <2>3. QED
      BY <2>2, FS_Subset
  <1>2. PICK x : Hits = {x}
    BY <1>1, FS_Singleton DEF Occurrences
  <1>3. x \in DOMAIN body /\ First(x)
    <2>1. x \in DOMAIN body /\ body[x] = fact
      BY <1>2
    <2>2. ASSUME NEW j \in DOMAIN body, body[j] = fact
          PROVE  x <= j
      BY <1>2, <2>1, <2>2
    <2>3. QED
      BY <2>1, <2>2
  <1>4. at \in 1..Len(body)
    <2>1. \E i \in DOMAIN body : First(i)
      BY <1>3
    <2>2. at \in DOMAIN body
      BY <2>1
    <2>3. QED
      BY <2>2
  <1>5. /\ SubSeq(body, 1, at - 1) \in Seq(Facts)
        /\ SubSeq(body, at + 1, Len(body)) \in Seq(Facts)
    <2> HIDE DEF at
    <2>1. QED
      BY <1>4
  <1>6. ReplaceFirst(body, fact, new)
          = SubSeq(body, 1, at - 1) \o new \o SubSeq(body, at + 1, Len(body))
    BY DEF ReplaceFirst
  <1> HIDE DEF at
  <1>7. QED
    BY <1>5, <1>6

LEMMA EditedType ==
  ASSUME NEW r \in Request, NEW o \in MaybeObject, NEW t \in Stamps,
         r.op = "replace" => o # NoFile /\ Occurrences(o.body, r.anchor) = 1
  PROVE  /\ Edited(r, o, t) \in MaybeObject
         /\ r.op # "delete" => Edited(r, o, t) \in Object
  <1> DEFINE before == IF o = NoFile THEN <<>> ELSE o.body
  <1>1. /\ r.text \in Seq(Facts) /\ r.anchor \in Facts
        /\ r.sources \subseteq Sources
    BY DEF Request
  <1>2. before \in Seq(Facts)
    BY DEF MaybeObject, Object
  <1>3. NewBody(r, before) \in Seq(Facts)
    <2>1. CASE r.op = "replace"
      BY <1>1, <1>2, <2>1, ReplaceFirstType DEF NewBody
    <2>2. CASE r.op = "append"
      BY <1>1, <1>2, <2>2 DEF NewBody
    <2>3. CASE r.op # "replace" /\ r.op # "append"
      BY <1>1, <2>3 DEF NewBody
    <2>4. QED
      BY <2>1, <2>2, <2>3
  <1>4. MergedSources(r, o) \subseteq Sources
    BY <1>1 DEF MergedSources, MaybeObject, Object
  <1>5. QED
    BY <1>3, <1>4 DEF Edited, MaybeObject, Object, Forms

-----------------------------------------------------------------------------
(* The history only grows, so what a call read stays true of its version.  *)

LEMMA TopType ==
  ASSUME TypeOK
  PROVE  /\ Len(log) \in Nat
         /\ Top \in 0..Len(log)
         /\ Here \in MaybeObject
         /\ Top = 0 <=> Here = NoFile
  <1>1. Len(log) \in Nat /\ log \in Seq(Entry)
    BY DEF TypeOK
  <1>2. Top \in 0..Len(log)
    BY <1>1 DEF Top, Current, VersionAt
  <1>3. CASE Top = 0
    BY <1>1, <1>2, <1>3 DEF Here, ObjectAt, MaybeObject
  <1>4. CASE Top # 0
    <2>1. Top = Len(log) /\ log[Len(log)].object # NoFile /\ Len(log) \in 1..Len(log)
      BY <1>1, <1>4 DEF Top, Current, VersionAt
    <2>2. log[Len(log)] \in Entry
      BY <1>1, <2>1
    <2>3. QED
      BY <1>1, <1>2, <1>4, <2>1, <2>2 DEF Here, ObjectAt, MaybeObject, Entry
  <1>5. QED
    BY <1>1, <1>2, <1>3, <1>4

LEMMA AppendKeeps ==
  ASSUME NEW l \in Seq(Entry), NEW e \in Entry, NEW v \in 0..Len(l)
  PROVE  /\ VersionAt(Append(l, e), v) = VersionAt(l, v)
         /\ ObjectAt(Append(l, e), v) = ObjectAt(l, v)
  <1>1. v # 0 => Append(l, e)[v] = l[v]
    OBVIOUS
  <1>2. QED
    BY <1>1 DEF VersionAt, ObjectAt

LEMMA EditOfKept ==
  ASSUME NEW l \in Seq(Entry), NEW e \in Entry, NEW v \in 0..Len(l), NEW r, NEW o,
         EditOf(l, r, v, o)
  PROVE  EditOf(Append(l, e), r, v, o)
  BY AppendKeeps DEF EditOf

-----------------------------------------------------------------------------
(* What is known of a call in progress beyond its types. *)
CallsInProgress ==
  \A c \in Clients : pc[c] # "idle" =>
    /\ asked[c] # <<>>
    /\ req(c).op = "write" => ~Oversize(req(c).text)
    /\ pc[c] = "cap" => req(c).op = "write" /\ req(c).expected = 0
    /\ pc[c] \in {"put", "reget"} => req(c).op \in Mutators

LEMMA ReqType ==
  ASSUME TypeOK, NEW c \in Clients, asked[c] # <<>>
  PROVE  /\ req(c) \in Request
         /\ Len(asked[c]) \in 1..Len(asked[c])
  <1>1. asked[c] \in Seq(Request)
    BY DEF TypeOK
  <1>2. Len(asked[c]) \in 1..Len(asked[c])
    BY <1>1
  <1>3. QED
    BY <1>1, <1>2 DEF req

LEMMA ReturnType ==
  ASSUME TypeOK, NEW c \in Clients, NEW k \in Kinds, NEW v \in Nat, NEW o \in MaybeObject,
         Return(c, k, v, o)
  PROVE  /\ pc' = [pc EXCEPT ![c] = "idle"]
         /\ pc' \in [Clients -> {"idle", "cap", "capget", "get", "put", "reget"}]
         /\ got' \in [Clients -> [version : Nat, object : MaybeObject]]
         /\ draft' \in [Clients -> MaybeObject]
         /\ tries' \in [Clients -> 0..(MaxAttempts - 1)]
         /\ answer' \in [Clients -> Answer]
  <1>1. [kind |-> k, version |-> v, object |-> o] \in Answer
    BY DEF Answer, MaybeObject
  <1>2. Nothing \in [version : Nat, object : MaybeObject]
    BY DEF Nothing, MaybeObject
  <1>3. 0 \in 0..(MaxAttempts - 1)
    BY StoreAssumption
  <1>4. NoFile \in MaybeObject
    BY DEF MaybeObject
  <1>5. QED
    BY <1>1, <1>2, <1>3, <1>4 DEF Return, TypeOK, MaybeObject

LEMMA ContinueType ==
  ASSUME TypeOK, NEW c \in Clients,
         NEW p \in {"idle", "cap", "capget", "get", "put", "reget"},
         NEW g \in [version : Nat, object : MaybeObject], NEW d \in MaybeObject,
         NEW n \in 0..(MaxAttempts - 1), Continue(c, p, g, d, n)
  PROVE  /\ pc' = [pc EXCEPT ![c] = p]
         /\ got' = [got EXCEPT ![c] = g]
         /\ draft' = [draft EXCEPT ![c] = d]
         /\ pc' \in [Clients -> {"idle", "cap", "capget", "get", "put", "reget"}]
         /\ got' \in [Clients -> [version : Nat, object : MaybeObject]]
         /\ draft' \in [Clients -> MaybeObject]
         /\ tries' \in [Clients -> 0..(MaxAttempts - 1)]
         /\ answer' \in [Clients -> Answer]
  BY DEF Continue, TypeOK, MaybeObject

-----------------------------------------------------------------------------
(* The inductive invariant.  A put on its way, in a call or late, carries  *)
(* the edit of the version it is conditional on; the versions in the log   *)
(* never change, so that edit is still right when storage compares them.   *)

DraftsFit ==
  \A c \in Clients : pc[c] = "put" =>
    /\ Precondition(c) \in 0..Len(log)
    /\ EditOf(log, req(c), Precondition(c), draft[c])

Recorded(e) ==
  e.client \in Clients => e.call \in 1..Len(asked[e.client])

LateFits ==
  \A s \in late :
    /\ s.entry.client \in Clients
    /\ Recorded(s.entry)
    /\ s.expected \in 0..Len(log)
    /\ EditOf(log, RequestOf(s.entry), s.expected, s.entry.object)

LogRecorded == \A j \in DOMAIN log : Recorded(log[j])

IInv ==
  TypeOK /\ CallsInProgress /\ DraftsFit /\ LateFits /\ LogRecorded /\ NoLostUpdate

(* A call that returns or raises, nothing being stored. *)
LEMMA ReturnStep ==
  ASSUME IInv, NEW c \in Clients, NEW k \in Kinds, NEW v \in Nat, NEW o \in MaybeObject,
         Return(c, k, v, o), UNCHANGED <<log, call>>,
         faults' \in 0..MaxFaults, edits' \in 0..MaxEdits,
         late' \subseteq Straggler, LateFits'
  PROVE  IInv'
  <1> USE DEF IInv
  <1>1. TypeOK'
    BY ReturnType DEF TypeOK, call, MaybeObject
  <1>2. \A d \in Clients : pc'[d] # "idle" =>
          d # c /\ pc'[d] = pc[d] /\ got'[d] = got[d] /\ draft'[d] = draft[d]
    BY ReturnType DEF Return, TypeOK
  <1>3. CallsInProgress'
    BY <1>2 DEF CallsInProgress, req, call
  <1>4. DraftsFit'
    BY <1>2 DEF DraftsFit, Precondition, req, call
  <1>5. LogRecorded' /\ NoLostUpdate'
    BY DEF LogRecorded, Recorded, NoLostUpdate, RequestOf, call
  <1>6. QED
    BY <1>1, <1>3, <1>4, <1>5

(* A call that goes on to a storage call other than a put. *)
LEMMA ContinueStep ==
  ASSUME IInv, NEW c \in Clients, pc[c] # "idle",
         NEW p \in {"capget", "get", "reget"},
         NEW g \in [version : Nat, object : MaybeObject], NEW d \in MaybeObject,
         NEW n \in 0..(MaxAttempts - 1), Continue(c, p, g, d, n),
         p = "reget" => req(c).op \in Mutators,
         UNCHANGED <<storage, call, bounds>>
  PROVE  IInv'
  <1> USE DEF IInv
  <1>0. p \in {"idle", "cap", "capget", "get", "put", "reget"} /\ p # "put" /\ p # "cap"
    OBVIOUS
  <1>1. TypeOK'
    <2>1. /\ pc' \in [Clients -> {"idle", "cap", "capget", "get", "put", "reget"}]
          /\ got' \in [Clients -> [version : Nat, object : MaybeObject]]
          /\ draft' \in [Clients -> MaybeObject]
          /\ tries' \in [Clients -> 0..(MaxAttempts - 1)]
          /\ answer' \in [Clients -> Answer]
      BY <1>0, ContinueType
    <2>2. UNCHANGED <<log, late, asked, born, faults, edits>>
      BY DEF call, storage, bounds
    <2>3. QED
      BY <2>1, <2>2 DEF TypeOK, MaybeObject
  <1>2. /\ pc' = [pc EXCEPT ![c] = p]
        /\ \A x \in Clients : x # c =>
             pc'[x] = pc[x] /\ got'[x] = got[x] /\ draft'[x] = draft[x]
    BY <1>0, ContinueType DEF Continue, TypeOK
  <1>3. CallsInProgress'
    BY <1>0, <1>2 DEF CallsInProgress, req, call, TypeOK
  <1>4. DraftsFit'
    BY <1>0, <1>2 DEF DraftsFit, Precondition, req, call, storage, TypeOK
  <1>5. LateFits' /\ LogRecorded' /\ NoLostUpdate'
    BY DEF LateFits, LogRecorded, Recorded, NoLostUpdate, RequestOf, call, storage
  <1>6. QED
    BY <1>1, <1>3, <1>4, <1>5

(* A call that has computed its edit and goes on to its put. *)
LEMMA PutStep ==
  ASSUME IInv, NEW c \in Clients, pc[c] # "idle",
         NEW g \in [version : Nat, object : MaybeObject], NEW d \in MaybeObject,
         NEW n \in 0..(MaxAttempts - 1), Continue(c, "put", g, d, n),
         NEW v \in 0..Len(log), EditOf(log, req(c), v, d),
         req(c).op = "replace" => g.version = v,
         req(c).op # "replace" => req(c).expected = v,
         UNCHANGED <<storage, call, bounds>>
  PROVE  IInv'
  <1> USE DEF IInv
  <1>1. TypeOK'
    BY ContinueType DEF TypeOK, call, storage, bounds, MaybeObject
  <1>2. /\ pc' = [pc EXCEPT ![c] = "put"]
        /\ got'[c] = g /\ draft'[c] = d
        /\ \A x \in Clients : x # c =>
             pc'[x] = pc[x] /\ got'[x] = got[x] /\ draft'[x] = draft[x]
    BY ContinueType DEF Continue, TypeOK
  <1>3. CallsInProgress'
    <2>1. req(c).op \in Mutators
      BY DEF EditOf
    <2>2. QED
      BY <1>2, <2>1 DEF CallsInProgress, req, call, TypeOK
  <1>4. DraftsFit'
    <2>1. Precondition(c)' = v
      BY <1>2 DEF Precondition, req, call
    <2>2. ASSUME NEW x \in Clients, pc'[x] = "put"
          PROVE  /\ Precondition(x)' \in 0..Len(log')
                 /\ EditOf(log', req(x)', Precondition(x)', draft'[x])
      <3>1. CASE x = c
        BY <1>2, <2>1, <3>1 DEF req, call, storage
      <3>2. CASE x # c
        BY <1>2, <2>2, <3>2 DEF DraftsFit, Precondition, req, call, storage
      <3>3. QED
        BY <3>1, <3>2
    <2>3. QED
      BY <2>2 DEF DraftsFit
  <1>5. LateFits' /\ LogRecorded' /\ NoLostUpdate'
    BY DEF LateFits, LogRecorded, Recorded, NoLostUpdate, RequestOf, call, storage
  <1>6. QED
    BY <1>1, <1>3, <1>4, <1>5

(* A change that is committed on top of the version it edits. *)
LEMMA StoreStep ==
  ASSUME IInv, NEW e \in Entry, Store(e), UNCHANGED asked, Recorded(e),
         e.client \in Clients => EditOf(log, RequestOf(e), Top, e.object)
  PROVE  /\ log' \in Seq(Entry)
         /\ Len(log') = Len(log) + 1
         /\ LogRecorded' /\ NoLostUpdate'
         /\ \A r, o, v : v \in 0..Len(log) /\ EditOf(log, r, v, o) => EditOf(log', r, v, o)
  <1> USE DEF IInv
  <1>1. log \in Seq(Entry) /\ Len(log) \in Nat
    BY DEF TypeOK
  <1>2. /\ log' \in Seq(Entry) /\ Len(log') = Len(log) + 1
        /\ log'[Len(log) + 1] = e
        /\ \A j \in 1..Len(log) : log'[j] = log[j]
        /\ DOMAIN log' = 1..(Len(log) + 1) /\ DOMAIN log = 1..Len(log)
    BY <1>1 DEF Store
  <1>3. \A r, o, v : v \in 0..Len(log) /\ EditOf(log, r, v, o) => EditOf(log', r, v, o)
    BY <1>1, EditOfKept DEF Store
  <1>4. LogRecorded'
    <2> SUFFICES ASSUME NEW j \in 1..(Len(log) + 1) PROVE Recorded(log[j])'
      BY <1>2 DEF LogRecorded
    <2>1. CASE j = Len(log) + 1
      BY <1>2, <2>1 DEF Recorded
    <2>2. CASE j \in 1..Len(log)
      BY <1>2, <2>2 DEF LogRecorded, Recorded
    <2>3. QED
      BY <1>1, <2>1, <2>2
  <1>5. NoLostUpdate'
    <2> SUFFICES ASSUME NEW j \in 1..(Len(log) + 1), log'[j].client \in Clients
                 PROVE  EditOf(log', RequestOf(log[j])', VersionAt(log', j - 1), log'[j].object)
      BY <1>2 DEF NoLostUpdate
    <2>1. CASE j = Len(log) + 1
      <3>1. VersionAt(log', j - 1) = Top
        BY <1>1, <2>1, AppendKeeps DEF Store, Top, Current
      <3>2. EditOf(log, RequestOf(e), Top, e.object) /\ Top \in 0..Len(log)
        BY <1>2, <2>1, TopType
      <3>3. RequestOf(log[j])' = RequestOf(e)
        BY <1>2, <2>1 DEF RequestOf
      <3>4. QED
        BY <1>2, <1>3, <2>1, <3>1, <3>2, <3>3
    <2>2. CASE j \in 1..Len(log)
      <3>1. EditOf(log, RequestOf(log[j]), VersionAt(log, j - 1), log[j].object)
        BY <1>2, <2>2 DEF NoLostUpdate
      <3>2. j - 1 \in 0..Len(log) /\ VersionAt(log, j - 1) \in 0..Len(log)
        BY <1>1, <2>2 DEF VersionAt
      <3>3. VersionAt(log', j - 1) = VersionAt(log, j - 1)
        BY <1>1, <3>2, AppendKeeps DEF Store
      <3>4. RequestOf(log[j])' = RequestOf(log[j]) /\ log'[j] = log[j]
        BY <1>2, <2>2 DEF RequestOf
      <3>5. QED
        BY <1>3, <3>1, <3>2, <3>3, <3>4
    <2>3. QED
      BY <1>1, <2>1, <2>2
  <1>6. QED
    BY <1>2, <1>3, <1>4, <1>5

-----------------------------------------------------------------------------
(* One lemma per kind of step. *)

LEMMA CallStep ==
  ASSUME IInv, NEW c \in Clients, Call(c)
  PROVE  IInv'
  <1> USE DEF IInv
  <1>1. PICK call0 \in Calls, v \in 0..Len(log) :
          LET r == [call0 EXCEPT !.expected = v] IN
          /\ asked' = [asked EXCEPT ![c] = Append(@, r)]
          /\ born' = [born EXCEPT ![c] = Len(log)]
          /\ IF ~r.valid
             THEN Raise(c, "invalid")
             ELSE IF r.op = "write" /\ Oversize(r.text)
                  THEN Raise(c, "oversize")
                  ELSE /\ answer' = [answer EXCEPT ![c] = NoAnswer]
                       /\ pc' = [pc EXCEPT ![c] = FirstStep(r)]
                       /\ UNCHANGED <<got, draft, tries>>
    BY DEF Call
  <1> DEFINE r == [call0 EXCEPT !.expected = v]
  <1>2. /\ pc[c] = "idle" /\ UNCHANGED <<log, late, faults, edits>>
        /\ Len(log) \in Nat /\ v \in Nat
    BY DEF Call, storage, bounds, TypeOK
  <1>3. r \in Request
    BY <1>2, FilesAssumption DEF Request
  <1>4. /\ asked' \in [Clients -> Seq(Request)]
        /\ asked'[c] # <<>> /\ req(c)' = r
        /\ \A d \in Clients : d # c => asked'[d] = asked[d]
        /\ \A d \in Clients : Len(asked[d]) \in Nat /\ Len(asked[d]) <= Len(asked'[d])
        /\ \A d \in Clients : \A i \in 1..Len(asked[d]) :
             i \in 1..Len(asked'[d]) /\ asked'[d][i] = asked[d][i]
    <2>1. asked' = [asked EXCEPT ![c] = Append(@, r)]
      BY <1>1
    <2> HIDE DEF r
    <2>2. asked'[c] = Append(asked[c], r) /\ asked[c] \in Seq(Request)
      BY <2>1 DEF TypeOK
    <2>3. /\ Len(asked'[c]) = Len(asked[c]) + 1 /\ asked'[c][Len(asked'[c])] = r
          /\ \A i \in 1..Len(asked[c]) : asked'[c][i] = asked[c][i]
      BY <1>3, <2>2
    <2>4. asked' \in [Clients -> Seq(Request)]
      <3>1. Append(asked[c], r) \in Seq(Request)
        BY <1>3, <2>2
      <3>2. QED
        BY <2>1, <3>1 DEF TypeOK
    <2>5. \A d \in Clients : d # c => asked'[d] = asked[d]
      BY <2>1 DEF TypeOK
    <2>6. asked'[c] # <<>> /\ req(c)' = r
      BY <2>2, <2>3 DEF req
    <2>7. ASSUME NEW d \in Clients
          PROVE  /\ Len(asked[d]) \in Nat /\ Len(asked[d]) <= Len(asked'[d])
                 /\ \A i \in 1..Len(asked[d]) :
                      i \in 1..Len(asked'[d]) /\ asked'[d][i] = asked[d][i]
      <3>1. asked[d] \in Seq(Request)
        BY DEF TypeOK
      <3>2. CASE d = c
        BY <2>3, <3>1, <3>2
      <3>3. CASE d # c
        BY <2>5, <3>1, <3>3
      <3>4. QED
        BY <3>2, <3>3
    <2>8. QED
      BY <2>4, <2>5, <2>6, <2>7
  <1>5. /\ pc' \in [Clients -> {"idle", "cap", "capget", "get", "put", "reget"}]
        /\ \A d \in Clients : d # c =>
             pc'[d] = pc[d] /\ got'[d] = got[d] /\ draft'[d] = draft[d]
        /\ pc'[c] \in {"idle", FirstStep(r)}
        /\ pc'[c] # "idle" => ~(r.op = "write" /\ Oversize(r.text))
        /\ got' \in [Clients -> [version : Nat, object : MaybeObject]]
        /\ draft' \in [Clients -> MaybeObject]
        /\ tries' \in [Clients -> 0..(MaxAttempts - 1)]
        /\ answer' \in [Clients -> Answer]
    <2> HIDE DEF r
    <2>0. NoFile \in MaybeObject /\ "invalid" \in Kinds /\ "oversize" \in Kinds /\ 0 \in Nat
      BY DEF MaybeObject, Kinds
    <2>1. \/ \E k \in Kinds : Return(c, k, 0, NoFile)
          \/ /\ answer' = [answer EXCEPT ![c] = NoAnswer]
             /\ pc' = [pc EXCEPT ![c] = FirstStep(r)]
             /\ UNCHANGED <<got, draft, tries>>
             /\ ~(r.op = "write" /\ Oversize(r.text))
      BY <1>1, <2>0 DEF Raise, r
    <2>2. CASE \E k \in Kinds : Return(c, k, 0, NoFile)
      <3>1. PICK k \in Kinds : Return(c, k, 0, NoFile)
        BY <2>2
      <3>2. \A d \in Clients : d # c =>
              pc'[d] = pc[d] /\ got'[d] = got[d] /\ draft'[d] = draft[d]
        BY <3>1 DEF Return, TypeOK
      <3>3. /\ pc' = [pc EXCEPT ![c] = "idle"]
            /\ pc' \in [Clients -> {"idle", "cap", "capget", "get", "put", "reget"}]
            /\ got' \in [Clients -> [version : Nat, object : MaybeObject]]
            /\ draft' \in [Clients -> MaybeObject]
            /\ tries' \in [Clients -> 0..(MaxAttempts - 1)]
            /\ answer' \in [Clients -> Answer]
        BY <2>0, <3>1, ReturnType
      <3>4. pc'[c] = "idle"
        BY <3>3 DEF TypeOK
      <3>5. QED
        BY <3>2, <3>3, <3>4
    <2>3. CASE /\ answer' = [answer EXCEPT ![c] = NoAnswer]
               /\ pc' = [pc EXCEPT ![c] = FirstStep(r)]
               /\ UNCHANGED <<got, draft, tries>>
               /\ ~(r.op = "write" /\ Oversize(r.text))
      BY <2>3 DEF TypeOK, FirstStep, NoAnswer, Answer, Kinds, MaybeObject
    <2>4. QED
      BY <2>1, <2>2, <2>3
  <1>6. TypeOK'
    <2>1. born' \in [Clients -> Nat]
      BY <1>1, <1>2 DEF TypeOK
    <2>2. QED
      BY <1>2, <1>4, <1>5, <2>1 DEF TypeOK, MaybeObject
  <1>7. CallsInProgress'
    <2> SUFFICES ASSUME NEW d \in Clients, pc'[d] # "idle"
                 PROVE  /\ asked'[d] # <<>>
                        /\ req(d)'.op = "write" => ~Oversize(req(d)'.text)
                        /\ pc'[d] = "cap" => req(d)'.op = "write" /\ req(d)'.expected = 0
                        /\ pc'[d] \in {"put", "reget"} => req(d)'.op \in Mutators
      BY DEF CallsInProgress
    <2>1. CASE d = c
      BY <1>4, <1>5, <2>1 DEF FirstStep
    <2>2. CASE d # c
      <3>1. pc'[d] = pc[d] /\ pc[d] # "idle"
        BY <1>5, <2>2
      <3>2. asked'[d] = asked[d] /\ req(d)' = req(d)
        BY <1>4, <2>2 DEF req
      <3>3. /\ asked[d] # <<>>
            /\ req(d).op = "write" => ~Oversize(req(d).text)
            /\ pc[d] = "cap" => req(d).op = "write" /\ req(d).expected = 0
            /\ pc[d] \in {"put", "reget"} => req(d).op \in Mutators
        BY <3>1 DEF IInv, CallsInProgress
      <3>4. QED
        BY <3>1, <3>2, <3>3
    <2>3. QED
      BY <2>1, <2>2
  <1>8. DraftsFit'
    <2> SUFFICES ASSUME NEW d \in Clients, pc'[d] = "put"
                 PROVE  /\ Precondition(d)' \in 0..Len(log')
                        /\ EditOf(log', req(d)', Precondition(d)', draft'[d])
      BY DEF DraftsFit
    <2>1. d # c
      BY <1>5 DEF FirstStep
    <2>2. QED
      BY <1>2, <1>4, <1>5, <2>1 DEF DraftsFit, Precondition, req
  <1>9. ASSUME NEW e, Recorded(e)
        PROVE  Recorded(e)' /\ (e.client \in Clients => RequestOf(e)' = RequestOf(e))
    BY <1>4, <1>9 DEF Recorded, RequestOf
  <1>10. LateFits' /\ LogRecorded' /\ NoLostUpdate'
    BY <1>2, <1>9 DEF LateFits, LogRecorded, NoLostUpdate
  <1>11. QED
    BY <1>6, <1>7, <1>8, <1>10

(* The edit of the object a call has just read. *)
LEMMA PrepareStep ==
  ASSUME IInv, NEW c \in Clients, pc[c] # "idle", Prepare(c),
         UNCHANGED <<storage, call, bounds>>,
         Top # 0, req(c).op \in Mutators,
         Guarded(req(c)) => Top = req(c).expected,
         req(c).op = "replace" => Occurrences(Here.body, req(c).anchor) = 1,
         req(c).op # "delete" => ~Oversize(NewBody(req(c), Here.body))
  PROVE  IInv'
  <1>1. /\ TypeOK /\ Top \in 0..Len(log) /\ Here \in MaybeObject /\ Here # NoFile
        /\ Top \in Nat /\ asked[c] # <<>> /\ tries[c] \in 0..(MaxAttempts - 1)
    <2>1. TypeOK /\ CallsInProgress
      BY DEF IInv
    <2>2. Top \in 0..Len(log) /\ Here \in MaybeObject /\ (Here # NoFile)
      BY <2>1, TopType
    <2>3. Top \in Nat
      BY <2>1, <2>2 DEF TypeOK
    <2>4. asked[c] # <<>>
      BY <2>1 DEF CallsInProgress
    <2>5. tries[c] \in 0..(MaxAttempts - 1)
      BY <2>1 DEF TypeOK
    <2>6. QED
      BY <2>1, <2>2, <2>3, <2>4, <2>5
  <1>2. req(c) \in Request
    BY <1>1, ReqType
  <1>3. PICK t \in Stamps :
          Continue(c, "put", [version |-> Top, object |-> Here],
                   Edited(req(c), Here, t), tries[c])
    BY DEF Prepare
  <1>4. Edited(req(c), Here, t) \in MaybeObject
    BY <1>1, <1>2, EditedType
  <1>5. EditOf(log, req(c), Top, Edited(req(c), Here, t))
    <2>1. Here = ObjectAt(log, Top)
      BY DEF Here
    <2>2. req(c).op # "delete" => Edited(req(c), Here, t).body = NewBody(req(c), Here.body)
      BY <1>1 DEF Edited
    <2>3. req(c).op = "delete" => Edited(req(c), Here, t) = NoFile
      BY DEF Edited
    <2>4. QED
      BY <1>1, <2>1, <2>2, <2>3 DEF EditOf
  <1>6. [version |-> Top, object |-> Here] \in [version : Nat, object : MaybeObject]
    BY <1>1
  <1>7. /\ req(c).op = "replace" => [version |-> Top, object |-> Here].version = Top
        /\ req(c).op # "replace" => req(c).expected = Top
    BY DEF Guarded, Mutators, Ops
  <1>8. QED
    BY <1>1, <1>3, <1>4, <1>5, <1>6, <1>7, PutStep

(* Steps of a call that returns or raises, storage untouched. *)
LEMMA AnswerStep ==
  ASSUME IInv, NEW c \in Clients, NEW k \in Kinds, NEW v \in Nat, NEW o \in MaybeObject,
         Return(c, k, v, o), UNCHANGED <<storage, call, bounds>>
  PROVE  IInv'
  <1>1. UNCHANGED <<log, late, asked, born, faults, edits>>
    BY DEF storage, call, bounds
  <1>2. /\ faults' \in 0..MaxFaults /\ edits' \in 0..MaxEdits
        /\ late' \subseteq Straggler /\ LateFits'
    BY <1>1 DEF IInv, TypeOK, LateFits, Recorded, RequestOf
  <1>3. QED
    BY <1>1, <1>2, ReturnStep DEF call

LEMMA AnswerKinds ==
  ASSUME IInv
  PROVE  /\ \A k \in {"invalid", "absent", "conflict", "match", "oversize", "quota",
                      "malformed", "unavailable", "ok"} : k \in Kinds
         /\ Top \in Nat /\ Here \in MaybeObject /\ NoFile \in MaybeObject /\ 0 \in Nat
  BY TopType DEF IInv, Kinds, MaybeObject

(* Steps that read: the gets of each kind of call. *)
LEMMA ReadStep ==
  ASSUME IInv, NEW c \in Clients,
         \/ CapGet(c) \/ GetAbsent(c) \/ ReadFile(c) \/ WriteFile(c)
         \/ ReplaceFact(c) \/ AppendLine(c) \/ DeleteFile(c)
  PROVE  IInv'
  <1> USE DEF Raise, Conflict
  <1>1. pc[c] # "idle" /\ UNCHANGED <<storage, call, bounds>>
    BY DEF CapGet, GetAbsent, ReadFile, WriteFile, ReplaceFact, AppendLine, DeleteFile, Found
  <1>2. CASE CapGet(c)
    BY <1>1, <1>2, AnswerStep, AnswerKinds DEF CapGet
  <1>3. CASE GetAbsent(c)
    BY <1>1, <1>3, AnswerStep, AnswerKinds DEF GetAbsent
  <1>4. CASE ReadFile(c)
    BY <1>1, <1>4, AnswerStep, AnswerKinds DEF ReadFile
  <1>5. CASE WriteFile(c)
    <2>1. CASE Prepare(c) /\ Top = req(c).expected
      <3>1. req(c).op = "write" /\ Top # 0 /\ ~Oversize(req(c).text)
        BY <1>1, <1>5 DEF WriteFile, Found, IInv, CallsInProgress
      <3>2. NewBody(req(c), Here.body) = req(c).text /\ req(c).op \in Mutators
        BY <3>1 DEF NewBody, Mutators, Ops
      <3>3. QED
        BY <1>1, <2>1, <3>1, <3>2, PrepareStep
    <2>2. QED
      BY <1>1, <1>5, <2>1, AnswerStep, AnswerKinds DEF WriteFile
  <1>6. CASE ReplaceFact(c)
    <2>1. req(c).op = "replace" /\ Top # 0
      BY <1>6 DEF ReplaceFact, Found
    <2>2. req(c).op \in Mutators /\ ~Guarded(req(c))
      BY <2>1 DEF Mutators, Ops, Guarded
    <2>3. CASE /\ Prepare(c) /\ Occurrences(Here.body, req(c).anchor) = 1
               /\ ~Oversize(NewBody(req(c), Here.body))
      BY <1>1, <2>1, <2>2, <2>3, PrepareStep
    <2>4. QED
      BY <1>1, <1>6, <2>3, AnswerStep, AnswerKinds DEF ReplaceFact
  <1>7. CASE AppendLine(c)
    <2>1. req(c).op = "append" /\ Top # 0
      BY <1>7 DEF AppendLine, Found
    <2>2. req(c).op \in Mutators
      BY <2>1 DEF Mutators, Ops
    <2>3. CASE Prepare(c) /\ Top = req(c).expected /\ ~Oversize(NewBody(req(c), Here.body))
      BY <1>1, <2>1, <2>2, <2>3, PrepareStep
    <2>4. QED
      BY <1>1, <1>7, <2>3, AnswerStep, AnswerKinds DEF AppendLine
  <1>8. CASE DeleteFile(c)
    <2>1. req(c).op = "delete" /\ Top # 0
      BY <1>8 DEF DeleteFile, Found
    <2>2. req(c).op \in Mutators
      BY <2>1 DEF Mutators, Ops
    <2>3. CASE Prepare(c) /\ Top = req(c).expected
      BY <1>1, <2>1, <2>2, <2>3, PrepareStep
    <2>4. QED
      BY <1>1, <1>8, <2>3, AnswerStep, AnswerKinds DEF DeleteFile
  <1>9. QED
    BY <1>2, <1>3, <1>4, <1>5, <1>6, <1>7, <1>8

(* The create path: past the cap check nothing has been read yet. *)
LEMMA CapStep ==
  ASSUME IInv, NEW c \in Clients, BelowCap(c) \/ AtCap(c)
  PROVE  IInv'
  <1>1. /\ pc[c] = "cap" /\ UNCHANGED <<storage, call, bounds>>
        /\ req(c).op = "write" /\ req(c).expected = 0 /\ ~Oversize(req(c).text)
        /\ asked[c] # <<>> /\ TypeOK
    BY DEF BelowCap, AtCap, IInv, CallsInProgress
  <1>2. req(c) \in Request
    BY <1>1, ReqType
  <1>3. /\ NoFile \in MaybeObject /\ 0 \in 0..(MaxAttempts - 1)
        /\ Nothing \in [version : Nat, object : MaybeObject]
    BY StoreAssumption DEF MaybeObject, Nothing
  <1>4. CASE BelowCap(c)
    <2>1. PICK t \in Stamps : Continue(c, "put", Nothing, Edited(req(c), NoFile, t), 0)
      BY <1>4 DEF BelowCap
    <2>2. Edited(req(c), NoFile, t) \in MaybeObject
      BY <1>1, <1>2, <1>3, EditedType
    <2>3. Edited(req(c), NoFile, t).body = req(c).text
      BY <1>1 DEF Edited, NewBody
    <2>4. EditOf(log, req(c), 0, Edited(req(c), NoFile, t))
      BY <1>1, <2>3 DEF EditOf, ObjectAt, Mutators, Ops
    <2>5. 0 \in 0..Len(log)
      BY <1>1 DEF TypeOK
    <2>6. QED
      BY <1>1, <1>3, <2>1, <2>2, <2>4, <2>5, PutStep
  <1>5. CASE AtCap(c)
    BY <1>1, <1>3, <1>5, ContinueStep DEF AtCap
  <1>6. QED
    BY <1>4, <1>5

(* A put that was refused, and the re-read that follows it. *)
LEMMA RefusedStep ==
  ASSUME IInv, NEW c \in Clients, PutRefused(c) \/ Reget(c)
  PROVE  IInv'
  <1>1. /\ pc[c] # "idle" /\ UNCHANGED <<storage, call, bounds>>
        /\ req(c).op \in Mutators
    BY DEF PutRefused, Reget, IInv, CallsInProgress
  <1>2. /\ got[c] \in [version : Nat, object : MaybeObject]
        /\ draft[c] \in MaybeObject /\ NoFile \in MaybeObject
        /\ tries[c] \in 0..(MaxAttempts - 1) /\ 0 \in 0..(MaxAttempts - 1)
        /\ MaxAttempts \in Nat
    BY StoreAssumption DEF IInv, TypeOK, MaybeObject
  <1>3. CASE PutRefused(c)
    <2>1. CASE req(c).op # "replace"
      BY <1>1, <1>2, <1>3, <2>1, ContinueStep DEF PutRefused
    <2>2. CASE req(c).op = "replace" /\ tries[c] + 1 < MaxAttempts
      <3>1. tries[c] + 1 \in 0..(MaxAttempts - 1)
        BY <1>2, <2>2
      <3>2. QED
        BY <1>1, <1>2, <1>3, <2>2, <3>1, ContinueStep DEF PutRefused
    <2>3. CASE req(c).op = "replace" /\ ~(tries[c] + 1 < MaxAttempts)
      BY <1>1, <1>2, <1>3, <2>3, AnswerStep, AnswerKinds DEF PutRefused
    <2>4. QED
      BY <2>1, <2>2, <2>3
  <1>4. CASE Reget(c)
    BY <1>1, <1>2, <1>4, AnswerStep, AnswerKinds DEF Reget, Conflict, Raise
  <1>5. QED
    BY <1>3, <1>4

-----------------------------------------------------------------------------
(* Steps that change what storage holds. *)

(* The change a put commits is recorded, and fits the version it replaces. *)
LEMMA CommittedFits ==
  ASSUME IInv, NEW c \in Clients, pc[c] = "put"
  PROVE  /\ Committed(c) \in Entry
         /\ Committed(c).client = c
         /\ Recorded(Committed(c))
         /\ RequestOf(Committed(c)) = req(c)
         /\ Precondition(c) \in 0..Len(log)
         /\ EditOf(log, RequestOf(Committed(c)), Precondition(c), Committed(c).object)
  <1>1. /\ asked[c] # <<>> /\ draft[c] \in MaybeObject
        /\ Precondition(c) \in 0..Len(log)
        /\ EditOf(log, req(c), Precondition(c), draft[c])
    BY DEF IInv, CallsInProgress, DraftsFit, TypeOK, MaybeObject
  <1>2. Len(asked[c]) \in 1..Len(asked[c])
    BY <1>1, ReqType DEF IInv
  <1>3. Committed(c).client = c /\ Committed(c).call = Len(asked[c])
        /\ Committed(c).object = draft[c]
    BY DEF Committed
  <1>4. Committed(c) \in Entry
    BY <1>1, <1>2 DEF Committed, Entry, MaybeObject
  <1>5. RequestOf(Committed(c)) = req(c)
    BY <1>3 DEF RequestOf, req
  <1>6. QED
    BY <1>1, <1>2, <1>3, <1>4, <1>5 DEF Recorded

(* What is known of puts in flight survives a change of the log. *)
LEMMA GrowthKeepsInFlight ==
  ASSUME IInv, UNCHANGED <<asked, late>>, Len(log') = Len(log) + 1,
         \A r, o, v : v \in 0..Len(log) /\ EditOf(log, r, v, o) => EditOf(log', r, v, o)
  PROVE  /\ LateFits'
         /\ \A d \in Clients :
              (pc[d] = "put" /\ UNCHANGED <<pc[d], got[d], draft[d]>>) =>
                 /\ Precondition(d)' \in 0..Len(log')
                 /\ EditOf(log', req(d)', Precondition(d)', draft'[d])
  <1>1. Len(log) \in Nat /\ \A v \in 0..Len(log) : v \in 0..Len(log')
    BY DEF IInv, TypeOK
  <1>2. LateFits'
    BY <1>1 DEF IInv, LateFits, Recorded, RequestOf
  <1>3. QED
    BY <1>1, <1>2 DEF IInv, DraftsFit, Precondition, req

LEMMA CommitStep ==
  ASSUME IInv, NEW c \in Clients, PutCommits(c) \/ PutLost(c)
  PROVE  IInv'
  <1>1. /\ pc[c] = "put" /\ Accepts(c) /\ Store(Committed(c))
        /\ UNCHANGED <<late, asked, born>>
        /\ faults' \in 0..MaxFaults /\ edits' \in 0..MaxEdits
    BY StoreAssumption DEF PutCommits, PutLost, Fault, call, bounds, IInv, TypeOK
  <1>2. /\ log' \in Seq(Entry) /\ Len(log') = Len(log) + 1 /\ Len(log') \in Nat
        /\ LogRecorded' /\ NoLostUpdate'
        /\ \A r, o, v : v \in 0..Len(log) /\ EditOf(log, r, v, o) => EditOf(log', r, v, o)
    BY <1>1, CommittedFits, StoreStep DEF Accepts
  <1>3. PICK k \in Kinds, v \in Nat, o \in MaybeObject : Return(c, k, v, o)
    <2>1. CASE PutCommits(c)
      <3>1. draft[c] \in MaybeObject /\ (IF draft[c] = NoFile THEN 0 ELSE Len(log')) \in Nat
        BY <1>2 DEF IInv, TypeOK, MaybeObject
      <3>2. QED
        BY <2>1, <3>1 DEF PutCommits, Kinds
    <2>2. CASE PutLost(c)
      BY <2>2, AnswerKinds DEF PutLost, Raise
    <2>3. QED
      BY <2>1, <2>2
  <1>4. \A d \in Clients : pc'[d] # "idle" =>
          d # c /\ UNCHANGED <<pc[d], got[d], draft[d]>>
    BY <1>3, ReturnType DEF Return, IInv, TypeOK
  <1>5. TypeOK'
    BY <1>1, <1>2, <1>3, ReturnType DEF IInv, TypeOK, MaybeObject
  <1>6. CallsInProgress'
    BY <1>1, <1>4 DEF IInv, CallsInProgress, req
  <1>7. LateFits' /\ DraftsFit'
    BY <1>1, <1>2, <1>4, GrowthKeepsInFlight DEF DraftsFit
  <1>8. QED
    BY <1>2, <1>5, <1>6, <1>7 DEF IInv

LEMMA ResendStep ==
  ASSUME IInv, NEW c \in Clients, PutResent(c)
  PROVE  IInv'
  <1>1. /\ pc[c] = "put" /\ Accepts(c) /\ Store(Committed(c))
        /\ UNCHANGED <<late, asked, born, pc, got, draft, tries, answer>>
        /\ faults' \in 0..MaxFaults /\ edits' \in 0..MaxEdits
    BY StoreAssumption DEF PutResent, Fault, call, IInv, TypeOK
  <1>2. /\ log' \in Seq(Entry) /\ Len(log') = Len(log) + 1
        /\ LogRecorded' /\ NoLostUpdate'
        /\ \A r, o, v : v \in 0..Len(log) /\ EditOf(log, r, v, o) => EditOf(log', r, v, o)
    BY <1>1, CommittedFits, StoreStep DEF Accepts
  <1>3. TypeOK' /\ CallsInProgress'
    BY <1>1, <1>2 DEF IInv, TypeOK, CallsInProgress, req
  <1>4. LateFits' /\ DraftsFit'
    BY <1>1, <1>2, GrowthKeepsInFlight DEF DraftsFit
  <1>5. QED
    BY <1>2, <1>3, <1>4 DEF IInv

LEMMA OutsideStep ==
  ASSUME IInv, OutsideEdit
  PROVE  IInv'
  <1>1. PICK o \in OutsideObjects : Store([client |-> Outside, call |-> 0, object |-> o])
    BY DEF OutsideEdit
  <1> DEFINE e == [client |-> Outside, call |-> 0, object |-> o]
  <1>2. e \in Entry /\ e.client \notin Clients
    BY FilesAssumption DEF Entry
  <1>3. /\ UNCHANGED <<late, asked, born, pc, got, draft, tries, answer, faults>>
        /\ edits' \in 0..MaxEdits
    BY StoreAssumption DEF OutsideEdit, call, IInv, TypeOK
  <1>4. /\ log' \in Seq(Entry) /\ Len(log') = Len(log) + 1
        /\ LogRecorded' /\ NoLostUpdate'
        /\ \A r, x, v : v \in 0..Len(log) /\ EditOf(log, r, v, x) => EditOf(log', r, v, x)
    <2> HIDE DEF e
    <2>1. Store(e) /\ Recorded(e)
      BY <1>1, <1>2 DEF Recorded, e
    <2>2. QED
      BY <1>2, <1>3, <2>1, StoreStep
  <1>5. TypeOK' /\ CallsInProgress'
    BY <1>3, <1>4 DEF IInv, TypeOK, CallsInProgress, req
  <1>6. LateFits' /\ DraftsFit'
    BY <1>3, <1>4, GrowthKeepsInFlight DEF DraftsFit
  <1>7. QED
    BY <1>4, <1>5, <1>6 DEF IInv

(* A put that outlives its call is judged when it arrives. *)
LEMMA LateStep ==
  ASSUME IInv, LatePut
  PROVE  IInv'
  <1>1. PICK s \in late :
          /\ late' = late \ {s}
          /\ log' = IF Top = s.expected THEN Append(log, s.entry) ELSE log
    BY DEF LatePut
  <1>2. UNCHANGED <<asked, born, pc, got, draft, tries, answer, faults, edits>>
    BY DEF LatePut, call, bounds
  <1>3. /\ s.entry \in Entry /\ Recorded(s.entry) /\ s.expected \in 0..Len(log)
        /\ EditOf(log, RequestOf(s.entry), s.expected, s.entry.object)
    BY DEF IInv, TypeOK, LateFits, Straggler
  <1>4. CASE Top = s.expected
    <2>1. Store(s.entry)
      BY <1>1, <1>4 DEF Store
    <2>2. /\ log' \in Seq(Entry) /\ Len(log') = Len(log) + 1
          /\ LogRecorded' /\ NoLostUpdate'
          /\ \A r, o, v : v \in 0..Len(log) /\ EditOf(log, r, v, o) => EditOf(log', r, v, o)
      BY <1>2, <1>3, <1>4, <2>1, StoreStep
    <2>3. TypeOK' /\ CallsInProgress'
      BY <1>1, <1>2, <2>2 DEF IInv, TypeOK, CallsInProgress, req
    <2>4. \A v \in 0..Len(log) : v \in 0..Len(log')
      BY <2>2 DEF IInv, TypeOK
    <2>5. LateFits'
      BY <1>1, <1>2, <2>2, <2>4 DEF IInv, LateFits, Recorded, RequestOf
    <2>6. DraftsFit'
      BY <1>2, <2>2, <2>4 DEF IInv, DraftsFit, Precondition, req
    <2>7. QED
      BY <2>2, <2>3, <2>5, <2>6 DEF IInv
  <1>5. CASE Top # s.expected
    <2>1. log' = log /\ late' \subseteq late
      BY <1>1, <1>5
    <2>2. TypeOK' /\ CallsInProgress'
      BY <1>2, <2>1 DEF IInv, TypeOK, CallsInProgress, req
    <2>3. LateFits' /\ DraftsFit'
      BY <1>2, <2>1
      DEF IInv, LateFits, Recorded, RequestOf, DraftsFit, Precondition, req
    <2>4. LogRecorded' /\ NoLostUpdate'
      BY <1>2, <2>1 DEF IInv, LogRecorded, Recorded, NoLostUpdate, RequestOf
    <2>5. QED
      BY <2>2, <2>3, <2>4 DEF IInv
  <1>6. QED
    BY <1>4, <1>5

(* Calls that fail without storing anything, for now or for good. *)
LEMMA FailStep ==
  ASSUME IInv, NEW c \in Clients, Unavailable(c) \/ PutTimesOut(c)
  PROVE  IInv'
  <1>1. /\ Return(c, "unavailable", 0, NoFile) /\ UNCHANGED <<log, call>>
        /\ faults' \in 0..MaxFaults /\ edits' \in 0..MaxEdits
    BY StoreAssumption
    DEF Unavailable, PutTimesOut, Raise, Fault, storage, IInv, TypeOK
  <1>2. late' \subseteq Straggler /\ LateFits'
    <2>1. CASE Unavailable(c)
      BY <1>1, <2>1
      DEF Unavailable, storage, call, IInv, TypeOK, LateFits, Recorded, RequestOf
    <2>2. CASE PutTimesOut(c)
      <3> DEFINE s == [entry |-> Committed(c), expected |-> Precondition(c)]
      <3>1. pc[c] = "put" /\ late' = late \union {s}
        BY <2>2 DEF PutTimesOut
      <3>2. /\ s.entry \in Entry /\ s.entry.client \in Clients /\ Recorded(s.entry)
            /\ s.expected \in 0..Len(log)
            /\ EditOf(log, RequestOf(s.entry), s.expected, s.entry.object)
        BY <3>1, CommittedFits
      <3>3. s \in Straggler
        BY <3>2 DEF Straggler, IInv, TypeOK
      <3> HIDE DEF s
      <3>4. LateFits'
        BY <1>1, <3>1, <3>2 DEF IInv, LateFits, Recorded, RequestOf, call
      <3>5. QED
        BY <3>1, <3>3, <3>4 DEF IInv, TypeOK
    <2>3. QED
      BY <2>1, <2>2
  <1>3. QED
    BY <1>1, <1>2, ReturnStep, AnswerKinds

-----------------------------------------------------------------------------
LEMMA InitIInv == Init => IInv
  <1> SUFFICES ASSUME Init PROVE IInv
    OBVIOUS
  <1>1. log = <<>> /\ log \in Seq(Entry) /\ DOMAIN log = {}
    BY DEF Init
  <1>2. TypeOK
    <2>1. /\ NoAnswer \in Answer /\ Nothing \in [version : Nat, object : MaybeObject]
          /\ NoFile \in MaybeObject /\ 0 \in 0..(MaxAttempts - 1)
          /\ 0 \in 0..MaxFaults /\ 0 \in 0..MaxEdits
      BY StoreAssumption DEF NoAnswer, Answer, Kinds, Nothing, MaybeObject
    <2>2. <<>> \in Seq(Request)
      OBVIOUS
    <2>3. QED
      BY <1>1, <2>1, <2>2 DEF Init, TypeOK, MaybeObject
  <1>3. CallsInProgress /\ DraftsFit /\ LateFits
    BY DEF Init, CallsInProgress, DraftsFit, LateFits
  <1>4. LogRecorded /\ NoLostUpdate
    BY <1>1 DEF LogRecorded, NoLostUpdate
  <1>5. QED
    BY <1>2, <1>3, <1>4 DEF IInv

LEMMA NextIInv == IInv /\ [Next]_vars => IInv'
  <1> SUFFICES ASSUME IInv, [Next]_vars PROVE IInv'
    OBVIOUS
  <1>1. ASSUME NEW c \in Clients, Call(c) PROVE IInv'
    BY <1>1, CallStep
  <1>2. ASSUME NEW c \in Clients, Step(c) PROVE IInv'
    BY <1>2, CapStep, ReadStep, RefusedStep, CommitStep DEF Step
  <1>3. ASSUME NEW c \in Clients, Faulty(c) PROVE IInv'
    BY <1>3, CommitStep, ResendStep, FailStep DEF Faulty
  <1>4. CASE LatePut
    BY <1>4, LateStep
  <1>5. CASE OutsideEdit
    BY <1>5, OutsideStep
  <1>6. CASE UNCHANGED vars
    BY <1>6
    DEF vars, IInv, TypeOK, CallsInProgress, DraftsFit, LateFits, LogRecorded, Recorded,
        NoLostUpdate, RequestOf, Precondition, req
  <1>7. QED
    BY <1>1, <1>2, <1>3, <1>4, <1>5, <1>6 DEF Next

(* Every variable keeps its type: in particular a refused put never takes   *)
(* replace_fact past its attempts (core.py 798, _MAX_REPLACE_ATTEMPTS).     *)
THEOREM TypeCorrect == Spec => []TypeOK
  <1>1. IInv => TypeOK
    BY DEF IInv
  <1>2. QED
    BY <1>1, InitIInv, NextIInv, PTL DEF Spec

(* No lost update, for any number of clients, calls, attempts, outside      *)
(* edits and storage faults: every change a client commits is the edit it   *)
(* asked for of the object that change replaces (the conditional puts of    *)
(* write_file, replace_fact, append_line and delete_file).                  *)
THEOREM NoUpdateIsLost == Spec => []NoLostUpdate
  <1>1. IInv => NoLostUpdate
    BY DEF IInv
  <1>2. QED
    BY <1>1, InitIInv, NextIInv, PTL DEF Spec
=============================================================================
