--------------------------- MODULE AtomicStorage ---------------------------
(***************************************************************************)
(* What the Storage protocol promises, with the one exception a backend    *)
(* may state: each call takes effect in one atomic step between its        *)
(* beginning and its end, or is abandoned without effect; and a put that   *)
(* is abandoned may leave its body under the object's old version, which   *)
(* the docstring of filesystem.py calls the one exception to atomicity.    *)
(***************************************************************************)
EXTENDS StorageCalls

VARIABLES
  store,   \* [key -> [version, body]], version 0 when there is no object
  minted,  \* how many tokens were drawn
  begun,   \* how many calls were made
  call,    \* [client -> its last request]
  token,   \* [client -> the token its put drew, 0 before]
  open,    \* the clients inside a call
  answer   \* [client -> what its call returns, "none" until that is settled]

vars == <<store, minted, begun, call, token, open, answer>>

NoObject == [version |-> 0, body |-> 0]

Init ==
  /\ store = [k \in Keys |-> NoObject]
  /\ minted = 0
  /\ begun = 0
  /\ call = [c \in Clients |-> NoCall]
  /\ token = [c \in Clients |-> 0]
  /\ open = {}
  /\ answer = [c \in Clients |-> Plain("lost")]

-----------------------------------------------------------------------------
Begin(c) ==
  /\ c \notin open
  /\ begun' = begun + 1
  /\ \E r \in Calls, v \in 0..minted :
       /\ call' = [call EXCEPT ![c] = [r EXCEPT !.expected = v]]
       /\ Sensible(call'[c])
       /\ IF r.key = BadKey
          THEN /\ answer' = [answer EXCEPT ![c] = Refused(r)]
               /\ UNCHANGED open
          ELSE /\ answer' = [answer EXCEPT ![c] = Plain("none")]
               /\ open' = open \union {c}
  /\ token' = [token EXCEPT ![c] = 0]
  /\ UNCHANGED <<store, minted>>

Draw(c) ==
  /\ c \in open /\ call[c].op \in Puts /\ token[c] = 0
  /\ minted' = minted + 1
  /\ token' = [token EXCEPT ![c] = minted + 1]
  /\ UNCHANGED <<store, begun, call, open, answer>>

(* The call takes effect and its answer is settled. *)
Result(c) ==
  LET r == call[c]  now == store[r.key] IN
  CASE r.op = "get" -> IF now.version = 0 THEN Plain("absent")
                       ELSE Object(now.version, now.body)
    [] r.op = "list" ->
         LET there == {k \in Keys : store[k].version # 0}
         IN  Page({<<k, store[k].version>> : k \in Selected(r, there)})
    [] r.op \in {"cas", "delete"} /\ now.version # r.expected -> Plain("precondition")
    [] r.op = "delete" /\ now.version = r.expected -> Plain("ok")
    [] OTHER -> Committed(token[c])

Stored(c) == [version |-> token[c], body |-> token[c]]

Effect(c) ==
  LET r == call[c] IN
  /\ c \in open /\ answer[c].kind = "none"
  /\ answer' = [answer EXCEPT ![c] = Result(c)]
  /\ IF r.op \in Writes /\ Result(c).kind = "ok"
     THEN /\ r.op \in Puts => token[c] # 0
          /\ store' = [store EXCEPT ![r.key] = IF r.op = "delete" THEN NoObject
                                               ELSE Stored(c)]
     ELSE UNCHANGED store
  /\ UNCHANGED <<minted, begun, call, token, open>>

(* A put in progress leaves its body under the version it found. *)
Tear(c) ==
  /\ c \in open /\ answer[c].kind = "none" /\ token[c] # 0
  /\ store[call[c].key].version # 0
  /\ store' = [store EXCEPT ![call[c].key].body = token[c]]

(* The call is given up, before or after it took effect. *)
Abandon(c) ==
  /\ c \in open
  /\ answer' = [answer EXCEPT ![c] = Plain("unavailable")]
  /\ Tear(c) \/ UNCHANGED store
  /\ UNCHANGED <<minted, begun, call, token, open>>

Return(c) ==
  /\ c \in open
  /\ \/ answer[c].kind # "none" /\ UNCHANGED answer
     \/ answer' = [answer EXCEPT ![c] = Plain("unavailable")]
  /\ open' = open \ {c}
  /\ UNCHANGED <<store, minted, begun, call, token>>

(* Some of the clients die together. *)
Crash ==
  \E S \in SUBSET Clients :
    /\ open' = open \ S
    /\ answer' = [c \in Clients |-> IF c \in S \intersect open THEN Plain("lost")
                                    ELSE answer[c]]
    /\ (\E c \in S : Tear(c)) \/ UNCHANGED store
    /\ UNCHANGED <<minted, begun, call, token>>

Next ==
  \/ \E c \in Clients : Begin(c) \/ Draw(c) \/ Effect(c) \/ Abandon(c) \/ Return(c)
  \/ Crash

Spec == Init /\ [][Next]_vars
=============================================================================
