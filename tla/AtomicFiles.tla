---------------------------- MODULE AtomicFiles ----------------------------
(***************************************************************************)
(* What MemoryStore promises of one file, without saying how: a call takes *)
(* effect in one atomic step between its invocation and its answer, and    *)
(* the answer is true of some moment in between.  There are no reads that  *)
(* can go stale, no retries and no re-reads here.  MemoryStore.tla is      *)
(* shown to implement this module.                                         *)
(*                                                                         *)
(* An atomic step may edit the file more than once on behalf of one call:  *)
(* replace_fact and a create promise no more than that when the backend    *)
(* resends a put (see ReplaceLandsOnce in MemoryStore.tla).                *)
(***************************************************************************)
EXTENDS Files

VARIABLES
  log,     \* every change committed at the path, oldest first
  late,    \* changes of failed calls that may still take effect
  asked,   \* [client -> the requests it has made]
  open,    \* the clients that are inside a call
  born,    \* [client -> how many changes were committed when the call began]
  answer   \* [client -> the answer of its last call]

vars == <<log, late, asked, open, born, answer>>

Init ==
  /\ log = <<>>
  /\ late = {}
  /\ asked = [c \in Clients |-> <<>>]
  /\ open = {}
  /\ born = [c \in Clients |-> 0]
  /\ answer = [c \in Clients |-> NoAnswer]

req(c) == asked[c][Len(asked[c])]

(* Object o may replace the current object on behalf of request r. *)
IsEdit(r, o) == EditOf(log, r, Current(log), o)

(* At some moment of c's call, l being the history up to its answer, the   *)
(* file was at version v and held o.                                       *)
Was(c, l, v, o) ==
  \E i \in born[c]..Len(l) : v = VersionAt(l, i) /\ o = ObjectAt(l, v)

Moments(c, l) ==
  {ObjectAt(l, VersionAt(l, i)) : i \in born[c]..Len(l)}

(* Own(c, l, v, o): c's call made the change v, leaving object o. *)
Own(c, l, v, o) ==
  l[v] = [client |-> c, call |-> Len(asked[c]), object |-> o]

(* Answer x is justified by history l. *)
Justified(c, l, x) ==
  LET r == req(c) IN
  CASE x.kind = "ok" /\ r.op = "read" ->
         x.version # 0 /\ Was(c, l, x.version, x.object)
    [] x.kind = "ok" /\ r.op = "delete" ->
         \E j \in born[c] + 1..Len(l) : Own(c, l, j, NoFile)
    [] x.kind = "ok" /\ r.op \notin {"read", "delete"} ->
         /\ x.version \in born[c] + 1..Len(l)
         /\ l[x.version].object = x.object
         /\ \/ Own(c, l, x.version, x.object)
            \/ /\ r.op = "append"
               /\ \E t \in Stamps : x.object = Edited(r, ObjectAt(l, r.expected), t)
    [] x.kind = "conflict" ->
         x.version \notin {0, r.expected} /\ Was(c, l, x.version, x.object)
    [] x.kind = "match" ->
         /\ x.version = r.expected /\ Was(c, l, x.version, x.object)
         /\ Occurrences(x.object.body, r.anchor) # 1
    [] x.kind = "absent" -> NoFile \in Moments(c, l)
    [] x.kind = "quota" -> r.expected = 0 /\ NoFile \in Moments(c, l)
    [] x.kind = "malformed" ->
         \E o \in Moments(c, l) \ {NoFile} : ~(Decodes(o) /\ Parses(o))
    [] x.kind = "oversize" ->
         \E o \in Moments(c, l) \ {NoFile} :
           /\ r.op = "replace" => Occurrences(o.body, r.anchor) = 1
           /\ Oversize(NewBody(r, o.body))
    [] OTHER -> x.kind = "unavailable"

-----------------------------------------------------------------------------
(* A call begins, or is refused for its arguments alone. *)
Invoke(c) ==
  /\ c \notin open
  /\ \E call0 \in Calls, v \in 0..Len(log) :
       LET r == [call0 EXCEPT !.expected = v] IN
       /\ asked' = [asked EXCEPT ![c] = Append(@, r)]
       /\ \/ /\ r.valid
             /\ open' = open \union {c}
             /\ answer' = [answer EXCEPT ![c] = NoAnswer]
          \/ /\ \/ answer'[c].kind = "invalid" /\ ~r.valid
                \/ answer'[c].kind = "oversize" /\ Oversize(r.text)
             /\ answer' = [answer EXCEPT ![c] = answer'[c]]
             /\ UNCHANGED open
  /\ born' = [born EXCEPT ![c] = Len(log)]
  /\ UNCHANGED <<log, late>>

(* The call takes effect, now or never; *)
Effect(c) ==
  \/ UNCHANGED log
  \/ \E o \in {log'[Len(log')].object} :
       /\ IsEdit(req(c), o)
       /\ log' = Append(log, [client |-> c, call |-> Len(asked[c]), object |-> o])

(* and answers, now or later.  A call that answers "unavailable" may leave *)
(* a change behind that is still on its way.                               *)
Respond(c) ==
  /\ open' = open \ {c}
  /\ answer' = [answer EXCEPT ![c] = answer'[c]]
  /\ Justified(c, log', answer'[c])
  /\ late \subseteq late'
  /\ \A s \in late' \ late :
       /\ answer'[c].kind = "unavailable"
       /\ s.entry.client = c /\ s.entry.call = Len(asked[c])

Act(c) ==
  /\ c \in open
  /\ Effect(c)
  /\ Respond(c) \/ UNCHANGED <<open, answer, late>>
  /\ UNCHANGED <<asked, born>>

(* A change left behind takes effect like any other, or never does.        *)
LateEffect ==
  \E s \in late :
    /\ late' = late \ {s}
    /\ \/ UNCHANGED log
       \/ /\ IsEdit(asked[s.entry.client][s.entry.call], s.entry.object)
          /\ log' = Append(log, s.entry)
    /\ UNCHANGED <<asked, open, born, answer>>

OutsideEdit ==
  /\ \E o \in OutsideObjects :
       log' = Append(log, [client |-> Outside, call |-> 0, object |-> o])
  /\ UNCHANGED <<late, asked, open, born, answer>>

Next ==
  \/ \E c \in Clients : Invoke(c) \/ Act(c)
  \/ LateEffect
  \/ OutsideEdit

Spec == Init /\ [][Next]_vars
=============================================================================
