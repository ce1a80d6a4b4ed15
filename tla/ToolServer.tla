----------------------------- MODULE ToolServer ----------------------------
(***************************************************************************)
(* Memory tool calls from the agent's request to its answer: through the   *)
(* MCP adapter, where every call reads its own credentials and binds its   *)
(* own tools on a worker thread, or directly on one session's MemoryTools. *)
(* Each call is a sequence of steps that other calls, and whatever changes *)
(* the resolver's and the client's answers, run between.                   *)
(*                                                                         *)
(* An adopter's server has one store and any resolver; the eval server     *)
(* (EvalTrials) replaces store and identity with every trial.  A store     *)
(* keeps what each path was last written by: its generation and whether    *)
(* the file still exists.                                                  *)
(***************************************************************************)
EXTENDS ToolCalls, FiniteSets

CONSTANTS
  Workers,    \* worker threads, each running one call at a time
  Requests,   \* the requests agents make, by name
  Hosts,      \* the deployments to choose from
  StoreIds    \* the stores that exist one after the other

NoStore == 0
FirstStore == 1

(* A deployment: how tools are reached ("mcp" or "direct"), the observer   *)
(* ("works", "raises" or "none"), whether it is the eval server, the       *)
(* identity a direct session is bound to or an eval server starts with,    *)
(* the requests agents make, what the client may raise, what a client      *)
(* outside the library may return, the bound on calls, and whether some of *)
(* them cannot be bound.                                                   *)
ServerAssumption ==
  /\ \A h \in Hosts :
        /\ h.entry \in {"mcp", "direct"}
        /\ h.observer \in {"works", "raises", "none"}
        /\ h.evals => h.entry = "mcp" /\ h.observer = "works"
        /\ h.bound \in DOMAIN Identities
        /\ h.calls \in Nat
        /\ h.requests \subseteq DOMAIN Requests
  /\ \A r \in DOMAIN Requests :
        /\ Requests[r].tool \in Tools
        /\ Requests[r].tool # "get_memory_index" =>
             /\ {"scope", "area"} \subseteq DOMAIN Requests[r].args
             /\ Requests[r].args.scope \in Scopes \cup BadText
             /\ (IF Requests[r].tool = "list_prefix" THEN "cursor" ELSE "name")
                  \in DOMAIN Requests[r].args
  /\ FirstStore \in StoreIds

ASSUME ServerGiven == ServerAssumption

VARIABLES
  host,      \* the deployment
  now,       \* the monotonic clock, in ticks
  store,     \* what each store holds
  current,   \* the store the client now forwards to
  serves,    \* the identity a store's trial runs under, if it is a trial's
  call,      \* each worker's call
  issued,    \* how many calls have been made
  records,   \* what the observer has received, in order
  reached,   \* history: every client call made
  answered   \* history: every answer given

setting == <<host, now, current, serves>>
serverVars == <<setting, store, call, issued, records, reached, answered>>

---------------------------------------------------------------------------
Unresolved == "unresolved"
EmptyStore == [gen |-> 0, files |-> {}]

Idle ==
  [pc |-> "idle", id |-> 0, req |-> "none", as |-> Unresolved,
   store |-> NoStore, outcome |-> Returns(NoValue), wrote |-> 0,
   began |-> 0, took |-> 0, home |-> NoStore, asked |-> 0, knew |-> {}]

Grants(w) == Identities[call[w].as]
Req(w) == Requests[call[w].req]

(* The one path a mutating call is about.                                  *)
PathAt(w) == PathOf(Req(w).args, Grants(w))
Live(s, path) == \E f \in store[s].files : f.path = path /\ f.live

(* The store once path has been written, or deleted.                       *)
Changed(st, path, live) ==
  [gen |-> st.gen + 1,
   files |-> {f \in st.files : f.path # path}
             \cup {[path |-> path, gen |-> st.gen + 1, live |-> live]}]

Advance(w, pc) == call' = [call EXCEPT ![w].pc = pc]

(* Mutant: the duration is the start minus the end.                        *)
Ends_Backwards(w, outcome, wrote) ==
  call' = [call EXCEPT ![w].pc = IF host.observer = "none" THEN "reply"
                                 ELSE "observe",
                       ![w].outcome = outcome, ![w].wrote = wrote,
                       ![w].took = call[w].began - now]

(* The tool has returned or raised: the clock stops, and an observed call  *)
(* goes on to its observer.                                                *)
Ends(w, outcome, wrote) ==
  call' = [call EXCEPT ![w].pc = IF host.observer = "none" THEN "reply"
                                 ELSE "observe",
                       ![w].outcome = outcome, ![w].wrote = wrote,
                       ![w].took = now - call[w].began]

---------------------------------------------------------------------------
ServerInit ==
  /\ host \in Hosts
  /\ now = 0
  /\ store = [s \in StoreIds |-> EmptyStore]
  /\ current = FirstStore
  /\ serves = [s \in StoreIds |-> IF host.evals /\ s = FirstStore
                                 THEN host.bound ELSE Unresolved]
  /\ call = [w \in Workers |-> Idle]
  /\ issued = 0 /\ records = <<>> /\ reached = {} /\ answered = {}

(* An agent makes a call; home, asked and knew are for the history: the    *)
(* store in use, how many turns the runner has recorded or tried to, and   *)
(* the answers agents have seen.                                           *)
Receive(w, req, asked) ==
  /\ call[w].pc = "idle" /\ issued < host.calls
  /\ issued' = issued + 1
  /\ call' = [call EXCEPT ![w] =
       [Idle EXCEPT !.pc = IF host.entry = "mcp" THEN "credentials"
                           ELSE "dispatch",
                    !.as = IF host.entry = "mcp" THEN Unresolved
                           ELSE host.bound,
                    !.id = issued + 1, !.req = req, !.began = now,
                    !.home = current, !.asked = asked,
                    !.knew = {a.id : a \in answered}]]
  /\ UNCHANGED <<setting, store, records, reached, answered>>

(* A call whose arguments Python or the MCP framework cannot bind never    *)
(* reaches the tool: the caller is told, and there is no record.           *)
RejectUnbound ==
  /\ host.unbound /\ issued < host.calls
  /\ issued' = issued + 1
  /\ answered' = answered \cup {[id |-> issued + 1, bound |-> FALSE,
                                 home |-> current, got |-> Fails(NoError)]}
  /\ UNCHANGED <<setting, store, call, records, reached>>

(* credentials_from_context, which belongs to the adopter and may raise.   *)
ReadCredentials(w) ==
  /\ call[w].pc = "credentials"
  /\ \/ Advance(w, "resolve")
     \/ ~host.evals /\ Ends(w, Fails(ResolverFailure), 0)
  /\ UNCHANGED <<setting, store, issued, records, reached, answered>>

(* resolve_identity: an Identity, or one error for a resolver that raises, *)
(* reports a failure or returns anything else.                             *)
Resolve(w, as) ==
  /\ call[w].pc = "resolve"
  /\ IF as = Unresolved THEN Ends(w, Fails(ResolverFailure), 0)
     ELSE call' = [call EXCEPT ![w].pc = "dispatch", ![w].as = as]
  /\ UNCHANGED <<setting, store, issued, records, reached, answered>>

(* The tool's checks, and the client it calls if they pass.                *)
Dispatch(w) ==
  /\ call[w].pc = "dispatch"
  /\ LET refused == Refusal(Req(w), Grants(w))
     IN IF refused # NoError
        THEN /\ Ends(w, Fails(refused), 0)
             /\ UNCHANGED reached
        ELSE /\ call' = [call EXCEPT ![w].pc = "client", ![w].store = current]
             /\ reached' = reached \cup
                  {[id |-> call[w].id, tool |-> Req(w).tool,
                    as |-> call[w].as, store |-> current, home |-> call[w].home,
                    targets |-> Targets(Req(w), Grants(w))]}
  /\ UNCHANGED <<setting, store, issued, records, answered>>

(* What a call that succeeds leaves in its store.                          *)
Effect(w) ==
  Changed(store[call[w].store], PathAt(w), Req(w).tool # "delete_file")

NeedsFile == {"read_file", "append_line", "replace_fact", "delete_file"}

CanSucceed(w) ==
  Req(w).tool \in NeedsFile => Live(call[w].store, PathAt(w))

KindOf(tool) ==
  CASE tool = "get_memory_index" -> "index"
    [] tool = "list_prefix" -> "page"
    [] tool = "delete_file" -> "none"
    [] OTHER -> "file"

ClientReturns(w) ==
  /\ call[w].pc = "client" /\ CanSucceed(w)
  /\ LET mutates == Req(w).tool \in Mutations
         s == call[w].store
         gen == IF mutates THEN store[s].gen + 1 ELSE 0
     IN /\ store' = IF mutates THEN [store EXCEPT ![s] = Effect(w)] ELSE store
        /\ Ends(w, Returns(Value(KindOf(Req(w).tool), EntryFields, gen)),
                gen)
  /\ UNCHANGED <<setting, issued, records, reached, answered>>

(* The client raises; a backend reached over a network may have done what  *)
(* it was asked all the same.                                              *)
ClientRaises(w) ==
  /\ call[w].pc = "client"
  /\ \E e \in host.errors :
       LET landed == /\ e.category = "transient" /\ CanSucceed(w)
                     /\ Req(w).tool \in Mutations
       IN /\ \/ UNCHANGED store
             \/ landed /\ store' = [store EXCEPT ![call[w].store] = Effect(w)]
          /\ Ends(w, Fails(ClientError(Req(w), e)), 0)
  /\ UNCHANGED <<setting, issued, records, reached, answered>>

(* A client that is not the library's returns something else.              *)
ClientMisbehaves(w) ==
  /\ call[w].pc = "client"
  /\ \E v \in host.odd : Ends(w, Returns(v), 0)
  /\ UNCHANGED <<setting, store, issued, records, reached, answered>>

(* The tool-call record, as record_call stamps it on arrival.              *)
RecordOf(w) ==
  [seq |-> Len(records) + 1, id |-> call[w].id, tool |-> Req(w).tool,
   result |-> Payload(call[w].outcome),
   started |-> now - call[w].took, completed |-> now,
   wrote |-> IF call[w].wrote = 0 THEN {}
             ELSE {[path |-> PathAt(w), gen |-> call[w].wrote]},
   home |-> call[w].home, asked |-> call[w].asked, knew |-> call[w].knew]

(* Mutant: only calls that returned are recorded.                          *)
Notify_ReturnsOnly(w) ==
  /\ call[w].pc = "observe"
  /\ Advance(w, "reply")
  /\ records' = IF host.observer = "works" /\ call[w].outcome.error = NoError
                THEN Append(records, RecordOf(w)) ELSE records
  /\ UNCHANGED <<setting, store, issued, reached, answered>>

(* notify_observer: whatever the observer raises is logged and swallowed.  *)
Notify(w) ==
  /\ call[w].pc = "observe"
  /\ Advance(w, "reply")
  /\ records' = IF host.observer = "works"
                THEN Append(records, RecordOf(w)) ELSE records
  /\ UNCHANGED <<setting, store, issued, reached, answered>>

(* The adapter answers with the payload; a direct call returns its value   *)
(* or raises its error.                                                    *)
Reply(w) ==
  /\ call[w].pc = "reply"
  /\ answered' = answered \cup {[id |-> call[w].id, bound |-> TRUE,
                                 home |-> call[w].home,
                                 got |-> call[w].outcome]}
  /\ call' = [call EXCEPT ![w] = Idle]
  /\ UNCHANGED <<setting, store, issued, records, reached>>

---------------------------------------------------------------------------
(* An adopter's server: a resolver that answers differently for different  *)
(* callers, or fails.                                                      *)
AdopterCall(w) ==
  /\ ~host.evals
  /\ \/ \E r \in host.requests : Receive(w, r, 0)
     \/ ReadCredentials(w)
     \/ \E as \in DOMAIN Identities \cup {Unresolved} : Resolve(w, as)
     \/ Dispatch(w)
     \/ ClientReturns(w) \/ ClientRaises(w) \/ ClientMisbehaves(w)
     \/ Notify(w) \/ Reply(w)

---------------------------------------------------------------------------
MayReach(grants, tool, t) ==
  /\ t.scope \in DOMAIN grants /\ t.entity = grants[t.scope].entity
  /\ tool \in Mutations =>
       /\ t.area # System
       /\ t.scope \in DOMAIN WriteRoles =>
            grants[t.scope].role \in WriteRoles[t.scope]

(* The client is only ever called on the caller's own entities in granted  *)
(* scopes, and to change something only outside system/ and with a role    *)
(* the scope's policy permits; and a call to the eval server that no reset *)
(* came between acts as the identity of the trial whose store it reaches   *)
(* (tools.py _path, _prefix and check_write; scope.py; server.py           *)
(* _ActiveClient and _ActiveResolver).                                     *)
CallsStayInGrants ==
  \A r \in reached :
     /\ \A t \in r.targets : MayReach(Identities[r.as], r.tool, t)
     /\ (r.home = r.store /\ serves[r.store] # Unresolved) =>
          r.as = serves[r.store]

(* Every call is recorded at most once, and one that could not be bound    *)
(* never; a record shows the payload its answer is, or renders as; and     *)
(* when the observer works an answer has its record in the trace, unless a *)
(* reset came between (tools.py _observed, mcp.py call, observer.py).      *)
AnswersAreRecorded ==
  /\ \A i, j \in DOMAIN records : records[i].id = records[j].id => i = j
  /\ \A a \in answered :
       LET about == {i \in DOMAIN records : records[i].id = a.id}
       IN IF a.bound
          THEN /\ \A i \in about : records[i].result = Payload(a.got)
               /\ (host.observer = "works" /\ a.home = current) => about # {}
          ELSE about = {}
=============================================================================
