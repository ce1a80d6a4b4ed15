-------------------------- MODULE EvalTrialsProofs --------------------------
(***************************************************************************)
(* Proofs about memory tool calls and the trials around them, for any      *)
(* agents, requests, resolvers, scope policies, clients, trials, turns,    *)
(* dumps, reports and crashes: a call is made only where the caller's      *)
(* grants permit it, records and answers agree, a trace tells turns and    *)
(* times as they were, a dump accounts for its trace, and a report is      *)
(* about the files on disk.                                                *)
(***************************************************************************)
EXTENDS EvalTrials, WellFoundedInduction, TLAPS

---------------------------------------------------------------------------
(* The checks let through only what may be reached.  A mutation passes the *)
(* policy, and any call names a granted scope and takes the entity from    *)
(* the grant.                                                              *)
LEMMA GrantedScope ==
  ASSUME NEW args, NEW grants, "scope" \in DOMAIN args,
         args.scope \in Scopes \cup BadText,
         \/ ArgumentError(PathChecks(DOMAIN grants), args) = NoError
         \/ ArgumentError(PrefixChecks(DOMAIN grants), args) = NoError
  PROVE  args.scope \in DOMAIN grants
  <1>1. ASSUME NEW checks, ArgumentError(checks, args) = NoError
        PROVE  Failing(checks, args) = {}
    BY <1>1 DEF ArgumentError, NoError, InvalidArgument, Error
  <1>2. CASE ArgumentError(PathChecks(DOMAIN grants), args) = NoError
    <2> DEFINE checks == PathChecks(DOMAIN grants)
    <2>1. /\ 1 \in DOMAIN checks /\ checks[1] = <<"scope", {"nonstr"}>>
          /\ 4 \in DOMAIN checks /\ checks[4] = <<"scope", {"unencodable"}>>
          /\ 7 \in DOMAIN checks /\ checks[7] = <<"scope", Scopes \ DOMAIN grants>>
      BY DEF PathChecks
    <2>2. \A i \in DOMAIN checks : checks[i][1] = "scope" => args.scope \notin checks[i][2]
      BY <1>1, <1>2 DEF Failing
    <2>3. QED
      BY <2>1, <2>2 DEF BadText
  <1>3. CASE ArgumentError(PrefixChecks(DOMAIN grants), args) = NoError
    <2> DEFINE checks == PrefixChecks(DOMAIN grants)
    <2>1. /\ 1 \in DOMAIN checks /\ checks[1] = <<"scope", {"nonstr"}>>
          /\ 3 \in DOMAIN checks /\ checks[3] = <<"scope", {"unencodable"}>>
          /\ 5 \in DOMAIN checks /\ checks[5] = <<"scope", Scopes \ DOMAIN grants>>
      BY DEF PrefixChecks
    <2>2. \A i \in DOMAIN checks : checks[i][1] = "scope" => args.scope \notin checks[i][2]
      BY <1>1, <1>3 DEF Failing
    <2>3. QED
      BY <2>1, <2>2 DEF BadText
  <1>4. QED
    BY <1>2, <1>3

LEMMA PolicyPermits ==
  ASSUME NEW path, NEW grants, CheckWrite(path, grants) = NoError
  PROVE  /\ path.area # System
         /\ path.scope \in DOMAIN WriteRoles =>
              grants[path.scope].role \in WriteRoles[path.scope]
  BY DEF CheckWrite, NoError, Restricted, Error

LEMMA RefusalsProtect ==
  ASSUME NEW r \in DOMAIN Requests, NEW grants,
         Refusal(Requests[r], grants) = NoError
  PROVE  \A t \in Targets(Requests[r], grants) : MayReach(grants, Requests[r].tool, t)
  <1> DEFINE req == Requests[r]
  <1>1. /\ req.tool \in Tools
        /\ req.tool # "get_memory_index" =>
             "scope" \in DOMAIN req.args /\ req.args.scope \in Scopes \cup BadText
    BY ServerGiven DEF ServerAssumption
  <1>2. CASE req.tool = "get_memory_index"
    BY <1>2 DEF Targets, MayReach, Mutations
  <1>3. CASE req.tool = "read_file"
    <2>1. req.args.scope \in DOMAIN grants
      BY <1>1, <1>3, GrantedScope DEF Refusal
    <2>2. QED
      BY <1>3, <2>1 DEF Targets, MayReach, Mutations, PathOf
  <1>4. CASE req.tool = "list_prefix"
    <2>1. req.args.scope \in DOMAIN grants
      BY <1>1, <1>4, GrantedScope DEF Refusal
    <2>2. QED
      BY <1>4, <2>1 DEF Targets, MayReach, Mutations, PrefixOf
  <1>5. CASE req.tool \in Mutations
    <2>1. /\ ArgumentError(PathChecks(DOMAIN grants), req.args) = NoError
          /\ CheckWrite(PathOf(req.args, grants), grants) = NoError
      BY <1>5 DEF Refusal, RefusedMutation, Mutations
    <2>2. req.args.scope \in DOMAIN grants
      BY <1>1, <1>5, <2>1, GrantedScope DEF Mutations
    <2> DEFINE path == PathOf(req.args, grants)
    <2>3. /\ path.area # System
          /\ path.scope \in DOMAIN WriteRoles =>
               grants[path.scope].role \in WriteRoles[path.scope]
      BY <2>1, PolicyPermits
    <2>4. path.scope = req.args.scope /\ path.entity = grants[req.args.scope].entity
      BY DEF PathOf
    <2>5. Targets(req, grants) = {path}
      BY <1>5 DEF Targets, Mutations
    <2>6. QED
      BY <2>2, <2>3, <2>4, <2>5 DEF MayReach
  <1>6. QED
    BY <1>1, <1>2, <1>3, <1>4, <1>5 DEF Tools

---------------------------------------------------------------------------
(* The invariant: a call about to be dispatched, in the trial it was made  *)
(* in, carries that trial's identity; every store a call was made in or    *)
(* has reached is one that a later reset leaves alone.                     *)
CallFields ==
  {"pc", "id", "req", "as", "store", "outcome", "wrote", "began", "took",
   "home", "asked", "knew"}

CallsHaveFields ==
  /\ call = [w \in Workers |-> call[w]]
  /\ \A w \in Workers : call[w] = [f \in CallFields |-> call[w][f]]

TrialsInOrder ==
  /\ host \in Hosts
  /\ current \in StoreIds /\ current \in Nat
  /\ serves = [s \in StoreIds |-> serves[s]]
  /\ ~host.evals => \A s \in StoreIds : serves[s] = Unresolved
  /\ \A w \in Workers : call[w].home \in Nat /\ call[w].home <= current
  /\ \A r \in reached :
        /\ r.store \in StoreIds /\ r.store \in Nat /\ r.store <= current

DispatchedAsServed ==
  \A w \in Workers :
     call[w].pc = "dispatch" =>
       /\ call[w].req \in DOMAIN Requests
       /\ (call[w].home = current /\ serves[current] # Unresolved) =>
            call[w].as = serves[current]

RequestsKnown ==
  \A w \in Workers :
     call[w].pc \in {"credentials", "resolve"} => call[w].req \in DOMAIN Requests

GrantInv ==
  /\ CallsHaveFields
  /\ TrialsInOrder
  /\ RequestsKnown
  /\ DispatchedAsServed
  /\ CallsStayInGrants

LEMMA OneCallChanges ==
  ASSUME CallsHaveFields, NEW w \in Workers, NEW new,
         new = [f \in CallFields |-> new[f]], call' = [call EXCEPT ![w] = new]
  PROVE  CallsHaveFields' /\ call'[w] = new /\ \A v \in Workers \ {w} : call'[v] = call[v]
  <1>1. call = [v \in Workers |-> call[v]]
    BY DEF CallsHaveFields
  <1>2. call'[w] = new /\ \A v \in Workers \ {w} : call'[v] = call[v]
    BY <1>1
  <1>3. call' = [v \in Workers |-> call'[v]]
    BY <1>1
  <1>4. QED
    BY <1>2, <1>3 DEF CallsHaveFields

LEMMA EndsKeepsFields ==
  ASSUME CallsHaveFields, NEW w \in Workers, NEW outcome, NEW wrote,
         Ends(w, outcome, wrote)
  PROVE  /\ CallsHaveFields'
         /\ call'[w].pc \in {"observe", "reply"}
         /\ call'[w].pc = "reply" <=> host.observer = "none"
         /\ call'[w].outcome = outcome
         /\ \A f \in CallFields \ {"pc", "outcome", "wrote", "took"} :
               call'[w][f] = call[w][f]
         /\ \A v \in Workers \ {w} : call'[v] = call[v]
  <1> DEFINE pc == IF host.observer = "none" THEN "reply" ELSE "observe"
             took == now - call[w].began
             new == [call[w] EXCEPT !.pc = pc, !.outcome = outcome,
                                    !.wrote = wrote, !.took = took]
  <1>1. call' = [call EXCEPT ![w] = new]
    BY DEF Ends
  <1>2. call[w] = [f \in CallFields |-> call[w][f]]
    BY DEF CallsHaveFields
  <1>3. /\ new = [f \in CallFields |-> new[f]] /\ new.pc = pc /\ new.outcome = outcome
        /\ \A f \in CallFields \ {"pc", "outcome", "wrote", "took"} : new[f] = call[w][f]
    BY <1>2 DEF CallFields
  <1> HIDE DEF new
  <1>4. CallsHaveFields' /\ call'[w] = new /\ \A v \in Workers \ {w} : call'[v] = call[v]
    BY <1>1, <1>3, OneCallChanges
  <1>5. QED
    BY <1>3, <1>4

LEMMA AdvanceKeepsFields ==
  ASSUME CallsHaveFields, NEW w \in Workers, NEW pc, Advance(w, pc)
  PROVE  /\ CallsHaveFields'
         /\ call'[w].pc = pc
         /\ \A f \in CallFields \ {"pc"} : call'[w][f] = call[w][f]
         /\ \A v \in Workers \ {w} : call'[v] = call[v]
  <1> DEFINE new == [call[w] EXCEPT !.pc = pc]
  <1>1. call' = [call EXCEPT ![w] = new]
    BY DEF Advance
  <1>2. call[w] = [f \in CallFields |-> call[w][f]]
    BY DEF CallsHaveFields
  <1>3. /\ new = [f \in CallFields |-> new[f]] /\ new.pc = pc
        /\ \A f \in CallFields \ {"pc"} : new[f] = call[w][f]
    BY <1>2 DEF CallFields
  <1> HIDE DEF new
  <1>4. CallsHaveFields' /\ call'[w] = new /\ \A v \in Workers \ {w} : call'[v] = call[v]
    BY <1>1, <1>3, OneCallChanges
  <1>5. QED
    BY <1>3, <1>4

(* A step of one call that reaches nothing keeps the invariant, if the     *)
(* call stays in its trial, its request is known and it is dispatched only *)
(* as the identity served.                                                 *)
LEMMA QuietCallStep ==
  ASSUME GrantInv, NEW w \in Workers, UNCHANGED <<setting, reached>>,
         CallsHaveFields', \A v \in Workers \ {w} : call'[v] = call[v],
         call'[w].home \in {call[w].home, NoStore, current},
         call'[w].pc \in {"credentials", "resolve", "dispatch"} =>
           call'[w].req \in DOMAIN Requests,
         call'[w].pc = "dispatch" =>
           ((call'[w].home = current /\ serves[current] # Unresolved) =>
              call'[w].as = serves[current])
  PROVE  GrantInv'
  <1> USE DEF GrantInv
  <1>1. UNCHANGED <<host, current, serves, reached>>
    BY DEF setting
  <1>2. TrialsInOrder'
    BY <1>1 DEF TrialsInOrder, NoStore
  <1>3. RequestsKnown' /\ DispatchedAsServed'
    BY <1>1 DEF RequestsKnown, DispatchedAsServed
  <1>4. CallsStayInGrants'
    BY <1>1 DEF CallsStayInGrants
  <1>5. QED
    BY <1>2, <1>3, <1>4

LEMMA ReceiveStep ==
  ASSUME GrantInv, NEW w \in Workers, NEW r \in host.requests, NEW asked,
         Receive(w, r, asked)
  PROVE  GrantInv'
  <1> DEFINE pc == IF host.entry = "mcp" THEN "credentials" ELSE "dispatch"
             as == IF host.entry = "mcp" THEN Unresolved ELSE host.bound
             knew == {a.id : a \in answered}
             new == [Idle EXCEPT !.pc = pc, !.as = as, !.id = issued + 1, !.req = r,
                                 !.began = now, !.home = current, !.asked = asked,
                                 !.knew = knew]
  <1>1. call' = [call EXCEPT ![w] = new] /\ UNCHANGED <<setting, reached>>
    BY DEF Receive
  <1>2. r \in DOMAIN Requests /\ (host.evals => host.entry = "mcp")
    BY ServerGiven DEF GrantInv, ServerAssumption, TrialsInOrder
  <1>3. pc = "dispatch" => serves[current] = Unresolved
    BY <1>2 DEF GrantInv, TrialsInOrder
  <1>4. /\ new = [f \in CallFields |-> new[f]]
        /\ new.pc = pc /\ new.req = r /\ new.home = current
    BY ZenonT(60) DEF Idle, CallFields
  <1> HIDE DEF new, pc
  <1>5. /\ CallsHaveFields' /\ call'[w] = new
        /\ \A v \in Workers \ {w} : call'[v] = call[v]
    BY <1>1, <1>4, OneCallChanges DEF GrantInv
  <1>6. call'[w].pc = pc /\ call'[w].req = r /\ call'[w].home = current
    BY <1>4, <1>5
  <1>7. QED
    BY <1>1, <1>2, <1>3, <1>5, <1>6, QuietCallStep

(* A call past its dispatch acts as nobody again.                          *)
LEMMA EndingStep ==
  ASSUME GrantInv, NEW w \in Workers, NEW outcome, NEW wrote,
         Ends(w, outcome, wrote), UNCHANGED <<setting, reached>>
  PROVE  GrantInv'
  <1>1. /\ CallsHaveFields' /\ call'[w].pc \in {"observe", "reply"}
        /\ call'[w].home = call[w].home
        /\ \A v \in Workers \ {w} : call'[v] = call[v]
    BY EndsKeepsFields DEF GrantInv, CallFields
  <1>2. QED
    BY <1>1, QuietCallStep

LEMMA ResolveStep ==
  ASSUME GrantInv, NEW w \in Workers, NEW as, Resolve(w, as),
         host.evals => as = serves[current]
  PROVE  GrantInv'
  <1>1. CASE as = Unresolved
    BY <1>1, EndingStep DEF Resolve
  <1>2. CASE as # Unresolved
    <2> DEFINE new == [call[w] EXCEPT !.pc = "dispatch", !.as = as]
    <2>1. call' = [call EXCEPT ![w] = new] /\ UNCHANGED <<setting, reached>>
      BY <1>2 DEF Resolve
    <2>2. call[w] = [f \in CallFields |-> call[w][f]]
      BY DEF GrantInv, CallsHaveFields
    <2>3. /\ new = [f \in CallFields |-> new[f]] /\ new.pc = "dispatch" /\ new.as = as
          /\ new.req = call[w].req /\ new.home = call[w].home
      BY <2>2 DEF CallFields
    <2> HIDE DEF new
    <2>4. /\ CallsHaveFields' /\ call'[w] = new
          /\ \A v \in Workers \ {w} : call'[v] = call[v]
      BY <2>1, <2>3, OneCallChanges DEF GrantInv
    <2>5. call[w].req \in DOMAIN Requests
      BY DEF Resolve, GrantInv, RequestsKnown
    <2>6. serves[current] # Unresolved => as = serves[current]
      BY DEF GrantInv, TrialsInOrder
    <2>7. /\ call'[w].pc = "dispatch" /\ call'[w].as = as
          /\ call'[w].req = call[w].req /\ call'[w].home = call[w].home
      BY <2>3, <2>4
    <2>8. QED
      BY <2>1, <2>4, <2>5, <2>6, <2>7, QuietCallStep
  <1>3. QED
    BY <1>1, <1>2

LEMMA DispatchStep ==
  ASSUME GrantInv, NEW w \in Workers, Dispatch(w)
  PROVE  GrantInv'
  <1> DEFINE refused == Refusal(Req(w), Grants(w))
  <1>1. CASE refused # NoError
    BY <1>1, EndingStep DEF Dispatch, setting
  <1>2. CASE refused = NoError
    <2> DEFINE new == [call[w] EXCEPT !.pc = "client", !.store = current]
               called == [id |-> call[w].id, tool |-> Req(w).tool,
                          as |-> call[w].as, store |-> current,
                          home |-> call[w].home,
                          targets |-> Targets(Req(w), Grants(w))]
    <2>1. /\ call' = [call EXCEPT ![w] = new] /\ UNCHANGED setting
          /\ reached' = reached \cup {called}
          /\ call[w].pc = "dispatch"
      BY <1>2 DEF Dispatch
    <2>2. call[w] = [f \in CallFields |-> call[w][f]]
      BY DEF GrantInv, CallsHaveFields
    <2>3. /\ new = [f \in CallFields |-> new[f]] /\ new.pc = "client"
          /\ new.home = call[w].home
      BY <2>2 DEF CallFields
    <2> HIDE DEF new
    <2>4. /\ CallsHaveFields' /\ call'[w] = new
          /\ \A v \in Workers \ {w} : call'[v] = call[v]
      BY <2>1, <2>3, OneCallChanges DEF GrantInv
    <2>5. call'[w].pc = "client" /\ call'[w].home = call[w].home
      BY <2>3, <2>4
    <2>6. UNCHANGED <<host, current, serves>>
      BY <2>1 DEF setting
    <2>7. TrialsInOrder' /\ RequestsKnown' /\ DispatchedAsServed'
      BY <2>1, <2>4, <2>5, <2>6
         DEF GrantInv, TrialsInOrder, RequestsKnown, DispatchedAsServed
    <2>8. /\ \A t \in called.targets : MayReach(Identities[called.as], called.tool, t)
          /\ (called.home = called.store /\ serves[called.store] # Unresolved) =>
               called.as = serves[called.store]
      <3>1. /\ call[w].req \in DOMAIN Requests
            /\ (call[w].home = current /\ serves[current] # Unresolved) =>
                 call[w].as = serves[current]
        BY <2>1 DEF GrantInv, DispatchedAsServed
      <3>2. QED
        BY <1>2, <3>1, RefusalsProtect DEF Req, Grants
    <2> HIDE DEF called
    <2>9. CallsStayInGrants'
      BY <2>1, <2>6, <2>8 DEF GrantInv, CallsStayInGrants
    <2>10. QED
      BY <2>4, <2>7, <2>9 DEF GrantInv
  <1>3. QED
    BY <1>1, <1>2

LEMMA ServerStep ==
  ASSUME GrantInv, NEW w \in Workers,
         \/ ReadCredentials(w) \/ Dispatch(w) \/ ClientReturns(w)
         \/ ClientRaises(w) \/ ClientMisbehaves(w) \/ Notify(w) \/ Reply(w)
  PROVE  GrantInv'
  <1>1. CASE ReadCredentials(w)
    <2>1. CASE Advance(w, "resolve")
      <3>1. /\ CallsHaveFields' /\ call'[w].pc = "resolve"
            /\ call'[w].home = call[w].home /\ call'[w].req = call[w].req
            /\ \A v \in Workers \ {w} : call'[v] = call[v]
        BY <2>1, AdvanceKeepsFields DEF GrantInv, CallFields
      <3>2. call[w].req \in DOMAIN Requests
        BY <1>1 DEF ReadCredentials, GrantInv, RequestsKnown
      <3>3. QED
        BY <1>1, <3>1, <3>2, QuietCallStep DEF ReadCredentials
    <2>2. QED
      BY <1>1, <2>1, EndingStep DEF ReadCredentials
  <1>2. CASE Dispatch(w)
    BY <1>2, DispatchStep
  <1>3. CASE ClientReturns(w) \/ ClientRaises(w) \/ ClientMisbehaves(w)
    BY <1>3, EndingStep DEF ClientReturns, ClientRaises, ClientMisbehaves
  <1>4. CASE Notify(w)
    <2>1. /\ CallsHaveFields' /\ call'[w].pc = "reply" /\ call'[w].home = call[w].home
          /\ \A v \in Workers \ {w} : call'[v] = call[v]
      BY <1>4, AdvanceKeepsFields DEF Notify, GrantInv, CallFields
    <2>2. QED
      BY <1>4, <2>1, QuietCallStep DEF Notify
  <1>5. CASE Reply(w)
    <2>1. call' = [call EXCEPT ![w] = Idle] /\ UNCHANGED <<setting, reached>>
      BY <1>5 DEF Reply
    <2>2. Idle = [f \in CallFields |-> Idle[f]] /\ Idle.pc = "idle" /\ Idle.home = NoStore
      BY DEF Idle, CallFields
    <2>3. /\ CallsHaveFields' /\ call'[w] = Idle
          /\ \A v \in Workers \ {w} : call'[v] = call[v]
      BY <2>1, <2>2, OneCallChanges DEF GrantInv
    <2>4. QED
      BY <2>1, <2>2, <2>3, QuietCallStep
  <1>6. QED
    BY <1>1, <1>2, <1>3, <1>4, <1>5

(* A new trial, by a reset or a restart: what was served before is served  *)
(* still, and no call or store is as new as the one that starts.           *)
LEMMA NewTrialStep ==
  ASSUME GrantInv, NEW st, NEW identity, NEW d, StartTrial(st, identity, d),
         host.evals, UNCHANGED <<host, reached>>,
         call' = call \/ call' = [w \in Workers |-> Idle]
  PROVE  GrantInv'
  <1>1. /\ current' = current + 1 /\ current + 1 \in StoreIds
        /\ serves' = [serves EXCEPT ![current + 1] = identity]
    BY TrialsGiven DEF StartTrial, TrialsAssumption, GrantInv, TrialsInOrder
  <1>2. Idle = [f \in CallFields |-> Idle[f]] /\ Idle.pc = "idle" /\ Idle.home = NoStore
    BY DEF Idle, CallFields
  <1>3. CallsHaveFields'
    BY <1>2 DEF GrantInv, CallsHaveFields
  <1>4. RequestsKnown'
    BY <1>2 DEF GrantInv, RequestsKnown
  <1>5. TrialsInOrder'
    BY <1>1, <1>2 DEF GrantInv, TrialsInOrder, NoStore
  <1>6. DispatchedAsServed'
    <2>1. \A w \in Workers : call'[w].pc = "dispatch" =>
             /\ call'[w].req \in DOMAIN Requests
             /\ call'[w].home # current + 1
      BY <1>2 DEF GrantInv, DispatchedAsServed, TrialsInOrder
    <2>2. QED
      BY <1>1, <2>1 DEF DispatchedAsServed
  <1>7. CallsStayInGrants'
    <2>1. \A r \in reached : serves'[r.store] = serves[r.store]
      BY <1>1 DEF GrantInv, TrialsInOrder
    <2>2. QED
      BY <2>1 DEF GrantInv, CallsStayInGrants
  <1>8. QED
    BY <1>3, <1>4, <1>5, <1>6, <1>7 DEF GrantInv

LEMMA InitGrantInv == Init => GrantInv
  <1> SUFFICES ASSUME Init PROVE GrantInv
    OBVIOUS
  <1>1. /\ Idle = [f \in CallFields |-> Idle[f]] /\ Idle.pc = "idle"
        /\ Idle.home = NoStore
    BY DEF Idle, CallFields
  <1>2. CallsHaveFields /\ RequestsKnown /\ DispatchedAsServed
    BY <1>1 DEF Init, ServerInit, CallsHaveFields, RequestsKnown, DispatchedAsServed
  <1>3. TrialsInOrder
    BY <1>1, ServerGiven
       DEF Init, ServerInit, ServerAssumption, TrialsInOrder, NoStore, FirstStore
  <1>4. QED
    BY <1>2, <1>3 DEF GrantInv, CallsStayInGrants, Init, ServerInit

LEMMA NextGrantInv == GrantInv /\ [Next]_vars => GrantInv'
  <1> SUFFICES ASSUME GrantInv, [Next]_vars PROVE GrantInv'
    OBVIOUS
  <1> DEFINE quiet == UNCHANGED <<host, current, serves, call, reached>>
  <1>1. ASSUME quiet PROVE GrantInv'
    BY <1>1 DEF GrantInv, CallsHaveFields, TrialsInOrder, RequestsKnown,
                DispatchedAsServed, CallsStayInGrants
  <1>2. ASSUME NEW w \in Workers, AgentCall(w) \/ AdopterCall(w) PROVE GrantInv'
    BY <1>2, ReceiveStep, ResolveStep, ServerStep DEF AgentCall, AdopterCall
  <1>3. ASSUME NEW d \in Dirs, Reset(d) PROVE GrantInv'
    BY <1>3, NewTrialStep DEF Reset, Ready
  <1>4. CASE Crash
    BY <1>4, NewTrialStep DEF Crash
  <1>5. CASE Tick
    BY <1>1, <1>5 DEF Tick
  <1>6. CASE RejectUnbound /\ UNCHANGED evalVars
    BY <1>1, <1>6 DEF RejectUnbound, setting
  <1>7. ASSUME NEW d \in Dirs, GradeTrial(d) PROVE GrantInv'
    BY <1>1, <1>7 DEF GradeTrial, serverVars, setting
  <1>8. CASE \/ WriteTranscript \/ RecordTurn \/ ReplyUnavailable \/ ReplyFound
             \/ BeginDump \/ ListScope \/ ReadFile \/ AllRead \/ WriteDump
             \/ BeginReport \/ ReportTrial \/ WriteReport
    <2>1. UNCHANGED <<setting, call, reached>>
      BY <1>8 DEF WriteTranscript, RecordTurn, ReplyUnavailable, ReplyFound,
                  KeepReply, BeginDump, ListScope, ReadFile, AllRead, WriteDump,
                  BeginReport, ReportTrial, WriteReport, serverVars
    <2>2. QED
      BY <1>1, <2>1 DEF setting
  <1>9. CASE UNCHANGED vars
    BY <1>1, <1>9 DEF vars, serverVars, setting
  <1>10. QED
    BY <1>2, <1>3, <1>4, <1>5, <1>6, <1>7, <1>8, <1>9 DEF Next

LEMMA AlwaysGrantInv == Spec => []GrantInv
  BY InitGrantInv, NextGrantInv, PTL DEF Spec

(* No client call ever leaves the caller's grants, and no mutation the     *)
(* policy, for any number of workers, calls, scopes, roles, trials and     *)
(* resets between the steps of a call.                                     *)
THEOREM GrantsAreKept == Spec => []CallsStayInGrants
  <1>1. GrantInv => CallsStayInGrants
    BY DEF GrantInv
  <1>2. QED
    BY <1>1, AlwaysGrantInv, PTL

---------------------------------------------------------------------------
(* Records and answers.  A call's number is its own until it is answered,  *)
(* no record carries it before its observer was notified, and from then on *)
(* its record shows what its answer will be.                               *)
RecordsAreAList == \E S : records \in Seq(S)

NumbersAreGiven ==
  /\ issued \in Nat
  /\ \A w \in Workers : call[w].id \in Nat /\ call[w].id <= issued
  /\ \A i \in DOMAIN records : records[i].id \in Nat /\ records[i].id <= issued
  /\ \A a \in answered : /\ a.id \in Nat /\ a.id <= issued
                         /\ a.home \in Nat /\ a.home <= current

NumbersAreOwn ==
  \A w \in Workers :
     call[w].pc # "idle" =>
       /\ \A v \in Workers \ {w} : call[v].pc # "idle" => call[v].id # call[w].id
       /\ \A a \in answered : a.id # call[w].id

RecordsFollowCalls ==
  \A w \in Workers :
     /\ call[w].pc \notin {"idle", "reply"} =>
          \A i \in DOMAIN records : records[i].id # call[w].id
     /\ call[w].pc = "reply" =>
          /\ \A i \in DOMAIN records :
                records[i].id = call[w].id => records[i].result = Payload(call[w].outcome)
          /\ (host.observer = "works" /\ call[w].home = current) =>
                \E i \in DOMAIN records : records[i].id = call[w].id

RecordInv ==
  /\ RecordsAreAList
  /\ NumbersAreGiven
  /\ NumbersAreOwn
  /\ RecordsFollowCalls
  /\ AnswersAreRecorded

(* A call that goes on, unrecorded and unanswered.                         *)
LEMMA UnrecordedStep ==
  ASSUME RecordInv, NEW w \in Workers, UNCHANGED <<setting, issued, records, answered>>,
         \A v \in Workers \ {w} : call'[v] = call[v],
         call[w].pc \notin {"idle", "reply"}, call'[w].pc # "idle",
         call'[w].id = call[w].id,
         call'[w].pc = "reply" => host.observer = "none"
  PROVE  RecordInv'
  <1> USE DEF RecordInv
  <1>1. UNCHANGED <<host, current>>
    BY DEF setting
  <1>2. RecordsAreAList' /\ NumbersAreGiven'
    BY <1>1 DEF RecordsAreAList, NumbersAreGiven
  <1>3. NumbersAreOwn'
    BY DEF NumbersAreOwn
  <1>4. RecordsFollowCalls'
    BY <1>1 DEF RecordsFollowCalls
  <1>5. AnswersAreRecorded'
    BY <1>1 DEF AnswersAreRecorded
  <1>6. QED
    BY <1>2, <1>3, <1>4, <1>5

LEMMA ReceiveRecords ==
  ASSUME CallsHaveFields, RecordInv, NEW w \in Workers, NEW r, NEW asked,
         Receive(w, r, asked)
  PROVE  RecordInv'
  <1> DEFINE pc == IF host.entry = "mcp" THEN "credentials" ELSE "dispatch"
             as == IF host.entry = "mcp" THEN Unresolved ELSE host.bound
             knew == {a.id : a \in answered}
             new == [Idle EXCEPT !.pc = pc, !.as = as, !.id = issued + 1, !.req = r,
                                 !.began = now, !.home = current, !.asked = asked,
                                 !.knew = knew]
  <1>1. /\ call' = [call EXCEPT ![w] = new] /\ issued' = issued + 1
        /\ UNCHANGED <<setting, records, answered>>
    BY DEF Receive
  <1>2. /\ new = [f \in CallFields |-> new[f]]
        /\ new.pc \notin {"idle", "reply"} /\ new.id = issued + 1
    BY ZenonT(60) DEF Idle, CallFields
  <1> HIDE DEF new
  <1>3. call'[w] = new /\ \A v \in Workers \ {w} : call'[v] = call[v]
    BY <1>1, <1>2, OneCallChanges
  <1>4. UNCHANGED <<host, current>>
    BY <1>1 DEF setting
  <1> USE DEF RecordInv
  <1>5. RecordsAreAList' /\ NumbersAreGiven'
    <2>1. RecordsAreAList'
      BY <1>1 DEF RecordsAreAList
    <2>2. NumbersAreGiven'
      BY <1>1, <1>2, <1>3, <1>4 DEF NumbersAreGiven
    <2>3. QED
      BY <2>1, <2>2
  <1>6. NumbersAreOwn'
    BY <1>1, <1>2, <1>3 DEF NumbersAreOwn, NumbersAreGiven
  <1>7. RecordsFollowCalls'
    BY <1>1, <1>2, <1>3, <1>4 DEF RecordsFollowCalls, NumbersAreGiven
  <1>8. AnswersAreRecorded'
    BY <1>1, <1>4 DEF AnswersAreRecorded
  <1>9. QED
    BY <1>5, <1>6, <1>7, <1>8

LEMMA NotifyRecords ==
  ASSUME CallsHaveFields, RecordInv, NEW w \in Workers, Notify(w)
  PROVE  RecordInv'
  <1> USE DEF RecordInv
  <1>1. /\ call'[w].pc = "reply" /\ call'[w].id = call[w].id
        /\ call'[w].outcome = call[w].outcome /\ call'[w].home = call[w].home
        /\ \A v \in Workers \ {w} : call'[v] = call[v]
    BY AdvanceKeepsFields DEF Notify, CallFields
  <1>2. /\ UNCHANGED <<host, current, issued, answered>> /\ call[w].pc = "observe"
    BY DEF Notify, setting
  <1>3. CASE host.observer # "works"
    <2>1. records' = records
      BY <1>3 DEF Notify
    <2>2. RecordsAreAList' /\ NumbersAreGiven' /\ NumbersAreOwn'
      BY <1>1, <1>2, <2>1 DEF RecordsAreAList, NumbersAreGiven, NumbersAreOwn
    <2>3. RecordsFollowCalls'
      BY <1>1, <1>2, <1>3, <2>1 DEF RecordsFollowCalls
    <2>4. AnswersAreRecorded'
      BY <1>2, <2>1 DEF AnswersAreRecorded
    <2>5. QED
      BY <2>2, <2>3, <2>4
  <1>4. CASE host.observer = "works"
    <2> DEFINE r == RecordOf(w)
    <2>1. records' = Append(records, r)
      BY <1>4 DEF Notify
    <2>2. r.id = call[w].id /\ r.result = Payload(call[w].outcome)
      BY DEF RecordOf
    <2> HIDE DEF r
    <2>3. PICK S : records \in Seq(S)
      BY DEF RecordsAreAList
    <2>4. records \in Seq(S \cup {r})
      BY <2>3
    <2>5. /\ records' \in Seq(S \cup {r}) /\ Len(records) \in Nat
          /\ DOMAIN records' = DOMAIN records \cup {Len(records) + 1}
          /\ Len(records) + 1 \notin DOMAIN records
          /\ records'[Len(records) + 1] = r
          /\ \A i \in DOMAIN records : records'[i] = records[i]
      BY <2>1, <2>4
    <2>6. RecordsAreAList'
      BY <2>5 DEF RecordsAreAList
    <2>7. NumbersAreGiven' /\ NumbersAreOwn'
      BY <1>1, <1>2, <2>2, <2>5 DEF NumbersAreGiven, NumbersAreOwn
    <2>8. RecordsFollowCalls'
      BY <1>1, <1>2, <2>2, <2>5 DEF RecordsFollowCalls, NumbersAreOwn
    <2>9. AnswersAreRecorded'
      <3>1. \A i \in DOMAIN records : records[i].id # call[w].id
        BY <1>2 DEF RecordsFollowCalls
      <3>2. \A i, j \in DOMAIN records' : records'[i].id = records'[j].id => i = j
        BY <2>2, <2>5, <3>1 DEF AnswersAreRecorded
      <3>3. \A a \in answered : a.id # call[w].id
        BY <1>2 DEF NumbersAreOwn
      <3>4. \A a \in answered :
              {i \in DOMAIN records' : records'[i].id = a.id}
                = {i \in DOMAIN records : records[i].id = a.id}
        BY <2>2, <2>5, <3>3
      <3>5. QED
        BY <1>2, <2>5, <3>2, <3>4 DEF AnswersAreRecorded
    <2>10. QED
      BY <2>6, <2>7, <2>8, <2>9
  <1>5. QED
    BY <1>3, <1>4

LEMMA ReplyRecords ==
  ASSUME CallsHaveFields, TrialsInOrder, RecordInv, NEW w \in Workers, Reply(w)
  PROVE  RecordInv'
  <1> USE DEF RecordInv
  <1> DEFINE a == [id |-> call[w].id, bound |-> TRUE, home |-> call[w].home,
                   got |-> call[w].outcome]
  <1>1. /\ call' = [call EXCEPT ![w] = Idle] /\ answered' = answered \cup {a}
        /\ call[w].pc = "reply" /\ UNCHANGED <<host, current, issued, records>>
    BY DEF Reply, setting
  <1>2. Idle = [f \in CallFields |-> Idle[f]] /\ Idle.pc = "idle" /\ Idle.id = 0
    BY DEF Idle, CallFields
  <1>3. call'[w] = Idle /\ \A v \in Workers \ {w} : call'[v] = call[v]
    BY <1>1, <1>2, OneCallChanges
  <1>4. /\ a.id = call[w].id /\ a.bound = TRUE /\ a.home = call[w].home
        /\ a.got = call[w].outcome
    OBVIOUS
  <1> HIDE DEF a
  <1>5. RecordsAreAList'
    BY <1>1 DEF RecordsAreAList
  <1>6. NumbersAreGiven'
    BY <1>1, <1>2, <1>3, <1>4 DEF NumbersAreGiven, TrialsInOrder
  <1>7. NumbersAreOwn'
    BY <1>1, <1>2, <1>3, <1>4 DEF NumbersAreOwn
  <1>8. RecordsFollowCalls'
    BY <1>1, <1>2, <1>3 DEF RecordsFollowCalls
  <1>9. AnswersAreRecorded'
    <2>1. /\ \A i \in DOMAIN records :
                records[i].id = a.id => records[i].result = Payload(a.got)
          /\ (host.observer = "works" /\ a.home = current) =>
                \E i \in DOMAIN records : records[i].id = a.id
      BY <1>1, <1>4 DEF RecordsFollowCalls
    <2>2. QED
      BY <1>1, <1>4, <2>1 DEF AnswersAreRecorded
  <1>10. QED
    BY <1>5, <1>6, <1>7, <1>8, <1>9

LEMMA CallRecords ==
  ASSUME GrantInv, RecordInv, NEW w \in Workers, AgentCall(w) \/ AdopterCall(w)
  PROVE  RecordInv'
  <1>0. CallsHaveFields /\ TrialsInOrder
    BY DEF GrantInv
  <1>1. ASSUME NEW r \in host.requests, NEW asked, Receive(w, r, asked) PROVE RecordInv'
    BY <1>0, <1>1, ReceiveRecords
  <1>2. ASSUME NEW outcome, NEW wrote, Ends(w, outcome, wrote),
               call[w].pc \notin {"idle", "reply"},
               UNCHANGED <<setting, issued, records, answered>>
        PROVE  RecordInv'
    <2>1. /\ call'[w].pc \in {"observe", "reply"}
          /\ call'[w].pc = "reply" <=> host.observer = "none"
          /\ call'[w].id = call[w].id
          /\ \A v \in Workers \ {w} : call'[v] = call[v]
      BY <1>0, <1>2, EndsKeepsFields DEF CallFields
    <2>2. QED
      BY <1>2, <2>1, UnrecordedStep
  <1>3. ASSUME ReadCredentials(w) PROVE RecordInv'
    <2>1. CASE Advance(w, "resolve")
      <3>1. /\ call'[w].pc = "resolve" /\ call'[w].id = call[w].id
            /\ \A v \in Workers \ {w} : call'[v] = call[v]
        BY <1>0, <2>1, AdvanceKeepsFields DEF CallFields
      <3>2. QED
        BY <1>3, <3>1, UnrecordedStep DEF ReadCredentials
    <2>2. QED
      BY <1>2, <1>3, <2>1 DEF ReadCredentials
  <1>4. ASSUME NEW as, Resolve(w, as) PROVE RecordInv'
    <2>1. CASE as = Unresolved
      BY <1>2, <1>4, <2>1 DEF Resolve
    <2>2. CASE as # Unresolved
      <3> DEFINE new == [call[w] EXCEPT !.pc = "dispatch", !.as = as]
      <3>1. call' = [call EXCEPT ![w] = new]
        BY <1>4, <2>2 DEF Resolve
      <3>2. call[w] = [f \in CallFields |-> call[w][f]]
        BY <1>0 DEF CallsHaveFields
      <3>3. /\ new = [f \in CallFields |-> new[f]] /\ new.pc = "dispatch"
            /\ new.id = call[w].id
        BY <3>2 DEF CallFields
      <3> HIDE DEF new
      <3>4. call'[w] = new /\ \A v \in Workers \ {w} : call'[v] = call[v]
        BY <1>0, <3>1, <3>3, OneCallChanges
      <3>5. call'[w].pc = "dispatch" /\ call'[w].id = call[w].id
        BY <3>3, <3>4
      <3>6. QED
        BY <1>4, <3>4, <3>5, UnrecordedStep DEF Resolve
    <2>3. QED
      BY <2>1, <2>2
  <1>5. ASSUME Dispatch(w) PROVE RecordInv'
    <2> DEFINE new == [call[w] EXCEPT !.pc = "client", !.store = current]
    <2>1. CASE call' = [call EXCEPT ![w] = new]
      <3>1. call[w] = [f \in CallFields |-> call[w][f]]
        BY <1>0 DEF CallsHaveFields
      <3>2. /\ new = [f \in CallFields |-> new[f]] /\ new.pc = "client"
            /\ new.id = call[w].id
        BY <3>1 DEF CallFields
      <3> HIDE DEF new
      <3>3. call'[w] = new /\ \A v \in Workers \ {w} : call'[v] = call[v]
        BY <1>0, <2>1, <3>2, OneCallChanges
      <3>4. call'[w].pc = "client" /\ call'[w].id = call[w].id
        BY <3>2, <3>3
      <3>5. QED
        BY <1>5, <3>3, <3>4, UnrecordedStep DEF Dispatch
    <2>2. CASE Ends(w, Fails(Refusal(Req(w), Grants(w))), 0)
      BY <1>2, <1>5, <2>2 DEF Dispatch
    <2>3. QED
      BY <1>5, <2>1, <2>2 DEF Dispatch
  <1>6. ASSUME ClientReturns(w) \/ ClientRaises(w) \/ ClientMisbehaves(w)
        PROVE  RecordInv'
    BY <1>2, <1>6 DEF ClientReturns, ClientRaises, ClientMisbehaves
  <1>7. ASSUME Notify(w) \/ Reply(w) PROVE RecordInv'
    BY <1>0, <1>7, NotifyRecords, ReplyRecords
  <1>8. QED
    BY <1>1, <1>3, <1>4, <1>5, <1>6, <1>7 DEF AgentCall, AdopterCall

LEMMA NewTrialRecords ==
  ASSUME GrantInv, RecordInv, NEW st, NEW identity, NEW d, StartTrial(st, identity, d),
         UNCHANGED <<host, issued, answered>>,
         call' = call \/ call' = [w \in Workers |-> Idle]
  PROVE  RecordInv'
  <1> USE DEF RecordInv
  <1>1. current' = current + 1 /\ records' = <<>> /\ DOMAIN records' = {}
    BY DEF StartTrial
  <1>2. current \in Nat /\ \A w \in Workers : call[w].home \in Nat /\ call[w].home <= current
    BY DEF GrantInv, TrialsInOrder
  <1>3. Idle.pc = "idle" /\ Idle.id = 0
    BY DEF Idle
  <1>4. RecordsAreAList'
    <2>1. records' \in Seq({})
      BY <1>1
    <2>2. QED
      BY <2>1 DEF RecordsAreAList
  <1>5. NumbersAreGiven'
    BY <1>1, <1>2, <1>3 DEF NumbersAreGiven
  <1>6. NumbersAreOwn'
    BY <1>3 DEF NumbersAreOwn
  <1>7. RecordsFollowCalls'
    BY <1>1, <1>2, <1>3 DEF RecordsFollowCalls
  <1>8. AnswersAreRecorded'
    BY <1>1, <1>2 DEF AnswersAreRecorded, NumbersAreGiven
  <1>9. QED
    BY <1>4, <1>5, <1>6, <1>7, <1>8

LEMMA UnboundRecords ==
  ASSUME GrantInv, RecordInv, RejectUnbound
  PROVE  RecordInv'
  <1> USE DEF RecordInv
  <1> DEFINE a == [id |-> issued + 1, bound |-> FALSE, home |-> current,
                   got |-> Fails(NoError)]
  <1>1. /\ issued' = issued + 1 /\ answered' = answered \cup {a}
        /\ UNCHANGED <<host, current, call, records>>
    BY DEF RejectUnbound, setting
  <1>2. a.id = issued + 1 /\ a.bound = FALSE /\ a.home = current /\ current \in Nat
    BY DEF GrantInv, TrialsInOrder
  <1> HIDE DEF a
  <1>3. RecordsAreAList'
    BY <1>1 DEF RecordsAreAList
  <1>4. NumbersAreGiven'
    BY <1>1, <1>2 DEF NumbersAreGiven
  <1>5. NumbersAreOwn'
    BY <1>1, <1>2 DEF NumbersAreOwn, NumbersAreGiven
  <1>6. RecordsFollowCalls'
    BY <1>1 DEF RecordsFollowCalls
  <1>7. AnswersAreRecorded'
    <2>1. \A i \in DOMAIN records : records[i].id # a.id
      BY <1>2 DEF NumbersAreGiven
    <2>2. QED
      BY <1>1, <1>2, <2>1 DEF AnswersAreRecorded
  <1>8. QED
    BY <1>3, <1>4, <1>5, <1>6, <1>7

LEMMA InitRecordInv == Init => RecordInv
  <1> SUFFICES ASSUME Init PROVE RecordInv
    OBVIOUS
  <1>1. /\ records = <<>> /\ answered = {} /\ issued = 0 /\ DOMAIN records = {}
        /\ \A w \in Workers : call[w] = Idle
    BY DEF Init, ServerInit
  <1>2. Idle.pc = "idle" /\ Idle.id = 0
    BY DEF Idle
  <1>3. RecordsAreAList
    <2>1. records \in Seq({})
      BY <1>1
    <2>2. QED
      BY <2>1 DEF RecordsAreAList
  <1>4. QED
    BY <1>1, <1>2, <1>3
       DEF RecordInv, NumbersAreGiven, NumbersAreOwn, RecordsFollowCalls, AnswersAreRecorded

LEMMA NextRecordInv == GrantInv /\ RecordInv /\ [Next]_vars => RecordInv'
  <1> SUFFICES ASSUME GrantInv, RecordInv, [Next]_vars PROVE RecordInv'
    OBVIOUS
  <1>1. ASSUME UNCHANGED <<host, current, call, issued, records, answered>> PROVE RecordInv'
    BY <1>1 DEF RecordInv, RecordsAreAList, NumbersAreGiven, NumbersAreOwn,
                RecordsFollowCalls, AnswersAreRecorded
  <1>2. ASSUME NEW w \in Workers, AgentCall(w) \/ AdopterCall(w) PROVE RecordInv'
    BY <1>2, CallRecords
  <1>3. ASSUME NEW d \in Dirs, Reset(d) PROVE RecordInv'
    BY <1>3, NewTrialRecords DEF Reset
  <1>4. CASE Crash
    BY <1>4, NewTrialRecords DEF Crash
  <1>5. CASE Tick
    BY <1>1, <1>5 DEF Tick
  <1>6. CASE RejectUnbound /\ UNCHANGED evalVars
    BY <1>6, UnboundRecords
  <1>7. ASSUME NEW d \in Dirs, GradeTrial(d) PROVE RecordInv'
    BY <1>1, <1>7 DEF GradeTrial, serverVars, setting
  <1>8. CASE \/ WriteTranscript \/ RecordTurn \/ ReplyUnavailable \/ ReplyFound
             \/ BeginDump \/ ListScope \/ ReadFile \/ AllRead \/ WriteDump
             \/ BeginReport \/ ReportTrial \/ WriteReport
    <2>1. UNCHANGED <<setting, call, issued, records, answered>>
      BY <1>8 DEF WriteTranscript, RecordTurn, ReplyUnavailable, ReplyFound,
                  KeepReply, BeginDump, ListScope, ReadFile, AllRead, WriteDump,
                  BeginReport, ReportTrial, WriteReport, serverVars
    <2>2. QED
      BY <1>1, <2>1 DEF setting
  <1>9. CASE UNCHANGED vars
    BY <1>1, <1>9 DEF vars, serverVars, setting
  <1>10. QED
    BY <1>2, <1>3, <1>4, <1>5, <1>6, <1>7, <1>8, <1>9 DEF Next

(* Every call is recorded at most once, an unbound one never, and a record *)
(* shows what the answer shows, whatever the resolver, the client and the  *)
(* observer do and however calls, resets and crashes interleave.           *)
THEOREM AnswersRecorded == Spec => []AnswersAreRecorded
  <1>1. GrantInv /\ RecordInv => AnswersAreRecorded
    BY DEF RecordInv
  <1>2. QED
    BY <1>1, InitGrantInv, NextGrantInv, InitRecordInv, NextRecordInv, PTL DEF Spec

---------------------------------------------------------------------------
(* Reports.  A directory is good when no file in it is from the future and *)
(* its grade is fair: judged on the files that are there, if the report    *)
(* would take it for current and no dump was written in its own tick, and  *)
(* a pass only as the assertions and the identity check say.               *)
DumpedFiles == {"store", "trace", "transcript"}
DirFields == DumpedFiles \cup {"grade", "raced"}
GradeFields == {"inputs", "reply", "identity", "passed"}

FilesAreDated(dir, t) ==
  /\ dir = [f \in DirFields |-> dir[f]] /\ dir.raced \in BOOLEAN
  /\ \A f \in DumpedFiles \cup {"grade"} :
        dir[f].is \in {"absent", "whole", "torn"} /\ dir[f].at \in 0 .. t
  /\ dir.grade.of = [f \in GradeFields |-> dir.grade.of[f]]
  /\ dir.grade.of.passed \in BOOLEAN

PassIsEarned(grade, scenario) ==
  grade.passed => ResultsPass(grade.inputs, scenario) /\ grade.identity.hits = {}

GradeIsFair(dir, scenario) ==
  /\ (IsCurrent(dir, scenario) /\ ~dir.raced) =>
       dir.grade.of.inputs = Inputs(dir, scenario)
  /\ PassIsEarned(dir.grade.of, scenario)

GoodDir(dir, scenario, t) == FilesAreDated(dir, t) /\ GradeIsFair(dir, scenario)

RowFits(row, dir, scenario) ==
  IF ~row.run THEN ~Dumped(dir)
  ELSE /\ row.grade.inputs = Inputs(dir, scenario) \/ dir.raced
       /\ row.grade.reply = ReplyCheck(dir)
       /\ (operator # "unchecked" /\ Loads(dir.trace)) =>
             row.grade.identity = IdentityCheck(dir, operator, TRUE)
       /\ PassIsEarned(row.grade, scenario)

DirsAreGood ==
  /\ now \in Nat /\ disk = [d \in Dirs |-> disk[d]]
  /\ \A d \in Dirs : GoodDir(disk[d], Scenario[d], now)

(* A report in progress has a row for each directory it has come to, and   *)
(* nothing has changed there since.                                        *)
RowsFit ==
  runner \in {"reporting", "reported"} =>
    /\ \E S : rows \in Seq(S)
    /\ Len(rows) <= NDirs /\ (runner = "reported" => Len(rows) = NDirs)
    /\ \A d \in 1 .. Len(rows) : RowFits(rows[d], disk[d], Scenario[d])

ReportInv == DirsAreGood /\ RowsFit

(* Time passing spoils nothing.                                            *)
LEMMA LaterIsGood ==
  ASSUME NEW dir, NEW scenario, NEW t \in Nat, GoodDir(dir, scenario, t)
  PROVE  GoodDir(dir, scenario, t + 1)
  BY DEF GoodDir, FilesAreDated

(* A dump written after the grade is newer than it, or the grade does not  *)
(* depend on it; one written in its tick is noted.                         *)
LEMMA WrittenIsGood ==
  ASSUME NEW dir, NEW scenario, NEW t \in Nat, GoodDir(dir, scenario, t),
         NEW file \in DumpedFiles, NEW f, f.is \in {"whole", "torn"}, f.at = t
  PROVE  GoodDir(Written(dir, file, f), scenario, t)
  <1> DEFINE new == Written(dir, file, f)
             raced == dir.raced \/ (Exists(dir.grade) /\ dir.grade.at = f.at)
  <1>1. dir = [g \in DirFields |-> dir[g]]
    BY DEF GoodDir, FilesAreDated
  <1>2. /\ new = [g \in DirFields |-> new[g]]
        /\ new.raced = raced /\ new[file] = f
        /\ \A g \in DirFields \ {"raced", file} : new[g] = dir[g]
    BY <1>1 DEF Written, DirFields, DumpedFiles
  <1> HIDE DEF new
  <1>3. new.grade = dir.grade /\ raced \in BOOLEAN
    BY <1>2 DEF DirFields, DumpedFiles, GoodDir, FilesAreDated
  <1>4. FilesAreDated(new, t)
    <2>1. ASSUME NEW g \in DumpedFiles \cup {"grade"}
          PROVE  new[g].is \in {"absent", "whole", "torn"} /\ new[g].at \in 0 .. t
      <3>1. t \in 0 .. t
        OBVIOUS
      <3>2. CASE g = file
        BY <1>2, <3>1, <3>2
      <3>3. CASE g # file
        <4>1. new[g] = dir[g]
          BY <1>2, <3>3 DEF DirFields, DumpedFiles
        <4>2. QED
          BY <4>1 DEF GoodDir, FilesAreDated
      <3>4. QED
        BY <3>2, <3>3
    <2>2. new.raced \in BOOLEAN
      BY <1>2, <1>3
    <2>3. QED
      BY <1>2, <1>3, <2>1, <2>2 DEF GoodDir, FilesAreDated
  <1>5. ASSUME IsCurrent(new, scenario), ~new.raced
        PROVE  dir.grade.of.inputs = Inputs(new, scenario)
    <2>1. /\ Exists(dir.grade) /\ ~dir.raced /\ dir.grade.at # t
          /\ dir.grade.at <= t /\ dir.grade.at \in Nat
      <3>1. Exists(dir.grade) /\ ~raced
        BY <1>2, <1>3, <1>5 DEF IsCurrent
      <3>2. dir.grade.at \in 0 .. t
        BY DEF GoodDir, FilesAreDated
      <3>3. QED
        BY <3>1, <3>2
    <2>2. file \notin Graded(scenario)
      <3>1. ASSUME file \in Graded(scenario) PROVE f.at <= dir.grade.at
        BY <1>2, <1>3, <1>5, <3>1 DEF IsCurrent, NoNewer, Exists
      <3>2. QED
        BY <2>1, <3>1
    <2>3. file = "transcript" /\ ~scenario.replyKinds
      BY <2>2 DEF Graded, DumpedFiles
    <2>4. new.store = dir.store /\ new.trace = dir.trace
      BY <1>2, <2>3 DEF DirFields, DumpedFiles
    <2>5. IsCurrent(dir, scenario)
      BY <1>3, <1>5, <2>3, <2>4 DEF IsCurrent, NoNewer, Graded
    <2>6. dir.grade.of.inputs = Inputs(dir, scenario)
      BY <2>1, <2>5 DEF GoodDir, GradeIsFair
    <2>7. QED
      BY <2>3, <2>4, <2>6 DEF Inputs
  <1>6. GradeIsFair(new, scenario)
    BY <1>3, <1>5 DEF GoodDir, GradeIsFair
  <1>7. QED
    BY <1>4, <1>6 DEF GoodDir, new

(* A grade put in its place: what the checks read is as before.            *)
LEMMA OnlyTheGrade ==
  ASSUME NEW dir, NEW scenario, NEW t \in Nat, FilesAreDated(dir, t),
         NEW grade, grade = [f \in GradeFields |-> grade[f]], grade.passed \in BOOLEAN,
         NEW new, new \in {Judged(dir, grade, t), Amended(dir, grade, t)}
  PROVE  /\ FilesAreDated(new, t) /\ new.grade.of = grade
         /\ new = Judged(dir, grade, t) => ~new.raced
         /\ new = Amended(dir, grade, t) => (new.raced <=> dir.raced)
         /\ new.store = dir.store /\ new.trace = dir.trace
         /\ new.transcript = dir.transcript
  <1>1. dir = [g \in DirFields |-> dir[g]] /\ dir.raced \in BOOLEAN
    BY DEF FilesAreDated
  <1>2. /\ new = [g \in DirFields |-> new[g]]
        /\ new.grade = Whole(grade, t) /\ new.raced \in BOOLEAN
        /\ \A g \in DumpedFiles : new[g] = dir[g]
    <2>1. CASE new = Judged(dir, grade, t)
      BY <1>1, <2>1 DEF Judged, DirFields, DumpedFiles
    <2>2. CASE new = Amended(dir, grade, t)
      BY <1>1, <2>2 DEF Amended, DirFields, DumpedFiles
    <2>3. QED
      BY <2>1, <2>2
  <1>3. /\ new = Judged(dir, grade, t) => ~new.raced
        /\ new = Amended(dir, grade, t) => (new.raced <=> dir.raced)
    <2>1. ASSUME new = Judged(dir, grade, t) PROVE ~new.raced
      BY <1>1, <2>1 DEF Judged, DirFields
    <2>2. ASSUME new = Amended(dir, grade, t) PROVE new.raced <=> dir.raced
      BY <1>1, <2>2 DEF Amended, DirFields
    <2>3. QED
      BY <2>1, <2>2
  <1>4. Whole(grade, t).is = "whole" /\ Whole(grade, t).at = t /\ Whole(grade, t).of = grade
    BY DEF Whole
  <1>5. FilesAreDated(new, t)
    <2>1. ASSUME NEW f \in DumpedFiles
          PROVE  new[f].is \in {"absent", "whole", "torn"} /\ new[f].at \in 0 .. t
      BY <1>2 DEF FilesAreDated
    <2>2. new.grade.is \in {"absent", "whole", "torn"} /\ new.grade.at \in 0 .. t
      BY <1>2, <1>4
    <2>3. QED
      BY <1>2, <1>4, <2>1, <2>2 DEF FilesAreDated
  <1>6. QED
    BY <1>2, <1>3, <1>4, <1>5 DEF DumpedFiles

(* What is judged and checked depends on the dumps alone.                  *)
LEMMA SameDumps ==
  ASSUME NEW dir, NEW new, NEW scenario,
         new.store = dir.store, new.trace = dir.trace, new.transcript = dir.transcript
  PROVE  /\ Inputs(new, scenario) = Inputs(dir, scenario)
         /\ ReplyCheck(new) = ReplyCheck(dir) /\ Dumped(new) = Dumped(dir)
         /\ \A op : IdentityCheck(new, op, TRUE) = IdentityCheck(dir, op, TRUE)
  BY DEF Inputs, ReplyCheck, Dumped, IdentityCheck, Replies

LEMMA GradesHaveFields ==
  ASSUME NEW inputs, NEW reply, NEW check, NEW scenario
  PROVE  LET grade == Grade(inputs, reply, check, scenario)
         IN /\ grade = [f \in GradeFields |-> grade[f]] /\ grade.passed \in BOOLEAN
            /\ grade.inputs = inputs /\ grade.reply = reply /\ grade.identity = check
            /\ PassIsEarned(grade, scenario)
  BY DEF Grade, GradeFields, Passed, PassIsEarned, ResultsPass

LEMMA JudgedIsGood ==
  ASSUME NEW dir, NEW scenario, NEW t \in Nat, GoodDir(dir, scenario, t),
         NEW grade, grade = [f \in GradeFields |-> grade[f]], grade.passed \in BOOLEAN,
         grade.inputs = Inputs(dir, scenario), PassIsEarned(grade, scenario)
  PROVE  GoodDir(Judged(dir, grade, t), scenario, t)
  <1> DEFINE new == Judged(dir, grade, t)
  <1>1. /\ FilesAreDated(new, t) /\ new.grade.of = grade
        /\ new.store = dir.store /\ new.trace = dir.trace
        /\ new.transcript = dir.transcript
    BY OnlyTheGrade DEF GoodDir
  <1>2. Inputs(new, scenario) = Inputs(dir, scenario)
    BY <1>1, SameDumps
  <1>3. QED
    BY <1>1, <1>2 DEF GoodDir, GradeIsFair

LEMMA FreshGradeFits ==
  ASSUME NEW dir, NEW scenario, NEW op
  PROVE  LET grade == FreshGrade(dir, scenario, op)
         IN /\ grade = [f \in GradeFields |-> grade[f]] /\ grade.passed \in BOOLEAN
            /\ grade.inputs = Inputs(dir, scenario) /\ grade.reply = ReplyCheck(dir)
            /\ grade.identity = IdentityCheck(dir, op, TRUE)
            /\ PassIsEarned(grade, scenario)
  <1> DEFINE check == IdentityCheck(dir, op, TRUE)
             inputs == Inputs(dir, scenario)
             reply == ReplyCheck(dir)
  <1>1. FreshGrade(dir, scenario, op) = Grade(inputs, reply, check, scenario)
    BY DEF FreshGrade
  <1> HIDE DEF check, inputs, reply
  <1>2. LET grade == Grade(inputs, reply, check, scenario)
        IN /\ grade = [f \in GradeFields |-> grade[f]] /\ grade.passed \in BOOLEAN
           /\ grade.inputs = inputs /\ grade.reply = reply /\ grade.identity = check
           /\ PassIsEarned(grade, scenario)
    BY GradesHaveFields
  <1>3. QED
    BY <1>1, <1>2 DEF check, inputs, reply

LEMMA FreshIsGood ==
  ASSUME NEW dir, NEW scenario, NEW t \in Nat, GoodDir(dir, scenario, t), NEW op
  PROVE  GoodDir(Judged(dir, FreshGrade(dir, scenario, op), t), scenario, t)
  BY FreshGradeFits, JudgedIsGood

(* Refreshing a current grade keeps what it was judged on.                 *)
LEMMA RefreshedIsGood ==
  ASSUME NEW dir, NEW scenario, NEW t \in Nat, GoodDir(dir, scenario, t),
         IsCurrent(dir, scenario),
         NEW grade, grade = [f \in GradeFields |-> grade[f]], grade.passed \in BOOLEAN,
         grade.inputs = dir.grade.of.inputs, PassIsEarned(grade, scenario)
  PROVE  GoodDir(Amended(dir, grade, t), scenario, t)
  <1> DEFINE new == Amended(dir, grade, t)
  <1>1. /\ FilesAreDated(new, t) /\ new.grade.of = grade
        /\ new.store = dir.store /\ new.trace = dir.trace
        /\ new.transcript = dir.transcript /\ (new.raced <=> dir.raced)
    BY OnlyTheGrade DEF GoodDir
  <1>2. Inputs(new, scenario) = Inputs(dir, scenario)
    BY <1>1, SameDumps
  <1>3. ~new.raced => grade.inputs = Inputs(dir, scenario)
    BY <1>1 DEF GoodDir, GradeIsFair
  <1> HIDE DEF new
  <1>4. QED
    BY <1>1, <1>2, <1>3 DEF GoodDir, GradeIsFair, new

LEMMA RefreshedFits ==
  ASSUME NEW dir, NEW scenario, NEW t \in Nat, GoodDir(dir, scenario, t), NEW op
  PROVE  LET grade == Refreshed(dir, scenario, op)
         IN /\ grade = [f \in GradeFields |-> grade[f]] /\ grade.passed \in BOOLEAN
            /\ grade.inputs = dir.grade.of.inputs /\ grade.reply = ReplyCheck(dir)
            /\ (op # "unchecked" /\ Loads(dir.trace)) =>
                  grade.identity = IdentityCheck(dir, op, TRUE)
            /\ PassIsEarned(grade, scenario)
  <1> DEFINE old == dir.grade.of
             keeps == KeepsCheck(dir, op, old.identity)
             traced == IdentityCheck(dir, op, Loads(dir.trace))
             check == IF keeps THEN old.identity ELSE traced
             base == Grade(old.inputs, ReplyCheck(dir), check, scenario)
             passed == IF keeps THEN old.passed ELSE Passed(old.inputs, check, scenario)
             grade == [base EXCEPT !.passed = passed]
  <1>1. Refreshed(dir, scenario, op) = grade
    BY DEF Refreshed
  <1>2. (op # "unchecked" /\ Loads(dir.trace)) => check = IdentityCheck(dir, op, TRUE)
    BY DEF KeepsCheck, IdentityCheck
  <1>3. old.passed \in BOOLEAN /\ PassIsEarned(old, scenario)
    BY DEF GoodDir, FilesAreDated, GradeIsFair
  <1>4. passed \in BOOLEAN
    BY <1>3 DEF Passed, ResultsPass
  <1>5. passed => ResultsPass(old.inputs, scenario) /\ check.hits = {}
    BY <1>3 DEF PassIsEarned, Passed
  <1> HIDE DEF check, passed, keeps
  <1>6. /\ grade = [f \in GradeFields |-> grade[f]] /\ (grade.passed <=> passed)
        /\ grade.passed \in BOOLEAN
        /\ grade.inputs = old.inputs /\ grade.reply = ReplyCheck(dir)
        /\ grade.identity = check
    BY <1>4 DEF Grade, GradeFields
  <1> HIDE DEF grade, old
  <1>7. PassIsEarned(grade, scenario)
    BY <1>5, <1>6 DEF PassIsEarned
  <1>8. QED
    BY <1>1, <1>2, <1>6, <1>7 DEF old

(* The row of a trial and the directory the report leaves go together.     *)
LEMMA ReportedIsGood ==
  ASSUME NEW dir, NEW scenario, NEW t \in Nat, GoodDir(dir, scenario, t)
  PROVE  GoodDir(AfterReport(dir, scenario, operator, t), scenario, t)
  <1> DEFINE fresh == FreshGrade(dir, scenario, operator)
             kept == Refreshed(dir, scenario, operator)
             new == AfterReport(dir, scenario, operator, t)
  <1>1. CASE ~IsCurrent(dir, scenario)
    <2>1. new = Judged(dir, fresh, t)
      BY <1>1 DEF AfterReport, ReportedGrade
    <2>2. GoodDir(Judged(dir, fresh, t), scenario, t)
      BY FreshIsGood
    <2>3. QED
      BY <2>1, <2>2
  <1>2. CASE IsCurrent(dir, scenario)
    <2>1. new = dir \/ new = Amended(dir, kept, t)
      BY <1>2 DEF AfterReport, ReportedGrade
    <2>2. GoodDir(Amended(dir, kept, t), scenario, t)
      BY <1>2, RefreshedFits, RefreshedIsGood
    <2>3. QED
      BY <2>1, <2>2
  <1>3. QED
    BY <1>1, <1>2

LEMMA ReportedFits ==
  ASSUME NEW dir, NEW scenario, NEW t \in Nat, GoodDir(dir, scenario, t),
         NEW row, row.run,
         row.grade = ReportedGrade(dir, scenario, operator)
  PROVE  RowFits(row, AfterReport(dir, scenario, operator, t), scenario)
  <1> DEFINE fresh == FreshGrade(dir, scenario, operator)
             kept == Refreshed(dir, scenario, operator)
             new == AfterReport(dir, scenario, operator, t)
  <1>1. CASE ~IsCurrent(dir, scenario)
    <2>1. new = Judged(dir, fresh, t) /\ row.grade = fresh
      BY <1>1 DEF AfterReport, ReportedGrade
    <2>2. /\ fresh = [f \in GradeFields |-> fresh[f]] /\ fresh.passed \in BOOLEAN
          /\ fresh.inputs = Inputs(dir, scenario) /\ fresh.reply = ReplyCheck(dir)
          /\ fresh.identity = IdentityCheck(dir, operator, TRUE)
          /\ PassIsEarned(fresh, scenario)
      BY FreshGradeFits
    <2> HIDE DEF fresh, new
    <2>3. /\ new.store = dir.store /\ new.trace = dir.trace
          /\ new.transcript = dir.transcript
      BY <2>1, <2>2, OnlyTheGrade DEF GoodDir
    <2>4. /\ Inputs(new, scenario) = Inputs(dir, scenario)
          /\ ReplyCheck(new) = ReplyCheck(dir)
          /\ IdentityCheck(new, operator, TRUE) = IdentityCheck(dir, operator, TRUE)
      BY <2>3, SameDumps
    <2>5. RowFits(row, new, scenario)
      BY <2>1, <2>2, <2>4 DEF RowFits
    <2>6. QED
      BY <2>5 DEF new
  <1>2. CASE IsCurrent(dir, scenario)
    <2>1. /\ new = dir \/ new = Amended(dir, kept, t)
          /\ row.grade = kept
      BY <1>2 DEF AfterReport, ReportedGrade
    <2>2. /\ kept = [f \in GradeFields |-> kept[f]] /\ kept.passed \in BOOLEAN
          /\ kept.inputs = dir.grade.of.inputs /\ kept.reply = ReplyCheck(dir)
          /\ (operator # "unchecked" /\ Loads(dir.trace)) =>
                kept.identity = IdentityCheck(dir, operator, TRUE)
          /\ PassIsEarned(kept, scenario)
      BY RefreshedFits
    <2>3. dir.raced \/ dir.grade.of.inputs = Inputs(dir, scenario)
      BY <1>2 DEF GoodDir, GradeIsFair
    <2> HIDE DEF kept, new
    <2>4. /\ new.store = dir.store /\ new.trace = dir.trace
          /\ new.transcript = dir.transcript /\ (new.raced <=> dir.raced)
      BY <2>1, <2>2, OnlyTheGrade DEF GoodDir
    <2>5. /\ Inputs(new, scenario) = Inputs(dir, scenario)
          /\ ReplyCheck(new) = ReplyCheck(dir)
          /\ IdentityCheck(new, operator, TRUE) = IdentityCheck(dir, operator, TRUE)
      BY <2>4, SameDumps
    <2>6. RowFits(row, new, scenario)
      BY <2>1, <2>2, <2>3, <2>4, <2>5 DEF RowFits
    <2>7. QED
      BY <2>6 DEF new
  <1>3. QED
    BY <1>1, <1>2

(* A report that raises leaves the grade as fair as it was.                *)
LEMMA RaisedIsGood ==
  ASSUME NEW dir, NEW scenario, NEW t \in Nat, GoodDir(dir, scenario, t)
  PROVE  GoodDir(AfterRaise(dir, scenario, t), scenario, t)
  <1> DEFINE old == dir.grade.of
             grade == [old EXCEPT !.reply = ReplyCheck(dir)]
  <1>1. CASE AfterRaise(dir, scenario, t) = dir
    BY <1>1
  <1>2. CASE /\ IsCurrent(dir, scenario)
             /\ AfterRaise(dir, scenario, t) = Amended(dir, grade, t)
    <2>1. /\ old = [f \in GradeFields |-> old[f]] /\ old.passed \in BOOLEAN
          /\ PassIsEarned(old, scenario)
      BY DEF GoodDir, FilesAreDated, GradeIsFair
    <2>2. /\ grade = [f \in GradeFields |-> grade[f]] /\ grade.passed \in BOOLEAN
          /\ (grade.passed <=> old.passed)
          /\ grade.inputs = old.inputs /\ grade.identity = old.identity
      BY <2>1 DEF GradeFields
    <2>3. PassIsEarned(grade, scenario)
      BY <2>1, <2>2 DEF PassIsEarned
    <2> HIDE DEF grade
    <2>4. GoodDir(Amended(dir, grade, t), scenario, t)
      BY <1>2, <2>2, <2>3, RefreshedIsGood
    <2>5. QED
      BY <1>2, <2>4
  <1>3. QED
    BY <1>1, <1>2 DEF AfterRaise

(* One directory changes for a good one.                                   *)
LEMMA DiskStep ==
  ASSUME DirsAreGood, now' = now, NEW e, NEW new, disk' = [disk EXCEPT ![e] = new],
         e \in Dirs => GoodDir(new, Scenario[e], now)
  PROVE  DirsAreGood'
  <1>1. disk' = [d \in Dirs |-> disk'[d]]
    BY DEF DirsAreGood
  <1>2. ASSUME NEW d \in Dirs PROVE disk'[d] = IF d = e THEN new ELSE disk[d]
    BY DEF DirsAreGood
  <1>3. ASSUME NEW d \in Dirs PROVE GoodDir(disk'[d], Scenario[d], now)
    BY <1>2 DEF DirsAreGood
  <1>4. QED
    BY <1>1, <1>3 DEF DirsAreGood

LEMMA WritingStep ==
  ASSUME DirsAreGood, now' = now, NEW e, NEW file \in DumpedFiles, NEW f,
         f.is \in {"whole", "torn"}, f.at = now, Writes(e, file, f)
  PROVE  DirsAreGood'
  <1> DEFINE new == Written(disk[e], file, f)
  <1>1. e \in Dirs => GoodDir(new, Scenario[e], now)
    BY WrittenIsGood DEF DirsAreGood
  <1>2. disk' = [disk EXCEPT ![e] = new]
    BY DEF Writes
  <1> HIDE DEF new
  <1>3. QED
    BY <1>1, <1>2, DiskStep

LEMMA CrashSpoilsNoReport ==
  ASSUME ReportInv, Crash
  PROVE  ReportInv'
  <1>1. UNCHANGED <<now, operator, rows>>
    BY DEF Crash, reportVars
  <1>2. CASE runner \in {"reporting", "reported"}
    <2>1. Writing = <<>> /\ runner' = runner
      BY <1>2 DEF Crash, Writing
    <2>2. UNCHANGED disk
      BY <2>1 DEF Crash
    <2>3. QED
      BY <1>1, <2>1, <2>2 DEF ReportInv, DirsAreGood, RowsFit, RowFits
  <1>3. CASE runner \notin {"reporting", "reported"}
    <2>1. RowsFit'
      <3>1. runner' = "idle"
        BY <1>3 DEF Crash
      <3>2. QED
        BY <3>1 DEF RowsFit
    <2>2. ASSUME UNCHANGED disk PROVE DirsAreGood'
      BY <1>1, <2>2 DEF ReportInv, DirsAreGood
    <2>3. ASSUME Writing # <<>>,
                 Writes(Writing[1], Writing[2],
                        Torn(disk[Writing[1]][Writing[2]].of, now))
          PROVE  DirsAreGood'
      <3>1. Writing[2] \in DumpedFiles
        <4>1. CASE runner \in {"resetting", "writing turn"} /\ dirOf[current] # NoDir
          BY <4>1 DEF Writing, DumpedFiles
        <4>2. CASE runner \in {"store", "trace", "transcript"}
          BY <4>2 DEF Writing, DumpedFiles
        <4>3. QED
          BY <2>3, <4>1, <4>2 DEF Writing
      <3> DEFINE f == Torn(disk[Writing[1]][Writing[2]].of, now)
      <3>2. f.is \in {"whole", "torn"} /\ f.at = now
        BY DEF Torn
      <3> HIDE DEF f
      <3>3. Writes(Writing[1], Writing[2], f)
        BY <2>3 DEF f
      <3>4. QED
        BY <1>1, <3>1, <3>2, <3>3, WritingStep DEF ReportInv
    <2>4. QED
      BY <2>1, <2>2, <2>3 DEF Crash, ReportInv
  <1>4. QED
    BY <1>2, <1>3

(* The report comes to the next directory.                                 *)
LEMMA ReportTrialStep ==
  ASSUME ReportInv, ReportTrial
  PROVE  ReportInv'
  <1> DEFINE d == Len(rows) + 1
             dir == disk[d]
             raised == AfterRaise(dir, Scenario[d], now)
             left == AfterReport(dir, Scenario[d], operator, now)
             missing == [run |-> FALSE, grade |-> NoGrade]
             done == [run |-> TRUE, grade |-> ReportedGrade(dir, Scenario[d], operator)]
  <1>1. /\ runner = "reporting" /\ d \in Dirs /\ UNCHANGED <<now, operator>>
        /\ GoodDir(dir, Scenario[d], now) /\ now \in Nat
    BY DEF ReportTrial, serverVars, setting, ReportInv, DirsAreGood
  <1>2. PICK S : rows \in Seq(S)
    BY <1>1 DEF ReportInv, RowsFit
  <1>3. ASSUME NEW row, rows' = Append(rows, row), runner' = runner,
               NEW new, disk' = [disk EXCEPT ![d] = new],
               RowFits(row, new, Scenario[d])
        PROVE  RowsFit'
    <2>1. rows \in Seq(S \cup {row})
      BY <1>2
    <2>2. /\ rows' \in Seq(S \cup {row}) /\ Len(rows') = d /\ rows'[d] = row
          /\ \A e \in 1 .. Len(rows) : rows'[e] = rows[e]
          /\ Len(rows) \in Nat
      BY <1>3, <2>1
    <2>3. d \in 1 .. NDirs /\ NDirs \in Nat
      BY <1>1, TrialsGiven DEF Dirs, TrialsAssumption
    <2>4. d <= NDirs /\ d \in Nat
      BY <2>2, <2>3
    <2>5. ASSUME NEW e \in 1 .. d PROVE RowFits(rows[e], disk[e], Scenario[e])'
      <3>1. CASE e = d
        <4>1. disk'[e] = new
          BY <1>1, <1>3, <3>1 DEF ReportInv, DirsAreGood
        <4>2. QED
          BY <1>1, <1>3, <2>2, <3>1, <4>1 DEF RowFits
      <3>2. CASE e # d
        <4>1. e \in 1 .. Len(rows) /\ e \in 1 .. NDirs
          BY <2>2, <2>3, <2>5, <3>2
        <4>2. e \in Dirs
          BY <4>1 DEF Dirs
        <4>3. disk'[e] = disk[e]
          BY <1>1, <1>3, <3>2, <4>2 DEF ReportInv, DirsAreGood
        <4>4. RowFits(rows[e], disk[e], Scenario[e])
          BY <1>1, <4>1 DEF ReportInv, RowsFit
        <4>5. QED
          BY <1>1, <2>2, <4>1, <4>3, <4>4 DEF RowFits
      <3>3. QED
        BY <3>1, <3>2
    <2>6. runner' = "reporting"
      BY <1>1, <1>3
    <2> HIDE DEF d
    <2>7. QED
      BY <2>2, <2>4, <2>5, <2>6 DEF RowsFit
  <1>4. CASE ReportRaises(dir, Scenario[d], operator)
    <2>1. disk' = [disk EXCEPT ![d] = raised] /\ runner' = "idle"
      BY <1>4 DEF ReportTrial, Goes
    <2>2. GoodDir(raised, Scenario[d], now)
      BY <1>1, RaisedIsGood
    <2> HIDE DEF raised, d
    <2>3. DirsAreGood'
      BY <1>1, <2>1, <2>2, DiskStep DEF ReportInv
    <2>4. QED
      BY <2>1, <2>3 DEF ReportInv, RowsFit
  <1>5. CASE /\ ~ReportRaises(dir, Scenario[d], operator)
             /\ NotRun(dir, Scenario[d])
    <2>1. rows' = Append(rows, missing) /\ UNCHANGED <<disk, runner>>
      BY <1>5 DEF ReportTrial
    <2>2. disk' = [disk EXCEPT ![d] = dir]
      BY <1>1, <2>1 DEF ReportInv, DirsAreGood
    <2>3. RowFits(missing, dir, Scenario[d])
      BY <1>5 DEF RowFits, NotRun
    <2> HIDE DEF missing, dir, d
    <2>4. RowsFit'
      BY <1>3, <2>1, <2>2, <2>3
    <2>5. QED
      BY <1>1, <2>1, <2>4 DEF ReportInv, DirsAreGood
  <1>6. CASE /\ ~ReportRaises(dir, Scenario[d], operator)
             /\ ~NotRun(dir, Scenario[d])
    <2>1. /\ rows' = Append(rows, done) /\ runner' = runner
          /\ disk' = [disk EXCEPT ![d] = left]
      BY <1>6 DEF ReportTrial
    <2>2. done.run /\ done.grade = ReportedGrade(dir, Scenario[d], operator)
      OBVIOUS
    <2> HIDE DEF done
    <2>3. RowFits(done, left, Scenario[d])
      BY <1>1, <2>2, ReportedFits
    <2>4. GoodDir(left, Scenario[d], now)
      BY <1>1, ReportedIsGood
    <2> HIDE DEF left, dir, d
    <2>5. DirsAreGood'
      BY <1>1, <2>1, <2>4, DiskStep DEF ReportInv
    <2>6. RowsFit'
      BY <1>3, <2>1, <2>3
    <2>7. QED
      BY <2>5, <2>6 DEF ReportInv
  <1>7. QED
    BY <1>4, <1>5, <1>6

LEMMA InitReportInv == Init => ReportInv
  <1> SUFFICES ASSUME Init PROVE ReportInv
    OBVIOUS
  <1>1. /\ now = 0 /\ disk = [d \in Dirs |-> EmptyDir] /\ runner = "idle"
    BY DEF Init, ServerInit
  <1>2. /\ EmptyDir = [f \in DirFields |-> EmptyDir[f]] /\ EmptyDir.raced = FALSE
        /\ \A f \in DumpedFiles \cup {"grade"} :
              EmptyDir[f].is = "absent" /\ EmptyDir[f].at = 0
        /\ EmptyDir.grade.of = NoGrade
    BY DEF EmptyDir, DirFields, DumpedFiles, Missing
  <1>3. NoGrade = [f \in GradeFields |-> NoGrade[f]] /\ NoGrade.passed = FALSE
    BY DEF NoGrade, GradeFields
  <1>4. ASSUME NEW scenario PROVE GoodDir(EmptyDir, scenario, 0)
    <2>1. FilesAreDated(EmptyDir, 0)
      <3>1. 0 \in 0 .. 0
        OBVIOUS
      <3>2. QED
        BY <1>2, <1>3, <3>1 DEF FilesAreDated
    <2>2. ~IsCurrent(EmptyDir, scenario)
      BY <1>2 DEF IsCurrent, Exists
    <2>3. QED
      BY <1>2, <1>3, <2>1, <2>2 DEF GoodDir, GradeIsFair, PassIsEarned
  <1>5. DirsAreGood
    BY <1>1, <1>4 DEF DirsAreGood
  <1>6. QED
    BY <1>1, <1>5 DEF ReportInv, RowsFit

LEMMA NextReportInv == ReportInv /\ [Next]_vars => ReportInv'
  <1> SUFFICES ASSUME ReportInv, [Next]_vars PROVE ReportInv'
    OBVIOUS
  <1>1. ASSUME UNCHANGED <<now, disk, runner, operator, rows>> PROVE ReportInv'
    BY <1>1 DEF ReportInv, DirsAreGood, RowsFit, RowFits
  <1>2. ASSUME UNCHANGED <<now, disk>>, runner' \notin {"reporting", "reported"}
        PROVE  ReportInv'
    BY <1>2 DEF ReportInv, DirsAreGood, RowsFit
  <1>3. CASE Tick
    <2>1. now' = now + 1 /\ UNCHANGED <<disk, runner, operator, rows>>
      BY <1>3 DEF Tick, evalVars, reportVars
    <2>2. DirsAreGood'
      BY <2>1, LaterIsGood DEF ReportInv, DirsAreGood
    <2>3. RowsFit'
      BY <2>1 DEF ReportInv, RowsFit, RowFits
    <2>4. QED
      BY <2>2, <2>3 DEF ReportInv
  <1>4. CASE \/ \E w \in Workers : AgentCall(w) \/ (AdopterCall(w) /\ UNCHANGED evalVars)
             \/ RejectUnbound /\ UNCHANGED evalVars
    <2>1. UNCHANGED evalVars
      BY <1>4 DEF AgentCall
    <2>2. UNCHANGED now
      BY <1>4 DEF AgentCall, AdopterCall, RejectUnbound, Receive, ReadCredentials,
                  Resolve, Dispatch, ClientReturns, ClientRaises, ClientMisbehaves,
                  Notify, Reply, setting
    <2>3. QED
      BY <1>1, <2>1, <2>2 DEF evalVars, reportVars
  <1>5. ASSUME NEW d \in Dirs, Reset(d) PROVE ReportInv'
    BY <1>2, <1>5 DEF Reset, Goes
  <1>6. ASSUME NEW d \in Dirs, GradeTrial(d) PROVE ReportInv'
    <2>1. /\ now' = now /\ runner' = "idle"
          /\ \E op \in Operators :
                disk' = [disk EXCEPT ![d] =
                           Judged(@, FreshGrade(@, Scenario[d], op), now)]
      BY <1>6 DEF GradeTrial, Goes, serverVars, setting
    <2>2. PICK op \in Operators :
            disk' = [disk EXCEPT ![d] =
                       Judged(disk[d], FreshGrade(disk[d], Scenario[d], op), now)]
      BY <2>1
    <2> DEFINE new == Judged(disk[d], FreshGrade(disk[d], Scenario[d], op), now)
    <2>3. GoodDir(disk[d], Scenario[d], now) /\ now \in Nat
      BY DEF ReportInv, DirsAreGood
    <2>4. GoodDir(new, Scenario[d], now)
      BY <2>3, FreshIsGood
    <2> HIDE DEF new
    <2>5. DirsAreGood'
      BY <2>1, <2>2, <2>4, DiskStep DEF ReportInv, new
    <2>6. QED
      BY <2>1, <2>5 DEF ReportInv, RowsFit
  <1>7. CASE WriteTranscript
    <2>1. now' = now /\ runner' = "idle"
      BY <1>7 DEF WriteTranscript, Goes, serverVars, setting
    <2>2. CASE UNCHANGED disk
      BY <1>2, <2>1, <2>2
    <2>3. CASE Writes(dirOf[current], "transcript", Whole(turns, now))
      <3> DEFINE f == Whole(turns, now)
      <3>1. f.is \in {"whole", "torn"} /\ f.at = now /\ "transcript" \in DumpedFiles
        BY DEF Whole, DumpedFiles
      <3> HIDE DEF f
      <3>2. DirsAreGood'
        BY <2>1, <2>3, <3>1, WritingStep DEF ReportInv, f
      <3>3. QED
        BY <2>1, <3>2 DEF ReportInv, RowsFit
    <2>4. QED
      BY <1>7, <2>2, <2>3 DEF WriteTranscript
  <1>8. CASE RecordTurn \/ ReplyUnavailable \/ ReplyFound \/ BeginDump
    BY <1>2, <1>8 DEF RecordTurn, ReplyUnavailable, ReplyFound, KeepReply, BeginDump,
                      Goes, serverVars, setting
  <1>9. CASE ListScope
    BY <1>1, <1>9 DEF ListScope, serverVars, setting, reportVars
  <1>10. CASE ReadFile \/ AllRead
    BY <1>2, <1>10 DEF ReadFile, AllRead, Goes, serverVars, setting
  <1>11. CASE WriteDump
    <2>1. /\ runner \in DumpedFiles /\ now' = now
          /\ Writes(dirOf[snap.trial], runner, Whole(Contents(runner), now))
          /\ runner' \in {"idle", "trace", "transcript"}
      <3>1. PICK i \in 1 .. 3 :
              /\ runner = DumpFiles[i]
              /\ Writes(dirOf[snap.trial], runner, Whole(Contents(runner), now))
              /\ IF i = 3 THEN Goes("idle") /\ snap' = NoSnap
                 ELSE Goes(DumpFiles[i + 1]) /\ UNCHANGED snap
        BY <1>11 DEF WriteDump
      <3>2. i \in {1, 2, 3}
        OBVIOUS
      <3>3. /\ DumpFiles[1] = "store" /\ DumpFiles[2] = "trace"
            /\ DumpFiles[3] = "transcript"
        BY DEF DumpFiles
      <3>4. now' = now
        BY <1>11 DEF WriteDump, serverVars, setting
      <3>5. QED
        BY <3>1, <3>2, <3>3, <3>4 DEF DumpedFiles, Goes
    <2> DEFINE f == Whole(Contents(runner), now)
    <2>2. f.is \in {"whole", "torn"} /\ f.at = now
      BY DEF Whole
    <2> HIDE DEF f
    <2>3. Writes(dirOf[snap.trial], runner, f)
      BY <2>1 DEF f
    <2>4. DirsAreGood'
      BY <2>1, <2>2, <2>3, WritingStep DEF ReportInv
    <2>5. QED
      BY <2>1, <2>4 DEF ReportInv, RowsFit
  <1>12. CASE BeginReport
    <2>1. UNCHANGED <<now, disk>> /\ rows' = <<>> /\ runner' = "reporting"
      BY <1>12 DEF BeginReport, Goes, serverVars, setting
    <2>2. rows' \in Seq({}) /\ Len(rows') = 0 /\ 0 <= NDirs
      BY <2>1, TrialsGiven DEF TrialsAssumption
    <2>3. RowsFit'
      BY <2>1, <2>2 DEF RowsFit
    <2>4. QED
      BY <2>1, <2>3 DEF ReportInv, DirsAreGood
  <1>13. CASE WriteReport
    <2>1. /\ UNCHANGED <<now, disk, operator, rows>> /\ runner' = "reported"
          /\ runner = "reporting" /\ Len(rows) = NDirs
      BY <1>13 DEF WriteReport, Goes, serverVars, setting, reportVars
    <2>2. QED
      BY <2>1 DEF ReportInv, DirsAreGood, RowsFit, RowFits
  <1>14. CASE UNCHANGED vars
    BY <1>1, <1>14 DEF vars, serverVars, setting, evalVars, reportVars
  <1>15. QED
    BY <1>3, <1>4, <1>5, <1>6, <1>7, <1>8, <1>9, <1>10, <1>11, <1>12, <1>13, <1>14,
       CrashSpoilsNoReport, ReportTrialStep DEF Next

(* A report is about what is in the trial directories, for any number of   *)
(* directories, scenarios and operators, and whatever was dumped, cut      *)
(* short, graded, reported or raised before.                               *)
THEOREM ReportsAreCurrent == Spec => []ReportIsCurrent
  <1>1. ReportInv => ReportIsCurrent
    <2> SUFFICES ASSUME ReportInv, runner = "reported", NEW d \in Dirs
                 PROVE  RowFits(rows[d], disk[d], Scenario[d])
      BY DEF ReportIsCurrent, RowFits, PassIsEarned
    <2>1. d \in 1 .. Len(rows)
      BY DEF ReportInv, RowsFit, Dirs
    <2>2. QED
      BY <2>1 DEF ReportInv, RowsFit
  <1>2. QED
    BY <1>1, InitReportInv, NextReportInv, PTL DEF Spec

---------------------------------------------------------------------------
(* What a step of a call does to it: it begins, goes on or leaves.         *)
Steps == {"credentials", "resolve", "dispatch", "client", "observe", "reply"}
Callers == DOMAIN Identities \cup {Unresolved}
AnsweredIds == {a.id : a \in answered}

Begins(w) ==
  /\ call[w].pc = "idle" /\ call'[w].pc \in {"credentials", "dispatch"}
  /\ host.entry = "mcp" => call'[w].pc = "credentials"
  /\ call'[w].as \in Callers /\ call'[w].id = issued + 1
  /\ call'[w].began = now /\ call'[w].took = 0 /\ call'[w].wrote = 0
  /\ call'[w].home = current /\ call'[w].asked \in {attempts, 0}
  /\ call'[w].knew = AnsweredIds
  /\ issued' = issued + 1 /\ UNCHANGED <<store, records, answered>>

Endured == {"id", "req", "began", "home", "asked", "knew"}

GoesOn(w) ==
  /\ call[w].pc \in Steps \ {"reply"} /\ call'[w].pc \in Steps \ {"credentials"}
  /\ \/ call'[w].as = call[w].as
     \/ call[w].pc = "resolve" /\ call'[w].as \in Callers
  /\ \A f \in Endured : call'[w][f] = call[w][f]
  /\ call'[w].took \in {call[w].took, now - call[w].began}
  /\ \/ records' = records
     \/ call[w].pc = "observe" /\ records' = Append(records, RecordOf(w))
  /\ UNCHANGED <<issued, answered>>

Leaves(w) ==
  /\ call[w].pc = "reply" /\ call'[w] = Idle
  /\ \E a : answered' = answered \cup {a}
  /\ UNCHANGED <<store, issued, records>>

ServesTyped ==
  /\ serves = [s \in StoreIds |-> serves[s]]
  /\ \A s \in StoreIds : serves[s] \in Callers

LEMMA BeginningStep ==
  ASSUME CallsHaveFields, host \in Hosts, NEW w \in Workers, NEW r \in host.requests,
         NEW asked \in {attempts, 0}, Receive(w, r, asked)
  PROVE  CallsHaveFields' /\ Begins(w) /\ \A v \in Workers \ {w} : call'[v] = call[v]
  <1> DEFINE pc == IF host.entry = "mcp" THEN "credentials" ELSE "dispatch"
             as == IF host.entry = "mcp" THEN Unresolved ELSE host.bound
             knew == {a.id : a \in answered}
             new == [Idle EXCEPT !.pc = pc, !.as = as, !.id = issued + 1, !.req = r,
                                 !.began = now, !.home = current, !.asked = asked,
                                 !.knew = knew]
  <1>1. /\ call' = [call EXCEPT ![w] = new] /\ call[w].pc = "idle"
        /\ issued' = issued + 1 /\ UNCHANGED <<store, records, answered>>
    BY DEF Receive
  <1>2. as \in Callers
    BY ServerGiven DEF ServerAssumption, Callers
  <1>3. /\ new = [f \in CallFields |-> new[f]]
        /\ new.pc = pc /\ new.as = as /\ new.id = issued + 1 /\ new.began = now
        /\ new.took = 0 /\ new.wrote = 0 /\ new.home = current /\ new.asked = asked
        /\ new.knew = knew
    <2> HIDE DEF pc, as, knew
    <2>1. /\ Idle = [f \in CallFields |-> Idle[f]]
          /\ Idle.took = 0 /\ Idle.wrote = 0
      BY DEF Idle, CallFields
    <2>2. /\ new = [f \in CallFields |-> new[f]] /\ new.pc = pc /\ new.as = as
          /\ new.id = issued + 1 /\ new.began = now
          /\ new.took = Idle.took /\ new.wrote = Idle.wrote
      BY <2>1 DEF CallFields
    <2>3. new.home = current /\ new.asked = asked /\ new.knew = knew
      BY <2>1 DEF CallFields
    <2> HIDE DEF new
    <2>4. QED
      BY <2>1, <2>2, <2>3
  <1>4. /\ pc \in {"credentials", "dispatch"} /\ knew = AnsweredIds
        /\ host.entry = "mcp" => pc = "credentials"
    BY DEF AnsweredIds
  <1> HIDE DEF new, pc, as, knew
  <1>5. /\ CallsHaveFields' /\ call'[w] = new
        /\ \A v \in Workers \ {w} : call'[v] = call[v]
    BY <1>1, <1>3, OneCallChanges
  <1>6. QED
    BY <1>1, <1>2, <1>3, <1>4, <1>5 DEF Begins

LEMMA EndsGoesOn ==
  ASSUME CallsHaveFields, NEW w \in Workers, NEW outcome, NEW wrote,
         Ends(w, outcome, wrote), call[w].pc \in Steps \ {"reply"},
         UNCHANGED <<issued, answered, records>>
  PROVE  /\ CallsHaveFields' /\ GoesOn(w) /\ call'[w].wrote = wrote
         /\ call'[w].store = call[w].store /\ call'[w].as = call[w].as
         /\ \A v \in Workers \ {w} : call'[v] = call[v]
  <1> DEFINE pc == IF host.observer = "none" THEN "reply" ELSE "observe"
             took == now - call[w].began
             new == [call[w] EXCEPT !.pc = pc, !.outcome = outcome,
                                    !.wrote = wrote, !.took = took]
  <1>1. call' = [call EXCEPT ![w] = new]
    BY DEF Ends
  <1>2. call[w] = [f \in CallFields |-> call[w][f]]
    BY DEF CallsHaveFields
  <1>3. /\ new = [f \in CallFields |-> new[f]] /\ new.pc = pc
        /\ new.took = took /\ new.wrote = wrote
        /\ \A f \in CallFields \ {"pc", "outcome", "wrote", "took"} : new[f] = call[w][f]
    BY <1>2 DEF CallFields
  <1>4. pc \in Steps \ {"credentials"}
    BY DEF Steps
  <1> HIDE DEF new, pc, took
  <1>5. CallsHaveFields' /\ call'[w] = new /\ \A v \in Workers \ {w} : call'[v] = call[v]
    BY <1>1, <1>3, OneCallChanges
  <1>6. /\ \A f \in Endured : call'[w][f] = call[w][f]
        /\ call'[w].as = call[w].as /\ call'[w].store = call[w].store
    BY <1>3, <1>5 DEF Endured, CallFields
  <1>7. call'[w].took = now - call[w].began /\ call'[w].pc = pc /\ call'[w].wrote = wrote
    BY <1>3, <1>5 DEF took
  <1>8. GoesOn(w)
    BY <1>4, <1>6, <1>7 DEF GoesOn
  <1>9. QED
    BY <1>5, <1>6, <1>7, <1>8

LEMMA AdvanceGoesOn ==
  ASSUME CallsHaveFields, NEW w \in Workers, NEW pc \in Steps \ {"credentials"},
         Advance(w, pc), call[w].pc \in Steps \ {"reply"}, UNCHANGED <<issued, answered>>,
         \/ records' = records
         \/ call[w].pc = "observe" /\ records' = Append(records, RecordOf(w))
  PROVE  /\ CallsHaveFields' /\ GoesOn(w) /\ call'[w].wrote = call[w].wrote
         /\ call'[w].store = call[w].store /\ call'[w].pc = pc
         /\ call'[w].as = call[w].as
         /\ \A v \in Workers \ {w} : call'[v] = call[v]
  <1>1. /\ CallsHaveFields' /\ call'[w].pc = pc
        /\ \A f \in CallFields \ {"pc"} : call'[w][f] = call[w][f]
        /\ \A v \in Workers \ {w} : call'[v] = call[v]
    BY AdvanceKeepsFields
  <1>2. /\ \A f \in Endured : call'[w][f] = call[w][f]
        /\ call'[w].as = call[w].as /\ call'[w].store = call[w].store
        /\ call'[w].wrote = call[w].wrote /\ call'[w].took = call[w].took
    BY <1>1 DEF Endured, CallFields
  <1>3. QED
    BY <1>1, <1>2 DEF GoesOn

LEMMA CallsTakeSteps ==
  ASSUME CallsHaveFields, host \in Hosts, current \in StoreIds, ServesTyped,
         NEW w \in Workers, AgentCall(w) \/ (AdopterCall(w) /\ UNCHANGED evalVars)
  PROVE  /\ CallsHaveFields' /\ \A v \in Workers \ {w} : call'[v] = call[v]
         /\ Begins(w) \/ GoesOn(w) \/ Leaves(w)
         /\ UNCHANGED <<setting, evalVars>>
  <1> DEFINE goal == /\ CallsHaveFields' /\ \A v \in Workers \ {w} : call'[v] = call[v]
                     /\ Begins(w) \/ GoesOn(w) \/ Leaves(w)
                     /\ UNCHANGED setting
  <1>0. UNCHANGED evalVars
    BY DEF AgentCall
  <1>1. ASSUME NEW r \in host.requests, NEW asked \in {attempts, 0}, Receive(w, r, asked)
        PROVE  goal
    <2>1. UNCHANGED setting
      BY <1>1 DEF Receive
    <2>2. QED
      BY <1>1, <2>1, BeginningStep
  <1>2. ASSUME NEW outcome, NEW wrote, Ends(w, outcome, wrote),
               call[w].pc \in Steps \ {"reply"},
               UNCHANGED <<setting, issued, answered, records>>
        PROVE  goal
    BY <1>2, EndsGoesOn
  <1>3. ASSUME ReadCredentials(w) PROVE goal
    <2>1. /\ call[w].pc \in Steps \ {"reply"} /\ "resolve" \in Steps \ {"credentials"}
          /\ UNCHANGED <<setting, issued, answered, records>>
      BY <1>3 DEF ReadCredentials, Steps
    <2>2. CASE Advance(w, "resolve")
      BY <2>1, <2>2, AdvanceGoesOn
    <2>3. QED
      BY <1>2, <1>3, <2>1, <2>2 DEF ReadCredentials
  <1>4. ASSUME NEW as \in Callers, Resolve(w, as) PROVE goal
    <2>1. /\ call[w].pc = "resolve"
          /\ UNCHANGED <<setting, issued, answered, records>>
      BY <1>4 DEF Resolve
    <2>2. CASE as = Unresolved
      BY <1>2, <1>4, <2>1, <2>2 DEF Resolve, Steps
    <2>3. CASE as # Unresolved
      <3> DEFINE new == [call[w] EXCEPT !.pc = "dispatch", !.as = as]
      <3>1. call' = [call EXCEPT ![w] = new]
        BY <1>4, <2>3 DEF Resolve
      <3>2. call[w] = [f \in CallFields |-> call[w][f]]
        BY DEF CallsHaveFields
      <3>3. /\ new = [f \in CallFields |-> new[f]] /\ new.pc = "dispatch" /\ new.as = as
            /\ \A f \in CallFields \ {"pc", "as"} : new[f] = call[w][f]
        BY <3>2 DEF CallFields
      <3> HIDE DEF new
      <3>4. /\ CallsHaveFields' /\ call'[w] = new
            /\ \A v \in Workers \ {w} : call'[v] = call[v]
        BY <3>1, <3>3, OneCallChanges
      <3>5. /\ \A f \in Endured : call'[w][f] = call[w][f]
            /\ call'[w].took = call[w].took
        BY <3>3, <3>4 DEF Endured, CallFields
      <3>6. GoesOn(w)
        BY <2>1, <3>3, <3>4, <3>5 DEF GoesOn, Steps
      <3>7. QED
        BY <2>1, <3>4, <3>6
    <2>4. QED
      BY <2>2, <2>3
  <1>5. ASSUME Dispatch(w) PROVE goal
    <2>1. /\ call[w].pc = "dispatch"
          /\ UNCHANGED <<setting, issued, answered, records>>
      BY <1>5 DEF Dispatch
    <2>2. CASE Ends(w, Fails(Refusal(Req(w), Grants(w))), 0)
      BY <1>2, <2>1, <2>2 DEF Steps
    <2>3. CASE call' = [call EXCEPT ![w].pc = "client", ![w].store = current]
      <3> DEFINE new == [call[w] EXCEPT !.pc = "client", !.store = current]
      <3>1. call' = [call EXCEPT ![w] = new]
        BY <2>3
      <3>2. call[w] = [f \in CallFields |-> call[w][f]]
        BY DEF CallsHaveFields
      <3>3. /\ new = [f \in CallFields |-> new[f]] /\ new.pc = "client"
            /\ \A f \in CallFields \ {"pc", "store"} : new[f] = call[w][f]
        BY <3>2 DEF CallFields
      <3> HIDE DEF new
      <3>4. /\ CallsHaveFields' /\ call'[w] = new
            /\ \A v \in Workers \ {w} : call'[v] = call[v]
        BY <3>1, <3>3, OneCallChanges
      <3>5. /\ \A f \in Endured : call'[w][f] = call[w][f]
            /\ call'[w].took = call[w].took /\ call'[w].as = call[w].as
        BY <3>3, <3>4 DEF Endured, CallFields
      <3>6. GoesOn(w)
        BY <2>1, <3>3, <3>4, <3>5 DEF GoesOn, Steps
      <3>7. QED
        BY <2>1, <3>4, <3>6
    <2>4. QED
      BY <1>5, <2>2, <2>3 DEF Dispatch
  <1>6. ASSUME ClientReturns(w) \/ ClientRaises(w) \/ ClientMisbehaves(w) PROVE goal
    <2>1. /\ call[w].pc = "client" /\ UNCHANGED <<setting, issued, answered, records>>
          /\ \E outcome, wrote : Ends(w, outcome, wrote)
      BY <1>6 DEF ClientReturns, ClientRaises, ClientMisbehaves
    <2>2. QED
      BY <1>2, <2>1 DEF Steps
  <1>7. ASSUME Notify(w) PROVE goal
    <2>1. /\ call[w].pc \in Steps \ {"reply"} /\ "reply" \in Steps \ {"credentials"}
          /\ UNCHANGED <<setting, issued, answered>> /\ Advance(w, "reply")
          /\ \/ records' = records
             \/ call[w].pc = "observe" /\ records' = Append(records, RecordOf(w))
      BY <1>7 DEF Notify, Steps
    <2>2. QED
      BY <2>1, AdvanceGoesOn
  <1>8. ASSUME Reply(w) PROVE goal
    <2>1. /\ call' = [call EXCEPT ![w] = Idle] /\ call[w].pc = "reply"
          /\ \E a : answered' = answered \cup {a}
          /\ UNCHANGED <<setting, store, issued, records>>
      BY <1>8 DEF Reply
    <2>2. Idle = [f \in CallFields |-> Idle[f]]
      BY DEF Idle, CallFields
    <2>3. /\ CallsHaveFields' /\ call'[w] = Idle
          /\ \A v \in Workers \ {w} : call'[v] = call[v]
      BY <2>1, <2>2, OneCallChanges
    <2>4. QED
      BY <2>1, <2>3 DEF Leaves
  <1>9. goal
    <2>1. serves[current] \in Callers
      BY DEF ServesTyped
    <2>2. CASE AgentCall(w)
      BY <1>1, <1>3, <1>4, <1>5, <1>6, <1>7, <1>8, <2>1, <2>2 DEF AgentCall
    <2>3. CASE AdopterCall(w)
      BY <1>1, <1>3, <1>4, <1>5, <1>6, <1>7, <1>8, <2>3 DEF AdopterCall, Callers
    <2>4. QED
      BY <2>2, <2>3
  <1>10. QED
    BY <1>0, <1>9

---------------------------------------------------------------------------
(* Types, and the shape of the lists.                                      *)
StoresTyped ==
  /\ store = [s \in StoreIds |-> store[s]] /\ dirOf = [s \in StoreIds |-> dirOf[s]]
  /\ \A s \in StoreIds : store[s].gen \in Nat /\ dirOf[s] \in Dirs \cup {NoDir}

CallsTimed ==
  /\ now \in Nat
  /\ \A w \in Workers :
        /\ call[w].pc \in Steps \cup {"idle"} /\ call[w].as \in Callers
        /\ call[w].began \in Nat /\ call[w].took \in Nat
        /\ call[w].began + call[w].took <= now

RecordsNumbered ==
  /\ \E S : records \in Seq(S)
  /\ \A i \in DOMAIN records : records[i].seq = i

TurnsMatch ==
  \E S : boundaries \in Seq(S) /\ turns \in Seq(S) /\ Len(boundaries) = Len(turns)

RunnerSteps ==
  {"idle", "resetting", "recording", "writing turn", "reading", "store", "trace",
   "transcript", "reporting", "reported"}

RunnerTyped ==
  /\ runner \in RunnerSteps
  /\ working \in Dirs \cup {NoDir} /\ position \in Nat
  /\ operator \in Operators \cup {"unchecked"}
  /\ \E S : rows \in Seq(S)
  /\ Len(rows) <= NDirs

TypeInv ==
  /\ ServesTyped /\ StoresTyped /\ CallsTimed /\ RecordsNumbered /\ TurnsMatch
  /\ RunnerTyped

LEMMA AppendIsLonger ==
  ASSUME NEW S, NEW s \in Seq(S), NEW x
  PROVE  /\ Append(s, x) \in Seq(S \cup {x}) /\ Len(Append(s, x)) = Len(s) + 1
         /\ Len(s) \in Nat /\ DOMAIN s = 1 .. Len(s)
         /\ DOMAIN Append(s, x) = 1 .. Len(s) + 1
         /\ Append(s, x)[Len(s) + 1] = x
         /\ \A i \in DOMAIN s : Append(s, x)[i] = s[i]
  <1>1. s \in Seq(S \cup {x})
    OBVIOUS
  <1>2. QED
    BY <1>1

(* Stores only gain entries.                                               *)
LEMMA CallsChangeStores ==
  ASSUME NEW w \in Workers, AgentCall(w) \/ (AdopterCall(w) /\ UNCHANGED evalVars)
  PROVE  \/ store' = store
         \/ /\ call[w].pc = "client" /\ Req(w).tool \in Mutations
            /\ store' = [store EXCEPT ![call[w].store] = Effect(w)]
  <1>1. ASSUME ClientReturns(w)
        PROVE  \/ store' = store
               \/ /\ call[w].pc = "client" /\ Req(w).tool \in Mutations
                  /\ store' = [store EXCEPT ![call[w].store] = Effect(w)]
    BY <1>1 DEF ClientReturns
  <1>2. ASSUME ClientRaises(w)
        PROVE  \/ store' = store
               \/ /\ call[w].pc = "client" /\ Req(w).tool \in Mutations
                  /\ store' = [store EXCEPT ![call[w].store] = Effect(w)]
    BY <1>2 DEF ClientRaises
  <1>3. ASSUME \/ ReadCredentials(w) \/ Dispatch(w) \/ ClientMisbehaves(w)
               \/ Notify(w) \/ Reply(w)
               \/ \E r, asked : Receive(w, r, asked) \/ \E as : Resolve(w, as)
        PROVE  store' = store
    BY <1>3 DEF ReadCredentials, Dispatch, ClientMisbehaves, Notify, Reply, Receive, Resolve
  <1>4. QED
    BY <1>1, <1>2, <1>3 DEF AgentCall, AdopterCall

LEMMA CallsKeepTypes ==
  ASSUME GrantInv, TypeInv, NEW w \in Workers,
         AgentCall(w) \/ (AdopterCall(w) /\ UNCHANGED evalVars)
  PROVE  TypeInv'
  <1>1. /\ CallsHaveFields' /\ \A v \in Workers \ {w} : call'[v] = call[v]
        /\ Begins(w) \/ GoesOn(w) \/ Leaves(w)
        /\ UNCHANGED <<setting, evalVars>>
    BY CallsTakeSteps DEF GrantInv, TrialsInOrder, TypeInv
  <1>2. /\ UNCHANGED <<now, serves, dirOf, boundaries, turns, runner, working, position,
                       operator, rows>>
        /\ now \in Nat
    BY <1>1 DEF setting, evalVars, trialVars, turnVars, reportVars, TypeInv, CallsTimed
  <1>3. StoresTyped'
    <2>1. CASE store' = store
      BY <1>2, <2>1 DEF TypeInv, StoresTyped
    <2>2. CASE store' = [store EXCEPT ![call[w].store] = Effect(w)]
      <3>1. Effect(w).gen = store[call[w].store].gen + 1
        BY DEF Effect, Changed
      <3>2. ASSUME NEW s \in StoreIds PROVE store'[s].gen \in Nat
        BY <2>2, <3>1 DEF TypeInv, StoresTyped
      <3>3. store' = [s \in StoreIds |-> store'[s]]
        BY <2>2 DEF TypeInv, StoresTyped
      <3>4. QED
        BY <1>2, <3>2, <3>3 DEF TypeInv, StoresTyped
    <2>3. QED
      BY <2>1, <2>2, CallsChangeStores
  <1>4. CallsTimed'
    <2>1. /\ call'[w].pc \in Steps \cup {"idle"} /\ call'[w].as \in Callers
          /\ call'[w].began \in Nat /\ call'[w].took \in Nat
          /\ call'[w].began + call'[w].took <= now
      <3>1. CASE Begins(w)
        BY <1>2, <3>1 DEF Begins, Steps
      <3>2. CASE GoesOn(w)
        <4>1. /\ call[w].as \in Callers /\ call[w].began \in Nat /\ call[w].took \in Nat
              /\ call[w].began + call[w].took <= now
          BY DEF TypeInv, CallsTimed
        <4>2. /\ call'[w].pc \in Steps /\ call'[w].as \in Callers
              /\ call'[w].took \in {call[w].took, now - call[w].began}
          BY <3>2, <4>1 DEF GoesOn
        <4>3. call'[w].began = call[w].began
          BY <3>2 DEF GoesOn, Endured
        <4>4. QED
          BY <1>2, <4>1, <4>2, <4>3
      <3>3. CASE Leaves(w)
        <4>1. /\ Idle.pc = "idle" /\ Idle.as = Unresolved /\ Idle.began = 0
              /\ Idle.took = 0
          BY DEF Idle
        <4>2. QED
          BY <1>2, <3>3, <4>1 DEF Leaves, Callers
      <3>4. QED
        BY <1>1, <3>1, <3>2, <3>3
    <2>2. QED
      BY <1>1, <1>2, <2>1 DEF TypeInv, CallsTimed
  <1>5. RecordsNumbered'
    <2>1. CASE records' = records
      BY <2>1 DEF TypeInv, RecordsNumbered
    <2>2. CASE records' = Append(records, RecordOf(w))
      <3> DEFINE r == RecordOf(w)
      <3>1. r.seq = Len(records) + 1
        BY DEF RecordOf
      <3> HIDE DEF r
      <3>2. PICK S : records \in Seq(S)
        BY DEF TypeInv, RecordsNumbered
      <3>3. /\ records' \in Seq(S \cup {r}) /\ Len(records) \in Nat
            /\ DOMAIN records = 1 .. Len(records)
            /\ DOMAIN records' = 1 .. Len(records) + 1
            /\ records'[Len(records) + 1] = r
            /\ \A i \in DOMAIN records : records'[i] = records[i]
        BY <2>2, <3>2, AppendIsLonger DEF r
      <3>4. \A i \in DOMAIN records' : records'[i].seq = i
        BY <3>1, <3>3 DEF TypeInv, RecordsNumbered
      <3>5. QED
        BY <3>3, <3>4 DEF RecordsNumbered
    <2>3. QED
      BY <1>1, <2>1, <2>2 DEF Begins, GoesOn, Leaves
  <1>6. ServesTyped' /\ TurnsMatch' /\ RunnerTyped'
    BY <1>2 DEF TypeInv, ServesTyped, TurnsMatch, RunnerTyped
  <1>7. QED
    BY <1>3, <1>4, <1>5, <1>6 DEF TypeInv

(* A trial starts: the lists are empty, the new store and identity typed.  *)
LEMMA NewTrialTypes ==
  ASSUME GrantInv, TypeInv, NEW st, NEW identity \in Callers, NEW d \in Dirs \cup {NoDir},
         st.gen \in Nat, StartTrial(st, identity, d), now' = now,
         call' = call \/ call' = [w \in Workers |-> Idle],
         runner' \in RunnerSteps, working' \in Dirs \cup {NoDir}, position' \in Nat,
         UNCHANGED <<operator, rows>>
  PROVE  TypeInv'
  <1>1. /\ serves' = [serves EXCEPT ![current + 1] = identity]
        /\ store' = [store EXCEPT ![current + 1] = st]
        /\ dirOf' = [dirOf EXCEPT ![current + 1] = d]
        /\ records' = <<>> /\ boundaries' = <<>> /\ turns' = <<>>
    BY DEF StartTrial
  <1>2. ServesTyped'
    BY <1>1 DEF TypeInv, ServesTyped
  <1>3. StoresTyped'
    <2>1. \A s \in StoreIds : store'[s].gen \in Nat /\ dirOf'[s] \in Dirs \cup {NoDir}
      BY <1>1 DEF TypeInv, StoresTyped
    <2>2. /\ store' = [s \in StoreIds |-> store'[s]]
          /\ dirOf' = [s \in StoreIds |-> dirOf'[s]]
      BY <1>1 DEF TypeInv, StoresTyped
    <2>3. QED
      BY <2>1, <2>2 DEF StoresTyped
  <1>4. CallsTimed'
    <2>1. Idle.pc = "idle" /\ Idle.as = Unresolved /\ Idle.began = 0 /\ Idle.took = 0
      BY DEF Idle
    <2>2. QED
      BY <2>1 DEF TypeInv, CallsTimed, Callers
  <1>5. RecordsNumbered' /\ TurnsMatch'
    <2>1. <<>> \in Seq({}) /\ DOMAIN <<>> = {}
      OBVIOUS
    <2>2. QED
      BY <1>1, <2>1 DEF RecordsNumbered, TurnsMatch
  <1>6. RunnerTyped'
    BY DEF TypeInv, RunnerTyped
  <1>7. QED
    BY <1>2, <1>3, <1>4, <1>5, <1>6 DEF TypeInv

LEMMA InitTypeInv == Init => TypeInv
  <1> SUFFICES ASSUME Init PROVE TypeInv
    OBVIOUS
  <1>1. /\ now = 0 /\ records = <<>> /\ boundaries = <<>> /\ turns = <<>> /\ rows = <<>>
        /\ call = [w \in Workers |-> Idle] /\ store = [s \in StoreIds |-> EmptyStore]
        /\ dirOf = [s \in StoreIds |-> NoDir]
        /\ serves = [s \in StoreIds |-> IF host.evals /\ s = FirstStore
                                        THEN host.bound ELSE Unresolved]
        /\ host.bound \in DOMAIN Identities
    BY ServerGiven DEF Init, ServerInit, ServerAssumption
  <1>2. <<>> \in Seq({}) /\ DOMAIN <<>> = {} /\ Len(<<>>) = 0
    OBVIOUS
  <1>3. ServesTyped
    BY <1>1 DEF ServesTyped, Callers
  <1>4. StoresTyped
    BY <1>1 DEF StoresTyped, EmptyStore
  <1>5. CallsTimed
    <2>1. Idle.pc = "idle" /\ Idle.as = Unresolved /\ Idle.began = 0 /\ Idle.took = 0
      BY DEF Idle
    <2>2. QED
      BY <1>1, <2>1 DEF CallsTimed, Callers
  <1>6. RecordsNumbered /\ TurnsMatch
    BY <1>1, <1>2 DEF RecordsNumbered, TurnsMatch
  <1>7. RunnerTyped
    <2>1. 0 <= NDirs
      BY TrialsGiven DEF TrialsAssumption
    <2>2. QED
      BY <1>1, <1>2, <2>1 DEF Init, RunnerTyped, RunnerSteps
  <1>8. QED
    BY <1>3, <1>4, <1>5, <1>6, <1>7 DEF TypeInv

LEMMA NextTypeInv == GrantInv /\ TypeInv /\ [Next]_vars => TypeInv'
  <1> SUFFICES ASSUME GrantInv, TypeInv, [Next]_vars PROVE TypeInv'
    OBVIOUS
  <1>1. ASSUME UNCHANGED <<now, call, store, serves, dirOf, records>>, TurnsMatch', RunnerTyped'
        PROVE  TypeInv'
    BY <1>1 DEF TypeInv, ServesTyped, StoresTyped, CallsTimed, RecordsNumbered
  <1>2. ASSUME UNCHANGED <<boundaries, turns>> PROVE TurnsMatch'
    BY <1>2 DEF TypeInv, TurnsMatch
  <1>3. ASSUME runner' \in RunnerSteps, UNCHANGED <<working, position, operator, rows>>
        PROVE  RunnerTyped'
    BY <1>3 DEF TypeInv, RunnerTyped
  <1>4. CASE Tick
    <2>1. /\ now' = now + 1 /\ UNCHANGED <<call, store, serves, records>>
          /\ UNCHANGED <<dirOf, boundaries, turns, runner, working, position, operator, rows>>
      BY <1>4 DEF Tick, evalVars, trialVars, turnVars, reportVars
    <2>2. CallsTimed'
      <3>1. now + 1 \in Nat /\ now <= now + 1 /\ now \in Nat
        BY DEF TypeInv, CallsTimed
      <3>2. QED
        BY <2>1, <3>1 DEF TypeInv, CallsTimed
    <2>3. QED
      BY <2>1, <2>2 DEF TypeInv, ServesTyped, StoresTyped, RecordsNumbered, TurnsMatch,
                        RunnerTyped
  <1>5. ASSUME NEW w \in Workers, AgentCall(w) \/ (AdopterCall(w) /\ UNCHANGED evalVars)
        PROVE  TypeInv'
    BY <1>5, CallsKeepTypes
  <1>6. CASE RejectUnbound /\ UNCHANGED evalVars
    <2>1. /\ UNCHANGED <<now, call, store, serves, dirOf, records, boundaries, turns>>
          /\ UNCHANGED <<runner, working, position, operator, rows>>
      BY <1>6 DEF RejectUnbound, setting, evalVars, trialVars, turnVars, reportVars
    <2>2. QED
      BY <2>1 DEF TypeInv, ServesTyped, StoresTyped, CallsTimed, RecordsNumbered, TurnsMatch,
                  RunnerTyped
  <1>7. ASSUME NEW d \in Dirs, Reset(d) PROVE TypeInv'
    <2>1. /\ StartTrial(Seeded(d), Scenario[d].identity, d) /\ now' = now /\ call' = call
          /\ runner' = "resetting" /\ working' = d /\ position' = 0
          /\ UNCHANGED <<operator, rows>>
      BY <1>7 DEF Reset, Goes, reportVars
    <2>2. Scenario[d].identity \in Callers
      BY TrialsGiven DEF TrialsAssumption, Callers
    <2>3. Seeded(d).gen \in Nat
      BY DEF Seeded, Changed, EmptyStore
    <2>4. "resetting" \in RunnerSteps
      BY DEF RunnerSteps
    <2>5. QED
      BY <2>1, <2>2, <2>3, <2>4, NewTrialTypes
  <1>8. CASE Crash
    <2>1. /\ StartTrial(EmptyStore, host.bound, NoDir) /\ now' = now
          /\ call' = [w \in Workers |-> Idle]
          /\ runner' \in RunnerSteps /\ UNCHANGED <<working, position, operator, rows>>
      BY <1>8 DEF Crash, turnVars, reportVars, TypeInv, RunnerTyped, RunnerSteps
    <2>2. host.bound \in Callers /\ EmptyStore.gen \in Nat
      BY ServerGiven DEF ServerAssumption, Callers, EmptyStore, GrantInv, TrialsInOrder
    <2>3. working \in Dirs \cup {NoDir} /\ position \in Nat
      BY DEF TypeInv, RunnerTyped
    <2>4. QED
      BY <2>1, <2>2, <2>3, NewTrialTypes
  <1>9. CASE WriteTranscript
    <2>1. /\ UNCHANGED <<now, call, store, serves, dirOf, records, boundaries, turns>>
          /\ runner' = "idle" /\ UNCHANGED <<working, operator, rows>>
          /\ position' = position + (IF runner = "resetting" THEN 0 ELSE 1)
      BY <1>9 DEF WriteTranscript, Goes, serverVars, setting, trialVars, reportVars
    <2>2. position' \in Nat
      <3>1. position \in Nat
        BY DEF TypeInv, RunnerTyped
      <3>2. QED
        BY <2>1, <3>1
    <2>3. RunnerTyped'
      BY <2>1, <2>2 DEF TypeInv, RunnerTyped, RunnerSteps
    <2>4. QED
      BY <1>1, <1>2, <2>1, <2>3
  <1>10. ASSUME NEW d \in Dirs, GradeTrial(d) PROVE TypeInv'
    <2>1. /\ UNCHANGED <<now, call, store, serves, dirOf, records, boundaries, turns>>
          /\ runner' = "idle" /\ UNCHANGED <<working, position, operator, rows>>
      BY <1>10 DEF GradeTrial, Goes, serverVars, setting, trialVars, turnVars
    <2>2. QED
      BY <1>1, <1>2, <1>3, <2>1 DEF RunnerSteps
  <1>11. CASE RecordTurn \/ ReplyUnavailable
    <2>1. /\ UNCHANGED <<now, call, store, serves, dirOf, records, boundaries, turns>>
          /\ runner' \in {"idle", "recording"}
          /\ UNCHANGED <<working, position, operator, rows>>
      BY <1>11 DEF RecordTurn, ReplyUnavailable, Goes, serverVars, setting, trialVars,
                   turnVars, reportVars
    <2>2. QED
      BY <1>1, <1>2, <1>3, <2>1 DEF RunnerSteps
  <1>12. CASE ReplyFound
    <2>1. /\ UNCHANGED <<now, call, store, serves, dirOf, records>>
          /\ runner' = "writing turn" /\ UNCHANGED <<working, position, operator, rows>>
          /\ boundaries' = Append(boundaries, TurnEnd(atMs))
          /\ \E reply : turns' = Append(turns, reply)
      BY <1>12 DEF ReplyFound, KeepReply, Goes, serverVars, setting, turnVars, reportVars
    <2>2. TurnsMatch'
      <3>1. PICK S : /\ boundaries \in Seq(S) /\ turns \in Seq(S)
                     /\ Len(boundaries) = Len(turns)
        BY DEF TypeInv, TurnsMatch
      <3>2. PICK reply : turns' = Append(turns, reply)
        BY <2>1
      <3> DEFINE end == TurnEnd(atMs)
                 T == S \cup {end, reply}
      <3>3. boundaries \in Seq(T) /\ turns \in Seq(T) /\ end \in T /\ reply \in T
        BY <3>1
      <3>4. boundaries' = Append(boundaries, end)
        BY <2>1
      <3> HIDE DEF T, end
      <3>5. /\ boundaries' \in Seq(T) /\ turns' \in Seq(T)
            /\ Len(boundaries') = Len(turns')
        BY <3>1, <3>2, <3>3, <3>4
      <3>6. QED
        BY <3>5 DEF TurnsMatch
    <2>3. QED
      BY <1>1, <1>3, <2>1, <2>2 DEF RunnerSteps
  <1>13. CASE BeginDump \/ ListScope \/ ReadFile \/ AllRead
    <2>1. /\ UNCHANGED <<now, call, store, serves, dirOf, records, boundaries, turns>>
          /\ runner' \in {runner, "idle", "reading", "store"}
          /\ UNCHANGED <<working, position, operator, rows>>
      BY <1>13 DEF BeginDump, ListScope, ReadFile, AllRead, Goes, serverVars, setting,
                   trialVars, turnVars, reportVars
    <2>2. runner \in RunnerSteps
      BY DEF TypeInv, RunnerTyped
    <2>3. QED
      BY <1>1, <1>2, <1>3, <2>1, <2>2 DEF RunnerSteps
  <1>14. CASE WriteDump
    <2>1. UNCHANGED <<now, call, store, serves, dirOf, records, boundaries, turns, working,
                      position, operator, rows>>
      BY <1>14 DEF WriteDump, serverVars, setting, trialVars, turnVars, reportVars
    <2>2. runner' \in RunnerSteps
      <3>1. PICK i \in 1 .. 3 : IF i = 3 THEN Goes("idle") ELSE Goes(DumpFiles[i + 1])
        BY <1>14 DEF WriteDump
      <3>2. i \in {1, 2, 3} /\ DumpFiles[2] = "trace" /\ DumpFiles[3] = "transcript"
        BY DEF DumpFiles
      <3>3. i # 3 => i + 1 \in {2, 3}
        BY <3>2
      <3>4. runner' \in {"idle", "trace", "transcript"}
        BY <3>1, <3>2, <3>3 DEF Goes
      <3>5. QED
        BY <3>4 DEF RunnerSteps
    <2>3. QED
      BY <1>1, <1>2, <1>3, <2>1, <2>2
  <1>15. CASE BeginReport
    <2>1. /\ UNCHANGED <<now, call, store, serves, dirOf, records, boundaries, turns>>
          /\ runner' = "reporting" /\ UNCHANGED <<working, position>>
          /\ operator' \in Operators /\ rows' = <<>>
      BY <1>15 DEF BeginReport, Goes, serverVars, setting, trialVars, turnVars
    <2>2. rows' \in Seq({}) /\ Len(rows') <= NDirs
      BY <2>1, TrialsGiven DEF TrialsAssumption
    <2>3. RunnerTyped'
      BY <2>1, <2>2 DEF TypeInv, RunnerTyped, RunnerSteps
    <2>4. QED
      BY <1>1, <1>2, <2>1, <2>3
  <1>16. CASE ReportTrial
    <2>1. /\ UNCHANGED <<now, call, store, serves, dirOf, records, boundaries, turns>>
          /\ runner' \in {runner, "idle"} /\ UNCHANGED <<working, position, operator>>
          /\ rows' = <<>> \/ \E row : rows' = Append(rows, row)
          /\ Len(rows) + 1 \in Dirs
      BY <1>16 DEF ReportTrial, Goes, serverVars, setting, trialVars, turnVars
    <2>2. (\E S : rows' \in Seq(S)) /\ Len(rows') <= NDirs
      <3>1. CASE rows' = <<>>
        <4>1. rows' \in Seq({}) /\ Len(rows') <= NDirs
          BY <3>1, TrialsGiven DEF TrialsAssumption
        <4>2. QED
          BY <4>1
      <3>2. ASSUME NEW row, rows' = Append(rows, row)
            PROVE  (\E S : rows' \in Seq(S)) /\ Len(rows') <= NDirs
        <4>1. PICK S : rows \in Seq(S)
          BY DEF TypeInv, RunnerTyped
        <4>2. rows' \in Seq(S \cup {row}) /\ Len(rows') = Len(rows) + 1
          BY <3>2, <4>1, AppendIsLonger
        <4>3. Len(rows) + 1 <= NDirs
          BY <2>1, TrialsGiven DEF Dirs, TrialsAssumption
        <4>4. QED
          BY <4>2, <4>3
      <3>3. QED
        BY <2>1, <3>1, <3>2
    <2>3. RunnerTyped'
      BY <2>1, <2>2 DEF TypeInv, RunnerTyped, RunnerSteps
    <2>4. QED
      BY <1>1, <1>2, <2>1, <2>3
  <1>17. CASE WriteReport
    <2>1. /\ UNCHANGED <<now, call, store, serves, dirOf, records, boundaries, turns>>
          /\ runner' = "reported" /\ UNCHANGED <<working, position, operator, rows>>
      BY <1>17 DEF WriteReport, Goes, serverVars, setting, trialVars, turnVars, reportVars
    <2>2. QED
      BY <1>1, <1>2, <1>3, <2>1 DEF RunnerSteps
  <1>18. CASE UNCHANGED vars
    BY <1>18 DEF vars, serverVars, setting, evalVars, trialVars, turnVars, reportVars, TypeInv,
                 ServesTyped, StoresTyped, CallsTimed, RecordsNumbered, TurnsMatch, RunnerTyped
  <1>19. QED
    BY <1>4, <1>5, <1>6, <1>7, <1>8, <1>9, <1>10, <1>11, <1>12, <1>13, <1>14, <1>15, <1>16,
       <1>17, <1>18 DEF Next

LEMMA AlwaysTypeInv == Spec => []TypeInv
  BY InitGrantInv, NextGrantInv, InitTypeInv, NextTypeInv, PTL DEF Spec

(* Every variable keeps its type, whoever calls, crashes and reports.      *)
THEOREM TypesKept == Spec => []TypeOK
  <1>1. GrantInv /\ TypeInv /\ ReportInv => TypeOK
    <2> SUFFICES ASSUME GrantInv, TypeInv, ReportInv PROVE TypeOK
      OBVIOUS
    <2>1. /\ host \in Hosts /\ now \in Nat /\ current \in StoreIds
          /\ \A s \in StoreIds : store[s].gen \in Nat /\ dirOf[s] \in Dirs \cup {NoDir}
      BY DEF GrantInv, TrialsInOrder, TypeInv, CallsTimed, StoresTyped
    <2>2. \A w \in Workers :
             /\ call[w].pc \in Steps \cup {"idle"} /\ call[w].as \in Callers
             /\ call[w].took \in Nat
      BY DEF TypeInv, CallsTimed
    <2>3. /\ \A i \in DOMAIN records : records[i].seq = i
          /\ Len(boundaries) = Len(turns)
      BY DEF TypeInv, RecordsNumbered, TurnsMatch
    <2>4. /\ runner \in RunnerSteps /\ working \in Dirs \cup {NoDir} /\ position \in Nat
          /\ operator \in Operators \cup {"unchecked"} /\ Len(rows) <= NDirs
      BY DEF TypeInv, RunnerTyped
    <2>5. ASSUME NEW d \in Dirs, NEW file \in DOMAIN disk[d] \ {"raced"}
          PROVE  /\ disk[d][file].is \in {"absent", "whole", "torn"}
                 /\ disk[d][file].at \in 0 .. now
      <3>1. FilesAreDated(disk[d], now)
        BY DEF ReportInv, DirsAreGood, GoodDir
      <3>2. file \in DumpedFiles \cup {"grade"}
        BY <3>1 DEF FilesAreDated, DirFields
      <3>3. QED
        BY <3>1, <3>2 DEF FilesAreDated
    <2>6. QED
      BY <2>1, <2>2, <2>3, <2>4, <2>5 DEF TypeOK, Steps, Callers, RunnerSteps
  <1>2. QED
    BY <1>1, AlwaysGrantInv, AlwaysTypeInv, InitReportInv, NextReportInv, PTL DEF Spec

---------------------------------------------------------------------------
(* Turns and times.  A set of natural numbers has a least element, so a    *)
(* tag is the first of the turns that ended after the call started.        *)
LEMMA Least ==
  ASSUME NEW S \in SUBSET Nat, S # {}
  PROVE  \E m \in S : \A n \in S : m <= n
  <1> DEFINE R == OpToRel(<, Nat)
  <1>1. IsWellFoundedOn(R, Nat)
    BY NatLessThanWellFounded
  <1>2. \A x \in Nat, y \in Nat : y < x => <<y, x>> \in R
    BY DEF OpToRel
  <1> HIDE DEF R
  <1>3. \E x \in S : \A y \in S : ~ (<<y, x>> \in R)
    BY <1>1, WFMin
  <1>4. PICK x \in S : \A y \in S : ~ (<<y, x>> \in R)
    BY <1>3
  <1>5. \A y \in S : ~ (y < x)
    BY <1>2, <1>4, Zenon
  <1>6. ASSUME NEW y \in S PROVE x <= y
    <2>1. x \in Nat /\ y \in Nat
      BY <1>4
    <2>2. ~ (y < x)
      BY <1>5
    <2>3. QED
      BY <2>1, <2>2
  <1>7. QED
    BY <1>4, <1>6, Zenon

LEMMA TagIsFirst ==
  ASSUME NEW S, NEW ends \in Seq(S), NEW started
  PROVE  LET later == {i \in DOMAIN ends : started < ends[i].at}
             k == TagIndex(ends, started)
         IN IF later = {} THEN k = 0
            ELSE k # 0 /\ k \in later /\ \A j \in later : k <= j
  <1> DEFINE later == {i \in DOMAIN ends : started < ends[i].at}
             k == TagIndex(ends, started)
  <1>1. CASE later = {}
    BY <1>1 DEF TagIndex
  <1>2. CASE later # {}
    <2>1. later \in SUBSET Nat /\ 0 \notin later
      OBVIOUS
    <2>2. \E i \in later : \A j \in later : i <= j
      BY <1>2, <2>1, Least
    <2>3. k = CHOOSE i \in later : \A j \in later : i <= j
      BY <1>2 DEF TagIndex
    <2> HIDE DEF later, k
    <2>4. k \in later /\ \A j \in later : k <= j
      BY <2>2, <2>3
    <2>5. QED
      BY <1>2, <2>1, <2>4 DEF later, k
  <1>3. QED
    BY <1>1, <1>2

(* A turn the runner had recorded, or was recording, when a call was made  *)
(* ended no later than the call began, and a record's times are no earlier *)
(* than its call's; an answer the agent had seen was recorded before.      *)
TurnsAreDated ==
  /\ attempts \in Nat /\ atMs \in Nat /\ atMs <= now
  /\ \A k \in DOMAIN boundaries :
        boundaries[k].at \in Nat /\ boundaries[k].at <= now

(* Of one call or record: when it started, and what came before.           *)
FollowsTurns(asked, start) ==
  /\ asked \in Nat /\ asked <= attempts
  /\ attempts <= asked => atMs <= start
  /\ \A k \in DOMAIN boundaries :
        boundaries[k].attempt <= asked => boundaries[k].at <= start

FollowsAnswers(knew, start) ==
  /\ knew \subseteq AnsweredIds
  /\ \A i \in DOMAIN records : records[i].id \in knew => records[i].completed <= start

CallsFollow ==
  \A w \in Workers :
     call[w].pc # "idle" => /\ FollowsTurns(call[w].asked, call[w].began)
                           /\ FollowsAnswers(call[w].knew, call[w].began)

RecordsFollow ==
  \A j \in DOMAIN records :
     LET r == records[j]
     IN /\ r.started \in Nat /\ r.completed \in Nat
        /\ r.started <= r.completed /\ r.completed <= now
        /\ FollowsTurns(r.asked, r.started) /\ FollowsAnswers(r.knew, r.started)

AttemptsGiven ==
  \A k \in DOMAIN boundaries : boundaries[k].attempt \in Nat

(* The calls answered when a turn was recorded had completed by then.       *)
TurnsHeard ==
  /\ FollowsAnswers(heard, atMs)
  /\ \A k \in DOMAIN boundaries : FollowsAnswers(boundaries[k].heard, boundaries[k].at)

TimesInv == TurnsAreDated /\ AttemptsGiven /\ CallsFollow /\ RecordsFollow /\ TurnsHeard

LEMMA CallsKeepTimes ==
  ASSUME GrantInv, TypeInv, RecordInv, TimesInv, NEW w \in Workers,
         AgentCall(w) \/ (AdopterCall(w) /\ UNCHANGED evalVars)
  PROVE  TimesInv'
  <1>1. /\ \A v \in Workers \ {w} : call'[v] = call[v]
        /\ Begins(w) \/ GoesOn(w) \/ Leaves(w)
        /\ UNCHANGED <<now, attempts, atMs, heard, boundaries>>
    <2>1. /\ \A v \in Workers \ {w} : call'[v] = call[v]
          /\ Begins(w) \/ GoesOn(w) \/ Leaves(w)
      BY CallsTakeSteps DEF GrantInv, TrialsInOrder, TypeInv
    <2>2. UNCHANGED <<setting, evalVars>>
      BY CallsTakeSteps DEF GrantInv, TrialsInOrder, TypeInv
    <2>3. QED
      BY <2>1, <2>2 DEF setting, evalVars, trialVars, turnVars
  <1>2. TurnsAreDated' /\ AttemptsGiven'
    BY <1>1 DEF TimesInv, TurnsAreDated, AttemptsGiven
  <1>3. ASSUME NEW asked, NEW start, FollowsTurns(asked, start)
        PROVE  FollowsTurns(asked, start)'
    BY <1>1, <1>3 DEF FollowsTurns
  <1>4. CASE UNCHANGED records /\ AnsweredIds \subseteq AnsweredIds'
    <2>1. ASSUME NEW knew, NEW start, FollowsAnswers(knew, start)
          PROVE  FollowsAnswers(knew, start)'
      BY <1>4, <2>1 DEF FollowsAnswers
    <2>2. RecordsFollow'
      BY <1>1, <1>3, <1>4, <2>1 DEF TimesInv, RecordsFollow
    <2>3. call'[w].pc # "idle" => /\ FollowsTurns(call[w].asked, call[w].began)'
                                  /\ FollowsAnswers(call[w].knew, call[w].began)'
      <3>1. CASE Begins(w)
        <4>1. FollowsTurns(call'[w].asked, now)
          <5>1. call'[w].asked \in Nat /\ call'[w].asked <= attempts
            BY <3>1 DEF Begins, TimesInv, TurnsAreDated
          <5>2. QED
            BY <5>1 DEF FollowsTurns, TimesInv, TurnsAreDated
        <4>2. FollowsAnswers(call'[w].knew, now)
          BY <3>1 DEF Begins, FollowsAnswers, TimesInv, RecordsFollow
        <4>3. call'[w].began = now
          BY <3>1 DEF Begins
        <4>4. QED
          BY <1>3, <2>1, <4>1, <4>2, <4>3
      <3>2. CASE GoesOn(w)
        <4>1. /\ call'[w].asked = call[w].asked /\ call'[w].began = call[w].began
              /\ call'[w].knew = call[w].knew /\ call[w].pc # "idle"
          BY <3>2 DEF GoesOn, Endured, Steps
        <4>2. /\ FollowsTurns(call[w].asked, call[w].began)
              /\ FollowsAnswers(call[w].knew, call[w].began)
          BY <4>1 DEF TimesInv, CallsFollow
        <4>3. QED
          BY <1>3, <2>1, <4>1, <4>2
      <3>3. CASE Leaves(w)
        BY <3>3 DEF Leaves, Idle
      <3>4. QED
        BY <1>1, <3>1, <3>2, <3>3
    <2>4. ASSUME NEW v \in Workers \ {w}, call'[v].pc # "idle"
          PROVE  /\ FollowsTurns(call[v].asked, call[v].began)'
                 /\ FollowsAnswers(call[v].knew, call[v].began)'
      <3>1. call'[v] = call[v]
        BY <1>1
      <3>2. /\ FollowsTurns(call[v].asked, call[v].began)
            /\ FollowsAnswers(call[v].knew, call[v].began)
        BY <2>4, <3>1 DEF TimesInv, CallsFollow
      <3>3. QED
        BY <1>3, <2>1, <3>1, <3>2
    <2>5. CallsFollow'
      BY <2>3, <2>4 DEF CallsFollow
    <2>6. TurnsHeard'
      BY <1>1, <2>1 DEF TimesInv, TurnsHeard
    <2>7. QED
      BY <1>2, <2>2, <2>5, <2>6 DEF TimesInv
  <1>5. CASE /\ GoesOn(w) /\ call[w].pc = "observe"
             /\ records' = Append(records, RecordOf(w))
    <2>0. PICK r : r = RecordOf(w)
      OBVIOUS
    <2>1. /\ r.id = call[w].id /\ r.started = now - call[w].took /\ r.completed = now
          /\ r.asked = call[w].asked /\ r.knew = call[w].knew
      BY <2>0 DEF RecordOf
    <2>2. PICK S : records \in Seq(S)
      BY DEF RecordInv, RecordsAreAList
    <2>3. /\ DOMAIN records = 1 .. Len(records)
          /\ DOMAIN records' = 1 .. Len(records) + 1 /\ Len(records) \in Nat
          /\ records'[Len(records) + 1] = r
          /\ \A i \in DOMAIN records : records'[i] = records[i]
      BY <1>5, <2>0, <2>2, AppendIsLonger
    <2>4. UNCHANGED answered /\ AnsweredIds' = AnsweredIds
      BY <1>5 DEF GoesOn, AnsweredIds
    <2>5. r.id \notin AnsweredIds
      BY <1>5, <2>1 DEF RecordInv, NumbersAreOwn, AnsweredIds
    <2>6. ASSUME NEW knew, NEW start, FollowsAnswers(knew, start)
          PROVE  FollowsAnswers(knew, start)'
      <3>1. ASSUME NEW i \in DOMAIN records', records'[i].id \in knew
            PROVE  records'[i].completed <= start
        <4>1. CASE i = Len(records) + 1
          BY <2>3, <2>5, <2>6, <3>1, <4>1 DEF FollowsAnswers
        <4>2. CASE i # Len(records) + 1
          <5>1. i \in DOMAIN records
            BY <2>3, <4>2
          <5>2. QED
            BY <2>3, <2>6, <3>1, <5>1 DEF FollowsAnswers
        <4>3. QED
          BY <4>1, <4>2
      <3>2. QED
        BY <2>4, <2>6, <3>1 DEF FollowsAnswers
    <2>7. /\ call[w].began \in Nat /\ call[w].took \in Nat /\ now \in Nat
          /\ call[w].began + call[w].took <= now
      BY DEF TypeInv, CallsTimed
    <2>8. /\ r.started \in Nat /\ r.completed \in Nat /\ r.started <= r.completed
          /\ r.completed <= now /\ call[w].began <= r.started
      BY <2>1, <2>7
    <2>9. /\ FollowsTurns(call[w].asked, call[w].began)
          /\ FollowsAnswers(call[w].knew, call[w].began)
      BY <1>5 DEF TimesInv, CallsFollow
    <2>10. FollowsTurns(r.asked, r.started)
      <3>1. /\ r.asked \in Nat /\ r.asked <= attempts
            /\ attempts <= r.asked => atMs <= call[w].began
            /\ \A k \in DOMAIN boundaries :
                  boundaries[k].attempt <= r.asked => boundaries[k].at <= call[w].began
        BY <2>1, <2>9 DEF FollowsTurns
      <3>2. /\ atMs \in Nat
            /\ \A k \in DOMAIN boundaries : boundaries[k].at \in Nat
        BY DEF TimesInv, TurnsAreDated
      <3>3. QED
        BY <2>7, <2>8, <3>1, <3>2 DEF FollowsTurns
    <2>11. FollowsAnswers(r.knew, r.started)
      <3>1. /\ r.knew \subseteq AnsweredIds
            /\ \A i \in DOMAIN records :
                  records[i].id \in r.knew => records[i].completed <= call[w].began
        BY <2>1, <2>9 DEF FollowsAnswers
      <3>2. \A i \in DOMAIN records : records[i].completed \in Nat
        BY DEF TimesInv, RecordsFollow
      <3>3. QED
        BY <2>7, <2>8, <3>1, <3>2 DEF FollowsAnswers
    <2>12. RecordsFollow'
      <3>1. ASSUME NEW j \in DOMAIN records, NEW q, q = records[j]
            PROVE  /\ q.started \in Nat /\ q.completed \in Nat
                   /\ q.started <= q.completed /\ q.completed <= now
                   /\ FollowsTurns(q.asked, q.started)' /\ FollowsAnswers(q.knew, q.started)'
        <4>1. /\ q.started \in Nat /\ q.completed \in Nat
              /\ q.started <= q.completed /\ q.completed <= now
              /\ FollowsTurns(q.asked, q.started) /\ FollowsAnswers(q.knew, q.started)
          BY <3>1 DEF TimesInv, RecordsFollow
        <4>2. QED
          BY <1>3, <2>6, <4>1
      <3>2. /\ FollowsTurns(r.asked, r.started)' /\ FollowsAnswers(r.knew, r.started)'
        BY <1>3, <2>6, <2>10, <2>11
      <3>3. \A j \in DOMAIN records' : j \in DOMAIN records \/ j = Len(records) + 1
        BY <2>3
      <3>4. QED
        BY <1>1, <2>3, <2>8, <3>1, <3>2, <3>3 DEF RecordsFollow
    <2>13. CallsFollow'
      <3>1. ASSUME NEW v \in Workers, call'[v].pc # "idle"
            PROVE  /\ FollowsTurns(call[v].asked, call[v].began)'
                   /\ FollowsAnswers(call[v].knew, call[v].began)'
        <4>1. /\ call'[v].asked = call[v].asked /\ call'[v].began = call[v].began
              /\ call'[v].knew = call[v].knew /\ call[v].pc # "idle"
          BY <1>1, <1>5, <3>1 DEF GoesOn, Endured, Steps
        <4>2. /\ FollowsTurns(call[v].asked, call[v].began)
              /\ FollowsAnswers(call[v].knew, call[v].began)
          BY <4>1 DEF TimesInv, CallsFollow
        <4>3. QED
          BY <1>3, <2>6, <4>1, <4>2
      <3>2. QED
        BY <3>1 DEF CallsFollow
    <2>14. TurnsHeard'
      BY <1>1, <2>6 DEF TimesInv, TurnsHeard
    <2>15. QED
      BY <1>2, <2>12, <2>13, <2>14 DEF TimesInv
  <1>6. QED
    <2>1. Begins(w) \/ Leaves(w) => UNCHANGED records /\ AnsweredIds \subseteq AnsweredIds'
      BY DEF Begins, Leaves, AnsweredIds
    <2>2. GoesOn(w) => AnsweredIds \subseteq AnsweredIds'
      BY DEF GoesOn, AnsweredIds
    <2>3. QED
      BY <1>1, <1>4, <1>5, <2>1, <2>2 DEF GoesOn

LEMMA InitTimesInv == Init => TimesInv
  <1> SUFFICES ASSUME Init PROVE TimesInv
    OBVIOUS
  <1>1. /\ now = 0 /\ attempts = 0 /\ atMs = 0 /\ heard = {}
        /\ DOMAIN records = {} /\ DOMAIN boundaries = {}
        /\ \A w \in Workers : call[w].pc = "idle"
    BY DEF Init, ServerInit, Idle
  <1>2. QED
    BY <1>1 DEF TimesInv, TurnsAreDated, AttemptsGiven, CallsFollow, RecordsFollow,
                TurnsHeard, FollowsAnswers

LEMMA NewTrialTimes ==
  ASSUME TimesInv, NEW st, NEW identity, NEW d, StartTrial(st, identity, d),
         UNCHANGED <<now, answered, attempts, atMs, heard>>,
         call' = call \/ call' = [w \in Workers |-> Idle]
  PROVE  TimesInv'
  <1>1. DOMAIN records' = {} /\ DOMAIN boundaries' = {}
    BY DEF StartTrial
  <1>2. AnsweredIds' = AnsweredIds /\ Idle.pc = "idle"
    BY DEF AnsweredIds, Idle
  <1>3. TurnsAreDated' /\ AttemptsGiven' /\ RecordsFollow'
    BY <1>1 DEF TimesInv, TurnsAreDated, AttemptsGiven, RecordsFollow
  <1>4. CallsFollow'
    BY <1>1, <1>2 DEF TimesInv, CallsFollow, FollowsTurns, FollowsAnswers
  <1>5. TurnsHeard'
    BY <1>1, <1>2 DEF TimesInv, TurnsHeard, FollowsAnswers
  <1>6. QED
    BY <1>3, <1>4, <1>5 DEF TimesInv

LEMMA NextTimesInv == GrantInv /\ TypeInv /\ RecordInv /\ TimesInv /\ [Next]_vars => TimesInv'
  <1> SUFFICES ASSUME GrantInv, TypeInv, RecordInv, TimesInv, [Next]_vars PROVE TimesInv'
    OBVIOUS
  <1>0. now \in Nat
    BY DEF TypeInv, CallsTimed
  <1>1. ASSUME UNCHANGED <<now, call, records, answered, boundaries, attempts, atMs, heard>>
        PROVE  TimesInv'
    BY <1>1 DEF TimesInv, TurnsAreDated, AttemptsGiven, CallsFollow, RecordsFollow,
                TurnsHeard, FollowsTurns, FollowsAnswers, AnsweredIds
  <1>2. CASE Tick
    <2>1. /\ now' = now + 1 /\ UNCHANGED <<call, records, answered>>
          /\ UNCHANGED <<boundaries, attempts, atMs, heard>>
      BY <1>2 DEF Tick, evalVars, trialVars, turnVars
    <2>2. TurnsAreDated'
      BY <1>0, <2>1 DEF TimesInv, TurnsAreDated
    <2>3. AttemptsGiven' /\ CallsFollow' /\ TurnsHeard'
      BY <2>1 DEF TimesInv, AttemptsGiven, CallsFollow, TurnsHeard, FollowsTurns,
                  FollowsAnswers, AnsweredIds
    <2>4. ASSUME NEW j \in DOMAIN records, records[j].completed <= now,
                 records[j].completed \in Nat
          PROVE  records[j].completed <= now'
      BY <1>0, <2>1, <2>4
    <2>5. RecordsFollow'
      BY <2>1, <2>4 DEF TimesInv, RecordsFollow, FollowsTurns, FollowsAnswers, AnsweredIds
    <2>6. QED
      BY <2>2, <2>3, <2>5 DEF TimesInv
  <1>3. ASSUME NEW w \in Workers, AgentCall(w) \/ (AdopterCall(w) /\ UNCHANGED evalVars)
        PROVE  TimesInv'
    BY <1>3, CallsKeepTimes
  <1>4. CASE RejectUnbound /\ UNCHANGED evalVars
    <2>1. /\ UNCHANGED <<now, call, records, boundaries, attempts, atMs, heard>>
          /\ AnsweredIds \subseteq AnsweredIds'
      BY <1>4 DEF RejectUnbound, setting, evalVars, trialVars, turnVars, AnsweredIds
    <2>2. QED
      BY <2>1 DEF TimesInv, TurnsAreDated, AttemptsGiven, CallsFollow, RecordsFollow,
                  TurnsHeard, FollowsTurns, FollowsAnswers
  <1>5. ASSUME NEW d \in Dirs, Reset(d) PROVE TimesInv'
    <2>1. /\ StartTrial(Seeded(d), Scenario[d].identity, d) /\ call' = call
          /\ UNCHANGED <<now, answered, attempts, atMs, heard>>
      BY <1>5 DEF Reset
    <2>2. QED
      BY <2>1, NewTrialTimes
  <1>6. CASE Crash
    <2>1. /\ StartTrial(EmptyStore, host.bound, NoDir)
          /\ call' = [w \in Workers |-> Idle]
          /\ UNCHANGED <<now, answered, attempts, atMs, heard>>
      BY <1>6 DEF Crash, turnVars
    <2>2. QED
      BY <2>1, NewTrialTimes
  <1>7. CASE RecordTurn
    <2>1. /\ UNCHANGED <<now, call, records, answered, boundaries>>
          /\ attempts' = attempts + 1 /\ atMs' = now /\ heard' = AnsweredIds
      BY <1>7 DEF RecordTurn, serverVars, setting, trialVars, AnsweredIds
    <2>2. TurnsAreDated' /\ AttemptsGiven'
      BY <1>0, <2>1 DEF TimesInv, TurnsAreDated, AttemptsGiven
    <2>3. ASSUME NEW asked, NEW start, FollowsTurns(asked, start)
          PROVE  FollowsTurns(asked, start)'
      <3>1. asked \in Nat /\ asked <= attempts /\ attempts \in Nat
        BY <2>3 DEF FollowsTurns, TimesInv, TurnsAreDated
      <3>2. asked <= attempts' /\ ~(attempts' <= asked)
        BY <2>1, <3>1
      <3>3. QED
        BY <2>1, <2>3, <3>1, <3>2 DEF FollowsTurns
    <2>4. ASSUME NEW knew, NEW start, FollowsAnswers(knew, start)
          PROVE  FollowsAnswers(knew, start)'
      BY <2>1, <2>4 DEF FollowsAnswers, AnsweredIds
    <2>5. CallsFollow' /\ RecordsFollow'
      BY <2>1, <2>3, <2>4 DEF TimesInv, CallsFollow, RecordsFollow
    <2>6. FollowsAnswers(heard, atMs)'
      <3>1. AnsweredIds' = AnsweredIds
        BY <2>1 DEF AnsweredIds
      <3>2. \A i \in DOMAIN records : records[i].completed <= now
        BY DEF TimesInv, RecordsFollow
      <3>3. QED
        BY <2>1, <3>1, <3>2 DEF FollowsAnswers
    <2>7. TurnsHeard'
      BY <2>1, <2>4, <2>6 DEF TimesInv, TurnsHeard
    <2>8. QED
      BY <2>2, <2>5, <2>7 DEF TimesInv
  <1>8. CASE ReplyFound
    <2>1. /\ UNCHANGED <<now, call, records, answered, attempts, atMs, heard>>
          /\ boundaries' = Append(boundaries, TurnEnd(atMs))
      BY <1>8 DEF ReplyFound, KeepReply, serverVars, setting, turnVars
    <2> DEFINE end == TurnEnd(atMs)
    <2>2. end.at = atMs /\ end.attempt = attempts /\ end.heard = heard
      BY DEF TurnEnd
    <2> HIDE DEF end
    <2>3. PICK S : boundaries \in Seq(S)
      BY DEF TypeInv, TurnsMatch
    <2>4. /\ DOMAIN boundaries = 1 .. Len(boundaries) /\ Len(boundaries) \in Nat
          /\ DOMAIN boundaries' = 1 .. Len(boundaries) + 1
          /\ boundaries'[Len(boundaries) + 1] = end
          /\ \A k \in DOMAIN boundaries : boundaries'[k] = boundaries[k]
      BY <2>1, <2>3, AppendIsLonger DEF end
    <2>5. \A k \in DOMAIN boundaries' :
             \/ k \in DOMAIN boundaries /\ boundaries'[k] = boundaries[k]
             \/ /\ boundaries'[k].at = atMs /\ boundaries'[k].attempt = attempts
                /\ boundaries'[k].heard = heard
      <3>1. \A k \in DOMAIN boundaries' : k \in DOMAIN boundaries \/ k = Len(boundaries) + 1
        BY <2>4
      <3>2. QED
        BY <2>2, <2>4, <3>1
    <2>6. TurnsAreDated' /\ AttemptsGiven'
      BY <2>1, <2>5 DEF TimesInv, TurnsAreDated, AttemptsGiven
    <2>7. ASSUME NEW asked, NEW start, FollowsTurns(asked, start)
          PROVE  FollowsTurns(asked, start)'
      BY <2>1, <2>5, <2>7 DEF FollowsTurns
    <2>8. ASSUME NEW knew, NEW start, FollowsAnswers(knew, start)
          PROVE  FollowsAnswers(knew, start)'
      BY <2>1, <2>8 DEF FollowsAnswers, AnsweredIds
    <2>9. CallsFollow' /\ RecordsFollow'
      BY <2>1, <2>7, <2>8 DEF TimesInv, CallsFollow, RecordsFollow
    <2>10. TurnsHeard'
      BY <2>1, <2>5, <2>8 DEF TimesInv, TurnsHeard
    <2>11. QED
      BY <2>6, <2>9, <2>10 DEF TimesInv
  <1>9. ASSUME NEW d \in Dirs, GradeTrial(d) PROVE TimesInv'
    BY <1>1, <1>9 DEF GradeTrial, serverVars, setting, trialVars, turnVars
  <1>10. CASE WriteTranscript \/ ReplyUnavailable
    BY <1>1, <1>10 DEF WriteTranscript, ReplyUnavailable, serverVars, setting, trialVars,
                       turnVars
  <1>11. CASE BeginDump \/ ListScope \/ ReadFile \/ AllRead \/ WriteDump
    BY <1>1, <1>11 DEF BeginDump, ListScope, ReadFile, AllRead, WriteDump, serverVars, setting,
                       trialVars, turnVars
  <1>12. CASE BeginReport \/ ReportTrial \/ WriteReport
    BY <1>1, <1>12 DEF BeginReport, ReportTrial, WriteReport, serverVars, setting, trialVars,
                       turnVars
  <1>13. CASE UNCHANGED vars
    BY <1>1, <1>13 DEF vars, serverVars, setting, evalVars, trialVars, turnVars
  <1>14. QED
    BY <1>2, <1>3, <1>4, <1>5, <1>6, <1>7, <1>8, <1>9, <1>10, <1>11, <1>12, <1>13 DEF Next

(* A call's tag is the first turn that ended after it started, and a call  *)
(* answered by the end of a turn started no later.                         *)
LEMMA TagsTellTurns ==
  ASSUME TypeInv, TimesInv
  PROVE  CallsAreInTheirTurns
  <1> SUFFICES ASSUME NEW i \in DOMAIN records
               PROVE  LET r == records[i]
                          k == TagIndex(boundaries, r.started)
                      IN /\ k # 0 => boundaries[k].attempt > r.asked
                         /\ \A j \in DOMAIN boundaries :
                               r.id \in boundaries[j].heard =>
                                  (k # 0 /\ k <= j) \/ r.started = boundaries[j].at
    BY DEF CallsAreInTheirTurns
  <1>1. PICK r : r = records[i]
    OBVIOUS
  <1>2. /\ r.started \in Nat /\ r.completed \in Nat /\ r.started <= r.completed
        /\ FollowsTurns(r.asked, r.started)
    BY <1>1 DEF TimesInv, RecordsFollow
  <1> DEFINE later == {j \in DOMAIN boundaries : r.started < boundaries[j].at}
             k == TagIndex(boundaries, r.started)
  <1>3. PICK S : boundaries \in Seq(S)
    BY DEF TypeInv, TurnsMatch
  <1>4. IF later = {} THEN k = 0
        ELSE k # 0 /\ k \in later /\ \A j \in later : k <= j
    BY <1>3, TagIsFirst
  <1>5. \A j \in later : j \in DOMAIN boundaries /\ r.started < boundaries[j].at
    OBVIOUS
  <1>6. \A j \in DOMAIN boundaries :
           /\ boundaries[j].at \in Nat /\ boundaries[j].attempt \in Nat
           /\ r.started < boundaries[j].at => j \in later
    BY DEF TimesInv, TurnsAreDated, AttemptsGiven
  <1> HIDE DEF later, k
  <1>7. ASSUME k # 0 PROVE boundaries[k].attempt > r.asked
    <2>1. k \in DOMAIN boundaries /\ r.started < boundaries[k].at
      BY <1>4, <1>5, <1>7
    <2>2. /\ r.asked \in Nat
          /\ boundaries[k].attempt <= r.asked => boundaries[k].at <= r.started
      BY <1>2, <2>1 DEF FollowsTurns
    <2>3. boundaries[k].at \in Nat /\ boundaries[k].attempt \in Nat
      BY <1>6, <2>1
    <2>4. QED
      BY <1>2, <2>1, <2>2, <2>3
  <1>8. ASSUME NEW j \in DOMAIN boundaries, r.id \in boundaries[j].heard,
               r.started # boundaries[j].at
        PROVE  k # 0 /\ k <= j
    <2>1. boundaries[j].at \in Nat /\ r.completed <= boundaries[j].at
      BY <1>1, <1>6, <1>8 DEF TimesInv, TurnsHeard, FollowsAnswers
    <2>2. r.started < boundaries[j].at
      BY <1>2, <1>8, <2>1
    <2>3. j \in later
      BY <1>6, <2>2
    <2>4. QED
      BY <1>4, <2>3
  <1>9. QED
    BY <1>1, <1>7, <1>8 DEF k

(* The index read whose answer every other call of the session waited for  *)
(* had completed before each of them started.                              *)
LEMMA PatienceIsRead ==
  ASSUME TimesInv
  PROVE  PatientAgentsPass
  <1> DEFINE trace == TraceOf(records, boundaries)
  <1>1. /\ DOMAIN trace = DOMAIN records
        /\ \A i \in DOMAIN records :
              /\ trace[i].started = records[i].started
              /\ trace[i].completed = records[i].completed
    BY DEF TraceOf
  <1> HIDE DEF trace
  <1>2. SUFFICES ASSUME NEW s, NEW i \in DOMAIN trace,
                        trace[i].session = s, trace[i].tool = IndexTool,
                        \A j \in DOMAIN trace :
                           trace[j].session = s =>
                             trace[j].tool = IndexTool \/ records[i].id \in records[j].knew
                 PROVE  IndexReadFirst(trace, s)
    BY DEF PatientAgentsPass, trace
  <1>3. ASSUME NEW j \in DOMAIN trace, trace[j].session = s, trace[j].tool # IndexTool
        PROVE  trace[i].completed <= trace[j].started
    <2>1. records[i].id \in records[j].knew
      BY <1>2, <1>3
    <2>2. FollowsAnswers(records[j].knew, records[j].started)
      BY <1>1 DEF TimesInv, RecordsFollow
    <2>3. records[i].completed <= records[j].started
      BY <1>1, <2>1, <2>2 DEF FollowsAnswers
    <2>4. QED
      BY <1>1, <2>3
  <1>4. QED
    BY <1>2, <1>3 DEF IndexReadFirst

(* Traces do not lie about the turns of the calls that were answered when  *)
(* a turn was recorded, nor about times, for any clock, number of workers, *)
(* turns and trials, and however late replies are found.  A call that was  *)
(* not answered yet may be given a later turn than its own: its start is   *)
(* counted back from its record's arrival.                                 *)
THEOREM TracesTell == Spec => []TraceTellsWhatHappened
  <1>1. TypeInv /\ TimesInv => TraceTellsWhatHappened
    BY TagsTellTurns, PatienceIsRead DEF TraceTellsWhatHappened
  <1>2. QED
    BY <1>1, AlwaysGrantInv, AlwaysTypeInv, InitRecordInv, NextRecordInv, InitTimesInv,
       NextTimesInv, PTL DEF Spec

---------------------------------------------------------------------------
(* Dumps.  What a recorded call of a trial wrote is shown by the trial's   *)
(* store from then on: under the trial's own identity, at that generation  *)
(* or a later one.                                                         *)
GrantedPath(s, path) ==
  /\ path.scope \in DOMAIN Identities[serves[s]]
  /\ path.entity = Identities[serves[s]][path.scope].entity

Stored(s, e) == \E f \in store[s].files : f.path = e.path /\ f.gen >= e.gen

Shown(s, e) == e.gen \in Nat /\ GrantedPath(s, e.path) /\ Stored(s, e)

StoresAreOrdered ==
  \A s \in StoreIds : \A f \in store[s].files : f.gen \in Nat /\ f.gen <= store[s].gen

(* A call of the trial in progress, from its dispatch to its observer.     *)
InPlace(w) ==
  call[w].home = current =>
    /\ call[w].pc \in {"dispatch", "client"} => call[w].as = serves[current]
    /\ call[w].pc = "client" =>
         /\ call[w].store = current
         /\ Req(w).tool \in Mutations => GrantedPath(current, PathAt(w))
    /\ (call[w].pc = "observe" /\ call[w].wrote # 0) =>
         Shown(current, [path |-> PathAt(w), gen |-> call[w].wrote])

RecordsAreShown ==
  \A i \in DOMAIN records :
     records[i].home = current => \A e \in records[i].wrote : Shown(current, e)

(* While a dump reads: what its trace wrote is in a scope still to be      *)
(* listed, or a file still to be read, or read.                            *)
Accounted(e) ==
  \/ e.path.scope \in snap.scopes \/ e.path \in unread
  \/ \E f \in snap.files : f.path = e.path /\ f.gen >= e.gen

SnapFields == {"trial", "calls", "boundaries", "turns", "scopes", "files"}

DumpReads ==
  runner = "reading" =>
    /\ snap = [f \in SnapFields |-> snap[f]]
    /\ snap.trial \in StoreIds
    /\ \A i \in DOMAIN snap.calls :
          snap.calls[i].home = snap.trial =>
            \A e \in snap.calls[i].wrote : Shown(snap.trial, e) /\ Accounted(e)

DumpInv ==
  /\ StoresAreOrdered
  /\ host.evals => RecordsAreShown /\ \A w \in Workers : InPlace(w)
  /\ DumpReads
  /\ \E S : dumps \in Seq(S)
  /\ DumpAccountsForTrace

(* A store's later states show what its earlier ones did.                  *)
LEMMA StoresGrow ==
  ASSUME StoresTyped, StoresAreOrdered, NEW t, NEW path, NEW live \in BOOLEAN,
         \/ store' = store
         \/ store' = [store EXCEPT ![t] = Changed(store[t], path, live)]
  PROVE  /\ StoresAreOrdered'
         /\ \A s \in StoreIds : \A e : e.gen \in Nat /\ Stored(s, e) => Stored(s, e)'
  <1>1. CASE store' = store
    BY <1>1 DEF StoresAreOrdered, Stored
  <1>2. CASE store' = [store EXCEPT ![t] = Changed(store[t], path, live)]
    <2> DEFINE st == store[t]
               g == st.gen + 1
               new == Changed(st, path, live)
               mark == [path |-> path, gen |-> g, live |-> live]
    <2>1. new.gen = g /\ new.files = {f \in st.files : f.path # path} \cup {mark}
      BY DEF Changed
    <2>2. mark.path = path /\ mark.gen = g
      OBVIOUS
    <2>3. ASSUME NEW s \in StoreIds PROVE store'[s] = IF s = t THEN new ELSE store[s]
      BY <1>2 DEF StoresTyped
    <2>4. t \in StoreIds => /\ st.gen \in Nat
                             /\ \A f \in st.files : f.gen \in Nat /\ f.gen <= st.gen
      BY DEF StoresTyped, StoresAreOrdered
    <2> HIDE DEF mark, new, st
    <2>5. ASSUME NEW s \in StoreIds, NEW f \in store'[s].files
          PROVE  f.gen \in Nat /\ f.gen <= store'[s].gen
      <3>1. CASE s = t
        <4>1. f \in st.files \/ f = mark
          BY <2>1, <2>3, <2>5, <3>1
        <4>2. store'[s].gen = g
          BY <2>1, <2>3, <3>1
        <4>3. QED
          BY <2>2, <2>4, <3>1, <4>1, <4>2
      <3>2. CASE s # t
        BY <2>3, <2>5, <3>2 DEF StoresAreOrdered
      <3>3. QED
        BY <3>1, <3>2
    <2>6. ASSUME NEW s \in StoreIds, NEW e, e.gen \in Nat,
                 NEW f \in store[s].files, f.path = e.path, f.gen >= e.gen
          PROVE  \E h \in store'[s].files : h.path = e.path /\ h.gen >= e.gen
      <3>1. CASE s = t /\ f.path = path
        <4>1. mark \in store'[s].files
          BY <2>1, <2>3, <3>1
        <4>2. f.gen \in Nat /\ f.gen <= st.gen /\ st.gen \in Nat
          BY <2>4, <2>6, <3>1 DEF st
        <4>3. mark.gen >= e.gen
          BY <2>2, <2>6, <4>2
        <4>4. QED
          BY <2>2, <2>6, <3>1, <4>1, <4>3
      <3>2. CASE ~(s = t /\ f.path = path)
        <4>1. f \in store'[s].files
          BY <2>1, <2>3, <2>6, <3>2 DEF st
        <4>2. QED
          BY <2>6, <4>1
      <3>3. QED
        BY <3>1, <3>2
    <2>7. QED
      BY <2>5, <2>6 DEF StoresAreOrdered, Stored
  <1>3. QED
    BY <1>1, <1>2

LEMMA CallsGrowStores ==
  ASSUME TypeInv, StoresAreOrdered, NEW w \in Workers,
         AgentCall(w) \/ (AdopterCall(w) /\ UNCHANGED evalVars), UNCHANGED serves
  PROVE  /\ StoresAreOrdered'
         /\ \A s \in StoreIds : \A e : Shown(s, e) => Shown(s, e)'
  <1> DEFINE live == Req(w).tool # "delete_file"
             t == call[w].store
             path == PathAt(w)
  <1>1. \/ store' = store
        \/ store' = [store EXCEPT ![t] = Changed(store[t], path, live)]
    BY CallsChangeStores DEF Effect
  <1>2. live \in BOOLEAN
    OBVIOUS
  <1> HIDE DEF live, t, path
  <1>3. /\ StoresAreOrdered'
        /\ \A s \in StoreIds : \A e : e.gen \in Nat /\ Stored(s, e) => Stored(s, e)'
    BY <1>1, <1>2, StoresGrow DEF TypeInv
  <1>4. QED
    BY <1>3 DEF Shown, GrantedPath

LEMMA EndsWrites ==
  ASSUME CallsHaveFields, NEW w \in Workers, NEW outcome, NEW wrote,
         Ends(w, outcome, wrote)
  PROVE  call'[w].wrote = wrote
  <1> DEFINE pc == IF host.observer = "none" THEN "reply" ELSE "observe"
             took == now - call[w].began
             new == [call[w] EXCEPT !.pc = pc, !.outcome = outcome,
                                    !.wrote = wrote, !.took = took]
  <1>1. call' = [call EXCEPT ![w] = new] /\ call = [v \in Workers |-> call[v]]
    BY DEF Ends, CallsHaveFields
  <1>2. call[w] = [f \in CallFields |-> call[w][f]]
    BY DEF CallsHaveFields
  <1> HIDE DEF pc, took
  <1>3. new.wrote = wrote
    BY <1>2 DEF CallFields
  <1> HIDE DEF new
  <1>4. QED
    BY <1>1, <1>3

(* A refused, failed or answered call leaves nothing to show.              *)
LEMMA NothingToShow ==
  ASSUME NEW w \in Workers,
         \/ call'[w].pc \notin {"dispatch", "client", "observe"}
         \/ call'[w].pc = "observe" /\ call'[w].wrote = 0
  PROVE  InPlace(w)'
  BY DEF InPlace

LEMMA DispatchStaysInPlace ==
  ASSUME GrantInv, NEW w \in Workers, host.evals, InPlace(w), Dispatch(w)
  PROVE  InPlace(w)'
  <1> DEFINE refused == Refusal(Req(w), Grants(w))
  <1>1. call[w].pc = "dispatch" /\ UNCHANGED <<current, serves>> /\ CallsHaveFields
    BY DEF Dispatch, setting, GrantInv
  <1>2. CASE refused # NoError
    <2>1. Ends(w, Fails(refused), 0)
      BY <1>2 DEF Dispatch
    <2>2. call'[w].pc \in {"observe", "reply"} /\ call'[w].wrote = 0
      BY <1>1, <2>1, EndsKeepsFields, EndsWrites, SMTT(30)
    <2>3. QED
      BY <2>2, NothingToShow
  <1>3. CASE refused = NoError
    <2> DEFINE new == [call[w] EXCEPT !.pc = "client", !.store = current]
    <2>1. call' = [call EXCEPT ![w] = new]
      BY <1>3 DEF Dispatch
    <2>2. call[w] = [f \in CallFields |-> call[w][f]]
      BY <1>1 DEF CallsHaveFields
    <2>3. /\ new = [f \in CallFields |-> new[f]] /\ new.pc = "client" /\ new.store = current
          /\ \A f \in CallFields \ {"pc", "store"} : new[f] = call[w][f]
      BY <2>2 DEF CallFields
    <2> HIDE DEF new
    <2>4. call'[w] = new
      BY <1>1, <2>1, <2>3, OneCallChanges
    <2>5. /\ call'[w].pc = "client" /\ call'[w].store = current
          /\ call'[w].home = call[w].home /\ call'[w].req = call[w].req
          /\ call'[w].as = call[w].as
      BY <2>3, <2>4 DEF CallFields
    <2>6. ASSUME call[w].home = current, Req(w).tool \in Mutations
          PROVE  GrantedPath(current, PathAt(w))
      <3>1. call[w].req \in DOMAIN Requests /\ call[w].as = serves[current]
        BY <1>1, <2>6 DEF GrantInv, DispatchedAsServed, InPlace
      <3>2. \A t \in Targets(Req(w), Grants(w)) : MayReach(Grants(w), Req(w).tool, t)
        BY <1>3, <3>1, RefusalsProtect DEF Req
      <3>3. PathAt(w) \in Targets(Req(w), Grants(w))
        BY <2>6 DEF Targets, PathAt, Mutations
      <3>4. QED
        BY <3>1, <3>2, <3>3 DEF MayReach, GrantedPath, Grants
    <2>7. QED
      BY <1>1, <2>5, <2>6 DEF InPlace, Req, PathAt, Grants, GrantedPath
  <1>4. QED
    BY <1>2, <1>3

LEMMA ReturnStaysInPlace ==
  ASSUME GrantInv, TypeInv, NEW w \in Workers, InPlace(w), ClientReturns(w)
  PROVE  InPlace(w)'
  <1> DEFINE mutates == Req(w).tool \in Mutations
             s == call[w].store
             gen == IF mutates THEN store[s].gen + 1 ELSE 0
             outcome == Returns(Value(KindOf(Req(w).tool), EntryFields, gen))
  <1>1. /\ call[w].pc = "client" /\ UNCHANGED <<current, serves, host>>
        /\ store' = IF mutates THEN [store EXCEPT ![s] = Effect(w)] ELSE store
        /\ Ends(w, outcome, gen) /\ CallsHaveFields /\ current \in StoreIds
    BY DEF ClientReturns, setting, GrantInv, TrialsInOrder
  <1>2. /\ call'[w].pc \in {"observe", "reply"} /\ call'[w].home = call[w].home
        /\ call'[w].req = call[w].req /\ call'[w].as = call[w].as
    BY <1>1, EndsKeepsFields DEF CallFields
  <1>3. call'[w].wrote = gen
    BY <1>1, EndsWrites
  <1>4. CASE ~mutates
    BY <1>2, <1>3, <1>4, NothingToShow
  <1>5. CASE mutates /\ call[w].home = current
    <2>0. PICK path : path = PathAt(w)
      OBVIOUS
    <2>1. s = current /\ GrantedPath(current, path)
      BY <1>1, <1>5, <2>0 DEF InPlace
    <2>2. store[current].gen \in Nat /\ store'[current] = Effect(w)
      BY <1>1, <1>5, <2>1 DEF TypeInv, StoresTyped
    <2> DEFINE mark == [path |-> path, gen |-> gen, live |-> Req(w).tool # "delete_file"]
    <2>3. /\ mark.path = path /\ mark.gen = gen /\ gen = store[current].gen + 1
          /\ gen \in Nat /\ gen >= gen
      BY <1>5, <2>1, <2>2
    <2>4. mark \in store'[current].files
      BY <2>0, <2>1, <2>2, <2>3 DEF Effect, Changed
    <2> HIDE DEF mark
    <2>5. \E f \in store'[current].files : f.path = path /\ f.gen >= gen
      BY <2>3, <2>4
    <2>6. PathAt(w)' = path
      BY <1>2, <2>0 DEF PathAt, Req, Grants
    <2>7. Shown(current, [path |-> path, gen |-> call[w].wrote])'
      BY <1>1, <1>3, <2>1, <2>3, <2>5 DEF Shown, GrantedPath, Stored
    <2>8. QED
      BY <1>2, <2>6, <2>7 DEF InPlace
  <1>6. CASE call[w].home # current
    BY <1>1, <1>2, <1>6 DEF InPlace
  <1>7. QED
    BY <1>4, <1>5, <1>6

LEMMA CallsStayInPlace ==
  ASSUME GrantInv, TypeInv, StoresAreOrdered, NEW w \in Workers, host.evals,
         AgentCall(w), \A v \in Workers : InPlace(v)
  PROVE  \A v \in Workers : InPlace(v)'
  <1>0. /\ CallsHaveFields /\ UNCHANGED <<current, serves>> /\ current \in StoreIds
        /\ \A v \in Workers \ {w} : call'[v] = call[v]
    <2>1. UNCHANGED setting /\ \A v \in Workers \ {w} : call'[v] = call[v]
      BY CallsTakeSteps DEF GrantInv, TrialsInOrder, TypeInv
    <2>2. QED
      BY <2>1 DEF setting, GrantInv, TrialsInOrder
  <1>1. \A s \in StoreIds : \A e : Shown(s, e) => Shown(s, e)'
    BY <1>0, CallsGrowStores
  <1>2. ASSUME NEW v \in Workers \ {w} PROVE InPlace(v)'
    <2>1. /\ call'[v] = call[v] /\ InPlace(v)
          /\ Req(v)' = Req(v) /\ PathAt(v)' = PathAt(v)
      BY <1>0 DEF Req, PathAt, Grants
    <2>2. ASSUME NEW path, GrantedPath(current, path) PROVE GrantedPath(current, path)'
      BY <1>0, <2>2 DEF GrantedPath
    <2>3. ASSUME NEW e, Shown(current, e) PROVE Shown(current, e)'
      BY <1>0, <1>1, <2>3
    <2>4. QED
      BY <1>0, <2>1, <2>2, <2>3 DEF InPlace
  <1>3. InPlace(w)'
    <2>1. ASSUME NEW outcome, Ends(w, outcome, 0) PROVE InPlace(w)'
      <3>1. call'[w].pc \in {"observe", "reply"} /\ call'[w].wrote = 0
        BY <1>0, <2>1, EndsKeepsFields, EndsWrites
      <3>2. QED
        BY <3>1, NothingToShow
    <2>2. ASSUME NEW r \in host.requests, Receive(w, r, attempts) PROVE InPlace(w)'
      <3>1. Begins(w) /\ host.entry = "mcp"
        BY <2>2, BeginningStep, ServerGiven DEF GrantInv, TrialsInOrder, ServerAssumption
      <3>2. call'[w].pc = "credentials"
        BY <3>1 DEF Begins
      <3>3. QED
        BY <3>2, NothingToShow
    <2>3. ASSUME ReadCredentials(w) PROVE InPlace(w)'
      <3>1. Advance(w, "resolve")
        BY <2>3 DEF ReadCredentials
      <3>2. call'[w].pc = "resolve"
        BY <1>0, <3>1, AdvanceKeepsFields
      <3>3. QED
        BY <3>2, NothingToShow
    <2>4. ASSUME Resolve(w, serves[current]) PROVE InPlace(w)'
      <3>1. CASE serves[current] = Unresolved
        BY <2>1, <2>4, <3>1 DEF Resolve
      <3>2. CASE serves[current] # Unresolved
        <4> DEFINE new == [call[w] EXCEPT !.pc = "dispatch", !.as = serves[current]]
        <4>1. call' = [call EXCEPT ![w] = new]
          BY <2>4, <3>2 DEF Resolve
        <4>2. call[w] = [f \in CallFields |-> call[w][f]]
          BY <1>0 DEF CallsHaveFields
        <4>3. /\ new = [f \in CallFields |-> new[f]] /\ new.pc = "dispatch"
              /\ new.as = serves[current]
          BY <4>2 DEF CallFields
        <4> HIDE DEF new
        <4>4. call'[w] = new
          BY <1>0, <4>1, <4>3, OneCallChanges
        <4>5. QED
          BY <1>0, <4>3, <4>4 DEF InPlace
      <3>3. QED
        BY <3>1, <3>2
    <2>5. ASSUME ClientRaises(w) PROVE InPlace(w)'
      <3>1. \E outcome : Ends(w, outcome, 0)
        BY <2>5 DEF ClientRaises
      <3>2. QED
        BY <2>1, <3>1
    <2>6. ASSUME Notify(w) \/ Reply(w) PROVE InPlace(w)'
      <3>1. CASE Notify(w)
        <4>1. call'[w].pc = "reply"
          BY <1>0, <3>1, AdvanceKeepsFields DEF Notify
        <4>2. QED
          BY <4>1, NothingToShow
      <3>2. CASE Reply(w)
        <4>1. call' = [call EXCEPT ![w] = Idle] /\ call = [v \in Workers |-> call[v]]
          BY <1>0, <3>2 DEF Reply, CallsHaveFields
        <4>2. call'[w].pc = "idle"
          BY <4>1 DEF Idle
        <4>3. QED
          BY <4>2, NothingToShow
      <3>3. QED
        BY <2>6, <3>1, <3>2
    <2>7. QED
      BY <2>2, <2>3, <2>4, <2>5, <2>6, DispatchStaysInPlace, ReturnStaysInPlace
         DEF AgentCall
  <1>4. QED
    BY <1>2, <1>3

LEMMA CallRecordsAreShown ==
  ASSUME GrantInv, TypeInv, StoresAreOrdered, NEW w \in Workers, host.evals,
         AgentCall(w), InPlace(w), RecordsAreShown
  PROVE  RecordsAreShown'
  <1>0. /\ UNCHANGED <<current, serves>> /\ current \in StoreIds
        /\ Begins(w) \/ GoesOn(w) \/ Leaves(w)
    <2>1. UNCHANGED setting /\ (Begins(w) \/ GoesOn(w) \/ Leaves(w))
      BY CallsTakeSteps DEF GrantInv, TrialsInOrder, TypeInv
    <2>2. QED
      BY <2>1 DEF setting, GrantInv, TrialsInOrder
  <1>1. \A e : Shown(current, e) => Shown(current, e)'
    BY <1>0, CallsGrowStores
  <1>2. CASE records' = records
    BY <1>0, <1>1, <1>2 DEF RecordsAreShown
  <1>3. CASE call[w].pc = "observe" /\ records' = Append(records, RecordOf(w))
    <2>0. PICK r : r = RecordOf(w)
      OBVIOUS
    <2>1. /\ r.home = call[w].home
          /\ r.wrote = IF call[w].wrote = 0 THEN {}
                       ELSE {[path |-> PathAt(w), gen |-> call[w].wrote]}
      BY <2>0 DEF RecordOf
    <2>2. PICK S : records \in Seq(S)
      BY DEF TypeInv, RecordsNumbered
    <2>3. /\ DOMAIN records = 1 .. Len(records) /\ Len(records) \in Nat
          /\ DOMAIN records' = 1 .. Len(records) + 1
          /\ records'[Len(records) + 1] = r
          /\ \A i \in DOMAIN records : records'[i] = records[i]
      BY <1>3, <2>0, <2>2, AppendIsLonger
    <2>4. r.home = current => \A e \in r.wrote : Shown(current, e)
      BY <1>3, <2>1 DEF InPlace
    <2>5. \A i \in DOMAIN records' : i \in DOMAIN records \/ i = Len(records) + 1
      BY <2>3
    <2>6. ASSUME NEW i \in DOMAIN records', records'[i].home = current,
                 NEW e \in records'[i].wrote
          PROVE  Shown(current, e)
      BY <2>3, <2>4, <2>5, <2>6 DEF RecordsAreShown
    <2>7. QED
      BY <1>0, <1>1, <2>6 DEF RecordsAreShown
  <1>4. QED
    BY <1>0, <1>2, <1>3 DEF Begins, GoesOn, Leaves

LEMMA CallsKeepDumps ==
  ASSUME GrantInv, TypeInv, DumpInv, NEW w \in Workers,
         AgentCall(w) \/ (AdopterCall(w) /\ UNCHANGED evalVars)
  PROVE  DumpInv'
  <1>1. UNCHANGED <<host, current, serves, runner, snap, unread, dumps>>
    <2>1. UNCHANGED <<setting, evalVars>>
      BY CallsTakeSteps DEF GrantInv, TrialsInOrder, TypeInv
    <2>2. QED
      BY <2>1 DEF setting, evalVars, dumpVars
  <1>2. /\ StoresAreOrdered'
        /\ \A s \in StoreIds : \A e : Shown(s, e) => Shown(s, e)'
    BY <1>1, CallsGrowStores DEF DumpInv
  <1>3. host.evals => AgentCall(w)
    BY DEF AdopterCall
  <1>4. host.evals => RecordsAreShown' /\ \A v \in Workers : InPlace(v)'
    BY <1>3, CallsStayInPlace, CallRecordsAreShown DEF DumpInv
  <1>5. DumpReads'
    BY <1>1, <1>2 DEF DumpInv, DumpReads, Accounted
  <1>6. DumpAccountsForTrace' /\ \E S : dumps' \in Seq(S)
    BY <1>1 DEF DumpInv, DumpAccountsForTrace
  <1>7. QED
    BY <1>1, <1>2, <1>4, <1>5, <1>6 DEF DumpInv

(* A trial starts in a store no call has reached, and no dump reads then.  *)
LEMMA NewTrialDumps ==
  ASSUME GrantInv, TypeInv, DumpInv, NEW st, NEW identity, NEW d, StartTrial(st, identity, d),
         st.gen \in Nat, \A f \in st.files : f.gen \in Nat /\ f.gen <= st.gen,
         call' = call \/ call' = [w \in Workers |-> Idle],
         UNCHANGED <<host, dumps>>, runner' # "reading"
  PROVE  DumpInv'
  <1>1. /\ current' = current + 1 /\ DOMAIN records' = {}
        /\ store' = [store EXCEPT ![current + 1] = st]
    BY DEF StartTrial
  <1>2. StoresAreOrdered'
    <2>1. ASSUME NEW s \in StoreIds
          PROVE  store'[s] = IF s = current + 1 THEN st ELSE store[s]
      BY <1>1 DEF TypeInv, StoresTyped
    <2>2. QED
      BY <2>1 DEF DumpInv, StoresAreOrdered
  <1>3. RecordsAreShown' /\ DumpReads'
    BY <1>1 DEF RecordsAreShown, DumpReads
  <1>4. ASSUME NEW w \in Workers PROVE InPlace(w)'
    <2>1. CASE call' = call
      <3>1. call[w].home # current + 1
        BY DEF GrantInv, TrialsInOrder
      <3>2. QED
        BY <1>1, <2>1, <3>1 DEF InPlace
    <2>2. CASE call' = [v \in Workers |-> Idle]
      BY <2>2, NothingToShow DEF Idle
    <2>3. QED
      BY <2>1, <2>2
  <1>5. DumpAccountsForTrace' /\ \E S : dumps' \in Seq(S)
    BY DEF DumpInv, DumpAccountsForTrace
  <1>6. QED
    BY <1>2, <1>3, <1>4, <1>5 DEF DumpInv

(* What the server shows stays shown while nothing of it changes.          *)
LEMMA ServerStands ==
  ASSUME UNCHANGED <<host, current, serves, store, call, records>>,
         host.evals => RecordsAreShown /\ \A w \in Workers : InPlace(w)
  PROVE  (host.evals => RecordsAreShown /\ \A w \in Workers : InPlace(w))'
  <1>1. \A s, e : Shown(s, e)' <=> Shown(s, e)
    BY DEF Shown, GrantedPath, Stored
  <1>2. \A s, path : GrantedPath(s, path)' <=> GrantedPath(s, path)
    BY DEF GrantedPath
  <1>3. \A w : Grants(w)' = Grants(w)
    BY DEF Grants
  <1>4. \A w : Req(w)' = Req(w)
    BY DEF Req
  <1>5. \A w : PathAt(w)' = PathAt(w)
    BY <1>3, <1>4 DEF PathAt
  <1>6. ASSUME RecordsAreShown PROVE RecordsAreShown'
    BY <1>1, <1>6 DEF RecordsAreShown
  <1>7. ASSUME NEW w \in Workers, InPlace(w) PROVE InPlace(w)'
    BY <1>1, <1>2, <1>4, <1>5, <1>7 DEF InPlace
  <1>8. QED
    BY <1>6, <1>7

LEMMA BeginDumpStep ==
  ASSUME GrantInv, TypeInv, DumpInv, BeginDump
  PROVE  DumpInv'
  <1>1. /\ snap' = Snapshot /\ UNCHANGED <<serverVars, dumps>> /\ host.evals
    BY DEF BeginDump, Ready
  <1>2. UNCHANGED <<host, current, serves, store, call, records, dumps>>
    BY <1>1 DEF serverVars, setting
  <1>3. /\ Snapshot = [f \in SnapFields |-> Snapshot[f]] /\ Snapshot.trial = current
        /\ Snapshot.calls = records /\ Snapshot.scopes = DOMAIN Identities[serves[current]]
    BY DEF Snapshot, SnapFields
  <1>4. DumpReads'
    <2>1. ASSUME NEW e, Shown(current, e) PROVE Shown(current, e)' /\ Accounted(e)'
      BY <1>1, <1>2, <1>3, <2>1 DEF Shown, GrantedPath, Stored, Accounted
    <2>2. current \in StoreIds /\ RecordsAreShown
      BY <1>1 DEF GrantInv, TrialsInOrder, DumpInv
    <2>3. QED
      BY <1>1, <1>2, <1>3, <2>1, <2>2 DEF DumpReads, RecordsAreShown
  <1>5. StoresAreOrdered' /\ DumpAccountsForTrace' /\ \E S : dumps' \in Seq(S)
    BY <1>2 DEF DumpInv, StoresAreOrdered, DumpAccountsForTrace
  <1>6. RecordsAreShown' /\ \A w \in Workers : InPlace(w)'
    BY <1>1, <1>2, ServerStands DEF DumpInv
  <1>7. QED
    BY <1>4, <1>5, <1>6 DEF DumpInv

(* A step of the runner that leaves the server and what is dumped alone.   *)
LEMMA ReadingStep ==
  ASSUME DumpInv, UNCHANGED <<host, current, serves, store, call, records, dumps>>, DumpReads'
  PROVE  DumpInv'
  <1>1. StoresAreOrdered' /\ DumpAccountsForTrace' /\ \E S : dumps' \in Seq(S)
    BY DEF DumpInv, StoresAreOrdered, DumpAccountsForTrace
  <1>2. host.evals => RecordsAreShown' /\ \A w \in Workers : InPlace(w)'
    BY ServerStands DEF DumpInv
  <1>3. QED
    BY <1>1, <1>2 DEF DumpInv

(* A scope is listed: what is live in it is to be read, what was deleted   *)
(* is in the history.                                                      *)
LEMMA ListScopeStep ==
  ASSUME DumpInv, ListScope
  PROVE  DumpInv'
  <1>1. /\ UNCHANGED <<host, current, serves, store, call, records, dumps, runner>>
        /\ runner = "reading" /\ unread = {}
    BY SMTT(30) DEF ListScope, serverVars, setting
  <1>2. PICK scope \in snap.scopes :
          LET listed == Listed(snap.trial, scope)
          IN /\ unread' = {f.path : f \in {g \in listed : g.live}}
             /\ snap' = [snap EXCEPT !.scopes = @ \ {scope},
                                    !.files = @ \cup {f \in listed : ~f.live}]
    BY DEF ListScope
  <1> DEFINE listed == Listed(snap.trial, scope)
             dead == {f \in listed : ~f.live}
  <1>3. snap = [f \in SnapFields |-> snap[f]] /\ snap.trial \in StoreIds
    BY <1>1 DEF DumpInv, DumpReads
  <1>4. /\ snap' = [f \in SnapFields |-> snap'[f]]
        /\ snap'.trial = snap.trial /\ snap'.calls = snap.calls
        /\ snap'.scopes = snap.scopes \ {scope} /\ snap'.files = snap.files \cup dead
    <2>1. snap' = [snap EXCEPT !.scopes = snap.scopes \ {scope},
                               !.files = snap.files \cup dead]
      BY <1>2
    <2> HIDE DEF dead
    <2>2. QED
      BY <1>3, <2>1 DEF SnapFields
  <1>5. ASSUME NEW e, Shown(snap.trial, e), Accounted(e) PROVE Accounted(e)'
    <2>1. CASE e.path.scope = scope
      <3>1. PICK f \in store[snap.trial].files : f.path = e.path /\ f.gen >= e.gen
        BY <1>5 DEF Shown, Stored
      <3>2. f \in listed
        BY <1>5, <2>1, <3>1 DEF Listed, Shown, GrantedPath
      <3>3. CASE f.live
        <4>1. f.path \in unread'
          BY <1>2, <3>2, <3>3
        <4>2. QED
          BY <3>1, <4>1 DEF Accounted
      <3>4. CASE ~f.live
        <4>1. f \in snap'.files
          BY <1>4, <3>2, <3>4
        <4>2. QED
          BY <3>1, <4>1 DEF Accounted
      <3>5. QED
        BY <3>3, <3>4
    <2>2. CASE e.path.scope # scope
      BY <1>1, <1>4, <1>5, <2>2 DEF Accounted
    <2>3. QED
      BY <2>1, <2>2
  <1>6. ASSUME NEW e, Shown(snap.trial, e) PROVE Shown(snap.trial, e)'
    BY <1>1, <1>4, <1>6 DEF Shown, GrantedPath, Stored
  <1>7. DumpReads'
    BY <1>1, <1>3, <1>4, <1>5, <1>6 DEF DumpInv, DumpReads
  <1>8. QED
    BY <1>1, <1>7, ReadingStep

(* A file is read as it is now, or is gone, and the dump is off.           *)
LEMMA ReadFileStep ==
  ASSUME DumpInv, ReadFile
  PROVE  DumpInv'
  <1>1. /\ UNCHANGED <<host, current, serves, store, call, records, dumps>>
        /\ runner = "reading"
    BY DEF ReadFile, serverVars, setting
  <1>2. CASE runner' = "idle"
    <2>1. DumpReads'
      BY <1>2 DEF DumpReads
    <2>2. QED
      BY <1>1, <2>1, ReadingStep
  <1>3. ASSUME NEW path \in unread, NEW found,
               found = {f \in store[snap.trial].files : f.path = path},
               unread' = unread \ {path}, snap' = [snap EXCEPT !.files = @ \cup found],
               runner' = runner
        PROVE  DumpInv'
    <2>1. snap = [f \in SnapFields |-> snap[f]] /\ snap.trial \in StoreIds
      BY <1>1 DEF DumpInv, DumpReads
    <2>2. /\ snap' = [f \in SnapFields |-> snap'[f]]
          /\ snap'.trial = snap.trial /\ snap'.calls = snap.calls
          /\ snap'.scopes = snap.scopes /\ snap'.files = snap.files \cup found
      BY <1>3, <2>1 DEF SnapFields
    <2>3. ASSUME NEW e, Shown(snap.trial, e), Accounted(e) PROVE Accounted(e)'
      <3>1. CASE e.path = path
        <4>1. PICK f \in store[snap.trial].files : f.path = e.path /\ f.gen >= e.gen
          BY <2>3 DEF Shown, Stored
        <4>2. f \in snap'.files
          BY <1>3, <2>2, <3>1, <4>1
        <4>3. QED
          BY <4>1, <4>2 DEF Accounted
      <3>2. CASE e.path # path
        BY <1>3, <2>2, <2>3, <3>2 DEF Accounted
      <3>3. QED
        BY <3>1, <3>2
    <2>4. ASSUME NEW e, Shown(snap.trial, e) PROVE Shown(snap.trial, e)'
      BY <1>1, <2>2, <2>4 DEF Shown, GrantedPath, Stored
    <2>5. DumpReads'
      BY <1>1, <1>3, <2>1, <2>2, <2>3, <2>4 DEF DumpInv, DumpReads
    <2>6. QED
      BY <1>1, <2>5, ReadingStep
  <1>4. QED
    BY <1>2, <1>3 DEF ReadFile, Goes

LEMMA AllReadStep ==
  ASSUME DumpInv, AllRead
  PROVE  DumpInv'
  <1>1. /\ UNCHANGED <<host, current, serves, store, call, records>>
        /\ runner = "reading" /\ runner' = "store" /\ unread = {} /\ snap.scopes = {}
        /\ dumps' = Append(dumps, snap)
    BY DEF AllRead, Goes, serverVars, setting
  <1>2. PICK S : dumps \in Seq(S)
    BY DEF DumpInv
  <1>3. /\ dumps' \in Seq(S \cup {snap}) /\ Len(dumps) \in Nat
        /\ DOMAIN dumps = 1 .. Len(dumps) /\ DOMAIN dumps' = 1 .. Len(dumps) + 1
        /\ dumps'[Len(dumps) + 1] = snap
        /\ \A n \in DOMAIN dumps : dumps'[n] = dumps[n]
    BY <1>1, <1>2, AppendIsLonger
  <1>4. ASSUME NEW i \in DOMAIN snap.calls, snap.calls[i].home = snap.trial,
               NEW e \in snap.calls[i].wrote
        PROVE  \E f \in snap.files : f.path = e.path /\ f.gen >= e.gen
    BY <1>1, <1>4 DEF DumpInv, DumpReads, Accounted
  <1>5. DumpAccountsForTrace'
    <2>1. \A n \in DOMAIN dumps' :
             \/ n \in DOMAIN dumps /\ dumps'[n] = dumps[n]
             \/ dumps'[n] = snap
      <3>1. \A n \in DOMAIN dumps' : n \in DOMAIN dumps \/ n = Len(dumps) + 1
        BY <1>3
      <3>2. QED
        BY <1>3, <3>1
    <2>2. QED
      BY <1>4, <2>1 DEF DumpInv, DumpAccountsForTrace
  <1>6. StoresAreOrdered' /\ DumpReads' /\ \E T : dumps' \in Seq(T)
    BY <1>1, <1>3 DEF DumpInv, StoresAreOrdered, DumpReads
  <1>7. host.evals => RecordsAreShown' /\ \A w \in Workers : InPlace(w)'
    BY <1>1, ServerStands DEF DumpInv
  <1>8. QED
    BY <1>1, <1>5, <1>6, <1>7 DEF DumpInv

LEMMA InitDumpInv == Init => DumpInv
  <1> SUFFICES ASSUME Init PROVE DumpInv
    OBVIOUS
  <1>1. /\ store = [s \in StoreIds |-> EmptyStore] /\ DOMAIN records = {}
        /\ runner = "idle" /\ dumps = <<>> /\ \A w \in Workers : call[w].pc = "idle"
    BY DEF Init, ServerInit, Idle
  <1>2. <<>> \in Seq({}) /\ DOMAIN <<>> = {}
    OBVIOUS
  <1>3. EmptyStore.files = {}
    BY DEF EmptyStore
  <1>4. StoresAreOrdered
    BY <1>1, <1>3 DEF StoresAreOrdered
  <1>5. QED
    BY <1>1, <1>2, <1>4 DEF DumpInv, RecordsAreShown, InPlace, DumpReads, DumpAccountsForTrace

LEMMA NextDumpInv == GrantInv /\ TypeInv /\ DumpInv /\ [Next]_vars => DumpInv'
  <1> SUFFICES ASSUME GrantInv, TypeInv, DumpInv, [Next]_vars PROVE DumpInv'
    OBVIOUS
  <1>1. ASSUME UNCHANGED <<host, current, serves, store, call, records, dumps>>,
               runner' # "reading"
        PROVE  DumpInv'
    BY <1>1, ReadingStep DEF DumpReads
  <1>2. ASSUME UNCHANGED <<host, current, serves, store, call, records, dumps>>,
               UNCHANGED <<runner, snap, unread>>
        PROVE  DumpInv'
    <2>1. DumpReads'
      BY <1>2 DEF DumpInv, DumpReads, Accounted, Shown, GrantedPath, Stored
    <2>2. QED
      BY <1>2, <2>1, ReadingStep
  <1>3. CASE Tick
    BY <1>2, <1>3 DEF Tick, evalVars, dumpVars
  <1>4. ASSUME NEW w \in Workers, AgentCall(w) \/ (AdopterCall(w) /\ UNCHANGED evalVars)
        PROVE  DumpInv'
    BY <1>4, CallsKeepDumps
  <1>5. CASE RejectUnbound /\ UNCHANGED evalVars
    BY <1>2, <1>5 DEF RejectUnbound, setting, evalVars, dumpVars
  <1>6. ASSUME NEW d \in Dirs, Reset(d) PROVE DumpInv'
    <2>1. /\ StartTrial(Seeded(d), Scenario[d].identity, d) /\ call' = call
          /\ UNCHANGED <<host, dumps>> /\ runner' = "resetting"
      BY <1>6 DEF Reset, Goes, dumpVars
    <2>2. /\ Seeded(d).gen \in Nat
          /\ \A f \in Seeded(d).files : f.gen \in Nat /\ f.gen <= Seeded(d).gen
      BY DEF Seeded, Changed, EmptyStore
    <2>3. QED
      BY <2>1, <2>2, NewTrialDumps
  <1>7. CASE Crash
    <2>1. /\ StartTrial(EmptyStore, host.bound, NoDir)
          /\ call' = [w \in Workers |-> Idle]
          /\ UNCHANGED <<host, dumps>> /\ runner' # "reading"
      BY <1>7 DEF Crash
    <2>2. EmptyStore.gen \in Nat /\ EmptyStore.files = {}
      BY DEF EmptyStore
    <2>3. QED
      BY <2>1, <2>2, NewTrialDumps
  <1>8. ASSUME NEW d \in Dirs, GradeTrial(d) PROVE DumpInv'
    BY <1>1, <1>8 DEF GradeTrial, Goes, serverVars, setting, dumpVars
  <1>9. CASE WriteTranscript \/ RecordTurn \/ ReplyUnavailable
    BY <1>1, <1>9 DEF WriteTranscript, RecordTurn, ReplyUnavailable, Goes, serverVars, setting,
                      dumpVars
  <1>10. CASE ReplyFound
    BY <1>1, <1>10 DEF ReplyFound, KeepReply, Goes, serverVars, setting, dumpVars
  <1>11. CASE WriteDump
    <2>1. UNCHANGED <<host, current, serves, store, call, records, dumps>>
      BY <1>11 DEF WriteDump, serverVars, setting
    <2>2. runner' # "reading"
      <3>1. PICK i \in 1 .. 3 : IF i = 3 THEN Goes("idle") ELSE Goes(DumpFiles[i + 1])
        BY <1>11 DEF WriteDump
      <3>2. i \in {1, 2, 3} /\ DumpFiles[2] = "trace" /\ DumpFiles[3] = "transcript"
        BY DEF DumpFiles
      <3>3. i # 3 => i + 1 \in {2, 3}
        BY <3>2
      <3>4. QED
        BY <3>1, <3>2, <3>3 DEF Goes
    <2>3. QED
      BY <1>1, <2>1, <2>2
  <1>12. CASE BeginReport \/ WriteReport
    BY <1>1, <1>12 DEF BeginReport, WriteReport, Goes, serverVars, setting, dumpVars
  <1>13. CASE ReportTrial
    BY <1>1, <1>13 DEF ReportTrial, Goes, serverVars, setting, dumpVars
  <1>14. CASE UNCHANGED vars
    BY <1>2, <1>14 DEF vars, serverVars, setting, evalVars, dumpVars
  <1>15. QED
    BY <1>3, <1>4, <1>5, <1>6, <1>7, <1>8, <1>9, <1>10, <1>11, <1>12, <1>13, <1>14,
       BeginDumpStep, ListScopeStep, ReadFileStep, AllReadStep DEF Next

(* A dump's store shows every effect of the calls in its trace, for any    *)
(* number of calls, workers, scopes and trials, and however calls go on    *)
(* while the dump lists and reads.                                         *)
THEOREM DumpsAccount == Spec => []DumpAccountsForTrace
  <1>1. DumpInv => DumpAccountsForTrace
    BY DEF DumpInv
  <1>2. QED
    BY <1>1, AlwaysGrantInv, AlwaysTypeInv, InitDumpInv, NextDumpInv, PTL DEF Spec
=============================================================================
