----------------------------- MODULE EvalTrials ----------------------------
(***************************************************************************)
(* The eval server: the memory tools of ToolServer over a store and an     *)
(* identity that every trial replaces, the trace of the calls, the turns   *)
(* the runner records, the dumps it writes to the trial's directory, and   *)
(* the grades and reports made from them.                                  *)
(*                                                                         *)
(* The runner makes one harness call or command at a time; agents' calls   *)
(* run on the server's worker threads meanwhile, and may be answered late. *)
(* The server may die at any moment, in the middle of writing a file too;  *)
(* it starts again without a trial, and only the directories are left.     *)
(***************************************************************************)
EXTENDS ToolServer, TrialReports

CONSTANTS
  NDirs,      \* trial directories, 1 .. NDirs
  Scenario,   \* the scenario of each: identity, script, seed, replyKinds
  Operators   \* what the operator's identity may resolve to

Dirs == 1 .. NDirs
NoDir == 0

TrialsAssumption ==
  /\ \A h \in Hosts : /\ h.stores \in Nat /\ 1 .. h.stores \subseteq StoreIds
                     /\ h.trials \subseteq Dirs
  /\ NDirs \in Nat \ {0}
  /\ \A d \in Dirs : Scenario[d].identity \in DOMAIN Identities

ASSUME TrialsGiven == TrialsAssumption

VARIABLES
  dirOf,       \* the trial directory of each store, NoDir before a reset
  boundaries,  \* the recorded turns' ends, in order, of the current trial
  turns,       \* and their replies
  runner,      \* where the runner is
  working,     \* the directory the runner works on
  position,    \* how many turns of its script are recorded
  attempts,    \* record_turn calls made so far
  atMs,        \* when the one in progress was made
  heard,       \* history: the calls answered by then
  snap,        \* the snapshot of the dump in progress
  unread,      \* the files it has listed and not read
  dumps,       \* history: what was dumped
  disk,        \* the trial directories
  operator,    \* the operator identity of the report in progress
  rows,        \* its rows so far
  reports, crashes   \* how many so far

trialVars == <<dirOf, boundaries, turns>>
turnVars == <<working, position, attempts, atMs, heard>>
dumpVars == <<snap, unread, dumps>>
reportVars == <<operator, rows, reports>>
evalVars ==
  <<trialVars, runner, turnVars, dumpVars, disk, reportVars, crashes>>
vars == <<serverVars, evalVars>>

---------------------------------------------------------------------------
NoSnap == [trial |-> NoStore, calls |-> <<>>, boundaries |-> <<>>,
           turns |-> <<>>, scopes |-> {}, files |-> {}]

Init ==
  /\ ServerInit
  /\ dirOf = [s \in StoreIds |-> NoDir]
  /\ boundaries = <<>> /\ turns = <<>>
  /\ runner = "idle" /\ working = NoDir /\ position = 0
  /\ attempts = 0 /\ atMs = 0 /\ heard = {}
  /\ snap = NoSnap /\ unread = {} /\ dumps = <<>>
  /\ disk = [d \in Dirs |-> EmptyDir]
  /\ operator = "unchecked" /\ rows = <<>> /\ reports = 0
  /\ crashes = 0

Ready == host.evals /\ runner \in {"idle", "reported"}
Goes(pc) == runner' = pc
Writes(d, file, f) == disk' = [disk EXCEPT ![d] = Written(@, file, f)]

(* Time passes.                                                            *)
Tick ==
  /\ now < host.ticks
  /\ now' = now + 1
  /\ UNCHANGED <<host, store, current, serves, call, issued, records,
                 reached, answered, evalVars>>

(* An agent's call to the eval server: credentials are never missing, and  *)
(* every caller is the trial's identity at the moment it is resolved.      *)
AgentCall(w) ==
  /\ host.evals
  /\ \/ \E r \in host.requests : Receive(w, r, attempts)
     \/ ReadCredentials(w)
     \/ Resolve(w, serves[current])
     \/ Dispatch(w)
     \/ ClientReturns(w) \/ ClientRaises(w)
     \/ Notify(w) \/ Reply(w)
  /\ UNCHANGED evalVars

---------------------------------------------------------------------------
(* eval_reset: the seeded client is built first; client, identity,         *)
(* directory and an empty trial replace the old ones in one step.          *)
Seeded(d) ==
  LET args == Scenario[d].seed
  IN Changed(EmptyStore, PathOf(args, Identities[Scenario[d].identity]), TRUE)

StartTrial(st, identity, d) ==
  /\ current < host.stores
  /\ current' = current + 1
  /\ store' = [store EXCEPT ![current + 1] = st]
  /\ serves' = [serves EXCEPT ![current + 1] = identity]
  /\ dirOf' = [dirOf EXCEPT ![current + 1] = d]
  /\ records' = <<>> /\ boundaries' = <<>> /\ turns' = <<>>

Reset(d) ==
  /\ Ready /\ d \in host.trials
  /\ StartTrial(Seeded(d), Scenario[d].identity, d)
  /\ Goes("resetting") /\ working' = d /\ position' = 0
  /\ UNCHANGED <<host, now, call, issued, reached, answered, attempts, atMs,
                 heard, dumpVars, disk, reportVars, crashes>>

(* Then transcript.json is written, outside the lock.                      *)
WriteTranscript ==
  /\ runner \in {"resetting", "writing turn"}
  /\ IF dirOf[current] = NoDir THEN UNCHANGED disk
     ELSE Writes(dirOf[current], "transcript", Whole(turns, now))
  /\ position' = position + (IF runner = "resetting" THEN 0 ELSE 1)
  /\ Goes("idle")
  /\ UNCHANGED <<serverVars, trialVars, working, attempts, atMs, heard,
                 dumpVars, reportVars, crashes>>

---------------------------------------------------------------------------
(* turn_prompt: a later turn's prompt replays the session's earlier        *)
(* replies, which transcript.json must hold.                               *)
NextTurn == Scenario[working].script[position + 1]

PromptReady ==
  /\ working # NoDir /\ position < Len(Scenario[working].script)
  /\ \A k \in 1 .. NextTurn.turn - 1 :
        \E i \in DOMAIN Replies(disk[working]) :
           LET t == Replies(disk[working])[i]
           IN t.session = NextTurn.session /\ t.turn = k

(* eval_record_turn: the time is taken before the reply is looked for in   *)
(* the subagent's transcript, which may take until the deadline.           *)
RecordTurn ==
  /\ Ready /\ PromptReady /\ attempts < host.turns
  /\ attempts' = attempts + 1
  /\ atMs' = now /\ heard' = {a.id : a \in answered}
  /\ Goes("recording")
  /\ UNCHANGED <<serverVars, trialVars, working, position, dumpVars, disk,
                 reportVars, crashes>>

(* No transcript, several, or one whose last text is not in the reply      *)
(* given: an error, and nothing is recorded.                               *)
ReplyUnavailable ==
  /\ runner = "recording"
  /\ Goes("idle")
  /\ UNCHANGED <<serverVars, trialVars, turnVars, dumpVars, disk, reportVars,
                 crashes>>

TurnEnd(at) ==
  [at |-> at, session |-> NextTurn.session, turn |-> NextTurn.turn,
   attempt |-> attempts, heard |-> heard]

KeepReply(at) ==
  /\ runner = "recording"
  /\ boundaries' = Append(boundaries, TurnEnd(at))
  /\ \E says \in host.says :
       turns' = Append(turns, [session |-> NextTurn.session,
                               turn |-> NextTurn.turn, says |-> says])
  /\ Goes("writing turn")
  /\ UNCHANGED <<serverVars, dirOf, turnVars, dumpVars, disk, reportVars,
                 crashes>>

(* Mutant: the time is taken once the reply has been found.                *)
ReplyFound_StampedLate == KeepReply(now)

ReplyFound == KeepReply(atMs)

---------------------------------------------------------------------------
(* _Snapshot._tag: the first recorded turn that ended after the call       *)
(* started.                                                                *)
TagIndex(ends, started) ==
  LET later == {i \in DOMAIN ends : started < ends[i].at}
  IN IF later = {} THEN 0 ELSE CHOOSE i \in later : \A j \in later : i <= j

SessionOf(ends, started) ==
  LET i == TagIndex(ends, started) IN IF i = 0 THEN 0 ELSE ends[i].session

TraceOf(calls, ends) ==
  [i \in DOMAIN calls |->
     [tool |-> calls[i].tool, session |-> SessionOf(ends, calls[i].started),
      started |-> calls[i].started, completed |-> calls[i].completed]]

(* eval_dump, after a reset: one snapshot under the lock, which keeps the  *)
(* trial's client; then, through it, scope after scope of the identity is  *)
(* listed and its files are read.                                          *)
Snapshot ==
  [trial |-> current, calls |-> records, boundaries |-> boundaries,
   turns |-> turns, scopes |-> DOMAIN Identities[serves[current]],
   files |-> {}]

BeginDump ==
  /\ Ready /\ dirOf[current] # NoDir /\ Len(dumps) < host.dumps
  /\ snap' = Snapshot
  /\ Goes("reading")
  /\ UNCHANGED <<serverVars, trialVars, turnVars, unread, dumps, disk,
                 reportVars, crashes>>

(* The files under the identity's entity; the deleted are in the history.  *)
Listed(s, scope) ==
  {f \in store[s].files :
     /\ f.path.scope = scope
     /\ f.path.entity = Identities[serves[s]][scope].entity}

ListScope ==
  /\ runner = "reading" /\ unread = {}
  /\ \E scope \in snap.scopes :
       LET listed == Listed(snap.trial, scope)
       IN /\ unread' = {f.path : f \in {g \in listed : g.live}}
          /\ snap' = [snap EXCEPT !.scopes = @ \ {scope},
                                 !.files = @ \cup {f \in listed : ~f.live}]
  /\ UNCHANGED <<serverVars, trialVars, runner, turnVars, dumps, disk,
                 reportVars, crashes>>

(* A listed file is read, or is gone by then, which ends the dump with an  *)
(* error before anything is written.                                       *)
ReadFile ==
  /\ runner = "reading"
  /\ \E path \in unread :
       LET found == {f \in store[snap.trial].files : f.path = path}
       IN IF \E f \in found : f.live
          THEN /\ unread' = unread \ {path}
               /\ snap' = [snap EXCEPT !.files = @ \cup found]
               /\ UNCHANGED runner
          ELSE /\ unread' = {} /\ snap' = NoSnap /\ Goes("idle")
  /\ UNCHANGED <<serverVars, trialVars, turnVars, dumps, disk, reportVars,
                 crashes>>

(* Mutant: the trace is taken once the store has been read.                *)
AllRead_LateTrace ==
  /\ runner = "reading" /\ unread = {} /\ snap.scopes = {}
  /\ dumps' = Append(dumps, [snap EXCEPT !.calls = records])
  /\ Goes("store")
  /\ UNCHANGED <<serverVars, trialVars, turnVars, snap, unread, disk,
                 reportVars, crashes>>

AllRead ==
  /\ runner = "reading" /\ unread = {} /\ snap.scopes = {}
  /\ dumps' = Append(dumps, snap)
  /\ Goes("store")
  /\ UNCHANGED <<serverVars, trialVars, turnVars, snap, unread, disk,
                 reportVars, crashes>>

(* The three files, one after the other.                                   *)
DumpFiles == <<"store", "trace", "transcript">>
Contents(file) == IF file = "transcript" THEN snap.turns ELSE Len(dumps)

WriteDump ==
  /\ \E i \in 1 .. 3 :
       /\ runner = DumpFiles[i]
       /\ Writes(dirOf[snap.trial], runner, Whole(Contents(runner), now))
       /\ IF i = 3 THEN Goes("idle") /\ snap' = NoSnap
          ELSE Goes(DumpFiles[i + 1]) /\ UNCHANGED snap
  /\ UNCHANGED <<serverVars, trialVars, turnVars, unread, dumps, reportVars,
                 crashes>>

---------------------------------------------------------------------------
(* The server dies, a file it is writing is cut short, and it starts again *)
(* under the initial identity, with an empty store and no trial.  Reports  *)
(* are made by another process.                                            *)
Writing ==
  CASE runner \in {"resetting", "writing turn"} /\ dirOf[current] # NoDir ->
         <<dirOf[current], "transcript">>
    [] runner \in {"store", "trace", "transcript"} ->
         <<dirOf[snap.trial], runner>>
    [] OTHER -> <<>>

Crash ==
  /\ host.evals /\ crashes < host.crashes
  /\ crashes' = crashes + 1
  /\ StartTrial(EmptyStore, host.bound, NoDir)
  /\ call' = [w \in Workers |-> Idle]
  /\ \/ UNCHANGED disk
     \/ /\ Writing # <<>>
        /\ Writes(Writing[1], Writing[2],
                  Torn(disk[Writing[1]][Writing[2]].of, now))
  /\ runner' = IF runner \in {"reporting", "reported"} THEN runner ELSE "idle"
  /\ snap' = NoSnap /\ unread' = {}
  /\ UNCHANGED <<host, now, issued, reached, answered, turnVars, dumps,
                 reportVars>>

---------------------------------------------------------------------------
(* The grade command, on a trial whose dumps parse.                        *)
GradeTrial(d) ==
  /\ Ready /\ reports < host.reports /\ CanGrade(disk[d])
  /\ \E op \in Operators :
       disk' = [disk EXCEPT ![d] =
                  Judged(@, FreshGrade(@, Scenario[d], op), now)]
  /\ reports' = reports + 1
  /\ Goes("idle")
  /\ UNCHANGED <<serverVars, trialVars, turnVars, dumpVars, operator, rows,
                 crashes>>

(* The report command: every trial in turn, graded, refreshed or not run;  *)
(* a dump that does not parse ends it without a report.                    *)
BeginReport ==
  /\ Ready /\ reports < host.reports
  /\ reports' = reports + 1
  /\ operator' \in Operators
  /\ rows' = <<>>
  /\ Goes("reporting")
  /\ UNCHANGED <<serverVars, trialVars, turnVars, dumpVars, disk, crashes>>

ReportTrial ==
  LET d == Len(rows) + 1
  IN /\ runner = "reporting" /\ d \in Dirs
     /\ IF ReportRaises(disk[d], Scenario[d], operator)
        THEN /\ disk' = [disk EXCEPT ![d] = AfterRaise(@, Scenario[d], now)]
             /\ Goes("idle") /\ rows' = <<>>
        ELSE IF NotRun(disk[d], Scenario[d])
        THEN /\ rows' = Append(rows, [run |-> FALSE, grade |-> NoGrade])
             /\ UNCHANGED <<disk, runner>>
        ELSE /\ rows' = Append(rows, [run |-> TRUE, grade |->
                          ReportedGrade(disk[d], Scenario[d], operator)])
             /\ disk' = [disk EXCEPT ![d] =
                           AfterReport(@, Scenario[d], operator, now)]
             /\ UNCHANGED runner
     /\ UNCHANGED <<serverVars, trialVars, turnVars, dumpVars, operator,
                    reports, crashes>>

WriteReport ==
  /\ runner = "reporting" /\ Len(rows) = NDirs
  /\ Goes("reported")
  /\ UNCHANGED <<serverVars, trialVars, turnVars, dumpVars, disk, reportVars,
                 crashes>>

---------------------------------------------------------------------------
Next ==
  \/ Tick
  \/ \E w \in Workers : AgentCall(w) \/ (AdopterCall(w) /\ UNCHANGED evalVars)
  \/ RejectUnbound /\ UNCHANGED evalVars
  \/ \E d \in Dirs : Reset(d) \/ GradeTrial(d)
  \/ WriteTranscript \/ RecordTurn \/ ReplyUnavailable \/ ReplyFound
  \/ BeginDump \/ ListScope \/ ReadFile \/ AllRead \/ WriteDump
  \/ Crash
  \/ BeginReport \/ ReportTrial \/ WriteReport

Spec == Init /\ [][Next]_vars

---------------------------------------------------------------------------
(* Type invariant of ToolServer's and EvalTrials' variables, with the      *)
(* shape the trial's lists keep: as many turns as boundaries, record       *)
(* numbers in order (server.py EvalState).                                 *)
TypeOK ==
  /\ host \in Hosts /\ now \in Nat /\ current \in StoreIds
  /\ \A s \in StoreIds : store[s].gen \in Nat /\ dirOf[s] \in Dirs \cup {NoDir}
  /\ \A w \in Workers :
        /\ call[w].pc \in {"idle", "credentials", "resolve", "dispatch",
                           "client", "observe", "reply"}
        /\ call[w].as \in DOMAIN Identities \cup {Unresolved}
        /\ call[w].took \in Nat
  /\ \A i \in DOMAIN records : records[i].seq = i
  /\ Len(boundaries) = Len(turns)
  /\ runner \in {"idle", "resetting", "recording", "writing turn",
                 "reading", "store", "trace", "transcript", "reporting",
                 "reported"}
  /\ working \in Dirs \cup {NoDir} /\ position \in Nat
  /\ operator \in Operators \cup {"unchecked"} /\ Len(rows) <= NDirs
  /\ \A d \in Dirs : \A file \in DOMAIN disk[d] \ {"raced"} :
        /\ disk[d][file].is \in {"absent", "whole", "torn"}
        /\ disk[d][file].at \in 0 .. now

(* A call is never tagged with a turn the runner had recorded before the   *)
(* agent made it; and one whose answer was out when a turn was recorded is *)
(* tagged with that turn or an earlier one, unless its start is stamped    *)
(* with the very tick of the turn's end (server.py record_turn,            *)
(* record_call, _tag, and the observer's call before the answer).          *)
CallsAreInTheirTurns ==
  \A i \in DOMAIN records :
     LET r == records[i]
         k == TagIndex(boundaries, r.started)
     IN r.home = current =>
          /\ k # 0 => boundaries[k].attempt > r.asked
          /\ \A j \in DOMAIN boundaries :
                r.id \in boundaries[j].heard =>
                   (k # 0 /\ k <= j) \/ r.started = boundaries[j].at

(* An agent that waits for an index read's answer before every other call  *)
(* of the session passes index_read_first, although the times it is judged *)
(* by are those of the records' arrival (report.py and graders.py          *)
(* _index_read_first over server.py record_call's stamps).                 *)
PatientAgentsPass ==
  LET trace == TraceOf(records, boundaries)
      InSession(s) == {i \in DOMAIN trace : trace[i].session = s}
  IN \A s \in {trace[i].session : i \in DOMAIN trace} :
       (/\ \A i \in InSession(s) : records[i].home = current
        /\ \E i \in InSession(s) :
              /\ trace[i].tool = IndexTool
              /\ \A j \in InSession(s) : trace[j].tool = IndexTool
                                         \/ records[i].id \in records[j].knew)
       => IndexReadFirst(trace, s)

(* What a trace says of calls, turns and times agrees with what the agents *)
(* had asked and been answered when a turn was recorded.                   *)
TraceTellsWhatHappened == CallsAreInTheirTurns /\ PatientAgentsPass

(* A dump's store shows the effect of every call in its trace: the file    *)
(* the call wrote at that version or a later one, or its deletion since,   *)
(* although calls go on while the store is read (server.py dump, _snapshot *)
(* and store_dump).                                                        *)
DumpAccountsForTrace ==
  \A n \in DOMAIN dumps :
     \A i \in DOMAIN dumps[n].calls :
        LET c == dumps[n].calls[i]
        IN c.home = dumps[n].trial =>
             \A e \in c.wrote :
                \E f \in dumps[n].files : f.path = e.path /\ f.gen >= e.gen

(* A report's rows are about the files that are in the trial directories   *)
(* when it is written, whatever was graded, dumped, crashed or reported    *)
(* before: assertions judged on these dumps (unless one was written in the *)
(* very tick of the grade it made stale), checks on the transcript as it is,  *)
(* and a pass only without operator hits (report.py _grade_is_current,     *)
(* _refresh_reply_check, _refresh_identity_check, build_report).           *)
ReportIsCurrent ==
  runner = "reported" =>
    \A d \in Dirs :
       LET dir == disk[d]
           g == rows[d].grade
       IN IF ~rows[d].run THEN ~Dumped(dir)
          ELSE /\ g.inputs = Inputs(dir, Scenario[d]) \/ dir.raced
               /\ g.reply = ReplyCheck(dir)
               /\ (operator # "unchecked" /\ Loads(dir.trace)) =>
                     g.identity = IdentityCheck(dir, operator, TRUE)
               /\ g.passed => ResultsPass(g.inputs, Scenario[d])
                              /\ g.identity.hits = {}
=============================================================================
