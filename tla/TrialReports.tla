---------------------------- MODULE TrialReports ---------------------------
(***************************************************************************)
(* Grading a dumped trial and reporting on it, as functions of the files   *)
(* in the trial's directory (report.py, and the graders over call order    *)
(* and time).  A file is absent, torn (a write that was cut short: it does *)
(* not parse) or whole, with what it holds and the time it was written.    *)
(* What the other graders make of a store, a trace and replies is a        *)
(* function of them, so a grade keeps what it was computed from.           *)
(***************************************************************************)
EXTENDS Naturals, Sequences

Missing(of) == [is |-> "absent", of |-> of, at |-> 0]
Whole(of, at) == [is |-> "whole", of |-> of, at |-> at]
Torn(of, at) == [is |-> "torn", of |-> of, at |-> at]

Exists(f) == f.is # "absent"
Loads(f) == f.is = "whole"

---------------------------------------------------------------------------
(* The graders that read call order and times from a trace.                *)
IndexTool == "get_memory_index"

(* _index_read_first, for one session: a session that calls memory at all  *)
(* has an index read that completed before any other call started.         *)
IndexReadFirst(trace, session) ==
  LET calls == {i \in DOMAIN trace : trace[i].session = session}
      reads == {i \in calls : trace[i].tool = IndexTool}
  IN \/ calls = {}
     \/ /\ reads # {}
        /\ \A i \in calls \ reads :
              \E j \in reads : trace[j].completed <= trace[i].started

---------------------------------------------------------------------------
(* grade_trial and the two checks, on the files of a directory.            *)
Replies(dir) ==
  IF Loads(dir.transcript) THEN dir.transcript.of ELSE <<>>

(* What the deterministic assertions are judged on.                        *)
Inputs(dir, scenario) ==
  [store |-> dir.store.of, trace |-> dir.trace.of,
   replies |-> IF scenario.replyKinds THEN Replies(dir) ELSE <<>>]

(* A reply assertion needs a reply; the others are left to the graders.    *)
ResultsPass(inputs, scenario) ==
  scenario.replyKinds => inputs.replies # <<>>

(* The reply check: nothing without a transcript, or that it does not load. *)
ReplyCheck(dir) ==
  [is |-> dir.transcript.is, of |-> Replies(dir)]

NoCheck == [is |-> "none", hits |-> {}, scanned |-> FALSE, trace |-> FALSE]
Unchecked == [NoCheck EXCEPT !.is = "unchecked"]

Hits(replies) == {i \in DOMAIN replies : replies[i].says = "operator"}

(* The operator-identity check, with or without a trace that loads.        *)
IdentityCheck(dir, operator, traced) ==
  IF operator = "unchecked" THEN Unchecked
  ELSE [is |-> "checked", hits |-> Hits(Replies(dir)),
        scanned |-> Loads(dir.transcript), trace |-> traced]

Passed(inputs, check, scenario) ==
  ResultsPass(inputs, scenario) /\ check.hits = {}

Grade(inputs, reply, check, scenario) ==
  [inputs |-> inputs, reply |-> reply, identity |-> check,
   passed |-> Passed(inputs, check, scenario)]

NoGrade ==
  [inputs |-> [store |-> 0, trace |-> 0, replies |-> <<>>],
   reply |-> [is |-> "absent", of |-> <<>>], identity |-> NoCheck,
   passed |-> FALSE]

EmptyDir ==
  [store |-> Missing(0), trace |-> Missing(0), transcript |-> Missing(<<>>),
   grade |-> Missing(NoGrade), raced |-> FALSE]

(* A dump or a grade is written.  raced is history: a dump was written in  *)
(* the tick of the grade, so that their times cannot tell which is newer.  *)
Written(dir, file, f) ==
  [dir EXCEPT ![file] = f,
              !.raced = @ \/ (Exists(dir.grade) /\ dir.grade.at = f.at)]

Judged(dir, grade, now) ==
  [dir EXCEPT !.grade = Whole(grade, now), !.raced = FALSE]

(* A current grade is written again, with other checks.                    *)
Amended(dir, grade, now) == [dir EXCEPT !.grade = Whole(grade, now)]

CanGrade(dir) == Loads(dir.store) /\ Loads(dir.trace)

FreshGrade(dir, scenario, operator) ==
  Grade(Inputs(dir, scenario), ReplyCheck(dir),
        IdentityCheck(dir, operator, TRUE), scenario)

---------------------------------------------------------------------------
(* build_report, for one trial.                                            *)
Dumped(dir) == Exists(dir.store) /\ Exists(dir.trace)

(* The dumps a grade must be as new as.                                    *)
Graded(scenario) ==
  {"store", "trace"} \cup (IF scenario.replyKinds THEN {"transcript"} ELSE {})

NoNewer(dir, files) ==
  \A f \in files : Exists(dir[f]) => dir[f].at <= dir.grade.at

(* Mutant: only the store and the trace are compared.                      *)
IsCurrent_IgnoresReplies(dir, scenario) ==
  /\ Exists(dir.grade)
  /\ NoNewer(dir, {"store", "trace"})

(* _grade_is_current: a grade computed with a transcript where there is    *)
(* one now, and no older than the dumps it depends on.                     *)
IsCurrent(dir, scenario) ==
  /\ Exists(dir.grade)
  /\ scenario.replyKinds =>
       (Exists(dir.transcript) <=> dir.grade.of.reply.is # "absent")
  /\ NoNewer(dir, Graded(scenario))

(* _refresh_identity_check keeps the recorded check when the operator is   *)
(* not known or the trace does not load.                                   *)
KeepsCheck(dir, operator, recorded) ==
  recorded # NoCheck /\ (operator = "unchecked" \/ ~Loads(dir.trace))

(* Refreshing reads the store again, which may not parse.                  *)
RefreshFails(dir, operator) ==
  ~KeepsCheck(dir, operator, dir.grade.of.identity) /\ ~Loads(dir.store)

Refreshed(dir, scenario, operator) ==
  LET old == dir.grade.of
      check == IF KeepsCheck(dir, operator, old.identity) THEN old.identity
               ELSE IdentityCheck(dir, operator, Loads(dir.trace))
  IN [Grade(old.inputs, ReplyCheck(dir), check, scenario) EXCEPT
        !.passed = IF KeepsCheck(dir, operator, old.identity) THEN old.passed
                   ELSE Passed(old.inputs, check, scenario)]

ReportRaises(dir, scenario, operator) ==
  \/ IsCurrent(dir, scenario) /\ RefreshFails(dir, operator)
  \/ ~IsCurrent(dir, scenario) /\ Dumped(dir) /\ ~CanGrade(dir)

NotRun(dir, scenario) == ~IsCurrent(dir, scenario) /\ ~Dumped(dir)

(* The trial's grade in the report, and the file it leaves: grade.json is  *)
(* written again only if it changes.                                       *)
ReportedGrade(dir, scenario, operator) ==
  IF IsCurrent(dir, scenario) THEN Refreshed(dir, scenario, operator)
  ELSE FreshGrade(dir, scenario, operator)

AfterReport(dir, scenario, operator, now) ==
  LET graded == ReportedGrade(dir, scenario, operator)
  IN IF ~IsCurrent(dir, scenario) THEN Judged(dir, graded, now)
     ELSE IF graded = dir.grade.of THEN dir
     ELSE Amended(dir, graded, now)

(* A report that raises while refreshing has refreshed the reply check.    *)
AfterRaise(dir, scenario, now) ==
  IF IsCurrent(dir, scenario) /\ dir.grade.of.reply # ReplyCheck(dir)
  THEN Amended(dir, [dir.grade.of EXCEPT !.reply = ReplyCheck(dir)], now)
  ELSE dir
=============================================================================
