---------------------------- MODULE MCEvalTrials ----------------------------
(***************************************************************************)
(* A small instance of EvalTrials for TLC: two adopters' servers and two   *)
(* eval servers, one busy with agents' calls and one with reports.  The    *)
(* deployment is chosen in the initial state.                              *)
(***************************************************************************)
EXTENDS EvalTrials, TLC

CONSTANTS w1, w2

TwoWorkers == {w1, w2}
WorkerSymmetry == Permutations(TwoWorkers)

MCScopes == {"user", "organization", "team"}
Granted(u, role) ==
  [user |-> [entity |-> u, role |-> "none"],
   organization |-> [entity |-> "acme", role |-> role]]
MCIdentities ==
  [member |-> Granted("ann", "member"), admin |-> Granted("bob", "admin"),
   guest |-> [user |-> [entity |-> "eve", role |-> "none"]]]
MCWriteRoles == [organization |-> {"admin"}]

At(scope, area) == [scope |-> scope, area |-> area, name |-> "todo"]
Todo == At("user", "notes")
Calls(tool, args) == [tool |-> tool, args |-> args]
Write(args) ==
  Calls("write_file", args @@ [content |-> "ok", description |-> "ok",
                               aliases |-> "ok", expected_version |-> "ok"])
(* Good calls of each kind, and one for each place a call can be refused.  *)
MCRequests ==
  [index |-> Calls(IndexTool, [none |-> "none"]),
   write |-> Write(Todo),
   delete |-> Calls("delete_file", Todo @@ [expected_version |-> "ok"]),
   system |-> Write(At("user", System)),
   restricted |-> Write(At("organization", "notes")),
   ungranted |-> Write(At("team", "notes")),
   area |-> Write([Todo EXCEPT !.area = "notslug"]),
   read |-> Calls("read_file", At("user", System)),
   append |-> Calls("append_line", Todo @@ [line |-> "notafact"]),
   replace |-> Calls("replace_fact",
                     Todo @@ [old_string |-> "empty", new_string |-> "ok"]),
   page |-> Calls("list_prefix", At("user", "notes") @@ [cursor |-> "bad"]),
   prefix |-> Calls("list_prefix", At("team", "notes") @@ [cursor |-> "none"])]

Unavailable == Error("StorageUnavailableError", "wenchang", "transient", "none")
Conflicts == Error("VersionConflictError", "wenchang", "recoverable", "none")
BadCursor == Error("ValueError", "other", "none", "cursor")
Unparsable == Error("MetadataFormatError", "integrity", "none", "file")

Host(entry, observer, bound, requests, errors, odd, calls) ==
  [entry |-> entry, observer |-> observer, evals |-> FALSE, bound |-> bound,
   requests |-> requests, errors |-> errors, odd |-> odd, calls |-> calls,
   unbound |-> TRUE,
   ticks |-> 0, stores |-> 1, trials |-> {}, says |-> {}, turns |-> 0,
   dumps |-> 0, reports |-> 0, crashes |-> 0]

Adopter ==
  Host("mcp", "works", "member",
       {"index", "write", "delete", "system", "restricted", "ungranted"},
       {Unavailable}, {}, 2)
Embedded(observer) ==
  Host("direct", observer, "member", DOMAIN MCRequests,
       {Conflicts, BadCursor, Unparsable},
       {Value("file", {"path", "content"}, 0), Value("broken", {}, 0)}, 2)

Evals(requests, errors, calls) ==
  [Host("mcp", "works", "admin", requests, errors, {}, calls)
     EXCEPT !.evals = TRUE, !.unbound = FALSE, !.stores = 2, !.trials = {1}]
Asking(n, t) ==
  [Evals({"index", "write"}, {}, n)
     EXCEPT !.ticks = t, !.says = {"plain"}, !.turns = t]
Dumping == [Evals({"write", "delete"}, {Conflicts}, 2) EXCEPT !.dumps = 1]
Reporting(d, t, c) ==
  [Evals({}, {}, 0)
     EXCEPT !.ticks = 2, !.stores = 2 + c, !.trials = {d},
            !.says = {"operator"}, !.turns = t, !.dumps = 2, !.reports = 2,
            !.crashes = c]

MCHosts ==
  {Adopter, Embedded("raises"), Embedded("none"), Asking(2, 1), Asking(1, 2),
   Dumping, Reporting(1, 1, 1), Reporting(2, 0, 1)}

Turn(session, turn) == [session |-> session, turn |-> turn]
MCScenario ==
  << [identity |-> "member", script |-> <<Turn(1, 1), Turn(1, 2)>>,
      seed |-> Todo, replyKinds |-> TRUE],
     [identity |-> "admin", script |-> <<Turn(1, 1)>>,
      seed |-> At("user", System), replyKinds |-> FALSE] >>
=============================================================================
