------------------------ MODULE MCFilesystemStorage ------------------------
(***************************************************************************)
(* Small instances of FilesystemStorage for TLC: two processes, two        *)
(* objects, one of them in the directory above the other's.                *)
(***************************************************************************)
EXTENDS FilesystemStorage, TLC

CONSTANTS a1, a2, b1,    \* threads of process A and of process B
          A, B,
          top, sub       \* directories: top, and sub inside it

TwoClients == {a1, b1}
ThreeClients == {a1, a2, b1}
MCProcesses == {A, B}
MCProcessOf == [c \in Clients |-> IF c = b1 THEN B ELSE A]
ThreadSymmetry == Permutations({a1, a2})

OneKey == {1}
TwoKeys == {1, 2}
MCDirs == {top, sub}
MCTrail == [k \in Keys |-> IF k = 1 THEN <<top, sub>> ELSE <<top>>]

Req(op, k) ==
  [op |-> op, key |-> k, expected |-> 0, under |-> {}, after |-> 0, limit |-> 1]
List(under, after, limit) ==
  [Req("list", 1) EXCEPT !.under = under, !.after = after, !.limit = limit]

On(k) == {Req(op, k) : op \in {"get", "put", "cas", "delete"}}
Listings == {List({1, 2}, 0, 1), List({1, 2}, 0, 2), List({1, 2}, 1, 2)}

OneObject == On(1)
TwoObjects == On(1) \union {Req("put", 2), Req("delete", 2)}
ListCalls == On(1) \union Listings \union {Req("put", 2), Req("get", BadKey)}
FaultCalls ==
  {Req(op, 1) : op \in {"get", "put", "delete"}}
    \union {Req("put", 2), List({1, 2}, 0, 2)}

(* Stages whose failure leaves no temporary file behind: before one is made, *)
(* and where the except clause of _write removes those made.                 *)
CleanStages == {"flock", "replaceBody", "replaceSidecar"}
SecondReplace == {"replaceSidecar"}
NoStages == {}

NoTampering == {}
AllTampering == {"editBody", "removeBody", "spoilSidecar", "removeSidecar"}
=============================================================================
