--------------------------- MODULE MCMemoryStore ---------------------------
(***************************************************************************)
(* Small instances of MemoryStore for TLC.                                 *)
(***************************************************************************)
EXTENDS MemoryStore, TLC

CONSTANTS f, g,        \* two facts
          s1, s2,      \* two calling surfaces
          a, b         \* two clients

MCFacts == {f, g}
MCSources == {s1, s2}
MCClients == {a, b}
OneStamp == {1}

ClientSymmetry == Permutations(MCClients)

Req(op, text, anchor, sources) ==
  [op |-> op, expected |-> 0, text |-> text, anchor |-> anchor,
   sources |-> sources, valid |-> TRUE]

Read == Req("read", <<>>, f, {})
Write == Req("write", <<f>>, f, {s1})
WriteTooLong == Req("write", <<f, f, f, f>>, f, {s1})
Delete == Req("delete", <<>>, f, {})
AppendFact(fact, source) == Req("append", <<fact>>, f, {source})
(* Edits whose new text still contains its anchor, and does not.  Extend and *)
(* AppendFact(g, s2) give one body, recorded for different sources.          *)
Extend == Req("replace", <<f, g>>, f, {s1})
Rewrite == Req("replace", <<g>>, f, {s2})
Malformed == [Write EXCEPT !.valid = FALSE]

AllCalls ==
  {Read, Write, WriteTooLong, Delete, AppendFact(f, s2), Extend, Malformed}
EditCalls == {Write, Delete, AppendFact(g, s2), Extend, Rewrite}
ReplaceCalls == {Write, Extend}

Stored(body, form) ==
  [body |-> body, sources |-> {}, stamp |-> 1, form |-> form]

Intruders ==
  {NoFile, Stored(<<f>>, "ok"), Stored(<<g>>, "badMetadata"), Stored(<<>>, "badBody")}
NoIntruders == {}
=============================================================================
