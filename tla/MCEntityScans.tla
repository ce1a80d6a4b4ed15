--------------------------- MODULE MCEntityScans ---------------------------
(***************************************************************************)
(* A small instance of EntityScans for TLC: two creators, two entities.    *)
(***************************************************************************)
EXTENDS EntityScans

CONSTANTS c1, c2

TwoCreators == {c1, c2}

(* Entity 1: a malformed key, a system/ file and three more, the metadata  *)
(* of one of which does not parse.  Entity 2: one file.                    *)
MCMalformed == {1}
MCSystem == {2}
MCCorrupt == {5}
MCEntityOf == <<1, 1, 1, 1, 1, 2>>
MCAreaOf == <<1, 1, 2, 2, 2, 3>>
MCTierOf == <<1, 0>>
MCUpdated(g) == g % 2
MCEntryBytes == <<1, 1, 1, 1, 1, 3>>

MCNewFiles == {3, 4}

MCScans ==
  {[kind |-> "index", of |-> {1, 2}], [kind |-> "export", of |-> {1}],
   [kind |-> "purge", of |-> {1}]}
=============================================================================
