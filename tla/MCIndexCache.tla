---------------------------- MODULE MCIndexCache ----------------------------
(***************************************************************************)
(* Small instances of IndexCache for TLC.                                  *)
(***************************************************************************)
EXTENDS IndexCache, TLC

CONSTANTS w1, w2, r1, r2

TwoWriters == {w1, w2}
OneWriter == {w1}
OneReader == {r1}
TwoReaders == {r1, r2}

WriterSymmetry == Permutations(TwoWriters)
ReaderSymmetry == Permutations(TwoReaders)
=============================================================================
