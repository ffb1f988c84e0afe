---------------------------- MODULE MCOrderBook ----------------------------
EXTENDS BookRestart

\* Order ids are interchangeable: the book compares them only for equality.
IdSymmetry == Permutations(Ids)
=============================================================================
