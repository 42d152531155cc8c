----------------------------- MODULE MCRevView -----------------------------
(***************************************************************************)
(* RevView on small instances.                                             *)
(***************************************************************************)
EXTENDS RevView, TLC

CONSTANTS k1, k2, r1, r2

TwoKeys == {k1, k2}
TwoReaders == {r1, r2}
UnitDeltas == {1}

\* Neither the code nor a safety property tells one reader from another.
Interchangeable == Permutations(Readers)

=============================================================================
