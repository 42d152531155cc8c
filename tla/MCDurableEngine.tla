-------------------------- MODULE MCDurableEngine --------------------------
(***************************************************************************)
(* DurableEngine on small instances.                                       *)
(***************************************************************************)
EXTENDS DurableEngine, TLC

CONSTANTS k1, k2, r1, r2

TwoKeys == {k1, k2}
TwoReaders == {r1, r2}
UnitDeltas == {1}

\* Neither the code nor a safety property tells one key or reader from another.
Interchangeable == Permutations(Keys) \cup Permutations(Readers)

=============================================================================
