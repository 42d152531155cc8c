---------------------------- MODULE MCRevEngine ----------------------------
(***************************************************************************)
(* RevEngine on small instances.                                           *)
(***************************************************************************)
EXTENDS RevEngine

CONSTANTS k1, k2, r1, r2

TwoKeys == {k1, k2}
TwoReaders == {r1, r2}
UnitDeltas == {1}

=============================================================================
