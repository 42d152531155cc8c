------------------------------ MODULE MCSealer ------------------------------
(* Small instances of Sealer: two submitters, two keys.                    *)
EXTENDS Sealer

CONSTANTS c1, c2

TwoClients == {c1, c2}
TwoKeys == 1..2
OnlyAlways == {Always}
BothPolicies == {Always, 2}
NoneOrOne == {NoWindow, 1}
Unbounded == {NoWindow}
=============================================================================
