---------------------------- MODULE MCCrossShard ----------------------------
(* Small instances of CrossShard: two shards, two currencies.              *)
EXTENDS CrossShard, TLC

CONSTANTS s1, s2, x0, x1, usd, eur, k1, k2, k3

TwoShards == {s1, s2}
OneXid == {x1}
TwoCurrencies == {usd, eur}
ThreeCoordinators == {k1, k2, k3}

Moves(s1usd, s1eur, s2usd, s2eur) ==
    (s1 :> (usd :> s1usd @@ eur :> s1eur)) @@ (s2 :> (usd :> s2usd @@ eur :> s2eur))

\* Balanced, and balanced only if the currencies are added up.
SomeMovements ==
    {Moves(-1, 0, 1, 0), Moves(-1, 0, 0, 1)}

\* The group's log may begin with the decision on another transaction.
NoneOrAnother == {<<>>, <<[xid |-> x0, decision |-> Commit(2)]>>}

CoordinatorSymmetry == Permutations(ThreeCoordinators)
=============================================================================
