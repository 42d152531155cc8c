---------------------------- MODULE MCRaftGroup ----------------------------
(* Small instances of RaftGroup: three nodes.                              *)
EXTENDS RaftGroup, TLC

CONSTANTS n1, n2, n3

ThreeNodes == {n1, n2, n3}

Bound(terms, entries, flying, forgeries) ==
    [terms |-> terms, entries |-> entries, flying |-> flying, forgeries |-> forgeries]

\* Three elections with one message in flight at a time, two elections with
\* messages that overlap, and forged entries.
OrderedBounds == {Bound(3, 2, 1, FALSE), Bound(2, 2, 2, FALSE), Bound(2, 2, 1, TRUE)}
ReorderedBounds == {Bound(1, 2, 2, FALSE)}

NodeSymmetry == Permutations(ThreeNodes)

\* Votes that no candidate counts and indices that no leader keeps are
\* overwritten before they are read again, so states that differ in nothing
\* else are one.
Live ==
    <<bound, role, term, voted_for, log, commitment, links, leaders_seen,
      [n \in Nodes |-> IF role[n] = "candidate" THEN votes[n] ELSE {}],
      [n \in Nodes |-> IF role[n] = "leader"
                       THEN <<next_index[n], match_index[n]>> ELSE <<>>]>>

-----------------------------------------------------------------------------
(* A stale hint, on links that keep their order.  n1 and n2 lead in turn,  *)
(* n3 votes, and of all that is sent what Arrives names is delivered.  n2  *)
(* loses touch after it led term 2; its AppendEntries of then meets n1 as  *)
(* a candidate of term 4, whose rejection reaches n2 as it leads term 4.   *)

HintBounds == {Bound(5, 4, 2, FALSE)}

Sealed(n, terms) == [i \in DOMAIN terms |-> [term |-> terms[i], by |-> n]]

Arrives(from, to, m) ==
    \/ from = n3 /\ m.type # "VoteDenied"
    \/ m.type = "RequestVote" /\ to = n3 /\ m.term \in (IF from = n1 THEN {1, 3, 5} ELSE {2, 4})
    \/ <<from, to, m.term, m.type>> \in
         { <<n2, n1, 2, "AppendEntries">>, <<n1, n3, 3, "AppendEntries">>,
           <<n1, n2, 4, "AppendRejected">>, <<n2, n3, 4, "AppendEntries">>,
           <<n1, n2, 5, "AppendEntries">>, <<n2, n1, 5, "AppendRejected">> }

StaleHint ==
    /\ role'[n3] = "follower" /\ Len(log'[n3]) <= 2
    /\ IsPrefix(log'[n1], Sealed(n1, <<1, 1, 3, 3>>))
    /\ term'[n2] < 5 => IsPrefix(log'[n2], Sealed(n2, <<2, 4>>))
    /\ \A l \in Links : /\ Len(links'[l]) <= 1
                        /\ \A m \in Range(links'[l]) : Arrives(l[1], l[2], m)
=============================================================================
