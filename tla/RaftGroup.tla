------------------------------ MODULE RaftGroup ------------------------------
(***************************************************************************)
(* One replicated ledger group: the node of src/crates/nilestream-         *)
(* consensus/src/lib.rs and the network of sim.rs that carries its         *)
(* messages, which loses them and, with Reorder, delivers those of one     *)
(* link out of order.  An epoch is a log entry and the commit index is the *)
(* visibility frontier.                                                    *)
(*                                                                         *)
(* The hash of an entry chains every entry before it, so the hash at an    *)
(* index stands for the log up to that index.  A partition severs links,   *)
(* which is the loss of what is sent over them.                            *)
(***************************************************************************)
EXTENDS Naturals, FiniteSetsExt, SequencesExt

CONSTANTS
    Nodes,      \* the fixed node set of the group
    None,       \* no vote
    Reorder,    \* are messages of one link delivered out of order?
    Bounds      \* bounds to start with, see below

\* terms bounds the elections, entries the proposals of a log and flying the
\* messages in flight: what exceeds it is lost.  With forgeries an entry may
\* arrive that does not follow from its parent.
ASSUME RaftAssumption ==
    /\ IsFiniteSet(Nodes)
    /\ None \notin Nodes
    /\ Reorder \in BOOLEAN
    /\ Bounds \subseteq [terms : Nat, entries : Nat, flying : Nat, forgeries : BOOLEAN]

VARIABLES
    bound,                          \* the member of Bounds in force
    role, term, voted_for, votes,   \* elections
    log,                            \* entries are [term, by]: by sealed it
    commit_index,                   \* the frontier a strict read is anchored at
    committed_history,              \* what the node ever reported committed
    next_index, match_index,        \* the leader's view of its peers
    links,                          \* messages in flight from each node to each
    leaders_seen                    \* the simulator's record of who led a term

election == <<role, term, voted_for, votes>>
commitment == <<commit_index, committed_history>>
progress == <<next_index, match_index>>
vars == <<bound, election, log, commitment, progress, links, leaders_seen>>

Peers(n) == Nodes \ {n}
Links == {l \in Nodes \X Nodes : l[1] # l[2]}
Entries == [term : Nat, by : Nodes]
BiggerOf(a, b) == IF a >= b THEN a ELSE b
SmallerOf(a, b) == IF a <= b THEN a ELSE b

LastTerm(l) == IF l = <<>> THEN 0 ELSE l[Len(l)].term

\* The sentinel hash of an index the log does not hold.
NoHash == <<[term |-> 0]>>
HashAt(l, i) == IF i <= Len(l) THEN SubSeq(l, 1, i) ELSE NoHash

\* A majority of the group, counted as the peers of a node see it.
Quorum == (Cardinality(Nodes) \div 2) + 1

\* May a node with log l vote for a candidate with this last term and index?
UpToDate(last_term, last_index, l) ==
    \/ last_term > LastTerm(l)
    \/ last_term = LastTerm(l) /\ last_index >= Len(l)

-----------------------------------------------------------------------------
(* Mutants: forms of the definitions below that a plausible bug would give *)

\* A node votes for whoever asks in its term.
VotesForAnyone(n, j, m) ==
    /\ m.term >= term[n]
    /\ UpToDate(m.last_term, m.last_index, log[n])

\* The leader commits what a majority holds, of whatever term.
CommittableOfAnyTerm(n, t, m) ==
    {i \in 1..Len(log[n]) :
        /\ i > commit_index[n]
        /\ (1 + Cardinality({p \in Peers(n) : m[p] >= i})) * 2 > Cardinality(Nodes)}

\* The follower appends after whatever it has at the previous index.
LinksAnywhere(n, m) == m.prev_index <= Len(log[n])

\* The follower keeps the suffix the leader's message does not reach.
KeepsSuffix(n, m) ==
    SubSeq(log[n], 1, m.prev_index) \o m.entries
       \o SubSeq(log[n], m.prev_index + Len(m.entries) + 1, Len(log[n]))

\* The leader skips an entry after each it knows to be replicated.
NextAfterNext(m) == m.match_index + 2

-----------------------------------------------------------------------------
(* The network                                                             *)

InFlight(net) == MapThenSumSet(LAMBDA l : Len(net[l]), DOMAIN net)

\* How often a message reaches each addressee: up to most times, less what is
\* lost.
Arrivals(net, dests, most) ==
    LET room == bound.flying - InFlight(net)
    IN {c \in [dests -> 0..most] : FoldFunction(+, 0, c) <= room}

Sent(net, n, m, c) ==
    [l \in Links |->
        IF l[1] = n /\ l[2] \in DOMAIN c
        THEN net[l] \o [i \in 1..c[l[2]] |-> m] ELSE net[l]]

\* Replies go to the node that asked; every AppendEntries goes to all peers.
Dispatch(net, n, m, dests, most) ==
    \E c \in Arrivals(net, dests, most) : links' = Sent(net, n, m, c)

\* What is in flight once n took the k-th message from j.
Taken(n, j, k) == [links EXCEPT ![<<j, n>>] = RemoveAt(@, k)]

-----------------------------------------------------------------------------
(* What a node does of its own accord                                      *)

\* The AppendEntries n sends to a peer whose next index is next.
ReplicateTo(n, next) ==
    [type |-> "AppendEntries", term |-> term[n],
     prev_index |-> next - 1,
     prev_hash |-> HashAt(log[n], next - 1),
     entries |-> SubSeq(log[n], next, Len(log[n])),
     leader_commit |-> commit_index[n]]

\* start_election produces one RequestVote for each peer, and each of them is
\* sent to all peers.
Elect(n) ==
    /\ term[n] < bound.terms
    /\ term' = [term EXCEPT ![n] = @ + 1]
    /\ role' = [role EXCEPT ![n] = "candidate"]
    /\ voted_for' = [voted_for EXCEPT ![n] = n]
    /\ votes' = [votes EXCEPT ![n] = {n}]
    /\ Dispatch(links, n,
                [type |-> "RequestVote", term |-> term[n] + 1,
                 last_index |-> Len(log[n]), last_term |-> LastTerm(log[n])],
                Peers(n), Cardinality(Peers(n)))
    /\ UNCHANGED <<bound, log, commitment, progress, leaders_seen>>

\* A client's transaction is sealed by the leader.
Propose(n) ==
    /\ role[n] = "leader"
    /\ Len(log[n]) < bound.entries
    /\ log' = [log EXCEPT ![n] = Append(@, [term |-> term[n], by |-> n])]
    /\ UNCHANGED <<bound, election, commitment, progress, links, leaders_seen>>

\* The leader's timer sends every peer what it misses.
Heartbeat(n, p) ==
    /\ role[n] = "leader"
    /\ Dispatch(links, n, ReplicateTo(n, next_index[n][p]), {p}, 1)
    /\ UNCHANGED <<bound, election, log, commitment, progress, leaders_seen>>

-----------------------------------------------------------------------------
(* What a node does with a message                                         *)

\* Any message of a higher term makes a follower of the node, whatever it was.
Newer(n, m) == m.term > term[n]
VotedFor(n, m) == IF Newer(n, m) THEN None ELSE voted_for[n]
Votes(n, m) == IF Newer(n, m) THEN {} ELSE votes[n]
Role(n, m) == IF Newer(n, m) THEN "follower" ELSE role[n]
LearnTerm(n, m) == term' = [term EXCEPT ![n] = BiggerOf(@, m.term)]

Learn(n, m) ==
    /\ LearnTerm(n, m)
    /\ role' = [role EXCEPT ![n] = Role(n, m)]
    /\ voted_for' = [voted_for EXCEPT ![n] = VotedFor(n, m)]
    /\ votes' = [votes EXCEPT ![n] = Votes(n, m)]

\* A vote: of the node's term, not given to another, to a log as good as its own.
Grants(n, j, m) ==
    /\ m.term >= term[n]
    /\ VotedFor(n, m) \in {None, j}
    /\ UpToDate(m.last_term, m.last_index, log[n])

HandleRequestVote(n, j, m, net) ==
    /\ m.type = "RequestVote"
    /\ LearnTerm(n, m)
    /\ role' = [role EXCEPT ![n] = Role(n, m)]
    /\ votes' = [votes EXCEPT ![n] = Votes(n, m)]
    /\ voted_for' = [voted_for EXCEPT ![n] =
                        IF Grants(n, j, m) THEN j ELSE VotedFor(n, m)]
    /\ Dispatch(net, n,
                [type |-> IF Grants(n, j, m) THEN "VoteGranted" ELSE "VoteDenied",
                 term |-> BiggerOf(term[n], m.term)], {j}, 1)
    /\ UNCHANGED <<bound, log, commitment, progress, leaders_seen>>

\* Is this vote one for the election n stands in?
CountsVote(n, m) == role[n] = "candidate" /\ m.term = term[n]

\* A vote that does not decide the election; one of a newer term only deposes.
HandleVoteGranted(n, j, m, net) ==
    /\ m.type = "VoteGranted"
    /\ CountsVote(n, m) => Cardinality(votes[n] \union {j}) < Quorum
    /\ LearnTerm(n, m)
    /\ role' = [role EXCEPT ![n] = Role(n, m)]
    /\ voted_for' = [voted_for EXCEPT ![n] = VotedFor(n, m)]
    /\ votes' = [votes EXCEPT ![n] =
                    IF CountsVote(n, m) THEN @ \union {j} ELSE Votes(n, m)]
    /\ links' = net
    /\ UNCHANGED <<bound, log, commitment, progress, leaders_seen>>

\* The vote that completes a quorum makes a leader.
BecomeLeader(n, j, m, net) ==
    /\ m.type = "VoteGranted"
    /\ CountsVote(n, m)
    /\ Cardinality(votes[n] \union {j}) >= Quorum
    /\ votes' = [votes EXCEPT ![n] = @ \union {j}]
    /\ role' = [role EXCEPT ![n] = "leader"]
    /\ next_index' = [next_index EXCEPT ![n] = [p \in Nodes |-> Len(log[n]) + 1]]
    /\ match_index' = [match_index EXCEPT ![n] = [p \in Nodes |-> 0]]
    /\ leaders_seen' = [leaders_seen EXCEPT ![term[n]] = @ \union {n}]
    /\ links' = net
    /\ UNCHANGED <<bound, term, voted_for, log, commitment>>

HandleVoteDenied(n, m, net) ==
    /\ m.type = "VoteDenied"
    /\ Learn(n, m)
    /\ links' = net
    /\ UNCHANGED <<bound, log, commitment, progress, leaders_seen>>

\* record_committed: what became committed is added to the history.
Recorded(n, l, commit) ==
    committed_history[n]
       \o SubSeq(l, Len(committed_history[n]) + 1, SmallerOf(commit, Len(l)))

\* Is the leader's previous entry in the log of n?
HasPrevious(n, m) == m.prev_index = 0 \/ HashAt(log[n], m.prev_index) = m.prev_hash

\* The log of n after an AppendEntries: cut at the previous index, and extended.
Extended(n, m) ==
    SubSeq(log[n], 1, SmallerOf(m.prev_index, Len(log[n]))) \o m.entries

CommitOf(n, m, l) ==
    IF m.leader_commit > commit_index[n]
    THEN SmallerOf(m.leader_commit, Len(l))
    ELSE commit_index[n]

Rejection(n, m, hint, reason) ==
    [type |-> "AppendRejected", term |-> BiggerOf(term[n], m.term),
     hint |-> hint, reason |-> reason]

\* The leader of a term that is over.
RejectStale(n, j, m, net) ==
    /\ m.type = "AppendEntries"
    /\ m.term < term[n]
    /\ Dispatch(net, n, Rejection(n, m, Len(log[n]), "StaleTerm"), {j}, 1)
    /\ UNCHANGED <<bound, election, log, commitment, progress, leaders_seen>>

\* From here on the sender leads the term, and n follows.
Follow(n, m) ==
    /\ m.type = "AppendEntries"
    /\ m.term >= term[n]
    /\ LearnTerm(n, m)
    /\ role' = [role EXCEPT ![n] = "follower"]
    /\ voted_for' = [voted_for EXCEPT ![n] = VotedFor(n, m)]
    /\ votes' = [votes EXCEPT ![n] = Votes(n, m)]

RejectMismatch(n, j, m, net) ==
    /\ Follow(n, m)
    /\ ~HasPrevious(n, m)
    /\ Dispatch(net, n,
                Rejection(n, m, SmallerOf(Len(log[n]), m.prev_index - 1),
                          "LogMismatch"), {j}, 1)
    /\ UNCHANGED <<bound, log, commitment, progress, leaders_seen>>

\* An entry whose hash is not the one recomputed from its parent.
RejectForgery(n, j, m, net) ==
    /\ bound.forgeries
    /\ Follow(n, m)
    /\ HasPrevious(n, m)
    /\ m.entries # <<>>
    /\ Dispatch(net, n, Rejection(n, m, m.prev_index, "BrokenChain"), {j}, 1)
    /\ UNCHANGED <<bound, log, commitment, progress, leaders_seen>>

AcceptEntries(n, j, m, net) ==
    /\ Follow(n, m)
    /\ HasPrevious(n, m)
    /\ LET l == Extended(n, m)
       IN /\ log' = [log EXCEPT ![n] = l]
          /\ commit_index' = [commit_index EXCEPT ![n] = CommitOf(n, m, l)]
          /\ committed_history' = [committed_history EXCEPT ![n] =
                IF m.leader_commit > commit_index[n]
                THEN Recorded(n, l, CommitOf(n, m, l)) ELSE @]
          /\ Dispatch(net, n,
                      [type |-> "AppendOk", term |-> BiggerOf(term[n], m.term),
                       match_index |-> Len(l)], {j}, 1)
    /\ UNCHANGED <<bound, progress, leaders_seen>>

\* Entries of the term t the leader n may newly commit, given what its peers
\* match.
Committable(n, t, m) ==
    {i \in 1..Len(log[n]) :
        /\ log[n][i].term = t
        /\ i > commit_index[n]
        /\ (1 + Cardinality({p \in Peers(n) : m[p] >= i})) * 2 > Cardinality(Nodes)}

\* advance_commit: to the newest entry of the current term on a majority.
CommitPoint(n, m) ==
    IF Committable(n, term[n], m) = {} THEN commit_index[n]
    ELSE Max(Committable(n, term[n], m))

\* Is this an answer to the leader n, in the term it leads?
Answers(n, m) == role[n] = "leader" /\ m.term = term[n]

\* The first entry a peer that answered m still misses.
NextAfter(m) == m.match_index + 1

HandleAppendOk(n, j, m, net) ==
    /\ m.type = "AppendOk"
    /\ Answers(n, m)
    /\ LET match == [match_index[n] EXCEPT ![j] = m.match_index]
       IN /\ match_index' = [match_index EXCEPT ![n] = match]
          /\ commit_index' = [commit_index EXCEPT ![n] = CommitPoint(n, match)]
          /\ committed_history' = [committed_history EXCEPT ![n] =
                Recorded(n, log[n], CommitPoint(n, match))]
    /\ next_index' = [next_index EXCEPT ![n][j] = NextAfter(m)]
    /\ links' = net
    /\ UNCHANGED <<bound, election, log, leaders_seen>>

\* A broken chain is not backed up over; any other rejection is answered from
\* where the follower's log ends.
HandleBrokenChain(n, j, m, net) ==
    /\ m.type = "AppendRejected"
    /\ Answers(n, m)
    /\ m.reason = "BrokenChain"
    /\ next_index' = [next_index EXCEPT ![n][j] = Len(log[n]) + 1]
    /\ links' = net
    /\ UNCHANGED <<bound, election, log, commitment, match_index, leaders_seen>>

HandleAppendRejected(n, j, m, net) ==
    /\ m.type = "AppendRejected"
    /\ Answers(n, m)
    /\ m.reason # "BrokenChain"
    /\ next_index' = [next_index EXCEPT ![n][j] = BiggerOf(m.hint, 1)]
    /\ Dispatch(net, n, ReplicateTo(n, BiggerOf(m.hint, 1)), Peers(n), 1)
    /\ UNCHANGED <<bound, election, log, commitment, match_index, leaders_seen>>

\* An answer that is not to the leader n of this term teaches its term at most.
IgnoreAnswer(n, m, net) ==
    /\ m.type \in {"AppendOk", "AppendRejected"}
    /\ ~Answers(n, m)
    /\ Learn(n, m)
    /\ links' = net
    /\ UNCHANGED <<bound, log, commitment, progress, leaders_seen>>

\* Node::handle, on the message m from j; net is what remains in flight.
Process(n, j, m, net) ==
    \/ HandleRequestVote(n, j, m, net)
    \/ HandleVoteGranted(n, j, m, net)
    \/ BecomeLeader(n, j, m, net)
    \/ HandleVoteDenied(n, m, net)
    \/ RejectStale(n, j, m, net)
    \/ RejectMismatch(n, j, m, net)
    \/ RejectForgery(n, j, m, net)
    \/ AcceptEntries(n, j, m, net)
    \/ HandleAppendOk(n, j, m, net)
    \/ HandleBrokenChain(n, j, m, net)
    \/ HandleAppendRejected(n, j, m, net)
    \/ IgnoreAnswer(n, m, net)

\* The k-th message from j arrives, which Reorder lets overtake.
Handle(n, j, k) ==
    /\ k \in DOMAIN links[<<j, n>>]
    /\ Reorder \/ k = 1
    /\ Process(n, j, links[<<j, n>>][k], Taken(n, j, k))

-----------------------------------------------------------------------------
(* Specification                                                           *)

Init ==
    /\ bound \in Bounds
    /\ role = [n \in Nodes |-> "follower"]
    /\ term = [n \in Nodes |-> 0]
    /\ voted_for = [n \in Nodes |-> None]
    /\ votes = [n \in Nodes |-> {}]
    /\ log = [n \in Nodes |-> <<>>]
    /\ commit_index = [n \in Nodes |-> 0]
    /\ committed_history = [n \in Nodes |-> <<>>]
    /\ next_index = [n \in Nodes |-> [p \in Nodes |-> 1]]
    /\ match_index = [n \in Nodes |-> [p \in Nodes |-> 0]]
    /\ links = [l \in Links |-> <<>>]
    /\ leaders_seen = [t \in 0..bound.terms |-> {}]

Next ==
    \/ \E n \in Nodes : Elect(n) \/ Propose(n)
    \/ \E n \in Nodes : \E p \in Peers(n) : Heartbeat(n, p)
    \/ \E n \in Nodes : \E j \in Peers(n) : \E k \in 1..bound.flying : Handle(n, j, k)

Spec == Init /\ [][Next]_vars

-----------------------------------------------------------------------------
(* Properties                                                              *)

Messages ==
    [type : {"RequestVote"}, term : Nat, last_index : Nat, last_term : Nat]
      \union [type : {"VoteGranted", "VoteDenied"}, term : Nat]
      \union [type : {"AppendEntries"}, term : Nat, prev_index : Nat,
              prev_hash : Seq(Entries) \union {NoHash},
              entries : Seq(Entries), leader_commit : Nat]
      \union [type : {"AppendOk"}, term : Nat, match_index : Nat]
      \union [type : {"AppendRejected"}, term : Nat, hint : Nat,
              reason : {"StaleTerm", "LogMismatch", "BrokenChain"}]

\* The types of a node, of what it knows of its peers and of what is on the
\* links.  No index passes the bound on entries; that a leader's index of a peer
\* stays within the leader's own log is not said, as the hint of a rejection
\* (lib.rs, AppendRejected) may point past it.
TypeOK ==
    /\ bound \in Bounds
    /\ role \in [Nodes -> {"follower", "candidate", "leader"}]
    /\ term \in [Nodes -> 0..bound.terms]
    /\ voted_for \in [Nodes -> Nodes \union {None}]
    /\ votes \in [Nodes -> SUBSET Nodes]
    /\ log \in [Nodes -> Seq(Entries)]
    /\ commit_index \in [Nodes -> 0..bound.entries]
    /\ committed_history \in [Nodes -> Seq(Entries)]
    /\ next_index \in [Nodes -> [Nodes -> 1..(bound.entries + 1)]]
    /\ match_index \in [Nodes -> [Nodes -> 0..bound.entries]]
    /\ links \in [Links -> Seq(Messages)]
    /\ leaders_seen \in [0..bound.terms -> SUBSET Nodes]

\* "At most one leader per term" (sim.rs), over all that ever led it: votes are
\* repeated, lost and late, and a leader may have stood again.
ElectionSafety == \A t \in 0..bound.terms : Cardinality(leaders_seen[t]) <= 1

\* "If two nodes have an entry at the same index with the same term, the
\* entries are identical, and so is every entry before it" (sim.rs).
LogMatching ==
    \A a, b \in Nodes : \A i \in DOMAIN log[a] \intersect DOMAIN log[b] :
        log[a][i].term = log[b][i].term =>
            SubSeq(log[a], 1, i) = SubSeq(log[b], 1, i)

\* No two nodes ever report different entries committed: a strict read at one
\* frontier means the same on every node, across elections.
HistoriesAgree ==
    \A a, b \in Nodes : \/ IsPrefix(committed_history[a], committed_history[b])
                        \/ IsPrefix(committed_history[b], committed_history[a])

\* "Truncation is only ever of uncommitted entries" (lib.rs, Node::handle), and
\* a node has reported all that it counts as committed.
CommittedStaysInLog ==
    \A n \in Nodes : /\ IsPrefix(committed_history[n], log[n])
                     /\ Len(committed_history[n]) = commit_index[n]

\* What a leader takes for a replica of its log is one, until that peer has
\* moved on to a later term: lib.rs counts match indices to commit.
MatchIsHeld ==
    \A n \in Nodes : role[n] = "leader" =>
        \A p \in Peers(n) : term[p] <= term[n] =>
            /\ match_index[n][p] <= Len(log[n])
            /\ IsPrefix(SubSeq(log[n], 1, match_index[n][p]), log[p])

\* "A leader always has every committed entry" (lib.rs, the up-to-date
\* restriction): at no time is there a majority that would vote for a node
\* whose log lacks an entry that some node reported committed.
CommittedCannotBeOutvoted ==
    \A a, b \in Nodes :
        \/ IsPrefix(committed_history[a], log[b])
        \/ Cardinality({v \in Nodes : UpToDate(LastTerm(log[b]), Len(log[b]), log[v])})
              < Quorum
=============================================================================
