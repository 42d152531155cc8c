--------------------------- MODULE RaftGroupProofs ---------------------------
(***************************************************************************)
(* Proofs about RaftGroup, for every node set, every bound, and a network  *)
(* with or without reordering: states stay well formed, and a term has one *)
(* leader.  The second part is that the logs match: entries of one term at *)
(* one index end the same history, on whatever nodes they are.             *)
(***************************************************************************)
EXTENDS RaftGroup, ExtremeElements, SequenceTheorems

(***************************************************************************)
(* Sequences.                                                              *)
(***************************************************************************)

\* The part of a sequence from a to b, within it.
LEMMA PartOf ==
    ASSUME NEW S, NEW s \in Seq(S), NEW a \in Nat \ {0}, NEW b \in Nat, b <= Len(s)
    PROVE  /\ SubSeq(s, a, b) \in Seq(S)
           /\ Len(SubSeq(s, a, b)) = IF a <= b THEN b - a + 1 ELSE 0
           /\ \A i \in 1..Len(SubSeq(s, a, b)) : SubSeq(s, a, b)[i] = s[a + i - 1]
<1>1. \A i \in a..b : s[i] \in S
  BY ElementOfSeq
<1> QED
  BY <1>1, SubSeqProperties

LEMMA RangeOf ==
    ASSUME NEW S, NEW s \in Seq(S)
    PROVE  Range(s) = {s[i] : i \in 1..Len(s)} /\ Range(s) \subseteq S
<1>1. DOMAIN s = 1..Len(s)
  BY LenProperties
<1> QED
  BY <1>1, ElementOfSeq DEF Range

LEMMA RangeOfPart ==
    ASSUME NEW S, NEW s \in Seq(S), NEW a \in Nat \ {0}, NEW b \in Nat, b <= Len(s)
    PROVE  Range(SubSeq(s, a, b)) \subseteq Range(s)
<1> DEFINE t == SubSeq(s, a, b)
<1>1. /\ t \in Seq(S) /\ Len(t) = IF a <= b THEN b - a + 1 ELSE 0
      /\ \A i \in 1..Len(t) : t[i] = s[a + i - 1]
  BY PartOf
<1> HIDE DEF t
<1>2. \A i \in 1..Len(t) : a + i - 1 \in 1..Len(s)
  BY <1>1, LenProperties
<1>3. Range(t) = {t[i] : i \in 1..Len(t)} /\ Range(s) = {s[i] : i \in 1..Len(s)}
  BY <1>1, RangeOf
<1>4. \A i \in 1..Len(t) : t[i] \in Range(s)
  BY <1>1, <1>2, <1>3
<1> QED
  BY <1>3, <1>4 DEF t

LEMMA RangeOfConcat ==
    ASSUME NEW S, NEW s \in Seq(S), NEW t \in Seq(S)
    PROVE  s \o t \in Seq(S) /\ Range(s \o t) \subseteq Range(s) \union Range(t)
<1>1. s \o t \in Seq(S) /\ Len(s \o t) = Len(s) + Len(t)
      /\ \A i \in 1..(Len(s) + Len(t)) : (s \o t)[i] =
            IF i <= Len(s) THEN s[i] ELSE t[i - Len(s)]
  BY ConcatProperties
<1>2. Len(s) \in Nat /\ Len(t) \in Nat
  BY LenProperties
<1>0. Range(s \o t) = {(s \o t)[i] : i \in 1..Len(s \o t)}
      /\ Range(s) = {s[i] : i \in 1..Len(s)} /\ Range(t) = {t[i] : i \in 1..Len(t)}
  <2> DEFINE u == s \o t
  <2>1. u \in Seq(S)
    BY <1>1
  <2> HIDE DEF u
  <2>2. Range(u) = {u[i] : i \in 1..Len(u)}
    BY <2>1, RangeOf
  <2> QED
    BY <2>2, RangeOf DEF u
<1> SUFFICES ASSUME NEW i \in 1..Len(s \o t)
             PROVE  (s \o t)[i] \in Range(s) \union Range(t)
  BY <1>0, <1>1
<1>3. CASE i <= Len(s)
  <2>1. i \in 1..Len(s) /\ (s \o t)[i] = s[i]
    BY <1>1, <1>2, <1>3
  <2> QED
    BY <1>0, <2>1
<1>4. CASE ~(i <= Len(s))
  <2>1. i - Len(s) \in 1..Len(t) /\ (s \o t)[i] = t[i - Len(s)]
    BY <1>1, <1>2, <1>4
  <2> QED
    BY <1>0, <2>1
<1> QED
  BY <1>3, <1>4

LEMMA Removed ==
    ASSUME NEW S, NEW s \in Seq(S), NEW k \in DOMAIN s
    PROVE  RemoveAt(s, k) \in Seq(S) /\ Range(RemoveAt(s, k)) \subseteq Range(s)
<1>1. k \in 1..Len(s) /\ Len(s) \in Nat
  BY LenProperties
<1>2. /\ SubSeq(s, 1, k - 1) \in Seq(S) /\ Range(SubSeq(s, 1, k - 1)) \subseteq Range(s)
      /\ SubSeq(s, k + 1, Len(s)) \in Seq(S)
      /\ Range(SubSeq(s, k + 1, Len(s))) \subseteq Range(s)
  BY <1>1, PartOf, RangeOfPart
<1> DEFINE a == SubSeq(s, 1, k - 1)
           b == SubSeq(s, k + 1, Len(s))
<1>3. RemoveAt(s, k) = a \o b
  BY DEF RemoveAt
<1>4. a \in Seq(S) /\ b \in Seq(S) /\ Range(a) \subseteq Range(s)
      /\ Range(b) \subseteq Range(s)
  BY <1>2
<1> HIDE DEF a, b
<1>5. a \o b \in Seq(S) /\ Range(a \o b) \subseteq Range(a) \union Range(b)
  BY <1>4, RangeOfConcat
<1> QED
  BY <1>3, <1>4, <1>5

(***************************************************************************)
(* Messages.                                                               *)
(***************************************************************************)

\* The messages that keep within the bounds.
Fitting ==
    {m \in Messages :
        /\ m.term <= bound.terms
        /\ m.type = "AppendEntries" => m.prev_index + Len(m.entries) <= bound.entries
        /\ m.type = "AppendOk" => m.match_index <= bound.entries
        /\ m.type = "AppendRejected" => m.hint <= bound.entries}

LEMMA MessageFields ==
    ASSUME NEW m \in Messages
    PROVE  /\ m.term \in Nat
           /\ m.type \in {"RequestVote", "VoteGranted", "VoteDenied", "AppendEntries",
                          "AppendOk", "AppendRejected"}
           /\ m.type = "AppendEntries" =>
                 /\ m.prev_index \in Nat /\ m.leader_commit \in Nat
                 /\ m.prev_hash \in Seq(Entries) \union {NoHash}
                 /\ m.entries \in Seq(Entries)
           /\ m.type = "AppendOk" => m.match_index \in Nat
           /\ m.type = "AppendRejected" => m.hint \in Nat
  BY DEF Messages

(***************************************************************************)
(* Well-formed states, part by part: what is in flight keeps within the    *)
(* bounds, and so do the logs.                                             *)
(***************************************************************************)

ElectionOK ==
    /\ role \in [Nodes -> {"follower", "candidate", "leader"}]
    /\ term \in [Nodes -> 0..bound.terms]
    /\ voted_for \in [Nodes -> Nodes \union {None}]
    /\ votes \in [Nodes -> SUBSET Nodes]

LogsOK ==
    /\ log \in [Nodes -> Seq(Entries)]
    /\ \A n \in Nodes : Len(log[n]) <= bound.entries

CommitmentOK ==
    /\ commit_index \in [Nodes -> 0..bound.entries]
    /\ committed_history \in [Nodes -> Seq(Entries)]

ProgressOK ==
    /\ next_index \in [Nodes -> [Nodes -> 1..(bound.entries + 1)]]
    /\ match_index \in [Nodes -> [Nodes -> 0..bound.entries]]

SeenOK == leaders_seen \in [0..bound.terms -> SUBSET Nodes]

Shapes ==
    /\ bound \in Bounds
    /\ ElectionOK /\ LogsOK /\ CommitmentOK /\ ProgressOK /\ SeenOK
    /\ links \in [Links -> Seq(Fitting)]

LEMMA NodesAndBounds ==
    ASSUME bound \in Bounds
    PROVE  bound.terms \in Nat /\ bound.entries \in Nat /\ bound.flying \in Nat
  BY RaftAssumption

LEMMA ShapesTyped == ASSUME Shapes PROVE TypeOK
<1>1. \A l \in Links : links[l] \in Seq(Messages)
  <2> TAKE l \in Links
  <2>1. links[l] \in Seq(Fitting) /\ Fitting \subseteq Messages
    BY DEF Shapes, Fitting
  <2> QED
    BY <2>1, SeqMonotonic
<1>2. links \in [Links -> Seq(Messages)]
  BY <1>1 DEF Shapes
<1> QED
  BY <1>2 DEF Shapes, ElectionOK, LogsOK, CommitmentOK, ProgressOK, SeenOK, TypeOK

\* What links of a network hold.
NetOK(net) == net \in [Links -> Seq(Fitting)]

LEMMA TakenOK ==
    ASSUME Shapes, NEW n \in Nodes, NEW j \in Peers(n), NEW k \in DOMAIN links[<<j, n>>]
    PROVE  /\ links[<<j, n>>][k] \in Fitting
           /\ links[<<j, n>>][k] \in Range(links[<<j, n>>])
           /\ NetOK(Taken(n, j, k))
           /\ \A l \in Links : Range(Taken(n, j, k)[l]) \subseteq Range(links[l])
<1>1. <<j, n>> \in Links
  BY DEF Links, Peers
<1> DEFINE q == links[<<j, n>>]
<1>2. q \in Seq(Fitting)
  BY <1>1 DEF Shapes
<1>3. RemoveAt(q, k) \in Seq(Fitting) /\ Range(RemoveAt(q, k)) \subseteq Range(q)
  <2> HIDE DEF q
  <2>1. k \in DOMAIN q
    BY DEF q
  <2> QED
    BY <1>2, <2>1, Removed
<1>4. q[k] \in Fitting /\ q[k] \in Range(q)
  BY <1>2, LenProperties, ElementOfSeq DEF Range
<1>5. Taken(n, j, k) = [links EXCEPT ![<<j, n>>] = RemoveAt(q, k)]
  BY DEF Taken
<1>6. links \in [Links -> Seq(Fitting)]
  BY DEF Shapes
<1> HIDE DEF q
<1>7. NetOK(Taken(n, j, k))
  BY <1>1, <1>3, <1>5, <1>6 DEF NetOK
<1>8. \A l \in Links : Range(Taken(n, j, k)[l]) \subseteq Range(links[l])
  BY <1>1, <1>3, <1>5, <1>6 DEF q
<1> QED
  BY <1>4, <1>7, <1>8 DEF q

\* What is sent is added to the links from the sender to the addressees.
LEMMA Dispatched ==
    ASSUME NEW net, NetOK(net), NEW n, NEW m \in Fitting, NEW dests,
           NEW most \in Nat, Dispatch(net, n, m, dests, most)
    PROVE  /\ links' \in [Links -> Seq(Fitting)]
           /\ \A l \in Links : \A x \in Range(links'[l]) :
                 x \in Range(net[l]) \/ (x = m /\ l[1] = n /\ l[2] \in dests)
<1>1. PICK c \in [dests -> 0..most] : links' = Sent(net, n, m, c)
  BY DEF Dispatch, Arrivals
<1>2. \A i \in Nat : /\ [x \in 1..i |-> m] \in Seq(Fitting)
                     /\ Range([x \in 1..i |-> m]) \subseteq {m}
  <2> TAKE i \in Nat
  <2>1. [x \in 1..i |-> m] \in Seq(Fitting)
    BY SeqDef
  <2> QED
    BY <2>1 DEF Range
<1>3. \A l \in Links : l[2] \in dests => c[l[2]] \in Nat
  OBVIOUS
<1>4. DOMAIN c = dests
  OBVIOUS
<1>5. \A l \in Links :
         links'[l] = IF l[1] = n /\ l[2] \in dests
                     THEN net[l] \o [i \in 1..c[l[2]] |-> m] ELSE net[l]
  BY <1>1, <1>4 DEF Sent
<1>6. links' = [l \in Links |-> links'[l]]
  BY <1>1 DEF Sent
<1>7. ASSUME NEW l \in Links
      PROVE  /\ links'[l] \in Seq(Fitting)
             /\ \A x \in Range(links'[l]) :
                   x \in Range(net[l]) \/ (x = m /\ l[1] = n /\ l[2] \in dests)
  <2>1. net[l] \in Seq(Fitting)
    BY DEF NetOK
  <2>2. CASE l[1] = n /\ l[2] \in dests
    <3> DEFINE t == [i \in 1..c[l[2]] |-> m]
    <3>1. t \in Seq(Fitting) /\ Range(t) \subseteq {m}
      BY <1>2, <1>3, <2>2
    <3>2. links'[l] = net[l] \o t
      BY <1>5, <2>2
    <3> HIDE DEF t
    <3>3. links'[l] \in Seq(Fitting) /\ Range(links'[l]) \subseteq Range(net[l]) \union Range(t)
      BY <2>1, <3>1, <3>2, RangeOfConcat
    <3> QED
      BY <2>2, <3>1, <3>3
  <2>3. CASE ~(l[1] = n /\ l[2] \in dests)
    BY <1>5, <2>1, <2>3
  <2> QED
    BY <2>2, <2>3
<1> QED
  BY <1>6, <1>7

(***************************************************************************)
(* What is sent keeps within the bounds.                                   *)
(***************************************************************************)

LEMMA EntriesOf ==
    ASSUME NEW l \in Seq(Entries)
    PROVE  Len(l) \in Nat /\ LastTerm(l) \in Nat /\ DOMAIN l = 1..Len(l)
<1>1. Len(l) \in Nat /\ DOMAIN l = 1..Len(l)
  BY LenProperties
<1>2. ASSUME l # <<>> PROVE l[Len(l)] \in Entries
  BY <1>1, <1>2, EmptySeq, ElementOfSeq
<1> QED
  BY <1>1, <1>2 DEF LastTerm, Entries

LEMMA RequestFits ==
    ASSUME Shapes, NEW n \in Nodes, term[n] < bound.terms
    PROVE  [type |-> "RequestVote", term |-> term[n] + 1,
            last_index |-> Len(log[n]), last_term |-> LastTerm(log[n])] \in Fitting
<1>1. log[n] \in Seq(Entries) /\ term[n] \in Nat /\ bound.terms \in Nat
  BY NodesAndBounds DEF Shapes, LogsOK, ElectionOK
<1>2. Len(log[n]) \in Nat /\ LastTerm(log[n]) \in Nat
  BY <1>1, EntriesOf
<1> QED
  BY <1>1, <1>2 DEF Fitting, Messages

LEMMA VoteFits ==
    ASSUME NEW t \in 0..bound.terms, bound \in Bounds
    PROVE  /\ [type |-> "VoteGranted", term |-> t] \in Fitting
           /\ [type |-> "VoteDenied", term |-> t] \in Fitting
  BY NodesAndBounds DEF Fitting, Messages

LEMMA RejectionFits ==
    ASSUME NEW n, NEW m, BiggerOf(term[n], m.term) \in 0..bound.terms, bound \in Bounds,
           NEW hint \in 0..bound.entries,
           NEW why \in {"StaleTerm", "LogMismatch", "BrokenChain"}
    PROVE  Rejection(n, m, hint, why) \in Fitting
  BY NodesAndBounds DEF Fitting, Messages, Rejection

LEMMA OkFits ==
    ASSUME NEW t \in 0..bound.terms, NEW i \in 0..bound.entries, bound \in Bounds
    PROVE  [type |-> "AppendOk", term |-> t, match_index |-> i] \in Fitting
  BY NodesAndBounds DEF Fitting, Messages

LEMMA AppendFits ==
    ASSUME Shapes, NEW n \in Nodes, NEW next \in 1..(bound.entries + 1)
    PROVE  ReplicateTo(n, next) \in Fitting
<1>1. log[n] \in Seq(Entries) /\ Len(log[n]) \in Nat /\ Len(log[n]) <= bound.entries
      /\ term[n] \in Nat /\ term[n] <= bound.terms /\ commit_index[n] \in Nat
  BY NodesAndBounds, EntriesOf DEF Shapes, LogsOK, ElectionOK, CommitmentOK
<1>2. bound.terms \in Nat /\ bound.entries \in Nat
  BY NodesAndBounds DEF Shapes
<1>3. HashAt(log[n], next - 1) \in Seq(Entries) \union {NoHash}
  <2>1. CASE next - 1 <= Len(log[n])
    BY <1>1, <1>2, <2>1, PartOf DEF HashAt
  <2>2. CASE ~(next - 1 <= Len(log[n]))
    BY <2>2 DEF HashAt
  <2> QED
    BY <2>1, <2>2
<1> DEFINE e == SubSeq(log[n], next, Len(log[n]))
<1>4. e \in Seq(Entries) /\ Len(e) = IF next <= Len(log[n]) THEN Len(log[n]) - next + 1 ELSE 0
  BY <1>1, <1>2, PartOf
<1>5. next - 1 \in Nat /\ next - 1 + Len(e) <= bound.entries
  BY <1>1, <1>2, <1>4
<1>6. ReplicateTo(n, next) =
         [type |-> "AppendEntries", term |-> term[n], prev_index |-> next - 1,
          prev_hash |-> HashAt(log[n], next - 1), entries |-> e,
          leader_commit |-> commit_index[n]]
  BY DEF ReplicateTo
<1> DEFINE r == ReplicateTo(n, next)
           h == HashAt(log[n], next - 1)
           i == next - 1
<1>7. /\ r = [type |-> "AppendEntries", term |-> term[n], prev_index |-> i,
              prev_hash |-> h, entries |-> e, leader_commit |-> commit_index[n]]
      /\ h \in Seq(Entries) \union {NoHash} /\ i \in Nat /\ e \in Seq(Entries)
  BY <1>3, <1>4, <1>5, <1>6
<1>8. i + Len(e) <= bound.entries
  BY <1>5
<1> HIDE DEF e, r, h, i
<1>9. r \in [type : {"AppendEntries"}, term : Nat, prev_index : Nat,
             prev_hash : Seq(Entries) \union {NoHash},
             entries : Seq(Entries), leader_commit : Nat]
  BY <1>1, <1>7
<1>10. r \in Messages
  BY <1>9 DEF Messages
<1>11. r.type = "AppendEntries" /\ r.term <= bound.terms
       /\ r.prev_index + Len(r.entries) <= bound.entries
  BY <1>1, <1>7, <1>8
<1>12. r \in Fitting
  BY <1>10, <1>11 DEF Fitting
<1> QED
  BY <1>12 DEF r

(***************************************************************************)
(* Every step keeps the states well formed.                                *)
(***************************************************************************)

LEMMA BoundStays == ASSUME [Next]_vars PROVE bound' = bound
<1>1. ASSUME NEW n \in Nodes, NEW j \in Nodes, NEW m, NEW net, Process(n, j, m, net)
      PROVE  bound' = bound
  BY <1>1 DEF Process, HandleRequestVote, HandleVoteGranted, BecomeLeader, HandleVoteDenied,
     RejectStale, RejectMismatch, RejectForgery, AcceptEntries, HandleAppendOk,
     HandleBrokenChain, HandleAppendRejected, IgnoreAnswer
<1> QED
  BY <1>1 DEF Next, vars, Elect, Propose, Heartbeat, Handle, Peers

\* With ordered links, m is the first message from j and net what remains.
First(n, j, m, net) == ~Reorder => m = links[<<j, n>>][1] /\ net = Taken(n, j, 1)

\* What arrives keeps within the bounds, and what remains was in flight.
LEMMA Received ==
    ASSUME Shapes, NEW n \in Nodes, NEW j \in Peers(n), NEW k, Handle(n, j, k)
    PROVE  \E m \in Fitting : \E net :
              /\ NetOK(net)
              /\ m \in Range(links[<<j, n>>])
              /\ \A l \in Links : Range(net[l]) \subseteq Range(links[l])
              /\ First(n, j, m, net)
              /\ Process(n, j, m, net)
<1> DEFINE m == links[<<j, n>>][k]
           net == Taken(n, j, k)
<1>1. m \in Fitting /\ m \in Range(links[<<j, n>>]) /\ NetOK(net)
      /\ \A l \in Links : Range(net[l]) \subseteq Range(links[l])
  BY TakenOK DEF Handle
<1>2. Process(n, j, m, net)
  BY DEF Handle
<1>3. First(n, j, m, net)
  BY DEF Handle, First
<1> HIDE DEF m, net
<1> QED
  BY <1>1, <1>2, <1>3

LEMMA TermsOf ==
    ASSUME Shapes, NEW n \in Nodes, NEW m \in Fitting
    PROVE  /\ BiggerOf(term[n], m.term) \in 0..bound.terms
           /\ BiggerOf(term[n], m.term) >= term[n] /\ BiggerOf(term[n], m.term) >= m.term
           /\ term[n] \in Nat /\ m.term \in Nat
<1>1. m.term \in Nat /\ m.term <= bound.terms
  BY MessageFields DEF Fitting
<1>2. term[n] \in 0..bound.terms /\ bound.terms \in Nat
  BY NodesAndBounds DEF Shapes, ElectionOK
<1> QED
  BY <1>1, <1>2 DEF BiggerOf

LEMMA ElectionStep == ASSUME Shapes, [Next]_vars PROVE ElectionOK'
<1>0. bound' = bound /\ bound.terms \in Nat /\ ElectionOK
  BY BoundStays, NodesAndBounds DEF Shapes
<1>1. ASSUME NEW n \in Nodes, NEW j \in Peers(n), NEW m \in Fitting, NEW net,
             Process(n, j, m, net)
      PROVE  ElectionOK'
  <2>1. BiggerOf(term[n], m.term) \in 0..bound.terms /\ j \in Nodes
    BY TermsOf DEF Peers
  <2>2. /\ Role(n, m) \in {"follower", "candidate", "leader"}
        /\ VotedFor(n, m) \in Nodes \union {None} /\ Votes(n, m) \in SUBSET Nodes
    BY <1>0 DEF ElectionOK, Role, VotedFor, Votes
  <2>3. CASE UNCHANGED election
    BY <1>0, <2>3 DEF ElectionOK, election
  <2>4. CASE HandleRequestVote(n, j, m, net)
    BY <1>0, <2>1, <2>2, <2>4 DEF ElectionOK, HandleRequestVote, LearnTerm
  <2>5. CASE HandleVoteGranted(n, j, m, net)
    BY <1>0, <2>1, <2>2, <2>5 DEF ElectionOK, HandleVoteGranted, LearnTerm
  <2>6. CASE BecomeLeader(n, j, m, net)
    BY <1>0, <2>1, <2>2, <2>6 DEF ElectionOK, BecomeLeader
  <2>7. CASE Learn(n, m)
    BY <1>0, <2>1, <2>2, <2>7 DEF ElectionOK, Learn, LearnTerm
  <2>8. CASE Follow(n, m)
    BY <1>0, <2>1, <2>2, <2>8 DEF ElectionOK, Follow, LearnTerm
  <2> QED
    BY <1>1, <2>3, <2>4, <2>5, <2>6, <2>7, <2>8 DEF Process, HandleVoteDenied, RejectStale,
       RejectMismatch, RejectForgery, AcceptEntries, HandleAppendOk, HandleBrokenChain,
       HandleAppendRejected, IgnoreAnswer
<1>2. ASSUME NEW n \in Nodes, Elect(n) PROVE ElectionOK'
  BY <1>0, <1>2 DEF ElectionOK, Elect
<1>3. CASE UNCHANGED election
  BY <1>0, <1>3 DEF ElectionOK, election
<1>4. ASSUME NEW n \in Nodes, NEW j \in Peers(n), NEW k, Handle(n, j, k) PROVE ElectionOK'
  BY <1>1, <1>4, Received
<1> QED
  BY <1>2, <1>3, <1>4 DEF Next, vars, Propose, Heartbeat

\* What is true of a message as it is sent.
SentNow(l, x) ==
    /\ x.type = "RequestVote" =>
          /\ x.term = term'[l[1]] /\ x.last_index = Len(log[l[1]])
          /\ x.last_term = LastTerm(log[l[1]]) /\ log' = log
    /\ x.type = "VoteGranted" =>
          /\ voted_for'[l[1]] = l[2] /\ x.term = term'[l[1]] /\ log' = log
          /\ \E m \in Range(links[<<l[2], l[1]>>]) :
                /\ m.type = "RequestVote" /\ m.term = x.term
                /\ UpToDate(m.last_term, m.last_index, log[l[1]])
    /\ x.type = "AppendEntries" =>
          /\ role[l[1]] = "leader" /\ log' = log /\ UNCHANGED election
          /\ \E p \in Nodes : x = ReplicateTo(l[1], next_index'[l[1]][p])
    /\ x.type = "AppendOk" =>
          \E m, net :
             /\ m \in Range(links[<<l[2], l[1]>>])
             /\ First(l[1], l[2], m, net) /\ AcceptEntries(l[1], l[2], m, net)
             /\ x.term = m.term /\ x.match_index = Len(Extended(l[1], m))
    /\ x.type = "AppendRejected" /\ x.reason = "LogMismatch" =>
          \E m \in Range(links[<<l[2], l[1]>>]) :
             /\ m.type = "AppendEntries" /\ m.term = x.term
             /\ x.hint < m.prev_index

LEMMA HintFits ==
    ASSUME Shapes, NEW n \in Nodes, NEW m \in Fitting, m.type = "AppendRejected"
    PROVE  BiggerOf(m.hint, 1) \in 1..(bound.entries + 1)
<1>1. m.hint \in Nat /\ m.hint <= bound.entries /\ bound.entries \in Nat
  BY MessageFields, NodesAndBounds DEF Fitting, Shapes
<1> QED
  BY <1>1 DEF BiggerOf

\* What n has in its log after it accepted the entries of m.
LEMMA ExtendedFacts ==
    ASSUME Shapes, NEW n \in Nodes, NEW m \in Fitting, m.type = "AppendEntries"
    PROVE  LET cut == SmallerOf(m.prev_index, Len(log[n]))
           IN /\ cut \in Nat /\ cut <= Len(log[n]) /\ cut <= m.prev_index
              /\ SubSeq(log[n], 1, cut) \in Seq(Entries) /\ Len(SubSeq(log[n], 1, cut)) = cut
              /\ m.entries \in Seq(Entries)
              /\ Extended(n, m) = SubSeq(log[n], 1, cut) \o m.entries
              /\ Extended(n, m) \in Seq(Entries)
              /\ Len(Extended(n, m)) = cut + Len(m.entries)
              /\ Len(Extended(n, m)) <= bound.entries
<1> DEFINE cut == SmallerOf(m.prev_index, Len(log[n]))
           t == SubSeq(log[n], 1, cut)
<1>1. log[n] \in Seq(Entries) /\ Len(log[n]) \in Nat /\ bound.entries \in Nat
  BY EntriesOf, NodesAndBounds DEF Shapes, LogsOK
<1>2. /\ m.prev_index \in Nat /\ m.entries \in Seq(Entries) /\ Len(m.entries) \in Nat
      /\ m.prev_index + Len(m.entries) <= bound.entries
  BY MessageFields, EntriesOf DEF Fitting
<1>3. cut \in Nat /\ cut <= Len(log[n]) /\ cut <= m.prev_index
  BY <1>1, <1>2 DEF SmallerOf
<1>4. Extended(n, m) = t \o m.entries
  BY DEF Extended
<1> HIDE DEF cut
<1>5. t \in Seq(Entries) /\ Len(t) = cut
  BY <1>1, <1>3, PartOf
<1> HIDE DEF t
<1>6. t \o m.entries \in Seq(Entries) /\ Len(t \o m.entries) = Len(t) + Len(m.entries)
  BY <1>2, <1>5, ConcatProperties
<1>7. Extended(n, m) \in Seq(Entries) /\ Len(Extended(n, m)) = cut + Len(m.entries)
  BY <1>4, <1>5, <1>6
<1>8. Len(Extended(n, m)) <= bound.entries
  BY <1>1, <1>2, <1>3, <1>7
<1> QED
  BY <1>2, <1>3, <1>4, <1>5, <1>7, <1>8 DEF t, cut

\* Every message in flight after a step was in flight before it, or was sent in it.
LEMMA LinksStep ==
    ASSUME Shapes, [Next]_vars
    PROVE  /\ links' \in [Links -> Seq(Fitting)]
           /\ \A l \in Links : \A x \in Range(links'[l]) :
                 x \in Range(links[l]) \/ SentNow(l, x)
<1> DEFINE Goal == /\ links' \in [Links -> Seq(Fitting)]
                   /\ \A l \in Links : \A x \in Range(links'[l]) :
                         x \in Range(links[l]) \/ SentNow(l, x)
<1>0. NetOK(links) /\ bound.entries \in Nat
  BY NodesAndBounds DEF Shapes, NetOK
<1>1. ASSUME NEW n \in Nodes, NEW net, NetOK(net), NEW x \in Fitting, NEW dests,
             NEW most \in Nat, Dispatch(net, n, x, dests, most),
             \A l \in Links : Range(net[l]) \subseteq Range(links[l]),
             \A l \in Links : l[1] = n /\ l[2] \in dests => SentNow(l, x)
      PROVE  Goal
  <2>1. /\ links' \in [Links -> Seq(Fitting)]
        /\ \A l \in Links : \A y \in Range(links'[l]) :
              y \in Range(net[l]) \/ (y = x /\ l[1] = n /\ l[2] \in dests)
    BY <1>1, Dispatched
  <2> SUFFICES ASSUME NEW l \in Links, NEW y \in Range(links'[l])
               PROVE  y \in Range(links[l]) \/ SentNow(l, y)
    BY <2>1 DEF Goal
  <2>2. CASE y \in Range(net[l])
    BY <1>1, <2>2
  <2>3. CASE y = x /\ l[1] = n /\ l[2] \in dests
    BY <1>1, <2>3
  <2> QED
    BY <2>1, <2>2, <2>3
<1> HIDE DEF Goal
<1>2. ASSUME NEW n \in Nodes, NEW x \in Fitting, NEW dests, NEW most \in Nat,
             Dispatch(links, n, x, dests, most),
             \A l \in Links : l[1] = n /\ l[2] \in dests => SentNow(l, x)
      PROVE  Goal
  BY <1>0, <1>1, <1>2
<1>3. ASSUME NEW n \in Nodes, Elect(n) PROVE Goal
  <2> DEFINE x == [type |-> "RequestVote", term |-> term[n] + 1,
                   last_index |-> Len(log[n]), last_term |-> LastTerm(log[n])]
  <2>1. x \in Fitting /\ Dispatch(links, n, x, Peers(n), Cardinality(Peers(n)))
    BY <1>3, RequestFits DEF Elect
  <2>2. Cardinality(Peers(n)) \in Nat
    BY RaftAssumption, FS_RemoveElement, FS_CardinalityType DEF Peers
  <2>3. ASSUME NEW l, l[1] = n PROVE SentNow(l, x)
    <3>1. log' = log /\ term'[n] = term[n] + 1
      BY <1>3 DEF Elect, Shapes, ElectionOK
    <3> QED
      BY <2>3, <3>1 DEF SentNow
  <2> HIDE DEF x
  <2> QED
    BY <1>2, <2>1, <2>2, <2>3
<1>4. ASSUME NEW n \in Nodes, NEW p \in Peers(n), Heartbeat(n, p) PROVE Goal
  <2>1. next_index[n][p] \in 1..(bound.entries + 1)
    BY DEF Shapes, ProgressOK, Peers
  <2> DEFINE x == ReplicateTo(n, next_index[n][p])
  <2>2. x \in Fitting /\ Dispatch(links, n, x, {p}, 1)
    BY <1>4, <2>1, AppendFits DEF Heartbeat
  <2>3. ASSUME NEW l, l[1] = n PROVE SentNow(l, x)
    <3>1. x.type = "AppendEntries"
      BY DEF ReplicateTo
    <3>2. /\ role[n] = "leader" /\ log' = log /\ UNCHANGED election
          /\ x = ReplicateTo(n, next_index'[n][p]) /\ p \in Nodes
      BY <1>4 DEF Heartbeat, progress, Peers
    <3> HIDE DEF x
    <3> QED
      BY <2>3, <3>1, <3>2 DEF SentNow
  <2> HIDE DEF x
  <2> QED
    BY <1>2, <2>2, <2>3
<1>5. ASSUME NEW n \in Nodes, NEW j \in Peers(n), NEW m \in Fitting, NEW net,
             NetOK(net), \A l \in Links : Range(net[l]) \subseteq Range(links[l]),
             m \in Range(links[<<j, n>>]), First(n, j, m, net), Process(n, j, m, net)
      PROVE  Goal
  <2>0. m.term >= term[n] => BiggerOf(term[n], m.term) = m.term
    BY TermsOf DEF BiggerOf
  <2>1. BiggerOf(term[n], m.term) \in 0..bound.terms /\ bound \in Bounds
    BY TermsOf DEF Shapes
  <2>2. CASE HandleRequestVote(n, j, m, net)
    <3> DEFINE x == [type |-> IF Grants(n, j, m) THEN "VoteGranted" ELSE "VoteDenied",
                     term |-> BiggerOf(term[n], m.term)]
    <3>1. x \in Fitting
      BY <2>1, VoteFits
    <3>2. Dispatch(net, n, x, {j}, 1)
      BY <2>2 DEF HandleRequestVote
    <3>3. ASSUME NEW l, l[1] = n, l[2] = j PROVE SentNow(l, x)
      <4>1. /\ term'[n] = BiggerOf(term[n], m.term) /\ (Grants(n, j, m) => voted_for'[n] = j)
            /\ m.type = "RequestVote" /\ log' = log
        BY <2>2 DEF HandleRequestVote, LearnTerm, Shapes, ElectionOK
      <4>2. CASE Grants(n, j, m)
        <5>1. m.term >= term[n] /\ UpToDate(m.last_term, m.last_index, log[n])
          BY <4>2 DEF Grants
        <5>2. x.type = "VoteGranted" /\ x.term = m.term
          BY <2>0, <4>2, <5>1
        <5> HIDE DEF x
        <5> QED
          BY <1>5, <2>0, <3>3, <4>1, <4>2, <5>1, <5>2 DEF SentNow
      <4>3. CASE ~Grants(n, j, m)
        <5>1. x.type = "VoteDenied"
          BY <4>3
        <5> QED
          BY <5>1 DEF SentNow
      <4> QED
        BY <4>2, <4>3
    <3> HIDE DEF x
    <3> QED
      BY <1>1, <1>5, <3>1, <3>2, <3>3
  <2>3. CASE links' = net
    BY <1>5, <2>3 DEF Goal, NetOK
  <2>4. ASSUME NEW hint \in 0..bound.entries, NEW why \in {"StaleTerm", "LogMismatch", "BrokenChain"},
               Dispatch(net, n, Rejection(n, m, hint, why), {j}, 1),
               why = "LogMismatch" =>
                  m.type = "AppendEntries" /\ m.term >= term[n] /\ hint < m.prev_index
        PROVE  Goal
    <3>1. Rejection(n, m, hint, why) \in Fitting
      BY <2>1, RejectionFits
    <3>2. ASSUME NEW l, l[1] = n, l[2] = j PROVE SentNow(l, Rejection(n, m, hint, why))
      <4> DEFINE x == Rejection(n, m, hint, why)
      <4>1. x.type = "AppendRejected" /\ x.reason = why /\ x.hint = hint
            /\ x.term = BiggerOf(term[n], m.term)
        BY DEF Rejection
      <4> HIDE DEF x
      <4>2. SentNow(l, x)
        BY <1>5, <2>0, <2>4, <3>2, <4>1 DEF SentNow
      <4> QED
        BY <4>2 DEF x
    <3> QED
      BY <1>1, <1>5, <2>4, <3>1, <3>2
  <2>5. Len(log[n]) \in 0..bound.entries
    BY <1>0, EntriesOf DEF Shapes, LogsOK
  <2>6. CASE RejectStale(n, j, m, net)
    BY <2>4, <2>5, <2>6 DEF RejectStale
  <2>7. CASE RejectMismatch(n, j, m, net)
    <3>1. m.type = "AppendEntries" /\ m.prev_index # 0
      BY <2>7 DEF RejectMismatch, Follow, HasPrevious
    <3>2. m.prev_index \in Nat /\ m.prev_index - 1 \in Nat
      BY <3>1, MessageFields DEF Fitting
    <3>3. /\ SmallerOf(Len(log[n]), m.prev_index - 1) \in 0..bound.entries
          /\ SmallerOf(Len(log[n]), m.prev_index - 1) < m.prev_index
      BY <1>0, <2>5, <3>2 DEF SmallerOf
    <3> QED
      BY <2>4, <2>7, <3>1, <3>3 DEF RejectMismatch, Follow
  <2>8. CASE RejectForgery(n, j, m, net)
    <3>1. m.type = "AppendEntries" /\ m.prev_index \in Nat /\ Len(m.entries) \in Nat
          /\ m.prev_index + Len(m.entries) <= bound.entries
      BY <2>8, MessageFields, EntriesOf DEF RejectForgery, Follow, Fitting
    <3>2. m.prev_index \in 0..bound.entries
      BY <1>0, <3>1
    <3> QED
      BY <2>4, <2>8, <3>2 DEF RejectForgery
  <2>9. CASE AcceptEntries(n, j, m, net)
    <3> DEFINE x == [type |-> "AppendOk", term |-> BiggerOf(term[n], m.term),
                     match_index |-> Len(Extended(n, m))]
    <3>1. Len(Extended(n, m)) \in 0..bound.entries
      BY <1>0, <2>9, ExtendedFacts, EntriesOf DEF AcceptEntries, Follow
    <3>2. x \in Fitting
      BY <2>1, <3>1, OkFits
    <3>3. Dispatch(net, n, x, {j}, 1)
      BY <2>9 DEF AcceptEntries
    <3>4. ASSUME NEW l, l[1] = n, l[2] = j PROVE SentNow(l, x)
      <4>1. x.type = "AppendOk" /\ x.term = m.term /\ x.match_index = Len(Extended(n, m))
        BY <2>0, <2>9 DEF AcceptEntries, Follow
      <4> HIDE DEF x
      <4> QED
        BY <1>5, <2>9, <3>4, <4>1 DEF SentNow
    <3> HIDE DEF x
    <3> QED
      BY <1>1, <1>5, <3>2, <3>3, <3>4
  <2>10. CASE HandleAppendRejected(n, j, m, net)
    <3> DEFINE next == BiggerOf(m.hint, 1)
               x == ReplicateTo(n, next)
    <3>1. next \in 1..(bound.entries + 1)
      BY <2>10, HintFits DEF HandleAppendRejected
    <3>2. x \in Fitting
      BY <3>1, AppendFits
    <3>3. Dispatch(net, n, x, Peers(n), 1)
      BY <2>10 DEF HandleAppendRejected
    <3>4. /\ role[n] = "leader" /\ log' = log /\ UNCHANGED election
          /\ next_index'[n][j] = next /\ j \in Nodes
      BY <2>10 DEF HandleAppendRejected, Answers, Shapes, ProgressOK, Peers
    <3>5. ASSUME NEW l, l[1] = n PROVE SentNow(l, x)
      <4>1. x.type = "AppendEntries" /\ x = ReplicateTo(n, next_index'[n][j])
        BY <3>4 DEF ReplicateTo
      <4> HIDE DEF next, x
      <4> QED
        BY <3>4, <3>5, <4>1 DEF SentNow
    <3> HIDE DEF x
    <3> QED
      BY <1>1, <1>5, <3>2, <3>3, <3>5
  <2> QED
    BY <1>5, <2>2, <2>3, <2>6, <2>7, <2>8, <2>9, <2>10 DEF Process, HandleVoteGranted,
       BecomeLeader, HandleVoteDenied, HandleAppendOk, HandleBrokenChain, IgnoreAnswer
<1>6. links' = links => Goal
  BY <1>0 DEF Goal, NetOK
<1>7. ASSUME NEW n \in Nodes, NEW j \in Peers(n), NEW k, Handle(n, j, k) PROVE Goal
  BY <1>5, <1>7, Received
<1>8. Goal
  <2>1. ASSUME NEW n \in Nodes, Propose(n) PROVE Goal
    BY <1>6, <2>1 DEF Propose
  <2>2. CASE Next
    BY <1>3, <1>4, <1>7, <2>1, <2>2 DEF Next
  <2>3. CASE UNCHANGED vars
    BY <1>6, <2>3 DEF vars
  <2> QED
    BY <2>2, <2>3
<1> QED
  BY <1>8 DEF Goal

LEMMA LogsStep == ASSUME Shapes, [Next]_vars PROVE LogsOK'
<1>0. bound' = bound /\ bound.entries \in Nat /\ LogsOK
  BY BoundStays, NodesAndBounds DEF Shapes
<1>1. log' = log => LogsOK'
  BY <1>0 DEF LogsOK
<1>2. ASSUME NEW n \in Nodes, NEW l \in Seq(Entries), Len(l) <= bound.entries,
             log' = [log EXCEPT ![n] = l]
      PROVE  LogsOK'
  BY <1>0, <1>2 DEF LogsOK
<1>3. ASSUME NEW n \in Nodes, Propose(n) PROVE LogsOK'
  <2> DEFINE e == [term |-> term[n], by |-> n]
             l == Append(log[n], e)
  <2>1. e \in Entries
    BY DEF Entries, Shapes, ElectionOK
  <2>2. log[n] \in Seq(Entries) /\ Len(log[n]) \in Nat
    BY <1>0, EntriesOf DEF LogsOK
  <2>3. l \in Seq(Entries) /\ Len(l) = Len(log[n]) + 1
    BY <2>1, <2>2, AppendProperties
  <2>4. log' = [log EXCEPT ![n] = l] /\ Len(log[n]) < bound.entries
    BY <1>3 DEF Propose
  <2>5. Len(l) <= bound.entries
    BY <1>0, <2>2, <2>3, <2>4
  <2> HIDE DEF l
  <2> QED
    BY <1>2, <2>3, <2>4, <2>5
<1>4. ASSUME NEW n \in Nodes, NEW j \in Peers(n), NEW m \in Fitting, NEW net,
             Process(n, j, m, net)
      PROVE  LogsOK'
  <2>1. CASE AcceptEntries(n, j, m, net)
    <3>1. m.type = "AppendEntries" /\ log' = [log EXCEPT ![n] = Extended(n, m)]
      BY <2>1 DEF AcceptEntries, Follow
    <3>2. Extended(n, m) \in Seq(Entries) /\ Len(Extended(n, m)) <= bound.entries
      BY <3>1, ExtendedFacts
    <3> QED
      BY <1>2, <3>1, <3>2
  <2>2. CASE log' = log
    BY <1>1, <2>2
  <2> QED
    BY <1>4, <2>1, <2>2 DEF Process, HandleRequestVote, HandleVoteGranted, BecomeLeader,
       HandleVoteDenied, RejectStale, RejectMismatch, RejectForgery, HandleAppendOk,
       HandleBrokenChain, HandleAppendRejected, IgnoreAnswer
<1>5. ASSUME NEW n \in Nodes, NEW j \in Peers(n), NEW k, Handle(n, j, k) PROVE LogsOK'
  BY <1>4, <1>5, Received
<1> QED
  BY <1>1, <1>3, <1>5 DEF Next, vars, Elect, Heartbeat

\* The commit point of a leader is in its log, or where it was.
LEMMA CommitPointFacts ==
    ASSUME Shapes, NEW n \in Nodes, NEW match
    PROVE  CommitPoint(n, match) \in 0..bound.entries
<1>1. log[n] \in Seq(Entries) /\ Len(log[n]) \in Nat /\ Len(log[n]) <= bound.entries
      /\ bound.entries \in Nat /\ commit_index[n] \in 0..bound.entries
  BY EntriesOf, NodesAndBounds DEF Shapes, LogsOK, CommitmentOK
<1> DEFINE C == Committable(n, term[n], match)
           len == Len(log[n])
<1>2. C \subseteq 1..len
  BY DEF Committable
<1>3. len \in Nat /\ len <= bound.entries
  BY <1>1
<1>4. CommitPoint(n, match) = IF C = {} THEN commit_index[n] ELSE Max(C)
  BY DEF CommitPoint
<1> HIDE DEF C, len
<1>5. ASSUME C # {} PROVE Max(C) \in C
  <2>1. IsFiniteSet(1..len)
    BY <1>3, FS_Interval
  <2>2. IsFiniteSet(C)
    BY <1>2, <2>1, FS_Subset
  <2>3. C \subseteq Nat
    BY <1>2, <1>3
  <2> QED
    BY <1>5, <2>2, <2>3, MaxOf
<1>6. ASSUME C # {} PROVE Max(C) \in 0..bound.entries
  <2>1. Max(C) \in 1..len
    BY <1>2, <1>5, <1>6
  <2>2. bound.entries \in Nat
    BY <1>1
  <2> QED
    BY <1>3, <2>1, <2>2
<1> QED
  BY <1>1, <1>4, <1>6

LEMMA RecordedTyped ==
    ASSUME Shapes, NEW n \in Nodes, NEW l \in Seq(Entries), NEW c \in Nat
    PROVE  Recorded(n, l, c) \in Seq(Entries)
<1> DEFINE h == committed_history[n]
           t == SubSeq(l, Len(h) + 1, SmallerOf(c, Len(l)))
<1>1. h \in Seq(Entries) /\ Len(h) \in Nat /\ Len(l) \in Nat
  BY EntriesOf DEF Shapes, CommitmentOK
<1>2. SmallerOf(c, Len(l)) \in Nat /\ SmallerOf(c, Len(l)) <= Len(l)
  BY <1>1 DEF SmallerOf
<1>3. t \in Seq(Entries)
  BY <1>1, <1>2, PartOf
<1>4. Recorded(n, l, c) = h \o t
  BY DEF Recorded
<1> HIDE DEF h, t
<1> QED
  BY <1>1, <1>3, <1>4, ConcatProperties

LEMMA CommitmentStep == ASSUME Shapes, [Next]_vars PROVE CommitmentOK'
<1>0. bound' = bound /\ bound.entries \in Nat /\ CommitmentOK
  BY BoundStays, NodesAndBounds DEF Shapes
<1>1. ASSUME commit_index' = commit_index, committed_history' = committed_history
      PROVE  CommitmentOK'
  BY <1>0, <1>1 DEF CommitmentOK
<1>2. ASSUME NEW n \in Nodes, NEW c \in 0..bound.entries, NEW h \in Seq(Entries),
             commit_index' = [commit_index EXCEPT ![n] = c],
             committed_history' = [committed_history EXCEPT ![n] = h]
      PROVE  CommitmentOK'
  BY <1>0, <1>2 DEF CommitmentOK
<1>3. ASSUME NEW n \in Nodes, NEW j \in Peers(n), NEW m \in Fitting, NEW net,
             Process(n, j, m, net)
      PROVE  CommitmentOK'
  <2>1. CASE AcceptEntries(n, j, m, net)
    <3> DEFINE l == Extended(n, m)
               c == CommitOf(n, m, l)
               h == IF m.leader_commit > commit_index[n]
                    THEN Recorded(n, l, c) ELSE committed_history[n]
    <3>1. m.type = "AppendEntries" /\ m.leader_commit \in Nat
      BY <2>1, MessageFields DEF AcceptEntries, Follow, Fitting
    <3>2. l \in Seq(Entries) /\ Len(l) \in Nat /\ Len(l) <= bound.entries
      BY <3>1, ExtendedFacts, EntriesOf
    <3>3. /\ commit_index' = [commit_index EXCEPT ![n] = c]
          /\ committed_history' = [committed_history EXCEPT ![n] = h]
      BY <2>1 DEF AcceptEntries
    <3> HIDE DEF l
    <3>4. c \in 0..bound.entries
      BY <1>0, <3>1, <3>2 DEF CommitOf, SmallerOf, CommitmentOK
    <3>5. h \in Seq(Entries)
      BY <1>0, <3>2, <3>4, RecordedTyped DEF CommitmentOK
    <3> HIDE DEF c, h
    <3> QED
      BY <1>2, <3>3, <3>4, <3>5
  <2>2. CASE HandleAppendOk(n, j, m, net)
    <3> DEFINE c == CommitPoint(n, [match_index[n] EXCEPT ![j] = m.match_index])
               h == Recorded(n, log[n], c)
    <3>1. c \in 0..bound.entries
      BY CommitPointFacts
    <3>2. /\ commit_index' = [commit_index EXCEPT ![n] = c]
          /\ committed_history' = [committed_history EXCEPT ![n] = h]
      BY <2>2 DEF HandleAppendOk
    <3> HIDE DEF c
    <3>3. h \in Seq(Entries)
      BY <1>0, <3>1, RecordedTyped DEF Shapes, LogsOK
    <3> HIDE DEF h
    <3> QED
      BY <1>2, <3>1, <3>2, <3>3
  <2>3. CASE UNCHANGED commitment
    BY <1>1, <2>3 DEF commitment
  <2> QED
    BY <1>3, <2>1, <2>2, <2>3 DEF Process, HandleRequestVote, HandleVoteGranted, BecomeLeader,
       HandleVoteDenied, RejectStale, RejectMismatch, RejectForgery,
       HandleBrokenChain, HandleAppendRejected, IgnoreAnswer
<1>4. ASSUME NEW n \in Nodes, NEW j \in Peers(n), NEW k, Handle(n, j, k)
      PROVE  CommitmentOK'
  BY <1>3, <1>4, Received
<1>5. commitment' = commitment => CommitmentOK'
  BY <1>1 DEF commitment
<1> QED
  BY <1>4, <1>5 DEF Next, vars, Elect, Propose, Heartbeat

LEMMA ProgressStep == ASSUME Shapes, [Next]_vars PROVE ProgressOK'
<1>0. bound' = bound /\ bound.entries \in Nat /\ ProgressOK
  BY BoundStays, NodesAndBounds DEF Shapes
<1>1. progress' = progress => ProgressOK'
  BY <1>0 DEF ProgressOK, progress
<1>2. ASSUME NEW n \in Nodes, NEW j \in Peers(n), NEW m \in Fitting, NEW net,
             Process(n, j, m, net)
      PROVE  ProgressOK'
  <2>0. j \in Nodes /\ Len(log[n]) \in Nat /\ Len(log[n]) <= bound.entries
    BY EntriesOf DEF Peers, Shapes, LogsOK
  <2>1. CASE BecomeLeader(n, j, m, net)
    <3> DEFINE len == Len(log[n])
    <3>1. /\ next_index' = [next_index EXCEPT ![n] = [p \in Nodes |-> len + 1]]
          /\ match_index' = [match_index EXCEPT ![n] = [p \in Nodes |-> 0]]
      BY <2>1 DEF BecomeLeader
    <3>2. len + 1 \in 1..(bound.entries + 1) /\ 0 \in 0..bound.entries
      BY <1>0, <2>0
    <3> HIDE DEF len
    <3> QED
      BY <1>0, <3>1, <3>2 DEF ProgressOK
  <2>2. CASE HandleAppendOk(n, j, m, net)
    <3>1. m.match_index \in Nat /\ m.match_index <= bound.entries
      BY <2>2, MessageFields DEF HandleAppendOk, Fitting
    <3>2. /\ match_index' = [match_index EXCEPT ![n][j] = m.match_index]
          /\ next_index' = [next_index EXCEPT ![n][j] = m.match_index + 1]
      BY <2>2 DEF HandleAppendOk, NextAfter
    <3>3. m.match_index \in 0..bound.entries /\ m.match_index + 1 \in 1..(bound.entries + 1)
      BY <1>0, <3>1
    <3> QED
      BY <1>0, <2>0, <3>2, <3>3 DEF ProgressOK
  <2>3. CASE HandleBrokenChain(n, j, m, net)
    <3> DEFINE next == Len(log[n]) + 1
    <3>1. next_index' = [next_index EXCEPT ![n][j] = next] /\ UNCHANGED match_index
      BY <2>3 DEF HandleBrokenChain
    <3>2. next \in 1..(bound.entries + 1)
      BY <1>0, <2>0
    <3> HIDE DEF next
    <3> QED
      BY <1>0, <2>0, <3>1, <3>2 DEF ProgressOK
  <2>4. CASE HandleAppendRejected(n, j, m, net)
    <3>1. BiggerOf(m.hint, 1) \in 1..(bound.entries + 1)
      BY <2>4, HintFits DEF HandleAppendRejected
    <3> QED
      BY <1>0, <2>0, <2>4, <3>1 DEF HandleAppendRejected, ProgressOK
  <2>5. CASE UNCHANGED progress
    BY <1>1, <2>5
  <2> QED
    BY <1>2, <2>1, <2>2, <2>3, <2>4, <2>5 DEF Process, HandleRequestVote, HandleVoteGranted,
       HandleVoteDenied, RejectStale, RejectMismatch, RejectForgery, AcceptEntries,
       IgnoreAnswer
<1>3. ASSUME NEW n \in Nodes, NEW j \in Peers(n), NEW k, Handle(n, j, k) PROVE ProgressOK'
  BY <1>2, <1>3, Received
<1> QED
  BY <1>1, <1>3 DEF Next, vars, Elect, Propose, Heartbeat

LEMMA SeenStep == ASSUME Shapes, [Next]_vars PROVE SeenOK'
<1>0. bound' = bound /\ SeenOK
  BY BoundStays DEF Shapes
<1>1. leaders_seen' = leaders_seen => SeenOK'
  BY <1>0 DEF SeenOK
<1>2. ASSUME NEW n \in Nodes, NEW j \in Peers(n), NEW m \in Fitting, NEW net,
             Process(n, j, m, net)
      PROVE  SeenOK'
  <2>1. CASE BecomeLeader(n, j, m, net)
    BY <1>0, <2>1 DEF BecomeLeader, SeenOK
  <2>2. CASE leaders_seen' = leaders_seen
    BY <1>1, <2>2
  <2> QED
    BY <1>2, <2>1, <2>2 DEF Process, HandleRequestVote, HandleVoteGranted,
       HandleVoteDenied, RejectStale, RejectMismatch, RejectForgery, AcceptEntries,
       HandleAppendOk, HandleBrokenChain, HandleAppendRejected, IgnoreAnswer
<1>3. ASSUME NEW n \in Nodes, NEW j \in Peers(n), NEW k, Handle(n, j, k) PROVE SeenOK'
  BY <1>2, <1>3, Received
<1> QED
  BY <1>1, <1>3 DEF Next, vars, Elect, Propose, Heartbeat

LEMMA ShapesInit == ASSUME Init PROVE Shapes
<1>1. bound.terms \in Nat /\ bound.entries \in Nat
  BY NodesAndBounds DEF Init
<1>2. <<>> \in Seq(Entries) /\ Len(<<>>) = 0 /\ <<>> \in Seq(Fitting)
  BY EmptySeq
<1>3. ElectionOK /\ ProgressOK /\ SeenOK
  BY <1>1 DEF Init, ElectionOK, ProgressOK, SeenOK
<1>4. LogsOK /\ CommitmentOK
  BY <1>1, <1>2 DEF Init, LogsOK, CommitmentOK
<1>5. links \in [Links -> Seq(Fitting)]
  BY <1>2 DEF Init
<1> QED
  BY <1>3, <1>4, <1>5 DEF Shapes, Init

LEMMA ShapesStep == ASSUME Shapes, [Next]_vars PROVE Shapes'
<1>1. bound' = bound
  BY BoundStays
<1>2. Fitting' = Fitting
  BY <1>1 DEF Fitting
<1>3. (links \in [Links -> Seq(Fitting)])'
  BY <1>2, LinksStep
<1> QED
  BY <1>1, <1>3, ElectionStep, LogsStep, CommitmentStep, ProgressStep, SeenStep DEF Shapes

\* Every variable, log and message in flight has its shape at all times, whatever
\* Node::handle is given.
THEOREM WellFormed == Spec => []Shapes
<1>1. Init => Shapes
  BY ShapesInit
<1>2. Shapes /\ [Next]_vars => Shapes'
  BY ShapesStep
<1> QED
  BY <1>1, <1>2, PTL DEF Spec

\* Every reachable state is well formed, with the leader's indices in its log.
THEOREM TypeCorrect == Spec => []TypeOK
<1>1. Shapes => TypeOK
  BY ShapesTyped
<1> QED
  BY <1>1, WellFormed, PTL

(***************************************************************************)
(* One leader in a term.  A node forgets its vote when its term rises; b   *)
(* remembers whom each node voted for in each term.  The votes in flight,  *)
(* the votes a candidate counted and the quorums of the leaders are all of *)
(* b, and b never changes its mind.                                        *)
(***************************************************************************)

Ballot(b) ==
    /\ b \in [Nodes -> [0..bound.terms -> Nodes \union {None}]]
    /\ \A n \in Nodes : /\ b[n][term[n]] = voted_for[n]
                         /\ \A t \in 0..bound.terms : t > term[n] => b[n][t] = None
    /\ \A l \in Links : \A m \in Range(links[l]) :
          m.type = "VoteGranted" => b[l[1]][m.term] = l[2]
    /\ \A n \in Nodes : role[n] = "candidate" => \A v \in votes[n] : b[v][term[n]] = n
    /\ \A t \in 0..bound.terms : \A c \in leaders_seen[t] :
          Cardinality({v \in Nodes : b[v][t] = c}) >= Quorum

ElectionInv == Shapes /\ \E b : Ballot(b)

\* A vote for c in the term of c is on its way to c.
VoteArrives(v, c) ==
    /\ v \in Peers(c)
    /\ \E x \in Range(links[<<v, c>>]) : x.type = "VoteGranted" /\ x.term = term[c]

\* In a term, a node votes once.
LEMMA VoteStep ==
    ASSUME Shapes, [Next]_vars, NEW p \in Nodes
    PROVE  /\ term'[p] \in Nat /\ term[p] \in Nat /\ term'[p] >= term[p]
           /\ term'[p] = term[p] => voted_for[p] \in {None, voted_for'[p]}
<1> DEFINE Goal == /\ term'[p] >= term[p]
                   /\ term'[p] = term[p] => voted_for[p] \in {None, voted_for'[p]}
<1>0. ElectionOK /\ term[p] \in Nat /\ bound.terms \in Nat
  BY NodesAndBounds DEF Shapes, ElectionOK
<1>1. term'[p] \in Nat
  BY ElectionStep DEF ElectionOK
<1>2. term' = term /\ voted_for' = voted_for => Goal
  BY <1>0
<1>3. ASSUME NEW n \in Nodes, Elect(n) PROVE Goal
  BY <1>0, <1>3 DEF Elect, ElectionOK
<1>4. ASSUME NEW n \in Nodes, NEW j \in Peers(n), NEW m \in Fitting, NEW net,
             Process(n, j, m, net)
      PROVE  Goal
  <2>0. /\ BiggerOf(term[n], m.term) >= term[n] /\ term[n] \in Nat /\ m.term \in Nat
        /\ Newer(n, m) => BiggerOf(term[n], m.term) # term[n]
    BY TermsOf DEF Newer, BiggerOf
  <2>1. CASE HandleRequestVote(n, j, m, net)
    <3>1. CASE Grants(n, j, m)
      BY <1>0, <2>0, <2>1, <3>1 DEF HandleRequestVote, LearnTerm, Grants, VotedFor, ElectionOK
    <3>2. CASE ~Grants(n, j, m)
      BY <1>0, <2>0, <2>1, <3>2 DEF HandleRequestVote, LearnTerm, VotedFor, ElectionOK
    <3> QED
      BY <3>1, <3>2
  <2>2. CASE /\ LearnTerm(n, m)
             /\ voted_for' = [voted_for EXCEPT ![n] = VotedFor(n, m)]
    BY <1>0, <2>0, <2>2 DEF LearnTerm, VotedFor, ElectionOK
  <2>3. CASE term' = term /\ voted_for' = voted_for
    BY <1>2, <2>3
  <2> HIDE DEF Goal
  <2> QED
    BY <1>4, <2>1, <2>2, <2>3 DEF Process, HandleVoteGranted, BecomeLeader, Learn, Follow,
       election, HandleVoteDenied, RejectStale, RejectMismatch, RejectForgery,
       AcceptEntries, HandleAppendOk, HandleBrokenChain, HandleAppendRejected, IgnoreAnswer
<1> HIDE DEF Goal
<1>5. ASSUME NEW n \in Nodes, NEW j \in Peers(n), NEW k, Handle(n, j, k) PROVE Goal
  BY <1>4, <1>5, Received
<1>6. Goal
  BY <1>2, <1>3, <1>5 DEF Next, vars, election, Propose, Heartbeat
<1> QED
  BY <1>0, <1>1, <1>6 DEF Goal

\* The votes of a candidate were counted before, or just arrived.
LEMMA CandidateStep ==
    ASSUME Shapes, [Next]_vars, NEW p \in Nodes, role'[p] = "candidate"
    PROVE  \/ /\ role[p] = "candidate" /\ term'[p] = term[p]
              /\ \A v \in votes'[p] : v \in votes[p] \/ VoteArrives(v, p)
           \/ votes'[p] = {p} /\ voted_for'[p] = p /\ term'[p] = term[p] + 1
<1> DEFINE Goal == \/ /\ role[p] = "candidate" /\ term'[p] = term[p]
                      /\ \A v \in votes'[p] : v \in votes[p] \/ VoteArrives(v, p)
                   \/ votes'[p] = {p} /\ voted_for'[p] = p /\ term'[p] = term[p] + 1
<1>0. ElectionOK
  BY DEF Shapes
<1>1. election' = election => Goal
  BY DEF election
<1>2. ASSUME NEW n \in Nodes, Elect(n) PROVE Goal
  BY <1>0, <1>2 DEF Elect, ElectionOK
<1>3. ASSUME NEW n \in Nodes, NEW j \in Peers(n), NEW m \in Fitting, NEW net,
             m \in Range(links[<<j, n>>]), Process(n, j, m, net)
      PROVE  Goal
  <2>0. /\ term[n] \in Nat /\ m.term \in Nat
        /\ ~Newer(n, m) => BiggerOf(term[n], m.term) = term[n]
    BY TermsOf DEF Newer, BiggerOf
  <2>1. CASE /\ LearnTerm(n, m)
             /\ role' = [role EXCEPT ![n] = Role(n, m)]
             /\ votes' = [votes EXCEPT ![n] = Votes(n, m)]
    BY <1>0, <2>0, <2>1 DEF LearnTerm, Role, Votes, ElectionOK
  <2>2. CASE HandleVoteGranted(n, j, m, net)
    <3>1. CASE CountsVote(n, m)
      BY <1>0, <1>3, <2>0, <2>2, <3>1 DEF HandleVoteGranted, CountsVote, LearnTerm, Role,
         Newer, VoteArrives, ElectionOK
    <3>2. CASE ~CountsVote(n, m)
      BY <2>1, <2>2, <3>2, <1>0 DEF HandleVoteGranted
    <3> QED
      BY <3>1, <3>2
  <2>3. CASE BecomeLeader(n, j, m, net)
    BY <1>0, <2>3 DEF BecomeLeader, ElectionOK
  <2>4. CASE Follow(n, m)
    BY <1>0, <2>4 DEF Follow, LearnTerm, ElectionOK
  <2>5. CASE election' = election
    BY <1>1, <2>5
  <2> HIDE DEF Goal
  <2> QED
    BY <1>3, <2>1, <2>2, <2>3, <2>4, <2>5 DEF Process, HandleRequestVote, Learn,
       HandleVoteDenied, RejectStale, RejectMismatch, RejectForgery,
       AcceptEntries, HandleAppendOk, HandleBrokenChain, HandleAppendRejected, IgnoreAnswer
<1> HIDE DEF Goal
<1>4. ASSUME NEW n \in Nodes, NEW j \in Peers(n), NEW k, Handle(n, j, k) PROVE Goal
  BY <1>3, <1>4, Received
<1>5. Goal
  BY <1>1, <1>2, <1>4 DEF Next, vars, Propose, Heartbeat
<1> QED
  BY <1>5 DEF Goal

\* A new leader has the votes of a quorum.
LEMMA LeaderStep ==
    ASSUME Shapes, [Next]_vars, NEW t \in 0..bound.terms, NEW c \in leaders_seen'[t]
    PROVE  \/ c \in leaders_seen[t]
           \/ /\ c \in Nodes /\ role[c] = "candidate" /\ t = term[c]
              /\ \E q \in SUBSET Nodes :
                    /\ Cardinality(q) >= Quorum
                    /\ \A v \in q : v \in votes[c] \/ VoteArrives(v, c)
<1> DEFINE Goal == \/ c \in leaders_seen[t]
                   \/ /\ c \in Nodes /\ role[c] = "candidate" /\ t = term[c]
                      /\ \E q \in SUBSET Nodes :
                            /\ Cardinality(q) >= Quorum
                            /\ \A v \in q : v \in votes[c] \/ VoteArrives(v, c)
<1>0. ElectionOK /\ SeenOK
  BY DEF Shapes
<1>1. leaders_seen' = leaders_seen => Goal
  OBVIOUS
<1>2. ASSUME NEW n \in Nodes, NEW j \in Peers(n), NEW m \in Fitting, NEW net,
             m \in Range(links[<<j, n>>]), Process(n, j, m, net)
      PROVE  Goal
  <2>1. CASE BecomeLeader(n, j, m, net)
    <3>1. CASE c \in leaders_seen[t]
      BY <3>1
    <3>2. CASE c \notin leaders_seen[t]
      <4>1. c = n /\ t = term[n] /\ role[n] = "candidate"
        BY <1>0, <2>1, <3>2 DEF BecomeLeader, CountsVote, SeenOK
      <4>2. votes[n] \union {j} \in SUBSET Nodes
        BY <1>0 DEF ElectionOK, Peers
      <4>3. Cardinality(votes[n] \union {j}) >= Quorum
        BY <2>1 DEF BecomeLeader
      <4>4. VoteArrives(j, n)
        BY <1>2, <2>1 DEF BecomeLeader, CountsVote, VoteArrives
      <4> QED
        BY <4>1, <4>2, <4>3, <4>4
    <3> QED
      BY <3>1, <3>2
  <2>2. CASE leaders_seen' = leaders_seen
    BY <1>1, <2>2
  <2> HIDE DEF Goal
  <2> QED
    BY <1>2, <2>1, <2>2 DEF Process, HandleRequestVote, HandleVoteGranted,
       HandleVoteDenied, RejectStale, RejectMismatch, RejectForgery, AcceptEntries,
       HandleAppendOk, HandleBrokenChain, HandleAppendRejected, IgnoreAnswer
<1> HIDE DEF Goal
<1>3. ASSUME NEW n \in Nodes, NEW j \in Peers(n), NEW k, Handle(n, j, k) PROVE Goal
  BY <1>2, <1>3, Received
<1>4. Goal
  BY <1>1, <1>3 DEF Next, vars, Elect, Propose, Heartbeat
<1> QED
  BY <1>4 DEF Goal

LEMMA BallotStep ==
    ASSUME Shapes, [Next]_vars, NEW b, Ballot(b), NEW c,
           c = [n \in Nodes |-> [t \in 0..bound.terms |->
                  IF t = term'[n] THEN voted_for'[n] ELSE b[n][t]]]
    PROVE  Ballot(c)'
<1>0. bound' = bound /\ bound.terms \in Nat /\ ElectionOK /\ ElectionOK' /\ None \notin Nodes
  BY BoundStays, NodesAndBounds, ElectionStep, RaftAssumption DEF Shapes
<1>1. c \in [Nodes -> [0..bound.terms -> Nodes \union {None}]]
  BY <1>0 DEF ElectionOK, Ballot
<1>2. \A n \in Nodes : /\ term[n] \in 0..bound.terms /\ term'[n] \in 0..bound.terms
                       /\ term'[n] >= term[n]
                       /\ term'[n] = term[n] => voted_for[n] \in {None, voted_for'[n]}
  BY <1>0, VoteStep DEF ElectionOK
<1>3. \A n \in Nodes : \A t \in 0..bound.terms : b[n][t] # None => c[n][t] = b[n][t]
  <2> SUFFICES ASSUME NEW n \in Nodes, NEW t \in 0..bound.terms, b[n][t] # None
               PROVE  c[n][t] = b[n][t]
    OBVIOUS
  <2>1. CASE t = term'[n]
    <3>1. ~(t > term[n])
      BY DEF Ballot
    <3>2. t = term[n]
      BY <1>0, <1>2, <2>1, <3>1
    <3> QED
      BY <1>2, <2>1, <3>2 DEF Ballot
  <2>2. CASE t # term'[n]
    BY <2>2
  <2> QED
    BY <2>1, <2>2
<1>4. \A n \in Nodes : /\ c[n][term'[n]] = voted_for'[n]
                       /\ \A t \in 0..bound.terms : t > term'[n] => c[n][t] = None
  <2> SUFFICES ASSUME NEW n \in Nodes, NEW t \in 0..bound.terms, t > term'[n]
               PROVE  c[n][t] = None
    BY <1>2
  <2>1. t # term'[n] /\ t > term[n]
    BY <1>0, <1>2
  <2> QED
    BY <2>1 DEF Ballot
<1>5. \A l \in Links : \A m \in Range(links'[l]) :
         m.type = "VoteGranted" => c[l[1]][m.term] = l[2]
  <2> SUFFICES ASSUME NEW l \in Links, NEW m \in Range(links'[l]), m.type = "VoteGranted"
               PROVE  c[l[1]][m.term] = l[2]
    OBVIOUS
  <2>0. l[1] \in Nodes /\ l[2] \in Nodes
    BY DEF Links
  <2>1. CASE m \in Range(links[l])
    <3>1. b[l[1]][m.term] = l[2]
      BY <2>1 DEF Ballot
    <3>2. m.term \in 0..bound.terms
      <4>1. links[l] \in Seq(Fitting)
        BY DEF Shapes
      <4>2. m \in Fitting
        BY <2>1, <4>1, RangeOf
      <4> QED
        BY <1>0, <4>2, MessageFields DEF Fitting
    <3>3. b[l[1]][m.term] # None
      BY <1>0, <2>0, <3>1
    <3>4. c[l[1]][m.term] = b[l[1]][m.term]
      BY <1>3, <2>0, <3>2, <3>3
    <3> QED
      BY <3>1, <3>4
  <2>2. CASE SentNow(l, m)
    BY <1>2, <1>4, <2>0, <2>2 DEF SentNow
  <2> QED
    BY <2>1, <2>2, LinksStep
<1>6. ASSUME NEW p \in Nodes, NEW v, v \in votes[p] \/ VoteArrives(v, p),
             role[p] = "candidate"
      PROVE  v \in Nodes /\ b[v][term[p]] = p /\ c[v][term[p]] = p
  <2>1. v \in Nodes
    BY <1>0, <1>6 DEF VoteArrives, Peers, ElectionOK
  <2>2. b[v][term[p]] = p
    <3>1. CASE v \in votes[p]
      BY <1>6, <3>1 DEF Ballot
    <3>2. CASE VoteArrives(v, p)
      <4>1. <<v, p>> \in Links
        BY <3>2 DEF VoteArrives, Peers, Links
      <4>2. PICK x \in Range(links[<<v, p>>]) : x.type = "VoteGranted" /\ x.term = term[p]
        BY <3>2 DEF VoteArrives
      <4> QED
        BY <4>1, <4>2 DEF Ballot
    <3> QED
      BY <1>6, <3>1, <3>2
  <2>3. term[p] \in 0..bound.terms /\ b[v][term[p]] # None
    BY <1>0, <1>2, <2>2
  <2>4. c[v][term[p]] = b[v][term[p]]
    BY <1>3, <2>1, <2>3
  <2> QED
    BY <2>1, <2>2, <2>4
<1>7. \A n \in Nodes : role'[n] = "candidate" => \A v \in votes'[n] : c[v][term'[n]] = n
  <2> SUFFICES ASSUME NEW n \in Nodes, role'[n] = "candidate", NEW v \in votes'[n]
               PROVE  c[v][term'[n]] = n
    OBVIOUS
  <2>1. CASE /\ role[n] = "candidate" /\ term'[n] = term[n]
             /\ \A u \in votes'[n] : u \in votes[n] \/ VoteArrives(u, n)
    BY <1>6, <2>1
  <2>2. CASE votes'[n] = {n} /\ voted_for'[n] = n
    BY <1>4, <2>2
  <2> QED
    BY <2>1, <2>2, CandidateStep
<1>8. \A t \in 0..bound.terms : \A p \in leaders_seen'[t] :
         Cardinality({v \in Nodes : c[v][t] = p}) >= Quorum
  <2> SUFFICES ASSUME NEW t \in 0..bound.terms, NEW p \in leaders_seen'[t]
               PROVE  Cardinality({v \in Nodes : c[v][t] = p}) >= Quorum
    OBVIOUS
  <2>0. p \in Nodes
    BY <1>0, SeenStep DEF SeenOK
  <2> DEFINE C == {v \in Nodes : c[v][t] = p}
  <2>1. IsFiniteSet(C) /\ Cardinality(C) \in Nat
    BY RaftAssumption, FS_Subset, FS_CardinalityType
  <2>2. Quorum \in Nat
    BY RaftAssumption, FS_CardinalityType DEF Quorum
  <2>3. \E q \in SUBSET C : Cardinality(q) >= Quorum
    <3>1. CASE p \in leaders_seen[t]
      <4> DEFINE B == {v \in Nodes : b[v][t] = p}
      <4>1. B \subseteq C
        <5> SUFFICES ASSUME NEW v \in Nodes, b[v][t] = p PROVE c[v][t] = p
          OBVIOUS
        <5>1. b[v][t] # None
          BY <1>0, <2>0
        <5>2. c[v][t] = b[v][t]
          BY <1>3, <5>1
        <5> QED
          BY <5>2
      <4>2. Cardinality(B) >= Quorum
        BY <3>1 DEF Ballot
      <4> HIDE DEF B
      <4> QED
        BY <4>1, <4>2
    <3>2. CASE /\ role[p] = "candidate" /\ t = term[p]
               /\ \E q \in SUBSET Nodes :
                     /\ Cardinality(q) >= Quorum
                     /\ \A v \in q : v \in votes[p] \/ VoteArrives(v, p)
      BY <1>6, <2>0, <3>2
    <3> QED
      BY <3>1, <3>2, LeaderStep
  <2> HIDE DEF C
  <2>4. PICK q \in SUBSET C : Cardinality(q) >= Quorum
    BY <2>3
  <2>5. Cardinality(q) \in Nat /\ Cardinality(q) <= Cardinality(C)
    BY <2>1, FS_Subset, FS_CardinalityType
  <2>6. Cardinality(C) >= Quorum
    BY <2>1, <2>2, <2>4, <2>5
  <2> QED
    BY <2>6 DEF C
<1>9. Quorum' = Quorum
  BY DEF Quorum
<1> QED
  BY <1>0, <1>1, <1>4, <1>5, <1>7, <1>8 DEF Ballot

\* Two quorums have a node in common.
LEMMA QuorumsMeet ==
    ASSUME NEW p \in SUBSET Nodes, NEW q \in SUBSET Nodes,
           Cardinality(p) >= Quorum, Cardinality(q) >= Quorum
    PROVE  p \intersect q # {}
<1>1. /\ Cardinality(p) \in Nat /\ Cardinality(q) \in Nat /\ Cardinality(Nodes) \in Nat
  BY RaftAssumption, FS_Subset, FS_CardinalityType
<1>2. 2 * ((Cardinality(Nodes) \div 2) + 1) > Cardinality(Nodes)
  BY <1>1
<1>3. Cardinality(p) + Cardinality(q) > Cardinality(Nodes)
  BY <1>1, <1>2 DEF Quorum
<1> QED
  BY <1>3, RaftAssumption, FS_MajoritiesIntersect

LEMMA OneLeader ==
    ASSUME Shapes, NEW b, Ballot(b), NEW t \in 0..bound.terms,
           NEW c \in leaders_seen[t], NEW d \in leaders_seen[t]
    PROVE  c = d
<1> DEFINE p == {u \in Nodes : b[u][t] = c}
           q == {u \in Nodes : b[u][t] = d}
<1>1. p \in SUBSET Nodes /\ q \in SUBSET Nodes
  OBVIOUS
<1>2. Cardinality(p) >= Quorum /\ Cardinality(q) >= Quorum
  BY DEF Ballot
<1> HIDE DEF p, q
<1>3. PICK v : v \in p /\ v \in q
  BY <1>1, <1>2, QuorumsMeet
<1> QED
  BY <1>3 DEF p, q

LEMMA BallotInit == ASSUME Init PROVE \E b : Ballot(b)
<1> DEFINE b == [n \in Nodes |-> [t \in 0..bound.terms |-> None]]
<1>1. bound.terms \in Nat
  BY NodesAndBounds DEF Init
<1>2. b \in [Nodes -> [0..bound.terms -> Nodes \union {None}]]
  OBVIOUS
<1>3. \A n \in Nodes : b[n][term[n]] = voted_for[n]
  BY <1>1 DEF Init
<1>4. \A l \in Links : Range(links[l]) = {}
  BY DEF Init, Range
<1>5. Ballot(b)
  BY <1>2, <1>3, <1>4 DEF Ballot, Init
<1> QED
  BY <1>5

LEMMA ElectionInvStep == ASSUME ElectionInv, [Next]_vars PROVE ElectionInv'
<1>1. PICK b : Ballot(b)
  BY DEF ElectionInv
<1>2. PICK c : c = [n \in Nodes |-> [t \in 0..bound.terms |->
                      IF t = term'[n] THEN voted_for'[n] ELSE b[n][t]]]
  OBVIOUS
<1>3. Ballot(c)'
  BY <1>1, <1>2, BallotStep DEF ElectionInv
<1>4. \E d : Ballot(d)'
  BY <1>3
<1> QED
  BY <1>4, ShapesStep DEF ElectionInv

\* At all times each leader has the votes of a quorum for its term, which every
\* node cast once in that term (Node::handle on RequestVote and VoteGranted).
THEOREM ElectionInductive == Spec => []ElectionInv
<1>1. Init => ElectionInv
  BY ShapesInit, BallotInit DEF ElectionInv
<1>2. ElectionInv /\ [Next]_vars => ElectionInv'
  BY ElectionInvStep
<1> QED
  BY <1>1, <1>2, PTL DEF Spec

\* No two nodes ever led the same term, whatever happened to their messages.
THEOREM OneLeaderPerTerm == Spec => []ElectionSafety
<1>1. ASSUME ElectionInv PROVE ElectionSafety
  <2> SUFFICES ASSUME NEW t \in 0..bound.terms
               PROVE  Cardinality(leaders_seen[t]) <= 1
    BY DEF ElectionSafety
  <2>1. \A c, d \in leaders_seen[t] : c = d
    BY <1>1, OneLeader DEF ElectionInv
  <2>2. CASE leaders_seen[t] = {}
    BY <2>2, FS_EmptySet
  <2>3. ASSUME NEW c \in leaders_seen[t] PROVE Cardinality(leaders_seen[t]) <= 1
    <3>1. leaders_seen[t] = {c}
      BY <2>1
    <3> QED
      BY <3>1, FS_Singleton
  <2> QED
    BY <2>2, <2>3
<1> QED
  BY <1>1, ElectionInductive, PTL

-----------------------------------------------------------------------------
(***************************************************************************)
(* The copies of the log: those of the nodes, and those that an            *)
(* AppendEntries carries, whose previous hash stands for what precedes its *)
(* entries.  g remembers every copy there ever was.                        *)
(***************************************************************************)

Agree(a, b) ==
    \A i \in 1..Len(a) : \A j \in 1..Len(b) : a[i].term = b[j].term =>
        \A k \in 1..i : k <= j => a[k] = b[k]

Appends == {m \in Fitting : /\ m.type = "AppendEntries"
                            /\ \E l \in Links : m \in Range(links[l])}

Carried(m) == m.prev_hash \o m.entries

Copies == {log[n] : n \in Nodes} \union {Carried(m) : m \in {x \in Appends : x.prev_hash # NoHash}}

\* Without a previous entry a message carries none.
AppendsWell ==
    \A m \in Appends : IF m.prev_hash = NoHash THEN m.entries = <<>> /\ m.prev_index # 0
                       ELSE Len(m.prev_hash) = m.prev_index

Matching(g) == \A a, b \in g : Agree(a, b)

\* The terms of a log never fall.
Sorted(g) ==
    \A a \in g : \A i, j \in 1..Len(a) : i <= j => a[i].term <= a[j].term

\* An entry of a term was sealed by a leader of it.
EntriesLed(g) ==
    \A a \in g : \A i \in 1..Len(a) :
        a[i].term \in 0..bound.terms /\ leaders_seen[a[i].term] # {}

\* The leader of a term has all the entries of its term.
LeaderHasAll(g) ==
    \A n \in Nodes : role[n] = "leader" =>
        \A a \in g : \A i \in 1..Len(a) : a[i].term = term[n] =>
            i <= Len(log[n]) /\ \A k \in 1..i : a[k] = log[n][k]

\* Who leads was seen to; who stands was not, nor in a term to come.
Leading ==
    \A n \in Nodes :
        /\ role[n] = "leader" => n \in leaders_seen[term[n]]
        /\ role[n] = "candidate" => n \notin leaders_seen[term[n]]
        /\ \A t \in 0..bound.terms : t > term[n] => n \notin leaders_seen[t]

\* An AppendEntries is of a leader of its term, and what it carries is no newer.
AppendsLed ==
    \A l \in Links : \A m \in Range(links[l]) : m.type = "AppendEntries" =>
        /\ l[1] \in leaders_seen[m.term]
        /\ m.prev_hash # NoHash =>
              \A i \in 1..Len(Carried(m)) : Carried(m)[i].term <= m.term

\* No node has an entry of a term to come.
Below == \A n \in Nodes : \A i \in 1..Len(log[n]) : log[n][i].term <= term[n]

LogInv(g) ==
    /\ ElectionInv
    /\ AppendsWell /\ AppendsLed /\ Below /\ Leading
    /\ g \subseteq Seq(Entries) /\ <<>> \in g /\ Copies \subseteq g
    /\ Matching(g) /\ Sorted(g) /\ EntriesLed(g) /\ LeaderHasAll(g)

(***************************************************************************)
(* Copies are logs.                                                        *)
(***************************************************************************)

LEMMA NoHashIsNone == NoHash \notin Seq(Entries)
<1> SUFFICES ASSUME NoHash \in Seq(Entries) PROVE FALSE
  OBVIOUS
<1>1. Len(NoHash) = 1 /\ NoHash[1] = [term |-> 0]
  BY DEF NoHash
<1>2. NoHash[1] \in Entries
  BY <1>1, ElementOfSeq
<1>3. [term |-> 0] \in [term : Nat, by : Nodes]
  BY <1>1, <1>2 DEF Entries
<1>4. DOMAIN [term |-> 0] = {"term"} /\ \A e \in [term : Nat, by : Nodes] : DOMAIN e = {"term", "by"}
  OBVIOUS
<1> QED
  BY <1>3, <1>4

LEMMA AppendFields ==
    ASSUME NEW m \in Appends
    PROVE  /\ m \in Fitting /\ m.type = "AppendEntries"
           /\ m.prev_index \in Nat /\ m.entries \in Seq(Entries)
           /\ m.prev_hash # NoHash =>
                 m.prev_hash \in Seq(Entries) /\ Carried(m) \in Seq(Entries)
<1>1. /\ m \in Fitting /\ m.type = "AppendEntries" /\ m.prev_index \in Nat
      /\ m.entries \in Seq(Entries) /\ m.prev_hash \in Seq(Entries) \union {NoHash}
  BY MessageFields DEF Appends, Fitting
<1>2. ASSUME m.prev_hash \in Seq(Entries) PROVE Carried(m) \in Seq(Entries)
  BY <1>1, <1>2, ConcatProperties DEF Carried
<1> QED
  BY <1>1, <1>2

\* What the leader sends is its log, if it has what precedes.
LEMMA CarriedIsLog ==
    ASSUME Shapes, NEW n \in Nodes, NEW next \in 1..(bound.entries + 1)
    PROVE  LET m == ReplicateTo(n, next)
           IN IF m.prev_hash = NoHash
              THEN m.entries = <<>> /\ m.prev_index # 0 /\ next > Len(log[n]) + 1
              ELSE Len(m.prev_hash) = m.prev_index /\ Carried(m) = log[n]
<1> DEFINE m == ReplicateTo(n, next)
           l == log[n]
<1>1. l \in Seq(Entries) /\ Len(l) \in Nat /\ next \in Nat /\ next >= 1
  BY EntriesOf, NodesAndBounds DEF Shapes, LogsOK
<1>2. /\ m.prev_hash = HashAt(l, next - 1) /\ m.entries = SubSeq(l, next, Len(l))
      /\ m.prev_index = next - 1
  BY DEF ReplicateTo
<1> HIDE DEF m, l
<1>3. CASE next - 1 <= Len(l)
  <2>1. m.prev_hash = SubSeq(l, 1, next - 1)
    BY <1>2, <1>3 DEF HashAt
  <2>2. SubSeq(l, 1, next - 1) \in Seq(Entries) /\ Len(SubSeq(l, 1, next - 1)) = next - 1
    BY <1>1, <1>3, PartOf
  <2>3. SubSeq(l, 1, next - 1) \o SubSeq(l, next - 1 + 1, Len(l)) = SubSeq(l, 1, Len(l))
    <3>1. 1 \in 1..(Len(l) + 1) /\ next - 1 \in (1 - 1)..Len(l) /\ Len(l) \in (next - 1)..Len(l)
      BY <1>1, <1>3
    <3> QED
      BY <1>1, <3>1, ConcatAdjacentSubSeq
  <2>4. next - 1 + 1 = next /\ SubSeq(l, 1, Len(l)) = l
    BY <1>1, SubSeqFull
  <2>5. Carried(m) = l
    BY <1>2, <2>1, <2>3, <2>4 DEF Carried
  <2> QED
    BY <1>2, <2>1, <2>2, <2>5, NoHashIsNone DEF m, l
<1>4. CASE ~(next - 1 <= Len(l))
  <2>1. m.prev_hash = NoHash
    BY <1>2, <1>4 DEF HashAt
  <2>2. m.entries = <<>>
    BY <1>1, <1>2, <1>4, SubSeqEmpty
  <2>3. m.prev_index # 0 /\ next > Len(l) + 1
    BY <1>1, <1>2, <1>4
  <2> QED
    BY <2>1, <2>2, <2>3 DEF m, l
<1> QED
  BY <1>3, <1>4

\* What a follower that has the previous entry makes of its log is what the
\* message carries, or what the follower had.
LEMMA ExtendedIs ==
    ASSUME Shapes, AppendsWell, NEW n \in Nodes, NEW m \in Appends, HasPrevious(n, m)
    PROVE  Extended(n, m) = IF m.prev_hash = NoHash THEN log[n] ELSE Carried(m)
<1> DEFINE l == log[n]
           cut == SmallerOf(m.prev_index, Len(l))
<1>0. /\ l \in Seq(Entries) /\ Len(l) \in Nat /\ m.prev_index \in Nat
      /\ cut \in Nat /\ Extended(n, m) = SubSeq(l, 1, cut) \o m.entries
      /\ SubSeq(l, 1, cut) \in Seq(Entries)
  BY AppendFields, ExtendedFacts, EntriesOf DEF Shapes, LogsOK
<1>1. CASE m.prev_hash = NoHash
  <2>1. Extended(n, m) = SubSeq(l, 1, cut)
    BY <1>0, <1>1, ConcatEmptySeq DEF AppendsWell
  <2>2. m.prev_index # 0
    BY <1>1 DEF AppendsWell
  <2>3. HashAt(l, m.prev_index) = m.prev_hash
    BY <2>2 DEF HasPrevious
  <2>4. Extended(n, m) = l
    <3>1. ~(m.prev_index <= Len(l))
      <4> SUFFICES ASSUME m.prev_index <= Len(l) PROVE FALSE
        OBVIOUS
      <4>1. SubSeq(l, 1, m.prev_index) \in Seq(Entries)
        BY <1>0, PartOf
      <4> QED
        BY <1>1, <2>3, <4>1, NoHashIsNone DEF HashAt
    <3>2. cut = Len(l)
      BY <1>0, <3>1 DEF SmallerOf
    <3>3. SubSeq(l, 1, Len(l)) = l
      BY <1>0, SubSeqFull
    <3> QED
      BY <1>0, <2>1, <3>2, <3>3
  <2> QED
    BY <1>1, <2>4
<1>2. CASE m.prev_hash # NoHash
  <2>1. m.prev_hash \in Seq(Entries) /\ Len(m.prev_hash) = m.prev_index
    BY <1>2, AppendFields DEF AppendsWell
  <2>2. SubSeq(l, 1, cut) = m.prev_hash
    <3>1. CASE m.prev_index = 0
      <4>1. cut = 0
        BY <1>0, <3>1 DEF SmallerOf
      <4>2. SubSeq(l, 1, 0) = <<>> /\ m.prev_hash = <<>>
        BY <2>1, <3>1, SubSeqEmpty, EmptySeq
      <4> QED
        BY <4>1, <4>2
    <3>2. CASE HashAt(l, m.prev_index) = m.prev_hash
      <4>1. m.prev_index <= Len(l) /\ SubSeq(l, 1, m.prev_index) = m.prev_hash
        BY <1>2, <3>2 DEF HashAt
      <4>2. cut = m.prev_index
        BY <1>0, <4>1 DEF SmallerOf
      <4> QED
        BY <4>1, <4>2
    <3> QED
      BY <3>1, <3>2 DEF HasPrevious
  <2> QED
    BY <1>0, <1>2, <2>1, <2>2 DEF Carried
<1> QED
  BY <1>1, <1>2

(***************************************************************************)
(* Steps.                                                                  *)
(***************************************************************************)

LEMMA AgreeSym == ASSUME NEW a, NEW b, Agree(a, b) PROVE Agree(b, a)
  BY DEF Agree

\* A leader's log only grows while it leads.
LEMMA LeaderStays ==
    ASSUME Shapes, [Next]_vars, NEW p \in Nodes, role'[p] = "leader", role[p] = "leader"
    PROVE  term'[p] = term[p] /\ (log'[p] = log[p] \/ Propose(p))
<1> DEFINE Goal == term'[p] = term[p] /\ (log'[p] = log[p] \/ Propose(p))
<1>0. ElectionOK /\ LogsOK
  BY DEF Shapes
<1>1. term' = term /\ log' = log => Goal
  OBVIOUS
<1>2. ASSUME NEW n \in Nodes, Elect(n) PROVE Goal
  BY <1>0, <1>2 DEF Elect, ElectionOK
<1>3. ASSUME NEW n \in Nodes, Propose(n) PROVE Goal
  BY <1>0, <1>3 DEF Propose, election, LogsOK
<1>4. ASSUME NEW n \in Nodes, NEW j \in Peers(n), NEW m \in Fitting, NEW net,
             Process(n, j, m, net)
      PROVE  Goal
  <2>0. ~Newer(n, m) => BiggerOf(term[n], m.term) = term[n]
    BY TermsOf DEF Newer, BiggerOf
  <2>1. CASE LearnTerm(n, m) /\ role' = [role EXCEPT ![n] = Role(n, m)] /\ log' = log
    BY <1>0, <2>0, <2>1 DEF LearnTerm, Role, ElectionOK
  <2>2. CASE Follow(n, m)
    BY <1>0, <1>1, <1>4, <2>2 DEF Process, Follow, LearnTerm, ElectionOK, LogsOK,
       HandleRequestVote, HandleVoteGranted, BecomeLeader, HandleVoteDenied, RejectStale,
       RejectMismatch, RejectForgery, AcceptEntries, HandleAppendOk, HandleBrokenChain,
       HandleAppendRejected, IgnoreAnswer
  <2>3. CASE BecomeLeader(n, j, m, net)
    BY <1>1, <2>3 DEF BecomeLeader
  <2>4. CASE term' = term /\ log' = log
    BY <1>1, <2>4
  <2> HIDE DEF Goal
  <2> QED
    BY <1>4, <2>1, <2>2, <2>3, <2>4 DEF Process, HandleRequestVote, HandleVoteGranted, Learn,
       election, HandleVoteDenied, RejectStale, RejectMismatch, RejectForgery, AcceptEntries,
       HandleAppendOk, HandleBrokenChain, HandleAppendRejected, IgnoreAnswer
<1> HIDE DEF Goal
<1>5. ASSUME NEW n \in Nodes, NEW j \in Peers(n), NEW k, Handle(n, j, k) PROVE Goal
  BY <1>4, <1>5, Received
<1>6. Goal
  BY <1>1, <1>2, <1>3, <1>5 DEF Next, vars, election, Heartbeat
<1> QED
  BY <1>6 DEF Goal

\* Who newly leads stood in that term, and nothing else happens in the step.
LEMMA SeenGrows ==
    ASSUME Shapes, [Next]_vars, NEW t \in 0..bound.terms
    PROVE  /\ leaders_seen[t] \subseteq leaders_seen'[t]
           /\ \A c \in leaders_seen'[t] : c \in leaders_seen[t] \/
                 /\ role[c] = "candidate" /\ role'[c] = "leader"
                 /\ t = term[c] /\ term' = term /\ log' = log
<1> DEFINE Goal == /\ leaders_seen[t] \subseteq leaders_seen'[t]
                   /\ \A c \in leaders_seen'[t] : c \in leaders_seen[t] \/
                         /\ role[c] = "candidate" /\ role'[c] = "leader"
                         /\ t = term[c] /\ term' = term /\ log' = log
<1>0. ElectionOK /\ SeenOK
  BY DEF Shapes
<1>1. leaders_seen' = leaders_seen => Goal
  OBVIOUS
<1>2. ASSUME NEW n \in Nodes, NEW j \in Peers(n), NEW m \in Fitting, NEW net,
             Process(n, j, m, net)
      PROVE  Goal
  <2>1. CASE BecomeLeader(n, j, m, net)
    BY <1>0, <2>1 DEF BecomeLeader, CountsVote, SeenOK, ElectionOK
  <2>2. CASE leaders_seen' = leaders_seen
    BY <1>1, <2>2
  <2> HIDE DEF Goal
  <2> QED
    BY <1>2, <2>1, <2>2 DEF Process, HandleRequestVote, HandleVoteGranted,
       HandleVoteDenied, RejectStale, RejectMismatch, RejectForgery, AcceptEntries,
       HandleAppendOk, HandleBrokenChain, HandleAppendRejected, IgnoreAnswer
<1> HIDE DEF Goal
<1>3. ASSUME NEW n \in Nodes, NEW j \in Peers(n), NEW k, Handle(n, j, k) PROVE Goal
  BY <1>2, <1>3, Received
<1>4. Goal
  BY <1>1, <1>3 DEF Next, vars, Elect, Propose, Heartbeat
<1> QED
  BY <1>4 DEF Goal

\* Who newly leads has its name in the simulator's record.
LEMMA LeadersSeen ==
    ASSUME Shapes, [Next]_vars, NEW p \in Nodes, role'[p] = "leader", role[p] # "leader"
    PROVE  /\ role[p] = "candidate" /\ term' = term /\ log' = log
           /\ p \in leaders_seen'[term[p]]
<1> DEFINE Goal == /\ role[p] = "candidate" /\ term' = term /\ log' = log
                   /\ p \in leaders_seen'[term[p]]
<1>0. ElectionOK /\ SeenOK
  BY DEF Shapes
<1>1. role' # role
  OBVIOUS
<1>2. ASSUME NEW n \in Nodes, Elect(n) PROVE Goal
  BY <1>0, <1>2 DEF Elect, ElectionOK
<1>3. ASSUME NEW n \in Nodes, NEW j \in Peers(n), NEW m \in Fitting, NEW net,
             Process(n, j, m, net)
      PROVE  Goal
  <2>1. CASE BecomeLeader(n, j, m, net)
    BY <1>0, <2>1 DEF BecomeLeader, CountsVote, SeenOK, ElectionOK
  <2>2. CASE role' = [role EXCEPT ![n] = Role(n, m)]
    BY <1>0, <2>2 DEF Role, ElectionOK
  <2>3. CASE Follow(n, m)
    BY <1>0, <2>3 DEF Follow, ElectionOK
  <2> HIDE DEF Goal
  <2> QED
    BY <1>1, <1>3, <2>1, <2>2, <2>3 DEF Process, HandleRequestVote, HandleVoteGranted, Learn,
       election, HandleVoteDenied, RejectStale, RejectMismatch, RejectForgery, AcceptEntries,
       HandleAppendOk, HandleBrokenChain, HandleAppendRejected, IgnoreAnswer
<1> HIDE DEF Goal
<1>4. ASSUME NEW n \in Nodes, NEW j \in Peers(n), NEW k, Handle(n, j, k) PROVE Goal
  BY <1>3, <1>4, Received
<1>5. Goal
  BY <1>1, <1>2, <1>4 DEF Next, vars, election, Propose, Heartbeat
<1> QED
  BY <1>5 DEF Goal

\* n takes over the log that the message m from j carries.
Adopts(n, j, m, net) ==
    /\ m \in Appends /\ m \in Range(links[<<j, n>>]) /\ First(n, j, m, net)
    /\ AcceptEntries(n, j, m, net) /\ m.prev_hash # NoHash
    /\ log'[n] = Carried(m) /\ term'[n] = m.term /\ m.term >= term[n]

\* A log changes because its node leads and seals an entry, or follows.
LEMMA LogCases ==
    ASSUME Shapes, AppendsWell, [Next]_vars, NEW n \in Nodes
    PROVE  \/ log'[n] = log[n]
           \/ Propose(n) /\ log'[n] = Append(log[n], [term |-> term[n], by |-> n])
           \/ \E j \in Peers(n) : \E m, net : Adopts(n, j, m, net)
<1> DEFINE Goal == \/ log'[n] = log[n]
                   \/ Propose(n) /\ log'[n] = Append(log[n], [term |-> term[n], by |-> n])
                   \/ \E j \in Peers(n) : \E m, net : Adopts(n, j, m, net)
<1>0. LogsOK /\ ElectionOK
  BY DEF Shapes
<1>1. log'[n] = log[n] => Goal
  OBVIOUS
<1>2. ASSUME NEW p \in Nodes, Propose(p) PROVE Goal
  BY <1>0, <1>1, <1>2 DEF Propose, LogsOK
<1>3. ASSUME NEW p \in Nodes, NEW j \in Peers(p), NEW m \in Fitting, NEW net,
             m \in Range(links[<<j, p>>]), First(p, j, m, net), Process(p, j, m, net)
      PROVE  Goal
  <2>1. CASE AcceptEntries(p, j, m, net)
    <3>1. m \in Appends /\ HasPrevious(p, m) /\ m.term >= term[p]
      BY <1>3, <2>1 DEF AcceptEntries, Follow, Appends, Links, Peers
    <3>2. Extended(p, m) = IF m.prev_hash = NoHash THEN log[p] ELSE Carried(m)
      BY <3>1, ExtendedIs
    <3>3. log' = [log EXCEPT ![p] = Extended(p, m)] /\ term'[p] = BiggerOf(term[p], m.term)
      BY <1>0, <2>1 DEF AcceptEntries, Follow, LearnTerm, ElectionOK
    <3>4. term'[p] = m.term
      BY <3>1, <3>3, TermsOf DEF BiggerOf
    <3>5. CASE n = p /\ m.prev_hash # NoHash
      <4>1. log'[n] = Carried(m)
        BY <1>0, <3>2, <3>3, <3>5 DEF LogsOK
      <4>2. Adopts(n, j, m, net)
        BY <1>3, <2>1, <3>1, <3>4, <3>5, <4>1 DEF Adopts
      <4> QED
        BY <3>5, <4>2
    <3>6. CASE n # p \/ m.prev_hash = NoHash
      <4>1. log'[n] = log[n]
        BY <1>0, <3>2, <3>3, <3>6 DEF LogsOK
      <4> QED
        BY <1>1, <4>1
    <3> HIDE DEF Goal
    <3> QED
      BY <3>5, <3>6
  <2>2. CASE log' = log
    BY <1>1, <2>2
  <2> HIDE DEF Goal
  <2> QED
    BY <1>3, <2>1, <2>2 DEF Process, HandleRequestVote, HandleVoteGranted, BecomeLeader,
       HandleVoteDenied, RejectStale, RejectMismatch, RejectForgery, HandleAppendOk,
       HandleBrokenChain, HandleAppendRejected, IgnoreAnswer
<1> HIDE DEF Goal
<1>4. ASSUME NEW p \in Nodes, NEW j \in Peers(p), NEW k, Handle(p, j, k) PROVE Goal
  BY <1>3, <1>4, Received
<1>5. log' = log => Goal
  BY <1>1
<1>6. Goal
  BY <1>2, <1>4, <1>5 DEF Next, vars, Elect, Heartbeat
<1> QED
  BY <1>6 DEF Goal

\* An AppendEntries in flight was there before, or is what a leader sends now.
LEMMA AppendsStep ==
    ASSUME Shapes, [Next]_vars, NEW l \in Links, NEW m \in Range(links'[l]),
           m.type = "AppendEntries"
    PROVE  \/ m \in Range(links[l]) /\ m \in Appends
           \/ /\ role[l[1]] = "leader" /\ log' = log /\ UNCHANGED election
              /\ l[1] \in Nodes /\ m.term = term[l[1]]
              /\ \E next \in 1..(bound.entries + 1) : \E p \in Nodes :
                    next = next_index'[l[1]][p] /\ m = ReplicateTo(l[1], next)
<1>1. CASE m \in Range(links[l])
  <2>1. links[l] \in Seq(Fitting)
    BY DEF Shapes
  <2>2. m \in Fitting
    BY <1>1, <2>1, RangeOf
  <2> QED
    BY <1>1, <2>2 DEF Appends
<1>2. CASE SentNow(l, m)
  <2>1. l[1] \in Nodes
    BY DEF Links
  <2>2. PICK p \in Nodes : m = ReplicateTo(l[1], next_index'[l[1]][p])
    BY <1>2 DEF SentNow
  <2>3. next_index'[l[1]][p] \in 1..(bound.entries + 1)
    BY <2>1, ProgressStep, BoundStays DEF ProgressOK
  <2>4. m.term = term[l[1]]
    BY <2>2 DEF ReplicateTo
  <2> QED
    BY <1>2, <2>1, <2>2, <2>3, <2>4 DEF SentNow
<1> QED
  BY <1>1, <1>2, LinksStep

\* Every copy was there before, or the leader that proposes has it now.
LEMMA CopiesStep ==
    ASSUME Shapes, AppendsWell, [Next]_vars
    PROVE  /\ AppendsWell'
           /\ \A a \in Copies' :
                 \/ a \in Copies
                 \/ \E n \in Nodes : /\ Propose(n)
                                     /\ a = Append(log[n], [term |-> term[n], by |-> n])
<1>0. Fitting' = Fitting /\ bound' = bound
  BY BoundStays DEF Fitting
<1>1. ASSUME NEW m \in Appends'
      PROVE  m \in Appends \/ \E n \in Nodes : \E next \in 1..(bound.entries + 1) :
                m = ReplicateTo(n, next)
  <2>1. m.type = "AppendEntries"
    BY DEF Appends
  <2>2. PICK l \in Links : m \in Range(links'[l])
    BY DEF Appends
  <2> QED
    BY <2>1, <2>2, AppendsStep
<1>2. AppendsWell'
  <2> SUFFICES ASSUME NEW m \in Appends'
               PROVE  IF m.prev_hash = NoHash THEN m.entries = <<>> /\ m.prev_index # 0
                      ELSE Len(m.prev_hash) = m.prev_index
    BY DEF AppendsWell, NoHash
  <2>1. CASE m \in Appends
    BY <2>1 DEF AppendsWell
  <2>2. ASSUME NEW n \in Nodes, NEW next \in 1..(bound.entries + 1), m = ReplicateTo(n, next)
        PROVE  IF m.prev_hash = NoHash THEN m.entries = <<>> /\ m.prev_index # 0
               ELSE Len(m.prev_hash) = m.prev_index
    BY <2>2, CarriedIsLog
  <2> QED
    BY <1>1, <2>1, <2>2
<1>3. ASSUME NEW n \in Nodes
      PROVE  \/ log'[n] \in Copies
             \/ /\ Propose(n)
                /\ log'[n] = Append(log[n], [term |-> term[n], by |-> n])
  <2>1. ASSUME NEW j \in Peers(n), NEW m, NEW net, Adopts(n, j, m, net)
        PROVE  log'[n] \in Copies
    BY <2>1 DEF Adopts, Copies
  <2>2. log'[n] = log[n] => log'[n] \in Copies
    BY DEF Copies
  <2> QED
    BY <2>1, <2>2, LogCases
<1>4. ASSUME NEW m \in Appends', m.prev_hash # NoHash
      PROVE  Carried(m) \in Copies
  <2>1. CASE m \in Appends
    BY <1>4, <2>1 DEF Copies
  <2>2. ASSUME NEW n \in Nodes, NEW next \in 1..(bound.entries + 1), m = ReplicateTo(n, next)
        PROVE  Carried(m) \in Copies
    BY <1>4, <2>2, CarriedIsLog DEF Copies
  <2> QED
    BY <1>1, <2>1, <2>2
<1>5. Copies' = {log'[n] : n \in Nodes} \union
                  {Carried(m) : m \in {x \in Appends' : x.prev_hash # NoHash}}
  BY DEF Copies, Carried, NoHash
<1> QED
  BY <1>2, <1>3, <1>4, <1>5

\* The log of a leader that sealed an entry.
LEMMA Proposed ==
    ASSUME Shapes, NEW n \in Nodes, NEW a,
           a = Append(log[n], [term |-> term[n], by |-> n])
    PROVE  /\ a \in Seq(Entries)
           /\ log[n] \in Copies /\ Len(log[n]) \in Nat /\ Len(a) = Len(log[n]) + 1
           /\ \A i \in 1..Len(log[n]) : a[i] = log[n][i]
           /\ a[Len(log[n]) + 1].term = term[n]
<1>1. log[n] \in Seq(Entries) /\ term[n] \in Nat
  BY NodesAndBounds DEF Shapes, LogsOK, ElectionOK
<1>2. [term |-> term[n], by |-> n] \in Entries
  BY <1>1 DEF Entries
<1>3. Len(log[n]) \in Nat /\ log[n] \in Copies
  BY <1>1, EntriesOf DEF Copies
<1> QED
  BY <1>1, <1>2, <1>3, AppendProperties

\* What the ghost gathers: the log of the leader that seals an entry.
LEMMA Gathered ==
    ASSUME NEW g, LogInv(g), [Next]_vars, NEW a \in g \union Copies'
    PROVE  \/ a \in g
           \/ \E n \in Nodes : /\ Propose(n)
                               /\ a = Append(log[n], [term |-> term[n], by |-> n])
  BY CopiesStep DEF LogInv, ElectionInv

LEMMA LogsLong == ASSUME NEW g, LogInv(g), NEW a \in g PROVE a \in Seq(Entries) /\ Len(a) \in Nat
  BY EntriesOf DEF LogInv

LEMMA LeadingStep == ASSUME NEW g, LogInv(g), [Next]_vars PROVE Leading'
<1>0. /\ Shapes /\ Leading /\ bound' = bound /\ bound.terms \in Nat /\ ElectionOK
      /\ ElectionOK'
  BY BoundStays, NodesAndBounds, ElectionStep DEF LogInv, ElectionInv, Shapes
<1> SUFFICES ASSUME NEW n \in Nodes
             PROVE  /\ role'[n] = "leader" => n \in leaders_seen'[term'[n]]
                    /\ role'[n] = "candidate" => n \notin leaders_seen'[term'[n]]
                    /\ \A t \in 0..bound.terms : t > term'[n] => n \notin leaders_seen'[t]
  BY <1>0 DEF Leading
<1>1. /\ term[n] \in 0..bound.terms /\ term'[n] \in 0..bound.terms /\ term'[n] >= term[n]
  BY <1>0, VoteStep DEF ElectionOK
<1>2. ASSUME NEW t \in 0..bound.terms, n \in leaders_seen'[t], n \notin leaders_seen[t]
      PROVE  /\ role[n] = "candidate" /\ role'[n] = "leader"
             /\ t = term[n] /\ term'[n] = term[n]
  BY <1>0, <1>2, SeenGrows
<1>3. ASSUME role'[n] = "leader" PROVE n \in leaders_seen'[term'[n]]
  <2>1. CASE role[n] = "leader"
    <3>1. term'[n] = term[n] /\ n \in leaders_seen[term[n]]
      BY <1>0, <1>3, <2>1, LeaderStays DEF Leading
    <3> QED
      BY <1>0, <1>1, <3>1, SeenGrows
  <2>2. CASE role[n] # "leader"
    BY <1>0, <1>3, <2>2, LeadersSeen
  <2> QED
    BY <2>1, <2>2
<1>4. ASSUME role'[n] = "candidate" PROVE n \notin leaders_seen'[term'[n]]
  <2> SUFFICES ASSUME n \in leaders_seen'[term'[n]] PROVE FALSE
    OBVIOUS
  <2>1. n \in leaders_seen[term'[n]]
    BY <1>1, <1>2, <1>4
  <2>2. CASE role[n] = "candidate" /\ term'[n] = term[n]
    BY <1>0, <2>1, <2>2 DEF Leading
  <2>3. CASE term'[n] = term[n] + 1
    BY <1>0, <1>1, <2>1, <2>3 DEF Leading
  <2> QED
    BY <1>0, <1>4, <2>2, <2>3, CandidateStep
<1>5. ASSUME NEW t \in 0..bound.terms, t > term'[n] PROVE n \notin leaders_seen'[t]
  <2>1. t > term[n]
    BY <1>0, <1>1, <1>5
  <2>2. n \notin leaders_seen[t]
    BY <1>0, <2>1 DEF Leading
  <2> QED
    BY <1>1, <1>2, <1>5, <2>1, <2>2
<1> QED
  BY <1>3, <1>4, <1>5

LEMMA EntriesLedStep ==
    ASSUME NEW g, LogInv(g), [Next]_vars, NEW gg, gg = g \union Copies'
    PROVE  EntriesLed(gg)'
<1>0. /\ Shapes /\ bound' = bound /\ bound.terms \in Nat /\ ElectionOK /\ AppendsWell
  BY BoundStays, NodesAndBounds DEF LogInv, ElectionInv, Shapes
<1> SUFFICES ASSUME NEW a \in gg, NEW i \in 1..Len(a)
             PROVE  a[i].term \in 0..bound.terms /\ leaders_seen'[a[i].term] # {}
  BY <1>0 DEF EntriesLed
<1>1. ASSUME NEW c \in g, NEW k \in 1..Len(c)
      PROVE  c[k].term \in 0..bound.terms /\ leaders_seen'[c[k].term] # {}
  <2>1. c[k].term \in 0..bound.terms /\ leaders_seen[c[k].term] # {}
    BY DEF LogInv, EntriesLed
  <2> QED
    BY <1>0, <2>1, SeenGrows
<1>2. ASSUME NEW n \in Nodes, Propose(n),
             a = Append(log[n], [term |-> term[n], by |-> n])
      PROVE  a[i].term \in 0..bound.terms /\ leaders_seen'[a[i].term] # {}
  <2>1. /\ log[n] \in Copies /\ Len(log[n]) \in Nat /\ Len(a) = Len(log[n]) + 1
        /\ \A k \in 1..Len(log[n]) : a[k] = log[n][k]
        /\ a[Len(log[n]) + 1].term = term[n]
    BY <1>0, <1>2, Proposed
  <2>2. n \in leaders_seen[term[n]] /\ term[n] \in 0..bound.terms
    BY <1>0, <1>2 DEF Propose, LogInv, Leading, ElectionOK
  <2>3. CASE i \in 1..Len(log[n])
    BY <1>1, <2>1, <2>3 DEF LogInv
  <2>4. CASE i = Len(log[n]) + 1
    BY <1>0, <2>1, <2>2, <2>4, SeenGrows
  <2> QED
    BY <2>1, <2>3, <2>4
<1> QED
  BY <1>1, <1>2, Gathered

\* A term has one leader after the step as well.
LEMMA OneLeaderNext ==
    ASSUME NEW g, LogInv(g), [Next]_vars, NEW t \in 0..bound.terms,
           NEW c \in leaders_seen'[t], NEW d \in leaders_seen'[t]
    PROVE  c = d
<1>0. ElectionInv' /\ bound' = bound
  BY ElectionInvStep, BoundStays DEF LogInv
<1>1. PICK b : Ballot(b)'
  BY <1>0 DEF ElectionInv
<1>2. \A u \in 0..bound.terms : \A x \in leaders_seen'[u] :
         Cardinality({v \in Nodes : b[v][u] = x}) >= Quorum
  BY <1>0, <1>1 DEF Ballot, Quorum
<1> DEFINE q == {v \in Nodes : b[v][t] = c}
           r == {v \in Nodes : b[v][t] = d}
<1>3. Cardinality(q) >= Quorum /\ Cardinality(r) >= Quorum
  BY <1>2
<1>4. q \in SUBSET Nodes /\ r \in SUBSET Nodes
  OBVIOUS
<1> HIDE DEF q, r
<1>5. PICK v : v \in q /\ v \in r
  BY <1>3, <1>4, QuorumsMeet
<1> QED
  BY <1>5 DEF q, r

\* Nobody led the term of a leader that was just elected.
LEMMA LedByNone ==
    ASSUME NEW g, LogInv(g), [Next]_vars, NEW p \in Nodes,
           role'[p] = "leader", role[p] # "leader"
    PROVE  leaders_seen[term[p]] = {}
<1>0. Shapes /\ term[p] \in 0..bound.terms
  BY DEF LogInv, ElectionInv, Shapes, ElectionOK
<1>1. role[p] = "candidate" /\ p \in leaders_seen'[term[p]]
  BY <1>0, LeadersSeen
<1>2. p \notin leaders_seen[term[p]]
  BY <1>1 DEF LogInv, Leading
<1> SUFFICES ASSUME NEW c \in leaders_seen[term[p]] PROVE FALSE
  OBVIOUS
<1>3. c \in leaders_seen'[term[p]]
  BY <1>0, SeenGrows
<1> QED
  BY <1>0, <1>1, <1>2, <1>3, OneLeaderNext

\* No copy has an entry of the term of a leader that was just elected.
LEMMA LeaderHasAllStep ==
    ASSUME NEW g, LogInv(g), [Next]_vars, NEW gg, gg = g \union Copies'
    PROVE  LeaderHasAll(gg)'
<1>0. /\ Shapes /\ ElectionInv' /\ bound' = bound /\ bound.terms \in Nat /\ ElectionOK
      /\ AppendsWell /\ LogsOK
  BY BoundStays, NodesAndBounds, ElectionInvStep DEF LogInv, ElectionInv, Shapes
<1> SUFFICES ASSUME NEW p \in Nodes, role'[p] = "leader", NEW a \in gg,
                    NEW i \in 1..Len(a), a[i].term = term'[p]
             PROVE  i <= Len(log'[p]) /\ \A k \in 1..i : a[k] = log'[p][k]
  BY DEF LeaderHasAll
<1>1. ASSUME NEW t \in 0..bound.terms, NEW c \in leaders_seen'[t], NEW d \in leaders_seen'[t]
      PROVE  c = d
  BY OneLeaderNext
<1>3. term[p] \in 0..bound.terms
  BY <1>0 DEF ElectionOK
<1>4. CASE role[p] # "leader"
  <2>1. /\ role[p] = "candidate" /\ term' = term /\ log' = log
        /\ p \in leaders_seen'[term[p]]
    BY <1>0, <1>4, LeadersSeen
  <2>3. leaders_seen[term[p]] = {}
    BY <1>4, LedByNone
  <2>4. a \in g
    <3>1. ASSUME NEW n \in Nodes, Propose(n) PROVE FALSE
      BY <1>4, <3>1 DEF Propose, election
    <3> QED
      BY <3>1, Gathered
  <2> QED
    BY <2>1, <2>3, <2>4 DEF LogInv, EntriesLed
<1>5. CASE role[p] = "leader"
  <2>1. term'[p] = term[p] /\ (log'[p] = log[p] \/ Propose(p))
    BY <1>0, <1>5, LeaderStays
  <2>2. /\ log[p] \in Seq(Entries) /\ Len(log[p]) \in Nat
        /\ Len(log'[p]) \in Nat /\ Len(log'[p]) >= Len(log[p])
        /\ \A k \in 1..Len(log[p]) : log'[p][k] = log[p][k]
    <3>1. log[p] \in Seq(Entries) /\ Len(log[p]) \in Nat
      BY <1>0, EntriesOf DEF LogsOK
    <3>2. CASE log'[p] = log[p]
      BY <3>1, <3>2
    <3>3. CASE Propose(p)
      <4>1. log'[p] = Append(log[p], [term |-> term[p], by |-> p])
        BY <1>0, <3>3 DEF Propose, LogsOK
      <4>2. Len(log'[p]) = Len(log[p]) + 1 /\ \A k \in 1..Len(log[p]) : log'[p][k] = log[p][k]
        BY <1>0, <4>1, Proposed
      <4> QED
        BY <3>1, <4>2
    <3> QED
      BY <2>1, <3>2, <3>3
  <2>3. ASSUME NEW c \in g, NEW j \in 1..Len(c), c[j].term = term[p]
        PROVE  j <= Len(log'[p]) /\ \A k \in 1..j : c[k] = log'[p][k]
    <3>1. j <= Len(log[p]) /\ \A k \in 1..j : c[k] = log[p][k]
      BY <1>5, <2>3 DEF LogInv, LeaderHasAll
    <3>2. Len(c) \in Nat
      BY LogsLong
    <3> QED
      BY <2>2, <3>1, <3>2
  <2>4. ASSUME NEW n \in Nodes, Propose(n), a = Append(log[n], [term |-> term[n], by |-> n])
        PROVE  i <= Len(log'[p]) /\ \A k \in 1..i : a[k] = log'[p][k]
    <3>1. /\ log[n] \in Copies /\ Len(log[n]) \in Nat /\ Len(a) = Len(log[n]) + 1
          /\ \A k \in 1..Len(log[n]) : a[k] = log[n][k]
          /\ a[Len(log[n]) + 1].term = term[n]
      BY <1>0, <2>4, Proposed
    <3>2. CASE i \in 1..Len(log[n])
      <4>1. log[n][i].term = term[p]
        BY <2>1, <3>1, <3>2
      <4>2. i <= Len(log'[p]) /\ \A k \in 1..i : log[n][k] = log'[p][k]
        BY <2>3, <3>1, <3>2, <4>1 DEF LogInv
      <4>3. \A k \in 1..i : k \in 1..Len(log[n])
        BY <3>1, <3>2
      <4> QED
        BY <3>1, <4>2, <4>3
    <3>3. CASE i = Len(log[n]) + 1
      <4>1. term[n] = term[p] /\ role[n] = "leader"
        BY <2>1, <2>4, <3>1, <3>3 DEF Propose
      <4>2. n \in leaders_seen'[term[p]] /\ p \in leaders_seen'[term[p]]
        <5>1. n \in leaders_seen[term[p]] /\ p \in leaders_seen[term[p]]
          BY <1>5, <4>1 DEF LogInv, Leading
        <5> QED
          BY <1>0, <1>3, <5>1, SeenGrows
      <4>3. n = p
        BY <1>1, <1>3, <4>2
      <4>4. log'[p] = a
        BY <1>0, <2>4, <4>3 DEF Propose, LogsOK
      <4> QED
        BY <3>1, <3>3, <4>4
    <3> QED
      BY <3>1, <3>2, <3>3
  <2> QED
    BY <2>1, <2>3, <2>4, Gathered
<1> QED
  BY <1>4, <1>5

LEMMA MatchingStep ==
    ASSUME NEW g, LogInv(g), [Next]_vars, NEW gg, gg = g \union Copies'
    PROVE  Matching(gg)
<1>0. Shapes /\ Matching(g)
  BY DEF LogInv, ElectionInv
<1>1. ASSUME NEW n \in Nodes, Propose(n), NEW a, NEW b,
             a = Append(log[n], [term |-> term[n], by |-> n]), b \in g
      PROVE  Agree(a, b)
  <2>1. /\ log[n] \in g /\ Len(log[n]) \in Nat /\ Len(a) = Len(log[n]) + 1
        /\ \A k \in 1..Len(log[n]) : a[k] = log[n][k]
        /\ a[Len(log[n]) + 1].term = term[n]
    BY <1>0, <1>1, Proposed DEF LogInv
  <2>2. Len(b) \in Nat
    BY <1>1, LogsLong
  <2> SUFFICES ASSUME NEW i \in 1..Len(a), NEW j \in 1..Len(b), a[i].term = b[j].term
               PROVE  \A k \in 1..i : k <= j => a[k] = b[k]
    BY DEF Agree
  <2>3. CASE i <= Len(log[n])
    <3>1. a[i] = log[n][i] /\ i \in 1..Len(log[n])
      BY <2>1, <2>3
    <3>2. \A k \in 1..i : k <= j => log[n][k] = b[k]
      BY <1>0, <1>1, <2>1, <3>1 DEF Matching, Agree
    <3>3. \A k \in 1..i : a[k] = log[n][k]
      BY <2>1, <2>3
    <3> QED
      BY <3>2, <3>3
  <2>4. CASE i = Len(log[n]) + 1
    <3>1. j <= Len(log[n]) /\ \A k \in 1..j : b[k] = log[n][k]
      BY <1>1, <2>1, <2>4 DEF Propose, LogInv, LeaderHasAll
    <3>2. \A k \in 1..j : a[k] = log[n][k]
      BY <2>1, <2>2, <3>1
    <3> QED
      BY <2>1, <2>2, <3>1, <3>2
  <2> QED
    BY <2>1, <2>3, <2>4
<1>2. ASSUME NEW n \in Nodes, Propose(n), NEW p \in Nodes, Propose(p) PROVE n = p
  BY <1>2 DEF Propose, Shapes, LogsOK, LogInv, ElectionInv
<1> SUFFICES ASSUME NEW a \in gg, NEW b \in gg PROVE Agree(a, b)
  BY DEF Matching
<1>3. CASE a \in g /\ b \in g
  BY <1>0, <1>3 DEF Matching
<1>4. ASSUME NEW n \in Nodes, Propose(n),
             a = Append(log[n], [term |-> term[n], by |-> n]), b \in g
      PROVE  Agree(a, b)
  BY <1>1, <1>4
<1>5. ASSUME NEW n \in Nodes, Propose(n),
             b = Append(log[n], [term |-> term[n], by |-> n]), a \in g
      PROVE  Agree(a, b)
  BY <1>1, <1>5, AgreeSym
<1>6. ASSUME NEW n \in Nodes, Propose(n), NEW p \in Nodes, Propose(p),
             a = Append(log[n], [term |-> term[n], by |-> n]),
             b = Append(log[p], [term |-> term[p], by |-> p])
      PROVE  Agree(a, b)
  <2>1. a = b
    BY <1>2, <1>6
  <2>2. /\ Len(log[n]) \in Nat /\ Len(a) = Len(log[n]) + 1
    BY <1>0, <1>6, Proposed
  <2> QED
    BY <2>1, <2>2 DEF Agree
<1> QED
  BY <1>3, <1>4, <1>5, <1>6, Gathered

LEMMA SortedStep ==
    ASSUME NEW g, LogInv(g), [Next]_vars, NEW gg, gg = g \union Copies'
    PROVE  Sorted(gg)
<1>0. Shapes /\ Sorted(g)
  BY DEF LogInv, ElectionInv
<1> SUFFICES ASSUME NEW a \in gg, NEW i \in 1..Len(a), NEW j \in 1..Len(a), i <= j
             PROVE  a[i].term <= a[j].term
  BY DEF Sorted
<1>1. ASSUME NEW n \in Nodes, Propose(n), a = Append(log[n], [term |-> term[n], by |-> n])
      PROVE  a[i].term <= a[j].term
  <2>1. /\ log[n] \in g /\ Len(log[n]) \in Nat /\ Len(a) = Len(log[n]) + 1
        /\ \A k \in 1..Len(log[n]) : a[k] = log[n][k]
        /\ a[Len(log[n]) + 1].term = term[n]
    BY <1>0, <1>1, Proposed DEF LogInv
  <2>2. \A k \in 1..Len(log[n]) : log[n][k].term <= term[n]
    BY DEF LogInv, Below
  <2>3. term[n] \in Nat
    BY <1>0, NodesAndBounds DEF Shapes, ElectionOK
  <2>4. CASE j <= Len(log[n])
    BY <1>0, <2>1, <2>4 DEF Sorted
  <2>5. CASE j = Len(log[n]) + 1
    <3>1. CASE i = j
      BY <2>1, <2>3, <2>5, <3>1
    <3>2. CASE i \in 1..Len(log[n])
      BY <2>1, <2>2, <2>5, <3>2
    <3> QED
      BY <2>1, <2>5, <3>1, <3>2
  <2> QED
    BY <2>1, <2>4, <2>5
<1>2. CASE a \in g
  BY <1>0, <1>2 DEF Sorted
<1> QED
  BY <1>1, <1>2, Gathered

LEMMA BelowStep == ASSUME NEW g, LogInv(g), [Next]_vars PROVE Below'
<1>0. Shapes /\ AppendsWell /\ ElectionOK
  BY DEF LogInv, ElectionInv, Shapes
<1> SUFFICES ASSUME NEW n \in Nodes, NEW i \in 1..Len(log'[n])
             PROVE  log'[n][i].term <= term'[n]
  BY DEF Below
<1>1. term'[n] \in Nat /\ term[n] \in Nat /\ term'[n] >= term[n]
  BY <1>0, VoteStep
<1>2. \A k \in 1..Len(log[n]) : log[n][k].term <= term[n] /\ log[n][k].term \in Nat
  <2> TAKE k \in 1..Len(log[n])
  <2>1. log[n][k].term \in 0..bound.terms
    BY DEF LogInv, Copies, EntriesLed
  <2> QED
    BY <2>1 DEF LogInv, Below
<1>3. CASE log'[n] = log[n]
  BY <1>1, <1>2, <1>3
<1>4. CASE Propose(n) /\ log'[n] = Append(log[n], [term |-> term[n], by |-> n])
  <2>1. /\ Len(log[n]) \in Nat /\ Len(log'[n]) = Len(log[n]) + 1
        /\ \A k \in 1..Len(log[n]) : log'[n][k] = log[n][k]
        /\ log'[n][Len(log[n]) + 1].term = term[n]
    BY <1>0, <1>4, Proposed
  <2>2. CASE i = Len(log[n]) + 1
    BY <1>1, <2>1, <2>2
  <2>3. CASE i \in 1..Len(log[n])
    <3>1. log'[n][i].term = log[n][i].term
      BY <2>1, <2>3
    <3>2. log[n][i].term <= term[n] /\ log[n][i].term \in Nat
      BY <1>2, <2>3
    <3> QED
      BY <1>1, <3>1, <3>2
  <2> QED
    BY <2>1, <2>2, <2>3
<1>5. ASSUME NEW j \in Peers(n), NEW m, NEW net, Adopts(n, j, m, net)
      PROVE  log'[n][i].term <= term'[n]
  <2>1. <<j, n>> \in Links /\ m.type = "AppendEntries" /\ m \in Range(links[<<j, n>>])
    BY <1>5 DEF Adopts, Appends, Links, Peers
  <2>2. log'[n] = Carried(m) /\ term'[n] = m.term /\ m.prev_hash # NoHash
    BY <1>5 DEF Adopts
  <2> QED
    BY <2>1, <2>2 DEF LogInv, AppendsLed
<1> QED
  BY <1>0, <1>3, <1>4, <1>5, LogCases

LEMMA AppendsLedStep == ASSUME NEW g, LogInv(g), [Next]_vars PROVE AppendsLed'
<1>0. Shapes /\ ElectionOK /\ bound' = bound
  BY BoundStays DEF LogInv, ElectionInv, Shapes
<1> SUFFICES ASSUME NEW l \in Links, NEW m \in Range(links'[l]), m.type = "AppendEntries"
             PROVE  /\ l[1] \in leaders_seen'[m.term]
                    /\ m.prev_hash # NoHash =>
                         \A i \in 1..Len(Carried(m)) : Carried(m)[i].term <= m.term
  BY DEF AppendsLed, NoHash, Carried
<1>1. CASE m \in Range(links[l]) /\ m \in Appends
  <2>1. m.term \in 0..bound.terms
    BY <1>0, <1>1, MessageFields, NodesAndBounds DEF Appends, Fitting, Shapes
  <2> QED
    BY <1>0, <1>1, <2>1, SeenGrows DEF LogInv, AppendsLed
<1>2. ASSUME role[l[1]] = "leader", l[1] \in Nodes, m.term = term[l[1]],
             NEW next \in 1..(bound.entries + 1), m = ReplicateTo(l[1], next)
      PROVE  /\ l[1] \in leaders_seen'[m.term]
             /\ m.prev_hash # NoHash =>
                  \A i \in 1..Len(Carried(m)) : Carried(m)[i].term <= m.term
  <2>1. l[1] \in leaders_seen[m.term] /\ m.term \in 0..bound.terms
    BY <1>0, <1>2 DEF LogInv, Leading, ElectionOK
  <2>2. m.prev_hash # NoHash => Carried(m) = log[l[1]]
    BY <1>0, <1>2, CarriedIsLog
  <2> QED
    BY <1>0, <1>2, <2>1, <2>2, SeenGrows DEF LogInv, Below
<1> QED
  BY <1>0, <1>1, <1>2, AppendsStep

LEMMA LogInit == ASSUME Init PROVE LogInv({<<>>})
<1>0. ElectionInv
  BY ShapesInit, BallotInit DEF ElectionInv
<1>1. \A l \in Links : Range(links[l]) = {}
  BY DEF Init, Range
<1>2. Appends = {}
  BY <1>1 DEF Appends
<1>3. Copies \subseteq {<<>>}
  BY <1>2 DEF Init, Copies
<1>4. AppendsWell /\ AppendsLed
  BY <1>1, <1>2 DEF AppendsWell, AppendsLed
<1>5. /\ Matching({<<>>}) /\ Sorted({<<>>}) /\ EntriesLed({<<>>}) /\ LeaderHasAll({<<>>})
      /\ {<<>>} \subseteq Seq(Entries)
  BY EmptySeq DEF Matching, Sorted, EntriesLed, LeaderHasAll, Agree
<1>6. Leading
  BY NodesAndBounds DEF Init, Leading
<1>7. Below
  BY EmptySeq DEF Init, Below
<1> QED
  BY <1>0, <1>3, <1>4, <1>5, <1>6, <1>7 DEF LogInv

LEMMA LogInvStep ==
    ASSUME NEW g, LogInv(g), [Next]_vars, NEW gg, gg = g \union Copies'
    PROVE  LogInv(gg)'
<1>1. ElectionInv' /\ AppendsWell'
  BY ElectionInvStep, CopiesStep DEF LogInv, ElectionInv
<1>2. ASSUME NEW a \in Copies' PROVE a \in Seq(Entries)
  <2>1. Shapes /\ g \subseteq Seq(Entries) /\ a \in g \union Copies'
    BY DEF LogInv, ElectionInv
  <2>2. ASSUME NEW n \in Nodes, a = Append(log[n], [term |-> term[n], by |-> n])
        PROVE  a \in Seq(Entries)
    BY <2>1, <2>2, Proposed
  <2> QED
    BY <2>1, <2>2, Gathered
<1>3. gg \subseteq Seq(Entries) /\ <<>> \in gg /\ Copies' \subseteq gg
  BY <1>2 DEF LogInv
<1>4. Matching(gg) /\ Sorted(gg) /\ EntriesLed(gg)' /\ LeaderHasAll(gg)'
  BY MatchingStep, SortedStep, EntriesLedStep, LeaderHasAllStep
<1>5. Leading' /\ Below' /\ AppendsLed'
  BY LeadingStep, BelowStep, AppendsLedStep
<1> QED
  BY <1>1, <1>3, <1>4, <1>5 DEF LogInv, Matching, Sorted, Agree

\* At all times the logs of nodes and messages agree wherever two entries share an
\* index and a term, and the entries of a term come from its one leader.
THEOREM LogInductive == Spec => [](\E g : LogInv(g))
<1>1. Init => \E g : LogInv(g)
  BY LogInit
<1>2. (\E g : LogInv(g)) /\ [Next]_vars => (\E g : LogInv(g))'
  <2> SUFFICES ASSUME NEW g, LogInv(g), [Next]_vars PROVE \E gg : LogInv(gg)'
    OBVIOUS
  <2>1. PICK gg : gg = g \union Copies'
    OBVIOUS
  <2>2. LogInv(gg)'
    BY <2>1, LogInvStep
  <2> QED
    BY <2>2
<1> QED
  BY <1>1, <1>2, PTL DEF Spec

\* Entries of one term at one index end the same history on any two nodes, also
\* when messages are lost, repeated, late or overtaken.
THEOREM LogsMatch == Spec => []LogMatching
<1>1. ASSUME NEW g, LogInv(g) PROVE LogMatching
  <2> SUFFICES ASSUME NEW a \in Nodes, NEW b \in Nodes,
                      NEW i \in DOMAIN log[a] \intersect DOMAIN log[b],
                      log[a][i].term = log[b][i].term
               PROVE  SubSeq(log[a], 1, i) = SubSeq(log[b], 1, i)
    BY DEF LogMatching
  <2> DEFINE l == log[a]
             r == log[b]
  <2>1. l \in Seq(Entries) /\ r \in Seq(Entries) /\ i \in 1..Len(l) /\ i \in 1..Len(r)
        /\ Len(l) \in Nat /\ Len(r) \in Nat
    BY <1>1, EntriesOf DEF LogInv, ElectionInv, Shapes, LogsOK
  <2>2. Agree(l, r)
    BY <1>1 DEF LogInv, Matching, Copies
  <2>3. l[i].term = r[i].term
    OBVIOUS
  <2> HIDE DEF l, r
  <2>4. \A k \in 1..i : l[k] = r[k]
    BY <2>1, <2>2, <2>3 DEF Agree
  <2>5. /\ SubSeq(l, 1, i) \in Seq(Entries) /\ Len(SubSeq(l, 1, i)) = i
        /\ \A k \in 1..i : SubSeq(l, 1, i)[k] = l[k]
    BY <2>1, PartOf
  <2>6. /\ SubSeq(r, 1, i) \in Seq(Entries) /\ Len(SubSeq(r, 1, i)) = i
        /\ \A k \in 1..i : SubSeq(r, 1, i)[k] = r[k]
    BY <2>1, PartOf
  <2>7. \A k \in 1..Len(SubSeq(l, 1, i)) : SubSeq(l, 1, i)[k] = SubSeq(r, 1, i)[k]
    BY <2>4, <2>5, <2>6
  <2>8. SubSeq(l, 1, i) = SubSeq(r, 1, i)
    BY <2>5, <2>6, <2>7, SeqEqual
  <2> QED
    BY <2>8 DEF l, r
<1>2. (\E g : LogInv(g)) => LogMatching
  BY <1>1
<1> QED
  BY <1>2, LogInductive, PTL

=============================================================================
