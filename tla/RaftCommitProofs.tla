--------------------------- MODULE RaftCommitProofs ---------------------------
(***************************************************************************)
(* Proof that what RaftGroup reports committed stays committed.            *)
(***************************************************************************)
EXTENDS RaftGroupProofs

(***************************************************************************)
(* What the nodes held as they left each term: h[v][u] is the log with     *)
(* which v left term u, or its log now if it did not leave u yet.          *)
(***************************************************************************)

Has(l, i, t) == i \in 1..Len(l) /\ l[i].term = t

Majorities == {q \in SUBSET Nodes : Cardinality(q) >= Quorum}

\* The entry of term t at index i was not committed, and it never will be.
Blocked(h, i, t) ==
    \E q \in Majorities : \A v \in q : term[v] > t /\ ~Has(h[v][t], i, t)

\* What was or will be committed in a term before u is in l.
Safe(h, l, u) ==
    \A i, t \in Nat : t < u => Has(l, i, t) \/ Blocked(h, i, t)

Remembers(h) ==
    \A v \in Nodes : \A u \in Nat : u >= term[v] => h[v][u] = log[v]

\* Logs change in a term only if somebody leads it.
Unled(h) ==
    \A u \in 1..bound.terms : leaders_seen[u] = {} =>
        \A v \in Nodes : h[v][u] = h[v][u - 1]

\* An entry that a node had of the term it left is lost only if it was blocked.
Keeps(h) ==
    \A v \in Nodes : \A i, t, w \in Nat :
        t <= w /\ Has(h[v][t], i, t) => Has(h[v][w], i, t) \/ Blocked(h, i, t)

EntriesSafe(g, h) == \A a \in g : \A j \in 1..Len(a) : Safe(h, a, a[j].term)

LeadersSafe(h) == \A n \in Nodes : role[n] = "leader" => Safe(h, log[n], term[n])

AppendsSafe(h) ==
    \A l \in Links : \A m \in Range(links[l]) :
        m.type = "AppendEntries" /\ m.prev_hash # NoHash => Safe(h, Carried(m), m.term)

\* A request tells the log of the candidate that stands, and a vote answers one.
Requested ==
    \A l \in Links : \A m \in Range(links[l]) :
        /\ m.type = "RequestVote" =>
              /\ m.term <= term[l[1]]
              /\ role[l[1]] = "candidate" /\ m.term = term[l[1]] =>
                    m.last_index = Len(log[l[1]]) /\ m.last_term = LastTerm(log[l[1]])
        /\ m.type = "VoteGranted" => m.term <= term[l[2]]

\* Who votes for a candidate has left the term before with a log no better than
\* the candidate's, or the candidate comes too late.
VotesSafe(h) ==
    \A c \in Nodes : role[c] = "candidate" =>
        /\ term[c] > 0
        /\ \A v \in Peers(c) : v \in votes[c] \/ VoteArrives(v, c) =>
              \/ leaders_seen[term[c]] # {}
              \/ UpToDate(LastTerm(log[c]), Len(log[c]), h[v][term[c] - 1])

HistoryInv(g, h) ==
    /\ LogInv(g)
    /\ h \in [Nodes -> [Nat -> g]]
    /\ Remembers(h) /\ Unled(h) /\ Keeps(h)
    /\ EntriesSafe(g, h) /\ LeadersSafe(h) /\ AppendsSafe(h)
    /\ Requested /\ VotesSafe(h)

(***************************************************************************)
(* Facts of the states.                                                    *)
(***************************************************************************)

LEMMA InvFacts ==
    ASSUME NEW g, LogInv(g)
    PROVE  /\ Shapes /\ AppendsWell
           /\ \A n \in Nodes : /\ term[n] \in Nat /\ term[n] \in 0..bound.terms
                               /\ log[n] \in g /\ Len(log[n]) \in Nat
           /\ \A a \in g : /\ a \in Seq(Entries) /\ Len(a) \in Nat /\ LastTerm(a) \in Nat
                           /\ \A i \in 1..Len(a) : a[i].term \in Nat
<1>1. Shapes /\ AppendsWell /\ Copies \subseteq g /\ g \subseteq Seq(Entries) /\ EntriesLed(g)
  BY DEF LogInv, ElectionInv
<1>2. \A n \in Nodes : term[n] \in 0..bound.terms /\ term[n] \in Nat /\ log[n] \in g
  BY <1>1, NodesAndBounds DEF Shapes, ElectionOK, Copies
<1>3. \A a \in g : a \in Seq(Entries) /\ Len(a) \in Nat /\ LastTerm(a) \in Nat
  BY <1>1, EntriesOf
<1>4. \A a \in g : \A i \in 1..Len(a) : a[i].term \in Nat
  BY <1>1 DEF EntriesLed
<1> QED
  BY <1>1, <1>2, <1>3, <1>4

LEMMA SafeLonger ==
    ASSUME NEW h, NEW a, NEW b, NEW u, Safe(h, a, u), Len(a) \in Nat, Len(b) \in Nat,
           Len(a) <= Len(b), \A k \in 1..Len(a) : b[k] = a[k]
    PROVE  Safe(h, b, u)
<1> SUFFICES ASSUME NEW i \in Nat, NEW t \in Nat, t < u, Has(a, i, t) PROVE Has(b, i, t)
  BY DEF Safe
<1> QED
  BY DEF Has

\* A log that is up to date has all that the other has and can be committed.
LEMMA UpToDateHas ==
    ASSUME NEW g, NEW h, LogInv(g), EntriesSafe(g, h), NEW a \in g, NEW b \in g,
           NEW i \in Nat, NEW t \in Nat, Has(b, i, t), UpToDate(LastTerm(a), Len(a), b)
    PROVE  Has(a, i, t) \/ Blocked(h, i, t)
<1>1. /\ Len(a) \in Nat /\ Len(b) \in Nat /\ LastTerm(a) \in Nat /\ LastTerm(b) \in Nat
      /\ i \in 1..Len(b) /\ b[i].term = t
  BY InvFacts DEF Has
<1>2. b # <<>> /\ LastTerm(b) = b[Len(b)].term /\ Len(b) \in 1..Len(b)
  BY <1>1 DEF LastTerm
<1>3. t <= LastTerm(b)
  BY <1>1, <1>2 DEF LogInv, Sorted
<1>4. CASE LastTerm(a) > LastTerm(b)
  <2>1. a # <<>> /\ LastTerm(a) = a[Len(a)].term
    BY <1>1, <1>4 DEF LastTerm
  <2>2. Len(a) \in 1..Len(a)
    BY <1>1, <2>1, InvFacts, EmptySeq
  <2>3. Safe(h, a, LastTerm(a)) /\ t < LastTerm(a)
    BY <1>1, <1>3, <1>4, <2>1, <2>2 DEF EntriesSafe
  <2> QED
    BY <2>3 DEF Safe
<1>5. CASE LastTerm(a) = LastTerm(b) /\ Len(a) >= Len(b)
  <2>1. a # <<>> /\ LastTerm(a) = a[Len(a)].term /\ Len(a) \in 1..Len(a)
    <3>1. Len(a) > 0
      BY <1>1, <1>5
    <3>2. a # <<>>
      BY <3>1, EmptySeq
    <3> QED
      BY <1>1, <3>1, <3>2 DEF LastTerm
  <2>2. Agree(a, b)
    BY DEF LogInv, Matching
  <2>3. \A k \in 1..Len(a) : k <= Len(b) => a[k] = b[k]
    BY <1>2, <1>5, <2>1, <2>2 DEF Agree
  <2>4. i \in 1..Len(a) /\ a[i] = b[i]
    BY <1>1, <1>5, <2>3
  <2> QED
    BY <1>1, <2>4 DEF Has
<1> QED
  BY <1>4, <1>5 DEF UpToDate

\* Who votes in a term has reached it.
LEMMA Voted ==
    ASSUME NEW g, LogInv(g), NEW c \in Nodes, role[c] = "candidate", NEW v,
           v \in votes[c] \/ VoteArrives(v, c)
    PROVE  v \in Nodes /\ term[v] >= term[c]
<1>0. Shapes /\ ElectionOK /\ None \notin Nodes /\ bound.terms \in Nat
  BY RaftAssumption, NodesAndBounds DEF LogInv, ElectionInv, Shapes
<1>1. PICK b : Ballot(b)
  BY DEF LogInv, ElectionInv
<1>2. v \in Nodes
  BY <1>0 DEF ElectionOK, VoteArrives, Peers
<1>3. b[v][term[c]] = c
  <2>1. CASE v \in votes[c]
    BY <1>1, <2>1 DEF Ballot
  <2>2. CASE VoteArrives(v, c)
    <3>1. <<v, c>> \in Links
      BY <2>2 DEF VoteArrives, Peers, Links
    <3>2. PICK x \in Range(links[<<v, c>>]) : x.type = "VoteGranted" /\ x.term = term[c]
      BY <2>2 DEF VoteArrives
    <3> QED
      BY <1>1, <3>1, <3>2 DEF Ballot
  <2> QED
    BY <2>1, <2>2
<1>4. term[c] \in 0..bound.terms /\ term[v] \in 0..bound.terms
  BY <1>0, <1>2 DEF ElectionOK
<1>5. ~(term[c] > term[v])
  BY <1>0, <1>1, <1>2, <1>3, <1>4 DEF Ballot
<1> QED
  BY <1>0, <1>2, <1>4, <1>5

(***************************************************************************)
(* Steps of the histories.                                                 *)
(***************************************************************************)

\* What a step makes of the histories.
Kept(h, hh) ==
    hh = [v \in Nodes |-> [u \in Nat |-> IF u < term'[v] THEN h[v][u] ELSE log'[v]]]

LEMMA HistoryStep ==
    ASSUME NEW g, NEW h, HistoryInv(g, h), [Next]_vars, NEW hh, Kept(h, hh)
    PROVE  /\ \A v \in Nodes : \A u \in Nat : u < term'[v] => hh[v][u] = h[v][u]
           /\ \A v \in Nodes : \A u \in Nat : u >= term'[v] => hh[v][u] = log'[v]
           /\ \A v \in Nodes : term'[v] \in Nat /\ term[v] \in Nat /\ term'[v] >= term[v]
           /\ \A v \in Nodes : \A u \in Nat : u >= term[v] => h[v][u] = log[v]
<1>1. \A v \in Nodes : term'[v] \in Nat /\ term[v] \in Nat /\ term'[v] >= term[v]
  BY VoteStep, InvFacts DEF HistoryInv
<1>2. \A v \in Nodes : \A u \in Nat :
         hh[v][u] = IF u < term'[v] THEN h[v][u] ELSE log'[v]
  BY DEF Kept
<1>3. \A v \in Nodes : \A u \in Nat : u < term'[v] => hh[v][u] = h[v][u]
  BY <1>2
<1>4. \A v \in Nodes : \A u \in Nat : u >= term'[v] => hh[v][u] = log'[v]
  BY <1>1, <1>2
<1>5. \A v \in Nodes : \A u \in Nat : u >= term[v] => h[v][u] = log[v]
  BY DEF HistoryInv, Remembers
<1> QED
  BY <1>1, <1>3, <1>4, <1>5

LEMMA HistoryTyped ==
    ASSUME NEW g, NEW h, HistoryInv(g, h), [Next]_vars, NEW hh, Kept(h, hh),
           NEW gg, gg = g \union Copies'
    PROVE  hh \in [Nodes -> [Nat -> gg]] /\ Remembers(hh)'
<1>1. \A v \in Nodes : log'[v] \in Copies'
  BY DEF Copies
<1>2. h \in [Nodes -> [Nat -> g]]
  BY DEF HistoryInv
<1>3. \A v \in Nodes : \A u \in Nat : h[v][u] \in gg
  BY <1>2
<1>4. hh = [v \in Nodes |-> [u \in Nat |-> IF u < term'[v] THEN h[v][u] ELSE log'[v]]]
  BY DEF Kept
<1>5. hh \in [Nodes -> [Nat -> gg]]
  BY <1>1, <1>3, <1>4
<1>6. Remembers(hh)'
  BY HistoryStep DEF Remembers
<1> QED
  BY <1>5, <1>6

LEMMA BlockedStays ==
    ASSUME NEW g, NEW h, HistoryInv(g, h), [Next]_vars, NEW hh, Kept(h, hh),
           NEW i \in Nat, NEW t \in Nat, Blocked(h, i, t)
    PROVE  Blocked(hh, i, t)'
<1>1. PICK q \in Majorities : \A v \in q : term[v] > t /\ ~Has(h[v][t], i, t)
  BY DEF Blocked
<1>3. \A v \in q : v \in Nodes
  BY DEF Majorities
<1>4. \A v \in q : term'[v] > t /\ hh[v][t] = h[v][t]
  BY <1>1, <1>3, HistoryStep
<1>5. Majorities' = Majorities
  BY DEF Majorities, Quorum
<1> QED
  BY <1>1, <1>4, <1>5 DEF Blocked, Has

LEMMA SafeStays ==
    ASSUME NEW g, NEW h, HistoryInv(g, h), [Next]_vars, NEW hh, Kept(h, hh),
           NEW l, NEW u, Safe(h, l, u)
    PROVE  Safe(hh, l, u)'
  BY BlockedStays DEF Safe, Has

LEMMA UnledStep ==
    ASSUME NEW g, NEW h, HistoryInv(g, h), [Next]_vars, NEW hh, Kept(h, hh)
    PROVE  Unled(hh)'
<1>0. /\ Shapes /\ AppendsWell /\ LogInv(g) /\ bound' = bound /\ bound.terms \in Nat
  BY InvFacts, BoundStays, NodesAndBounds DEF HistoryInv, Shapes
<1> SUFFICES ASSUME NEW u \in 1..bound.terms, leaders_seen'[u] = {}, NEW v \in Nodes
             PROVE  hh[v][u] = hh[v][u - 1]
  BY <1>0 DEF Unled
<1>2. u \in Nat /\ u - 1 \in Nat /\ u \in 0..bound.terms
  BY <1>0
<1>3. leaders_seen[u] = {}
  BY <1>0, <1>2, SeenGrows
<1>4. h[v][u] = h[v][u - 1]
  BY <1>3 DEF HistoryInv, Unled
<1>5. term'[v] \in Nat /\ term[v] \in Nat /\ term'[v] >= term[v]
  BY HistoryStep
<1>6. CASE u < term'[v]
  BY <1>2, <1>4, <1>5, <1>6, HistoryStep
<1>7. CASE u - 1 >= term'[v]
  BY <1>2, <1>5, <1>7, HistoryStep
<1>8. CASE u = term'[v]
  <2>1. hh[v][u] = log'[v] /\ hh[v][u - 1] = h[v][u - 1]
    BY <1>2, <1>5, <1>8, HistoryStep
  <2>2. h[v][u] = log[v]
    BY <1>2, <1>5, <1>8 DEF HistoryInv, Remembers
  <2>3. ASSUME Propose(v) PROVE FALSE
    <3>1. role[v] = "leader" /\ term' = term
      BY <2>3 DEF Propose, election
    <3> QED
      BY <1>0, <1>3, <1>8, <3>1 DEF LogInv, Leading
  <2>4. ASSUME NEW j \in Peers(v), NEW m, NEW net, Adopts(v, j, m, net) PROVE FALSE
    <3>1. m \in Range(links[<<j, v>>]) /\ m.type = "AppendEntries" /\ m.term = u
      BY <1>8, <2>4 DEF Adopts, Appends
    <3>2. <<j, v>> \in Links
      BY DEF Links, Peers
    <3> QED
      BY <1>0, <1>3, <3>1, <3>2 DEF LogInv, AppendsLed
  <2>5. log'[v] = log[v]
    BY <1>0, <2>3, <2>4, LogCases
  <2> QED
    BY <1>4, <2>1, <2>2, <2>5
<1> QED
  BY <1>2, <1>5, <1>6, <1>7, <1>8

LEMMA KeepsStep ==
    ASSUME NEW g, NEW h, HistoryInv(g, h), [Next]_vars, NEW hh, Kept(h, hh)
    PROVE  Keeps(hh)'
<1>0. Shapes /\ AppendsWell /\ LogInv(g)
  BY InvFacts DEF HistoryInv
<1> SUFFICES ASSUME NEW v \in Nodes, NEW i \in Nat, NEW t \in Nat, NEW w \in Nat,
                    t <= w, Has(hh[v][t], i, t), ~Blocked(hh, i, t)'
             PROVE  Has(hh[v][w], i, t)
  BY DEF Keeps
<1>2. ~Blocked(h, i, t)
  BY BlockedStays
<1>3. term'[v] \in Nat /\ term[v] \in Nat /\ term'[v] >= term[v]
  BY HistoryStep
<1>4. Has(h[v][t], i, t) => Has(h[v][w], i, t)
  BY <1>2 DEF HistoryInv, Keeps
<1>5. CASE w < term'[v]
  BY <1>3, <1>4, <1>5, HistoryStep
<1>6. CASE t >= term'[v]
  BY <1>3, <1>6, HistoryStep
<1>7. CASE t < term'[v] /\ w >= term'[v]
  <2>1. hh[v][t] = h[v][t] /\ hh[v][w] = log'[v] /\ h[v][w] = log[v]
    BY <1>3, <1>7, HistoryStep
  <2>2. Has(log[v], i, t)
    BY <1>4, <2>1
  <2>3. CASE log'[v] = log[v]
    BY <2>1, <2>2, <2>3
  <2>4. CASE Propose(v) /\ log'[v] = Append(log[v], [term |-> term[v], by |-> v])
    <3>1. /\ Len(log[v]) \in Nat /\ Len(log'[v]) = Len(log[v]) + 1
          /\ \A k \in 1..Len(log[v]) : log'[v][k] = log[v][k]
      BY <1>0, <2>4, Proposed
    <3> QED
      BY <2>1, <2>2, <3>1 DEF Has
  <2>5. ASSUME NEW j \in Peers(v), NEW m, NEW net, Adopts(v, j, m, net)
        PROVE  Has(log'[v], i, t)
    <3>1. /\ m \in Range(links[<<j, v>>]) /\ m.type = "AppendEntries" /\ m.prev_hash # NoHash
          /\ m.term = term'[v] /\ log'[v] = Carried(m)
      BY <2>5 DEF Adopts, Appends
    <3>2. <<j, v>> \in Links
      BY DEF Links, Peers
    <3>3. Safe(h, Carried(m), m.term)
      BY <3>1, <3>2 DEF HistoryInv, AppendsSafe
    <3> QED
      BY <1>2, <1>7, <3>1, <3>3 DEF Safe
  <2> QED
    BY <1>0, <2>1, <2>3, <2>4, <2>5, LogCases
<1> QED
  BY <1>3, <1>5, <1>6, <1>7

\* An appended entry keeps a log safe.
LEMMA ProposedSafe ==
    ASSUME NEW g, NEW h, HistoryInv(g, h), NEW n \in Nodes, NEW a, NEW u,
           a = Append(log[n], [term |-> term[n], by |-> n]), Safe(h, log[n], u)
    PROVE  Safe(h, a, u)
<1>1. /\ Len(log[n]) \in Nat /\ Len(a) = Len(log[n]) + 1
      /\ \A k \in 1..Len(log[n]) : a[k] = log[n][k]
  BY InvFacts, Proposed DEF HistoryInv
<1>2. Len(a) \in Nat /\ Len(log[n]) <= Len(a)
  BY <1>1
<1> QED
  BY <1>1, <1>2, SafeLonger

LEMMA EntriesSafeStep ==
    ASSUME NEW g, NEW h, HistoryInv(g, h), [Next]_vars, NEW hh, Kept(h, hh),
           NEW gg, gg = g \union Copies'
    PROVE  EntriesSafe(gg, hh)'
<1>0. Shapes /\ LogInv(g) /\ EntriesSafe(g, h) /\ LeadersSafe(h)
  BY InvFacts DEF HistoryInv
<1> SUFFICES ASSUME NEW a \in gg, NEW j \in 1..Len(a) PROVE Safe(h, a, a[j].term)
  BY SafeStays DEF EntriesSafe
<1>1. ASSUME NEW n \in Nodes, Propose(n), a = Append(log[n], [term |-> term[n], by |-> n])
      PROVE  Safe(h, a, a[j].term)
  <2>1. /\ log[n] \in g /\ Len(log[n]) \in Nat /\ Len(a) = Len(log[n]) + 1
        /\ \A k \in 1..Len(log[n]) : a[k] = log[n][k]
        /\ a[Len(log[n]) + 1].term = term[n]
    BY <1>0, <1>1, Proposed, InvFacts
  <2>2. CASE j \in 1..Len(log[n])
    <3>1. Safe(h, log[n], log[n][j].term) /\ a[j].term = log[n][j].term
      BY <1>0, <2>1, <2>2 DEF EntriesSafe
    <3> QED
      BY <1>1, <3>1, ProposedSafe
  <2>3. CASE j = Len(log[n]) + 1
    <3>1. Safe(h, log[n], term[n]) /\ a[j].term = term[n]
      BY <1>0, <1>1, <2>1, <2>3 DEF Propose, LeadersSafe
    <3> QED
      BY <1>1, <3>1, ProposedSafe
  <2> QED
    BY <2>1, <2>2, <2>3
<1>2. CASE a \in g
  BY <1>0, <1>2 DEF EntriesSafe
<1> QED
  BY <1>0, <1>1, <1>2, Gathered

\* Whoever wins an election has in its log what could have been committed before.
LEMMA ElectedSafe ==
    ASSUME NEW g, NEW h, HistoryInv(g, h), [Next]_vars, NEW p \in Nodes,
           role'[p] = "leader", role[p] # "leader"
    PROVE  Safe(h, log[p], term[p])
<1>0. /\ Shapes /\ LogInv(g) /\ bound.terms \in Nat /\ h \in [Nodes -> [Nat -> g]]
      /\ Keeps(h) /\ EntriesSafe(g, h)
  BY InvFacts, NodesAndBounds DEF HistoryInv, Shapes
<1>1. /\ leaders_seen[term[p]] = {} /\ term[p] \in 0..bound.terms /\ term[p] \in Nat
      /\ log[p] \in g
  BY <1>0, LedByNone, InvFacts
<1>2. role[p] = "candidate" /\ p \in leaders_seen'[term[p]]
  BY <1>0, LeadersSeen
<1>3. PICK q \in SUBSET Nodes : /\ Cardinality(q) >= Quorum
                                /\ \A v \in q : v \in votes[p] \/ VoteArrives(v, p)
  BY <1>0, <1>1, <1>2, LeaderStep
<1>4. term[p] > 0 /\ term[p] \in 1..bound.terms /\ term[p] - 1 \in Nat
  <2>1. term[p] > 0
    BY <1>2 DEF HistoryInv, VotesSafe
  <2> QED
    BY <1>0, <1>1, <2>1
<1> DEFINE u == term[p] - 1
<1>5. ASSUME NEW v \in q
      PROVE  v \in Nodes /\ UpToDate(LastTerm(log[p]), Len(log[p]), h[v][u])
  <2>1. CASE v = p
    <3>1. h[p][u] = log[p]
      BY <1>1, <1>4 DEF HistoryInv, Remembers, Unled
    <3>2. LastTerm(log[p]) \in Nat /\ Len(log[p]) \in Nat
      BY <1>0, <1>1, InvFacts
    <3> QED
      BY <2>1, <3>1, <3>2 DEF UpToDate
  <2>2. CASE v # p
    <3>1. v \in Peers(p)
      BY <2>2 DEF Peers
    <3> QED
      BY <1>1, <1>2, <1>3, <3>1 DEF HistoryInv, VotesSafe, Peers
  <2> QED
    BY <2>1, <2>2
<1> SUFFICES ASSUME NEW i \in Nat, NEW t \in Nat, t < term[p],
                    ~Has(log[p], i, t), ~Blocked(h, i, t)
             PROVE  FALSE
  BY DEF Safe
<1>6. t <= u /\ u \in Nat
  BY <1>4
<1> HIDE DEF u
<1>7. ASSUME NEW v \in q PROVE term[v] > t /\ ~Has(h[v][t], i, t)
  <2>1. v \in Nodes /\ term[v] >= term[p] /\ term[v] \in Nat
    BY <1>0, <1>2, <1>3, <1>5, Voted, InvFacts
  <2>2. ASSUME Has(h[v][t], i, t) PROVE FALSE
    <3>1. Has(h[v][u], i, t)
      BY <1>0, <1>6, <2>1, <2>2 DEF Keeps
    <3>2. h[v][u] \in g
      BY <1>0, <1>6, <2>1
    <3> QED
      BY <1>0, <1>1, <1>5, <3>1, <3>2, UpToDateHas
  <2> QED
    BY <1>1, <2>1, <2>2
<1>8. q \in Majorities
  BY <1>3 DEF Majorities
<1> QED
  BY <1>7, <1>8 DEF Blocked

LEMMA LeadersSafeStep ==
    ASSUME NEW g, NEW h, HistoryInv(g, h), [Next]_vars, NEW hh, Kept(h, hh)
    PROVE  LeadersSafe(hh)'
<1>0. Shapes /\ LogInv(g) /\ LeadersSafe(h)
  BY InvFacts DEF HistoryInv
<1> SUFFICES ASSUME NEW n \in Nodes, role'[n] = "leader"
             PROVE  Safe(h, log'[n], term'[n])
  BY SafeStays DEF LeadersSafe
<1>1. CASE role[n] = "leader"
  <2>1. term'[n] = term[n] /\ (log'[n] = log[n] \/ Propose(n))
    BY <1>0, <1>1, LeaderStays
  <2>2. Safe(h, log[n], term[n])
    BY <1>0, <1>1 DEF LeadersSafe
  <2>3. Propose(n) => log'[n] = Append(log[n], [term |-> term[n], by |-> n])
    BY <1>0 DEF Propose, Shapes, LogsOK
  <2> QED
    BY <2>1, <2>2, <2>3, ProposedSafe
<1>2. CASE role[n] # "leader"
  BY <1>0, <1>2, LeadersSeen, ElectedSafe
<1> QED
  BY <1>1, <1>2

LEMMA AppendsSafeStep ==
    ASSUME NEW g, NEW h, HistoryInv(g, h), [Next]_vars, NEW hh, Kept(h, hh)
    PROVE  AppendsSafe(hh)'
<1>0. Shapes /\ LogInv(g) /\ LeadersSafe(h) /\ AppendsSafe(h)
  BY InvFacts DEF HistoryInv
<1> SUFFICES ASSUME NEW l \in Links, NEW m \in Range(links'[l]), m.type = "AppendEntries",
                    m.prev_hash # NoHash
             PROVE  Safe(h, Carried(m), m.term)
  BY SafeStays DEF AppendsSafe, NoHash, Carried
<1>1. CASE m \in Range(links[l])
  BY <1>0, <1>1 DEF AppendsSafe
<1>2. ASSUME role[l[1]] = "leader", l[1] \in Nodes, m.term = term[l[1]],
             NEW next \in 1..(bound.entries + 1), m = ReplicateTo(l[1], next)
      PROVE  Safe(h, Carried(m), m.term)
  <2>1. Carried(m) = log[l[1]]
    BY <1>0, <1>2, CarriedIsLog
  <2> QED
    BY <1>0, <1>2, <2>1 DEF LeadersSafe
<1> QED
  BY <1>0, <1>1, <1>2, AppendsStep

\* Who stands as a candidate has the log it stood with.
LEMMA CandidateLog ==
    ASSUME Shapes, AppendsWell, [Next]_vars, NEW p \in Nodes, role'[p] = "candidate"
    PROVE  log'[p] = log[p]
<1>1. Propose(p) => log'[p] = log[p]
  <2> SUFFICES ASSUME Propose(p) PROVE FALSE
    OBVIOUS
  <2> QED
    BY DEF Propose, election
<1>2. ASSUME NEW j \in Peers(p), NEW m, NEW net, Adopts(p, j, m, net) PROVE FALSE
  BY <1>2 DEF Adopts, AcceptEntries, Follow, Shapes, ElectionOK
<1> QED
  BY <1>1, <1>2, LogCases

LEMMA RequestedStep == ASSUME NEW g, NEW h, HistoryInv(g, h), [Next]_vars PROVE Requested'
<1>0. Shapes /\ AppendsWell /\ Requested
  BY InvFacts DEF HistoryInv
<1> SUFFICES ASSUME NEW l \in Links, NEW m \in Range(links'[l])
             PROVE  /\ m.type = "RequestVote" =>
                         /\ m.term <= term'[l[1]]
                         /\ role'[l[1]] = "candidate" /\ m.term = term'[l[1]] =>
                               /\ m.last_index = Len(log'[l[1]])
                               /\ m.last_term = LastTerm(log'[l[1]])
                    /\ m.type = "VoteGranted" => m.term <= term'[l[2]]
  BY DEF Requested, LastTerm
<1>1. l[1] \in Nodes /\ l[2] \in Nodes /\ l = <<l[1], l[2]>> /\ <<l[2], l[1]>> \in Links
  BY DEF Links
<1>2. \A n \in Nodes : term'[n] \in Nat /\ term[n] \in Nat /\ term'[n] >= term[n]
  BY <1>0, VoteStep
<1>3. m.term \in Nat
  <2>1. links'[l] \in Seq(Fitting)
    BY <1>0, LinksStep
  <2>2. m \in Fitting
    BY <2>1, RangeOf
  <2> QED
    BY <2>2, MessageFields DEF Fitting
<1>4. CASE m \in Range(links[l])
  <2>1. /\ m.type = "RequestVote" =>
              /\ m.term <= term[l[1]]
              /\ role[l[1]] = "candidate" /\ m.term = term[l[1]] =>
                    m.last_index = Len(log[l[1]]) /\ m.last_term = LastTerm(log[l[1]])
        /\ m.type = "VoteGranted" => m.term <= term[l[2]]
    BY <1>0, <1>4 DEF Requested
  <2>2. m.type = "VoteGranted" => m.term <= term'[l[2]]
    BY <1>1, <1>2, <1>3, <2>1
  <2>3. m.type = "RequestVote" => m.term <= term'[l[1]]
    BY <1>1, <1>2, <1>3, <2>1
  <2>4. ASSUME m.type = "RequestVote", role'[l[1]] = "candidate", m.term = term'[l[1]]
        PROVE  m.last_index = Len(log'[l[1]]) /\ m.last_term = LastTerm(log'[l[1]])
    <3>1. log'[l[1]] = log[l[1]]
      BY <1>0, <1>1, <2>4, CandidateLog
    <3>2. m.term <= term[l[1]]
      BY <2>1, <2>4
    <3>3. term'[l[1]] # term[l[1]] + 1
      BY <1>1, <1>2, <2>4, <3>2
    <3>4. role[l[1]] = "candidate" /\ term'[l[1]] = term[l[1]]
      BY <1>0, <1>1, <2>4, <3>3, CandidateStep
    <3> QED
      BY <2>1, <2>4, <3>1, <3>4
  <2> QED
    BY <2>2, <2>3, <2>4
<1>5. CASE SentNow(l, m)
  <2>1. m.type = "RequestVote" =>
           /\ m.term = term'[l[1]] /\ m.last_index = Len(log[l[1]])
           /\ m.last_term = LastTerm(log[l[1]]) /\ log' = log
    BY <1>5 DEF SentNow
  <2>2. ASSUME m.type = "VoteGranted" PROVE m.term <= term'[l[2]]
    <3>1. PICK x \in Range(links[<<l[2], l[1]>>]) : x.type = "RequestVote" /\ x.term = m.term
      BY <1>5, <2>2 DEF SentNow
    <3>2. x.term <= term[l[2]]
      BY <1>0, <1>1, <3>1 DEF Requested
    <3> QED
      BY <1>1, <1>2, <1>3, <3>1, <3>2
  <2> QED
    BY <1>1, <1>2, <2>1, <2>2
<1> QED
  BY <1>0, <1>4, <1>5, LinksStep

LEMMA VotesSafeStep ==
    ASSUME NEW g, NEW h, HistoryInv(g, h), [Next]_vars, NEW hh, Kept(h, hh)
    PROVE  VotesSafe(hh)'
<1>0. /\ Shapes /\ AppendsWell /\ LogInv(g) /\ Requested /\ VotesSafe(h)
      /\ bound' = bound /\ bound.terms \in Nat
  BY InvFacts, BoundStays, NodesAndBounds DEF HistoryInv, Shapes
<1>1. \A n \in Nodes : /\ term'[n] \in Nat /\ term[n] \in Nat /\ term'[n] >= term[n]
                       /\ term[n] \in 0..bound.terms
  BY <1>0, VoteStep, InvFacts
<1>2. ASSUME NEW c \in Nodes, role'[c] = "candidate" PROVE term'[c] > 0
  <2>1. CASE role[c] = "candidate" /\ term'[c] = term[c]
    BY <1>0, <2>1 DEF VotesSafe
  <2>2. CASE term'[c] = term[c] + 1
    BY <1>1, <2>2
  <2> QED
    BY <1>0, <1>2, <2>1, <2>2, CandidateStep
<1> SUFFICES ASSUME NEW c \in Nodes, role'[c] = "candidate", NEW v \in Peers(c),
                    v \in votes'[c] \/ VoteArrives(v, c)'
             PROVE  \/ leaders_seen'[term'[c]] # {}
                    \/ UpToDate(LastTerm(log'[c]), Len(log'[c]), hh[v][term'[c] - 1])
  BY <1>2 DEF VotesSafe, Peers, LastTerm, UpToDate
<1>3. log'[c] = log[c] /\ v \in Nodes /\ v # c
  BY <1>0, CandidateLog DEF Peers
<1>4. <<v, c>> \in Links /\ <<c, v>> \in Links
  BY <1>3 DEF Links
<1>5. ASSUME ~(v \in votes'[c])
      PROVE  \E x \in Range(links'[<<v, c>>]) : x.type = "VoteGranted" /\ x.term = term'[c]
  BY <1>5 DEF VoteArrives
<1>6. CASE votes'[c] = {c} /\ term'[c] = term[c] + 1
  <2>1. PICK x \in Range(links'[<<v, c>>]) : x.type = "VoteGranted" /\ x.term = term'[c]
    BY <1>3, <1>5, <1>6
  <2>2. CASE x \in Range(links[<<v, c>>])
    <3>1. x.term <= term[c]
      BY <1>0, <1>4, <2>1, <2>2 DEF Requested
    <3> QED
      BY <1>1, <1>6, <2>1, <3>1
  <2>3. CASE SentNow(<<v, c>>, x)
    <3>1. PICK m \in Range(links[<<c, v>>]) : m.type = "RequestVote" /\ m.term = x.term
      BY <2>1, <2>3 DEF SentNow
    <3>2. m.term <= term[c]
      BY <1>0, <1>4, <3>1 DEF Requested
    <3> QED
      BY <1>1, <1>6, <2>1, <3>1, <3>2
  <2> QED
    BY <1>0, <1>4, <2>1, <2>2, <2>3, LinksStep
<1>7. CASE /\ role[c] = "candidate" /\ term'[c] = term[c]
           /\ \A w \in votes'[c] : w \in votes[c] \/ VoteArrives(w, c)
  <2>0. term[c] > 0 /\ term[c] - 1 \in Nat /\ term[c] \in 1..bound.terms /\ term[c] \in Nat
    <3>1. term[c] > 0
      BY <1>0, <1>7 DEF VotesSafe
    <3> QED
      BY <1>0, <1>1, <3>1
  <2>1. leaders_seen[term[c]] # {} => leaders_seen'[term'[c]] # {}
    BY <1>0, <1>1, <1>7, SeenGrows
  <2>2. ASSUME v \in votes[c] \/ VoteArrives(v, c)
        PROVE  \/ leaders_seen'[term'[c]] # {}
               \/ UpToDate(LastTerm(log'[c]), Len(log'[c]), hh[v][term'[c] - 1])
    <3>1. term[v] >= term[c]
      BY <1>0, <1>7, <2>2, Voted
    <3>2. hh[v][term[c] - 1] = h[v][term[c] - 1]
      BY <1>1, <1>3, <2>0, <3>1, HistoryStep
    <3> QED
      BY <1>0, <1>3, <1>7, <2>1, <2>2, <3>2 DEF VotesSafe
  <2>3. ASSUME NEW x \in Range(links'[<<v, c>>]), x.type = "VoteGranted", x.term = term'[c],
               SentNow(<<v, c>>, x)
        PROVE  \/ leaders_seen'[term'[c]] # {}
               \/ UpToDate(LastTerm(log'[c]), Len(log'[c]), hh[v][term'[c] - 1])
    <3>1. /\ x.term = term'[v]
          /\ \E m \in Range(links[<<c, v>>]) :
                /\ m.type = "RequestVote" /\ m.term = x.term
                /\ UpToDate(m.last_term, m.last_index, log[v])
      BY <2>3 DEF SentNow
    <3>2. UpToDate(LastTerm(log[c]), Len(log[c]), log[v])
      BY <1>0, <1>4, <1>7, <2>3, <3>1 DEF Requested
    <3>3. hh[v][term[c] - 1] = h[v][term[c] - 1]
      BY <1>3, <1>7, <2>0, <2>3, <3>1, HistoryStep
    <3>4. CASE leaders_seen[term[c]] = {}
      <4>1. h[v][term[c]] = h[v][term[c] - 1]
        BY <1>3, <2>0, <3>4 DEF HistoryInv, Unled
      <4>2. term[v] <= term[c]
        BY <1>1, <1>3, <1>7, <2>3, <3>1
      <4>3. h[v][term[c]] = log[v]
        BY <1>1, <1>3, <2>0, <4>2, HistoryStep
      <4> QED
        BY <1>3, <1>7, <3>2, <3>3, <4>1, <4>3
    <3> QED
      BY <2>1, <3>4
  <2>4. CASE v \in votes'[c]
    BY <1>7, <2>2, <2>4
  <2>5. CASE ~(v \in votes'[c])
    <3>1. PICK x \in Range(links'[<<v, c>>]) : x.type = "VoteGranted" /\ x.term = term'[c]
      BY <1>5, <2>5
    <3>2. CASE x \in Range(links[<<v, c>>])
      BY <1>7, <2>2, <3>1, <3>2 DEF VoteArrives
    <3>3. CASE SentNow(<<v, c>>, x)
      BY <2>3, <3>1, <3>3
    <3> QED
      BY <1>0, <1>4, <3>1, <3>2, <3>3, LinksStep
  <2> QED
    BY <2>4, <2>5
<1> QED
  BY <1>0, <1>6, <1>7, CandidateStep

LEMMA HistoryInit ==
    ASSUME Init, NEW h, h = [v \in Nodes |-> [u \in Nat |-> <<>>]]
    PROVE  HistoryInv({<<>>}, h)
<1>0. LogInv({<<>>}) /\ bound.terms \in Nat
  BY LogInit, NodesAndBounds DEF Init
<1>1. \A l \in Links : Range(links[l]) = {}
  BY DEF Init, Range
<1>2. h \in [Nodes -> [Nat -> {<<>>}]] /\ Remembers(h)
  BY DEF Init, Remembers
<1>3. Unled(h) /\ Keeps(h)
  BY <1>0 DEF Unled, Keeps
<1>4. EntriesSafe({<<>>}, h)
  BY EmptySeq DEF EntriesSafe
<1>5. LeadersSafe(h) /\ AppendsSafe(h) /\ Requested /\ VotesSafe(h)
  BY <1>1 DEF Init, LeadersSafe, AppendsSafe, Requested, VotesSafe
<1> QED
  BY <1>0, <1>2, <1>3, <1>4, <1>5 DEF HistoryInv

LEMMA HistoryInvStep ==
    ASSUME NEW g, NEW h, HistoryInv(g, h), [Next]_vars, NEW hh, Kept(h, hh),
           NEW gg, gg = g \union Copies'
    PROVE  HistoryInv(gg, hh)'
<1>1. LogInv(gg)' /\ hh \in [Nodes -> [Nat -> gg]] /\ Remembers(hh)'
  BY LogInvStep, HistoryTyped DEF HistoryInv
<1>2. Unled(hh)' /\ Keeps(hh)' /\ EntriesSafe(gg, hh)'
  BY UnledStep, KeepsStep, EntriesSafeStep
<1>3. LeadersSafe(hh)' /\ AppendsSafe(hh)' /\ Requested' /\ VotesSafe(hh)'
  BY LeadersSafeStep, AppendsSafeStep, RequestedStep, VotesSafeStep
<1> QED
  BY <1>1, <1>2, <1>3 DEF HistoryInv

(***************************************************************************)
(* Commitment.  From here on links are ordered, and no leader takes the    *)
(* hint of a rejection that was meant for an earlier term of its own past  *)
(* the end of its log: it would send entries after a previous entry that   *)
(* it does not have, and the sentinel hash of lib.rs makes a follower that *)
(* does not have it either accept them.                                    *)
(***************************************************************************)

TakesHintPastLog ==
    \E n \in Nodes : \E j \in Peers(n) :
        /\ links[<<j, n>>] # <<>>
        /\ LET m == links[<<j, n>>][1]
           IN /\ HandleAppendRejected(n, j, m, Taken(n, j, 1))
              /\ m.reason = "StaleTerm" /\ m.hint > Len(log[n]) + 1

Begins(a, b) == Len(a) <= Len(b) /\ \A k \in 1..Len(a) : a[k] = b[k]

AppendsOn(l) == {m \in Range(links[l]) : m.type = "AppendEntries"}

\* The entry was replicated by a majority in its term.
Chosen(h, i, t) ==
    \E q \in Majorities : \A v \in q : term[v] >= t /\ Has(h[v][t], i, t)

Committed(h, l) == l = <<>> \/ Chosen(h, Len(l), LastTerm(l))

NextInLog ==
    \A n \in Nodes : role[n] = "leader" =>
        \A p \in Nodes : next_index[n][p] <= Len(log[n]) + 1

AppendsFull == \A l \in Links : \A m \in AppendsOn(l) : m.prev_hash # NoHash

\* What a leader has sent in its term is part of its log.
AppendsOwn ==
    \A l \in Links : \A m \in AppendsOn(l) :
        role[l[1]] = "leader" /\ term[l[1]] = m.term => Begins(Carried(m), log[l[1]])

\* The entries of its term that a follower has are in what is on its way to it.
AppendsCover ==
    \A l \in Links : \A m \in AppendsOn(l) : m.term = term[l[2]] =>
        \A i \in Nat : Has(log[l[2]], i, m.term) => Has(Carried(m), i, m.term)

\* What a leader sends in a term grows.
AppendsGrow ==
    \A l \in Links : \A x, y \in 1..Len(links[l]) :
        /\ links[l][x].type = "AppendEntries" /\ links[l][y].type = "AppendEntries"
        /\ links[l][x].term = links[l][y].term /\ x <= y
        => Begins(Carried(links[l][x]), Carried(links[l][y]))

\* An answer to a leader's message is of a term which that leader led.
AnswersLed ==
    \A l \in Links : \A m \in Range(links[l]) :
        \/ m.type = "AppendOk"
        \/ m.type = "AppendRejected" /\ m.reason = "LogMismatch"
        => l[2] \in leaders_seen[m.term]

HintsInLog ==
    \A l \in Links : \A m \in Range(links[l]) :
        /\ m.type = "AppendRejected" /\ m.reason = "LogMismatch"
        /\ role[l[2]] = "leader" /\ m.term = term[l[2]]
        => m.hint <= Len(log[l[2]])

\* What j was told, or is being told, of how much of its log p has.
Oks(j, p) == {m \in Range(links[<<p, j>>]) : m.type = "AppendOk" /\ m.term = term[j]}
Evidence(j, p) == {match_index[j][p]} \union {m.match_index : m \in Oks(j, p)}

\* The first e entries of j's log are those p has, or had as it left the term.
Matches(h, j, p, e) ==
    /\ e <= Len(log[j])
    /\ e > 0 => /\ term[p] >= term[j]
                /\ e <= Len(h[p][term[j]])
                /\ \A k \in 1..e : h[p][term[j]][k] = log[j][k]

EvidenceHolds(h) ==
    \A j \in Nodes : role[j] = "leader" =>
        \A p \in Peers(j) : \A e \in Evidence(j, p) :
            /\ Matches(h, j, p, e)
            /\ \A m \in AppendsOn(<<j, p>>) : m.term = term[j] => e <= Len(Carried(m))

HistoriesHold(h) ==
    \A n \in Nodes :
        /\ Len(committed_history[n]) = commit_index[n]
        /\ Begins(committed_history[n], log[n])
        /\ Committed(h, committed_history[n])

AppendsCommitted(h) ==
    \A l \in Links : \A m \in AppendsOn(l) :
        /\ m.leader_commit <= Len(Carried(m))
        /\ Committed(h, SubSeq(Carried(m), 1, m.leader_commit))

CommitInv(g, h) ==
    /\ HistoryInv(g, h)
    /\ NextInLog /\ AppendsFull /\ AppendsOwn /\ AppendsCover /\ AppendsGrow
    /\ AnswersLed /\ HintsInLog /\ EvidenceHolds(h)
    /\ HistoriesHold(h) /\ AppendsCommitted(h)

(***************************************************************************)
(* What the invariant says of a state.                                     *)
(***************************************************************************)

LEMMA ChosenIsNotBlocked ==
    ASSUME NEW h, NEW i, NEW t, Chosen(h, i, t), Blocked(h, i, t)
    PROVE  FALSE
<1>1. PICK p \in Majorities : \A v \in p : term[v] >= t /\ Has(h[v][t], i, t)
  BY DEF Chosen
<1>2. PICK q \in Majorities : \A v \in q : term[v] > t /\ ~Has(h[v][t], i, t)
  BY DEF Blocked
<1>3. p \intersect q # {}
  BY QuorumsMeet DEF Majorities
<1> QED
  BY <1>1, <1>2, <1>3

LEMMA BeginsIsPrefix ==
    ASSUME NEW S, NEW a \in Seq(S), NEW b \in Seq(S), Begins(a, b)
    PROVE  IsPrefix(a, b)
<1>1. Len(a) \in Nat /\ Len(b) \in Nat /\ Len(a) <= Len(b) /\ Len(a) <= Len(a)
  BY LenProperties DEF Begins
<1>2. /\ SubSeq(a, 1, Len(a)) \in Seq(S) /\ SubSeq(b, 1, Len(a)) \in Seq(S)
      /\ Len(SubSeq(a, 1, Len(a))) = Len(a) /\ Len(SubSeq(b, 1, Len(a))) = Len(a)
      /\ \A k \in 1..Len(a) : SubSeq(a, 1, Len(a))[k] = a[k]
      /\ \A k \in 1..Len(a) : SubSeq(b, 1, Len(a))[k] = b[k]
  BY <1>1, PartOf
<1>3. SubSeq(a, 1, Len(a)) = SubSeq(b, 1, Len(a))
  BY <1>2, SeqEqual DEF Begins
<1> QED
  BY <1>1, <1>3 DEF IsPrefix

LEMMA PrefixBegins ==
    ASSUME NEW S, NEW a \in Seq(S), NEW i \in Nat, i <= Len(a)
    PROVE  /\ SubSeq(a, 1, i) \in Seq(S) /\ Len(SubSeq(a, 1, i)) = i
           /\ Begins(SubSeq(a, 1, i), a)
<1>1. Len(a) \in Nat
  BY LenProperties
<1>2. /\ SubSeq(a, 1, i) \in Seq(S) /\ Len(SubSeq(a, 1, i)) = i
      /\ \A k \in 1..i : SubSeq(a, 1, i)[k] = a[k]
  BY <1>1, PartOf
<1> QED
  BY <1>1, <1>2 DEF Begins

\* The history of a node ends with an entry of its log that was chosen.
LEMMA HistoryEnds ==
    ASSUME NEW g, NEW h, CommitInv(g, h), NEW n \in Nodes, committed_history[n] # <<>>
    PROVE  LET c == committed_history[n]
           IN /\ Len(c) \in 1..Len(c) /\ Len(c) \in 1..Len(log[n]) /\ LastTerm(c) \in Nat
              /\ log[n][Len(c)].term = LastTerm(c)
              /\ Has(log[n], Len(c), LastTerm(c))
              /\ Chosen(h, Len(c), LastTerm(c))
<1> DEFINE c == committed_history[n]
<1>0. LogInv(g) /\ Shapes /\ log[n] \in g /\ Len(log[n]) \in Nat
  BY InvFacts DEF CommitInv, HistoryInv
<1>1. c \in Seq(Entries)
  BY <1>0 DEF Shapes, CommitmentOK
<1>2. Begins(c, log[n]) /\ Committed(h, c) /\ c # <<>>
  BY DEF CommitInv, HistoriesHold
<1> HIDE DEF c
<1>3. Len(c) \in Nat /\ Len(c) # 0 /\ LastTerm(c) = c[Len(c)].term
  BY <1>1, <1>2, EmptySeq, LenProperties DEF LastTerm
<1>4. Len(c) \in 1..Len(c) /\ Len(c) \in 1..Len(log[n]) /\ c[Len(c)] = log[n][Len(c)]
  BY <1>0, <1>2, <1>3 DEF Begins
<1>5. LastTerm(c) \in Nat
  BY <1>1, EntriesOf
<1>6. Has(log[n], Len(c), LastTerm(c)) /\ log[n][Len(c)].term = LastTerm(c)
  BY <1>3, <1>4 DEF Has
<1>7. Chosen(h, Len(c), LastTerm(c))
  BY <1>2 DEF Committed
<1> QED
  BY <1>4, <1>5, <1>6, <1>7 DEF c

\* A log that has the last entry of a history begins with it.
LEMMA HasAll ==
    ASSUME NEW g, NEW h, CommitInv(g, h), NEW n \in Nodes, NEW b \in g,
           committed_history[n] # <<>>,
           Has(b, Len(committed_history[n]), LastTerm(committed_history[n]))
    PROVE  Begins(committed_history[n], b)
<1> DEFINE c == committed_history[n]
           i == Len(c)
<1>0. LogInv(g) /\ log[n] \in g /\ Len(b) \in Nat
  BY InvFacts DEF CommitInv, HistoryInv
<1>1. i \in 1..i /\ i \in 1..Len(log[n]) /\ log[n][i].term = LastTerm(c)
  BY HistoryEnds
<1>2. i \in 1..Len(b) /\ b[i].term = LastTerm(c)
  BY DEF Has
<1>3. Agree(log[n], b)
  BY <1>0 DEF LogInv, Matching
<1>4. \A k \in 1..i : log[n][k] = b[k]
  BY <1>1, <1>2, <1>3 DEF Agree
<1>5. Begins(c, log[n])
  BY DEF CommitInv, HistoriesHold
<1> HIDE DEF c
<1> QED
  BY <1>0, <1>1, <1>2, <1>4, <1>5 DEF Begins, c

\* A log that is safe past the term of a history's last entry has the history.
LEMMA SafeHasAll ==
    ASSUME NEW g, NEW h, CommitInv(g, h), NEW n \in Nodes, NEW b \in g, NEW u,
           committed_history[n] # <<>>, Safe(h, b, u), LastTerm(committed_history[n]) < u
    PROVE  Begins(committed_history[n], b)
<1>1. /\ Len(committed_history[n]) \in Nat /\ LastTerm(committed_history[n]) \in Nat
      /\ Chosen(h, Len(committed_history[n]), LastTerm(committed_history[n]))
  BY HistoryEnds
<1>2. Has(b, Len(committed_history[n]), LastTerm(committed_history[n]))
  BY <1>1, ChosenIsNotBlocked DEF Safe
<1> QED
  BY <1>2, HasAll

LEMMA Comparable ==
    ASSUME NEW g, NEW h, CommitInv(g, h), NEW a \in Nodes, NEW b \in Nodes,
           committed_history[a] # <<>>, committed_history[b] # <<>>,
           LastTerm(committed_history[a]) <= LastTerm(committed_history[b])
    PROVE  \/ Begins(committed_history[a], committed_history[b])
           \/ Begins(committed_history[b], committed_history[a])
<1> DEFINE x == committed_history[a]
           y == committed_history[b]
<1>0. /\ LogInv(g) /\ log[a] \in g /\ log[b] \in g
      /\ Len(log[a]) \in Nat /\ Len(log[b]) \in Nat
  BY InvFacts DEF CommitInv, HistoryInv
<1>1. /\ Len(x) \in 1..Len(x) /\ Len(x) \in 1..Len(log[a]) /\ LastTerm(x) \in Nat
      /\ log[a][Len(x)].term = LastTerm(x)
  BY HistoryEnds
<1>2. /\ Len(y) \in 1..Len(y) /\ Len(y) \in 1..Len(log[b]) /\ LastTerm(y) \in Nat
      /\ log[b][Len(y)].term = LastTerm(y)
  BY HistoryEnds
<1>3. Begins(x, log[a]) /\ Begins(y, log[b])
  BY DEF CommitInv, HistoriesHold
<1>4. CASE LastTerm(x) = LastTerm(y)
  <2>1. Agree(log[a], log[b])
    BY <1>0 DEF LogInv, Matching
  <2>2. \A k \in 1..Len(x) : k <= Len(y) => log[a][k] = log[b][k]
    BY <1>1, <1>2, <1>4, <2>1 DEF Agree
  <2> HIDE DEF x, y
  <2>3. \A k \in 1..Len(x) : k <= Len(y) => x[k] = y[k]
    BY <1>1, <1>2, <1>3, <2>2 DEF Begins
  <2>4. CASE Len(x) <= Len(y)
    BY <1>1, <1>2, <2>3, <2>4 DEF Begins, x, y
  <2>5. CASE Len(y) <= Len(x)
    BY <1>1, <1>2, <2>3, <2>5 DEF Begins, x, y
  <2> QED
    BY <1>1, <1>2, <2>4, <2>5
<1>5. CASE LastTerm(x) < LastTerm(y)
  <2>1. Safe(h, log[b], LastTerm(y))
    BY <1>0, <1>2 DEF CommitInv, HistoryInv, EntriesSafe
  <2>2. Begins(x, log[b])
    BY <1>0, <1>5, <2>1, SafeHasAll
  <2> HIDE DEF x, y
  <2>3. \A k \in 1..Len(x) : k <= Len(y) => x[k] = y[k]
    BY <1>1, <1>2, <1>3, <2>2 DEF Begins
  <2>4. CASE Len(x) <= Len(y)
    BY <1>1, <1>2, <2>3, <2>4 DEF Begins, x, y
  <2>5. CASE Len(y) <= Len(x)
    BY <1>1, <1>2, <2>3, <2>5 DEF Begins, x, y
  <2> QED
    BY <1>1, <1>2, <2>4, <2>5
<1> QED
  BY <1>1, <1>2, <1>4, <1>5

LEMMA HistoriesTyped ==
    ASSUME NEW g, NEW h, CommitInv(g, h), NEW n \in Nodes
    PROVE  /\ committed_history[n] \in Seq(Entries) /\ log[n] \in Seq(Entries)
           /\ committed_history[n] = <<>> => \A s \in Seq(Entries) : Begins(committed_history[n], s)
<1>1. Shapes
  BY InvFacts DEF CommitInv, HistoryInv
<1>2. committed_history[n] \in Seq(Entries) /\ log[n] \in Seq(Entries)
  BY <1>1 DEF Shapes, CommitmentOK, LogsOK
<1>3. \A s \in Seq(Entries) : Begins(<<>>, s)
  BY EmptySeq, LenProperties DEF Begins
<1> QED
  BY <1>2, <1>3

LEMMA AgreeFromInv ==
    ASSUME NEW g, NEW h, CommitInv(g, h) PROVE HistoriesAgree
<1> SUFFICES ASSUME NEW a \in Nodes, NEW b \in Nodes
             PROVE  \/ Begins(committed_history[a], committed_history[b])
                    \/ Begins(committed_history[b], committed_history[a])
  BY HistoriesTyped, BeginsIsPrefix DEF HistoriesAgree
<1>1. CASE committed_history[a] = <<>> \/ committed_history[b] = <<>>
  BY <1>1, HistoriesTyped
<1>2. CASE committed_history[a] # <<>> /\ committed_history[b] # <<>>
  <2>1. /\ LastTerm(committed_history[a]) \in Nat /\ LastTerm(committed_history[b]) \in Nat
    BY HistoriesTyped, EntriesOf
  <2>2. \/ LastTerm(committed_history[a]) <= LastTerm(committed_history[b])
        \/ LastTerm(committed_history[b]) <= LastTerm(committed_history[a])
    BY <2>1
  <2> QED
    BY <1>2, <2>2, Comparable
<1> QED
  BY <1>1, <1>2

LEMMA StaysFromInv ==
    ASSUME NEW g, NEW h, CommitInv(g, h) PROVE CommittedStaysInLog
<1> SUFFICES ASSUME NEW n \in Nodes
             PROVE  /\ IsPrefix(committed_history[n], log[n])
                    /\ Len(committed_history[n]) = commit_index[n]
  BY DEF CommittedStaysInLog
<1> QED
  BY HistoriesTyped, BeginsIsPrefix DEF CommitInv, HistoriesHold

LEMMA MatchFromInv ==
    ASSUME NEW g, NEW h, CommitInv(g, h) PROVE MatchIsHeld
<1> SUFFICES ASSUME NEW n \in Nodes, role[n] = "leader", NEW p \in Peers(n),
                    term[p] <= term[n]
             PROVE  /\ match_index[n][p] <= Len(log[n])
                    /\ IsPrefix(SubSeq(log[n], 1, match_index[n][p]), log[p])
  BY DEF MatchIsHeld
<1> DEFINE e == match_index[n][p]
<1>0. /\ Shapes /\ LogInv(g) /\ p \in Nodes /\ term[p] \in Nat /\ term[n] \in Nat
      /\ log[n] \in Seq(Entries) /\ log[p] \in Seq(Entries) /\ e \in Nat
  <2>1. Shapes /\ LogInv(g) /\ p \in Nodes
    BY InvFacts DEF CommitInv, HistoryInv, Peers
  <2>2. e \in Nat
    BY <2>1, NodesAndBounds DEF Shapes, ProgressOK
  <2> QED
    BY <2>1, <2>2, InvFacts, HistoriesTyped
<1>1. Matches(h, n, p, e)
  BY DEF CommitInv, EvidenceHolds, Evidence
<1>2. h[p][term[n]] = log[p]
  BY <1>0 DEF CommitInv, HistoryInv, Remembers
<1> HIDE DEF e
<1>3. e <= Len(log[n])
  BY <1>1 DEF Matches
<1>4. /\ SubSeq(log[n], 1, e) \in Seq(Entries) /\ Len(SubSeq(log[n], 1, e)) = e
      /\ \A k \in 1..e : SubSeq(log[n], 1, e)[k] = log[n][k]
  BY <1>0, <1>3, PartOf
<1>5. Begins(SubSeq(log[n], 1, e), log[p])
  <2>1. CASE e = 0
    BY <1>0, <1>4, <2>1, LenProperties DEF Begins
  <2>2. CASE e > 0
    BY <1>1, <1>2, <1>4, <2>2 DEF Matches, Begins
  <2> QED
    BY <1>0, <2>1, <2>2
<1> QED
  BY <1>0, <1>3, <1>4, <1>5, BeginsIsPrefix DEF e

LEMMA OutvotedFromInv ==
    ASSUME NEW g, NEW h, CommitInv(g, h) PROVE CommittedCannotBeOutvoted
<1>0. /\ LogInv(g) /\ Keeps(h) /\ EntriesSafe(g, h) /\ Remembers(h)
  BY DEF CommitInv, HistoryInv
<1>1. \A n \in Nodes : term[n] \in Nat /\ log[n] \in g /\ log[n] \in Seq(Entries)
  BY <1>0, InvFacts
<1> SUFFICES ASSUME NEW a \in Nodes, NEW b \in Nodes,
                    ~IsPrefix(committed_history[a], log[b])
             PROVE  Cardinality({v \in Nodes : UpToDate(LastTerm(log[b]), Len(log[b]), log[v])})
                       < Quorum
  BY DEF CommittedCannotBeOutvoted
<1> DEFINE q == {v \in Nodes : UpToDate(LastTerm(log[b]), Len(log[b]), log[v])}
           i == Len(committed_history[a])
           t == LastTerm(committed_history[a])
<1>2. ~Begins(committed_history[a], log[b])
  BY HistoriesTyped, BeginsIsPrefix
<1>3. committed_history[a] # <<>>
  BY <1>2, HistoriesTyped
<1>4. Chosen(h, i, t) /\ i \in Nat /\ t \in Nat
  BY <1>3, HistoryEnds
<1>5. ~Blocked(h, i, t)
  BY <1>4, ChosenIsNotBlocked
<1>6. ~Has(log[b], i, t)
  BY <1>1, <1>2, <1>3, HasAll
<1> HIDE DEF i, t
<1>7. ASSUME Cardinality(q) >= Quorum PROVE FALSE
  <2>1. PICK p \in Majorities : \A v \in p : term[v] >= t /\ Has(h[v][t], i, t)
    BY <1>4 DEF Chosen
  <2>2. PICK v : v \in p /\ v \in q
    <3>1. q \in SUBSET Nodes
      OBVIOUS
    <3> HIDE DEF q
    <3> QED
      BY <1>7, <2>1, <3>1, QuorumsMeet DEF Majorities
  <2>3. v \in Nodes /\ UpToDate(LastTerm(log[b]), Len(log[b]), log[v])
    BY <2>2
  <2>4. Has(h[v][term[v]], i, t)
    BY <1>0, <1>1, <1>4, <1>5, <2>1, <2>2, <2>3 DEF Keeps
  <2>5. h[v][term[v]] = log[v]
    BY <1>0, <1>1, <2>3 DEF Remembers
  <2> QED
    BY <1>0, <1>1, <1>4, <1>5, <1>6, <2>3, <2>4, <2>5, UpToDateHas
<1>8. Cardinality(q) \in Nat /\ Quorum \in Nat
  <2>1. IsFiniteSet(q)
    BY RaftAssumption, FS_Subset
  <2> HIDE DEF q
  <2> QED
    BY <2>1, RaftAssumption, FS_CardinalityType DEF Quorum
<1> HIDE DEF q
<1>9. Cardinality(q) < Quorum
  BY <1>7, <1>8
<1> QED
  BY <1>9 DEF q

(***************************************************************************)
(* The order of the links.                                                 *)
(***************************************************************************)

\* What is sent follows what is in flight.
LEMMA DispatchedInOrder ==
    ASSUME NEW net, NetOK(net), NEW n, NEW m, NEW dests,
           NEW most \in Nat, Dispatch(net, n, m, dests, most)
    PROVE  \A l \in Links : \A i \in 1..Len(links'[l]) :
              IF i <= Len(net[l]) THEN links'[l][i] = net[l][i]
              ELSE links'[l][i] = m /\ l[1] = n
<1> SUFFICES ASSUME NEW l \in Links, NEW i \in 1..Len(links'[l])
             PROVE  IF i <= Len(net[l]) THEN links'[l][i] = net[l][i]
                    ELSE links'[l][i] = m /\ l[1] = n
  OBVIOUS
<1>1. PICK c \in [dests -> 0..most] : links' = Sent(net, n, m, c)
  BY DEF Dispatch, Arrivals
<1>2. links'[l] = IF l[1] = n /\ l[2] \in dests
                  THEN net[l] \o [x \in 1..c[l[2]] |-> m] ELSE net[l]
  BY <1>1 DEF Sent
<1> DEFINE S == Fitting \union {m}
<1>3. net[l] \in Seq(S) /\ Len(net[l]) \in Nat
  <2>1. net[l] \in Seq(Fitting) /\ Fitting \subseteq S
    BY DEF NetOK
  <2> HIDE DEF S
  <2> QED
    BY <2>1, SeqMonotonic, LenProperties
<1>4. CASE l[1] = n /\ l[2] \in dests
  <2> DEFINE t == [x \in 1..c[l[2]] |-> m]
  <2>1. c[l[2]] \in Nat
    BY <1>4
  <2>2. t \in Seq(S) /\ Len(t) = c[l[2]] /\ \A x \in 1..c[l[2]] : t[x] = m
    <3>1. t \in Seq(S)
      BY <2>1, SeqDef
    <3>2. DOMAIN t = 1..Len(t) /\ Len(t) \in Nat /\ DOMAIN t = 1..c[l[2]]
      BY <3>1, LenProperties
    <3>3. Len(t) = c[l[2]]
      BY <2>1, <3>1, LenProperties
    <3> QED
      BY <3>1, <3>3
  <2>3. links'[l] = net[l] \o t
    BY <1>2, <1>4
  <2> HIDE DEF t
  <2>4. /\ Len(links'[l]) = Len(net[l]) + Len(t)
        /\ \A x \in 1..(Len(net[l]) + Len(t)) : links'[l][x] =
              IF x <= Len(net[l]) THEN net[l][x] ELSE t[x - Len(net[l])]
    <3> DEFINE a == net[l]
               w == links'[l]
    <3>1. a \in Seq(S) /\ t \in Seq(S) /\ w = a \o t
      BY <1>3, <2>2, <2>3
    <3> HIDE DEF a, w, S
    <3>2. /\ Len(w) = Len(a) + Len(t)
          /\ \A x \in 1..(Len(a) + Len(t)) : w[x] = IF x <= Len(a) THEN a[x] ELSE t[x - Len(a)]
      BY <3>1, ConcatProperties
    <3> QED
      BY <3>2 DEF a, w
  <2>5. CASE i <= Len(net[l])
    BY <2>4, <2>5
  <2>6. CASE ~(i <= Len(net[l]))
    <3>1. i - Len(net[l]) \in 1..c[l[2]] /\ links'[l][i] = t[i - Len(net[l])]
      BY <1>3, <2>1, <2>2, <2>4, <2>6
    <3> QED
      BY <1>4, <2>2, <2>6, <3>1
  <2> QED
    BY <2>5, <2>6
<1>5. CASE ~(l[1] = n /\ l[2] \in dests)
  BY <1>2, <1>3, <1>5
<1> QED
  BY <1>4, <1>5

LEMMA FirstRemoved ==
    ASSUME NEW S, NEW s \in Seq(S), s # <<>>
    PROVE  /\ Len(RemoveAt(s, 1)) = Len(s) - 1
           /\ \A i \in 1..Len(RemoveAt(s, 1)) : RemoveAt(s, 1)[i] = s[i + 1]
<1> DEFINE a == SubSeq(s, 1, 0)
           b == SubSeq(s, 2, Len(s))
<1>1. Len(s) \in Nat /\ Len(s) >= 1
  BY EmptySeq, LenProperties
<1>2. a = <<>>
  BY SubSeqEmpty
<1>3. /\ b \in Seq(S) /\ Len(b) = Len(s) - 1
      /\ \A i \in 1..Len(b) : b[i] = s[2 + i - 1]
  <2>1. 2 \in Nat \ {0} /\ Len(s) <= Len(s)
    BY <1>1
  <2>2. /\ b \in Seq(S) /\ Len(b) = IF 2 <= Len(s) THEN Len(s) - 2 + 1 ELSE 0
        /\ \A i \in 1..Len(b) : b[i] = s[2 + i - 1]
    BY <1>1, <2>1, PartOf
  <2> HIDE DEF b
  <2>3. Len(b) = Len(s) - 1
    <3>1. ASSUME NEW x \in Nat, x >= 1
          PROVE  (IF 2 <= x THEN x - 2 + 1 ELSE 0) = x - 1
      BY <3>1
    <3> QED
      BY <1>1, <2>2, <3>1
  <2> QED
    BY <2>2, <2>3
<1>4. RemoveAt(s, 1) = a \o b
  BY DEF RemoveAt
<1> HIDE DEF a, b
<1>5. RemoveAt(s, 1) = b
  BY <1>2, <1>3, <1>4, ConcatEmptySeq
<1> QED
  BY <1>1, <1>3, <1>5

\* With ordered links, a message in flight was in flight as many places behind as
\* were taken, or is behind all of these.
LEMMA OrderedLinks ==
    ASSUME Shapes, ~Reorder, [Next]_vars, NEW l \in Links
    PROVE  \E d \in Nat : \A i \in 1..Len(links'[l]) :
              IF i + d <= Len(links[l]) THEN links'[l][i] = links[l][i + d]
              ELSE links'[l][i].type = "AppendEntries" =>
                      /\ role[l[1]] = "leader"
                      /\ links'[l][i].term = term[l[1]]
                      /\ \E next \in 1..(bound.entries + 1) :
                            links'[l][i] = ReplicateTo(l[1], next)
<1> DEFINE New(x) == x.type = "AppendEntries" =>
                      /\ role[l[1]] = "leader" /\ x.term = term[l[1]]
                      /\ \E next \in 1..(bound.entries + 1) : x = ReplicateTo(l[1], next)
           Goal == \E d \in Nat : \A i \in 1..Len(links'[l]) :
                      IF i + d <= Len(links[l]) THEN links'[l][i] = links[l][i + d]
                      ELSE New(links'[l][i])
<1>0. /\ NetOK(links) /\ links[l] \in Seq(Fitting) /\ Len(links[l]) \in Nat
  BY LenProperties DEF Shapes, NetOK
<1>1. ASSUME NEW net, NetOK(net), NEW d \in Nat, Len(net[l]) = Len(links[l]) - d,
             \A i \in 1..Len(net[l]) : net[l][i] = links[l][i + d]
      PROVE  /\ links' = net => Goal
             /\ \A n, dests : \A m, most :
                   most \in Nat /\ Dispatch(net, n, m, dests, most) /\ (l[1] = n => New(m)) => Goal
  <2>0. net[l] \in Seq(Fitting) /\ Len(net[l]) \in Nat
    BY <1>1, LenProperties DEF NetOK
  <2>1. \A i \in Nat : i + d <= Len(links[l]) <=> i <= Len(net[l])
    BY <1>0, <1>1, <2>0
  <2>2. ASSUME links' = net PROVE Goal
    <3>1. \A i \in 1..Len(links'[l]) : i + d <= Len(links[l]) /\ links'[l][i] = links[l][i + d]
      BY <1>1, <2>0, <2>1, <2>2
    <3> HIDE DEF New
    <3> QED
      BY <3>1
  <2>3. ASSUME NEW n, NEW dests, NEW m, NEW most \in Nat,
               Dispatch(net, n, m, dests, most), l[1] = n => New(m)
        PROVE  Goal
    <3> HIDE DEF New
    <3>1. \A i \in 1..Len(links'[l]) :
             IF i <= Len(net[l]) THEN links'[l][i] = net[l][i]
             ELSE links'[l][i] = m /\ l[1] = n
      <4>1. NetOK(net) /\ Dispatch(net, n, m, dests, most)
        BY <1>1, <2>3
      <4> QED
        BY <4>1, DispatchedInOrder
    <3>2. ASSUME NEW i \in 1..Len(links'[l])
          PROVE  IF i + d <= Len(links[l]) THEN links'[l][i] = links[l][i + d]
                 ELSE New(links'[l][i])
      <4>1. CASE i <= Len(net[l])
        <5>1. i \in 1..Len(net[l]) /\ i + d <= Len(links[l])
          BY <2>0, <2>1, <4>1
        <5> QED
          BY <1>1, <3>1, <4>1, <5>1
      <4>2. CASE ~(i <= Len(net[l]))
        <5>1. ~(i + d <= Len(links[l]))
          BY <2>1, <4>2
        <5> QED
          BY <2>3, <3>1, <4>2, <5>1
      <4> QED
        BY <4>1, <4>2
    <3> QED
      BY <3>2
  <2> HIDE DEF Goal, New
  <2> QED
    BY <2>2, <2>3
<1>2. /\ links' = links => Goal
      /\ \A n, dests : \A m, most :
            most \in Nat /\ Dispatch(links, n, m, dests, most) /\ (l[1] = n => New(m)) => Goal
  <2>1. /\ 0 \in Nat /\ Len(links[l]) = Len(links[l]) - 0
        /\ \A i \in 1..Len(links[l]) : links[l][i] = links[l][i + 0]
    BY <1>0
  <2> HIDE DEF Goal, New
  <2> QED
    BY <1>0, <1>1, <2>1, Zenon
<1>3. ASSUME NEW n \in Nodes, NEW j \in Peers(n), NEW k, Handle(n, j, k)
      PROVE  LET net == Taken(n, j, k)
             IN /\ links' = net => Goal
                /\ \A dests : \A m, most :
                      most \in Nat /\ Dispatch(net, n, m, dests, most) /\ (l[1] = n => New(m)) => Goal
  <2> DEFINE q == links[<<j, n>>]
             net == Taken(n, j, k)
  <2>1. k \in DOMAIN q /\ k = 1 /\ <<j, n>> \in Links
    BY <1>3 DEF Handle, Links, Peers
  <2>2. NetOK(net)
    BY <1>3, TakenOK DEF Handle
  <2>3. q \in Seq(Fitting) /\ q # <<>>
    <3>1. q \in Seq(Fitting)
      BY <2>1 DEF Shapes
    <3> HIDE DEF q
    <3> QED
      BY <2>1, <3>1, EmptySeq, LenProperties
  <2>4. net = [links EXCEPT ![<<j, n>>] = RemoveAt(q, 1)]
    BY <2>1 DEF Taken
  <2>5. \E d \in Nat : /\ Len(net[l]) = Len(links[l]) - d
                       /\ \A i \in 1..Len(net[l]) : net[l][i] = links[l][i + d]
    <3>1. CASE l = <<j, n>>
      <4>1. net[l] = RemoveAt(q, 1) /\ q = links[l]
        BY <1>0, <2>4, <3>1 DEF NetOK
      <4> HIDE DEF q, net
      <4>2. /\ Len(net[l]) = Len(links[l]) - 1
            /\ \A i \in 1..Len(net[l]) : net[l][i] = links[l][i + 1]
        BY <2>3, <4>1, FirstRemoved
      <4> QED
        BY <4>2
    <3>2. CASE l # <<j, n>>
      <4>1. net[l] = links[l]
        BY <1>0, <2>4, <3>2 DEF NetOK
      <4>2. /\ Len(net[l]) = Len(links[l]) - 0
            /\ \A i \in 1..Len(net[l]) : net[l][i] = links[l][i + 0]
        BY <1>0, <4>1
      <4> QED
        BY <4>2
    <3> QED
      BY <3>1, <3>2
  <2> HIDE DEF net, Goal, New
  <2>6. PICK d \in Nat : /\ Len(net[l]) = Len(links[l]) - d
                         /\ \A i \in 1..Len(net[l]) : net[l][i] = links[l][i + d]
    BY <2>5
  <2>7. /\ links' = net => Goal
        /\ \A dests : \A m, most :
              most \in Nat /\ Dispatch(net, n, m, dests, most) /\ (l[1] = n => New(m)) => Goal
    BY <1>1, <2>2, <2>6, Zenon
  <2> QED
    BY <2>7 DEF net
<1>4. ASSUME NEW n \in Nodes, NEW next \in 1..(bound.entries + 1), role[n] = "leader",
             l[1] = n
      PROVE  New(ReplicateTo(n, next))
  <2>1. ReplicateTo(n, next).term = term[n]
    BY DEF ReplicateTo
  <2> QED
    BY <1>4, <2>1
<1>5. ASSUME NEW x, x.type # "AppendEntries" PROVE New(x)
  BY <1>5
<1> HIDE DEF Goal, New
<1>6. ASSUME NEW n \in Nodes, Elect(n) PROVE Goal
  <2> DEFINE x == [type |-> "RequestVote", term |-> term[n] + 1,
                   last_index |-> Len(log[n]), last_term |-> LastTerm(log[n])]
  <2>1. Dispatch(links, n, x, Peers(n), Cardinality(Peers(n))) /\ x.type # "AppendEntries"
    BY <1>6 DEF Elect
  <2>2. Cardinality(Peers(n)) \in Nat
    BY RaftAssumption, FS_RemoveElement, FS_CardinalityType DEF Peers
  <2> HIDE DEF x
  <2> QED
    BY <1>2, <1>5, <2>1, <2>2
<1>7. ASSUME NEW n \in Nodes, NEW p \in Peers(n), Heartbeat(n, p) PROVE Goal
  <2>1. next_index[n][p] \in 1..(bound.entries + 1)
    BY DEF Shapes, ProgressOK, Peers
  <2>2. role[n] = "leader" /\ Dispatch(links, n, ReplicateTo(n, next_index[n][p]), {p}, 1)
    BY <1>7 DEF Heartbeat
  <2> QED
    BY <1>2, <1>4, <2>1, <2>2
<1>8. ASSUME NEW n \in Nodes, NEW j \in Peers(n), NEW k, Handle(n, j, k) PROVE Goal
  <2> DEFINE m == links[<<j, n>>][k]
             net == Taken(n, j, k)
  <2>1. Process(n, j, m, net) /\ m \in Fitting
    BY <1>8, TakenOK DEF Handle
  <2>2. /\ links' = net => Goal
        /\ \A dests, x, most :
              most \in Nat /\ Dispatch(net, n, x, dests, most) /\ (l[1] = n => New(x)) => Goal
    BY <1>3, <1>8
  <2> HIDE DEF m, net
  <2>3. ASSUME NEW x, NEW dests, Dispatch(net, n, x, dests, 1), x.type # "AppendEntries"
        PROVE  Goal
    BY <1>5, <2>2, <2>3
  <2>4. \A hint, why : Rejection(n, m, hint, why).type # "AppendEntries"
    BY DEF Rejection
  <2>5. CASE HandleRequestVote(n, j, m, net)
    <3> DEFINE x == [type |-> IF Grants(n, j, m) THEN "VoteGranted" ELSE "VoteDenied",
                     term |-> BiggerOf(term[n], m.term)]
    <3>1. Dispatch(net, n, x, {j}, 1) /\ x.type # "AppendEntries"
      BY <2>5 DEF HandleRequestVote
    <3> HIDE DEF x
    <3> QED
      BY <2>3, <3>1
  <2>6. CASE RejectStale(n, j, m, net) \/ RejectMismatch(n, j, m, net) \/ RejectForgery(n, j, m, net)
    BY <2>3, <2>4, <2>6 DEF RejectStale, RejectMismatch, RejectForgery
  <2>7. CASE AcceptEntries(n, j, m, net)
    <3> DEFINE x == [type |-> "AppendOk", term |-> BiggerOf(term[n], m.term),
                     match_index |-> Len(Extended(n, m))]
    <3>1. Dispatch(net, n, x, {j}, 1) /\ x.type # "AppendEntries"
      BY <2>7 DEF AcceptEntries
    <3> HIDE DEF x
    <3> QED
      BY <2>3, <3>1
  <2>8. CASE HandleAppendRejected(n, j, m, net)
    <3>1. BiggerOf(m.hint, 1) \in 1..(bound.entries + 1)
      BY <2>1, <2>8, HintFits DEF HandleAppendRejected
    <3>2. /\ role[n] = "leader"
          /\ Dispatch(net, n, ReplicateTo(n, BiggerOf(m.hint, 1)), Peers(n), 1)
      BY <2>8 DEF HandleAppendRejected, Answers
    <3> QED
      BY <1>4, <2>2, <3>1, <3>2
  <2>9. CASE links' = net
    BY <2>2, <2>9
  <2> QED
    BY <2>1, <2>5, <2>6, <2>7, <2>8, <2>9 DEF Process, HandleVoteGranted,
       BecomeLeader, HandleVoteDenied, HandleAppendOk, HandleBrokenChain, IgnoreAnswer
<1>9. links' = links => Goal
  BY <1>2
<1>10. Goal
  BY <1>6, <1>7, <1>8, <1>9 DEF Next, vars, Propose
<1> QED
  BY <1>10 DEF Goal, New

(***************************************************************************)
(* Steps of the leader's messages and of what it knows of its peers.       *)
(***************************************************************************)

LEMMA CommitFacts ==
    ASSUME NEW g, NEW h, CommitInv(g, h), [Next]_vars
    PROVE  /\ HistoryInv(g, h) /\ LogInv(g) /\ Shapes /\ AppendsWell /\ AppendsLed
           /\ bound' = bound /\ bound.terms \in Nat /\ bound.entries \in Nat
           /\ \A n \in Nodes : /\ term[n] \in 0..bound.terms /\ term[n] \in Nat
                               /\ term'[n] \in Nat /\ term'[n] >= term[n]
                               /\ log[n] \in g /\ Len(log[n]) \in Nat
           /\ \A l \in Links : /\ l = <<l[1], l[2]>> /\ l[1] \in Nodes /\ l[2] \in Nodes
                               /\ l[1] \in Peers(l[2]) /\ l[2] \in Peers(l[1])
                               /\ <<l[2], l[1]>> \in Links
<1>1. HistoryInv(g, h) /\ LogInv(g)
  BY DEF CommitInv, HistoryInv
<1>2. Shapes /\ AppendsWell /\ AppendsLed
  BY <1>1 DEF LogInv, ElectionInv
<1>3. bound' = bound /\ bound.terms \in Nat /\ bound.entries \in Nat
  BY <1>2, BoundStays, NodesAndBounds DEF Shapes
<1>4. \A n \in Nodes : term[n] \in 0..bound.terms /\ term[n] \in Nat /\ log[n] \in g
                       /\ Len(log[n]) \in Nat
  BY <1>1, InvFacts
<1>5. \A n \in Nodes : term'[n] \in Nat /\ term'[n] >= term[n]
  BY <1>2, VoteStep
<1>6. \A l \in Links : /\ l = <<l[1], l[2]>> /\ l[1] \in Nodes /\ l[2] \in Nodes
                       /\ l[1] \in Peers(l[2]) /\ l[2] \in Peers(l[1])
                       /\ <<l[2], l[1]>> \in Links
  BY DEF Links, Peers
<1> QED
  BY <1>1, <1>2, <1>3, <1>4, <1>5, <1>6

\* What is in flight is a message of a term within the bounds.
LEMMA FlightFacts ==
    ASSUME Shapes, NEW l \in Links, NEW m \in Range(links[l])
    PROVE  /\ m \in Fitting /\ m.term \in 0..bound.terms /\ m.term \in Nat
           /\ m.type = "AppendEntries" =>
                 /\ m \in Appends /\ m \in AppendsOn(l) /\ m.leader_commit \in Nat
           /\ m.type = "AppendOk" => m.match_index \in Nat
           /\ m.type = "AppendRejected" => m.hint \in Nat
           /\ \E k \in 1..Len(links[l]) : m = links[l][k]
<1>1. links[l] \in Seq(Fitting)
  BY DEF Shapes
<1>2. m \in Fitting /\ \E k \in 1..Len(links[l]) : m = links[l][k]
  BY <1>1, RangeOf
<1>3. m.term \in Nat /\ m.term <= bound.terms /\ bound.terms \in Nat
  BY <1>2, MessageFields, NodesAndBounds DEF Fitting, Shapes
<1>4. /\ m.type = "AppendEntries" => m.leader_commit \in Nat
      /\ m.type = "AppendOk" => m.match_index \in Nat
      /\ m.type = "AppendRejected" => m.hint \in Nat
  BY <1>2, MessageFields DEF Fitting
<1> QED
  BY <1>2, <1>3, <1>4 DEF Appends, AppendsOn

\* Who leads a term that was led before has led it before.
LEMMA LeaderBefore ==
    ASSUME NEW g, LogInv(g), [Next]_vars, NEW n \in Nodes, role'[n] = "leader",
           leaders_seen[term'[n]] # {}
    PROVE  /\ role[n] = "leader" /\ term'[n] = term[n] /\ Begins(log[n], log'[n])
           /\ Len(log'[n]) \in Nat /\ Len(log[n]) <= Len(log'[n])
<1>0. Shapes /\ Len(log[n]) \in Nat
  BY InvFacts
<1>1. role[n] = "leader"
  <2> SUFFICES ASSUME role[n] # "leader" PROVE FALSE
    OBVIOUS
  <2>1. term' = term
    BY <1>0, LeadersSeen
  <2> QED
    BY <2>1, LedByNone
<1>2. term'[n] = term[n] /\ (log'[n] = log[n] \/ Propose(n))
  BY <1>0, <1>1, LeaderStays
<1>3. CASE log'[n] = log[n]
  BY <1>0, <1>1, <1>2, <1>3 DEF Begins
<1>4. CASE Propose(n)
  <2>1. log'[n] = Append(log[n], [term |-> term[n], by |-> n])
    BY <1>0, <1>4 DEF Propose, Shapes, LogsOK
  <2>2. Len(log'[n]) = Len(log[n]) + 1 /\ \A k \in 1..Len(log[n]) : log'[n][k] = log[n][k]
    BY <1>0, <2>1, Proposed
  <2> QED
    BY <1>0, <1>1, <1>2, <2>2 DEF Begins
<1> QED
  BY <1>2, <1>3, <1>4

LEMMA SeenStays ==
    ASSUME NEW g, LogInv(g), [Next]_vars, NEW t \in 0..bound.terms, NEW n \in leaders_seen[t]
    PROVE  n \in leaders_seen'[t]
  BY SeenGrows, InvFacts

LEMMA OneLed ==
    ASSUME NEW g, LogInv(g), NEW t \in 0..bound.terms,
           NEW c \in leaders_seen[t], NEW d \in leaders_seen[t]
    PROVE  c = d
<1>1. Shapes /\ \E b : Ballot(b)
  BY DEF LogInv, ElectionInv
<1> QED
  BY <1>1, OneLeader

LEMMA AppendsFullStep ==
    ASSUME NEW g, NEW h, CommitInv(g, h), [Next]_vars, NextInLog'
    PROVE  AppendsFull'
<1>0. /\ LogInv(g) /\ Shapes /\ \A l \in Links : l[1] \in Nodes /\ Len(log[l[1]]) \in Nat
  BY CommitFacts
<1> SUFFICES ASSUME NEW l \in Links, NEW m \in Range(links'[l]), m.type = "AppendEntries"
             PROVE  m.prev_hash # NoHash
  BY DEF AppendsFull, AppendsOn, NoHash
<1>1. CASE m \in Range(links[l])
  BY <1>1 DEF CommitInv, AppendsFull, AppendsOn
<1>2. ASSUME role[l[1]] = "leader", log' = log, UNCHANGED election, l[1] \in Nodes,
             NEW next \in 1..(bound.entries + 1), NEW p \in Nodes,
             next = next_index'[l[1]][p], m = ReplicateTo(l[1], next)
      PROVE  m.prev_hash # NoHash
  <2>1. next <= Len(log[l[1]]) + 1
    BY <1>2 DEF NextInLog, election
  <2>2. m.prev_hash = NoHash => next > Len(log[l[1]]) + 1
    BY <1>0, <1>2, CarriedIsLog
  <2>3. next \in Nat
    BY <1>0, <1>2, NodesAndBounds DEF Shapes
  <2> QED
    BY <1>0, <2>1, <2>2, <2>3
<1> QED
  BY <1>0, <1>1, <1>2, AppendsStep

\* An AppendEntries that a step sends carries the log of its leader.
LEMMA SentAppend ==
    ASSUME NEW g, NEW h, CommitInv(g, h), [Next]_vars, AppendsFull',
           NEW l \in Links, NEW m \in Range(links'[l]), m.type = "AppendEntries"
    PROVE  \/ m \in Range(links[l])
           \/ /\ role[l[1]] = "leader" /\ log' = log /\ UNCHANGED election
              /\ m.term = term[l[1]] /\ Carried(m) = log[l[1]]
              /\ m.leader_commit = commit_index[l[1]]
<1>0. Shapes
  BY CommitFacts
<1>1. m.prev_hash # NoHash
  BY DEF AppendsFull, AppendsOn, NoHash
<1>2. ASSUME l[1] \in Nodes, NEW next \in 1..(bound.entries + 1), m = ReplicateTo(l[1], next)
      PROVE  Carried(m) = log[l[1]] /\ m.leader_commit = commit_index[l[1]]
  <2>1. Carried(m) = log[l[1]]
    BY <1>0, <1>1, <1>2, CarriedIsLog
  <2> QED
    BY <1>2, <2>1 DEF ReplicateTo
<1> QED
  BY <1>0, <1>2, AppendsStep

LEMMA AppendsOwnStep ==
    ASSUME NEW g, NEW h, CommitInv(g, h), [Next]_vars, AppendsFull'
    PROVE  AppendsOwn'
<1>0. LogInv(g) /\ Shapes /\ AppendsLed /\ AppendsOwn
      /\ \A l \in Links : l[1] \in Nodes /\ Len(log[l[1]]) \in Nat
  BY CommitFacts DEF CommitInv
<1> SUFFICES ASSUME NEW l \in Links, NEW m \in Range(links'[l]), m.type = "AppendEntries",
                    role'[l[1]] = "leader", term'[l[1]] = m.term
             PROVE  Begins(Carried(m), log'[l[1]])
  BY DEF AppendsOwn, AppendsOn, Begins, Carried
<1>1. CASE m \in Range(links[l])
  <2>1. leaders_seen[m.term] # {}
    BY <1>0, <1>1 DEF AppendsLed
  <2>2. /\ role[l[1]] = "leader" /\ term'[l[1]] = term[l[1]]
        /\ Begins(log[l[1]], log'[l[1]]) /\ Len(log'[l[1]]) \in Nat
    BY <1>0, <2>1, LeaderBefore
  <2>3. Begins(Carried(m), log[l[1]])
    BY <1>0, <1>1, <2>2 DEF AppendsOwn, AppendsOn
  <2>4. Len(Carried(m)) \in Nat
    <3>1. m \in Appends /\ m.prev_hash # NoHash
      BY <1>0, <1>1, FlightFacts DEF CommitInv, AppendsFull, AppendsOn
    <3> QED
      BY <3>1, AppendFields, LenProperties
  <2> QED
    BY <1>0, <2>2, <2>3, <2>4 DEF Begins
<1>2. CASE /\ role[l[1]] = "leader" /\ log' = log /\ Carried(m) = log[l[1]]
  BY <1>0, <1>2 DEF Begins
<1> QED
  BY <1>1, <1>2, SentAppend

LEMMA AnswersLedStep ==
    ASSUME NEW g, NEW h, CommitInv(g, h), [Next]_vars
    PROVE  AnswersLed'
<1>0. /\ LogInv(g) /\ Shapes /\ AppendsLed /\ AnswersLed
      /\ \A l \in Links : <<l[2], l[1]>> \in Links
  BY CommitFacts DEF CommitInv
<1> SUFFICES ASSUME NEW l \in Links, NEW m \in Range(links'[l]),
                    m.type = "AppendOk" \/ (m.type = "AppendRejected" /\ m.reason = "LogMismatch")
             PROVE  l[2] \in leaders_seen'[m.term]
  BY DEF AnswersLed
<1>1. CASE m \in Range(links[l])
  <2>1. l[2] \in leaders_seen[m.term] /\ m.term \in 0..bound.terms
    BY <1>0, <1>1, FlightFacts DEF AnswersLed
  <2> QED
    BY <1>0, <2>1, SeenStays
<1>2. CASE SentNow(l, m)
  <2>1. PICK x \in Range(links[<<l[2], l[1]>>]) : x.type = "AppendEntries" /\ x.term = m.term
    BY <1>2 DEF SentNow, AcceptEntries, Follow
  <2>2. l[2] \in leaders_seen[m.term] /\ m.term \in 0..bound.terms
    <3>1. <<l[2], l[1]>>[1] = l[2] /\ <<l[2], l[1]>> \in Links
      BY <1>0
    <3> QED
      BY <1>0, <2>1, <3>1, FlightFacts DEF AppendsLed
  <2> QED
    BY <1>0, <2>2, SeenStays
<1> QED
  BY <1>0, <1>1, <1>2, LinksStep

\* The length of what a message carries.
LEMMA CarriedLength ==
    ASSUME AppendsWell, NEW x \in Appends, x.prev_hash # NoHash
    PROVE  /\ x.prev_index \in Nat /\ Len(x.entries) \in Nat
           /\ Carried(x) \in Seq(Entries) /\ Len(Carried(x)) \in Nat
           /\ Len(Carried(x)) = x.prev_index + Len(x.entries)
<1> DEFINE a == x.prev_hash
           b == x.entries
<1>1. /\ x.prev_index \in Nat /\ a \in Seq(Entries) /\ b \in Seq(Entries)
      /\ Carried(x) \in Seq(Entries)
  BY AppendFields
<1>2. Len(a) = x.prev_index /\ Carried(x) = a \o b
  BY DEF AppendsWell, Carried
<1> HIDE DEF a, b
<1>3. Len(a \o b) = Len(a) + Len(b) /\ Len(b) \in Nat
  BY <1>1, ConcatProperties, LenProperties
<1>4. Len(Carried(x)) \in Nat
  BY <1>1, LenProperties
<1> QED
  BY <1>1, <1>2, <1>3, <1>4 DEF b

LEMMA HintsStep ==
    ASSUME NEW g, NEW h, CommitInv(g, h), [Next]_vars
    PROVE  HintsInLog'
<1>0. /\ LogInv(g) /\ Shapes /\ AppendsLed /\ AnswersLed /\ HintsInLog /\ AppendsOwn /\ AppendsFull
      /\ AppendsWell
      /\ \A l \in Links : /\ <<l[2], l[1]>> \in Links /\ l[2] \in Nodes
                          /\ Len(log[l[2]]) \in Nat
  BY CommitFacts DEF CommitInv
<1> SUFFICES ASSUME NEW l \in Links, NEW m \in Range(links'[l]),
                    m.type = "AppendRejected", m.reason = "LogMismatch",
                    role'[l[2]] = "leader", m.term = term'[l[2]]
             PROVE  m.hint <= Len(log'[l[2]])
  BY DEF HintsInLog
<1>1. CASE m \in Range(links[l])
  <2>1. l[2] \in leaders_seen[m.term] /\ m.hint \in Nat
    BY <1>0, <1>1, FlightFacts DEF AnswersLed
  <2>2. /\ role[l[2]] = "leader" /\ term'[l[2]] = term[l[2]]
        /\ Len(log'[l[2]]) \in Nat /\ Len(log[l[2]]) <= Len(log'[l[2]])
    BY <1>0, <2>1, LeaderBefore
  <2>3. m.hint <= Len(log[l[2]])
    BY <1>0, <1>1, <2>2 DEF HintsInLog
  <2> QED
    BY <1>0, <2>1, <2>2, <2>3
<1>2. CASE SentNow(l, m)
  <2> DEFINE k == <<l[2], l[1]>>
  <2>1. PICK x \in Range(links[k]) :
           x.type = "AppendEntries" /\ x.term = m.term /\ m.hint < x.prev_index
    BY <1>2 DEF SentNow
  <2>2. k \in Links /\ k[1] = l[2] /\ l[2] \in Nodes
    BY <1>0
  <2> HIDE DEF k
  <2>3. leaders_seen[m.term] # {}
    BY <1>0, <2>1, <2>2 DEF AppendsLed
  <2>4. /\ role[l[2]] = "leader" /\ term'[l[2]] = term[l[2]]
        /\ Len(log'[l[2]]) \in Nat /\ Len(log[l[2]]) <= Len(log'[l[2]])
    BY <1>0, <2>2, <2>3, LeaderBefore
  <2>5. Begins(Carried(x), log[l[2]]) /\ x.prev_hash # NoHash /\ x \in Appends
    BY <1>0, <2>1, <2>2, <2>4, FlightFacts DEF AppendsOwn, AppendsFull, AppendsOn
  <2>7. /\ x.prev_index \in Nat /\ Len(x.entries) \in Nat
        /\ Len(Carried(x)) = x.prev_index + Len(x.entries)
    BY <1>0, <2>5, CarriedLength
  <2>8. m.hint \in Nat
    <3>1. m \in Fitting
      BY <1>0, LinksStep, RangeOf
    <3> QED
      BY <3>1, MessageFields DEF Fitting
  <2>9. Len(Carried(x)) <= Len(log[l[2]]) /\ Len(log[l[2]]) \in Nat
    BY <1>0, <2>2, <2>5 DEF Begins
  <2> QED
    BY <2>1, <2>4, <2>7, <2>8, <2>9
<1> QED
  BY <1>0, <1>1, <1>2, LinksStep

LEMMA AppendsGrowStep ==
    ASSUME NEW g, NEW h, CommitInv(g, h), [Next]_vars, ~Reorder, AppendsFull'
    PROVE  AppendsGrow'
<1>0. /\ Shapes /\ AppendsOwn /\ AppendsGrow /\ AppendsFull /\ links' \in [Links -> Seq(Fitting)]
      /\ \A l \in Links : l[1] \in Nodes /\ Len(log[l[1]]) \in Nat
  BY CommitFacts, LinksStep DEF CommitInv
<1> SUFFICES ASSUME NEW l \in Links, NEW x \in 1..Len(links'[l]), NEW y \in 1..Len(links'[l]),
                    links'[l][x].type = "AppendEntries", links'[l][y].type = "AppendEntries",
                    links'[l][x].term = links'[l][y].term, x <= y
             PROVE  Begins(Carried(links'[l][x]), Carried(links'[l][y]))
  BY DEF AppendsGrow, Begins, Carried
<1> DEFINE s == links'[l]
           r == links[l]
<1>1. /\ s \in Seq(Fitting) /\ r \in Seq(Fitting) /\ Len(s) \in Nat /\ Len(r) \in Nat
      /\ \A i \in 1..Len(s) : s[i] \in Range(s)
      /\ \A i \in 1..Len(r) : r[i] \in Range(r)
  <2>1. s \in Seq(Fitting) /\ r \in Seq(Fitting)
    BY <1>0 DEF Shapes
  <2> HIDE DEF s, r
  <2> QED
    BY <2>1, RangeOf, LenProperties
<1>2. PICK d \in Nat : \A i \in 1..Len(s) :
         IF i + d <= Len(r) THEN s[i] = r[i + d]
         ELSE s[i].type = "AppendEntries" =>
                 /\ role[l[1]] = "leader" /\ s[i].term = term[l[1]]
                 /\ \E next \in 1..(bound.entries + 1) : s[i] = ReplicateTo(l[1], next)
  BY <1>0, OrderedLinks
<1>3. \A i \in 1..Len(s) : s[i].type = "AppendEntries" => s[i].prev_hash # NoHash
  <2>1. \A m \in Range(s) : m.type = "AppendEntries" => m.prev_hash # NoHash
    BY DEF AppendsFull, AppendsOn, NoHash
  <2> HIDE DEF s
  <2> QED
    BY <1>1, <2>1
<1>4. \A i \in 1..Len(r) : r[i].type = "AppendEntries" => r[i] \in AppendsOn(l)
  BY <1>1 DEF AppendsOn
<1>5. /\ x \in 1..Len(s) /\ y \in 1..Len(s) /\ s[x].type = "AppendEntries"
      /\ s[y].type = "AppendEntries" /\ s[x].term = s[y].term
  OBVIOUS
<1>6. \A i, k \in 1..Len(r) :
        /\ r[i].type = "AppendEntries" /\ r[k].type = "AppendEntries"
        /\ r[i].term = r[k].term /\ i <= k
        => Begins(Carried(r[i]), Carried(r[k]))
  BY <1>0 DEF AppendsGrow
<1>7. ASSUME NEW i \in 1..Len(s), ~(i + d <= Len(r)), s[i].type = "AppendEntries"
      PROVE  /\ Carried(s[i]) = log[l[1]] /\ role[l[1]] = "leader" /\ s[i].term = term[l[1]]
  <2>1. /\ role[l[1]] = "leader" /\ s[i].term = term[l[1]]
        /\ \E next \in 1..(bound.entries + 1) : s[i] = ReplicateTo(l[1], next)
    BY <1>2, <1>7
  <2> HIDE DEF s
  <2>2. Carried(s[i]) = log[l[1]]
    BY <1>0, <1>3, <1>7, <2>1, CarriedIsLog
  <2> QED
    BY <2>1, <2>2
<1> HIDE DEF s, r
<1>8. CASE y + d <= Len(r)
  <2>1. x + d \in 1..Len(r) /\ y + d \in 1..Len(r) /\ x + d <= y + d
    <3>1. x \in Nat /\ y \in Nat /\ d \in Nat /\ x >= 1 /\ x <= y /\ Len(r) \in Nat
      BY <1>1, <1>2, <1>5
    <3> QED
      BY <1>8, <3>1
  <2>2. s[x] = r[x + d] /\ s[y] = r[y + d]
    BY <1>2, <1>5, <2>1
  <2>3. Begins(Carried(r[x + d]), Carried(r[y + d]))
    BY <1>5, <1>6, <2>1, <2>2
  <2> QED
    BY <2>2, <2>3 DEF s
<1>9. CASE ~(x + d <= Len(r))
  <2>1. ~(y + d <= Len(r))
    BY <1>1, <1>5, <1>9
  <2>2. Carried(s[x]) = log[l[1]] /\ Carried(s[y]) = log[l[1]]
    BY <1>5, <1>7, <1>9, <2>1
  <2>3. Begins(Carried(s[x]), Carried(s[y]))
    BY <1>0, <2>2 DEF Begins
  <2> QED
    BY <2>3 DEF s
<1>10. CASE x + d <= Len(r) /\ ~(y + d <= Len(r))
  <2>1. x + d \in 1..Len(r)
    BY <1>1, <1>5, <1>10
  <2>2. s[x] = r[x + d]
    BY <1>2, <1>5, <2>1
  <2>3. Carried(s[y]) = log[l[1]] /\ role[l[1]] = "leader" /\ s[y].term = term[l[1]]
    BY <1>5, <1>7, <1>10
  <2>4. s[x] \in AppendsOn(l) /\ s[x].term = term[l[1]]
    BY <1>4, <1>5, <2>1, <2>2, <2>3
  <2>5. Begins(Carried(s[x]), log[l[1]])
    BY <1>0, <2>3, <2>4 DEF AppendsOwn
  <2> QED
    BY <2>3, <2>5 DEF s
<1> QED
  BY <1>8, <1>9, <1>10

\* What n learns of a peer: at most what one message tells it.
LEMMA ProgressCases ==
    ASSUME Shapes, [Next]_vars, ~Reorder, [~TakesHintPastLog]_vars,
           NEW n \in Nodes, role'[n] = "leader", NEW p \in Nodes
    PROVE  \/ /\ role[n] # "leader"
              /\ match_index'[n][p] = 0 /\ next_index'[n][p] = Len(log[n]) + 1
           \/ /\ role[n] = "leader"
              /\ match_index'[n][p] = match_index[n][p]
              /\ next_index'[n][p] \in {next_index[n][p], Len(log[n]) + 1}
           \/ /\ role[n] = "leader" /\ p \in Peers(n)
              /\ match_index'[n][p] = match_index[n][p]
              /\ \E m \in Range(links[<<p, n>>]) :
                    /\ m.type = "AppendRejected" /\ m.term = term[n]
                    /\ m.reason = "LogMismatch" \/ m.hint <= Len(log[n]) + 1
                    /\ next_index'[n][p] = BiggerOf(m.hint, 1)
           \/ /\ role[n] = "leader" /\ p \in Peers(n)
              /\ \E m \in Range(links[<<p, n>>]) :
                    /\ m.type = "AppendOk" /\ m.term = term[n]
                    /\ match_index'[n][p] = m.match_index
                    /\ next_index'[n][p] = m.match_index + 1
<1> DEFINE Fresh == /\ role[n] # "leader"
                    /\ match_index'[n][p] = 0 /\ next_index'[n][p] = Len(log[n]) + 1
           Same == /\ role[n] = "leader"
                   /\ match_index'[n][p] = match_index[n][p]
                   /\ next_index'[n][p] \in {next_index[n][p], Len(log[n]) + 1}
           Back == /\ role[n] = "leader" /\ p \in Peers(n)
                   /\ match_index'[n][p] = match_index[n][p]
                   /\ \E m \in Range(links[<<p, n>>]) :
                         /\ m.type = "AppendRejected" /\ m.term = term[n]
                         /\ m.reason = "LogMismatch" \/ m.hint <= Len(log[n]) + 1
                         /\ next_index'[n][p] = BiggerOf(m.hint, 1)
           On == /\ role[n] = "leader" /\ p \in Peers(n)
                 /\ \E m \in Range(links[<<p, n>>]) :
                       /\ m.type = "AppendOk" /\ m.term = term[n]
                       /\ match_index'[n][p] = m.match_index
                       /\ next_index'[n][p] = m.match_index + 1
           Goal == Fresh \/ Same \/ Back \/ On
<1>0. /\ ProgressOK /\ ElectionOK
      /\ match_index[n] \in [Nodes -> 0..bound.entries]
      /\ next_index[n] \in [Nodes -> 1..(bound.entries + 1)]
  BY DEF Shapes, ProgressOK
<1>1. role[n] = "leader" /\ progress' = progress => Goal
  BY DEF progress
<1>2. ASSUME NEW q \in Nodes, Elect(q) PROVE Goal
  <2>1. role' = [role EXCEPT ![q] = "candidate"] /\ progress' = progress
    BY <1>2 DEF Elect
  <2>2. role[n] = "leader"
    BY <1>0, <2>1 DEF ElectionOK
  <2> HIDE DEF Goal
  <2> QED
    BY <1>1, <2>1, <2>2
<1>3. role' = role /\ progress' = progress => Goal
  BY <1>1
<1>4. ASSUME NEW q \in Nodes, NEW j \in Peers(q), NEW m \in Fitting, NEW net,
             m \in Range(links[<<j, q>>]), First(q, j, m, net), Process(q, j, m, net),
             ~TakesHintPastLog
      PROVE  Goal
  <2>0. j \in Nodes
    BY DEF Peers
  <2>1. CASE BecomeLeader(q, j, m, net)
    <3>1. /\ next_index' = [next_index EXCEPT ![q] = [x \in Nodes |-> Len(log[q]) + 1]]
          /\ match_index' = [match_index EXCEPT ![q] = [x \in Nodes |-> 0]]
          /\ role' = [role EXCEPT ![q] = "leader"] /\ role[q] = "candidate"
      BY <2>1 DEF BecomeLeader, CountsVote
    <3>2. CASE n = q
      <4>1. match_index'[n] = [x \in Nodes |-> 0]
        BY <1>0, <3>1, <3>2 DEF ProgressOK
      <4>2. next_index'[n] = [x \in Nodes |-> Len(log[n]) + 1]
        BY <1>0, <3>1, <3>2 DEF ProgressOK
      <4>3. Fresh
        BY <3>1, <3>2, <4>1, <4>2
      <4> QED
        BY <4>3
    <3>3. CASE n # q
      <4>1. role[n] = "leader"
        BY <1>0, <3>1, <3>3 DEF ElectionOK
      <4>2. match_index'[n] = match_index[n] /\ next_index'[n] = next_index[n]
        BY <1>0, <3>1, <3>3 DEF ProgressOK
      <4>3. Same
        BY <4>1, <4>2
      <4> QED
        BY <4>3
    <3> QED
      BY <3>2, <3>3
  <2>2. CASE HandleAppendOk(q, j, m, net)
    <3>1. /\ match_index' = [match_index EXCEPT ![q][j] = m.match_index]
          /\ next_index' = [next_index EXCEPT ![q][j] = m.match_index + 1]
          /\ role' = role /\ m.type = "AppendOk" /\ m.term = term[q]
      BY <2>2 DEF HandleAppendOk, NextAfter, Answers, election
    <3>2. CASE n = q /\ p = j
      <4>1. match_index'[n][p] = m.match_index /\ next_index'[n][p] = m.match_index + 1
        BY <1>0, <3>1, <3>2 DEF ProgressOK
      <4>2. On
        BY <1>4, <3>1, <3>2, <4>1
      <4> QED
        BY <4>2
    <3>3. CASE ~(n = q /\ p = j)
      <4>1. match_index'[n][p] = match_index[n][p] /\ next_index'[n][p] = next_index[n][p]
        BY <1>0, <3>1, <3>3 DEF ProgressOK
      <4>2. Same
        BY <3>1, <4>1
      <4> QED
        BY <4>2
    <3> QED
      BY <3>2, <3>3
  <2>3. CASE HandleBrokenChain(q, j, m, net)
    <3>1. /\ next_index' = [next_index EXCEPT ![q][j] = Len(log[q]) + 1]
          /\ match_index' = match_index /\ role' = role
      BY <2>3 DEF HandleBrokenChain, election
    <3>2. next_index'[n][p] = next_index[n][p] \/ next_index'[n][p] = Len(log[n]) + 1
      BY <1>0, <3>1 DEF ProgressOK
    <3>3. Same
      BY <3>1, <3>2
    <3> QED
      BY <3>3
  <2>4. CASE HandleAppendRejected(q, j, m, net)
    <3>1. /\ next_index' = [next_index EXCEPT ![q][j] = BiggerOf(m.hint, 1)]
          /\ match_index' = match_index /\ role' = role
          /\ m.type = "AppendRejected" /\ m.term = term[q] /\ m.reason # "BrokenChain"
      BY <2>4 DEF HandleAppendRejected, Answers, election
    <3>2. CASE n = q /\ p = j
      <4>1. next_index'[n][p] = BiggerOf(m.hint, 1)
        BY <1>0, <3>1, <3>2 DEF ProgressOK
      <4>2. m.reason = "LogMismatch" \/ m.hint <= Len(log[n]) + 1
        <5>1. m = links[<<j, q>>][1] /\ net = Taken(q, j, 1)
          BY <1>4 DEF First
        <5>2. links[<<j, q>>] # <<>>
          <6>1. Range(<<>>) = {}
            BY DEF Range
          <6> QED
            BY <1>4, <6>1
        <5>3. ~(m.reason = "StaleTerm" /\ m.hint > Len(log[q]) + 1)
          BY <1>4, <2>4, <5>1, <5>2 DEF TakesHintPastLog
        <5>4. m.reason \in {"StaleTerm", "LogMismatch", "BrokenChain"} /\ m.hint \in Nat
          BY <3>1 DEF Fitting, Messages
        <5>5. Len(log[q]) \in Nat
          BY EntriesOf DEF Shapes, LogsOK
        <5> QED
          BY <3>1, <3>2, <5>3, <5>4, <5>5
      <4>3. Back
        BY <1>4, <3>1, <3>2, <4>1, <4>2
      <4> QED
        BY <4>3
    <3>3. CASE ~(n = q /\ p = j)
      <4>1. next_index'[n][p] = next_index[n][p]
        BY <1>0, <3>1, <3>3 DEF ProgressOK
      <4>2. Same
        BY <3>1, <4>1
      <4> QED
        BY <4>2
    <3> QED
      BY <3>2, <3>3
  <2>5. ASSUME UNCHANGED progress, role'[q] = role[q] \/ role'[q] # "leader",
               \A x \in Nodes \ {q} : role'[x] = role[x]
        PROVE  Goal
    <3>1. role[n] = "leader"
      BY <2>5
    <3> HIDE DEF Goal
    <3> QED
      BY <1>1, <2>5, <3>1
  <2>6. ASSUME UNCHANGED progress, role' = [role EXCEPT ![q] = Role(q, m)] PROVE Goal
    <3>1. role'[q] = role[q] \/ role'[q] # "leader"
      BY <1>0, <2>6 DEF Role, ElectionOK
    <3>2. \A x \in Nodes \ {q} : role'[x] = role[x]
      BY <1>0, <2>6 DEF ElectionOK
    <3> HIDE DEF Goal
    <3> QED
      BY <2>5, <2>6, <3>1, <3>2
  <2>7. CASE UNCHANGED progress /\ Follow(q, m)
    <3>1. role' = [role EXCEPT ![q] = "follower"]
      BY <2>7 DEF Follow
    <3>2. role'[q] # "leader" /\ \A x \in Nodes \ {q} : role'[x] = role[x]
      BY <1>0, <3>1 DEF ElectionOK
    <3> HIDE DEF Goal
    <3> QED
      BY <2>5, <2>7, <3>2
  <2> HIDE DEF Goal
  <2> QED
    BY <1>3, <1>4, <2>1, <2>2, <2>3, <2>4, <2>6, <2>7 DEF Process, HandleRequestVote,
       HandleVoteGranted, Learn, election, HandleVoteDenied, RejectStale, RejectMismatch,
       RejectForgery, AcceptEntries, IgnoreAnswer
<1> HIDE DEF Goal
<1>5. ASSUME NEW q \in Nodes, NEW j \in Peers(q), NEW k, Handle(q, j, k), ~TakesHintPastLog
      PROVE  Goal
  BY <1>4, <1>5, Received
<1>6. UNCHANGED vars => Goal
  BY <1>3 DEF vars, election
<1>7. ~TakesHintPastLog => Goal
  BY <1>2, <1>3, <1>5 DEF Next, vars, election, Propose, Heartbeat
<1>8. Goal
  BY <1>6, <1>7
<1> QED
  BY <1>8 DEF Goal, Fresh, Same, Back, On

LEMMA NextInLogStep ==
    ASSUME NEW g, NEW h, CommitInv(g, h), [Next]_vars, ~Reorder, [~TakesHintPastLog]_vars
    PROVE  NextInLog'
<1>0. /\ LogInv(g) /\ Shapes /\ NextInLog /\ HintsInLog /\ EvidenceHolds(h)
  BY CommitFacts DEF CommitInv
<1> SUFFICES ASSUME NEW n \in Nodes, role'[n] = "leader", NEW p \in Nodes
             PROVE  next_index'[n][p] <= Len(log'[n]) + 1
  BY DEF NextInLog
<1>1. Len(log[n]) \in Nat /\ Len(log'[n]) \in Nat /\ Len(log[n]) <= Len(log'[n])
  <2>1. Len(log[n]) \in Nat
    BY CommitFacts
  <2>2. CASE log'[n] = log[n]
    BY <2>1, <2>2
  <2>3. CASE role[n] = "leader" /\ Propose(n)
    <3>1. log'[n] = Append(log[n], [term |-> term[n], by |-> n])
      BY <1>0, <2>3 DEF Propose, Shapes, LogsOK
    <3> QED
      BY <1>0, <2>1, <3>1, Proposed
  <2> QED
    BY <1>0, <2>2, <2>3, LeaderStays, LeadersSeen
<1>2. next_index'[n][p] <= Len(log[n]) + 1
  <2>1. CASE next_index'[n][p] = Len(log[n]) + 1
    BY <1>1, <2>1
  <2>2. CASE role[n] = "leader" /\ next_index'[n][p] = next_index[n][p]
    BY <1>0, <2>2 DEF NextInLog
  <2>3. ASSUME role[n] = "leader", p \in Peers(n), NEW m \in Range(links[<<p, n>>]),
               m.type = "AppendRejected", m.term = term[n],
               m.reason = "LogMismatch" \/ m.hint <= Len(log[n]) + 1,
               next_index'[n][p] = BiggerOf(m.hint, 1)
        PROVE  next_index'[n][p] <= Len(log[n]) + 1
    <3>1. <<p, n>> \in Links /\ <<p, n>>[2] = n
      BY <2>3 DEF Links, Peers
    <3>2. m.hint \in Nat
      BY <1>0, <2>3, <3>1, FlightFacts
    <3>3. m.reason = "LogMismatch" => m.hint <= Len(log[n])
      BY <1>0, <2>3, <3>1 DEF HintsInLog
    <3> QED
      BY <1>1, <2>3, <3>2, <3>3 DEF BiggerOf
  <2>4. ASSUME role[n] = "leader", p \in Peers(n), NEW m \in Range(links[<<p, n>>]),
               m.type = "AppendOk", m.term = term[n],
               next_index'[n][p] = m.match_index + 1
        PROVE  next_index'[n][p] <= Len(log[n]) + 1
    <3>1. <<p, n>> \in Links
      BY <2>4 DEF Links, Peers
    <3>2. m.match_index \in Nat
      BY <1>0, <2>4, <3>1, FlightFacts
    <3>3. m.match_index \in Evidence(n, p)
      BY <2>4 DEF Evidence, Oks
    <3>4. m.match_index <= Len(log[n])
      BY <1>0, <2>4, <3>3 DEF EvidenceHolds, Matches
    <3> QED
      BY <1>1, <2>4, <3>2, <3>4
  <2> QED
    BY <1>0, <2>1, <2>2, <2>3, <2>4, ProgressCases
<1> QED
  <2>1. next_index'[n][p] \in Nat
    <3>1. ProgressOK' /\ bound' = bound /\ bound.entries \in Nat
      BY <1>0, ProgressStep, CommitFacts
    <3>2. next_index'[n][p] \in 1..(bound.entries + 1)
      BY <3>1 DEF ProgressOK
    <3> QED
      BY <3>1, <3>2
  <2> QED
    BY <1>1, <1>2, <2>1

\* The message n takes was sent before what is in flight to n of that term.
LEMMA AdoptsFirst ==
    ASSUME NEW g, LogInv(g), ~Reorder, AppendsGrow, NEW n \in Nodes, NEW j \in Peers(n),
           NEW m, NEW net, Adopts(n, j, m, net),
           NEW l \in Links, l[2] = n, NEW x \in AppendsOn(l), x.term = m.term
    PROVE  l = <<j, n>> /\ Begins(Carried(m), Carried(x))
<1>0. Shapes /\ AppendsLed
  BY DEF LogInv, ElectionInv
<1> DEFINE k == <<j, n>>
<1>1. k \in Links /\ k[1] = j /\ l = <<l[1], n>>
  BY DEF Links, Peers
<1>2. /\ m \in Range(links[k]) /\ m.type = "AppendEntries"
      /\ m = links[k][1]
  BY DEF Adopts, Appends, First
<1>3. x \in Range(links[l]) /\ x.type = "AppendEntries"
  BY DEF AppendsOn
<1>4. m.term \in 0..bound.terms
  BY <1>0, <1>1, <1>2, FlightFacts
<1>5. j \in leaders_seen[m.term] /\ l[1] \in leaders_seen[m.term]
  BY <1>0, <1>1, <1>2, <1>3 DEF AppendsLed
<1>6. l[1] = j
  BY <1>4, <1>5, OneLed
<1> HIDE DEF k
<1>7. l = k
  BY <1>1, <1>6 DEF k
<1>8. PICK i \in 1..Len(links[l]) : x = links[l][i]
  BY <1>0, <1>3, FlightFacts
<1>9. links[l][1] = m /\ 1 \in 1..Len(links[l]) /\ 1 <= i
  <2>1. links[l] \in Seq(Fitting)
    BY <1>0 DEF Shapes
  <2>2. Len(links[l]) \in Nat
    BY <2>1, LenProperties
  <2> QED
    BY <1>2, <1>7, <1>8, <2>2
<1>10. Begins(Carried(m), Carried(x))
  BY <1>2, <1>3, <1>8, <1>9 DEF AppendsGrow
<1> QED
  BY <1>7, <1>10 DEF k

LEMMA AppendsCoverStep ==
    ASSUME NEW g, NEW h, CommitInv(g, h), [Next]_vars, ~Reorder, AppendsFull'
    PROVE  AppendsCover'
<1>0. /\ LogInv(g) /\ Shapes /\ AppendsWell /\ AppendsLed /\ AppendsCover /\ AppendsGrow
      /\ Leading /\ Below /\ LeaderHasAll(g)
      /\ \A n \in Nodes : term[n] \in 0..bound.terms /\ term[n] \in Nat
                          /\ term'[n] \in Nat /\ term'[n] >= term[n] /\ log[n] \in g
      /\ \A l \in Links : l[1] \in Nodes /\ l[2] \in Nodes /\ l[1] # l[2]
  BY CommitFacts DEF CommitInv, LogInv, Links
<1> SUFFICES ASSUME NEW l \in Links, NEW m \in Range(links'[l]), m.type = "AppendEntries",
                    m.term = term'[l[2]], NEW i \in Nat, Has(log'[l[2]], i, m.term)
             PROVE  Has(Carried(m), i, m.term)
  BY DEF AppendsCover, AppendsOn, Has, Carried
<1> DEFINE p == l[2]
<1>1. p \in Nodes /\ l[1] \in Nodes /\ l[1] # p /\ m.term = term'[p] /\ Has(log'[p], i, m.term)
  BY <1>0
<1> HIDE DEF p
<1>2. CASE /\ role[l[1]] = "leader" /\ log' = log
           /\ m.term = term[l[1]] /\ Carried(m) = log[l[1]]
  <2>1. i \in 1..Len(log[p]) /\ log[p][i].term = term[l[1]]
    BY <1>1, <1>2 DEF Has
  <2>2. i <= Len(log[l[1]]) /\ \A k \in 1..i : log[p][k] = log[l[1]][k]
    BY <1>0, <1>1, <1>2, <2>1 DEF LeaderHasAll
  <2>3. Len(log[l[1]]) \in Nat /\ Len(log[p]) \in Nat
    BY <1>1, CommitFacts
  <2> QED
    BY <1>2, <2>1, <2>2, <2>3 DEF Has
<1>3. CASE m \in Range(links[l])
  <2>1. m \in AppendsOn(l) /\ m.term \in 0..bound.terms /\ l[1] \in leaders_seen[m.term]
    BY <1>0, <1>3, FlightFacts DEF AppendsLed
  <2>2. CASE log'[p] = log[p]
    <3>1. i \in 1..Len(log[p]) /\ log[p][i].term = m.term
      BY <1>1, <2>2 DEF Has
    <3>2. m.term <= term[p]
      BY <1>0, <1>1, <3>1 DEF Below
    <3>3. m.term = term[p]
      BY <1>0, <1>1, <3>2
    <3> QED
      BY <1>0, <1>1, <2>1, <2>2, <3>3 DEF AppendsCover, p
  <2>3. CASE Propose(p)
    <3>1. role[p] = "leader" /\ term' = term
      BY <2>3 DEF Propose, election
    <3>2. p \in leaders_seen[m.term]
      BY <1>0, <1>1, <3>1 DEF Leading
    <3> QED
      BY <1>0, <1>1, <2>1, <3>2, OneLed
  <2>4. ASSUME NEW j \in Peers(p), NEW x, NEW net, Adopts(p, j, x, net)
        PROVE  Has(Carried(m), i, m.term)
    <3>1. log'[p] = Carried(x) /\ m.term = x.term
      BY <1>1, <2>4 DEF Adopts
    <3>2. l[2] = p
      BY DEF p
    <3>3. Begins(Carried(x), Carried(m))
      BY <1>0, <1>1, <2>1, <2>4, <3>1, <3>2, AdoptsFirst
    <3>4. Len(Carried(x)) \in Nat /\ Len(Carried(m)) \in Nat
      <4>1. /\ x \in Appends /\ x.prev_hash # NoHash /\ m \in Appends /\ m.prev_hash # NoHash
        BY <1>0, <1>3, <2>4, FlightFacts DEF Adopts, CommitInv, AppendsFull, AppendsOn
      <4> QED
        BY <1>0, <4>1, CarriedLength
    <3> QED
      BY <1>1, <3>1, <3>3, <3>4 DEF Begins, Has
  <2> QED
    BY <1>0, <1>1, <2>2, <2>3, <2>4, LogCases
<1> QED
  BY <1>2, <1>3, SentAppend

(***************************************************************************)
(* Steps of what is committed.                                             *)
(***************************************************************************)

LEMMA ChosenStays ==
    ASSUME NEW g, NEW h, CommitInv(g, h), [Next]_vars, NEW hh, Kept(h, hh),
           NEW i \in Nat, NEW t \in Nat, Chosen(h, i, t)
    PROVE  Chosen(hh, i, t)'
<1>0. /\ HistoryInv(g, h) /\ LogInv(g) /\ Shapes /\ AppendsWell /\ AppendsCover
  BY CommitFacts DEF CommitInv
<1>1. PICK q \in Majorities : \A v \in q : term[v] >= t /\ Has(h[v][t], i, t)
  BY DEF Chosen
<1>2. Majorities' = Majorities
  BY DEF Majorities, Quorum
<1>3. ASSUME NEW v \in q PROVE term'[v] >= t /\ Has(hh[v][t], i, t)
  <2>0. v \in Nodes /\ term[v] \in Nat /\ term'[v] \in Nat /\ term'[v] >= term[v]
    BY CommitFacts DEF Majorities
  <2>1. term'[v] >= t /\ term[v] >= t /\ Has(h[v][t], i, t)
    BY <1>1, <2>0
  <2>2. CASE t < term'[v]
    BY <1>0, <2>0, <2>1, <2>2, HistoryStep
  <2>3. CASE t = term'[v]
    <3>1. hh[v][t] = log'[v] /\ h[v][t] = log[v] /\ term[v] = t
      BY <1>0, <2>0, <2>1, <2>3, HistoryStep
    <3>2. Has(log[v], i, t)
      BY <2>1, <3>1
    <3>3. CASE log'[v] = log[v]
      BY <2>1, <3>1, <3>2, <3>3
    <3>4. CASE log'[v] = Append(log[v], [term |-> term[v], by |-> v])
      <4>1. /\ Len(log[v]) \in Nat /\ Len(log'[v]) = Len(log[v]) + 1
            /\ \A k \in 1..Len(log[v]) : log'[v][k] = log[v][k]
        BY <1>0, <2>0, <3>4, Proposed
      <4>2. Has(log'[v], i, t)
        BY <3>2, <4>1 DEF Has
      <4> QED
        BY <2>1, <3>1, <4>2
    <3>5. ASSUME NEW j \in Peers(v), NEW m, NEW net, Adopts(v, j, m, net)
          PROVE  Has(log'[v], i, t)
      <4>1. /\ m \in AppendsOn(<<j, v>>) /\ m.term = t /\ log'[v] = Carried(m)
        BY <2>3, <3>5 DEF Adopts, AppendsOn, Appends
      <4>2. <<j, v>> \in Links /\ <<j, v>>[2] = v
        BY <2>0 DEF Links, Peers
      <4>3. Has(Carried(m), i, t)
        BY <1>0, <3>1, <3>2, <4>1, <4>2 DEF AppendsCover
      <4> QED
        BY <4>1, <4>3
    <3> QED
      BY <1>0, <2>0, <2>1, <3>1, <3>3, <3>4, <3>5, LogCases
  <2> QED
    BY <2>0, <2>1, <2>2, <2>3
<1> QED
  BY <1>1, <1>2, <1>3 DEF Chosen, Has

LEMMA CommittedStays ==
    ASSUME NEW g, NEW h, CommitInv(g, h), [Next]_vars, NEW hh, Kept(h, hh),
           NEW l \in Seq(Entries), Committed(h, l)
    PROVE  Committed(hh, l)'
<1>1. Len(l) \in Nat /\ LastTerm(l) \in Nat
  BY EntriesOf
<1>2. l = <<>> \/ Chosen(hh, Len(l), LastTerm(l))'
  <2> HIDE DEF Chosen
  <2> QED
    BY <1>1, ChosenStays DEF Committed
<1> QED
  BY <1>2 DEF Committed, Chosen, Has, LastTerm

\* A log that begins with a, cut there, is a.
LEMMA BeginsCut ==
    ASSUME NEW S, NEW a \in Seq(S), NEW b \in Seq(S), Begins(a, b)
    PROVE  SubSeq(b, 1, Len(a)) = a
<1>1. Len(a) \in Nat /\ Len(b) \in Nat /\ Len(a) <= Len(b)
  BY LenProperties DEF Begins
<1>2. /\ SubSeq(b, 1, Len(a)) \in Seq(S) /\ Len(SubSeq(b, 1, Len(a))) = Len(a)
      /\ Begins(SubSeq(b, 1, Len(a)), b)
  BY <1>1, PrefixBegins
<1> DEFINE c == SubSeq(b, 1, Len(a))
<1>3. \A k \in 1..Len(a) : c[k] = a[k]
  BY <1>2 DEF Begins
<1> HIDE DEF c
<1>4. c = a
  BY <1>2, <1>3, SeqEqual DEF c
<1> QED
  BY <1>4 DEF c

LEMMA AppendsCommittedStep ==
    ASSUME NEW g, NEW h, CommitInv(g, h), [Next]_vars, NEW hh, Kept(h, hh), AppendsFull'
    PROVE  AppendsCommitted(hh)'
<1>0. /\ Shapes /\ AppendsWell /\ AppendsFull /\ AppendsCommitted(h) /\ HistoriesHold(h)
  BY CommitFacts DEF CommitInv
<1> SUFFICES ASSUME NEW l \in Links, NEW m \in Range(links'[l]), m.type = "AppendEntries"
             PROVE  /\ m.leader_commit <= Len(Carried(m))
                    /\ Committed(hh, SubSeq(Carried(m), 1, m.leader_commit))'
  BY DEF AppendsCommitted, AppendsOn, Carried
<1>1. CASE m \in Range(links[l])
  <2>1. m \in AppendsOn(l) /\ m \in Appends /\ m.leader_commit \in Nat
    BY <1>0, <1>1, FlightFacts
  <2>2. m.leader_commit <= Len(Carried(m)) /\ Committed(h, SubSeq(Carried(m), 1, m.leader_commit))
    BY <1>0, <2>1 DEF AppendsCommitted
  <2>3. Carried(m) \in Seq(Entries)
    BY <1>0, <2>1, CarriedLength DEF AppendsFull
  <2>4. SubSeq(Carried(m), 1, m.leader_commit) \in Seq(Entries)
    BY <2>1, <2>2, <2>3, PrefixBegins
  <2> QED
    BY <2>2, <2>4, CommittedStays
<1>2. CASE /\ Carried(m) = log[l[1]] /\ m.leader_commit = commit_index[l[1]]
  <2> DEFINE n == l[1]
             c == committed_history[n]
  <2>1. n \in Nodes
    BY CommitFacts
  <2>2. Len(c) = commit_index[n] /\ Begins(c, log[n]) /\ Committed(h, c)
    BY <1>0, <2>1 DEF HistoriesHold
  <2>3. c \in Seq(Entries) /\ log[n] \in Seq(Entries)
    BY <2>1, HistoriesTyped
  <2>4. SubSeq(log[n], 1, Len(c)) = c /\ Len(c) <= Len(log[n])
    BY <2>2, <2>3, BeginsCut DEF Begins
  <2> HIDE DEF Committed
  <2> QED
    BY <1>2, <2>2, <2>3, <2>4, CommittedStays
<1> QED
  BY <1>1, <1>2, SentAppend

\* What a leader is told of a peer it was told before, or the peer tells it now.
LEMMA EvidenceCases ==
    ASSUME NEW g, NEW h, CommitInv(g, h), [Next]_vars, ~Reorder, [~TakesHintPastLog]_vars,
           NEW j \in Nodes, role'[j] = "leader", NEW p \in Peers(j), NEW e \in Evidence(j, p)'
    PROVE  \/ e = 0
           \/ role[j] = "leader" /\ term'[j] = term[j] /\ e \in Evidence(j, p)
           \/ /\ role[j] = "leader" /\ term'[j] = term[j]
              /\ \E m, net : Adopts(p, j, m, net) /\ m.term = term[j] /\ e = Len(Carried(m))
<1> DEFINE Before == role[j] = "leader" /\ term'[j] = term[j] /\ e \in Evidence(j, p)
           Told(m, net) == Adopts(p, j, m, net) /\ m.term = term[j] /\ e = Len(Carried(m))
           l == <<p, j>>
           k == <<j, p>>
<1>0. /\ LogInv(g) /\ Shapes /\ AppendsWell /\ AppendsLed /\ AnswersLed /\ AppendsFull
      /\ p \in Nodes /\ l \in Links /\ k \in Links /\ j \in Peers(p)
      /\ l[1] = p /\ l[2] = j /\ k[1] = j /\ k[2] = p /\ <<l[2], l[1]>> = k
  BY CommitFacts DEF CommitInv, Links, Peers
<1>1. /\ e = match_index'[j][p] \/ \E x \in Range(links'[l]) :
            x.type = "AppendOk" /\ x.term = term'[j] /\ e = x.match_index
  BY DEF Evidence, Oks
<1>2. CASE e = match_index'[j][p]
  <2>1. CASE role[j] # "leader" /\ match_index'[j][p] = 0
    BY <1>2, <2>1
  <2>2. ASSUME role[j] = "leader", e = match_index[j][p] PROVE Before
    BY <1>0, <2>2, LeaderStays DEF Evidence
  <2>3. ASSUME role[j] = "leader", NEW m \in Range(links[l]), m.type = "AppendOk",
               m.term = term[j], e = m.match_index
        PROVE  Before
    BY <1>0, <2>3, LeaderStays DEF Evidence, Oks
  <2> QED
    BY <1>0, <1>2, <2>1, <2>2, <2>3, ProgressCases
<1>3. ASSUME NEW x \in Range(links'[l]), x.type = "AppendOk", x.term = term'[j],
             e = x.match_index
      PROVE  Before \/ (role[j] = "leader" /\ term'[j] = term[j] /\ \E m, net : Told(m, net))
  <2> HIDE DEF l, k
  <2>1. CASE x \in Range(links[l])
    <3>1. j \in leaders_seen[x.term]
      BY <1>0, <1>3, <2>1 DEF AnswersLed
    <3>2. role[j] = "leader" /\ term'[j] = term[j]
      BY <1>0, <1>3, <3>1, LeaderBefore
    <3>3. x \in Oks(j, p)
      BY <1>3, <2>1, <3>2 DEF Oks, l
    <3> QED
      BY <1>3, <3>2, <3>3 DEF Evidence
  <2>2. CASE SentNow(l, x)
    <3>1. PICK m, net :
             /\ m \in Range(links[k])
             /\ First(p, j, m, net) /\ AcceptEntries(p, j, m, net)
             /\ x.term = m.term /\ x.match_index = Len(Extended(p, m))
      BY <1>0, <1>3, <2>2 DEF SentNow
    <3>2. m.type = "AppendEntries" /\ m.term >= term[p] /\ HasPrevious(p, m)
      BY <3>1 DEF AcceptEntries, Follow
    <3>3. m \in Appends /\ m \in AppendsOn(k) /\ m.term \in Nat /\ m.prev_hash # NoHash
          /\ j \in leaders_seen[m.term]
      BY <1>0, <3>1, <3>2, FlightFacts DEF AppendsFull, AppendsLed
    <3>4. role[j] = "leader" /\ term'[j] = term[j] /\ m.term = term[j]
      BY <1>0, <1>3, <3>1, <3>3, LeaderBefore
    <3>5. Extended(p, m) = Carried(m)
      BY <1>0, <3>2, <3>3, ExtendedIs
    <3>6. log'[p] = Extended(p, m) /\ term'[p] = BiggerOf(term[p], m.term)
      BY <1>0, <3>1 DEF AcceptEntries, Follow, LearnTerm, Shapes, LogsOK, ElectionOK
    <3>7. term'[p] = m.term
      <4>1. term[p] \in Nat
        BY <1>0, CommitFacts
      <4> QED
        BY <3>2, <3>3, <3>6, <4>1 DEF BiggerOf
    <3>8. Adopts(p, j, m, net)
      BY <3>1, <3>2, <3>3, <3>5, <3>6, <3>7 DEF Adopts, k
    <3>9. Told(m, net)
      BY <1>3, <3>1, <3>4, <3>5, <3>8
    <3> QED
      BY <3>4, <3>9
  <2> QED
    BY <1>0, <2>1, <2>2, LinksStep
<1> HIDE DEF l, k
<1> QED
  BY <1>1, <1>2, <1>3

LEMMA EvidenceHoldsStep ==
    ASSUME NEW g, NEW h, CommitInv(g, h), [Next]_vars, NEW hh, Kept(h, hh),
           ~Reorder, [~TakesHintPastLog]_vars, AppendsFull'
    PROVE  EvidenceHolds(hh)'
<1>0. /\ HistoryInv(g, h) /\ LogInv(g) /\ Shapes /\ AppendsWell /\ AppendsLed /\ Leading
      /\ AppendsOwn /\ AppendsGrow /\ AppendsFull /\ EvidenceHolds(h)
  BY CommitFacts DEF CommitInv, LogInv
<1> SUFFICES ASSUME NEW j \in Nodes, role'[j] = "leader", NEW p \in Peers(j),
                    NEW e \in Evidence(j, p)'
             PROVE  /\ Matches(hh, j, p, e)'
                    /\ \A y \in Range(links'[<<j, p>>]) :
                          y.type = "AppendEntries" /\ y.term = term'[j] => e <= Len(Carried(y))
  BY DEF EvidenceHolds, AppendsOn, Carried
<1> DEFINE k == <<j, p>>
           Goal == /\ Matches(hh, j, p, e)'
                   /\ \A y \in Range(links'[k]) :
                         y.type = "AppendEntries" /\ y.term = term'[j] => e <= Len(Carried(y))
<1>1. /\ p \in Nodes /\ p # j /\ k \in Links /\ k[1] = j /\ k[2] = p
      /\ \A n \in Nodes : term[n] \in 0..bound.terms /\ term[n] \in Nat /\ term'[n] \in Nat
                          /\ term'[n] >= term[n] /\ Len(log[n]) \in Nat
      /\ Len(log'[j]) \in Nat
  <2>1. LogsOK'
    BY <1>0, LogsStep
  <2>2. Len(log'[j]) \in Nat
    BY <2>1, EntriesOf DEF LogsOK, Entries
  <2> QED
    BY <2>2, CommitFacts DEF Links, Peers
<1>2. CASE e = 0
  <2>1. Matches(hh, j, p, e)'
    BY <1>1, <1>2 DEF Matches
  <2>2. ASSUME NEW y \in Range(links'[k]), y.type = "AppendEntries" PROVE e <= Len(Carried(y))
    <3>1. CASE y \in Range(links[k])
      <4>1. y \in Appends /\ y.prev_hash # NoHash
        BY <1>0, <1>1, <2>2, <3>1, FlightFacts DEF AppendsFull
      <4> QED
        BY <1>0, <1>2, <4>1, CarriedLength
    <3>2. CASE Carried(y) = log[k[1]]
      BY <1>1, <1>2, <3>2
    <3> HIDE DEF k
    <3> QED
      BY <1>0, <1>1, <2>2, <3>1, <3>2, SentAppend
  <2> QED
    BY <2>1, <2>2
<1>3. ASSUME role[j] = "leader", term'[j] = term[j]
      PROVE  /\ Begins(log[j], log'[j])
             /\ \A n \in leaders_seen[term[j]] : n = j
  <2>1. j \in leaders_seen[term[j]]
    BY <1>0, <1>3 DEF Leading
  <2>2. Begins(log[j], log'[j])
    BY <1>0, <1>3, <2>1, LeaderBefore
  <2> QED
    BY <1>0, <1>1, <2>1, <2>2, OneLed
<1>4. CASE role[j] = "leader" /\ term'[j] = term[j] /\ e \in Evidence(j, p)
  <2>1. /\ Matches(h, j, p, e)
        /\ \A m \in AppendsOn(k) : m.term = term[j] => e <= Len(Carried(m))
    BY <1>0, <1>4 DEF EvidenceHolds
  <2>2. e <= Len(log[j]) /\ Begins(log[j], log'[j])
    BY <1>3, <1>4, <2>1 DEF Matches
  <2>3. e \in Nat
    <3>1. match_index[j][p] \in Nat
      <4>1. bound.entries \in Nat
        BY CommitFacts
      <4> QED
        BY <1>0, <1>1, <4>1 DEF Shapes, ProgressOK
    <3>2. \A x \in Oks(j, p) : x.match_index \in Nat
      <4>1. <<p, j>> \in Links
        BY <1>1 DEF Links
      <4> QED
        BY <1>0, <4>1, FlightFacts DEF Oks
    <3> QED
      BY <1>4, <3>1, <3>2 DEF Evidence
  <2>4. e <= Len(log'[j])
    BY <1>1, <2>2, <2>3 DEF Begins
  <2>5. ASSUME e > 0
        PROVE  /\ term'[p] >= term[j]
               /\ e <= Len(hh[p][term[j]])
               /\ \A x \in 1..e : hh[p][term[j]][x] = log[j][x]
    <3>1. /\ term[p] >= term[j] /\ e <= Len(h[p][term[j]])
          /\ \A x \in 1..e : h[p][term[j]][x] = log[j][x]
      BY <2>1, <2>5 DEF Matches
    <3>2. CASE term[j] < term'[p]
      <4>1. hh[p][term[j]] = h[p][term[j]]
        BY <1>0, <1>1, <3>2, HistoryStep
      <4> QED
        BY <1>1, <3>1, <3>2, <4>1
    <3>3. CASE term[j] = term'[p]
      <4>1. hh[p][term[j]] = log'[p] /\ h[p][term[j]] = log[p] /\ term[p] = term[j]
        BY <1>0, <1>1, <3>1, <3>3, HistoryStep
      <4>2. CASE log'[p] = log[p]
        BY <1>1, <3>1, <4>1, <4>2
      <4>3. CASE Propose(p)
        <5>1. p \in leaders_seen[term[j]]
          BY <1>0, <1>1, <4>1, <4>3 DEF Propose, Leading
        <5> QED
          BY <1>1, <1>3, <1>4, <5>1
      <4>4. ASSUME NEW n \in Peers(p), NEW m, NEW net, Adopts(p, n, m, net)
            PROVE  e <= Len(log'[p]) /\ \A x \in 1..e : log'[p][x] = log[j][x]
        <5>1. /\ m \in Range(links[<<n, p>>]) /\ m.type = "AppendEntries"
              /\ m.term = term[j] /\ log'[p] = Carried(m)
          BY <3>3, <4>4 DEF Adopts, Appends
        <5>2. <<n, p>> \in Links /\ <<n, p>>[1] = n
          BY <1>1 DEF Links, Peers
        <5>3. n \in leaders_seen[term[j]]
          BY <1>0, <5>1, <5>2 DEF AppendsLed
        <5>4. n = j
          BY <1>3, <1>4, <5>3
        <5>5. m \in AppendsOn(k)
          BY <5>1, <5>4 DEF AppendsOn
        <5>6. e <= Len(Carried(m)) /\ Begins(Carried(m), log[j])
          BY <1>0, <1>1, <1>4, <2>1, <5>1, <5>5 DEF AppendsOwn
        <5>7. Len(Carried(m)) \in Nat
          <6>1. m \in Appends /\ m.prev_hash # NoHash
            BY <4>4 DEF Adopts
          <6> QED
            BY <1>0, <6>1, CarriedLength
        <5>8. \A x \in 1..e : Carried(m)[x] = log[j][x]
          BY <2>3, <5>6, <5>7 DEF Begins
        <5> QED
          BY <5>1, <5>6, <5>8
      <4>5. e <= Len(log'[p]) /\ \A x \in 1..e : log'[p][x] = log[j][x]
        BY <1>0, <1>1, <3>1, <4>1, <4>2, <4>3, <4>4, LogCases
      <4> QED
        BY <1>1, <4>1, <4>5
    <3> QED
      BY <1>1, <3>1, <3>2, <3>3
  <2>6. Matches(hh, j, p, e)'
    <3>1. \A x \in 1..e : log'[j][x] = log[j][x]
      BY <1>1, <2>2, <2>3 DEF Begins
    <3> QED
      BY <1>4, <2>4, <2>5, <3>1 DEF Matches
  <2>7. ASSUME NEW y \in Range(links'[k]), y.type = "AppendEntries", y.term = term'[j]
        PROVE  e <= Len(Carried(y))
    <3>1. CASE y \in Range(links[k])
      BY <1>4, <2>1, <2>7, <3>1 DEF AppendsOn
    <3>2. CASE Carried(y) = log[k[1]]
      BY <1>1, <2>2, <3>2
    <3> HIDE DEF k
    <3> QED
      BY <1>0, <1>1, <2>7, <3>1, <3>2, SentAppend
  <2> QED
    BY <2>6, <2>7
<1>5. ASSUME role[j] = "leader", term'[j] = term[j], NEW m, NEW net,
             Adopts(p, j, m, net), m.term = term[j], e = Len(Carried(m))
      PROVE  Goal
  <2>1. /\ m \in AppendsOn(k) /\ m \in Appends /\ m.prev_hash # NoHash
        /\ log'[p] = Carried(m) /\ term'[p] = m.term
    BY <1>5 DEF Adopts, AppendsOn, Appends
  <2>2. Begins(Carried(m), log[j]) /\ Begins(log[j], log'[j])
    BY <1>0, <1>1, <1>3, <1>5, <2>1 DEF AppendsOwn
  <2>3. e \in Nat
    BY <1>0, <1>5, <2>1, CarriedLength
  <2>4. hh[p][term[j]] = log'[p]
    BY <1>0, <1>1, <1>5, <2>1, HistoryStep
  <2>5. e <= Len(log[j]) /\ e <= Len(log'[j]) /\ \A x \in 1..e : log'[p][x] = log'[j][x]
    BY <1>1, <1>5, <2>1, <2>2, <2>3 DEF Begins
  <2>6. Matches(hh, j, p, e)'
    BY <1>1, <1>5, <2>1, <2>4, <2>5 DEF Matches
  <2>7. ASSUME NEW y \in Range(links'[k]), y.type = "AppendEntries", y.term = term'[j]
        PROVE  e <= Len(Carried(y))
    <3>1. CASE y \in Range(links[k])
      <4>1. y \in AppendsOn(k) /\ y.term = m.term
        BY <1>5, <2>7, <3>1 DEF AppendsOn
      <4>2. j \in Peers(p)
        BY <1>1 DEF Peers
      <4>3. Begins(Carried(m), Carried(y))
        BY <1>0, <1>1, <1>5, <4>1, <4>2, AdoptsFirst
      <4> QED
        BY <1>5, <4>3 DEF Begins
    <3>2. CASE Carried(y) = log[k[1]]
      BY <1>1, <2>5, <3>2
    <3> HIDE DEF k
    <3> QED
      BY <1>0, <1>1, <2>7, <3>1, <3>2, SentAppend
  <2> QED
    BY <2>6, <2>7
<1>6. Goal
  <2> HIDE DEF Goal
  <2>1. e = 0 => Goal
    BY <1>2 DEF Goal
  <2>2. role[j] = "leader" /\ term'[j] = term[j] /\ e \in Evidence(j, p) => Goal
    BY <1>4 DEF Goal
  <2> QED
    BY <1>5, <2>1, <2>2, EvidenceCases
<1> HIDE DEF Matches
<1> QED
  BY <1>6

LEMMA AcceptsAdopts ==
    ASSUME Shapes, AppendsWell, AppendsFull, NEW n \in Nodes, NEW j \in Peers(n),
           NEW m \in Range(links[<<j, n>>]), NEW net, First(n, j, m, net),
           AcceptEntries(n, j, m, net)
    PROVE  Adopts(n, j, m, net)
<1>1. <<j, n>> \in Links
  BY DEF Links, Peers
<1>2. m.type = "AppendEntries" /\ m.term >= term[n] /\ HasPrevious(n, m)
  BY DEF AcceptEntries, Follow
<1>3. m \in Appends /\ m.prev_hash # NoHash /\ m.term \in Nat /\ term[n] \in Nat
  BY <1>1, <1>2, FlightFacts, NodesAndBounds DEF AppendsFull, Shapes, ElectionOK
<1>4. Extended(n, m) = Carried(m)
  BY <1>2, <1>3, ExtendedIs
<1>5. log'[n] = Extended(n, m) /\ term'[n] = BiggerOf(term[n], m.term)
  BY DEF AcceptEntries, Follow, LearnTerm, Shapes, LogsOK, ElectionOK
<1>6. term'[n] = m.term
  BY <1>2, <1>3, <1>5 DEF BiggerOf
<1> QED
  BY <1>2, <1>3, <1>4, <1>5, <1>6 DEF Adopts

\* What a node counts as committed follows its leader, or its peers' answers.
LEMMA CommitCases ==
    ASSUME Shapes, AppendsWell, AppendsFull, [Next]_vars, NEW n \in Nodes
    PROVE  \/ /\ commit_index'[n] = commit_index[n]
              /\ committed_history'[n] = committed_history[n]
           \/ \E j \in Peers(n) : \E m, net :
                 /\ Adopts(n, j, m, net) /\ m.leader_commit > commit_index[n]
                 /\ commit_index'[n] = SmallerOf(m.leader_commit, Len(log'[n]))
                 /\ committed_history'[n] = Recorded(n, log'[n], commit_index'[n])
           \/ /\ role[n] = "leader" /\ log' = log
              /\ \E j \in Peers(n) : \E m \in Range(links[<<j, n>>]) :
                    LET match == [match_index[n] EXCEPT ![j] = m.match_index]
                    IN /\ m.type = "AppendOk" /\ m.term = term[n]
                       /\ commit_index'[n] = CommitPoint(n, match)
                       /\ committed_history'[n] = Recorded(n, log[n], CommitPoint(n, match))
<1> DEFINE Same == /\ commit_index'[n] = commit_index[n]
                   /\ committed_history'[n] = committed_history[n]
           Told == \E j \in Peers(n) : \E m, net :
                     /\ Adopts(n, j, m, net) /\ m.leader_commit > commit_index[n]
                     /\ commit_index'[n] = SmallerOf(m.leader_commit, Len(log'[n]))
                     /\ committed_history'[n] = Recorded(n, log'[n], commit_index'[n])
           Counts == /\ role[n] = "leader" /\ log' = log
                     /\ \E j \in Peers(n) : \E m \in Range(links[<<j, n>>]) :
                          LET match == [match_index[n] EXCEPT ![j] = m.match_index]
                          IN /\ m.type = "AppendOk" /\ m.term = term[n]
                             /\ commit_index'[n] = CommitPoint(n, match)
                             /\ committed_history'[n] = Recorded(n, log[n], CommitPoint(n, match))
           Goal == Same \/ Told \/ Counts
<1>0. /\ commit_index \in [Nodes -> 0..bound.entries] /\ log \in [Nodes -> Seq(Entries)]
      /\ committed_history \in [Nodes -> Seq(Entries)]
  BY DEF Shapes, CommitmentOK, LogsOK
<1>1. commitment' = commitment => Goal
  BY DEF commitment
<1>2. ASSUME NEW p \in Nodes, NEW j \in Peers(p), NEW m \in Fitting, NEW net,
             m \in Range(links[<<j, p>>]), First(p, j, m, net), Process(p, j, m, net)
      PROVE  Goal
  <2>1. CASE AcceptEntries(p, j, m, net)
    <3> DEFINE l == Extended(p, m)
    <3>1. Adopts(p, j, m, net)
      BY <1>2, <2>1, AcceptsAdopts
    <3>2. /\ log' = [log EXCEPT ![p] = l]
          /\ commit_index' = [commit_index EXCEPT ![p] = CommitOf(p, m, l)]
          /\ committed_history' = [committed_history EXCEPT ![p] =
                IF m.leader_commit > commit_index[p]
                THEN Recorded(p, l, CommitOf(p, m, l)) ELSE @]
      BY <2>1 DEF AcceptEntries
    <3> HIDE DEF l
    <3>3. CASE p = n /\ m.leader_commit > commit_index[n]
      <4>1. /\ log'[n] = l /\ commit_index'[n] = CommitOf(n, m, l)
            /\ committed_history'[n] = Recorded(n, l, CommitOf(n, m, l))
        BY <1>0, <3>2, <3>3
      <4>2. CommitOf(n, m, l) = SmallerOf(m.leader_commit, Len(l))
        BY <3>3 DEF CommitOf
      <4>3. Told
        BY <3>1, <3>3, <4>1, <4>2
      <4> QED
        BY <4>3
    <3>4. CASE ~(p = n /\ m.leader_commit > commit_index[n])
      <4>1. Same
        BY <1>0, <3>2, <3>4 DEF CommitOf
      <4> QED
        BY <4>1
    <3> QED
      BY <3>3, <3>4
  <2>2. CASE HandleAppendOk(p, j, m, net)
    <3> DEFINE match == [match_index[p] EXCEPT ![j] = m.match_index]
    <3>1. /\ commit_index' = [commit_index EXCEPT ![p] = CommitPoint(p, match)]
          /\ committed_history' = [committed_history EXCEPT ![p] =
                Recorded(p, log[p], CommitPoint(p, match))]
          /\ role[p] = "leader" /\ log' = log /\ m.type = "AppendOk" /\ m.term = term[p]
      BY <2>2 DEF HandleAppendOk, Answers
    <3>2. CASE p = n
      <4>1. /\ commit_index'[n] = CommitPoint(p, match)
            /\ committed_history'[n] = Recorded(p, log[p], CommitPoint(p, match))
        BY <1>0, <3>1, <3>2
      <4>2. Counts
        BY <1>2, <3>1, <3>2, <4>1
      <4> QED
        BY <4>2
    <3>3. CASE p # n
      <4>1. Same
        BY <1>0, <3>1, <3>3
      <4> QED
        BY <4>1
    <3> QED
      BY <3>2, <3>3
  <2>3. CASE commitment' = commitment
    BY <1>1, <2>3
  <2> HIDE DEF Goal
  <2> QED
    BY <1>2, <2>1, <2>2, <2>3 DEF Process, HandleRequestVote, HandleVoteGranted, BecomeLeader,
       HandleVoteDenied, RejectStale, RejectMismatch, RejectForgery, HandleBrokenChain,
       HandleAppendRejected, IgnoreAnswer
<1> HIDE DEF Goal
<1>3. ASSUME NEW p \in Nodes, NEW j \in Peers(p), NEW k, Handle(p, j, k) PROVE Goal
  BY <1>2, <1>3, Received
<1>4. Goal
  BY <1>1, <1>3 DEF Next, vars, Elect, Propose, Heartbeat
<1> QED
  BY <1>4 DEF Goal, Same, Told, Counts

\* A history is brought up to the index x of the log it begins.
LEMMA RecordedIs ==
    ASSUME NEW n, committed_history[n] \in Seq(Entries), NEW l \in Seq(Entries),
           Begins(committed_history[n], l), NEW x \in Nat,
           Len(committed_history[n]) <= x, x <= Len(l)
    PROVE  Recorded(n, l, x) = SubSeq(l, 1, x)
<1> DEFINE c == committed_history[n]
           t == SubSeq(l, Len(c) + 1, x)
           r == SubSeq(l, 1, x)
<1>1. c \in Seq(Entries) /\ Len(c) \in Nat /\ Len(l) \in Nat
  BY LenProperties
<1>2. Recorded(n, l, x) = c \o t
  BY <1>1 DEF Recorded, SmallerOf
<1>3. /\ t \in Seq(Entries) /\ Len(t) = x - Len(c)
      /\ \A i \in 1..Len(t) : t[i] = l[Len(c) + i]
  <2> DEFINE d == Len(c)
             e == d + 1
  <2>1. d \in Nat /\ d <= x /\ e \in Nat \ {0}
    BY <1>1
  <2>2. t = SubSeq(l, e, x)
    OBVIOUS
  <2> HIDE DEF c, d, e, t
  <2>3. /\ t \in Seq(Entries) /\ Len(t) = IF e <= x THEN x - e + 1 ELSE 0
        /\ \A i \in 1..Len(t) : t[i] = l[e + i - 1]
    BY <2>1, <2>2, PartOf
  <2>4. Len(t) = x - d
    BY <2>1, <2>3 DEF e
  <2>5. \A i \in Nat : e + i - 1 = d + i
    BY <2>1 DEF e
  <2>6. \A i \in 1..Len(t) : t[i] = l[d + i]
    BY <2>3, <2>5
  <2> QED
    BY <2>3, <2>4, <2>6 DEF d
<1>4. /\ r \in Seq(Entries) /\ Len(r) = x /\ \A k \in 1..x : r[k] = l[k]
  BY PrefixBegins DEF Begins
<1>5. \A k \in 1..Len(c) : c[k] = l[k]
  BY DEF Begins
<1> HIDE DEF c, t, r
<1>6. /\ c \o t \in Seq(Entries) /\ Len(c \o t) = Len(c) + Len(t)
      /\ \A i \in 1..(Len(c) + Len(t)) : (c \o t)[i] = IF i <= Len(c) THEN c[i] ELSE t[i - Len(c)]
  BY <1>1, <1>3, ConcatProperties
<1>7. Len(c) <= x
  BY DEF c
<1>8. Len(c \o t) = x /\ \A i \in 1..x : (c \o t)[i] = r[i]
  <2>1. Len(c) + Len(t) = x
    BY <1>1, <1>3, <1>7
  <2>2. ASSUME NEW i \in 1..x PROVE (c \o t)[i] = r[i]
    <3>1. CASE i <= Len(c)
      BY <1>1, <1>4, <1>5, <1>6, <2>1, <3>1
    <3>2. CASE ~(i <= Len(c))
      <4>1. i - Len(c) \in 1..Len(t) /\ Len(c) + (i - Len(c)) = i
        BY <1>1, <1>3, <1>7, <3>2
      <4>2. (c \o t)[i] = t[i - Len(c)]
        BY <1>6, <2>1, <3>2
      <4>3. t[i - Len(c)] = l[i]
        BY <1>3, <4>1
      <4> QED
        BY <1>4, <4>2, <4>3
    <3> QED
      BY <3>1, <3>2
  <2> QED
    BY <1>6, <2>1, <2>2
<1>9. c \o t = r
  BY <1>4, <1>6, <1>8, SeqEqual
<1> QED
  BY <1>2, <1>9 DEF r

\* No step takes from a log what its node reported committed.
LEMMA HistoryStaysInLog ==
    ASSUME NEW g, NEW h, CommitInv(g, h), [Next]_vars, NEW n \in Nodes
    PROVE  Begins(committed_history[n], log'[n])
<1> DEFINE c == committed_history[n]
<1>0. /\ LogInv(g) /\ Shapes /\ AppendsWell /\ Below /\ AppendsCover /\ Copies \subseteq g
      /\ Begins(c, log[n]) /\ term[n] \in Nat
  BY CommitFacts DEF CommitInv, LogInv, HistoriesHold
<1>1. c \in Seq(Entries) /\ Len(c) \in Nat
  BY HistoriesTyped, LenProperties
<1>2. CASE log'[n] = log[n]
  BY <1>0, <1>2
<1>3. CASE log'[n] = Append(log[n], [term |-> term[n], by |-> n])
  <2>1. /\ Len(log[n]) \in Nat /\ Len(log'[n]) = Len(log[n]) + 1
        /\ \A k \in 1..Len(log[n]) : log'[n][k] = log[n][k]
    BY <1>0, <1>3, Proposed
  <2> QED
    BY <1>0, <1>1, <2>1 DEF Begins
<1>4. ASSUME NEW j \in Peers(n), NEW m, NEW net, Adopts(n, j, m, net), c # <<>>
      PROVE  Begins(c, log'[n])
  <2> DEFINE l == <<j, n>>
  <2>1. /\ l \in Links /\ l[2] = n /\ m \in AppendsOn(l) /\ m.prev_hash # NoHash
        /\ log'[n] = Carried(m) /\ m.term >= term[n] /\ Carried(m) \in g
    BY <1>0, <1>4 DEF Adopts, AppendsOn, Appends, Links, Peers, Copies
  <2>2. m.term \in Nat
    BY <1>0, <2>1, FlightFacts DEF AppendsOn
  <2>3. /\ LastTerm(c) \in Nat /\ Len(c) \in 1..Len(log[n]) /\ log[n][Len(c)].term = LastTerm(c)
        /\ Has(log[n], Len(c), LastTerm(c))
    BY <1>4, HistoryEnds
  <2>4. LastTerm(c) <= term[n]
    BY <1>0, <2>3 DEF Below
  <2>5. CASE LastTerm(c) < m.term
    <3>1. Safe(h, Carried(m), m.term)
      BY <2>1 DEF CommitInv, HistoryInv, AppendsSafe, AppendsOn
    <3> QED
      BY <1>4, <2>1, <2>5, <3>1, SafeHasAll
  <2>6. CASE LastTerm(c) = m.term
    <3>1. m.term = term[n]
      BY <1>0, <2>1, <2>2, <2>4, <2>6
    <3>2. Has(Carried(m), Len(c), LastTerm(c))
      BY <1>0, <1>1, <2>1, <2>3, <2>6, <3>1 DEF AppendsCover
    <3> QED
      BY <1>4, <2>1, <3>2, HasAll
  <2> QED
    BY <1>0, <2>1, <2>2, <2>3, <2>4, <2>5, <2>6
<1>5. CASE c = <<>>
  <2>1. log'[n] \in Seq(Entries)
    BY <1>0, LogsStep DEF LogsOK, Entries
  <2> QED
    BY <1>5, <2>1, HistoriesTyped
<1> QED
  BY <1>0, <1>2, <1>3, <1>4, <1>5, LogCases

\* What a leader newly counts as committed was chosen.
LEMMA CountedIsChosen ==
    ASSUME NEW g, NEW h, CommitInv(g, h), NEW n \in Nodes, role[n] = "leader",
           NEW match, \A v \in Peers(n) : match[v] \in Evidence(n, v) /\ match[v] \in Nat,
           NEW i \in Committable(n, term[n], match)
    PROVE  Chosen(h, i, term[n])
<1> DEFINE q == {v \in Peers(n) : match[v] >= i}
           t == term[n]
<1>0. /\ i \in 1..Len(log[n]) /\ log[n][i].term = t
      /\ (1 + Cardinality(q)) * 2 > Cardinality(Nodes)
  BY DEF Committable
<1>1. /\ t \in Nat /\ Len(log[n]) \in Nat /\ Remembers(h) /\ EvidenceHolds(h)
  BY InvFacts DEF CommitInv, HistoryInv
<1>2. IsFiniteSet(q) /\ n \notin q /\ q \subseteq Nodes
  BY RaftAssumption, FS_Subset DEF Peers
<1> DEFINE r == q \union {n}
<1>3. Cardinality(r) = Cardinality(q) + 1 /\ Cardinality(q) \in Nat
  <2> HIDE DEF q
  <2> QED
    BY <1>2, FS_AddElement, FS_CardinalityType
<1>4. Cardinality(Nodes) \in Nat
  BY RaftAssumption, FS_CardinalityType
<1>5. r \in Majorities
  <2>1. Cardinality(r) >= (Cardinality(Nodes) \div 2) + 1
    <3> HIDE DEF q, r
    <3> QED
      BY <1>0, <1>3, <1>4
  <2>2. r \subseteq Nodes
    BY <1>2
  <2> HIDE DEF q, r
  <2> QED
    BY <2>1, <2>2 DEF Majorities, Quorum
<1>6. ASSUME NEW v \in q PROVE term[v] >= t /\ Has(h[v][t], i, t)
  <2>1. match[v] \in Evidence(n, v) /\ match[v] \in Nat /\ match[v] >= i /\ v \in Peers(n)
    OBVIOUS
  <2>2. Matches(h, n, v, match[v])
    BY <1>1, <2>1 DEF EvidenceHolds
  <2>3. /\ term[v] >= t /\ match[v] <= Len(h[v][t])
        /\ \A k \in 1..match[v] : h[v][t][k] = log[n][k]
    BY <1>0, <1>1, <2>1, <2>2 DEF Matches
  <2>4. Len(h[v][t]) \in Nat
    <3>1. v \in Nodes /\ h[v][t] \in g
      BY <1>1, <2>1 DEF Peers, CommitInv, HistoryInv
    <3> QED
      BY <3>1, InvFacts DEF CommitInv, HistoryInv
  <2>5. i \in 1..match[v] /\ i \in 1..Len(h[v][t])
    BY <1>0, <1>1, <2>1, <2>3, <2>4
  <2>6. h[v][t][i] = log[n][i]
    BY <2>3, <2>5
  <2> QED
    BY <1>0, <2>3, <2>5, <2>6 DEF Has
<1>7. term[n] >= t /\ Has(h[n][t], i, t)
  <2>1. h[n][t] = log[n]
    BY <1>1 DEF Remembers
  <2> QED
    BY <1>0, <1>1, <2>1 DEF Has
<1>8. \A v \in r : term[v] >= t /\ Has(h[v][t], i, t)
  <2> HIDE DEF q, t
  <2> QED
    BY <1>6, <1>7
<1> HIDE DEF r, q
<1> QED
  BY <1>5, <1>8 DEF Chosen

LEMMA HistoriesHoldStep ==
    ASSUME NEW g, NEW h, CommitInv(g, h), [Next]_vars, NEW hh, Kept(h, hh)
    PROVE  HistoriesHold(hh)'
<1>0. /\ LogInv(g) /\ Shapes /\ AppendsWell /\ AppendsFull /\ AppendsCommitted(h)
      /\ EvidenceHolds(h) /\ HistoriesHold(h)
  BY CommitFacts DEF CommitInv
<1> SUFFICES ASSUME NEW n \in Nodes
             PROVE  /\ Len(committed_history'[n]) = commit_index'[n]
                    /\ Begins(committed_history'[n], log'[n])
                    /\ Committed(hh, committed_history[n])'
  BY DEF HistoriesHold, Begins
<1> DEFINE c == committed_history[n]
<1>1. /\ c \in Seq(Entries) /\ log[n] \in Seq(Entries) /\ Len(c) \in Nat /\ Len(log[n]) \in Nat
      /\ Len(c) = commit_index[n] /\ Committed(h, c) /\ Begins(c, log[n]) /\ Begins(c, log'[n])
  BY <1>0, HistoriesTyped, LenProperties, HistoryStaysInLog DEF HistoriesHold
<1>2. ASSUME NEW l \in Seq(Entries), l = c, commit_index'[n] = commit_index[n],
             committed_history'[n] = l
      PROVE  /\ Len(committed_history'[n]) = commit_index'[n]
             /\ Begins(committed_history'[n], log'[n])
             /\ Committed(hh, committed_history[n])'
  <2>1. Committed(h, l)
    BY <1>1, <1>2
  <2>2. Committed(hh, l)'
    BY <2>1, CommittedStays
  <2>3. Committed(hh, committed_history[n])'
    BY <1>2, <2>2
  <2> HIDE DEF Committed
  <2> QED
    BY <1>1, <1>2, <2>3
<1>3. ASSUME NEW l \in Seq(Entries), NEW i \in Nat, i > Len(c), i <= Len(l), Begins(c, l),
             log'[n] = l, Committed(h, SubSeq(l, 1, i)),
             commit_index'[n] = i, committed_history'[n] = Recorded(n, l, i)
      PROVE  /\ Len(committed_history'[n]) = commit_index'[n]
             /\ Begins(committed_history'[n], log'[n])
             /\ Committed(hh, committed_history[n])'
  <2>1. Recorded(n, l, i) = SubSeq(l, 1, i)
    BY <1>1, <1>3, RecordedIs
  <2>2. /\ SubSeq(l, 1, i) \in Seq(Entries) /\ Len(SubSeq(l, 1, i)) = i
        /\ Begins(SubSeq(l, 1, i), l)
    BY <1>3, PrefixBegins
  <2> DEFINE d == SubSeq(l, 1, i)
  <2>3. committed_history'[n] = d /\ d \in Seq(Entries) /\ Committed(h, d)
    BY <1>3, <2>1, <2>2
  <2> HIDE DEF d
  <2>4. Committed(hh, d)'
    BY <2>3, CommittedStays
  <2>5. Committed(hh, committed_history[n])'
    BY <2>3, <2>4
  <2> QED
    BY <1>3, <2>2, <2>3, <2>5 DEF d
<1>4. ASSUME NEW j \in Peers(n), NEW m, NEW net, Adopts(n, j, m, net),
             m.leader_commit > commit_index[n],
             commit_index'[n] = SmallerOf(m.leader_commit, Len(log'[n])),
             committed_history'[n] = Recorded(n, log'[n], commit_index'[n])
      PROVE  /\ Len(committed_history'[n]) = commit_index'[n]
             /\ Begins(committed_history'[n], log'[n])
             /\ Committed(hh, committed_history[n])'
  <2>1. /\ <<j, n>> \in Links /\ m \in AppendsOn(<<j, n>>) /\ m \in Appends
        /\ m.prev_hash # NoHash /\ log'[n] = Carried(m)
    BY <1>4 DEF Adopts, AppendsOn, Appends, Links, Peers
  <2>2. m.leader_commit \in Nat
    BY <1>0, <2>1, FlightFacts DEF AppendsOn
  <2>3. Carried(m) \in Seq(Entries) /\ Len(Carried(m)) \in Nat
    BY <1>0, <2>1, CarriedLength
  <2>4. /\ m.leader_commit <= Len(Carried(m))
        /\ Committed(h, SubSeq(Carried(m), 1, m.leader_commit))
    BY <1>0, <2>1 DEF AppendsCommitted
  <2>5. commit_index'[n] = m.leader_commit
    BY <1>4, <2>1, <2>2, <2>3, <2>4 DEF SmallerOf
  <2> HIDE DEF Committed
  <2> QED
    BY <1>1, <1>3, <1>4, <2>1, <2>2, <2>3, <2>4, <2>5
<1>5. ASSUME role[n] = "leader", log' = log, NEW j \in Peers(n),
             NEW m \in Range(links[<<j, n>>]), NEW match,
             match = [match_index[n] EXCEPT ![j] = m.match_index],
             m.type = "AppendOk", m.term = term[n],
             commit_index'[n] = CommitPoint(n, match),
             committed_history'[n] = Recorded(n, log[n], CommitPoint(n, match))
      PROVE  /\ Len(committed_history'[n]) = commit_index'[n]
             /\ Begins(committed_history'[n], log'[n])
             /\ Committed(hh, committed_history[n])'
  <2> DEFINE C == Committable(n, term[n], match)
  <2>1. CASE C = {}
    <3>1. CommitPoint(n, match) = Len(c)
      BY <1>1, <2>1 DEF CommitPoint
    <3>2. Recorded(n, log[n], Len(c)) = SubSeq(log[n], 1, Len(c))
      <4>1. Len(c) <= Len(c) /\ Len(c) <= Len(log[n])
        BY <1>1 DEF Begins
      <4> QED
        BY <1>1, <4>1, RecordedIs
    <3>3. SubSeq(log[n], 1, Len(c)) = c
      BY <1>1, BeginsCut
    <3>4. commit_index'[n] = commit_index[n] /\ committed_history'[n] = c
      BY <1>1, <1>5, <3>1, <3>2, <3>3
    <3> HIDE DEF Committed
    <3> QED
      BY <1>1, <1>2, <3>4
  <2>2. CASE C # {}
    <3> DEFINE i == Max(C)
    <3>1. i \in C
      <4> DEFINE x == Len(log[n])
      <4>0. x \in Nat /\ C \subseteq 1..x
        BY <1>1 DEF Committable
      <4> HIDE DEF x
      <4>1. IsFiniteSet(1..x) /\ C \subseteq 1..x
        BY <4>0, FS_Interval
      <4>2. IsFiniteSet(C) /\ C \subseteq Nat
        BY <4>0, <4>1, FS_Subset
      <4> HIDE DEF C
      <4> QED
        BY <2>2, <4>2, MaxOf
    <3>2. i \in 1..Len(log[n]) /\ log[n][i].term = term[n] /\ i > commit_index[n]
      BY <3>1 DEF Committable
    <3>3. CommitPoint(n, match) = i
      BY <2>2 DEF CommitPoint
    <3> HIDE DEF i
    <3>4. \A v \in Peers(n) : match[v] \in Evidence(n, v) /\ match[v] \in Nat
      <4>1. /\ <<j, n>> \in Links /\ j \in Nodes /\ bound.entries \in Nat
            /\ match_index[n] \in [Nodes -> 0..bound.entries]
        BY <1>0, CommitFacts DEF Links, Peers, Shapes, ProgressOK
      <4>2. m.match_index \in Nat /\ m.match_index \in Evidence(n, j)
        BY <1>0, <1>5, <4>1, FlightFacts DEF Evidence, Oks
      <4>3. \A v \in Peers(n) : v # j => match[v] = match_index[n][v] /\ match[v] \in Nat
        BY <1>5, <4>1 DEF Peers
      <4>4. match[j] = m.match_index
        BY <1>5, <4>1
      <4>5. \A v \in Peers(n) : match_index[n][v] \in Evidence(n, v)
        BY DEF Evidence
      <4> QED
        BY <4>2, <4>3, <4>4, <4>5
    <3>5. Chosen(h, i, term[n])
      BY <1>5, <3>1, <3>4, CountedIsChosen
    <3>6. Committed(h, SubSeq(log[n], 1, i))
      <4> DEFINE d == SubSeq(log[n], 1, i)
      <4>1. i \in Nat /\ i <= Len(log[n]) /\ i # 0 /\ i \in 1..i
        BY <1>1, <3>2
      <4>2. d \in Seq(Entries) /\ Len(d) = i /\ Begins(d, log[n])
        BY <1>1, <4>1, PrefixBegins
      <4> HIDE DEF d
      <4>3. d # <<>> /\ d[Len(d)].term = term[n]
        BY <3>2, <4>1, <4>2, EmptySeq DEF Begins
      <4>4. LastTerm(d) = term[n]
        BY <4>3 DEF LastTerm
      <4>5. Committed(h, d)
        BY <3>5, <4>2, <4>4 DEF Committed
      <4> QED
        BY <4>5 DEF d
    <3>7. i \in Nat /\ i > Len(c) /\ i <= Len(log[n]) /\ log'[n] = log[n]
      BY <1>1, <1>5, <3>2
    <3> HIDE DEF Committed
    <3> QED
      BY <1>1, <1>3, <1>5, <3>3, <3>6, <3>7
  <2> QED
    BY <2>1, <2>2
<1>6. ASSUME commit_index'[n] = commit_index[n], committed_history'[n] = committed_history[n]
      PROVE  /\ Len(committed_history'[n]) = commit_index'[n]
             /\ Begins(committed_history'[n], log'[n])
             /\ Committed(hh, committed_history[n])'
  <2> HIDE DEF Committed
  <2> QED
    BY <1>1, <1>2, <1>6
<1> HIDE DEF Committed
<1> QED
  BY <1>0, <1>4, <1>5, <1>6, CommitCases

(***************************************************************************)
(* The invariant, and what it proves.                                      *)
(***************************************************************************)

LEMMA CommitInit ==
    ASSUME Init, NEW h, h = [v \in Nodes |-> [u \in Nat |-> <<>>]]
    PROVE  CommitInv({<<>>}, h)
<1>1. HistoryInv({<<>>}, h)
  BY HistoryInit
<1>2. \A l \in Links : links[l] = <<>> /\ Range(links[l]) = {}
  BY DEF Init, Range
<1>3. \A l \in Links : AppendsOn(l) = {} /\ Len(links[l]) = 0
  BY <1>2, EmptySeq DEF AppendsOn
<1>4. \A n \in Nodes : role[n] = "follower"
  BY DEF Init
<1>5. NextInLog /\ EvidenceHolds(h)
  BY <1>4 DEF NextInLog, EvidenceHolds
<1>6. AppendsFull /\ AppendsOwn /\ AppendsCover /\ AppendsCommitted(h)
  BY <1>3 DEF AppendsFull, AppendsOwn, AppendsCover, AppendsCommitted
<1>7. AppendsGrow /\ AnswersLed /\ HintsInLog
  <2>1. AppendsGrow
    BY <1>3 DEF AppendsGrow
  <2>2. AnswersLed /\ HintsInLog
    BY <1>2 DEF AnswersLed, HintsInLog
  <2> QED
    BY <2>1, <2>2
<1>8. HistoriesHold(h)
  <2>1. \A n \in Nodes : committed_history[n] = <<>> /\ commit_index[n] = 0 /\ log[n] = <<>>
    BY DEF Init
  <2> QED
    BY <2>1, EmptySeq DEF HistoriesHold, Begins, Committed
<1> QED
  BY <1>1, <1>5, <1>6, <1>7, <1>8 DEF CommitInv

LEMMA CommitInvStep ==
    ASSUME NEW g, NEW h, CommitInv(g, h), [Next]_vars, ~Reorder, [~TakesHintPastLog]_vars,
           NEW hh, Kept(h, hh), NEW gg, gg = g \union Copies'
    PROVE  CommitInv(gg, hh)'
<1>1. HistoryInv(gg, hh)'
  BY HistoryInvStep DEF CommitInv
<1>2. NextInLog'
  BY NextInLogStep
<1>3. AppendsFull'
  BY <1>2, AppendsFullStep
<1>4. AppendsOwn' /\ AppendsCover' /\ AppendsGrow'
  BY <1>3, AppendsOwnStep, AppendsCoverStep, AppendsGrowStep
<1>5. AnswersLed' /\ HintsInLog' /\ EvidenceHolds(hh)'
  BY <1>3, AnswersLedStep, HintsStep, EvidenceHoldsStep
<1>6. HistoriesHold(hh)' /\ AppendsCommitted(hh)'
  BY <1>3, HistoriesHoldStep, AppendsCommittedStep
<1> QED
  BY <1>1, <1>2, <1>3, <1>4, <1>5, <1>6 DEF CommitInv

\* With the messages of a link in order, and as long as no leader takes a hint past
\* its log (see TakesHintPastLog), what a majority replicated in its term is never
\* outvoted, and all that a node counts as committed was so replicated.
THEOREM CommitInductive ==
    ASSUME ~Reorder
    PROVE  Spec /\ [][~TakesHintPastLog]_vars => [](\E g, h : CommitInv(g, h))
<1>1. Init => \E g, h : CommitInv(g, h)
  <2> SUFFICES ASSUME Init PROVE \E g, h : CommitInv(g, h)
    OBVIOUS
  <2>1. PICK h : h = [v \in Nodes |-> [u \in Nat |-> <<>>]]
    OBVIOUS
  <2> QED
    BY <2>1, CommitInit
<1>2. (\E g, h : CommitInv(g, h)) /\ [Next]_vars /\ [~TakesHintPastLog]_vars
      => (\E g, h : CommitInv(g, h))'
  <2> SUFFICES ASSUME NEW g, NEW h, CommitInv(g, h), [Next]_vars, [~TakesHintPastLog]_vars
               PROVE  \E gg, hh : CommitInv(gg, hh)'
    OBVIOUS
  <2>1. PICK gg : gg = g \union Copies'
    OBVIOUS
  <2>2. PICK hh : Kept(h, hh)
    BY DEF Kept
  <2>3. CommitInv(gg, hh)'
    BY <2>1, <2>2, CommitInvStep
  <2> QED
    BY <2>3
<1> QED
  BY <1>1, <1>2, PTL DEF Spec

\* No two nodes ever report different entries committed, across elections, lost and
\* repeated messages: a strict read at one frontier means the same on every node.
THEOREM HistoriesNeverFork ==
    ASSUME ~Reorder
    PROVE  Spec /\ [][~TakesHintPastLog]_vars => []HistoriesAgree
<1>1. (\E g, h : CommitInv(g, h)) => HistoriesAgree
  BY AgreeFromInv
<1> QED
  BY <1>1, CommitInductive, PTL

\* "Truncation is only ever of uncommitted entries" (lib.rs, Node::handle).
THEOREM CommittedNeverTruncated ==
    ASSUME ~Reorder
    PROVE  Spec /\ [][~TakesHintPastLog]_vars => []CommittedStaysInLog
<1>1. (\E g, h : CommitInv(g, h)) => CommittedStaysInLog
  BY StaysFromInv
<1> QED
  BY <1>1, CommitInductive, PTL

\* What a leader counts as replicated by a peer (match_index) is in the log of that
\* peer, until that peer moves on to a later term.
THEOREM MatchedIsReplicated ==
    ASSUME ~Reorder
    PROVE  Spec /\ [][~TakesHintPastLog]_vars => []MatchIsHeld
<1>1. (\E g, h : CommitInv(g, h)) => MatchIsHeld
  BY MatchFromInv
<1> QED
  BY <1>1, CommitInductive, PTL

\* "A leader always has every committed entry" (lib.rs): no majority would vote for
\* a node whose log lacks an entry that some node reported committed.
THEOREM CommittedIsKeptByVotes ==
    ASSUME ~Reorder
    PROVE  Spec /\ [][~TakesHintPastLog]_vars => []CommittedCannotBeOutvoted
<1>1. (\E g, h : CommitInv(g, h)) => CommittedCannotBeOutvoted
  BY OutvotedFromInv
<1> QED
  BY <1>1, CommitInductive, PTL
=============================================================================
