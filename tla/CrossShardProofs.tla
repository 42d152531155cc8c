-------------------------- MODULE CrossShardProofs --------------------------
(***************************************************************************)
(* Proofs about CrossShard, for every value of its constants: it           *)
(* implements AtomicCommit, and coordinators that succeed one another, or  *)
(* run at the same time, never decide differently.                         *)
(***************************************************************************)
EXTENDS CrossShard, ExtremeElements, SequenceTheorems

(***************************************************************************)
(* The inductive invariant.  A decision is faithful to the answers of the  *)
(* participants if every one of them answered and it is what the           *)
(* coordinator's rule makes of the answers.  As nobody ever answers again  *)
(* differently, there is one faithful decision at most.                    *)
(***************************************************************************)

FaithfulTo(moved, given, d) ==
    /\ \A s \in Shards : given[s] # None
    /\ d = DecisionFor(moved, given)

Faithful(x, d) == FaithfulTo(net[x], answers[x], d)

\* What was sent, and what a coordinator counted, is what the shard answered.
VotesTrue == \A m \in votes_sent : m.vote = answers[m.xid][m.shard]

RecordedTrue ==
    \A k \in Coordinators : Up(k) =>
        \A s \in Shards :
            coordinator[k].votes[s] \in {None, answers[coordinator[k].xid][s]}

DecidedTrue ==
    \A k \in Coordinators : Up(k) /\ coordinator[k].decided # None =>
        Faithful(coordinator[k].xid, coordinator[k].decided)

LoggedTrue ==
    \A i \in DOMAIN log : log[i].xid \in Xids => Faithful(log[i].xid, log[i].decision)

\* A coordinator that believes its decision durable finds it in the log.
DurableLogged ==
    \A k \in Coordinators : Up(k) /\ coordinator[k].durable =>
        /\ coordinator[k].decided # None
        /\ \E i \in DOMAIN log : log[i] = [xid |-> coordinator[k].xid,
                                        decision |-> coordinator[k].decided]

ToldLogged == \A m \in told : \E i \in DOMAIN log : log[i] = m

OutcomesLogged ==
    \A x \in Xids : \A s \in Shards : outcome[x][s] # None =>
        \E i \in DOMAIN log : log[i] = [xid |-> x, decision |-> outcome[x][s]]

LogPairs ==
    \A i \in DOMAIN log : log[i].xid \in Xids =>
        log[i] = [xid |-> log[i].xid, decision |-> log[i].decision]

Shapes == TypeOK /\ log \in Seq(Range(log))

IInv ==
    /\ Shapes
    /\ VotesTrue /\ RecordedTrue /\ DecidedTrue
    /\ LoggedTrue /\ LogPairs /\ DurableLogged /\ ToldLogged /\ OutcomesLogged

(***************************************************************************)
(* Answers and decisions.                                                  *)
(***************************************************************************)

LEMMA AnswerKinds ==
    ASSUME NEW a \in FreshAnswers
    PROVE  /\ a # None
           /\ \/ a = Refused("Duplicate") \/ a = Refused("NoQuorum")
              \/ \E e \in Epochs : a = Prepared(e)
  BY DEF FreshAnswers, FreshAnswer, None, Refused, Prepared

\* What the coordinator's rule gives for a full set of votes.
LEMMA DecisionFacts ==
    ASSUME NEW moved, NEW votes \in [Shards -> FreshAnswers]
    PROVE  LET d == DecisionFor(moved, votes)
           IN /\ d \in Decisions /\ d # None
              /\ \/ /\ \E why \in {"DoesNotConserve", "ParticipantRefused"} : d = Abort(why)
                    /\ ~(Conserves(moved) /\ \A s \in Shards : votes[s].kind = "prepared")
                 \/ /\ Conserves(moved)
                    /\ \E e \in Epochs :
                          /\ d = Commit(e + 1)
                          /\ \A s \in Shards : /\ votes[s].kind = "prepared"
                                              /\ votes[s].epoch \in Epochs
                                              /\ votes[s].epoch =< e
<1>1. \A s \in Shards : votes[s].kind = "refused" \/
           (votes[s].kind = "prepared" /\ votes[s].epoch \in Epochs)
  BY AnswerKinds DEF Refused, Prepared
<1>2. CASE ~Conserves(moved)
  BY <1>2 DEF DecisionFor, Decisions, Abort, None
<1>3. CASE Conserves(moved) /\ \E s \in Shards : votes[s].kind = "refused"
  BY <1>3 DEF DecisionFor, Decisions, Abort, None
<1>4. CASE Conserves(moved) /\ ~ \E s \in Shards : votes[s].kind = "refused"
  <2> DEFINE E == {votes[s].epoch : s \in Shards}
  <2>1. E \subseteq Epochs /\ E # {}
    BY <1>1, <1>4, CrossShardAssumption
  <2>2. IsFiniteSet(E)
    <3> HIDE DEF E
    <3>1. E = {votes[s].epoch : s \in Shards}
      BY DEF E
    <3>2. [s \in Shards |-> votes[s].epoch] \in Surjection(Shards, E)
      BY <3>1 DEF Surjection
    <3> QED
      BY <3>2, FS_Surjection, CrossShardAssumption
  <2>3. Max(E) \in E /\ \A e \in E : Max(E) >= e
    <3>1. E \subseteq Nat
      BY <2>1, CrossShardAssumption
    <3> HIDE DEF E
    <3> QED
      BY <2>1, <2>2, <3>1, MaxOf
  <2>4. DecisionFor(moved, votes) = Commit(Max(E) + 1)
    BY <1>4 DEF DecisionFor
  <2>5. Max(E) \in Epochs
    BY <2>1, <2>3
  <2>6. \A s \in Shards : votes[s].epoch =< Max(E)
    <3> SUFFICES ASSUME NEW s \in Shards PROVE votes[s].epoch =< Max(E)
      OBVIOUS
    <3>1. votes[s].epoch \in E
      OBVIOUS
    <3>2. votes[s].epoch \in Nat /\ Max(E) \in Nat
      BY <2>1, <2>5, <3>1, CrossShardAssumption
    <3> HIDE DEF E
    <3> QED
      BY <2>3, <3>1, <3>2
  <2> HIDE DEF E
  <2>7. Commit(Max(E) + 1) \in Decisions /\ Commit(Max(E) + 1) # None
    BY <2>5 DEF Decisions, Commit, None
  <2> QED
    BY <1>1, <1>4, <2>4, <2>5, <2>6, <2>7
<1> QED
  BY <1>2, <1>3, <1>4

(***************************************************************************)
(* Answers stay, and with them what is faithful to them.                   *)
(***************************************************************************)

LEMMA AnswersStay ==
    ASSUME IInv, [Next]_vars, NEW x \in Xids, NEW s \in Shards,
           answers[x][s] # None
    PROVE  answers'[x][s] = answers[x][s]
<1>1. ASSUME NEW y \in Xids, NEW t \in Shards, Prepare(y, t)
      PROVE  answers'[x][s] = answers[x][s]
  BY <1>1 DEF Prepare, AnswersTo, IInv, Shapes, TypeOK
<1>2. CASE UNCHANGED answers
  BY <1>2
<1> QED
  BY <1>1, <1>2 DEF Next, vars, participants, Apply, Start, Record, Decide,
     PersistDecision, SendDecision, Die

LEMMA NetStays == ASSUME [Next]_vars PROVE net' = net
  BY DEF Next, vars, participants, Prepare, Apply, Start, Record, Decide,
     PersistDecision, SendDecision, Die

LEMMA StaysFaithful ==
    ASSUME IInv, [Next]_vars, NEW x \in Xids, NEW d, Faithful(x, d)
    PROVE  FaithfulTo(net'[x], answers'[x], d)
<1>1. answers'[x] = answers[x]
  <2>1. answers[x] \in [Shards -> FreshAnswers \union {None}]
    BY DEF IInv, Shapes, TypeOK
  <2>2. answers'[x] \in [Shards -> FreshAnswers \union {None}]
    <3>1. ASSUME NEW y \in Xids, NEW t \in Shards, Prepare(y, t)
          PROVE  answers' \in [Xids -> [Shards -> FreshAnswers \union {None}]]
      BY <3>1 DEF Prepare, AnswersTo, IInv, Shapes, TypeOK
    <3>2. CASE UNCHANGED answers
      BY <3>2 DEF IInv, Shapes, TypeOK
    <3> QED
      BY <3>1, <3>2 DEF Next, vars, participants, Apply, Start, Record, Decide,
         PersistDecision, SendDecision, Die
  <2>3. \A s \in Shards : answers'[x][s] = answers[x][s]
    BY AnswersStay DEF Faithful, FaithfulTo
  <2> QED
    BY <2>1, <2>2, <2>3
<1>2. net' = net
  BY NetStays
<1> QED
  BY <1>1, <1>2 DEF Faithful

LEMMA FaithfulFacts ==
    ASSUME TypeOK, NEW x \in Xids, NEW d, Faithful(x, d)
    PROVE  answers[x] \in [Shards -> FreshAnswers] /\ d \in Decisions /\ d # None
<1>1. answers[x] \in [Shards -> FreshAnswers]
  BY DEF Faithful, FaithfulTo, TypeOK
<1> QED
  BY <1>1, DecisionFacts DEF Faithful, FaithfulTo

LEMMA DecisionsAreSome == \A d \in Decisions : d # None
  BY DEF Decisions, Commit, Abort, None

(***************************************************************************)
(* The log.                                                                *)
(***************************************************************************)

\* What is appended last, and nothing else of the log changes.
LEMMA LogStep ==
    ASSUME IInv, [Next]_vars
    PROVE  /\ log' \in Seq(Range(log'))
           /\ Len(log') >= Len(log) /\ Len(log) \in Nat /\ Len(log') \in Nat
           /\ DOMAIN log = 1..Len(log) /\ DOMAIN log' = 1..Len(log')
           /\ \A i \in DOMAIN log : log'[i] = log[i]
           /\ \A i \in DOMAIN log' : i \notin DOMAIN log =>
                 \E k \in Coordinators : PersistDecision(k) /\
                     log'[i] = [xid |-> coordinator[k].xid,
                                decision |-> coordinator[k].decided]
<1>1. log \in Seq(Range(log))
  BY DEF IInv, Shapes
<1>2. ASSUME NEW k \in Coordinators, PersistDecision(k)
      PROVE  /\ Len(log') = Len(log) + 1 /\ Len(log) \in Nat
             /\ DOMAIN log = 1..Len(log) /\ DOMAIN log' = 1..Len(log')
             /\ \A i \in DOMAIN log : log'[i] = log[i]
             /\ log'[Len(log')] = [xid |-> coordinator[k].xid,
                                   decision |-> coordinator[k].decided]
             /\ log' \in Seq(Range(log'))
  <2> DEFINE r == [xid |-> coordinator[k].xid, decision |-> coordinator[k].decided]
             S == Range(log) \union {r}
  <2>1. log' = Append(log, r)
    BY <1>2 DEF PersistDecision
  <2>2. log \in Seq(S) /\ r \in S
    BY <1>1, SeqMonotonic
  <2> HIDE DEF S, r
  <2>3. /\ log' \in Seq(S) /\ Len(log') = Len(log) + 1
        /\ \A i \in 1..Len(log) : log'[i] = log[i]
        /\ log'[Len(log) + 1] = r
    BY <2>1, <2>2, AppendProperties
  <2>4. Len(log) \in Nat /\ DOMAIN log = 1..Len(log) /\ DOMAIN log' = 1..Len(log')
    BY <2>2, <2>3, LenProperties
  <2>5. \A i \in 1..Len(log') : log'[i] \in Range(log')
    BY <2>4 DEF Range
  <2>6. log' \in Seq(Range(log'))
    <3>1. log' = [i \in 1..Len(log') |-> log'[i]] /\ Len(log') \in Nat
      BY <2>3, <2>4, SeqDef
    <3> QED
      BY <2>5, <3>1, IsASeq
  <2> QED
    BY <2>3, <2>4, <2>6 DEF r
<1>3. CASE UNCHANGED log
  <2>1. Len(log) \in Nat /\ DOMAIN log = 1..Len(log)
    BY <1>1, LenProperties
  <2> QED
    BY <1>1, <1>3, <2>1
<1>4. CASE \E k \in Coordinators : PersistDecision(k)
  <2>1. PICK k \in Coordinators : PersistDecision(k)
    BY <1>4
  <2> DEFINE n == Len(log)
             m == Len(log')
             r == [xid |-> coordinator[k].xid, decision |-> coordinator[k].decided]
  <2>2. /\ m = n + 1 /\ n \in Nat /\ DOMAIN log = 1..n /\ DOMAIN log' = 1..m
        /\ \A i \in DOMAIN log : log'[i] = log[i]
        /\ log'[m] = r
        /\ log' \in Seq(Range(log'))
    BY <1>2, <2>1
  <2> HIDE DEF n, m, r
  <2>3. \A i \in DOMAIN log' : i \notin DOMAIN log => i = m
    BY <2>2
  <2>4. \A i \in DOMAIN log' : i \notin DOMAIN log => PersistDecision(k) /\ log'[i] = r
    BY <2>1, <2>2, <2>3
  <2>5. m >= n /\ m \in Nat
    BY <2>2
  <2> QED
    BY <2>2, <2>4, <2>5 DEF n, m, r
<1> QED
  BY <1>3, <1>4 DEF Next, vars, participants, Prepare, Apply, Start, Record,
     Decide, SendDecision, Die

LEMMA LogGrows ==
    ASSUME IInv, [Next]_vars, NEW r, \E i \in DOMAIN log : log[i] = r
    PROVE  \E i \in DOMAIN log' : log'[i] = r
  BY LogStep

\* What the log records first for a transaction, if it records anything.
LEMMA RecoverFacts ==
    ASSUME IInv, NEW x \in Xids
    PROVE  \/ /\ Recover(x) = None
              /\ \A i \in DOMAIN log : log[i].xid # x
           \/ /\ Recover(x) \in Decisions /\ Recover(x) # None
              /\ Faithful(x, Recover(x))
              /\ \E i \in DOMAIN log : /\ log[i].xid = x /\ log[i].decision = Recover(x)
                                      /\ Recover(x) = log[Min({j \in DOMAIN log : log[j].xid = x})].decision
<1> DEFINE at == {i \in DOMAIN log : log[i].xid = x}
<1>1. CASE at = {}
  BY <1>1 DEF Recover
<1>2. CASE at # {}
  <2>1. at \subseteq Nat
    BY LogStep, LenProperties DEF IInv, Shapes
  <2>2. Min(at) \in at
    <3> HIDE DEF at
    <3> QED
      BY <1>2, <2>1, MinOf
  <2>3. Recover(x) = log[Min(at)].decision
    BY <1>2 DEF Recover
  <2>4. Faithful(x, Recover(x))
    BY <2>2, <2>3 DEF IInv, LoggedTrue
  <2>5. Recover(x) \in Decisions /\ Recover(x) # None
    BY <2>4, FaithfulFacts DEF IInv, Shapes
  <2> QED
    BY <2>2, <2>3, <2>4, <2>5
<1> QED
  BY <1>1, <1>2

(***************************************************************************)
(* Every step keeps the invariant.                                         *)
(***************************************************************************)

Coordinator ==
    [st : {"up"}, xid : Xids, votes : [Shards -> FreshAnswers \union {None}],
     decided : Decisions \union {None}, durable : BOOLEAN]

LEMMA UpIsCoordinator ==
    ASSUME TypeOK, NEW k \in Coordinators, Up(k)
    PROVE  coordinator[k] \in Coordinator
  BY DEF TypeOK, Up, Unstarted, Dead, Coordinator

\* What a step makes of the coordinators: one of them changes at most.
LEMMA CoordinatorStep ==
    ASSUME IInv, [Next]_vars, NEW k \in Coordinators, Up(k)'
    PROVE  /\ coordinator'[k] \in Coordinator
           /\ \/ coordinator'[k] = coordinator[k]
              \/ \E x \in Xids : /\ Start(k, x) /\ coordinator'[k].xid = x
                                /\ coordinator'[k].votes = [s \in Shards |-> None]
                                /\ coordinator'[k].decided = Recover(x)
                                /\ coordinator'[k].durable = (Recover(x) # None)
              \/ \E m \in votes_sent :
                    /\ Up(k) /\ m.xid = coordinator[k].xid
                    /\ coordinator'[k].xid = coordinator[k].xid
                    /\ coordinator'[k].decided = coordinator[k].decided
                    /\ coordinator'[k].durable = coordinator[k].durable
                    /\ \A s \in Shards :
                          \/ coordinator'[k].votes[s] = coordinator[k].votes[s]
                          \/ s = m.shard /\ coordinator'[k].votes[s] = m.vote
              \/ /\ Decide(k)
                 /\ coordinator'[k].xid = coordinator[k].xid
                 /\ coordinator'[k].votes = coordinator[k].votes
                 /\ coordinator'[k].durable = coordinator[k].durable
                 /\ coordinator'[k].decided =
                       DecisionFor(net[coordinator[k].xid], coordinator[k].votes)
              \/ /\ PersistDecision(k)
                 /\ coordinator'[k].xid = coordinator[k].xid
                 /\ coordinator'[k].votes = coordinator[k].votes
                 /\ coordinator'[k].durable = TRUE
                 /\ coordinator'[k].decided = coordinator[k].decided
<1>0. TypeOK
  BY DEF IInv, Shapes
<1>d. DOMAIN coordinator = Coordinators
  BY DEF IInv, Shapes, TypeOK
<1>1. ASSUME NEW j \in Coordinators, NEW x \in Xids, Start(j, x), j = k
      PROVE  /\ coordinator'[k] \in Coordinator
             /\ Start(k, x) /\ coordinator'[k].xid = x
             /\ coordinator'[k].votes = [s \in Shards |-> None]
             /\ coordinator'[k].decided = Recover(x)
             /\ coordinator'[k].durable = (Recover(x) # None)
  BY <1>d, <1>1, RecoverFacts DEF Start, NewCoordinator, Coordinator
<1>2. ASSUME NEW j \in Coordinators, NEW m \in votes_sent, Record(j, m), j = k
      PROVE  /\ coordinator'[k] \in Coordinator
             /\ Up(k) /\ m.xid = coordinator[k].xid
             /\ coordinator'[k].xid = coordinator[k].xid
             /\ coordinator'[k].decided = coordinator[k].decided
             /\ coordinator'[k].durable = coordinator[k].durable
             /\ \A s \in Shards :
                   \/ coordinator'[k].votes[s] = coordinator[k].votes[s]
                   \/ s = m.shard /\ coordinator'[k].votes[s] = m.vote
  <2>1. coordinator[k] \in Coordinator /\ m.shard \in Shards /\ m.vote \in FreshAnswers
    BY <1>0, <1>2, UpIsCoordinator DEF Record, TypeOK
  <2>2. coordinator'[k] = [coordinator[k] EXCEPT !.votes[m.shard] =
                              IF @ = None THEN m.vote ELSE @]
    BY <1>d, <1>2 DEF Record
  <2> QED
    BY <1>2, <2>1, <2>2 DEF Record, Coordinator
<1>3. ASSUME NEW j \in Coordinators, Decide(j), j = k
      PROVE  /\ coordinator'[k] \in Coordinator
             /\ Decide(k)
             /\ coordinator'[k].xid = coordinator[k].xid
             /\ coordinator'[k].votes = coordinator[k].votes
             /\ coordinator'[k].durable = coordinator[k].durable
             /\ coordinator'[k].decided =
                   DecisionFor(net[coordinator[k].xid], coordinator[k].votes)
  <2>1. coordinator[k] \in Coordinator
    BY <1>0, <1>3, UpIsCoordinator DEF Decide
  <2>2. coordinator[k].votes \in [Shards -> FreshAnswers]
    BY <1>3, <2>1 DEF Decide, Coordinator
  <2>3. DecisionFor(net[coordinator[k].xid], coordinator[k].votes) \in Decisions
    BY <2>2, DecisionFacts
  <2>4. coordinator'[k] = [coordinator[k] EXCEPT !.decided =
                              DecisionFor(net[coordinator[k].xid], coordinator[k].votes)]
    BY <1>d, <1>3 DEF Decide
  <2> QED
    BY <1>3, <2>1, <2>3, <2>4 DEF Coordinator
<1>4. ASSUME NEW j \in Coordinators, PersistDecision(j), j = k
      PROVE  /\ coordinator'[k] \in Coordinator
             /\ PersistDecision(k)
             /\ coordinator'[k].xid = coordinator[k].xid
             /\ coordinator'[k].votes = coordinator[k].votes
             /\ coordinator'[k].durable = TRUE
             /\ coordinator'[k].decided = coordinator[k].decided
  <2>1. coordinator[k] \in Coordinator
    BY <1>0, <1>4, UpIsCoordinator DEF PersistDecision
  <2>2. coordinator'[k] = [coordinator[k] EXCEPT !.durable = TRUE]
    BY <1>d, <1>4 DEF PersistDecision
  <2> QED
    BY <1>4, <2>1, <2>2 DEF Coordinator
<1>5. ASSUME NEW j \in Coordinators, Die(j), j = k
      PROVE  FALSE
  BY <1>d, <1>5 DEF Die, Up, Dead
<1>6. CASE coordinator'[k] = coordinator[k]
  BY <1>0, <1>6, UpIsCoordinator DEF Up
<1>7. ASSUME NEW j \in Coordinators, j # k,
             \/ \E x \in Xids : Start(j, x)
             \/ \E m \in votes_sent : Record(j, m)
             \/ Decide(j) \/ PersistDecision(j) \/ Die(j)
      PROVE  coordinator'[k] = coordinator[k]
  <2>1. ASSUME NEW x \in Xids, Start(j, x) PROVE coordinator'[k] = coordinator[k]
    BY <1>d, <1>7, <2>1 DEF Start
  <2>2. ASSUME NEW m \in votes_sent, Record(j, m) PROVE coordinator'[k] = coordinator[k]
    BY <1>d, <1>7, <2>2 DEF Record
  <2>3. CASE Decide(j) \/ PersistDecision(j) \/ Die(j)
    BY <1>d, <1>7, <2>3 DEF Decide, PersistDecision, Die
  <2> QED
    BY <1>7, <2>1, <2>2, <2>3
<1>8. ASSUME \/ \E x \in Xids, s \in Shards : Prepare(x, s)
             \/ \E s \in Shards : \E m \in told : Apply(s, m)
             \/ \E j \in Coordinators : SendDecision(j)
             \/ UNCHANGED vars
      PROVE  coordinator'[k] = coordinator[k]
  BY <1>8 DEF Prepare, Apply, SendDecision, vars
<1> QED
  BY <1>1, <1>2, <1>3, <1>4, <1>5, <1>6, <1>7, <1>8 DEF Next

LEMMA VotesStep == ASSUME IInv, [Next]_vars PROVE VotesTrue' /\ RecordedTrue'
<1>1. VotesTrue'
  <2> SUFFICES ASSUME NEW m \in votes_sent' PROVE m.vote = answers'[m.xid][m.shard]
    BY DEF VotesTrue
  <2>1. ASSUME NEW x \in Xids, NEW s \in Shards, Prepare(x, s), m \notin votes_sent
        PROVE  m.vote = answers'[m.xid][m.shard]
    BY <2>1 DEF Prepare, IInv, Shapes, TypeOK
  <2>2. CASE m \in votes_sent
    <3>1. m.xid \in Xids /\ m.shard \in Shards /\ m.vote \in FreshAnswers
      BY <2>2 DEF IInv, Shapes, TypeOK
    <3>2. answers[m.xid][m.shard] = m.vote /\ m.vote # None
      BY <2>2, <3>1, AnswerKinds DEF IInv, VotesTrue
    <3> QED
      BY <3>1, <3>2, AnswersStay
  <2> QED
    BY <2>1, <2>2 DEF Next, vars, participants, Apply, Start, Record, Decide,
       PersistDecision, SendDecision, Die
<1>2. RecordedTrue'
  <2> SUFFICES ASSUME NEW k \in Coordinators, Up(k)', NEW s \in Shards
               PROVE  coordinator'[k].votes[s] \in {None, answers'[coordinator'[k].xid][s]}
    BY DEF RecordedTrue
  <2>1. coordinator'[k] \in Coordinator
    BY CoordinatorStep
  <2>2. CASE \E x \in Xids : /\ Start(k, x) /\ coordinator'[k].xid = x
                            /\ coordinator'[k].votes = [t \in Shards |-> None]
    BY <2>2
  <2>3. CASE /\ Up(k) /\ coordinator'[k].xid = coordinator[k].xid
             /\ coordinator'[k].votes[s] = coordinator[k].votes[s]
    <3>1. coordinator[k].xid \in Xids
      BY <2>1, <2>3 DEF Coordinator
    <3>2. coordinator[k].votes[s] \in {None, answers[coordinator[k].xid][s]}
      BY <2>3 DEF IInv, RecordedTrue
    <3> QED
      BY <2>3, <3>1, <3>2, AnswersStay
  <2>4. ASSUME NEW m \in votes_sent, m.xid = coordinator[k].xid, s = m.shard,
               coordinator'[k].votes[s] = m.vote, coordinator'[k].xid = coordinator[k].xid
        PROVE  coordinator'[k].votes[s] \in {None, answers'[coordinator'[k].xid][s]}
    <3>1. m \in votes_sent'
      BY DEF Next, vars, participants, Prepare, Apply, Start, Record, Decide,
             PersistDecision, SendDecision, Die
    <3> QED
      BY <1>1, <2>4, <3>1 DEF VotesTrue
  <2>5. coordinator'[k] = coordinator[k] => Up(k)
    BY DEF Up
  <2> QED
    BY <2>2, <2>3, <2>4, <2>5, CoordinatorStep DEF Decide, PersistDecision
<1> QED
  BY <1>1, <1>2

LEMMA DecidedStep == ASSUME IInv, [Next]_vars PROVE DecidedTrue'
<1> SUFFICES ASSUME NEW k \in Coordinators, Up(k)', coordinator'[k].decided # None
             PROVE  FaithfulTo(net'[coordinator'[k].xid], answers'[coordinator'[k].xid],
                               coordinator'[k].decided)
  BY DEF DecidedTrue, Faithful
<1>1. coordinator'[k] \in Coordinator
  BY CoordinatorStep
<1>2. CASE \E x \in Xids : /\ Start(k, x) /\ coordinator'[k].xid = x
                          /\ coordinator'[k].decided = Recover(x)
  <2>1. PICK x \in Xids : coordinator'[k].xid = x /\ coordinator'[k].decided = Recover(x)
    BY <1>2
  <2>2. Faithful(x, Recover(x))
    BY <2>1, RecoverFacts
  <2> QED
    BY <2>1, <2>2, StaysFaithful
<1>3. CASE /\ Up(k) /\ coordinator'[k].xid = coordinator[k].xid
           /\ coordinator'[k].decided = coordinator[k].decided
  <2>1. Faithful(coordinator[k].xid, coordinator[k].decided)
    BY <1>3 DEF IInv, DecidedTrue
  <2>2. coordinator[k].xid \in Xids
    BY <1>1, <1>3 DEF Coordinator
  <2> QED
    BY <1>3, <2>1, <2>2, StaysFaithful
<1>4. CASE /\ Decide(k) /\ coordinator'[k].xid = coordinator[k].xid
           /\ coordinator'[k].decided =
                 DecisionFor(net[coordinator[k].xid], coordinator[k].votes)
  <2>1. Up(k) /\ \A s \in Shards : coordinator[k].votes[s] # None
    BY <1>4 DEF Decide
  <2>2. coordinator[k] \in Coordinator
    BY <2>1, UpIsCoordinator DEF IInv, Shapes
  <2> DEFINE x == coordinator[k].xid
  <2>3. x \in Xids /\ answers[x] \in [Shards -> FreshAnswers \union {None}]
    BY <2>2 DEF Coordinator, IInv, Shapes, TypeOK
  <2>4. \A s \in Shards : coordinator[k].votes[s] = answers[x][s]
    BY <2>1 DEF IInv, RecordedTrue
  <2>5. coordinator[k].votes = answers[x]
    BY <2>2, <2>3, <2>4 DEF Coordinator
  <2>6. Faithful(x, coordinator'[k].decided)
    BY <1>4, <2>1, <2>5 DEF Faithful, FaithfulTo
  <2> HIDE DEF x
  <2>7. FaithfulTo(net'[x], answers'[x], coordinator'[k].decided)
    BY <2>3, <2>6, StaysFaithful
  <2> QED
    BY <1>4, <2>7 DEF x
<1> QED
  BY <1>2, <1>3, <1>4, CoordinatorStep DEF Decide, PersistDecision, Up

LEMMA LoggedStep == ASSUME IInv, [Next]_vars PROVE LoggedTrue'
<1> SUFFICES ASSUME NEW i \in DOMAIN log', log'[i].xid \in Xids
             PROVE  FaithfulTo(net'[log'[i].xid], answers'[log'[i].xid], log'[i].decision)
  BY DEF LoggedTrue, Faithful
<1>1. CASE i \in DOMAIN log
  <2>1. log'[i] = log[i]
    BY <1>1, LogStep
  <2>2. Faithful(log[i].xid, log[i].decision)
    BY <1>1, <2>1 DEF IInv, LoggedTrue
  <2> QED
    BY <2>1, <2>2, StaysFaithful
<1>2. CASE i \notin DOMAIN log
  <2>1. PICK k \in Coordinators :
            /\ PersistDecision(k)
            /\ log'[i] = [xid |-> coordinator[k].xid, decision |-> coordinator[k].decided]
    BY <1>2, LogStep
  <2>2. Faithful(coordinator[k].xid, coordinator[k].decided)
    BY <2>1 DEF PersistDecision, IInv, DecidedTrue
  <2> QED
    BY <2>1, <2>2, StaysFaithful
<1> QED
  BY <1>1, <1>2

LEMMA DurableStep == ASSUME IInv, [Next]_vars PROVE DurableLogged'
<1> SUFFICES ASSUME NEW k \in Coordinators, Up(k)', coordinator'[k].durable
             PROVE  /\ coordinator'[k].decided # None
                    /\ \E i \in DOMAIN log' :
                          log'[i] = [xid |-> coordinator'[k].xid,
                                     decision |-> coordinator'[k].decided]
  BY DEF DurableLogged
<1>1. CASE \E x \in Xids : /\ Start(k, x) /\ coordinator'[k].xid = x
                          /\ coordinator'[k].decided = Recover(x)
                          /\ coordinator'[k].durable = (Recover(x) # None)
  <2>1. PICK x \in Xids : /\ coordinator'[k].xid = x /\ coordinator'[k].decided = Recover(x)
                          /\ Recover(x) # None
    BY <1>1
  <2>2. PICK i \in DOMAIN log : log[i].xid = x /\ log[i].decision = Recover(x)
    BY <2>1, RecoverFacts
  <2>3. log[i] = [xid |-> x, decision |-> Recover(x)]
    BY <2>2 DEF IInv, LogPairs
  <2> QED
    BY <2>1, <2>3, LogGrows
<1>2. CASE /\ Up(k) /\ coordinator'[k].xid = coordinator[k].xid
           /\ coordinator'[k].decided = coordinator[k].decided
           /\ coordinator'[k].durable = coordinator[k].durable
  <2>1. /\ coordinator[k].decided # None
        /\ \E i \in DOMAIN log : log[i] = [xid |-> coordinator[k].xid,
                                        decision |-> coordinator[k].decided]
    BY <1>2 DEF IInv, DurableLogged
  <2> QED
    BY <1>2, <2>1, LogGrows
<1>3. CASE /\ PersistDecision(k) /\ coordinator'[k].xid = coordinator[k].xid
           /\ coordinator'[k].decided = coordinator[k].decided
  <2>1. log' = Append(log, [xid |-> coordinator[k].xid, decision |-> coordinator[k].decided])
    BY <1>3 DEF PersistDecision
  <2>2. log'[Len(log) + 1] = [xid |-> coordinator[k].xid, decision |-> coordinator[k].decided]
        /\ Len(log) + 1 \in DOMAIN log'
    BY <2>1, LogStep, AppendProperties DEF IInv, Shapes
  <2> QED
    BY <1>3, <2>2 DEF PersistDecision
<1>4. CASE Decide(k) /\ coordinator'[k].durable = coordinator[k].durable
  BY <1>4 DEF Decide, IInv, DurableLogged
<1> QED
  BY <1>1, <1>2, <1>3, <1>4, CoordinatorStep DEF Up

LEMMA PairsStep == ASSUME IInv, [Next]_vars PROVE LogPairs'
<1> SUFFICES ASSUME NEW i \in DOMAIN log', log'[i].xid \in Xids
             PROVE  log'[i] = [xid |-> log'[i].xid, decision |-> log'[i].decision]
  BY DEF LogPairs
<1>1. CASE i \in DOMAIN log
  BY <1>1, LogStep DEF IInv, LogPairs
<1>2. CASE i \notin DOMAIN log
  <2>1. PICK k \in Coordinators :
            log'[i] = [xid |-> coordinator[k].xid, decision |-> coordinator[k].decided]
    BY <1>2, LogStep
  <2> QED
    BY <2>1
<1> QED
  BY <1>1, <1>2

LEMMA ToldStep == ASSUME IInv, [Next]_vars PROVE ToldLogged'
<1> SUFFICES ASSUME NEW m \in told'
             PROVE  \E i \in DOMAIN log' : log'[i] = m
  BY DEF ToldLogged
<1>1. CASE m \in told
  <2>1. \E i \in DOMAIN log : log[i] = m
    BY <1>1 DEF IInv, ToldLogged
  <2> QED
    BY <2>1, LogGrows
<1>2. ASSUME NEW k \in Coordinators, SendDecision(k), m \notin told
      PROVE  \E i \in DOMAIN log' : log'[i] = m
  <2>1. m = [xid |-> coordinator[k].xid, decision |-> coordinator[k].decided]
    BY <1>2 DEF SendDecision
  <2>2. \E i \in DOMAIN log : log[i] = m
    BY <1>2, <2>1 DEF SendDecision, Sendable, IInv, DurableLogged
  <2> QED
    BY <2>2, LogGrows
<1> QED
  BY <1>1, <1>2 DEF Next, vars, participants, Prepare, Apply, Start, Record, Decide,
     PersistDecision, Die

LEMMA OutcomesStep == ASSUME IInv, [Next]_vars PROVE OutcomesLogged'
<1> SUFFICES ASSUME NEW x \in Xids, NEW s \in Shards, outcome'[x][s] # None
             PROVE  \E i \in DOMAIN log' : log'[i] = [xid |-> x, decision |-> outcome'[x][s]]
  BY DEF OutcomesLogged
<1>1. CASE outcome'[x][s] = outcome[x][s]
  <2>1. \E i \in DOMAIN log : log[i] = [xid |-> x, decision |-> outcome[x][s]]
    BY <1>1 DEF IInv, OutcomesLogged
  <2> QED
    BY <1>1, <2>1, LogGrows
<1>2. ASSUME NEW t \in Shards, NEW m \in told, Apply(t, m),
             outcome'[x][s] # outcome[x][s]
      PROVE  \E i \in DOMAIN log' : log'[i] = [xid |-> x, decision |-> outcome'[x][s]]
  <2>1. m \in [xid : Xids, decision : Decisions]
    BY DEF IInv, Shapes, TypeOK
  <2>2. outcome' = [outcome EXCEPT ![m.xid][t] = Applied(m.xid, t, m.decision)]
    BY <1>2 DEF Apply
  <2>3. outcome \in [Xids -> [Shards -> Decisions \union {None}]]
    BY DEF IInv, Shapes, TypeOK
  <2>4. x = m.xid /\ s = t /\ outcome'[x][s] = m.decision
    BY <1>2, <2>1, <2>2, <2>3 DEF Applied
  <2>5. m = [xid |-> x, decision |-> outcome'[x][s]]
    BY <2>1, <2>4
  <2>6. \E i \in DOMAIN log : log[i] = m
    BY DEF IInv, ToldLogged
  <2> QED
    BY <2>5, <2>6, LogGrows
<1> QED
  BY <1>1, <1>2 DEF Next, vars, participants, Prepare, Start, Record, Decide,
     PersistDecision, SendDecision, Die

LEMMA TypeStep == ASSUME IInv, [Next]_vars PROVE TypeOK'
<1>0. TypeOK
  BY DEF IInv, Shapes
<1>1. (net \in [Xids -> Movements])'
  BY <1>0, NetStays DEF TypeOK
<1>2. (answers \in [Xids -> [Shards -> FreshAnswers \union {None}]])'
  <2>1. ASSUME NEW x \in Xids, NEW s \in Shards, Prepare(x, s)
        PROVE  answers' \in [Xids -> [Shards -> FreshAnswers \union {None}]]
    BY <1>0, <2>1 DEF Prepare, AnswersTo, TypeOK
  <2> QED
    BY <1>0, <2>1 DEF TypeOK, Next, vars, participants, Apply, Start, Record, Decide,
       PersistDecision, SendDecision, Die
<1>3. (outcome \in [Xids -> [Shards -> Decisions \union {None}]])'
  <2>1. ASSUME NEW s \in Shards, NEW m \in told, Apply(s, m)
        PROVE  outcome' \in [Xids -> [Shards -> Decisions \union {None}]]
    <3>1. m.xid \in Xids /\ m.decision \in Decisions
      BY <1>0 DEF TypeOK
    <3>2. outcome[m.xid][s] \in Decisions \union {None}
      BY <1>0, <3>1 DEF TypeOK
    <3> QED
      BY <1>0, <2>1, <3>1, <3>2 DEF Apply, Applied, TypeOK
  <2> QED
    BY <1>0, <2>1 DEF TypeOK, Next, vars, participants, Prepare, Start, Record, Decide,
       PersistDecision, SendDecision, Die
<1>4. (coordinator \in [Coordinators -> {Unstarted, Dead} \union Coordinator])'
  <2>1. DOMAIN coordinator = Coordinators
        /\ coordinator \in [Coordinators -> {Unstarted, Dead} \union Coordinator]
    BY <1>0 DEF TypeOK, Coordinator
  <2>2. coordinator' = [k \in Coordinators |-> coordinator'[k]]
    <3>1. ASSUME NEW k \in Coordinators,
                 \/ \E x \in Xids : Start(k, x)
                 \/ Decide(k) \/ PersistDecision(k) \/ Die(k)
          PROVE  coordinator' = [l \in Coordinators |-> coordinator'[l]]
      BY <2>1, <3>1 DEF Start, Decide, PersistDecision, Die
    <3>2. ASSUME NEW k \in Coordinators, NEW m \in votes_sent, Record(k, m)
          PROVE  coordinator' = [l \in Coordinators |-> coordinator'[l]]
      BY <2>1, <3>2 DEF Record
    <3>3. CASE UNCHANGED coordinator
      BY <2>1, <3>3
    <3> QED
      BY <3>1, <3>2, <3>3 DEF Next, vars, Prepare, Apply, SendDecision
  <2>3. \A k \in Coordinators : coordinator'[k] \in {Unstarted, Dead} \union Coordinator
    <3> SUFFICES ASSUME NEW k \in Coordinators
                 PROVE  coordinator'[k] \in {Unstarted, Dead} \union Coordinator
      OBVIOUS
    <3>1. CASE Up(k)'
      BY <3>1, CoordinatorStep
    <3>2. CASE ~Up(k)'
      <4>1. CASE coordinator'[k] = coordinator[k]
        BY <2>1, <4>1
      <4>2. ASSUME NEW j \in Coordinators, Die(j)
            PROVE  coordinator'[k] \in {Unstarted, Dead} \union Coordinator
        BY <2>1, <4>2 DEF Die
      <4>3. ASSUME NEW j \in Coordinators, NEW x \in Xids, Start(j, x)
            PROVE  coordinator'[k] = coordinator[k]
        BY <2>1, <3>2, <4>3 DEF Start, Up, NewCoordinator
      <4>4. ASSUME NEW j \in Coordinators, NEW m \in votes_sent, Record(j, m)
            PROVE  coordinator'[k] = coordinator[k]
        <5>1. coordinator[j] \in Coordinator
          BY <1>0, <4>4, UpIsCoordinator DEF Record
        <5>2. coordinator' = [coordinator EXCEPT ![j] =
              [coordinator[j] EXCEPT !.votes[m.shard] =
                  IF coordinator[j].votes[m.shard] = None THEN m.vote
                  ELSE coordinator[j].votes[m.shard]]]
          BY <4>4 DEF Record
        <5> QED
          BY <2>1, <3>2, <5>1, <5>2 DEF Up, Coordinator
      <4>5. ASSUME NEW j \in Coordinators, Decide(j) \/ PersistDecision(j)
            PROVE  coordinator'[k] = coordinator[k]
        <5>1. coordinator[j] \in Coordinator
          BY <1>0, <4>5, UpIsCoordinator DEF Decide, PersistDecision
        <5> QED
          BY <2>1, <3>2, <4>5, <5>1 DEF Decide, PersistDecision, Up, Coordinator
      <4> QED
        BY <4>1, <4>2, <4>3, <4>4, <4>5 DEF Next, vars, Prepare, Apply, SendDecision
    <3> QED
      BY <3>1, <3>2
  <2> QED
    BY <2>2, <2>3
<1>5. (votes_sent \subseteq [xid : Xids, shard : Shards, vote : FreshAnswers])'
  <2>1. ASSUME NEW x \in Xids, NEW s \in Shards, Prepare(x, s)
        PROVE  votes_sent' \subseteq [xid : Xids, shard : Shards, vote : FreshAnswers]
    <3>1. AnswersTo(x, s) \subseteq FreshAnswers
      BY <1>0 DEF AnswersTo, TypeOK
    <3> QED
      BY <1>0, <2>1, <3>1 DEF Prepare, TypeOK
  <2> QED
    BY <1>0, <2>1 DEF TypeOK, Next, vars, participants, Apply, Start, Record, Decide,
       PersistDecision, SendDecision, Die
<1>6. (told \subseteq [xid : Xids, decision : Decisions])'
  <2>1. ASSUME NEW k \in Coordinators, SendDecision(k)
        PROVE  told' \subseteq [xid : Xids, decision : Decisions]
    <3>1. coordinator[k] \in Coordinator
      BY <1>0, <2>1, UpIsCoordinator DEF SendDecision
    <3>2. coordinator[k].decided # None
      BY <2>1 DEF SendDecision, Sendable, IInv, DurableLogged
    <3> QED
      BY <1>0, <2>1, <3>1, <3>2 DEF SendDecision, Coordinator, TypeOK
  <2> QED
    BY <1>0, <2>1 DEF TypeOK, Next, vars, participants, Prepare, Apply, Start, Record,
       Decide, PersistDecision, Die
<1>7. (\A i \in DOMAIN log : log[i].xid \in Xids => log[i].decision \in Decisions)'
  <2> SUFFICES ASSUME NEW i \in DOMAIN log', log'[i].xid \in Xids
               PROVE  log'[i].decision \in Decisions
    OBVIOUS
  <2>1. CASE i \in DOMAIN log
    BY <1>0, <2>1, LogStep DEF TypeOK
  <2>2. CASE i \notin DOMAIN log
    <3>1. PICK k \in Coordinators :
              /\ PersistDecision(k)
              /\ log'[i] = [xid |-> coordinator[k].xid, decision |-> coordinator[k].decided]
      BY <2>2, LogStep
    <3>2. coordinator[k] \in Coordinator /\ coordinator[k].decided # None
      BY <1>0, <3>1, UpIsCoordinator DEF PersistDecision
    <3> QED
      BY <3>1, <3>2 DEF Coordinator
  <2> QED
    BY <2>1, <2>2
<1> QED
  BY <1>1, <1>2, <1>3, <1>4, <1>5, <1>6, <1>7 DEF TypeOK, Coordinator

LEMMA InitInv == ASSUME Init PROVE IInv
<1>1. log \in Seq(Range(log)) /\ \A i \in DOMAIN log : log[i].xid \notin Xids
  BY CrossShardAssumption DEF Init
<1>2. \A k \in Coordinators : ~Up(k)
  BY DEF Init, Up, Unstarted
<1>3. TypeOK
  BY <1>1 DEF Init, TypeOK
<1>4. VotesTrue /\ ToldLogged /\ OutcomesLogged
  BY DEF Init, VotesTrue, ToldLogged, OutcomesLogged
<1> QED
  BY <1>1, <1>2, <1>3, <1>4 DEF IInv, Shapes, RecordedTrue, DecidedTrue,
     LoggedTrue, LogPairs, DurableLogged

\* The invariant of the protocol holds at all times.
THEOREM Inductive == Spec => []IInv
<1>1. Init => IInv
  BY InitInv
<1>2. IInv /\ [Next]_vars => IInv'
  BY TypeStep, LogStep, VotesStep, DecidedStep, LoggedStep, PairsStep, DurableStep,
     ToldStep, OutcomesStep DEF IInv, Shapes
<1> QED
  BY <1>1, <1>2, PTL DEF Spec

\* Every reachable state is well formed.
THEOREM TypeCorrect == Spec => []TypeOK
<1>1. IInv => TypeOK
  BY DEF IInv, Shapes
<1> QED
  BY <1>1, Inductive, PTL

\* What a participant may act on is in the log, where a successor finds it.
THEOREM ToldFromLog == Spec => []ToldIsRecorded
<1>1. IInv => ToldIsRecorded
  BY DEF IInv, ToldLogged, ToldIsRecorded, Range
<1> QED
  BY <1>1, Inductive, PTL

\* Coordinators that decided for one transaction decided alike, whichever died
\* and whatever each of them found in the log.
THEOREM OneDecision == Spec => []CoordinatorsAgree
<1>1. IInv => CoordinatorsAgree
  BY DEF IInv, DecidedTrue, Faithful, FaithfulTo, CoordinatorsAgree
<1> QED
  BY <1>1, Inductive, PTL

\* A read at any epoch sees a transaction on all the shards that have its outcome,
\* or on none of them.
THEOREM AllOrNone == Spec => []SameAtEveryAnchor
<1>1. ASSUME IInv PROVE SameAtEveryAnchor
  <2> SUFFICES ASSUME NEW x \in Xids, NEW s \in Shards, NEW t \in Shards,
                      NEW anchor \in Epochs \union {e + 1 : e \in Epochs},
                      VisibleAt(x, s, anchor)
               PROVE  /\ outcome[x][t] = None \/ VisibleAt(x, t, anchor)
                      /\ answers[x][t].kind = "prepared"
                      /\ answers[x][t].epoch < anchor
    BY DEF SameAtEveryAnchor
  <2>1. \A u \in Shards : outcome[x][u] # None => Faithful(x, outcome[x][u])
    <3> SUFFICES ASSUME NEW u \in Shards, outcome[x][u] # None
                 PROVE  Faithful(x, outcome[x][u])
      OBVIOUS
    <3>1. PICK i \in DOMAIN log : log[i] = [xid |-> x, decision |-> outcome[x][u]]
      BY <1>1 DEF IInv, OutcomesLogged
    <3> QED
      BY <1>1, <3>1 DEF IInv, LoggedTrue
  <2>2. outcome[x][s] # None
    BY DEF VisibleAt, None
  <2>3. Faithful(x, outcome[x][s])
    BY <2>1, <2>2
  <2>4. answers[x] \in [Shards -> FreshAnswers]
    BY <1>1, <2>3, FaithfulFacts DEF IInv, Shapes
  <2>5. PICK e \in Epochs : /\ outcome[x][s] = Commit(e + 1)
                            /\ \A u \in Shards : /\ answers[x][u].kind = "prepared"
                                                /\ answers[x][u].epoch \in Epochs
                                                /\ answers[x][u].epoch =< e
    BY <2>3, <2>4, DecisionFacts DEF Faithful, FaithfulTo, VisibleAt, Abort
  <2>6. e + 1 =< anchor
    BY <2>5 DEF VisibleAt, Commit
  <2>7. outcome[x][t] # None => outcome[x][t] = outcome[x][s]
    BY <2>1, <2>3 DEF Faithful, FaithfulTo
  <2>8. outcome[x][t] = None \/ VisibleAt(x, t, anchor)
    BY <2>7 DEF VisibleAt
  <2>9. answers[x][t].epoch \in Nat /\ e \in Nat /\ anchor \in Nat
    BY <2>5, CrossShardAssumption
  <2> QED
    BY <2>5, <2>6, <2>8, <2>9
<1> QED
  BY <1>1, Inductive, PTL

(***************************************************************************)
(* The refinement.                                                         *)
(***************************************************************************)

Recorded == [x \in Xids |-> Recover(x)]

\* The first record of a transaction stays the first.
LEMMA RecoveredStays ==
    ASSUME IInv, [Next]_vars, NEW x \in Xids, Recover(x) # None
    PROVE  Recover(x)' = Recover(x)
<1>1. IInv'
  BY TypeStep, LogStep, VotesStep, DecidedStep, LoggedStep, PairsStep, DurableStep,
     ToldStep, OutcomesStep DEF IInv, Shapes
<1> DEFINE at == {i \in DOMAIN log : log[i].xid = x}
<1>2. PICK i \in DOMAIN log : log[i].xid = x /\ log[i].decision = Recover(x)
  BY RecoverFacts
<1>3. i \in DOMAIN log' /\ log'[i] = log[i]
  BY LogStep
<1>4. Faithful(x, Recover(x))
  BY RecoverFacts
<1>5. FaithfulTo(net'[x], answers'[x], Recover(x))
  BY <1>4, StaysFaithful
<1> DEFINE later == {j \in DOMAIN log' : log'[j].xid = x}
<1>6. later # {} /\ later \subseteq Nat
  BY <1>2, <1>3, LogStep
<1>7. Min(later) \in later
  <2> HIDE DEF later
  <2> QED
    BY <1>6, MinOf
<1>8. Recover(x)' = log'[Min(later)].decision
  BY <1>6 DEF Recover
<1>9. FaithfulTo(net'[x], answers'[x], log'[Min(later)].decision)
  <2>1. LoggedTrue'
    BY <1>1 DEF IInv
  <2> QED
    BY <1>7, <2>1 DEF LoggedTrue, Faithful
<1> QED
  BY <1>5, <1>8, <1>9 DEF FaithfulTo

LEMMA InvStep == ASSUME IInv, [Next]_vars PROVE IInv'
  BY TypeStep, LogStep, VotesStep, DecidedStep, LoggedStep, PairsStep, DurableStep,
     ToldStep, OutcomesStep DEF IInv, Shapes

LEMMA InitRefines == ASSUME Init PROVE Atomic!Init
<1>1. \A x \in Xids : Recover(x) = None
  <2> SUFFICES ASSUME NEW x \in Xids PROVE Recover(x) = None
    OBVIOUS
  <2>1. {i \in DOMAIN log : log[i].xid = x} = {}
    BY CrossShardAssumption DEF Init
  <2> QED
    BY <2>1 DEF Recover
<1>2. net \in [Xids -> [Shards -> [Currencies -> Int]]]
  BY CrossShardAssumption DEF Init
<1>3. [x \in Xids |-> Recover(x)] = [x \in Xids |-> None]
  BY <1>1
<1> QED
  BY <1>2, <1>3 DEF Init, Atomic!Init, None, Atomic!None

\* The decision of record changes only when a coordinator's is the first.
LEMMA RecordedStep ==
    ASSUME IInv, [Next]_vars,
           Recorded' # Recorded
    PROVE  \E k \in Coordinators :
              LET x == coordinator[k].xid
              IN /\ PersistDecision(k)
                 /\ x \in Xids
                 /\ Recover(x) = None
                 /\ Faithful(x, coordinator[k].decided)
                 /\ Recorded' = [Recorded EXCEPT ![x] = coordinator[k].decided]
<1>1. PICK k \in Coordinators : PersistDecision(k)
  <2>1. CASE UNCHANGED log
    BY <2>1 DEF Recorded, Recover
  <2> QED
    BY <2>1 DEF Next, vars, participants, Prepare, Apply, Start, Record, Decide,
       SendDecision, Die
<1> DEFINE x == coordinator[k].xid
           d == coordinator[k].decided
<1>2. x \in Xids /\ Faithful(x, d) /\ d # None
  BY <1>1, UpIsCoordinator DEF PersistDecision, IInv, Shapes, DecidedTrue, Coordinator
<1>3. ASSUME NEW y \in Xids, y # x PROVE Recover(y)' = Recover(y)
  <2>1. CASE Recover(y) # None
    BY <2>1, RecoveredStays
  <2>2. CASE Recover(y) = None
    <3>1. \A i \in DOMAIN log : log[i].xid # y
      BY <2>2, RecoverFacts
    <3>2. log' = Append(log, [xid |-> x, decision |-> d])
      BY <1>1 DEF PersistDecision
    <3>3. \A i \in DOMAIN log' : log'[i].xid # y
      <4> SUFFICES ASSUME NEW i \in DOMAIN log' PROVE log'[i].xid # y
        OBVIOUS
      <4>1. i \in DOMAIN log \/ i = Len(log) + 1
        <5>1. Len(log') = Len(log) + 1
          BY <3>2, AppendProperties DEF IInv, Shapes
        <5> QED
          BY <5>1, LogStep
      <4>2. log'[Len(log) + 1] = [xid |-> x, decision |-> d]
        BY <3>2, AppendProperties DEF IInv, Shapes
      <4> QED
        BY <1>3, <3>1, <4>1, <4>2, LogStep
    <3>4. {i \in DOMAIN log' : log'[i].xid = y} = {}
      BY <3>3
    <3> QED
      BY <2>2, <3>4 DEF Recover
  <2> QED
    BY <2>1, <2>2
<1>4. Recover(x) = None
  <2> SUFFICES ASSUME Recover(x) # None PROVE FALSE
    OBVIOUS
  <2>1. \A y \in Xids : Recover(y)' = Recover(y)
    BY <1>2, <1>3, RecoveredStays
  <2> QED
    BY <2>1 DEF Recorded
<1>5. ASSUME NEW y \in Xids, y = x PROVE Recover(y)' = d
  <2>1. IInv'
    BY InvStep
  <2>2. \E i \in DOMAIN log' : log'[i].xid = y
    <3>1. log' = Append(log, [xid |-> x, decision |-> d])
      BY <1>1 DEF PersistDecision
    <3>2. log'[Len(log) + 1] = [xid |-> x, decision |-> d] /\ Len(log') = Len(log) + 1
      BY <3>1, AppendProperties DEF IInv, Shapes
    <3> QED
      BY <1>5, <3>2, LogStep
  <2> DEFINE later == {i \in DOMAIN log' : log'[i].xid = y}
  <2>3. later # {} /\ later \subseteq Nat
    BY <2>2, LogStep
  <2>4. Min(later) \in later
    <3> HIDE DEF later
    <3> QED
      BY <2>3, MinOf
  <2>5. Recover(y)' = log'[Min(later)].decision
    BY <2>3 DEF Recover
  <2>6. FaithfulTo(net'[y], answers'[y], log'[Min(later)].decision)
    BY <2>1, <2>4 DEF IInv, LoggedTrue, Faithful
  <2>7. FaithfulTo(net'[y], answers'[y], d)
    BY <1>2, <1>5, StaysFaithful
  <2> QED
    BY <2>5, <2>6, <2>7 DEF FaithfulTo
<1>6. Recorded' = [Recorded EXCEPT ![x] = d]
  <2>1. Recorded' = [y \in Xids |-> Recover(y)']
    BY DEF Recorded
  <2>2. Recorded = [y \in Xids |-> Recover(y)]
    BY DEF Recorded
  <2>3. \A y \in Xids : Recover(y)' = IF y = x THEN d ELSE Recover(y)
    BY <1>3, <1>5
  <2> QED
    BY <1>2, <2>1, <2>2, <2>3
<1> QED
  BY <1>1, <1>2, <1>4, <1>6

\* A record that is the first of its transaction decides it.
LEMMA PersistRefines ==
    ASSUME IInv, [Next]_vars, Recorded' # Recorded
    PROVE  \E x \in Xids : Atomic!DecideCommit(x) \/ Atomic!DecideAbort(x)
<1>1. PICK k \in Coordinators :
         /\ PersistDecision(k)
         /\ coordinator[k].xid \in Xids
         /\ Recover(coordinator[k].xid) = None
         /\ Faithful(coordinator[k].xid, coordinator[k].decided)
         /\ Recorded' = [Recorded EXCEPT ![coordinator[k].xid] = coordinator[k].decided]
  BY RecordedStep
<1> DEFINE x == coordinator[k].xid
           d == coordinator[k].decided
<1>2. UNCHANGED <<net, answers, outcome>>
  BY <1>1 DEF PersistDecision, participants
<1>3. answers[x] \in [Shards -> FreshAnswers]
  BY <1>1, FaithfulFacts DEF IInv, Shapes
<1>4. Recorded[x] = None /\ Recorded = [y \in Xids |-> Recover(y)]
      /\ Recorded' = [y \in Xids |-> Recover(y)]'
  BY <1>1 DEF Recorded
<1>5. \A s \in Shards : answers[x][s] # None
  BY <1>1 DEF Faithful, FaithfulTo
<1>6. d = DecisionFor(net[x], answers[x])
  BY <1>1 DEF Faithful, FaithfulTo
<1> HIDE DEF x, d
<1>0. x \in Xids /\ Recorded' = [Recorded EXCEPT ![x] = d]
  BY <1>1 DEF x, d
<1>10. \A moved : Conserves(moved) <=> NetsToZero(moved)
  BY DEF Conserves, NetsToZero
<1>7. CASE /\ \E why \in {"DoesNotConserve", "ParticipantRefused"} : d = Abort(why)
           /\ ~(Conserves(net[x]) /\ \A s \in Shards : answers[x][s].kind = "prepared")
  <2>1. Atomic!DecideAbort(x)
    BY <1>0, <1>10, <1>2, <1>4, <1>5, <1>7 DEF Atomic!DecideAbort, Atomic!AllPrepared, Atomic!None,
       Atomic!Abort, None, Abort
  <2> QED
    BY <1>0, <2>1
<1>8. CASE /\ Conserves(net[x])
           /\ \E e \in Epochs :
                 /\ d = Commit(e + 1)
                 /\ \A s \in Shards : /\ answers[x][s].kind = "prepared"
                                     /\ answers[x][s].epoch \in Epochs
                                     /\ answers[x][s].epoch =< e
  <2>1. PICK e \in Epochs : /\ d = Commit(e + 1)
                            /\ \A s \in Shards : /\ answers[x][s].kind = "prepared"
                                                /\ answers[x][s].epoch \in Epochs
                                                /\ answers[x][s].epoch =< e
    BY <1>8
  <2>2. \A s \in Shards : e + 1 > answers[x][s].epoch
    <3> SUFFICES ASSUME NEW s \in Shards PROVE e + 1 > answers[x][s].epoch
      OBVIOUS
    <3>1. e \in Nat /\ answers[x][s].epoch \in Nat /\ answers[x][s].epoch =< e
      BY <2>1, CrossShardAssumption
    <3> QED
      BY <3>1
  <2>3. e + 1 \in {f + 1 : f \in Epochs}
    OBVIOUS
  <2>4. Atomic!AllPrepared(x)
    BY <2>1 DEF Atomic!AllPrepared
  <2>5. Recorded' = [Recorded EXCEPT ![x] = Atomic!Commit(e + 1)]
    BY <1>0, <2>1 DEF Atomic!Commit, Commit
  <2>6. Atomic!DecideCommit(x)
    BY <1>10, <1>2, <1>4, <1>8, <2>2, <2>3, <2>4, <2>5 DEF Atomic!DecideCommit, Atomic!None, None
  <2> QED
    BY <1>0, <2>6
<1> QED
  BY <1>3, <1>6, <1>7, <1>8, DecisionFacts

LEMMA PrepareRefines ==
    ASSUME IInv, NEW x \in Xids, NEW s \in Shards, Prepare(x, s)
    PROVE  Atomic!Answer(x, s) \/ UNCHANGED Atomic!abstract
<1>1. UNCHANGED <<net, outcome, log>>
  BY DEF Prepare
<1>2. [y \in Xids |-> Recover(y)]' = [y \in Xids |-> Recover(y)]
  BY <1>1 DEF Recover
<1>3. answers \in [Xids -> [Shards -> FreshAnswers \union {None}]]
  BY DEF IInv, Shapes, TypeOK
<1>4. CASE answers[x][s] = None
  <2>1. PICK a \in FreshAnswers : answers' = [answers EXCEPT ![x][s] = a]
    BY <1>4 DEF Prepare, AnswersTo
  <2>2. a \in {Atomic!Prepared(e) : e \in Epochs}
           \union {Atomic!Refused(r) : r \in {"Duplicate", "NoQuorum"}}
    BY AnswerKinds DEF Prepared, Refused, Atomic!Prepared, Atomic!Refused
  <2> QED
    BY <1>1, <1>2, <1>4, <2>1, <2>2 DEF Atomic!Answer, Atomic!None, None
<1>5. CASE answers[x][s] # None
  <2>1. answers' = [answers EXCEPT ![x][s] = answers[x][s]]
    BY <1>5 DEF Prepare, AnswersTo
  <2>2. answers' = answers
    BY <1>3, <2>1
  <2> QED
    BY <1>1, <1>2, <2>2 DEF Atomic!abstract
<1> QED
  BY <1>4, <1>5

\* A participant that is told a decision learns the one of record.
LEMMA ApplyRefines ==
    ASSUME IInv, NEW s \in Shards, NEW m \in told, Apply(s, m)
    PROVE  (\E x \in Xids : Atomic!Learn(x, s)) \/ UNCHANGED Atomic!abstract
<1>1. UNCHANGED <<net, answers, log>>
  BY DEF Apply
<1>2. [y \in Xids |-> Recover(y)]' = [y \in Xids |-> Recover(y)]
  BY <1>1 DEF Recover
<1>3. outcome \in [Xids -> [Shards -> Decisions \union {None}]]
      /\ m.xid \in Xids /\ m.decision \in Decisions
  BY DEF IInv, Shapes, TypeOK
<1>4. outcome' = [outcome EXCEPT ![m.xid][s] = Applied(m.xid, s, m.decision)]
  BY DEF Apply
<1>5. CASE outcome[m.xid][s] = None
  <2>1. PICK i \in DOMAIN log : log[i] = m
    BY DEF IInv, ToldLogged
  <2>2. Faithful(m.xid, m.decision)
    BY <1>3, <2>1 DEF IInv, LoggedTrue
  <2>3. Recover(m.xid) # None /\ Faithful(m.xid, Recover(m.xid))
    BY <1>3, <2>1, RecoverFacts
  <2>4. m.decision = Recover(m.xid)
    BY <2>2, <2>3 DEF Faithful, FaithfulTo
  <2>5. outcome' = [outcome EXCEPT ![m.xid][s] = Recover(m.xid)]
    BY <1>4, <1>5, <2>4 DEF Applied
  <2>6. [y \in Xids |-> Recover(y)][m.xid] = Recover(m.xid)
    BY <1>3
  <2>7. Atomic!Learn(m.xid, s)
    BY <1>1, <1>2, <1>5, <2>3, <2>5, <2>6 DEF Atomic!Learn, Atomic!None, None
  <2> QED
    BY <1>3, <2>7
<1>6. CASE outcome[m.xid][s] # None
  <2>1. outcome' = outcome
    BY <1>3, <1>4, <1>6 DEF Applied
  <2> QED
    BY <1>1, <1>2, <2>1 DEF Atomic!abstract
<1> QED
  BY <1>5, <1>6

\* However many coordinators die or run at once, over messages that are lost,
\* repeated and late, the shards see one decision made for the answers of all.
THEOREM Implements == Spec => AtomicCommitSpec
<1>1. Init => Atomic!Init
  BY InitRefines
<1>2. IInv /\ [Next]_vars => [Atomic!Next]_(Atomic!abstract)
  <2> SUFFICES ASSUME IInv, [Next]_vars
               PROVE  Atomic!Next \/ UNCHANGED Atomic!abstract
    BY Zenon
  <2>1. ASSUME NEW x \in Xids, NEW s \in Shards, Prepare(x, s)
        PROVE  Atomic!Next \/ UNCHANGED Atomic!abstract
    BY <2>1, PrepareRefines DEF Atomic!Next
  <2>2. ASSUME NEW s \in Shards, NEW m \in told, Apply(s, m)
        PROVE  Atomic!Next \/ UNCHANGED Atomic!abstract
    BY <2>2, ApplyRefines DEF Atomic!Next
  <2>3. CASE UNCHANGED <<net, answers, outcome>>
    <3>1. CASE Recorded' # Recorded
      BY <3>1, PersistRefines DEF Atomic!Next
    <3>2. CASE Recorded' = Recorded
      BY <2>3, <3>2 DEF Recorded, Atomic!abstract
    <3> QED
      BY <3>1, <3>2
  <2> QED
    BY <2>1, <2>2, <2>3 DEF Next, vars, participants, Start, Record, Decide,
       PersistDecision, SendDecision, Die
<1> QED
  BY <1>1, <1>2, Inductive, PTL DEF Spec, AtomicCommitSpec, Atomic!Spec
=============================================================================
