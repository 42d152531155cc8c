----------------------------- MODULE CrossShard -----------------------------
(***************************************************************************)
(* Commit of a transaction that spans several ledger groups (src/crates/   *)
(* nilestream-consensus/src/cross_shard.rs): a coordinator collects the    *)
(* participants' votes, decides, records the decision in the log of its    *)
(* own group, and only then tells it.                                      *)
(*                                                                         *)
(* A coordinator may die at any point, or be succeeded while it still      *)
(* runs.  Its successor reads the log and, if it finds no decision there,  *)
(* collects the votes again.  Votes and decisions travel as messages that  *)
(* are lost, repeated and late: what was sent may arrive at any time, any  *)
(* number of times, or never.  What a participant answers, and the         *)
(* coordinator's log, are replicated by their own groups and survive.      *)
(***************************************************************************)
EXTENDS Integers, FiniteSetsExt, SequencesExt

CONSTANTS
    Shards, Xids, Currencies,
    Epochs,        \* the epochs a shard may stand at when it prepares
    Movements,     \* what a transaction may move: a net by shard and currency
    EarlierLogs,   \* the log the coordinators' group may start with
    Coordinators   \* bound on the coordinators ever started

ASSUME CrossShardAssumption ==
    /\ IsFiniteSet(Shards) /\ Shards # {}
    /\ Epochs \subseteq Nat
    /\ \A l \in EarlierLogs : /\ l \in Seq(Range(l))
                              /\ \A i \in DOMAIN l : l[i].xid \notin Xids
    /\ Movements \subseteq [Shards -> [Currencies -> Int]]

VARIABLES
    net,           \* the fragments' nets of each transaction
    answers,       \* prepared_at or refused, of each participant
    outcome,       \* what each participant applied
    coordinator,   \* the coordinators by transaction, votes and decision
    log,           \* decisions in the log of the coordinator's group
    votes_sent,    \* votes on their way to the coordinators
    told           \* decisions on their way to the participants

vars == <<net, answers, outcome, coordinator, log, votes_sent, told>>
participants == <<answers, outcome>>

None == [kind |-> "none"]
Prepared(e) == [kind |-> "prepared", epoch |-> e]
Refused(r) == [kind |-> "refused", reason |-> r]
Commit(e) == [kind |-> "commit", epoch |-> e]
Abort(why) == [kind |-> "abort", why |-> why]

\* A coordinator that was not started, and one that died.
Unstarted == [st |-> "unstarted"]
Dead == [st |-> "dead"]
NewCoordinator(x) ==
    [st |-> "up", xid |-> x, votes |-> [s \in Shards |-> None],
     decided |-> None, durable |-> FALSE]

Up(k) == coordinator[k].st = "up"

\* What a participant may answer when it is first asked, at its epoch e.
FreshAnswer(e, duplicate, has_quorum) ==
    IF duplicate THEN Refused("Duplicate")
    ELSE IF has_quorum THEN Prepared(e)
    ELSE Refused("NoQuorum")

FreshAnswers ==
    {FreshAnswer(e, duplicate, has_quorum) :
        e \in Epochs, duplicate \in BOOLEAN, has_quorum \in BOOLEAN}

-----------------------------------------------------------------------------
(* Mutants: forms of the definitions below that a plausible bug would give *)

\* The currencies are summed together.
ConservesInTotal(moved) ==
    MapThenSumSet(LAMBDA p : moved[p[1]][p[2]], Shards \X Currencies) = 0

\* A participant that refused prepares when it is asked again.
RefusalForgotten(x, s) ==
    IF answers[x][s].kind = "prepared" THEN {answers[x][s]} ELSE FreshAnswers

\* A decision may be told as soon as it is made.
SendsWhenDecided(k) == coordinator[k].decided # None

\* The transaction commits at the greatest epoch it was prepared at.
CommitsAtPrepared(moved, votes) ==
    IF \E s \in Shards : votes[s].kind = "refused" THEN Abort("ParticipantRefused")
    ELSE Commit(Max({votes[s].epoch : s \in Shards}))

-----------------------------------------------------------------------------
(* Participants                                                            *)

\* A participant that answered answers the same again.
AnswersTo(x, s) ==
    IF answers[x][s] = None THEN FreshAnswers ELSE {answers[x][s]}

Prepare(x, s) ==
    /\ \E a \in AnswersTo(x, s) :
          /\ answers' = [answers EXCEPT ![x][s] = a]
          /\ votes_sent' = votes_sent \union {[xid |-> x, shard |-> s, vote |-> a]}
    /\ UNCHANGED <<net, outcome, coordinator, log, told>>

\* The first decision a participant is told is its outcome.
Applied(x, s, d) == IF outcome[x][s] = None THEN d ELSE outcome[x][s]

Apply(s, m) ==
    /\ m \in told
    /\ outcome' = [outcome EXCEPT ![m.xid][s] = Applied(m.xid, s, m.decision)]
    /\ UNCHANGED <<net, answers, coordinator, log, votes_sent, told>>

\* The visibility rule, for a read anchored at an epoch.
VisibleAt(x, s, anchor) ==
    outcome[x][s].kind = "commit" /\ outcome[x][s].epoch <= anchor

-----------------------------------------------------------------------------
(* Coordinators                                                            *)

\* The first decision of the log that is about x, or None.
Recover(x) ==
    LET at == {i \in DOMAIN log : log[i].xid = x}
    IN IF at = {} THEN None ELSE log[Min(at)].decision

\* A coordinator, first or successor: a decision of the log is told as it is,
\* and without one the votes are collected.
Start(k, x) ==
    /\ coordinator[k] = Unstarted
    /\ coordinator' = [coordinator EXCEPT ![k] =
          IF Recover(x) = None THEN NewCoordinator(x)
          ELSE [NewCoordinator(x) EXCEPT !.decided = Recover(x), !.durable = TRUE]]
    /\ UNCHANGED <<net, participants, log, votes_sent, told>>

\* The first vote of each participant counts.
Record(k, m) ==
    /\ Up(k)
    /\ m \in votes_sent
    /\ m.xid = coordinator[k].xid
    /\ coordinator' = [coordinator EXCEPT ![k].votes[m.shard] =
                          IF @ = None THEN m.vote ELSE @]
    /\ UNCHANGED <<net, participants, log, votes_sent, told>>

\* Every currency nets to zero over the fragments, whatever each moves.
Conserves(moved) ==
    \A cur \in Currencies : MapThenSumSet(LAMBDA s : moved[s][cur], Shards) = 0

\* The decision for these votes of all participants; conservation comes first.
DecisionFor(moved, votes) ==
    IF ~Conserves(moved) THEN Abort("DoesNotConserve")
    ELSE IF \E s \in Shards : votes[s].kind = "refused" THEN Abort("ParticipantRefused")
    ELSE Commit(Max({votes[s].epoch : s \in Shards}) + 1)

Decide(k) ==
    /\ Up(k)
    /\ coordinator[k].decided = None
    /\ \A s \in Shards : coordinator[k].votes[s] # None
    /\ coordinator' = [coordinator EXCEPT ![k].decided =
                          DecisionFor(net[coordinator[k].xid], coordinator[k].votes)]
    /\ UNCHANGED <<net, participants, log, votes_sent, told>>

\* persist_decision flips a flag; "in a deployment this is an ordinary proposal on
\* the coordinator's ledger group", which the log stands for.
PersistDecision(k) ==
    /\ Up(k)
    /\ coordinator[k].decided # None
    /\ ~coordinator[k].durable
    /\ coordinator' = [coordinator EXCEPT ![k].durable = TRUE]
    /\ log' = Append(log, [xid |-> coordinator[k].xid,
                           decision |-> coordinator[k].decided])
    /\ UNCHANGED <<net, participants, votes_sent, told>>

\* Decide, persist, then tell anyone.
Sendable(k) == coordinator[k].durable

SendDecision(k) ==
    /\ Up(k)
    /\ Sendable(k)
    /\ told' = told \union {[xid |-> coordinator[k].xid,
                             decision |-> coordinator[k].decided]}
    /\ UNCHANGED <<net, participants, coordinator, log, votes_sent>>

Die(k) ==
    /\ Up(k)
    /\ coordinator' = [coordinator EXCEPT ![k] = Dead]
    /\ UNCHANGED <<net, participants, log, votes_sent, told>>

-----------------------------------------------------------------------------
(* Specification                                                           *)

Init ==
    /\ net \in [Xids -> Movements]
    /\ answers = [x \in Xids |-> [s \in Shards |-> None]]
    /\ outcome = [x \in Xids |-> [s \in Shards |-> None]]
    /\ coordinator = [k \in Coordinators |-> Unstarted]
    /\ log \in EarlierLogs
    /\ votes_sent = {}
    /\ told = {}

Next ==
    \/ \E x \in Xids, s \in Shards : Prepare(x, s)
    \/ \E s \in Shards : \E m \in told : Apply(s, m)
    \/ \E k \in Coordinators, x \in Xids : Start(k, x)
    \/ \E k \in Coordinators : \E m \in votes_sent : Record(k, m)
    \/ \E k \in Coordinators :
          Decide(k) \/ PersistDecision(k) \/ SendDecision(k) \/ Die(k)

Spec == Init /\ [][Next]_vars

-----------------------------------------------------------------------------
(* Properties                                                              *)

Decisions ==
    {Commit(e + 1) : e \in Epochs}
       \union {Abort("DoesNotConserve"), Abort("ParticipantRefused")}

TypeOK ==
    /\ net \in [Xids -> Movements]
    /\ answers \in [Xids -> [Shards -> FreshAnswers \union {None}]]
    /\ outcome \in [Xids -> [Shards -> Decisions \union {None}]]
    /\ coordinator \in [Coordinators -> {Unstarted, Dead} \union
          [st : {"up"}, xid : Xids, votes : [Shards -> FreshAnswers \union {None}],
           decided : Decisions \union {None}, durable : BOOLEAN]]
    /\ \A i \in DOMAIN log : log[i].xid \in Xids => log[i].decision \in Decisions
    /\ votes_sent \subseteq [xid : Xids, shard : Shards, vote : FreshAnswers]
    /\ told \subseteq [xid : Xids, decision : Decisions]

\* What a transaction must satisfy to commit: it creates no money and destroys
\* none, of any currency.
NetsToZero(moved) ==
    \A cur \in Currencies : MapThenSumSet(LAMBDA s : moved[s][cur], Shards) = 0

\* However many coordinators die or work at the same time, the participants
\* see one atomic decision: the decision of record is the first in the log.
Atomic == INSTANCE AtomicCommit
    WITH decision <- [x \in Xids |-> Recover(x)],
         CommitEpochs <- {e + 1 : e \in Epochs},
         Reasons <- {"Duplicate", "NoQuorum"},
         Balances <- NetsToZero
AtomicCommitSpec == Atomic!Spec

\* "Decided, persisted, then told": no participant acts on a decision that a
\* successor could not read out of the log and so might make differently.
ToldIsRecorded == \A m \in told : m \in Range(log)

\* A successor that found nothing in the log and decides anew decides as its
\* predecessor did, whether or not that one's decision reached the log.
CoordinatorsAgree ==
    \A k, l \in Coordinators :
        Up(k) /\ Up(l) /\ coordinator[k].xid = coordinator[l].xid =>
            \/ None \in {coordinator[k].decided, coordinator[l].decided}
            \/ coordinator[k].decided = coordinator[l].decided

\* "A read anchored at any epoch sees either all of a cross-shard transaction
\* or none of it", on the shards that have the outcome; and no shard shows it
\* at an epoch at or below one that some shard prepared it at.
SameAtEveryAnchor ==
    \A x \in Xids : \A s, t \in Shards : \A anchor \in Epochs \union {e + 1 : e \in Epochs} :
        VisibleAt(x, s, anchor) =>
            /\ outcome[x][t] = None \/ VisibleAt(x, t, anchor)
            /\ answers[x][t].kind = "prepared"
            /\ answers[x][t].epoch < anchor
=============================================================================
