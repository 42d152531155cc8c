---------------------------- MODULE AtomicCommit ----------------------------
(***************************************************************************)
(* What the cross-shard protocol promises: every shard answers once, one   *)
(* decision is made for the answers of all, and every shard's outcome is   *)
(* that decision.  A transaction commits only if its fragments balance and *)
(* every shard prepared it, and then at one epoch above all the epochs it  *)
(* was prepared at.                                                        *)
(***************************************************************************)
EXTENDS Integers

CONSTANTS
    Shards,         \* the ledger groups that take part
    Xids,           \* transactions
    Currencies,
    Epochs,         \* the epochs a shard may prepare at
    CommitEpochs,   \* the epochs a transaction may commit at
    Reasons,        \* the reasons a shard may refuse for
    Balances(_)     \* do these movements create no money and destroy none?

VARIABLES
    net,         \* what each transaction moves, by shard and currency
    answers,     \* what each shard answered for each transaction
    decision,    \* what was decided for each transaction
    outcome      \* what each shard did with each transaction

abstract == <<net, answers, decision, outcome>>

None == [kind |-> "none"]
Prepared(e) == [kind |-> "prepared", epoch |-> e]
Refused(r) == [kind |-> "refused", reason |-> r]
Commit(e) == [kind |-> "commit", epoch |-> e]
Abort(why) == [kind |-> "abort", why |-> why]

AllPrepared(x) == \A s \in Shards : answers[x][s].kind = "prepared"

Answer(x, s) ==
    /\ answers[x][s] = None
    /\ \E a \in {Prepared(e) : e \in Epochs} \union {Refused(r) : r \in Reasons} :
          answers' = [answers EXCEPT ![x][s] = a]
    /\ UNCHANGED <<net, decision, outcome>>

DecideCommit(x) ==
    /\ decision[x] = None
    /\ Balances(net[x]) /\ AllPrepared(x)
    /\ \E e \in CommitEpochs :
          /\ \A s \in Shards : e > answers[x][s].epoch
          /\ decision' = [decision EXCEPT ![x] = Commit(e)]
    /\ UNCHANGED <<net, answers, outcome>>

DecideAbort(x) ==
    /\ decision[x] = None
    /\ \A s \in Shards : answers[x][s] # None
    /\ ~(Balances(net[x]) /\ AllPrepared(x))
    /\ \E why \in {"DoesNotConserve", "ParticipantRefused"} :
          decision' = [decision EXCEPT ![x] = Abort(why)]
    /\ UNCHANGED <<net, answers, outcome>>

Learn(x, s) ==
    /\ outcome[x][s] = None
    /\ decision[x] # None
    /\ outcome' = [outcome EXCEPT ![x][s] = decision[x]]
    /\ UNCHANGED <<net, answers, decision>>

Init ==
    /\ net \in [Xids -> [Shards -> [Currencies -> Int]]]
    /\ answers = [x \in Xids |-> [s \in Shards |-> None]]
    /\ decision = [x \in Xids |-> None]
    /\ outcome = [x \in Xids |-> [s \in Shards |-> None]]

Next ==
    \E x \in Xids :
        \/ DecideCommit(x) \/ DecideAbort(x)
        \/ \E s \in Shards : Answer(x, s) \/ Learn(x, s)

Spec == Init /\ [][Next]_abstract
=============================================================================
