----------------------------- MODULE DurableLog -----------------------------
(***************************************************************************)
(* What the write path promises: a history on stable storage that only     *)
(* grows, and acknowledgements that are given only for what it holds.      *)
(***************************************************************************)
EXTENDS Naturals, Sequences, SequencesExt

CONSTANT Keys      \* idempotency keys

VARIABLES
    log,           \* the durable epochs, each the sequence of its keys
    acks           \* the <<key, epoch>> pairs acknowledged as committed

Committed == UNION {{<<key, e>> : key \in Range(log[e])} : e \in DOMAIN log}

Init == log = <<>> /\ acks = {}

\* Epochs reach stable storage, any number of them at once.
Extend ==
    /\ IsPrefix(log, log')
    /\ UNCHANGED acks

\* Submitters are told the epoch at which their transaction committed.
Acknowledge ==
    /\ acks \subseteq acks'
    /\ acks' \subseteq Committed
    /\ UNCHANGED log

Next == Extend \/ Acknowledge

Spec == Init /\ [][Next]_<<log, acks>>
=============================================================================
