----------------------------- MODULE RevEngine -----------------------------
(***************************************************************************)
(* The view runtime as nilestream-server composes it with the ledger       *)
(* (src/crates/nilestream-server/src/rev_engine.rs): one base lock, taken  *)
(* exclusively across an append and shared across a keyed read.            *)
(*                                                                         *)
(* The engine admits fewer interleavings than RevView: an append seals an  *)
(* epoch and applies it before anybody reads, and no epoch is sealed while *)
(* a fold is in the air.  A reader that joined a flight holds no guard.    *)
(***************************************************************************)
EXTENDS RevView

\* RevEngine::append is between submit and advance, holding the write guard.
Appending == applied < head

\* Some answer_from_view is between begin_read and finish_fold_merging, holding
\* the read guard.
Reading == \E r \in Readers : Folding(r)

\* submit: the write guard excludes readers and other appends.
Submit == ~Appending /\ ~Reading /\ SealEpoch

\* Runtime::advance, under the guard submit took.
Advance == Appending /\ ApplyEpoch

\* A keyed read at the frontier, or AS OF any epoch before it.
ReadAsOf(frontier) ==
    \E r \in Readers, k \in Keys : \E a \in 0 .. frontier : BeginRead(r, k, a)

\* Without a durable sink the frontier is the base's head.
KeyedRead == ~Appending /\ ReadAsOf(head)

EngineNext ==
    \/ Submit
    \/ Advance
    \/ KeyedRead
    \/ \E r \in Readers : FinishFold(r)
    \/ \E r \in Readers : DropWait(r)

EngineSpec == Init /\ [][EngineNext]_vars

-----------------------------------------------------------------------------
(* report_from_view: a whole report out of a fully maintained view.        *)

\* The rows of a report: every resident entry, in whatever interval it is true.
ReportFromView == {<<k, slots[k].val>> : k \in {j \in Keys : IsPresent(j)}}

\* report_certified_at; a view that is Full never evicts.
ReportCertifiedAt(a) == Full /\ applied = a

\* Every account the base has posted to by epoch a, with its balance at a.
TrueReport(a) ==
    {<<k, Reconstruct(k, a)>> : k \in {j \in Keys : \E e \in 0 .. a : Touched(j, e)}}

\* A full view loses nothing: whatever reads install, every account posted to in
\* an applied epoch is resident, and every entry that is not pinned is its
\* balance at the epoch the view is applied through, or at the later one a read
\* installed it at (apply_epoch on absent and resident keys, install_at, and the
\* choice of Materialize::Full).  The balance is claimed of accounts with one
\* row per epoch so far, their presence of all.
FullKeepsAll ==
    Full => \A k \in Keys :
        /\ (\E e \in 0 .. applied : Touched(k, e)) => IsPresent(k)
        /\ IsPresent(k) /\ k \notin pinned /\ Netted(k, Effective(k))
              => slots[k].val = Reconstruct(k, Effective(k))

\* Every entry is the fold of the base at every anchor it may be asked for, also
\* of a key that an epoch names in two rows ("The per-key deltas sealed in epoch
\* `e`", Base::deltas_at, of which apply_epoch takes only the first).
ExactAcrossRows ==
    \A k \in Keys : IsPresent(k) =>
        \A a \in slots[k].at .. Effective(k) : slots[k].val = Reconstruct(k, a)

\* A report served from the view at anchor a holds every account's balance at a
\* ("a report is a set of rows true at one moment", report_from_view), whatever
\* keyed reads were answered and installed before it.  A key never posted to may
\* show as a zero row and is left out of the question.
ReportExact ==
    \A a \in 0 .. head : ReportCertifiedAt(a) => TrueReport(a) \subseteq ReportFromView

=============================================================================
