------------------------------ MODULE Exports ------------------------------
(***************************************************************************)
(* Background exports (application/exports, infrastructure/export_worker   *)
(* in backend/src/genesis): a queue of requested exports, worker processes *)
(* that claim the oldest one not locked, and a streaming engine that reads *)
(* the report in keyset batches under one REPEATABLE READ snapshot.        *)
(*                                                                         *)
(* A job is one transaction: claim, reads, artifact and status commit or   *)
(* roll back together.  A domain error rolls back and is recorded by a     *)
(* second transaction; a row changed since the snapshot ends the cycle.    *)
(*                                                                         *)
(* Abstractions.  The rows of a report are numbers in key order; rendering *)
(* keeps them.  Exports are numbered in order of creation.  Columns,       *)
(* filters, download tokens and their expiry are left out.                 *)
(***************************************************************************)
EXTENDS Integers, FiniteSets, FiniteSetsExt

CONSTANTS
  Export,        \* exports
  Renderer,      \* worker processes
  ReportRow,     \* rows a report may have
  RowCap, BatchSize,
  MaxEdits,      \* bound: changes of the reported rows
  MaxDeaths      \* bound: worker crashes

ASSUME ExportsAssumption ==
  /\ Export \subseteq Nat \ {0} /\ IsFiniteSet(Export)
  /\ ReportRow \subseteq Nat \ {0} /\ IsFiniteSet(ReportRow)
  /\ RowCap \in Nat \ {0} /\ BatchSize \in Nat \ {0}
  /\ MaxEdits \in Nat /\ MaxDeaths \in Nat

VARIABLES
  reported,   \* rows of the report, as committed
  edits,      \* changes of them so far
  job,        \* job[e]: [status], completed with its artifact
  render,     \* render[w]: the transaction of worker w
  deaths      \* crashes so far

exportVars == <<reported, edits, job, render, deaths>>

Unrequested == [status |-> "none"]
Requested == [status |-> "requested"]
Resolved == {"completed", "failed"}
NoRender == [step |-> "idle"]

ExportsInit ==
  /\ reported \in SUBSET ReportRow
  /\ edits = 0
  /\ job = [e \in Export |-> Unrequested]
  /\ render = [w \in Renderer |-> NoRender]
  /\ deaths = 0

Waiting == {e \in Export : job[e].status = "requested"}
LockedByRenderer(e) ==
  \E w \in Renderer : render[w].step \in {"fetch", "write"} /\ render[w].export = e

First(n, S) == {r \in S : Cardinality({q \in S : q < r}) < n}

-----------------------------------------------------------------------------

EditRows ==
  /\ edits < MaxEdits
  /\ \E S \in SUBSET ReportRow : S # reported /\ reported' = S
  /\ edits' = edits + 1
  /\ UNCHANGED <<job, render, deaths>>

RequestExport(e) ==
  /\ job[e] = Unrequested
  /\ \A d \in Export : d < e => job[d] # Unrequested
  /\ job' = [job EXCEPT ![e] = Requested]
  /\ UNCHANGED <<reported, edits, render, deaths>>

\* The claim is the first statement: its snapshot serves the whole job.
TakeSnapshot(w) ==
  /\ render[w] = NoRender /\ Waiting # {}
  /\ render' = [render EXCEPT ![w] = [step |-> "claim", waiting |-> Waiting, rows |-> reported]]
  /\ UNCHANGED <<reported, edits, job, deaths>>

\* Locked rows are skipped; one resolved since the snapshot cannot be
\* locked under REPEATABLE READ.
ClaimOldest(w) ==
  /\ render[w].step = "claim"
  /\ LET free == {e \in render[w].waiting : ~LockedByRenderer(e)} IN
     render' = [render EXCEPT ![w] =
       IF free # {} /\ Min(free) \in Waiting
       THEN [step |-> "fetch", export |-> Min(free), rows |-> @.rows, kept |-> {}, truncated |-> FALSE]
       ELSE NoRender]
  /\ UNCHANGED <<reported, edits, job, deaths>>

\* Fault variant: each batch reads what is committed by then.
VisibleNow(w) == reported
Visible(w) == render[w].rows

\* Every fetch asks for one row more than it may keep.
FetchBatch(w) ==
  /\ render[w].step = "fetch"
  /\ LET kept == render[w].kept
         rest == {r \in Visible(w) : \A k \in kept : k < r}
         left == RowCap - Cardinality(kept)
         want == IF BatchSize < left THEN BatchSize ELSE left
         raw == First(want + 1, rest)
         now == kept \union First(want, raw)
         more == Cardinality(raw) > want
     IN
     render' = [render EXCEPT ![w] =
       [step |-> IF more /\ Cardinality(now) < RowCap THEN "fetch" ELSE "write",
        export |-> @.export, rows |-> @.rows, kept |-> now,
        truncated |-> more /\ Cardinality(now) >= RowCap]]
  /\ UNCHANGED <<reported, edits, job, deaths>>

\* Artifact, status, audit and event, in the job's transaction.
CompleteExport(w) ==
  /\ render[w].step = "write"
  /\ job' = [job EXCEPT ![render[w].export] =
       [status |-> "completed", kept |-> render[w].kept, truncated |-> render[w].truncated,
        rows |-> render[w].rows]]
  /\ render' = [render EXCEPT ![w] = NoRender]
  /\ UNCHANGED <<reported, edits, deaths>>

\* A domain error: the job rolls back, which frees the row.
DomainError(w) ==
  /\ render[w].step = "fetch"
  /\ render' = [render EXCEPT ![w] = [step |-> "failing", export |-> @.export]]
  /\ UNCHANGED <<reported, edits, job, deaths>>

\* Fault variant: the failure is recorded in the transaction rolled back.
FailableRolledBack(e) == FALSE
Failable(e) == job[e].status = "requested"

\* A transaction of its own; it waits for a runner that holds the row.
MarkFailed(w) ==
  /\ render[w].step = "failing"
  /\ ~LockedByRenderer(render[w].export)
  /\ job' = IF Failable(render[w].export)
            THEN [job EXCEPT ![render[w].export] = [status |-> "failed"]]
            ELSE job
  /\ render' = [render EXCEPT ![w] = NoRender]
  /\ UNCHANGED <<reported, edits, deaths>>

RendererDies(w) ==
  /\ render[w] # NoRender
  /\ deaths < MaxDeaths
  /\ deaths' = deaths + 1
  /\ render' = [render EXCEPT ![w] = NoRender]
  /\ UNCHANGED <<reported, edits, job>>

WorkOn(w) ==
  TakeSnapshot(w) \/ ClaimOldest(w) \/ FetchBatch(w) \/ CompleteExport(w) \/ MarkFailed(w)

ExportsNext ==
  \/ EditRows
  \/ \E e \in Export : RequestExport(e)
  \/ \E w \in Renderer : WorkOn(w) \/ DomainError(w) \/ RendererDies(w)

\* The worker loop runs every few seconds for ever, crashes are restarted.
ExportsFairness == \A w \in Renderer : WF_exportVars(WorkOn(w))

ExportsSpec == ExportsInit /\ [][ExportsNext]_exportVars /\ ExportsFairness

-----------------------------------------------------------------------------

(* A finished artifact is one committed state of the report, cut at the    *)
(* row cap and flagged exactly when something was cut, whatever changed    *)
(* while it was read and however many runners worked the queue.            *)
ArtifactIsSnapshot ==
  \A e \in Export : job[e].status = "completed" =>
       /\ job[e].kept = First(RowCap, job[e].rows)
       /\ job[e].truncated = (Cardinality(job[e].rows) > RowCap)

(* Every requested export is completed or failed in the end, through       *)
(* crashes, domain errors and runners that lose a race.                    *)
EveryExportResolved ==
  \A e \in Export : job[e].status = "requested" ~> job[e].status \in Resolved

=============================================================================
