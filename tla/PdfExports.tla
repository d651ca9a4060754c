----------------------------- MODULE PdfExports -----------------------------
(***************************************************************************)
(* The PDF of one estimate: export_estimate_pdf in routers/estimates.py    *)
(* and the Dramatiq actor of tasks/estimate_pdf.py.                        *)
(*                                                                         *)
(* The route marks the estimate 'pending' and enqueues the job inside its  *)
(* own transaction, so a worker may overtake the commit.  Both sides are   *)
(* units of work of the ORM: an UPDATE carries only the columns whose      *)
(* value differs from the one the session loaded.                          *)
(***************************************************************************)
EXTENDS Integers, FiniteSets

CONSTANTS
    Exports,        \* requests to export
    Workers,        \* jobs that may run at once
    Revisions,      \* bound: the largest revision of the line items
    Retries,        \* max_retries of the actor
    Free

ASSUME ExportAssumption == Free \notin Exports /\ Revisions \in Nat \ {0} /\ Retries \in Nat

VARIABLES
    pdf,            \* the row: pdf_status, and the revision its lines are at
    file,           \* the revision the single PDF on disk shows, 0 when there is none
    writer,         \* the export that holds the row
    exp,            \* where each export stands
    queue,          \* the jobs waiting, as [export, tries]
    work,           \* what each worker does
    overtaken       \* history: a worker's answer was lost, to the value it had loaded or for good

pvars == <<pdf, file, writer, exp, queue, work, overtaken>>

PdfStatuses == {"not_requested", "pending", "ready", "failed"}

Jobs == [export : Exports, tries : 0 .. Retries]

Waiting == [at |-> "idle"]
Working == [at : {"loaded", "written", "failed", "marking"}, job : Jobs, seen : PdfStatuses,
            revision : 1 .. Revisions]

PdfExportsTypeOK ==
    /\ pdf \in [status : PdfStatuses, revision : 1 .. Revisions]
    /\ file \in 0 .. Revisions
    /\ writer \in Exports \cup {Free}
    /\ exp \in [Exports -> [at : {"new", "loaded", "sent", "done"}, seen : PdfStatuses]]
    /\ queue \subseteq Jobs
    /\ work \in [Workers -> {Waiting} \cup Working]
    /\ overtaken \in BOOLEAN

InitPdfExports ==
    /\ pdf = [status |-> "not_requested", revision |-> 1]
    /\ file = 0
    /\ writer = Free
    /\ exp = [e \in Exports |-> [at |-> "new", seen |-> "not_requested"]]
    /\ queue = {}
    /\ work = [w \in Workers |-> Waiting]
    /\ overtaken = FALSE

RowFree(e) == writer \in {e, Free}

\* An UPDATE of pdf_status is issued only when the value changes for the session.
Stored_Always(seen, new) == new
Stored(seen, new) == IF seen = new THEN pdf.status ELSE new

\* What _mark_pdf_failed writes, and the actor that would only log the error.
FailedStatus_None(seen) == seen
FailedStatus(seen) == "failed"

EditLines ==
    /\ pdf.revision < Revisions /\ writer = Free
    /\ pdf' = [pdf EXCEPT !.revision = @ + 1]
    /\ UNCHANGED <<file, writer, exp, queue, work, overtaken>>

LoadEstimate(e) ==
    /\ exp[e].at = "new"
    /\ exp' = [exp EXCEPT ![e] = [at |-> "loaded", seen |-> pdf.status]]
    /\ UNCHANGED <<pdf, file, writer, queue, work, overtaken>>

\* The flush waits for the row and keeps it, unless it has nothing to write.
ExportEstimatePdf(e) ==
    /\ exp[e].at = "loaded"
    /\ \/ exp[e].seen = "pending" /\ UNCHANGED writer
       \/ exp[e].seen # "pending" /\ RowFree(e) /\ writer' = e
    /\ exp' = [exp EXCEPT ![e].at = "sent"]
    /\ queue' = queue \cup {[export |-> e, tries |-> 0]}
    /\ UNCHANGED <<pdf, file, work, overtaken>>

CommitExport(e) ==
    /\ exp[e].at = "sent"
    /\ pdf' = [pdf EXCEPT !.status = Stored(exp[e].seen, "pending")]
    /\ writer' = IF writer = e THEN Free ELSE writer
    /\ exp' = [exp EXCEPT ![e].at = "done"]
    /\ UNCHANGED <<file, queue, work, overtaken>>

RollbackExport(e) ==
    /\ exp[e].at \in {"loaded", "sent"}
    /\ writer' = IF writer = e THEN Free ELSE writer
    /\ exp' = [exp EXCEPT ![e].at = "done"]
    /\ UNCHANGED <<pdf, file, queue, work, overtaken>>

Busy(w, at) == work[w].at = at

TakeJob(w) ==
    /\ Busy(w, "idle")
    /\ \E job \in queue :
           /\ queue' = queue \ {job}
           /\ work' = [work EXCEPT ![w] = [at |-> "loaded", job |-> job, seen |-> pdf.status,
                                           revision |-> pdf.revision]]
    /\ UNCHANGED <<pdf, file, writer, exp, overtaken>>

\* render_estimate_pdf, then write_estimate_pdf_file replaces the one file.
WritePdf(w) ==
    /\ Busy(w, "loaded")
    /\ file' = work[w].revision
    /\ work' = [work EXCEPT ![w].at = "written"]
    /\ UNCHANGED <<pdf, writer, exp, queue, overtaken>>

\* The UPDATE always carries pdf_generated_at, and so waits for the row.
Answer(w, new) ==
    /\ writer = Free
    /\ pdf' = [pdf EXCEPT !.status = Stored(work[w].seen, new)]
    /\ overtaken' = (overtaken \/ Stored(work[w].seen, new) # new)

CommitPdf(w) ==
    /\ Busy(w, "written")
    /\ Answer(w, "ready")
    /\ work' = [work EXCEPT ![w] = Waiting]
    /\ UNCHANGED <<file, writer, exp, queue>>

\* Rendering, writing or the commit fails and its transaction is rolled back.
GenerateFails(w) ==
    /\ work[w].at \in {"loaded", "written"}
    /\ work' = [work EXCEPT ![w].at = "failed"]
    /\ UNCHANGED <<pdf, file, writer, exp, queue, overtaken>>

\* _mark_pdf_failed loads the row again in a transaction of its own.
LoadForFailure(w) ==
    /\ Busy(w, "failed")
    /\ work' = [work EXCEPT ![w].at = "marking", ![w].seen = pdf.status]
    /\ UNCHANGED <<pdf, file, writer, exp, queue, overtaken>>

Requeued(job) == IF job.tries < Retries THEN {[job EXCEPT !.tries = @ + 1]} ELSE {}

\* A row that already reads 'failed' needs no UPDATE, and waits for nobody.
MarkPdfFailed(w) ==
    /\ Busy(w, "marking")
    /\ writer = Free \/ work[w].seen = "failed"
    /\ LET new == Stored(work[w].seen, FailedStatus(work[w].seen)) IN
           /\ pdf' = [pdf EXCEPT !.status = new]
           /\ overtaken' = (overtaken \/ (work[w].seen = "failed" /\ (new # "failed" \/ writer # Free)))
    /\ queue' = queue \cup Requeued(work[w].job)
    /\ work' = [work EXCEPT ![w] = Waiting]
    /\ UNCHANGED <<file, writer, exp>>

\* Not even the failure can be recorded; after the last try nobody will.
MarkFails(w) ==
    /\ Busy(w, "marking")
    /\ queue' = queue \cup Requeued(work[w].job)
    /\ overtaken' = (overtaken \/ Requeued(work[w].job) = {})
    /\ work' = [work EXCEPT ![w] = Waiting]
    /\ UNCHANGED <<pdf, file, writer, exp>>

\* The process dies: the broker delivers the job again.
WorkerCrashes(w) ==
    /\ ~Busy(w, "idle")
    /\ queue' = queue \cup {work[w].job}
    /\ work' = [work EXCEPT ![w] = Waiting]
    /\ UNCHANGED <<pdf, file, writer, exp, overtaken>>

NextPdfExports ==
    \/ EditLines
    \/ \E e \in Exports : LoadEstimate(e) \/ ExportEstimatePdf(e) \/ CommitExport(e)
                          \/ RollbackExport(e)
    \/ \E w \in Workers : TakeJob(w) \/ WritePdf(w) \/ CommitPdf(w) \/ GenerateFails(w)
                          \/ LoadForFailure(w) \/ MarkPdfFailed(w) \/ MarkFails(w)
                          \/ WorkerCrashes(w)

PdfExportsSpec == InitPdfExports /\ [][NextPdfExports]_pvars

-----------------------------------------------------------------------------

\* estimate_pdf.py:213-217 wants no estimate "stuck on 'pending' forever": with
\* every request and job at rest, an estimate is 'pending' only if a worker that
\* had loaded the row before the export committed wrote nothing over it, or the
\* last try could not even be recorded as failed.
PendingIsTemporary ==
    pdf.status = "pending" =>
        \/ overtaken
        \/ queue # {}
        \/ \E w \in Workers : ~Busy(w, "idle")
=============================================================================
