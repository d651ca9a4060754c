----------------------------- MODULE Compliance -----------------------------
(***************************************************************************)
(* The compliance documents of one subcontractor: their upload             *)
(* (routers/subcontractors.py), the assignment to a project they gate      *)
(* (routers/subcontractor_assignments.py), the daily scan of               *)
(* tasks/compliance_expiry.py and the mails it enqueues.  The dismissal of *)
(* a notification takes part in no decision and is left out.               *)
(*                                                                         *)
(* Scans overlap: the scheduler sends one a day, the broker delivers it    *)
(* again after a crash or a failure.  A scan reads the documents, then the *)
(* notifications, inserts what is due, commits, and only then enqueues one *)
(* mail per notification.  A day here is the distance between thresholds.  *)
(***************************************************************************)
EXTENDS Integers, FiniteSets

CONSTANTS
    Papers,         \* the compliance documents
    Thresholds,     \* the days before expiry at which a notification is due
    LastDay,        \* bound: the clock
    Scans,          \* runs of check_compliance_expiry that may overlap
    Assignments,    \* requests to assign the subcontractor
    Never           \* the expiry of a document that is not there yet

ASSUME ClockAssumption == LastDay \in Nat /\ Never \notin 0 .. LastDay

VARIABLES
    today,
    expires,        \* compliance_documents.expires_on
    allowed,        \* tier_allows(company, "compliance")
    notified,       \* compliance_notifications, as <<document, threshold>>
    mails,          \* how often the mail of each pair was enqueued
    scan,
    asg             \* the requests to assign

cvars == <<today, expires, allowed, notified, mails, scan, asg>>

Pairs == Papers \X Thresholds

NoScan == [at |-> "idle", due |-> {}]

ComplianceTypeOK ==
    /\ today \in 0 .. LastDay
    /\ expires \in [Papers -> 0 .. LastDay \cup {Never}]
    /\ allowed \in BOOLEAN
    /\ notified \subseteq Pairs
    /\ mails \in [Pairs -> Nat]
    /\ scan \in [Scans -> [at : {"idle", "documents", "fired", "committed"},
                           due : SUBSET Pairs]]
    /\ asg \in [Assignments -> [at : {"new", "checked", "done", "refused"}, overridden : BOOLEAN]]

InitCompliance ==
    /\ today = 0
    /\ expires = [p \in Papers |-> Never]
    /\ allowed = TRUE
    /\ notified = {}
    /\ mails = [x \in Pairs |-> 0]
    /\ scan = [s \in Scans |-> NoScan]
    /\ asg = [a \in Assignments |-> [at |-> "new", overridden |-> FALSE]]

OnFile == {p \in Papers : expires[p] # Never}

\* days_until_expiry <= threshold
Due == {x \in OnFile \X Thresholds : expires[x[1]] - today <= x[2]}

\* The unique key (compliance_document_id, threshold).
Insertable_NoKey(new) == TRUE
Insertable(new) == new \cap notified = {}

Expired == {p \in OnFile : expires[p] < today}

DayPasses ==
    /\ today < LastDay
    /\ today' = today + 1
    /\ UNCHANGED <<expires, allowed, notified, mails, scan, asg>>

ChangeTier ==
    /\ allowed' = ~allowed
    /\ UNCHANGED <<today, expires, notified, mails, scan, asg>>

\* The route accepts any date, a past one too, and replaces nothing: a renewal
\* is another document.
UploadComplianceDocument(p, date) ==
    /\ allowed
    /\ p \notin OnFile
    /\ expires' = [expires EXCEPT ![p] = date]
    /\ UNCHANGED <<today, allowed, notified, mails, scan, asg>>

-----------------------------------------------------------------------------

ReadDocuments(s) ==
    /\ scan[s].at = "idle"
    /\ scan' = [scan EXCEPT ![s] = [at |-> "documents", due |-> Due]]
    /\ UNCHANGED <<today, expires, allowed, notified, mails, asg>>

ReadFired(s) ==
    /\ scan[s].at = "documents"
    /\ scan' = [scan EXCEPT ![s].at = "fired", ![s].due = @ \ notified]
    /\ UNCHANGED <<today, expires, allowed, notified, mails, asg>>

\* tier_allows, the inserts and the commit.
CommitScan(s) ==
    /\ scan[s].at = "fired"
    /\ LET new == IF allowed THEN scan[s].due ELSE {} IN
           /\ Insertable(new)
           /\ notified' = notified \cup new
           /\ scan' = [scan EXCEPT ![s] = [at |-> "committed", due |-> new]]
    /\ UNCHANGED <<today, expires, allowed, mails, asg>>

\* Another scan has written one of the pairs, or the database fails: all of
\* the scan is rolled back, and its message is retried.
RollbackScan(s) ==
    /\ scan[s].at \in {"documents", "fired"}
    /\ scan' = [scan EXCEPT ![s] = NoScan]
    /\ UNCHANGED <<today, expires, allowed, notified, mails, asg>>

EnqueueMail(s) ==
    /\ scan[s].at = "committed"
    /\ \E x \in scan[s].due :
           /\ mails' = [mails EXCEPT ![x] = @ + 1]
           /\ scan' = [scan EXCEPT ![s].due = @ \ {x}]
    /\ UNCHANGED <<today, expires, allowed, notified, asg>>

\* The actor returns, or dies with mails still to enqueue: these are lost.
EndScan(s) ==
    /\ scan[s].at = "committed"
    /\ scan' = [scan EXCEPT ![s] = NoScan]
    /\ UNCHANGED <<today, expires, allowed, notified, mails, asg>>

-----------------------------------------------------------------------------

\* _has_expired_compliance_document, read without a lock: a project manager is
\* refused, an administrator must give a reason.
CheckAssignment(a) ==
    /\ allowed
    /\ asg[a].at = "new"
    /\ \/ Expired = {} /\ asg' = [asg EXCEPT ![a] = [at |-> "checked", overridden |-> FALSE]]
       \/ Expired # {} /\ asg' = [asg EXCEPT ![a] = [at |-> "checked", overridden |-> TRUE]]
       \/ Expired # {} /\ asg' = [asg EXCEPT ![a].at = "refused"]
    /\ UNCHANGED <<today, expires, allowed, notified, mails, scan>>

CommitAssignment(a) ==
    /\ asg[a].at = "checked"
    /\ asg' = [asg EXCEPT ![a].at = "done"]
    /\ UNCHANGED <<today, expires, allowed, notified, mails, scan>>

NextCompliance ==
    \/ DayPasses
    \/ ChangeTier
    \/ \E p \in Papers, date \in 0 .. LastDay : UploadComplianceDocument(p, date)
    \/ \E s \in Scans : ReadDocuments(s) \/ ReadFired(s) \/ CommitScan(s) \/ RollbackScan(s)
                        \/ EnqueueMail(s) \/ EndScan(s)
    \/ \E a \in Assignments : CheckAssignment(a) \/ CommitAssignment(a)

ComplianceSpec == InitCompliance /\ [][NextCompliance]_cvars

-----------------------------------------------------------------------------

\* compliance_expiry.py promises each threshold once, and no mail about a
\* notification that was rolled back: with scans overlapping, failing and
\* delivered again, a pair is mailed at most once, and only when its row stands.
WarnedOnce == \A x \in Pairs : mails[x] <= (IF x \in notified THEN 1 ELSE 0)
=============================================================================
