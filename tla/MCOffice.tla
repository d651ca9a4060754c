------------------------------ MODULE MCOffice ------------------------------
(***************************************************************************)
(* Instances of nine small components side by side.  They share no state   *)
(* that a property tells apart, so a behaviour is one of them moving while *)
(* the others rest: "part" says which.  They are extended, so that their   *)
(* assumptions are evaluated here.                                         *)
(***************************************************************************)
EXTENDS Documents, PdfExports, Compliance, Credentials, Payables, Entitlements, Team,
        Catalogs, Lists, TLC

CONSTANTS Root, Branch, Leaves

VARIABLE part

\* The tree of companies: a root, a branch, and branches of that branch.
Branches == [c \in {Root, Branch} \cup Leaves |->
                {Root, c} \cup (IF c = Root THEN {} ELSE {Branch})]

Init ==
    /\ part \in {"documents", "exports", "compliance", "credentials", "payables",
                "entitlements", "team", "lists", "catalogs"}
    /\ InitDocuments /\ InitPdfExports /\ InitCompliance
    /\ InitCredentials /\ InitPayables /\ InitEntitlements /\ InitTeam
    /\ InitLists /\ InitCatalogs
    /\ part # "entitlements" => plan
    /\ part # "lists" => hook = "paged" /\ side = [k \in Keys |-> None] /\ token /\ want = None

OnlyDocuments ==
    /\ part = "documents"
    /\ UNCHANGED <<part, pvars, cvars, rvars, bvars, evars, tvars, lvars, kvars>>
OnlyExports ==
    /\ part = "exports"
    /\ UNCHANGED <<part, dvars, cvars, rvars, bvars, evars, tvars, lvars, kvars>>
OnlyCompliance ==
    /\ part = "compliance"
    /\ UNCHANGED <<part, dvars, pvars, rvars, bvars, evars, tvars, lvars, kvars>>
OnlyCredentials ==
    /\ part = "credentials"
    /\ UNCHANGED <<part, dvars, pvars, cvars, bvars, evars, tvars, lvars, kvars>>
OnlyPayables ==
    /\ part = "payables"
    /\ UNCHANGED <<part, dvars, pvars, cvars, rvars, evars, tvars, lvars, kvars>>
OnlyEntitlements ==
    /\ part = "entitlements"
    /\ UNCHANGED <<part, dvars, pvars, cvars, rvars, bvars, tvars, lvars, kvars>>
OnlyTeam ==
    /\ part = "team"
    /\ UNCHANGED <<part, dvars, pvars, cvars, rvars, bvars, evars, lvars, kvars>>
OnlyLists ==
    /\ part = "lists"
    /\ UNCHANGED <<part, dvars, pvars, cvars, rvars, bvars, evars, tvars, kvars>>
OnlyCatalogs ==
    /\ part = "catalogs"
    /\ UNCHANGED <<part, dvars, pvars, cvars, rvars, bvars, evars, tvars, lvars>>

\* Bounds: a line of an estimate refers to the only item of the catalogue, and goes before
\* another is made; requests about the catalogue overlap if they are about the same item;
\* the token of a list is lost, and comes back, before its table changes; an edit of the
\* directory sets contact columns or a profession.
OneLine == lines = {}
SameItem(i) == \A r \in Editors : doing[r].kind # "none" => doing[r].item = i
OneKind(contact, trade) == contact => trade = "absent"

\* The next-state relation of each component, action by action, so that the
\* coverage of a run tells which actions were taken.
Next ==
    \/ \E u \in Uploads :
           \/ \E n \in FileNames : OnlyDocuments /\ CountVersions(u, n)
           \/ OnlyDocuments /\ WriteFile(u)
           \/ OnlyDocuments /\ Conflict(u)
           \/ OnlyDocuments /\ CommitDocument(u)
           \/ OnlyDocuments /\ AbortUpload(u)
    \/ OnlyExports /\ EditLines
    \/ \E e \in Exports :
           \/ OnlyExports /\ LoadEstimate(e)
           \/ OnlyExports /\ ExportEstimatePdf(e)
           \/ OnlyExports /\ CommitExport(e)
           \/ OnlyExports /\ RollbackExport(e)
    \/ \E w \in Workers :
           \/ OnlyExports /\ TakeJob(w)
           \/ OnlyExports /\ WritePdf(w)
           \/ OnlyExports /\ CommitPdf(w)
           \/ OnlyExports /\ GenerateFails(w)
           \/ OnlyExports /\ LoadForFailure(w)
           \/ OnlyExports /\ MarkPdfFailed(w)
           \/ OnlyExports /\ MarkFails(w)
           \/ OnlyExports /\ WorkerCrashes(w)
    \/ OnlyCompliance /\ DayPasses
    \/ OnlyCompliance /\ ChangeTier
    \/ \E p \in Papers, date \in 0 .. LastDay : OnlyCompliance /\ UploadComplianceDocument(p, date)
    \/ \E s \in Scans :
           \/ OnlyCompliance /\ ReadDocuments(s)
           \/ OnlyCompliance /\ ReadFired(s)
           \/ OnlyCompliance /\ CommitScan(s)
           \/ OnlyCompliance /\ RollbackScan(s)
           \/ OnlyCompliance /\ EnqueueMail(s)
           \/ OnlyCompliance /\ EndScan(s)
    \/ \E a \in Assignments :
           \/ OnlyCompliance /\ CheckAssignment(a)
           \/ OnlyCompliance /\ CommitAssignment(a)
    \/ \E c \in Callers :
           \/ OnlyCredentials /\ Login(c)
           \/ OnlyCredentials /\ ChangePassword(c)
           \/ OnlyCredentials /\ RequestReset(c)
           \/ OnlyCredentials /\ ConfirmReset(c)
           \/ OnlyCredentials /\ MfaEnroll(c)
           \/ OnlyCredentials /\ MfaActivate(c)
           \/ OnlyCredentials /\ MfaDisable(c)
           \/ OnlyCredentials /\ RevokeAllForUser(c)
           \/ OnlyCredentials /\ CommitLogin(c)
           \/ OnlyCredentials /\ CommitPassword(c)
           \/ OnlyCredentials /\ CommitIssue(c)
           \/ OnlyCredentials /\ CommitEnroll(c)
           \/ OnlyCredentials /\ CommitActivate(c)
           \/ OnlyCredentials /\ CommitDisable(c)
           \/ OnlyCredentials /\ Abort(c)
    \/ \E l \in Links : OnlyCredentials /\ Expire(l)
    \/ OnlyCredentials /\ Tick
    \/ \E b \in Bills :
           \/ OnlyPayables /\ DueDatePasses(b)
           \/ OnlyPayables /\ FlagOverdue(b)
           \/ \E raw \in RawSums : OnlyPayables /\ CreateBill(b, raw)
    \/ \E c \in Clerks, b \in Bills :
           \/ OnlyPayables /\ LoadBill(c, b, "void", 0)
           \/ \E raw \in RawSums : OnlyPayables /\ LoadBill(c, b, "pay", raw)
    \/ \E c \in Clerks :
           \/ OnlyPayables /\ LockBill(c)
           \/ OnlyPayables /\ SumPayments(c)
           \/ OnlyPayables /\ RecordBillPayment(c)
           \/ OnlyPayables /\ VoidBill(c)
           \/ OnlyPayables /\ Refuse(c)
    \/ \E w \in Writers :
           \/ \E c \in Tree : OnlyEntitlements /\ GetCurrentUser(w, c)
           \/ OnlyEntitlements /\ BlockIfReadOnly(w)
           \/ OnlyEntitlements /\ ModuleOverride(w)
           \/ OnlyEntitlements /\ RootTier(w)
           \/ OnlyEntitlements /\ EndWrite(w)
    \/ OnlyEntitlements /\ ChangePlan
    \/ OnlyEntitlements /\ ChangeStanding
    \/ \E o \in Operators :
           \/ \E kind \in Kinds, c \in Tree, new \in {"none", "on", "off"} :
                  OnlyEntitlements /\ LoadTenant(o, kind, c, new)
           \/ OnlyEntitlements /\ SetModuleOverride(o)
           \/ OnlyEntitlements /\ ClearModuleOverride(o)
           \/ OnlyEntitlements /\ DeactivateTenant(o)
           \/ OnlyEntitlements /\ RestoreTenant(o)
           \/ OnlyEntitlements /\ AbortOperator(o)
    \/ OnlyTeam /\ RemoveMember
    \/ OnlyTeam /\ RejoinCompany
    \/ \E t \in Trades : OnlyTeam /\ CreateProfession(t)
    \/ \E t \in Trades : OnlyTeam /\ DeleteProfession(t)
    \/ \E e \in Edits :
           \/ OnlyTeam /\ OpenRecord(e)
           \/ \E contact \in BOOLEAN, list \in {"absent", "empty", "one"} :
                  \/ OnlyTeam /\ UpdateMyProfile(e, contact, list)
                  \/ \E trade \in Trades \cup {Nothing, "absent"} :
                         OnlyTeam /\ OneKind(contact, trade) /\ UpdateTeamMember(e, contact, list, trade)
           \/ OnlyTeam /\ LoadRecord(e)
           \/ OnlyTeam /\ CommitEdit(e)
           \/ OnlyTeam /\ AbortEdit(e)
    \/ \E p \in Photos :
           \/ \E x \in Extensions : OnlyTeam /\ UploadPhoto(p, x)
           \/ OnlyTeam /\ CommitPhoto(p)
           \/ OnlyTeam /\ AbortPhoto(p)
    \/ \E k \in Keys, f \in Filters \cup {None} : OnlyLists /\ token /\ ChangeRow(k, f)
    \/ OnlyLists /\ Deselect
    \/ OnlyLists /\ changed = 0 /\ TokenLost
    \/ \E f \in Filters : OnlyLists /\ SelectUnready(f)
    \/ \E c \in Calls :
           \/ \E f \in Filters : OnlyLists /\ Select(c, f)
           \/ OnlyLists /\ Reload(c)
           \/ OnlyLists /\ TokenArrives(c)
           \/ OnlyLists /\ LoadMore(c)
           \/ OnlyLists /\ Serve(c)
           \/ OnlyLists /\ DeliverPage(c)
           \/ OnlyLists /\ WalkOn(c)
           \/ OnlyLists /\ DeliverWalk(c)
           \/ OnlyLists /\ Fail(c)
           \/ OnlyLists /\ Drop(c)
    \/ \E c \in Companies : OnlyCatalogs /\ OneLine /\ CreateItem(c)
    \/ \E i \in Items, c \in Companies : OnlyCatalogs /\ OneLine /\ made = 1 /\ InsertLine(i, c)
    \/ \E i \in Items, c \in Companies : OnlyCatalogs /\ RemoveLines(i, c)
    \/ \E r \in Editors, c \in Companies, i \in Items :
           \/ OnlyCatalogs /\ SameItem(i) /\ ResolveOverride(r, c, i)
           \/ OnlyCatalogs /\ SameItem(i) /\ LoadDelete(r, c, i)
    \/ \E r \in Editors :
           \/ OnlyCatalogs /\ OneLine /\ InsertOverride(r)
           \/ OnlyCatalogs /\ CheckOverrides(r)
           \/ OnlyCatalogs /\ DeleteItem(r)
           \/ OnlyCatalogs /\ AbortCatalog(r)

vars == <<part, dvars, pvars, cvars, rvars, bvars, evars, tvars, lvars, kvars>>

Spec == Init /\ [][Next]_vars

Interchangeable == Permutations(Exports) \cup Permutations(Workers)

\* Bound: at most one kind of race between requests about credentials.
OneRace == Cardinality(crossed) + Cardinality(late) + Cardinality(shared) <= 1
=============================================================================
