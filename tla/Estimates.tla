----------------------------- MODULE Estimates ------------------------------
(***************************************************************************)
(* Estimates of one project: routers/estimates.py, the calculation engine, *)
(* and the two handlers of ESTIMATE_APPROVED, which draft the deposit      *)
(* invoice (services/estimate_approved_handler.py) and fold the lines into *)
(* the project's bill of materials (services/bom_generation_handler.py)    *)
(* inside the transaction of the approval.                                 *)
(*                                                                         *)
(* As in Invoices, a request is one READ COMMITTED transaction: it loads   *)
(* the estimate, tests what it loaded, and commits later; no route of this *)
(* router locks the row it loads.  An UPDATE waits for the row's holder    *)
(* and then writes the columns the ORM saw change.                         *)
(*                                                                         *)
(* Every line is for the one catalogue item, at unit rate 1, so that a     *)
(* quantity is also an amount; a markup profile is a multiplier.  E-mails, *)
(* audit rows and the signature image are left out: no handler reads them  *)
(* back.  The optional expected_updated_at of update_estimate can only     *)
(* turn a request into a 409, which is a rollback here.                    *)
(***************************************************************************)
EXTENDS Integers, Sequences, FiniteSets, FiniteSetsExt, Functions

CONSTANTS
    Requests,        \* the transactions that may be in flight at once
    Estimates,
    Accounting,      \* whether the company's plan includes the accounting module
    DepositPercent,  \* the company's deposit_percentage
    Markups,         \* markup profiles
    Payloads,        \* the line lists a PUT may carry: sequences of quantities
    MaxSignatures,   \* bound: approvals of one estimate
    Nobody

ASSUME FiniteAssumption  == IsFiniteSet(Requests) /\ IsFiniteSet(Estimates)
ASSUME TierAssumption    == Accounting \in BOOLEAN
ASSUME MoneyAssumption   == Markups \subseteq Nat /\ DepositPercent \in 0..100
ASSUME PayloadAssumption == Payloads \subseteq Seq(Nat)
ASSUME NobodyAssumption  == Nobody \notin Requests
ASSUME BoundAssumption   == MaxSignatures \in Nat

VARIABLES
    status,        \* estimates.status; "none" before the row exists, "deleted" after
    scoped,        \* whether it has a project_id; the others hang on a bare lead
    snapshotted,   \* estimates.is_snapshotted
    markup,        \* estimates.markup_profile_id
    total,         \* estimates.total
    lines,         \* the committed estimate_line_items rows, each with the PUT that wrote it
    signed,        \* what each e-signature on the estimate was given for
    deposits,      \* the deposit invoices drafted for it
    bom,           \* the project's bom_lines rows for the catalogue item
    rowLock,       \* the holder of the estimate row, after its UPDATE
    lineLock,      \* the holder of its line rows, after their DELETE
    numberLock,    \* pg_advisory_xact_lock of the company
    req,
    raced          \* history: two requests have been in flight on one estimate

rows  == <<status, scoped, snapshotted, markup, total, lines>>
books == <<signed, deposits, bom>>
locks == <<rowLock, lineLock, numberLock>>
vars  == <<rows, books, locks, req, raced>>

Statuses == {"draft", "sent", "approved", "rejected"}
NoTotal  == -1
Idle     == [op |-> "idle"]

\* What the approval of an estimate found of its catalogue item in the bill of materials:
\* no reason to look, no row yet, or a row and its quantity.
NoLine  == [at |-> -1, had |-> 0]
NewLine == [at |-> 0, had |-> 0]

Working(r) == req[r] # Idle
At(r, op, pc) == Working(r) /\ req[r].op = op /\ req[r].pc = pc

Exists(e) == status[e] \in Statuses

\* A request loads its estimate; the handler's tests on what it loaded come with it.
Load(r, record) ==
    /\ ~Working(r)
    /\ Exists(record.est)
    /\ req' = [req EXCEPT ![r] = record]
    /\ raced' = (raced \/ \E q \in Requests \ {r} : Working(q) /\ req[q].est = record.est)
    /\ UNCHANGED <<rows, books, locks>>

Released(lock, r) == [e \in Estimates |-> IF lock[e] = r THEN Nobody ELSE lock[e]]

End(r) ==
    /\ req' = [req EXCEPT ![r] = Idle]
    /\ rowLock'  = Released(rowLock, r)
    /\ lineLock' = Released(lineLock, r)
    /\ numberLock' = IF numberLock = r THEN Nobody ELSE numberLock
    /\ UNCHANGED raced

Quantity(ls) == SumFunction([line \in ls |-> line.qty])

(* The tests the handlers and the database make, each preceded by the      *)
(* mutant that shows which property depends on it.                         *)

\* The UPDATE or DELETE of a loaded row waits for the row's holder and finds it gone.
CanWrite_NoWait(r) == Exists(req[r].est)
CanWrite(r) == rowLock[req[r].est] = Nobody /\ Exists(req[r].est)

\* Checking for the snapshot alone, as the code once did (comment at estimates.py:538).
Editable_Sent(e) == ~snapshotted[e]
Editable(e) == ~snapshotted[e] /\ status[e] # "sent"

\* Without UNIQUE (estimate_id, position).
SlotsFree_NoUnique(rest, new) == TRUE
SlotsFree(rest, new) == \A x \in rest, y \in new : x.pos # y.pos

\* Approved and rejected are decisions on an estimate that is out.
Decidable(e) == status[e] = "sent"

\* Without pg_advisory_xact_lock.
NumberFree_NoLock == TRUE
NumberFree == numberLock = Nobody

\* ROUND_HALF_UP, against the truncation of an integer division.
Deposit_Truncated(t) == (t * DepositPercent) \div 100
Deposit(t) == (t * DepositPercent + 50) \div 100

DraftStatus == "draft"

\* With ON DELETE CASCADE on invoices.estimate_id.
Unreferenced_Cascade(e) == TRUE
Unreferenced(e) == deposits[e] = <<>>

Init ==
    /\ status      = [e \in Estimates |-> "none"]
    /\ scoped      = [e \in Estimates |-> FALSE]
    /\ snapshotted = [e \in Estimates |-> FALSE]
    /\ markup      = [e \in Estimates |-> 0]
    /\ total       = [e \in Estimates |-> NoTotal]
    /\ lines       = [e \in Estimates |-> {}]
    /\ signed      = [e \in Estimates |-> <<>>]
    /\ deposits    = [e \in Estimates |-> <<>>]
    /\ bom = <<>>
    /\ rowLock  = [e \in Estimates |-> Nobody]
    /\ lineLock = [e \in Estimates |-> Nobody]
    /\ numberLock = Nobody
    /\ req = [r \in Requests |-> Idle]
    /\ raced = FALSE

-----------------------------------------------------------------------------
(* Drafting.  Creation inserts a row nobody else can know of, in one step. *)

CreateEstimate(e, m, onProject) ==
    /\ status[e] = "none"
    /\ scoped' = [scoped EXCEPT ![e] = onProject]
    /\ status' = [status EXCEPT ![e] = DraftStatus]
    /\ markup' = [markup EXCEPT ![e] = m]
    /\ UNCHANGED <<snapshotted, total, lines, books, locks, req, raced>>

UpdateEstimate(r, e, m) ==
    /\ status[e] = "draft" /\ m # markup[e]
    /\ Load(r, [op |-> "update", est |-> e, pc |-> "loaded", markup |-> m])

CommitUpdate(r) ==
    /\ At(r, "update", "loaded") /\ CanWrite(r)
    /\ markup' = [markup EXCEPT ![req[r].est] = req[r].markup]
    /\ UNCHANGED <<status, scoped, snapshotted, total, lines, books>>
    /\ End(r)

DeleteEstimate(r, e) ==
    /\ status[e] = "draft"
    /\ Load(r, [op |-> "delete", est |-> e, pc |-> "loaded", unsigned |-> signed[e] = <<>>])

\* invoices.estimate_id references the row without ON DELETE: a deposit keeps it alive.  Nothing
\* else does: the approval's signature names no estimate.
CommitDelete(r) ==
    LET e == req[r].est IN
    /\ At(r, "delete", "loaded") /\ CanWrite(r)
    /\ lineLock[e] = Nobody
    /\ Unreferenced(e)
    /\ status' = [status EXCEPT ![e] = "deleted"]
    /\ lines'  = [lines  EXCEPT ![e] = {}]
    /\ UNCHANGED <<scoped, snapshotted, markup, total, books>>
    /\ End(r)

-----------------------------------------------------------------------------
(* replace_estimate_line_items: guard, then DELETE, then INSERT.  The      *)
(* DELETE removes the rows its own snapshot shows, once their holder is    *)
(* done; rows another transaction commits meanwhile stay, and              *)
(* UNIQUE (estimate_id, position) makes the INSERT fail (409) when one of  *)
(* them is in the way.                                                     *)

ReplaceLines(r, e, payload) ==
    /\ Editable(e)
    /\ Load(r, [op |-> "lines", est |-> e, pc |-> "loaded", payload |-> payload, old |-> {}])

DeleteLines(r) ==
    LET e == req[r].est IN
    /\ At(r, "lines", "loaded")
    /\ req' = [req EXCEPT ![r].pc = "deleted", ![r].old = lines[e]]
    /\ lineLock' = IF lines[e] # {} /\ lineLock[e] = Nobody
                     THEN [lineLock EXCEPT ![e] = r] ELSE lineLock
    /\ UNCHANGED <<rows, books, rowLock, numberLock, raced>>

\* The new rows have ids of their own: a batch no row in sight, committed or deleted, is of.
FreshBatch ==
    LET seen  == UNION ({lines[e] : e \in Estimates}
                        \cup {req[q].old : q \in {q \in Requests : At(q, "lines", "deleted")}})
        taken == {x.batch : x \in seen}
    IN Min((0..Cardinality(taken)) \ taken)

InsertLines(r) ==
    LET e    == req[r].est
        rest == lines[e] \ req[r].old
        new  == {[batch |-> FreshBatch, pos |-> p, qty |-> req[r].payload[p]] : p \in DOMAIN req[r].payload}
    IN
    /\ At(r, "lines", "deleted") /\ Exists(e)
    /\ lineLock[e] \in {r, Nobody}
    /\ SlotsFree(rest, new)
    /\ lines' = [lines EXCEPT ![e] = rest \cup new]
    /\ UNCHANGED <<status, scoped, snapshotted, markup, total, books>>
    /\ End(r)

\* The guard and the markup come from the loaded row, the lines from a later query.
CalculateTotals(r, e) ==
    /\ Editable(e)
    /\ Load(r, [op |-> "calculate", est |-> e, pc |-> "loaded",
                had |-> total[e], markup |-> markup[e], total |-> NoTotal])

CalculateEstimate(r) ==
    /\ At(r, "calculate", "loaded")
    /\ req' = [req EXCEPT ![r].pc = "calculated",
                          ![r].total = Quantity(lines[req[r].est]) * req[r].markup]
    /\ UNCHANGED <<rows, books, locks, raced>>

\* The ORM writes the total only when it differs from the one it loaded.
CommitCalculate(r) ==
    /\ At(r, "calculate", "calculated")
    /\ req[r].total # req[r].had /\ CanWrite(r)
    /\ total' = [total EXCEPT ![req[r].est] = req[r].total]
    /\ UNCHANGED <<status, scoped, snapshotted, markup, lines, books>>
    /\ End(r)

-----------------------------------------------------------------------------
(* send_estimate_for_signature asks only for a total: any status may be    *)
(* sent, an approved or a rejected one included.  A row loaded as sent is  *)
(* not written at all, and the request changes nothing.                    *)

SendForSignature(r, e) ==
    /\ total[e] # NoTotal /\ status[e] # "sent"
    /\ Load(r, [op |-> "send", est |-> e, pc |-> "loaded"])

CommitSend(r) ==
    /\ At(r, "send", "loaded") /\ CanWrite(r)
    /\ status' = [status EXCEPT ![req[r].est] = "sent"]
    /\ UNCHANGED <<scoped, snapshotted, markup, total, lines, books>>
    /\ End(r)

RejectEstimate(r, e) ==
    /\ Decidable(e)
    /\ Load(r, [op |-> "reject", est |-> e, pc |-> "loaded"])

CommitReject(r) ==
    /\ At(r, "reject", "loaded") /\ CanWrite(r)
    /\ status' = [status EXCEPT ![req[r].est] = "rejected"]
    /\ UNCHANGED <<scoped, snapshotted, markup, total, lines, books>>
    /\ End(r)

-----------------------------------------------------------------------------
(* approve_estimate: flush the approval (the UPDATE takes the row), then   *)
(* publish ESTIMATE_APPROVED, whose handlers run in the same transaction:  *)
(* the deposit takes the company's advisory lock for its number, and only  *)
(* then does the second handler read the bill of materials it adds to.     *)

ApproveEstimate(r, e) ==
    /\ Decidable(e)
    /\ Len(signed[e]) < MaxSignatures
    /\ Load(r, [op |-> "approve", est |-> e, pc |-> "loaded",
                total |-> total[e], qty |-> 0, line |-> NoLine])

FlushApproval(r) ==
    /\ At(r, "approve", "loaded") /\ CanWrite(r)
    /\ rowLock' = [rowLock EXCEPT ![req[r].est] = r]
    /\ req' = [req EXCEPT ![r].pc = "flushed"]
    /\ UNCHANGED <<rows, books, lineLock, numberLock, raced>>

Deposited(e) == Accounting /\ scoped[e]

\* handle_estimate_approved up to its number: a no-op without a project or the module.
TakeNumber(r) ==
    IF Deposited(req[r].est)
      THEN NumberFree /\ numberLock' = r
      ELSE UNCHANGED numberLock

\* The row of the bill of materials the lines of e will be added to, if there is one.
BomRows(e) ==
    IF ~scoped[e] \/ lines[e] = {} THEN {NoLine}
    ELSE IF bom = <<>> THEN {NewLine}
    ELSE {[at |-> k, had |-> bom[k]] : k \in DOMAIN bom}

\* Both handlers, up to where they write.
PublishApproval(r) ==
    LET e == req[r].est IN
    /\ At(r, "approve", "flushed")
    /\ TakeNumber(r)
    /\ \E line \in BomRows(e) :
          req' = [req EXCEPT ![r].pc = "published", ![r].line = line,
                             ![r].qty = IF line = NoLine THEN 0 ELSE Quantity(lines[e])]
    /\ UNCHANGED <<rows, books, rowLock, lineLock, raced>>

Merged(line, qty) ==
    CASE line = NoLine  -> bom
      [] line = NewLine -> Append(bom, qty)
      [] OTHER          -> [bom EXCEPT ![line.at] = line.had + qty]

CommitApproval(r) ==
    LET e == req[r].est IN
    /\ At(r, "approve", "published")
    /\ status'      = [status      EXCEPT ![e] = "approved"]
    /\ snapshotted' = [snapshotted EXCEPT ![e] = TRUE]
    /\ signed'   = [signed EXCEPT ![e] = Append(@, [total |-> req[r].total, qty |-> req[r].qty])]
    /\ deposits' = IF Deposited(e) THEN [deposits EXCEPT ![e] = Append(@, Deposit(req[r].total))]
                                   ELSE deposits
    /\ bom' = Merged(req[r].line, req[r].qty)
    /\ UNCHANGED <<scoped, markup, total, lines>>
    /\ End(r)

-----------------------------------------------------------------------------

Rollback(r) ==
    /\ Working(r)
    /\ End(r)
    /\ UNCHANGED <<rows, books>>

Call(r) ==
    \E e \in Estimates :
        \/ \E m \in Markups : UpdateEstimate(r, e, m)
        \/ DeleteEstimate(r, e)
        \/ \E p \in Payloads : ReplaceLines(r, e, p)
        \/ CalculateTotals(r, e)
        \/ SendForSignature(r, e)
        \/ RejectEstimate(r, e)
        \/ ApproveEstimate(r, e)

Handle(r) ==
    \/ CommitUpdate(r)
    \/ CommitDelete(r)
    \/ DeleteLines(r)
    \/ InsertLines(r)
    \/ CalculateEstimate(r)
    \/ CommitCalculate(r)
    \/ CommitSend(r)
    \/ CommitReject(r)
    \/ FlushApproval(r)
    \/ PublishApproval(r)
    \/ CommitApproval(r)
    \/ Rollback(r)

Next ==
    \/ \E e \in Estimates, m \in Markups, onProject \in BOOLEAN : CreateEstimate(e, m, onProject)
    \/ \E r \in Requests : Call(r) \/ Handle(r)

Spec == Init /\ [][Next]_vars

\* A started request is driven to its end by the event loop, or rolled back.
FairSpec == Spec /\ \A r \in Requests : WF_vars(Handle(r))
-----------------------------------------------------------------------------
(* Properties                                                              *)

Lines == [batch : Nat, pos : Nat \ {0}, qty : Nat]

Requesting ==
    [op : {"update"}, est : Estimates, pc : {"loaded"}, markup : Markups]
    \cup [op : {"delete"}, est : Estimates, pc : {"loaded"}, unsigned : BOOLEAN]
    \cup [op : {"send", "reject"}, est : Estimates, pc : {"loaded"}]
    \cup [op : {"lines"}, est : Estimates, pc : {"loaded", "deleted"},
          payload : Payloads, old : SUBSET Lines]
    \cup [op : {"calculate"}, est : Estimates, pc : {"loaded", "calculated"},
          had : Nat \cup {NoTotal}, markup : Nat, total : Nat \cup {NoTotal}]
    \cup [op : {"approve"}, est : Estimates, pc : {"loaded", "flushed", "published"},
          total : Nat, qty : Nat, line : [at : Nat \cup {-1}, had : Nat]]
    \cup {Idle}

\* Every row, lock and request holds a value of its type.
TypeOK ==
    /\ status      \in [Estimates -> Statuses \cup {"none", "deleted"}]
    /\ scoped      \in [Estimates -> BOOLEAN]
    /\ snapshotted \in [Estimates -> BOOLEAN]
    /\ markup      \in [Estimates -> Nat]
    /\ total       \in [Estimates -> Nat \cup {NoTotal}]
    /\ lines       \in [Estimates -> SUBSET Lines]
    /\ signed      \in [Estimates -> Seq([total : Nat, qty : Nat])]
    /\ deposits    \in [Estimates -> Seq(Nat)]
    /\ bom \in Seq(Nat)
    /\ rowLock  \in [Estimates -> Requests \cup {Nobody}]
    /\ lineLock \in [Estimates -> Requests \cup {Nobody}]
    /\ numberLock \in Requests \cup {Nobody}
    /\ req \in [Requests -> Requesting]
    /\ raced \in BOOLEAN

HalfUp(n, d) == CHOOSE k \in 0..n : 2 * d * k <= 2 * n + d /\ 2 * n + d < 2 * d * (k + 1)

\* Each signature on a project's estimate has drafted exactly one deposit, for the
\* company's share of the total that was signed, to the nearest cent, also when calls
\* raced and when handlers rolled back (services/estimate_approved_handler.py).
DepositPerSignature ==
    \A e \in Estimates :
        deposits[e] = IF Deposited(e)
                        THEN [k \in DOMAIN signed[e] |->
                                 HalfUp(signed[e][k].total * DepositPercent, 100)]
                        ELSE <<>>

\* An estimate's lines are the list of one request: two concurrent replaces never leave
\* a mixture (estimates.py:684, UNIQUE of migration 0036).
LinesOfOneRequest ==
    \A e \in Estimates : \A x, y \in lines[e] : x.batch = y.batch /\ (x.pos = y.pos => x = y)

QuantitySigned(signatures) == SumFunction([k \in DOMAIN signatures |-> signatures[k].qty])

\* Every quantity signed for on the project's estimates is in its bill of materials, on
\* one row.  Nothing in bom_generation_handler.py sees to it: the deposit's advisory lock,
\* taken first, does.
BomAddsUp ==
    /\ Len(bom) <= 1
    /\ SumFunction(bom) = SumFunction([e \in Estimates |-> QuantitySigned(signed[e])])

\* A signed estimate does not vanish with the deposit that was drafted for it: delete_estimate
\* decides on a status it has read without a lock (estimates.py:334), so that a send and an
\* approval may come in between, and it is the reference of the invoice that stops it then.
\* Where no deposit is drafted (no project, or no accounting module), a signed estimate is
\* deleted only by such a request, which had loaded it before the first signature.
SignedSurvives ==
    [][\A e \in Estimates :
          Exists(e) /\ ~Exists(e)' /\ signed[e] # <<>>
             => /\ ~Deposited(e)
                /\ \E r \in Requests : At(r, "delete", "loaded") /\ req[r].est = e /\ req[r].unsigned]_vars

\* As long as no two requests are in flight on one estimate, what the client is shown or
\* has signed keeps its lines and its total (estimates.py:531, 547, 759, 770).
FrozenWhenAlone ==
    [][\A e \in Estimates :
          ~raced' /\ Exists(e) /\ (snapshotted[e] \/ status[e] = "sent")
             => lines'[e] = lines[e] /\ total'[e] = total[e]]_vars

\* routers/estimates.py:325: a deletion is "Draft-only, same guard as update_estimate above".
OnlyDraftsAreDeleted ==
    [][\A e \in Estimates : Exists(e) /\ ~Exists(e)' => status[e] = "draft"]_vars

\* docs/superpowers/specs/2026-07-20-estimation-esignature-frontend-design.md:55: a rejected
\* estimate is "terminal for sending: the backend has no re-send transition".
RejectedIsNeverResent ==
    [][\A e \in Estimates : status[e] = "rejected" => status'[e] # "sent"]_vars

\* docs/superpowers/plans/2026-07-09-phase-2-estimation-esignature.md:93: once snapshotted,
\* the lines and the total "are never written again by any code path".
SnapshotIsImmutable ==
    [][\A e \in Estimates : snapshotted[e] => lines'[e] = lines[e] /\ total'[e] = total[e]]_vars
=============================================================================
