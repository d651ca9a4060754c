------------------------------ MODULE Invoices ------------------------------
(***************************************************************************)
(* Client invoicing (AR): routers/invoices.py, services/invoicing.py and   *)
(* the nightly tasks/flag_overdue_financial_records.py.                    *)
(*                                                                         *)
(* Every request is one PostgreSQL transaction at READ COMMITTED: what it  *)
(* writes is invisible until its last step here, which commits it, and a   *)
(* row or advisory lock it takes is held until that step.  A handler is    *)
(* therefore cut where it may interleave with another: where it loads a    *)
(* row, where it waits for a lock, and where it commits.  A request may    *)
(* also end in a rollback at any point (an HTTPException, a lost           *)
(* connection, a crashed worker).                                          *)
(*                                                                         *)
(* Money is counted in whole cents in the database and in tenths of a cent *)
(* in request bodies, which is enough to tell NUMERIC(12,2) rounding apart *)
(* from the value the client sent.                                         *)
(***************************************************************************)
EXTENDS Integers, FiniteSets

CONSTANTS
    Requests,      \* the transactions that may be in flight at once
    Invoices,      \* the ids create_invoice and the event handlers may use
    Companies,
    CompanyOf,     \* the company of the project each invoice is drawn on
    RawAmounts,    \* the amounts request bodies carry, in tenths of a cent
    BodyDates,     \* the due dates request bodies carry, "none" when they carry none
    Scanner,       \* the nightly job, as the holder of a lock
    Nobody         \* the holder of a free lock

ASSUME CompanyAssumption == CompanyOf \in [Invoices -> Companies]
ASSUME AmountAssumption  == RawAmounts \subseteq Nat \ {0}
ASSUME FiniteAssumption  == IsFiniteSet(Invoices)
ASSUME HolderAssumption  == Nobody \notin Requests /\ Scanner \notin Requests
                            /\ Nobody # Scanner

VARIABLES
    status,        \* invoices.status, "none" before the row exists
    amount,        \* invoices.amount, in cents
    number,        \* the counter in invoices.invoice_number, 0 before the row exists
    due,           \* invoices.due_date: "none", "future" or "past"
    paid,          \* the sum of the committed invoice_payments rows
    rowLock,       \* SELECT ... FOR UPDATE on the invoice row
    numberLock,    \* pg_advisory_xact_lock keyed on the company
    req,           \* where each transaction stands
    raced          \* history: two requests have been in flight on one invoice

rows  == <<status, amount, number, due, paid>>
locks == <<rowLock, numberLock>>
vars  == <<rows, locks, req, raced>>

Statuses == {"draft", "sent", "paid", "overdue", "void"}
DueDates == {"none", "future", "past"}

ASSUME DateAssumption == BodyDates \subseteq DueDates

Idle == [op |-> "idle"]

\* Decimal.quantize(CENTS, ROUND_HALF_UP): tenths of a cent to cents
Quantize(raw) == (raw + 5) \div 10

Cents == {Quantize(raw) : raw \in RawAmounts}

InvoicesOf(c) == {i \in Invoices : CompanyOf[i] = c /\ status[i] # "none"}

Working(r) == req[r] # Idle

On(r, i) == Working(r) /\ req[r].inv = i

\* A request joins: it is raced if another one already works on the same row.
Begin(r, record) ==
    /\ ~Working(r)
    /\ req' = [req EXCEPT ![r] = record]
    /\ raced' = (raced \/ \E q \in Requests \ {r} : On(q, record.inv))

\* A transaction ends, by commit or by rollback, and its locks go with it.
End(r) ==
    /\ req' = [req EXCEPT ![r] = Idle]
    /\ rowLock' = [i \in Invoices |-> IF rowLock[i] = r THEN Nobody ELSE rowLock[i]]
    /\ numberLock' = [c \in Companies |-> IF numberLock[c] = r THEN Nobody ELSE numberLock[c]]
    /\ UNCHANGED raced

(* The tests the handlers make, each preceded by the mutants that show     *)
(* which property depends on it.                                           *)

\* A plain SELECT, without FOR UPDATE, would not wait for the row's holder.
RowFree_NoWait(i) == TRUE
RowFree(i) == rowLock[i] = Nobody

\* Without pg_advisory_xact_lock nothing would keep a second count out.
NumberFree_NoLock(c) == TRUE
NumberFree(c) == numberLock[c] = Nobody

\* Counting only the live invoices would hand out a void one's number again.
Counted_Live(c) == {i \in InvoicesOf(c) : status[i] # "void"}
Counted(c) == InvoicesOf(c)

\* The 422 of send_invoice.
Sendable(i, date) == status[i] = "draft" /\ (date # "none" \/ due[i] # "none")

Payable(seen) == seen \notin {"draft", "void", "paid"}

\* Adding the payment to a sum that already includes it.
Settles_Twice(i, amt) == paid[i] + 2 * amt >= amount[i]
Settles(i, amt) == paid[i] + amt >= amount[i]

Voidable_Paid(seen) == seen # "void"
Voidable(seen) == seen \notin {"paid", "void"}

VoidStatus == "void"

\* A WHERE clause that selects the wrong status.
PastDue_Drafts(i) == status[i] = "draft" /\ due[i] = "past"
PastDue(i) == status[i] = "sent" /\ due[i] = "past"

Init ==
    /\ status = [i \in Invoices |-> "none"]
    /\ amount = [i \in Invoices |-> 0]
    /\ number = [i \in Invoices |-> 0]
    /\ due    = [i \in Invoices |-> "none"]
    /\ paid   = [i \in Invoices |-> 0]
    /\ rowLock    = [i \in Invoices |-> Nobody]
    /\ numberLock = [c \in Companies |-> Nobody]
    /\ req = [r \in Requests |-> Idle]
    /\ raced = FALSE

-----------------------------------------------------------------------------
(* create_invoice, and the two event handlers that draft an invoice inside *)
(* another handler's transaction: the deposit of an approved estimate and  *)
(* the final invoice of a completed project.                               *)

CreateInvoice(r, i, raw, date) ==
    /\ status[i] = "none"
    /\ \A q \in Requests : ~On(q, i)
    /\ Begin(r, [op |-> "create", inv |-> i, pc |-> "loaded",
                 amt |-> Quantize(raw), date |-> date, num |-> 0])
    /\ UNCHANGED <<rows, locks>>

\* pg_advisory_xact_lock, then SELECT count(*): the count is read under the lock.
NextInvoiceNumber(r) ==
    LET c == CompanyOf[req[r].inv] IN
    /\ Working(r) /\ req[r].op = "create" /\ req[r].pc = "loaded"
    /\ NumberFree(c)
    /\ numberLock' = [numberLock EXCEPT ![c] = r]
    /\ req' = [req EXCEPT ![r].pc = "counted", ![r].num = Cardinality(Counted(c)) + 1]
    /\ UNCHANGED <<rows, rowLock, raced>>

InsertInvoice(r) ==
    LET i == req[r].inv IN
    /\ Working(r) /\ req[r].op = "create" /\ req[r].pc = "counted"
    /\ status' = [status EXCEPT ![i] = "draft"]
    /\ amount' = [amount EXCEPT ![i] = req[r].amt]
    /\ number' = [number EXCEPT ![i] = req[r].num]
    /\ due'    = [due    EXCEPT ![i] = req[r].date]
    /\ UNCHANGED paid
    /\ End(r)

-----------------------------------------------------------------------------
(* send_invoice takes no lock: it reads the row, checks "draft", and its   *)
(* UPDATE waits only for whoever holds the row.  The ORM writes the due    *)
(* date only when the body brings another one.                             *)

SendInvoice(r, i, date) ==
    /\ Sendable(i, date)
    /\ Begin(r, [op |-> "send", inv |-> i, pc |-> "loaded", date |-> date])
    /\ UNCHANGED <<rows, locks>>

CommitSend(r) ==
    LET i == req[r].inv IN
    /\ Working(r) /\ req[r].op = "send"
    /\ RowFree(i)
    /\ status' = [status EXCEPT ![i] = "sent"]
    /\ due'    = [due    EXCEPT ![i] = IF req[r].date = "none" THEN @ ELSE req[r].date]
    /\ UNCHANGED <<amount, number, paid>>
    /\ End(r)

-----------------------------------------------------------------------------
(* record_invoice_payment and void_invoice load the row, then load it      *)
(* again FOR UPDATE.  The second SELECT waits for the lock but returns the *)
(* object the session already holds: without populate_existing the ORM     *)
(* leaves its loaded attributes alone, so "seen", the status the guards    *)
(* test, stays the one read before the wait.  SUM(payments) is a query of  *)
(* its own and does see what was committed meanwhile.                      *)

RecordInvoicePayment(r, i, raw) ==
    /\ status[i] # "none"
    /\ Begin(r, [op |-> "pay", inv |-> i, pc |-> "loaded", seen |-> status[i],
                 amt |-> Quantize(raw), already |-> 0])
    /\ UNCHANGED <<rows, locks>>

VoidInvoice(r, i) ==
    /\ status[i] # "none"
    /\ Begin(r, [op |-> "void", inv |-> i, pc |-> "loaded", seen |-> status[i]])
    /\ UNCHANGED <<rows, locks>>

LockInvoice(r) ==
    LET i == req[r].inv IN
    /\ Working(r) /\ req[r].op \in {"pay", "void"} /\ req[r].pc = "loaded"
    /\ RowFree(i)
    /\ rowLock' = [rowLock EXCEPT ![i] = r]
    /\ req' = [req EXCEPT ![r] =
                  IF @.op = "pay" THEN [@ EXCEPT !.pc = "locked", !.already = paid[i]]
                                  ELSE [@ EXCEPT !.pc = "locked"]]
    /\ UNCHANGED <<rows, numberLock, raced>>

CommitPayment(r) ==
    LET i == req[r].inv IN
    /\ Working(r) /\ req[r].op = "pay" /\ req[r].pc = "locked"
    /\ Payable(req[r].seen)
    /\ req[r].amt <= amount[i] - req[r].already
    /\ paid' = [paid EXCEPT ![i] = @ + req[r].amt]
    /\ status' = IF Settles(i, req[r].amt) THEN [status EXCEPT ![i] = "paid"] ELSE status
    /\ UNCHANGED <<amount, number, due>>
    /\ End(r)

CommitVoid(r) ==
    LET i == req[r].inv IN
    /\ Working(r) /\ req[r].op = "void" /\ req[r].pc = "locked"
    /\ Voidable(req[r].seen)
    /\ status' = [status EXCEPT ![i] = VoidStatus]
    /\ UNCHANGED <<amount, number, due, paid>>
    /\ End(r)

-----------------------------------------------------------------------------

Rollback(r) ==
    /\ Working(r)
    /\ End(r)
    /\ UNCHANGED rows

\* The calendar: external to the code, which compares due_date with CURRENT_DATE.
DueDatePasses(i) ==
    /\ due[i] = "future"
    /\ due' = [due EXCEPT ![i] = "past"]
    /\ UNCHANGED <<status, amount, number, paid, locks, req, raced>>

(* flag_overdue: one set-based UPDATE ... WHERE status = 'sent' AND         *)
(* due_date < CURRENT_DATE.  It locks the rows one by one, waiting for     *)
(* each and testing the WHERE clause on what it then finds, and commits    *)
(* them together.                                                          *)

FlagRow(i) ==
    /\ PastDue(i)
    /\ RowFree(i)
    /\ rowLock' = [rowLock EXCEPT ![i] = Scanner]
    /\ UNCHANGED <<rows, numberLock, req, raced>>

Flagged == {i \in Invoices : rowLock[i] = Scanner}

ReleaseFlagged ==
    /\ Flagged # {}
    /\ rowLock' = [i \in Invoices |-> IF i \in Flagged THEN Nobody ELSE rowLock[i]]
    /\ UNCHANGED <<amount, number, due, paid, numberLock, req, raced>>

FlagOverdue ==
    /\ ReleaseFlagged
    /\ status' = [i \in Invoices |-> IF i \in Flagged THEN "overdue" ELSE status[i]]

FlagOverdueFails ==
    /\ ReleaseFlagged
    /\ UNCHANGED status

Handle(r) ==
    \/ NextInvoiceNumber(r)
    \/ InsertInvoice(r)
    \/ CommitSend(r)
    \/ LockInvoice(r)
    \/ CommitPayment(r)
    \/ CommitVoid(r)
    \/ Rollback(r)

Call(r) ==
    \E i \in Invoices :
        \/ \E raw \in RawAmounts, date \in BodyDates : CreateInvoice(r, i, raw, date)
        \/ \E date \in BodyDates : SendInvoice(r, i, date)
        \/ \E raw \in RawAmounts : RecordInvoicePayment(r, i, raw)
        \/ VoidInvoice(r, i)

Next ==
    \/ \E r \in Requests : Call(r) \/ Handle(r)
    \/ \E i \in Invoices : DueDatePasses(i) \/ FlagRow(i)
    \/ FlagOverdue
    \/ FlagOverdueFails

Spec == Init /\ [][Next]_vars

(* A started request is driven to its end by the event loop, or rolled     *)
(* back when its connection times out.  The overdue job runs every night,  *)
(* waits in PostgreSQL's lock queue without being passed over for ever,    *)
(* and does not fail every time (three retries, then the next night).      *)
Fairness ==
    /\ \A r \in Requests : WF_vars(Handle(r))
    /\ \A i \in Invoices : SF_vars(FlagRow(i))
    /\ SF_vars(FlagOverdue)

FairSpec == Spec /\ Fairness
-----------------------------------------------------------------------------
(* Properties                                                              *)

Creating == [op : {"create"}, inv : Invoices, pc : {"loaded", "counted"},
             amt : Cents, date : DueDates, num : Nat]
Sending  == [op : {"send"}, inv : Invoices, pc : {"loaded"}, date : DueDates]
Paying   == [op : {"pay"}, inv : Invoices, pc : {"loaded", "locked"},
             seen : Statuses, amt : Cents, already : Nat]
Voiding  == [op : {"void"}, inv : Invoices, pc : {"loaded", "locked"}, seen : Statuses]

Requesting == Creating \cup Sending \cup Paying \cup Voiding \cup {Idle}

\* Every row, lock and request holds a value of its type.
TypeOK ==
    /\ status \in [Invoices -> Statuses \cup {"none"}]
    /\ amount \in [Invoices -> Nat]
    /\ number \in [Invoices -> Nat]
    /\ due    \in [Invoices -> DueDates]
    /\ paid   \in [Invoices -> Nat]
    /\ rowLock    \in [Invoices  -> Requests \cup {Nobody, Scanner}]
    /\ numberLock \in [Companies -> Requests \cup {Nobody}]
    /\ req \in [Requests -> Requesting]
    /\ raced \in BOOLEAN

\* The payments recorded against an invoice never exceed its amount, however
\* many of them, and of voids and sends, are in flight (routers/invoices.py:235).
PaidWithinAmount == \A i \in Invoices : paid[i] <= amount[i]

\* An invoice marked paid has been paid in full, also when the mark comes from a
\* payment that raced a void or a second send (routers/invoices.py:253-256).
PaidMeansSettled == \A i \in Invoices : status[i] = "paid" => paid[i] = amount[i]

\* The invoices of a company are numbered 1, 2, 3, ... with no gap and no
\* duplicate, whoever drafts them and whatever is rolled back (services/invoicing.py).
NumbersSequential ==
    \A c \in Companies :
        /\ {number[i] : i \in InvoicesOf(c)} = 1..Cardinality(InvoicesOf(c))
        /\ \A i, j \in InvoicesOf(c) : number[i] = number[j] => i = j

\* An invoice the client has received bears a due date, so that the nightly job
\* can find it, and money is only ever recorded on one that was sent.
IssuedProperly ==
    \A i \in Invoices :
        /\ status[i] \in {"sent", "overdue"} => due[i] # "none"
        /\ status[i] \in {"none", "draft"} => paid[i] = 0

\* As long as no two requests are in flight on one invoice, paid and void are
\* final and an invoice paid in full with real money is marked paid.
FinalWhenAlone ==
    [][~raced' => \A i \in Invoices :
          /\ status[i] \in {"paid", "void"} => status'[i] = status[i]
          /\ paid'[i] # paid[i] /\ paid'[i] = amount[i] => status'[i] = "paid"]_vars

\* Money and number in, status out: what the statuses do never changes the books.
Books == INSTANCE Ledger WITH billed <- amount, collected <- paid
LedgerSpec == Books!Spec

\* An invoice still awaiting payment after its due date is flagged overdue, paid,
\* voided or given another date in the end (docs/02-functional-requirements.md, US-5.8).
PastDueIsFlagged ==
    \A i \in Invoices :
        LET awaited == status[i] = "sent" /\ due[i] = "past" IN awaited ~> ~awaited

\* void_invoice's comment (routers/invoices.py:314-321): the row lock keeps a void
\* from reading a stale status and voiding "an invoice a payment just settled".
SettledIsNeverVoided ==
    [][\A i \in Invoices : status[i] = "paid" => status'[i] # "void"]_vars
=============================================================================
