------------------------------ MODULE Payables ------------------------------
(***************************************************************************)
(* Bills, the payable counterpart of invoices: routers/bills.py and the    *)
(* second statement of tasks/flag_overdue_financial_records.py.            *)
(*                                                                         *)
(* Payments and voids load the bill, then select it again FOR UPDATE.  As  *)
(* with invoices the second select waits for the holder of the row but     *)
(* returns the object the session has loaded, so the status the guards     *)
(* test is the one seen before the wait; the sum of the payments is fresh. *)
(* Amounts are counted as in module Invoices: cents in the database,       *)
(* tenths of a cent in request bodies.                                     *)
(***************************************************************************)
EXTENDS Integers

CONSTANTS
    Bills,
    Clerks,         \* the requests that may be in flight at once
    RawSums,        \* the amounts request bodies carry, in tenths of a cent
    Nobody

ASSUME PayablesAssumption == RawSums \subseteq Nat \ {0} /\ Nobody \notin Clerks

VARIABLES
    bill,           \* the rows: status ("none" before there is one), amount, late (due_date < today)
    settled,        \* the sum of the committed bill_payments of each bill
    holder,         \* SELECT ... FOR UPDATE
    job             \* where each request stands

bvars == <<bill, settled, holder, job>>

Quantize(raw) == (raw + 5) \div 10

BillStatuses == {"none", "unpaid", "overdue", "paid", "void"}

NoJob == [at |-> "idle"]
BillJobs == [at : {"loaded", "locked", "summed"}, op : {"pay", "void"}, bill : Bills,
             seen : BillStatuses \ {"none"}, amount : Nat, already : Nat]

PayablesTypeOK ==
    /\ bill \in [Bills -> [status : BillStatuses, amount : Nat, late : BOOLEAN]]
    /\ settled \in [Bills -> Nat]
    /\ holder \in [Bills -> Clerks \cup {Nobody}]
    /\ job \in [Clerks -> {NoJob} \cup BillJobs]

InitPayables ==
    /\ bill = [b \in Bills |-> [status |-> "none", amount |-> 0, late |-> FALSE]]
    /\ settled = [b \in Bills |-> 0]
    /\ holder = [b \in Bills |-> Nobody]
    /\ job = [c \in Clerks |-> NoJob]

Payable(seen) == seen \notin {"void", "paid"}

\* "amount > remaining" is refused; testing against the whole amount would not do.
WithinRemaining_Whole(c) == job[c].amount <= bill[job[c].bill].amount
WithinRemaining(c) == job[c].amount <= bill[job[c].bill].amount - job[c].already

Settles(b, amt) == settled[b] + amt >= bill[b].amount

JobAt(c, op, at) == job[c].at = at /\ job[c].op = op
Release(c) ==
    /\ job' = [job EXCEPT ![c] = NoJob]
    /\ holder' = [b \in Bills |-> IF holder[b] = c THEN Nobody ELSE holder[b]]

CreateBill(b, raw) ==
    /\ bill[b].status = "none"
    /\ bill' = [bill EXCEPT ![b] = [status |-> "unpaid", amount |-> Quantize(raw), late |-> FALSE]]
    /\ UNCHANGED <<settled, holder, job>>

LoadBill(c, b, op, raw) ==
    /\ job[c].at = "idle" /\ bill[b].status # "none"
    /\ job' = [job EXCEPT ![c] = [at |-> "loaded", op |-> op, bill |-> b, seen |-> bill[b].status,
                                  amount |-> Quantize(raw), already |-> 0]]
    /\ UNCHANGED <<bill, settled, holder>>

LockBill(c) ==
    /\ job[c].at = "loaded" /\ holder[job[c].bill] = Nobody
    /\ holder' = [holder EXCEPT ![job[c].bill] = c]
    /\ job' = [job EXCEPT ![c].at = "locked"]
    /\ UNCHANGED <<bill, settled>>

\* _paid_amount, a query of its own.
SumPayments(c) ==
    /\ JobAt(c, "pay", "locked")
    /\ Payable(job[c].seen)
    /\ job' = [job EXCEPT ![c].at = "summed", ![c].already = settled[job[c].bill]]
    /\ UNCHANGED <<bill, settled, holder>>

\* The payment, the status when it settles the bill, the commit.
RecordBillPayment(c) ==
    /\ JobAt(c, "pay", "summed")
    /\ WithinRemaining(c)
    /\ LET b == job[c].bill  amt == job[c].amount IN
           /\ settled' = [settled EXCEPT ![b] = @ + amt]
           /\ bill' = [bill EXCEPT ![b].status = IF Settles(b, amt) THEN "paid" ELSE @]
    /\ Release(c)

VoidBill(c) ==
    /\ JobAt(c, "void", "locked")
    /\ Payable(job[c].seen)
    /\ bill' = [bill EXCEPT ![job[c].bill].status = "void"]
    /\ UNCHANGED settled
    /\ Release(c)

\* A 409, or a rollback at any point.
Refuse(c) ==
    /\ job[c].at # "idle"
    /\ Release(c)
    /\ UNCHANGED <<bill, settled>>

DueDatePasses(b) ==
    /\ bill[b].status # "none" /\ ~bill[b].late
    /\ bill' = [bill EXCEPT ![b].late = TRUE]
    /\ UNCHANGED <<settled, holder, job>>

PastDue_Any(b) == bill[b].late /\ bill[b].status # "none"
PastDue(b) == bill[b].late /\ bill[b].status = "unpaid"

\* One row of the UPDATE, which waits for the row and tests it again.
FlagOverdue(b) ==
    /\ PastDue(b) /\ holder[b] = Nobody
    /\ bill' = [bill EXCEPT ![b].status = "overdue"]
    /\ UNCHANGED <<settled, holder, job>>

NextPayables ==
    \/ \E b \in Bills : DueDatePasses(b) \/ FlagOverdue(b) \/ \E raw \in RawSums : CreateBill(b, raw)
    \/ \E c \in Clerks, b \in Bills :
           LoadBill(c, b, "void", 0) \/ \E raw \in RawSums : LoadBill(c, b, "pay", raw)
    \/ \E c \in Clerks : LockBill(c) \/ SumPayments(c) \/ RecordBillPayment(c) \/ VoidBill(c) \/ Refuse(c)

PayablesSpec == InitPayables /\ [][NextPayables]_bvars

-----------------------------------------------------------------------------

\* Whatever payments, voids and the nightly job do to one bill at once, it is
\* never paid beyond its amount; it says 'paid' only when its payments add up,
\* and once they do nothing but a void says otherwise.
BooksAgree ==
    \A b \in Bills : bill[b].status # "none" =>
        /\ settled[b] <= bill[b].amount
        /\ bill[b].status = "paid" => settled[b] = bill[b].amount
        /\ settled[b] = bill[b].amount /\ settled[b] > 0 => bill[b].status \in {"paid", "void"}
=============================================================================
