------------------------------ MODULE Pipeline ------------------------------
(***************************************************************************)
(* From lead to final invoice: routers/leads.py and lead_won_handler.py,   *)
(* the status machine of routers/projects.py with project_completed_       *)
(* handler.py, and routers/change_orders.py.                               *)
(*                                                                         *)
(* As in Invoices and Estimates a request is one READ COMMITTED            *)
(* transaction that decides on the row it loaded and commits in its last   *)
(* step.  Estimates and ordinary invoices appear only as what the          *)
(* completion handler sums up: a project has one estimate, whose approval  *)
(* (with its deposit) and re-opening are single steps of the modules that  *)
(* model them, and its ordinary invoices are all of one amount.  The       *)
(* advisory lock for invoice numbers is the matter of Invoices.  The       *)
(* company is on a tier with the accounting module.                        *)
(***************************************************************************)
EXTENDS Integers, FiniteSets, Functions

CONSTANTS
    Requests,
    Leads,
    Projects,
    ChangeOrders,
    Deltas,          \* the cost_deltas of change orders; a credit is negative
    ContractTotal,   \* the total of the project's estimate
    InvoiceAmount,   \* the amount of a deposit and of an ordinary invoice
    MaxInvoices,     \* bound: live ordinary invoices of one project
    MaxFinals,       \* bound: final invoices of one project
    Nobody, NoProject

ASSUME AmountAssumption == ContractTotal \in Nat /\ InvoiceAmount \in Nat
ASSUME DeltaAssumption  == Deltas \subseteq Int
ASSUME BoundAssumption  == MaxInvoices \in Nat /\ MaxFinals \in Nat
ASSUME FiniteAssumption == IsFiniteSet(ChangeOrders)
ASSUME NobodyAssumption == Nobody \notin Requests /\ NoProject \notin Projects

VARIABLES
    lead,        \* leads.status
    drafted,     \* how many projects each lead has drafted
    status,      \* projects.status; "none" before the row exists
    estimate,    \* of each project: "open", "approved", or "reopened" after it was approved
    invoices,    \* the number of its live ordinary invoices
    finals,      \* the amounts of its live final invoices, each in a slot; a free slot holds 0
    order,       \* the change_orders rows
    rowLock,     \* the holder of the project row, after its UPDATE
    req,
    raced        \* history: the projects something happened to while a request, still running,
                 \* was at work on them, and the leads two requests ever were at work on at once

crm   == <<lead, drafted>>
books == <<estimate, invoices, finals>>
vars  == <<crm, status, books, order, rowLock, req, raced>>

LEAD_TRANSITIONS ==
    [new        |-> {"contacted", "lost"},
     contacted  |-> {"estimating", "lost"},
     estimating |-> {"qualified", "lost"},
     qualified  |-> {"won", "lost"},
     won        |-> {},
     lost       |-> {}]

PROJECT_TRANSITIONS ==
    [draft            |-> {"pre_construction"},
     pre_construction |-> {"active"},
     active           |-> {"suspended", "completed"},
     suspended        |-> {"active", "completed"},
     completed        |-> {"archived"},
     archived         |-> {}]

LeadStatuses    == DOMAIN LEAD_TRANSITIONS
ProjectStatuses == DOMAIN PROJECT_TRANSITIONS

Slots   == 1 .. MaxFinals
Idle    == [op |-> "idle"]
NoOrder == [on |-> NoProject, status |-> "none", delta |-> 0, signed |-> FALSE]

Working(r) == req[r] # Idle
At(r, op, pc) == Working(r) /\ req[r].op = op /\ req[r].pc = pc

\* A request is about a lead or a project; a change order is about its project.
On(r, x) == Working(r) /\ req[r].on = x

Load(r, record) ==
    /\ ~Working(r)
    /\ req' = [req EXCEPT ![r] = record]
    /\ raced' = raced \cup {x \in {record.on} : \E q \in Requests : On(q, x)}
    /\ UNCHANGED <<crm, status, books, order, rowLock>>

End(r) ==
    /\ req' = [req EXCEPT ![r] = Idle]
    /\ rowLock' = [p \in Projects |-> IF rowLock[p] = r THEN Nobody ELSE rowLock[p]]
    /\ raced' = {x \in raced : x \in Leads \/ \E q \in Requests \ {r} : On(q, x)}

OrdersOf(p) == {c \in ChangeOrders : order[c].on = p}
Delta == [c \in ChangeOrders |-> order[c].delta]

\* The three sums of handle_project_completed.
ApprovedTotal(p) == IF estimate[p] = "approved" THEN ContractTotal ELSE 0
ChangeOrderTotal(p) ==
    SumFunctionOnSet(Delta, {c \in OrdersOf(p) : order[c].status = "approved"})
InvoicedTotal(p) == invoices[p] * InvoiceAmount + SumFunction(finals[p])

(* The tests the handlers make, each preceded by the mutant that shows     *)
(* which property depends on it.                                           *)

\* An UPDATE that would not wait for the row's holder.
RowFree_NoWait(p) == TRUE
RowFree(p) == rowLock[p] = Nobody

\* Publishing LEAD_WON for every PATCH that says "won", whatever the lead was.
Wins_Again(seen, to) == to = "won"
Wins(seen, to) == to = "won" /\ seen # to

\* Counting the rejected change orders as open, and the pending ones not.
Blocks_Rejected(c) == order[c].status = "rejected"
Blocks(c) == order[c].status = "pending"

DraftStatus == "draft"

Init ==
    /\ lead     = [l \in Leads |-> "new"]
    /\ drafted  = [l \in Leads |-> 0]
    /\ status   = [p \in Projects |-> "none"]
    /\ estimate = [p \in Projects |-> "open"]
    /\ invoices = [p \in Projects |-> 0]
    /\ finals   = [p \in Projects |-> [k \in Slots |-> 0]]
    /\ order    = [c \in ChangeOrders |-> NoOrder]
    /\ rowLock  = [p \in Projects |-> Nobody]
    /\ req      = [r \in Requests |-> Idle]
    /\ raced    = {}

-----------------------------------------------------------------------------
(* update_lead, and handle_lead_won inside its transaction.  A PATCH that  *)
(* repeats the status it loaded is legal and writes none.  Every project a *)
(* lead drafts is counted; those in Projects are followed further.         *)

UpdateLead(r, l, to) ==
    /\ to = lead[l] \/ to \in LEAD_TRANSITIONS[lead[l]]
    /\ Load(r, [op |-> "lead", on |-> l, pc |-> "loaded", seen |-> lead[l], to |-> to])

CommitLead(r) ==
    LET l == req[r].on IN
    /\ At(r, "lead", "loaded")
    /\ lead' = IF req[r].to = req[r].seen THEN lead ELSE [lead EXCEPT ![l] = req[r].to]
    /\ IF Wins(req[r].seen, req[r].to)
         THEN /\ drafted' = [drafted EXCEPT ![l] = @ + 1]
              /\ \/ /\ \A p \in Projects : status[p] # "none"
                    /\ UNCHANGED status
                 \/ \E p \in Projects :
                       /\ status[p] = "none"
                       /\ status' = [status EXCEPT ![p] = DraftStatus]
         ELSE UNCHANGED <<status, drafted>>
    /\ UNCHANGED <<books, order>>
    /\ End(r)

-----------------------------------------------------------------------------
(* update_project_status.  Completion first counts the pending change      *)
(* orders, then flushes the UPDATE, which takes the row, and then lets the *)
(* handler of PROJECT_COMPLETED read three sums one after the other.       *)

UpdateProjectStatus(r, p, to) ==
    /\ status[p] # "none" /\ to \in PROJECT_TRANSITIONS[status[p]]
    /\ Load(r, [op |-> "status", on |-> p, pc |-> "loaded", to |-> to, contract |-> 0,
                signed |-> FALSE])

Step(r, from, to) ==
    /\ At(r, "status", from)
    /\ UNCHANGED <<crm, status, books, order, raced>>
    /\ req' = [req EXCEPT ![r].pc = to]

CommitStatus(r) ==
    /\ At(r, "status", "loaded") /\ req[r].to # "completed" /\ RowFree(req[r].on)
    /\ status' = [status EXCEPT ![req[r].on] = req[r].to]
    /\ UNCHANGED <<crm, books, order>>
    /\ End(r)

CountPending(r) ==
    /\ Step(r, "loaded", "counted") /\ req[r].to = "completed"
    /\ \A c \in OrdersOf(req[r].on) : ~Blocks(c)
    /\ UNCHANGED rowLock

FlushCompletion(r) ==
    /\ Step(r, "counted", "flushed") /\ RowFree(req[r].on)
    /\ rowLock' = [rowLock EXCEPT ![req[r].on] = r]

SumEstimates(r) ==
    LET p == req[r].on IN
    /\ At(r, "status", "flushed")
    /\ req' = [req EXCEPT ![r].pc = "estimates", ![r].contract = ApprovedTotal(p),
                          ![r].signed = estimate[p] = "approved"]
    /\ UNCHANGED <<crm, status, books, order, rowLock, raced>>

SumChangeOrders(r) ==
    /\ At(r, "status", "estimates")
    /\ req' = [req EXCEPT ![r].pc = "orders",
                          ![r].contract = @ + ChangeOrderTotal(req[r].on)]
    /\ UNCHANGED <<crm, status, books, order, rowLock, raced>>

SumInvoices(r) ==
    /\ At(r, "status", "orders")
    /\ req' = [req EXCEPT ![r].pc = "summed",
                          ![r].contract = @ - InvoicedTotal(req[r].on)]
    /\ UNCHANGED <<crm, status, books, order, rowLock, raced>>

\* No approved estimate or nothing left to bill: the project completes without an invoice.
CommitCompletion(r) ==
    LET p         == req[r].on
        remainder == req[r].contract
        bills     == req[r].signed /\ remainder > 0
    IN
    /\ At(r, "status", "summed")
    /\ status' = [status EXCEPT ![p] = "completed"]
    /\ IF bills THEN \E k \in Slots : /\ finals[p][k] = 0
                                     /\ finals' = [finals EXCEPT ![p][k] = remainder]
                ELSE UNCHANGED finals
    /\ UNCHANGED <<crm, estimate, invoices, order>>
    /\ End(r)

-----------------------------------------------------------------------------
(* Change orders                                                           *)

CreateChangeOrder(r, p, c, delta) ==
    /\ status[p] = "active"
    /\ order[c] = NoOrder
    /\ \A q \in Requests : ~(At(q, "order", "new") /\ req[q].order = c)
    /\ Load(r, [op |-> "order", on |-> p, pc |-> "new", order |-> c, delta |-> delta])

InsertChangeOrder(r) ==
    /\ At(r, "order", "new")
    /\ order' = [order EXCEPT ![req[r].order] =
                    [on |-> req[r].on, status |-> "pending", delta |-> req[r].delta,
                     signed |-> FALSE]]
    /\ UNCHANGED <<crm, status, books>>
    /\ End(r)

\* approve_change_order and reject_change_order decide on the status they loaded.
DecideChangeOrder(r, c, decision) ==
    /\ order[c].status = "pending"
    /\ Load(r, [op |-> "order", on |-> order[c].on, pc |-> decision, order |-> c, delta |-> 0])

ApproveChangeOrder(r) ==
    /\ At(r, "order", "approved")
    /\ order' = [order EXCEPT ![req[r].order].status = "approved",
                              ![req[r].order].signed = TRUE]
    /\ UNCHANGED <<crm, status, books>>
    /\ End(r)

RejectChangeOrder(r) ==
    /\ At(r, "order", "rejected")
    /\ order' = [order EXCEPT ![req[r].order].status = "rejected"]
    /\ UNCHANGED <<crm, status, books>>
    /\ End(r)

-----------------------------------------------------------------------------
(* What the other modules do to a project's books, in one step each.       *)

Meanwhile(p) == raced' = raced \cup {x \in {p} : \E q \in Requests : On(q, x)}

ApproveEstimate(p) ==
    /\ status[p] # "none" /\ estimate[p] # "approved" /\ invoices[p] < MaxInvoices
    /\ estimate' = [estimate EXCEPT ![p] = "approved"]
    /\ invoices' = [invoices EXCEPT ![p] = @ + 1]
    /\ Meanwhile(p)
    /\ UNCHANGED <<crm, status, finals, order, rowLock, req>>

ReopenEstimate(p) ==
    /\ estimate[p] = "approved"
    /\ estimate' = [estimate EXCEPT ![p] = "reopened"]
    /\ Meanwhile(p)
    /\ UNCHANGED <<crm, status, invoices, finals, order, rowLock, req>>

CreateInvoice(p) ==
    /\ status[p] # "none" /\ invoices[p] < MaxInvoices
    /\ invoices' = [invoices EXCEPT ![p] = @ + 1]
    /\ Meanwhile(p)
    /\ UNCHANGED <<crm, status, estimate, finals, order, rowLock, req>>

VoidInvoice(p) ==
    /\ \/ /\ invoices[p] > 0
          /\ invoices' = [invoices EXCEPT ![p] = @ - 1]
          /\ UNCHANGED finals
       \/ /\ \E k \in Slots : finals[p][k] > 0 /\ finals' = [finals EXCEPT ![p][k] = 0]
          /\ UNCHANGED invoices
    /\ Meanwhile(p)
    /\ UNCHANGED <<crm, status, estimate, order, rowLock, req>>

-----------------------------------------------------------------------------

Rollback(r) ==
    /\ Working(r)
    /\ End(r)
    /\ UNCHANGED <<crm, status, books, order>>

Call(r) ==
    \/ \E l \in Leads, to \in LeadStatuses : UpdateLead(r, l, to)
    \/ \E p \in Projects, to \in ProjectStatuses : UpdateProjectStatus(r, p, to)
    \/ \E p \in Projects, c \in ChangeOrders, delta \in Deltas : CreateChangeOrder(r, p, c, delta)
    \/ \E c \in ChangeOrders, decision \in {"approved", "rejected"} :
          DecideChangeOrder(r, c, decision)

Handle(r) ==
    \/ CommitLead(r)
    \/ CommitStatus(r)
    \/ CountPending(r)
    \/ FlushCompletion(r)
    \/ SumEstimates(r)
    \/ SumChangeOrders(r)
    \/ SumInvoices(r)
    \/ CommitCompletion(r)
    \/ InsertChangeOrder(r)
    \/ ApproveChangeOrder(r)
    \/ RejectChangeOrder(r)
    \/ Rollback(r)

Next ==
    \/ \E r \in Requests : Call(r) \/ Handle(r)
    \/ \E p \in Projects :
          ApproveEstimate(p) \/ ReopenEstimate(p) \/ CreateInvoice(p) \/ VoidInvoice(p)

Spec == Init /\ [][Next]_vars

\* A started request is driven to its end by the event loop, or rolled back.
FairSpec == Spec /\ \A r \in Requests : WF_vars(Handle(r))
-----------------------------------------------------------------------------
(* Properties                                                              *)

Requesting ==
    [op : {"lead"}, on : Leads, pc : {"loaded"}, seen : LeadStatuses, to : LeadStatuses]
    \cup [op : {"status"}, on : Projects, to : ProjectStatuses, contract : Int, signed : BOOLEAN,
          pc : {"loaded", "counted", "flushed", "estimates", "orders", "summed"}]
    \cup [op : {"order"}, on : Projects, pc : {"new"}, order : ChangeOrders, delta : Deltas]
    \cup [op : {"order"}, on : Projects, pc : {"approved", "rejected"}, order : ChangeOrders,
          delta : {0}]
    \cup {Idle}

Orders == [on : Projects, status : {"pending", "approved", "rejected"}, delta : Deltas,
           signed : BOOLEAN]

\* Every row, lock and request holds a value of its type.
TypeOK ==
    /\ lead     \in [Leads -> LeadStatuses]
    /\ drafted  \in [Leads -> Nat]
    /\ status   \in [Projects -> ProjectStatuses \cup {"none"}]
    /\ estimate \in [Projects -> {"open", "approved", "reopened"}]
    /\ invoices \in [Projects -> Nat]
    /\ finals   \in [Projects -> [Slots -> Nat]]
    /\ order    \in [ChangeOrders -> Orders \cup {NoOrder}]
    /\ rowLock  \in [Projects -> Requests \cup {Nobody}]
    /\ req      \in [Requests -> Requesting]
    /\ raced \subseteq Leads \cup Projects

\* What completion bills never exceeds what the client has signed for, however many
\* completions of one project run at once and whatever is approved, reopened, billed or
\* voided between the three sums (project_completed_handler.py, "Double-invoicing").
FinalsWithinSigned ==
    \A p \in Projects :
        LET contracted == IF estimate[p] = "open" THEN 0 ELSE ContractTotal
            extras     == {c \in OrdersOf(p) : order[c].signed /\ order[c].delta > 0}
        IN SumFunction(finals[p]) <= contracted + SumFunctionOnSet(Delta, extras)

\* A won lead has drafted a project, and unless two requests were at work on it at once
\* it has drafted exactly one, and a lead that is not won none (leads.py:203, lead_won_handler.py).
WonDraftsOneProject ==
    \A l \in Leads :
        /\ lead[l] = "won" => drafted[l] > 0
        /\ l \notin raced => drafted[l] = IF lead[l] = "won" THEN 1 ELSE 0

\* When nothing happens to a project while it is being completed, it has no pending change
\* order afterwards, and all that the client owes under its approved contract is billed.
CompletionSettles ==
    [][\A p \in Projects :
          p \notin raced /\ status'[p] = "completed" /\ status[p] # "completed" =>
              /\ \A c \in OrdersOf(p)' : order'[c].status # "pending"
              /\ estimate'[p] = "approved" =>
                    InvoicedTotal(p)' >= (ApprovedTotal(p) + ChangeOrderTotal(p))']_vars

\* docs/02-functional-requirements.md:103: "A Project cannot move to
\* Completed while it has open (non-approved) Change Orders".
NeverCompletedWithPending ==
    [][\A p \in Projects : status'[p] = "completed" /\ status[p] # "completed" =>
          \A c \in OrdersOf(p)' : order'[c].status # "pending"]_vars
=============================================================================
