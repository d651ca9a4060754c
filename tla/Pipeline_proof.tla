---------------------------- MODULE Pipeline_proof ----------------------------
(***************************************************************************)
(* Proofs about Pipeline: for any number of requests, leads, projects and  *)
(* change orders, and for every amount.                                    *)
(***************************************************************************)
EXTENDS Pipeline, Sums

-----------------------------------------------------------------------------
(* What the client has signed, and the inductive invariant.                *)

Contracted(p) == IF estimate[p] = "open" THEN 0 ELSE ContractTotal
Extras(p)     == {c \in OrdersOf(p) : order[c].signed /\ order[c].delta > 0}
Signed(p)     == Contracted(p) + SumFunctionOnSet(Delta, Extras(p))

Completing(r) == req[r].op = "status" /\ req[r].pc # "loaded"
Flushed(r)    == Completing(r) /\ req[r].pc # "counted"

\* Who has flushed the UPDATE of a project holds its row until it ends.
HoldRows == \A r \in Requests : Flushed(r) => rowLock[req[r].on] = r

\* What is being created has no row yet, and only one request creates it; a row being decided is
\* there, on the project of the request.
RowsInOrder ==
    \A r \in Requests : req[r].op = "order" =>
        IF req[r].pc = "new"
          THEN /\ order[req[r].order] = NoOrder
               /\ \A q \in Requests \ {r} : At(q, "order", "new") => req[q].order # req[r].order
          ELSE order[req[r].order] # NoOrder /\ order[req[r].order].on = req[r].on

\* Only what was signed is approved.
ApprovedIsSigned == \A c \in ChangeOrders : order[c].status = "approved" => order[c].signed

\* The running sum never exceeds what is signed by now, less what is billed by now.
SumsBounded ==
    \A r \in Requests, p \in Projects : req[r].op = "status" /\ req[r].on = p =>
        /\ req[r].pc = "estimates" => req[r].contract <= Contracted(p)
        /\ req[r].pc = "orders" => req[r].contract <= Signed(p)
        /\ req[r].pc = "summed" => req[r].contract + SumFunction(finals[p]) <= Signed(p)

\* Two requests at work on one thing are remembered.
Crowds ==
    \A r \in Requests : \A q \in Requests \ {r} :
        Working(r) /\ Working(q) /\ req[q].on = req[r].on => req[r].on \in raced

\* A request that is alone with its lead has loaded it as it is.
LeadsSeen ==
    \A r \in Requests : req[r].op = "lead" =>
        /\ req[r].to = req[r].seen \/ req[r].to \in LEAD_TRANSITIONS[req[r].seen]
        /\ req[r].on \notin raced => req[r].seen = lead[req[r].on]

\* A completion that is alone with its project has counted and summed it as it is.
SumsExact ==
    \A r \in Requests, p \in Projects : Completing(r) /\ req[r].on = p /\ p \notin raced =>
            /\ \A c \in OrdersOf(p) : order[c].status # "pending"
            /\ req[r].pc \in {"estimates", "orders", "summed"} =>
                  req[r].signed = (estimate[p] = "approved")
            /\ req[r].pc = "estimates" => req[r].contract = ApprovedTotal(p)
            /\ req[r].pc = "orders" => req[r].contract = ApprovedTotal(p) + ChangeOrderTotal(p)
            /\ req[r].pc = "summed" =>
                  req[r].contract = ApprovedTotal(p) + ChangeOrderTotal(p) - InvoicedTotal(p)

-----------------------------------------------------------------------------
(* Types.                                                                  *)

LeadRequests   == [op : {"lead"}, on : Leads, pc : {"loaded"}, seen : LeadStatuses, to : LeadStatuses]
StatusRequests ==
    [op : {"status"}, on : Projects, to : ProjectStatuses, contract : Int, signed : BOOLEAN,
     pc : {"loaded", "counted", "flushed", "estimates", "orders", "summed"}]
OrderRequests  ==
    [op : {"order"}, on : Projects, pc : {"new"}, order : ChangeOrders, delta : Deltas]
    \cup [op : {"order"}, on : Projects, pc : {"approved", "rejected"}, order : ChangeOrders,
          delta : {0}]

\* The type of a request, by what it is about.
LEMMA RequestKinds ==
    ASSUME NEW x \in Requesting
    PROVE  /\ x.op \in {"idle", "lead", "status", "order"}
           /\ x.op = "idle" <=> x = Idle
           /\ x.op = "lead" => x \in LeadRequests
           /\ x.op = "status" => x \in StatusRequests
           /\ x.op = "order" => x \in OrderRequests
  BY DEF Requesting, Idle, LeadRequests, StatusRequests, OrderRequests

LEMMA KindsAreRequests ==
    /\ LeadRequests \subseteq Requesting
    /\ StatusRequests \subseteq Requesting
    /\ OrderRequests \subseteq Requesting
    /\ Idle \in Requesting
  BY DEF Requesting, LeadRequests, StatusRequests, OrderRequests

\* A request that is started, that moves on and that ends is typed.
LEMMA LoadTyped ==
    ASSUME TypeOK, NEW r \in Requests, NEW record \in Requesting, record # Idle, Load(r, record)
    PROVE  req' \in [Requests -> Requesting] /\ raced' \subseteq Leads \cup Projects
  <1>1. record.on \in Leads \cup Projects
    BY RequestKinds DEF LeadRequests, StatusRequests, OrderRequests
  <1>2. req' = [req EXCEPT ![r] = record] /\ raced' \subseteq raced \cup {record.on}
    BY DEF Load
  <1> QED
    BY <1>1, <1>2 DEF TypeOK

LEMMA EndTyped ==
    ASSUME TypeOK, NEW r \in Requests, End(r)
    PROVE  /\ req' \in [Requests -> Requesting] /\ raced' \subseteq Leads \cup Projects
           /\ rowLock' \in [Projects -> Requests \cup {Nobody}]
  <1>1. raced' \subseteq raced
    BY DEF End
  <1> QED
    BY <1>1, KindsAreRequests DEF TypeOK, End

LEMMA RowsTyped ==
    ASSUME TypeOK, NEW c \in ChangeOrders
    PROVE  /\ order[c].delta \in Int /\ Delta[c] = order[c].delta
           /\ order[c] # NoOrder => /\ order[c] \in Orders /\ order[c].on \in Projects
                                   /\ order[c].status \in {"pending", "approved", "rejected"}
           /\ order[c] = NoOrder => order[c].on \notin Projects /\ order[c].status = "none"
  <1>1. order[c] \in Orders \/ order[c] = NoOrder
    BY DEF TypeOK
  <1>2. order[c].delta \in Int
    <2>1. order[c] \in Orders => order[c].delta \in Deltas
      BY DEF Orders
    <2>2. order[c] = NoOrder => order[c].delta = 0
      BY DEF NoOrder
    <2>3. Deltas \subseteq Int /\ 0 \in Int
      BY DeltaAssumption DEF DeltaAssumption
    <2> QED
      BY <1>1, <2>1, <2>2, <2>3, Zenon
  <1>3. order[c] \in Orders => /\ order[c].on \in Projects
                               /\ order[c].status \in {"pending", "approved", "rejected"}
    BY DEF Orders
  <1>4. order[c] = NoOrder => order[c].on \notin Projects /\ order[c].status = "none"
    BY NobodyAssumption DEF NoOrder
  <1> QED
    BY <1>1, <1>2, <1>3, <1>4 DEF Delta

LEMMA SumsTyped ==
    ASSUME TypeOK, NEW p \in Projects
    PROVE  /\ ApprovedTotal(p) \in Nat /\ ContractTotal \in Nat
           /\ ChangeOrderTotal(p) \in Int
           /\ InvoicedTotal(p) \in Nat
           /\ SumFunction(finals[p]) \in Nat
           /\ SumFunction(finals[p]) <= InvoicedTotal(p)
  <1>1. ApprovedTotal(p) \in Nat /\ ContractTotal \in Nat
    BY AmountAssumption DEF ApprovedTotal
  <1>2. \A c \in ChangeOrders : Delta[c] \in Int
    BY RowsTyped
  <1>3. ChangeOrderTotal(p) \in Int
    <2> DEFINE S == {c \in OrdersOf(p) : order[c].status = "approved"}
    <2>1. S \subseteq ChangeOrders
      BY DEF OrdersOf
    <2>2. IsFiniteSet(S)
      BY <2>1, FiniteAssumption, FS_Subset
    <2>3. \A c \in S : Delta[c] \in Int
      BY <1>2, <2>1
    <2> HIDE DEF S
    <2>4. SumFunctionOnSet(Delta, S) \in Int
      BY <2>2, <2>3, SumInt
    <2> QED
      BY <2>4 DEF ChangeOrderTotal, S
  <1>4. SumFunction(finals[p]) \in Nat
    <2>1. DOMAIN finals[p] = Slots /\ \A k \in Slots : finals[p][k] \in Nat
      BY DEF TypeOK
    <2>2. IsFiniteSet(Slots)
      BY BoundAssumption, FS_Interval DEF Slots
    <2>3. SumFunctionOnSet(finals[p], Slots) \in Nat
      <3> DEFINE F == finals[p]
      <3>1. \A k \in Slots : F[k] \in Nat /\ F[k] \in Int
        BY <2>1
      <3> HIDE DEF F
      <3>2. SumFunctionOnSet(F, Slots) \in Nat
        BY <2>2, <3>1, SumInt
      <3> QED
        BY <3>2 DEF F
    <2> QED
      BY <2>1, <2>3 DEF SumFunction
  <1>5. invoices[p] * InvoiceAmount \in Nat
    <2>1. \A a, b \in Nat : a * b \in Nat
      OBVIOUS
    <2> QED
      BY <2>1, AmountAssumption DEF TypeOK
  <1> QED
    BY <1>1, <1>3, <1>4, <1>5 DEF InvoicedTotal

-----------------------------------------------------------------------------
(* Every step keeps the types.                                             *)

\* What a request holds when it starts.
Fresh(x) ==
    /\ x.op = "lead" => /\ x.seen = lead[x.on]
                        /\ x.to = x.seen \/ x.to \in LEAD_TRANSITIONS[x.seen]
    /\ x.op = "status" => x.pc = "loaded"
    /\ x.op = "order" =>
          IF x.pc = "new"
            THEN /\ order[x.order] = NoOrder
                 /\ \A q \in Requests : At(q, "order", "new") => req[q].order # x.order
            ELSE order[x.order] # NoOrder /\ order[x.order].on = x.on

LEMMA CallLoads ==
    ASSUME TypeOK, NEW r \in Requests, Call(r)
    PROVE  \E record \in Requesting : record # Idle /\ Fresh(record) /\ Load(r, record)
  <1>1. ASSUME NEW l \in Leads, NEW to \in LeadStatuses, UpdateLead(r, l, to)
        PROVE  \E record \in Requesting : record # Idle /\ Fresh(record) /\ Load(r, record)
    <2> DEFINE record == [op |-> "lead", on |-> l, pc |-> "loaded", seen |-> lead[l], to |-> to]
    <2>1. record \in LeadRequests /\ record.op # "idle"
      BY DEF LeadRequests, TypeOK
    <2>2. Load(r, record)
      BY <1>1 DEF UpdateLead
    <2>9. Fresh(record)
      BY <1>1 DEF UpdateLead, Fresh
    <2> HIDE DEF record
    <2> QED
      BY <2>1, <2>2, <2>9, KindsAreRequests, RequestKinds
  <1>2. ASSUME NEW p \in Projects, NEW to \in ProjectStatuses, UpdateProjectStatus(r, p, to)
        PROVE  \E record \in Requesting : record # Idle /\ Fresh(record) /\ Load(r, record)
    <2> DEFINE record == [op |-> "status", on |-> p, pc |-> "loaded", to |-> to, contract |-> 0,
                          signed |-> FALSE]
    <2>1. record \in StatusRequests /\ record.op # "idle"
      BY DEF StatusRequests
    <2>2. Load(r, record)
      BY <1>2 DEF UpdateProjectStatus
    <2>9. Fresh(record)
      BY DEF Fresh
    <2> HIDE DEF record
    <2> QED
      BY <2>1, <2>2, <2>9, KindsAreRequests, RequestKinds
  <1>3. ASSUME NEW p \in Projects, NEW c \in ChangeOrders, NEW delta \in Deltas,
               CreateChangeOrder(r, p, c, delta)
        PROVE  \E record \in Requesting : record # Idle /\ Fresh(record) /\ Load(r, record)
    <2> DEFINE record == [op |-> "order", on |-> p, pc |-> "new", order |-> c, delta |-> delta]
    <2>1. record \in OrderRequests /\ record.op # "idle"
      BY DEF OrderRequests
    <2>2. Load(r, record)
      BY <1>3 DEF CreateChangeOrder
    <2>9. Fresh(record)
      BY <1>3 DEF CreateChangeOrder, Fresh
    <2> HIDE DEF record
    <2> QED
      BY <2>1, <2>2, <2>9, KindsAreRequests, RequestKinds
  <1>4. ASSUME NEW c \in ChangeOrders, NEW decision \in {"approved", "rejected"},
               DecideChangeOrder(r, c, decision)
        PROVE  \E record \in Requesting : record # Idle /\ Fresh(record) /\ Load(r, record)
    <2> DEFINE record == [op |-> "order", on |-> order[c].on, pc |-> decision, order |-> c,
                          delta |-> 0]
    <2>1. order[c].on \in Projects
      BY <1>4, RowsTyped DEF DecideChangeOrder
    <2>2. record \in OrderRequests /\ record.op # "idle"
      BY <2>1 DEF OrderRequests
    <2>3. Load(r, record)
      BY <1>4 DEF DecideChangeOrder
    <2>9. Fresh(record)
      BY <1>4, <2>1, RowsTyped DEF DecideChangeOrder, Fresh
    <2> HIDE DEF record
    <2> QED
      BY <2>2, <2>3, <2>9, KindsAreRequests, RequestKinds
  <1> QED
    BY <1>1, <1>2, <1>3, <1>4 DEF Call

LEMMA StatusStepTyped ==
    ASSUME TypeOK, NEW r \in Requests, req[r].op = "status",
           NEW pc \in {"loaded", "counted", "flushed", "estimates", "orders", "summed"},
           NEW contract \in Int, NEW signed \in BOOLEAN,
           req' = [req EXCEPT ![r].pc = pc, ![r].contract = contract, ![r].signed = signed]
    PROVE  req' \in [Requests -> Requesting]
  <1>1. req[r] \in StatusRequests
    BY RequestKinds DEF TypeOK
  <1>2. [req[r] EXCEPT !.pc = pc, !.contract = contract, !.signed = signed] \in StatusRequests
    BY <1>1 DEF StatusRequests
  <1>3. req' = [req EXCEPT ![r] = [req[r] EXCEPT !.pc = pc, !.contract = contract, !.signed = signed]]
    OBVIOUS
  <1> QED
    BY <1>2, <1>3, KindsAreRequests DEF TypeOK

LEMMA Typed0 == Init => TypeOK
  <1>1. 0 \in Nat /\ \A k \in Slots : 0 \in Nat
    OBVIOUS
  <1>2. "new" \in LeadStatuses
    BY DEF LeadStatuses, LEAD_TRANSITIONS
  <1> QED
    BY <1>1, <1>2, KindsAreRequests DEF Init, TypeOK

\* What the parts of TypeOK say of the next state, for the actions that end in one of them.
CrmTyped   == lead \in [Leads -> LeadStatuses] /\ drafted \in [Leads -> Nat]
StateTyped == status \in [Projects -> ProjectStatuses \cup {"none"}]
BooksTyped ==
    /\ estimate \in [Projects -> {"open", "approved", "reopened"}]
    /\ invoices \in [Projects -> Nat]
    /\ finals \in [Projects -> [Slots -> Nat]]
OrderTyped == order \in [ChangeOrders -> Orders \cup {NoOrder}]
LockTyped  == rowLock \in [Projects -> Requests \cup {Nobody}]
WorkTyped  == req \in [Requests -> Requesting] /\ raced \subseteq Leads \cup Projects

LEMMA TypesInParts ==
    TypeOK <=> CrmTyped /\ StateTyped /\ BooksTyped /\ OrderTyped /\ LockTyped /\ WorkTyped
  BY DEF TypeOK, CrmTyped, StateTyped, BooksTyped, OrderTyped, LockTyped, WorkTyped

\* The parts an action leaves alone.
LEMMA PartsKept ==
    ASSUME TypeOK
    PROVE  /\ UNCHANGED crm => CrmTyped'
           /\ UNCHANGED status => StateTyped'
           /\ UNCHANGED books => BooksTyped'
           /\ UNCHANGED order => OrderTyped'
           /\ UNCHANGED rowLock => LockTyped'
           /\ UNCHANGED <<req, raced>> => WorkTyped'
  BY DEF TypeOK, CrmTyped, StateTyped, BooksTyped, OrderTyped, LockTyped, WorkTyped, crm, books

LEMMA EndParts ==
    ASSUME TypeOK, NEW r \in Requests, End(r)
    PROVE  LockTyped' /\ WorkTyped'
  BY EndTyped DEF LockTyped, WorkTyped

LEMMA TypeSteps ==
    ASSUME TypeOK, RowsInOrder, [Next]_vars
    PROVE  CrmTyped' /\ StateTyped' /\ BooksTyped' /\ OrderTyped' /\ LockTyped' /\ WorkTyped'
  <1>1. ASSUME NEW r \in Requests, Call(r)
        PROVE  CrmTyped' /\ StateTyped' /\ BooksTyped' /\ OrderTyped' /\ LockTyped' /\ WorkTyped'
    <2>1. PICK record \in Requesting : record # Idle /\ Load(r, record)
      BY <1>1, CallLoads
    <2>2. WorkTyped'
      BY <2>1, LoadTyped DEF WorkTyped
    <2>3. UNCHANGED crm /\ UNCHANGED status /\ UNCHANGED books /\ UNCHANGED order /\ UNCHANGED rowLock
      BY <2>1 DEF Load
    <2> QED
      BY <2>2, <2>3, PartsKept
  <1>2. ASSUME NEW r \in Requests, CommitLead(r)
        PROVE  CrmTyped' /\ StateTyped' /\ BooksTyped' /\ OrderTyped' /\ LockTyped' /\ WorkTyped'
    <2>1. req[r] \in LeadRequests
      BY <1>2, RequestKinds DEF CommitLead, At, TypeOK
    <2>2. req[r].on \in Leads /\ req[r].to \in LeadStatuses
      BY <2>1 DEF LeadRequests
    <2>3. CrmTyped'
      BY <1>2, <2>2 DEF CommitLead, CrmTyped, TypeOK
    <2>4. StateTyped'
      <3>1. "draft" \in ProjectStatuses
        BY DEF ProjectStatuses, PROJECT_TRANSITIONS
      <3>2. \/ status' = status
            \/ \E p \in Projects : status' = [status EXCEPT ![p] = "draft"]
        BY <1>2 DEF CommitLead, DraftStatus
      <3> QED
        BY <3>1, <3>2 DEF StateTyped, TypeOK
    <2>5. End(r) /\ UNCHANGED books /\ UNCHANGED order
      BY <1>2 DEF CommitLead
    <2> QED
      BY <2>3, <2>4, <2>5, EndParts, PartsKept
  <1>3. ASSUME NEW r \in Requests, CommitStatus(r)
        PROVE  CrmTyped' /\ StateTyped' /\ BooksTyped' /\ OrderTyped' /\ LockTyped' /\ WorkTyped'
    <2>1. req[r] \in StatusRequests
      BY <1>3, RequestKinds DEF CommitStatus, At, TypeOK
    <2>2. StateTyped'
      BY <1>3, <2>1 DEF CommitStatus, StateTyped, TypeOK, StatusRequests
    <2>3. End(r) /\ UNCHANGED crm /\ UNCHANGED books /\ UNCHANGED order
      BY <1>3 DEF CommitStatus
    <2> QED
      BY <2>2, <2>3, EndParts, PartsKept
  <1>4. ASSUME NEW r \in Requests, CountPending(r) \/ FlushCompletion(r)
        PROVE  CrmTyped' /\ StateTyped' /\ BooksTyped' /\ OrderTyped' /\ LockTyped' /\ WorkTyped'
    <2>1. req[r] \in StatusRequests
      BY <1>4, RequestKinds DEF CountPending, FlushCompletion, Step, At, TypeOK
    <2>2. PICK pc \in {"counted", "flushed"} : req' = [req EXCEPT ![r].pc = pc]
      BY <1>4 DEF CountPending, FlushCompletion, Step
    <2>3. [req[r] EXCEPT !.pc = pc] \in StatusRequests
      BY <2>1 DEF StatusRequests
    <2>4. req' = [req EXCEPT ![r] = [req[r] EXCEPT !.pc = pc]]
      BY <2>2
    <2>5. WorkTyped'
      <3>1. raced' = raced
        BY <1>4 DEF CountPending, FlushCompletion, Step
      <3> QED
        BY <2>3, <2>4, <3>1, KindsAreRequests DEF WorkTyped, TypeOK
    <2>6. LockTyped'
      <3>1. \/ rowLock' = rowLock
            \/ rowLock' = [rowLock EXCEPT ![req[r].on] = r]
        BY <1>4 DEF CountPending, FlushCompletion
      <3> QED
        BY <3>1 DEF LockTyped, TypeOK
    <2>7. UNCHANGED crm /\ UNCHANGED status /\ UNCHANGED books /\ UNCHANGED order
      BY <1>4 DEF CountPending, FlushCompletion, Step
    <2> QED
      BY <2>5, <2>6, <2>7, PartsKept
  <1>5. ASSUME NEW r \in Requests, SumEstimates(r) \/ SumChangeOrders(r) \/ SumInvoices(r)
        PROVE  CrmTyped' /\ StateTyped' /\ BooksTyped' /\ OrderTyped' /\ LockTyped' /\ WorkTyped'
    <2> DEFINE p == req[r].on
    <2>1. req[r] \in StatusRequests
      BY <1>5, RequestKinds DEF SumEstimates, SumChangeOrders, SumInvoices, At, TypeOK
    <2>2. p \in Projects /\ req[r].contract \in Int /\ req[r].signed \in BOOLEAN
      BY <2>1 DEF StatusRequests
    <2>3. ApprovedTotal(p) \in Int /\ ChangeOrderTotal(p) \in Int /\ InvoicedTotal(p) \in Int
      BY <2>2, SumsTyped
    <2>4. WorkTyped'
      <3> SUFFICES req' \in [Requests -> Requesting]
        BY <1>5 DEF SumEstimates, SumChangeOrders, SumInvoices, WorkTyped, TypeOK
      <3>1. CASE SumEstimates(r)
        <4>1. [req[r] EXCEPT !.pc = "estimates", !.contract = ApprovedTotal(p),
                             !.signed = (estimate[p] = "approved")] \in StatusRequests
          BY <2>1, <2>3 DEF StatusRequests
        <4>2. req' = [req EXCEPT ![r] = [req[r] EXCEPT !.pc = "estimates",
                         !.contract = ApprovedTotal(p), !.signed = (estimate[p] = "approved")]]
          BY <3>1 DEF SumEstimates
        <4> QED
          BY <4>1, <4>2, KindsAreRequests DEF TypeOK
      <3>2. CASE SumChangeOrders(r)
        <4>1. req[r].contract + ChangeOrderTotal(p) \in Int
          BY <2>2, <2>3
        <4>2. [req[r] EXCEPT !.pc = "orders", !.contract = req[r].contract + ChangeOrderTotal(p)]
                 \in StatusRequests
          BY <2>1, <4>1 DEF StatusRequests
        <4>3. req' = [req EXCEPT ![r] = [req[r] EXCEPT !.pc = "orders",
                         !.contract = req[r].contract + ChangeOrderTotal(p)]]
          BY <3>2 DEF SumChangeOrders
        <4> QED
          BY <4>2, <4>3, KindsAreRequests DEF TypeOK
      <3>3. CASE SumInvoices(r)
        <4>1. req[r].contract - InvoicedTotal(p) \in Int
          BY <2>2, <2>3
        <4>2. [req[r] EXCEPT !.pc = "summed", !.contract = req[r].contract - InvoicedTotal(p)]
                 \in StatusRequests
          BY <2>1, <4>1 DEF StatusRequests
        <4>3. req' = [req EXCEPT ![r] = [req[r] EXCEPT !.pc = "summed",
                         !.contract = req[r].contract - InvoicedTotal(p)]]
          BY <3>3 DEF SumInvoices
        <4> QED
          BY <4>2, <4>3, KindsAreRequests DEF TypeOK
      <3> QED
        BY <1>5, <3>1, <3>2, <3>3
    <2>5. UNCHANGED crm /\ UNCHANGED status /\ UNCHANGED books /\ UNCHANGED order /\ UNCHANGED rowLock
      BY <1>5 DEF SumEstimates, SumChangeOrders, SumInvoices
    <2> QED
      BY <2>4, <2>5, PartsKept
  <1>6. ASSUME NEW r \in Requests, CommitCompletion(r)
        PROVE  CrmTyped' /\ StateTyped' /\ BooksTyped' /\ OrderTyped' /\ LockTyped' /\ WorkTyped'
    <2>1. req[r] \in StatusRequests
      BY <1>6, RequestKinds DEF CommitCompletion, At, TypeOK
    <2>2. req[r].on \in Projects /\ req[r].contract \in Int
      BY <2>1 DEF StatusRequests
    <2>3. StateTyped'
      <3>1. "completed" \in ProjectStatuses
        BY DEF ProjectStatuses, PROJECT_TRANSITIONS
      <3>2. status' = [status EXCEPT ![req[r].on] = "completed"]
        BY <1>6 DEF CommitCompletion
      <3> QED
        BY <3>1, <3>2 DEF StateTyped, TypeOK
    <2>4. BooksTyped'
      <3>1. \/ finals' = finals
            \/ \E k \in Slots : /\ req[r].contract > 0
                                /\ finals' = [finals EXCEPT ![req[r].on][k] = req[r].contract]
        BY <1>6 DEF CommitCompletion
      <3>2. finals' \in [Projects -> [Slots -> Nat]]
        <4>1. ASSUME NEW k \in Slots, req[r].contract > 0,
                     finals' = [finals EXCEPT ![req[r].on][k] = req[r].contract]
              PROVE  finals' \in [Projects -> [Slots -> Nat]]
          <5>1. req[r].contract \in Nat
            BY <2>2, <4>1
          <5>2. [finals[req[r].on] EXCEPT ![k] = req[r].contract] \in [Slots -> Nat]
            BY <2>2, <5>1 DEF TypeOK
          <5>3. finals' = [finals EXCEPT ![req[r].on] =
                              [finals[req[r].on] EXCEPT ![k] = req[r].contract]]
            BY <4>1
          <5> QED
            BY <5>2, <5>3 DEF TypeOK
        <4> QED
          BY <3>1, <4>1 DEF TypeOK
      <3>3. UNCHANGED <<estimate, invoices>>
        BY <1>6 DEF CommitCompletion
      <3> QED
        BY <3>2, <3>3 DEF BooksTyped, TypeOK
    <2>5. End(r) /\ UNCHANGED crm /\ UNCHANGED order
      BY <1>6 DEF CommitCompletion
    <2> QED
      BY <2>3, <2>4, <2>5, EndParts, PartsKept
  <1>7. ASSUME NEW r \in Requests, InsertChangeOrder(r) \/ ApproveChangeOrder(r) \/ RejectChangeOrder(r)
        PROVE  CrmTyped' /\ StateTyped' /\ BooksTyped' /\ OrderTyped' /\ LockTyped' /\ WorkTyped'
    <2>4. UNCHANGED crm /\ UNCHANGED status /\ UNCHANGED books /\ End(r)
      BY <1>7 DEF InsertChangeOrder, ApproveChangeOrder, RejectChangeOrder
    <2>1. /\ req[r].order \in ChangeOrders /\ req[r].on \in Projects
          /\ req[r].pc = "new" => req[r].delta \in Deltas
      <3>1. req[r] \in OrderRequests
        BY <1>7, RequestKinds DEF InsertChangeOrder, ApproveChangeOrder, RejectChangeOrder, At, TypeOK
      <3> QED
        BY <3>1 DEF OrderRequests
    <2> DEFINE c == req[r].order
    <2>2. OrderTyped'
      <3>1. CASE InsertChangeOrder(r)
        <4>1. [on |-> req[r].on, status |-> "pending", delta |-> req[r].delta, signed |-> FALSE]
                 \in Orders
          BY <2>1, <3>1 DEF InsertChangeOrder, At, Orders
        <4> QED
          BY <3>1, <4>1, <2>1 DEF InsertChangeOrder, OrderTyped, TypeOK
      <3>2. ASSUME ApproveChangeOrder(r) \/ RejectChangeOrder(r) PROVE order[c] \in Orders
        <4>1. req[r].op = "order" /\ req[r].pc # "new"
          BY <3>2 DEF ApproveChangeOrder, RejectChangeOrder, At
        <4> QED
          BY <2>1, <4>1, RowsTyped DEF RowsInOrder
      <3>3. CASE ApproveChangeOrder(r)
        <4>1. [order[c] EXCEPT !.status = "approved", !.signed = TRUE] \in Orders
          BY <3>2, <3>3 DEF Orders
        <4>2. order' = [order EXCEPT ![c] = [order[c] EXCEPT !.status = "approved", !.signed = TRUE]]
          BY <3>3 DEF ApproveChangeOrder
        <4> QED
          BY <4>1, <4>2 DEF OrderTyped, TypeOK
      <3>4. CASE RejectChangeOrder(r)
        <4>1. [order[c] EXCEPT !.status = "rejected"] \in Orders
          BY <3>2, <3>4 DEF Orders
        <4>2. order' = [order EXCEPT ![c] = [order[c] EXCEPT !.status = "rejected"]]
          BY <3>4 DEF RejectChangeOrder
        <4> QED
          BY <4>1, <4>2 DEF OrderTyped, TypeOK
      <3> QED
        BY <1>7, <3>1, <3>3, <3>4
    <2> QED
      BY <2>2, <2>4, EndParts, PartsKept
  <1>8. ASSUME NEW r \in Requests, Rollback(r)
        PROVE  CrmTyped' /\ StateTyped' /\ BooksTyped' /\ OrderTyped' /\ LockTyped' /\ WorkTyped'
    <2>1. End(r) /\ UNCHANGED crm /\ UNCHANGED status /\ UNCHANGED books /\ UNCHANGED order
      BY <1>8 DEF Rollback
    <2> QED
      BY <2>1, EndParts, PartsKept
  <1>9. ASSUME NEW p \in Projects,
               ApproveEstimate(p) \/ ReopenEstimate(p) \/ CreateInvoice(p) \/ VoidInvoice(p)
        PROVE  CrmTyped' /\ StateTyped' /\ BooksTyped' /\ OrderTyped' /\ LockTyped' /\ WorkTyped'
    <2>1. WorkTyped'
      <3>1. req' = req /\ raced' \subseteq raced \cup {p}
        BY <1>9 DEF ApproveEstimate, ReopenEstimate, CreateInvoice, VoidInvoice, Meanwhile
      <3> QED
        BY <3>1 DEF WorkTyped, TypeOK
    <2>2. BooksTyped'
      <3>1. estimate' \in [Projects -> {"open", "approved", "reopened"}]
        BY <1>9 DEF ApproveEstimate, ReopenEstimate, CreateInvoice, VoidInvoice, TypeOK
      <3>2. invoices' \in [Projects -> Nat]
        <4>1. \/ invoices' = invoices
              \/ \E n \in Nat : invoices' = [invoices EXCEPT ![p] = n]
          <5>1. invoices[p] \in Nat
            BY DEF TypeOK
          <5>2. invoices[p] + 1 \in Nat /\ (invoices[p] > 0 => invoices[p] - 1 \in Nat)
            BY <5>1
          <5> QED
            BY <1>9, <5>2 DEF ApproveEstimate, ReopenEstimate, CreateInvoice, VoidInvoice
        <4> QED
          BY <4>1 DEF TypeOK
      <3>3. finals' \in [Projects -> [Slots -> Nat]]
        <4>1. \/ finals' = finals
              \/ \E k \in Slots : finals' = [finals EXCEPT ![p][k] = 0]
          BY <1>9 DEF ApproveEstimate, ReopenEstimate, CreateInvoice, VoidInvoice
        <4>2. ASSUME NEW k \in Slots, finals' = [finals EXCEPT ![p][k] = 0]
              PROVE  finals' \in [Projects -> [Slots -> Nat]]
          <5>1. [finals[p] EXCEPT ![k] = 0] \in [Slots -> Nat]
            BY DEF TypeOK
          <5>2. finals' = [finals EXCEPT ![p] = [finals[p] EXCEPT ![k] = 0]]
            BY <4>2
          <5> QED
            BY <5>1, <5>2 DEF TypeOK
        <4> QED
          BY <4>1, <4>2 DEF TypeOK
      <3> QED
        BY <3>1, <3>2, <3>3 DEF BooksTyped
    <2>3. UNCHANGED crm /\ UNCHANGED status /\ UNCHANGED order /\ UNCHANGED rowLock
      BY <1>9 DEF ApproveEstimate, ReopenEstimate, CreateInvoice, VoidInvoice
    <2> QED
      BY <2>1, <2>2, <2>3, PartsKept
  <1>10. CASE UNCHANGED vars
    BY <1>10, PartsKept DEF vars
  <1> QED
    BY <1>1, <1>2, <1>3, <1>4, <1>5, <1>6, <1>7, <1>8, <1>9, <1>10 DEF Next, Handle

LEMMA TypeKept ==
    ASSUME TypeOK, RowsInOrder, [Next]_vars
    PROVE  TypeOK'
  BY TypeSteps, TypesInParts, PTL

-----------------------------------------------------------------------------
(* What a step does to the requests.                                       *)

Moves(r) ==
    \/ CountPending(r)
    \/ FlushCompletion(r)
    \/ SumEstimates(r)
    \/ SumChangeOrders(r)
    \/ SumInvoices(r)

Decides(r) == InsertChangeOrder(r) \/ ApproveChangeOrder(r) \/ RejectChangeOrder(r)

Finishes(r) ==
    \/ CommitLead(r)
    \/ CommitStatus(r)
    \/ CommitCompletion(r)
    \/ Rollback(r)

Outside(p) == ApproveEstimate(p) \/ ReopenEstimate(p) \/ CreateInvoice(p) \/ VoidInvoice(p)

LEMMA StepKinds ==
    ASSUME [Next]_vars
    PROVE  \/ \E r \in Requests : Call(r)
           \/ \E r \in Requests : Moves(r)
           \/ \E r \in Requests : Decides(r)
           \/ \E r \in Requests : Finishes(r)
           \/ \E p \in Projects : Outside(p)
           \/ UNCHANGED vars
  BY DEF Next, Handle, Moves, Decides, Finishes, Outside

LEMMA MoveEffect ==
    ASSUME TypeOK, NEW r \in Requests, Moves(r)
    PROVE  /\ UNCHANGED <<lead, drafted, status, estimate, invoices, finals, order, raced>>
           /\ \A q \in Requests \ {r} : req'[q] = req[q]
           /\ req[r].op = "status" /\ req'[r].op = "status" /\ Working(r)
           /\ req'[r].on = req[r].on /\ req[r].on \in Projects
           /\ req[r].contract \in Int
           /\ req'[r].pc \in {"counted", "flushed", "estimates", "orders", "summed"}
  <1>1. req[r].op = "status" /\ Working(r)
    BY DEF Moves, CountPending, FlushCompletion, Step, SumEstimates, SumChangeOrders, SumInvoices, At
  <1>2. req[r] \in StatusRequests
    BY <1>1, RequestKinds DEF TypeOK
  <1>3. req \in [Requests -> Requesting]
    BY DEF TypeOK
  <1>4. \A q \in Requests \ {r} : req'[q] = req[q]
    BY <1>3 DEF Moves, CountPending, FlushCompletion, Step, SumEstimates, SumChangeOrders, SumInvoices
  <1>5. /\ req'[r].op = req[r].op /\ req'[r].on = req[r].on
        /\ req'[r].pc \in {"counted", "flushed", "estimates", "orders", "summed"}
    BY <1>2, <1>3
      DEF Moves, CountPending, FlushCompletion, Step, SumEstimates, SumChangeOrders, SumInvoices,
          StatusRequests
  <1>6. UNCHANGED <<lead, drafted, status, estimate, invoices, finals, order, raced>>
    BY DEF Moves, CountPending, FlushCompletion, Step, SumEstimates, SumChangeOrders, SumInvoices,
           crm, books
  <1> QED
    BY <1>1, <1>2, <1>4, <1>5, <1>6 DEF StatusRequests

LEMMA LoadEffect ==
    ASSUME TypeOK, NEW r \in Requests, NEW x, Load(r, x)
    PROVE  /\ UNCHANGED <<lead, drafted, status, estimate, invoices, finals, order, rowLock>>
           /\ \A q \in Requests \ {r} : req'[q] = req[q]
           /\ req'[r] = x /\ ~Working(r)
  BY DEF Load, TypeOK, crm, books

LEMMA EndEffect ==
    ASSUME TypeOK, NEW r \in Requests, End(r)
    PROVE  /\ \A q \in Requests \ {r} : req'[q] = req[q]
           /\ req'[r] = Idle /\ req'[r].op = "idle"
           /\ \A p \in Projects : rowLock[p] # r => rowLock'[p] = rowLock[p]
  BY DEF End, TypeOK, Idle

\* Only the three handlers that change an order touch it, and only the row of their request.
LEMMA DecideEffect ==
    ASSUME TypeOK, RowsInOrder, NEW r \in Requests, Decides(r)
    PROVE  /\ UNCHANGED <<lead, drafted, status, estimate, invoices, finals>> /\ End(r)
           /\ Working(r) /\ req[r].op = "order" /\ req[r].order \in ChangeOrders /\ req[r].on \in Projects
           /\ \A c \in ChangeOrders \ {req[r].order} : order'[c] = order[c]
           /\ order'[req[r].order] # NoOrder /\ order'[req[r].order].on = req[r].on
           /\ order[req[r].order] # NoOrder =>
                 /\ order[req[r].order].on = req[r].on
                 /\ order'[req[r].order].delta = order[req[r].order].delta
                 /\ order[req[r].order].signed => order'[req[r].order].signed
                 /\ order'[req[r].order].status # "pending"
           /\ order'[req[r].order].status = "approved" => order'[req[r].order].signed
  <1> DEFINE c == req[r].order
  <1>1. UNCHANGED <<lead, drafted, status, estimate, invoices, finals>> /\ End(r)
    BY DEF Decides, InsertChangeOrder, ApproveChangeOrder, RejectChangeOrder, crm, books
  <1>2. Working(r) /\ req[r].op = "order"
    BY DEF Decides, InsertChangeOrder, ApproveChangeOrder, RejectChangeOrder, At
  <1>3. req[r] \in OrderRequests
    BY <1>2, RequestKinds DEF TypeOK
  <1>4. c \in ChangeOrders /\ req[r].on \in Projects
    BY <1>3 DEF OrderRequests
  <1>5. CASE InsertChangeOrder(r)
    <2>1. order' = [order EXCEPT ![c] = [on |-> req[r].on, status |-> "pending",
                                        delta |-> req[r].delta, signed |-> FALSE]]
      BY <1>5 DEF InsertChangeOrder
    <2>2. order[c] = NoOrder
      BY <1>2, <1>5 DEF InsertChangeOrder, At, RowsInOrder
    <2>3. order'[c] = [on |-> req[r].on, status |-> "pending", delta |-> req[r].delta, signed |-> FALSE]
      BY <1>4, <2>1 DEF TypeOK
    <2>4. order'[c].on = req[r].on /\ order'[c].status = "pending"
      BY <2>3
    <2>5. order'[c] # NoOrder
      BY <2>4 DEF NoOrder
    <2> QED
      BY <1>1, <1>2, <1>4, <2>1, <2>2, <2>4, <2>5 DEF TypeOK
  <1>6. CASE ApproveChangeOrder(r) \/ RejectChangeOrder(r)
    <2>1. req[r].pc # "new"
      BY <1>6 DEF ApproveChangeOrder, RejectChangeOrder, At
    <2>2. order[c] # NoOrder /\ order[c].on = req[r].on
      BY <1>2, <2>1 DEF RowsInOrder
    <2>3. order[c] \in Orders
      BY <1>4, <2>2, RowsTyped
    <2>4. \/ order' = [order EXCEPT ![c] = [order[c] EXCEPT !.status = "approved", !.signed = TRUE]]
          \/ order' = [order EXCEPT ![c] = [order[c] EXCEPT !.status = "rejected"]]
      BY <1>6 DEF ApproveChangeOrder, RejectChangeOrder
    <2>5. \/ order'[c] = [order[c] EXCEPT !.status = "approved", !.signed = TRUE]
          \/ order'[c] = [order[c] EXCEPT !.status = "rejected"]
      BY <1>4, <2>4 DEF TypeOK
    <2>6. /\ order'[c].on = order[c].on /\ order'[c].delta = order[c].delta
          /\ order[c].signed => order'[c].signed
          /\ order'[c].status # "pending"
          /\ order'[c].status = "approved" => order'[c].signed
      BY <2>3, <2>5 DEF Orders
    <2>7. order'[c] # NoOrder
      <3>1. order'[c].status \in {"approved", "rejected"}
        BY <2>3, <2>5 DEF Orders
      <3> QED
        BY <3>1 DEF NoOrder
    <2>8. \A d \in ChangeOrders \ {c} : order'[d] = order[d]
      BY <2>4 DEF TypeOK
    <2> QED
      BY <1>1, <1>2, <1>4, <2>2, <2>6, <2>7, <2>8
  <1> QED
    BY <1>5, <1>6 DEF Decides

LEMMA FinishEffect ==
    ASSUME TypeOK, NEW r \in Requests, Finishes(r)
    PROVE  End(r) /\ Working(r) /\ UNCHANGED <<estimate, invoices, order>>
  BY DEF Finishes, CommitLead, CommitStatus, CommitCompletion, Rollback, At, crm, books

LEMMA OutsideEffect ==
    ASSUME NEW p \in Projects, Outside(p)
    PROVE  UNCHANGED <<lead, drafted, status, order, rowLock, req>> /\ Meanwhile(p)
  BY DEF Outside, ApproveEstimate, ReopenEstimate, CreateInvoice, VoidInvoice, crm

-----------------------------------------------------------------------------
(* Rows and locks.                                                         *)

\* A row that is there keeps its project, its amount and its signature.
LEMMA OrdersKept ==
    ASSUME TypeOK, RowsInOrder, [Next]_vars, NEW c \in ChangeOrders
    PROVE  /\ order[c] # NoOrder => /\ order'[c] # NoOrder
                                    /\ order'[c].on = order[c].on /\ order'[c].delta = order[c].delta
                                    /\ order[c].signed => order'[c].signed
           /\ \/ order'[c] = order[c]
              \/ \E r \in Requests : Decides(r) /\ req[r].order = c
  <1>1. ASSUME NEW r \in Requests, Call(r) PROVE order' = order
    BY <1>1, CallLoads DEF Load
  <1>2. ASSUME NEW r \in Requests, Moves(r) PROVE order' = order
    BY <1>2, MoveEffect
  <1>3. ASSUME NEW r \in Requests, Finishes(r) PROVE order' = order
    BY <1>3, FinishEffect
  <1>4. ASSUME NEW p \in Projects, Outside(p) PROVE order' = order
    BY <1>4, OutsideEffect
  <1>5. UNCHANGED vars => order' = order
    BY DEF vars
  <1>6. ASSUME NEW r \in Requests, Decides(r)
        PROVE  /\ order[c] # NoOrder => /\ order'[c] # NoOrder
                                        /\ order'[c].on = order[c].on
                                        /\ order'[c].delta = order[c].delta
                                        /\ order[c].signed => order'[c].signed
               /\ order'[c] = order[c] \/ req[r].order = c
    BY <1>6, DecideEffect
  <1> QED
    BY <1>1, <1>2, <1>3, <1>4, <1>5, <1>6, StepKinds

LEMMA RowsInOrderKept ==
    ASSUME TypeOK, RowsInOrder, [Next]_vars
    PROVE  RowsInOrder'
  <1> DEFINE Good(x, q, f, g) ==
                x.op = "order" =>
                    IF x.pc = "new"
                      THEN /\ f[x.order] = NoOrder
                           /\ \A s \in Requests \ {q} :
                                 g[s] # Idle /\ g[s].op = "order" /\ g[s].pc = "new" =>
                                     g[s].order # x.order
                      ELSE f[x.order] # NoOrder /\ f[x.order].on = x.on
  <1>0. RowsInOrder <=> \A q \in Requests : Good(req[q], q, order, req)
    BY DEF RowsInOrder, At, Working
  <1>00. RowsInOrder' <=> \A q \in Requests : Good(req'[q], q, order', req')
    BY DEF RowsInOrder, At, Working
  <1>1. ASSUME NEW r \in Requests, Call(r) PROVE RowsInOrder'
    <2>1. PICK x \in Requesting : x # Idle /\ Fresh(x) /\ Load(r, x)
      BY <1>1, CallLoads
    <2>2. /\ order' = order /\ \A q \in Requests \ {r} : req'[q] = req[q]
          /\ req'[r] = x /\ ~Working(r)
      BY <2>1, LoadEffect
    <2>3. Good(x, r, order, req')
      BY <2>1, <2>2 DEF Fresh, At, Working
    <2>4. ASSUME NEW q \in Requests \ {r} PROVE Good(req[q], q, order, req')
      <3>1. ASSUME req[q].op = "order", req[q].pc = "new", x.op = "order", x.pc = "new"
            PROVE  x.order # req[q].order
        <4>1. req[q] # Idle
          BY <3>1 DEF Idle
        <4>2. At(q, "order", "new")
          BY <3>1, <4>1 DEF At, Working
        <4> QED
          BY <2>1, <3>1, <4>2 DEF Fresh
      <3>2. Good(req[q], q, order, req)
        BY <1>0
      <3> QED
        BY <2>2, <3>1, <3>2
    <2> HIDE DEF Good
    <2> QED
      BY <1>00, <2>2, <2>3, <2>4
  <1>2. ASSUME NEW r \in Requests, Moves(r) PROVE RowsInOrder'
    <2>1. /\ order' = order /\ \A q \in Requests \ {r} : req'[q] = req[q]
          /\ req[r].op = "status" /\ req'[r].op = "status"
      BY <1>2, MoveEffect
    <2>2. ASSUME NEW q \in Requests PROVE Good(req'[q], q, order, req')
      <3>1. Good(req[q], q, order, req)
        BY <1>0
      <3> QED
        BY <2>1, <3>1
    <2> HIDE DEF Good
    <2> QED
      BY <1>00, <2>1, <2>2
  <1>3. ASSUME NEW r \in Requests, End(r), order' = order PROVE RowsInOrder'
    <2>1. \A q \in Requests \ {r} : req'[q] = req[q]
      BY <1>3, EndEffect
    <2>2. req'[r] = Idle /\ req'[r].op = "idle"
      BY <1>3, EndEffect
    <2>3. ASSUME NEW q \in Requests PROVE Good(req'[q], q, order, req')
      <3>1. Good(req[q], q, order, req)
        BY <1>0
      <3> QED
        BY <2>1, <2>2, <3>1
    <2> HIDE DEF Good
    <2> QED
      BY <1>00, <1>3, <2>3
  <1>4. ASSUME NEW r \in Requests, Decides(r) PROVE RowsInOrder'
    <2>1. /\ End(r) /\ req[r].op = "order" /\ Working(r)
          /\ \A c \in ChangeOrders \ {req[r].order} : order'[c] = order[c]
          /\ order'[req[r].order] # NoOrder /\ order'[req[r].order].on = req[r].on
          /\ order[req[r].order] # NoOrder => order[req[r].order].on = req[r].on
      BY <1>4, DecideEffect
    <2>2. \A q \in Requests \ {r} : req'[q] = req[q]
      BY <2>1, EndEffect
    <2>3. req'[r] = Idle /\ req'[r].op = "idle"
      BY <2>1, EndEffect
    <2>4. ASSUME NEW q \in Requests PROVE Good(req'[q], q, order', req')
      <3>1. Good(req[q], q, order, req) /\ Good(req[r], r, order, req)
        BY <1>0
      <3>2. CASE q = r
        BY <2>3, <3>2
      <3>3. CASE q # r /\ req[q].op = "order"
        <4>1. req[q].order \in ChangeOrders /\ req[q] # Idle
          BY <3>3, RequestKinds DEF TypeOK, OrderRequests, Idle
        <4>2. CASE req[q].order # req[r].order
          BY <2>1, <2>2, <2>3, <3>1, <3>3, <4>1, <4>2
        <4>3. CASE req[q].order = req[r].order
          <5>1. req[q].pc # "new"
            <6>1. SUFFICES ASSUME req[q].pc = "new" PROVE FALSE
              OBVIOUS
            <6>2. order[req[r].order] = NoOrder
              BY <3>1, <3>3, <4>3, <6>1
            <6>3. req[r].pc = "new"
              BY <2>1, <3>1, <6>2
            <6> QED
              BY <2>1, <3>1, <3>3, <4>1, <4>3, <6>1, <6>3
          <5> QED
            BY <2>1, <2>2, <3>1, <3>3, <4>3, <5>1
        <4> QED
          BY <4>2, <4>3
      <3>4. CASE q # r /\ req[q].op # "order"
        BY <2>2, <3>4
      <3> QED
        BY <3>2, <3>3, <3>4
    <2> HIDE DEF Good
    <2> QED
      BY <1>00, <2>4
  <1>5. UNCHANGED <<order, req>> => RowsInOrder'
    BY DEF RowsInOrder, At, Working
  <1> QED
    BY <1>1, <1>2, <1>3, <1>4, <1>5, StepKinds, FinishEffect, OutsideEffect DEF vars

LEMMA ApprovedKept ==
    ASSUME TypeOK, RowsInOrder, ApprovedIsSigned, [Next]_vars
    PROVE  ApprovedIsSigned'
  <1>1. ASSUME NEW c \in ChangeOrders, order'[c].status = "approved" PROVE order'[c].signed
    <2>1. \/ order'[c] = order[c]
          \/ \E r \in Requests : Decides(r) /\ req[r].order = c
      BY OrdersKept
    <2>2. ASSUME NEW r \in Requests, Decides(r), req[r].order = c PROVE order'[c].signed
      BY <1>1, <2>2, DecideEffect
    <2> QED
      BY <1>1, <2>1, <2>2 DEF ApprovedIsSigned
  <1> QED
    BY <1>1 DEF ApprovedIsSigned

LEMMA HoldRowsKept ==
    ASSUME TypeOK, RowsInOrder, HoldRows, [Next]_vars
    PROVE  HoldRows'
  <1> DEFINE Holds(x, q, f) ==
                x.op = "status" /\ x.pc # "loaded" /\ x.pc # "counted" => f[x.on] = q
  <1>0. HoldRows <=> \A q \in Requests : Holds(req[q], q, rowLock)
    BY DEF HoldRows, Flushed, Completing
  <1>00. HoldRows' <=> \A q \in Requests : Holds(req'[q], q, rowLock')
    BY DEF HoldRows, Flushed, Completing
  <1>1. ASSUME NEW r \in Requests, Call(r) PROVE HoldRows'
    <2>1. PICK x \in Requesting : x # Idle /\ Fresh(x) /\ Load(r, x)
      BY <1>1, CallLoads
    <2>2. rowLock' = rowLock /\ (\A q \in Requests \ {r} : req'[q] = req[q]) /\ req'[r] = x
      BY <2>1, LoadEffect
    <2>3. Holds(x, r, rowLock)
      BY <2>1 DEF Fresh
    <2> HIDE DEF Holds
    <2> QED
      BY <1>0, <1>00, <2>2, <2>3
  <1>2. ASSUME NEW r \in Requests, Moves(r) PROVE HoldRows'
    <2>1. /\ \A q \in Requests \ {r} : req'[q] = req[q]
          /\ req'[r].on = req[r].on /\ req[r].on \in Projects /\ req[r].op = "status"
      BY <1>2, MoveEffect
    <2>2. CASE FlushCompletion(r)
      <3>1. rowLock[req[r].on] = Nobody /\ rowLock' = [rowLock EXCEPT ![req[r].on] = r]
        BY <2>2 DEF FlushCompletion, RowFree
      <3>2. rowLock'[req[r].on] = r
        BY <2>1, <3>1 DEF TypeOK
      <3>3. ASSUME NEW q \in Requests \ {r} PROVE Holds(req[q], q, rowLock')
        <4>1. Holds(req[q], q, rowLock)
          BY <1>0
        <4>2. q # Nobody
          BY NobodyAssumption DEF NobodyAssumption
        <4>3. req[q].op = "status" => req[q].on \in Projects
          BY RequestKinds DEF TypeOK, StatusRequests
        <4> QED
          BY <3>1, <4>1, <4>2, <4>3 DEF TypeOK
      <3>4. Holds(req'[r], r, rowLock')
        BY <2>1, <3>2
      <3> HIDE DEF Holds
      <3> QED
        BY <1>00, <2>1, <3>3, <3>4
    <2>3. CASE ~FlushCompletion(r)
      <3>1. rowLock' = rowLock
        BY <1>2, <2>3 DEF Moves, CountPending, SumEstimates, SumChangeOrders, SumInvoices
      <3>2. Holds(req'[r], r, rowLock)
        <4>1. CASE CountPending(r)
          <5>1. req'[r].pc = "counted"
            <6>1. req[r] \in StatusRequests
              BY <2>1, RequestKinds DEF TypeOK
            <6> QED
              BY <4>1, <6>1 DEF CountPending, Step, TypeOK, StatusRequests
          <5> QED
            BY <5>1
        <4>2. CASE ~CountPending(r)
          <5>1. req[r].pc \in {"flushed", "estimates", "orders"}
            BY <1>2, <2>3, <4>2 DEF Moves, SumEstimates, SumChangeOrders, SumInvoices, At
          <5>2. Holds(req[r], r, rowLock)
            BY <1>0
          <5> QED
            BY <2>1, <5>1, <5>2
        <4> QED
          BY <4>1, <4>2
      <3> HIDE DEF Holds
      <3> QED
        BY <1>0, <1>00, <2>1, <3>1, <3>2
    <2> QED
      BY <2>2, <2>3
  <1>3. ASSUME NEW r \in Requests, End(r) PROVE HoldRows'
    <2>1. \A q \in Requests \ {r} : req'[q] = req[q]
      BY <1>3, EndEffect
    <2>2. req'[r].op = "idle"
      BY <1>3, EndEffect
    <2>3. \A p \in Projects : rowLock[p] # r => rowLock'[p] = rowLock[p]
      BY <1>3, EndEffect
    <2>4. ASSUME NEW q \in Requests \ {r} PROVE Holds(req[q], q, rowLock')
      <3>1. Holds(req[q], q, rowLock)
        BY <1>0
      <3>2. req[q].op = "status" => req[q].on \in Projects
        BY RequestKinds DEF TypeOK, StatusRequests
      <3> QED
        BY <2>3, <3>1, <3>2
    <2>5. Holds(req'[r], r, rowLock')
      BY <2>2
    <2> HIDE DEF Holds
    <2> QED
      BY <1>00, <2>1, <2>4, <2>5
  <1>4. UNCHANGED <<rowLock, req>> => HoldRows'
    BY <1>0, <1>00
  <1> QED
    BY <1>1, <1>2, <1>3, <1>4, StepKinds, FinishEffect, DecideEffect, OutsideEffect DEF vars

-----------------------------------------------------------------------------
(* What is billed stays within what is signed.                             *)

LEMMA SlotSum ==
    ASSUME NEW f \in [Slots -> Nat], NEW k \in Slots, NEW v \in Nat
    PROVE  /\ SumFunction(f) \in Nat
           /\ SumFunction([f EXCEPT ![k] = v]) = SumFunction(f) - f[k] + v
  <1> DEFINE g == [f EXCEPT ![k] = v]
  <1>1. IsFiniteSet(Slots)
    BY BoundAssumption, FS_Interval DEF Slots
  <1>2. g \in [Slots -> Nat] /\ g[k] = v /\ \A j \in Slots \ {k} : g[j] = f[j]
    OBVIOUS
  <1> HIDE DEF g
  <1>3. \A j \in Slots : f[j] \in Int /\ g[j] \in Int /\ f[j] \in Nat
    BY <1>2
  <1>4. SumFunctionOnSet(f, Slots) \in Nat
    BY <1>1, <1>3, SumInt
  <1>5. SumFunctionOnSet(g, Slots) = SumFunctionOnSet(f, Slots) - f[k] + g[k]
    BY <1>1, <1>2, <1>3, SumUpdate
  <1>6. SumFunction(f) = SumFunctionOnSet(f, Slots) /\ SumFunction(g) = SumFunctionOnSet(g, Slots)
    BY <1>2 DEF SumFunction
  <1>7. SumFunction(f) \in Nat /\ SumFunction(g) = SumFunction(f) - f[k] + v
    BY <1>2, <1>4, <1>5, <1>6
  <1> QED
    BY <1>7 DEF g

\* The final invoices of a project grow only by what a completion of it has left over.
LEMMA FinalsKept ==
    ASSUME TypeOK, RowsInOrder, [Next]_vars, NEW p \in Projects
    PROVE  \/ SumFunction(finals'[p]) <= SumFunction(finals[p])
           \/ \E r \in Requests : /\ CommitCompletion(r) /\ req[r].on = p
                                  /\ req[r].signed /\ req[r].contract > 0
                                  /\ SumFunction(finals'[p]) = SumFunction(finals[p]) + req[r].contract
  <1> DEFINE Fewer == SumFunction(finals'[p]) <= SumFunction(finals[p])
             Billed(r) == /\ CommitCompletion(r) /\ req[r].on = p
                          /\ req[r].signed /\ req[r].contract > 0
                          /\ SumFunction(finals'[p]) = SumFunction(finals[p]) + req[r].contract
  <1>0. finals[p] \in [Slots -> Nat] /\ finals \in [Projects -> [Slots -> Nat]]
    BY DEF TypeOK
  <1>1. SumFunction(finals[p]) \in Nat
    BY SumsTyped
  <1>2. ASSUME finals' = finals PROVE Fewer
    BY <1>1, <1>2
  <1>3. ASSUME NEW r \in Requests, Finishes(r) PROVE finals' = finals \/ CommitCompletion(r)
    BY <1>3 DEF Finishes, CommitLead, CommitStatus, Rollback, books
  <1>4. ASSUME NEW r \in Requests, CommitCompletion(r), finals' # finals PROVE Fewer \/ Billed(r)
    <2>1. PICK k \in Slots : /\ finals[req[r].on][k] = 0
                             /\ finals' = [finals EXCEPT ![req[r].on][k] = req[r].contract]
      BY <1>4 DEF CommitCompletion
    <2>2. req[r].signed /\ req[r].contract > 0
      BY <1>4 DEF CommitCompletion
    <2>3. CASE req[r].on = p
      <3>1. req[r] \in StatusRequests
        BY <1>4, RequestKinds DEF CommitCompletion, At, TypeOK
      <3>2. req[r].contract \in Nat
        BY <2>2, <3>1 DEF StatusRequests
      <3>3. finals'[p] = [finals[p] EXCEPT ![k] = req[r].contract] /\ finals[p][k] = 0
        BY <1>0, <2>1, <2>3
      <3> DEFINE v == req[r].contract
      <3>5. SumFunction([finals[p] EXCEPT ![k] = v]) = SumFunction(finals[p]) - finals[p][k] + v
        <4> HIDE DEF v
        <4>1. v \in Nat
          BY <3>2 DEF v
        <4> QED
          BY <1>0, <4>1, SlotSum
      <3>4. SumFunction(finals'[p]) = SumFunction(finals[p]) - finals[p][k] + req[r].contract
        BY <3>3, <3>5
      <3> QED
        BY <1>1, <1>4, <2>2, <2>3, <3>2, <3>3, <3>4
    <2>4. CASE req[r].on # p
      <3>1. finals'[p] = finals[p]
        BY <1>0, <2>1, <2>4
      <3> QED
        BY <1>1, <3>1
    <2> QED
      BY <2>3, <2>4
  <1>5. ASSUME NEW o \in Projects, Outside(o) PROVE Fewer
    <2>1. \/ finals' = finals
          \/ \E k \in Slots : finals[o][k] > 0 /\ finals' = [finals EXCEPT ![o][k] = 0]
      BY <1>5 DEF Outside, ApproveEstimate, ReopenEstimate, CreateInvoice, VoidInvoice
    <2>2. ASSUME NEW k \in Slots, finals' = [finals EXCEPT ![o][k] = 0] PROVE Fewer
      <3>1. CASE o = p
        <4>1. finals'[p] = [finals[p] EXCEPT ![k] = 0] /\ finals[p][k] \in Nat
          BY <1>0, <2>2, <3>1
        <4>2. 0 \in Nat
          OBVIOUS
        <4>4. SumFunction([finals[p] EXCEPT ![k] = 0]) = SumFunction(finals[p]) - finals[p][k] + 0
          BY <1>0, <4>2, SlotSum
        <4>3. SumFunction(finals'[p]) = SumFunction(finals[p]) - finals[p][k] + 0
          BY <4>1, <4>4
        <4> QED
          BY <1>1, <4>1, <4>3
      <3>2. CASE o # p
        <4>1. finals'[p] = finals[p]
          BY <1>0, <2>2, <3>2
        <4> QED
          BY <1>1, <4>1
      <3> QED
        BY <3>1, <3>2
    <2> QED
      BY <1>2, <2>1, <2>2
  <1>6. ASSUME NEW r \in Requests, Call(r) \/ Moves(r) \/ Decides(r) PROVE finals' = finals
    BY <1>6, CallLoads, LoadEffect, MoveEffect, DecideEffect
  <1>7. UNCHANGED vars => finals' = finals
    BY DEF vars, books
  <1> HIDE DEF Fewer, Billed
  <1>8. Fewer \/ \E r \in Requests : Billed(r)
    BY <1>2, <1>3, <1>4, <1>5, <1>6, <1>7, StepKinds
  <1> QED
    BY <1>8 DEF Fewer, Billed

LEMMA ContractedKept ==
    ASSUME TypeOK, RowsInOrder, [Next]_vars, NEW p \in Projects
    PROVE  Contracted(p) \in Nat /\ Contracted(p)' \in Nat /\ Contracted(p) <= Contracted(p)'
  <1>1. ContractTotal \in Nat
    BY AmountAssumption DEF AmountAssumption
  <1>2. estimate[p] # "open" => estimate'[p] # "open"
    <2>1. ASSUME NEW r \in Requests, Call(r) \/ Moves(r) \/ Decides(r) \/ Finishes(r)
          PROVE  estimate' = estimate
      BY <2>1, CallLoads, LoadEffect, MoveEffect, DecideEffect, FinishEffect
    <2>2. ASSUME NEW o \in Projects, Outside(o)
          PROVE  estimate[p] # "open" => estimate'[p] # "open"
      BY <2>2 DEF Outside, ApproveEstimate, ReopenEstimate, CreateInvoice, VoidInvoice, TypeOK
    <2>3. UNCHANGED vars => estimate' = estimate
      BY DEF vars, books
    <2> QED
      BY <2>1, <2>2, <2>3, StepKinds
  <1>3. /\ Contracted(p) = IF estimate[p] = "open" THEN 0 ELSE ContractTotal
        /\ Contracted(p)' = IF estimate'[p] = "open" THEN 0 ELSE ContractTotal
    BY DEF Contracted
  <1> QED
    BY <1>1, <1>2, <1>3

LEMMA ExtrasTyped ==
    ASSUME TypeOK, NEW p \in Projects
    PROVE  SumFunctionOnSet(Delta, Extras(p)) \in Nat /\ Extras(p) \in SUBSET ChangeOrders
  <1>1. Extras(p) \in SUBSET ChangeOrders
    BY DEF Extras, OrdersOf
  <1>2. \A c \in Extras(p) : Delta[c] \in Nat /\ Delta[c] \in Int
    <2> TAKE c \in Extras(p)
    <2>1. c \in ChangeOrders /\ order[c].delta > 0
      BY DEF Extras, OrdersOf
    <2>2. order[c].delta \in Int /\ Delta[c] = order[c].delta
      BY <2>1, RowsTyped
    <2> QED
      BY <2>1, <2>2
  <1>3. IsFiniteSet(Extras(p))
    BY <1>1, FiniteAssumption, FS_Subset DEF FiniteAssumption
  <1> QED
    BY <1>1, <1>2, <1>3, SumInt

ExtrasFine ==
    /\ \A p \in Projects :
          SumFunctionOnSet(Delta, Extras(p)) \in Nat /\ Extras(p) \in SUBSET ChangeOrders
    /\ \A c \in ChangeOrders : Delta[c] \in Int /\ Delta[c] = order[c].delta

LEMMA ExtrasAreFine == TypeOK => ExtrasFine
  BY ExtrasTyped, RowsTyped DEF ExtrasFine

\* What is signed only grows.
LEMMA SignedKept ==
    ASSUME TypeOK, TypeOK', RowsInOrder, [Next]_vars, NEW p \in Projects
    PROVE  Signed(p) \in Nat /\ Signed(p)' \in Nat /\ Signed(p) <= Signed(p)'
  <1> DEFINE f == Delta
             g == Delta'
             S == Extras(p)
             T == Extras(p)'
  <1>0. ExtrasFine /\ ExtrasFine'
    BY ExtrasAreFine, PTL
  <1>1. SumFunctionOnSet(f, S) \in Nat /\ S \in SUBSET ChangeOrders
    BY <1>0 DEF ExtrasFine
  <1>2. SumFunctionOnSet(g, T) \in Nat /\ T \in SUBSET ChangeOrders
    BY <1>0 DEF ExtrasFine
  <1>3. /\ \A c \in ChangeOrders : f[c] \in Int /\ f[c] = order[c].delta
        /\ \A c \in ChangeOrders : g[c] \in Int /\ g[c] = order'[c].delta
    BY <1>0 DEF ExtrasFine
  <1>4. \A c \in ChangeOrders : (IF c \in S THEN f[c] ELSE 0) <= (IF c \in T THEN g[c] ELSE 0)
    <2> TAKE c \in ChangeOrders
    <2>1. /\ c \in S <=> order[c].on = p /\ order[c].signed /\ order[c].delta > 0
          /\ c \in T <=> order'[c].on = p /\ order'[c].signed /\ order'[c].delta > 0
      BY DEF Extras, OrdersOf
    <2>2. order[c].on = p => order[c] # NoOrder
      BY RowsTyped
    <2>3. c \in S => c \in T /\ g[c] = f[c]
      BY <1>3, <2>1, <2>2, OrdersKept
    <2>4. c \in T => g[c] > 0
      BY <1>3, <2>1
    <2> HIDE DEF f, g, S, T
    <2> QED
      BY <1>3, <2>3, <2>4
  <1>5. SumFunctionOnSet(f, S) <= SumFunctionOnSet(g, T)
    <2> HIDE DEF f, g, S, T
    <2> QED
      BY <1>1, <1>2, <1>3, <1>4, SumCompare, FiniteAssumption DEF FiniteAssumption
  <1>6. Signed(p)' = Contracted(p)' + SumFunctionOnSet(g, T)
    BY DEF Signed
  <1>7. Signed(p) = Contracted(p) + SumFunctionOnSet(f, S)
    BY DEF Signed
  <1> HIDE DEF f, g, S, T
  <1> QED
    BY <1>1, <1>2, <1>5, <1>6, <1>7, ContractedKept

\* What the change orders of a project come to is within its extras.
LEMMA OrdersWithinExtras ==
    ASSUME TypeOK, ApprovedIsSigned, NEW p \in Projects
    PROVE  ChangeOrderTotal(p) <= SumFunctionOnSet(Delta, Extras(p))
  <1> DEFINE S == {c \in OrdersOf(p) : order[c].status = "approved"}
             T == Extras(p)
             f == Delta
  <1>1. S \in SUBSET ChangeOrders /\ T \in SUBSET ChangeOrders
    BY DEF OrdersOf, Extras
  <1>2. \A c \in ChangeOrders : f[c] \in Int /\ f[c] = order[c].delta
    BY RowsTyped
  <1>3. \A c \in ChangeOrders : (IF c \in S THEN f[c] ELSE 0) <= (IF c \in T THEN f[c] ELSE 0)
    <2> TAKE c \in ChangeOrders
    <2>1. c \in S => order[c].on = p /\ order[c].signed
      BY DEF ApprovedIsSigned, OrdersOf
    <2>2. c \in T <=> order[c].on = p /\ order[c].signed /\ order[c].delta > 0
      BY DEF Extras, OrdersOf
    <2> HIDE DEF S, T, f
    <2> QED
      BY <1>2, <2>1, <2>2
  <1>4. SumFunctionOnSet(f, S) <= SumFunctionOnSet(f, T)
    <2> HIDE DEF S, T, f
    <2> QED
      BY <1>1, <1>2, <1>3, SumCompare, FiniteAssumption DEF FiniteAssumption
  <1> QED
    BY <1>4 DEF ChangeOrderTotal

\* A request a step leaves in the middle of a completion was there before, or has just moved.
LEMMA StillCompleting ==
    ASSUME TypeOK, RowsInOrder, [Next]_vars, NEW q \in Requests, Completing(q)'
    PROVE  (req'[q] = req[q] /\ ~Moves(q)) \/ Moves(q)
  <1>1. ASSUME NEW r \in Requests, Call(r) PROVE req'[q] = req[q]
    <2>1. PICK x \in Requesting : x # Idle /\ Fresh(x) /\ Load(r, x)
      BY <1>1, CallLoads
    <2>2. (\A s \in Requests \ {r} : req'[s] = req[s]) /\ req'[r] = x
      BY <2>1, LoadEffect
    <2>3. q # r
      BY <2>1, <2>2 DEF Fresh, Completing
    <2> QED
      BY <2>2, <2>3
  <1>2. ASSUME NEW r \in Requests, Moves(r) PROVE req'[q] = req[q] \/ Moves(q)
    BY <1>2, MoveEffect
  <1>3. ASSUME NEW r \in Requests, End(r) PROVE req'[q] = req[q]
    BY <1>3, EndEffect DEF Completing
  <1>4. UNCHANGED req => req'[q] = req[q]
    OBVIOUS
  <1> QED
    BY <1>1, <1>2, <1>3, <1>4, StepKinds, FinishEffect, DecideEffect, OutsideEffect DEF vars

\* What each of the three sums leaves in the running sum.
LEMMA MoveSums ==
    ASSUME TypeOK, NEW r \in Requests, Moves(r)
    PROVE  LET p == req[r].on IN
           \/ req'[r].pc \in {"counted", "flushed"}
           \/ /\ SumEstimates(r) /\ req[r].pc = "flushed" /\ req'[r].pc = "estimates"
              /\ req'[r].contract = ApprovedTotal(p) /\ req'[r].signed = (estimate[p] = "approved")
           \/ /\ SumChangeOrders(r) /\ req[r].pc = "estimates" /\ req'[r].pc = "orders"
              /\ req'[r].contract = req[r].contract + ChangeOrderTotal(p)
              /\ req'[r].signed = req[r].signed
           \/ /\ SumInvoices(r) /\ req[r].pc = "orders" /\ req'[r].pc = "summed"
              /\ req'[r].contract = req[r].contract - InvoicedTotal(p)
              /\ req'[r].signed = req[r].signed
  <1>1. req[r] \in StatusRequests
    BY MoveEffect, RequestKinds DEF TypeOK
  <1>2. CASE CountPending(r) \/ FlushCompletion(r)
    <2>1. req'[r].pc \in {"counted", "flushed"}
      BY <1>1, <1>2 DEF CountPending, FlushCompletion, Step, TypeOK, StatusRequests
    <2> QED
      BY <2>1
  <1>3. CASE SumEstimates(r)
    <2> DEFINE v == ApprovedTotal(req[r].on)
               s == estimate[req[r].on] = "approved"
    <2>1. req[r].pc = "flushed" /\ req' = [req EXCEPT ![r].pc = "estimates", ![r].contract = v,
                                                     ![r].signed = s]
      BY <1>3 DEF SumEstimates, At
    <2> HIDE DEF v, s
    <2>2. req'[r].pc = "estimates" /\ req'[r].contract = v /\ req'[r].signed = s
      BY <1>1, <2>1 DEF TypeOK, StatusRequests
    <2> QED
      BY <1>3, <2>1, <2>2 DEF v, s
  <1>4. CASE SumChangeOrders(r)
    <2> DEFINE v == req[r].contract + ChangeOrderTotal(req[r].on)
    <2>1. req[r].pc = "estimates" /\ req' = [req EXCEPT ![r].pc = "orders", ![r].contract = v]
      BY <1>4 DEF SumChangeOrders, At
    <2> HIDE DEF v
    <2>2. req'[r].pc = "orders" /\ req'[r].contract = v /\ req'[r].signed = req[r].signed
      BY <1>1, <2>1 DEF TypeOK, StatusRequests
    <2> QED
      BY <1>4, <2>1, <2>2 DEF v
  <1>5. CASE SumInvoices(r)
    <2> DEFINE v == req[r].contract - InvoicedTotal(req[r].on)
    <2>1. req[r].pc = "orders" /\ req' = [req EXCEPT ![r].pc = "summed", ![r].contract = v]
      BY <1>5 DEF SumInvoices, At
    <2> HIDE DEF v
    <2>2. req'[r].pc = "summed" /\ req'[r].contract = v /\ req'[r].signed = req[r].signed
      BY <1>1, <2>1 DEF TypeOK, StatusRequests
    <2> QED
      BY <1>5, <2>1, <2>2 DEF v
  <1> QED
    BY <1>2, <1>3, <1>4, <1>5 DEF Moves

\* Every sum of final invoices is a number.
FinalsFine == \A p \in Projects : SumFunction(finals[p]) \in Nat

LEMMA FinalsAreFine == TypeOK => FinalsFine
  BY SumsTyped DEF FinalsFine

LEMMA MoneyKept ==
    ASSUME TypeOK, TypeOK', RowsInOrder, ApprovedIsSigned, HoldRows, SumsBounded,
           FinalsWithinSigned, [Next]_vars
    PROVE  SumsBounded' /\ FinalsWithinSigned'
  <1>1. FinalsFine /\ FinalsFine'
    BY FinalsAreFine, PTL
  <1>2. FinalsWithinSigned <=> \A p \in Projects : SumFunction(finals[p]) <= Signed(p)
    BY DEF FinalsWithinSigned, Signed, Contracted, Extras
  <1>3. FinalsWithinSigned' <=> \A p \in Projects : SumFunction(finals'[p]) <= Signed(p)'
    BY DEF FinalsWithinSigned, Signed, Contracted, Extras
  <1>4. ASSUME NEW p \in Projects PROVE SumFunction(finals'[p]) <= Signed(p)'
    <2> DEFINE n == SumFunction(finals[p])
               m == SumFunction(finals'[p])
               a == Signed(p)
               b == Signed(p)'
    <2>1. n \in Nat /\ m \in Nat /\ a \in Nat /\ b \in Nat /\ a <= b /\ n <= a
      BY <1>1, <1>2, SignedKept DEF FinalsFine
    <2>2. ASSUME NEW r \in Requests, CommitCompletion(r), req[r].on = p, m = n + req[r].contract
          PROVE  m <= a
      <3>1. req[r].op = "status" /\ req[r].pc = "summed"
        BY <2>2 DEF CommitCompletion, At
      <3>2. req[r].contract + n <= a
        BY <2>2, <3>1 DEF SumsBounded
      <3>3. req[r].contract \in Int
        BY <3>1, RequestKinds DEF TypeOK, StatusRequests
      <3> HIDE DEF n, m, a, b
      <3> QED
        BY <2>1, <2>2, <3>2, <3>3
    <2>3. m <= n \/ m <= a
      BY <2>2, FinalsKept
    <2> HIDE DEF n, m, a, b
    <2>4. m <= b
      BY <2>1, <2>3
    <2> QED
      BY <2>4 DEF m, b
  <1>5. ASSUME NEW q \in Requests, NEW p \in Projects, req'[q].op = "status", req'[q].on = p
        PROVE  /\ req'[q].pc = "estimates" => req'[q].contract <= Contracted(p)'
               /\ req'[q].pc = "orders" => req'[q].contract <= Signed(p)'
               /\ req'[q].pc = "summed" =>
                     req'[q].contract + SumFunction(finals'[p]) <= Signed(p)'
    <2> DEFINE n == SumFunction(finals[p])
               m == SumFunction(finals'[p])
               a == Signed(p)
               b == Signed(p)'
               c == Contracted(p)
               d == Contracted(p)'
    <2> SUFFICES ASSUME req'[q].pc \in {"estimates", "orders", "summed"}
                 PROVE  /\ req'[q].pc = "estimates" => req'[q].contract <= d
                        /\ req'[q].pc = "orders" => req'[q].contract <= b
                        /\ req'[q].pc = "summed" => req'[q].contract + m <= b
      OBVIOUS
    <2>1. (req'[q] = req[q] /\ ~Moves(q)) \/ Moves(q)
      BY <1>5, StillCompleting DEF Completing
    <2>2. req[q].on = p /\ req[q].op = "status" /\ req[q].contract \in Int
      <3>1. req[q].op = "status" /\ req[q].on = p
        BY <1>5, <2>1, MoveEffect
      <3> QED
        BY <3>1, RequestKinds DEF TypeOK, StatusRequests
    <2>3. /\ c \in Nat /\ d \in Nat /\ c <= d
          /\ a \in Nat /\ b \in Nat /\ a <= b
          /\ n \in Nat /\ m \in Nat
      BY <1>1, ContractedKept, SignedKept DEF FinalsFine
    <2>4. /\ req[q].pc = "estimates" => req[q].contract <= c
          /\ req[q].pc = "orders" => req[q].contract <= a
          /\ req[q].pc = "summed" => req[q].contract + n <= a
      BY <2>2 DEF SumsBounded
    <2>5. CASE req'[q] = req[q] /\ ~Moves(q)
      <3>1. ASSUME NEW r \in Requests, CommitCompletion(r), req[r].on = p PROVE FALSE
        <4>1. r # q
          <5>1. req'[r] = Idle
            BY <3>1, EndEffect DEF CommitCompletion
          <5> QED
            BY <1>5, <5>1 DEF Idle
        <4>2. Flushed(r) /\ Flushed(q)
          BY <1>5, <2>5, <3>1 DEF CommitCompletion, At, Flushed, Completing
        <4> QED
          BY <2>2, <3>1, <4>1, <4>2 DEF HoldRows
      <3>2. m <= n
        BY <3>1, FinalsKept
      <3> HIDE DEF n, m, a, b, c, d
      <3> QED
        BY <2>2, <2>3, <2>4, <2>5, <3>2
    <2>6. CASE Moves(q)
      <3> DEFINE ap == ApprovedTotal(p)
                 co == ChangeOrderTotal(p)
                 iv == InvoicedTotal(p)
                 ex == SumFunctionOnSet(Delta, Extras(p))
      <3>1. \/ req'[q].pc = "estimates" /\ req'[q].contract = ap
            \/ /\ req[q].pc = "estimates" /\ req'[q].pc = "orders"
               /\ req'[q].contract = req[q].contract + co
            \/ /\ req[q].pc = "orders" /\ req'[q].pc = "summed"
               /\ req'[q].contract = req[q].contract - iv
        BY <2>2, <2>6, MoveSums
      <3>2. ap \in Nat /\ co \in Int /\ iv \in Nat /\ n <= iv
        BY SumsTyped
      <3>3. ex \in Nat /\ co <= ex /\ a = c + ex
        BY ExtrasTyped, OrdersWithinExtras DEF Signed
      <3>4. ap <= c
        BY AmountAssumption DEF ApprovedTotal, Contracted, AmountAssumption
      <3>5. m = n
        BY <2>6, MoveEffect
      <3> HIDE DEF n, m, a, b, c, d, ap, co, iv, ex
      <3> QED
        BY <2>2, <2>3, <2>4, <3>1, <3>2, <3>3, <3>4, <3>5
    <2> HIDE DEF n, m, a, b, c, d
    <2> QED
      BY <2>1, <2>5, <2>6
  <1> QED
    BY <1>3, <1>4, <1>5 DEF SumsBounded

-----------------------------------------------------------------------------
(* Leads.                                                                  *)

LEMMA CrowdsKept ==
    ASSUME TypeOK, RowsInOrder, Crowds, [Next]_vars
    PROVE  Crowds'
  <1> DEFINE Noted(g, s) ==
                \A r \in Requests : \A q \in Requests \ {r} :
                    g[r] # Idle /\ g[q] # Idle /\ g[q].on = g[r].on => g[r].on \in s
  <1>0. (Crowds <=> Noted(req, raced)) /\ (Crowds' <=> Noted(req', raced'))
    BY DEF Crowds, Working
  <1>1. ASSUME NEW r \in Requests, Call(r) PROVE Noted(req', raced')
    <2>1. PICK x \in Requesting : x # Idle /\ Fresh(x) /\ Load(r, x)
      BY <1>1, CallLoads
    <2>2. (\A q \in Requests \ {r} : req'[q] = req[q]) /\ req'[r] = x
      BY <2>1, LoadEffect
    <2>3. raced' = raced \cup {y \in {x.on} : \E q \in Requests : On(q, y)}
      BY <2>1 DEF Load
    <2>4. ASSUME NEW q \in Requests, req[q] # Idle, req[q].on = x.on PROVE x.on \in raced'
      BY <2>3, <2>4 DEF On, Working
    <2> QED
      BY <1>0, <2>2, <2>3, <2>4
  <1>2. ASSUME NEW r \in Requests, Moves(r) PROVE Noted(req', raced')
    <2>1. /\ \A q \in Requests \ {r} : req'[q] = req[q]
          /\ req'[r].on = req[r].on /\ raced' = raced /\ req[r] # Idle
      BY <1>2, MoveEffect DEF Working
    <2> QED
      BY <1>0, <2>1
  <1>3. ASSUME NEW r \in Requests, End(r) PROVE Noted(req', raced')
    <2>1. \A q \in Requests \ {r} : req'[q] = req[q]
      BY <1>3, EndEffect
    <2>2. req'[r] = Idle
      BY <1>3, EndEffect
    <2>3. \A y \in raced : (\E q \in Requests \ {r} : On(q, y)) => y \in raced'
      BY <1>3 DEF End
    <2> QED
      BY <1>0, <2>1, <2>2, <2>3 DEF On, Working
  <1>4. ASSUME req' = req, raced \subseteq raced' PROVE Noted(req', raced')
    BY <1>0, <1>4
  <1>5. ASSUME NEW p \in Projects, Outside(p) PROVE req' = req /\ raced \subseteq raced'
    BY <1>5, OutsideEffect DEF Meanwhile
  <1>6. UNCHANGED vars => req' = req /\ raced \subseteq raced'
    BY DEF vars
  <1> HIDE DEF Noted
  <1>7. Noted(req', raced')
    BY <1>1, <1>2, <1>3, <1>4, <1>5, <1>6, StepKinds, FinishEffect, DecideEffect
  <1> QED
    BY <1>0, <1>7

\* A lead two requests were at work on stays noted.
LEMMA LeadsStayRaced ==
    ASSUME TypeOK, RowsInOrder, [Next]_vars, NEW l \in Leads, l \in raced
    PROVE  l \in raced'
  <1>1. ASSUME NEW r \in Requests, Call(r) PROVE raced \subseteq raced'
    BY <1>1, CallLoads DEF Load
  <1>2. ASSUME NEW r \in Requests, Moves(r) PROVE raced' = raced
    BY <1>2, MoveEffect
  <1>3. ASSUME NEW r \in Requests, End(r) PROVE l \in raced'
    BY <1>3 DEF End
  <1>4. ASSUME NEW p \in Projects, Outside(p) PROVE raced \subseteq raced'
    BY <1>4, OutsideEffect DEF Meanwhile
  <1>5. UNCHANGED vars => raced' = raced
    BY DEF vars
  <1> QED
    BY <1>1, <1>2, <1>3, <1>4, <1>5, StepKinds, FinishEffect, DecideEffect

\* Only a request that commits about a lead changes it.
LEMMA LeadsChange ==
    ASSUME TypeOK, RowsInOrder, [Next]_vars
    PROVE  \/ lead' = lead /\ drafted' = drafted
           \/ \E r \in Requests : CommitLead(r)
  <1>1. ASSUME NEW r \in Requests, Call(r) \/ Moves(r) \/ Decides(r)
        PROVE  lead' = lead /\ drafted' = drafted
    BY <1>1, CallLoads, LoadEffect, MoveEffect, DecideEffect
  <1>2. ASSUME NEW r \in Requests, Finishes(r), ~CommitLead(r)
        PROVE  lead' = lead /\ drafted' = drafted
    BY <1>2 DEF Finishes, CommitStatus, CommitCompletion, Rollback, crm
  <1>3. ASSUME NEW p \in Projects, Outside(p) PROVE lead' = lead /\ drafted' = drafted
    BY <1>3, OutsideEffect
  <1>4. UNCHANGED vars => lead' = lead /\ drafted' = drafted
    BY DEF vars, crm
  <1> QED
    BY <1>1, <1>2, <1>3, <1>4, StepKinds

\* A request about a lead was there before, or has just loaded it.
LEMMA StillOnLead ==
    ASSUME TypeOK, RowsInOrder, [Next]_vars, NEW q \in Requests, req'[q].op = "lead"
    PROVE  \/ req'[q] = req[q] /\ ~CommitLead(q)
           \/ /\ lead' = lead /\ req'[q].seen = lead[req'[q].on]
              /\ req'[q].to = req'[q].seen \/ req'[q].to \in LEAD_TRANSITIONS[req'[q].seen]
  <1>1. ASSUME NEW r \in Requests, Call(r)
        PROVE  \/ req'[q] = req[q] /\ ~CommitLead(q)
               \/ /\ lead' = lead /\ req'[q].seen = lead[req'[q].on]
                  /\ req'[q].to = req'[q].seen \/ req'[q].to \in LEAD_TRANSITIONS[req'[q].seen]
    <2>1. PICK x \in Requesting : x # Idle /\ Fresh(x) /\ Load(r, x)
      BY <1>1, CallLoads
    <2>2. lead' = lead /\ (\A s \in Requests \ {r} : req'[s] = req[s]) /\ req'[r] = x
      BY <2>1, LoadEffect
    <2>3. CASE q = r
      BY <1>1, <2>1, <2>2, <2>3 DEF Fresh
    <2>4. CASE q # r
      <3>1. ~CommitLead(q)
        <4>1. SUFFICES ASSUME CommitLead(q) PROVE FALSE
          OBVIOUS
        <4>2. req'[q] = Idle
          BY <4>1, EndEffect DEF CommitLead
        <4>3. req'[q] # Idle
          BY <4>1, <2>2, <2>4 DEF CommitLead, At, Working
        <4> QED
          BY <4>2, <4>3
      <3> QED
        BY <2>2, <2>4, <3>1
    <2> QED
      BY <2>3, <2>4
  <1>2. ~CommitLead(q)
    <2>1. CommitLead(q) => req'[q].op = "idle"
      BY EndEffect DEF CommitLead
    <2> QED
      BY <2>1
  <1>3. ASSUME NEW r \in Requests, Moves(r) PROVE req'[q] = req[q]
    BY <1>3, MoveEffect
  <1>4. ASSUME NEW r \in Requests, End(r) PROVE req'[q] = req[q]
    BY <1>4, EndEffect
  <1>5. UNCHANGED req => req'[q] = req[q]
    OBVIOUS
  <1> QED
    BY <1>1, <1>2, <1>3, <1>4, <1>5, StepKinds, FinishEffect, DecideEffect, OutsideEffect DEF vars

\* What a commit about a lead does.
LEMMA CommitLeadEffect ==
    ASSUME TypeOK, NEW r \in Requests, CommitLead(r)
    PROVE  LET l == req[r].on IN
           /\ l \in Leads /\ req[r].op = "lead" /\ Working(r)
           /\ \A k \in Leads \ {l} : lead'[k] = lead[k] /\ drafted'[k] = drafted[k]
           /\ req[r].to = req[r].seen => lead'[l] = lead[l]
           /\ req[r].to # req[r].seen => lead'[l] = req[r].to
           /\ drafted'[l] = IF req[r].to = "won" /\ req[r].seen # "won" THEN drafted[l] + 1
                                                                      ELSE drafted[l]
  <1>1. req[r] \in LeadRequests /\ req[r].op = "lead" /\ Working(r)
    BY RequestKinds DEF CommitLead, At, TypeOK
  <1>2. req[r].on \in Leads
    BY <1>1 DEF LeadRequests
  <1>3. lead' = IF req[r].to = req[r].seen THEN lead ELSE [lead EXCEPT ![req[r].on] = req[r].to]
    BY DEF CommitLead
  <1>4. drafted' = IF req[r].to = "won" /\ req[r].seen # "won"
                     THEN [drafted EXCEPT ![req[r].on] = @ + 1] ELSE drafted
    BY DEF CommitLead, Wins
  <1> QED
    BY <1>1, <1>2, <1>3, <1>4 DEF TypeOK

LEMMA LeadsSeenKept ==
    ASSUME TypeOK, RowsInOrder, Crowds, LeadsSeen, [Next]_vars
    PROVE  LeadsSeen'
  <1>1. ASSUME NEW q \in Requests, req'[q].op = "lead"
        PROVE  /\ req'[q].to = req'[q].seen \/ req'[q].to \in LEAD_TRANSITIONS[req'[q].seen]
               /\ req'[q].on \notin raced' => req'[q].seen = lead'[req'[q].on]
    <2>1. CASE lead' = lead /\ req'[q].seen = lead[req'[q].on]
               /\ (req'[q].to = req'[q].seen \/ req'[q].to \in LEAD_TRANSITIONS[req'[q].seen])
      BY <2>1
    <2>2. CASE req'[q] = req[q] /\ ~CommitLead(q)
      <3>1. req[q].on \in Leads /\ req[q] # Idle
        BY <1>1, <2>2, RequestKinds DEF TypeOK, LeadRequests, Idle
      <3>2. req[q].on \in raced => req[q].on \in raced'
        BY <3>1, LeadsStayRaced
      <3>3. ASSUME NEW r \in Requests, CommitLead(r), req[q].on \notin raced
            PROVE  lead'[req[q].on] = lead[req[q].on]
        <4>1. req[r].on # req[q].on
          BY <2>2, <3>1, <3>3, CommitLeadEffect DEF Crowds, Working
        <4> QED
          BY <3>1, <3>3, <4>1, CommitLeadEffect
      <3>4. req[q].on \notin raced => lead'[req[q].on] = lead[req[q].on]
        BY <3>3, LeadsChange
      <3> QED
        BY <1>1, <2>2, <3>2, <3>4 DEF LeadsSeen
    <2> QED
      BY <1>1, <2>1, <2>2, StillOnLead
  <1> QED
    BY <1>1 DEF LeadsSeen

LEMMA WonKept ==
    ASSUME TypeOK, RowsInOrder, Crowds, LeadsSeen, WonDraftsOneProject, [Next]_vars
    PROVE  WonDraftsOneProject'
  <1>1. ASSUME NEW l \in Leads
        PROVE  /\ lead'[l] = "won" => drafted'[l] > 0
               /\ l \notin raced' => drafted'[l] = IF lead'[l] = "won" THEN 1 ELSE 0
    <2>0. /\ l \in raced => l \in raced'
          /\ lead[l] = "won" => drafted[l] > 0
          /\ l \notin raced => drafted[l] = IF lead[l] = "won" THEN 1 ELSE 0
          /\ drafted[l] \in Nat
      BY LeadsStayRaced DEF WonDraftsOneProject, TypeOK
    <2>1. CASE lead' = lead /\ drafted' = drafted
      BY <2>0, <2>1
    <2>2. ASSUME NEW r \in Requests, CommitLead(r), req[r].on # l
          PROVE  lead'[l] = lead[l] /\ drafted'[l] = drafted[l]
      BY <2>2, CommitLeadEffect
    <2>3. ASSUME NEW r \in Requests, CommitLead(r), req[r].on = l
          PROVE  /\ lead'[l] = "won" => drafted'[l] > 0
                 /\ l \notin raced' => drafted'[l] = IF lead'[l] = "won" THEN 1 ELSE 0
      <3>1. /\ req[r].op = "lead"
            /\ req[r].to = req[r].seen => lead'[l] = lead[l]
            /\ req[r].to # req[r].seen => lead'[l] = req[r].to
            /\ drafted'[l] = IF req[r].to = "won" /\ req[r].seen # "won" THEN drafted[l] + 1
                                                                      ELSE drafted[l]
        BY <2>3, CommitLeadEffect
      <3>2. /\ req[r].to = req[r].seen \/ req[r].to \in LEAD_TRANSITIONS[req[r].seen]
            /\ l \notin raced => req[r].seen = lead[l]
        BY <2>3, <3>1 DEF LeadsSeen
      <3>3. req[r].seen = "won" => req[r].to = "won"
        BY <3>2 DEF LEAD_TRANSITIONS
      <3> QED
        BY <2>0, <3>1, <3>2, <3>3
    <2> QED
      BY <2>0, <2>1, <2>2, <2>3, LeadsChange
  <1> QED
    BY <1>1 DEF WonDraftsOneProject

-----------------------------------------------------------------------------
(* A completion alone with its project.                                    *)

\* While nothing else is at work on a project, nothing of it changes but by its own request.
LEMMA Quiet ==
    ASSUME TypeOK, RowsInOrder, Crowds, [Next]_vars, NEW q \in Requests, NEW p \in Projects,
           On(q, p), req'[q] = req[q] \/ Moves(q), p \notin raced'
    PROVE  /\ p \notin raced
           /\ \A c \in ChangeOrders : order[c].on = p \/ order'[c].on = p => order'[c] = order[c]
           /\ estimate'[p] = estimate[p] /\ invoices'[p] = invoices[p] /\ finals'[p] = finals[p]
  <1> DEFINE Same == /\ \A c \in ChangeOrders :
                           order[c].on = p \/ order'[c].on = p => order'[c] = order[c]
                     /\ estimate'[p] = estimate[p] /\ invoices'[p] = invoices[p]
                     /\ finals'[p] = finals[p]
  <1>0. req[q] # Idle /\ req[q].on = p
    BY DEF On, Working
  <1>1. ASSUME NEW r \in Requests, Call(r) PROVE p \notin raced /\ Same
    <2>1. PICK x \in Requesting : x # Idle /\ Fresh(x) /\ Load(r, x)
      BY <1>1, CallLoads
    <2>2. raced \subseteq raced'
      BY <2>1 DEF Load
    <2> QED
      BY <2>1, <2>2, LoadEffect
  <1>2. ASSUME NEW r \in Requests, Moves(r) PROVE p \notin raced /\ Same
    BY <1>2, MoveEffect
  <1>3. ASSUME NEW r \in Requests, End(r), Working(r)
        PROVE  p \notin raced /\ req[r].on # p
    <2>1. r # q
      <3>1. req'[r] = Idle /\ req'[r].op = "idle"
        BY <1>3, EndEffect
      <3>2. Moves(q) => req'[q].op = "status"
        BY MoveEffect
      <3> QED
        BY <1>0, <3>1, <3>2
    <2>2. p \in raced => p \in raced'
      BY <1>3, <2>1 DEF End
    <2>3. req[r].on = p => p \in raced
      BY <1>0, <1>3, <2>1 DEF Crowds, Working
    <2> QED
      BY <2>2, <2>3
  <1>4. ASSUME NEW r \in Requests, Decides(r) PROVE p \notin raced /\ Same
    <2>1. /\ End(r) /\ Working(r) /\ UNCHANGED <<estimate, invoices, finals>>
          /\ \A c \in ChangeOrders \ {req[r].order} : order'[c] = order[c]
          /\ order'[req[r].order].on = req[r].on
          /\ order[req[r].order] # NoOrder => order[req[r].order].on = req[r].on
          /\ req[r].order \in ChangeOrders
      BY <1>4, DecideEffect
    <2>2. p \notin raced /\ req[r].on # p
      BY <1>3, <2>1
    <2>3. order[req[r].order] = NoOrder => order[req[r].order].on # p
      BY <2>1, RowsTyped
    <2> QED
      BY <2>1, <2>2, <2>3
  <1>5. ASSUME NEW r \in Requests, Finishes(r) PROVE p \notin raced /\ Same
    <2>1. End(r) /\ Working(r) /\ UNCHANGED <<estimate, invoices, order>>
      BY <1>5, FinishEffect
    <2>2. p \notin raced /\ req[r].on # p
      BY <1>3, <2>1
    <2>3. \/ finals' = finals
          \/ \E k \in Slots : finals' = [finals EXCEPT ![req[r].on][k] = req[r].contract]
      BY <1>5 DEF Finishes, CommitLead, CommitStatus, CommitCompletion, Rollback, books
    <2>4. finals'[p] = finals[p]
      BY <2>2, <2>3 DEF TypeOK
    <2> QED
      BY <2>1, <2>2, <2>4
  <1>6. ASSUME NEW o \in Projects, Outside(o) PROVE p \notin raced /\ Same
    <2>1. order' = order /\ Meanwhile(o)
      BY <1>6, OutsideEffect
    <2>2. p \notin raced /\ o # p
      BY <2>1 DEF Meanwhile
    <2>3. estimate'[p] = estimate[p] /\ invoices'[p] = invoices[p] /\ finals'[p] = finals[p]
      BY <1>6, <2>2 DEF Outside, ApproveEstimate, ReopenEstimate, CreateInvoice, VoidInvoice, TypeOK
    <2> QED
      BY <2>1, <2>2, <2>3
  <1>7. UNCHANGED vars => p \notin raced /\ Same
    BY DEF vars, books
  <1> HIDE DEF Same
  <1>8. p \notin raced /\ Same
    BY <1>1, <1>2, <1>4, <1>5, <1>6, <1>7, StepKinds
  <1> QED
    BY <1>8 DEF Same

\* The three sums of a project whose rows did not change.
LEMMA SameSums ==
    ASSUME TypeOK, NEW p \in Projects,
           \A c \in ChangeOrders : order[c].on = p \/ order'[c].on = p => order'[c] = order[c]
    PROVE  /\ ChangeOrderTotal(p)' = ChangeOrderTotal(p)
           /\ estimate'[p] = estimate[p] => ApprovedTotal(p)' = ApprovedTotal(p)
           /\ invoices'[p] = invoices[p] => 
                 InvoicedTotal(p)' = invoices[p] * InvoiceAmount + SumFunction(finals'[p])
  <1> DEFINE f == Delta
             g == Delta'
             S == {c \in OrdersOf(p) : order[c].status = "approved"}
             T == {c \in OrdersOf(p)' : order'[c].status = "approved"}
  <1>1. S = T /\ S \subseteq ChangeOrders
    BY DEF OrdersOf
  <1>2. \A c \in S : f[c] = g[c]
    BY <1>1 DEF Delta, OrdersOf
  <1>3. IsFiniteSet(S)
    <2> HIDE DEF S
    <2> QED
      BY <1>1, FiniteAssumption, FS_Subset DEF FiniteAssumption
  <1>4. SumFunctionOnSet(f, S) = SumFunctionOnSet(g, S)
    <2> HIDE DEF f, g, S
    <2> QED
      BY <1>2, <1>3, SumSame
  <1>5. ChangeOrderTotal(p)' = SumFunctionOnSet(g, T)
    BY DEF ChangeOrderTotal
  <1>6. ChangeOrderTotal(p)' = ChangeOrderTotal(p)
    <2>1. ChangeOrderTotal(p) = SumFunctionOnSet(f, S)
      BY DEF ChangeOrderTotal
    <2> HIDE DEF f, g, S, T
    <2> QED
      BY <1>1, <1>4, <1>5, <2>1
  <1>7. estimate'[p] = estimate[p] => ApprovedTotal(p)' = ApprovedTotal(p)
    BY DEF ApprovedTotal
  <1>8. invoices'[p] = invoices[p] =>
           InvoicedTotal(p)' = invoices[p] * InvoiceAmount + SumFunction(finals'[p])
    BY DEF InvoicedTotal
  <1> QED
    BY <1>6, <1>7, <1>8

LEMMA SumsExactKept ==
    ASSUME TypeOK, TypeOK', RowsInOrder, Crowds, SumsExact, [Next]_vars
    PROVE  SumsExact'
  <1>1. ASSUME NEW q \in Requests, NEW p \in Projects, Completing(q)', req'[q].on = p, p \notin raced'
        PROVE  /\ \A c \in OrdersOf(p)' : order'[c].status # "pending"
               /\ req'[q].pc \in {"estimates", "orders", "summed"} =>
                     req'[q].signed = (estimate'[p] = "approved")
               /\ req'[q].pc = "estimates" => req'[q].contract = ApprovedTotal(p)'
               /\ req'[q].pc = "orders" =>
                     req'[q].contract = ApprovedTotal(p)' + ChangeOrderTotal(p)'
               /\ req'[q].pc = "summed" =>
                     req'[q].contract = ApprovedTotal(p)' + ChangeOrderTotal(p)' - InvoicedTotal(p)'
    <2>1. (req'[q] = req[q] /\ ~Moves(q)) \/ Moves(q)
      BY <1>1, StillCompleting
    <2>2. On(q, p) /\ req[q].op = "status"
      <3>1. req[q].on = p /\ req[q].op = "status"
        BY <1>1, <2>1, MoveEffect DEF Completing
      <3> QED
        BY <3>1 DEF On, Working, Idle
    <2>3. /\ p \notin raced
          /\ \A c \in ChangeOrders : order[c].on = p \/ order'[c].on = p => order'[c] = order[c]
          /\ estimate'[p] = estimate[p] /\ invoices'[p] = invoices[p] /\ finals'[p] = finals[p]
      BY <1>1, <2>1, <2>2, Quiet
    <2> DEFINE a == ApprovedTotal(p)
               b == ChangeOrderTotal(p)
               i == InvoicedTotal(p)
               x == ApprovedTotal(p)'
               y == ChangeOrderTotal(p)'
               j == InvoicedTotal(p)'
    <2>4. x = a /\ y = b
      BY <2>3, SameSums
    <2>5. j = i
      <3>1. j = invoices[p] * InvoiceAmount + SumFunction(finals'[p])
        BY <2>3, SameSums
      <3> QED
        BY <2>3, <3>1 DEF InvoicedTotal
    <2>6. a \in Nat /\ b \in Int /\ i \in Nat /\ req[q].contract \in Int
      BY <2>2, SumsTyped, RequestKinds DEF TypeOK, StatusRequests, On
    <2>7. \A c \in OrdersOf(p)' : c \in OrdersOf(p) /\ order'[c].status = order[c].status
      BY <2>3 DEF OrdersOf
    <2>8. Completing(q) =>
             /\ \A c \in OrdersOf(p) : order[c].status # "pending"
             /\ req[q].pc \in {"estimates", "orders", "summed"} =>
                   req[q].signed = (estimate[p] = "approved")
             /\ req[q].pc = "estimates" => req[q].contract = a
             /\ req[q].pc = "orders" => req[q].contract = a + b
             /\ req[q].pc = "summed" => req[q].contract = a + b - i
      BY <2>2, <2>3 DEF SumsExact, On
    <2> HIDE DEF a, b, i, x, y, j
    <2>9. CASE req'[q] = req[q] /\ ~Moves(q)
      <3>1. Completing(q)
        BY <1>1, <2>9 DEF Completing
      <3> QED
        BY <2>3, <2>4, <2>5, <2>7, <2>8, <2>9, <3>1 DEF x, y, j
    <2>10. CASE Moves(q)
      <3>1. \A c \in OrdersOf(p) : order[c].status # "pending"
        <4>1. CASE CountPending(q)
          BY <2>2, <4>1 DEF CountPending, Blocks, On
        <4>2. CASE ~CountPending(q)
          <5>1. req[q].pc \in {"counted", "flushed", "estimates", "orders"}
            BY <2>10, <4>2
              DEF Moves, FlushCompletion, Step, SumEstimates, SumChangeOrders, SumInvoices, At
          <5>2. Completing(q)
            BY <2>2, <5>1 DEF Completing
          <5> QED
            BY <2>8, <5>2
        <4> QED
          BY <4>1, <4>2
      <3>2. \/ req'[q].pc \in {"counted", "flushed"}
            \/ /\ req'[q].pc = "estimates"
               /\ req'[q].contract = a /\ req'[q].signed = (estimate[p] = "approved")
            \/ /\ req[q].pc = "estimates" /\ req'[q].pc = "orders"
               /\ req'[q].contract = req[q].contract + b /\ req'[q].signed = req[q].signed
            \/ /\ req[q].pc = "orders" /\ req'[q].pc = "summed"
               /\ req'[q].contract = req[q].contract - i /\ req'[q].signed = req[q].signed
        BY <2>2, <2>10, MoveSums DEF a, b, i, On
      <3>3. req[q].pc \in {"estimates", "orders"} => Completing(q)
        BY <2>2 DEF Completing
      <3>4. \A c \in OrdersOf(p)' : order'[c].status # "pending"
        BY <2>7, <3>1
      <3>5. req'[q].pc \in {"estimates", "orders", "summed"} =>
               req'[q].signed = (estimate'[p] = "approved")
        BY <2>3, <2>8, <3>2, <3>3
      <3>6. /\ req'[q].pc = "estimates" => req'[q].contract = x
            /\ req'[q].pc = "orders" => req'[q].contract = x + y
            /\ req'[q].pc = "summed" => req'[q].contract = x + y - j
        BY <2>4, <2>5, <2>6, <2>8, <3>2, <3>3
      <3> QED
        BY <3>4, <3>5, <3>6 DEF x, y, j
    <2> QED
      BY <2>1, <2>9, <2>10
  <1> QED
    BY <1>1 DEF SumsExact

LEMMA Settles ==
    ASSUME TypeOK, RowsInOrder, Crowds, SumsExact, [Next]_vars, NEW p \in Projects,
           p \notin raced, status'[p] = "completed", status[p] # "completed"
    PROVE  /\ \A c \in OrdersOf(p)' : order'[c].status # "pending"
           /\ estimate'[p] = "approved" =>
                 InvoicedTotal(p)' >= ApprovedTotal(p)' + ChangeOrderTotal(p)'
  <1>1. \E r \in Requests : CommitCompletion(r) /\ req[r].on = p
    <2>1. ASSUME NEW r \in Requests, Call(r) \/ Moves(r) \/ Decides(r) PROVE FALSE
      BY <2>1, CallLoads, LoadEffect, MoveEffect, DecideEffect
    <2>2. ASSUME NEW r \in Requests, CommitLead(r) PROVE FALSE
      <3>1. \/ status' = status
            \/ \E o \in Projects : status' = [status EXCEPT ![o] = "draft"]
        BY <2>2 DEF CommitLead, DraftStatus
      <3> QED
        BY <3>1 DEF TypeOK
    <2>3. ASSUME NEW r \in Requests, CommitStatus(r) PROVE FALSE
      BY <2>3 DEF CommitStatus, TypeOK
    <2>4. ASSUME NEW r \in Requests, Rollback(r) PROVE FALSE
      BY <2>4 DEF Rollback
    <2>5. ASSUME NEW r \in Requests, CommitCompletion(r) PROVE req[r].on = p
      BY <2>5 DEF CommitCompletion, TypeOK
    <2>6. ASSUME NEW o \in Projects, Outside(o) PROVE FALSE
      BY <2>6, OutsideEffect
    <2>7. UNCHANGED vars => FALSE
      BY DEF vars
    <2> QED
      BY <2>1, <2>2, <2>3, <2>4, <2>5, <2>6, <2>7, StepKinds DEF Finishes
  <1>2. PICK r \in Requests : CommitCompletion(r) /\ req[r].on = p
    BY <1>1
  <1>3. req[r].op = "status" /\ req[r].pc = "summed" /\ UNCHANGED <<estimate, invoices, order>>
    BY <1>2 DEF CommitCompletion, At
  <1> DEFINE a == ApprovedTotal(p)
             b == ChangeOrderTotal(p)
             n == SumFunction(finals[p])
             m == SumFunction(finals'[p])
             k == invoices[p] * InvoiceAmount
             j == InvoicedTotal(p)'
  <1>4. /\ \A c \in OrdersOf(p) : order[c].status # "pending"
        /\ req[r].signed = (estimate[p] = "approved")
        /\ req[r].contract = a + b - (k + n)
    <2>1. Completing(r)
      BY <1>3 DEF Completing
    <2> QED
      BY <1>2, <1>3, <2>1 DEF SumsExact, InvoicedTotal
  <1>5. OrdersOf(p)' = OrdersOf(p)
    BY <1>3 DEF OrdersOf
  <1>6. ApprovedTotal(p)' = a /\ ChangeOrderTotal(p)' = b /\ j = k + m
    BY <1>3, SameSums
  <1>7. a \in Nat /\ b \in Int /\ n \in Nat /\ k \in Int
    <2>1. InvoiceAmount \in Nat /\ invoices[p] \in Nat
      BY AmountAssumption DEF AmountAssumption, TypeOK
    <2>2. \A u, v \in Nat : u * v \in Int
      OBVIOUS
    <2> QED
      BY <2>1, <2>2, SumsTyped
  <1>8. CASE req[r].signed /\ req[r].contract > 0
    <2>1. PICK s \in Slots : /\ finals[p][s] = 0
                             /\ finals' = [finals EXCEPT ![p][s] = req[r].contract]
      BY <1>2, <1>8 DEF CommitCompletion
    <2> DEFINE v == req[r].contract
    <2>2. v \in Nat
      BY <1>3, <1>8, RequestKinds DEF TypeOK, StatusRequests
    <2>3. finals'[p] = [finals[p] EXCEPT ![s] = v] /\ finals[p] \in [Slots -> Nat]
      BY <2>1 DEF TypeOK
    <2>4. SumFunction([finals[p] EXCEPT ![s] = v]) = n - finals[p][s] + v
      <3> HIDE DEF v
      <3> QED
        BY <2>2, <2>3, SlotSum
    <2>5. m = n + v
      <3>1. m = n - finals[p][s] + v
        BY <2>3, <2>4
      <3> HIDE DEF m, n, v
      <3> QED
        BY <1>7, <2>1, <2>2, <3>1
    <2>6. j >= a + b
      <3> HIDE DEF a, b, n, m, k, j
      <3> QED
        BY <1>4, <1>6, <1>7, <2>5
    <2> QED
      BY <1>3, <1>4, <1>5, <1>6, <2>6
  <1>9. CASE ~(req[r].signed /\ req[r].contract > 0)
    <2>1. finals' = finals
      BY <1>2, <1>9 DEF CommitCompletion
    <2>2. m = n
      BY <2>1
    <2>3. estimate[p] = "approved" => j >= a + b
      <3>1. SUFFICES ASSUME estimate[p] = "approved" PROVE j >= a + b
        OBVIOUS
      <3>2. ~(req[r].contract > 0)
        BY <1>4, <1>9, <3>1, Zenon
      <3> HIDE DEF a, b, n, m, k, j
      <3> QED
        BY <1>4, <1>6, <1>7, <2>2, <3>2
    <2> QED
      BY <1>3, <1>4, <1>5, <1>6, <2>3
  <1> QED
    BY <1>8, <1>9

-----------------------------------------------------------------------------
(* The theorems.                                                           *)

PInv ==
    /\ TypeOK
    /\ RowsInOrder /\ HoldRows /\ ApprovedIsSigned
    /\ SumsBounded /\ FinalsWithinSigned
    /\ Crowds /\ LeadsSeen /\ WonDraftsOneProject
    /\ SumsExact

LEMMA Start == Init => PInv
  <1> SUFFICES ASSUME Init PROVE PInv
    OBVIOUS
  <1>1. TypeOK
    BY Typed0
  <1>2. \A r \in Requests : req[r] = Idle /\ req[r].op = "idle"
    BY DEF Init, Idle
  <1>3. RowsInOrder /\ HoldRows /\ SumsBounded /\ Crowds /\ LeadsSeen /\ SumsExact
    BY <1>2 DEF RowsInOrder, HoldRows, SumsBounded, Crowds, LeadsSeen, SumsExact, Flushed,
                Completing, Working
  <1>4. ApprovedIsSigned
    BY DEF Init, ApprovedIsSigned, NoOrder
  <1>5. WonDraftsOneProject
    BY DEF Init, WonDraftsOneProject
  <1>6. FinalsWithinSigned
    <2> SUFFICES ASSUME NEW p \in Projects PROVE SumFunction(finals[p]) <= Signed(p)
      BY DEF FinalsWithinSigned, Signed, Contracted, Extras
    <2>1. finals[p] = [k \in Slots |-> 0] /\ estimate[p] = "open"
      BY DEF Init
    <2>2. SumFunction(finals[p]) = 0
      <3> DEFINE f == [k \in Slots |-> 0]
      <3>1. DOMAIN f = Slots /\ \A k \in Slots : f[k] = 0
        OBVIOUS
      <3>2. IsFiniteSet(Slots)
        BY BoundAssumption, FS_Interval DEF Slots
      <3> HIDE DEF f
      <3>3. SumFunctionOnSet(f, Slots) = 0
        BY <3>1, <3>2, SumZero
      <3>4. SumFunction(f) = 0
        BY <3>1, <3>3 DEF SumFunction
      <3> QED
        BY <2>1, <3>4 DEF f
    <2>3. Signed(p) \in Nat
      BY <1>1, <2>1, ExtrasTyped DEF Signed, Contracted
    <2> QED
      BY <2>2, <2>3
  <1> QED
    BY <1>1, <1>3, <1>4, <1>5, <1>6 DEF PInv

LEMMA Kept == PInv /\ [Next]_vars => PInv'
  <1> SUFFICES ASSUME PInv, [Next]_vars PROVE PInv'
    OBVIOUS
  <1>1. TypeOK'
    BY TypeKept DEF PInv
  <1>2. RowsInOrder' /\ HoldRows' /\ ApprovedIsSigned'
    BY RowsInOrderKept, HoldRowsKept, ApprovedKept DEF PInv
  <1>3. SumsBounded' /\ FinalsWithinSigned'
    BY <1>1, MoneyKept DEF PInv
  <1>4. Crowds' /\ LeadsSeen' /\ WonDraftsOneProject'
    BY CrowdsKept, LeadsSeenKept, WonKept DEF PInv
  <1>5. SumsExact'
    BY <1>1, SumsExactKept DEF PInv
  <1> QED
    BY <1>1, <1>2, <1>3, <1>4, <1>5 DEF PInv

\* The inductive invariant holds.
THEOREM Invariance == Spec => []PInv
  BY Start, Kept, PTL DEF Spec

\* However leads, projects, change orders and bills interleave, every row, lock and request keeps
\* its type.
THEOREM PipelineTyped == Spec => []TypeOK
  <1>1. PInv => TypeOK
    BY DEF PInv
  <1> QED
    BY <1>1, Invariance, PTL

\* The final invoices of a project never exceed what its client has signed, whatever is approved,
\* reopened, billed, voided or completed between the three sums (project_completed_handler.py).
THEOREM NeverOverbilled == Spec => []FinalsWithinSigned
  <1>1. PInv => FinalsWithinSigned
    BY DEF PInv
  <1> QED
    BY <1>1, Invariance, PTL

\* A won lead has drafted a project, and one alone unless two requests were at work on the lead at
\* once (leads.py, lead_won_handler.py).
THEOREM WonOnce == Spec => []WonDraftsOneProject
  <1>1. PInv => WonDraftsOneProject
    BY DEF PInv
  <1> QED
    BY <1>1, Invariance, PTL

\* A completion that nothing disturbed leaves no pending change order and nothing unbilled.
THEOREM CompletedIsSettled == Spec => CompletionSettles
  <1>1. ASSUME PInv, [Next]_vars
        PROVE  \A p \in Projects :
                  p \notin raced /\ status'[p] = "completed" /\ status[p] # "completed" =>
                      /\ \A c \in OrdersOf(p)' : order'[c].status # "pending"
                      /\ estimate'[p] = "approved" =>
                            InvoicedTotal(p)' >= (ApprovedTotal(p) + ChangeOrderTotal(p))'
    BY <1>1, Settles DEF PInv
  <1> QED
    BY <1>1, Invariance, PTL DEF Spec, CompletionSettles
=============================================================================
