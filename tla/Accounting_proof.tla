-------------------------- MODULE Accounting_proof --------------------------
(***************************************************************************)
(* Proofs about the accounting: Invoices, for any number of requests,      *)
(* invoices, companies and amounts, and AccountingSync, which sends them   *)
(* on, for any records, company files and workers and any number of        *)
(* retries, expired tokens and faults.  The two share no state.            *)
(***************************************************************************)
EXTENDS Invoices, AccountingSync, FiniteSetTheorems, TLAPS

\* NUMERIC(12,2) rounding never turns a positive amount into a negative one.
LEMMA CentsAreNat == Cents \subseteq Nat
  <1>1. ASSUME NEW raw \in RawAmounts PROVE Quantize(raw) \in Nat
    <2>1. raw \in Nat
      BY AmountAssumption
    <2> QED
      BY <2>1 DEF Quantize
  <1> QED
    BY <1>1 DEF Cents

\* What a request's record says of its kind.
LEMMA Kinds ==
    ASSUME TypeOK, NEW r \in Requests
    PROVE  /\ req[r] \in Requesting
           /\ Working(r) => req[r].inv \in Invoices
           /\ Working(r) /\ req[r].op = "create" => req[r] \in Creating
           /\ Working(r) /\ req[r].op = "send"   => req[r] \in Sending
           /\ Working(r) /\ req[r].op = "pay"    => req[r] \in Paying
           /\ Working(r) /\ req[r].op = "void"   => req[r] \in Voiding
  BY DEF TypeOK, Requesting, Creating, Sending, Paying, Voiding, Working, Idle

\* A request that ends leaves the locks and the other requests well typed.
LEMMA EndIsTyped ==
    ASSUME TypeOK, NEW r \in Requests, End(r)
    PROVE  /\ rowLock'    \in [Invoices  -> Requests \cup {Nobody, Scanner}]
           /\ numberLock' \in [Companies -> Requests \cup {Nobody}]
           /\ req' \in [Requests -> Requesting]
           /\ raced' \in BOOLEAN
  BY DEF TypeOK, End, Requesting

\* A handler that loads its invoice and starts with a well-typed record keeps the requests
\* well typed.
LEMMA BeginIsTyped ==
    ASSUME TypeOK, NEW r \in Requests, NEW record \in Requesting, Begin(r, record)
    PROVE  req' \in [Requests -> Requesting] /\ raced' \in BOOLEAN
  BY DEF TypeOK, Begin

\* The empty invoices and payments tables are well typed.
LEMMA InitIsTyped == Init => TypeOK
  <1> SUFFICES ASSUME Init PROVE TypeOK
    OBVIOUS
  <1>1. req \in [Requests -> Requesting]
    BY DEF Init, Requesting
  <1>2. /\ status \in [Invoices -> Statuses \cup {"none"}]
        /\ due \in [Invoices -> DueDates]
    BY DEF Init, DueDates
  <1>3. /\ amount \in [Invoices -> Nat] /\ number \in [Invoices -> Nat]
        /\ paid \in [Invoices -> Nat]
    BY DEF Init
  <1>4. /\ rowLock \in [Invoices -> Requests \cup {Nobody, Scanner}]
        /\ numberLock \in [Companies -> Requests \cup {Nobody}]
        /\ raced \in BOOLEAN
    BY DEF Init
  <1> QED
    BY <1>1, <1>2, <1>3, <1>4 DEF TypeOK

\* Every handler step, and every step of the overdue job, keeps every row, lock and request
\* well typed: one step per action, and under it what the action assigns.
LEMMA NextIsTyped == TypeOK /\ [Next]_vars => TypeOK'
  <1> SUFFICES ASSUME TypeOK, [Next]_vars PROVE TypeOK'
    OBVIOUS
  <1> USE CentsAreNat
  <1>1. ASSUME NEW r \in Requests, NEW i \in Invoices, NEW raw \in RawAmounts,
               NEW date \in BodyDates, CreateInvoice(r, i, raw, date)
        PROVE  TypeOK'
    <2>1. [op |-> "create", inv |-> i, pc |-> "loaded",
           amt |-> Quantize(raw), date |-> date, num |-> 0] \in Requesting
      BY DateAssumption DEF Requesting, Creating, Cents
    <2> QED
      BY <1>1, <2>1, BeginIsTyped DEF CreateInvoice, TypeOK, rows, locks
  <1>2. ASSUME NEW r \in Requests, NEW i \in Invoices, NEW date \in BodyDates,
               SendInvoice(r, i, date)
        PROVE  TypeOK'
    <2>1. [op |-> "send", inv |-> i, pc |-> "loaded", date |-> date] \in Requesting
      BY DateAssumption DEF Requesting, Sending
    <2> QED
      BY <1>2, <2>1, BeginIsTyped DEF SendInvoice, TypeOK, rows, locks
  <1>3. ASSUME NEW r \in Requests, NEW i \in Invoices, NEW raw \in RawAmounts,
               RecordInvoicePayment(r, i, raw)
        PROVE  TypeOK'
    <2>1. [op |-> "pay", inv |-> i, pc |-> "loaded", seen |-> status[i],
           amt |-> Quantize(raw), already |-> 0] \in Requesting
      BY <1>3 DEF RecordInvoicePayment, TypeOK, Requesting, Paying, Cents
    <2> QED
      BY <1>3, <2>1, BeginIsTyped DEF RecordInvoicePayment, TypeOK, rows, locks
  <1>4. ASSUME NEW r \in Requests, NEW i \in Invoices, VoidInvoice(r, i)
        PROVE  TypeOK'
    <2>1. [op |-> "void", inv |-> i, pc |-> "loaded", seen |-> status[i]] \in Requesting
      BY <1>4 DEF VoidInvoice, TypeOK, Requesting, Voiding
    <2> QED
      BY <1>4, <2>1, BeginIsTyped DEF VoidInvoice, TypeOK, rows, locks
  <1>5. ASSUME NEW r \in Requests, NextInvoiceNumber(r) PROVE TypeOK'
    <2>1. req[r] \in Creating /\ CompanyOf[req[r].inv] \in Companies
      BY <1>5, Kinds, CompanyAssumption DEF NextInvoiceNumber, Creating
    <2>2. Cardinality(Counted(CompanyOf[req[r].inv])) + 1 \in Nat
      <3>1. IsFiniteSet(Counted(CompanyOf[req[r].inv]))
        BY FiniteAssumption, FS_Subset DEF Counted, InvoicesOf
      <3> QED
        BY <3>1, FS_CardinalityType
    <2>3. req'[r] \in Creating
      BY <1>5, <2>1, <2>2 DEF NextInvoiceNumber, TypeOK, Creating
    <2> QED
      BY <1>5, <2>1, <2>3 DEF NextInvoiceNumber, TypeOK, Requesting, rows
  <1>6. ASSUME NEW r \in Requests, InsertInvoice(r) PROVE TypeOK'
    <2>1. req[r] \in Creating
      BY <1>6, Kinds DEF InsertInvoice
    <2> QED
      BY <1>6, <2>1, EndIsTyped DEF InsertInvoice, TypeOK, Creating, Statuses, DueDates
  <1>7. ASSUME NEW r \in Requests, CommitSend(r) PROVE TypeOK'
    <2>1. req[r] \in Sending
      BY <1>7, Kinds DEF CommitSend
    <2> QED
      BY <1>7, <2>1, EndIsTyped DEF CommitSend, TypeOK, Sending, Statuses
  <1>8. ASSUME NEW r \in Requests, LockInvoice(r) PROVE TypeOK'
    <2>1. req[r] \in Paying \cup Voiding /\ req[r].inv \in Invoices
      BY <1>8, Kinds DEF LockInvoice
    <2>2. req'[r] \in Paying \cup Voiding
      BY <1>8, <2>1 DEF LockInvoice, TypeOK, Paying, Voiding
    <2> QED
      BY <1>8, <2>1, <2>2 DEF LockInvoice, TypeOK, Requesting, rows
  <1>9. ASSUME NEW r \in Requests, CommitPayment(r) PROVE TypeOK'
    <2>1. req[r] \in Paying
      BY <1>9, Kinds DEF CommitPayment
    <2>2. paid' \in [Invoices -> Nat]
      <3>1. req[r].inv \in Invoices /\ req[r].amt \in Nat
        BY <2>1 DEF Paying
      <3> QED
        BY <1>9, <3>1 DEF CommitPayment, TypeOK
    <2>3. status' \in [Invoices -> Statuses \cup {"none"}]
      BY <1>9 DEF CommitPayment, TypeOK, Statuses
    <2> QED
      BY <1>9, <2>2, <2>3, EndIsTyped DEF CommitPayment, TypeOK
  <1>10. ASSUME NEW r \in Requests, CommitVoid(r) PROVE TypeOK'
    BY <1>10, EndIsTyped DEF CommitVoid, TypeOK, Statuses, VoidStatus
  <1>11. ASSUME NEW r \in Requests, Rollback(r) PROVE TypeOK'
    BY <1>11, EndIsTyped DEF Rollback, TypeOK, rows
  <1>12. ASSUME NEW i \in Invoices, DueDatePasses(i) PROVE TypeOK'
    BY <1>12 DEF DueDatePasses, TypeOK, DueDates, locks
  <1>13. ASSUME NEW i \in Invoices, FlagRow(i) PROVE TypeOK'
    BY <1>13 DEF FlagRow, TypeOK, rows
  <1>14. CASE FlagOverdue
    BY <1>14 DEF FlagOverdue, ReleaseFlagged, TypeOK, Statuses
  <1>15. CASE FlagOverdueFails
    BY <1>15 DEF FlagOverdueFails, ReleaseFlagged, TypeOK
  <1>16. CASE UNCHANGED vars
    BY <1>16 DEF vars, rows, locks, TypeOK
  <1> QED
    BY <1>1, <1>2, <1>3, <1>4, <1>5, <1>6, <1>7, <1>8, <1>9, <1>10, <1>11, <1>12, <1>13,
       <1>14, <1>15, <1>16 DEF Next, Call, Handle

\* Rows, locks and requests always hold values of their types.
THEOREM TypeCorrect == Spec => []TypeOK
  BY InitIsTyped, NextIsTyped, PTL DEF Spec

-----------------------------------------------------------------------------
(* The inductive invariant: what the requests in flight and the nightly    *)
(* job may rely on, besides the properties themselves.                     *)

\* An id being created names no row yet and no other request works on it.
CreatesAlone ==
    \A r \in Requests : Working(r) /\ req[r].op = "create" =>
        /\ status[req[r].inv] = "none"
        /\ \A q \in Requests \ {r} : ~On(q, req[r].inv)

\* A loaded row stays in existence, and one loaded after it was sent stays sent.
LoadedRowsRemain ==
    \A r \in Requests : Working(r) =>
        /\ req[r].op # "create" => status[req[r].inv] # "none"
        /\ req[r].op = "pay" /\ req[r].seen # "draft" => status[req[r].inv] # "draft"
        /\ req[r].op = "send" => req[r].date # "none" \/ due[req[r].inv] # "none"

\* A locked payment holds the row, so that the sum it read is still the sum.
LockedSumIsCurrent ==
    \A r \in Requests :
        Working(r) /\ req[r].op \in {"pay", "void"} /\ req[r].pc = "locked" =>
            /\ rowLock[req[r].inv] = r
            /\ req[r].op = "pay" => req[r].already = paid[req[r].inv]

\* The rows the nightly job holds are sent and due.
FlaggedAreDue ==
    \A i \in Invoices : rowLock[i] = Scanner =>
        status[i] = "sent" /\ due[i] # "none"

IInv ==
    /\ TypeOK
    /\ CreatesAlone
    /\ LoadedRowsRemain
    /\ LockedSumIsCurrent
    /\ FlaggedAreDue
    /\ PaidWithinAmount
    /\ PaidMeansSettled
    /\ IssuedProperly

\* IInv holds in the empty tables, before any request or job.
THEOREM InitInv == Init => IInv
  <1> SUFFICES ASSUME Init PROVE IInv
    OBVIOUS
  <1>1. TypeOK
    BY InitIsTyped
  <1>2. CreatesAlone /\ LoadedRowsRemain /\ LockedSumIsCurrent
    BY DEF Init, Working, CreatesAlone, LoadedRowsRemain, LockedSumIsCurrent
  <1>3. FlaggedAreDue
    BY HolderAssumption DEF Init, FlaggedAreDue
  <1>4. PaidWithinAmount /\ PaidMeansSettled /\ IssuedProperly
    BY DEF Init, PaidWithinAmount, PaidMeansSettled, IssuedProperly
  <1> QED
    BY <1>1, <1>2, <1>3, <1>4 DEF IInv

\* A request that ends, and whose writes leave what others rely on, leaves the rest to them.
LEMMA EndLeaves ==
    ASSUME TypeOK, NEW r \in Requests, Working(r), End(r)
    PROVE  /\ ~Working(r)'
           /\ \A q \in Requests \ {r} : req'[q] = req[q] /\ Working(q)' = Working(q)
           /\ \A i \in Invoices : rowLock[i] # r => rowLock'[i] = rowLock[i]
           /\ \A i \in Invoices : rowLock[i] = r => rowLock'[i] = Nobody
  BY DEF TypeOK, End, Working

\* Every step of every handler and of the overdue job preserves IInv: one step per action,
\* and under it one per conjunct the action can disturb.
THEOREM NextInv == IInv /\ [Next]_vars => IInv'
  <1> SUFFICES ASSUME IInv, [Next]_vars PROVE IInv'
    OBVIOUS
  <1> USE DEF IInv
  <1>0. TypeOK'
    BY NextIsTyped
  <1>1. ASSUME NEW r \in Requests, NEW i \in Invoices, NEW raw \in RawAmounts,
               NEW date \in BodyDates, CreateInvoice(r, i, raw, date)
        PROVE  IInv'
    <2>1. CreatesAlone'
      BY <1>1, Kinds DEF CreateInvoice, Begin, Working, On, TypeOK, CreatesAlone, rows
    <2>2. LoadedRowsRemain' /\ LockedSumIsCurrent'
      BY <1>1 DEF CreateInvoice, Begin, Working, TypeOK, LoadedRowsRemain,
                  LockedSumIsCurrent, rows, locks
    <2>3. FlaggedAreDue' /\ PaidWithinAmount' /\ PaidMeansSettled' /\ IssuedProperly'
      BY <1>1 DEF CreateInvoice, FlaggedAreDue, PaidWithinAmount, PaidMeansSettled,
                  IssuedProperly, rows, locks
    <2> QED
      BY <1>0, <2>1, <2>2, <2>3
  <1>2. ASSUME NEW r \in Requests, NEW i \in Invoices, NEW date \in BodyDates,
               SendInvoice(r, i, date)
        PROVE  IInv'
    <2>1. CreatesAlone'
      BY <1>2 DEF SendInvoice, Sendable, Begin, Working, On, TypeOK, CreatesAlone, rows
    <2>2. LoadedRowsRemain' /\ LockedSumIsCurrent'
      BY <1>2 DEF SendInvoice, Sendable, Begin, Working, TypeOK, LoadedRowsRemain,
                  LockedSumIsCurrent, rows, locks
    <2>3. FlaggedAreDue' /\ PaidWithinAmount' /\ PaidMeansSettled' /\ IssuedProperly'
      BY <1>2 DEF SendInvoice, FlaggedAreDue, PaidWithinAmount, PaidMeansSettled,
                  IssuedProperly, rows, locks
    <2> QED
      BY <1>0, <2>1, <2>2, <2>3
  <1>3. ASSUME NEW r \in Requests, NEW i \in Invoices, NEW raw \in RawAmounts,
               RecordInvoicePayment(r, i, raw)
        PROVE  IInv'
    <2>1. CreatesAlone'
      BY <1>3 DEF RecordInvoicePayment, Begin, Working, On, TypeOK, CreatesAlone, rows
    <2>2. LoadedRowsRemain' /\ LockedSumIsCurrent'
      BY <1>3 DEF RecordInvoicePayment, Begin, Working, TypeOK, LoadedRowsRemain,
                  LockedSumIsCurrent, rows, locks
    <2>3. FlaggedAreDue' /\ PaidWithinAmount' /\ PaidMeansSettled' /\ IssuedProperly'
      BY <1>3 DEF RecordInvoicePayment, FlaggedAreDue, PaidWithinAmount, PaidMeansSettled,
                  IssuedProperly, rows, locks
    <2> QED
      BY <1>0, <2>1, <2>2, <2>3
  <1>4. ASSUME NEW r \in Requests, NEW i \in Invoices, VoidInvoice(r, i)
        PROVE  IInv'
    <2>1. CreatesAlone'
      BY <1>4 DEF VoidInvoice, Begin, Working, On, TypeOK, CreatesAlone, rows
    <2>2. LoadedRowsRemain' /\ LockedSumIsCurrent'
      BY <1>4 DEF VoidInvoice, Begin, Working, TypeOK, LoadedRowsRemain,
                  LockedSumIsCurrent, rows, locks
    <2>3. FlaggedAreDue' /\ PaidWithinAmount' /\ PaidMeansSettled' /\ IssuedProperly'
      BY <1>4 DEF VoidInvoice, FlaggedAreDue, PaidWithinAmount, PaidMeansSettled,
                  IssuedProperly, rows, locks
    <2> QED
      BY <1>0, <2>1, <2>2, <2>3
  <1>5. ASSUME NEW r \in Requests, NextInvoiceNumber(r) PROVE IInv'
    <2>1. req[r] \in Creating
      BY <1>5, Kinds DEF NextInvoiceNumber
    <2>2. /\ req[r].op = "create" /\ req'[r].op = "create" /\ req'[r].inv = req[r].inv
          /\ \A q \in Requests \ {r} : req'[q] = req[q]
          /\ \A q \in Requests : Working(q)' => Working(q)
      BY <1>5, <2>1 DEF NextInvoiceNumber, TypeOK, Working, Creating, Idle
    <2>3. \A q \in Requests : req'[q].inv = req[q].inv /\ req'[q].op = req[q].op
      BY <2>2
    <2>4. status' = status /\ due' = due /\ paid' = paid /\ rowLock' = rowLock
      BY <1>5 DEF NextInvoiceNumber, rows
    <2>5. CreatesAlone'
      BY <2>2, <2>3, <2>4 DEF On, CreatesAlone
    <2>6. LoadedRowsRemain' /\ LockedSumIsCurrent'
      BY <2>2, <2>4 DEF LoadedRowsRemain, LockedSumIsCurrent
    <2>7. FlaggedAreDue' /\ PaidWithinAmount' /\ PaidMeansSettled' /\ IssuedProperly'
      BY <1>5 DEF NextInvoiceNumber, FlaggedAreDue, PaidWithinAmount, PaidMeansSettled,
                  IssuedProperly, rows
    <2> QED
      BY <1>0, <2>5, <2>6, <2>7
  <1>6. ASSUME NEW r \in Requests, InsertInvoice(r) PROVE IInv'
    <2> DEFINE i == req[r].inv
    <2>1. req[r] \in Creating /\ i \in Invoices /\ req[r].amt \in Nat
      BY <1>6, Kinds, CentsAreNat DEF InsertInvoice, Creating
    <2>2. /\ status[i] = "none" /\ paid[i] = 0
          /\ \A q \in Requests \ {r} : ~On(q, i)
      BY <1>6, <2>1 DEF InsertInvoice, CreatesAlone, IssuedProperly
    <2>3. /\ ~Working(r)'
          /\ \A q \in Requests \ {r} : req'[q] = req[q] /\ Working(q)' = Working(q)
          /\ \A j \in Invoices : rowLock'[j] \in {rowLock[j], Nobody}
          /\ \A j \in Invoices : rowLock[j] # r => rowLock'[j] = rowLock[j]
      BY <1>6, EndLeaves DEF InsertInvoice
    <2>4. \A j \in Invoices \ {i} : /\ status'[j] = status[j] /\ due'[j] = due[j]
                                    /\ amount'[j] = amount[j] /\ paid'[j] = paid[j]
      BY <1>6, <2>1 DEF InsertInvoice, TypeOK
    <2>5. /\ status'[i] = "draft" /\ amount'[i] = req[r].amt /\ paid'[i] = 0
      BY <1>6, <2>1, <2>2 DEF InsertInvoice, TypeOK
    <2>6. \A q \in Requests : Working(q)' => q # r /\ Working(q) /\ req[q].inv \in Invoices \ {i}
      BY <2>2, <2>3, Kinds DEF On
    <2>7. CreatesAlone'
      BY <2>3, <2>4, <2>6 DEF CreatesAlone, On
    <2>8. LoadedRowsRemain' /\ LockedSumIsCurrent'
      BY <2>3, <2>4, <2>6 DEF LoadedRowsRemain, LockedSumIsCurrent
    <2>9. FlaggedAreDue'
      <3>1. rowLock'[i] # Scanner
        BY <2>1, <2>2, <2>3, HolderAssumption DEF FlaggedAreDue
      <3> QED
        BY <2>3, <2>4, <3>1, HolderAssumption DEF FlaggedAreDue
    <2>10. PaidWithinAmount' /\ PaidMeansSettled' /\ IssuedProperly'
      BY <2>1, <2>4, <2>5 DEF PaidWithinAmount, PaidMeansSettled, IssuedProperly
    <2> QED
      BY <1>0, <2>7, <2>8, <2>9, <2>10
  <1>7. ASSUME NEW r \in Requests, CommitSend(r) PROVE IInv'
    <2> DEFINE i == req[r].inv
    <2>1. i \in Invoices /\ req[r].op = "send" /\ rowLock[i] = Nobody
      BY <1>7, Kinds DEF CommitSend, RowFree
    <2>2. /\ ~Working(r)'
          /\ \A q \in Requests \ {r} : req'[q] = req[q] /\ Working(q)' = Working(q)
          /\ \A j \in Invoices : rowLock'[j] \in {rowLock[j], Nobody}
          /\ \A j \in Invoices : rowLock[j] # r => rowLock'[j] = rowLock[j]
      BY <1>7, EndLeaves DEF CommitSend
    <2>3. /\ status'[i] = "sent" /\ due'[i] # "none"
          /\ amount' = amount /\ paid' = paid
          /\ \A j \in Invoices \ {i} : status'[j] = status[j] /\ due'[j] = due[j]
      BY <1>7, <2>1 DEF CommitSend, TypeOK, LoadedRowsRemain
    <2>4. \A q \in Requests : Working(q) => req[q].inv \in Invoices
      BY Kinds
    <2>5. status[i] # "none"
      BY <1>7, <2>1 DEF CommitSend, LoadedRowsRemain
    <2>6. CreatesAlone'
      BY <2>2, <2>3, <2>4, <2>5 DEF CreatesAlone, On
    <2>7. LoadedRowsRemain' /\ LockedSumIsCurrent'
      BY <2>2, <2>3, <2>4 DEF LoadedRowsRemain, LockedSumIsCurrent
    <2>8. FlaggedAreDue'
      BY <2>1, <2>2, <2>3, HolderAssumption DEF FlaggedAreDue
    <2>9. PaidWithinAmount' /\ PaidMeansSettled' /\ IssuedProperly'
      BY <2>1, <2>3, <2>5 DEF PaidWithinAmount, PaidMeansSettled, IssuedProperly
    <2> QED
      BY <1>0, <2>6, <2>7, <2>8, <2>9
  <1>8. ASSUME NEW r \in Requests, LockInvoice(r) PROVE IInv'
    <2> DEFINE i == req[r].inv
    <2>1. /\ Working(r) /\ req[r] \in Paying \cup Voiding
          /\ i \in Invoices /\ rowLock[i] = Nobody
      BY <1>8, Kinds DEF LockInvoice, RowFree
    <2>2. /\ \A q \in Requests \ {r} : req'[q] = req[q]
          /\ req'[r].op = req[r].op /\ req'[r].inv = i
          /\ req[r].op = "pay" => req'[r].seen = req[r].seen /\ req'[r].already = paid[i]
          /\ \A q \in Requests : Working(q)' => Working(q)
      BY <1>8, <2>1 DEF LockInvoice, TypeOK, Working, Paying, Voiding
    <2>3. /\ rowLock'[i] = r
          /\ \A j \in Invoices \ {i} : rowLock'[j] = rowLock[j]
      BY <1>8, <2>1 DEF LockInvoice, TypeOK
    <2>4. status' = status /\ amount' = amount /\ due' = due /\ paid' = paid
      BY <1>8 DEF LockInvoice, rows
    <2>5. \A q \in Requests : req'[q].inv = req[q].inv /\ req'[q].op = req[q].op
      BY <2>2
    <2>6. \A q \in Requests : Working(q) => req[q].inv \in Invoices
      BY Kinds
    <2>7. CreatesAlone'
      BY <2>2, <2>4, <2>5 DEF CreatesAlone, On
    <2>8. LoadedRowsRemain'
      BY <2>1, <2>2, <2>4 DEF LoadedRowsRemain, Paying, Voiding
    <2>9. LockedSumIsCurrent'
      <3>1. ASSUME NEW q \in Requests, Working(q)', req'[q].op \in {"pay", "void"},
                   req'[q].pc = "locked"
            PROVE  /\ rowLock'[req'[q].inv] = q
                   /\ req'[q].op = "pay" => req'[q].already = paid'[req'[q].inv]
        <4>1. CASE q = r
          BY <2>2, <2>3, <2>4, <4>1
        <4>2. CASE q # r
          <5>1. rowLock[req[q].inv] = q
            BY <2>2, <3>1, <4>2 DEF LockedSumIsCurrent
          <5>2. req[q].inv # i
            BY <2>1, <4>2, <5>1, HolderAssumption
          <5> QED
            BY <2>2, <2>3, <2>4, <2>6, <3>1, <4>2, <5>1, <5>2 DEF LockedSumIsCurrent
        <4> QED
          BY <4>1, <4>2
      <3> QED
        BY <3>1 DEF LockedSumIsCurrent
    <2>10. FlaggedAreDue'
      BY <2>3, <2>4, HolderAssumption DEF FlaggedAreDue
    <2>11. PaidWithinAmount' /\ PaidMeansSettled' /\ IssuedProperly'
      BY <2>4 DEF PaidWithinAmount, PaidMeansSettled, IssuedProperly
    <2> QED
      BY <1>0, <2>7, <2>8, <2>9, <2>10, <2>11
  <1>9. ASSUME NEW r \in Requests, CommitPayment(r) PROVE IInv'
    <2> DEFINE i == req[r].inv
    <2>1. /\ Working(r) /\ i \in Invoices /\ req[r].amt \in Nat /\ req[r].seen \in Statuses
          /\ rowLock[i] = r /\ req[r].already = paid[i]
          /\ status[i] \notin {"none", "draft"}
      <3>1. req[r] \in Paying
        BY <1>9, Kinds DEF CommitPayment
      <3> QED
        BY <1>9, <3>1, CentsAreNat
        DEF CommitPayment, Payable, Paying, LockedSumIsCurrent, LoadedRowsRemain
    <2>2. /\ ~Working(r)'
          /\ \A q \in Requests \ {r} : req'[q] = req[q] /\ Working(q)' = Working(q)
          /\ \A j \in Invoices : rowLock'[j] \in {rowLock[j], Nobody}
          /\ \A j \in Invoices : rowLock[j] # r => rowLock'[j] = rowLock[j]
      BY <1>9, EndLeaves DEF CommitPayment
    <2>3. /\ paid'[i] = paid[i] + req[r].amt /\ paid'[i] <= amount[i]
          /\ amount' = amount /\ due' = due
          /\ \A j \in Invoices \ {i} : status'[j] = status[j] /\ paid'[j] = paid[j]
      BY <1>9, <2>1 DEF CommitPayment, TypeOK
    <2>4. status'[i] = IF paid'[i] >= amount[i] THEN "paid" ELSE status[i]
      BY <1>9, <2>1, <2>3 DEF CommitPayment, Settles, TypeOK
    <2>5. \A q \in Requests : Working(q) => req[q].inv \in Invoices
      BY Kinds
    <2>6. CreatesAlone'
      BY <2>1, <2>2, <2>3, <2>4, <2>5 DEF CreatesAlone, On
    <2>7. LoadedRowsRemain'
      BY <2>1, <2>2, <2>3, <2>4, <2>5 DEF LoadedRowsRemain
    <2>8. LockedSumIsCurrent'
      BY <2>1, <2>2, <2>3, <2>5 DEF LockedSumIsCurrent
    <2>9. FlaggedAreDue'
      BY <2>1, <2>2, <2>3, HolderAssumption DEF FlaggedAreDue
    <2>10. PaidWithinAmount'
      BY <2>1, <2>3 DEF PaidWithinAmount
    <2>11. PaidMeansSettled'
      <3>1. paid[i] \in Nat /\ amount[i] \in Nat
        BY <2>1 DEF TypeOK
      <3>2. status'[i] = "paid" => paid'[i] = amount'[i]
        BY <2>1, <2>3, <2>4, <3>1 DEF PaidMeansSettled
      <3> QED
        BY <2>3, <3>2 DEF PaidMeansSettled
    <2>12. IssuedProperly'
      BY <2>1, <2>3, <2>4 DEF IssuedProperly
    <2> QED
      BY <1>0, <2>6, <2>7, <2>8, <2>9, <2>10, <2>11, <2>12
  <1>10. ASSUME NEW r \in Requests, CommitVoid(r) PROVE IInv'
    <2> DEFINE i == req[r].inv
    <2>1. Working(r) /\ i \in Invoices /\ rowLock[i] = r /\ status[i] # "none"
      BY <1>10, Kinds DEF CommitVoid, LockedSumIsCurrent, LoadedRowsRemain
    <2>2. /\ ~Working(r)'
          /\ \A q \in Requests \ {r} : req'[q] = req[q] /\ Working(q)' = Working(q)
          /\ \A j \in Invoices : rowLock'[j] \in {rowLock[j], Nobody}
          /\ \A j \in Invoices : rowLock[j] # r => rowLock'[j] = rowLock[j]
      BY <1>10, EndLeaves DEF CommitVoid
    <2>3. /\ status'[i] = "void" /\ amount' = amount /\ due' = due /\ paid' = paid
          /\ \A j \in Invoices \ {i} : status'[j] = status[j]
      BY <1>10, <2>1 DEF CommitVoid, VoidStatus, TypeOK
    <2>4. \A q \in Requests : Working(q) => req[q].inv \in Invoices
      BY Kinds
    <2>5. CreatesAlone'
      BY <2>1, <2>2, <2>3, <2>4 DEF CreatesAlone, On
    <2>6. LoadedRowsRemain' /\ LockedSumIsCurrent'
      BY <2>2, <2>3, <2>4 DEF LoadedRowsRemain, LockedSumIsCurrent
    <2>7. FlaggedAreDue'
      BY <2>1, <2>2, <2>3, HolderAssumption DEF FlaggedAreDue
    <2>8. PaidWithinAmount' /\ PaidMeansSettled' /\ IssuedProperly'
      BY <2>1, <2>3 DEF PaidWithinAmount, PaidMeansSettled, IssuedProperly
    <2> QED
      BY <1>0, <2>5, <2>6, <2>7, <2>8
  <1>11. ASSUME NEW r \in Requests, Rollback(r) PROVE IInv'
    <2>1. /\ ~Working(r)'
          /\ \A q \in Requests \ {r} : req'[q] = req[q] /\ Working(q)' = Working(q)
          /\ \A j \in Invoices : rowLock'[j] \in {rowLock[j], Nobody}
          /\ \A j \in Invoices : rowLock[j] # r => rowLock'[j] = rowLock[j]
      BY <1>11, EndLeaves DEF Rollback
    <2>2. status' = status /\ amount' = amount /\ due' = due /\ paid' = paid
      BY <1>11 DEF Rollback, rows
    <2>3. \A q \in Requests : Working(q) => req[q].inv \in Invoices
      BY Kinds
    <2>4. CreatesAlone'
      BY <2>1, <2>2 DEF CreatesAlone, On
    <2>5. LoadedRowsRemain' /\ LockedSumIsCurrent'
      BY <2>1, <2>2, <2>3 DEF LoadedRowsRemain, LockedSumIsCurrent
    <2>6. FlaggedAreDue'
      BY <2>1, <2>2, HolderAssumption DEF FlaggedAreDue
    <2>7. PaidWithinAmount' /\ PaidMeansSettled' /\ IssuedProperly'
      BY <2>2 DEF PaidWithinAmount, PaidMeansSettled, IssuedProperly
    <2> QED
      BY <1>0, <2>4, <2>5, <2>6, <2>7
  <1>12. ASSUME NEW i \in Invoices, DueDatePasses(i) PROVE IInv'
    <2>1. /\ status' = status /\ amount' = amount /\ paid' = paid
          /\ rowLock' = rowLock /\ req' = req
          /\ \A j \in Invoices : due[j] # "none" => due'[j] # "none"
      BY <1>12 DEF DueDatePasses, locks, TypeOK
    <2>2. \A q \in Requests : Working(q) => req[q].inv \in Invoices
      BY Kinds
    <2>3. CreatesAlone' /\ LoadedRowsRemain' /\ LockedSumIsCurrent' /\ FlaggedAreDue'
      BY <2>1, <2>2 DEF CreatesAlone, LoadedRowsRemain, LockedSumIsCurrent, FlaggedAreDue,
                        Working, On
    <2>4. PaidWithinAmount' /\ PaidMeansSettled' /\ IssuedProperly'
      BY <2>1 DEF PaidWithinAmount, PaidMeansSettled, IssuedProperly
    <2> QED
      BY <1>0, <2>3, <2>4
  <1>13. ASSUME NEW i \in Invoices, FlagRow(i) PROVE IInv'
    <2>1. /\ status' = status /\ amount' = amount /\ paid' = paid /\ due' = due /\ req' = req
          /\ rowLock[i] = Nobody /\ status[i] = "sent" /\ due[i] = "past"
          /\ \A j \in Invoices \ {i} : rowLock'[j] = rowLock[j]
      BY <1>13 DEF FlagRow, PastDue, RowFree, rows, TypeOK
    <2>2. \A q \in Requests : Working(q) => req[q].inv \in Invoices
      BY Kinds
    <2>3. CreatesAlone' /\ LoadedRowsRemain'
      BY <2>1 DEF CreatesAlone, LoadedRowsRemain, Working, On
    <2>4. LockedSumIsCurrent' /\ FlaggedAreDue'
      BY <2>1, <2>2, HolderAssumption DEF LockedSumIsCurrent, FlaggedAreDue, Working
    <2>5. PaidWithinAmount' /\ PaidMeansSettled' /\ IssuedProperly'
      BY <2>1 DEF PaidWithinAmount, PaidMeansSettled, IssuedProperly
    <2> QED
      BY <1>0, <2>3, <2>4, <2>5
  <1>14. CASE FlagOverdue \/ FlagOverdueFails
    <2>1. /\ amount' = amount /\ paid' = paid /\ due' = due /\ req' = req
          /\ \A j \in Invoices : IF rowLock[j] = Scanner
                                   THEN rowLock'[j] = Nobody /\ status'[j] \in {status[j], "overdue"}
                                   ELSE rowLock'[j] = rowLock[j] /\ status'[j] = status[j]
      BY <1>14 DEF FlagOverdue, FlagOverdueFails, ReleaseFlagged, Flagged, TypeOK
    <2>2. \A q \in Requests : Working(q) => req[q].inv \in Invoices
      BY Kinds
    <2>3. CreatesAlone' /\ LoadedRowsRemain'
      BY <2>1, <2>2 DEF CreatesAlone, LoadedRowsRemain, FlaggedAreDue, Working, On
    <2>4. LockedSumIsCurrent' /\ FlaggedAreDue'
      BY <2>1, <2>2, HolderAssumption DEF LockedSumIsCurrent, FlaggedAreDue, Working
    <2>5. PaidWithinAmount' /\ PaidMeansSettled' /\ IssuedProperly'
      BY <2>1 DEF FlaggedAreDue, PaidWithinAmount, PaidMeansSettled, IssuedProperly
    <2> QED
      BY <1>0, <2>3, <2>4, <2>5
  <1>15. CASE UNCHANGED vars
    BY <1>0, <1>15 DEF vars, rows, locks, CreatesAlone, LoadedRowsRemain, LockedSumIsCurrent,
       FlaggedAreDue, PaidWithinAmount, PaidMeansSettled, IssuedProperly, Working, On
  <1> QED
    BY <1>1, <1>2, <1>3, <1>4, <1>5, <1>6, <1>7, <1>8, <1>9, <1>10, <1>11, <1>12, <1>13,
       <1>14, <1>15 DEF Next, Call, Handle

\* The invariant holds of every reachable state.
THEOREM Inductive == Spec => []IInv
  BY InitInv, NextInv, PTL DEF Spec

\* However many payments, voids and sends are in flight on an invoice, the payments
\* recorded against it stay within its amount.
THEOREM PaymentsFit == Spec => []PaidWithinAmount
  <1>1. IInv => PaidWithinAmount
    BY DEF IInv
  <1> QED
    BY <1>1, Inductive, PTL

\* An invoice marked paid is one paid in full.
THEOREM PaidIsSettled == Spec => []PaidMeansSettled
  <1>1. IInv => PaidMeansSettled
    BY DEF IInv
  <1> QED
    BY <1>1, Inductive, PTL

\* An invoice the client has received has a due date, and only such an invoice takes money.
THEOREM IssuedWithDate == Spec => []IssuedProperly
  <1>1. IInv => IssuedProperly
    BY DEF IInv
  <1> QED
    BY <1>1, Inductive, PTL

-----------------------------------------------------------------------------
\* Numbers without gap or duplicate, and the refinement of Ledger.

\* A row has a number exactly when it exists.
Numbered == \A i \in Invoices : number[i] = 0 <=> status[i] = "none"

\* A request that has counted its company's invoices still holds the company's lock, so
\* that nobody has added one since.
CountIsCurrent ==
    \A r \in Requests : Working(r) /\ req[r].op = "create" /\ req[r].pc = "counted" =>
        /\ numberLock[CompanyOf[req[r].inv]] = r
        /\ req[r].num = Cardinality(InvoicesOf(CompanyOf[req[r].inv])) + 1

NInv == IInv /\ Numbered /\ CountIsCurrent /\ NumbersSequential

\* A step that adds no row keeps every number, amount and count.
NoNewRow ==
    /\ number' = number /\ amount' = amount
    /\ \A i \in Invoices : status'[i] = "none" <=> status[i] = "none"

\* A company has finitely many invoices, so they can be counted.
LEMMA InvoicesOfFinite == \A c : IsFiniteSet(InvoicesOf(c))
  BY FiniteAssumption, FS_Subset DEF InvoicesOf

\* Only the INSERT of create_invoice makes a row: every other step leaves the numbers and
\* the rows that exist as they are.
LEMMA NoNewRowSteps ==
    ASSUME IInv, [Next]_vars
    PROVE  NoNewRow \/ \E r \in Requests : InsertInvoice(r)
  <1> USE DEF IInv
  <1>1. ASSUME NEW r \in Requests, Call(r)
        PROVE  NoNewRow
    BY <1>1 DEF Call, CreateInvoice, SendInvoice, RecordInvoicePayment, VoidInvoice, rows,
                NoNewRow
  <1>2. Next => \/ \E r \in Requests : Call(r) \/ Handle(r)
                \/ \E i \in Invoices : DueDatePasses(i) \/ FlagRow(i)
                \/ FlagOverdue
                \/ FlagOverdueFails
    BY DEF Next
  <1>3. ASSUME NEW r \in Requests, NextInvoiceNumber(r) \/ LockInvoice(r) \/ Rollback(r)
        PROVE  NoNewRow
    BY <1>3 DEF NextInvoiceNumber, LockInvoice, Rollback, rows, NoNewRow
  <1>4. ASSUME NEW r \in Requests, CommitSend(r) \/ CommitPayment(r) \/ CommitVoid(r)
        PROVE  NoNewRow
    <2>1. Working(r) /\ req[r].inv \in Invoices /\ req[r].op # "create"
      BY <1>4, Kinds DEF CommitSend, CommitPayment, CommitVoid
    <2>2. status[req[r].inv] # "none"
      BY <2>1 DEF LoadedRowsRemain
    <2>3. /\ number' = number /\ amount' = amount
          /\ \E s \in Statuses : status' = [status EXCEPT ![req[r].inv] = s] \/ status' = status
      BY <1>4 DEF CommitSend, CommitPayment, CommitVoid, VoidStatus, Statuses
    <2> QED
      BY <2>1, <2>2, <2>3 DEF NoNewRow, Statuses, TypeOK
  <1>5. ASSUME NEW i \in Invoices, DueDatePasses(i) \/ FlagRow(i)
        PROVE  NoNewRow
    BY <1>5 DEF DueDatePasses, FlagRow, rows, NoNewRow
  <1>6. CASE FlagOverdue \/ FlagOverdueFails
    BY <1>6 DEF FlagOverdue, FlagOverdueFails, ReleaseFlagged, Flagged, FlaggedAreDue,
                TypeOK, NoNewRow
  <1>7. CASE UNCHANGED vars
    BY <1>7 DEF vars, rows, NoNewRow
  <1> QED
    BY <1>1, <1>2, <1>3, <1>4, <1>5, <1>6, <1>7 DEF Handle

\* A lock on a company's numbers is given back by its holder only, and taken when free.
LEMMA CountsStayCurrent ==
    ASSUME NInv, NoNewRow, [Next]_vars
    PROVE  CountIsCurrent'
  <1> USE DEF NInv, IInv
  <1>0. \A c : InvoicesOf(c)' = InvoicesOf(c)
    BY DEF NoNewRow, InvoicesOf
  <1>1. \A q \in Requests : Working(q) => req[q].inv \in Invoices
    BY Kinds
  <1>2. \A i \in Invoices : CompanyOf[i] \in Companies
    BY CompanyAssumption
  <1>3. SUFFICES ASSUME NEW q \in Requests, Working(q)', req'[q].op = "create",
                        req'[q].pc = "counted"
                 PROVE  /\ numberLock'[CompanyOf[req'[q].inv]] = q
                        /\ req'[q].num = Cardinality(InvoicesOf(CompanyOf[req'[q].inv])) + 1
    BY <1>0 DEF CountIsCurrent
  <1>4. CASE req'[q] = req[q] /\ \A c \in Companies :
               numberLock[c] = q => numberLock'[c] = q
    BY <1>1, <1>2, <1>3, <1>4 DEF CountIsCurrent, Working
  <1>5. ASSUME NEW r \in Requests, End(r) PROVE req'[q] = req[q] /\ q # r
    BY <1>3, <1>5 DEF End, TypeOK, Working
  <1>6. ASSUME NEW r \in Requests, End(r)
        PROVE \A c \in Companies : numberLock[c] = q => numberLock'[c] = q
    BY <1>5, <1>6 DEF End
  <1>7. ASSUME NEW r \in Requests, Call(r)
        PROVE  req'[q] = req[q] /\ numberLock' = numberLock
    <2>1. PICK i \in Invoices :
              \/ \E raw \in RawAmounts, date \in BodyDates : CreateInvoice(r, i, raw, date)
              \/ \E date \in BodyDates : SendInvoice(r, i, date)
              \/ \E raw \in RawAmounts : RecordInvoicePayment(r, i, raw)
              \/ VoidInvoice(r, i)
      BY <1>7 DEF Call
    <2>2. req'[q] = req[q]
      BY <1>3, <2>1
      DEF CreateInvoice, SendInvoice, RecordInvoicePayment, VoidInvoice, Begin, TypeOK
    <2>3. numberLock' = numberLock
      BY <2>1 DEF CreateInvoice, SendInvoice, RecordInvoicePayment, VoidInvoice, locks
    <2> QED
      BY <2>2, <2>3
  <1>8. Next => \/ \E r \in Requests : Call(r) \/ Handle(r)
                \/ \E i \in Invoices : DueDatePasses(i) \/ FlagRow(i)
                \/ FlagOverdue
                \/ FlagOverdueFails
    BY DEF Next
  <1>9. ASSUME NEW r \in Requests, LockInvoice(r)
        PROVE  req'[q] = req[q] /\ numberLock' = numberLock
    <2>1. req[r] \in Paying \cup Voiding
      BY <1>9, Kinds DEF LockInvoice
    <2>2. req'[r].op = req[r].op
      BY <1>9, <2>1 DEF LockInvoice, TypeOK, Paying, Voiding
    <2> QED
      BY <1>3, <1>9, <2>1, <2>2 DEF LockInvoice, TypeOK, Paying, Voiding
  <1>10. ASSUME NEW r \in Requests, NextInvoiceNumber(r)
         PROVE  /\ numberLock'[CompanyOf[req'[q].inv]] = q
                /\ req'[q].num = Cardinality(InvoicesOf(CompanyOf[req'[q].inv])) + 1
    <2> DEFINE c == CompanyOf[req[r].inv]
    <2>1. req[r] \in Creating /\ c \in Companies /\ numberLock[c] = Nobody
      BY <1>2, <1>10, Kinds DEF NextInvoiceNumber, Creating, NumberFree
    <2>2. CASE q = r
      BY <1>10, <2>1, <2>2 DEF NextInvoiceNumber, Counted, TypeOK, Creating
    <2>3. CASE q # r
      <3>1. req'[q] = req[q]
        BY <1>10, <2>3 DEF NextInvoiceNumber, TypeOK
      <3>2. /\ numberLock[CompanyOf[req[q].inv]] = q
            /\ req[q].num = Cardinality(InvoicesOf(CompanyOf[req[q].inv])) + 1
        BY <1>3, <3>1 DEF CountIsCurrent, Working
      <3>3. CompanyOf[req[q].inv] # c /\ CompanyOf[req[q].inv] \in Companies
        BY <1>1, <1>2, <1>3, <2>1, <3>1, <3>2, HolderAssumption DEF Working
      <3>4. numberLock'[CompanyOf[req[q].inv]] = numberLock[CompanyOf[req[q].inv]]
        BY <1>10, <3>3 DEF NextInvoiceNumber, TypeOK
      <3> QED
        BY <3>1, <3>2, <3>4
    <2> QED
      BY <2>2, <2>3
  <1>11. ASSUME NEW r \in Requests,
                \/ InsertInvoice(r)
                \/ CommitSend(r)
                \/ CommitPayment(r)
                \/ CommitVoid(r)
                \/ Rollback(r)
         PROVE  End(r)
    BY <1>11 DEF InsertInvoice, CommitSend, CommitPayment, CommitVoid, Rollback
  <1>12. ASSUME NEW i \in Invoices, DueDatePasses(i) \/ FlagRow(i)
         PROVE  req'[q] = req[q] /\ numberLock' = numberLock
    BY <1>12 DEF DueDatePasses, FlagRow, locks
  <1>13. CASE FlagOverdue \/ FlagOverdueFails \/ UNCHANGED vars
    <2>1. req'[q] = req[q] /\ numberLock' = numberLock
      BY <1>13 DEF FlagOverdue, FlagOverdueFails, ReleaseFlagged, vars, locks
    <2> QED
      BY <1>4, <2>1
  <1>14. ASSUME NEW r \in Requests, Handle(r)
         PROVE  /\ numberLock'[CompanyOf[req'[q].inv]] = q
                /\ req'[q].num = Cardinality(InvoicesOf(CompanyOf[req'[q].inv])) + 1
    BY <1>4, <1>5, <1>6, <1>9, <1>10, <1>11, <1>14 DEF Handle
  <1> QED
    BY <1>4, <1>7, <1>8, <1>12, <1>13, <1>14

-----------------------------------------------------------------------------
(* A new row takes the next number of its company, and implements Issue.   *)

\* What the INSERT of create_invoice does under NInv: its row is new, the request holds the
\* number lock, and the number is one more than the company has invoices.
LEMMA InsertIssues ==
    ASSUME NInv, NEW r \in Requests, InsertInvoice(r)
    PROVE  LET i == req[r].inv
               c == CompanyOf[i]
               n == Cardinality(InvoicesOf(c))
           IN /\ i \in Invoices /\ c \in Companies /\ n \in Nat
              /\ status[i] = "none" /\ number[i] = 0 /\ paid[i] = 0
              /\ numberLock[c] = r
              /\ number' = [number EXCEPT ![i] = n + 1]
              /\ amount' = [amount EXCEPT ![i] = req[r].amt]
              /\ status' = [status EXCEPT ![i] = "draft"]
              /\ req[r].amt \in Nat
              /\ paid' = paid
  <1> USE DEF NInv, IInv
  <1> DEFINE i == req[r].inv
             c == CompanyOf[i]
  <1>1. req[r] \in Creating /\ i \in Invoices /\ req[r].amt \in Nat
    BY Kinds, CentsAreNat DEF InsertInvoice, Creating
  <1>2. c \in Companies
    BY <1>1, CompanyAssumption
  <1>3. status[i] = "none" /\ paid[i] = 0 /\ number[i] = 0
    BY <1>1 DEF InsertInvoice, CreatesAlone, IssuedProperly, Numbered
  <1>4. numberLock[c] = r /\ req[r].num = Cardinality(InvoicesOf(c)) + 1
    BY DEF InsertInvoice, CountIsCurrent
  <1>5. Cardinality(InvoicesOf(c)) \in Nat
    BY InvoicesOfFinite, FS_CardinalityType
  <1> QED
    BY <1>1, <1>2, <1>3, <1>4, <1>5 DEF InsertInvoice

\* The numbering invariants hold in the empty tables.
THEOREM NumberInit == Init => Numbered /\ CountIsCurrent /\ NumbersSequential
  <1> SUFFICES ASSUME Init PROVE Numbered /\ CountIsCurrent /\ NumbersSequential
    OBVIOUS
  <1>1. Numbered /\ CountIsCurrent
    BY DEF Init, Numbered, CountIsCurrent, Working
  <1>2. ASSUME NEW c \in Companies PROVE InvoicesOf(c) = {}
    BY DEF Init, InvoicesOf
  <1>3. NumbersSequential
    BY <1>2, FS_EmptySet DEF NumbersSequential
  <1> QED
    BY <1>1, <1>3

\* Every step preserves the numbering invariants: next_invoice_number's lock is held from
\* the count to the commit.
THEOREM NumberNext == NInv /\ [Next]_vars => NInv'
  <1> SUFFICES ASSUME NInv, [Next]_vars PROVE NInv'
    OBVIOUS
  <1> USE DEF NInv
  <1>1. IInv'
    BY NextInv
  <1>2. CASE NoNewRow
    <2>1. \A c : InvoicesOf(c)' = InvoicesOf(c)
      BY <1>2 DEF NoNewRow, InvoicesOf
    <2>2. Numbered'
      BY <1>2 DEF NoNewRow, Numbered
    <2>3. NumbersSequential'
      BY <1>2, <2>1 DEF NoNewRow, NumbersSequential
    <2> QED
      BY <1>1, <1>2, <2>2, <2>3, CountsStayCurrent
  <1>3. ASSUME NEW r \in Requests, InsertInvoice(r) PROVE NInv'
    <2>1. PICK i \in Invoices, c \in Companies, n \in Nat :
              /\ i = req[r].inv /\ c = CompanyOf[i] /\ n = Cardinality(InvoicesOf(c))
              /\ status[i] = "none" /\ number[i] = 0 /\ numberLock[c] = r
              /\ number' = [number EXCEPT ![i] = n + 1]
              /\ status' = [status EXCEPT ![i] = "draft"]
      BY <1>3, InsertIssues
    <2>2. number \in [Invoices -> Nat] /\ status \in [Invoices -> Statuses \cup {"none"}]
      BY DEF IInv, TypeOK
    <2>3. InvoicesOf(c)' = InvoicesOf(c) \cup {i} /\ i \notin InvoicesOf(c)
      BY <2>1, <2>2 DEF InvoicesOf
    <2>4. \A d \in Companies \ {c} : InvoicesOf(d)' = InvoicesOf(d) /\ i \notin InvoicesOf(d)
      BY <2>1, <2>2 DEF InvoicesOf
    <2>5. Cardinality(InvoicesOf(c)') = n + 1
      <3>1. Cardinality(InvoicesOf(c) \cup {i}) = Cardinality(InvoicesOf(c)) + 1
        BY <2>3, InvoicesOfFinite, FS_AddElement
      <3> QED
        BY <2>1, <2>3, <3>1
    <2>6. Numbered'
      BY <2>1, <2>2 DEF Numbered
    <2>7. NumbersSequential'
      <3>1. /\ {number[j] : j \in InvoicesOf(c)} = 1..n
            /\ \A j, k \in InvoicesOf(c) : number[j] = number[k] => j = k
        BY <2>1 DEF NumbersSequential
      <3>2. \A j \in InvoicesOf(c) : number'[j] = number[j] /\ number[j] \in 1..n
        BY <2>1, <2>2, <2>3, <3>1 DEF InvoicesOf
      <3>3. {number'[j] : j \in InvoicesOf(c)'} = 1..(n + 1)
        <4>1. {number'[j] : j \in InvoicesOf(c)'} = {number'[j] : j \in InvoicesOf(c)} \cup {number'[i]}
          BY <2>3
        <4>2. {number'[j] : j \in InvoicesOf(c)} = 1..n
          BY <3>1, <3>2
        <4>3. number'[i] = n + 1
          BY <2>1, <2>2
        <4>4. (1..n) \cup {n + 1} = 1..(n + 1)
          BY <2>1
        <4> QED
          BY <4>1, <4>2, <4>3, <4>4
      <3>4. \A j, k \in InvoicesOf(c)' : number'[j] = number'[k] => j = k
        BY <2>1, <2>2, <2>3, <3>1, <3>2
      <3>5. ASSUME NEW d \in Companies \ {c}
            PROVE  /\ {number'[j] : j \in InvoicesOf(d)'} = 1..Cardinality(InvoicesOf(d)')
                   /\ \A j, k \in InvoicesOf(d)' : number'[j] = number'[k] => j = k
        <4>1. \A j \in InvoicesOf(d) : number'[j] = number[j]
          BY <2>1, <2>2, <2>4 DEF InvoicesOf
        <4> QED
          BY <2>4, <4>1 DEF NumbersSequential
      <3> QED
        BY <2>1, <2>5, <3>3, <3>4, <3>5 DEF NumbersSequential
    <2>8. CountIsCurrent'
      <3>1. ASSUME NEW q \in Requests, Working(q)', req'[q].op = "create",
                   req'[q].pc = "counted"
            PROVE  /\ numberLock[CompanyOf[req[q].inv]]' = q
                   /\ req[q].num' = (Cardinality(InvoicesOf(CompanyOf[req[q].inv])) + 1)'
        <4>1. q # r /\ req'[q] = req[q] /\ Working(q)
          BY <1>3, <3>1, EndLeaves DEF InsertInvoice, IInv
        <4>2. /\ numberLock[CompanyOf[req[q].inv]] = q
              /\ req[q].num = Cardinality(InvoicesOf(CompanyOf[req[q].inv])) + 1
          BY <3>1, <4>1 DEF CountIsCurrent
        <4>3. CompanyOf[req[q].inv] \in Companies \ {c}
          <5>1. req[q].inv \in Invoices
            BY <4>1, Kinds DEF IInv
          <5> QED
            BY <2>1, <4>1, <4>2, <5>1, CompanyAssumption
        <4>4. PICK d \in Companies \ {c} : d = CompanyOf[req[q].inv]
          BY <4>3
        <4>5. numberLock'[d] = q
          BY <1>3, <4>1, <4>2, <4>4 DEF InsertInvoice, End
        <4>6. req'[q].num = Cardinality(InvoicesOf(d)') + 1
          BY <2>4, <4>1, <4>2, <4>4
        <4> QED
          BY <4>1, <4>4, <4>5, <4>6
      <3> QED
        BY <3>1 DEF CountIsCurrent
    <2> QED
      BY <1>1, <2>6, <2>7, <2>8
  <1> QED
    BY <1>2, <1>3, NoNewRowSteps

\* NInv, the inductive invariant of invoice numbering, always holds.
THEOREM NumberInvariant == Spec => []NInv
  BY InitInv, NumberInit, NumberNext, PTL DEF Spec, NInv

\* The invoices of every company are numbered 1, 2, 3, ... without gap or duplicate,
\* whoever drafts them at the same time and whatever is rolled back.
THEOREM SequentialNumbers == Spec => []NumbersSequential
  <1>1. NInv => NumbersSequential
    BY DEF NInv
  <1> QED
    BY <1>1, NumberInvariant, PTL

-----------------------------------------------------------------------------
\* Invoices implements Ledger: whatever happens to statuses, locks and requests, every
\* invoice is issued once under the next number, and money is only ever added to it, within
\* its amount.
THEOREM ImplementsLedger == Spec => LedgerSpec
  <1>1. Init => Books!Init
    BY DEF Init, Books!Init
  <1>2. NInv /\ [Next]_vars => [Books!Next]_Books!vars
    <2> SUFFICES ASSUME NInv, [Next]_vars PROVE [Books!Next]_Books!vars
      OBVIOUS
    <2> USE DEF NInv
    <2>1. ASSUME NEW r \in Requests, InsertInvoice(r) PROVE Books!Next
      <3>1. PICK i \in Invoices, c \in Companies :
            /\ i = req[r].inv /\ c = CompanyOf[i]
            /\ number[i] = 0 /\ paid' = paid /\ req[r].amt \in Nat
            /\ number' = [number EXCEPT ![i] = Cardinality(InvoicesOf(c)) + 1]
            /\ amount' = [amount EXCEPT ![i] = req[r].amt]
        BY <2>1, InsertIssues
      <3>2. Books!IssuedBy(c) = InvoicesOf(c)
        BY DEF Books!IssuedBy, InvoicesOf, Numbered
      <3>3. amount'[i] = req[r].amt
        BY <3>1 DEF IInv, TypeOK
      <3>4. Books!Issue(i)
        <4>1. number' = [number EXCEPT ![i] = Cardinality(Books!IssuedBy(CompanyOf[i])) + 1]
          BY <3>1, <3>2
        <4>2. amount'[i] \in Nat /\ amount' = [amount EXCEPT ![i] = amount'[i]]
          BY <3>1, <3>3
        <4>3. Books!Cardinality(Books!IssuedBy(CompanyOf[i])) = Cardinality(Books!IssuedBy(CompanyOf[i]))
          BY DEF Books!Cardinality, Cardinality
        <4> QED
          BY <3>1, <4>1, <4>2, <4>3 DEF Books!Issue
      <3> QED
        BY <3>1, <3>4 DEF Books!Next
    <2>2. ASSUME NEW r \in Requests, CommitPayment(r) PROVE Books!Next
      <3> DEFINE i == req[r].inv
      <3>1. /\ i \in Invoices /\ req[r].amt \in Nat
            /\ req[r].already = paid[i] /\ number[i] # 0
        <4>1. req[r] \in Paying
          BY <2>2, Kinds DEF CommitPayment, IInv
        <4> QED
          BY <2>2, <4>1, CentsAreNat
          DEF CommitPayment, Paying, IInv, LockedSumIsCurrent, LoadedRowsRemain, Numbered
      <3>2. /\ req[r].amt \in 0..(amount[i] - paid[i])
            /\ paid' = [paid EXCEPT ![i] = @ + req[r].amt]
            /\ amount' = amount /\ number' = number
        BY <2>2, <3>1 DEF CommitPayment, IInv, TypeOK
      <3>3. Books!Collect(i)
        BY <3>1, <3>2 DEF Books!Collect
      <3> QED
        BY <3>1, <3>3 DEF Books!Next
    <2>3. ASSUME NoNewRow, paid' = paid PROVE UNCHANGED Books!vars
      BY <2>3 DEF NoNewRow, Books!vars
    <2>4. \/ paid' = paid
          \/ \E r \in Requests : CommitPayment(r)
      <3>1. ASSUME NEW r \in Requests, Call(r) PROVE paid' = paid
        BY <3>1 DEF Call, CreateInvoice, SendInvoice, RecordInvoicePayment, VoidInvoice, rows
      <3>2. ASSUME NEW r \in Requests, Handle(r) PROVE paid' = paid \/ CommitPayment(r)
        BY <3>2 DEF Handle, NextInvoiceNumber, InsertInvoice, CommitSend, LockInvoice,
                    CommitVoid, Rollback, rows
      <3>3. ASSUME NEW i \in Invoices, DueDatePasses(i) \/ FlagRow(i) PROVE paid' = paid
        BY <3>3 DEF DueDatePasses, FlagRow, rows
      <3>4. CASE FlagOverdue \/ FlagOverdueFails \/ UNCHANGED vars
        BY <3>4 DEF FlagOverdue, FlagOverdueFails, ReleaseFlagged, vars, rows
      <3> QED
        BY <3>1, <3>2, <3>3, <3>4 DEF Next
    <2> QED
      BY <2>1, <2>2, <2>3, <2>4, NoNewRowSteps
  <1> QED
    BY <1>1, <1>2, NumberInvariant, PTL DEF Spec, LedgerSpec, Books!Spec

-----------------------------------------------------------------------------
\* What the guards ensure as long as no two requests are in flight on one invoice.  With two of
\* them, a status read before the row lock is granted lets a void overtake a payment.

\* What a request saw is what is there, but for the nightly job's mark.
Current(seen, now) == now = seen \/ (seen = "sent" /\ now = "overdue")

\* Without a race, a request is alone on its invoice and its guards hold of it still.
Alone ==
    ~raced => \A r \in Requests : Working(r) =>
        /\ \A q \in Requests \ {r} : ~On(q, req[r].inv)
        /\ req[r].op = "send" => status[req[r].inv] = "draft"
        /\ req[r].op \in {"pay", "void"} => Current(req[r].seen, status[req[r].inv])

\* The steps of a request that change its own invoice only, and end it.
Ends(r) == InsertInvoice(r) \/ CommitSend(r) \/ CommitPayment(r) \/ CommitVoid(r) \/ Rollback(r)

\* A request that commits or rolls back writes no status and no payment but its own row's.
LEMMA EndsTouchOneRow ==
    ASSUME IInv, NEW r \in Requests, Ends(r)
    PROVE  /\ Working(r) /\ End(r) /\ raced' = raced
           /\ \A i \in Invoices : i # req[r].inv => status'[i] = status[i] /\ paid'[i] = paid[i]
  <1>1. req[r].inv \in Invoices
    BY Kinds DEF Ends, InsertInvoice, CommitSend, CommitPayment, CommitVoid, Rollback, IInv
  <1> QED
    BY <1>1 DEF Ends, InsertInvoice, CommitSend, CommitPayment, CommitVoid, Rollback, rows,
                End, IInv, TypeOK

\* Alone holds before any request starts.
LEMMA AloneInit == Init => Alone
  BY DEF Init, Alone, Working

\* A handler that loads its invoice remembers the row's status, or has raced another.
LEMMA AloneCall ==
    ASSUME IInv, Alone, NEW r \in Requests, Call(r)
    PROVE  Alone'
  <1> USE DEF IInv
  <1>1. PICK i \in Invoices :
            \/ \E raw \in RawAmounts, date \in BodyDates : CreateInvoice(r, i, raw, date)
            \/ \E date \in BodyDates : SendInvoice(r, i, date)
            \/ \E raw \in RawAmounts : RecordInvoicePayment(r, i, raw)
            \/ VoidInvoice(r, i)
    BY DEF Call
  <1>2. /\ status' = status
        /\ raced' = (raced \/ \E q \in Requests \ {r} : On(q, i))
        /\ \A q \in Requests \ {r} : req'[q] = req[q]
    BY <1>1 DEF CreateInvoice, SendInvoice, RecordInvoicePayment, VoidInvoice, Begin, rows, TypeOK
  <1>3. /\ req'[r].inv = i
        /\ req'[r].op = "send" => status[i] = "draft"
        /\ req'[r].op \in {"pay", "void"} => req'[r].seen = status[i]
    BY <1>1 DEF CreateInvoice, SendInvoice, RecordInvoicePayment, VoidInvoice, Begin, TypeOK,
                Sendable
  <1>4. SUFFICES ASSUME ~raced', NEW q \in Requests, Working(q)'
                 PROVE  /\ \A p \in Requests \ {q} : ~On(p, req[q].inv)'
                        /\ req'[q].op = "send" => status'[req'[q].inv] = "draft"
                        /\ req'[q].op \in {"pay", "void"}
                              => Current(req'[q].seen, status'[req'[q].inv])
    BY DEF Alone
  <1>5. ~raced /\ \A p \in Requests \ {r} : ~On(p, i)
    BY <1>2, <1>4
  <1>6. CASE q = r
    BY <1>2, <1>3, <1>5, <1>6 DEF On, Working, Current
  <1>7. CASE q # r
    <2>1. Working(q) /\ req[q].inv # i
      BY <1>2, <1>4, <1>5, <1>7 DEF Working, On
    <2> QED
      BY <1>2, <1>3, <1>5, <1>7, <2>1 DEF Alone, On, Working
  <1> QED
    BY <1>6, <1>7

\* A commit changes one row, which no other request is at work on unless they raced.
LEMMA AloneEnds ==
    ASSUME IInv, Alone, NEW r \in Requests, Ends(r)
    PROVE  Alone'
  <1>1. /\ Working(r) /\ raced' = raced
        /\ ~Working(r)'
        /\ \A q \in Requests \ {r} : req'[q] = req[q] /\ Working(q)' = Working(q)
        /\ \A i \in Invoices : i # req[r].inv => status'[i] = status[i]
    BY EndsTouchOneRow, EndLeaves DEF IInv
  <1>2. ASSUME ~raced', NEW q \in Requests, Working(q)'
        PROVE  /\ q # r /\ Working(q)
               /\ status'[req[q].inv] = status[req[q].inv]
    <2>1. q # r /\ Working(q) /\ req[q].inv \in Invoices
      BY <1>1, <1>2, Kinds DEF IInv
    <2>2. req[q].inv # req[r].inv
      BY <1>1, <1>2, <2>1 DEF Alone, On
    <2> QED
      BY <1>1, <2>1, <2>2
  <1> QED
    BY <1>1, <1>2 DEF Alone, On

\* Every step preserves Alone: a request nobody raced acts on a status that is current.
LEMMA AloneNext == IInv /\ Alone /\ [Next]_vars => Alone'
  <1> SUFFICES ASSUME IInv, Alone, [Next]_vars PROVE Alone'
    OBVIOUS
  <1> USE DEF IInv
  <1>0. \A q \in Requests : Working(q) => req[q].inv \in Invoices
    BY Kinds
  <1>1. ASSUME NEW r \in Requests, NextInvoiceNumber(r) PROVE Alone'
    <2>1. req[r] \in Creating /\ Working(r)
      BY <1>1, Kinds DEF NextInvoiceNumber
    <2>2. /\ \A q \in Requests \ {r} : req'[q] = req[q]
          /\ req'[r].inv = req[r].inv /\ req[r].op = "create" /\ req'[r].op = "create"
          /\ \A q \in Requests : Working(q)' => Working(q)
      BY <1>1, <2>1 DEF NextInvoiceNumber, TypeOK, Creating, Working
    <2>3. status' = status /\ raced' = raced
      BY <1>1 DEF NextInvoiceNumber, rows
    <2>4. \A q \in Requests : req'[q].inv = req[q].inv
      BY <2>2
    <2> QED
      BY <2>2, <2>3, <2>4 DEF Alone, On
  <1>2. ASSUME NEW r \in Requests, LockInvoice(r) PROVE Alone'
    <2>1. req[r] \in Paying \cup Voiding /\ Working(r)
      BY <1>2, Kinds DEF LockInvoice
    <2>2. /\ \A q \in Requests \ {r} : req'[q] = req[q]
          /\ req'[r].inv = req[r].inv /\ req'[r].op = req[r].op /\ req'[r].seen = req[r].seen
          /\ \A q \in Requests : Working(q)' => Working(q)
      BY <1>2, <2>1 DEF LockInvoice, TypeOK, Paying, Voiding, Working
    <2>3. status' = status /\ raced' = raced
      BY <1>2 DEF LockInvoice, rows
    <2>4. \A q \in Requests : req'[q].inv = req[q].inv
      BY <2>2
    <2> QED
      BY <2>2, <2>3, <2>4 DEF Alone, On
  <1>3. CASE UNCHANGED <<status, req, raced>>
    BY <1>3 DEF Alone, On, Working
  <1>4. ASSUME NEW i \in Invoices, DueDatePasses(i) \/ FlagRow(i)
        PROVE  UNCHANGED <<status, req, raced>>
    BY <1>4 DEF DueDatePasses, FlagRow, rows
  <1>5. CASE FlagOverdue \/ FlagOverdueFails
    <2>1. /\ req' = req /\ raced' = raced
          /\ \A i \in Invoices : \/ status'[i] = status[i]
                                 \/ status[i] = "sent" /\ status'[i] = "overdue"
      BY <1>5 DEF FlagOverdue, FlagOverdueFails, ReleaseFlagged, Flagged, FlaggedAreDue, TypeOK
    <2> QED
      BY <1>0, <2>1 DEF Alone, Current, On, Working
  <1>6. UNCHANGED vars => UNCHANGED <<status, req, raced>>
    BY DEF vars, rows
  <1>7. ASSUME NEW r \in Requests, Handle(r)
        PROVE  NextInvoiceNumber(r) \/ LockInvoice(r) \/ Ends(r)
    BY <1>7 DEF Handle, Ends
  <1> QED
    BY <1>1, <1>2, <1>3, <1>4, <1>5, <1>6, <1>7, AloneCall, AloneEnds DEF Next

-----------------------------------------------------------------------------
Final(i) ==
    /\ status[i] \in {"paid", "void"} => status'[i] = status[i]
    /\ paid'[i] # paid[i] /\ paid'[i] = amount[i] => status'[i] = "paid"

\* A step that nobody raced leaves a paid or void invoice as it is, and marks paid the one
\* that it pays in full.
LEMMA FinalStep ==
    ASSUME IInv, Alone, [Next]_vars, ~raced', NEW i \in Invoices
    PROVE  Final(i)
  <1> USE DEF IInv
  <1>1. ASSUME status'[i] = status[i], paid'[i] = paid[i] PROVE Final(i)
    BY <1>1 DEF Final
  <1>2. ASSUME NEW r \in Requests, Ends(r) PROVE Final(i)
    <2>1. CASE i # req[r].inv
      BY <1>1, <1>2, <2>1, EndsTouchOneRow
    <2>2. CASE i = req[r].inv
      <3>1. ~raced /\ Working(r)
        BY <1>2, EndsTouchOneRow
      <3>2. CASE InsertInvoice(r)
        BY <2>2, <3>2 DEF InsertInvoice, CreatesAlone, Final
      <3>3. CASE CommitSend(r)
        BY <2>2, <3>1, <3>3 DEF CommitSend, Alone, Final
      <3>4. CASE CommitPayment(r)
        <4>1. status[i] \notin {"paid", "void"}
          BY <2>2, <3>1, <3>4 DEF CommitPayment, Payable, Alone, Current
        <4>2. req[r].amt \in Nat /\ paid[i] \in Nat /\ amount[i] \in Nat
          <5>1. req[r] \in Paying
            BY <3>4, Kinds DEF CommitPayment
          <5> QED
            BY <5>1, CentsAreNat DEF Paying, TypeOK
        <4>3. paid'[i] = amount[i] => status'[i] = "paid"
          BY <2>2, <3>4, <4>2 DEF CommitPayment, Settles, TypeOK
        <4> QED
          BY <4>1, <4>3 DEF Final
      <3>5. CASE CommitVoid(r)
        BY <2>2, <3>1, <3>5 DEF CommitVoid, Voidable, Alone, Current, Final
      <3>6. CASE Rollback(r)
        BY <1>1, <3>6 DEF Rollback, rows
      <3> QED
        BY <1>2, <3>2, <3>3, <3>4, <3>5, <3>6 DEF Ends
    <2> QED
      BY <2>1, <2>2
  <1>3. ASSUME NEW r \in Requests, Call(r) \/ NextInvoiceNumber(r) \/ LockInvoice(r)
        PROVE  Final(i)
    BY <1>1, <1>3 DEF Call, CreateInvoice, SendInvoice, RecordInvoicePayment, VoidInvoice,
                      NextInvoiceNumber, LockInvoice, rows
  <1>4. ASSUME NEW j \in Invoices, DueDatePasses(j) \/ FlagRow(j) PROVE Final(i)
    BY <1>1, <1>4 DEF DueDatePasses, FlagRow, rows
  <1>5. CASE FlagOverdue \/ FlagOverdueFails
    <2>1. /\ paid' = paid
          /\ status'[i] = status[i] \/ (status[i] = "sent" /\ status'[i] = "overdue")
      BY <1>5 DEF FlagOverdue, FlagOverdueFails, ReleaseFlagged, Flagged, FlaggedAreDue, TypeOK
    <2> QED
      BY <2>1 DEF Final
  <1>6. CASE UNCHANGED vars
    BY <1>1, <1>6 DEF vars, rows
  <1>7. ASSUME NEW r \in Requests, Handle(r)
        PROVE  NextInvoiceNumber(r) \/ LockInvoice(r) \/ Ends(r)
    BY <1>7 DEF Handle, Ends
  <1> QED
    BY <1>2, <1>3, <1>4, <1>5, <1>6, <1>7 DEF Next

\* As long as no two requests are in flight on one invoice, paid and void are final, and the
\* payment that completes an invoice marks it paid.
THEOREM FinalWithoutRace == Spec => FinalWhenAlone
  <1>1. IInv /\ Alone /\ [Next]_vars
          => [~raced' => \A i \in Invoices :
                /\ status[i] \in {"paid", "void"} => status'[i] = status[i]
                /\ paid'[i] # paid[i] /\ paid'[i] = amount[i] => status'[i] = "paid"]_vars
    BY FinalStep DEF Final
  <1>2. Spec => []Alone
    BY AloneInit, AloneNext, Inductive, PTL DEF Spec
  <1> QED
    BY <1>1, <1>2, Inductive, PTL DEF Spec, FinalWhenAlone

-----------------------------------------------------------------------------
\* AccountingSync

Busy(w) == ~At(w, "idle")

\* The job of an idle worker is typed, and so is a payment's invoice.
LEMMA Constants ==
    /\ NoJob \in Jobs /\ NoJob.pc = "idle"
    /\ \A r \in Records : IsPayment(r) => InvoiceOf[r] \in Records
    /\ \A r \in Records : NameOf[r] \in Names
  <1>1. [file |-> NoRecord, n |-> 0] \in Pairs
    BY DEF Pairs
  <1>2. NoJob \in Jobs /\ NoJob.pc = "idle"
    BY <1>1, BoundAssumption DEF NoJob, Jobs, Pcs
  <1> QED
    BY <1>2, RecordAssumption DEF IsPayment, Names

\* What is appended to one of the provider's lists is there, and the rest stays where it was.
LEMMA Appended ==
    ASSUME NEW S, NEW F, NEW b \in [F -> Seq(S)], NEW f \in F, NEW x \in S
    PROVE  /\ [b EXCEPT ![f] = Append(@, x)] \in [F -> Seq(S)]
           /\ LET b2 == [b EXCEPT ![f] = Append(@, x)] IN
                 /\ \A g \in F : /\ DOMAIN b[g] = 1 .. Len(b[g]) /\ Len(b[g]) \in Nat
                                 /\ \A i \in DOMAIN b[g] : i \in DOMAIN b2[g] /\ b2[g][i] = b[g][i]
                                 /\ g # f => b2[g] = b[g]
                 /\ DOMAIN b2[f] = 1 .. Len(b[f]) + 1 /\ b2[f][Len(b[f]) + 1] = x
  <1> DEFINE s == Append(b[f], x)
  <1>1. /\ s \in Seq(S) /\ DOMAIN s = 1 .. Len(b[f]) + 1 /\ s[Len(b[f]) + 1] = x
        /\ \A i \in DOMAIN b[f] : i \in DOMAIN s /\ s[i] = b[f][i]
    OBVIOUS
  <1>2. \A g \in F : DOMAIN b[g] = 1 .. Len(b[g]) /\ Len(b[g]) \in Nat
    OBVIOUS
  <1>3. [b EXCEPT ![f] = Append(@, x)] = [b EXCEPT ![f] = s]
    OBVIOUS
  <1> HIDE DEF s
  <1> QED
    BY <1>1, <1>2, <1>3

-----------------------------------------------------------------------------
(* Types.                                                                  *)

JobTyped(j) ==
    j \in Jobs /\ (j.pc # "idle" => j.rec \in Records /\ j.file \in Files /\ j.tok.file \in Files)

\* Workers keep their type when one of them goes on with a typed job.
LEMMA GoTyped ==
    ASSUME SyncTypeOK, NEW w \in Workers, NEW j, JobTyped(j), Go(w, j)
    PROVE  job' \in [Workers -> Jobs] /\ \A v \in Workers : JobTyped(job'[v])
  BY DEF SyncTypeOK, JobTyped, Go, At

\* What a busy worker's record is.
LEMMA JobsAreTyped ==
    ASSUME SyncTypeOK, NEW w \in Workers
    PROVE  /\ JobTyped(job[w]) /\ job[w].pc \in Pcs /\ job[w].tries \in 0 .. MaxRetries
           /\ job[w].tok \in Pairs /\ job[w].ent \in Nat /\ job[w].inv \in Nat /\ job[w].id \in Nat
           /\ job[w].again \in BOOLEAN /\ job[w].tok.n \in Nat
  BY DEF SyncTypeOK, JobTyped, At, Jobs, Pairs

\* A message that goes back to the queue, or is given up, is a message.
LEMMA NackTyped ==
    ASSUME SyncTypeOK, NEW w \in Workers, Busy(w), Nack(w)
    PROVE  queue' \subseteq Messages /\ dead' \subseteq Messages
  <1> DEFINE m == [rec |-> job[w].rec, tries |-> job[w].tries]
  <1>1. job[w].rec \in Records /\ job[w].tries \in 0 .. MaxRetries
    BY JobsAreTyped DEF Busy, At, JobTyped
  <1>2. m \in Messages
    BY <1>1 DEF Messages
  <1>3. CASE m.tries < MaxRetries
    <2>1. [m EXCEPT !.tries = @ + 1] = [rec |-> job[w].rec, tries |-> job[w].tries + 1]
      OBVIOUS
    <2>2. [m EXCEPT !.tries = @ + 1] \in Messages
      BY <1>1, <1>3, <2>1, BoundAssumption DEF Messages
    <2> QED
      BY <1>3, <2>2 DEF Nack, SyncTypeOK
  <1>4. CASE ~(m.tries < MaxRetries)
    BY <1>2, <1>4 DEF Nack, SyncTypeOK
  <1> QED
    BY <1>3, <1>4

\* The names and their locks keep their types at the end of a transaction.
LEMMA NamesTyped ==
    ASSUME SyncTypeOK, NEW w \in Workers, KeepsNames(w) \/ LosesNames(w)
    PROVE  mapping' \in [Names -> Nat] /\ mapLock' \in [Names -> Workers \cup {NoWorker}]
  BY DEF SyncTypeOK, KeepsNames, LosesNames, Unlocked

\* What a failure leaves is typed.
LEMMA FailTyped ==
    ASSUME SyncTypeOK, NEW w \in Workers, Busy(w), Fail(w)
    PROVE  /\ row' = row /\ conn' = conn
           /\ sync' \in [Records -> [status : {"none", "success", "failed"}, id : Nat]]
           /\ mapping' \in [Names -> Nat] /\ mapLock' \in [Names -> Workers \cup {NoWorker}]
           /\ queue' \subseteq Messages /\ dead' \subseteq Messages
           /\ job' \in [Workers -> Jobs] /\ \A v \in Workers : JobTyped(job'[v])
  <1>1. JobTyped(NoJob)
    BY Constants DEF JobTyped
  <1>2. job[w].rec \in Records
    BY JobsAreTyped DEF Busy, At, JobTyped
  <1>3. sync' \in [Records -> [status : {"none", "success", "failed"}, id : Nat]]
    <2>1. sync' = [sync EXCEPT ![job[w].rec] = Recorded(@)]
      BY DEF Fail
    <2>2. sync[job[w].rec] \in [status : {"none", "success", "failed"}, id : Nat]
      BY <1>2 DEF SyncTypeOK
    <2>3. Recorded(sync[job[w].rec]) \in [status : {"none", "success", "failed"}, id : Nat]
      BY <2>2 DEF Recorded
    <2> QED
      BY <1>2, <2>1, <2>3 DEF SyncTypeOK
  <1> QED
    BY <1>1, <1>3, GoTyped, NackTyped, NamesTyped DEF Fail

\* Steps that leave the tables and the queue alone.
LEMMA KeptTyped ==
    ASSUME SyncTypeOK, UNCHANGED <<db, queue, dead>>
    PROVE  /\ row' = row /\ conn' = conn
           /\ sync' \in [Records -> [status : {"none", "success", "failed"}, id : Nat]]
           /\ mapping' \in [Names -> Nat] /\ mapLock' \in [Names -> Workers \cup {NoWorker}]
           /\ queue' \subseteq Messages /\ dead' \subseteq Messages
  BY DEF SyncTypeOK, db

\* A worker goes on to p with the record and the file it has.
Advanced(w, p, j) == JobTyped(j) /\ j.pc = p /\ j.rec = job[w].rec /\ j.file = job[w].file

\* What each step makes of a worker's job.
LEMMA NextJobs ==
    ASSUME SyncTypeOK, NEW w \in Workers, Busy(w)
    PROVE  /\ \A p \in Pcs : Advanced(w, p, [job[w] EXCEPT !.pc = p])
           /\ \A p \in Pcs, n \in Nat : Advanced(w, p, [job[w] EXCEPT !.pc = p, !.ent = n])
           /\ \A p \in Pcs, n \in Nat : Advanced(w, p, [job[w] EXCEPT !.pc = p, !.id = n])
           /\ \A p \in Pcs, n \in Nat, i \in Nat : Advanced(w, p, [job[w] EXCEPT !.inv = i, !.ent = n, !.pc = p])
           /\ \A p \in Pcs, n \in Nat : Advanced(w, p, [job[w] EXCEPT !.pc = p, !.tok.n = n])
           /\ Advanced(w, "find", [job[w] EXCEPT !.pc = "find", !.again = TRUE])
  <1>1. job[w] \in Jobs /\ job[w].rec \in Records /\ job[w].file \in Files /\ job[w].tok.file \in Files
    BY JobsAreTyped DEF Busy, At, JobTyped
  <1>2. "find" \in Pcs
    BY DEF Pcs
  <1> USE DEF JobTyped, Jobs, Advanced
  <1>a. \A p \in Pcs : Advanced(w, p, [job[w] EXCEPT !.pc = p])
    BY <1>1
  <1>b. \A p \in Pcs, n \in Nat : Advanced(w, p, [job[w] EXCEPT !.pc = p, !.ent = n])
    BY <1>1
  <1>c. \A p \in Pcs, n \in Nat : Advanced(w, p, [job[w] EXCEPT !.pc = p, !.id = n])
    BY <1>1
  <1>d. \A p \in Pcs, n \in Nat, i \in Nat : Advanced(w, p, [job[w] EXCEPT !.inv = i, !.ent = n, !.pc = p])
    <2> TAKE p \in Pcs, n \in Nat, i \in Nat
    <2> DEFINE j == [job[w] EXCEPT !.inv = i, !.ent = n, !.pc = p]
    <2>1. j.pc = p /\ j.rec = job[w].rec /\ j.file = job[w].file /\ j.tok = job[w].tok
      BY <1>1
    <2>2. j \in Jobs
      BY <1>1
    <2> QED
      BY <1>1, <2>1, <2>2
  <1>e. \A p \in Pcs, n \in Nat : Advanced(w, p, [job[w] EXCEPT !.pc = p, !.tok.n = n])
    <2> TAKE p \in Pcs, n \in Nat
    <2> DEFINE j == [job[w] EXCEPT !.pc = p, !.tok.n = n]
    <2>1. j.tok = [job[w].tok EXCEPT !.n = n]
      BY <1>1
    <2>2. j.tok \in Pairs /\ j.tok.file = job[w].tok.file
      BY <1>1, <2>1 DEF Pairs
    <2> QED
      BY <1>1, <2>1, <2>2
  <1>f. Advanced(w, "find", [job[w] EXCEPT !.pc = "find", !.again = TRUE])
    BY <1>1, <1>2
  <1> QED
    BY Zenon, <1>a, <1>b, <1>c, <1>d, <1>e, <1>f

(* Every step of a worker is one of three moves: it takes a message, goes  *)
(* on with the record and file it has, or ends.                            *)

Takes(w) ==
    /\ At(w, "idle")
    /\ \E m \in queue :
          /\ queue' = queue \ {m}
          /\ Go(w, [NoJob EXCEPT !.pc = "loaded", !.rec = m.rec, !.tries = m.tries,
                                 !.tok = conn.tok, !.file = conn.file])

Goes(w) ==
    /\ Busy(w) /\ queue' = queue
    /\ \E j \in Jobs : /\ Go(w, j) /\ JobTyped(j) /\ j.pc # "idle"
                       /\ j.rec = job[w].rec /\ j.file = job[w].file

EndsJob(w) ==
    /\ Busy(w) /\ Go(w, NoJob)
    /\ \E m \in Messages : m.rec = job[w].rec /\ queue' \subseteq queue \cup {m}

MessageTyped == queue' \subseteq Messages /\ dead' \subseteq Messages

\* A failure, a refused insertion and a crash put the message back or give it up.
LEMMA EndingEnds ==
    ASSUME SyncTypeOK, NEW w \in Workers, Busy(w), Go(w, NoJob),
           Nack(w) \/ queue' = queue
                   \/ queue' = queue \cup {[rec |-> job[w].rec, tries |-> job[w].tries]}
    PROVE  EndsJob(w)
  <1> DEFINE m == [rec |-> job[w].rec, tries |-> job[w].tries]
  <1>1. job[w].rec \in Records /\ job[w].tries \in 0 .. MaxRetries
    BY JobsAreTyped DEF Busy, At, JobTyped
  <1>2. m \in Messages
    BY <1>1 DEF Messages
  <1>3. CASE Nack(w) /\ m.tries < MaxRetries
    <2>1. [m EXCEPT !.tries = @ + 1] = [rec |-> job[w].rec, tries |-> job[w].tries + 1]
      OBVIOUS
    <2>2. [m EXCEPT !.tries = @ + 1] \in Messages
      BY <1>1, <1>3, <2>1, BoundAssumption DEF Messages
    <2> QED
      BY <1>3, <2>1, <2>2 DEF Nack, EndsJob
  <1>4. CASE Nack(w) /\ ~(m.tries < MaxRetries)
    BY <1>2, <1>4 DEF Nack, EndsJob
  <1> QED
    BY <1>2, <1>3, <1>4 DEF EndsJob

\* A step that goes on is a move.
LEMMA GoingGoes ==
    ASSUME NEW w \in Workers, Busy(w), queue' = queue,
           NEW j, NEW p, Advanced(w, p, j), p # "idle", Go(w, j)
    PROVE  Goes(w)
  BY DEF Goes, JobTyped, Advanced

\* The steps that fail: the job ends, and nothing but its own row is written.
LEMMA FailEnds ==
    ASSUME SyncTypeOK, NEW w \in Workers, Busy(w), Fail(w)
    PROVE  EndsJob(w)
  BY EndingEnds DEF Fail

\* Every step of a worker is a move.
LEMMA WorkerMoves ==
    ASSUME SyncTypeOK, NEW w \in Workers, Works(w) \/ WorkerCrashes(w) \/ ProviderFails(w)
    PROVE  Takes(w) \/ Goes(w) \/ EndsJob(w)
  <1>0. {"search", "find", "make", "remember", "push", "pushed", "refresh", "persist"} \subseteq Pcs
    BY DEF Pcs
  <1>1. CASE Start(w)
    BY Zenon, <1>1 DEF Start, Takes
  <1>2. CASE Prepare(w)
    <2>1. Busy(w)
      BY <1>2 DEF Prepare, Busy, At
    <2>2. CASE Fail(w)
      BY <2>1, <2>2, FailEnds
    <2>3. CASE ~Fail(w)
      <3> DEFINE known == mapLock[NameOf[job[w].rec]] \in {w, NoWorker} /\ mapping[NameOf[job[w].rec]] # 0
                 p == IF NeedsName(job[w].rec) /\ ~known THEN "search" ELSE "find"
                 n == IF NeedsName(job[w].rec) /\ known THEN mapping[NameOf[job[w].rec]] ELSE 0
                 i == IF IsPayment(job[w].rec) THEN sync[InvoiceOf[job[w].rec]].id ELSE 0
      <3>1. job[w].rec \in Records
        BY <2>1, JobsAreTyped DEF Busy, At, JobTyped
      <3>2. p \in Pcs /\ p # "idle" /\ n \in Nat /\ i \in Nat
        BY <3>1, <1>0, Constants DEF SyncTypeOK
      <3>3. Go(w, [job[w] EXCEPT !.inv = i, !.ent = n, !.pc = p]) /\ queue' = queue
        BY <1>2, <2>3 DEF Prepare
      <3> HIDE DEF p, n, i
      <3> QED
        BY Zenon, <2>1, <3>2, <3>3, NextJobs, GoingGoes
    <2> QED
      BY <2>2, <2>3
  <1>3. CASE Search(w)
    <2>1. Busy(w)
      BY <1>3 DEF Search, Busy, At
    <2>2. CASE Fail(w)
      BY <2>1, <2>2, FailEnds
    <2>3. CASE ~Fail(w)
      <3> DEFINE found == {i \in DOMAIN people[job[w].file] : people[job[w].file][i] = NameOf[job[w].rec]}
                 n == CHOOSE i \in found : TRUE
      <3>1. queue' = queue
        BY <1>3, <2>3 DEF Search
      <3>2. CASE found = {}
        <4>1. Go(w, [job[w] EXCEPT !.pc = "make"])
          BY <1>3, <2>3, <3>2 DEF Search
        <4> QED
          BY Zenon, <1>0, <2>1, <3>1, <4>1, NextJobs, GoingGoes
      <3>3. CASE found # {}
        <4>1. job[w].file \in Files
          BY <2>1, JobsAreTyped DEF Busy, At, JobTyped
        <4>2. n \in found
          BY <3>3
        <4>3. n \in Nat
          BY SMTT(30), <4>1, <4>2 DEF SyncTypeOK
        <4>4. Go(w, [job[w] EXCEPT !.pc = "remember", !.ent = n])
          BY <1>3, <2>3, <3>3 DEF Search
        <4> HIDE DEF n, found
        <4> QED
          BY Zenon, <1>0, <2>1, <3>1, <4>3, <4>4, NextJobs, GoingGoes
      <3> QED
        BY <3>2, <3>3
    <2> QED
      BY <2>2, <2>3
  <1>4. CASE Make(w)
    <2>1. Busy(w)
      BY <1>4 DEF Make, Busy, At
    <2>2. CASE Fail(w)
      BY <2>1, <2>2, FailEnds
    <2>3. CASE ~Fail(w)
      <3> DEFINE n == Len(people[job[w].file]) + 1
      <3>1. Go(w, [job[w] EXCEPT !.pc = "remember", !.ent = n]) /\ queue' = queue
        BY <1>4, <2>3 DEF Make
      <3>2. n \in Nat
        BY <2>1, JobsAreTyped DEF Busy, At, JobTyped, SyncTypeOK
      <3> HIDE DEF n
      <3> QED
        BY Zenon, <1>0, <2>1, <3>1, <3>2, NextJobs, GoingGoes
    <2> QED
      BY <2>2, <2>3
  <1>5. CASE Remember(w)
    <2>1. Busy(w)
      BY <1>5 DEF Remember, Busy, At
    <2>2. CASE mapping[NameOf[job[w].rec]] # 0
      <3>1. Nack(w) /\ Go(w, NoJob)
        BY <1>5, <2>2 DEF Remember
      <3> QED
        BY <2>1, <3>1, EndingEnds
    <2>3. CASE mapping[NameOf[job[w].rec]] = 0
      <3>1. Go(w, [job[w] EXCEPT !.pc = "find"]) /\ queue' = queue
        BY <1>5, <2>3 DEF Remember, Step
      <3> QED
        BY Zenon, <1>0, <2>1, <3>1, NextJobs, GoingGoes
    <2> QED
      BY <2>2, <2>3
  <1>6. ASSUME Busy(w), Rejected(w) PROVE Goes(w) \/ EndsJob(w)
    <2>1. CASE job[w].again
      BY <1>6, <2>1, FailEnds DEF Rejected
    <2>2. CASE ~job[w].again
      <3>1. Go(w, [job[w] EXCEPT !.pc = "refresh"]) /\ queue' = queue
        BY <1>6, <2>2 DEF Rejected, Step
      <3> QED
        BY Zenon, <1>0, <1>6, <3>1, NextJobs, GoingGoes
    <2> QED
      BY <2>1, <2>2
  <1>7. CASE Find(w)
    <2>1. Busy(w)
      BY <1>7 DEF Find, Busy, At
    <2>2. CASE Rejected(w)
      BY <2>1, <2>2, <1>6
    <2>3. CASE ~Rejected(w)
      <3> DEFINE found == AlreadyPosted(job[w].file, job[w].rec)
                 n == CHOOSE i \in found : TRUE
      <3>1. queue' = queue
        BY <1>7, <2>3 DEF Find
      <3>2. CASE found = {}
        <4>1. Go(w, [job[w] EXCEPT !.pc = "push"])
          BY <1>7, <2>3, <3>2 DEF Find
        <4> QED
          BY Zenon, <1>0, <2>1, <3>1, <4>1, NextJobs, GoingGoes
      <3>3. CASE found # {}
        <4>1. job[w].file \in Files
          BY <2>1, JobsAreTyped DEF Busy, At, JobTyped
        <4>2. n \in found
          BY SMTT(30), <3>3
        <4>3. n \in Nat
          <5>1. books[job[w].file] \in Seq(Posts)
            BY <4>1 DEF SyncTypeOK
          <5> QED
            BY <4>2, <5>1 DEF AlreadyPosted
        <4>4. Go(w, [job[w] EXCEPT !.pc = "pushed", !.id = n])
          BY <1>7, <2>3, <3>3 DEF Find
        <4> HIDE DEF n, found
        <4> QED
          BY Zenon, <1>0, <2>1, <3>1, <4>3, <4>4, NextJobs, GoingGoes
      <3> QED
        BY <3>2, <3>3
    <2> QED
      BY <2>2, <2>3
  <1>8. CASE Push(w)
    <2>1. Busy(w)
      BY <1>8 DEF Push, Busy, At
    <2>2. CASE Rejected(w)
      BY <2>1, <2>2, <1>6
    <2>3. CASE ~Rejected(w)
      <3> DEFINE repeated == IF provider = "quickbooks" THEN AlreadyPosted(job[w].file, job[w].rec) ELSE {}
                 n == IF repeated # {} THEN CHOOSE i \in repeated : TRUE ELSE Len(books[job[w].file]) + 1
      <3>1. Go(w, [job[w] EXCEPT !.pc = "pushed", !.id = n]) /\ queue' = queue
        BY <1>8, <2>3 DEF Push
      <3>2. job[w].file \in Files
        BY <2>1, JobsAreTyped DEF Busy, At, JobTyped
      <3>3. n \in Nat
        <4>1. CASE repeated # {}
          <5>1. n \in AlreadyPosted(job[w].file, job[w].rec)
            BY <4>1
          <5>2. books[job[w].file] \in Seq(Posts)
            BY <3>2 DEF SyncTypeOK
          <5> HIDE DEF n
          <5> QED
            BY <5>1, <5>2 DEF AlreadyPosted
        <4>2. CASE repeated = {}
          <5>1. books[job[w].file] \in Seq(Posts)
            BY <3>2 DEF SyncTypeOK
          <5>2. Len(books[job[w].file]) \in Nat
            BY <5>1
          <5> QED
            BY <4>2, <5>2
        <4> QED
          BY <4>1, <4>2
      <3> HIDE DEF n, repeated
      <3> QED
        BY Zenon, <1>0, <2>1, <3>1, <3>3, NextJobs, GoingGoes
    <2> QED
      BY <2>2, <2>3
  <1>9. CASE Refresh(w)
    <2>1. Busy(w)
      BY <1>9 DEF Refresh, Busy, At
    <2>2. CASE Fail(w)
      BY <2>1, <2>2, FailEnds
    <2>3. CASE ~Fail(w)
      <3> DEFINE n == grant[job[w].tok.file].n + 1
      <3>1. Go(w, [job[w] EXCEPT !.pc = "persist", !.tok.n = n]) /\ queue' = queue
        BY <1>9, <2>3 DEF Refresh
      <3>2. n \in Nat
        BY <2>1, JobsAreTyped DEF Busy, At, JobTyped, SyncTypeOK
      <3> HIDE DEF n
      <3> QED
        BY Zenon, <1>0, <2>1, <3>1, <3>2, NextJobs, GoingGoes
    <2> QED
      BY <2>2, <2>3
  <1>10. CASE Persist(w)
    <2>1. Busy(w) /\ queue' = queue /\ Go(w, [job[w] EXCEPT !.pc = "find", !.again = TRUE])
      BY <1>10 DEF Persist, Busy, At
    <2> QED
      BY Zenon, <2>1, NextJobs, GoingGoes
  <1>11. CASE Succeed(w)
    <2>1. Busy(w) /\ queue' = queue /\ Go(w, NoJob)
      BY <1>11 DEF Succeed, Busy, At
    <2> QED
      BY <2>1, EndingEnds
  <1>12. CASE WorkerCrashes(w)
    <2>1. /\ Busy(w) /\ Go(w, NoJob)
          /\ queue' = queue \cup {[rec |-> job[w].rec, tries |-> job[w].tries]}
      BY <1>12 DEF WorkerCrashes, Busy
    <2> QED
      BY <2>1, EndingEnds
  <1>13. CASE ProviderFails(w)
    BY <1>13, FailEnds DEF ProviderFails, Busy, At
  <1> QED
    BY <1>1, <1>2, <1>3, <1>4, <1>5, <1>7, <1>8, <1>9, <1>10, <1>11, <1>12, <1>13 DEF Works

\* A move leaves typed jobs and messages, and the jobs of the other workers alone.
LEMMA MovesTyped ==
    ASSUME SyncTypeOK, NEW w \in Workers, Takes(w) \/ Goes(w) \/ EndsJob(w)
    PROVE  /\ job' \in [Workers -> Jobs] /\ \A v \in Workers : JobTyped(job'[v])
           /\ queue' \subseteq Messages
           /\ \A v \in Workers : v # w => job'[v] = job[v]
  <1>1. CASE Takes(w)
    <2> PICK m \in queue :
          /\ queue' = queue \ {m}
          /\ Go(w, [NoJob EXCEPT !.pc = "loaded", !.rec = m.rec, !.tries = m.tries,
                                 !.tok = conn.tok, !.file = conn.file])
      BY Zenon, <1>1 DEF Takes
    <2> DEFINE j == [NoJob EXCEPT !.pc = "loaded", !.rec = m.rec, !.tries = m.tries,
                                  !.tok = conn.tok, !.file = conn.file]
    <2>1. m.rec \in Records /\ m.tries \in 0 .. MaxRetries
      BY DEF SyncTypeOK, Messages
    <2>2. conn.tok \in Pairs /\ conn.file \in Files /\ conn.tok.file \in Files
      BY DEF SyncTypeOK
    <2>3. JobTyped(j)
      BY <2>1, <2>2 DEF NoJob, JobTyped, Jobs, Pcs
    <2> HIDE DEF j
    <2>4. Go(w, j)
      BY DEF j
    <2> QED
      BY <2>3, <2>4, GoTyped DEF Go, SyncTypeOK
  <1>2. CASE Goes(w)
    BY <1>2, GoTyped DEF Goes, Go, SyncTypeOK
  <1>3. CASE EndsJob(w)
    <2>1. JobTyped(NoJob)
      BY Constants DEF JobTyped
    <2> QED
      BY <1>3, <2>1, GoTyped DEF EndsJob, Go, SyncTypeOK
  <1> QED
    BY <1>1, <1>2, <1>3

\* InitSync gives every variable a value of its type.
LEMMA InitTyped == InitSync => SyncTypeOK
  <1> SUFFICES ASSUME InitSync PROVE SyncTypeOK
    OBVIOUS
  <1>1. conn \in [tok : Pairs, file : Files] /\ conn.tok.file \in Files
    BY DEF InitSync, Pairs
  <1>2. job \in [Workers -> Jobs] /\ \A w \in Workers : At(w, "idle")
    BY Constants DEF InitSync, At
  <1> QED
    BY <1>1, <1>2 DEF InitSync, SyncTypeOK, Messages

\* What a worker's step does to the rest of the state is typed.
LEMMA WorkersTyped ==
    ASSUME SyncTypeOK, NEW w \in Workers, Works(w) \/ WorkerCrashes(w) \/ ProviderFails(w)
    PROVE  SyncTypeOK'
  <1> DEFINE SyncTyped == sync' \in [Records -> [status : {"none", "success", "failed"}, id : Nat]]
             MapTyped  == mapping' \in [Names -> Nat] /\ mapLock' \in [Names -> Workers \cup {NoWorker}]
             ConnTyped == conn' \in [tok : Pairs, file : Files] /\ conn'.tok.file \in Files
             Rest == /\ dead' \subseteq Messages /\ SyncTyped /\ MapTyped /\ ConnTyped
                     /\ row' = row /\ provider' = provider
                     /\ books' \in [Files -> Seq(Posts)] /\ people' \in [Files -> Seq(Names)]
                     /\ grant' \in [Files -> [n : Nat, expired : BOOLEAN]]
                     /\ crossed' \subseteq {"redelivered", "reconnected", "crashed"}
  <1>1. job' \in [Workers -> Jobs] /\ (\A v \in Workers : JobTyped(job'[v])) /\ queue' \subseteq Messages
    BY WorkerMoves, MovesTyped
  <1>2. JobTyped(job[w])
    BY JobsAreTyped
  <1>3. ASSUME Busy(w), Fail(w)
        PROVE  dead' \subseteq Messages /\ SyncTyped /\ MapTyped /\ ConnTyped /\ row' = row
    BY <1>3, FailTyped DEF SyncTypeOK
  <1>4. ASSUME UNCHANGED <<db, dead>>
        PROVE  dead' \subseteq Messages /\ SyncTyped /\ MapTyped /\ ConnTyped /\ row' = row
    BY <1>4 DEF SyncTypeOK, db
  <1>5. ASSUME UNCHANGED <<provider, external, crossed>>
        PROVE  /\ provider' = provider
               /\ books' \in [Files -> Seq(Posts)] /\ people' \in [Files -> Seq(Names)]
               /\ grant' \in [Files -> [n : Nat, expired : BOOLEAN]]
               /\ crossed' \subseteq {"redelivered", "reconnected", "crashed"}
    BY <1>5 DEF SyncTypeOK, external
  <1>6. ASSUME Start(w) PROVE Rest
    BY <1>4, <1>5, <1>6 DEF Start
  <1>7. ASSUME Prepare(w) PROVE Rest
    BY <1>3, <1>4, <1>5, <1>7 DEF Prepare, Busy, At
  <1>8. ASSUME Search(w) PROVE Rest
    BY <1>3, <1>4, <1>5, <1>8 DEF Search, Busy, At
  <1>9. ASSUME Make(w) PROVE Rest
    <2>1. Busy(w)
      BY <1>9 DEF Make, Busy, At
    <2>2. job[w].rec \in Records /\ job[w].file \in Files
      BY <1>2, <2>1 DEF JobTyped, Busy, At
    <2>3. NameOf[job[w].rec] \in Names
      BY <2>2, Constants
    <2> DEFINE name == NameOf[job[w].rec]
    <2>6. people' = people \/ people' = [people EXCEPT ![job[w].file] = Append(@, name)]
      BY <1>9 DEF Make, Fail
    <2> HIDE DEF name
    <2>7. people \in [Files -> Seq(Names)] /\ name \in Names
      BY <2>3 DEF SyncTypeOK, name
    <2>4. people' \in [Files -> Seq(Names)]
      <3>1. [people EXCEPT ![job[w].file] = Append(@, name)] \in [Files -> Seq(Names)]
        BY ZenonT(40), <2>2, <2>7, Appended
      <3> QED
        BY <2>6, <2>7, <3>1
    <2>5. /\ provider' = provider /\ books' \in [Files -> Seq(Posts)]
          /\ grant' \in [Files -> [n : Nat, expired : BOOLEAN]]
          /\ crossed' \subseteq {"redelivered", "reconnected", "crashed"}
      BY <1>9 DEF Make, SyncTypeOK
    <2> QED
      BY <1>3, <1>4, <1>9, <2>1, <2>4, <2>5 DEF Make
  <1>10. ASSUME Remember(w) PROVE Rest
    <2>1. Busy(w)
      BY <1>10 DEF Remember, Busy, At
    <2>2. dead' \subseteq Messages
      BY <1>10, <2>1, NackTyped DEF Remember, SyncTypeOK
    <2>3. MapTyped
      <3>1. CASE mapping[NameOf[job[w].rec]] # 0
        BY <1>10, <3>1, NamesTyped DEF Remember
      <3>2. CASE mapping[NameOf[job[w].rec]] = 0
        <4>1. job[w].ent \in Nat
          BY JobsAreTyped
        <4> QED
          BY ZenonT(40), <1>10, <3>2, <4>1 DEF Remember, SyncTypeOK
      <3> QED
        BY <3>1, <3>2
    <2>4. SyncTyped /\ ConnTyped /\ row' = row
      BY <1>10 DEF Remember, SyncTypeOK
    <2> QED
      BY <1>5, <1>10, <2>2, <2>3, <2>4 DEF Remember
  <1>11. ASSUME Busy(w), Rejected(w)
         PROVE  dead' \subseteq Messages /\ SyncTyped /\ MapTyped /\ ConnTyped /\ row' = row
    BY <1>3, <1>4, <1>11 DEF Rejected
  <1>12. ASSUME Find(w) PROVE Rest
    BY <1>4, <1>5, <1>11, <1>12 DEF Find, Busy, At
  <1>13. ASSUME Push(w) PROVE Rest
    <2>1. Busy(w)
      BY <1>13 DEF Push, Busy, At
    <2>2. job[w].rec \in Records /\ job[w].file \in Files /\ job[w].ent \in Nat /\ job[w].inv \in Nat
      BY <1>2, <2>1, JobsAreTyped DEF JobTyped, Busy, At
    <2> DEFINE post == [rec |-> job[w].rec, ent |-> job[w].ent, inv |-> job[w].inv]
    <2>3. post \in Posts
      BY <2>2 DEF Posts
    <2>4. books' = books \/ books' = [books EXCEPT ![job[w].file] = Append(@, post)]
      BY <1>13 DEF Push
    <2> HIDE DEF post
    <2>5. books' \in [Files -> Seq(Posts)]
      <3>1. books \in [Files -> Seq(Posts)]
        BY DEF SyncTypeOK
      <3>2. [books EXCEPT ![job[w].file] = Append(@, post)] \in [Files -> Seq(Posts)]
        <4>1. job[w].file \in Files
          BY <2>2
        <4> QED
          BY ZenonT(40), <2>3, <3>1, <4>1, Appended
      <3> QED
        BY <2>4, <3>1, <3>2
    <2>6. /\ provider' = provider /\ people' \in [Files -> Seq(Names)]
          /\ grant' \in [Files -> [n : Nat, expired : BOOLEAN]]
          /\ crossed' \subseteq {"redelivered", "reconnected", "crashed"}
      BY <1>13 DEF Push, SyncTypeOK
    <2> QED
      BY <1>4, <1>11, <1>13, <2>1, <2>5, <2>6 DEF Push
  <1>14. ASSUME Refresh(w) PROVE Rest
    <2>1. Busy(w)
      BY <1>14 DEF Refresh, Busy, At
    <2>2. job[w].tok.file \in Files
      BY <1>2, <2>1 DEF JobTyped, Busy, At
    <2>3. grant[job[w].tok.file].n + 1 \in Nat
      BY <2>2 DEF SyncTypeOK
    <2> DEFINE g == [n |-> grant[job[w].tok.file].n + 1, expired |-> FALSE]
    <2>6. grant' = grant \/ grant' = [grant EXCEPT ![job[w].tok.file] = g]
      BY <1>14 DEF Refresh
    <2>7. g \in [n : Nat, expired : BOOLEAN] /\ grant \in [Files -> [n : Nat, expired : BOOLEAN]]
      BY <2>3 DEF SyncTypeOK
    <2> HIDE DEF g
    <2>4. grant' \in [Files -> [n : Nat, expired : BOOLEAN]]
      BY <2>2, <2>6, <2>7
    <2>5. /\ provider' = provider /\ books' \in [Files -> Seq(Posts)] /\ people' \in [Files -> Seq(Names)]
          /\ crossed' \subseteq {"redelivered", "reconnected", "crashed"}
      BY <1>14 DEF Refresh, SyncTypeOK
    <2> QED
      BY <1>3, <1>4, <1>14, <2>1, <2>4, <2>5 DEF Refresh
  <1>15. ASSUME Persist(w) PROVE Rest
    <2>1. job[w].tok \in Pairs /\ job[w].tok.file \in Files
      BY <1>2, <1>15, JobsAreTyped DEF Persist, JobTyped, At
    <2>4. conn' = [conn EXCEPT !.tok = job[w].tok]
      BY <1>15 DEF Persist, Saved
    <2>5. conn \in [tok : Pairs, file : Files]
      BY DEF SyncTypeOK
    <2>2. ConnTyped
      BY <2>1, <2>4, <2>5
    <2>3. MapTyped
      BY <1>15, NamesTyped DEF Persist
    <2> QED
      BY <1>5, <1>15, <2>2, <2>3 DEF Persist, SyncTypeOK
  <1>16. ASSUME Succeed(w) PROVE Rest
    <2>1. job[w].id \in Nat
      BY JobsAreTyped
    <2>2. SyncTyped
      BY <1>16, <2>1 DEF Succeed, SuccessStatus, SyncTypeOK
    <2>3. MapTyped
      BY <1>16, NamesTyped DEF Succeed
    <2> QED
      BY <1>5, <1>16, <2>2, <2>3 DEF Succeed, SyncTypeOK
  <1>17. ASSUME WorkerCrashes(w) PROVE Rest
    <2>1. MapTyped
      BY <1>17, NamesTyped DEF WorkerCrashes
    <2> QED
      BY <1>17, <2>1 DEF WorkerCrashes, Fault, SyncTypeOK, external
  <1>18. ASSUME ProviderFails(w) PROVE Rest
    <2>1. Busy(w)
      BY <1>18 DEF ProviderFails, Busy, At
    <2>2. /\ provider' = provider /\ books' \in [Files -> Seq(Posts)] /\ people' \in [Files -> Seq(Names)]
          /\ grant' \in [Files -> [n : Nat, expired : BOOLEAN]]
          /\ crossed' \subseteq {"redelivered", "reconnected", "crashed"}
      BY <1>18 DEF ProviderFails, Fault, SyncTypeOK, external
    <2> QED
      BY <1>3, <1>18, <2>1, <2>2 DEF ProviderFails
  <1>19. Rest
    BY <1>6, <1>7, <1>8, <1>9, <1>10, <1>12, <1>13, <1>14, <1>15, <1>16, <1>17, <1>18 DEF Works
  <1> QED
    BY <1>1, <1>19 DEF SyncTypeOK, JobTyped, At

\* Every step keeps the types.
LEMMA NextTyped == SyncTypeOK /\ [NextSync]_syncvars => SyncTypeOK'
  <1> SUFFICES ASSUME SyncTypeOK, [NextSync]_syncvars PROVE SyncTypeOK'
    OBVIOUS
  <1>1. ASSUME NEW r \in Records, CommitRecord(r) PROVE SyncTypeOK'
    BY <1>1 DEF CommitRecord, SyncTypeOK, At, external
  <1>2. ASSUME NEW r \in Records, Enqueue(r) PROVE SyncTypeOK'
    <2>1. [rec |-> r, tries |-> 0] \in Messages
      BY BoundAssumption DEF Messages
    <2> QED
      BY <1>2, <2>1 DEF Enqueue, SyncTypeOK, At, external
  <1>3. ASSUME NEW r \in Records, EnqueueLost(r) PROVE SyncTypeOK'
    BY <1>3 DEF EnqueueLost, Fault, SyncTypeOK, At, external
  <1>4. ASSUME NEW f \in Files, Reconnect(f) PROVE SyncTypeOK'
    <2>1. conn' \in [tok : Pairs, file : Files] /\ conn'.tok.file \in Files
      BY <1>4 DEF Reconnect, SyncTypeOK, Pairs
    <2> QED
      BY <1>4, <2>1 DEF Reconnect, SyncTypeOK, At, external
  <1>5. ASSUME NEW f \in Files, AccessTokenExpires(f) PROVE SyncTypeOK'
    <2>1. grant' \in [Files -> [n : Nat, expired : BOOLEAN]]
      BY <1>5 DEF AccessTokenExpires, SyncTypeOK
    <2> QED
      BY <1>5, <2>1 DEF AccessTokenExpires, SyncTypeOK, At, db
  <1>6. ASSUME NEW w \in Workers, Redelivered(w) PROVE SyncTypeOK'
    <2>1. job[w].rec \in Records /\ job[w].tries \in 0 .. MaxRetries
      BY <1>6, JobsAreTyped DEF Redelivered, At, JobTyped
    <2>2. [rec |-> job[w].rec, tries |-> job[w].tries] \in Messages
      BY <2>1 DEF Messages
    <2> QED
      BY <1>6, <2>2 DEF Redelivered, Fault, SyncTypeOK, At, db, external
  <1>7. CASE UNCHANGED syncvars
    BY <1>7 DEF SyncTypeOK, At, syncvars, db, external
  <1> QED
    BY <1>1, <1>2, <1>3, <1>4, <1>5, <1>6, <1>7, WorkersTyped DEF NextSync

\* The tables, the queue, the workers and the books keep their types.
THEOREM SyncTyped == SyncSpec => []SyncTypeOK
  BY InitTyped, NextTyped, PTL DEF SyncSpec

-----------------------------------------------------------------------------
(* The inductive invariant.                                                *)

\* Unless a message was delivered twice, a record is in one hand: not yet enqueued, in one
\* message, or with one worker.
OneHolder ==
    "redelivered" \notin crossed =>
        /\ \A v, w \in Workers : v # w /\ Busy(v) /\ Busy(w) => job[v].rec # job[w].rec
        /\ \A w \in Workers : Busy(w) => \A m \in queue : m.rec # job[w].rec
        /\ \A m, n \in queue : m.rec = n.rec => m = n
        /\ \A r \in Records : row[r] \in {"none", "committed"} =>
              /\ \A m \in queue : m.rec # r
              /\ \A w \in Workers : Busy(w) => job[w].rec # r

\* What the FreshBooks client did not find is still not there when it creates it.
StillUntagged ==
    "redelivered" \notin crossed =>
        \A w \in Workers : At(w, "push") => AlreadyPosted(job[w].file, job[w].rec) = {}

\* The id a push has returned is that of its record.
PushedIsThere ==
    \A w \in Workers : At(w, "pushed") => job[w].id \in AlreadyPosted(job[w].file, job[w].rec)

\* n is where a payment's invoice has been posted; other records refer to none.
Applied(r, n, posted) == IsPayment(r) => n \in DOMAIN posted /\ posted[n].rec = InvoiceOf[r]

\* Without a reconnection all workers post to the connected file, and payments to their invoices.
OneFile ==
    "reconnected" \notin crossed =>
        /\ \A w \in Workers : Busy(w) => job[w].file = conn.file
        /\ \A w \in Workers : job[w].pc \notin {"idle", "loaded"} =>
              Applied(job[w].rec, job[w].inv, books[conn.file])
        /\ \A i \in DOMAIN books[conn.file] :
              Applied(books[conn.file][i].rec, books[conn.file][i].inv, books[conn.file])
        /\ SyncedIsPosted

\* Unless a new pair was lost or another file connected, only the worker that has spent the refresh
\* token and not yet saved the next one holds the latest pair; everybody else's is older.
PairsInOrder ==
    crossed \cap {"crashed", "reconnected"} = {} =>
        /\ conn.tok.file = conn.file /\ conn.tok.n <= grant[conn.file].n
        /\ \A w \in Workers : Busy(w) =>
              job[w].tok.file = conn.file /\ job[w].tok.n <= grant[conn.file].n
        /\ \A w \in Workers : At(w, "persist") =>
              /\ job[w].tok.n = grant[conn.file].n /\ conn.tok.n < grant[conn.file].n
              /\ \A v \in Workers \ {w} : Busy(v) => job[v].tok.n < grant[conn.file].n
        /\ ConnectionAlive

AInv == SyncTypeOK /\ OneHolder /\ StillUntagged /\ PushedIsThere /\ PostedOnce /\ OneFile /\ PairsInOrder

-----------------------------------------------------------------------------
(* What one step of a worker does.                                         *)

WorkerStep(w) == Works(w) \/ WorkerCrashes(w) \/ ProviderFails(w)

\* The request's rows, the client and the connected file stay as they are.
LEMMA WorkersLeave ==
    ASSUME SyncTypeOK, NEW w \in Workers, WorkerStep(w)
    PROVE  row' = row /\ provider' = provider /\ conn'.file = conn.file /\ crossed \subseteq crossed'
  <1> USE DEF db, external
  <1>1. CASE Start(w)
    BY <1>1 DEF Start
  <1>2. CASE Prepare(w)
    BY <1>2 DEF Prepare, Fail
  <1>3. CASE Search(w)
    BY <1>3 DEF Search, Fail
  <1>4. CASE Make(w)
    BY <1>4 DEF Make, Fail
  <1>5. CASE Remember(w)
    BY <1>5 DEF Remember
  <1>6. CASE Find(w)
    BY <1>6 DEF Find, Rejected, Fail
  <1>7. CASE Push(w)
    BY <1>7 DEF Push, Rejected, Fail
  <1>8. CASE Refresh(w)
    BY <1>8 DEF Refresh, Fail
  <1>9. CASE Persist(w)
    BY <1>9 DEF Persist, SyncTypeOK
  <1>10. CASE Succeed(w)
    BY <1>10 DEF Succeed
  <1>11. CASE WorkerCrashes(w)
    BY <1>11 DEF WorkerCrashes, Fault
  <1>12. CASE ProviderFails(w)
    BY <1>12 DEF ProviderFails, Fault, Fail
  <1> QED
    BY <1>1, <1>2, <1>3, <1>4, <1>5, <1>6, <1>7, <1>8, <1>9, <1>10, <1>11, <1>12 DEF WorkerStep, Works

\* The post of a worker.
Post(w) == [rec |-> job[w].rec, ent |-> job[w].ent, inv |-> job[w].inv]

Posting(w) ==
    /\ job[w].pc \in {"push", "find"}
    /\ At(w, "push") \/ provider = "quickbooks"
    /\ provider = "quickbooks" => AlreadyPosted(job[w].file, job[w].rec) = {}
    /\ books' = [books EXCEPT ![job[w].file] = Append(@, Post(w))]
    /\ Go(w, [job[w] EXCEPT !.pc = "pushed", !.id = Len(books[job[w].file]) + 1])

\* Only a push writes to the provider's books.
LEMMA BooksStep ==
    ASSUME SyncTypeOK, NEW w \in Workers, WorkerStep(w)
    PROVE  books' = books \/ Posting(w)
  <1> USE DEF db, external
  <1>1. CASE Push(w)
    <2>1. CASE ~Accepts(job[w].tok, job[w].file)
      BY <1>1, <2>1 DEF Push
    <2>2. CASE Accepts(job[w].tok, job[w].file) /\ provider = "quickbooks"
               /\ AlreadyPosted(job[w].file, job[w].rec) # {}
      BY <1>1, <2>2 DEF Push
    <2>3. CASE Accepts(job[w].tok, job[w].file)
               /\ (provider = "quickbooks" => AlreadyPosted(job[w].file, job[w].rec) = {})
      BY Zenon, <1>1, <2>3 DEF Push, Posting, Post, At
    <2> QED
      BY <2>1, <2>2, <2>3
  <1>2. CASE ~Push(w)
    BY Zenon, <1>2 DEF WorkerStep, Works, Start, Prepare, Search, Make, Remember, Find, Refresh, Persist,
                Succeed, WorkerCrashes, ProviderFails
  <1> QED
    BY <1>1, <1>2

\* The job a step leaves.
LEMMA Went ==
    ASSUME SyncTypeOK, NEW w \in Workers, NEW j, Go(w, j)
    PROVE  job'[w] = j /\ \A v \in Workers \ {w} : job'[v] = job[v]
  BY DEF SyncTypeOK, Go

\* A failure leaves the worker idle, and a record whose row does not say it has synced.
LEMMA Failed ==
    ASSUME SyncTypeOK, NEW w \in Workers, Fail(w)
    PROVE  /\ At(w, "idle")' /\ conn' = conn
           /\ \A r \in Records : sync'[r] = sync[r] \/ sync'[r].status = "failed"
  BY Went, Constants DEF Fail, Recorded, At, SyncTypeOK

\* Of the steps of a worker, the part that decides what may be posted and what has been.
Foreseen(w) ==
    LET j == job'[w] IN
    /\ j.pc = "push" => books' = books /\ AlreadyPosted(j.file, j.rec) = {}
    /\ j.pc = "pushed" => j.id \in DOMAIN books'[j.file] /\ books'[j.file][j.id].rec = j.rec
    /\ j.pc \notin {"idle", "loaded"} =>
          \/ job[w].pc \notin {"idle", "loaded"} /\ j.rec = job[w].rec /\ j.inv = job[w].inv
          \/ IsPayment(j.rec) =>
                sync[InvoiceOf[j.rec]].status = "success" /\ j.inv = sync[InvoiceOf[j.rec]].id
    /\ j.pc \notin {"idle", "persist"} => j.tok = IF At(w, "idle") THEN conn.tok ELSE job[w].tok
    /\ j.pc = "persist" =>
          /\ At(w, "refresh") /\ conn' = conn
          /\ job[w].tok.n = grant[job[w].tok.file].n
          /\ j.tok = [job[w].tok EXCEPT !.n = @ + 1]
          /\ grant' = [grant EXCEPT ![job[w].tok.file] = [n |-> j.tok.n, expired |-> FALSE]]

LEMMA Foresight ==
    ASSUME SyncTypeOK, NEW w \in Workers, WorkerStep(w)
    PROVE  Foreseen(w)
  <1>0. job[w] \in Jobs /\ job[w].tok \in Pairs
    BY JobsAreTyped DEF JobTyped
  <1>1. ASSUME At(w, "idle")' PROVE Foreseen(w)
    BY <1>1 DEF At, Foreseen
  <1>2. ASSUME Fail(w) PROVE Foreseen(w)
    BY <1>1, <1>2, Failed
  <1>3. ASSUME Go(w, NoJob) PROVE Foreseen(w)
    BY <1>1, <1>3, Went, Constants DEF At
  <1>4. CASE Start(w)
    <2>1. job'[w].pc = "loaded" /\ job'[w].tok = conn.tok
      <3> PICK m \in queue : Go(w, [NoJob EXCEPT !.pc = "loaded", !.rec = m.rec, !.tries = m.tries,
                                                 !.tok = conn.tok, !.file = conn.file])
        BY Zenon, <1>4 DEF Start
      <3> DEFINE j == [NoJob EXCEPT !.pc = "loaded", !.rec = m.rec, !.tries = m.tries,
                                    !.tok = conn.tok, !.file = conn.file]
      <3>1. j.pc = "loaded" /\ j.tok = conn.tok
        BY DEF NoJob
      <3> HIDE DEF j
      <3>2. Go(w, j)
        BY DEF j
      <3> QED
        BY <3>1, <3>2, Went
    <2> QED
      BY <1>4, <2>1 DEF Foreseen, Start
  <1>5. CASE Prepare(w)
    <2>1. CASE Fail(w)
      BY <1>2, <2>1
    <2>2. CASE ~Fail(w)
      <3> DEFINE known == mapLock[NameOf[job[w].rec]] \in {w, NoWorker} /\ mapping[NameOf[job[w].rec]] # 0
                 p == IF NeedsName(job[w].rec) /\ ~known THEN "search" ELSE "find"
                 n == IF NeedsName(job[w].rec) /\ known THEN mapping[NameOf[job[w].rec]] ELSE 0
                 i == IF IsPayment(job[w].rec) THEN sync[InvoiceOf[job[w].rec]].id ELSE 0
      <3>4. Go(w, [job[w] EXCEPT !.inv = i, !.ent = n, !.pc = p])
        BY <1>5, <2>2 DEF Prepare
      <3>5. p \in {"search", "find"}
        OBVIOUS
      <3>6. IsPayment(job[w].rec) => i = sync[InvoiceOf[job[w].rec]].id
        OBVIOUS
      <3> HIDE DEF p, n, i
      <3>1. job'[w] = [job[w] EXCEPT !.inv = i, !.ent = n, !.pc = p]
        BY <3>4, Went
      <3>2. job'[w].inv = i /\ job'[w].pc = p /\ job'[w].rec = job[w].rec /\ job'[w].tok = job[w].tok
        BY <1>0, <3>1 DEF Jobs
      <3>3. IsPayment(job[w].rec) => ExternalInvoice(job[w].rec)
        BY <1>5, <2>2 DEF Prepare
      <3> QED
        BY <1>5, <3>2, <3>3, <3>5, <3>6 DEF Foreseen, ExternalInvoice, Prepare, At
    <2> QED
      BY <2>1, <2>2
  <1>6. ASSUME job[w].pc \notin {"idle", "loaded"},
               NEW n, NEW p \in {"make", "remember", "find"},
               Go(w, [job[w] EXCEPT !.pc = p]) \/ Go(w, [job[w] EXCEPT !.pc = p, !.ent = n])
               \/ Go(w, [job[w] EXCEPT !.pc = p, !.again = TRUE])
        PROVE  Foreseen(w)
    <2>1. \/ job'[w] = [job[w] EXCEPT !.pc = p] \/ job'[w] = [job[w] EXCEPT !.pc = p, !.ent = n]
          \/ job'[w] = [job[w] EXCEPT !.pc = p, !.again = TRUE]
      BY <1>6, Went
    <2>2. /\ job'[w].pc = p /\ job'[w].rec = job[w].rec /\ job'[w].inv = job[w].inv
          /\ job'[w].tok = job[w].tok
      BY <1>0, <2>1 DEF Jobs
    <2> QED
      BY <1>6, <2>2 DEF Foreseen, At
  <1>7. CASE Search(w)
    <2>1. job[w].pc \notin {"idle", "loaded"}
      BY <1>7 DEF Search, At
    <2>2. \/ Fail(w) \/ Go(w, [job[w] EXCEPT !.pc = "make"])
          \/ \E n : Go(w, [job[w] EXCEPT !.pc = "remember", !.ent = n])
      BY Zenon, <1>7 DEF Search
    <2> QED
      BY Zenon, <1>2, <1>6, <2>1, <2>2
  <1>8. CASE Make(w)
    <2>1. job[w].pc \notin {"idle", "loaded"}
      BY <1>8 DEF Make, At
    <2>2. Fail(w) \/ \E n : Go(w, [job[w] EXCEPT !.pc = "remember", !.ent = n])
      BY Zenon, <1>8 DEF Make
    <2> QED
      BY Zenon, <1>2, <1>6, <2>1, <2>2
  <1>9. CASE Remember(w)
    <2>1. job[w].pc \notin {"idle", "loaded"}
      BY <1>9 DEF Remember, At
    <2>2. Go(w, NoJob) \/ Go(w, [job[w] EXCEPT !.pc = "find"])
      BY <1>9 DEF Remember, Step
    <2> QED
      BY Zenon, <1>3, <1>6, <2>1, <2>2
  <1>10. CASE Find(w)
    <2>1. At(w, "find") /\ books' = books
      BY <1>10 DEF Find, external
    <2>2. \/ Fail(w) \/ Go(w, [job[w] EXCEPT !.pc = "refresh"])
          \/ /\ Go(w, [job[w] EXCEPT !.pc = "push"])
             /\ AlreadyPosted(job[w].file, job[w].rec) = {}
          \/ \E i \in AlreadyPosted(job[w].file, job[w].rec) :
                Go(w, [job[w] EXCEPT !.pc = "pushed", !.id = i])
      BY Zenon, <1>10 DEF Find, Rejected, Step
    <2>3. CASE Fail(w)
      BY <1>2, <2>3
    <2>4. CASE Go(w, [job[w] EXCEPT !.pc = "refresh"])
      <3>1. job'[w] = [job[w] EXCEPT !.pc = "refresh"]
        BY <2>4, Went
      <3>2. /\ job'[w].pc = "refresh" /\ job'[w].rec = job[w].rec /\ job'[w].inv = job[w].inv
            /\ job'[w].tok = job[w].tok
        BY <1>0, <3>1 DEF Jobs
      <3> QED
        BY <2>1, <3>2 DEF Foreseen, At
    <2>5. CASE /\ Go(w, [job[w] EXCEPT !.pc = "push"])
               /\ AlreadyPosted(job[w].file, job[w].rec) = {}
      <3>1. job'[w] = [job[w] EXCEPT !.pc = "push"]
        BY <2>5, Went
      <3>2. /\ job'[w].pc = "push" /\ job'[w].rec = job[w].rec /\ job'[w].inv = job[w].inv
            /\ job'[w].tok = job[w].tok /\ job'[w].file = job[w].file
        BY <1>0, <3>1 DEF Jobs
      <3> QED
        BY <2>1, <2>5, <3>2 DEF Foreseen, At
    <2>6. ASSUME NEW i \in AlreadyPosted(job[w].file, job[w].rec),
                 Go(w, [job[w] EXCEPT !.pc = "pushed", !.id = i])
          PROVE  Foreseen(w)
      <3>1. job'[w] = [job[w] EXCEPT !.pc = "pushed", !.id = i]
        BY <2>6, Went
      <3>2. /\ job'[w].pc = "pushed" /\ job'[w].rec = job[w].rec /\ job'[w].inv = job[w].inv
            /\ job'[w].tok = job[w].tok /\ job'[w].file = job[w].file /\ job'[w].id = i
        BY <1>0, <3>1 DEF Jobs
      <3>3. i \in DOMAIN books'[job[w].file] /\ books'[job[w].file][i].rec = job[w].rec
        BY <2>1, <2>6, <3>2 DEF AlreadyPosted
      <3> QED
        BY <2>1, <3>2, <3>3 DEF Foreseen, At
    <2> QED
      BY Zenon, <2>2, <2>3, <2>4, <2>5, <2>6
  <1>11. CASE Push(w)
    <2>1. job[w].pc \in {"find", "push"}
      BY <1>11 DEF Push, At
    <2>2. \/ Fail(w) \/ Go(w, [job[w] EXCEPT !.pc = "refresh"])
          \/ books' = books /\ \E i \in AlreadyPosted(job[w].file, job[w].rec) :
                Go(w, [job[w] EXCEPT !.pc = "pushed", !.id = i])
          \/ Posting(w)
      <3>1. CASE ~Accepts(job[w].tok, job[w].file)
        BY Zenon, <1>11, <3>1 DEF Push, Rejected, Step
      <3>2. CASE Accepts(job[w].tok, job[w].file) /\ provider = "quickbooks"
                 /\ AlreadyPosted(job[w].file, job[w].rec) # {}
        BY Zenon, <1>11, <3>2 DEF Push
      <3>3. CASE Accepts(job[w].tok, job[w].file)
                 /\ (provider = "quickbooks" => AlreadyPosted(job[w].file, job[w].rec) = {})
        BY Zenon, <1>11, <3>3 DEF Push, Posting, Post, At
      <3> QED
        BY Zenon, <3>1, <3>2, <3>3
    <2>3. CASE Fail(w)
      BY <1>2, <2>3
    <2>4. CASE Go(w, [job[w] EXCEPT !.pc = "refresh"])
      <3>1. job'[w] = [job[w] EXCEPT !.pc = "refresh"]
        BY <2>4, Went
      <3>2. /\ job'[w].pc = "refresh" /\ job'[w].rec = job[w].rec /\ job'[w].inv = job[w].inv
            /\ job'[w].tok = job[w].tok
        BY <1>0, <3>1 DEF Jobs
      <3> QED
        BY <2>1, <3>2 DEF Foreseen, At
    <2>5. ASSUME NEW i \in AlreadyPosted(job[w].file, job[w].rec), books' = books,
                 Go(w, [job[w] EXCEPT !.pc = "pushed", !.id = i])
          PROVE  Foreseen(w)
      <3>1. job'[w] = [job[w] EXCEPT !.pc = "pushed", !.id = i]
        BY <2>5, Went
      <3>2. /\ job'[w].pc = "pushed" /\ job'[w].rec = job[w].rec /\ job'[w].inv = job[w].inv
            /\ job'[w].tok = job[w].tok /\ job'[w].file = job[w].file /\ job'[w].id = i
        BY <1>0, <3>1 DEF Jobs
      <3>3. i \in DOMAIN books'[job[w].file] /\ books'[job[w].file][i].rec = job[w].rec
        BY <2>5, <3>2 DEF AlreadyPosted
      <3> QED
        BY <2>1, <3>2, <3>3 DEF Foreseen, At
    <2>6. CASE Posting(w)
      <3> DEFINE n == Len(books[job[w].file]) + 1
      <3>1. job'[w] = [job[w] EXCEPT !.pc = "pushed", !.id = n]
        BY <2>6, Went DEF Posting
      <3>2. /\ job'[w].pc = "pushed" /\ job'[w].rec = job[w].rec /\ job'[w].inv = job[w].inv
            /\ job'[w].tok = job[w].tok /\ job'[w].file = job[w].file /\ job'[w].id = n
        BY <1>0, <3>1 DEF Jobs
      <3>3. n \in DOMAIN books'[job[w].file] /\ books'[job[w].file][n] = Post(w)
        <4>1. Busy(w) /\ job[w].file \in Files
          BY <2>1, JobsAreTyped DEF Busy, At, JobTyped
        <4>2. books \in [Files -> Seq(Posts)] /\ Post(w) \in Posts
          BY <4>1, JobsAreTyped DEF SyncTypeOK, Post, Posts, Busy, At, JobTyped
        <4>3. books' = [books EXCEPT ![job[w].file] = Append(@, Post(w))]
          BY <2>6 DEF Posting
        <4>4. books'[job[w].file] = Append(books[job[w].file], Post(w))
          BY <4>1, <4>2, <4>3
        <4>5. books[job[w].file] \in Seq(Posts)
          BY <4>1, <4>2
        <4> QED
          BY <4>2, <4>4, <4>5
      <3>4. n \in DOMAIN books'[job[w].file] /\ books'[job[w].file][n].rec = job[w].rec
        BY <3>3 DEF Post
      <3> QED
        BY <2>1, <3>2, <3>4 DEF Foreseen, At
    <2> QED
      BY Zenon, <2>2, <2>3, <2>4, <2>5, <2>6
  <1>12. CASE Refresh(w)
    <2>1. CASE job[w].tok.n # grant[job[w].tok.file].n
      BY <1>2, <1>12, <2>1 DEF Refresh
    <2>2. CASE job[w].tok.n = grant[job[w].tok.file].n
      <3> DEFINE n == grant[job[w].tok.file].n + 1
      <3>1. /\ job'[w] = [job[w] EXCEPT !.pc = "persist", !.tok.n = n]
            /\ grant' = [grant EXCEPT ![job[w].tok.file] = [n |-> n, expired |-> FALSE]]
            /\ conn' = conn /\ At(w, "refresh")
        BY <1>12, <2>2, Went DEF Refresh, db
      <3>2. /\ job'[w].pc = "persist" /\ job'[w].rec = job[w].rec /\ job'[w].inv = job[w].inv
            /\ job'[w].tok = [job[w].tok EXCEPT !.n = n]
        BY <1>0, <3>1 DEF Jobs
      <3>3. job'[w].tok.n = n
        BY <1>0, <3>2 DEF Pairs
      <3>4. job'[w].tok = [job[w].tok EXCEPT !.n = @ + 1]
        BY <2>2, <3>2
      <3> QED
        BY <2>2, <3>1, <3>2, <3>3, <3>4 DEF Foreseen, At
    <2> QED
      BY <2>1, <2>2
  <1>13. CASE Persist(w)
    BY Zenon, <1>6, <1>13 DEF Persist, At
  <1>14. CASE Succeed(w)
    BY <1>3, <1>14 DEF Succeed
  <1>15. CASE WorkerCrashes(w)
    BY <1>3, <1>15 DEF WorkerCrashes
  <1>16. CASE ProviderFails(w)
    BY <1>2, <1>16 DEF ProviderFails
  <1> QED
    BY <1>4, <1>5, <1>7, <1>8, <1>9, <1>10, <1>11, <1>12, <1>13, <1>14, <1>15, <1>16
    DEF WorkerStep, Works

-----------------------------------------------------------------------------
(* The invariant is inductive.                                             *)

\* Everything else leaves the workers, the rows of the sync and the books alone.
LEMMA OtherSteps ==
    ASSUME SyncTypeOK, [NextSync]_syncvars, \A w \in Workers : ~WorkerStep(w)
    PROVE  /\ job' = job /\ sync' = sync /\ books' = books /\ provider' = provider
           /\ crossed \subseteq crossed'
           /\ \A f \in Files : grant'[f].n = grant[f].n
           /\ conn' = conn \/ "reconnected" \in crossed'
  <1> USE DEF db, external
  <1>1. ASSUME NEW r \in Records, CommitRecord(r) \/ Enqueue(r) \/ EnqueueLost(r)
        PROVE  /\ job' = job /\ sync' = sync /\ books' = books /\ provider' = provider
               /\ crossed \subseteq crossed' /\ grant' = grant /\ conn' = conn
    BY <1>1 DEF CommitRecord, Enqueue, EnqueueLost, Fault
  <1>2. ASSUME NEW f \in Files, Reconnect(f)
        PROVE  /\ job' = job /\ sync' = sync /\ books' = books /\ provider' = provider
               /\ crossed \subseteq crossed' /\ grant' = grant /\ "reconnected" \in crossed'
    BY <1>2 DEF Reconnect
  <1>3. ASSUME NEW f \in Files, AccessTokenExpires(f)
        PROVE  /\ job' = job /\ sync' = sync /\ books' = books /\ provider' = provider
               /\ crossed \subseteq crossed' /\ conn' = conn
               /\ \A g \in Files : grant'[g].n = grant[g].n
    BY <1>3 DEF AccessTokenExpires, SyncTypeOK
  <1>4. ASSUME NEW w \in Workers, Redelivered(w)
        PROVE  /\ job' = job /\ sync' = sync /\ books' = books /\ provider' = provider
               /\ crossed \subseteq crossed' /\ grant' = grant /\ conn' = conn
    BY <1>4 DEF Redelivered, Fault
  <1>5. CASE UNCHANGED syncvars
    BY <1>5 DEF syncvars
  <1> QED
    BY <1>1, <1>2, <1>3, <1>4, <1>5 DEF NextSync, WorkerStep

\* Every step hands a record on whole, unless its message is delivered twice.
LEMMA HolderNext ==
    ASSUME SyncTypeOK, OneHolder, [NextSync]_syncvars
    PROVE  OneHolder'
  <1> SUFFICES ASSUME "redelivered" \notin crossed' PROVE OneHolder'
    BY DEF OneHolder
  <1> USE DEF Busy, At
  <1>1. ASSUME NEW w \in Workers, WorkerStep(w) PROVE OneHolder'
    <2>1. row' = row /\ "redelivered" \notin crossed
      BY <1>1, WorkersLeave
    <2>2. /\ Takes(w) \/ Goes(w) \/ EndsJob(w)
          /\ \A v \in Workers : v # w => job'[v] = job[v]
      BY <1>1, WorkerMoves, MovesTyped DEF WorkerStep
    <2>3. CASE Takes(w)
      <3> PICK m \in queue :
            /\ queue' = queue \ {m}
            /\ Go(w, [NoJob EXCEPT !.pc = "loaded", !.rec = m.rec, !.tries = m.tries,
                                   !.tok = conn.tok, !.file = conn.file])
        BY Zenon, <2>3 DEF Takes
      <3> DEFINE j == [NoJob EXCEPT !.pc = "loaded", !.rec = m.rec, !.tries = m.tries,
                                    !.tok = conn.tok, !.file = conn.file]
      <3>1. j.rec = m.rec
        BY DEF NoJob
      <3> HIDE DEF j
      <3>2. job'[w].rec = m.rec
        BY <3>1, Went DEF j
      <3> QED
        BY <2>1, <2>2, <3>2 DEF OneHolder
    <2>4. CASE Goes(w)
      <3>1. queue' = queue /\ job[w].pc # "idle" /\ job'[w].rec = job[w].rec
        BY <2>4, Went DEF Goes
      <3> QED
        BY <2>1, <2>2, <3>1 DEF OneHolder
    <2>5. CASE EndsJob(w)
      <3> PICK m \in Messages : m.rec = job[w].rec /\ queue' \subseteq queue \cup {m}
        BY <2>5 DEF EndsJob
      <3>1. job[w].pc # "idle" /\ job'[w].pc = "idle"
        BY <2>5, Went, Constants DEF EndsJob
      <3> QED
        BY <2>1, <2>2, <3>1 DEF OneHolder
    <2> QED
      BY <2>2, <2>3, <2>4, <2>5
  <1>2. ASSUME \A w \in Workers : ~WorkerStep(w) PROVE OneHolder'
    <2>1. job' = job /\ "redelivered" \notin crossed
      BY <1>2, OtherSteps
    <2>2. ASSUME NEW r \in Records, CommitRecord(r) PROVE OneHolder'
      <3>1. row' = [row EXCEPT ![r] = "committed"] /\ row[r] = "none" /\ queue' = queue
        BY <2>2 DEF CommitRecord
      <3> QED
        BY <2>1, <3>1 DEF OneHolder, SyncTypeOK
    <2>3. ASSUME NEW r \in Records, Enqueue(r) PROVE OneHolder'
      <3> DEFINE m == [rec |-> r, tries |-> 0]
      <3>1. /\ row' = [row EXCEPT ![r] = "enqueued"] /\ row[r] = "committed"
            /\ queue' = queue \cup {m} /\ m.rec = r
        BY <2>3 DEF Enqueue
      <3> HIDE DEF m
      <3> QED
        BY <2>1, <3>1 DEF OneHolder, SyncTypeOK
    <2>4. ASSUME NEW r \in Records, EnqueueLost(r) PROVE OneHolder'
      <3>1. row' = [row EXCEPT ![r] = "lost"] /\ queue' = queue
        BY <2>4 DEF EnqueueLost
      <3> QED
        BY <2>1, <3>1 DEF OneHolder, SyncTypeOK
    <2>5. ASSUME row' = row, queue' = queue PROVE OneHolder'
      BY <2>1, <2>5 DEF OneHolder
    <2>6. ASSUME NEW f \in Files, Reconnect(f) \/ AccessTokenExpires(f) PROVE OneHolder'
      BY <2>5, <2>6 DEF Reconnect, AccessTokenExpires, db
    <2>7. ASSUME NEW w \in Workers, Redelivered(w) PROVE FALSE
      BY <2>7 DEF Redelivered
    <2>8. CASE UNCHANGED syncvars
      BY <2>5, <2>8 DEF syncvars, db
    <2> QED
      BY <1>2, <2>2, <2>3, <2>4, <2>6, <2>7, <2>8 DEF NextSync, WorkerStep
  <1> QED
    BY <1>1, <1>2

\* The books only grow, by the post of the worker that pushes.
LEMMA BooksGrow ==
    ASSUME SyncTypeOK, NEW w \in Workers, WorkerStep(w), NEW f \in Files
    PROVE  /\ \A i \in DOMAIN books[f] : i \in DOMAIN books'[f] /\ books'[f][i] = books[f][i]
           /\ \A i \in DOMAIN books'[f] :
                 \/ i \in DOMAIN books[f]
                 \/ /\ Posting(w) /\ f = job[w].file
                    /\ i = Len(books[f]) + 1 /\ books'[f][i] = Post(w)
  <1>1. CASE books' = books
    BY <1>1
  <1>2. CASE Posting(w)
    <2>1. Busy(w) /\ job[w].file \in Files
      BY <1>2, JobsAreTyped DEF Posting, Busy, At, JobTyped
    <2>2. Post(w) \in Posts
      BY <2>1, JobsAreTyped DEF Post, Posts, Busy, At, JobTyped
    <2>3. books \in [Files -> Seq(Posts)] /\ books[f] \in Seq(Posts)
      BY DEF SyncTypeOK
    <2>4. books' = [books EXCEPT ![job[w].file] = Append(@, Post(w))]
      BY <1>2 DEF Posting
    <2>5. CASE f = job[w].file
      <3>1. books'[f] = Append(books[f], Post(w))
        BY <2>3, <2>4, <2>5
      <3> QED
        BY <1>2, <2>2, <2>3, <2>5, <3>1
    <2>6. CASE f # job[w].file
      <3>1. books'[f] = books[f]
        BY <2>3, <2>4, <2>6
      <3> QED
        BY <3>1
    <2> QED
      BY <2>5, <2>6
  <1> QED
    BY <1>1, <1>2, BooksStep

\* A record is posted once, however often its worker dies, fails or loses an answer.
LEMMA PostedNext ==
    ASSUME SyncTypeOK, SyncTypeOK', OneHolder, StillUntagged, PushedIsThere, PostedOnce, [NextSync]_syncvars
    PROVE  StillUntagged' /\ PushedIsThere' /\ PostedOnce'
  <1>1. ASSUME NEW w \in Workers, WorkerStep(w)
        PROVE  StillUntagged' /\ PushedIsThere' /\ PostedOnce'
    <2>1. /\ \A v \in Workers : v # w => job'[v] = job[v]
          /\ provider' = provider /\ crossed \subseteq crossed'
      BY <1>1, WorkerMoves, MovesTyped, WorkersLeave DEF WorkerStep
    <2>2. Foreseen(w)
      BY <1>1, Foresight
    <2>3. \A v \in Workers : job[v].pc # "idle" => job[v].file \in Files
      BY JobsAreTyped DEF JobTyped
    <2>4. \A f \in Files :
             /\ \A i \in DOMAIN books[f] : i \in DOMAIN books'[f] /\ books'[f][i] = books[f][i]
             /\ \A i \in DOMAIN books'[f] :
                   \/ i \in DOMAIN books[f]
                   \/ /\ Posting(w) /\ f = job[w].file
                      /\ i = Len(books[f]) + 1 /\ books'[f][i].rec = job[w].rec
      <3>1. Post(w).rec = job[w].rec
        BY DEF Post
      <3> QED
        BY <1>1, <3>1, BooksGrow
    <2>5. StillUntagged'
      <3> SUFFICES ASSUME "redelivered" \notin crossed', NEW v \in Workers, At(v, "push")'
                   PROVE  AlreadyPosted(job[v].file, job[v].rec)' = {}
        BY DEF StillUntagged
      <3>1. CASE v = w
        <4>1. books' = books /\ AlreadyPosted(job'[v].file, job'[v].rec) = {}
          BY <2>2, <3>1 DEF Foreseen, At
        <4> QED
          BY <4>1 DEF AlreadyPosted
      <3>2. CASE v # w
        <4>1. job'[v] = job[v] /\ At(v, "push") /\ Busy(v)
          BY <2>1, <3>2 DEF At, Busy
        <4>2. AlreadyPosted(job[v].file, job[v].rec) = {} /\ job[v].file \in Files
          BY <2>1, <2>3, <4>1 DEF StillUntagged, At
        <4>3. Posting(w) => job[w].rec # job[v].rec
          BY <2>1, <3>2, <4>1 DEF OneHolder, Posting, Busy, At
        <4> QED
          BY <2>4, <4>1, <4>2, <4>3 DEF AlreadyPosted
      <3> QED
        BY <3>1, <3>2
    <2>6. PushedIsThere'
      <3> SUFFICES ASSUME NEW v \in Workers, At(v, "pushed")'
                   PROVE  job'[v].id \in DOMAIN books'[job'[v].file]
                          /\ books'[job'[v].file][job'[v].id].rec = job'[v].rec
        BY DEF PushedIsThere, AlreadyPosted
      <3>1. CASE v = w
        BY <2>2, <3>1 DEF Foreseen, At
      <3>2. CASE v # w
        <4>1. job'[v] = job[v] /\ At(v, "pushed")
          BY <2>1, <3>2 DEF At
        <4>2. job[v].file \in Files
          BY <2>3, <4>1 DEF At
        <4> QED
          BY <2>4, <4>1, <4>2 DEF PushedIsThere, AlreadyPosted
      <3> QED
        BY <3>1, <3>2
    <2>7. PostedOnce'
      <3> SUFFICES ASSUME NEW f \in Files, NEW i \in DOMAIN books'[f], NEW k \in DOMAIN books'[f],
                          i # k, books'[f][i].rec = books'[f][k].rec
                   PROVE  provider' = "freshbooks" /\ "redelivered" \in crossed'
        BY DEF PostedOnce, Twice
      <3>1. CASE i \in DOMAIN books[f] /\ k \in DOMAIN books[f]
        <4>1. Twice(f)
          BY <2>4, <3>1 DEF Twice
        <4> QED
          BY <2>1, <4>1 DEF PostedOnce
      <3>2. ASSUME NEW x \in DOMAIN books[f], NEW y \in DOMAIN books'[f], y \notin DOMAIN books[f],
                   books'[f][x].rec = books'[f][y].rec
            PROVE  provider' = "freshbooks" /\ "redelivered" \in crossed'
        <4>1. Posting(w) /\ f = job[w].file /\ books[f][x].rec = job[w].rec
          BY <2>4, <3>2
        <4>2. AlreadyPosted(job[w].file, job[w].rec) # {}
          BY <4>1 DEF AlreadyPosted
        <4>3. provider # "quickbooks" /\ At(w, "push")
          BY <4>1, <4>2 DEF Posting
        <4>4. provider \in {"quickbooks", "freshbooks"}
          BY ProviderAssumption DEF SyncTypeOK
        <4> QED
          BY <2>1, <4>2, <4>3, <4>4 DEF StillUntagged
      <3>3. i \in DOMAIN books[f] \/ k \in DOMAIN books[f]
        BY <2>4
      <3> QED
        BY <3>1, <3>2, <3>3
    <2> QED
      BY <2>5, <2>6, <2>7
  <1>2. ASSUME \A w \in Workers : ~WorkerStep(w)
        PROVE  StillUntagged' /\ PushedIsThere' /\ PostedOnce'
    <2>1. job' = job /\ books' = books /\ provider' = provider /\ crossed \subseteq crossed'
      BY <1>2, OtherSteps
    <2> QED
      BY <2>1 DEF StillUntagged, PushedIsThere, PostedOnce, AlreadyPosted, Twice, At
  <1> QED
    BY <1>1, <1>2

\* What a step does to the row of a record: only a worker that has pushed it marks it as synced.
LEMMA SyncStep ==
    ASSUME SyncTypeOK, NEW w \in Workers, WorkerStep(w), NEW r \in Records
    PROVE  \/ sync'[r] = sync[r] \/ sync'[r].status # "success"
           \/ /\ At(w, "pushed") /\ r = job[w].rec /\ sync'[r].id = job[w].id /\ books' = books
  <1> USE DEF db, external
  <1>1. ASSUME Fail(w) PROVE sync'[r] = sync[r] \/ sync'[r].status # "success"
    BY <1>1, Failed
  <1>2. CASE Succeed(w)
    BY <1>2 DEF Succeed, SyncTypeOK
  <1>3. CASE ~Succeed(w)
    <2>1. Fail(w) \/ sync' = sync
      BY Zenon, <1>3 DEF WorkerStep, Works, Start, Prepare, Search, Make, Remember, Find, Push, Rejected,
                  Refresh, Persist, WorkerCrashes, ProviderFails
    <2> QED
      BY <1>1, <2>1
  <1> QED
    BY <1>2, <1>3

\* As long as one file is connected, what is applied or marked as synced is in its books.
LEMMA OneFileNext ==
    ASSUME SyncTypeOK, PushedIsThere, OneFile, [NextSync]_syncvars
    PROVE  OneFile'
  <1> SUFFICES ASSUME "reconnected" \notin crossed' PROVE OneFile'
    BY DEF OneFile
  <1>1. ASSUME NEW w \in Workers, WorkerStep(w) PROVE OneFile'
    <2> DEFINE f == conn.file
               old == books[f]
               new == books'[f]
    <2>1. /\ conn'.file = f /\ f \in Files /\ "reconnected" \notin crossed
          /\ \A v \in Workers : v # w => job'[v] = job[v]
      BY <1>1, WorkersLeave, WorkerMoves, MovesTyped DEF WorkerStep, SyncTypeOK
    <2>2. Foreseen(w)
      BY <1>1, Foresight
    <2>3. /\ \A v \in Workers : Busy(v) => job[v].file = f
          /\ \A v \in Workers : job[v].pc \notin {"idle", "loaded"} => Applied(job[v].rec, job[v].inv, old)
          /\ \A i \in DOMAIN old : Applied(old[i].rec, old[i].inv, old)
          /\ SyncedIsPosted
      BY <2>1 DEF OneFile
    <2>4. /\ \A i \in DOMAIN old : i \in DOMAIN new /\ new[i] = old[i]
          /\ \A i \in DOMAIN new : i \in DOMAIN old \/ (Posting(w) /\ new[i] = Post(w))
      BY <1>1, <2>1, BooksGrow
    <2>5. \A r, n : Applied(r, n, old) => Applied(r, n, new)
      BY <2>4 DEF Applied
    <2>6. \A v \in Workers : Busy(v)' => job'[v].file = conn'.file
      <3>1. ASSUME Busy(w)' PROVE job'[w].file = f
        <4>1. CASE Takes(w)
          <5> PICK m \in queue : Go(w, [NoJob EXCEPT !.pc = "loaded", !.rec = m.rec, !.tries = m.tries,
                                                     !.tok = conn.tok, !.file = conn.file])
            BY Zenon, <4>1 DEF Takes
          <5> DEFINE j == [NoJob EXCEPT !.pc = "loaded", !.rec = m.rec, !.tries = m.tries,
                                        !.tok = conn.tok, !.file = conn.file]
          <5>1. j.file = f
            BY DEF NoJob
          <5> HIDE DEF j
          <5> QED
            BY <5>1, Went DEF j
        <4>2. CASE Goes(w)
          BY <2>3, <4>2, Went DEF Goes
        <4>3. CASE EndsJob(w)
          BY <3>1, <4>3, Went, Constants DEF EndsJob, Busy, At
        <4> QED
          BY <1>1, <4>1, <4>2, <4>3, WorkerMoves DEF WorkerStep
      <3> QED
        BY <2>1, <2>3, <3>1 DEF Busy, At
    <2>7. \A v \in Workers : job'[v].pc \notin {"idle", "loaded"} =>
             Applied(job'[v].rec, job'[v].inv, new)
      <3>1. ASSUME job'[w].pc \notin {"idle", "loaded"} PROVE Applied(job'[w].rec, job'[w].inv, old)
        <4>1. CASE job[w].pc \notin {"idle", "loaded"} /\ job'[w].rec = job[w].rec /\ job'[w].inv = job[w].inv
          BY <2>3, <4>1
        <4>2. CASE IsPayment(job'[w].rec) => /\ sync[InvoiceOf[job'[w].rec]].status = "success"
                                             /\ job'[w].inv = sync[InvoiceOf[job'[w].rec]].id
          <5>1. job'[w].rec \in Records
            BY <1>1, <3>1, WorkerMoves, MovesTyped DEF WorkerStep, JobTyped
          <5>2. ASSUME IsPayment(job'[w].rec)
                PROVE  job'[w].inv \in DOMAIN old /\ old[job'[w].inv].rec = InvoiceOf[job'[w].rec]
            <6>1. InvoiceOf[job'[w].rec] \in Records
              BY <5>1, <5>2, Constants
            <6> QED
              BY <2>1, <2>3, <4>2, <5>2, <6>1 DEF SyncedIsPosted
          <5> QED
            BY <5>2 DEF Applied
        <4> QED
          BY <2>2, <3>1, <4>1, <4>2 DEF Foreseen
      <3> QED
        BY <2>1, <2>3, <2>5, <3>1
    <2>8. \A i \in DOMAIN new : Applied(new[i].rec, new[i].inv, new)
      <3> SUFFICES ASSUME NEW i \in DOMAIN new PROVE Applied(new[i].rec, new[i].inv, old)
        BY <2>5
      <3>1. CASE i \in DOMAIN old
        BY <2>3, <2>4, <3>1
      <3>2. CASE Posting(w) /\ new[i] = Post(w)
        <4>1. job[w].pc \notin {"idle", "loaded"} /\ new[i].rec = job[w].rec /\ new[i].inv = job[w].inv
          BY <3>2 DEF Posting, Post
        <4> QED
          BY <2>3, <4>1
      <3> QED
        BY <2>4, <3>1, <3>2
    <2>9. SyncedIsPosted'
      <3> SUFFICES ASSUME NEW r \in Records, sync'[r].status = "success"
                   PROVE  /\ sync'[r].id \in DOMAIN new /\ new[sync'[r].id].rec = r
                          /\ IsPayment(r) => /\ new[sync'[r].id].inv \in DOMAIN new
                                             /\ new[new[sync'[r].id].inv].rec = InvoiceOf[r]
        BY <2>1 DEF SyncedIsPosted, IsPayment
      <3>1. sync'[r].id \in DOMAIN old /\ old[sync'[r].id].rec = r
        <4>1. CASE sync'[r] = sync[r]
          BY <2>1, <2>3, <4>1 DEF SyncedIsPosted
        <4>2. CASE At(w, "pushed") /\ r = job[w].rec /\ sync'[r].id = job[w].id
          <5>1. job[w].file = f
            BY <2>3, <4>2 DEF Busy, At
          <5> QED
            BY <4>2, <5>1 DEF PushedIsThere, AlreadyPosted
        <4> QED
          BY <1>1, <4>1, <4>2, SyncStep
      <3>2. sync'[r].id \in DOMAIN new /\ new[sync'[r].id].rec = r
        BY <2>4, <3>1
      <3>3. Applied(r, new[sync'[r].id].inv, new)
        BY SMTT(30), <2>8, <3>2
      <3> QED
        BY <3>2, <3>3 DEF Applied
    <2> QED
      BY <2>1, <2>6, <2>7, <2>8, <2>9 DEF OneFile, Applied, IsPayment
  <1>2. ASSUME \A w \in Workers : ~WorkerStep(w) PROVE OneFile'
    <2>1. job' = job /\ books' = books /\ sync' = sync /\ conn' = conn /\ "reconnected" \notin crossed
      BY <1>2, OtherSteps
    <2> QED
      BY <2>1 DEF OneFile, SyncedIsPosted, Applied, IsPayment, Busy, At
  <1> QED
    BY <1>1, <1>2

\* Only Persist writes the stored pair, only Refresh spends one, and a worker that has a new pair
\* saves it unless it dies.
LEMMA TokenStep ==
    ASSUME SyncTypeOK, NEW w \in Workers, WorkerStep(w)
    PROVE  /\ Persist(w) \/ conn' = conn
           /\ At(w, "persist")' \/ grant' = grant
           /\ At(w, "persist") /\ "crashed" \notin crossed' => Persist(w)
  <1> USE DEF db, external
  <1>1. CASE Refresh(w)
    <2>1. CASE job[w].tok.n # grant[job[w].tok.file].n
      BY <1>1, <2>1 DEF Refresh, Fail, At
    <2>2. CASE job[w].tok.n = grant[job[w].tok.file].n
      <3> DEFINE n == grant[job[w].tok.file].n + 1
      <3>1. job'[w] = [job[w] EXCEPT !.pc = "persist", !.tok.n = n] /\ conn' = conn /\ At(w, "refresh")
        BY <1>1, <2>2, Went DEF Refresh
      <3>2. job'[w].pc = "persist"
        BY <3>1, JobsAreTyped DEF JobTyped, Jobs
      <3> QED
        BY <3>1, <3>2 DEF At
    <2> QED
      BY <2>1, <2>2
  <1>2. CASE Persist(w)
    BY <1>2 DEF Persist
  <1>3. CASE WorkerCrashes(w)
    BY <1>3 DEF WorkerCrashes
  <1>4. CASE ProviderFails(w)
    BY <1>4 DEF ProviderFails, Fail
  <1>5. CASE Start(w) \/ Prepare(w) \/ Search(w) \/ Make(w)
    BY Zenon, <1>5 DEF Start, Prepare, Search, Make, Fail, At
  <1>6. CASE Remember(w) \/ Find(w) \/ Push(w) \/ Succeed(w)
    BY <1>6 DEF Remember, Find, Push, Rejected, Succeed, Fail, At
  <1> QED
    BY <1>1, <1>2, <1>3, <1>4, <1>5, <1>6 DEF WorkerStep, Works

\* Whatever is refreshed at once, the pairs stay in order.
LEMMA PairsNext ==
    ASSUME SyncTypeOK, SyncTypeOK', PairsInOrder, [NextSync]_syncvars
    PROVE  PairsInOrder'
  <1> SUFFICES ASSUME crossed' \cap {"crashed", "reconnected"} = {} PROVE PairsInOrder'
    BY DEF PairsInOrder
  <1>1. ASSUME NEW w \in Workers, WorkerStep(w) PROVE PairsInOrder'
    <2> DEFINE f == conn.file
               n == grant[f].n
    <2>1. /\ conn'.file = f /\ crossed \cap {"crashed", "reconnected"} = {}
          /\ \A v \in Workers : v # w => job'[v] = job[v]
      BY <1>1, WorkersLeave, WorkerMoves, MovesTyped DEF WorkerStep
    <2>2. /\ f \in Files /\ n \in Nat /\ conn.tok.n \in Nat
          /\ \A v \in Workers : job[v].tok \in Pairs /\ job[v].tok.n \in Nat
      BY JobsAreTyped DEF SyncTypeOK, Pairs
    <2>3. /\ conn.tok.file = f /\ conn.tok.n <= n
          /\ \A v \in Workers : Busy(v) => job[v].tok.file = f /\ job[v].tok.n <= n
          /\ \A v \in Workers : At(v, "persist") =>
                /\ job[v].tok.n = n /\ conn.tok.n < n
                /\ \A u \in Workers \ {v} : Busy(u) => job[u].tok.n < n
          /\ (\A v \in Workers : ~At(v, "persist")) => conn.tok.n = n
      BY <2>1 DEF PairsInOrder, ConnectionAlive
    <2>4. Foreseen(w)
      BY <1>1, Foresight
    <2>5. /\ Persist(w) \/ conn' = conn
          /\ At(w, "persist")' \/ grant' = grant
          /\ At(w, "persist") => Persist(w)
      BY <1>1, TokenStep
    <2> HIDE DEF f, n
    <2>6. CASE At(w, "persist")'
      <3> DEFINE tok == job[w].tok
      <3>1. /\ At(w, "refresh") /\ conn' = conn /\ tok.n = grant[tok.file].n
            /\ job'[w].tok = [tok EXCEPT !.n = @ + 1]
            /\ grant' = [grant EXCEPT ![tok.file] = [n |-> job'[w].tok.n, expired |-> FALSE]]
        BY <2>4, <2>6 DEF Foreseen, At
      <3>2. Busy(w) /\ tok.file = f /\ tok.n = n
        BY <2>3, <3>1 DEF Busy, At, f, n
      <3>3. job'[w].tok.n = n + 1 /\ job'[w].tok.file = f
        BY <2>2, <3>1, <3>2 DEF Pairs
      <3>4. grant'[f].n = n + 1
        BY <2>2, <3>1, <3>2, <3>3 DEF SyncTypeOK
      <3>5. \A v \in Workers : ~At(v, "persist")
        BY <2>2, <2>3, <3>1, <3>2 DEF Busy, At
      <3> HIDE DEF tok
      <3>6. \A v \in Workers \ {w} : Busy(v)' => job'[v].tok.file = f /\ job'[v].tok.n <= n /\ ~At(v, "persist")'
        BY <2>1, <2>3, <3>5 DEF Busy, At
      <3>7. conn'.tok.file = f /\ conn'.tok.n < n + 1 /\ n < n + 1
        BY <2>2, <2>3, <3>1
      <3>8. \A v \in Workers : Busy(v)' => job'[v].tok.file = f /\ job'[v].tok.n <= n + 1
        BY <2>2, <2>1, <3>3, <3>6
      <3>9. \A v \in Workers : At(v, "persist")' => v = w
        BY <3>6 DEF Busy, At
      <3>10. \A v \in Workers \ {w} : Busy(v)' => job'[v].tok.n < n + 1
        BY <2>1, <2>2, <3>6
      <3>11. \A v \in Workers : At(v, "persist")' =>
                /\ job'[v].tok.n = n + 1
                /\ \A u \in Workers \ {v} : Busy(u)' => job'[u].tok.n < n + 1
        BY <3>3, <3>9, <3>10
      <3>12. ConnectionAlive'
        BY <2>6 DEF ConnectionAlive
      <3>13. grant'[conn'.file].n = n + 1 /\ conn'.tok.n <= n + 1 /\ conn'.tok.file = conn'.file
        BY <2>1, <2>2, <3>4, <3>7, <2>3, <3>1
      <3> QED
        BY <2>1, <3>7, <3>8, <3>11, <3>12, <3>13 DEF PairsInOrder
    <2>7. CASE ~At(w, "persist")' /\ Persist(w)
      <3>1. At(w, "persist") /\ Busy(w) /\ conn'.tok = job[w].tok
        BY <2>7 DEF Persist, Saved, SyncTypeOK, Busy, At
      <3>2. Busy(w)' => job'[w].tok = job[w].tok
        BY <2>4, <2>7, <3>1 DEF Foreseen, Busy, At
      <3>3. job[w].tok.n = n /\ job[w].tok.file = f /\ grant' = grant
        BY <2>3, <2>5, <2>7, <3>1
      <3>4. \A v \in Workers \ {w} : ~At(v, "persist")
        BY <2>2, <2>3, <3>1, <3>3
      <3>5. \A v \in Workers : ~At(v, "persist")'
        BY <2>1, <2>7, <3>4 DEF At
      <3>6. \A v \in Workers : Busy(v)' => job'[v].tok.file = f /\ job'[v].tok.n <= n
        BY <2>1, <2>3, <3>1, <3>2 DEF Busy, At
      <3> QED
        BY <2>1, <2>2, <3>1, <3>3, <3>5, <3>6 DEF PairsInOrder, ConnectionAlive, n
    <2>8. CASE ~At(w, "persist")' /\ ~Persist(w)
      <3>1. conn' = conn /\ grant' = grant /\ ~At(w, "persist")
        BY <2>5, <2>8
      <3>2. Busy(w)' => job'[w].tok = conn.tok \/ (job'[w].tok = job[w].tok /\ Busy(w))
        BY <2>4, <2>8 DEF Foreseen, Busy, At
      <3>3. \A v \in Workers : At(v, "persist")' <=> At(v, "persist")
        BY <2>1, <2>8, <3>1 DEF At
      <3>4. \A v \in Workers : v # w => (Busy(v)' <=> Busy(v))
        BY <2>1 DEF Busy, At
      <3>5. \A v \in Workers : Busy(v)' => job'[v].tok.file = f /\ job'[v].tok.n <= n
        BY <2>1, <2>3, <3>2, <3>4
      <3>6. ASSUME NEW v \in Workers, At(v, "persist")'
            PROVE  /\ job'[v].tok.n = n /\ conn.tok.n < n
                   /\ \A u \in Workers \ {v} : Busy(u)' => job'[u].tok.n < n
        <4>1. v # w /\ At(v, "persist")
          BY <2>8, <3>3, <3>6
        <4> QED
          BY <2>1, <2>3, <3>2, <3>4, <4>1
      <3>7. (\A v \in Workers : ~At(v, "persist")') => conn.tok.n = n
        BY <2>3, <3>3
      <3> QED
        BY <2>1, <2>3, <3>1, <3>5, <3>6, <3>7 DEF PairsInOrder, ConnectionAlive, n
    <2> QED
      BY <2>6, <2>7, <2>8
  <1>2. ASSUME \A w \in Workers : ~WorkerStep(w) PROVE PairsInOrder'
    <2>1. /\ job' = job /\ conn' = conn /\ crossed \cap {"crashed", "reconnected"} = {}
          /\ grant'[conn.file].n = grant[conn.file].n
      BY <1>2, OtherSteps DEF SyncTypeOK
    <2> QED
      BY <2>1 DEF PairsInOrder, ConnectionAlive, Busy, At
  <1> QED
    BY <1>1, <1>2

-----------------------------------------------------------------------------

LEMMA InitHolds == InitSync => AInv
  <1> SUFFICES ASSUME InitSync PROVE AInv
    OBVIOUS
  <1>1. \A w \in Workers : At(w, "idle")
    BY Constants DEF InitSync, At
  <1>2. \A f \in Files : books[f] = <<>> /\ DOMAIN books[f] = {}
    BY DEF InitSync
  <1>3. conn.file \in Files /\ conn.tok.file = conn.file /\ conn.tok.n = 1 /\ grant[conn.file].n = 1
    BY DEF InitSync
  <1>4. OneHolder /\ StillUntagged /\ PushedIsThere
    BY <1>1 DEF InitSync, OneHolder, StillUntagged, PushedIsThere, Busy, At
  <1>5. PostedOnce
    BY <1>2 DEF PostedOnce, Twice
  <1>6. OneFile
    BY <1>1, <1>2, <1>3 DEF InitSync, OneFile, SyncedIsPosted, Busy, At
  <1>7. PairsInOrder
    BY <1>1, <1>3 DEF PairsInOrder, ConnectionAlive, Busy, At
  <1> QED
    BY <1>4, <1>5, <1>6, <1>7, InitTyped DEF AInv

THEOREM SyncInductive == SyncSpec => []AInv
  <1>1. AInv /\ [NextSync]_syncvars => AInv'
    BY NextTyped, HolderNext, PostedNext, OneFileNext, PairsNext DEF AInv
  <1> QED
    BY InitHolds, <1>1, PTL DEF SyncSpec

\* idempotency_key=entity_id of _push: no record is posted to a company file twice, unless the broker
\* gave it to two workers and the provider is FreshBooks.
THEOREM NothingTwice == SyncSpec => []PostedOnce
  <1>1. AInv => PostedOnce
    BY DEF AInv
  <1> QED
    BY <1>1, SyncInductive, PTL

\* A record marked as synced is in the books under its id, a payment applied to its own invoice,
\* whatever failed on the way, as long as the connection stays with one file.
THEOREM SyncedIsTrue == SyncSpec => []SyncedIsPosted
  <1>1. AInv => SyncedIsPosted
    BY DEF AInv, OneFile, SyncedIsPosted
  <1> QED
    BY <1>1, SyncInductive, PTL

\* However many workers refresh at once, the stored refresh token is the one the provider will
\* accept, unless an answer with a new pair was lost or another file was connected.
THEOREM GrantSurvives == SyncSpec => []ConnectionAlive
  <1>1. AInv => ConnectionAlive
    BY DEF AInv, PairsInOrder, ConnectionAlive
  <1> QED
    BY <1>1, SyncInductive, PTL
=============================================================================
