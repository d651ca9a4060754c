--------------------------- MODULE Estimates_proof ---------------------------
(***************************************************************************)
(* The properties of Estimates, for every number of estimates and of       *)
(* requests, every company and every payload.                              *)
(***************************************************************************)
EXTENDS Estimates, Sums, SequenceTheorems

-----------------------------------------------------------------------------
(* The inductive invariant                                                 *)

\* The rows a replace has deleted.
ListOf(r) == IF At(r, "lines", "deleted") THEN req[r].old ELSE {}

\* The rows of one PUT: they have one batch, and positions of their own that begin with 1.
OneList(A) ==
    /\ IsFiniteSet(A)
    /\ \A x, y \in A : x.batch = y.batch /\ (x.pos = y.pos => x = y)
    /\ A # {} => \E x \in A : x.pos = 1

\* A batch has been inserted once, and is deleted as a whole.
SameList(A, B) == \A x \in A, y \in B : x.batch = y.batch => A = B

Lists == {lines[e] : e \in Estimates} \cup {ListOf(r) : r \in Requests}

ListsApart ==
    /\ \A A \in Lists : OneList(A)
    /\ \A A, B \in Lists : SameList(A, B)

\* An approval holds the row it has flushed; a row that was never there and a draft have no
\* signature, a deleted one no lines and no deposit, and a snapshot is of an estimate that has left
\* the draft.
Signing(r) == req[r].op = "approve" /\ req[r].pc # "loaded"
RowsHeld ==
    /\ \A r \in Requests : Working(r) => status[req[r].est] # "none"
    /\ \A r \in Requests : Signing(r) => rowLock[req[r].est] = r /\ Exists(req[r].est)
    /\ \A r \in Requests : At(r, "delete", "loaded") => req[r].unsigned
    /\ \A e \in Estimates : /\ status[e] \in {"none", "draft"} => signed[e] = <<>>
                            /\ status[e] = "deleted" => lines[e] = {} /\ deposits[e] = <<>>
                            /\ snapshotted[e] => status[e] \notin {"none", "draft"}

\* What was sent has a total, and keeps one.
Totalled ==
    /\ \A e \in Estimates : status[e] \in {"sent", "approved", "rejected"} => total[e] \in Nat
    /\ \A r \in Requests : Working(r) =>
          /\ req[r].op \in {"send", "reject", "approve"} => total[req[r].est] \in Nat
          /\ req[r].op = "calculate" /\ req[r].pc = "calculated" => req[r].total \in Nat

\* As long as no two requests are at work on one estimate, what a request has tested stays so.
Alone ==
    ~raced =>
       /\ \A q, r \in Requests : q # r /\ Working(q) /\ Working(r) => req[q].est # req[r].est
       /\ \A r \in Requests : Working(r) =>
             /\ req[r].op \in {"lines", "calculate"} => Editable(req[r].est)
             /\ req[r].op = "delete" => status[req[r].est] = "draft"

Sound == TypeOK /\ ListsApart /\ RowsHeld /\ Totalled /\ Alone

-----------------------------------------------------------------------------
(* What a request is, and what the steps do.                               *)

\* A request at work has the fields of its operation.
LEMMA Fields ==
    ASSUME TypeOK, NEW r \in Requests, Working(r)
    PROVE  /\ req[r].est \in Estimates
           /\ req[r].op = "update" => req[r].pc = "loaded" /\ req[r].markup \in Markups
           /\ req[r].op \in {"delete", "send", "reject"} => req[r].pc = "loaded"
           /\ req[r].op = "lines" => /\ req[r].pc \in {"loaded", "deleted"}
                                     /\ req[r].payload \in Payloads /\ req[r].old \subseteq Lines
           /\ req[r].op = "calculate" => /\ req[r].pc \in {"loaded", "calculated"}
                                         /\ req[r].markup \in Nat
                                         /\ req[r].total \in Nat \cup {NoTotal}
           /\ req[r].op = "approve" =>
                 /\ req[r].pc \in {"loaded", "flushed", "published"}
                 /\ req[r].total \in Nat /\ req[r].qty \in Nat
                 /\ req[r].line \in [at : Nat \cup {-1}, had : Nat]
           /\ req[r].op \in {"update", "delete", "send", "reject", "lines", "calculate", "approve"}
  BY DEF TypeOK, Working, Requesting

\* An idle request has no operation that a handler knows.
LEMMA IdleOp == Idle.op = "idle"
  BY DEF Idle

\* A call loads its estimate, and changes nothing else.
Loads(r, rec) ==
    /\ ~Working(r)
    /\ rec \in Requesting /\ rec # Idle
    /\ rec.est \in Estimates /\ Exists(rec.est) /\ rec.pc = "loaded"
    /\ rec.op \in {"send", "reject", "approve"} => total[rec.est] \in Nat
    /\ rec.op = "lines" => rec.old = {}
    /\ rec.op \in {"lines", "calculate"} => Editable(rec.est)
    /\ rec.op = "delete" => status[rec.est] = "draft" /\ rec.unsigned = (signed[rec.est] = <<>>)
    /\ req' = [req EXCEPT ![r] = rec]
    /\ raced' = (raced \/ \E q \in Requests \ {r} : Working(q) /\ req[q].est = rec.est)
    /\ UNCHANGED <<rows, books, locks>>

LEMMA CallLoads ==
    ASSUME TypeOK, Totalled, NEW r \in Requests, Call(r)
    PROVE  \E rec : Loads(r, rec)
  <1>1. PICK e \in Estimates :
        \/ \E m \in Markups : UpdateEstimate(r, e, m)
        \/ DeleteEstimate(r, e)
        \/ \E p \in Payloads : ReplaceLines(r, e, p)
        \/ CalculateTotals(r, e)
        \/ SendForSignature(r, e)
        \/ RejectEstimate(r, e)
        \/ ApproveEstimate(r, e)
    BY DEF Call
  <1>2. CASE \E m \in Markups : UpdateEstimate(r, e, m)
    <2> PICK m \in Markups : UpdateEstimate(r, e, m)
      BY <1>2
    <2> DEFINE rec == [op |-> "update", est |-> e, pc |-> "loaded", markup |-> m]
    <2>1. rec \in Requesting /\ rec # Idle
      BY DEF Requesting, Idle
    <2>2. Loads(r, rec)
      BY <2>1 DEF Loads, UpdateEstimate, Load
    <2> QED
      BY <2>2
  <1>3. CASE DeleteEstimate(r, e)
    <2> DEFINE rec == [op |-> "delete", est |-> e, pc |-> "loaded", unsigned |-> signed[e] = <<>>]
    <2>1. rec \in Requesting /\ rec # Idle
      BY DEF Requesting, Idle
    <2>2. Loads(r, rec)
      BY <1>3, <2>1 DEF Loads, DeleteEstimate, Load
    <2> QED
      BY <2>2
  <1>4. CASE \E p \in Payloads : ReplaceLines(r, e, p)
    <2> PICK p \in Payloads : ReplaceLines(r, e, p)
      BY <1>4
    <2> DEFINE rec == [op |-> "lines", est |-> e, pc |-> "loaded", payload |-> p, old |-> {}]
    <2>1. rec \in Requesting /\ rec # Idle
      BY DEF Requesting, Idle
    <2>2. Loads(r, rec)
      BY <2>1 DEF Loads, ReplaceLines, Load
    <2> QED
      BY <2>2
  <1>5. CASE CalculateTotals(r, e)
    <2> DEFINE rec == [op |-> "calculate", est |-> e, pc |-> "loaded",
                       had |-> total[e], markup |-> markup[e], total |-> NoTotal]
    <2>1. rec \in Requesting /\ rec # Idle
      BY DEF Requesting, Idle, TypeOK
    <2>2. Loads(r, rec)
      BY <1>5, <2>1 DEF Loads, CalculateTotals, Load
    <2> QED
      BY <2>2
  <1>6. CASE SendForSignature(r, e)
    <2> DEFINE rec == [op |-> "send", est |-> e, pc |-> "loaded"]
    <2>1. rec \in Requesting /\ rec # Idle
      BY DEF Requesting, Idle
    <2>2. Loads(r, rec)
      BY <1>6, <2>1 DEF Loads, SendForSignature, Load, Decidable, Totalled, TypeOK
    <2> QED
      BY <2>2
  <1>7. CASE RejectEstimate(r, e)
    <2> DEFINE rec == [op |-> "reject", est |-> e, pc |-> "loaded"]
    <2>1. rec \in Requesting /\ rec # Idle
      BY DEF Requesting, Idle
    <2>2. Loads(r, rec)
      BY <1>7, <2>1 DEF Loads, RejectEstimate, Load, Decidable, Totalled, TypeOK
    <2> QED
      BY <2>2
  <1>8. CASE ApproveEstimate(r, e)
    <2> DEFINE rec == [op |-> "approve", est |-> e, pc |-> "loaded",
                       total |-> total[e], qty |-> 0, line |-> NoLine]
    <2>0. total[e] \in Nat /\ NoLine \in [at : Nat \cup {-1}, had : Nat]
      BY <1>8 DEF ApproveEstimate, Decidable, Totalled, NoLine
    <2>1. rec \in Requesting /\ rec # Idle
      BY <2>0 DEF Requesting, Idle
    <2>2. Loads(r, rec)
      BY <1>8, <2>1 DEF Loads, ApproveEstimate, Load, Decidable, Totalled, TypeOK
    <2> QED
      BY <2>2
  <1> QED
    BY <1>1, <1>2, <1>3, <1>4, <1>5, <1>6, <1>7, <1>8

-----------------------------------------------------------------------------
(* The new rows of a replace                                               *)

LEMMA ImageFinite ==
    ASSUME NEW f, NEW S, IsFiniteSet(S)
    PROVE  IsFiniteSet({f[x] : x \in S})
  <1> DEFINE T == {f[x] : x \in S}
             g == [x \in S |-> f[x]]
  <1>1. g \in Surjection(S, T)
    BY DEF Surjection
  <1> QED
    BY <1>1, FS_Surjection

\* A finite set of numbers misses one of the first, and Min finds it.
LEMMA MinMissing ==
    ASSUME NEW T, IsFiniteSet(T), T \subseteq Nat
    PROVE  Min((0 .. Cardinality(T)) \ T) \in Nat \ T
  <1> DEFINE n == Cardinality(T)
             M == (0 .. n) \ T
  <1>1. n \in Nat
    BY FS_CardinalityType
  <1>2. M # {}
    <2> SUFFICES ASSUME M = {} PROVE FALSE
      OBVIOUS
    <2>1. 0 .. n \in SUBSET T
      OBVIOUS
    <2>2. Cardinality(0 .. n) <= n
      BY <2>1, FS_Subset
    <2>3. Cardinality(0 .. n) = n + 1
      BY <1>1, FS_Interval
    <2> QED
      BY <1>1, <2>2, <2>3
  <1>3. M \subseteq Nat
    BY <1>1
  <1> HIDE DEF M
  <1>4. PICK x \in M : \A y \in M : ~(<<y, x>> \in OpToRel(<, Nat))
    BY <1>2, <1>3, NatLessThanWellFounded, WFMin
  <1>5. \A y \in M : x =< y
    <2>1. \A y \in M : x \in Nat /\ y \in Nat
      BY <1>3
    <2>2. \A y \in M : ~(y < x)
      BY <1>4, <2>1, Zenon DEF OpToRel
    <2> QED
      BY <2>1, <2>2
  <1>6. Min(M) \in M
    BY <1>5 DEF Min
  <1> QED
    BY <1>3, <1>6 DEF M

\* The batch of new rows is that of no list.
LEMMA Fresh ==
    ASSUME TypeOK, ListsApart
    PROVE  /\ FreshBatch \in Nat
           /\ \A A \in Lists : \A x \in A : x.batch # FreshBatch
  <1> DEFINE W == {q \in Requests : At(q, "lines", "deleted")}
             L == {lines[e] : e \in Estimates}
             D == {req[q].old : q \in W}
             seen == UNION (L \cup D)
             taken == {x.batch : x \in seen}
  <1>1. IsFiniteSet(L) /\ \A A \in L : IsFiniteSet(A) /\ A \subseteq Lines
    <2>1. IsFiniteSet(L)
      BY FiniteAssumption, ImageFinite DEF FiniteAssumption
    <2>2. \A A \in L : IsFiniteSet(A) /\ A \subseteq Lines
      BY DEF ListsApart, Lists, OneList, TypeOK
    <2> QED
      BY <2>1, <2>2
  <1>2. IsFiniteSet(D) /\ \A A \in D : IsFiniteSet(A) /\ A \subseteq Lines
    <2> DEFINE f == [q \in W |-> req[q].old]
    <2>1. IsFiniteSet(W)
      BY FiniteAssumption, FS_Subset DEF FiniteAssumption
    <2>2. IsFiniteSet({f[q] : q \in W})
      BY <2>1, ImageFinite
    <2>3. {f[q] : q \in W} = D
      OBVIOUS
    <2>4. \A q \in W : IsFiniteSet(req[q].old) /\ req[q].old \subseteq Lines
      <3> TAKE q \in W
      <3>1. ListOf(q) = req[q].old /\ ListOf(q) \in Lists
        BY DEF ListOf, Lists
      <3>2. req[q].old \subseteq Lines
        BY Fields DEF At
      <3> QED
        BY <3>1, <3>2 DEF ListsApart, OneList
    <2> QED
      BY <2>2, <2>3, <2>4
  <1>3. IsFiniteSet(seen) /\ seen \subseteq Lines
    <2>1. IsFiniteSet(L \cup D)
      BY <1>1, <1>2, FS_Union
    <2>2. \A A \in L \cup D : IsFiniteSet(A) /\ A \subseteq Lines
      BY <1>1, <1>2
    <2> HIDE DEF L, D
    <2>3. IsFiniteSet(UNION (L \cup D))
      BY <2>1, <2>2, FS_UNION
    <2> QED
      BY <2>2, <2>3
  <1>4. IsFiniteSet(taken) /\ taken \subseteq Nat
    <2> HIDE DEF seen
    <2> DEFINE f == [x \in seen |-> x.batch]
    <2>1. IsFiniteSet({f[x] : x \in seen})
      BY <1>3, ImageFinite
    <2>2. {f[x] : x \in seen} = taken
      OBVIOUS
    <2>3. taken \subseteq Nat
      BY <1>3 DEF Lines
    <2> QED
      BY <2>1, <2>2, <2>3
  <1>5. FreshBatch = Min((0 .. Cardinality(taken)) \ taken)
    BY DEF FreshBatch
  <1>6. \A A \in Lists : \A x \in A : x \in seen
    <2>1. \A r \in Requests : ListOf(r) # {} => r \in W /\ ListOf(r) = req[r].old
      BY DEF ListOf
    <2>2. \A A \in Lists : A # {} => A \in L \cup D
      BY <2>1 DEF Lists
    <2> QED
      BY <2>2
  <1>7. \A A \in Lists : \A x \in A : x.batch \in taken
    BY <1>6
  <1> HIDE DEF taken
  <1>8. FreshBatch \in Nat \ taken
    BY <1>4, <1>5, MinMissing
  <1> QED
    BY <1>7, <1>8

\* The rows that a replace puts into its estimate.
Inserted(r) ==
    {[batch |-> FreshBatch, pos |-> p, qty |-> req[r].payload[p]] : p \in DOMAIN req[r].payload}

LEMMA InsertedList ==
    ASSUME TypeOK, ListsApart, NEW r \in Requests, At(r, "lines", "deleted")
    PROVE  /\ Inserted(r) \subseteq Lines
           /\ OneList(Inserted(r))
           /\ \A x \in Inserted(r) : x.batch = FreshBatch
           /\ \A A \in Lists : SameList(A, Inserted(r)) /\ SameList(Inserted(r), A)
  <1> DEFINE pay == req[r].payload
             f == [p \in DOMAIN pay |-> [batch |-> FreshBatch, pos |-> p, qty |-> pay[p]]]
  <1>1. pay \in Seq(Nat)
    BY Fields, PayloadAssumption DEF At, PayloadAssumption
  <1>2. PICK n \in Nat : DOMAIN pay = 1 .. n
    BY <1>1
  <1>3. \A p \in 1 .. n : pay[p] \in Nat
    BY <1>1, <1>2
  <1>4. FreshBatch \in Nat
    BY Fresh
  <1>5. Inserted(r) \subseteq Lines
    BY <1>2, <1>3, <1>4 DEF Inserted, Lines
  <1>6. IsFiniteSet(Inserted(r))
    <2>1. IsFiniteSet(1 .. n)
      BY FS_Interval
    <2>2. IsFiniteSet({f[p] : p \in 1 .. n})
      BY <2>1, ImageFinite
    <2>3. {f[p] : p \in 1 .. n} = Inserted(r)
      BY <1>2 DEF Inserted
    <2> QED
      BY <2>2, <2>3
  <1>7. \A x \in Inserted(r) : x.batch = FreshBatch
    BY DEF Inserted
  <1>8. \A x, y \in Inserted(r) : x.pos = y.pos => x = y
    BY DEF Inserted
  <1>9. Inserted(r) # {} => \E x \in Inserted(r) : x.pos = 1
    <2> SUFFICES ASSUME Inserted(r) # {} PROVE \E x \in Inserted(r) : x.pos = 1
      OBVIOUS
    <2>1. 1 \in DOMAIN pay
      BY <1>2 DEF Inserted
    <2> DEFINE new == [batch |-> FreshBatch, pos |-> 1, qty |-> pay[1]]
    <2>2. new \in Inserted(r) /\ new.pos = 1
      BY <2>1 DEF Inserted
    <2> QED
      BY <2>2
  <1>10. OneList(Inserted(r))
    BY <1>6, <1>7, <1>8, <1>9 DEF OneList
  <1>11. \A A \in Lists : SameList(A, Inserted(r)) /\ SameList(Inserted(r), A)
    BY <1>7, Fresh DEF SameList
  <1> QED
    BY <1>5, <1>7, <1>10, <1>11

\* What is left of the rows is all of them or nothing.
LEMMA RestOfList ==
    ASSUME ListsApart, NEW A \in Lists, NEW B \in Lists
    PROVE  A \ B = {} \/ A \ B = A
  BY DEF ListsApart, SameList

\* What is deposited and billed is a number.
LEMMA QuantityNat ==
    ASSUME TypeOK, ListsApart, NEW e \in Estimates
    PROVE  Quantity(lines[e]) \in Nat
  <1> DEFINE ls == lines[e]
             F == [line \in ls |-> line.qty]
  <1>1. IsFiniteSet(ls) /\ ls \subseteq Lines
    BY DEF TypeOK, ListsApart, Lists, OneList
  <1>2. DOMAIN F = ls /\ \A x \in ls : F[x] \in Nat
    BY <1>1 DEF Lines
  <1> HIDE DEF F
  <1>3. SumFunctionOnSet(F, ls) \in Nat
    BY <1>1, <1>2, SumInt
  <1>4. SumFunction(F) \in Nat
    BY <1>2, <1>3 DEF SumFunction
  <1> QED
    BY <1>4 DEF Quantity, F

-----------------------------------------------------------------------------
(* Types                                                                   *)

LEMMA InitTyped == Init => TypeOK
  <1> SUFFICES ASSUME Init PROVE TypeOK
    OBVIOUS
  <1>1. /\ bom \in Seq(Nat)
        /\ signed \in [Estimates -> Seq([total : Nat, qty : Nat])]
        /\ deposits \in [Estimates -> Seq(Nat)]
    BY DEF Init
  <1>2. req \in [Requests -> Requesting]
    BY DEF Init, Requesting
  <1>3. /\ status \in [Estimates -> Statuses \cup {"none", "deleted"}]
        /\ total \in [Estimates -> Nat \cup {NoTotal}]
    BY DEF Init
  <1> QED
    BY <1>1, <1>2, <1>3 DEF Init, TypeOK

LEMMA SeqChange ==
    ASSUME NEW S, NEW s \in Seq(S), NEW v \in S
    PROVE  Append(s, v) \in Seq(S) /\ \A k : [s EXCEPT ![k] = v] \in Seq(S)
  <1>1. PICK n \in Nat : s \in [1 .. n -> S]
    OBVIOUS
  <1>2. ASSUME NEW k PROVE [s EXCEPT ![k] = v] \in Seq(S)
    <2>1. [s EXCEPT ![k] = v] \in [1 .. n -> S]
      BY <1>1
    <2> QED
      BY <2>1
  <1> QED
    BY <1>2

\* What the end of a request leaves behind.
LEMMA EndTyped ==
    ASSUME TypeOK, NEW r \in Requests, End(r)
    PROVE  /\ req' = [req EXCEPT ![r] = Idle] /\ req' \in [Requests -> Requesting]
           /\ rowLock' \in [Estimates -> Requests \cup {Nobody}]
           /\ lineLock' \in [Estimates -> Requests \cup {Nobody}]
           /\ numberLock' \in Requests \cup {Nobody}
           /\ raced' = raced
  BY DEF End, Released, TypeOK, Requesting

LEMMA CallTyped ==
    ASSUME TypeOK, Totalled, NEW r \in Requests, Call(r)
    PROVE  TypeOK'
  <1>1. PICK rec : Loads(r, rec)
    BY CallLoads
  <1>2. req' \in [Requests -> Requesting] /\ raced' \in BOOLEAN
    BY <1>1 DEF Loads, TypeOK
  <1>3. UNCHANGED <<rows, books, locks>>
    BY <1>1 DEF Loads
  <1> QED
    BY <1>2, <1>3 DEF TypeOK, rows, books, locks

LEMMA DepositNat ==
    ASSUME NEW t \in Nat
    PROVE  Deposit(t) \in Nat
  <1> DEFINE n == t * DepositPercent
  <1>1. n \in Nat
    BY MoneyAssumption DEF MoneyAssumption
  <1> HIDE DEF n
  <1>2. (n + 50) \div 100 \in Nat
    BY <1>1
  <1> QED
    BY <1>2 DEF Deposit, n

\* A request that has got on is still a request.
LEMMA Advanced ==
    ASSUME TypeOK, NEW r \in Requests, Working(r)
    PROVE  /\ req[r].op = "lines" => \A old \in SUBSET Lines :
                 [req[r] EXCEPT !.pc = "deleted", !.old = old] \in Requesting
           /\ req[r].op = "calculate" => \A t \in Nat :
                 [req[r] EXCEPT !.pc = "calculated", !.total = t] \in Requesting
           /\ req[r].op = "approve" =>
                 /\ [req[r] EXCEPT !.pc = "flushed"] \in Requesting
                 /\ \A line \in [at : Nat \cup {-1}, had : Nat], q \in Nat :
                       [req[r] EXCEPT !.pc = "published", !.line = line, !.qty = q] \in Requesting
  <1>1. req[r] \in Requesting /\ req[r] # Idle
    BY DEF TypeOK, Working
  <1>2. ASSUME req[r].op = "lines", NEW old \in SUBSET Lines
        PROVE  [req[r] EXCEPT !.pc = "deleted", !.old = old] \in Requesting
    <2>1. req[r] \in [op : {"lines"}, est : Estimates, pc : {"loaded", "deleted"},
                      payload : Payloads, old : SUBSET Lines]
      BY <1>1, <1>2 DEF Requesting
    <2>2. [req[r] EXCEPT !.pc = "deleted", !.old = old] \in
              [op : {"lines"}, est : Estimates, pc : {"loaded", "deleted"},
               payload : Payloads, old : SUBSET Lines]
      BY <2>1
    <2> QED
      BY <2>2 DEF Requesting
  <1>3. ASSUME req[r].op = "calculate", NEW t \in Nat
        PROVE  [req[r] EXCEPT !.pc = "calculated", !.total = t] \in Requesting
    <2>1. req[r] \in [op : {"calculate"}, est : Estimates, pc : {"loaded", "calculated"},
                      had : Nat \cup {NoTotal}, markup : Nat, total : Nat \cup {NoTotal}]
      BY <1>1, <1>3 DEF Requesting
    <2>2. [req[r] EXCEPT !.pc = "calculated", !.total = t] \in
              [op : {"calculate"}, est : Estimates, pc : {"loaded", "calculated"},
               had : Nat \cup {NoTotal}, markup : Nat, total : Nat \cup {NoTotal}]
      BY <2>1
    <2> QED
      BY <2>2 DEF Requesting
  <1>4. ASSUME req[r].op = "approve"
        PROVE  /\ [req[r] EXCEPT !.pc = "flushed"] \in Requesting
               /\ \A line \in [at : Nat \cup {-1}, had : Nat], q \in Nat :
                     [req[r] EXCEPT !.pc = "published", !.line = line, !.qty = q] \in Requesting
    <2> DEFINE Approving == [op : {"approve"}, est : Estimates,
                             pc : {"loaded", "flushed", "published"},
                             total : Nat, qty : Nat, line : [at : Nat \cup {-1}, had : Nat]]
    <2>1. req[r] \in Approving
      BY <1>1, <1>4 DEF Requesting
    <2>2. [req[r] EXCEPT !.pc = "flushed"] \in Approving
      BY <2>1
    <2>3. \A line \in [at : Nat \cup {-1}, had : Nat], q \in Nat :
              [req[r] EXCEPT !.pc = "published", !.line = line, !.qty = q] \in Approving
      BY <2>1
    <2> QED
      BY <2>2, <2>3 DEF Requesting
  <1> QED
    BY <1>2, <1>3, <1>4

LEMMA HandleTyped ==
    ASSUME TypeOK, ListsApart, Totalled, NEW r \in Requests, Handle(r)
    PROVE  TypeOK'
  <1> DEFINE e == req[r].est
  <1>1. CASE CommitUpdate(r)
    <2>1. markup' \in [Estimates -> Nat]
      BY <1>1, Fields, MoneyAssumption DEF CommitUpdate, At, MoneyAssumption, TypeOK
    <2> QED
      BY <1>1, <2>1, EndTyped DEF CommitUpdate, TypeOK, books
  <1>2. CASE CommitDelete(r)
    <2>1. /\ status' \in [Estimates -> Statuses \cup {"none", "deleted"}]
          /\ lines' \in [Estimates -> SUBSET Lines]
      BY <1>2, Fields DEF CommitDelete, At, TypeOK
    <2> QED
      BY <1>2, <2>1, EndTyped DEF CommitDelete, TypeOK, books
  <1>3. CASE DeleteLines(r)
    <2>1. Working(r) /\ req[r].op = "lines" /\ e \in Estimates
      BY <1>3, Fields DEF DeleteLines, At
    <2>2. lines[e] \in SUBSET Lines
      BY <2>1 DEF TypeOK
    <2>3. [req[r] EXCEPT !.pc = "deleted", !.old = lines[e]] \in Requesting
      BY <2>1, <2>2, Advanced
    <2>4. req' = [req EXCEPT ![r] = [req[r] EXCEPT !.pc = "deleted", !.old = lines[e]]]
      BY <1>3 DEF DeleteLines, TypeOK
    <2>5. req' \in [Requests -> Requesting]
      BY <2>3, <2>4 DEF TypeOK
    <2>6. lineLock' \in [Estimates -> Requests \cup {Nobody}]
      BY <1>3 DEF DeleteLines, TypeOK
    <2> QED
      BY <1>3, <2>5, <2>6 DEF DeleteLines, TypeOK, rows, books
  <1>4. CASE InsertLines(r)
    <2>1. At(r, "lines", "deleted") /\ e \in Estimates
      BY <1>4, Fields DEF InsertLines, At
    <2>2. lines' = [lines EXCEPT ![e] = (lines[e] \ req[r].old) \cup Inserted(r)]
      BY <1>4 DEF InsertLines, Inserted
    <2>3. lines' \in [Estimates -> SUBSET Lines]
      BY <2>1, <2>2, InsertedList DEF TypeOK
    <2> QED
      BY <1>4, <2>3, EndTyped DEF InsertLines, TypeOK, books
  <1>5. CASE CalculateEstimate(r)
    <2> DEFINE t == Quantity(lines[e]) * req[r].markup
    <2>1. Working(r) /\ req[r].op = "calculate" /\ e \in Estimates /\ req[r].markup \in Nat
      BY <1>5, Fields DEF CalculateEstimate, At
    <2>2. t \in Nat
      BY <2>1, QuantityNat
    <2>3. req' = [req EXCEPT ![r] = [req[r] EXCEPT !.pc = "calculated", !.total = t]]
      BY <1>5 DEF CalculateEstimate, TypeOK
    <2> HIDE DEF t
    <2>4. [req[r] EXCEPT !.pc = "calculated", !.total = t] \in Requesting
      BY <2>1, <2>2, Advanced
    <2>5. req' \in [Requests -> Requesting]
      BY <2>3, <2>4 DEF TypeOK
    <2> QED
      BY <1>5, <2>5 DEF CalculateEstimate, TypeOK, rows, books, locks
  <1>6. CASE CommitCalculate(r)
    <2>1. total' \in [Estimates -> Nat \cup {NoTotal}]
      BY <1>6, Fields DEF CommitCalculate, At, TypeOK
    <2> QED
      BY <1>6, <2>1, EndTyped DEF CommitCalculate, TypeOK, books
  <1>7. CASE CommitSend(r) \/ CommitReject(r)
    <2>1. status' \in [Estimates -> Statuses \cup {"none", "deleted"}]
      BY <1>7 DEF CommitSend, CommitReject, TypeOK, Statuses
    <2> QED
      BY <1>7, <2>1, EndTyped DEF CommitSend, CommitReject, TypeOK, books
  <1>8. CASE FlushApproval(r)
    <2>1. Working(r) /\ req[r].op = "approve" /\ e \in Estimates
      BY <1>8, Fields DEF FlushApproval, At
    <2>2. req' = [req EXCEPT ![r] = [req[r] EXCEPT !.pc = "flushed"]]
      BY <1>8 DEF FlushApproval, TypeOK
    <2>3. req' \in [Requests -> Requesting]
      BY <2>1, <2>2, Advanced DEF TypeOK
    <2>4. rowLock' \in [Estimates -> Requests \cup {Nobody}]
      BY <1>8 DEF FlushApproval, TypeOK
    <2> QED
      BY <1>8, <2>3, <2>4 DEF FlushApproval, TypeOK, rows, books
  <1>9. CASE PublishApproval(r)
    <2>1. Working(r) /\ req[r].op = "approve" /\ e \in Estimates
      BY <1>9, Fields DEF PublishApproval, At
    <2>2. PICK line \in BomRows(e) :
              req' = [req EXCEPT ![r].pc = "published", ![r].line = line,
                                 ![r].qty = IF line = NoLine THEN 0 ELSE Quantity(lines[e])]
      BY <1>9 DEF PublishApproval
    <2> DEFINE q == IF line = NoLine THEN 0 ELSE Quantity(lines[e])
    <2>3. q \in Nat
      BY <2>1, QuantityNat
    <2>4. line \in [at : Nat \cup {-1}, had : Nat]
      BY <2>1 DEF BomRows, NoLine, NewLine, TypeOK
    <2>5. req' = [req EXCEPT ![r] = [req[r] EXCEPT !.pc = "published", !.line = line, !.qty = q]]
      BY <2>2 DEF TypeOK
    <2> HIDE DEF q
    <2>6. [req[r] EXCEPT !.pc = "published", !.line = line, !.qty = q] \in Requesting
      BY <2>1, <2>3, <2>4, Advanced
    <2>7. req' \in [Requests -> Requesting]
      BY <2>5, <2>6 DEF TypeOK
    <2>8. numberLock' \in Requests \cup {Nobody}
      BY <1>9 DEF PublishApproval, TakeNumber, TypeOK
    <2> QED
      BY <1>9, <2>7, <2>8 DEF PublishApproval, TypeOK, rows, books
  <1>10. CASE CommitApproval(r)
    <2>1. /\ e \in Estimates /\ req[r].total \in Nat /\ req[r].qty \in Nat
          /\ req[r].line \in [at : Nat \cup {-1}, had : Nat]
      BY <1>10, Fields DEF CommitApproval, At
    <2>2. /\ status' \in [Estimates -> Statuses \cup {"none", "deleted"}]
          /\ snapshotted' \in [Estimates -> BOOLEAN]
      BY <1>10 DEF CommitApproval, TypeOK, Statuses
    <2>3. signed' \in [Estimates -> Seq([total : Nat, qty : Nat])]
      <3> DEFINE sig == [total |-> req[r].total, qty |-> req[r].qty]
      <3>1. sig \in [total : Nat, qty : Nat]
        BY <2>1
      <3>2. signed' = [signed EXCEPT ![e] = Append(signed[e], sig)]
        BY <1>10 DEF CommitApproval
      <3> HIDE DEF sig
      <3> QED
        BY <2>1, <3>1, <3>2 DEF TypeOK
    <2>4. deposits' \in [Estimates -> Seq(Nat)]
      <3> DEFINE d == Deposit(req[r].total)
      <3>1. d \in Nat
        BY <2>1, DepositNat
      <3>2. deposits' = [deposits EXCEPT ![e] = Append(deposits[e], d)] \/ deposits' = deposits
        BY <1>10 DEF CommitApproval
      <3> HIDE DEF d
      <3>3. deposits[e] \in Seq(Nat)
        BY <2>1 DEF TypeOK
      <3>4. Append(deposits[e], d) \in Seq(Nat)
        BY <3>1, <3>3, SeqChange
      <3> QED
        BY <2>1, <3>2, <3>4 DEF TypeOK
    <2>5. bom' \in Seq(Nat)
      <3> DEFINE k == req[r].line.at
                 q == req[r].line.had + req[r].qty
      <3>1. q \in Nat
        BY <2>1
      <3>2. \/ bom' = bom
            \/ bom' = Append(bom, req[r].qty)
            \/ bom' = [bom EXCEPT ![k] = q]
        BY <1>10 DEF CommitApproval, Merged
      <3> HIDE DEF k, q
      <3>3. bom \in Seq(Nat)
        BY DEF TypeOK
      <3>4. Append(bom, req[r].qty) \in Seq(Nat) /\ [bom EXCEPT ![k] = q] \in Seq(Nat)
        BY <2>1, <3>1, <3>3, SeqChange
      <3> QED
        BY <3>2, <3>3, <3>4
    <2> QED
      BY <1>10, <2>2, <2>3, <2>4, <2>5, EndTyped DEF CommitApproval, TypeOK
  <1>11. CASE Rollback(r)
    BY <1>11, EndTyped DEF Rollback, TypeOK, rows, books
  <1> QED
    BY <1>1, <1>2, <1>3, <1>4, <1>5, <1>6, <1>7, <1>8, <1>9, <1>10, <1>11 DEF Handle

LEMMA NextTyped == TypeOK /\ ListsApart /\ Totalled /\ [Next]_vars => TypeOK'
  <1> SUFFICES ASSUME TypeOK, ListsApart, Totalled, [Next]_vars PROVE TypeOK'
    OBVIOUS
  <1>1. ASSUME NEW e \in Estimates, NEW m \in Markups, NEW p \in BOOLEAN, CreateEstimate(e, m, p)
        PROVE  TypeOK'
    BY <1>1, MoneyAssumption
       DEF CreateEstimate, MoneyAssumption, TypeOK, books, locks, DraftStatus, Statuses
  <1>2. CASE UNCHANGED vars
    BY <1>2 DEF vars, rows, books, locks, TypeOK
  <1> QED
    BY <1>1, <1>2, CallTyped, HandleTyped DEF Next

-----------------------------------------------------------------------------
(* What a handler does to its own request, and to the rows                 *)

\* A handler ends its request or takes it further; it is the only one to change it.
LEMMA Handled ==
    ASSUME TypeOK, NEW r \in Requests, Handle(r)
    PROVE  /\ Working(r) /\ req[r].est \in Estimates /\ raced' = raced
           /\ \E rec : /\ req' = [req EXCEPT ![r] = rec]
                       /\ \/ rec = Idle
                          \/ rec # Idle /\ rec.op = req[r].op /\ rec.est = req[r].est
  <1>1. CASE End(r)
    <2>1. Working(r)
      BY <1>1 DEF Handle, At, CommitUpdate, CommitDelete, DeleteLines, InsertLines,
                  CalculateEstimate, CommitCalculate, CommitSend, CommitReject, FlushApproval,
                  PublishApproval, CommitApproval, Rollback
    <2> QED
      BY <1>1, <2>1, Fields DEF End
  <1>2. CASE DeleteLines(r)
    <2> DEFINE rec == [req[r] EXCEPT !.pc = "deleted", !.old = lines[req[r].est]]
    <2>1. Working(r) /\ req[r].op = "lines" /\ req[r].est \in Estimates
      BY <1>2, Fields DEF DeleteLines, At
    <2>2. req' = [req EXCEPT ![r] = rec] /\ raced' = raced
      BY <1>2 DEF DeleteLines, TypeOK
    <2>3. req[r] \in [op : {"lines"}, est : Estimates, pc : {"loaded", "deleted"},
                      payload : Payloads, old : SUBSET Lines]
      BY <2>1 DEF TypeOK, Working, Requesting
    <2>4. rec.op = req[r].op /\ rec.est = req[r].est /\ rec # Idle
      BY <2>3 DEF Idle
    <2> QED
      BY <2>1, <2>2, <2>4
  <1>3. CASE CalculateEstimate(r)
    <2> DEFINE t == Quantity(lines[req[r].est]) * req[r].markup
               rec == [req[r] EXCEPT !.pc = "calculated", !.total = t]
    <2>1. Working(r) /\ req[r].op = "calculate" /\ req[r].est \in Estimates
      BY <1>3, Fields DEF CalculateEstimate, At
    <2>2. req' = [req EXCEPT ![r] = rec] /\ raced' = raced
      BY <1>3 DEF CalculateEstimate, TypeOK
    <2> HIDE DEF t
    <2>3. req[r] \in [op : {"calculate"}, est : Estimates, pc : {"loaded", "calculated"},
                      had : Nat \cup {NoTotal}, markup : Nat, total : Nat \cup {NoTotal}]
      BY <2>1 DEF TypeOK, Working, Requesting
    <2>4. rec.op = req[r].op /\ rec.est = req[r].est /\ rec # Idle
      BY <2>3 DEF Idle
    <2> QED
      BY <2>1, <2>2, <2>4
  <1>4. CASE FlushApproval(r) \/ PublishApproval(r)
    <2>1. Working(r) /\ req[r].op = "approve" /\ req[r].est \in Estimates
      BY <1>4, Fields DEF FlushApproval, PublishApproval, At
    <2>2. req[r] \in [op : {"approve"}, est : Estimates, pc : {"loaded", "flushed", "published"},
                      total : Nat, qty : Nat, line : [at : Nat \cup {-1}, had : Nat]]
      BY <2>1 DEF TypeOK, Working, Requesting
    <2>3. \E rec : /\ req' = [req EXCEPT ![r] = rec]
                   /\ rec.op = req[r].op /\ rec.est = req[r].est /\ rec # Idle
      <3>1. CASE FlushApproval(r)
        <4> DEFINE rec == [req[r] EXCEPT !.pc = "flushed"]
        <4>1. req' = [req EXCEPT ![r] = rec]
          BY <3>1 DEF FlushApproval, TypeOK
        <4>2. rec.op = req[r].op /\ rec.est = req[r].est /\ rec # Idle
          BY <2>2 DEF Idle
        <4> QED
          BY <4>1, <4>2
      <3>2. CASE PublishApproval(r)
        <4> PICK line \in BomRows(req[r].est) :
                  req' = [req EXCEPT ![r].pc = "published", ![r].line = line,
                     ![r].qty = IF line = NoLine THEN 0 ELSE Quantity(lines[req[r].est])]
          BY <3>2 DEF PublishApproval
        <4> DEFINE q == IF line = NoLine THEN 0 ELSE Quantity(lines[req[r].est])
                   rec == [req[r] EXCEPT !.pc = "published", !.line = line, !.qty = q]
        <4>1. req' = [req EXCEPT ![r] = rec]
          BY DEF TypeOK
        <4> HIDE DEF q
        <4>2. rec.op = req[r].op /\ rec.est = req[r].est /\ rec # Idle
          BY <2>2 DEF Idle
        <4> QED
          BY <4>1, <4>2
      <3> QED
        BY <1>4, <3>1, <3>2
    <2> QED
      BY <1>4, <2>1, <2>3 DEF FlushApproval, PublishApproval
  <1> QED
    BY <1>1, <1>2, <1>3, <1>4
       DEF Handle, CommitUpdate, CommitDelete, InsertLines, CommitCalculate, CommitSend,
           CommitReject, CommitApproval, Rollback

\* A handler changes the status of no other estimate, and of its own only as its operation says.
LEMMA StatusStep ==
    ASSUME TypeOK, RowsHeld, NEW r \in Requests, Handle(r)
    PROVE  \/ UNCHANGED <<status, snapshotted>>
           \/ /\ UNCHANGED snapshotted
              /\ rowLock[req[r].est] = Nobody /\ Exists(req[r].est)
              /\ \/ /\ req[r].op = "send"
                    /\ status' = [status EXCEPT ![req[r].est] = "sent"]
                 \/ /\ req[r].op = "reject"
                    /\ status' = [status EXCEPT ![req[r].est] = "rejected"]
                 \/ /\ req[r].op = "delete"
                    /\ status' = [status EXCEPT ![req[r].est] = "deleted"]
                    /\ lines' = [lines EXCEPT ![req[r].est] = {}]
                    /\ deposits[req[r].est] = <<>> /\ UNCHANGED deposits
           \/ /\ Signing(r) /\ Exists(req[r].est) /\ rowLock[req[r].est] = r
              /\ status' = [status EXCEPT ![req[r].est] = "approved"]
              /\ snapshotted' = [snapshotted EXCEPT ![req[r].est] = TRUE]
  <1>1. CASE CommitDelete(r)
    BY <1>1 DEF CommitDelete, CanWrite, Unreferenced, At, books
  <1>2. CASE CommitSend(r)
    BY <1>2 DEF CommitSend, CanWrite, At
  <1>3. CASE CommitReject(r)
    BY <1>3 DEF CommitReject, CanWrite, At
  <1>4. CASE CommitApproval(r)
    <2>1. Signing(r)
      BY <1>4 DEF CommitApproval, At, Signing
    <2> QED
      BY <1>4, <2>1 DEF CommitApproval, RowsHeld
  <1>5. CASE ~CommitDelete(r) /\ ~CommitSend(r) /\ ~CommitReject(r) /\ ~CommitApproval(r)
    <2>1. CASE CommitUpdate(r) \/ DeleteLines(r) \/ InsertLines(r)
      BY <2>1 DEF CommitUpdate, DeleteLines, InsertLines, rows
    <2>2. CASE CalculateEstimate(r) \/ CommitCalculate(r)
      BY <2>2 DEF CalculateEstimate, CommitCalculate, rows
    <2>3. CASE FlushApproval(r) \/ PublishApproval(r) \/ Rollback(r)
      BY <2>3 DEF FlushApproval, PublishApproval, Rollback, rows
    <2> QED
      BY <1>5, <2>1, <2>2, <2>3 DEF Handle
  <1> QED
    BY <1>1, <1>2, <1>3, <1>4, <1>5

LEMMA TotalStep ==
    ASSUME TypeOK, Totalled, NEW r \in Requests, Handle(r)
    PROVE  \/ UNCHANGED total
           \/ /\ req[r].op = "calculate" /\ req[r].total \in Nat
              /\ total' = [total EXCEPT ![req[r].est] = req[r].total]
  <1>1. CASE CommitCalculate(r)
    BY <1>1 DEF CommitCalculate, At, Totalled
  <1>2. CASE ~CommitCalculate(r)
    <2>1. CASE CommitUpdate(r) \/ CommitDelete(r) \/ DeleteLines(r) \/ InsertLines(r)
      BY <2>1 DEF CommitUpdate, CommitDelete, DeleteLines, InsertLines, rows
    <2>2. CASE CalculateEstimate(r) \/ CommitSend(r) \/ CommitReject(r)
      BY <2>2 DEF CalculateEstimate, CommitSend, CommitReject, rows
    <2>3. CASE FlushApproval(r) \/ PublishApproval(r) \/ CommitApproval(r) \/ Rollback(r)
      BY <2>3 DEF FlushApproval, PublishApproval, CommitApproval, Rollback, rows
    <2> QED
      BY <1>2, <2>1, <2>2, <2>3 DEF Handle
  <1> QED
    BY <1>1, <1>2

\* Lines are written by the two operations that replace and delete them.
LEMMA LinesStep ==
    ASSUME TypeOK, NEW r \in Requests, Handle(r)
    PROVE  \/ UNCHANGED lines
           \/ /\ req[r].op = "delete" /\ lines' = [lines EXCEPT ![req[r].est] = {}]
           \/ InsertLines(r)
  <1>1. CASE CommitDelete(r)
    BY <1>1 DEF CommitDelete, At
  <1>2. CASE ~CommitDelete(r) /\ ~InsertLines(r)
    <2>1. CASE CommitUpdate(r) \/ DeleteLines(r) \/ CalculateEstimate(r) \/ CommitCalculate(r)
      BY <2>1 DEF CommitUpdate, DeleteLines, CalculateEstimate, CommitCalculate, rows
    <2>2. CASE CommitSend(r) \/ CommitReject(r) \/ CommitApproval(r)
      BY <2>2 DEF CommitSend, CommitReject, CommitApproval, rows
    <2>3. CASE FlushApproval(r) \/ PublishApproval(r) \/ Rollback(r)
      BY <2>3 DEF FlushApproval, PublishApproval, Rollback, rows
    <2> QED
      BY <1>2, <2>1, <2>2, <2>3 DEF Handle
  <1> QED
    BY <1>1, <1>2

LEMMA DepositsStep ==
    ASSUME TypeOK, NEW r \in Requests, Handle(r)
    PROVE  UNCHANGED <<signed, deposits>> \/ CommitApproval(r)
  <1>1. CASE CommitUpdate(r) \/ CommitDelete(r) \/ DeleteLines(r) \/ InsertLines(r)
    BY <1>1 DEF CommitUpdate, CommitDelete, DeleteLines, InsertLines, books
  <1>2. CASE CalculateEstimate(r) \/ CommitCalculate(r) \/ CommitSend(r) \/ CommitReject(r)
    BY <1>2 DEF CalculateEstimate, CommitCalculate, CommitSend, CommitReject, books
  <1>3. CASE FlushApproval(r) \/ PublishApproval(r) \/ Rollback(r)
    BY <1>3 DEF FlushApproval, PublishApproval, Rollback, books
  <1> QED
    BY <1>1, <1>2, <1>3 DEF Handle

LEMMA RowLockStep ==
    ASSUME TypeOK, NEW r \in Requests, Handle(r)
    PROVE  \/ UNCHANGED rowLock
           \/ rowLock' = Released(rowLock, r) /\ req'[r] = Idle
           \/ FlushApproval(r)
  <1>1. End(r) => rowLock' = Released(rowLock, r) /\ req'[r] = Idle
    BY DEF End, TypeOK
  <1> QED
    BY <1>1 DEF Handle, CommitUpdate, CommitDelete, DeleteLines, InsertLines, CalculateEstimate,
                CommitCalculate, CommitSend, CommitReject, PublishApproval, CommitApproval,
                Rollback, locks

-----------------------------------------------------------------------------
(* Lists                                                                   *)

\* Lists stay apart when a step forgets some, or makes one that is apart from those there are.
LEMMA OneMoreList ==
    ASSUME ListsApart, NEW N, OneList(N),
           \A A \in Lists : SameList(A, N) /\ SameList(N, A),
           \A A \in Lists' : A \in Lists \/ A = {} \/ A = N
    PROVE  ListsApart'
  <1>1. OneList({})
    BY FS_EmptySet DEF OneList
  <1>2. \A A : SameList(A, {}) /\ SameList({}, A)
    BY DEF SameList
  <1>3. SameList(N, N)
    BY DEF SameList
  <1>4. \A A \in Lists' : OneList(A)
    BY <1>1 DEF ListsApart
  <1>5. \A A, B \in Lists' : SameList(A, B)
    BY <1>2, <1>3 DEF ListsApart
  <1>6. (\A A \in Lists' : OneList(A)')
    BY <1>4 DEF OneList
  <1>7. (\A A, B \in Lists' : SameList(A, B)')
    BY <1>5 DEF SameList
  <1> QED
    BY <1>6, <1>7 DEF ListsApart

LEMMA ListsNext == TypeOK /\ ListsApart /\ Totalled /\ [Next]_vars => ListsApart'
  <1> SUFFICES ASSUME TypeOK, ListsApart, Totalled, [Next]_vars PROVE ListsApart'
    OBVIOUS
  <1>1. OneList({}) /\ \A A : SameList(A, {}) /\ SameList({}, A)
    BY FS_EmptySet DEF OneList, SameList
  <1>2. ASSUME UNCHANGED lines, \A q \in Requests : ListOf(q)' = ListOf(q) \/ ListOf(q)' = {}
        PROVE  ListsApart'
    <2>1. \A A \in Lists' : A \in Lists \/ A = {}
      BY <1>2 DEF Lists
    <2> QED
      BY <1>1, <2>1, OneMoreList
  <1>3. ASSUME NEW r \in Requests, Call(r) PROVE ListsApart'
    <2>1. PICK rec : Loads(r, rec)
      BY <1>3, CallLoads
    <2>2. UNCHANGED lines
      BY <2>1 DEF Loads, rows
    <2>3. \A q \in Requests : ListOf(q)' = ListOf(q) \/ ListOf(q)' = {}
      BY <2>1 DEF Loads, ListOf, At, Working, TypeOK
    <2> QED
      BY <1>2, <2>2, <2>3
  <1>4. ASSUME NEW r \in Requests, Handle(r) PROVE ListsApart'
    <2> DEFINE e == req[r].est
    <2>1. /\ Working(r) /\ e \in Estimates
          /\ \A q \in Requests \ {r} : ListOf(q)' = ListOf(q)
      BY <1>4, Handled DEF ListOf, At, Working, TypeOK
    <2>2. CASE DeleteLines(r)
      <3>1. UNCHANGED lines
        BY <2>2 DEF DeleteLines, rows
      <3>2. ListOf(r)' = lines[e] \/ ListOf(r)' = {}
        BY <2>1, <2>2 DEF DeleteLines, ListOf, TypeOK
      <3>3. lines[e] \in Lists
        BY <2>1 DEF Lists
      <3>4. \A A \in Lists' : A \in Lists \/ A = {}
        BY <2>1, <3>1, <3>2, <3>3 DEF Lists
      <3> QED
        BY <1>1, <3>4, OneMoreList
    <2>3. CASE InsertLines(r)
      <3> DEFINE rest == lines[e] \ req[r].old
      <3>1. At(r, "lines", "deleted") /\ SlotsFree(rest, Inserted(r))
        BY <2>3 DEF InsertLines, Inserted
      <3>2. lines' = [lines EXCEPT ![e] = rest \cup Inserted(r)]
        BY <2>3 DEF InsertLines, Inserted
      <3>3. lines[e] \in Lists /\ req[r].old \in Lists
        BY <2>1, <3>1 DEF Lists, ListOf
      <3>4. rest = {} \/ rest = lines[e]
        BY <3>3, RestOfList
      <3>5. rest = {} \/ Inserted(r) = {}
        <4> SUFFICES ASSUME rest # {}, Inserted(r) # {} PROVE FALSE
          OBVIOUS
        <4>1. \E x \in rest : x.pos = 1
          BY <3>3, <3>4 DEF ListsApart, OneList
        <4>2. \E y \in Inserted(r) : y.pos = 1
          BY <3>1, InsertedList DEF OneList
        <4> QED
          BY <3>1, <4>1, <4>2 DEF SlotsFree
      <3>6. rest \cup Inserted(r) \in {{}, lines[e], Inserted(r)}
        BY <3>4, <3>5
      <3>7. ListOf(r)' = {}
        BY <2>3 DEF InsertLines, End, ListOf, At, Working, TypeOK
      <3> HIDE DEF rest
      <3>8. \A d \in Estimates : lines'[d] \in Lists \/ lines'[d] = {} \/ lines'[d] = Inserted(r)
        BY <2>1, <3>2, <3>3, <3>6 DEF Lists, TypeOK
      <3>9. \A A \in Lists' : A \in Lists \/ A = {} \/ A = Inserted(r)
        BY <2>1, <3>7, <3>8 DEF Lists
      <3> QED
        BY <3>1, <3>9, InsertedList, OneMoreList
    <2>4. CASE ~DeleteLines(r) /\ ~InsertLines(r)
      <3>1. ListOf(r)' = {}
        <4>1. CASE End(r)
          BY <4>1 DEF End, ListOf, At, Working, TypeOK
        <4>2. CASE ~End(r)
          <5>1. req[r].op # "lines"
            BY <1>4, <2>4, <4>2
               DEF Handle, CommitUpdate, CommitDelete, CalculateEstimate, CommitCalculate,
                   CommitSend, CommitReject, FlushApproval, PublishApproval, CommitApproval,
                   Rollback, At
          <5>2. Working(r)' => req'[r].op # "lines"
            BY <1>4, <5>1, Handled DEF Working, TypeOK
          <5> QED
            BY <5>2 DEF ListOf, At
        <4> QED
          BY <4>1, <4>2
      <3>2. UNCHANGED lines \/ lines' = [lines EXCEPT ![e] = {}]
        BY <1>4, <2>4, LinesStep
      <3>3. \A d \in Estimates : lines'[d] \in Lists \/ lines'[d] = {}
        BY <3>2 DEF Lists, TypeOK
      <3>4. \A A \in Lists' : A \in Lists \/ A = {}
        BY <2>1, <3>1, <3>3 DEF Lists
      <3> QED
        BY <1>1, <3>4, OneMoreList
    <2> QED
      BY <2>2, <2>3, <2>4
  <1>5. ASSUME NEW e \in Estimates, NEW m \in Markups, NEW p \in BOOLEAN, CreateEstimate(e, m, p)
        PROVE  ListsApart'
    BY <1>2, <1>5 DEF CreateEstimate, ListOf, At, Working
  <1>6. CASE UNCHANGED vars
    BY <1>2, <1>6 DEF vars, rows, ListOf, At, Working
  <1> QED
    BY <1>3, <1>4, <1>5, <1>6 DEF Next

-----------------------------------------------------------------------------
(* Totals                                                                  *)

LEMMA TotalledNext == Sound /\ [Next]_vars => Totalled'
  <1> SUFFICES ASSUME Sound, [Next]_vars PROVE Totalled'
    OBVIOUS
  <1> USE DEF Sound
  <1>1. ASSUME NEW r \in Requests, Call(r) PROVE Totalled'
    <2>1. PICK rec : Loads(r, rec)
      BY <1>1, CallLoads
    <2>2. UNCHANGED <<status, total>>
      BY <2>1 DEF Loads, rows
    <2>3. /\ req' = [req EXCEPT ![r] = rec] /\ rec.pc = "loaded"
          /\ rec.op \in {"send", "reject", "approve"} => total[rec.est] \in Nat
      BY <2>1 DEF Loads
    <2> QED
      BY <2>2, <2>3 DEF Totalled, Working, TypeOK
  <1>2. ASSUME NEW r \in Requests, Handle(r) PROVE Totalled'
    <2> DEFINE e == req[r].est
    <2>1. PICK rec : /\ req' = [req EXCEPT ![r] = rec]
                     /\ rec = Idle \/ (rec # Idle /\ rec.op = req[r].op /\ rec.est = e)
      BY <1>2, Handled
    <2>2. Working(r) /\ e \in Estimates
      BY <1>2, Handled
    <2>3. \A d \in Estimates : total[d] \in Nat => total'[d] \in Nat
      BY <1>2, TotalStep DEF TypeOK
    <2>4. \A d \in Estimates :
              status'[d] \in {"sent", "approved", "rejected"} => total'[d] \in Nat
      <3> TAKE d \in Estimates
      <3>1. CASE status'[d] = status[d]
        BY <2>3, <3>1 DEF Totalled
      <3>2. CASE status'[d] # status[d] /\ status'[d] \in {"sent", "approved", "rejected"}
        <4>1. d = e /\ req[r].op \in {"send", "reject", "approve"}
          <5>1. TypeOK /\ RowsHeld
            OBVIOUS
          <5>2. PICK new : /\ status' = [status EXCEPT ![e] = new]
                           /\ new = "deleted" \/ req[r].op \in {"send", "reject", "approve"}
            <6>1. status' # status
              BY <3>2
            <6> QED
              BY <1>2, <5>1, <6>1, StatusStep, Zenon DEF Signing
          <5>3. d = e /\ new # "deleted"
            BY <2>2, <3>2, <5>1, <5>2 DEF TypeOK
          <5> QED
            BY <5>2, <5>3
        <4>2. total[e] \in Nat
          BY Zenon, <2>2, <4>1 DEF Totalled
        <4> QED
          BY <2>2, <2>3, <4>1, <4>2
      <3> QED
        BY <3>1, <3>2
    <2>5. \A q \in Requests : Working(q)' /\ req'[q].op \in {"send", "reject", "approve"} =>
              total'[req'[q].est] \in Nat
      <3> TAKE q \in Requests
      <3> HAVE Working(q)' /\ req'[q].op \in {"send", "reject", "approve"}
      <3>1. Working(q) /\ req[q].op = req'[q].op /\ req[q].est = req'[q].est
        BY <2>1, <2>2 DEF Working, TypeOK
      <3>2. total[req[q].est] \in Nat /\ req[q].est \in Estimates
        BY <3>1, Fields DEF Totalled
      <3> QED
        BY <2>3, <3>1, <3>2
    <2>6. \A q \in Requests : Working(q)' /\ req'[q].op = "calculate"
              /\ req'[q].pc = "calculated" => req'[q].total \in Nat
      <3> TAKE q \in Requests
      <3>1. CASE q # r
        BY <2>1, <3>1 DEF Totalled, Working, TypeOK
      <3>2. CASE q = r /\ CalculateEstimate(r)
        <4> DEFINE t == Quantity(lines[e]) * req[r].markup
        <4>1. req[r].markup \in Nat
          BY <3>2, Fields DEF CalculateEstimate, At
        <4>2. t \in Nat
          BY <2>2, <4>1, QuantityNat
        <4>3. req' = [req EXCEPT ![r] = [req[r] EXCEPT !.pc = "calculated", !.total = t]]
          BY <3>2 DEF CalculateEstimate, TypeOK
        <4>4. req[r] \in [op : {"calculate"}, est : Estimates, pc : {"loaded", "calculated"},
                          had : Nat \cup {NoTotal}, markup : Nat, total : Nat \cup {NoTotal}]
          BY <3>2 DEF CalculateEstimate, At, TypeOK, Working, Requesting
        <4> HIDE DEF t
        <4>5. req'[r].total = t
          BY <4>3, <4>4 DEF TypeOK
        <4> QED
          BY <3>2, <4>2, <4>5
      <3>3. CASE q = r /\ ~CalculateEstimate(r)
        <4>1. End(r) => ~Working(r)'
          BY DEF End, Working, TypeOK
        <4>2. End(r) \/ req[r].op # "calculate"
          BY <1>2, <3>3
             DEF Handle, CommitUpdate, CommitDelete, DeleteLines, InsertLines, CommitCalculate,
                 CommitSend, CommitReject, FlushApproval, PublishApproval, CommitApproval,
                 Rollback, At
        <4> QED
          BY <2>1, <2>2, <3>3, <4>1, <4>2 DEF Working, TypeOK
      <3> QED
        BY <3>1, <3>2, <3>3
    <2> QED
      BY <2>4, <2>5, <2>6 DEF Totalled
  <1>3. ASSUME NEW e \in Estimates, NEW m \in Markups, NEW p \in BOOLEAN, CreateEstimate(e, m, p)
        PROVE  Totalled'
    <2>1. UNCHANGED <<total, req>> /\ status' = [status EXCEPT ![e] = "draft"]
      BY <1>3 DEF CreateEstimate, DraftStatus
    <2> QED
      BY <2>1 DEF Totalled, Working, TypeOK
  <1>4. CASE UNCHANGED vars
    BY <1>4 DEF vars, rows, Totalled, Working
  <1> QED
    BY <1>1, <1>2, <1>3, <1>4 DEF Next

-----------------------------------------------------------------------------
(* Rows                                                                    *)

LEMMA RowsNext == Sound /\ [Next]_vars => RowsHeld'
  <1> SUFFICES ASSUME Sound, [Next]_vars PROVE RowsHeld'
    OBVIOUS
  <1> USE DEF Sound
  <1>1. ASSUME NEW r \in Requests, Call(r) PROVE RowsHeld'
    <2>1. PICK rec : Loads(r, rec)
      BY <1>1, CallLoads
    <2>2. UNCHANGED <<status, snapshotted, lines, signed, deposits, rowLock>>
      BY <2>1 DEF Loads, rows, books, locks
    <2>3. req' = [req EXCEPT ![r] = rec] /\ rec.pc = "loaded" /\ status[rec.est] # "none"
      BY <2>1 DEF Loads, Exists, Statuses
    <2>4. \A q \in Requests : Signing(q)' => Signing(q) /\ req'[q].est = req[q].est
      BY <2>3 DEF Signing, TypeOK
    <2>5. \A q \in Requests : Working(q)' => status'[req'[q].est] # "none"
      BY <2>2, <2>3 DEF RowsHeld, Working, TypeOK
    <2>6. \A q \in Requests : At(q, "delete", "loaded")' => req'[q].unsigned
      <3>1. rec.op = "delete" => rec.unsigned
        BY <2>1 DEF Loads, RowsHeld
      <3> QED
        BY <2>3, <3>1 DEF RowsHeld, At, Working, TypeOK
    <2> QED
      BY <2>2, <2>4, <2>5, <2>6 DEF RowsHeld, Exists
  <1>2. ASSUME NEW r \in Requests, Handle(r) PROVE RowsHeld'
    <2> DEFINE e == req[r].est
    <2>1. PICK rec : /\ req' = [req EXCEPT ![r] = rec]
                     /\ rec = Idle \/ (rec # Idle /\ rec.op = req[r].op /\ rec.est = e)
      BY <1>2, Handled
    <2>2. Working(r) /\ e \in Estimates
      BY <1>2, Handled
    <2>0. \/ UNCHANGED <<status, snapshotted>>
          \/ /\ UNCHANGED snapshotted
             /\ \E s \in {"sent", "rejected", "deleted"} : status' = [status EXCEPT ![e] = s]
          \/ /\ status' = [status EXCEPT ![e] = "approved"]
             /\ snapshotted' = [snapshotted EXCEPT ![e] = TRUE]
      BY <1>2, StatusStep
    <2>3. \A d \in Estimates : status[d] # "none" <=> status'[d] # "none"
      <3>1. status[e] # "none"
        BY <2>2 DEF RowsHeld
      <3> QED
        BY <2>0, <2>2, <3>1 DEF TypeOK
    <2>4. \A q \in Requests : Working(q)' => status'[req'[q].est] # "none"
      <3> TAKE q \in Requests
      <3> HAVE Working(q)'
      <3>1. Working(q) /\ req'[q].est = req[q].est
        BY <2>1, <2>2 DEF Working, TypeOK
      <3> QED
        BY <2>3, <3>1, Fields DEF RowsHeld
    <2>5. ASSUME NEW q \in Requests, Signing(q)'
          PROVE  rowLock'[req'[q].est] = q /\ status'[req'[q].est] \in Statuses
      <3>1. CASE q # r
        <4>1. Signing(q) /\ req'[q] = req[q] /\ Working(q)
          BY <2>1, <2>5, <3>1, IdleOp DEF Signing, Working, TypeOK
        <4>2. rowLock[req[q].est] = q /\ Exists(req[q].est) /\ req[q].est \in Estimates
          BY <4>1, Fields DEF RowsHeld
        <4>3. q # Nobody
          BY NobodyAssumption DEF NobodyAssumption
        <4>4. rowLock'[req[q].est] = q
          BY <1>2, <3>1, <4>2, <4>3, RowLockStep
             DEF Released, FlushApproval, CanWrite, TypeOK
        <4>5. status'[req[q].est] = status[req[q].est]
              \/ status'[req[q].est] \in {"sent", "rejected", "approved"}
          BY <1>2, <3>1, <4>2, <4>3, StatusStep DEF TypeOK
        <4> QED
          BY <4>1, <4>2, <4>4, <4>5 DEF Exists, Statuses
      <3>2. CASE q = r
        <4>1. rec # Idle
          BY <2>1, <2>5, <3>2, IdleOp DEF Signing, TypeOK
        <4>2. FlushApproval(r) \/ PublishApproval(r)
          <5>1. ~End(r)
            BY <2>1, <4>1 DEF End, TypeOK
          <5>2. req[r].op = "approve"
            BY <2>1, <2>5, <3>2, <4>1 DEF Signing, TypeOK
          <5> QED
            BY <1>2, <5>1, <5>2
               DEF Handle, CommitUpdate, CommitDelete, DeleteLines, InsertLines, CalculateEstimate,
                   CommitCalculate, CommitSend, CommitReject, CommitApproval, Rollback, At
        <4>3. rowLock'[e] = r /\ Exists(e)
          <5>1. CASE FlushApproval(r)
            BY <2>2, <5>1 DEF FlushApproval, CanWrite, TypeOK
          <5>2. CASE PublishApproval(r)
            <6>1. Signing(r)
              BY <5>2 DEF PublishApproval, Signing, At
            <6> QED
              BY <5>2, <6>1 DEF PublishApproval, RowsHeld
          <5> QED
            BY <4>2, <5>1, <5>2
        <4>4. UNCHANGED status
          BY <4>2 DEF FlushApproval, PublishApproval, rows
        <4> QED
          BY <2>1, <3>2, <4>1, <4>3, <4>4 DEF Exists, TypeOK
      <3> QED
        BY <3>1, <3>2
    <2>6. \A d \in Estimates : status'[d] \in {"none", "draft"} => signed'[d] = <<>>
      <3> TAKE d \in Estimates
      <3> HAVE status'[d] \in {"none", "draft"}
      <3>1. status[d] = status'[d]
        BY <2>0, <2>2 DEF TypeOK
      <3>2. CommitApproval(r) => d # e
        BY <2>2 DEF CommitApproval, TypeOK
      <3>3. signed'[d] = signed[d]
        BY <1>2, <2>2, <3>2, DepositsStep DEF CommitApproval, TypeOK
      <3> QED
        BY <3>1, <3>3 DEF RowsHeld
    <2>9. \A q \in Requests : At(q, "delete", "loaded")' => req'[q].unsigned
      <3> TAKE q \in Requests
      <3> HAVE At(q, "delete", "loaded")'
      <3>1. CASE q # r
        BY <2>1, <3>1 DEF RowsHeld, At, Working, TypeOK
      <3>2. CASE q = r
        <4>1. rec # Idle /\ req[r].op = "delete"
          BY <2>1, <3>2 DEF At, Working, TypeOK
        <4>2. End(r)
          BY <1>2, <4>1
             DEF Handle, CommitUpdate, CommitDelete, DeleteLines, InsertLines, CalculateEstimate,
                 CommitCalculate, CommitSend, CommitReject, FlushApproval, PublishApproval,
                 CommitApproval, Rollback, At
        <4> QED
          BY <2>1, <4>1, <4>2 DEF End, TypeOK
      <3> QED
        BY <3>1, <3>2
    <2>7. \A d \in Estimates : status'[d] = "deleted" => lines'[d] = {} /\ deposits'[d] = <<>>
      <3> TAKE d \in Estimates
      <3> HAVE status'[d] = "deleted"
      <3>1. CASE status[d] = "deleted"
        <4>1. lines[d] = {} /\ deposits[d] = <<>>
          BY <3>1 DEF RowsHeld
        <4>2. lines'[d] = lines[d]
          BY <1>2, <2>2, <3>1, <4>1, LinesStep DEF InsertLines, Exists, Statuses, TypeOK
        <4>3. deposits'[d] = deposits[d]
          <5>1. CASE CommitApproval(r)
            <6>1. Exists(e)
              BY <5>1 DEF CommitApproval, At, Signing, RowsHeld
            <6>2. d # e
              BY <3>1, <6>1 DEF Exists, Statuses
            <6> QED
              BY <5>1, <6>2 DEF CommitApproval, TypeOK
          <5> QED
            BY <1>2, <5>1, DepositsStep
        <4> QED
          BY <4>1, <4>2, <4>3
      <3>2. CASE status[d] # "deleted"
        BY <1>2, <2>2, <3>2, StatusStep DEF TypeOK
      <3> QED
        BY <3>1, <3>2
    <2>8. \A d \in Estimates : snapshotted'[d] => status'[d] \notin {"none", "draft"}
      BY <2>0, <2>2 DEF RowsHeld, TypeOK
    <2> QED
      BY <2>4, <2>5, <2>6, <2>7, <2>8, <2>9 DEF RowsHeld, Exists
  <1>3. ASSUME NEW e \in Estimates, NEW m \in Markups, NEW p \in BOOLEAN, CreateEstimate(e, m, p)
        PROVE  RowsHeld'
    <2>1. /\ UNCHANGED <<snapshotted, lines, signed, deposits, rowLock, req>>
          /\ status[e] = "none" /\ status' = [status EXCEPT ![e] = "draft"]
      BY <1>3 DEF CreateEstimate, books, locks, DraftStatus
    <2>2. ~snapshotted[e]
      BY <2>1 DEF RowsHeld
    <2>3. \A q \in Requests : Signing(q) => Working(q)
      BY IdleOp DEF Signing, Working
    <2>4. \A q \in Requests : Working(q) => req[q].est # e /\ req[q].est \in Estimates
      BY <2>1, Fields DEF RowsHeld
    <2>5. \A q \in Requests : Signing(q)' => rowLock'[req'[q].est] = q /\ status'[req'[q].est] \in Statuses
      BY <2>1, <2>3, <2>4 DEF RowsHeld, Signing, Exists, TypeOK
    <2>6. \A q \in Requests : Working(q)' => status'[req'[q].est] # "none"
      BY <2>1, <2>4 DEF RowsHeld, Working, TypeOK
    <2>7. signed[e] = <<>>
      BY <2>1 DEF RowsHeld
    <2>8. \A q \in Requests : At(q, "delete", "loaded")' => req'[q].unsigned
      BY <2>1 DEF RowsHeld, At, Working
    <2> QED
      BY <2>1, <2>2, <2>5, <2>6, <2>7, <2>8 DEF RowsHeld, Exists, TypeOK
  <1>4. CASE UNCHANGED vars
    BY <1>4 DEF vars, rows, books, locks, RowsHeld, Working, Signing, Exists, At
  <1> QED
    BY <1>1, <1>2, <1>3, <1>4 DEF Next

-----------------------------------------------------------------------------
(* One request at a time                                                   *)

LEMMA AloneNext == Sound /\ [Next]_vars => Alone'
  <1> SUFFICES ASSUME Sound, [Next]_vars, ~raced' PROVE Alone'
    BY DEF Alone
  <1> USE DEF Sound
  <1>1. ASSUME NEW r \in Requests, Call(r) PROVE Alone'
    <2>1. PICK rec : Loads(r, rec)
      BY <1>1, CallLoads
    <2>2. UNCHANGED <<status, snapshotted>>
      BY <2>1 DEF Loads, rows
    <2>3. ~raced /\ \A q \in Requests \ {r} : Working(q) => req[q].est # rec.est
      BY <2>1 DEF Loads
    <2>4. /\ req' = [req EXCEPT ![r] = rec]
          /\ rec.op \in {"lines", "calculate"} => Editable(rec.est)
          /\ rec.op = "delete" => status[rec.est] = "draft"
      BY <2>1 DEF Loads
    <2>5. req'[r] = rec /\ \A q \in Requests \ {r} : req'[q] = req[q]
      BY <2>4 DEF TypeOK
    <2>6. \A p, q \in Requests :
              p # q /\ Working(p)' /\ Working(q)' => req'[p].est # req'[q].est
      BY <2>3, <2>5 DEF Alone, Working
    <2>7. \A q \in Requests : Working(q)' =>
             /\ req'[q].op \in {"lines", "calculate"} => Editable(req'[q].est)
             /\ req'[q].op = "delete" => status[req'[q].est] = "draft"
      BY <2>3, <2>4, <2>5 DEF Alone, Working
    <2> QED
      BY <2>2, <2>6, <2>7 DEF Alone, Editable
  <1>2. ASSUME NEW r \in Requests, Handle(r) PROVE Alone'
    <2> DEFINE e == req[r].est
    <2>1. PICK rec : /\ req' = [req EXCEPT ![r] = rec]
                     /\ rec = Idle \/ (rec # Idle /\ rec.op = req[r].op /\ rec.est = e)
      BY <1>2, Handled
    <2>2. Working(r) /\ e \in Estimates /\ ~raced
      BY <1>2, Handled
    <2>3. req'[r] = rec /\ \A q \in Requests \ {r} : req'[q] = req[q]
      BY <2>1 DEF TypeOK
    <2>4. \A q \in Requests : Working(q)' => Working(q) /\ req'[q].est = req[q].est
                                             /\ req'[q].op = req[q].op
      BY <2>1, <2>2, <2>3 DEF Working
    <2>0. /\ UNCHANGED status \/ \E s : status' = [status EXCEPT ![e] = s]
          /\ UNCHANGED snapshotted \/ snapshotted' = [snapshotted EXCEPT ![e] = TRUE]
      BY <1>2, StatusStep
    <2>5. \A d \in Estimates \ {e} : status'[d] = status[d] /\ snapshotted'[d] = snapshotted[d]
      BY <2>0, <2>2 DEF TypeOK
    <2>6. \A q \in Requests \ {r} : Working(q) => req[q].est \in Estimates \ {e}
      BY <2>2, Fields DEF Alone
    <2>7. req[r].op \in {"lines", "calculate"} => UNCHANGED <<status, snapshotted>>
      BY <1>2, StatusStep DEF Signing
    <2>8. req[r].op = "delete" => ~Working(r)'
      <3>1. End(r) => ~Working(r)'
        BY DEF End, Working, TypeOK
      <3> QED
        BY <1>2, <3>1
           DEF Handle, CommitUpdate, CommitDelete, DeleteLines, InsertLines, CalculateEstimate,
               CommitCalculate, CommitSend, CommitReject, FlushApproval, PublishApproval,
               CommitApproval, Rollback, At
    <2>9. \A q \in Requests : Working(q)' =>
             /\ req'[q].op \in {"lines", "calculate"} =>
                   ~snapshotted'[req'[q].est] /\ status'[req'[q].est] # "sent"
             /\ req'[q].op = "delete" => status'[req'[q].est] = "draft"
      <3> TAKE q \in Requests
      <3> HAVE Working(q)'
      <3>1. Working(q) /\ req'[q].est = req[q].est /\ req'[q].op = req[q].op
        BY <2>4
      <3>2. /\ req[q].op \in {"lines", "calculate"} =>
                  ~snapshotted[req[q].est] /\ status[req[q].est] # "sent"
            /\ req[q].op = "delete" => status[req[q].est] = "draft"
        BY <2>2, <3>1 DEF Alone, Editable
      <3>3. CASE q # r
        BY <2>5, <2>6, <3>1, <3>2, <3>3
      <3>4. CASE q = r
        BY <2>7, <2>8, <3>1, <3>2, <3>4
      <3> QED
        BY <3>3, <3>4
    <2>10. \A p, q \in Requests :
              p # q /\ Working(p)' /\ Working(q)' => req'[p].est # req'[q].est
      BY <2>2, <2>4 DEF Alone
    <2> QED
      BY <2>9, <2>10 DEF Alone, Editable
  <1>3. ASSUME NEW e \in Estimates, NEW m \in Markups, NEW p \in BOOLEAN, CreateEstimate(e, m, p)
        PROVE  Alone'
    <2>1. /\ UNCHANGED <<snapshotted, req, raced>>
          /\ status[e] = "none" /\ status' = [status EXCEPT ![e] = "draft"]
      BY <1>3 DEF CreateEstimate, DraftStatus
    <2>2. \A q \in Requests : Working(q) => req[q].est # e /\ req[q].est \in Estimates
      BY <2>1, Fields DEF RowsHeld
    <2>3. \A q \in Requests : Working(q) => status'[req[q].est] = status[req[q].est]
      BY <2>1, <2>2 DEF TypeOK
    <2> QED
      BY <2>1, <2>3 DEF Alone, Editable, Working
  <1>4. CASE UNCHANGED vars
    BY <1>4 DEF vars, rows, Alone, Editable, Working
  <1> QED
    BY <1>1, <1>2, <1>3, <1>4 DEF Next

LEMMA InitSound == Init => Sound
  <1> SUFFICES ASSUME Init PROVE Sound
    OBVIOUS
  <1>1. TypeOK
    BY InitTyped
  <1>2. \A r \in Requests : req[r] = Idle
    BY DEF Init
  <1>3. ListsApart
    <2>1. \A A \in Lists : A = {}
      BY <1>2 DEF Lists, ListOf, At, Working, Init
    <2> QED
      BY <2>1, FS_EmptySet DEF ListsApart, OneList, SameList
  <1>4. RowsHeld
    BY <1>2, IdleOp DEF RowsHeld, Working, Signing, At, Init
  <1>5. Totalled /\ Alone
    BY <1>2 DEF Totalled, Alone, Working, Init
  <1> QED
    BY <1>1, <1>3, <1>4, <1>5 DEF Sound

THEOREM Inductive == Spec => []Sound
  <1>1. Sound /\ [Next]_vars => Sound'
    BY NextTyped, ListsNext, TotalledNext, RowsNext, AloneNext DEF Sound
  <1> QED
    BY InitSound, <1>1, PTL DEF Spec

\* Every row, lock and request of estimates keeps its type.
THEOREM EstimatesTyped == Spec => []TypeOK
  <1>1. Sound => TypeOK
    BY DEF Sound
  <1> QED
    BY <1>1, Inductive, PTL

\* Two concurrent replaces never leave a mixture: the snapshot of the DELETE, its lock on the rows
\* and UNIQUE (estimate_id, position) see to it together (estimates.py:684).
THEOREM NoMixture == Spec => []LinesOfOneRequest
  <1>1. Sound => LinesOfOneRequest
    BY DEF Sound, ListsApart, Lists, OneList, LinesOfOneRequest
  <1> QED
    BY <1>1, Inductive, PTL

-----------------------------------------------------------------------------
(* Frozen estimates                                                        *)

\* As long as no two requests are at work on one estimate, what is out with the client or was signed
\* keeps its lines and its total (estimates.py:531, 547, 759, 770).
THEOREM FrozenStays == Spec => FrozenWhenAlone
  <1>1. ASSUME Sound, [Next]_vars, NEW e \in Estimates,
               ~raced', Exists(e), snapshotted[e] \/ status[e] = "sent"
        PROVE  lines'[e] = lines[e] /\ total'[e] = total[e]
    <2>1. CASE \E r \in Requests : Call(r)
      BY <1>1, <2>1, CallLoads DEF Sound, Loads, rows
    <2>2. CASE \E r \in Requests : Handle(r)
      <3> PICK r \in Requests : Handle(r)
        BY <2>2
      <3>1. TypeOK /\ Totalled /\ RowsHeld /\ Alone /\ Working(r) /\ ~raced
        BY <1>1, Handled DEF Sound
      <3>2. status[e] # "draft"
        BY <1>1, <3>1 DEF RowsHeld
      <3>3. req[r].est = e => req[r].op \notin {"lines", "calculate", "delete"}
        BY <1>1, <3>1, <3>2 DEF Alone, Editable
      <3>4. lines'[e] = lines[e]
        BY <3>1, <3>3, LinesStep DEF InsertLines, At, TypeOK
      <3>5. total'[e] = total[e]
        BY <3>1, <3>3, TotalStep DEF TypeOK
      <3> QED
        BY <3>4, <3>5
    <2>3. CASE \E d \in Estimates, m \in Markups, p \in BOOLEAN : CreateEstimate(d, m, p)
      BY <2>3 DEF CreateEstimate
    <2>4. CASE UNCHANGED vars
      BY <2>4 DEF vars, rows
    <2> QED
      BY <1>1, <2>1, <2>2, <2>3, <2>4 DEF Next
  <1>2. Sound /\ [Next]_vars =>
          \A e \in Estimates :
             ~raced' /\ Exists(e) /\ (snapshotted[e] \/ status[e] = "sent")
                => lines'[e] = lines[e] /\ total'[e] = total[e]
    BY <1>1
  <1> QED
    BY <1>2, Inductive, PTL DEF Spec, FrozenWhenAlone

-----------------------------------------------------------------------------
(* Deposits                                                                *)

\* (2n + d) \div 2d is the one number of cents nearest to n / d, the larger of two: here for d = 100.
LEMMA HalfUpIs ==
    ASSUME NEW t \in Nat
    PROVE  HalfUp(t * DepositPercent, 100) = Deposit(t)
  <1> DEFINE n == t * DepositPercent
             k == (n + 50) \div 100
  <1>1. n \in Nat
    BY MoneyAssumption DEF MoneyAssumption
  <1> HIDE DEF n
  <1>2. k \in 0 .. n /\ 2 * 100 * k <= 2 * n + 100 /\ 2 * n + 100 < 2 * 100 * (k + 1)
    BY <1>1
  <1>3. \A j \in 0 .. n : 2 * 100 * j <= 2 * n + 100 /\ 2 * n + 100 < 2 * 100 * (j + 1) => j = k
    BY <1>1
  <1> HIDE DEF k
  <1>4. HalfUp(n, 100) = k
    BY <1>2, <1>3 DEF HalfUp
  <1> QED
    BY <1>4 DEF Deposit, n, k

LEMMA Appended ==
    ASSUME NEW T, NEW s \in Seq(T), NEW v \in T
    PROVE  /\ Len(s) \in Nat /\ s \in [1 .. Len(s) -> T]
           /\ Append(s, v) \in [1 .. Len(s) + 1 -> T]
           /\ Append(s, v)[Len(s) + 1] = v
           /\ \A i \in 1 .. Len(s) : Append(s, v)[i] = s[i]
  <1>1. Len(s) \in Nat /\ s \in [1 .. Len(s) -> T]
    OBVIOUS
  <1>2. Append(s, v) \in Seq(T) /\ Len(Append(s, v)) = Len(s) + 1
    OBVIOUS
  <1>3. Append(s, v) \in [1 .. Len(s) + 1 -> T]
    <2> DEFINE z == Append(s, v)
    <2>1. z \in Seq(T) /\ Len(z) = Len(s) + 1
      BY <1>2
    <2> HIDE DEF z
    <2>2. z \in [1 .. Len(s) + 1 -> T]
      BY <2>1
    <2> QED
      BY <2>2 DEF z
  <1>4. Append(s, v)[Len(s) + 1] = v
    BY <1>1
  <1>5. \A i \in 1 .. Len(s) : Append(s, v)[i] = s[i]
    BY <1>1
  <1> QED
    BY <1>1, <1>3, <1>4, <1>5

Shares(s) == [i \in DOMAIN s |-> HalfUp(s[i].total * DepositPercent, 100)]

\* One more signature, one more share.
LEMMA OneMoreShare ==
    ASSUME NEW s \in Seq([total : Nat, qty : Nat]), NEW sig \in [total : Nat, qty : Nat]
    PROVE  Shares(Append(s, sig)) = Append(Shares(s), Deposit(sig.total))
  <1> DEFINE T == [total : Nat, qty : Nat]
             h == [u \in T |-> HalfUp(u.total * DepositPercent, 100)]
             z == Append(s, sig)
  <1> DEFINE n == Len(s)
  <1>1. /\ n \in Nat /\ s \in [1 .. n -> T] /\ z \in [1 .. n + 1 -> T]
        /\ z[n + 1] = sig
        /\ \A i \in 1 .. n : z[i] = s[i]
    <2>1. s \in Seq(T) /\ sig \in T
      OBVIOUS
    <2> HIDE DEF T, h
    <2> QED
      BY <2>1, Appended
  <1>2. \A i \in 1 .. n : s[i] \in T
    BY <1>1
  <1> HIDE DEF z, n
  <1>3. Shares(s) = [i \in 1 .. n |-> h[s[i]]]
    BY <1>1 DEF Shares
  <1>4. Shares(z) = [i \in 1 .. n + 1 |-> h[z[i]]]
    BY <1>1 DEF Shares
  <1>5. h[sig] = Deposit(sig.total)
    BY HalfUpIs
  <1> HIDE DEF h
  <1>6. Shares(z) = Append([i \in 1 .. n |-> h[s[i]]], h[sig])
    BY <1>1, <1>2, <1>4
  <1> QED
    BY <1>3, <1>5, <1>6 DEF z

\* What the books say of an estimate.
Books(e) == deposits[e] = IF Deposited(e) THEN Shares(signed[e]) ELSE <<>>

LEMMA BooksAre == DepositPerSignature <=> \A e \in Estimates : Books(e)
  BY DEF DepositPerSignature, Books, Shares

LEMMA NoShares == Shares(<<>>) = <<>>
  BY DEF Shares

\* Every signature on a project's estimate has drafted one deposit, of the company's share of what was
\* signed to the nearest cent, whatever raced and rolled back (services/estimate_approved_handler.py).
THEOREM DepositDrafted == Spec => []DepositPerSignature
  <1>1. Init => DepositPerSignature
    BY NoShares, BooksAre DEF Init, Books
  <1>2. ASSUME Sound, DepositPerSignature, [Next]_vars
        PROVE  DepositPerSignature'
    <2>0. TypeOK /\ RowsHeld /\ \A e \in Estimates : Books(e)
      BY <1>2, BooksAre DEF Sound
    <2>1. ASSUME UNCHANGED <<signed, deposits, scoped>> PROVE DepositPerSignature'
      BY <1>2, <2>1 DEF DepositPerSignature, Deposited, HalfUp
    <2>2. CASE \E r \in Requests : Call(r)
      <3>1. PICK r \in Requests : \E rec : Loads(r, rec)
        BY <1>2, <2>2, CallLoads DEF Sound
      <3>2. UNCHANGED <<signed, deposits, scoped>>
        <4>1. UNCHANGED <<rows, books, locks>>
          BY Zenon, <3>1 DEF Loads
        <4> QED
          BY <4>1 DEF rows, books
      <3> QED
        BY <2>1, <3>2
    <2>3. CASE \E r \in Requests : Handle(r)
      <3> PICK r \in Requests : Handle(r)
        BY <2>3
      <3> DEFINE e == req[r].est
                 sig == [total |-> req[r].total, qty |-> req[r].qty]
      <3>1. UNCHANGED scoped
        BY DEF Handle, CommitUpdate, CommitDelete, DeleteLines, InsertLines, CalculateEstimate,
               CommitCalculate, CommitSend, CommitReject, FlushApproval, PublishApproval,
               CommitApproval, Rollback, rows
      <3>2. CASE CommitApproval(r)
        <4>1. e \in Estimates /\ req[r].total \in Nat /\ req[r].qty \in Nat
          BY <2>0, <3>2, Fields DEF CommitApproval, At
        <4>2. signed[e] \in Seq([total : Nat, qty : Nat]) /\ sig \in [total : Nat, qty : Nat]
          BY <2>0, <4>1 DEF TypeOK
        <4>3. signed' = [signed EXCEPT ![e] = Append(signed[e], sig)]
          BY <3>2 DEF CommitApproval
        <4>4. deposits' = IF Deposited(e)
                            THEN [deposits EXCEPT ![e] = Append(deposits[e], Deposit(sig.total))]
                            ELSE deposits
          BY <3>2 DEF CommitApproval
        <4> HIDE DEF sig
        <4>5. Shares(Append(signed[e], sig)) = Append(Shares(signed[e]), Deposit(sig.total))
          BY <4>2, OneMoreShare
        <4>6. \A d \in Estimates : Deposited(d)' = Deposited(d)
          BY <3>1 DEF Deposited
        <4>7. \A d \in Estimates : deposits'[d] = IF Deposited(d) THEN Shares(signed'[d]) ELSE <<>>
          <5> TAKE d \in Estimates
          <5>1. CASE d # e
            BY <2>0, <4>3, <4>4, <5>1 DEF Books, TypeOK
          <5>2. CASE d = e
            <6>1. signed'[e] = Append(signed[e], sig)
              BY <2>0, <4>1, <4>3 DEF TypeOK
            <6>2. deposits'[e] = IF Deposited(e) THEN Append(deposits[e], Deposit(sig.total))
                                                 ELSE deposits[e]
              BY <2>0, <4>1, <4>4 DEF TypeOK
            <6>3. Books(e)
              BY <2>0, <4>1
            <6> QED
              BY <4>5, <5>2, <6>1, <6>2, <6>3 DEF Books
          <5> QED
            BY <5>1, <5>2
        <4>8. \A d \in Estimates : deposits'[d] = IF Deposited(d)' THEN Shares(signed'[d]) ELSE <<>>
          BY <4>6, <4>7
        <4> QED
          BY <4>8 DEF DepositPerSignature, Shares, Deposited, HalfUp
      <3>3. CASE UNCHANGED <<signed, deposits>>
        BY <2>1, <3>1, <3>3
      <3> QED
        BY <2>0, <3>2, <3>3, DepositsStep
    <2>4. CASE \E e \in Estimates, m \in Markups, p \in BOOLEAN : CreateEstimate(e, m, p)
      <3> PICK e \in Estimates, m \in Markups, p \in BOOLEAN : CreateEstimate(e, m, p)
        BY <2>4
      <3>1. /\ UNCHANGED <<signed, deposits>> /\ scoped' = [scoped EXCEPT ![e] = p]
            /\ signed[e] = <<>>
        BY <2>0 DEF CreateEstimate, books, RowsHeld
      <3>2. deposits[e] = <<>>
        BY <2>0, <3>1, NoShares DEF Books
      <3>3. \A d \in Estimates : deposits'[d] = IF Deposited(d)' THEN Shares(signed'[d]) ELSE <<>>
        <4> TAKE d \in Estimates
        <4>1. CASE d = e
          BY <3>1, <3>2, <4>1, NoShares
        <4>2. CASE d # e
          BY <2>0, <3>1, <4>2 DEF Books, Deposited, TypeOK
        <4> QED
          BY <4>1, <4>2
      <3> QED
        BY <3>3 DEF DepositPerSignature, Shares, Deposited, HalfUp
    <2>5. CASE UNCHANGED vars
      BY <2>1, <2>5 DEF vars, rows, books
    <2> QED
      BY <1>2, <2>2, <2>3, <2>4, <2>5 DEF Next
  <1>3. Sound /\ DepositPerSignature /\ [Next]_vars => DepositPerSignature'
    BY <1>2
  <1> QED
    BY <1>1, <1>3, Inductive, PTL DEF Spec

\* A signed estimate whose signature has drafted a deposit is never deleted, and another one only by a
\* request that had loaded it before it was signed: as long as each signature has its deposit, the
\* reference of the invoice is in the way of the deletion (estimates.py:334).
THEOREM SignedStays == Spec => SignedSurvives
  <1>1. ASSUME Sound, DepositPerSignature, [Next]_vars, NEW e \in Estimates,
               Exists(e), ~Exists(e)', signed[e] # <<>>
        PROVE  /\ ~Deposited(e)
               /\ \E r \in Requests : At(r, "delete", "loaded") /\ req[r].est = e /\ req[r].unsigned
    <2>1. TypeOK /\ RowsHeld /\ Books(e)
      BY <1>1, BooksAre DEF Sound
    <2>2. \E r \in Requests : Handle(r)
      <3>1. ~\E r \in Requests : Call(r)
        BY <1>1, CallLoads DEF Sound, Loads, rows, Exists
      <3>2. ~\E d \in Estimates, m \in Markups, p \in BOOLEAN : CreateEstimate(d, m, p)
        BY <1>1, <2>1 DEF CreateEstimate, DraftStatus, Exists, Statuses, TypeOK
      <3>3. ~UNCHANGED vars
        BY <1>1 DEF vars, rows, Exists
      <3> QED
        BY <1>1, <3>1, <3>2, <3>3 DEF Next
    <2>3. PICK r \in Requests : Handle(r)
      BY <2>2
    <2>4. CommitDelete(r) /\ req[r].est = e
      <3>1. ~CommitDelete(r) => \/ UNCHANGED status
                               \/ \E s \in {"sent", "rejected", "approved"} :
                                     status' = [status EXCEPT ![req[r].est] = s]
        BY <2>3
           DEF Handle, CommitUpdate, DeleteLines, InsertLines, CalculateEstimate,
               CommitCalculate, CommitSend, CommitReject, FlushApproval, PublishApproval,
               CommitApproval, Rollback, rows
      <3>2. CommitDelete(r)
        BY <1>1, <2>1, <3>1 DEF Exists, Statuses, TypeOK
      <3>3. req[r].est # e => status'[e] = status[e]
        BY <2>1, <3>2 DEF CommitDelete, TypeOK
      <3> QED
        BY <1>1, <3>2, <3>3 DEF Exists
    <2>5. deposits[e] = <<>> /\ At(r, "delete", "loaded")
      BY <2>4 DEF CommitDelete, Unreferenced
    <2>6. signed[e] \in Seq([total : Nat, qty : Nat])
      BY <2>1 DEF TypeOK
    <2>7. Deposited(e) => DOMAIN signed[e] = {}
      <3> HAVE Deposited(e)
      <3>1. Shares(signed[e]) = <<>>
        BY <2>1, <2>5 DEF Books
      <3>2. DOMAIN Shares(signed[e]) = DOMAIN signed[e]
        BY DEF Shares
      <3> QED
        BY <3>1, <3>2
    <2>8. DOMAIN signed[e] = {} => signed[e] = <<>>
      <3>1. Len(signed[e]) \in Nat /\ DOMAIN signed[e] = 1..Len(signed[e])
        BY <2>6
      <3>2. DOMAIN signed[e] = {} => Len(signed[e]) = 0
        <4>1. ASSUME NEW n \in Nat, 1..n = {} PROVE n = 0
          <5>1. n >= 1 => 1 \in 1..n
            OBVIOUS
          <5> QED
            BY <4>1, <5>1
        <4> QED
          BY <3>1, <4>1
      <3>3. signed[e] # <<>> => Len(signed[e]) # 0
        <4> DEFINE S == [total : Nat, qty : Nat]
        <4> HIDE DEF S
        <4>1. \A q \in Seq(S) : q # <<>> => Len(q) \in Nat \ {0}
          BY EmptySeq
        <4> QED
          BY <2>6, <4>1 DEF S
      <3> QED
        BY <3>2, <3>3
    <2> QED
      BY <1>1, <2>1, <2>4, <2>5, <2>7, <2>8 DEF RowsHeld
  <1>2. Sound /\ DepositPerSignature /\ [Next]_vars =>
          \A e \in Estimates :
             Exists(e) /\ ~Exists(e)' /\ signed[e] # <<>>
                => /\ ~Deposited(e)
                   /\ \E r \in Requests : At(r, "delete", "loaded") /\ req[r].est = e /\ req[r].unsigned
    BY <1>1
  <1> QED
    BY <1>2, Inductive, DepositDrafted, PTL DEF Spec, SignedSurvives

-----------------------------------------------------------------------------
(* The bill of materials                                                   *)

\* An approval that will write the bill of materials holds the company's number and has the bill's
\* present quantity in hand.
OnTheBill ==
    \A r \in Requests :
        At(r, "approve", "published") =>
            IF req[r].line = NoLine THEN req[r].qty = 0
            ELSE /\ numberLock = r
                 /\ \/ req[r].line = NewLine /\ bom = <<>>
                    \/ req[r].line.at = 1 /\ Len(bom) = 1 /\ req[r].line.had = bom[1]

SignedOf(sigs) == [e \in Estimates |-> QuantitySigned(sigs[e])]

Billed == OnTheBill /\ BomAddsUp

\* One more signature adds its quantity.
LEMMA SignedMore ==
    ASSUME NEW s \in Seq([total : Nat, qty : Nat]), NEW sig \in [total : Nat, qty : Nat]
    PROVE  /\ QuantitySigned(s) \in Nat
           /\ QuantitySigned(Append(s, sig)) = QuantitySigned(s) + sig.qty
  <1> DEFINE T == [total : Nat, qty : Nat]
             z == Append(s, sig)
             n == Len(s)
             F == [k \in DOMAIN s |-> s[k].qty]
             G == [k \in DOMAIN z |-> z[k].qty]
  <1>1. /\ n \in Nat /\ s \in [1 .. n -> T] /\ z \in [1 .. n + 1 -> T]
        /\ z[n + 1] = sig
        /\ \A i \in 1 .. n : z[i] = s[i]
    <2>1. s \in Seq(T) /\ sig \in T
      OBVIOUS
    <2> HIDE DEF T, F, G
    <2> QED
      BY <2>1, Appended
  <1> HIDE DEF z, n
  <1>2. DOMAIN F = 1 .. n /\ \A k \in 1 .. n : F[k] \in Nat /\ F[k] \in Int
    BY <1>1
  <1>3. DOMAIN G = 1 .. n + 1 /\ (\A k \in 1 .. n + 1 : G[k] \in Nat) /\ G[n + 1] = sig.qty
    BY <1>1
  <1>4. \A k \in 1 .. n : G[k] = F[k]
    BY <1>1
  <1>5. QuantitySigned(s) = SumFunction(F) /\ QuantitySigned(z) = SumFunction(G)
    BY DEF QuantitySigned
  <1> HIDE DEF F, G
  <1>6. IsFiniteSet(1 .. n)
    BY <1>1, FS_Interval
  <1>7. (1 .. n) \cup {n + 1} = 1 .. n + 1
    BY <1>1
  <1>8. SumFunctionOnSet(G, (1 .. n) \cup {n + 1}) = SumFunctionOnSet(G, 1 .. n) + G[n + 1]
    <2>1. n + 1 \notin 1 .. n
      BY <1>1
    <2>2. \A k \in (1 .. n) \cup {n + 1} : G[k] \in Int
      BY <1>1, <1>3
    <2> QED
      BY <1>6, <2>1, <2>2, SumAdd
  <1>9. SumFunctionOnSet(G, 1 .. n) = SumFunctionOnSet(F, 1 .. n)
    BY <1>4, <1>6, SumSame
  <1>10. SumFunctionOnSet(F, 1 .. n) \in Nat
    BY <1>2, <1>6, SumInt
  <1>11. SumFunction(F) = SumFunctionOnSet(F, 1 .. n)
    BY <1>2 DEF SumFunction
  <1>12. SumFunction(G) = SumFunctionOnSet(G, (1 .. n) \cup {n + 1})
    BY <1>3, <1>7 DEF SumFunction
  <1> QED
    BY <1>3, <1>5, <1>8, <1>9, <1>10, <1>11, <1>12 DEF z

\* The sums of a bill of materials with at most one row.
LEMMA ShortSums ==
    ASSUME NEW q \in Nat
    PROVE  SumFunction(<<>>) = 0 /\ SumFunction(<<q>>) = q
  <1> DEFINE F == <<q>>
  <1>1. SumFunction(<<>>) = 0
    <2>1. DOMAIN <<>> = {}
      OBVIOUS
    <2> QED
      BY <2>1, SumEmpty DEF SumFunction
  <1>2. DOMAIN F = {} \cup {1} /\ F[1] = q
    OBVIOUS
  <1> HIDE DEF F
  <1>3. SumFunctionOnSet(F, {} \cup {1}) = SumFunctionOnSet(F, {}) + F[1]
    <2>1. 1 \notin {} /\ \A y \in {} \cup {1} : F[y] \in Int
      BY <1>2
    <2> QED
      BY <2>1, FS_EmptySet, SumAdd
  <1>4. SumFunction(F) = q
    BY <1>2, <1>3, SumEmpty DEF SumFunction
  <1> QED
    BY <1>1, <1>4 DEF F

LEMMA LineKinds == NoLine # NewLine
  BY DEF NoLine, NewLine

LEMMA OneRow ==
    ASSUME NEW b \in Seq(Nat), Len(b) <= 1
    PROVE  b = <<>> \/ (Len(b) = 1 /\ b[1] \in Nat /\ b = <<b[1]>>)
  <1>0. Len(b) \in Nat
    OBVIOUS
  <1>1. Len(b) = 0 \/ Len(b) = 1
    <2>1. \A n \in Nat : n <= 1 => n = 0 \/ n = 1
      OBVIOUS
    <2> QED
      BY <1>0, <2>1, Zenon
  <1>2. CASE Len(b) = 0
    BY <1>2
  <1>3. CASE Len(b) = 1
    <2>0. b \in [1 .. 1 -> Nat] /\ 1 \in 1 .. 1
      <3>1. b \in [1 .. Len(b) -> Nat]
        BY Zenon, LenProperties
      <3>2. 1 \in 1 .. 1
        OBVIOUS
      <3> QED
        BY Zenon, <1>3, <3>1, <3>2
    <2>1. b[1] \in Nat
      BY Zenon, <2>0
    <2>2. DOMAIN b = 1 .. 1
      BY Zenon, <2>0
    <2>3. <<b[1]>> \in Seq(Nat) /\ Len(<<b[1]>>) = 1 /\ <<b[1]>>[1] = b[1]
      BY <2>1
    <2>4. b = <<b[1]>>
      BY <1>3, <2>3
    <2> QED
      BY <1>3, <2>1, <2>4
  <1> QED
    BY <1>1, <1>2, <1>3

\* The approvals that were about to write, and whether a step lets them wait.
LEMMA StillOnTheBill ==
    ASSUME Billed, UNCHANGED bom,
           \A q \in Requests : At(q, "approve", "published")' =>
              /\ At(q, "approve", "published") /\ req'[q] = req[q]
              /\ numberLock = q => numberLock' = q
    PROVE  OnTheBill'
  BY DEF Billed, OnTheBill

LEMMA BillUnchanged ==
    ASSUME Billed, UNCHANGED <<bom, signed>>
    PROVE  BomAddsUp'
  BY DEF Billed, BomAddsUp, QuantitySigned

LEMMA SignedNat ==
    ASSUME NEW sigs \in [Estimates -> Seq([total : Nat, qty : Nat])]
    PROVE  /\ DOMAIN SignedOf(sigs) = Estimates
           /\ \A e \in Estimates : /\ SignedOf(sigs)[e] = QuantitySigned(sigs[e])
                                   /\ SignedOf(sigs)[e] \in Nat
  <1>1. \A s \in Seq([total : Nat, qty : Nat]) : QuantitySigned(s) \in Nat
    <2>1. [total |-> 0, qty |-> 0] \in [total : Nat, qty : Nat]
      OBVIOUS
    <2> QED
      BY <2>1, SignedMore
  <1> QED
    BY <1>1 DEF SignedOf

\* The approval that commits adds to the bill what it adds to the signatures.
LEMMA ApprovalBilled ==
    ASSUME Sound, Sound', Billed, NEW r \in Requests, CommitApproval(r)
    PROVE  BomAddsUp'
  <1> DEFINE e == req[r].est
             q == req[r].qty
             line == req[r].line
             sig == [total |-> req[r].total, qty |-> q]
             Old == SignedOf(signed)
             New == SignedOf(signed')
  <1>1. /\ At(r, "approve", "published") /\ e \in Estimates /\ q \in Nat
        /\ sig \in [total : Nat, qty : Nat] /\ sig.qty = q
    BY Fields DEF CommitApproval, At, Sound
  <1>2. signed' = [signed EXCEPT ![e] = Append(signed[e], sig)]
    BY DEF CommitApproval
  <1>3. signed'[e] = Append(signed[e], sig) /\ \A d \in Estimates \ {e} : signed'[d] = signed[d]
    BY <1>1, <1>2 DEF Sound, TypeOK
  <1>4. /\ DOMAIN Old = Estimates /\ DOMAIN New = Estimates
        /\ \A d \in Estimates : /\ Old[d] = QuantitySigned(signed[d]) /\ Old[d] \in Nat
                                /\ New[d] = QuantitySigned(signed'[d]) /\ New[d] \in Nat
    <2>1. /\ signed \in [Estimates -> Seq([total : Nat, qty : Nat])]
          /\ signed' \in [Estimates -> Seq([total : Nat, qty : Nat])]
      BY DEF Sound, TypeOK
    <2> QED
      BY <2>1, SignedNat
  <1>5. New[e] = Old[e] + q
    <2>1. signed[e] \in Seq([total : Nat, qty : Nat])
      BY <1>1 DEF Sound, TypeOK
    <2> HIDE DEF sig, Old, New, q
    <2>2. QuantitySigned(Append(signed[e], sig)) = QuantitySigned(signed[e]) + sig.qty
      BY <1>1, <2>1, SignedMore
    <2> QED
      BY <1>1, <1>3, <1>4, <2>2
  <1>6. \A d \in Estimates \ {e} : New[d] = Old[d]
    BY <1>3, <1>4
  <1>7. SumFunctionOnSet(New, Estimates) = SumFunctionOnSet(Old, Estimates) - Old[e] + New[e]
    <2>1. IsFiniteSet(Estimates)
      BY FiniteAssumption DEF FiniteAssumption
    <2>2. \A d \in Estimates : Old[d] \in Int /\ New[d] \in Int
      BY <1>4
    <2> HIDE DEF Old, New
    <2> QED
      BY <1>1, <1>6, <2>1, <2>2, SumUpdate
  <1>8. SumFunctionOnSet(Old, Estimates) \in Int
    <2>1. IsFiniteSet(Estimates)
      BY FiniteAssumption DEF FiniteAssumption
    <2>2. \A d \in Estimates : Old[d] \in Int
      BY <1>4
    <2> HIDE DEF Old
    <2> QED
      BY <2>1, <2>2, SumInt
  <1>9. SumFunction(New) = SumFunction(Old) + q
    <2>1. Old[e] \in Int /\ q \in Int
      BY <1>1, <1>4
    <2> HIDE DEF Old, New, q
    <2> QED
      BY <1>4, <1>5, <1>7, <1>8, <2>1 DEF SumFunction
  <1>10. Len(bom) <= 1 /\ SumFunction(bom) = SumFunction(Old) /\ bom \in Seq(Nat)
    BY DEF Billed, BomAddsUp, SignedOf, Sound, TypeOK
  <1>11. bom' = Merged(line, q)
    BY DEF CommitApproval
  <1>12. Len(bom') <= 1 /\ SumFunction(bom') = SumFunction(bom) + q
    <2>1. CASE line = NoLine
      <3>1. q = 0 /\ bom' = bom
        BY <1>1, <1>11, <2>1, LineKinds DEF Billed, OnTheBill, Merged
      <3>2. SumFunction(bom) \in Int
        <4>1. bom = <<>> \/ (bom = <<bom[1]>> /\ bom[1] \in Nat)
          BY <1>10, OneRow
        <4> QED
          <5>1. ASSUME NEW b \in Nat, bom = <<b>> PROVE SumFunction(bom) \in Int
            BY <5>1, ShortSums
          <5>2. CASE bom = <<>>
            <6>1. SumFunction(<<>>) = 0
              BY ShortSums
            <6> QED
              BY <5>2, <6>1
          <5> QED
            BY <4>1, <5>1, <5>2
      <3> QED
        BY <1>10, <3>1, <3>2
    <2>2. CASE line # NoLine /\ line = NewLine
      <3>1. bom = <<>> /\ bom' = Append(bom, q)
        BY <1>1, <1>11, <2>2 DEF Billed, OnTheBill, Merged, NewLine
      <3>2. bom' = <<q>>
        BY <3>1
      <3> QED
        BY <1>1, <3>1, <3>2, ShortSums
    <2>3. CASE line # NoLine /\ line # NewLine
      <3>1. line.at = 1 /\ Len(bom) = 1 /\ line.had = bom[1]
        BY <1>1, <2>3 DEF Billed, OnTheBill
      <3>2. bom' = [bom EXCEPT ![1] = bom[1] + q]
        BY <1>11, <2>3, <3>1 DEF Merged
      <3>3. bom[1] \in Nat /\ bom = <<bom[1]>>
        BY <1>10, <3>1, OneRow
      <3>4. bom' = <<bom[1] + q>>
        BY <3>2, <3>3
      <3>5. bom[1] + q \in Nat
        BY <1>1, <3>3
      <3>6. SumFunction(<<bom[1]>>) = bom[1]
        BY <3>3, ShortSums
      <3>7. SumFunction(<<bom[1] + q>>) = bom[1] + q
        BY <3>5, ShortSums
      <3>8. Len(bom') = 1
        BY <3>4
      <3> QED
        BY <3>3, <3>4, <3>6, <3>7, <3>8
    <2> QED
      BY <2>1, <2>2, <2>3
  <1>13. SumFunction(bom') = SumFunction(New)
    BY <1>9, <1>10, <1>12
  <1> QED
    BY <1>12, <1>13 DEF BomAddsUp, SignedOf

LEMMA BilledNext ==
    ASSUME Accounting, Sound, Sound', Billed, [Next]_vars
    PROVE  Billed'
  <1>0. TypeOK
    BY DEF Sound
  <1>1. CASE \E r \in Requests : Call(r)
    <2> PICK r \in Requests : Call(r)
      BY <1>1
    <2>1. PICK rec : Loads(r, rec)
      BY CallLoads DEF Sound
    <2>2. UNCHANGED <<bom, signed, numberLock>> /\ req' = [req EXCEPT ![r] = rec] /\ rec.pc = "loaded"
      BY <2>1 DEF Loads, books, locks
    <2>3. \A q \in Requests : At(q, "approve", "published")' =>
              At(q, "approve", "published") /\ req'[q] = req[q]
      BY <1>0, <2>2 DEF At, Working, TypeOK
    <2> QED
      BY <2>2, <2>3, StillOnTheBill, BillUnchanged DEF Billed
  <1>2. CASE \E r \in Requests : Handle(r)
    <2> PICK r \in Requests : Handle(r)
      BY <1>2
    <2> DEFINE e == req[r].est
    <2>1. \A q \in Requests \ {r} : req'[q] = req[q] /\ (Working(q)' <=> Working(q))
      BY <1>0, Handled DEF Working, TypeOK
    <2>2. End(r) => /\ \A q \in Requests \ {r} : numberLock = q => numberLock' = q
                    /\ ~Working(r)'
      BY <1>0 DEF End, Working, TypeOK
    <2>3. CASE PublishApproval(r)
      <3>1. UNCHANGED <<bom, signed>> /\ e \in Estimates
        BY <1>0, <2>3, Fields DEF PublishApproval, At, books
      <3>2. ASSUME NEW q \in Requests, q # r, At(q, "approve", "published"), req[q].line # NoLine
            PROVE  numberLock' = q
        <4>1. numberLock = q /\ q # Nobody
          BY <3>2, NobodyAssumption DEF Billed, OnTheBill, NobodyAssumption
        <4> QED
          BY <2>3, <4>1 DEF PublishApproval, TakeNumber, NumberFree
      <3>3. PICK line \in BomRows(e) :
                req' = [req EXCEPT ![r].pc = "published", ![r].line = line,
                                   ![r].qty = IF line = NoLine THEN 0 ELSE Quantity(lines[e])]
        BY <2>3 DEF PublishApproval
      <3>4. req[r] \in [op : {"approve"}, est : Estimates, pc : {"loaded", "flushed", "published"},
                        total : Nat, qty : Nat, line : [at : Nat \cup {-1}, had : Nat]]
        BY <1>0, <2>3 DEF PublishApproval, At, TypeOK, Working, Requesting
      <3>5. req'[r].line = line /\ (line = NoLine => req'[r].qty = 0)
        <4> DEFINE t == Quantity(lines[e])
        <4>1. req' = [req EXCEPT ![r].pc = "published", ![r].line = line,
                                 ![r].qty = IF line = NoLine THEN 0 ELSE t]
          BY <3>3
        <4> HIDE DEF t
        <4> QED
          BY <1>0, <3>4, <4>1 DEF TypeOK
      <3>6. line # NoLine =>
              /\ numberLock' = r
              /\ \/ line = NewLine /\ bom = <<>>
                 \/ line.at = 1 /\ Len(bom) = 1 /\ line.had = bom[1]
        <4> SUFFICES ASSUME line # NoLine
                     PROVE  /\ numberLock' = r
                            /\ \/ line = NewLine /\ bom = <<>>
                               \/ line.at = 1 /\ Len(bom) = 1 /\ line.had = bom[1]
          OBVIOUS
        <4>1. scoped[e]
          BY DEF BomRows
        <4>2. numberLock' = r
          BY <2>3, <4>1 DEF PublishApproval, TakeNumber, Deposited
        <4>3. CASE bom = <<>>
          BY <4>1, <4>2, <4>3 DEF BomRows
        <4>4. CASE bom # <<>>
          <5>1. PICK k \in DOMAIN bom : line = [at |-> k, had |-> bom[k]]
            BY <4>1, <4>4 DEF BomRows
          <5>2. Len(bom) <= 1 /\ bom \in Seq(Nat)
            BY <1>0 DEF Billed, BomAddsUp, TypeOK
          <5>3. k = 1 /\ Len(bom) = 1
            <6>1. DOMAIN bom = 1 .. Len(bom) /\ Len(bom) \in Nat
              BY <5>2
            <6> QED
              BY <5>1, <5>2, <6>1
          <5> QED
            BY <4>2, <5>1, <5>3
        <4> QED
          BY <4>2, <4>3, <4>4
      <3>7. OnTheBill'
        <4> SUFFICES ASSUME NEW q \in Requests, At(q, "approve", "published")'
                     PROVE  IF req'[q].line = NoLine THEN req'[q].qty = 0
                            ELSE /\ numberLock' = q
                                 /\ \/ req'[q].line = NewLine /\ bom' = <<>>
                                    \/ /\ req'[q].line.at = 1 /\ Len(bom') = 1
                                       /\ req'[q].line.had = bom'[1]
          BY DEF OnTheBill
        <4>1. CASE q = r
          BY <3>1, <3>5, <3>6, <4>1
        <4>2. CASE q # r
          <5>1. At(q, "approve", "published") /\ req'[q] = req[q]
            BY <2>1, <4>2 DEF At
          <5> QED
            BY <3>1, <3>2, <4>2, <5>1 DEF Billed, OnTheBill
        <4> QED
          BY <4>1, <4>2
      <3> QED
        BY <3>1, <3>7, BillUnchanged DEF Billed
    <2>4. CASE CommitApproval(r)
      <3>1. End(r) /\ bom' = Merged(req[r].line, req[r].qty) /\ At(r, "approve", "published")
        BY <2>4 DEF CommitApproval
      <3>2. OnTheBill'
        <4>1. CASE req[r].line = NoLine
          <5>1. UNCHANGED bom
            BY <3>1, <4>1, LineKinds DEF Merged
          <5> QED
            BY <2>1, <2>2, <3>1, <5>1, StillOnTheBill DEF At
        <4>2. CASE req[r].line # NoLine
          <5>1. numberLock = r
            BY <3>1, <4>2 DEF Billed, OnTheBill
          <5>2. \A q \in Requests : At(q, "approve", "published")' =>
                    q # r /\ req'[q] = req[q] /\ At(q, "approve", "published")
            BY <2>1, <2>2, <3>1 DEF At
          <5>3. \A q \in Requests : At(q, "approve", "published")' =>
                    req'[q].line = NoLine /\ req'[q].qty = 0
            BY <5>1, <5>2 DEF Billed, OnTheBill
          <5> QED
            BY <5>3 DEF OnTheBill
        <4> QED
          BY <4>1, <4>2
      <3> QED
        BY <2>4, <3>2, ApprovalBilled DEF Billed
    <2>5. CASE ~PublishApproval(r) /\ ~CommitApproval(r)
      <3>1. UNCHANGED <<bom, signed>>
        BY <2>5 DEF Handle, CommitUpdate, CommitDelete, DeleteLines, InsertLines, CalculateEstimate,
                    CommitCalculate, CommitSend, CommitReject, FlushApproval, Rollback, books
      <3>2. End(r) \/ /\ UNCHANGED numberLock
                      /\ req[r].op # "approve" \/ FlushApproval(r)
        BY <2>5 DEF Handle, CommitUpdate, CommitDelete, DeleteLines, InsertLines, CalculateEstimate,
                    CommitCalculate, CommitSend, CommitReject, FlushApproval, Rollback, At, locks
      <3>3. ~At(r, "approve", "published")'
        <4>1. CASE FlushApproval(r)
          <5>1. req' = [req EXCEPT ![r] = [req[r] EXCEPT !.pc = "flushed"]]
            BY <1>0, <4>1 DEF FlushApproval, TypeOK
          <5>2. req[r] \in [op : {"approve"}, est : Estimates, pc : {"loaded", "flushed", "published"},
                            total : Nat, qty : Nat, line : [at : Nat \cup {-1}, had : Nat]]
            BY <1>0, <4>1 DEF FlushApproval, At, TypeOK, Working, Requesting
          <5> QED
            BY <1>0, <5>1, <5>2 DEF At, TypeOK
        <4>2. CASE req[r].op # "approve"
          BY <1>0, <4>2, Handled DEF At, Working, TypeOK
        <4> QED
          BY <2>2, <3>2, <4>1, <4>2 DEF At
      <3>4. \A q \in Requests : At(q, "approve", "published")' =>
              /\ At(q, "approve", "published") /\ req'[q] = req[q]
              /\ numberLock = q => numberLock' = q
        BY <2>1, <2>2, <3>2, <3>3 DEF At
      <3> QED
        BY <3>1, <3>4, StillOnTheBill, BillUnchanged DEF Billed
    <2> QED
      BY <2>3, <2>4, <2>5
  <1>3. CASE \E e \in Estimates, m \in Markups, p \in BOOLEAN : CreateEstimate(e, m, p)
    <2>1. UNCHANGED <<bom, signed, numberLock, req>>
      BY <1>3 DEF CreateEstimate, books, locks
    <2> QED
      BY <2>1, StillOnTheBill, BillUnchanged DEF Billed, At, Working
  <1>4. CASE UNCHANGED vars
    <2>1. UNCHANGED <<bom, signed, numberLock, req>>
      BY <1>4 DEF vars, books, locks
    <2> QED
      BY <2>1, StillOnTheBill, BillUnchanged DEF Billed, At, Working
  <1> QED
    BY <1>1, <1>2, <1>3, <1>4 DEF Next

LEMMA InitBilled == Init => Billed
  <1> SUFFICES ASSUME Init PROVE Billed
    OBVIOUS
  <1>1. OnTheBill
    BY DEF Init, OnTheBill, At, Working
  <1> DEFINE F == SignedOf(signed)
             Z(S) == SumFunctionOnSet(F, S)
  <1>2. SumFunction(<<>>) = 0
    BY ShortSums
  <1>3. \A e \in Estimates : F[e] = 0
    <2>1. QuantitySigned(<<>>) = SumFunction(<<>>)
      <3>1. [k \in DOMAIN <<>> |-> <<>>[k].qty] = <<>>
        OBVIOUS
      <3> QED
        BY <3>1 DEF QuantitySigned
    <2> QED
      BY <1>2, <2>1 DEF SignedOf, Init
  <1>4. SumFunctionOnSet(F, Estimates) = 0
    <2>1. IsFiniteSet(Estimates)
      BY FiniteAssumption DEF FiniteAssumption
    <2> HIDE DEF F
    <2> QED
      BY <1>3, <2>1, SumZero
  <1>5. SumFunction(F) = 0
    BY <1>4 DEF SumFunction, SignedOf
  <1>6. BomAddsUp
    BY <1>2, <1>5 DEF BomAddsUp, SignedOf, Init
  <1> QED
    BY <1>1, <1>6 DEF Billed

\* For a company with the accounting module, every quantity signed for on the project's estimates is
\* on the one row of its bill of materials: the number that every deposit takes makes the second
\* handler's read and write of the row one step (bom_generation_handler.py).
THEOREM BillComplete == Accounting => (Spec => []BomAddsUp)
  <1> SUFFICES ASSUME Accounting PROVE Spec => []BomAddsUp
    OBVIOUS
  <1>1. Sound /\ Sound' /\ Billed /\ [Next]_vars => Billed'
    BY BilledNext
  <1>2. Billed => BomAddsUp
    BY DEF Billed
  <1> QED
    BY InitBilled, <1>1, <1>2, Inductive, PTL DEF Spec
=============================================================================
