--------------------------- MODULE Sessions_proof ---------------------------
(***************************************************************************)
(* Proofs about Sessions: for any number of tabs, companies, tokens and    *)
(* faults.                                                                 *)
(***************************************************************************)
EXTENDS Sessions, FiniteSetTheorems, TLAPS

Rows == Len(tokens)

\* What TypeOK says of the call r, and of a row that is the i-th of n.
CallFits(r, n) ==
    /\ r \in CallStates
    /\ r.tok \in 0 .. n /\ r.out \in {Refused, Failed} \cup 0 .. n /\ r.targets \subseteq 1 .. n
RowFits(row, i, n) ==
    /\ row.family \in 1 .. i /\ row.from \in 0 .. i - 1
    /\ row.replaced \in 0 .. n
    /\ row.replaced # 0 => row.revoked

\* The tokens and the calls are typed; the tabs' ways are.
TokensFit == tokens \in Seq(Tokens) /\ \A i \in DOMAIN tokens : RowFits(tokens[i], i, Rows)
CallsFit  == call \in [Calls -> CallStates] /\ \A c \in Calls : CallFits(call[c], Rows)
Rest ==
    /\ rowLock \in [1 .. MaxTokens -> Calls \cup {Nobody}]
    /\ cookie \in 0 .. Rows
    /\ webLock \in Calls \cup {Nobody, NoLocks}
    /\ view \in [Tabs -> {"closed", "new", "in", "out", "unreachable"}]
    /\ faults \in 0 .. MaxFaults
    /\ reused \in BOOLEAN /\ calm \in BOOLEAN

LEMMA TypesInParts == TypeOK <=> TokensFit /\ Rows <= MaxTokens /\ CallsFit /\ Rest /\ ended \subseteq Chains
  <1>1. tokens \in Seq(Tokens) => DOMAIN tokens = 1 .. Len(tokens)
    OBVIOUS
  <1> QED
    BY <1>1 DEF TypeOK, TokensFit, CallsFit, Rest, RowFits, CallFits, Rows

-----------------------------------------------------------------------------
(* The invariant.                                                          *)

\* Every call that may still mint a token has its place in the table.
Making   == {c \in Calls : call[c].kind \in Minting /\ call[c].pc # "answered"}
RoomLeft == Rows + Cardinality(Making) <= MaxTokens

\* A lane of a tab carries only its kinds of call, each in its order, and who is about to rotate a
\* token holds its row.
InLane(c) ==
    /\ c[2] = "timer" => call[c].kind \in {"none", "refresh"}
    /\ c[2] = "user" => call[c].kind # "refresh"
    /\ (call[c].kind = "none") <=> (call[c].pc = "idle")
    /\ call[c].pc = "queued" => call[c].kind = "refresh"
    /\ call[c].pc = "sent" /\ call[c].kind \in {"refresh", "switch", "logout"} => call[c].tok # 0
    /\ call[c].pc = "loaded" => call[c].kind = "switch" /\ call[c].tok # 0
    /\ call[c].pc = "held" =>
          /\ call[c].kind \in {"refresh", "switch"}
          /\ call[c].tok # 0 /\ rowLock[call[c].tok] = c
          /\ call[c].kind = "refresh" => tokens[call[c].tok].replaced = 0
    /\ call[c].pc = "revoking" => call[c].kind \in {"refresh", "switch", "logout", "disable", "reset"}
    /\ call[c].pc = "answered" /\ call[c].out > 0 => call[c].kind \in Minting
Lanes == \A c \in Calls : InLane(c)

TInv == TypeOK /\ Lanes /\ RoomLeft

-----------------------------------------------------------------------------
(* Calls.                                                                  *)

LEMMA CallsAre ==
    /\ \A c \in Calls : c[1] \in Tabs /\ c[2] \in {"timer", "user"}
    /\ \A t \in Tabs : /\ Timer(t) \in Calls /\ Timer(t)[1] = t /\ Timer(t)[2] = "timer"
                       /\ User(t) \in Calls /\ User(t)[1] = t /\ User(t)[2] = "user"
                       /\ Timer(t) # User(t)
    /\ Nobody \notin Calls
    /\ IsFiniteSet(Calls)
  <1>1. Nobody \notin Calls
    BY NobodyAssumption DEF Calls
  <1>2. IsFiniteSet({"timer", "user"})
    <2>1. IsFiniteSet({"timer"}) /\ IsFiniteSet({"user"})
      BY FS_Singleton
    <2>2. IsFiniteSet({"timer"} \cup {"user"})
      BY <2>1, FS_Union
    <2>3. {"timer"} \cup {"user"} = {"timer", "user"}
      OBVIOUS
    <2> QED
      BY <2>2, <2>3
  <1>3. IsFiniteSet(Calls)
    BY <1>2, FiniteAssumption, FS_Product DEF Calls
  <1> QED
    BY <1>1, <1>3 DEF Calls, Timer, User

\* Everything about the call but whether its tab still waits for it.
Kept(d) ==
    /\ call'[d].kind = call[d].kind /\ call'[d].pc = call[d].pc /\ call'[d].tok = call[d].tok
    /\ call'[d].live = call[d].live /\ call'[d].company = call[d].company
    /\ call'[d].targets = call[d].targets /\ call'[d].out = call[d].out
OthersKept(c) == \A d \in Calls : d # c => Kept(d)

LEMMA IdleFits == \A n \in Nat : CallFits(Idle, n) /\ Idle.kind = "none" /\ Idle.pc = "idle"
  BY HomeAssumption DEF Idle, CallFits, CallStates, Kinds, Pcs

\* The call of c becomes r, and nothing happens to the others.
LEMMA Goes ==
    ASSUME TypeOK, NEW c \in Calls, NEW r, CallFits(r, Rows'), Go(c, r), Rows' \in Nat, Rows <= Rows'
    PROVE  CallsFit' /\ call'[c] = r /\ OthersKept(c)
  <1>1. CallsFit /\ Rows \in Nat
    BY TypesInParts DEF TokensFit, Rows
  <1>2. call' \in [Calls -> CallStates] /\ call'[c] = r /\ \A d \in Calls : d # c => call'[d] = call[d]
    BY <1>1 DEF Go, CallsFit, CallFits
  <1>3. \A d \in Calls : CallFits(call'[d], Rows')
    BY <1>1, <1>2 DEF CallsFit, CallFits
  <1> QED
    BY <1>2, <1>3 DEF CallsFit, OthersKept, Kept

\* The call of c is typed.
LEMMA CallTyped ==
    ASSUME TypeOK, NEW c \in Calls
    PROVE  /\ CallFits(call[c], Rows) /\ call[c] \in CallStates /\ Rows \in Nat /\ DOMAIN tokens = 1 .. Rows
           /\ call[c].kind \in Kinds /\ call[c].pc \in Pcs /\ call[c].tok \in 0 .. Rows
           /\ call[c].live \in BOOLEAN /\ call[c].company \in Companies
           /\ call[c].targets \subseteq 1 .. Rows
           /\ call[c].out \in {Refused, Failed} \cup 0 .. Rows /\ call[c].stale \in BOOLEAN
  <1>1. CallFits(call[c], Rows) /\ Rows \in Nat /\ DOMAIN tokens = 1 .. Rows
    BY TypesInParts DEF CallsFit, TokensFit, Rows
  <1> QED
    BY <1>1 DEF CallFits, CallStates

\* A call is answered.
LEMMA Answers ==
    ASSUME TypeOK, NEW c \in Calls, NEW out \in {Refused, Failed} \cup 0 .. Rows', Answer(c, out),
           Rows' \in Nat, Rows <= Rows'
    PROVE  /\ CallsFit' /\ OthersKept(c)
           /\ call'[c].kind = call[c].kind /\ call'[c].pc = "answered" /\ call'[c].tok = call[c].tok
           /\ call'[c].out = out
  <1> DEFINE r == [call[c] EXCEPT !.pc = "answered", !.out = out, !.targets = {}]
  <1>1. call[c] \in CallStates /\ call[c].tok \in 0 .. Rows /\ Rows \in Nat
    BY CallTyped
  <1>2. /\ r \in CallStates /\ r.kind = call[c].kind /\ r.pc = "answered" /\ r.tok = call[c].tok
        /\ r.out = out /\ r.targets = {}
    <2>1. out \in Int
      BY DEF Refused, Failed
    <2>2. "answered" \in Pcs /\ {} \in SUBSET Nat
      BY DEF Pcs
    <2> QED
      BY <1>1, <2>1, <2>2 DEF CallStates
  <1>3. CallFits(r, Rows')
    BY <1>1, <1>2 DEF CallFits
  <1>4. Go(c, r)
    BY DEF Answer
  <1> HIDE DEF r
  <1> QED
    BY <1>2, <1>3, <1>4, Goes

-----------------------------------------------------------------------------
(* Tokens.                                                                 *)

\* The rows that were there keep what never changes of them.
Constant(i) ==
    /\ tokens'[i].family = tokens[i].family /\ tokens'[i].company = tokens[i].company
    /\ tokens'[i].from = tokens[i].from /\ tokens'[i].by = tokens[i].by

\* Rows of tokens.
LEMMA RowsTyped ==
    ASSUME TokensFit
    PROVE  /\ Rows \in Nat /\ DOMAIN tokens = 1 .. Rows
           /\ \A i \in 1 .. Rows :
                 /\ tokens[i] \in Tokens /\ RowFits(tokens[i], i, Rows)
                 /\ tokens[i].family \in 1 .. i /\ tokens[i].from \in 0 .. i - 1
                 /\ tokens[i].replaced \in 0 .. Rows
                 /\ tokens[i].replaced # 0 => tokens[i].revoked
                 /\ tokens[i].revoked \in BOOLEAN /\ tokens[i].expired \in BOOLEAN
                 /\ tokens[i].company \in Companies /\ tokens[i].by \in Minting
  <1>1. Rows \in Nat /\ DOMAIN tokens = 1 .. Rows /\ \A i \in 1 .. Rows : tokens[i] \in Tokens
    BY DEF TokensFit, Rows
  <1>2. \A i \in 1 .. Rows : RowFits(tokens[i], i, Rows)
    BY <1>1 DEF TokensFit
  <1> QED
    BY <1>1, <1>2 DEF RowFits, Tokens

\* A row is added to tokens that were changed in place.
LEMMA Grows ==
    ASSUME TokensFit, NEW s \in Seq(Tokens), Len(s) = Rows, NEW row \in Tokens,
           RowFits(row, Rows + 1, Rows + 1), tokens' = Append(s, row),
           \A i \in 1 .. Rows : RowFits(s[i], i, Rows + 1)
    PROVE  /\ TokensFit' /\ Rows' = Rows + 1 /\ tokens'[Rows + 1] = row
           /\ \A i \in 1 .. Rows : tokens'[i] = s[i]
  <1>1. Rows \in Nat
    BY RowsTyped
  <1>2. /\ tokens' \in Seq(Tokens) /\ Len(tokens') = Rows + 1 /\ tokens'[Rows + 1] = row
        /\ DOMAIN tokens' = 1 .. Rows + 1
        /\ \A i \in 1 .. Rows : tokens'[i] = s[i]
    BY <1>1
  <1>3. \A i \in 1 .. Rows + 1 : RowFits(tokens'[i], i, Rows + 1)
    BY <1>1, <1>2
  <1> QED
    BY <1>2, <1>3 DEF TokensFit, Rows

\* The tokens are changed in place.
LEMMA Changes ==
    ASSUME TokensFit, NEW s, tokens' = s, DOMAIN s = 1 .. Rows, s = [i \in 1 .. Rows |-> s[i]],
           \A i \in 1 .. Rows : s[i] \in Tokens /\ RowFits(s[i], i, Rows)
    PROVE  TokensFit' /\ Rows' = Rows
  <1>1. Rows \in Nat
    BY RowsTyped
  <1>2. s \in [1 .. Rows -> Tokens]
    OBVIOUS
  <1>3. s \in Seq(Tokens) /\ Len(s) = Rows
    BY <1>1, <1>2
  <1> QED
    BY <1>3 DEF TokensFit, Rows

\* A login.
LEMMA Opens ==
    ASSUME TokensFit, tokens' = Append(tokens, Row(Rows + 1, Home, 0, "login"))
    PROVE  /\ TokensFit' /\ Rows' = Rows + 1
           /\ \A i \in 1 .. Rows : tokens'[i] = tokens[i]
           /\ tokens'[Rows + 1] = Row(Rows + 1, Home, 0, "login")
  <1> DEFINE row == Row(Rows + 1, Home, 0, "login")
  <1>1. Rows \in Nat /\ \A i \in 1 .. Rows : RowFits(tokens[i], i, Rows)
    BY RowsTyped
  <1>2. row \in Tokens
    BY <1>1, HomeAssumption DEF Row, Tokens, Minting
  <1>3. RowFits(row, Rows + 1, Rows + 1)
    BY <1>1 DEF Row, RowFits
  <1>4. \A i \in 1 .. Rows : RowFits(tokens[i], i, Rows + 1)
    BY <1>1 DEF RowFits
  <1>5. tokens \in Seq(Tokens) /\ Len(tokens) = Rows
    BY DEF TokensFit, Rows
  <1> HIDE DEF row
  <1> QED
    BY <1>2, <1>3, <1>4, <1>5, Grows DEF row

\* A rotation of the i-th token.
LEMMA Rotates ==
    ASSUME TokensFit, NEW i \in 1 .. Rows, NEW company \in Companies, NEW by \in Minting,
           tokens' = Append([tokens EXCEPT ![i].revoked = TRUE, ![i].replaced = Rows + 1],
                            Row(tokens[i].family, company, i, by))
    PROVE  /\ TokensFit' /\ Rows' = Rows + 1
           /\ \A j \in 1 .. Rows : /\ Constant(j) /\ tokens'[j].expired = tokens[j].expired
                                   /\ j # i => tokens'[j] = tokens[j]
           /\ tokens'[i].revoked = TRUE /\ tokens'[i].replaced = Rows + 1
           /\ tokens'[Rows + 1] = Row(tokens[i].family, company, i, by)
  <1> DEFINE row == Row(tokens[i].family, company, i, by)
             new == [tokens[i] EXCEPT !.revoked = TRUE, !.replaced = Rows + 1]
             s   == [tokens EXCEPT ![i] = new]
  <1>1. /\ Rows \in Nat /\ DOMAIN tokens = 1 .. Rows
        /\ \A j \in 1 .. Rows : tokens[j] \in Tokens /\ RowFits(tokens[j], j, Rows)
        /\ tokens[i].family \in 1 .. i
    BY RowsTyped
  <1>2. row \in Tokens
    BY <1>1 DEF Row, Tokens
  <1>3. RowFits(row, Rows + 1, Rows + 1)
    BY <1>1 DEF Row, RowFits
  <1>4. /\ new \in Tokens /\ new.family = tokens[i].family /\ new.company = tokens[i].company
        /\ new.from = tokens[i].from /\ new.by = tokens[i].by /\ new.expired = tokens[i].expired
        /\ new.revoked = TRUE /\ new.replaced = Rows + 1
    <2>1. tokens[i] \in Tokens /\ Rows + 1 \in Nat
      BY <1>1
    <2> QED
      BY <2>1 DEF Tokens
  <1>5. [tokens EXCEPT ![i].revoked = TRUE, ![i].replaced = Rows + 1] = s
    BY <1>1
  <1> HIDE DEF row, new
  <1>6. s \in Seq(Tokens) /\ Len(s) = Rows /\ s[i] = new /\ \A j \in 1 .. Rows : j # i => s[j] = tokens[j]
    <2>1. s \in [1 .. Rows -> Tokens]
      BY <1>1, <1>4
    <2> QED
      BY <1>1, <2>1
  <1>7. \A j \in 1 .. Rows : RowFits(s[j], j, Rows + 1)
    <2>1. RowFits(new, i, Rows + 1)
      BY <1>1, <1>4 DEF RowFits
    <2>2. \A j \in 1 .. Rows : RowFits(tokens[j], j, Rows + 1)
      BY <1>1 DEF RowFits
    <2> HIDE DEF new
    <2> QED
      BY <1>6, <2>1, <2>2
  <1>8. tokens' = Append(s, row)
    BY <1>5 DEF row
  <1> HIDE DEF s
  <1>9. /\ TokensFit' /\ Rows' = Rows + 1 /\ tokens'[Rows + 1] = row
        /\ \A j \in 1 .. Rows : tokens'[j] = s[j]
    BY <1>2, <1>3, <1>6, <1>7, <1>8, Grows
  <1> QED
    BY <1>4, <1>6, <1>9 DEF Constant, row

\* An UPDATE revokes some of them.
LEMMA Revokes ==
    ASSUME TokensFit, NEW T,
           tokens' = [i \in DOMAIN tokens |-> [tokens[i] EXCEPT !.revoked = @ \/ i \in T]]
    PROVE  /\ TokensFit' /\ Rows' = Rows
           /\ \A i \in 1 .. Rows :
                 /\ Constant(i) /\ tokens'[i].expired = tokens[i].expired
                 /\ tokens'[i].replaced = tokens[i].replaced
                 /\ tokens'[i].revoked = (tokens[i].revoked \/ i \in T)
  <1> DEFINE new(i) == [tokens[i] EXCEPT !.revoked = @ \/ i \in T]
             s      == [i \in 1 .. Rows |-> new(i)]
  <1>1. /\ Rows \in Nat /\ DOMAIN tokens = 1 .. Rows
        /\ \A j \in 1 .. Rows : tokens[j] \in Tokens /\ RowFits(tokens[j], j, Rows)
    BY RowsTyped
  <1>2. \A i \in 1 .. Rows :
          /\ new(i) \in Tokens /\ new(i).family = tokens[i].family /\ new(i).company = tokens[i].company
          /\ new(i).from = tokens[i].from /\ new(i).by = tokens[i].by
          /\ new(i).expired = tokens[i].expired /\ new(i).replaced = tokens[i].replaced
          /\ new(i).revoked = (tokens[i].revoked \/ i \in T)
    <2> SUFFICES ASSUME NEW i \in 1 .. Rows PROVE
          /\ new(i) \in Tokens /\ new(i).family = tokens[i].family /\ new(i).company = tokens[i].company
          /\ new(i).from = tokens[i].from /\ new(i).by = tokens[i].by
          /\ new(i).expired = tokens[i].expired /\ new(i).replaced = tokens[i].replaced
          /\ new(i).revoked = (tokens[i].revoked \/ i \in T)
      OBVIOUS
    <2>1. tokens[i] \in Tokens
      BY <1>1
    <2> QED
      BY <2>1 DEF Tokens
  <1>3. tokens' = s
    BY <1>1
  <1> HIDE DEF new
  <1>4. DOMAIN s = 1 .. Rows /\ \A i \in 1 .. Rows : s[i] = new(i)
    OBVIOUS
  <1>5. \A i \in 1 .. Rows : s[i] \in Tokens /\ RowFits(s[i], i, Rows)
    BY <1>1, <1>2, <1>4 DEF RowFits
  <1>6. s = [i \in 1 .. Rows |-> s[i]]
    OBVIOUS
  <1> HIDE DEF s
  <1>7. TokensFit' /\ Rows' = Rows
    BY <1>3, <1>4, <1>5, <1>6, Changes
  <1> QED
    BY <1>2, <1>3, <1>4, <1>7 DEF Constant

\* All of them expire.
LEMMA Expire ==
    ASSUME TokensFit, tokens' = [i \in DOMAIN tokens |-> [tokens[i] EXCEPT !.expired = TRUE]]
    PROVE  /\ TokensFit' /\ Rows' = Rows
           /\ \A i \in 1 .. Rows :
                 /\ Constant(i) /\ tokens'[i].replaced = tokens[i].replaced
                 /\ tokens'[i].revoked = tokens[i].revoked
  <1> DEFINE new(i) == [tokens[i] EXCEPT !.expired = TRUE]
             s      == [i \in 1 .. Rows |-> new(i)]
  <1>1. /\ Rows \in Nat /\ DOMAIN tokens = 1 .. Rows
        /\ \A j \in 1 .. Rows : tokens[j] \in Tokens /\ RowFits(tokens[j], j, Rows)
    BY RowsTyped
  <1>2. \A i \in 1 .. Rows :
          /\ new(i) \in Tokens /\ new(i).family = tokens[i].family /\ new(i).company = tokens[i].company
          /\ new(i).from = tokens[i].from /\ new(i).by = tokens[i].by
          /\ new(i).replaced = tokens[i].replaced /\ new(i).revoked = tokens[i].revoked
    BY <1>1 DEF Tokens
  <1>3. tokens' = s
    BY <1>1
  <1> HIDE DEF new
  <1>4. DOMAIN s = 1 .. Rows /\ \A i \in 1 .. Rows : s[i] = new(i)
    OBVIOUS
  <1>5. \A i \in 1 .. Rows : s[i] \in Tokens /\ RowFits(s[i], i, Rows)
    BY <1>1, <1>2, <1>4 DEF RowFits
  <1>6. s = [i \in 1 .. Rows |-> s[i]]
    OBVIOUS
  <1> HIDE DEF s
  <1>7. TokensFit' /\ Rows' = Rows
    BY <1>3, <1>4, <1>5, <1>6, Changes
  <1> QED
    BY <1>2, <1>3, <1>4, <1>7 DEF Constant

-----------------------------------------------------------------------------
(* What each step does with its call.                                      *)

LEMMA Scheduled ==
    ASSUME TypeOK, NEW t \in Tabs, ScheduleRefresh(t)
    PROVE  /\ CallsFit' /\ OthersKept(Timer(t)) /\ call[Timer(t)] = Idle
           /\ call'[Timer(t)].kind = "refresh" /\ call'[Timer(t)].pc = "queued"
  <1> DEFINE r == [Idle EXCEPT !.kind = TimerKind, !.pc = "queued"]
  <1>1. /\ r \in CallStates /\ r.kind = "refresh" /\ r.pc = "queued" /\ r.tok = Idle.tok
        /\ r.out = Idle.out /\ r.targets = Idle.targets
    <2>1. Idle \in CallStates
      BY IdleFits DEF CallFits
    <2> QED
      BY <2>1 DEF CallStates, TimerKind, Kinds, Pcs
  <1>2. \A n \in Nat : CallFits(r, n)
    BY <1>1, IdleFits DEF CallFits
  <1>3. Rows' = Rows /\ Rows \in Nat
    BY CallTyped, CallsAre DEF ScheduleRefresh, db, Rows
  <1>4. Go(Timer(t), r) /\ call[Timer(t)] = Idle
    BY DEF ScheduleRefresh
  <1> HIDE DEF r
  <1> QED
    BY <1>1, <1>2, <1>3, <1>4, Goes, CallsAre

LEMMA SentRefresh ==
    ASSUME TypeOK, NEW t \in Tabs, SendRefresh(t)
    PROVE  LET c == Timer(t) IN
           /\ CallsFit' /\ OthersKept(c)
           /\ call[c].kind = "refresh" /\ call'[c].kind = "refresh" /\ call'[c].tok = cookie
           /\ cookie = 0 => call'[c].pc = "answered" /\ call'[c].out = Refused
           /\ cookie # 0 => call'[c].pc = "sent" /\ call'[c].out = Done
  <1> DEFINE c == Timer(t)
             pc == IF cookie = 0 THEN "answered" ELSE "sent"
             out == IF cookie = 0 THEN Refused ELSE Done
             r == [call[c] EXCEPT !.pc = pc, !.tok = cookie, !.out = out]
  <1>1. /\ c \in Calls /\ call[c] \in CallStates /\ Rows' = Rows /\ Rows \in Nat
        /\ call[c].targets \subseteq 1 .. Rows
    BY CallTyped, CallsAre DEF SendRefresh, db, Rows
  <1>2. cookie \in 0 .. Rows /\ pc \in Pcs /\ out \in Int /\ out \in {Refused, Failed} \cup 0 .. Rows
    BY <1>1, TypesInParts DEF Rest, Pcs, Refused, Done
  <1>3. Go(c, r) /\ call[c].kind = "refresh"
    BY DEF SendRefresh, At
  <1>4. /\ cookie = 0 => pc = "answered" /\ out = Refused
        /\ cookie # 0 => pc = "sent" /\ out = Done
    OBVIOUS
  <1> HIDE DEF c, pc, out
  <1>5. /\ r \in CallStates /\ r.kind = call[c].kind /\ r.pc = pc /\ r.tok = cookie /\ r.out = out
        /\ r.targets = call[c].targets
    <2>1. call[c] \in CallStates /\ cookie \in Nat
      BY <1>1, <1>2
    <2>2. pc \in Pcs /\ out \in Int
      BY <1>2
    <2> QED
      BY <2>1, <2>2 DEF CallStates
  <1>6. CallFits(r, Rows')
    BY <1>1, <1>2, <1>5 DEF CallFits
  <1> HIDE DEF r
  <1>7. CallsFit' /\ call'[c] = r /\ OthersKept(c)
    BY <1>1, <1>3, <1>6, Goes
  <1> QED
    BY <1>3, <1>4, <1>5, <1>7 DEF c

LEMMA SentUserCall ==
    ASSUME TypeOK, NEW t \in Tabs, SendUserCall(t)
    PROVE  LET c == User(t) IN
           /\ CallsFit' /\ OthersKept(c) /\ call[c] = Idle
           /\ call'[c].kind \in UserCalls(t)
           /\ call'[c].tok = IF call'[c].kind \in {"switch", "logout"} THEN cookie ELSE 0
           /\ call'[c].kind \in Minting => Room
           /\ IF cookie = 0 /\ call'[c].kind \in {"switch", "logout"}
              THEN call'[c].pc = "answered" ELSE call'[c].pc = "sent"
           /\ call'[c].out = IF cookie = 0 /\ call'[c].kind = "switch" THEN Refused ELSE Done
           /\ IF call'[c].kind = "reset" THEN calm' = FALSE ELSE Overlap(c)
  <1> DEFINE c == User(t)
  <1>1. c \in Calls /\ Rows' = Rows /\ Rows \in Nat /\ cookie \in 0 .. Rows
    BY CallTyped, CallsAre, TypesInParts DEF SendUserCall, db, Rows, Rest
  <1>2. PICK kind \in UserCalls(t), company \in Companies :
          /\ kind \in Minting => Room
          /\ Go(c, [Idle EXCEPT
                !.kind = kind, !.company = company,
                !.tok  = IF kind \in {"switch", "logout"} THEN cookie ELSE 0,
                !.pc   = IF cookie = 0 /\ kind \in {"switch", "logout"} THEN "answered" ELSE "sent",
                !.out  = IF cookie = 0 /\ kind = "switch" THEN Refused ELSE Done])
          /\ IF kind = "reset" THEN calm' = FALSE ELSE Overlap(c)
    BY DEF SendUserCall
  <1> DEFINE pc == IF cookie = 0 /\ kind \in {"switch", "logout"} THEN "answered" ELSE "sent"
             out == IF cookie = 0 /\ kind = "switch" THEN Refused ELSE Done
             tok == IF kind \in {"switch", "logout"} THEN cookie ELSE 0
             r == [Idle EXCEPT !.kind = kind, !.company = company, !.tok = tok, !.pc = pc, !.out = out]
  <1>3. Go(c, r)
    BY <1>2
  <1>4. kind \in Kinds /\ pc \in Pcs /\ out \in Int /\ out \in {Refused, Failed} \cup 0 .. Rows
    BY <1>1 DEF UserCalls, Kinds, Pcs, Refused, Done
  <1>5. /\ IF cookie = 0 /\ kind \in {"switch", "logout"} THEN pc = "answered" ELSE pc = "sent"
        /\ out = IF cookie = 0 /\ kind = "switch" THEN Refused ELSE Done
        /\ tok = IF kind \in {"switch", "logout"} THEN cookie ELSE 0
    OBVIOUS
  <1>10. tok \in 0 .. Rows
    BY <1>1
  <1> HIDE DEF pc, out, tok
  <1>7. /\ r \in CallStates /\ r.kind = kind /\ r.pc = pc /\ r.tok = tok /\ r.out = out
        /\ r.targets = Idle.targets
    <2>1. Idle \in CallStates /\ tok \in Nat
      BY <1>1, <1>10, IdleFits DEF CallFits
    <2> QED
      BY <2>1, <1>4 DEF CallStates
  <1>6. CallFits(r, Rows')
    BY <1>1, <1>4, <1>7, <1>10, IdleFits DEF CallFits
  <1>8. call[c] = Idle
    BY DEF SendUserCall
  <1> HIDE DEF r
  <1>9. CallsFit' /\ call'[c] = r /\ OthersKept(c)
    BY <1>1, <1>3, <1>6, Goes
  <1> HIDE DEF c
  <1> QED
    BY <1>2, <1>5, <1>7, <1>8, <1>9 DEF c

LEMMA GoesIdle ==
    ASSUME TypeOK, NEW c \in Calls, Go(c, Idle), UNCHANGED tokens
    PROVE  CallsFit' /\ OthersKept(c) /\ call'[c].kind = "none" /\ call'[c].pc = "idle"
  <1>1. Rows' = Rows /\ Rows \in Nat
    BY CallTyped DEF Rows
  <1> QED
    BY <1>1, IdleFits, Goes

LEMMA Regenerated ==
    ASSUME TypeOK, NEW t \in Tabs, NewGeneration(t), UNCHANGED tokens
    PROVE  /\ CallsFit' /\ OthersKept(User(t))
           /\ call'[User(t)].kind = "none" /\ call'[User(t)].pc = "idle"
  <1> DEFINE c == User(t)  d == Timer(t)
             stale == call[d].stale \/ call[d].pc # "idle"
             r == [call[d] EXCEPT !.stale = stale]
  <1>1. Rows' = Rows /\ Rows \in Nat /\ c \in Calls /\ d \in Calls /\ c # d
    BY CallTyped, CallsAre DEF Rows
  <1>2. call[d] \in CallStates /\ CallFits(call[d], Rows) /\ stale \in BOOLEAN
    BY <1>1, CallTyped
  <1>3. call' = [call EXCEPT ![c] = Idle, ![d] = r]
    <2>1. call \in [Calls -> CallStates]
      BY TypesInParts DEF CallsFit
    <2> QED
      BY <1>1, <2>1 DEF NewGeneration
  <1> HIDE DEF c, d, stale
  <1>4. /\ r \in CallStates /\ r.kind = call[d].kind /\ r.pc = call[d].pc /\ r.tok = call[d].tok
        /\ r.live = call[d].live /\ r.company = call[d].company /\ r.targets = call[d].targets
        /\ r.out = call[d].out
    BY <1>2 DEF CallStates
  <1>5. CallFits(r, Rows)
    BY <1>2, <1>4 DEF CallFits
  <1> HIDE DEF r
  <1>6. CallsFit /\ CallFits(Idle, Rows) /\ Idle.kind = "none" /\ Idle.pc = "idle"
    BY <1>1, IdleFits, TypesInParts
  <1>7. /\ call' \in [Calls -> CallStates] /\ call'[c] = Idle /\ call'[d] = r
        /\ \A e \in Calls : e # c /\ e # d => call'[e] = call[e]
    BY <1>1, <1>3, <1>4, <1>6 DEF CallsFit, CallFits
  <1>8. \A e \in Calls : CallFits(call'[e], Rows')
    BY <1>1, <1>5, <1>6, <1>7 DEF CallsFit
  <1> QED
    BY <1>4, <1>6, <1>7, <1>8 DEF CallsFit, OthersKept, Kept, c

LEMMA Loaded ==
    ASSUME TypeOK, NEW c \in Calls, LoadToken(c), call[c].tok # 0
    PROVE  /\ CallsFit' /\ OthersKept(c)
           /\ call'[c].kind = "switch" /\ call'[c].pc = "loaded" /\ call'[c].tok = call[c].tok
           /\ call'[c].live = Spendable(tokens[call[c].tok])
  <1> DEFINE live == Spendable(tokens[call[c].tok])
             r == [call[c] EXCEPT !.pc = "loaded", !.live = live]
  <1>1. /\ call[c] \in CallStates /\ CallFits(call[c], Rows) /\ Rows' = Rows /\ Rows \in Nat
        /\ call[c].tok \in 1 .. Rows
    BY CallTyped DEF LoadToken, db, Rows
  <1>2. live \in BOOLEAN
    BY DEF Spendable
  <1>3. Go(c, r) /\ call[c].kind = "switch"
    BY DEF LoadToken, At
  <1> HIDE DEF live
  <1>4. /\ r \in CallStates /\ r.kind = call[c].kind /\ r.pc = "loaded" /\ r.tok = call[c].tok
        /\ r.live = live /\ r.out = call[c].out /\ r.targets = call[c].targets
    BY <1>1, <1>2 DEF CallStates, Pcs
  <1>5. CallFits(r, Rows')
    BY <1>1, <1>4 DEF CallFits
  <1> HIDE DEF r
  <1>6. CallsFit' /\ call'[c] = r /\ OthersKept(c)
    BY <1>1, <1>3, <1>5, Goes
  <1> QED
    BY <1>3, <1>4, <1>6 DEF live

\* The three ways a rotation may go.
Spends(c) == IF call[c].kind = "switch" THEN call[c].live ELSE Spendable(tokens[call[c].tok])

LEMMA Rotated ==
    ASSUME TypeOK, NEW c \in Calls, Rotate(c), call[c].tok # 0
    PROVE  /\ CallsFit' /\ OthersKept(c) /\ call'[c].kind = call[c].kind /\ call'[c].tok = call[c].tok
           /\ \/ /\ Spends(c) /\ tokens[call[c].tok].expired
                 /\ call'[c].pc = "answered" /\ call'[c].out = Refused
                 /\ UNCHANGED <<rowLock, reused>>
              \/ /\ Spends(c) /\ ~tokens[call[c].tok].expired
                 /\ call'[c].pc = "held" /\ rowLock' = [rowLock EXCEPT ![call[c].tok] = c]
                 /\ call'[c].company = IF call[c].kind = "switch" THEN call[c].company
                                       ELSE tokens[call[c].tok].company
                 /\ UNCHANGED reused
              \/ /\ ~Spends(c)
                 /\ call'[c].pc = "revoking" /\ rowLock' = [rowLock EXCEPT ![call[c].tok] = c]
                 /\ reused' = TRUE
  <1> DEFINE i == call[c].tok
             company == IF call[c].kind = "switch" THEN call[c].company ELSE Inherited(tokens[i])
             r == [call[c] EXCEPT !.pc = "held", !.company = company]
             q == [call[c] EXCEPT !.pc = "revoking", !.targets = Unrevoked \cap Family(i)]
  <1>1. /\ call[c] \in CallStates /\ CallFits(call[c], Rows) /\ Rows' = Rows /\ Rows \in Nat
        /\ i \in 1 .. Rows /\ DOMAIN tokens = 1 .. Rows /\ call[c].company \in Companies
        /\ tokens[i].expired \in BOOLEAN /\ tokens[i].company \in Companies
    <2>1. TokensFit
      BY TypesInParts
    <2> QED
      BY <2>1, CallTyped, RowsTyped DEF Rotate, Rows
  <1>2. Spends(c) \in BOOLEAN
    BY CallTyped DEF Spends, Spendable
  <1>3. CASE Spends(c) /\ tokens[i].expired
    <2>1. Answer(c, Refused) /\ UNCHANGED <<rowLock, reused>>
      BY <1>1, <1>2, <1>3 DEF Rotate, Spends
    <2> QED
      BY <1>1, <1>3, <2>1, Answers
  <1>4. CASE Spends(c) /\ ~tokens[i].expired
    <2>1. /\ rowLock' = [rowLock EXCEPT ![i] = c] /\ Go(c, r) /\ UNCHANGED reused
      BY <1>1, <1>2, <1>4 DEF Rotate, Spends
    <2>2. company \in Companies /\ company = IF call[c].kind = "switch" THEN call[c].company
                                             ELSE tokens[i].company
      BY <1>1 DEF Inherited
    <2> HIDE DEF company
    <2>3. /\ r \in CallStates /\ r.kind = call[c].kind /\ r.pc = "held" /\ r.tok = call[c].tok
          /\ r.company = company /\ r.out = call[c].out /\ r.targets = call[c].targets
      BY <1>1, <2>2 DEF CallStates, Pcs
    <2>4. CallFits(r, Rows')
      BY <1>1, <2>3 DEF CallFits
    <2> HIDE DEF r
    <2>5. CallsFit' /\ call'[c] = r /\ OthersKept(c)
      BY <1>1, <2>1, <2>4, Goes
    <2> QED
      BY <1>4, <2>1, <2>2, <2>3, <2>5
  <1>5. CASE ~Spends(c)
    <2>1. /\ rowLock' = [rowLock EXCEPT ![i] = c] /\ reused' = TRUE /\ Go(c, q)
      BY <1>1, <1>2, <1>5 DEF Rotate, Spends
    <2>2. Unrevoked \cap Family(i) \subseteq 1 .. Rows
      BY <1>1 DEF Unrevoked
    <2>3. /\ q \in CallStates /\ q.kind = call[c].kind /\ q.pc = "revoking" /\ q.tok = call[c].tok
          /\ q.out = call[c].out /\ q.targets = Unrevoked \cap Family(i)
      <3>1. Unrevoked \cap Family(i) \in SUBSET Nat
        BY <1>1, <2>2
      <3> QED
        BY <1>1, <3>1 DEF CallStates, Pcs
    <2>4. CallFits(q, Rows')
      BY <1>1, <2>2, <2>3 DEF CallFits
    <2> HIDE DEF q
    <2>5. CallsFit' /\ call'[c] = q /\ OthersKept(c)
      BY <1>1, <2>1, <2>4, Goes
    <2> QED
      BY <1>5, <2>1, <2>3, <2>5
  <1> QED
    BY <1>2, <1>3, <1>4, <1>5

LEMMA Revoking ==
    ASSUME TypeOK, NEW c \in Calls, StartRevoking(c)
    PROVE  /\ CallsFit' /\ OthersKept(c) /\ call[c].kind \in {"logout", "disable", "reset"}
           /\ call'[c].kind = call[c].kind /\ call'[c].pc = "revoking" /\ call'[c].tok = call[c].tok
  <1> DEFINE targets == IF call[c].kind = "logout" THEN Unrevoked \cap Family(call[c].tok) ELSE Unrevoked
             r == [call[c] EXCEPT !.pc = "revoking", !.targets = targets]
  <1>1. /\ call[c] \in CallStates /\ CallFits(call[c], Rows) /\ Rows' = Rows /\ Rows \in Nat
        /\ DOMAIN tokens = 1 .. Rows
    BY CallTyped DEF StartRevoking, db, Rows
  <1>2. targets \subseteq 1 .. Rows /\ targets \in SUBSET Nat
    BY <1>1 DEF Unrevoked
  <1>3. Go(c, r) /\ call[c].kind \in {"logout", "disable", "reset"}
    BY DEF StartRevoking, At
  <1> HIDE DEF targets
  <1>4. /\ r \in CallStates /\ r.kind = call[c].kind /\ r.pc = "revoking" /\ r.tok = call[c].tok
        /\ r.out = call[c].out /\ r.targets = targets
    BY <1>1, <1>2 DEF CallStates, Pcs
  <1>5. CallFits(r, Rows')
    BY <1>1, <1>2, <1>4 DEF CallFits
  <1> HIDE DEF r
  <1> QED
    BY <1>1, <1>3, <1>4, <1>5, Goes

\* The answer of the backend is lost.
LEMMA Failing ==
    ASSUME TypeOK, NEW c \in Calls, AnswerFails(c)
    PROVE  /\ CallsFit' /\ OthersKept(c)
           /\ call'[c].kind = call[c].kind /\ call'[c].pc = "answered" /\ call'[c].out = Failed
  <1> DEFINE r == [call[c] EXCEPT !.out = Failed]
  <1>1. /\ call[c] \in CallStates /\ CallFits(call[c], Rows) /\ Rows' = Rows /\ Rows \in Nat
        /\ call[c].pc = "answered" /\ Go(c, r)
    BY CallTyped DEF AnswerFails, db, Rows
  <1>2. /\ r \in CallStates /\ r.kind = call[c].kind /\ r.pc = "answered" /\ r.tok = call[c].tok
        /\ r.out = Failed /\ r.targets = call[c].targets
    BY <1>1 DEF CallStates, Pcs, Failed
  <1>3. CallFits(r, Rows')
    BY <1>1, <1>2 DEF CallFits
  <1> HIDE DEF r
  <1> QED
    BY <1>1, <1>2, <1>3, Goes

-----------------------------------------------------------------------------
(* Types, lanes and room.                                                  *)

LEMMA MakingIsFinite == IsFiniteSet(Making) /\ Cardinality(Making) \in Nat
  <1>1. Making \subseteq Calls
    BY DEF Making
  <1> QED
    BY <1>1, CallsAre, FS_Subset, FS_CardinalityType

\* No call more, and no row.
LEMMA RoomKept ==
    ASSUME TInv, NEW c \in Calls, OthersKept(c), Rows' = Rows,
           call'[c].kind \in Minting => call'[c].pc = "answered" \/ c \in Making
    PROVE  RoomLeft'
  <1>1. Making' \subseteq Making
    BY DEF Making, OthersKept, Kept
  <1>2. IsFiniteSet(Making') /\ Cardinality(Making') <= Cardinality(Making) /\ Cardinality(Making') \in Nat
    BY <1>1, MakingIsFinite, FS_Subset, FS_CardinalityType
  <1>3. Rows \in Nat
    BY CallTyped DEF TInv
  <1> QED
    BY <1>2, <1>3, MakingIsFinite, BoundAssumption DEF TInv, RoomLeft

\* A call that had its place has minted.
LEMMA RoomUsed ==
    ASSUME TInv, NEW c \in Calls, OthersKept(c), Rows' = Rows + 1, c \in Making,
           call'[c].pc = "answered"
    PROVE  RoomLeft' /\ Rows + 1 <= MaxTokens
  <1>1. Making' \subseteq Making \ {c}
    BY DEF Making, OthersKept, Kept
  <1>2. IsFiniteSet(Making \ {c}) /\ Cardinality(Making \ {c}) = Cardinality(Making) - 1
    BY MakingIsFinite, FS_RemoveElement
  <1>3. /\ IsFiniteSet(Making') /\ Cardinality(Making') <= Cardinality(Making \ {c})
        /\ Cardinality(Making') \in Nat
    BY <1>1, <1>2, FS_Subset, FS_CardinalityType
  <1>4. Rows \in Nat
    BY CallTyped DEF TInv
  <1> QED
    BY <1>2, <1>3, <1>4, MakingIsFinite, BoundAssumption DEF TInv, RoomLeft

\* A call that may mint is let in when there is room for all that are under way.
LEMMA RoomTaken ==
    ASSUME TInv, NEW c \in Calls, OthersKept(c), Rows' = Rows, Room
    PROVE  RoomLeft'
  <1> DEFINE all == {d \in Calls : call[d].kind \in Minting}
  <1>1. Making' \subseteq all \cup {c}
    BY DEF Making, OthersKept, Kept
  <1>2. IsFiniteSet(all) /\ Cardinality(all) \in Nat
    BY CallsAre, FS_Subset, FS_CardinalityType
  <1>3. IsFiniteSet(all \cup {c}) /\ Cardinality(all \cup {c}) <= Cardinality(all) + 1
    BY <1>2, FS_AddElement
  <1>4. IsFiniteSet(Making') /\ Cardinality(Making') <= Cardinality(all \cup {c}) /\ Cardinality(Making') \in Nat
    BY <1>1, <1>3, FS_Subset, FS_CardinalityType
  <1>5. Cardinality(all \cup {c}) \in Nat
    BY <1>3, FS_CardinalityType
  <1>6. Rows \in Nat /\ Rows < MaxTokens - Cardinality(all)
    BY CallTyped DEF TInv, Room, Rows
  <1> HIDE DEF all
  <1> QED
    BY <1>2, <1>3, <1>4, <1>5, <1>6, BoundAssumption DEF RoomLeft

\* A step of the calls C that leaves to the others what they rely on.
LEMMA Steps ==
    ASSUME TInv, NEW C, \A d \in Calls : d \in C \/ Kept(d), \A d \in Calls \cap C : InLane(d)',
           \A d \in Calls : d \notin C /\ call[d].pc = "held" =>
               /\ rowLock'[call[d].tok] = d
               /\ call[d].kind = "refresh" => tokens'[call[d].tok].replaced = 0,
           TokensFit', CallsFit', Rest', (ended \subseteq Chains)', RoomLeft'
    PROVE  TInv'
  <1>1. Rows' <= MaxTokens
    <2>1. Making' \subseteq Calls
      BY DEF Making
    <2>2. Cardinality(Making') \in Nat
      BY <2>1, CallsAre, FS_Subset, FS_CardinalityType
    <2>3. Rows' \in Nat
      BY DEF TokensFit, Rows
    <2> QED
      BY <2>2, <2>3, BoundAssumption DEF RoomLeft
  <1>2. TypeOK'
    <2>1. (Rows <= MaxTokens)'
      BY <1>1
    <2> QED
      BY <2>1, TypesInParts, PTL
  <1>3. Lanes'
    <2> SUFFICES ASSUME NEW d \in Calls PROVE InLane(d)'
      BY DEF Lanes
    <2>1. CASE d \in C
      BY <2>1
    <2>2. CASE d \notin C
      <3>1. InLane(d) /\ Kept(d)
        BY <2>2 DEF TInv, Lanes
      <3> QED
        BY <2>2, <3>1 DEF InLane, Kept
    <2> QED
      BY <2>1, <2>2
  <1> QED
    BY <1>2, <1>3 DEF TInv

\* The families of the rows that were there are there.
LEMMA ChainsKept ==
    ASSUME TInv, Rows' \in Nat, Rows <= Rows', DOMAIN tokens' = 1 .. Rows',
           \A i \in 1 .. Rows : tokens'[i].family = tokens[i].family
    PROVE  Chains \subseteq Chains' /\ (ended' = ended => (ended \subseteq Chains)')
  <1>1. Rows \in Nat /\ DOMAIN tokens = 1 .. Rows /\ ended \subseteq Chains
    BY TypesInParts, RowsTyped DEF TInv
  <1> QED
    BY <1>1 DEF Chains

\* Steps that leave the tokens alone.
LEMMA TokensAlone ==
    ASSUME TInv, UNCHANGED tokens
    PROVE  /\ TokensFit' /\ Rows' = Rows /\ Rows \in Nat
           /\ ended' = ended => (ended \subseteq Chains)'
           /\ \A d \in Calls : call[d].pc = "held" =>
                 (call[d].kind = "refresh" => tokens'[call[d].tok].replaced = 0)
  <1>1. TokensFit /\ Lanes
    BY TypesInParts DEF TInv
  <1> QED
    BY <1>1, TypesInParts, RowsTyped DEF TInv, Lanes, InLane, TokensFit, Rows, Chains

\* Steps that take no lock.
LEMMA LocksAlone ==
    ASSUME TInv, UNCHANGED rowLock
    PROVE  \A d \in Calls : call[d].pc = "held" => rowLock'[call[d].tok] = d
  BY DEF TInv, Lanes, InLane

\* The end of a transaction frees only its own.
LEMMA LocksFreed ==
    ASSUME TInv, NEW c \in Calls, rowLock' = Unlocked(c)
    PROVE  /\ \A d \in Calls : d # c /\ call[d].pc = "held" => rowLock'[call[d].tok] = d
           /\ rowLock' \in [1 .. MaxTokens -> Calls \cup {Nobody}]
  <1>1. rowLock \in [1 .. MaxTokens -> Calls \cup {Nobody}] /\ Rows <= MaxTokens
    BY TypesInParts DEF TInv, Rest
  <1>2. \A d \in Calls : call[d].pc = "held" => call[d].tok \in 1 .. Rows /\ rowLock[call[d].tok] = d
    BY CallTyped DEF TInv, Lanes, InLane
  <1>3. \A d \in Calls : call[d].pc = "held" => call[d].tok \in 1 .. MaxTokens
    <2> SUFFICES ASSUME NEW d \in Calls, call[d].pc = "held" PROVE call[d].tok \in 1 .. MaxTokens
      OBVIOUS
    <2> QED
      BY <1>1, <1>2, CallTyped, BoundAssumption DEF TInv
  <1> QED
    BY <1>1, <1>2, <1>3 DEF Unlocked

\* A lock is taken only when no other call holds it.
LEMMA LocksTaken ==
    ASSUME TInv, NEW c \in Calls, NEW i \in 1 .. Rows, RowFree(i, c), rowLock' = [rowLock EXCEPT ![i] = c]
    PROVE  /\ \A d \in Calls : d # c /\ call[d].pc = "held" => rowLock'[call[d].tok] = d
           /\ rowLock' \in [1 .. MaxTokens -> Calls \cup {Nobody}] /\ rowLock'[i] = c
  <1>1. rowLock \in [1 .. MaxTokens -> Calls \cup {Nobody}] /\ Rows <= MaxTokens /\ Rows \in Nat
    BY TypesInParts, RowsTyped DEF TInv, Rest
  <1>2. i \in 1 .. MaxTokens
    BY <1>1, BoundAssumption
  <1>3. \A d \in Calls : call[d].pc = "held" => rowLock[call[d].tok] = d
    BY DEF TInv, Lanes, InLane
  <1>4. rowLock[i] \in {Nobody, c} /\ Nobody \notin Calls
    BY CallsAre DEF RowFree
  <1> QED
    BY <1>1, <1>2, <1>3, <1>4

\* A step of c alone.
LEMMA StepOf ==
    ASSUME TInv, NEW c \in Calls, OthersKept(c), InLane(c)', CallsFit', Rest', RoomLeft', TokensFit',
           (ended \subseteq Chains)',
           \A d \in Calls : d # c /\ call[d].pc = "held" => rowLock'[call[d].tok] = d,
           \A d \in Calls : d # c /\ call[d].pc = "held" =>
              (call[d].kind = "refresh" => tokens'[call[d].tok].replaced = 0)
    PROVE  TInv'
  <1> DEFINE C == {c}
  <1>1. \A d \in Calls : d \in C \/ Kept(d)
    BY DEF OthersKept
  <1>2. \A d \in Calls \cap C : InLane(d)'
    OBVIOUS
  <1>3. \A d \in Calls : d \notin C /\ call[d].pc = "held" =>
               /\ rowLock'[call[d].tok] = d
               /\ call[d].kind = "refresh" => tokens'[call[d].tok].replaced = 0
    OBVIOUS
  <1> HIDE DEF C
  <1> QED
    BY <1>1, <1>2, <1>3, Steps

LEMMA StepAlone ==
    ASSUME TInv, NEW c \in Calls, OthersKept(c), InLane(c)', CallsFit', Rest', RoomLeft',
           UNCHANGED tokens, UNCHANGED rowLock, UNCHANGED ended
    PROVE  TInv'
  <1>1. TokensFit' /\ (ended \subseteq Chains)'
    BY TokensAlone
  <1>2. \A d \in Calls : call[d].pc = "held" => rowLock'[call[d].tok] = d
    BY LocksAlone
  <1>3. \A d \in Calls : call[d].pc = "held" =>
              (call[d].kind = "refresh" => tokens'[call[d].tok].replaced = 0)
    BY TokensAlone
  <1> QED
    BY <1>1, <1>2, <1>3, StepOf

\* A step of no call.
LEMMA StepOfNone ==
    ASSUME TInv, UNCHANGED call, UNCHANGED rowLock, UNCHANGED ended, Rest', TokensFit', Rows' = Rows,
           \A i \in 1 .. Rows : Constant(i) /\ tokens'[i].replaced = tokens[i].replaced
    PROVE  TInv'
  <1>1. CallsFit' /\ RoomLeft'
    BY TypesInParts DEF TInv, CallsFit, RoomLeft, Making
  <1>2. \A d \in Calls : Kept(d)
    BY DEF Kept
  <1>3. DOMAIN tokens' = 1 .. Rows' /\ Rows \in Nat
    BY TypesInParts, RowsTyped DEF TInv, TokensFit, Rows
  <1>4. (ended \subseteq Chains)'
    BY <1>3, ChainsKept DEF Constant
  <1>5. \A d \in Calls : call[d].pc = "held" => call[d].tok \in 1 .. Rows
    BY CallTyped DEF TInv, Lanes, InLane
  <1>6. \A d \in Calls : d \notin {} /\ call[d].pc = "held" =>
               /\ rowLock'[call[d].tok] = d
               /\ call[d].kind = "refresh" => tokens'[call[d].tok].replaced = 0
    BY <1>5 DEF TInv, Lanes, InLane
  <1>7. \A d \in Calls : d \in {} \/ Kept(d)
    BY <1>2
  <1>8. \A d \in Calls \cap {} : InLane(d)'
    OBVIOUS
  <1> QED
    BY <1>1, <1>4, <1>6, <1>7, <1>8, Steps

LEMMA OpenTabTyped ==
    ASSUME TInv, NEW t \in Tabs, OpenTab(t)
    PROVE  TInv'
  <1>1. UNCHANGED <<tokens, rowLock, call, ended>>
    BY DEF OpenTab, db
  <1>2. Rest'
    BY <1>1, TypesInParts DEF OpenTab, TInv, Rest, db, Rows
  <1>3. TokensFit' /\ Rows' = Rows /\ \A i \in 1 .. Rows : Constant(i) /\ tokens'[i].replaced = tokens[i].replaced
    BY <1>1, TokensAlone DEF Constant
  <1> QED
    BY <1>1, <1>2, <1>3, StepOfNone

LEMMA ScheduleRefreshTyped ==
    ASSUME TInv, NEW t \in Tabs, ScheduleRefresh(t)
    PROVE  TInv'
  <1> DEFINE c == Timer(t)
  <1>1. UNCHANGED <<tokens, rowLock, cookie, webLock, view, faults, reused, calm, ended>> /\ Room
    BY DEF ScheduleRefresh, db, browser
  <1>2. /\ c \in Calls /\ c[2] = "timer" /\ CallsFit' /\ OthersKept(c)
        /\ call'[c].kind = "refresh" /\ call'[c].pc = "queued"
    BY Scheduled, CallsAre DEF TInv
  <1> HIDE DEF c
  <1>3. Rest'
    BY <1>1, TypesInParts DEF TInv, Rest, Rows
  <1>4. RoomLeft'
    BY <1>1, <1>2, TokensAlone, RoomTaken
  <1>5. InLane(c)'
    BY <1>2 DEF InLane
  <1> QED
    BY <1>1, <1>2, <1>3, <1>4, <1>5, StepAlone

LEMMA SendRefreshTyped ==
    ASSUME TInv, NEW t \in Tabs, SendRefresh(t)
    PROVE  TInv'
  <1> DEFINE c == Timer(t)
  <1>1. /\ UNCHANGED <<tokens, rowLock, cookie, view, faults, reused, ended>> /\ webLock' \in {c, NoLocks}
        /\ Overlap(c) /\ call[c].pc = "queued"
    BY DEF SendRefresh, db, At
  <1>2. /\ c \in Calls /\ c[2] = "timer" /\ CallsFit' /\ OthersKept(c)
        /\ call[c].kind = "refresh" /\ call'[c].kind = "refresh" /\ call'[c].tok = cookie
        /\ cookie = 0 => call'[c].pc = "answered" /\ call'[c].out = Refused
        /\ cookie # 0 => call'[c].pc = "sent" /\ call'[c].out = Done
    BY SentRefresh, CallsAre DEF TInv
  <1> HIDE DEF c
  <1>3. Rest'
    <2>1. calm' \in BOOLEAN
      BY <1>1, TypesInParts DEF TInv, Rest, Overlap
    <2> QED
      BY <1>1, <1>2, <2>1, TypesInParts DEF TInv, Rest, Rows
  <1>4. RoomLeft'
    BY <1>1, <1>2, TokensAlone, RoomKept DEF Making
  <1>5. InLane(c)'
    BY <1>1, <1>2 DEF InLane, Refused
  <1> QED
    BY <1>1, <1>2, <1>3, <1>4, <1>5, StepAlone

LEMMA SendUserCallTyped ==
    ASSUME TInv, NEW t \in Tabs, SendUserCall(t)
    PROVE  TInv'
  <1> DEFINE c == User(t)
  <1>1. UNCHANGED <<tokens, rowLock, cookie, webLock, view, faults, reused, ended>>
    BY DEF SendUserCall, db, browser
  <1>2. c \in Calls /\ c[2] = "user"
    BY CallsAre
  <1>3. /\ CallsFit' /\ OthersKept(c)
        /\ call'[c].kind \in {"login", "switch", "logout", "disable", "reset"}
        /\ call'[c].kind \in {"switch", "logout"} => call'[c].tok = cookie
        /\ call'[c].kind \in Minting => Room
        /\ IF cookie = 0 /\ call'[c].kind \in {"switch", "logout"}
           THEN call'[c].pc = "answered" ELSE call'[c].pc = "sent"
        /\ call'[c].out \in {Refused, Done}
        /\ IF call'[c].kind = "reset" THEN calm' = FALSE ELSE Overlap(c)
    BY SentUserCall DEF TInv, UserCalls
  <1> HIDE DEF c
  <1>4. Rest'
    <2>1. calm' \in BOOLEAN
      BY <1>3, TypesInParts DEF TInv, Rest, Overlap
    <2> QED
      BY <1>1, <2>1, TypesInParts DEF TInv, Rest, Rows
  <1>5. RoomLeft'
    BY <1>1, <1>2, <1>3, TokensAlone, RoomKept, RoomTaken
  <1>6. InLane(c)'
    BY <1>2, <1>3 DEF InLane, Refused, Done
  <1> QED
    BY <1>1, <1>2, <1>3, <1>4, <1>5, <1>6, StepAlone

\* A call that has ended.
LEMMA Ends ==
    ASSUME TInv, NEW c \in Calls, UNCHANGED <<tokens, rowLock, ended>>, Rest', CallsFit', OthersKept(c),
           call'[c].kind = "none", call'[c].pc = "idle"
    PROVE  TInv'
  <1>1. RoomLeft'
    BY TokensAlone, RoomKept DEF Minting
  <1>2. InLane(c)'
    BY DEF InLane
  <1> QED
    BY <1>1, <1>2, StepAlone

\* The cookie, if it is set, is set to what a call was answered.
LEMMA AnsweredTyped ==
    ASSUME TInv, NEW t \in Tabs, Answered(t)
    PROVE  TInv'
  <1>1. /\ Timer(t) \in Calls /\ User(t) \in Calls
        /\ call[Timer(t)].out \in {Refused, Failed} \cup 0 .. Rows
        /\ call[User(t)].out \in {Refused, Failed} \cup 0 .. Rows
        /\ Rows \in Nat
    BY CallsAre, CallTyped DEF TInv
  <1>2. Rest
    BY TypesInParts DEF TInv
  <1>3. CASE RefreshAnswered(t)
    <2>1. /\ UNCHANGED <<tokens, rowLock, faults, reused, calm, ended>> /\ Go(Timer(t), Idle)
          /\ \/ cookie' = cookie \/ cookie' = 0
             \/ cookie' = call[Timer(t)].out /\ call[Timer(t)].out > 0
          /\ FreesWebLock(Timer(t))
      BY <1>1, <1>3 DEF RefreshAnswered, db
    <2>2. view' \in [Tabs -> {"closed", "new", "in", "out", "unreachable"}]
      BY <1>2, <1>3 DEF RefreshAnswered, Rest
    <2>3. cookie' \in 0 .. Rows
      BY <1>1, <1>2, <2>1 DEF Rest, Refused, Failed
    <2>4. Rest'
      BY <1>2, <2>1, <2>2, <2>3 DEF Rest, FreesWebLock, Rows
    <2> QED
      BY <1>1, <2>1, <2>4, GoesIdle, Ends DEF TInv
  <1>4. CASE SessionAnswered(t)
    <2>1. /\ UNCHANGED <<tokens, rowLock, webLock, faults, reused, calm, ended>>
          /\ Go(User(t), Idle) \/ NewGeneration(t)
          /\ cookie' = cookie \/ (cookie' = call[User(t)].out /\ call[User(t)].out > 0)
          /\ view' \in [Tabs -> {"closed", "new", "in", "out", "unreachable"}]
      BY <1>2, <1>4 DEF SessionAnswered, db, Rest
    <2>2. cookie' \in 0 .. Rows
      BY <1>1, <1>2, <2>1 DEF Rest, Refused, Failed
    <2>3. Rest'
      BY <1>2, <2>1, <2>2 DEF Rest, Rows
    <2> QED
      BY <1>1, <2>1, <2>3, GoesIdle, Regenerated, Ends DEF TInv
  <1>5. CASE LogoutAnswered(t)
    <2>1. /\ UNCHANGED <<tokens, rowLock, webLock, faults, reused, calm, ended>>
          /\ Go(User(t), Idle) \/ NewGeneration(t)
          /\ cookie' = cookie \/ cookie' = 0
          /\ view' \in [Tabs -> {"closed", "new", "in", "out", "unreachable"}]
      BY <1>2, <1>5 DEF LogoutAnswered, db, Rest
    <2>2. Rest'
      BY <1>1, <1>2, <2>1 DEF Rest, Rows
    <2> QED
      BY <1>1, <2>1, <2>2, GoesIdle, Regenerated, Ends DEF TInv
  <1>6. CASE PasswordAnswered(t)
    <2>1. UNCHANGED <<tokens, rowLock, cookie, webLock, view, faults, reused, calm, ended>> /\ Go(User(t), Idle)
      BY <1>6 DEF PasswordAnswered, db, browser
    <2>2. Rest'
      BY <1>2, <2>1 DEF Rest, Rows
    <2> QED
      BY <1>1, <2>1, <2>2, GoesIdle, Ends DEF TInv
  <1> QED
    BY <1>3, <1>4, <1>5, <1>6 DEF Answered

LEMMA CloseTabTyped ==
    ASSUME TInv, NEW t \in Tabs, CloseTab(t)
    PROVE  TInv'
  <1>1. /\ UNCHANGED <<tokens, rowLock, cookie, reused, ended>> /\ faults < MaxFaults /\ faults' = faults + 1
        /\ calm' = FALSE /\ FreesWebLock(Timer(t)) /\ view' = [view EXCEPT ![t] = "closed"]
    BY DEF CloseTab, Fault, db
  <1>2. Rest'
    <2>1. Rest
      BY TypesInParts DEF TInv
    <2>2. faults' \in 0 .. MaxFaults
      BY <1>1, <2>1, BoundAssumption DEF Rest
    <2>3. view' \in [Tabs -> {"closed", "new", "in", "out", "unreachable"}]
      BY <1>1, <2>1 DEF Rest
    <2> QED
      BY <1>1, <2>1, <2>2, <2>3 DEF Rest, Rows, FreesWebLock
  <1>3. CASE call[Timer(t)].pc = "queued"
    <2>1. Go(Timer(t), Idle)
      BY <1>3 DEF CloseTab, Go
    <2> QED
      BY <1>1, <1>2, <2>1, CallsAre, GoesIdle, Ends DEF TInv
  <1>4. CASE call[Timer(t)].pc # "queued"
    <2>1. UNCHANGED call
      BY <1>4 DEF CloseTab
    <2>2. TokensFit' /\ Rows' = Rows /\ \A i \in 1 .. Rows : Constant(i) /\ tokens'[i].replaced = tokens[i].replaced
      BY <1>1, TokensAlone DEF Constant
    <2> QED
      BY <1>1, <1>2, <2>1, <2>2, StepOfNone
  <1> QED
    BY <1>3, <1>4

\* The answer to a call that minted nothing.
LEMMA AnsweredLane ==
    ASSUME TInv, NEW c \in Calls, call'[c].kind = call[c].kind, call'[c].pc = "answered",
           call[c].pc # "idle", call'[c].out > 0 => call[c].kind \in Minting
    PROVE  InLane(c)'
  BY DEF TInv, Lanes, InLane

LEMMA LoginTyped ==
    ASSUME TInv, NEW c \in Calls, Login(c)
    PROVE  TInv'
  <1>1. /\ UNCHANGED <<rowLock, cookie, webLock, view, faults, reused, calm, ended>>
        /\ call[c].kind = "login" /\ call[c].pc = "sent"
        /\ tokens' = Append(tokens, Row(Rows + 1, Home, 0, "login")) /\ Answer(c, Rows + 1)
    BY DEF Login, At, browser, Rows
  <1>2. /\ TokensFit /\ Rows \in Nat /\ Rest
    BY TypesInParts, RowsTyped DEF TInv
  <1>3. /\ TokensFit' /\ Rows' = Rows + 1
        /\ \A i \in 1 .. Rows : tokens'[i] = tokens[i]
    BY <1>1, <1>2, Opens
  <1>4. /\ CallsFit' /\ OthersKept(c) /\ call'[c].kind = "login" /\ call'[c].pc = "answered"
    BY <1>1, <1>2, <1>3, Answers DEF TInv
  <1>5. RoomLeft'
    BY <1>1, <1>3, <1>4, RoomUsed DEF Making, Minting
  <1>6. InLane(c)'
    BY <1>1, <1>4, AnsweredLane DEF Minting
  <1>7. Rest'
    BY <1>1, <1>2, <1>3 DEF Rest
  <1>8. (ended \subseteq Chains)'
    <2>1. DOMAIN tokens' = 1 .. Rows'
      BY <1>3 DEF TokensFit, Rows
    <2> QED
      BY <1>1, <1>2, <1>3, <2>1, ChainsKept
  <1>9. \A d \in Calls : d # c /\ call[d].pc = "held" =>
              (call[d].kind = "refresh" => tokens'[call[d].tok].replaced = 0)
    <2>1. \A d \in Calls : call[d].pc = "held" => call[d].tok \in 1 .. Rows
      BY CallTyped DEF TInv, Lanes, InLane
    <2> QED
      BY <1>3, <2>1 DEF TInv, Lanes, InLane
  <1> QED
    BY <1>1, <1>3, <1>4, <1>5, <1>6, <1>7, <1>8, <1>9, LocksAlone, StepOf

LEMMA LoadTokenTyped ==
    ASSUME TInv, NEW c \in Calls, LoadToken(c)
    PROVE  TInv'
  <1>1. /\ UNCHANGED <<tokens, rowLock, cookie, webLock, view, faults, reused, calm, ended>>
        /\ call[c].kind = "switch" /\ call[c].pc = "sent"
    BY DEF LoadToken, At, browser, db
  <1>2. call[c].tok # 0
    BY <1>1 DEF TInv, Lanes, InLane
  <1>3. /\ CallsFit' /\ OthersKept(c)
        /\ call'[c].kind = "switch" /\ call'[c].pc = "loaded" /\ call'[c].tok = call[c].tok
    BY <1>2, Loaded DEF TInv
  <1>4. InLane(c)'
    BY <1>1, <1>2, <1>3 DEF TInv, Lanes, InLane
  <1>5. RoomLeft'
    BY <1>1, <1>3, TokensAlone, RoomKept DEF Making, Minting
  <1>6. Rest'
    BY <1>1, TypesInParts DEF TInv, Rest, Rows
  <1> QED
    BY <1>1, <1>3, <1>4, <1>5, <1>6, StepAlone

LEMMA SwitchRefusedTyped ==
    ASSUME TInv, NEW c \in Calls, SwitchRefused(c)
    PROVE  TInv'
  <1>1. /\ UNCHANGED <<tokens, rowLock, cookie, webLock, view, faults, reused, calm, ended>>
        /\ call[c].kind = "switch" /\ call[c].pc = "loaded" /\ Answer(c, Refused)
    BY DEF SwitchRefused, At, browser, db
  <1>2. /\ CallsFit' /\ OthersKept(c)
        /\ call'[c].kind = "switch" /\ call'[c].pc = "answered" /\ call'[c].out = Refused
    BY <1>1, TokensAlone, Answers DEF TInv
  <1>3. InLane(c)'
    BY <1>1, <1>2, AnsweredLane DEF Refused
  <1>4. RoomLeft'
    BY <1>1, <1>2, TokensAlone, RoomKept
  <1>5. Rest'
    BY <1>1, TypesInParts DEF TInv, Rest, Rows
  <1> QED
    BY <1>1, <1>2, <1>3, <1>4, <1>5, StepAlone

LEMMA RotateTyped ==
    ASSUME TInv, NEW c \in Calls, Rotate(c)
    PROVE  TInv'
  <1> DEFINE i == call[c].tok
  <1>1. /\ UNCHANGED <<tokens, cookie, webLock, view, faults, calm, ended>> /\ RowFree(i, c)
        /\ \/ call[c].kind = "refresh" /\ call[c].pc = "sent"
           \/ call[c].kind = "switch" /\ call[c].pc = "loaded"
    BY DEF Rotate, At, browser
  <1>2. i \in 1 .. Rows /\ InLane(c)
    BY <1>1, CallTyped DEF TInv, Lanes, InLane
  <1>3. /\ CallsFit' /\ OthersKept(c) /\ call'[c].kind = call[c].kind /\ call'[c].tok = i
        /\ \/ call'[c].pc = "answered" /\ call'[c].out = Refused /\ UNCHANGED <<rowLock, reused>>
           \/ /\ Spends(c) /\ call'[c].pc = "held" /\ rowLock' = [rowLock EXCEPT ![i] = c]
              /\ UNCHANGED reused
           \/ /\ call'[c].pc = "revoking" /\ rowLock' = [rowLock EXCEPT ![i] = c]
              /\ reused' = TRUE
    <2>1. TypeOK /\ call[c].tok # 0
      BY <1>2 DEF TInv
    <2> QED
      BY <2>1, Rotated
  <1>4. /\ \A d \in Calls : d # c /\ call[d].pc = "held" => rowLock'[call[d].tok] = d
        /\ rowLock' \in [1 .. MaxTokens -> Calls \cup {Nobody}]
        /\ call'[c].pc = "held" => rowLock'[i] = c
    <2>1. CASE UNCHANGED rowLock /\ call'[c].pc = "answered"
      BY <2>1, LocksAlone, TypesInParts DEF TInv, Rest
    <2>2. CASE rowLock' = [rowLock EXCEPT ![i] = c]
      BY <1>1, <1>2, <2>2, LocksTaken
    <2> QED
      BY <1>3, <2>1, <2>2
  <1>5. InLane(c)'
    <2>1. call'[c].pc = "held" /\ call[c].kind = "refresh" => tokens'[i].replaced = 0
      BY <1>1, <1>3 DEF Spends, Spendable
    <2> HIDE DEF i
    <2> QED
      BY <1>1, <1>2, <1>3, <1>4, <2>1 DEF InLane, Refused
  <1>6. RoomLeft'
    BY <1>1, <1>3, TokensAlone, RoomKept DEF Making
  <1>7. Rest'
    BY <1>1, <1>3, <1>4, TypesInParts DEF TInv, Rest, Rows
  <1>8. TokensFit' /\ (ended \subseteq Chains)' /\ \A d \in Calls : call[d].pc = "held" =>
              (call[d].kind = "refresh" => tokens'[call[d].tok].replaced = 0)
    BY <1>1, TokensAlone
  <1> QED
    BY <1>3, <1>4, <1>5, <1>6, <1>7, <1>8, StepOf

LEMMA StartRevokingTyped ==
    ASSUME TInv, NEW c \in Calls, StartRevoking(c)
    PROVE  TInv'
  <1>1. /\ UNCHANGED <<tokens, rowLock, cookie, webLock, view, faults, reused, calm, ended>>
        /\ call[c].kind \in {"logout", "disable", "reset"} /\ call[c].pc = "sent"
    BY DEF StartRevoking, At, browser, db
  <1>2. /\ CallsFit' /\ OthersKept(c)
        /\ call'[c].kind = call[c].kind /\ call'[c].pc = "revoking" /\ call'[c].tok = call[c].tok
    BY Revoking DEF TInv
  <1>3. InLane(c)'
    BY <1>1, <1>2 DEF TInv, Lanes, InLane
  <1>4. RoomLeft'
    BY <1>1, <1>2, TokensAlone, RoomKept DEF Making, Minting
  <1>5. Rest'
    BY <1>1, TypesInParts DEF TInv, Rest, Rows
  <1> QED
    BY <1>1, <1>2, <1>3, <1>4, <1>5, StepAlone

LEMMA CommitRotationTyped ==
    ASSUME TInv, NEW c \in Calls, CommitRotation(c)
    PROVE  TInv'
  <1> DEFINE i == call[c].tok
  <1>1. /\ UNCHANGED <<cookie, webLock, view, faults, reused, calm, ended>> /\ rowLock' = Unlocked(c)
        /\ call[c].kind \in {"refresh", "switch"} /\ call[c].pc = "held" /\ Answer(c, Rows + 1)
        /\ tokens' = Append([tokens EXCEPT ![i].revoked = TRUE, ![i].replaced = Rows + 1],
                            Row(tokens[i].family, call[c].company, i, call[c].kind))
    BY DEF CommitRotation, At, browser, Rows
  <1>2. /\ i \in 1 .. Rows /\ Rows \in Nat /\ call[c].company \in Companies /\ rowLock[i] = c
        /\ call[c].kind \in Minting /\ TokensFit /\ Rest
    BY <1>1, CallTyped, TypesInParts DEF TInv, Lanes, InLane, Minting
  <1>3. /\ TokensFit' /\ Rows' = Rows + 1
        /\ \A j \in 1 .. Rows : /\ Constant(j)
                                /\ j # i => tokens'[j] = tokens[j]
    BY <1>1, <1>2, Rotates
  <1>4. /\ CallsFit' /\ OthersKept(c) /\ call'[c].kind = call[c].kind /\ call'[c].pc = "answered"
    <2>1. TypeOK /\ Rows' \in Nat /\ Rows <= Rows' /\ Rows + 1 \in {Refused, Failed} \cup 0 .. Rows'
      BY <1>2, <1>3 DEF TInv
    <2>2. Answer(c, Rows + 1)
      BY <1>1
    <2> QED
      BY <2>1, <2>2, Answers
  <1>5. RoomLeft'
    BY <1>1, <1>2, <1>3, <1>4, RoomUsed DEF Making
  <1>6. InLane(c)'
    BY <1>1, <1>2, <1>4, AnsweredLane
  <1>7. /\ rowLock' \in [1 .. MaxTokens -> Calls \cup {Nobody}]
        /\ \A d \in Calls : d # c /\ call[d].pc = "held" => rowLock'[call[d].tok] = d
    BY <1>1, LocksFreed
  <1>8. Rest'
    BY <1>1, <1>2, <1>3, <1>7 DEF Rest
  <1>9. (ended \subseteq Chains)'
    <2>1. DOMAIN tokens' = 1 .. Rows'
      BY <1>3 DEF TokensFit, Rows
    <2>2. Rows' \in Nat /\ Rows <= Rows'
      BY <1>2, <1>3
    <2>3. \A j \in 1 .. Rows : tokens'[j].family = tokens[j].family
      BY <1>3 DEF Constant
    <2>4. ended' = ended
      BY <1>1
    <2> QED
      BY <2>1, <2>2, <2>3, <2>4, ChainsKept
  <1>10. \A d \in Calls : d # c /\ call[d].pc = "held" =>
              (call[d].kind = "refresh" => tokens'[call[d].tok].replaced = 0)
    <2> SUFFICES ASSUME NEW d \in Calls, d # c, call[d].pc = "held", call[d].kind = "refresh"
                 PROVE  tokens'[call[d].tok].replaced = 0
      OBVIOUS
    <2>1. call[d].tok \in 1 .. Rows /\ rowLock[call[d].tok] = d /\ tokens[call[d].tok].replaced = 0
      BY CallTyped DEF TInv, Lanes, InLane
    <2>2. call[d].tok # i
      BY <1>2, <2>1
    <2> QED
      BY <1>3, <2>1, <2>2
  <1> QED
    BY <1>3, <1>4, <1>5, <1>6, <1>7, <1>8, <1>9, <1>10, StepOf

LEMMA CommitRevokingTyped ==
    ASSUME TInv, NEW c \in Calls, CommitRevoking(c)
    PROVE  TInv'
  <1> DEFINE out == IF call[c].kind \in Minting THEN Refused ELSE Done
  <1>1. /\ UNCHANGED <<cookie, webLock, view, faults, reused, calm>> /\ rowLock' = Unlocked(c)
        /\ call[c].pc = "revoking" /\ Answer(c, out)
        /\ tokens' = [i \in DOMAIN tokens |->
                        [tokens[i] EXCEPT !.revoked = @ \/ i \in call[c].targets]]
        /\ ended' = ended \cup {f \in Chains : Dead(f)' /\ ~InUse(f)'}
    BY DEF CommitRevoking, browser
  <1>2. /\ Rows \in Nat /\ TokensFit /\ Rest
    BY TypesInParts, RowsTyped DEF TInv
  <1>3. /\ TokensFit' /\ Rows' = Rows
        /\ \A i \in 1 .. Rows : Constant(i) /\ tokens'[i].replaced = tokens[i].replaced
    BY <1>1, <1>2, Revokes
  <1>4. out \in {Refused, Failed} \cup 0 .. Rows' /\ ~(out > 0)
    BY <1>2, <1>3 DEF Refused, Done
  <1> HIDE DEF out
  <1>5. /\ CallsFit' /\ OthersKept(c) /\ call'[c].kind = call[c].kind /\ call'[c].pc = "answered"
        /\ call'[c].out = out
    BY <1>1, <1>2, <1>3, <1>4, Answers DEF TInv
  <1>6. RoomLeft'
    BY <1>3, <1>5, RoomKept
  <1>7. InLane(c)'
    BY <1>1, <1>4, <1>5, AnsweredLane
  <1>8. /\ rowLock' \in [1 .. MaxTokens -> Calls \cup {Nobody}]
        /\ \A d \in Calls : d # c /\ call[d].pc = "held" => rowLock'[call[d].tok] = d
    BY <1>1, LocksFreed
  <1>9. Rest'
    BY <1>1, <1>2, <1>3, <1>8 DEF Rest
  <1>10. (ended \subseteq Chains)'
    <2>1. DOMAIN tokens' = 1 .. Rows'
      BY <1>3 DEF TokensFit, Rows
    <2>2. Chains \subseteq Chains' /\ ended \subseteq Chains
      BY <1>2, <1>3, <2>1, ChainsKept, TypesInParts DEF Constant, TInv
    <2> QED
      BY <1>1, <2>2
  <1>11. \A d \in Calls : d # c /\ call[d].pc = "held" =>
              (call[d].kind = "refresh" => tokens'[call[d].tok].replaced = 0)
    <2>1. \A d \in Calls : call[d].pc = "held" => call[d].tok \in 1 .. Rows
      BY CallTyped DEF TInv, Lanes, InLane
    <2> QED
      BY <1>3, <2>1 DEF TInv, Lanes, InLane
  <1> QED
    BY <1>3, <1>5, <1>6, <1>7, <1>8, <1>9, <1>10, <1>11, StepOf

LEMMA FaultTyped ==
    ASSUME TInv, Fault
    PROVE  /\ faults' \in 0 .. MaxFaults /\ reused' \in BOOLEAN /\ calm' \in BOOLEAN
           /\ UNCHANGED <<reused, ended>> /\ calm' = FALSE
  <1>1. Rest
    BY TypesInParts DEF TInv
  <1>2. /\ faults < MaxFaults /\ faults' = faults + 1
        /\ UNCHANGED <<reused, ended>> /\ calm' = FALSE
    BY DEF Fault
  <1>3. faults' \in 0 .. MaxFaults
    BY <1>1, <1>2, BoundAssumption DEF Rest
  <1>4. reused' \in BOOLEAN
    BY <1>1, <1>2 DEF Rest
  <1> QED
    BY <1>2, <1>3, <1>4

LEMMA BackendFailsTyped ==
    ASSUME TInv, NEW c \in Calls, BackendFails(c)
    PROVE  TInv'
  <1> DEFINE out == IF call[c].kind = "logout" THEN Done ELSE Failed
  <1>1. /\ UNCHANGED <<tokens, cookie, webLock, view>> /\ rowLock' = Unlocked(c) /\ Fault
        /\ call[c].pc # "idle" /\ Answer(c, out)
    BY DEF BackendFails, browser
  <1>2. out \in {Refused, Failed} \cup 0 .. Rows' /\ ~(out > 0)
    BY <1>1, TokensAlone DEF Failed, Done
  <1> HIDE DEF out
  <1>3. /\ CallsFit' /\ OthersKept(c) /\ call'[c].kind = call[c].kind /\ call'[c].pc = "answered"
        /\ call'[c].out = out
    BY <1>1, <1>2, TokensAlone, Answers DEF TInv
  <1>4. RoomLeft'
    BY <1>1, <1>3, TokensAlone, RoomKept
  <1>5. InLane(c)'
    BY <1>1, <1>2, <1>3, AnsweredLane
  <1>6. /\ rowLock' \in [1 .. MaxTokens -> Calls \cup {Nobody}]
        /\ \A d \in Calls : d # c /\ call[d].pc = "held" => rowLock'[call[d].tok] = d
    BY <1>1, LocksFreed
  <1>7. Rest'
    BY <1>1, <1>6, FaultTyped, TypesInParts DEF TInv, Rest, Rows
  <1>8. TokensFit' /\ (ended \subseteq Chains)' /\ \A d \in Calls : call[d].pc = "held" =>
              (call[d].kind = "refresh" => tokens'[call[d].tok].replaced = 0)
    BY <1>1, TokensAlone, FaultTyped
  <1> QED
    BY <1>3, <1>4, <1>5, <1>6, <1>7, <1>8, StepOf

LEMMA AnswerFailsTyped ==
    ASSUME TInv, NEW c \in Calls, AnswerFails(c)
    PROVE  TInv'
  <1>1. /\ UNCHANGED <<tokens, rowLock, cookie, webLock, view>> /\ Fault /\ call[c].pc = "answered"
    BY DEF AnswerFails, browser, db
  <1>2. /\ CallsFit' /\ OthersKept(c)
        /\ call'[c].kind = call[c].kind /\ call'[c].pc = "answered" /\ call'[c].out = Failed
    BY Failing DEF TInv
  <1>3. RoomLeft'
    BY <1>1, <1>2, TokensAlone, RoomKept
  <1>4. InLane(c)'
    BY <1>1, <1>2, AnsweredLane DEF Failed
  <1>5. Rest'
    BY <1>1, FaultTyped, TypesInParts DEF TInv, Rest, Rows
  <1> QED
    BY <1>1, <1>2, <1>3, <1>4, <1>5, FaultTyped, StepAlone

LEMMA AnswerLostTyped ==
    ASSUME TInv, NEW c \in Calls, AnswerLost(c)
    PROVE  TInv'
  <1>1. /\ UNCHANGED <<tokens, rowLock, cookie>> /\ Fault /\ Go(c, Idle) /\ FreesWebLock(c)
        /\ view' \in {view, [view EXCEPT ![TabOf(c)] = "unreachable"]}
    BY DEF AnswerLost, db
  <1>2. Rest'
    <2>1. Rest
      BY TypesInParts DEF TInv
    <2>2. view' \in [Tabs -> {"closed", "new", "in", "out", "unreachable"}]
      BY <1>1, <2>1 DEF Rest
    <2> QED
      BY <1>1, <2>1, <2>2, FaultTyped DEF Rest, Rows, FreesWebLock
  <1> QED
    BY <1>1, <1>2, FaultTyped, GoesIdle, Ends DEF TInv

LEMMA TokensExpireTyped ==
    ASSUME TInv, TokensExpire
    PROVE  TInv'
  <1>1. /\ UNCHANGED <<rowLock, cookie, webLock, view, call>> /\ Fault
        /\ tokens' = [i \in DOMAIN tokens |-> [tokens[i] EXCEPT !.expired = TRUE]]
    BY DEF TokensExpire, browser
  <1>2. /\ TokensFit' /\ Rows' = Rows
        /\ \A i \in 1 .. Rows : Constant(i) /\ tokens'[i].replaced = tokens[i].replaced
    BY <1>1, TypesInParts, Expire DEF TInv
  <1>3. Rest'
    BY <1>1, <1>2, FaultTyped, TypesInParts DEF TInv, Rest
  <1> QED
    BY <1>1, <1>2, <1>3, FaultTyped, StepOfNone

LEMMA TypesInit == Init => TInv
  <1> SUFFICES ASSUME Init PROVE TInv
    OBVIOUS
  <1>1. /\ tokens = <<>> /\ call = [c \in Calls |-> Idle] /\ Rows = 0 /\ DOMAIN tokens = {}
    BY DEF Init, Rows
  <1>2. CallsFit
    BY <1>1, IdleFits DEF CallsFit, CallFits
  <1>3. TokensFit
    BY <1>1 DEF TokensFit
  <1>4. Rest
    <2>1. cookie \in 0 .. Rows /\ faults \in 0 .. MaxFaults
      BY <1>1, BoundAssumption DEF Init
    <2>2. /\ rowLock \in [1 .. MaxTokens -> Calls \cup {Nobody}] /\ webLock \in Calls \cup {Nobody, NoLocks}
          /\ view \in [Tabs -> {"closed", "new", "in", "out", "unreachable"}]
      BY DEF Init
    <2>3. reused \in BOOLEAN /\ calm \in BOOLEAN
      BY DEF Init
    <2> QED
      BY <2>1, <2>2, <2>3 DEF Rest
  <1>5. TypeOK
    BY <1>1, <1>2, <1>3, <1>4, BoundAssumption, TypesInParts DEF Init
  <1>6. Lanes
    BY <1>1, IdleFits DEF Lanes, InLane
  <1>7. RoomLeft
    <2>1. Making = {}
      BY <1>1, IdleFits DEF Making, Minting
    <2> QED
      BY <1>1, <2>1, FS_EmptySet, BoundAssumption DEF RoomLeft
  <1> QED
    BY <1>5, <1>6, <1>7 DEF TInv

LEMMA TypesNext == TInv /\ [Next]_vars => TInv'
  <1> SUFFICES ASSUME TInv, [Next]_vars PROVE TInv'
    OBVIOUS
  <1>1. ASSUME NEW t \in Tabs, \/ OpenTab(t) \/ ScheduleRefresh(t) \/ SendRefresh(t) \/ SendUserCall(t)
                               \/ Answered(t) \/ CloseTab(t)
        PROVE  TInv'
    BY <1>1, OpenTabTyped, ScheduleRefreshTyped, SendRefreshTyped, SendUserCallTyped, AnsweredTyped,
       CloseTabTyped
  <1>2. ASSUME NEW c \in Calls, Backend(c) \/ BackendFails(c) \/ AnswerFails(c) \/ AnswerLost(c)
        PROVE  TInv'
    BY <1>2, LoginTyped, LoadTokenTyped, SwitchRefusedTyped, RotateTyped, CommitRotationTyped,
       StartRevokingTyped, CommitRevokingTyped, BackendFailsTyped, AnswerFailsTyped, AnswerLostTyped
       DEF Backend
  <1>3. CASE TokensExpire
    BY <1>3, TokensExpireTyped
  <1>4. CASE UNCHANGED vars
    <2>1. UNCHANGED <<tokens, rowLock, cookie, webLock, view, call, faults, reused, calm, ended>>
      BY <1>4 DEF vars, db, browser
    <2>2. Rest'
      BY <2>1, TypesInParts DEF TInv, Rest, Rows
    <2>3. TokensFit' /\ Rows' = Rows /\ \A i \in 1 .. Rows : Constant(i) /\ tokens'[i].replaced = tokens[i].replaced
      BY <2>1, TokensAlone DEF Constant
    <2> QED
      BY <2>1, <2>2, <2>3, StepOfNone
  <1> QED
    BY <1>1, <1>2, <1>3, <1>4 DEF Next

\* The rows, the cookie, the locks and the calls keep their types, and no call mints a token that
\* has no place in the table.
THEOREM SessionsTyped == Spec => []TypeOK
  <1>1. TInv => TypeOK
    BY DEF TInv
  <1> QED
    BY TypesInit, TypesNext, <1>1, PTL DEF Spec

-----------------------------------------------------------------------------
(* The tree of rotations.                                                  *)

\* Two tokens of the family f were minted from one, one of them by a switch.
ForkedIn(f) ==
    \E x, y \in 1 .. Rows : /\ x # y /\ tokens[x].family = f /\ tokens[y].family = f
                            /\ tokens[x].from = tokens[y].from
                            /\ "switch" \in {tokens[x].by, tokens[y].by}

\* A login opens a family, every other token belongs to that of the token it replaces, and names a
\* token that has a successor.
Parents ==
    \A i \in 1 .. Rows :
       IF tokens[i].from = 0 THEN tokens[i].family = i
       ELSE /\ tokens[i].family = tokens[tokens[i].from].family
            /\ tokens[tokens[i].from].replaced # 0
Successors == \A i \in 1 .. Rows : tokens[i].replaced # 0 => tokens[tokens[i].replaced].from = i
\* Two tokens without a successor in one family: the family was forked by a switch.
Forks ==
    \A f \in Nat : \A i, j \in 1 .. Rows :
       i # j /\ tokens[i].family = f /\ tokens[j].family = f /\ tokens[i].replaced = 0 /\ tokens[j].replaced = 0
       => ForkedIn(f)
Tree == Parents /\ Successors /\ Forks

\* A family that was forked stays forked.
LEMMA StaysForked ==
    ASSUME TInv, NEW f, ForkedIn(f), Rows' \in Nat, Rows <= Rows', \A i \in 1 .. Rows : Constant(i)
    PROVE  ForkedIn(f)'
  <1>1. Rows \in Nat
    BY TypesInParts, RowsTyped DEF TInv
  <1>2. PICK x, y \in 1 .. Rows : /\ x # y /\ tokens[x].family = f /\ tokens[y].family = f
                            /\ tokens[x].from = tokens[y].from
                            /\ "switch" \in {tokens[x].by, tokens[y].by}
    BY DEF ForkedIn
  <1>3. x \in 1 .. Rows' /\ y \in 1 .. Rows'
    BY <1>1
  <1>4. /\ tokens'[x].family = f /\ tokens'[y].family = f /\ tokens'[x].from = tokens'[y].from
        /\ "switch" \in {tokens'[x].by, tokens'[y].by}
    BY <1>2 DEF Constant
  <1> QED
    BY <1>2, <1>3, <1>4 DEF ForkedIn

\* Steps that mint nothing.
LEMMA TreeStands ==
    ASSUME TInv, Tree, Rows' = Rows, \A i \in 1 .. Rows : Constant(i) /\ tokens'[i].replaced = tokens[i].replaced
    PROVE  Tree'
  <1>1. TokensFit /\ Rows \in Nat
    BY TypesInParts, RowsTyped DEF TInv
  <1>2. \A i \in 1 .. Rows : /\ tokens[i].from # 0 => tokens[i].from \in 1 .. Rows
                             /\ tokens[i].replaced # 0 => tokens[i].replaced \in 1 .. Rows
    BY <1>1, RowsTyped
  <1>3. Parents' /\ Successors'
    BY <1>1, <1>2 DEF Tree, Parents, Successors, Constant
  <1>4. Forks'
    <2> SUFFICES ASSUME NEW f \in Nat, NEW i \in 1 .. Rows, NEW j \in 1 .. Rows, i # j,
                        tokens'[i].family = f, tokens'[j].family = f,
                        tokens'[i].replaced = 0, tokens'[j].replaced = 0
                 PROVE  ForkedIn(f)'
      BY DEF Forks
    <2>1. ForkedIn(f)
      BY DEF Tree, Forks, Constant
    <2> QED
      BY <1>1, <2>1, StaysForked DEF Constant
  <1> QED
    BY <1>3, <1>4 DEF Tree

\* What a rotation that is about to commit knows and does.
LEMMA RotationCommits ==
    ASSUME TInv, NEW c \in Calls, CommitRotation(c)
    PROVE  LET i == call[c].tok IN
           /\ i \in 1 .. Rows /\ Rows \in Nat /\ call[c].kind \in {"refresh", "switch"} /\ call[c].pc = "held"
           /\ call[c].kind = "refresh" => tokens[i].replaced = 0
           /\ Rows' = Rows + 1 /\ OthersKept(c)
           /\ call'[c].kind = call[c].kind /\ call'[c].pc = "answered" /\ call'[c].out = Rows + 1
           /\ \A j \in 1 .. Rows : /\ Constant(j) /\ tokens'[j].expired = tokens[j].expired
                                   /\ j # i => tokens'[j] = tokens[j]
           /\ tokens'[i].revoked = TRUE /\ tokens'[i].replaced = Rows + 1
           /\ tokens'[Rows + 1] = Row(tokens[i].family, call[c].company, i, call[c].kind)
           /\ UNCHANGED <<cookie, webLock, view, faults, reused, calm, ended>>
  <1> DEFINE i == call[c].tok
  <1>1. /\ UNCHANGED <<cookie, webLock, view, faults, reused, calm, ended>>
        /\ call[c].kind \in {"refresh", "switch"} /\ call[c].pc = "held" /\ Answer(c, Rows + 1)
        /\ tokens' = Append([tokens EXCEPT ![i].revoked = TRUE, ![i].replaced = Rows + 1],
                            Row(tokens[i].family, call[c].company, i, call[c].kind))
    BY DEF CommitRotation, At, browser, Rows
  <1>2. /\ i \in 1 .. Rows /\ Rows \in Nat /\ call[c].company \in Companies
        /\ call[c].kind \in Minting /\ TokensFit
        /\ call[c].kind = "refresh" => tokens[i].replaced = 0
    BY <1>1, CallTyped, TypesInParts DEF TInv, Lanes, InLane, Minting
  <1>3. /\ TokensFit' /\ Rows' = Rows + 1
        /\ \A j \in 1 .. Rows : /\ Constant(j) /\ tokens'[j].expired = tokens[j].expired
                                /\ j # i => tokens'[j] = tokens[j]
        /\ tokens'[i].revoked = TRUE /\ tokens'[i].replaced = Rows + 1
        /\ tokens'[Rows + 1] = Row(tokens[i].family, call[c].company, i, call[c].kind)
    BY <1>1, <1>2, Rotates
  <1>4. /\ OthersKept(c) /\ call'[c].kind = call[c].kind /\ call'[c].pc = "answered" /\ call'[c].out = Rows + 1
    <2>1. TypeOK /\ Rows' \in Nat /\ Rows <= Rows' /\ Rows + 1 \in {Refused, Failed} \cup 0 .. Rows'
      BY <1>2, <1>3 DEF TInv
    <2>2. Answer(c, Rows + 1)
      BY <1>1
    <2> QED
      BY <2>1, <2>2, Answers
  <1> QED
    BY <1>1, <1>2, <1>3, <1>4

\* ... and a login.
LEMMA LoginCommits ==
    ASSUME TInv, NEW c \in Calls, Login(c)
    PROVE  /\ Rows \in Nat /\ call[c].kind = "login" /\ call[c].pc = "sent"
           /\ Rows' = Rows + 1 /\ OthersKept(c)
           /\ call'[c].kind = "login" /\ call'[c].pc = "answered" /\ call'[c].out = Rows + 1
           /\ \A i \in 1 .. Rows : tokens'[i] = tokens[i]
           /\ tokens'[Rows + 1] = Row(Rows + 1, Home, 0, "login")
           /\ UNCHANGED <<cookie, webLock, view, faults, reused, calm, ended>>
  <1>1. /\ UNCHANGED <<rowLock, cookie, webLock, view, faults, reused, calm, ended>>
        /\ call[c].kind = "login" /\ call[c].pc = "sent"
        /\ tokens' = Append(tokens, Row(Rows + 1, Home, 0, "login")) /\ Answer(c, Rows + 1)
    BY DEF Login, At, browser, Rows
  <1>2. /\ TokensFit /\ Rows \in Nat
    BY TypesInParts, RowsTyped DEF TInv
  <1>3. /\ TokensFit' /\ Rows' = Rows + 1
        /\ \A i \in 1 .. Rows : tokens'[i] = tokens[i]
        /\ tokens'[Rows + 1] = Row(Rows + 1, Home, 0, "login")
    BY <1>1, <1>2, Opens
  <1>4. /\ OthersKept(c) /\ call'[c].kind = "login" /\ call'[c].pc = "answered" /\ call'[c].out = Rows + 1
    <2>1. TypeOK /\ Rows' \in Nat /\ Rows <= Rows' /\ Rows + 1 \in {Refused, Failed} \cup 0 .. Rows'
      BY <1>2, <1>3 DEF TInv
    <2>2. Answer(c, Rows + 1)
      BY <1>1
    <2> QED
      BY <1>1, <2>1, <2>2, Answers
  <1> QED
    BY <1>1, <1>2, <1>3, <1>4

LEMMA TreeLogin ==
    ASSUME TInv, Tree, NEW c \in Calls, Login(c)
    PROVE  Tree'
  <1> DEFINE n == Rows + 1
  <1>1. /\ Rows \in Nat /\ Rows' = n /\ \A i \in 1 .. Rows : tokens'[i] = tokens[i]
        /\ tokens'[n].from = 0 /\ tokens'[n].family = n /\ tokens'[n].replaced = 0
    BY LoginCommits DEF Row
  <1>2. \A i \in 1 .. Rows : /\ tokens[i].from # 0 => tokens[i].from \in 1 .. Rows
                             /\ tokens[i].replaced # 0 => tokens[i].replaced \in 1 .. Rows
                             /\ tokens[i].family \in 1 .. Rows
    BY <1>1, RowsTyped, TypesInParts DEF TInv
  <1>3. \A i \in 1 .. Rows' : i \in 1 .. Rows \/ i = n
    BY <1>1
  <1> HIDE DEF n
  <1>4. Parents'
    <2> SUFFICES ASSUME NEW i \in 1 .. Rows'
                 PROVE  IF tokens'[i].from = 0 THEN tokens'[i].family = i
                        ELSE /\ tokens'[i].family = tokens'[tokens'[i].from].family
                             /\ tokens'[tokens'[i].from].replaced # 0
      BY DEF Parents
    <2>1. CASE i \in 1 .. Rows
      BY <1>1, <1>2, <2>1 DEF Tree, Parents
    <2>2. CASE i = n
      BY <1>1, <2>2
    <2> QED
      BY <1>3, <2>1, <2>2
  <1>5. Successors'
    <2> SUFFICES ASSUME NEW i \in 1 .. Rows', tokens'[i].replaced # 0
                 PROVE  tokens'[tokens'[i].replaced].from = i
      BY DEF Successors
    <2>1. i \in 1 .. Rows
      BY <1>1, <1>3
    <2> QED
      BY <1>1, <1>2, <2>1 DEF Tree, Successors
  <1>6. Forks'
    <2> SUFFICES ASSUME NEW f \in Nat, NEW i \in 1 .. Rows', NEW j \in 1 .. Rows', i # j,
                        tokens'[i].family = f, tokens'[j].family = f,
                        tokens'[i].replaced = 0, tokens'[j].replaced = 0
                 PROVE  ForkedIn(f)'
      BY DEF Forks
    <2>1. i \in 1 .. Rows /\ j \in 1 .. Rows
      BY <1>1, <1>2, <1>3 DEF n
    <2>2. ForkedIn(f)
      BY <1>1, <2>1 DEF Tree, Forks
    <2>3. Rows' \in Nat /\ Rows <= Rows'
      BY <1>1 DEF n
    <2> QED
      BY <1>1, <2>2, <2>3, StaysForked DEF Constant
  <1> QED
    BY <1>4, <1>5, <1>6 DEF Tree

LEMMA TreeRotation ==
    ASSUME TInv, Tree, NEW c \in Calls, CommitRotation(c)
    PROVE  Tree'
  <1> DEFINE n == Rows + 1
             i == call[c].tok
             kind == call[c].kind
  <1>1. /\ i \in 1 .. Rows /\ Rows \in Nat /\ Rows' = n /\ n \notin 1 .. Rows /\ n # 0
        /\ kind = "switch" \/ tokens[i].replaced = 0
        /\ \A j \in 1 .. Rows : /\ Constant(j)
                                /\ j # i => tokens'[j].replaced = tokens[j].replaced
        /\ tokens'[i].replaced = n
        /\ tokens'[n].from = i /\ tokens'[n].family = tokens[i].family /\ tokens'[n].replaced = 0
        /\ tokens'[n].by = kind
    <2>1. /\ i \in 1 .. Rows /\ Rows \in Nat /\ Rows' = n
          /\ kind \in {"refresh", "switch"} /\ (kind = "refresh" => tokens[i].replaced = 0)
          /\ tokens'[i].replaced = n /\ tokens'[n] = Row(tokens[i].family, call[c].company, i, kind)
      BY RotationCommits
    <2>2. \A j \in 1 .. Rows : Constant(j) /\ (j # i => tokens'[j] = tokens[j])
      BY RotationCommits
    <2>3. n \notin 1 .. Rows /\ n # 0
      BY <2>1
    <2> HIDE DEF n, i, kind
    <2> QED
      BY <2>1, <2>2, <2>3 DEF Row
  <1>2. \A j \in 1 .. Rows : /\ tokens[j].from # 0 => tokens[j].from \in 1 .. Rows
                             /\ tokens[j].replaced # 0 => tokens[j].replaced \in 1 .. Rows
    <2>1. TokensFit
      BY TypesInParts DEF TInv
    <2>2. \A j \in 1 .. Rows : tokens[j].from \in 0 .. j - 1 /\ tokens[j].replaced \in 0 .. Rows
      BY <2>1, RowsTyped DEF RowFits
    <2> QED
      BY <2>1, <2>2, RowsTyped
  <1>3. (\A j \in 1 .. Rows' : j \in 1 .. Rows \/ j = n) /\ Rows' \in Nat /\ Rows <= Rows' /\ n \in 1 .. Rows'
        /\ \A j \in 1 .. Rows : j \in 1 .. Rows'
    BY <1>1
  <1> HIDE DEF n, i, kind
  <1>4. Parents'
    <2> SUFFICES ASSUME NEW j \in 1 .. Rows'
                 PROVE  IF tokens'[j].from = 0 THEN tokens'[j].family = j
                        ELSE /\ tokens'[j].family = tokens'[tokens'[j].from].family
                             /\ tokens'[tokens'[j].from].replaced # 0
      BY DEF Parents
    <2>1. CASE j \in 1 .. Rows
      BY <1>1, <1>2, <2>1 DEF Tree, Parents, Constant
    <2>2. CASE j = n
      <3>1. i # 0
        BY <1>1
      <3> QED
        BY <1>1, <2>2, <3>1 DEF Constant
    <2> QED
      BY <1>3, <2>1, <2>2
  <1>5. Successors'
    <2> SUFFICES ASSUME NEW j \in 1 .. Rows', tokens'[j].replaced # 0
                 PROVE  tokens'[tokens'[j].replaced].from = j
      BY DEF Successors
    <2>1. j \in 1 .. Rows
      BY <1>1, <1>3
    <2> QED
      BY <1>1, <1>2, <2>1 DEF Tree, Successors, Constant
  <1>6. Forks'
    <2>1. \A f \in Nat : \A j \in 1 .. Rows :
            tokens'[j].family = f /\ tokens'[n].family = f /\ tokens'[j].replaced = 0 => ForkedIn(f)'
      <3> SUFFICES ASSUME NEW f \in Nat, NEW j \in 1 .. Rows,
                          tokens'[j].family = f, tokens'[n].family = f, tokens'[j].replaced = 0
                   PROVE  ForkedIn(f)'
        OBVIOUS
      <3>1. j # i /\ tokens[j].family = f /\ tokens[i].family = f /\ tokens[j].replaced = 0
        BY <1>1 DEF Constant
      <3>2. CASE tokens[i].replaced = 0
        <4>1. ForkedIn(f)
          BY <1>1, <3>1, <3>2 DEF Tree, Forks
        <4> QED
          BY <1>1, <1>3, <4>1, StaysForked
      <3>3. CASE tokens[i].replaced # 0
        <4> DEFINE k == tokens[i].replaced
        <4>1. k \in 1 .. Rows /\ tokens[k].from = i /\ kind = "switch" /\ k # n
          BY <1>1, <1>2, <3>3 DEF Tree, Successors
        <4>2. tokens[k].family = f
          <5>1. tokens[k].from # 0
            BY <1>1, <4>1
          <5> HIDE DEF k
          <5> QED
            BY <3>1, <4>1, <5>1 DEF Tree, Parents
        <4> HIDE DEF k
        <4>3. /\ tokens'[k].family = f /\ tokens'[n].family = f /\ tokens'[k].from = tokens'[n].from
              /\ "switch" \in {tokens'[k].by, tokens'[n].by} /\ k \in 1 .. Rows'
          BY <1>1, <1>3, <3>1, <4>1, <4>2 DEF Constant
        <4> QED
          BY <1>3, <4>1, <4>3 DEF ForkedIn
      <3> QED
        BY <3>2, <3>3
    <2> SUFFICES ASSUME NEW f \in Nat, NEW a \in 1 .. Rows', NEW b \in 1 .. Rows', a # b,
                        tokens'[a].family = f, tokens'[b].family = f,
                        tokens'[a].replaced = 0, tokens'[b].replaced = 0
                 PROVE  ForkedIn(f)'
      BY DEF Forks
    <2>2. CASE a \in 1 .. Rows /\ b \in 1 .. Rows
      <3>1. ForkedIn(f)
        BY <1>1, <2>2 DEF Tree, Forks, Constant
      <3> QED
        BY <1>1, <1>3, <3>1, StaysForked
    <2> QED
      BY <1>3, <2>1, <2>2
  <1> QED
    BY <1>4, <1>5, <1>6 DEF Tree

\* Rows that are revoked, expire or stay as they are.
LEMMA OtherCommits ==
    ASSUME TInv, NEW c \in Calls, CommitRevoking(c) \/ TokensExpire
    PROVE  /\ Rows' = Rows
           /\ \A i \in 1 .. Rows : /\ Constant(i) /\ tokens'[i].replaced = tokens[i].replaced
                                   /\ tokens[i].revoked => tokens'[i].revoked
  <1>1. TokensFit
    BY TypesInParts DEF TInv
  <1>2. CASE CommitRevoking(c)
    <2>1. PICK T : tokens' = [i \in DOMAIN tokens |-> [tokens[i] EXCEPT !.revoked = @ \/ i \in T]]
      BY <1>2 DEF CommitRevoking
    <2> QED
      BY <1>1, <2>1, Revokes
  <1>3. CASE TokensExpire
    BY <1>1, <1>3, Expire DEF TokensExpire
  <1> QED
    BY <1>2, <1>3

\* Every other step leaves the tokens alone.
LEMMA OnlyCommits ==
    ASSUME [Next]_vars
    PROVE  \/ TokensExpire
           \/ \E c \in Calls : Login(c) \/ CommitRotation(c) \/ CommitRevoking(c)
           \/ UNCHANGED tokens
  <1>1. ASSUME NEW t \in Tabs, \/ OpenTab(t) \/ ScheduleRefresh(t) \/ SendRefresh(t) \/ SendUserCall(t)
                               \/ Answered(t) \/ CloseTab(t)
        PROVE  UNCHANGED tokens
    BY <1>1 DEF OpenTab, ScheduleRefresh, SendRefresh, SendUserCall, Answered, RefreshAnswered,
                SessionAnswered, LogoutAnswered, PasswordAnswered, CloseTab, db
  <1>2. ASSUME NEW c \in Calls, Backend(c) \/ BackendFails(c) \/ AnswerFails(c) \/ AnswerLost(c)
        PROVE  Login(c) \/ CommitRotation(c) \/ CommitRevoking(c) \/ UNCHANGED tokens
    BY <1>2 DEF Backend, LoadToken, SwitchRefused, Rotate, StartRevoking, BackendFails, AnswerFails,
                AnswerLost, db
  <1>3. CASE UNCHANGED vars
    BY <1>3 DEF vars, db
  <1> QED
    BY <1>1, <1>2, <1>3 DEF Next

LEMMA TreeInit == Init => Tree
  BY DEF Init, Tree, Parents, Successors, Forks, Rows

LEMMA TreeNext == TInv /\ Tree /\ [Next]_vars => Tree'
  <1> SUFFICES ASSUME TInv, Tree, [Next]_vars PROVE Tree'
    OBVIOUS
  <1>1. ASSUME NEW c \in Calls, Login(c) \/ CommitRotation(c) \/ CommitRevoking(c)
        PROVE  Tree'
    BY <1>1, TreeLogin, TreeRotation, OtherCommits, TreeStands
  <1>2. CASE UNCHANGED tokens
    BY <1>2, TokensAlone, TreeStands DEF Constant
  <1>3. CASE TokensExpire
    <2>1. TokensFit
      BY TypesInParts DEF TInv
    <2> QED
      BY <1>3, <2>1, Expire, TreeStands DEF TokensExpire
  <1> QED
    BY <1>1, <1>2, <1>3, OnlyCommits

\* A live token of a family has no successor, and two of them mean that the family was forked.
LEMMA TreeMeans == TInv /\ Tree => ForkOnlyBySwitch
  <1> SUFFICES ASSUME TInv, Tree, NEW i \in DOMAIN tokens, NEW j \in DOMAIN tokens,
                      i < j, {i, j} \subseteq Unrevoked, j \in Family(i)
               PROVE  \E x, y \in Family(i) : /\ x # y /\ tokens[x].from = tokens[y].from
                                              /\ "switch" \in {tokens[x].by, tokens[y].by}
    BY DEF ForkOnlyBySwitch
  <1>1. /\ Rows \in Nat /\ DOMAIN tokens = 1 .. Rows /\ tokens[i].family \in Nat /\ i \in Nat /\ j \in Nat
        /\ tokens[i].replaced = 0 /\ tokens[j].replaced = 0
    <2>1. TokensFit
      BY TypesInParts DEF TInv
    <2> QED
      BY <2>1, RowsTyped DEF Unrevoked
  <1>2. ForkedIn(tokens[i].family)
    BY <1>1 DEF Tree, Forks, Family
  <1> QED
    BY <1>1, <1>2 DEF ForkedIn, Family

\* The row lock keeps the refreshes of all tabs on one chain: only a switch forks a family, however
\* many tabs refresh, fail, lose their answers and are closed.
THEOREM OneChain == Spec => []ForkOnlyBySwitch
  <1>1. Init => TInv /\ Tree
    BY TypesInit, TreeInit
  <1>2. TInv /\ Tree /\ [Next]_vars => (TInv /\ Tree)'
    BY TypesNext, TreeNext
  <1> QED
    BY <1>1, <1>2, TreeMeans, PTL DEF Spec

-----------------------------------------------------------------------------
(* Families that have ended.                                               *)

\* A call that will mint a token of the family f unless it fails.
Brings(c, f) ==
    /\ call[c].pc = "held" \/ (call[c].pc = "loaded" /\ call[c].live)
    /\ tokens[call[c].tok].family = f
\* The family f is dead and nobody can bring it back.
Over(f) == (\A i \in 1 .. Rows : tokens[i].family = f => tokens[i].revoked) /\ \A c \in Calls : ~Brings(c, f)
AllOver == \A f \in ended : Over(f)

\* What DEF Dead says, over the rows.
LEMMA DeadRows ==
    ASSUME TInv, NEW f
    PROVE  Dead(f) <=> \A i \in 1 .. Rows : tokens[i].family = f => tokens[i].revoked
  <1>1. DOMAIN tokens = 1 .. Rows
    BY TypesInParts, RowsTyped DEF TInv
  <1> QED
    BY <1>1 DEF Dead, Unrevoked

\* A step of c that revives no family and does not make c a rotation of one that is over.
LEMMA StaysOver ==
    ASSUME TInv, AllOver, NEW c \in Calls, OthersKept(c), NEW f \in ended,
           Rows' \in Nat, Rows <= Rows',
           \A i \in 1 .. Rows : Constant(i) /\ (tokens[i].revoked => tokens'[i].revoked),
           \A i \in 1 .. Rows' : i \in 1 .. Rows \/ tokens'[i].family # f,
           call'[c].pc = "held" \/ (call'[c].pc = "loaded" /\ call'[c].live) =>
              call'[c].tok \in 1 .. Rows /\ tokens[call'[c].tok].family # f
    PROVE  Over(f)'
  <1>1. /\ \A i \in 1 .. Rows : tokens[i].family = f => tokens[i].revoked
        /\ \A d \in Calls : ~Brings(d, f)
    BY DEF AllOver, Over
  <1>2. \A i \in 1 .. Rows' : tokens'[i].family = f => tokens'[i].revoked
    BY <1>1 DEF Constant
  <1>3. ~Brings(c, f)'
    BY DEF Brings, Constant
  <1>4. ASSUME NEW d \in Calls, d # c PROVE ~Brings(d, f)'
    <2>1. Kept(d) /\ ~Brings(d, f)
      BY <1>1, <1>4 DEF OthersKept
    <2>2. call[d].pc \in {"held", "loaded"} => call[d].tok \in 1 .. Rows
      BY CallTyped DEF TInv, Lanes, InLane
    <2> QED
      BY <2>1, <2>2 DEF Brings, Kept, Constant
  <1> QED
    BY <1>2, <1>3, <1>4 DEF Over

\* ... when it leaves the tokens alone.
LEMMA StaysOverAlone ==
    ASSUME TInv, AllOver, NEW c \in Calls, OthersKept(c), UNCHANGED tokens, UNCHANGED ended,
           \A f \in ended : call'[c].pc = "held" \/ (call'[c].pc = "loaded" /\ call'[c].live) =>
              call'[c].tok \in 1 .. Rows /\ tokens[call'[c].tok].family # f
    PROVE  AllOver'
  <1> SUFFICES ASSUME NEW f \in ended PROVE Over(f)'
    BY DEF AllOver
  <1>1. Rows' = Rows /\ Rows \in Nat
    BY TokensAlone
  <1> QED
    BY <1>1, StaysOver DEF Constant

LEMMA OverLogin ==
    ASSUME TInv, AllOver, NEW c \in Calls, Login(c)
    PROVE  AllOver'
  <1>1. /\ Rows \in Nat /\ Rows' = Rows + 1 /\ OthersKept(c) /\ call'[c].pc = "answered"
        /\ \A i \in 1 .. Rows : tokens'[i] = tokens[i]
        /\ tokens'[Rows + 1].family = Rows + 1 /\ ended' = ended
    BY LoginCommits DEF Row
  <1>2. \A f \in ended : f \in 1 .. Rows
    <2>1. TokensFit /\ ended \subseteq Chains
      BY TypesInParts DEF TInv
    <2>2. DOMAIN tokens = 1 .. Rows /\ \A i \in 1 .. Rows : tokens[i].family \in 1 .. i
      BY <2>1, RowsTyped
    <2> QED
      BY <1>1, <2>1, <2>2 DEF Chains
  <1> SUFFICES ASSUME NEW f \in ended PROVE Over(f)'
    BY <1>1 DEF AllOver
  <1>3. \A i \in 1 .. Rows' : i \in 1 .. Rows \/ tokens'[i].family # f
    <2>1. \A i \in 1 .. Rows' : i \in 1 .. Rows \/ i = Rows + 1
      BY <1>1
    <2>2. f # Rows + 1
      BY <1>1, <1>2
    <2> QED
      BY <1>1, <2>1, <2>2
  <1>4. Rows' \in Nat /\ Rows <= Rows'
    BY <1>1
  <1> QED
    BY <1>1, <1>3, <1>4, StaysOver DEF Constant

LEMMA OverRotation ==
    ASSUME TInv, AllOver, NEW c \in Calls, CommitRotation(c)
    PROVE  AllOver'
  <1> DEFINE i == call[c].tok
  <1>1. /\ i \in 1 .. Rows /\ Rows \in Nat /\ call[c].pc = "held"
        /\ Rows' = Rows + 1 /\ OthersKept(c) /\ call'[c].pc = "answered"
        /\ tokens'[i].revoked = TRUE /\ ended' = ended
        /\ tokens'[Rows + 1] = Row(tokens[i].family, call[c].company, i, call[c].kind)
    BY RotationCommits
  <1>2. \A j \in 1 .. Rows : Constant(j) /\ (j # i => tokens'[j] = tokens[j])
    BY RotationCommits
  <1> SUFFICES ASSUME NEW f \in ended PROVE Over(f)'
    BY <1>1 DEF AllOver
  <1>3. tokens[i].family # f
    BY <1>1 DEF AllOver, Over, Brings
  <1>4. tokens'[Rows + 1].family = tokens[i].family
    BY <1>1 DEF Row
  <1>5. \A j \in 1 .. Rows' : j \in 1 .. Rows \/ j = Rows + 1
    BY <1>1
  <1>6. Rows' \in Nat /\ Rows <= Rows'
    BY <1>1
  <1>7. \A j \in 1 .. Rows : tokens[j].revoked => tokens'[j].revoked
    BY <1>1, <1>2
  <1> HIDE DEF i
  <1>8. \A j \in 1 .. Rows' : j \in 1 .. Rows \/ tokens'[j].family # f
    BY <1>3, <1>4, <1>5
  <1> QED
    BY <1>1, <1>2, <1>6, <1>7, <1>8, StaysOver

LEMMA OverRevoking ==
    ASSUME TInv, TInv', AllOver, NEW c \in Calls, CommitRevoking(c)
    PROVE  AllOver'
  <1>1. /\ Rows' = Rows /\ Rows \in Nat
        /\ \A i \in 1 .. Rows : Constant(i) /\ (tokens[i].revoked => tokens'[i].revoked)
    BY OtherCommits, CallTyped DEF TInv
  <1>2. /\ OthersKept(c) /\ call'[c].pc = "answered"
    <2>1. Answer(c, IF call[c].kind \in Minting THEN Refused ELSE Done)
      BY DEF CommitRevoking
    <2>2. (IF call[c].kind \in Minting THEN Refused ELSE Done) \in {Refused, Failed} \cup 0 .. Rows'
      BY <1>1 DEF Done
    <2> QED
      BY <1>1, <2>1, <2>2, Answers DEF TInv
  <1>3. ended' = ended \cup {f \in Chains : Dead(f)' /\ ~InUse(f)'}
    BY DEF CommitRevoking
  <1> SUFFICES ASSUME NEW f \in ended' PROVE Over(f)'
    BY DEF AllOver
  <1>4. CASE f \in ended
    BY <1>1, <1>2, <1>4, StaysOver
  <1>5. CASE f \in Chains /\ Dead(f)' /\ ~InUse(f)'
    <2>1. (\A i \in 1 .. Rows : tokens[i].family = f => tokens[i].revoked)'
      <3>1. DOMAIN tokens' = 1 .. Rows'
        <4>1. TokensFit'
          BY TypesInParts, PTL DEF TInv
        <4> QED
          BY <4>1 DEF TokensFit, Rows
      <3> QED
        BY <1>5, <3>1 DEF Dead, Unrevoked
    <2>2. \A d \in Calls : ~Brings(d, f)'
      BY <1>5 DEF InUse, Brings
    <2> QED
      BY <2>1, <2>2 DEF Over
  <1> QED
    BY <1>3, <1>4, <1>5

\* Steps that leave the calls alone.
LEMMA OverStands ==
    ASSUME TInv, AllOver, UNCHANGED call, UNCHANGED ended, Rows' = Rows,
           \A i \in 1 .. Rows : Constant(i) /\ (tokens[i].revoked => tokens'[i].revoked)
    PROVE  AllOver'
  <1> SUFFICES ASSUME NEW f \in ended PROVE Over(f)'
    BY DEF AllOver
  <1>1. /\ \A i \in 1 .. Rows : tokens[i].family = f => tokens[i].revoked
        /\ \A d \in Calls : ~Brings(d, f)
    BY DEF AllOver, Over
  <1>2. \A d \in Calls : call[d].pc \in {"held", "loaded"} => call[d].tok \in 1 .. Rows
    BY CallTyped DEF TInv, Lanes, InLane
  <1>3. \A d \in Calls : ~Brings(d, f)'
    BY <1>1, <1>2 DEF Brings, Constant
  <1>4. \A i \in 1 .. Rows' : tokens'[i].family = f => tokens'[i].revoked
    BY <1>1 DEF Constant
  <1> QED
    BY <1>3, <1>4 DEF Over

LEMMA OverTabs ==
    ASSUME TInv, AllOver, NEW t \in Tabs,
           \/ OpenTab(t) \/ ScheduleRefresh(t) \/ SendRefresh(t) \/ SendUserCall(t) \/ Answered(t) \/ CloseTab(t)
    PROVE  AllOver'
  <1>1. Timer(t) \in Calls /\ User(t) \in Calls
    BY CallsAre
  <1>2. UNCHANGED tokens /\ UNCHANGED ended
    BY DEF OpenTab, ScheduleRefresh, SendRefresh, SendUserCall, Answered, RefreshAnswered,
           SessionAnswered, LogoutAnswered, PasswordAnswered, CloseTab, Fault, db
  <1>3. CASE UNCHANGED call
    BY <1>2, <1>3, TokensAlone, OverStands DEF Constant
  <1>4. ASSUME NEW c \in Calls, OthersKept(c), call'[c].pc \notin {"held", "loaded"} PROVE AllOver'
    BY <1>2, <1>4, StaysOverAlone
  <1>5. CASE ScheduleRefresh(t)
    BY <1>1, <1>4, <1>5, Scheduled DEF TInv
  <1>6. CASE SendRefresh(t)
    BY <1>1, <1>4, <1>6, SentRefresh DEF TInv
  <1>7. CASE SendUserCall(t)
    BY <1>1, <1>4, <1>7, SentUserCall DEF TInv
  <1>8. ASSUME NEW c \in Calls, Go(c, Idle) PROVE AllOver'
    BY <1>2, <1>4, <1>8, GoesIdle DEF TInv
  <1>9. CASE NewGeneration(t)
    BY <1>1, <1>2, <1>4, <1>9, Regenerated DEF TInv
  <1>10. CASE Answered(t)
    <2>1. Go(Timer(t), Idle) \/ Go(User(t), Idle) \/ NewGeneration(t)
      BY <1>10 DEF Answered, RefreshAnswered, SessionAnswered, LogoutAnswered, PasswordAnswered
    <2> QED
      BY <1>1, <1>8, <1>9, <2>1
  <1>11. CASE CloseTab(t)
    <2>1. Go(Timer(t), Idle) \/ UNCHANGED call
      BY <1>11 DEF CloseTab, Go
    <2> QED
      BY <1>1, <1>3, <1>8, <2>1
  <1>12. CASE OpenTab(t)
    BY <1>3, <1>12 DEF OpenTab
  <1> QED
    BY <1>5, <1>6, <1>7, <1>10, <1>11, <1>12

LEMMA OverBackend ==
    ASSUME TInv, AllOver, NEW c \in Calls,
           \/ LoadToken(c) \/ SwitchRefused(c) \/ Rotate(c) \/ StartRevoking(c)
           \/ BackendFails(c) \/ AnswerFails(c) \/ AnswerLost(c)
    PROVE  AllOver'
  <1>1. UNCHANGED tokens /\ UNCHANGED ended
    BY DEF LoadToken, SwitchRefused, Rotate, StartRevoking, BackendFails, AnswerFails, AnswerLost, Fault, db
  <1>2. ASSUME OthersKept(c), call'[c].pc \notin {"held", "loaded"} PROVE AllOver'
    BY <1>1, <1>2, StaysOverAlone
  <1>3. Rows' = Rows /\ Rows \in Nat /\ InLane(c) /\ call[c].tok \in 0 .. Rows
    BY <1>1, TokensAlone, CallTyped DEF TInv, Lanes
  <1>4. CASE LoadToken(c)
    <2>1. call[c].tok # 0 /\ call[c].tok \in 1 .. Rows
      BY <1>3, <1>4 DEF InLane, LoadToken, At
    <2>2. /\ OthersKept(c) /\ call'[c].pc = "loaded" /\ call'[c].tok = call[c].tok
          /\ call'[c].live => ~tokens[call[c].tok].revoked
      BY <1>4, <2>1, Loaded DEF TInv, Spendable
    <2>3. \A f \in ended : call'[c].live => tokens[call[c].tok].family # f
      BY <2>1, <2>2 DEF AllOver, Over
    <2> QED
      BY <1>1, <2>1, <2>2, <2>3, StaysOverAlone
  <1>5. CASE Rotate(c)
    <2>1. call[c].tok # 0 /\ call[c].tok \in 1 .. Rows
      BY <1>3, <1>5 DEF InLane, Rotate, At
    <2>2. /\ OthersKept(c) /\ call'[c].tok = call[c].tok /\ call'[c].pc # "loaded"
          /\ call'[c].pc = "held" => Spends(c)
      <3>1. TypeOK
        BY DEF TInv
      <3> QED
        BY <1>5, <2>1, <3>1, Rotated
    <2>3. ASSUME NEW f \in ended, Spends(c) PROVE tokens[call[c].tok].family # f
      <3>1. CASE call[c].kind = "switch"
        <4>1. call[c].pc = "loaded" /\ call[c].live
          BY <1>5, <2>3, <3>1 DEF Rotate, At, Spends
        <4> QED
          BY <4>1 DEF AllOver, Over, Brings
      <3>2. CASE call[c].kind # "switch"
        <4>1. ~tokens[call[c].tok].revoked
          BY <2>3, <3>2 DEF Spends, Spendable
        <4> QED
          BY <2>1, <4>1 DEF AllOver, Over
      <3> QED
        BY <3>1, <3>2
    <2> QED
      BY <1>1, <2>1, <2>2, <2>3, StaysOverAlone
  <1>6. ASSUME NEW out \in {Refused, Failed, Done}, Answer(c, out) PROVE AllOver'
    <2>1. out \in {Refused, Failed} \cup 0 .. Rows'
      BY <1>3 DEF Done
    <2> QED
      BY <1>2, <1>3, <1>6, <2>1, Answers DEF TInv
  <1>7. CASE SwitchRefused(c)
    BY <1>6, <1>7 DEF SwitchRefused
  <1>8. CASE StartRevoking(c)
    BY <1>2, <1>8, Revoking DEF TInv
  <1>9. CASE BackendFails(c)
    <2>1. Answer(c, Done) \/ Answer(c, Failed)
      BY <1>9 DEF BackendFails
    <2> QED
      BY <1>6, <2>1
  <1>10. CASE AnswerFails(c)
    BY <1>2, <1>10, Failing DEF TInv
  <1>11. CASE AnswerLost(c)
    BY <1>1, <1>2, <1>11, GoesIdle DEF TInv, AnswerLost
  <1> QED
    BY <1>4, <1>5, <1>7, <1>8, <1>9, <1>10, <1>11

LEMMA OverNext == TInv /\ TInv' /\ AllOver /\ [Next]_vars => AllOver'
  <1> SUFFICES ASSUME TInv, TInv', AllOver, [Next]_vars PROVE AllOver'
    OBVIOUS
  <1>1. ASSUME NEW t \in Tabs, \/ OpenTab(t) \/ ScheduleRefresh(t) \/ SendRefresh(t) \/ SendUserCall(t)
                               \/ Answered(t) \/ CloseTab(t)
        PROVE  AllOver'
    BY <1>1, OverTabs
  <1>2. ASSUME NEW c \in Calls, Backend(c) \/ BackendFails(c) \/ AnswerFails(c) \/ AnswerLost(c)
        PROVE  AllOver'
    BY <1>2, OverLogin, OverRotation, OverRevoking, OverBackend DEF Backend
  <1>3. CASE TokensExpire
    <2>1. TokensFit
      BY TypesInParts DEF TInv
    <2>2. UNCHANGED call /\ UNCHANGED ended
      BY <1>3 DEF TokensExpire, Fault
    <2>3. /\ Rows' = Rows
          /\ \A i \in 1 .. Rows : Constant(i) /\ (tokens[i].revoked => tokens'[i].revoked)
      BY <1>3, <2>1, Expire DEF TokensExpire
    <2> QED
      BY <2>2, <2>3, OverStands
  <1>4. CASE UNCHANGED vars
    <2>1. UNCHANGED <<tokens, call, ended>>
      BY <1>4 DEF vars, db
    <2> QED
      BY <2>1, TokensAlone, OverStands DEF Constant
  <1> QED
    BY <1>1, <1>2, <1>3, <1>4 DEF Next

\* A family that was revoked while no request was at work on it has no live token ever after,
\* whatever is sent, retried, failed or lost.
THEOREM EndedStaysDead == Spec => []EndedForGood
  <1>1. Init => TInv /\ AllOver
    BY TypesInit DEF Init, AllOver
  <1>2. TInv /\ AllOver /\ [Next]_vars => (TInv /\ AllOver)'
    BY TypesNext, OverNext
  <1>3. TInv /\ AllOver => EndedForGood
    BY DeadRows DEF AllOver, Over, EndedForGood
  <1> QED
    BY <1>1, <1>2, <1>3, PTL DEF Spec

-----------------------------------------------------------------------------
(* The steady session.                                                     *)

\* There is a newest token that a login or a switch has minted.
Openers == Rows # 0 => \E m \in Opening : \A j \in Opening : j <= m
\* The company the user last chose.
Chosen == tokens[LastOpened].company

Good(i) == Live(i) /\ tokens[i].company = Chosen
CookieGood == cookie # 0 => Good(cookie)

\* The only call under way has found the cookie good, presents it, and brings a good one.
Undisturbed(c) ==
    /\ call[c].kind # "reset"
    /\ call[c].pc \in {"sent", "loaded", "held"} =>
          CookieGood /\ (call[c].kind \in {"refresh", "switch"} => call[c].tok = cookie)
    /\ call[c].pc = "loaded" => call[c].live
    /\ call[c].pc = "held" /\ call[c].kind = "refresh" => call[c].company = tokens[cookie].company
    /\ call[c].pc = "revoking" => call[c].kind \in {"logout", "disable"}
    /\ call[c].pc = "answered" =>
          IF call[c].out > 0 THEN Good(call[c].out)
          ELSE call[c].kind \in {"refresh", "logout", "disable"} \/ CookieGood
    /\ call[c].pc = "answered" /\ call[c].kind = "disable" => call[c].out = Done
NoneExpired == \A i \in 1 .. Rows : ~tokens[i].expired
TabsOpen    == \A c \in Calls : call[c].pc # "idle" => Heard(TabOf(c))
TimersLock  == \A c \in Calls : Busy(c) /\ c[2] = "timer" => webLock \in {c, NoLocks}
OneByOne    == \A c, d \in Calls : Busy(c) /\ Busy(d) => c = d
Steady ==
    calm =>
       /\ ~reused /\ NoneExpired /\ TabsOpen /\ TimersLock /\ OneByOne
       /\ (\A c \in Calls : ~Busy(c)) => CookieGood
       /\ \A c \in Calls : Busy(c) => Undisturbed(c)

LEMMA OpenersInit == Init => Openers
  BY DEF Init, Openers, Rows

\* A login and a switch are the newest of their kind.
LEMMA NewestIsLast ==
    ASSUME TInv, NEW n, Rows' = n, n \in Nat, DOMAIN tokens' = 1 .. n, n # 0,
           tokens'[n].by \in {"login", "switch"}
    PROVE  Openers' /\ Chosen' = tokens'[n].company
  <1>1. /\ n \in Opening' /\ Opening' \subseteq 1 .. n
    BY DEF Opening
  <1>2. \A j \in Opening' : j <= n
    <2>1. \A j \in 1 .. n : j <= n
      OBVIOUS
    <2> QED
      BY <1>1, <2>1, Zenon
  <1>3. LastOpened' = n
    <2>1. ASSUME NEW i \in Opening', \A j \in Opening' : j <= i PROVE i = n
      <3>1. n <= i /\ i <= n
        BY <1>1, <1>2, <2>1, Zenon
      <3>2. i \in Nat
        BY <1>1
      <3> QED
        BY <3>1, <3>2
    <2> QED
      BY <1>1, <1>2, <2>1 DEF LastOpened
  <1> QED
    BY <1>1, <1>2, <1>3 DEF Openers, Chosen

\* Everything else leaves the newest one where it is.
LEMMA ChosenStays ==
    ASSUME TInv, Openers, Rows # 0, Rows' \in Nat, Rows <= Rows', DOMAIN tokens' = 1 .. Rows',
           \A i \in 1 .. Rows : Constant(i),
           \A i \in 1 .. Rows' : i \in 1 .. Rows \/ tokens'[i].by = "refresh"
    PROVE  Openers' /\ Chosen' = Chosen
  <1>1. DOMAIN tokens = 1 .. Rows /\ Rows \in Nat
    BY TypesInParts, RowsTyped DEF TInv
  <1>2. Opening' = Opening
    BY <1>1 DEF Opening, Constant
  <1>3. LastOpened' = LastOpened
    BY <1>2 DEF LastOpened
  <1>4. PICK m \in Opening : \A j \in Opening : j <= m
    BY DEF Openers
  <1>5. LastOpened \in Opening
    BY <1>4 DEF LastOpened
  <1>6. LastOpened \in 1 .. Rows
    BY <1>1, <1>5 DEF Opening
  <1>7. tokens'[LastOpened].company = tokens[LastOpened].company
    BY <1>6 DEF Constant
  <1> QED
    BY <1>2, <1>3, <1>4, <1>7 DEF Openers, Chosen

\* The rows after a step.
LEMMA RowsAfter ==
    ASSUME TInv'
    PROVE  Rows' \in Nat /\ DOMAIN tokens' = 1 .. Rows'
  <1>1. TokensFit'
    BY TypesInParts, PTL DEF TInv
  <1> QED
    BY <1>1 DEF TokensFit, Rows

LEMMA OpenersNext == TInv /\ TInv' /\ Openers /\ [Next]_vars => Openers'
  <1> SUFFICES ASSUME TInv, TInv', Openers, [Next]_vars PROVE Openers'
    OBVIOUS
  <1>1. CASE UNCHANGED tokens
    BY <1>1 DEF Openers, Opening, Rows
  <1>2. ASSUME NEW c \in Calls, Login(c) PROVE Openers'
    <2>1. Rows \in Nat /\ Rows' = Rows + 1 /\ tokens'[Rows + 1].by = "login"
      BY <1>2, LoginCommits DEF Row
    <2> QED
      BY <2>1, RowsAfter, NewestIsLast
  <1>3. ASSUME NEW c \in Calls, CommitRotation(c) PROVE Openers'
    <2>1. /\ Rows \in Nat /\ Rows # 0 /\ Rows' = Rows + 1 /\ call[c].kind \in {"refresh", "switch"}
          /\ tokens'[Rows + 1].by = call[c].kind /\ \A i \in 1 .. Rows : Constant(i)
      <3> DEFINE i == call[c].tok
      <3>1. /\ Rows \in Nat /\ i \in 1 .. Rows /\ Rows' = Rows + 1 /\ call[c].kind \in {"refresh", "switch"}
            /\ \A j \in 1 .. Rows : Constant(j)
            /\ tokens'[Rows + 1] = Row(tokens[i].family, call[c].company, i, call[c].kind)
        BY <1>3, RotationCommits
      <3> HIDE DEF i
      <3> QED
        BY <3>1 DEF Row
    <2>2. Rows' \in Nat /\ Rows <= Rows' /\ \A i \in 1 .. Rows' : i \in 1 .. Rows \/ i = Rows + 1
      BY <2>1
    <2>3. CASE call[c].kind = "switch"
      BY <2>1, <2>2, <2>3, RowsAfter, NewestIsLast
    <2>4. CASE call[c].kind = "refresh"
      BY <2>1, <2>2, <2>4, RowsAfter, ChosenStays
    <2> QED
      BY <2>1, <2>3, <2>4
  <1>4. ASSUME Rows' = Rows, \A i \in 1 .. Rows : Constant(i) PROVE Openers'
    <2>1. CASE Rows = 0
      BY <1>4, <2>1 DEF Openers
    <2>2. CASE Rows # 0
      BY <1>4, <2>2, RowsAfter, ChosenStays
    <2> QED
      BY <2>1, <2>2
  <1>5. ASSUME NEW c \in Calls, CommitRevoking(c) PROVE Openers'
    BY <1>4, <1>5, OtherCommits
  <1>6. CASE TokensExpire
    <2>1. TokensFit
      BY TypesInParts DEF TInv
    <2> QED
      BY <1>4, <1>6, <2>1, Expire DEF TokensExpire
  <1> QED
    BY <1>1, <1>2, <1>3, <1>5, <1>6, OnlyCommits

\* While calm, a busy call is alone.
LEMMA Alone ==
    ASSUME Steady, calm, NEW c \in Calls, Busy(c)
    PROVE  Undisturbed(c) /\ Heard(TabOf(c)) /\ \A d \in Calls : d # c => ~Busy(d)
  BY DEF Steady, OneByOne, TabsOpen, Busy

\* While calm, a step of c that is alone.
LEMMA SteadyStep ==
    ASSUME Steady, calm, NEW c \in Calls, OthersKept(c), \A d \in Calls : d # c => ~Busy(d),
           ~reused', NoneExpired',
           \A t \in Tabs : Heard(t) => Heard(t)', call'[c].pc # "idle" => Heard(TabOf(c))',
           Busy(c)' /\ c[2] = "timer" => webLock' \in {c, NoLocks},
           IF Busy(c)' THEN Undisturbed(c)' ELSE CookieGood'
    PROVE  Steady'
  <1>1. \A d \in Calls : d # c => ~Busy(d)'
    BY DEF OthersKept, Kept, Busy
  <1>2. \A d \in Calls : TabOf(d) \in Tabs
    BY CallsAre DEF TabOf
  <1>3. TabsOpen'
    BY <1>2 DEF Steady, TabsOpen, OthersKept, Kept
  <1> QED
    BY <1>1, <1>3 DEF Steady, TimersLock, OneByOne

\* ... and leaves the tokens alone.
LEMMA GoodStays ==
    ASSUME UNCHANGED tokens
    PROVE  (\A i : Good(i) => Good(i)') /\ (UNCHANGED cookie => (CookieGood => CookieGood'))
           /\ (NoneExpired => NoneExpired')
  BY DEF Good, Live, Chosen, LastOpened, Opening, CookieGood, NoneExpired, Rows

LEMMA SteadyOpenTab ==
    ASSUME TInv, Steady, NEW t \in Tabs, OpenTab(t)
    PROVE  Steady'
  <1>1. /\ UNCHANGED <<tokens, cookie, webLock, call, reused, calm>> /\ view' = [view EXCEPT ![t] = "new"]
    BY DEF OpenTab, db
  <1>2. \A u \in Tabs : Heard(u) => Heard(u)'
    BY <1>1, TypesInParts DEF TInv, Rest, Heard
  <1>3. \A d \in Calls : TabOf(d) \in Tabs
    BY CallsAre DEF TabOf
  <1>4. TabsOpen => TabsOpen'
    BY <1>1, <1>2, <1>3 DEF TabsOpen
  <1>5. \A c \in Calls : Undisturbed(c) => Undisturbed(c)'
    BY <1>1, GoodStays DEF Undisturbed
  <1> QED
    BY <1>1, <1>4, <1>5, GoodStays DEF Steady, OneByOne, TimersLock, Busy

LEMMA SteadyScheduleRefresh ==
    ASSUME TInv, Steady, NEW t \in Tabs, ScheduleRefresh(t)
    PROVE  Steady'
  <1> DEFINE c == Timer(t)
  <1>1. /\ UNCHANGED <<tokens, cookie, webLock, view, reused, calm>> /\ Heard(t)
    BY DEF ScheduleRefresh, db, browser, Heard
  <1>2. /\ c \in Calls /\ TabOf(c) = t /\ OthersKept(c) /\ call[c] = Idle /\ call'[c].pc = "queued"
    BY Scheduled, CallsAre DEF TInv, TabOf
  <1> HIDE DEF c
  <1>3. \A d \in Calls : /\ Busy(d)' <=> Busy(d)
                         /\ Busy(d) => d # c
    BY <1>2, IdleFits DEF OthersKept, Kept, Busy
  <1>4. TabsOpen => TabsOpen'
    BY <1>1, <1>2 DEF TabsOpen, OthersKept, Kept, Heard
  <1>5. ASSUME NEW d \in Calls, Busy(d), Undisturbed(d) PROVE Undisturbed(d)'
    <2>1. Kept(d)
      BY <1>2, <1>3, <1>5 DEF OthersKept
    <2>2. call[d].pc = "held" => tokens'[cookie'].company = tokens[cookie].company
      BY <1>1
    <2> QED
      BY <1>1, <1>5, <2>1, <2>2, GoodStays DEF Undisturbed, Kept
  <1> QED
    BY <1>1, <1>3, <1>4, <1>5, GoodStays DEF Steady, OneByOne, TimersLock

LEMMA SteadySendRefresh ==
    ASSUME TInv, Steady, NEW t \in Tabs, SendRefresh(t), calm'
    PROVE  Steady'
  <1> DEFINE c == Timer(t)
  <1>1. /\ UNCHANGED <<tokens, cookie, view, reused>> /\ webLock' \in {c, NoLocks} /\ webLock \in {Nobody, NoLocks}
        /\ Overlap(c) /\ call[c].pc = "queued"
    BY DEF SendRefresh, db, At, WebLockFree
  <1>2. /\ c \in Calls /\ OthersKept(c) /\ call'[c].kind = "refresh" /\ call'[c].tok = cookie
        /\ cookie = 0 => call'[c].pc = "answered" /\ call'[c].out = Refused
        /\ cookie # 0 => call'[c].pc = "sent" /\ call'[c].out = Done
    BY SentRefresh, CallsAre DEF TInv
  <1> HIDE DEF c
  <1>3. calm /\ \A d \in Calls : d # c /\ Busy(d) => d[2] = "timer" /\ webLock = Nobody
    BY <1>1 DEF Overlap
  <1>4. \A d \in Calls : d # c => ~Busy(d)
    <2>1. Nobody \notin Calls \cup {NoLocks}
      BY NobodyAssumption, CallsAre
    <2> QED
      BY <1>3, <2>1 DEF Steady, TimersLock
  <1>5. ~Busy(c) /\ Heard(TabOf(c))
    BY <1>1, <1>2, <1>3 DEF Busy, Steady, TabsOpen
  <1>6. CookieGood
    BY <1>3, <1>4, <1>5 DEF Steady
  <1>7. CookieGood' /\ NoneExpired' /\ ~reused'
    BY <1>1, <1>3, <1>6, GoodStays DEF Steady
  <1>8. Busy(c)' /\ Undisturbed(c)'
    BY <1>1, <1>2, <1>7 DEF Undisturbed, Busy, Refused
  <1>9. \A u \in Tabs : Heard(u) => Heard(u)'
    BY <1>1 DEF Heard
  <1>10. Heard(TabOf(c))'
    BY <1>1, <1>5 DEF Heard
  <1> QED
    BY <1>1, <1>2, <1>3, <1>4, <1>7, <1>8, <1>9, <1>10, SteadyStep

LEMMA SteadySendUserCall ==
    ASSUME TInv, Steady, NEW t \in Tabs, SendUserCall(t), calm'
    PROVE  Steady'
  <1> DEFINE c == User(t)
  <1>1. /\ UNCHANGED <<tokens, cookie, webLock, view, reused>>
    BY DEF SendUserCall, db, browser
  <1>2. c \in Calls /\ c[2] = "user" /\ TabOf(c) = t
    BY CallsAre DEF TabOf
  <1>3. /\ OthersKept(c) /\ call[c] = Idle
        /\ call'[c].kind \in UserCalls(t)
        /\ call'[c].tok = IF call'[c].kind \in {"switch", "logout"} THEN cookie ELSE 0
        /\ IF cookie = 0 /\ call'[c].kind \in {"switch", "logout"}
           THEN call'[c].pc = "answered" ELSE call'[c].pc = "sent"
        /\ call'[c].out \in {Refused, Done}
        /\ IF call'[c].kind = "reset" THEN calm' = FALSE ELSE Overlap(c)
    BY SentUserCall DEF TInv
  <1>4. Heard(t) /\ call'[c].kind \in {"login", "switch", "logout", "disable", "reset"}
    BY <1>3 DEF UserCalls, Heard
  <1> HIDE DEF c
  <1>5. call'[c].kind # "reset" /\ calm /\ \A d \in Calls : d # c => ~Busy(d)
    BY <1>2, <1>3 DEF Overlap
  <1>6. ~Busy(c)
    BY <1>3, IdleFits DEF Busy
  <1>7. CookieGood
    BY <1>5, <1>6 DEF Steady
  <1>8. CookieGood' /\ NoneExpired' /\ ~reused'
    BY <1>1, <1>5, <1>7, GoodStays DEF Steady
  <1>9. Busy(c)' /\ Undisturbed(c)'
    BY <1>1, <1>3, <1>4, <1>5, <1>8 DEF Undisturbed, Busy, Refused, Done
  <1>10. \A u \in Tabs : Heard(u) => Heard(u)'
    BY <1>1 DEF Heard
  <1>11. Heard(TabOf(c))'
    BY <1>1, <1>2, <1>4 DEF Heard
  <1> QED
    BY <1>2, <1>3, <1>5, <1>8, <1>9, <1>10, <1>11, SteadyStep

\* A call that ends, alone, and leaves a good cookie.
LEMMA SteadyEnds ==
    ASSUME TInv, Steady, calm, NEW c \in Calls, Busy(c), OthersKept(c), call'[c].pc = "idle",
           UNCHANGED tokens, UNCHANGED reused, \A t \in Tabs : Heard(t) => Heard(t)',
           cookie' # 0 => Good(cookie')
    PROVE  Steady'
  <1>1. \A d \in Calls : d # c => ~Busy(d)
    BY Alone
  <1>2. ~Busy(c)'
    BY DEF Busy
  <1>3. NoneExpired' /\ ~reused'
    BY GoodStays DEF Steady
  <1>4. CookieGood'
    <2>1. \A i : Good(i) => Good(i)'
      BY GoodStays
    <2>2. ASSUME NEW i, i = cookie', Good(i)' PROVE Good(cookie)'
      BY <2>2 DEF Good, Live
    <2> QED
      BY <2>1, <2>2 DEF CookieGood
  <1> QED
    BY <1>1, <1>2, <1>3, <1>4, SteadyStep

LEMMA SteadyAnswered ==
    ASSUME TInv, Steady, NEW t \in Tabs, Answered(t), calm'
    PROVE  Steady'
  <1>1. /\ Timer(t) \in Calls /\ User(t) \in Calls /\ TabOf(Timer(t)) = t /\ TabOf(User(t)) = t
    BY CallsAre DEF TabOf
  <1>2. UNCHANGED tokens /\ UNCHANGED reused /\ calm
    BY DEF Answered, RefreshAnswered, SessionAnswered, LogoutAnswered, PasswordAnswered, db
  <1>3. view \in [Tabs -> {"closed", "new", "in", "out", "unreachable"}]
    BY TypesInParts DEF TInv, Rest
  <1>4. CASE RefreshAnswered(t)
    <2> DEFINE c == Timer(t)
    <2>1. call[c].pc = "answered" /\ call[c].kind = "refresh" /\ Busy(c)
      BY <1>4 DEF RefreshAnswered, At, Busy
    <2>2. Undisturbed(c) /\ Heard(t)
      BY <1>1, <1>2, <2>1, Alone
    <2>3. cookie' = IF call[c].out > 0 THEN call[c].out ELSE 0
      BY <1>4, <2>2 DEF RefreshAnswered
    <2>4. cookie' # 0 => Good(cookie')
      <3>1. call[c].out > 0 => Good(call[c].out)
        BY <2>1, <2>2 DEF Undisturbed
      <3> HIDE DEF c
      <3> QED
        BY <2>3, <3>1
    <2>5. \A u \in Tabs : Heard(u) => Heard(u)'
      BY <1>3, <1>4 DEF RefreshAnswered, Heard
    <2>6. OthersKept(c) /\ call'[c].pc = "idle"
      BY <1>1, <1>2, <1>4, GoesIdle DEF TInv, RefreshAnswered
    <2> QED
      BY <1>1, <1>2, <2>1, <2>4, <2>5, <2>6, SteadyEnds
  <1>5. CASE SessionAnswered(t)
    <2> DEFINE c == User(t)
    <2>1. call[c].pc = "answered" /\ call[c].kind \in {"login", "switch"} /\ Busy(c)
      BY <1>5 DEF SessionAnswered, At, Busy
    <2>2. Undisturbed(c) /\ Heard(t)
      BY <1>1, <1>2, <2>1, Alone
    <2>3. cookie' = IF call[c].out > 0 THEN call[c].out ELSE cookie
      BY <1>5, <2>2 DEF SessionAnswered
    <2>4. cookie' # 0 => Good(cookie')
      <3>1. IF call[c].out > 0 THEN Good(call[c].out) ELSE CookieGood
        BY <2>1, <2>2 DEF Undisturbed
      <3> HIDE DEF c
      <3> QED
        BY <2>3, <3>1 DEF CookieGood
    <2>5. \A u \in Tabs : Heard(u) => Heard(u)'
      BY <1>3, <1>5 DEF SessionAnswered, Heard
    <2>6. Go(c, Idle) \/ NewGeneration(t)
      BY <1>5 DEF SessionAnswered
    <2>7. OthersKept(c) /\ call'[c].pc = "idle"
      BY <1>1, <1>2, <2>6, GoesIdle, Regenerated DEF TInv
    <2> QED
      BY <1>1, <1>2, <2>1, <2>4, <2>5, <2>7, SteadyEnds
  <1>6. CASE LogoutAnswered(t)
    <2> DEFINE c == User(t)
    <2>1. Busy(c)
      BY <1>6 DEF LogoutAnswered, At, Busy
    <2>2. Heard(t) /\ Undisturbed(c) /\ call[c].pc = "answered"
      BY <1>1, <1>2, <1>6, <2>1, Alone DEF LogoutAnswered, At
    <2>3. cookie' = 0
      BY <1>6, <2>2 DEF LogoutAnswered, Undisturbed
    <2>4. \A u \in Tabs : Heard(u) => Heard(u)'
      BY <1>3, <1>6 DEF LogoutAnswered, Heard
    <2>5. Go(c, Idle) \/ NewGeneration(t)
      BY <1>6 DEF LogoutAnswered
    <2>6. OthersKept(c) /\ call'[c].pc = "idle"
      BY <1>1, <1>2, <2>5, GoesIdle, Regenerated DEF TInv
    <2> QED
      BY <1>1, <1>2, <2>1, <2>3, <2>4, <2>6, SteadyEnds
  <1>7. CASE PasswordAnswered(t)
    \* There is none: a reset ends the calm.
    <2>1. call[User(t)].kind = "reset" /\ Busy(User(t))
      BY <1>7 DEF PasswordAnswered, At, Busy
    <2> QED
      BY <1>1, <1>2, <2>1, Alone DEF Undisturbed
  <1> QED
    BY <1>4, <1>5, <1>6, <1>7 DEF Answered

\* A step of the backend on a call that stays busy.
LEMMA SteadyWorks ==
    ASSUME TInv, Steady, calm, NEW c \in Calls, Busy(c), OthersKept(c), Busy(c)',
           UNCHANGED webLock, UNCHANGED view, ~reused', NoneExpired', Undisturbed(c)'
    PROVE  Steady'
  <1>1. Heard(TabOf(c)) /\ \A d \in Calls : d # c => ~Busy(d)
    BY Alone
  <1>2. \A u : Heard(u) => Heard(u)'
    BY DEF Heard
  <1>3. c[2] = "timer" => webLock' \in {c, NoLocks}
    BY DEF Steady, TimersLock
  <1>4. \A u \in Tabs : Heard(u) => Heard(u)'
    BY <1>2
  <1>5. Heard(TabOf(c))'
    BY <1>1 DEF Heard
  <1> QED
    BY <1>1, <1>3, <1>4, <1>5, SteadyStep

LEMMA SteadyLogin ==
    ASSUME TInv, TInv', Steady, NEW c \in Calls, Login(c), calm'
    PROVE  Steady'
  <1>1. /\ Rows \in Nat /\ Rows' = Rows + 1 /\ OthersKept(c) /\ call[c].pc = "sent"
        /\ call'[c].kind = "login" /\ call'[c].pc = "answered" /\ call'[c].out = Rows + 1
        /\ \A i \in 1 .. Rows : tokens'[i] = tokens[i]
        /\ UNCHANGED <<cookie, webLock, view, reused, calm>>
        /\ tokens'[Rows + 1] = Row(Rows + 1, Home, 0, "login")
    BY LoginCommits
  <1>2. LET row == tokens'[Rows + 1] IN row.by = "login" /\ ~row.revoked /\ ~row.expired
    BY <1>1 DEF Row
  <1>3. Chosen' = tokens'[Rows + 1].company
    BY <1>1, <1>2, RowsAfter, NewestIsLast
  <1>5. Undisturbed(c)'
    BY <1>1, <1>2, <1>3 DEF Undisturbed, Good, Live
  <1>6. NoneExpired'
    <2>1. \A i \in 1 .. Rows' : i \in 1 .. Rows \/ i = Rows + 1
      BY <1>1
    <2> QED
      BY <1>1, <1>2, <2>1 DEF Steady, NoneExpired
  <1>7. Busy(c) /\ Busy(c)' /\ ~reused' /\ calm
    BY <1>1 DEF Busy, Steady
  <1> QED
    BY <1>1, <1>5, <1>6, <1>7, SteadyWorks

LEMMA SteadyLoadToken ==
    ASSUME TInv, Steady, NEW c \in Calls, LoadToken(c), calm'
    PROVE  Steady'
  <1>1. /\ UNCHANGED <<tokens, cookie, webLock, view, reused, calm>>
        /\ call[c].kind = "switch" /\ call[c].pc = "sent"
    BY DEF LoadToken, At, browser, db
  <1>2. call[c].tok \in 1 .. Rows /\ TokensFit
    BY <1>1, CallTyped, TypesInParts DEF TInv, Lanes, InLane
  <1>3. /\ OthersKept(c) /\ call'[c].kind = "switch" /\ call'[c].pc = "loaded" /\ call'[c].tok = call[c].tok
        /\ call'[c].live = Spendable(tokens[call[c].tok])
    BY <1>2, Loaded DEF TInv
  <1>4. Busy(c) /\ Busy(c)' /\ calm
    BY <1>1, <1>3 DEF Busy
  <1>5. CookieGood /\ call[c].tok = cookie /\ cookie # 0
    BY <1>1, <1>2, <1>4, Alone DEF Undisturbed
  <1>6. Spendable(tokens[cookie])
    BY <1>2, <1>5, RowsTyped DEF CookieGood, Good, Live, Spendable
  <1>7. CookieGood' /\ NoneExpired' /\ ~reused'
    BY <1>1, <1>4, <1>5, GoodStays DEF Steady
  <1>8. Undisturbed(c)'
    BY <1>1, <1>3, <1>5, <1>6, <1>7 DEF Undisturbed
  <1> QED
    BY <1>1, <1>3, <1>4, <1>7, <1>8, SteadyWorks

LEMMA SteadySwitchRefused ==
    ASSUME TInv, Steady, NEW c \in Calls, SwitchRefused(c), calm'
    PROVE  Steady'
  <1>1. /\ UNCHANGED <<tokens, cookie, webLock, view, reused, calm>>
        /\ call[c].kind = "switch" /\ call[c].pc = "loaded" /\ Answer(c, Refused)
    BY DEF SwitchRefused, At, browser, db
  <1>2. /\ OthersKept(c) /\ call'[c].kind = "switch" /\ call'[c].pc = "answered" /\ call'[c].out = Refused
    BY <1>1, TokensAlone, Answers DEF TInv
  <1>3. Busy(c) /\ Busy(c)' /\ calm
    BY <1>1, <1>2 DEF Busy
  <1>4. CookieGood
    BY <1>1, <1>3, Alone DEF Undisturbed
  <1>5. CookieGood' /\ NoneExpired' /\ ~reused'
    BY <1>1, <1>3, <1>4, GoodStays DEF Steady
  <1>6. Undisturbed(c)'
    BY <1>2, <1>5 DEF Undisturbed, Refused
  <1> QED
    BY <1>1, <1>2, <1>3, <1>5, <1>6, SteadyWorks

LEMMA SteadyRotate ==
    ASSUME TInv, Steady, NEW c \in Calls, Rotate(c), calm'
    PROVE  Steady'
  <1>1. /\ UNCHANGED <<tokens, cookie, webLock, view, calm>>
        /\ \/ call[c].kind = "refresh" /\ call[c].pc = "sent"
           \/ call[c].kind = "switch" /\ call[c].pc = "loaded"
    BY DEF Rotate, At, browser
  <1>2. call[c].tok \in 1 .. Rows /\ TokensFit /\ TypeOK
    BY <1>1, CallTyped, TypesInParts DEF TInv, Lanes, InLane
  <1>3. Busy(c) /\ calm
    BY <1>1 DEF Busy
  <1>4. CookieGood /\ call[c].tok = cookie /\ cookie # 0 /\ (call[c].kind = "switch" => call[c].live)
    BY <1>1, <1>2, <1>3, Alone DEF Undisturbed
  <1>5. Spends(c) /\ ~tokens[call[c].tok].expired
    BY <1>2, <1>4, RowsTyped DEF CookieGood, Good, Live, Spends, Spendable
  <1>6. /\ OthersKept(c) /\ call'[c].kind = call[c].kind /\ call'[c].tok = call[c].tok
        /\ call'[c].pc = "held" /\ UNCHANGED reused
        /\ call'[c].company = IF call[c].kind = "switch" THEN call[c].company
                              ELSE tokens[call[c].tok].company
    <2>1. call[c].tok # 0
      BY <1>2
    <2> QED
      BY <1>2, <1>5, <2>1, Rotated
  <1>7. CookieGood' /\ NoneExpired' /\ ~reused'
    BY <1>1, <1>3, <1>4, <1>6, GoodStays DEF Steady
  <1>8. Busy(c)' /\ Undisturbed(c)'
    BY <1>1, <1>4, <1>6, <1>7 DEF Undisturbed, Busy
  <1> QED
    BY <1>1, <1>3, <1>6, <1>7, <1>8, SteadyWorks

LEMMA SteadyCommitRotation ==
    ASSUME TInv, TInv', Openers, Steady, NEW c \in Calls, CommitRotation(c), calm'
    PROVE  Steady'
  <1> DEFINE i == call[c].tok  n == Rows + 1
  <1>1. /\ i \in 1 .. Rows /\ Rows \in Nat /\ call[c].kind \in {"refresh", "switch"} /\ call[c].pc = "held"
        /\ Rows' = n /\ OthersKept(c)
        /\ call'[c].kind = call[c].kind /\ call'[c].pc = "answered" /\ call'[c].out = n
        /\ tokens'[n] = Row(tokens[i].family, call[c].company, i, call[c].kind)
        /\ UNCHANGED <<cookie, webLock, view, reused, calm>>
    BY RotationCommits
  <1>2. \A j \in 1 .. Rows : Constant(j) /\ tokens'[j].expired = tokens[j].expired
    BY RotationCommits
  <1>3. /\ n # 0 /\ n > 0 /\ n \in Nat /\ Rows # 0 /\ Rows <= n /\ \A j \in 1 .. n : j \in 1 .. Rows \/ j = n
        /\ DOMAIN tokens' = 1 .. n
    BY <1>1, RowsAfter
  <1> HIDE DEF i, n
  <1>4. LET row == tokens'[n] IN
        row.by = call[c].kind /\ ~row.revoked /\ ~row.expired /\ row.company = call[c].company
    BY <1>1 DEF Row
  <1>5. Busy(c) /\ Busy(c)' /\ calm
    BY <1>1 DEF Busy
  <1>6. CookieGood /\ i = cookie /\ (call[c].kind = "refresh" => call[c].company = tokens[cookie].company)
    BY <1>1, <1>5, Alone DEF Undisturbed, i
  <1>7. Chosen' = call[c].company
    <2>1. CASE call[c].kind = "switch"
      BY <1>1, <1>3, <1>4, <2>1, NewestIsLast
    <2>2. CASE call[c].kind = "refresh"
      <3>1. call[c].company = Chosen
        <4>1. cookie # 0
          BY <1>1, <1>6
        <4> QED
          BY <1>6, <2>2, <4>1 DEF CookieGood, Good
      <3>2. Chosen' = Chosen
        BY <1>1, <1>2, <1>3, <1>4, <2>2, ChosenStays
      <3> QED
        BY <3>1, <3>2
    <2> QED
      BY <1>1, <2>1, <2>2
  <1>8. Undisturbed(c)'
    BY <1>1, <1>3, <1>4, <1>7 DEF Undisturbed, Good, Live
  <1>9. NoneExpired'
    BY <1>1, <1>2, <1>3, <1>4, <1>5 DEF Steady, NoneExpired
  <1>10. ~reused'
    BY <1>1, <1>5 DEF Steady
  <1> QED
    BY <1>1, <1>5, <1>8, <1>9, <1>10, SteadyWorks

LEMMA SteadyStartRevoking ==
    ASSUME TInv, Steady, NEW c \in Calls, StartRevoking(c), calm'
    PROVE  Steady'
  <1>1. /\ UNCHANGED <<tokens, cookie, webLock, view, reused, calm>> /\ call[c].pc = "sent"
    BY DEF StartRevoking, At, browser, db
  <1>2. /\ OthersKept(c) /\ call[c].kind \in {"logout", "disable", "reset"}
        /\ call'[c].kind = call[c].kind /\ call'[c].pc = "revoking"
    BY Revoking DEF TInv
  <1>3. Busy(c) /\ Busy(c)' /\ calm
    BY <1>1, <1>2 DEF Busy
  <1>4. call[c].kind \in {"logout", "disable"}
    BY <1>2, <1>3, Alone DEF Undisturbed
  <1>5. NoneExpired' /\ ~reused'
    BY <1>1, <1>3, GoodStays DEF Steady
  <1>6. Undisturbed(c)'
    BY <1>2, <1>4 DEF Undisturbed
  <1> QED
    BY <1>1, <1>2, <1>3, <1>5, <1>6, SteadyWorks

LEMMA SteadyCommitRevoking ==
    ASSUME TInv, Steady, NEW c \in Calls, CommitRevoking(c), calm'
    PROVE  Steady'
  <1>1. /\ UNCHANGED <<cookie, webLock, view, reused, calm>> /\ call[c].pc = "revoking"
        /\ Answer(c, IF call[c].kind \in Minting THEN Refused ELSE Done) /\ TokensFit
        /\ tokens' = [i \in DOMAIN tokens |->
                        [tokens[i] EXCEPT !.revoked = @ \/ i \in call[c].targets]]
    BY TypesInParts DEF CommitRevoking, browser, TInv
  <1>2. calm /\ Busy(c)
    BY <1>1 DEF Busy
  <1>3. call[c].kind \in {"logout", "disable"}
    BY <1>1, <1>2, Alone DEF Undisturbed
  <1>4. /\ Rows \in Nat /\ Rows' = Rows /\ \A i \in 1 .. Rows : tokens'[i].expired = tokens[i].expired
    BY <1>1, Revokes, RowsTyped
  <1>5. Answer(c, Done) /\ Done \in {Refused, Failed} \cup 0 .. Rows'
    BY <1>1, <1>3, <1>4 DEF Minting, Done
  <1>6. OthersKept(c) /\ call'[c].kind = call[c].kind /\ call'[c].pc = "answered" /\ call'[c].out = Done
    BY <1>3, <1>4, <1>5, Answers DEF TInv
  <1>7. Busy(c)' /\ Undisturbed(c)'
    BY <1>3, <1>6 DEF Busy, Undisturbed, Done
  <1>8. NoneExpired' /\ ~reused'
    BY <1>1, <1>2, <1>4 DEF Steady, NoneExpired
  <1> QED
    BY <1>1, <1>2, <1>6, <1>7, <1>8, SteadyWorks

LEMMA SteadyNext == TInv /\ TInv' /\ Openers /\ Steady /\ [Next]_vars => Steady'
  <1> SUFFICES ASSUME TInv, TInv', Openers, Steady, [Next]_vars, calm' PROVE Steady'
    BY DEF Steady
  <1>1. ASSUME NEW t \in Tabs, \/ OpenTab(t) \/ ScheduleRefresh(t) \/ SendRefresh(t) \/ SendUserCall(t)
                               \/ Answered(t) \/ CloseTab(t)
        PROVE  Steady'
    BY <1>1, SteadyOpenTab, SteadyScheduleRefresh, SteadySendRefresh, SteadySendUserCall, SteadyAnswered
       DEF CloseTab, Fault
  <1>2. ASSUME NEW c \in Calls, Backend(c) \/ BackendFails(c) \/ AnswerFails(c) \/ AnswerLost(c)
        PROVE  Steady'
    BY <1>2, SteadyLogin, SteadyLoadToken, SteadySwitchRefused, SteadyRotate, SteadyCommitRotation,
       SteadyStartRevoking, SteadyCommitRevoking DEF Backend, BackendFails, AnswerFails, AnswerLost, Fault
  <1>3. CASE TokensExpire
    BY <1>3 DEF TokensExpire, Fault
  <1>4. CASE UNCHANGED vars
    <2>1. UNCHANGED <<tokens, cookie, webLock, view, call, reused, calm>>
      BY <1>4 DEF vars, db, browser
    <2> QED
      BY <2>1, GoodStays DEF Steady, TabsOpen, Heard, TimersLock, OneByOne, Busy, Undisturbed
  <1> QED
    BY <1>1, <1>2, <1>3, <1>4 DEF Next

LEMMA SteadyInit == Init => Steady
  BY IdleFits DEF Init, Steady, NoneExpired, TabsOpen, TimersLock, OneByOne, Busy, CookieGood, Rows

\* While nothing fails and the user does one thing at a time, however many tabs refresh: no refresh
\* is taken for a reuse, and between two requests the cookie is a live token of the company the
\* user last chose.
THEOREM SessionIsSteady == Spec => []SteadySession
  <1>1. Init => TInv /\ Openers /\ Steady
    BY TypesInit, OpenersInit, SteadyInit
  <1>2. TInv /\ Openers /\ Steady /\ [Next]_vars => (TInv /\ Openers /\ Steady)'
    BY TypesNext, OpenersNext, SteadyNext
  <1>3. Steady => SteadySession
    BY DEF Steady, SteadySession, CookieGood, Good, Chosen
  <1> QED
    BY <1>1, <1>2, <1>3, PTL DEF Spec
=============================================================================
