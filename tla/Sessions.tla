------------------------------ MODULE Sessions ------------------------------
(***************************************************************************)
(* The sessions of one user in one browser: the rows of refresh_tokens and *)
(* the handlers of routers/auth.py that mint, rotate and revoke them, the  *)
(* route handlers of the front end that keep the token in a cookie all     *)
(* tabs share, and the refresh loop of contexts/AuthContext.tsx.           *)
(*                                                                         *)
(* A tab has two lanes: its refresh timer, whose requests of all tabs are  *)
(* serialised by a Web Lock where the browser has them, and the user, who  *)
(* logs in, switches company, logs out, disables the second factor or      *)
(* resets the password, and takes no such lock.  A call is one browser     *)
(* request with the one backend transaction it causes:                     *)
(*    queued -> sent -> (loaded ->) held | revoking -> answered -> idle    *)
(* Passwords and one-time codes are the matter of Credentials: here every  *)
(* one that is sent is right.  A reset stands as well for a change of      *)
(* password, which revokes as much and which no form of this front end     *)
(* makes.                                                                  *)
(***************************************************************************)
EXTENDS Integers, Sequences, FiniteSets

CONSTANTS
    Tabs,
    Companies,       \* the user's memberships
    Home,            \* the default one
    MaxTokens,       \* bound: rows of refresh_tokens
    MaxFaults,       \* bound: lost answers, outages, failures and closed tabs
    Nobody,
    NoLocks          \* the browser lacks Web Locks

ASSUME FiniteAssumption == IsFiniteSet(Tabs)
ASSUME HomeAssumption   == Home \in Companies
ASSUME BoundAssumption  == MaxTokens \in Nat /\ MaxFaults \in Nat
ASSUME NobodyAssumption == {Nobody, NoLocks} \cap (Tabs \X {"timer", "user"}) = {} /\ Nobody # NoLocks

Calls == Tabs \X {"timer", "user"}

VARIABLES
    tokens,      \* refresh_tokens, in the order they were minted
    rowLock,     \* the call that holds each row FOR UPDATE
    cookie,      \* the token in the browser's cookie; 0 for none
    webLock,     \* the call that holds the lock "builders-stream-auth-refresh", or NoLocks
    view,        \* what each tab knows of its session
    call,
    faults,
    reused,      \* history: the reuse branch has revoked a family
    calm,        \* history: nothing has happened yet but calls one after another, and refreshes
                 \* that a Web Lock keeps apart
    ended        \* history: the families that were revoked when no request was at work on them

db      == <<tokens, rowLock>>
browser == <<cookie, webLock, view>>
vars    == <<db, browser, call, faults, reused, calm, ended>>

Idle   == [kind |-> "none", pc |-> "idle", tok |-> 0, live |-> FALSE, company |-> Home,
           targets |-> {}, out |-> 0, stale |-> FALSE]
Refused == 0 - 1     \* a 401 or 403
Failed  == 0 - 2     \* a 5xx
Done    == 0         \* an answer without a token

At(c, kinds, pc) == call[c].kind \in kinds /\ call[c].pc = pc
Go(c, r)    == call' = [call EXCEPT ![c] = r]
Busy(c)     == call[c].pc \notin {"idle", "queued"}
TabOf(c)    == c[1]
Heard(t)    == view[t] # "closed"
Timer(t)    == <<t, "timer">>
User(t)     == <<t, "user">>

Live(i)     == ~tokens[i].revoked /\ ~tokens[i].expired
Family(i)   == {j \in DOMAIN tokens : tokens[j].family = tokens[i].family}
Unrevoked   == {i \in DOMAIN tokens : ~tokens[i].revoked}
Chains      == {tokens[i].family : i \in DOMAIN tokens}
Dead(f)     == \A i \in Unrevoked : tokens[i].family # f
InUse(f)    == \E c \in Calls : call[c].pc \in {"loaded", "held"} /\ tokens[call[c].tok].family = f

Minting == {"login", "refresh", "switch"}
Room    == Len(tokens) < MaxTokens - Cardinality({c \in Calls : call[c].kind \in Minting})

Row(family, company, from, by) ==
    [family |-> family, company |-> company, revoked |-> FALSE, expired |-> FALSE, replaced |-> 0,
     from |-> from, by |-> by]

(* The decisions of the code, each preceded by the mutant that shows which *)
(* property depends on it.                                                 *)

\* SELECT ... FOR UPDATE, and an UPDATE, wait for the holder of a row.
RowFree_NoWait(i, c) == TRUE
RowFree(i, c) == rowLock[i] \in {Nobody, c}

\* A test of the successor alone would rotate a token that was logged out.
Spendable_NoRevoked(row) == row.replaced = 0
Spendable(row) == ~row.revoked /\ row.replaced = 0

\* A refresh that waits for no other may present the same cookie; without Web Locks none waits.
WebLockFree_None == TRUE
WebLockFree == webLock \in {Nobody, NoLocks}

\* A rotation that falls back to the default membership.
Inherited_Home(row) == Home
Inherited(row) == row.company

TimerKind == "refresh"

Init ==
    /\ tokens  = <<>>
    /\ rowLock = [i \in 1 .. MaxTokens |-> Nobody]
    /\ cookie  = 0
    /\ webLock \in {Nobody, NoLocks}
    /\ view    = [t \in Tabs |-> "closed"]
    /\ call    = [c \in Calls |-> Idle]
    /\ faults  = 0
    /\ reused  = FALSE
    /\ calm    = TRUE
    /\ ended   = {}

(***************************************************************************)
(* The browser: AuthContext and the forms that call the route handlers.    *)
(***************************************************************************)

\* Keeping the refreshes of two tabs apart is up to the Web Lock; any other overlap may upset them.
Overlap(c) ==
    calm' = (calm /\ \A d \in Calls \ {c} : Busy(d) => c[2] = "timer" /\ d[2] = "timer" /\ webLock # NoLocks)

\* A tab that opens hydrates its session with a first refresh.
OpenTab(t) ==
    /\ view[t] = "closed"
    /\ call[Timer(t)] = Idle /\ call[User(t)] = Idle
    /\ view' = [view EXCEPT ![t] = "new"]
    /\ UNCHANGED <<db, cookie, webLock, call, faults, reused, calm, ended>>

\* The timer fires, the retry after an unreachable server, or the "online" event.
ScheduleRefresh(t) ==
    /\ view[t] # "closed" /\ call[Timer(t)] = Idle /\ Room
    /\ Go(Timer(t), [Idle EXCEPT !.kind = TimerKind, !.pc = "queued"])
    /\ UNCHANGED <<db, browser, faults, reused, calm, ended>>

\* The Web Lock is granted, if there is one, and the route handler reads the cookie.
SendRefresh(t) ==
    LET c == Timer(t) IN
    /\ At(c, {"refresh"}, "queued") /\ WebLockFree
    /\ webLock' = IF webLock = NoLocks THEN NoLocks ELSE c
    /\ Go(c, [call[c] EXCEPT !.pc  = IF cookie = 0 THEN "answered" ELSE "sent",
                             !.tok = cookie,
                             !.out = IF cookie = 0 THEN Refused ELSE Done])
    /\ Overlap(c)
    /\ UNCHANGED <<db, cookie, view, faults, reused, ended>>

\* LoginForm and the page of a reset link belong to a tab that is signed out, whatever the others are;
\* CompanySwitcher, the log-out button and MfaPanel to one that is not.
UserCalls(t) == CASE view[t] = "out" -> {"login", "reset"}
                  [] view[t] \in {"in", "unreachable"} -> {"switch", "logout", "disable"}
                  [] OTHER -> {}

\* The forms call without the Web Lock; a reset ends the sessions of tabs that know nothing of it.
SendUserCall(t) ==
    LET c == User(t) IN
    /\ call[c] = Idle
    /\ \E kind \in UserCalls(t), company \in Companies :
          /\ kind # "switch" => company = Home
          /\ kind \in Minting => Room
          /\ Go(c, [Idle EXCEPT
                !.kind = kind, !.company = company,
                !.tok  = IF kind \in {"switch", "logout"} THEN cookie ELSE 0,
                !.pc   = IF cookie = 0 /\ kind \in {"switch", "logout"} THEN "answered" ELSE "sent",
                !.out  = IF cookie = 0 /\ kind = "switch" THEN Refused ELSE Done])
          /\ IF kind = "reset" THEN calm' = FALSE ELSE Overlap(c)
    /\ UNCHANGED <<db, browser, faults, reused, ended>>

FreesWebLock(c) == webLock' = IF webLock = c THEN Nobody ELSE webLock

\* setSession and clearSession raise the generation: the tab's refresh under way is discarded.
NewGeneration(t) ==
    call' = [call EXCEPT ![User(t)] = Idle,
                         ![Timer(t)].stale = @ \/ call[Timer(t)].pc # "idle"]

\* The answer to a refresh: route.ts writes the cookie, deletes it after any error, and AuthContext
\* believes the answer unless the session has changed meanwhile.
RefreshAnswered(t) ==
    LET c == Timer(t)  out == call[c].out IN
    /\ At(c, {"refresh"}, "answered")
    /\ cookie' = IF ~Heard(t) THEN cookie ELSE IF out > 0 THEN out ELSE 0
    /\ view' = IF call[c].stale \/ ~Heard(t) THEN view
               ELSE [view EXCEPT ![t] = IF out > 0 THEN "in"
                                        ELSE IF out = Failed THEN "unreachable" ELSE "out"]
    /\ FreesWebLock(c)
    /\ Go(c, Idle)
    /\ UNCHANGED <<db, faults, reused, calm, ended>>

\* A login or a switch: the cookie is written on success and otherwise left alone.
SessionAnswered(t) ==
    LET c == User(t)  out == call[c].out IN
    /\ At(c, {"login", "switch"}, "answered")
    /\ IF out > 0 /\ Heard(t)
       THEN /\ cookie' = out
            /\ view' = [view EXCEPT ![t] = "in"]
            /\ NewGeneration(t)
       ELSE Go(c, Idle) /\ UNCHANGED <<cookie, view>>
    /\ UNCHANGED <<db, webLock, faults, reused, calm, ended>>

\* logout/route.ts deletes the cookie whatever the backend said, mfa/disable/route.ts once it agreed;
\* Nav and MfaPanel then clear the session.
LogoutAnswered(t) ==
    /\ At(User(t), {"logout", "disable"}, "answered")
    /\ IF Heard(t) /\ (call[User(t)].kind = "disable" => call[User(t)].out = Done)
       THEN /\ cookie' = 0
            /\ view' = [view EXCEPT ![t] = "out"]
            /\ NewGeneration(t)
       ELSE Go(User(t), Idle) /\ UNCHANGED <<cookie, view>>
    /\ UNCHANGED <<db, webLock, faults, reused, calm, ended>>

\* The reset page moves on to the login form; neither the cookie nor the session it knows of changes.
PasswordAnswered(t) ==
    /\ At(User(t), {"reset"}, "answered")
    /\ Go(User(t), Idle)
    /\ UNCHANGED <<db, browser, faults, reused, calm, ended>>

(***************************************************************************)
(* The backend: routers/auth.py and services/refresh_tokens.py.            *)
(***************************************************************************)

Answer(c, out) == Go(c, [call[c] EXCEPT !.pc = "answered", !.out = out, !.targets = {}])
Unlocked(c) == [i \in DOMAIN rowLock |-> IF rowLock[i] = c THEN Nobody ELSE rowLock[i]]

Login(c) ==
    /\ At(c, {"login"}, "sent")
    /\ LET new == Len(tokens) + 1 IN
          /\ tokens' = Append(tokens, Row(new, Home, 0, "login"))
          /\ Answer(c, new)
    /\ UNCHANGED <<rowLock, browser, faults, reused, calm, ended>>

\* switch_company reads the token first, without a lock, and refuses a company the user is not in
\* before it spends anything.
LoadToken(c) ==
    /\ At(c, {"switch"}, "sent")
    /\ Go(c, [call[c] EXCEPT !.pc = "loaded", !.live = Spendable(tokens[call[c].tok])])
    /\ UNCHANGED <<db, browser, faults, reused, calm, ended>>

SwitchRefused(c) ==
    /\ At(c, {"switch"}, "loaded") /\ call[c].live
    /\ Answer(c, Refused)
    /\ UNCHANGED <<db, browser, faults, reused, calm, ended>>

\* rotate_refresh_token.  The locked SELECT returns the object the session already holds, so a
\* switch decides on what it loaded, and only a refresh on the row as it now is.
Rotate(c) ==
    LET i == call[c].tok
        spendable == IF call[c].kind = "switch" THEN call[c].live ELSE Spendable(tokens[i]) IN
    /\ At(c, {"refresh"}, "sent") \/ At(c, {"switch"}, "loaded")
    /\ RowFree(i, c)
    /\ CASE spendable /\ tokens[i].expired ->
              Answer(c, Refused) /\ UNCHANGED <<rowLock, reused>>
         [] spendable /\ ~tokens[i].expired ->
              /\ rowLock' = [rowLock EXCEPT ![i] = c]
              /\ Go(c, [call[c] EXCEPT !.pc = "held",
                    !.company = IF call[c].kind = "switch" THEN @ ELSE Inherited(tokens[i])])
              /\ UNCHANGED reused
         [] OTHER ->
              /\ rowLock' = [rowLock EXCEPT ![i] = c]
              /\ reused' = TRUE
              /\ Go(c, [call[c] EXCEPT !.pc = "revoking", !.targets = Unrevoked \cap Family(i)])
    /\ UNCHANGED <<tokens, browser, faults, calm, ended>>

CommitRotation(c) ==
    LET i == call[c].tok  new == Len(tokens) + 1 IN
    /\ At(c, {"refresh", "switch"}, "held")
    /\ tokens' = Append([tokens EXCEPT ![i].revoked = TRUE, ![i].replaced = new],
                        Row(tokens[i].family, call[c].company, i, call[c].kind))
    /\ rowLock' = Unlocked(c)
    /\ Answer(c, new)
    /\ UNCHANGED <<browser, faults, reused, calm, ended>>

\* logout revokes the family of the token it is given, revoke_all_for_user all tokens of the user: one
\* UPDATE, whose snapshot decides which rows it will touch.
StartRevoking(c) ==
    /\ At(c, {"logout", "disable", "reset"}, "sent")
    /\ Go(c, [call[c] EXCEPT !.pc = "revoking",
          !.targets = IF call[c].kind = "logout" THEN Unrevoked \cap Family(call[c].tok) ELSE Unrevoked])
    /\ UNCHANGED <<db, browser, faults, reused, calm, ended>>

\* ... once no other transaction holds one of them.
CommitRevoking(c) ==
    /\ call[c].pc = "revoking"
    /\ \A i \in call[c].targets : RowFree(i, c)
    /\ tokens' = [i \in DOMAIN tokens |->
                    [tokens[i] EXCEPT !.revoked = @ \/ i \in call[c].targets]]
    /\ rowLock' = Unlocked(c)
    /\ Answer(c, IF call[c].kind \in Minting THEN Refused ELSE Done)
    /\ ended' = ended \cup {f \in Chains : Dead(f)' /\ ~InUse(f)'}
    /\ UNCHANGED <<browser, faults, reused, calm>>

(***************************************************************************)
(* What goes wrong.                                                        *)
(***************************************************************************)

Fault ==
    /\ faults < MaxFaults
    /\ faults' = faults + 1
    /\ calm' = FALSE
    /\ UNCHANGED <<reused, ended>>

\* The backend is down, or fails and rolls back: the route handler answers 5xx.  For a log-out it
\* ignores that.
BackendFails(c) ==
    /\ call[c].pc \in {"sent", "loaded", "held", "revoking"}
    /\ rowLock' = Unlocked(c)
    /\ Answer(c, IF call[c].kind = "logout" THEN Done ELSE Failed)
    /\ Fault
    /\ UNCHANGED <<tokens, browser>>

\* The backend commits and its answer is lost on the way to the route handler.
AnswerFails(c) ==
    /\ call[c].pc = "answered" /\ call[c].out > 0
    /\ Go(c, [call[c] EXCEPT !.out = Failed])
    /\ Fault
    /\ UNCHANGED <<db, browser>>

\* The route handler's answer is lost on the way to the browser: fetch throws, no cookie changes.
AnswerLost(c) ==
    /\ call[c].pc = "answered"
    /\ view' = IF call[c].kind = "refresh" /\ ~call[c].stale /\ Heard(TabOf(c))
               THEN [view EXCEPT ![TabOf(c)] = "unreachable"] ELSE view
    /\ FreesWebLock(c)
    /\ Go(c, Idle)
    /\ Fault
    /\ UNCHANGED <<db, cookie>>

\* The tab closes: the browser releases its Web Lock, the backend goes on with what it was sent.
CloseTab(t) ==
    /\ view[t] # "closed"
    /\ view' = [view EXCEPT ![t] = "closed"]
    /\ FreesWebLock(Timer(t))
    /\ call' = IF call[Timer(t)].pc = "queued" THEN [call EXCEPT ![Timer(t)] = Idle] ELSE call
    /\ Fault
    /\ UNCHANGED <<db, cookie>>

\* The browser is left alone for the fourteen days a token lives.
TokensExpire ==
    /\ \A c \in Calls : call[c] = Idle
    /\ Unrevoked # {}
    /\ tokens' = [i \in DOMAIN tokens |-> [tokens[i] EXCEPT !.expired = TRUE]]
    /\ Fault
    /\ UNCHANGED <<rowLock, browser, call>>

Backend(c) == Login(c) \/ LoadToken(c) \/ SwitchRefused(c) \/ Rotate(c) \/ CommitRotation(c)
              \/ StartRevoking(c) \/ CommitRevoking(c)
Answered(t) == RefreshAnswered(t) \/ SessionAnswered(t) \/ LogoutAnswered(t) \/ PasswordAnswered(t)

Next ==
    \/ \E t \in Tabs : \/ OpenTab(t) \/ ScheduleRefresh(t) \/ SendRefresh(t) \/ SendUserCall(t)
                       \/ Answered(t) \/ CloseTab(t)
    \/ \E c \in Calls : Backend(c) \/ BackendFails(c) \/ AnswerFails(c) \/ AnswerLost(c)
    \/ TokensExpire

Spec == Init /\ [][Next]_vars

-----------------------------------------------------------------------------
Kinds == {"none", "refresh", "login", "switch", "logout", "disable", "reset"}
Pcs   == {"idle", "queued", "sent", "loaded", "held", "revoking", "answered"}

Tokens == [family : Nat, company : Companies, revoked : BOOLEAN, expired : BOOLEAN,
           replaced : Nat, from : Nat, by : Minting]
CallStates == [kind : Kinds, pc : Pcs, tok : Nat, live : BOOLEAN, company : Companies,
               targets : SUBSET Nat, out : Int, stale : BOOLEAN]

\* The rows of refresh_tokens, the cookie and the calls keep their types, what refers to a row
\* refers to one that is there, and a row with a successor is revoked
\* (ck_refresh_tokens_replaced_implies_revoked).
TypeOK ==
    /\ tokens \in Seq(Tokens) /\ Len(tokens) <= MaxTokens
    /\ \A i \in DOMAIN tokens :
          /\ tokens[i].family \in 1 .. i /\ tokens[i].from \in 0 .. i - 1
          /\ tokens[i].replaced \in 0 .. Len(tokens)
          /\ tokens[i].replaced # 0 => tokens[i].revoked
    /\ rowLock \in [1 .. MaxTokens -> Calls \cup {Nobody}]
    /\ cookie \in 0 .. Len(tokens)
    /\ webLock \in Calls \cup {Nobody, NoLocks}
    /\ view \in [Tabs -> {"closed", "new", "in", "out", "unreachable"}]
    /\ call \in [Calls -> CallStates]
    /\ \A c \in Calls :
          /\ call[c].tok \in 0 .. Len(tokens)
          /\ call[c].out \in {Refused, Failed} \cup 0 .. Len(tokens)
          /\ call[c].targets \subseteq DOMAIN tokens
    /\ faults \in 0 .. MaxFaults
    /\ {reused, calm} \subseteq BOOLEAN
    /\ ended \subseteq Chains

\* Two tokens of one family are both live only if a switch spent a token another call spent too:
\* the row lock of rotate_refresh_token keeps the refreshes of all tabs on a single chain.
ForkOnlyBySwitch ==
    \A i, j \in DOMAIN tokens :
        i < j /\ {i, j} \subseteq Unrevoked /\ j \in Family(i) =>
            \E x, y \in Family(i) : /\ x # y /\ tokens[x].from = tokens[y].from
                                    /\ "switch" \in {tokens[x].by, tokens[y].by}

\* A family that was revoked, by a log-out, a password reset or a detected reuse, and that no
\* request is then at work on never has a live token again.
EndedForGood == \A f \in ended : Dead(f)

Opening   == {i \in DOMAIN tokens : tokens[i].by \in {"login", "switch"}}
LastOpened == CHOOSE i \in Opening : \A j \in Opening : j <= i

\* As long as nothing fails and the user does one thing at a time, however many tabs are due for a
\* refresh (which they may not make at once without Web Locks): no refresh is ever taken for a reuse,
\* and between two requests the cookie is a live token of the company the user last chose
\* (AuthContext's Web Lock, active_company_id of the chain).
SteadySession ==
    calm => /\ ~reused
            /\ cookie # 0 /\ (\A c \in Calls : ~Busy(c)) =>
                  Live(cookie) /\ tokens[cookie].company = tokens[LastOpened].company

\* refresh_tokens.py:119-126: of two concurrent presentations of one token the second "sees the
\* committed revoked_at and correctly takes the reuse branch".
OneSuccessor ==
    \A i, j \in DOMAIN tokens : tokens[i].from = tokens[j].from /\ tokens[i].from # 0 => i = j

\* AuthContext.tsx:254-262: when the server cannot be reached "the refresh cookie is untouched": the
\* cookie goes only with the session or after the backend has refused the token.
OutageKeepsCookie ==
    [][cookie # 0 /\ cookie' = 0 =>
        \E c \in Calls : /\ call[c].pc = "answered" /\ call'[c] = Idle
                         /\ call[c].kind \in {"logout", "disable"} \/ call[c].out = Refused]_vars
=============================================================================
