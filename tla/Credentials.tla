----------------------------- MODULE Credentials ----------------------------
(***************************************************************************)
(* The password, the reset links and the one-time codes of one user:       *)
(* login, password-reset, change-password and mfa of routers/auth.py, with *)
(* services/password_reset.py and services/mfa.py.                         *)
(*                                                                         *)
(* A request reads the user (or the link), checks what it was given        *)
(* against what it read, and commits; no row is locked by a read, and a    *)
(* commit writes only the columns the handler assigned.  A change of the   *)
(* password and the disabling of MFA also revoke every session there is.   *)
(* That UPDATE flushes the user's row first and thereby locks it, finds    *)
(* the sessions committed so far, and takes effect with the commit: a      *)
(* login may commit in between.  How a rotation meets a revocation is the  *)
(* matter of Sessions: here the live sessions are told apart by the        *)
(* password they were opened with.                                         *)
(***************************************************************************)
EXTENDS Integers, FiniteSets

CONSTANTS
    Callers,         \* requests that may be in flight at once
    MaxIssued,       \* bounds: the passwords, links and TOTP secrets there may be in all,
    MaxSteps         \* and the 30-second steps

VARIABLES
    user,            \* users: password, TOTP secret (0 for none), mfa_activated_at, last used step
    links,           \* password_reset_tokens: "none", "live", or "dead" once used or expired
    sessions,        \* the passwords with which the live refresh tokens were obtained
    step,            \* the clock, in steps of TOTP_PERIOD_SECONDS
    issued,          \* how many passwords and secrets there have been
    ask,             \* where each request stands
    hold,            \* who has flushed the user's row and the sessions it has revoked, uncommitted
    proven,          \* history: the secret whose code activated MFA
    spent,           \* history: the links and codes accepted, and those accepted twice
    late,            \* history: the sessions opened after the revocation of their password began
    shared,          \* history: the links that two confirmations brought at once
    crossed          \* history: what has overlapped

rvars == <<user, links, sessions, step, issued, ask, hold, proven, spent, late, shared, crossed>>

Links == 1 .. (MaxIssued - 1)
Steps == 1 .. MaxSteps
Races == {"issue", "code", "factor"}

NoAsk  == [kind |-> "none"]
NoHold == [by |-> {}, ends |-> {}]

Changers == {"confirm", "change"}
Revokers == Changers \cup {"disable"}
Factors  == {"enroll", "activate", "disable"}
Coded    == {"login", "confirm", "change", "activate", "disable"}

CredentialsTypeOK ==
    /\ user \in [password : 1 .. MaxIssued, secret : 0 .. MaxIssued, active : BOOLEAN,
                 last : 0 .. MaxSteps]
    /\ links \in [Links -> {"none", "live", "dead"}]
    /\ sessions \subseteq 1 .. MaxIssued
    /\ step \in 1 .. MaxSteps
    /\ hold \in [by : {{}} \cup {{c} : c \in Callers}, ends : SUBSET (1 .. MaxIssued)]
    /\ late \subseteq 1 .. MaxIssued
    /\ crossed \subseteq Races

InitCredentials ==
    /\ user = [password |-> 1, secret |-> 0, active |-> FALSE, last |-> 0]
    /\ links = [l \in Links |-> "none"]
    /\ sessions = {1}
    /\ step = 1
    /\ issued = [password |-> 1, secret |-> 0]
    /\ ask = [c \in Callers |-> NoAsk]
    /\ hold = NoHold
    /\ proven = 0
    /\ spent = [once |-> {}, twice |-> {}]
    /\ late = {} /\ shared = {}
    /\ crossed = {}

Room == issued.password + issued.secret + Cardinality({l \in Links : links[l] # "none"}) < MaxIssued

(* The decisions of the code, each preceded by the mutant that shows that  *)
(* the property depends on it.                                             *)

\* verify_totp_code: a step at or before the last used one is a replay.
Fresh_Any(last, s) == TRUE
Fresh(last, s) == s > last

\* revoke_all_for_user marks every session that is committed and live.
Revoked_None == {}
Revoked == sessions

\* issue_for_email marks every earlier link used.
Superseded_None == {}
Superseded == {l \in Links : links[l] = "live"}

\* A link that was used or has expired is refused.
Redeemable_Used(l) == links[l] \in {"live", "dead"}
Redeemable(l) == links[l] = "live"

\* The 409 of mfa_enroll.
Enrollable_Always == TRUE
Enrollable == ~user.active

-----------------------------------------------------------------------------
(* Requests arrive.  "seen" is what the request has read of the user,      *)
(* "code" the step of the one-time code it brought, 0 where none is asked  *)
(* for, and "links" the reset links its transaction marks used.            *)

Codes(needed) ==
    IF needed THEN {s \in {step - 1, step, step + 1} \cap Steps : Fresh(user.last, s)} ELSE {0}

\* The columns the handler goes back to after it has read the user.
Read(kind) ==
    [password |-> IF kind = "login" THEN user.password ELSE 0,
     secret   |-> IF kind \in Coded THEN user.secret ELSE 0,
     last     |-> IF kind \in {"enroll", "disable"} THEN user.last ELSE 0]

Arrive(c, kind, marks, codes) ==
    /\ ask[c] = NoAsk
    /\ \E s \in codes :
           ask' = [ask EXCEPT ![c] = [kind |-> kind, seen |-> Read(kind), links |-> marks,
                                      code |-> s]]
    /\ UNCHANGED <<user, links, sessions, step, issued, hold, proven, spent, late, shared, crossed>>

Login(c)          == Arrive(c, "login", {}, Codes(user.active))
ChangePassword(c) == Arrive(c, "change", {}, Codes(user.active))
RequestReset(c)   == Arrive(c, "issue", Superseded, {0})
ConfirmReset(c)   == \E l \in Links : Redeemable(l) /\ Arrive(c, "confirm", {l}, Codes(user.active))
MfaEnroll(c)      == Enrollable /\ Arrive(c, "enroll", {}, {0})
MfaActivate(c)    == user.secret > 0 /\ ~user.active /\ Arrive(c, "activate", {}, Codes(TRUE))
MfaDisable(c)     == user.active /\ Arrive(c, "disable", {}, Codes(TRUE))

-----------------------------------------------------------------------------
(* Requests flush and commit.                                              *)

\* The user's row is locked by a request that has written it.
Unheld == hold.by = {}

\* revoke_all_for_user, whose UPDATE the ORM precedes by that of the user.
RevokeAllForUser(c) ==
    /\ ask[c].kind \in Revokers
    /\ Unheld
    /\ hold' = [by |-> {c}, ends |-> Revoked]
    /\ UNCHANGED <<user, links, sessions, step, issued, ask, proven, spent, late, shared, crossed>>

\* What c's commit overlaps with.
Overlaps(c) ==
    LET Among(kinds) == ask[c].kind \in kinds
        Meets(kinds) == \E d \in Callers \ {c} : ask[d].kind \in kinds
    IN  {x \in Races :
            \/ x = "issue"   /\ Among({"issue"})   /\ Meets({"issue"})
            \/ x = "code"    /\ Among(Coded)       /\ Meets(Coded)
            \/ x = "factor"  /\ Among(Factors)     /\ Meets(Factors)}

\* The links c spends, and those of them that another confirmation holds.
Spends(c) == IF ask[c].kind = "confirm" THEN ask[c].links ELSE {}
Shares(c) == Spends(c) \cap UNION {Spends(d) : d \in Callers \ {c}}

\* The link and the code c was accepted with.
Accepted(c) ==
    {<<"link", l>> : l \in Spends(c)}
        \cup IF ask[c].code = 0 THEN {} ELSE {<<"code", ask[c].seen.secret, ask[c].code>>}

\* The ORM writes a column whose value is not the one it loaded.
WrittenLast(c, new) == IF ask[c].seen.last = new THEN user.last ELSE new

\* totp_last_used_step is assigned once a code was verified.
Last(c) == IF ask[c].code = 0 THEN user.last ELSE ask[c].code

Commit(c, kinds) ==
    /\ ask[c].kind \in kinds
    /\ ask' = [ask EXCEPT ![c] = NoAsk]
    /\ crossed' = crossed \cup Overlaps(c)
    /\ shared' = shared \cup Shares(c)
    /\ spent' = [once  |-> spent.once \cup Accepted(c),
                 twice |-> spent.twice \cup (spent.once \cap Accepted(c))]
    /\ UNCHANGED step

\* A login that brought a code writes the user, another does not.  No
\* revocation under way has seen the session it opens.
CommitLogin(c) ==
    LET opened == ask[c].seen.password
    IN  /\ Commit(c, {"login"})
        /\ ask[c].code = 0 \/ Unheld
        /\ user' = [user EXCEPT !.last = Last(c)]
        /\ sessions' = sessions \cup {opened}
        /\ hold' = [hold EXCEPT !.ends = @ \ {opened}]
        /\ late' = late \cup IF Unheld /\ opened = user.password THEN {} ELSE {opened}
        /\ UNCHANGED <<links, issued, proven>>

\* The sessions that were revoked end with the commit.
EndSessions(c) ==
    /\ hold.by = {c}
    /\ sessions' = sessions \ hold.ends
    /\ late' = late \ hold.ends
    /\ hold' = NoHold

\* change_password and confirm_password_reset, which also spends its link.
CommitPassword(c) ==
    /\ Room
    /\ Commit(c, Changers)
    /\ EndSessions(c)
    /\ issued' = [issued EXCEPT !.password = @ + 1]
    /\ user' = [user EXCEPT !.password = issued.password + 1, !.last = Last(c)]
    /\ links' = [l \in Links |-> IF l \in ask[c].links THEN "dead" ELSE links[l]]
    /\ UNCHANGED proven

\* The earlier links were marked before the new one is inserted; the mail
\* with its secret is enqueued after the commit.
CommitIssue(c) ==
    /\ Room
    /\ Commit(c, {"issue"})
    /\ \E new \in Links :
           /\ links[new] = "none" /\ \A l \in 1 .. (new - 1) : links[l] # "none"
           /\ links' = [l \in Links |-> IF l = new THEN "live"
                                        ELSE IF l \in ask[c].links THEN "dead" ELSE links[l]]
    /\ UNCHANGED <<user, sessions, issued, hold, proven, late>>

CommitEnroll(c) ==
    /\ Room /\ Unheld
    /\ Commit(c, {"enroll"})
    /\ issued' = [issued EXCEPT !.secret = @ + 1]
    /\ user' = [user EXCEPT !.secret = issued.secret + 1, !.last = WrittenLast(c, 0)]
    /\ UNCHANGED <<links, sessions, hold, proven, late>>

CommitActivate(c) ==
    /\ Unheld
    /\ Commit(c, {"activate"})
    /\ user' = [user EXCEPT !.active = TRUE, !.last = Last(c)]
    /\ proven' = ask[c].seen.secret
    /\ UNCHANGED <<links, sessions, issued, hold, late>>

CommitDisable(c) ==
    /\ Commit(c, {"disable"})
    /\ EndSessions(c)
    /\ user' = [user EXCEPT !.secret = 0, !.active = FALSE, !.last = WrittenLast(c, 0)]
    /\ proven' = 0
    /\ UNCHANGED <<links, issued>>

\* A rollback: a code that was verified is not recorded as used, sessions
\* that were revoked live on.
Abort(c) ==
    /\ ask[c] # NoAsk
    /\ ask' = [ask EXCEPT ![c] = NoAsk]
    /\ hold' = IF hold.by = {c} THEN NoHold ELSE hold
    /\ UNCHANGED <<user, links, sessions, step, issued, proven, spent, late, shared, crossed>>

Expire(l) ==
    /\ links[l] = "live"
    /\ links' = [links EXCEPT ![l] = "dead"]
    /\ UNCHANGED <<user, sessions, step, issued, ask, hold, proven, spent, late, shared, crossed>>

Tick ==
    /\ step < MaxSteps
    /\ step' = step + 1
    /\ UNCHANGED <<user, links, sessions, issued, ask, hold, proven, spent, late, shared, crossed>>

NextCredentials ==
    \/ \E c \in Callers :
           \/ Login(c) \/ ChangePassword(c) \/ RequestReset(c) \/ ConfirmReset(c)
           \/ MfaEnroll(c) \/ MfaActivate(c) \/ MfaDisable(c)
           \/ RevokeAllForUser(c) \/ CommitLogin(c) \/ CommitPassword(c) \/ CommitIssue(c)
           \/ CommitEnroll(c) \/ CommitActivate(c) \/ CommitDisable(c) \/ Abort(c)
    \/ \E l \in Links : Expire(l)
    \/ Tick

CredentialsSpec == InitCredentials /\ [][NextCredentials]_rvars

-----------------------------------------------------------------------------

\* A change of the password ends every session that was there when its
\* revocation began, and so does the disabling of MFA: a session outlives the
\* password it was opened with only when its own login committed later than
\* that, and only until the next revocation.
OldSessionsEnd == sessions \subseteq {user.password} \cup late

\* password_reset.py: "only the newest works" and "single-use", unless two
\* requests for a link overlapped, or two confirmations brought the very link;
\* a code is accepted twice only after two requests with codes overlapped.
SpentOnce ==
    /\ "issue" \in crossed \/ \A l, m \in Links : links[l] = "live" /\ links[m] = "live" => l = m
    /\ \A l \in Links : <<"link", l>> \in spent.twice => l \in shared
    /\ "code" \in crossed \/ spent.twice \subseteq {<<"link", l>> : l \in Links}

\* Only a secret whose code was verified is asked for at login: the user is
\* never locked out by a secret nobody has, unless two changes of the factor
\* overlapped.
ProvenFactor == "factor" \in crossed \/ (user.active => user.secret = proven /\ proven > 0)

\* Whatever requests follow each other, and whatever fails, an account is
\* harmed only by the races these formulas name.
OnlyRacesHarm == OldSessionsEnd /\ SpentOnce /\ ProvenFactor

\* change_password: "revoke EVERY refresh token the user holds"; the
\* session of a login that had read the old hash survives.
EverySessionEnds == sessions \subseteq {user.password}

\* verify_totp_code: "NEVER a timestep at or before the last successfully used
\* one", save the same code brought by two requests at once.  The request with
\* the earlier step may commit last and set the guard back.
GuardAdvances == \A x \in spent.once : x[1] = "code" /\ x[2] = user.secret => x[3] <= user.last
=============================================================================
