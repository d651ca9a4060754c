------------------------------- MODULE Members -------------------------------
(***************************************************************************)
(* The members of one company: routers/companies.py (roles and removals),  *)
(* routers/invitations.py (create, accept, revoke) and the rows of         *)
(* project_clients and lead_clients that services/client_access.py writes. *)
(*                                                                         *)
(* A request is a READ COMMITTED transaction: it authenticates its actor   *)
(* (core/deps.py), reads, waits for the row it writes and commits:         *)
(*     idle -> auth -> reads ... -> held -> idle                           *)
(* Nothing but that last wait orders two requests.  Names, e-mails and     *)
(* child companies take part in no decision; a client may be granted       *)
(* access to work of the company or of one of its branches.                *)
(***************************************************************************)
EXTENDS Integers, FiniteSets

Roles == {"admin", "client"}

CONSTANTS
    Requests,
    Users,
    Founder,         \* the admin the company was registered with
    Invitations,     \* bound: rows of invitations
    InvitedRoles,
    Places,          \* of the project or lead a grant is for: "company", or a "branch" of it
    Nobody

ASSUME FounderAssumption == Founder \in Users
ASSUME NobodyAssumption  == Nobody \notin Requests
ASSUME RolesAssumption   == InvitedRoles \subseteq Roles
ASSUME PlacesAssumption  == Places \subseteq {"company", "branch"} /\ "company" \in Places

VARIABLES
    role,        \* company_users; "none" for no membership
    account,     \* users
    access,      \* project_clients and lead_clients, as <<user, place>>
    invitation,
    locked,      \* the request that holds each membership, account or invitation row
    req,
    crossed,     \* history: "admins" two changes of members, "grants" a grant and a removal overlapped
    joins        \* history: the memberships each invitation has made

tables == <<role, account, access, invitation>>
vars   == <<tables, locked, req, crossed, joins>>

Member(u)  == <<"member", u>>
Account(u) == <<"account", u>>
Invited(i) == <<"invitation", i>>
Rows == {Member(u) : u \in Users} \cup {Account(u) : u \in Users} \cup {Invited(i) : i \in Invitations}

Idle == [kind |-> "none", pc |-> "idle", actor |-> Founder, user |-> Founder, new |-> "admin",
         place |-> "company", inv |-> Nobody, was |-> "none", drops |-> {}]

At(r, kinds, pc) == req[r].kind \in kinds /\ req[r].pc = pc
Go(r, pc)    == req' = [req EXCEPT ![r].pc = pc]
Unlocked(r)  == [x \in Rows |-> IF locked[x] = r THEN Nobody ELSE locked[x]]
Finish(r)    == req' = [req EXCEPT ![r] = Idle] /\ locked' = Unlocked(r)
Refuse(r)    == Finish(r) /\ UNCHANGED <<tables, crossed, joins>>

\* Requests past their authentication, and with effects still to come.
Working(kinds) == {r \in Requests : req[r].kind \in kinds /\ req[r].pc \notin {"idle", "auth"}}
Changes == {"role", "remove"}

(* The decisions of the code, each preceded by the mutant that shows which *)
(* property depends on it.                                                 *)

\* The wait for the writer of a row.
RowFree_NoWait(x, r) == TRUE
RowFree(x, r) == locked[x] \in {Nobody, r}

\* _require_another_admin_remains, also counting the member it is asked about.
AnotherAdmin_Counted(u) == \E v \in Users : role[v] = "admin"
AnotherAdmin(u) == \E v \in Users \ {u} : role[v] = "admin"

\* The rows remove_member deletes: those of the acting company.
Dropped_None(u) == {}
Dropped(u) == access \cap {<<u, "company">>}

AcceptedStatus == "accepted"

Init ==
    /\ role       = [u \in Users |-> IF u = Founder THEN "admin" ELSE "none"]
    /\ account    = {Founder}
    /\ access     = {}
    /\ invitation = [i \in Invitations |-> [status |-> "none", user |-> Founder, role |-> "client"]]
    /\ locked     = [x \in Rows |-> Nobody]
    /\ req        = [r \in Requests |-> Idle]
    /\ crossed    = {}
    /\ joins      = [i \in Invitations |-> 0]

\* An admin calls one of the routes that require the role.
Authenticate(r) ==
    /\ req[r] = Idle
    /\ \E actor, user \in Users, kind \in {"role", "remove", "invite", "grant", "ungrant"},
          new \in Roles, place \in Places :
          /\ \E u \in Users : role[u] = "admin"
          /\ kind \in Changes => role[actor] = "admin"
          /\ kind \notin Changes => actor = Founder   \* only those two look at who asks
          /\ IF kind = "invite" THEN new \in InvitedRoles ELSE kind # "role" => new = "client"
          /\ kind \notin {"grant", "ungrant"} => place = "company"
          /\ req' = [req EXCEPT ![r] = [Idle EXCEPT !.kind = kind, !.pc = "auth", !.actor = actor,
                                          !.user = user, !.new = new, !.place = place]]
    /\ UNCHANGED <<tables, locked, crossed, joins>>

(***************************************************************************)
(* update_member_role and remove_member.                                   *)
(***************************************************************************)

TakesAdmin(r) == req[r].was = "admin" /\ (req[r].kind = "remove" \/ req[r].new # "admin")

\* _get_membership_or_404, and the refusal to demote or remove oneself.
LoadMember(r) ==
    LET u == req[r].user IN
    /\ At(r, Changes, "auth")
    /\ IF role[u] = "none" \/ (u = req[r].actor /\ (req[r].kind = "remove" \/ req[r].new # "admin"))
       THEN Refuse(r)
       ELSE /\ req' = [req EXCEPT ![r].was = role[u], ![r].actor = Founder, ![r].pc = "loaded"]
            /\ crossed' = crossed
                  \cup (IF Working(Changes) # {} THEN {"admins"} ELSE {})
                  \cup (IF req[r].kind = "remove" /\ \E d \in Working({"grant"}) : req[d].user = u
                        THEN {"grants"} ELSE {})
            /\ UNCHANGED <<tables, locked, joins>>

RequireAnotherAdminRemains(r) ==
    /\ At(r, Changes, "loaded")
    /\ IF TakesAdmin(r) /\ ~AnotherAdmin(req[r].user)
       THEN Refuse(r)
       ELSE Go(r, "checked") /\ UNCHANGED <<tables, locked, crossed, joins>>

\* The UPDATE of the role; a row deleted meanwhile fails the flush.
FlushRole(r) ==
    LET u == req[r].user IN
    /\ At(r, {"role"}, "checked") /\ RowFree(Member(u), r)
    /\ IF role[u] = "none" /\ req[r].was # req[r].new
       THEN Refuse(r)
       ELSE /\ locked' = [locked EXCEPT ![Member(u)] = IF req[r].was # req[r].new THEN r ELSE @]
            /\ Go(r, "held")
            /\ UNCHANGED <<tables, crossed, joins>>

CommitRole(r) ==
    /\ At(r, {"role"}, "held")
    /\ role' = IF req[r].was # req[r].new THEN [role EXCEPT ![req[r].user] = req[r].new] ELSE role
    /\ Finish(r)
    /\ UNCHANGED <<account, access, invitation, crossed, joins>>

\* The two DELETEs of client rows see what is committed by now.
DropAccess(r) ==
    /\ At(r, {"remove"}, "checked")
    /\ req' = [req EXCEPT ![r].drops = Dropped(req[r].user), ![r].pc = "dropped"]
    /\ UNCHANGED <<tables, locked, crossed, joins>>

FlushRemoval(r) ==
    /\ At(r, {"remove"}, "dropped") /\ RowFree(Member(req[r].user), r)
    /\ locked' = [locked EXCEPT ![Member(req[r].user)] = r]
    /\ Go(r, "held")
    /\ UNCHANGED <<tables, crossed, joins>>

CommitRemoval(r) ==
    /\ At(r, {"remove"}, "held")
    /\ role' = [role EXCEPT ![req[r].user] = "none"]
    /\ access' = access \ req[r].drops
    /\ Finish(r)
    /\ UNCHANGED <<account, invitation, crossed, joins>>

(***************************************************************************)
(* Invitations.                                                            *)
(***************************************************************************)

CreateInvitation(r) ==
    /\ At(r, {"invite"}, "auth")
    /\ \E i \in Invitations :
          /\ invitation[i].status = "none"
          /\ invitation' = [invitation EXCEPT ![i] = [status |-> "open", user |-> req[r].user,
                                                      role |-> req[r].new]]
    /\ Finish(r)
    /\ UNCHANGED <<role, account, access, crossed, joins>>

\* accept_invitation is public: whoever has the link.  The probe reads the company only.
AcceptInvitation(r) ==
    /\ req[r] = Idle
    /\ \E i \in Invitations :
          /\ invitation[i].status \notin {"none", "deleted"}
          /\ req' = [req EXCEPT ![r] = [Idle EXCEPT !.kind = "accept", !.pc = "probed", !.inv = i,
                            !.user = invitation[i].user, !.new = invitation[i].role]]
    /\ UNCHANGED <<tables, locked, crossed, joins>>

LockInvitation(r) ==
    LET i == req[r].inv IN
    /\ At(r, {"accept"}, "probed") /\ RowFree(Invited(i), r)
    /\ IF invitation[i].status # "open"
       THEN Refuse(r)
       ELSE /\ locked' = [locked EXCEPT ![Invited(i)] = r]
            /\ Go(r, "locked")
            /\ UNCHANGED <<tables, crossed, joins>>

\* A new account is made of the name and password sent; an existing one must have signed in and
\* not be a member yet.
FindAccount(r) ==
    LET u == req[r].user IN
    /\ At(r, {"accept"}, "locked")
    /\ \/ u \notin account /\ Go(r, "create") /\ UNCHANGED <<tables, locked, crossed, joins>>
       \/ u \in account /\ role[u] = "none" /\ Go(r, "join") /\ UNCHANGED <<tables, locked, crossed, joins>>
       \/ Refuse(r)

\* uq on users.email.
CreateAccount(r) ==
    LET u == req[r].user IN
    /\ At(r, {"accept"}, "create") /\ RowFree(Account(u), r)
    /\ IF u \in account
       THEN Refuse(r)
       ELSE /\ locked' = [locked EXCEPT ![Account(u)] = r]
            /\ Go(r, "join")
            /\ UNCHANGED <<tables, crossed, joins>>

\* The primary key of company_users.
Join(r) ==
    LET u == req[r].user IN
    /\ At(r, {"accept"}, "join") /\ RowFree(Member(u), r)
    /\ IF role[u] # "none"
       THEN Refuse(r)
       ELSE /\ locked' = [locked EXCEPT ![Member(u)] = r]
            /\ Go(r, "held")
            /\ UNCHANGED <<tables, crossed, joins>>

CommitAcceptance(r) ==
    LET u == req[r].user  i == req[r].inv IN
    /\ At(r, {"accept"}, "held")
    /\ role' = [role EXCEPT ![u] = req[r].new]
    /\ account' = account \cup {u}
    /\ invitation' = [invitation EXCEPT ![i].status = IF @ = "deleted" THEN @ ELSE AcceptedStatus]
    /\ joins' = [joins EXCEPT ![i] = @ + 1]
    /\ Finish(r)
    /\ UNCHANGED <<access, crossed>>

\* revoke_invitation tests accepted_at on a row it does not lock ...
LoadInvitation(r) ==
    /\ req[r] = Idle
    /\ \E i \in Invitations :
          /\ \E u \in Users : role[u] = "admin"
          /\ invitation[i].status \in {"open", "expired"}
          /\ req' = [req EXCEPT ![r] = [Idle EXCEPT !.kind = "revoke", !.pc = "loaded", !.inv = i]]
    /\ UNCHANGED <<tables, locked, crossed, joins>>

\* ... and deletes it once an acceptance under way has ended.
CommitRevocation(r) ==
    /\ At(r, {"revoke"}, "loaded") /\ RowFree(Invited(req[r].inv), r)
    /\ invitation' = [invitation EXCEPT ![req[r].inv].status = "deleted"]
    /\ Finish(r)
    /\ UNCHANGED <<role, account, access, crossed, joins>>

Expire(i) ==
    /\ invitation[i].status = "open"
    /\ locked[Invited(i)] = Nobody
    /\ invitation' = [invitation EXCEPT ![i].status = "expired"]
    /\ UNCHANGED <<role, account, access, locked, req, crossed, joins>>

(***************************************************************************)
(* Client access.                                                          *)
(***************************************************************************)

\* _require_client_role_member
RequireClient(r) ==
    LET u == req[r].user IN
    /\ At(r, {"grant"}, "auth")
    /\ IF role[u] # "client"
       THEN Refuse(r)
       ELSE /\ Go(r, "checked")
            /\ crossed' = IF \E d \in Working({"remove"}) : req[d].user = u
                          THEN crossed \cup {"grants"} ELSE crossed
            /\ UNCHANGED <<tables, locked, joins>>

\* The unique key waits for the removal that is deleting the row.
GrantAccess(r) ==
    LET row == <<req[r].user, req[r].place>> IN
    /\ At(r, {"grant"}, "checked")
    /\ \A d \in Requests : row \notin req[d].drops
    /\ access' = access \cup {row}
    /\ Finish(r)
    /\ UNCHANGED <<role, account, invitation, crossed, joins>>

RevokeAccess(r) ==
    /\ At(r, {"ungrant"}, "auth")
    /\ access' = access \ {<<req[r].user, req[r].place>>}
    /\ Finish(r)
    /\ UNCHANGED <<role, account, invitation, crossed, joins>>

\* An error anywhere rolls the transaction back.
Rollback(r) == req[r].pc # "idle" /\ Refuse(r)

Members(r) == Authenticate(r) \/ LoadMember(r) \/ RequireAnotherAdminRemains(r) \/ FlushRole(r)
              \/ CommitRole(r) \/ DropAccess(r) \/ FlushRemoval(r) \/ CommitRemoval(r)
Invites(r) == CreateInvitation(r) \/ AcceptInvitation(r) \/ LockInvitation(r) \/ FindAccount(r)
              \/ CreateAccount(r) \/ Join(r) \/ CommitAcceptance(r) \/ LoadInvitation(r)
              \/ CommitRevocation(r)
Clients(r) == RequireClient(r) \/ GrantAccess(r) \/ RevokeAccess(r)

Next ==
    \/ \E r \in Requests : Members(r) \/ Invites(r) \/ Clients(r) \/ Rollback(r)
    \/ \E i \in Invitations : Expire(i)

Spec == Init /\ [][Next]_vars

-----------------------------------------------------------------------------
\* The tables, locks and requests keep their types, and every member has an account.
TypeOK ==
    /\ role \in [Users -> Roles \cup {"none"}]
    /\ account \subseteq Users
    /\ \A u \in Users : role[u] # "none" => u \in account
    /\ access \subseteq Users \X Places
    /\ \A i \in Invitations :
          /\ invitation[i].status \in {"none", "open", "expired", "accepted", "deleted"}
          /\ invitation[i].user \in Users /\ invitation[i].role \in Roles
    /\ locked \in [Rows -> Requests \cup {Nobody}]
    /\ \A r \in Requests : req[r].pc \in {"idle", "auth", "probed", "loaded", "checked", "dropped",
                                          "locked", "create", "join", "held"}
    /\ crossed \subseteq {"admins", "grants"}

\* companies.py:52-59: a company is never left without an admin (nobody could restore one).
AlwaysAnAdmin == \E u \in Users : role[u] = "admin"

\* It may be only when two changes of members overlapped: each saw the other's target as the
\* admin who remains.
AdminUnlessRace == "admins" \notin crossed => AlwaysAnAdmin

\* An invitation lets its addressee in once, however many acceptances race with each other, with
\* its revocation and with the removal of the member it made.
AdmitsOnce == \A i \in Invitations : joins[i] <= 1

\* companies.py:336-339: who is no longer a member keeps no access to the company's work, so that
\* "a re-invited client" does not "silently regain" it, unless a grant overlapped the removal.
NoStrayAccess ==
    \A u \in Users : <<u, "company">> \in access /\ role[u] = "none" => "grants" \in crossed

\* The same of the work of its branches, which a client of the company can be granted too.
NoStrayBranchAccess == crossed = {} => \A row \in access : role[row[1]] # "none"
=============================================================================
