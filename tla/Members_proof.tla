---------------------------- MODULE Members_proof ----------------------------
(***************************************************************************)
(* Three components, each on its own, for every value of their constants:  *)
(* Members, then Catalogs, then Lists.                                     *)
(***************************************************************************)
EXTENDS Members, Catalogs, Lists,
        FiniteSetTheorems, FunctionTheorems, SequenceTheorems, WellFoundedInduction, TLAPS

-----------------------------------------------------------------------------
(***************************************************************************)
(* Members: an invitation lets one person in, a company keeps an admin and *)
(* nobody keeps the access of a client who is removed, for every number of *)
(* requests, people and invitations.                                       *)
(*                                                                         *)
(* What orders two requests is the wait for a row: a request that has come *)
(* to a commit holds the rows it writes, and found them as it needs them   *)
(* (HoldsRows).  The two checks that no row protects are safe as long as   *)
(* nothing has overlapped them, and crossed says whether it has            *)
(* (AdminSafe, AccessSafe).                                                *)
(***************************************************************************)

Kinds == {"none", "role", "remove", "invite", "grant", "ungrant", "accept", "revoke"}
Steps == {"idle", "auth", "probed", "loaded", "checked", "dropped", "locked", "create", "join", "held"}

RequestTypes ==
    [kind : Kinds, pc : Steps, actor : Users, user : Users, new : Roles, place : {"company", "branch"},
     inv : Invitations \cup {Nobody}, was : Roles \cup {"none"}, drops : SUBSET (Users \X Places)]

InvitationTypes ==
    [status : {"none", "open", "expired", "accepted", "deleted"}, user : Users, role : Roles]

\* What the kind of a request says of the rest.
KindFits(q) ==
    /\ q.kind \in {"accept", "revoke"} => q.inv \in Invitations
    /\ q.kind = "grant" => q.pc \in {"auth", "checked"}
    /\ q.kind = "none" => q.pc = "idle"
    /\ q.place \in Places

Asked == {q \in RequestTypes : KindFits(q)}

\* TypeOK, with the records in full.
Typed ==
    /\ TypeOK
    /\ invitation \in [Invitations -> InvitationTypes]
    /\ req \in [Requests -> Asked]
    /\ joins \in [Invitations -> Nat]

\* Past the lock on its invitation.
Entered(r) == At(r, {"accept"}, "locked") \/ At(r, {"accept"}, "create")
              \/ At(r, {"accept"}, "join") \/ At(r, {"accept"}, "held")

\* The rows r holds, and what it found there.
HoldsRows(r) ==
    /\ Entered(r) => /\ locked[Invited(req[r].inv)] = r
                     /\ invitation[req[r].inv].status = "open"
    /\ At(r, {"accept"}, "held") => locked[Member(req[r].user)] = r /\ role[req[r].user] = "none"
    /\ At(r, {"remove"}, "held") => locked[Member(req[r].user)] = r
    /\ At(r, {"role"}, "held") /\ req[r].was # req[r].new =>
           locked[Member(req[r].user)] = r /\ role[req[r].user] # "none"

\* An invitation has made no member before it is accepted, and one after.
JoinsOnce ==
    \A i \in Invitations :
        /\ joins[i] <= 1
        /\ joins[i] # 0 => invitation[i].status \in {"accepted", "deleted"}

\* A change of a member that nothing overlaps: the role is the one it read, and once it has checked,
\* there is another admin to remain.
ReadsMember(r) ==
    /\ req[r].was \in Roles /\ role[req[r].user] = req[r].was
    /\ req[r].pc # "loaded" /\ TakesAdmin(r) => AnotherAdmin(req[r].user)

AdminSafe ==
    "admins" \notin crossed =>
        /\ AlwaysAnAdmin
        /\ \A r, d \in Working(Changes) : r = d
        /\ \A r \in Working(Changes) : ReadsMember(r)

\* A grant and a removal that do not overlap: the grant is for a member, the removal drops what there is.
GrantsMember(r) ==
    /\ role[req[r].user] # "none"
    /\ \A d \in Working({"remove"}) : req[d].user # req[r].user

DropsAll(r) ==
    req[r].pc \in {"dropped", "held"} /\ <<req[r].user, "company">> \in access =>
        <<req[r].user, "company">> \in req[r].drops

AccessSafe ==
    "grants" \notin crossed =>
        /\ \A u \in Users : <<u, "company">> \in access => role[u] # "none"
        /\ \A r \in Working({"grant"}) : GrantsMember(r)
        /\ \A r \in Working({"remove"}) : DropsAll(r)

\* What every request preserves.
MInv ==
    /\ Typed /\ JoinsOnce /\ AdminSafe /\ AccessSafe
    /\ \A r \in Requests : HoldsRows(r)

-----------------------------------------------------------------------------

LEMMA RowsAreApart ==
    /\ \A u, i : Member(u) # Invited(i) /\ Member(u) # Account(i) /\ Account(u) # Invited(i)
    /\ \A u, v : Member(u) = Member(v) => u = v
    /\ \A u, v : Account(u) = Account(v) => u = v
    /\ \A i, j : Invited(i) = Invited(j) => i = j
  BY DEF Member, Invited, Account

LEMMA RowsAre ==
    /\ \A u \in Users : Member(u) \in Rows /\ Account(u) \in Rows
    /\ \A i \in Invitations : Invited(i) \in Rows
  BY DEF Rows

LEMMA IdleIsAsked == Idle \in Asked
  <1> USE FounderAssumption, PlacesAssumption
  <1>1. Idle \in RequestTypes
    BY DEF Idle, RequestTypes, Kinds, Steps, Roles
  <1> QED
    BY <1>1 DEF Asked, KindFits, Idle

LEMMA InitMInv == Init => MInv
  <1> SUFFICES ASSUME Init PROVE MInv
    OBVIOUS
  <1> USE FounderAssumption, RolesAssumption, PlacesAssumption
  <1>1. Idle \in Asked
    BY IdleIsAsked
  <1>2. Typed
    BY <1>1 DEF Init, Typed, TypeOK, InvitationTypes, Idle, Roles
  <1>3. \A r \in Requests : req[r] = Idle
    BY DEF Init
  <1>4. \A r \in Requests : HoldsRows(r)
    BY <1>3 DEF HoldsRows, Entered, At, Idle
  <1>5. JoinsOnce
    BY DEF Init, JoinsOnce
  <1>6. \A K : Working(K) = {}
    BY <1>3 DEF Working, Idle
  <1>7. AdminSafe /\ AccessSafe
    BY <1>6 DEF Init, AdminSafe, AccessSafe, AlwaysAnAdmin
  <1> QED
    BY <1>2, <1>4, <1>5, <1>7 DEF MInv

\* A step of r alone, as far as the others see it: it writes no membership row but those it holds,
\* and no open invitation another one holds.
StepOf(r) ==
    /\ r \in Requests
    /\ \A d \in Requests : d # r => req'[d] = req[d]
    /\ \A d \in Requests, x \in Rows : d # r /\ locked[x] = d => locked'[x] = d
    /\ \A u \in Users : role'[u] # role[u] => locked[Member(u)] = r
    /\ \A i \in Invitations : invitation'[i].status = invitation[i].status
           \/ invitation[i].status # "open" \/ locked[Invited(i)] \in {Nobody, r}

LEMMA OthersHoldRows ==
    ASSUME MInv, NEW r, StepOf(r), NEW d \in Requests, d # r
    PROVE  HoldsRows(d)'
  <1>1. HoldsRows(d) /\ req'[d] = req[d] /\ req[d] \in RequestTypes /\ req[d].user \in Users /\ d # Nobody
    BY NobodyAssumption DEF MInv, StepOf, Typed, Asked, RequestTypes
  <1>2. PICK u \in Users : u = req[d].user
    BY <1>1
  <1>3. locked[Member(u)] = d => locked'[Member(u)] = d /\ role'[u] = role[u]
    BY RowsAre DEF StepOf
  <1>4. Entered(d) => locked'[Invited(req[d].inv)] = d /\ invitation'[req[d].inv].status = "open"
    <2> HAVE Entered(d)
    <2>1. PICK i \in Invitations : i = req[d].inv
      BY DEF MInv, Typed, Asked, KindFits, Entered, At
    <2>2. locked[Invited(i)] = d /\ invitation[i].status = "open"
      BY <1>1, <2>1 DEF HoldsRows
    <2>3. locked'[Invited(i)] = d /\ invitation'[i].status = "open"
      BY <1>1, <2>2, RowsAre DEF StepOf
    <2> QED
      BY <2>1, <2>3
  <1>5. Entered(d)' = Entered(d)
    BY <1>1 DEF Entered, At
  <1> QED
    BY <1>1, <1>2, <1>3, <1>4, <1>5 DEF HoldsRows, At

\* The end of a request.
LEMMA Finished ==
    ASSUME MInv, NEW r \in Requests, Finish(r)
    PROVE  /\ req' \in [Requests -> Asked] /\ req'[r] = Idle
           /\ \A d \in Requests : d # r => req'[d] = req[d]
           /\ locked' \in [Rows -> Requests \cup {Nobody}]
           /\ \A d \in Requests, x \in Rows : d # r /\ locked[x] = d => locked'[x] = d
           /\ HoldsRows(r)'
  <1>1. Idle \in Asked
    BY IdleIsAsked
  <1>2. req' \in [Requests -> Asked] /\ req'[r] = Idle /\ \A d \in Requests : d # r => req'[d] = req[d]
    BY <1>1 DEF Finish, MInv, Typed
  <1>3. /\ locked' \in [Rows -> Requests \cup {Nobody}]
        /\ \A d \in Requests, x \in Rows : d # r /\ locked[x] = d => locked'[x] = d
    BY DEF Finish, Unlocked, MInv, Typed, TypeOK
  <1>4. HoldsRows(r)'
    BY <1>2 DEF HoldsRows, Entered, At, Idle
  <1> QED
    BY <1>2, <1>3, <1>4

\* The checks of AdminSafe outlast a step that changes no role and brings no change of a member on its way.
LEMMA KeepsAdmin ==
    ASSUME MInv, role' = role, crossed \subseteq crossed',
           \A d \in Requests : d \in Working(Changes)' =>
               /\ d \in Working(Changes)
               /\ req'[d].user = req[d].user /\ req'[d].was = req[d].was
               /\ req'[d].new = req[d].new /\ req'[d].kind = req[d].kind
               /\ req[d].pc = "loaded" => req'[d].pc = "loaded"
    PROVE  AdminSafe'
  <1> SUFFICES ASSUME "admins" \notin crossed' PROVE AlwaysAnAdmin' /\ (\A r, d \in Working(Changes) : r = d)'
                                                     /\ (\A r \in Working(Changes) : ReadsMember(r))'
    BY DEF AdminSafe
  <1>1. /\ AlwaysAnAdmin
        /\ \A r, d \in Working(Changes) : r = d
        /\ \A r \in Working(Changes) : ReadsMember(r)
    BY DEF MInv, AdminSafe
  <1>2. \A d \in Working(Changes)' : d \in Requests /\ d \in Working(Changes)
    BY DEF Working
  <1>3. \A d \in Working(Changes)' : ReadsMember(d)'
    BY <1>1, <1>2 DEF ReadsMember, TakesAdmin, AnotherAdmin
  <1> QED
    BY <1>1, <1>2, <1>3 DEF AlwaysAnAdmin

\* The same of AccessSafe, for a step that takes no member away and adds no access.
LEMMA KeepsAccess ==
    ASSUME MInv, crossed \subseteq crossed', access' \subseteq access,
           \A u \in Users : role[u] # "none" => role'[u] # "none",
           \A d \in Requests : d \in Working({"grant"})' => d \in Working({"grant"}) /\ req'[d].user = req[d].user,
           \A d \in Requests : d \in Working({"remove"})' =>
               /\ d \in Working({"remove"}) /\ req'[d].user = req[d].user
               /\ req'[d].pc \in {"dropped", "held"} =>
                      req[d].pc \in {"dropped", "held"} /\ req'[d].drops = req[d].drops
    PROVE  AccessSafe'
  <1> SUFFICES ASSUME "grants" \notin crossed'
               PROVE  /\ \A u \in Users : <<u, "company">> \in access' => role'[u] # "none"
                      /\ \A r \in Working({"grant"})' : GrantsMember(r)'
                      /\ \A r \in Working({"remove"})' : DropsAll(r)'
    BY DEF AccessSafe
  <1>1. /\ \A u \in Users : <<u, "company">> \in access => role[u] # "none"
        /\ \A r \in Working({"grant"}) : GrantsMember(r)
        /\ \A r \in Working({"remove"}) : DropsAll(r)
    BY DEF MInv, AccessSafe
  <1>2. \A K : \A d \in Working(K)' : d \in Requests
    BY DEF Working
  <1>3. \A r \in Requests : req[r].user \in Users
    BY DEF MInv, Typed, Asked, RequestTypes
  <1>4. ASSUME NEW r \in Working({"grant"})' PROVE GrantsMember(r)'
    BY <1>1, <1>2, <1>3 DEF GrantsMember
  <1>5. ASSUME NEW r \in Working({"remove"})' PROVE DropsAll(r)'
    BY <1>1, <1>2 DEF DropsAll
  <1> QED
    BY <1>1, <1>4, <1>5

\* A refusal, an error or a rollback.
LEMMA RefusalKeeps ==
    ASSUME MInv, NEW r \in Requests, Refuse(r)
    PROVE  MInv'
  <1>1. Finish(r) /\ UNCHANGED <<role, account, access, invitation, crossed, joins>>
    BY DEF Refuse, tables
  <1>2. /\ req' \in [Requests -> Asked] /\ req'[r] = Idle
        /\ \A d \in Requests : d # r => req'[d] = req[d]
        /\ locked' \in [Rows -> Requests \cup {Nobody}]
        /\ \A d \in Requests, x \in Rows : d # r /\ locked[x] = d => locked'[x] = d
        /\ HoldsRows(r)'
    BY <1>1, Finished
  <1>3. StepOf(r)
    BY <1>1, <1>2 DEF StepOf
  <1>4. Typed'
    BY <1>1, <1>2 DEF MInv, Typed, TypeOK, Asked, RequestTypes, Steps
  <1>5. \A d \in Requests, K \in {Changes, {"grant"}, {"remove"}} :
            d \in Working(K)' => d \in Working(K) /\ req'[d] = req[d]
    BY <1>2 DEF Working, Idle
  <1>6. AdminSafe'
    BY <1>1, <1>5, KeepsAdmin
  <1>7. AccessSafe'
    BY <1>1, <1>5, KeepsAccess
  <1>8. JoinsOnce'
    BY <1>1 DEF MInv, JoinsOnce
  <1> QED
    BY <1>2, <1>3, <1>4, <1>6, <1>7, <1>8, OthersHoldRows DEF MInv

\* A step on the way: no table changes, and what others wait for stays with who holds it.
LEMMA StepKeeps ==
    ASSUME MInv, NEW r \in Requests, NEW q \in Asked, req' = [req EXCEPT ![r] = q],
           UNCHANGED <<tables, joins>>,
           locked' = locked \/ \E x \in Rows : locked[x] \in {Nobody, r} /\ locked' = [locked EXCEPT ![x] = r],
           crossed \subseteq crossed', crossed' \subseteq {"admins", "grants"},
           HoldsRows(r)', AdminSafe', AccessSafe'
    PROVE  MInv'
  <1>1. /\ req' \in [Requests -> Asked] /\ req'[r] = q
        /\ \A d \in Requests : d # r => req'[d] = req[d]
    BY DEF MInv, Typed
  <1>2. /\ locked' \in [Rows -> Requests \cup {Nobody}]
        /\ \A d \in Requests, x \in Rows : d # r /\ locked[x] = d => locked'[x] = d
    BY NobodyAssumption DEF MInv, Typed, TypeOK
  <1>3. UNCHANGED <<role, account, access, invitation, joins>>
    BY DEF tables
  <1>4. StepOf(r)
    BY <1>1, <1>2, <1>3 DEF StepOf
  <1>5. Typed'
    BY <1>1, <1>2, <1>3 DEF MInv, Typed, TypeOK, Asked, RequestTypes, Steps
  <1>6. JoinsOnce'
    BY <1>3 DEF MInv, JoinsOnce
  <1> QED
    BY <1>4, <1>5, <1>6, OthersHoldRows DEF MInv

\* A step on the way of a request that is no change of a member and no grant: nothing is checked.
LEMMA InvitesStepKeeps ==
    ASSUME MInv, NEW r \in Requests, NEW q \in Asked, req' = [req EXCEPT ![r] = q],
           UNCHANGED <<tables, crossed, joins>>,
           locked' = locked \/ \E x \in Rows : locked[x] \in {Nobody, r} /\ locked' = [locked EXCEPT ![x] = r],
           q.kind \notin {"role", "remove", "grant"} \/ q.pc = "auth",
           HoldsRows(r)'
    PROVE  MInv'
  <1>1. /\ req'[r] = q /\ \A d \in Requests : d # r => req'[d] = req[d]
        /\ crossed \subseteq {"admins", "grants"}
    BY DEF MInv, Typed, TypeOK
  <1>2. \A d \in Requests, K \in {Changes, {"grant"}, {"remove"}} :
            d \in Working(K)' => d \in Working(K) /\ req'[d] = req[d]
    BY <1>1 DEF Working, Changes
  <1>3. AdminSafe' /\ AccessSafe'
    BY <1>2, KeepsAdmin, KeepsAccess DEF tables
  <1> QED
    BY <1>1, <1>3, StepKeeps

\* What Go leaves.
LEMMA Goes ==
    ASSUME MInv, NEW r \in Requests, NEW pc \in Steps, Go(r, pc),
           req[r].kind \notin {"none"}, req[r].kind = "grant" => pc = "checked"
    PROVE  \E q \in Asked :
               /\ req' = [req EXCEPT ![r] = q]
               /\ q.pc = pc /\ q.kind = req[r].kind /\ q.user = req[r].user /\ q.new = req[r].new
               /\ q.inv = req[r].inv /\ q.was = req[r].was /\ q.drops = req[r].drops
  <1> DEFINE q == [req[r] EXCEPT !.pc = pc]
  <1>1. req[r] \in Asked
    BY DEF MInv, Typed
  <1>2. /\ q \in RequestTypes
        /\ q.pc = pc /\ q.kind = req[r].kind /\ q.user = req[r].user /\ q.new = req[r].new
        /\ q.inv = req[r].inv /\ q.was = req[r].was /\ q.drops = req[r].drops /\ q.place = req[r].place
    BY <1>1 DEF Asked, RequestTypes
  <1>3. q \in Asked
    BY <1>1, <1>2 DEF Asked, KindFits
  <1>4. req' = [req EXCEPT ![r] = q]
    BY DEF Go
  <1> QED
    BY <1>2, <1>3, <1>4

\* One step of a request about members.
LEMMA MembersKeeps == ASSUME MInv, NEW r \in Requests, Members(r) PROVE MInv'
  <1>0. /\ Typed /\ JoinsOnce /\ AdminSafe /\ AccessSafe /\ HoldsRows(r)
        /\ req[r] \in Asked /\ req[r] \in RequestTypes /\ req[r].user \in Users
        /\ crossed \subseteq {"admins", "grants"}
    BY DEF MInv, Typed, TypeOK, Asked, RequestTypes
  <1>1. CASE Authenticate(r)
    <2>1. PICK actor \in Users, user \in Users, kind \in {"role", "remove", "invite", "grant", "ungrant"},
               new \in Roles, place \in Places :
          /\ \E u \in Users : role[u] = "admin"
          /\ kind \in Changes => role[actor] = "admin"
          /\ kind \notin Changes => actor = Founder
          /\ IF kind = "invite" THEN new \in InvitedRoles ELSE kind # "role" => new = "client"
          /\ kind \notin {"grant", "ungrant"} => place = "company"
          /\ req' = [req EXCEPT ![r] = [Idle EXCEPT !.kind = kind, !.pc = "auth", !.actor = actor,
                                                    !.user = user, !.new = new, !.place = place]]
      BY <1>1, Zenon DEF Authenticate
    <2>2. PICK q : q = [Idle EXCEPT !.kind = kind, !.pc = "auth", !.actor = actor,
                                    !.user = user, !.new = new, !.place = place]
      OBVIOUS
    <2>3. q \in RequestTypes /\ q.kind = kind /\ q.pc = "auth" /\ q.place = place
      BY <2>2, PlacesAssumption DEF Idle, RequestTypes, Kinds, Steps
    <2>4. q \in Asked
      BY <2>3 DEF Asked, KindFits
    <2>5. req'[r] = q
      BY <1>0, <2>1, <2>2 DEF Typed
    <2>6. HoldsRows(r)'
      BY <2>3, <2>5 DEF HoldsRows, Entered, At
    <2> QED
      BY <1>1, <2>1, <2>2, <2>3, <2>4, <2>6, InvitesStepKeeps DEF Authenticate
  <1>2. CASE LoadMember(r)
    <2> DEFINE u == req[r].user
               q == [req[r] EXCEPT !.was = role[u], !.actor = Founder, !.pc = "loaded"]
    <2>1. CASE Refuse(r)
      BY <2>1, RefusalKeeps
    <2>2. CASE ~Refuse(r)
      <3>1. /\ At(r, Changes, "auth") /\ role[u] # "none"
            /\ req' = [req EXCEPT ![r] = q]
            /\ crossed' = crossed
                  \cup (IF Working(Changes) # {} THEN {"admins"} ELSE {})
                  \cup (IF req[r].kind = "remove" /\ \E d \in Working({"grant"}) : req[d].user = u
                        THEN {"grants"} ELSE {})
            /\ UNCHANGED <<tables, locked, joins>>
        BY <1>2, <2>2 DEF LoadMember
      <3>2. role[u] \in Roles
        BY <1>0, <3>1 DEF Typed, TypeOK
      <3>3. /\ q \in RequestTypes /\ q.pc = "loaded" /\ q.was = role[u] /\ q.kind = req[r].kind
            /\ q.user = u /\ q.place = req[r].place
        BY <1>0, <3>2, FounderAssumption DEF RequestTypes, Steps
      <3>4. q \in Asked /\ q.kind \in Changes
        BY <1>0, <3>1, <3>3 DEF Asked, KindFits, At, Changes
      <3>5. req'[r] = q /\ \A d \in Requests : d # r => req'[d] = req[d]
        BY <1>0, <3>1 DEF Typed
      <3> HIDE DEF u, q
      <3>6. HoldsRows(r)'
        BY <3>3, <3>5 DEF HoldsRows, Entered, At
      <3>7. UNCHANGED <<role, access>>
        BY <3>1 DEF tables
      <3>8. \A d \in Working(Changes)' : d = r \/ (d \in Working(Changes) /\ req'[d] = req[d])
        BY <3>5 DEF Working
      <3>9. AdminSafe'
        <4> SUFFICES ASSUME "admins" \notin crossed' PROVE AlwaysAnAdmin' /\ (\A a, b \in Working(Changes)' : a = b)
                                                             /\ (\A d \in Working(Changes)' : ReadsMember(d)')
          BY DEF AdminSafe
        <4>1. Working(Changes) = {} /\ "admins" \notin crossed
          BY <3>1
        <4>2. AlwaysAnAdmin'
          BY <1>0, <3>7, <4>1 DEF AdminSafe, AlwaysAnAdmin
        <4>3. ReadsMember(r)'
          BY <3>2, <3>3, <3>5, <3>7 DEF ReadsMember
        <4> QED
          BY <3>8, <4>1, <4>2, <4>3
      <3>10. AccessSafe'
        <4> SUFFICES ASSUME "grants" \notin crossed'
                     PROVE  /\ \A v \in Users : <<v, "company">> \in access' => role'[v] # "none"
                            /\ \A d \in Working({"grant"})' : GrantsMember(d)'
                            /\ \A d \in Working({"remove"})' : DropsAll(d)'
          BY DEF AccessSafe
        <4>1. /\ \A v \in Users : <<v, "company">> \in access => role[v] # "none"
              /\ \A d \in Working({"grant"}) : GrantsMember(d)
              /\ \A d \in Working({"remove"}) : DropsAll(d)
              /\ req[r].kind = "remove" => \A d \in Working({"grant"}) : req[d].user # u
          BY <1>0, <3>1 DEF AccessSafe
        <4>2. \A d \in Working({"grant"})' : d \in Requests /\ d # r /\ d \in Working({"grant"}) /\ req'[d] = req[d]
          BY <3>4, <3>5 DEF Working, Changes
        <4>3. \A d \in Working({"remove"})' : d \in Requests /\ (d = r \/ (d \in Working({"remove"}) /\ req'[d] = req[d]))
          BY <3>5 DEF Working
        <4>4. r \in Working({"remove"})' => req[r].kind = "remove"
          BY <3>3, <3>5 DEF Working
        <4>5. ASSUME NEW d \in Working({"grant"})' PROVE GrantsMember(d)'
          BY <3>3, <3>5, <3>7, <4>1, <4>2, <4>3, <4>4 DEF GrantsMember, u
        <4>6. ASSUME NEW d \in Working({"remove"})' PROVE DropsAll(d)'
          BY <3>3, <3>5, <3>7, <4>1, <4>3 DEF DropsAll
        <4> QED
          BY <3>7, <4>1, <4>5, <4>6
      <3> QED
        BY <1>0, <3>1, <3>4, <3>6, <3>9, <3>10, StepKeeps
    <2> QED
      BY <2>1, <2>2
  <1>3. CASE RequireAnotherAdminRemains(r)
    <2>1. CASE Refuse(r)
      BY <2>1, RefusalKeeps
    <2>2. CASE ~Refuse(r)
      <3>1. /\ At(r, Changes, "loaded") /\ (TakesAdmin(r) => AnotherAdmin(req[r].user))
            /\ Go(r, "checked") /\ UNCHANGED <<tables, locked, crossed, joins>>
        BY <1>3, <2>2 DEF RequireAnotherAdminRemains
      <3>2. PICK q \in Asked :
               /\ req' = [req EXCEPT ![r] = q]
               /\ q.pc = "checked" /\ q.kind = req[r].kind /\ q.user = req[r].user /\ q.new = req[r].new
               /\ q.inv = req[r].inv /\ q.was = req[r].was /\ q.drops = req[r].drops
        BY <3>1, Goes DEF At, Changes, Steps
      <3>3. req'[r] = q /\ \A d \in Requests : d # r => req'[d] = req[d]
        BY <1>0, <3>2 DEF Typed
      <3>4. HoldsRows(r)'
        BY <3>1, <3>2, <3>3 DEF HoldsRows, Entered, At
      <3>5. UNCHANGED <<role, access>>
        BY <3>1 DEF tables
      <3>6. AdminSafe'
        <4> SUFFICES ASSUME "admins" \notin crossed' PROVE AlwaysAnAdmin' /\ (\A a, b \in Working(Changes)' : a = b)
                                                             /\ (\A d \in Working(Changes)' : ReadsMember(d)')
          BY DEF AdminSafe
        <4>1. /\ AlwaysAnAdmin /\ \A a, b \in Working(Changes) : a = b
              /\ \A d \in Working(Changes) : ReadsMember(d)
          BY <1>0, <3>1 DEF AdminSafe
        <4>2. \A d \in Working(Changes)' : d \in Working(Changes) /\ d = r
          BY <3>1, <3>2, <3>3, <4>1 DEF Working, At
        <4>3. ReadsMember(r)'
          BY <3>1, <3>2, <3>3, <3>5, <4>1 DEF ReadsMember, TakesAdmin, AnotherAdmin, Working, At
        <4>4. AlwaysAnAdmin'
          BY <3>5, <4>1 DEF AlwaysAnAdmin
        <4> QED
          BY <4>2, <4>3, <4>4
      <3>7. AccessSafe'
        <4>1. \A d \in Requests, K \in {{"grant"}, {"remove"}} : d \in Working(K)' =>
                  /\ d \in Working(K) /\ req'[d].user = req[d].user
                  /\ req'[d].pc \in {"dropped", "held"} =>
                         req[d].pc \in {"dropped", "held"} /\ req'[d].drops = req[d].drops
          BY <3>1, <3>2, <3>3 DEF Working, At
        <4> QED
          BY <3>1, <3>5, <4>1, KeepsAccess
      <3> QED
        BY <1>0, <3>1, <3>2, <3>4, <3>6, <3>7, StepKeeps
    <2> QED
      BY <2>1, <2>2
  <1>4. CASE FlushRole(r)
    <2>1. CASE Refuse(r)
      BY <2>1, RefusalKeeps
    <2>2. CASE ~Refuse(r)
      <3>1. PICK u \in Users : u = req[r].user
        BY <1>0
      <3>2. /\ At(r, {"role"}, "checked") /\ RowFree(Member(u), r)
            /\ req[r].was # req[r].new => role[u] # "none"
            /\ locked' = [locked EXCEPT ![Member(u)] = IF req[r].was # req[r].new THEN r ELSE @]
            /\ Go(r, "held") /\ UNCHANGED <<tables, crossed, joins>>
        BY <1>4, <2>2, <3>1 DEF FlushRole
      <3>3. PICK q \in Asked :
               /\ req' = [req EXCEPT ![r] = q]
               /\ q.pc = "held" /\ q.kind = req[r].kind /\ q.user = req[r].user /\ q.new = req[r].new
               /\ q.inv = req[r].inv /\ q.was = req[r].was /\ q.drops = req[r].drops
        BY <3>2, Goes DEF At, Steps
      <3>4. req'[r] = q /\ \A d \in Requests : d # r => req'[d] = req[d]
        BY <1>0, <3>3 DEF Typed
      <3>5. /\ req[r].was # req[r].new => locked' = [locked EXCEPT ![Member(u)] = r] /\ locked'[Member(u)] = r
            /\ req[r].was = req[r].new => locked' = locked
        BY <1>0, <3>2, RowsAre DEF Typed, TypeOK
      <3>6. locked' = locked \/ \E x \in Rows : locked[x] \in {Nobody, r} /\ locked' = [locked EXCEPT ![x] = r]
        BY <3>2, <3>5, RowsAre DEF RowFree
      <3>7. UNCHANGED <<role, access>>
        BY <3>2 DEF tables
      <3>8. HoldsRows(r)'
        BY <3>1, <3>2, <3>3, <3>4, <3>5, <3>7 DEF HoldsRows, Entered, At
      <3>9. \A d \in Requests, K \in {Changes, {"grant"}, {"remove"}} : d \in Working(K)' =>
                /\ d \in Working(K) /\ req'[d].user = req[d].user /\ req'[d].was = req[d].was
                /\ req'[d].new = req[d].new /\ req'[d].kind = req[d].kind
                /\ req[d].pc = "loaded" => req'[d].pc = "loaded"
                /\ d # r => req'[d] = req[d]
        BY <3>2, <3>3, <3>4 DEF Working, At
      <3>10. AdminSafe'
        BY <3>2, <3>7, <3>9, KeepsAdmin
      <3>11. AccessSafe'
        <4>1. r \notin Working({"remove"})'
          BY <3>2, <3>3, <3>4 DEF Working, At
        <4> QED
          BY <3>2, <3>7, <3>9, <4>1, KeepsAccess
      <3> QED
        BY <1>0, <3>2, <3>3, <3>6, <3>8, <3>10, <3>11, StepKeeps
    <2> QED
      BY <2>1, <2>2
  <1>5. CASE CommitRole(r)
    <2>1. PICK u \in Users : u = req[r].user
      BY <1>0
    <2>2. /\ At(r, {"role"}, "held") /\ Finish(r) /\ UNCHANGED <<account, access, invitation, crossed, joins>>
          /\ role' = IF req[r].was # req[r].new THEN [role EXCEPT ![u] = req[r].new] ELSE role
          /\ req[r].new \in Roles
      BY <1>0, <1>5, <2>1 DEF CommitRole, RequestTypes
    <2>3. req[r].was # req[r].new => locked[Member(u)] = r /\ role[u] # "none"
      BY <1>0, <2>1, <2>2 DEF HoldsRows
    <2>4. role \in [Users -> Roles \cup {"none"}] /\ \A v \in Users : role[v] # "none" => v \in account
      BY <1>0 DEF Typed, TypeOK
    <2>5. /\ role' \in [Users -> Roles \cup {"none"}]
          /\ \A v \in Users : v # u => role'[v] = role[v]
          /\ req[r].was # req[r].new => role'[u] = req[r].new
          /\ \A v \in Users : role[v] # "none" <=> role'[v] # "none"
          /\ \A v \in Users : role'[v] # role[v] => locked[Member(v)] = r
      BY <2>2, <2>3, <2>4 DEF Roles
    <2>6. /\ req' \in [Requests -> Asked] /\ req'[r] = Idle
          /\ \A d \in Requests : d # r => req'[d] = req[d]
          /\ locked' \in [Rows -> Requests \cup {Nobody}]
          /\ \A d \in Requests, x \in Rows : d # r /\ locked[x] = d => locked'[x] = d
          /\ HoldsRows(r)'
      BY <2>2, Finished
    <2>7. StepOf(r)
      BY <2>2, <2>5, <2>6 DEF StepOf
    <2>8. Typed'
      BY <1>0, <2>2, <2>4, <2>5, <2>6 DEF Typed, TypeOK, Asked, RequestTypes, Steps
    <2>9. JoinsOnce'
      BY <1>0, <2>2 DEF JoinsOnce
    <2>10. \A d \in Requests, K \in {Changes, {"grant"}, {"remove"}} :
              d \in Working(K)' => d # r /\ d \in Working(K) /\ req'[d] = req[d]
      BY <2>6 DEF Working, Idle
    <2>11. AccessSafe'
      BY <2>2, <2>5, <2>10, KeepsAccess
    <2>12. AdminSafe'
      <3> SUFFICES ASSUME "admins" \notin crossed' PROVE AlwaysAnAdmin' /\ Working(Changes)' = {}
        BY DEF AdminSafe
      <3>1. /\ AlwaysAnAdmin /\ \A a, b \in Working(Changes) : a = b
            /\ ReadsMember(r) /\ r \in Working(Changes)
        BY <1>0, <2>2 DEF AdminSafe, Working, At, Changes
      <3>2. Working(Changes)' = {}
        <4>1. \A d \in Working(Changes)' : d \in Requests
          BY DEF Working
        <4> QED
          BY <2>10, <3>1, <4>1
      <3>3. AlwaysAnAdmin'
        <4>1. CASE req[r].was = req[r].new
          BY <2>2, <3>1, <4>1 DEF AlwaysAnAdmin
        <4>2. CASE req[r].was # req[r].new /\ req[r].new = "admin"
          BY <2>5, <4>2 DEF AlwaysAnAdmin
        <4>3. CASE req[r].was = "admin" /\ req[r].new # "admin"
          <5>1. AnotherAdmin(req[r].user)
            BY <2>2, <3>1, <4>3 DEF ReadsMember, TakesAdmin, At
          <5> QED
            BY <2>1, <2>5, <5>1 DEF AnotherAdmin, AlwaysAnAdmin
        <4>4. CASE req[r].was # "admin" /\ req[r].new # "admin"
          <5>1. role[u] # "admin"
            BY <2>1, <3>1, <4>4 DEF ReadsMember
          <5> QED
            BY <2>5, <3>1, <5>1 DEF AlwaysAnAdmin
        <4> QED
          BY <4>1, <4>2, <4>3, <4>4
      <3> QED
        BY <3>2, <3>3
    <2> QED
      BY <2>6, <2>7, <2>8, <2>9, <2>11, <2>12, OthersHoldRows DEF MInv
  <1>6. CASE DropAccess(r)
    <2> DEFINE q == [req[r] EXCEPT !.drops = Dropped(req[r].user), !.pc = "dropped"]
    <2>1. /\ At(r, {"remove"}, "checked") /\ req' = [req EXCEPT ![r] = q]
          /\ UNCHANGED <<tables, locked, crossed, joins>>
      BY <1>6 DEF DropAccess
    <2>2. Dropped(req[r].user) \subseteq Users \X Places
      BY <1>0 DEF Dropped, Typed, TypeOK
    <2>3. Dropped(req[r].user) \in SUBSET (Users \X Places)
      BY <2>2
    <2>4. /\ q \in RequestTypes /\ q.pc = "dropped" /\ q.kind = req[r].kind /\ q.user = req[r].user
          /\ q.new = req[r].new /\ q.was = req[r].was /\ q.place = req[r].place
          /\ q.drops = Dropped(req[r].user)
      BY <1>0, <2>3 DEF RequestTypes, Steps
    <2>5. q \in Asked
      BY <1>0, <2>1, <2>4 DEF Asked, KindFits, At
    <2>6. req'[r] = q /\ \A d \in Requests : d # r => req'[d] = req[d]
      BY <1>0, <2>1 DEF Typed
    <2> HIDE DEF q
    <2>7. HoldsRows(r)'
      BY <2>1, <2>4, <2>6 DEF HoldsRows, Entered, At
    <2>8. UNCHANGED <<role, access>>
      BY <2>1 DEF tables
    <2>9. \A d \in Requests, K \in {Changes, {"grant"}, {"remove"}} : d \in Working(K)' =>
              /\ d \in Working(K) /\ req'[d].user = req[d].user /\ req'[d].was = req[d].was
              /\ req'[d].new = req[d].new /\ req'[d].kind = req[d].kind
              /\ req[d].pc = "loaded" => req'[d].pc = "loaded"
              /\ d # r => req'[d] = req[d]
      BY <2>1, <2>4, <2>6 DEF Working, At
    <2>10. AdminSafe'
      BY <2>1, <2>8, <2>9, KeepsAdmin
    <2>11. AccessSafe'
      <3> SUFFICES ASSUME "grants" \notin crossed'
                   PROVE  /\ \A v \in Users : <<v, "company">> \in access' => role'[v] # "none"
                          /\ \A d \in Working({"grant"})' : GrantsMember(d)'
                          /\ \A d \in Working({"remove"})' : DropsAll(d)'
        BY DEF AccessSafe
      <3>1. /\ \A v \in Users : <<v, "company">> \in access => role[v] # "none"
            /\ \A d \in Working({"grant"}) : GrantsMember(d)
            /\ \A d \in Working({"remove"}) : DropsAll(d)
        BY <1>0, <2>1 DEF AccessSafe
      <3>2. \A K : \A d \in Working(K)' : d \in Requests
        BY DEF Working
      <3>3. ASSUME NEW d \in Working({"grant"})' PROVE GrantsMember(d)'
        BY <2>8, <2>9, <3>1, <3>2 DEF GrantsMember
      <3>4. ASSUME NEW d \in Working({"remove"})' PROVE DropsAll(d)'
        <4>1. CASE d = r
          BY <2>4, <2>6, <2>8, <4>1 DEF DropsAll, Dropped
        <4>2. CASE d # r
          BY <2>8, <2>9, <3>1, <3>2, <4>2 DEF DropsAll
        <4> QED
          BY <4>1, <4>2
      <3> QED
        BY <2>8, <3>1, <3>3, <3>4
    <2> QED
      BY <1>0, <2>1, <2>5, <2>7, <2>10, <2>11, StepKeeps
  <1>7. CASE FlushRemoval(r)
    <2>1. PICK u \in Users : u = req[r].user
      BY <1>0
    <2>2. /\ At(r, {"remove"}, "dropped") /\ RowFree(Member(u), r)
          /\ locked' = [locked EXCEPT ![Member(u)] = r]
          /\ Go(r, "held") /\ UNCHANGED <<tables, crossed, joins>>
      BY <1>7, <2>1 DEF FlushRemoval
    <2>3. PICK q \in Asked :
             /\ req' = [req EXCEPT ![r] = q]
             /\ q.pc = "held" /\ q.kind = req[r].kind /\ q.user = req[r].user /\ q.new = req[r].new
             /\ q.inv = req[r].inv /\ q.was = req[r].was /\ q.drops = req[r].drops
      BY <2>2, Goes DEF At, Steps
    <2>4. req'[r] = q /\ \A d \in Requests : d # r => req'[d] = req[d]
      BY <1>0, <2>3 DEF Typed
    <2>5. locked'[Member(u)] = r /\ \E x \in Rows : locked[x] \in {Nobody, r} /\ locked' = [locked EXCEPT ![x] = r]
      BY <1>0, <2>2, RowsAre DEF RowFree, Typed, TypeOK
    <2>6. HoldsRows(r)'
      BY <2>1, <2>2, <2>3, <2>4, <2>5 DEF HoldsRows, Entered, At
    <2>7. UNCHANGED <<role, access>>
      BY <2>2 DEF tables
    <2>8. \A d \in Requests, K \in {Changes, {"grant"}, {"remove"}} : d \in Working(K)' =>
              /\ d \in Working(K) /\ req'[d].user = req[d].user /\ req'[d].was = req[d].was
              /\ req'[d].new = req[d].new /\ req'[d].kind = req[d].kind
              /\ req[d].pc = "loaded" => req'[d].pc = "loaded"
              /\ req'[d].pc \in {"dropped", "held"} =>
                     req[d].pc \in {"dropped", "held"} /\ req'[d].drops = req[d].drops
      BY <2>2, <2>3, <2>4 DEF Working, At
    <2>9. AdminSafe'
      BY <2>2, <2>7, <2>8, KeepsAdmin
    <2>10. AccessSafe'
      BY <2>2, <2>7, <2>8, KeepsAccess
    <2> QED
      BY <1>0, <2>2, <2>3, <2>5, <2>6, <2>9, <2>10, StepKeeps
  <1>8. CASE CommitRemoval(r)
    <2>1. PICK u \in Users : u = req[r].user
      BY <1>0
    <2>2. /\ At(r, {"remove"}, "held") /\ Finish(r) /\ UNCHANGED <<account, invitation, crossed, joins>>
          /\ role' = [role EXCEPT ![u] = "none"] /\ access' = access \ req[r].drops
      BY <1>8, <2>1 DEF CommitRemoval
    <2>3. locked[Member(u)] = r
      BY <1>0, <2>1, <2>2 DEF HoldsRows
    <2>4. role \in [Users -> Roles \cup {"none"}] /\ \A v \in Users : role[v] # "none" => v \in account
      BY <1>0 DEF Typed, TypeOK
    <2>5. /\ role' \in [Users -> Roles \cup {"none"}]
          /\ role'[u] = "none" /\ \A v \in Users : v # u => role'[v] = role[v]
          /\ \A v \in Users : role'[v] # role[v] => locked[Member(v)] = r
          /\ \A v \in Users : role'[v] # "none" => role'[v] = role[v]
      BY <2>2, <2>3, <2>4
    <2>6. /\ req' \in [Requests -> Asked] /\ req'[r] = Idle
          /\ \A d \in Requests : d # r => req'[d] = req[d]
          /\ locked' \in [Rows -> Requests \cup {Nobody}]
          /\ \A d \in Requests, x \in Rows : d # r /\ locked[x] = d => locked'[x] = d
          /\ HoldsRows(r)'
      BY <2>2, Finished
    <2>7. StepOf(r)
      BY <2>2, <2>5, <2>6 DEF StepOf
    <2>8. Typed'
      BY <1>0, <2>2, <2>4, <2>5, <2>6 DEF Typed, TypeOK, Asked, RequestTypes, Steps
    <2>9. JoinsOnce'
      BY <1>0, <2>2 DEF JoinsOnce
    <2>10. \A d \in Requests, K \in {Changes, {"grant"}, {"remove"}} :
              d \in Working(K)' => d # r /\ d \in Working(K) /\ req'[d] = req[d]
      BY <2>6 DEF Working, Idle
    <2>11. \A K : \A d \in Working(K)' : d \in Requests
      BY DEF Working
    <2>12. AdminSafe'
      <3> SUFFICES ASSUME "admins" \notin crossed' PROVE AlwaysAnAdmin' /\ Working(Changes)' = {}
        BY DEF AdminSafe
      <3>1. /\ AlwaysAnAdmin /\ \A a, b \in Working(Changes) : a = b
            /\ ReadsMember(r) /\ r \in Working(Changes)
        BY <1>0, <2>2 DEF AdminSafe, Working, At, Changes
      <3>2. Working(Changes)' = {}
        BY <2>10, <2>11, <3>1
      <3>3. AlwaysAnAdmin'
        <4>1. CASE req[r].was = "admin"
          <5>1. AnotherAdmin(req[r].user)
            BY <2>2, <3>1, <4>1 DEF ReadsMember, TakesAdmin, At
          <5> QED
            BY <2>1, <2>5, <5>1 DEF AnotherAdmin, AlwaysAnAdmin
        <4>2. CASE req[r].was # "admin"
          <5>1. role[u] # "admin"
            BY <2>1, <3>1, <4>2 DEF ReadsMember
          <5> QED
            BY <2>5, <3>1, <5>1 DEF AlwaysAnAdmin
        <4> QED
          BY <4>1, <4>2
      <3> QED
        BY <3>2, <3>3
    <2>13. AccessSafe'
      <3> SUFFICES ASSUME "grants" \notin crossed'
                   PROVE  /\ \A v \in Users : <<v, "company">> \in access' => role'[v] # "none"
                          /\ \A d \in Working({"grant"})' : GrantsMember(d)'
                          /\ \A d \in Working({"remove"})' : DropsAll(d)'
        BY DEF AccessSafe
      <3>1. /\ \A v \in Users : <<v, "company">> \in access => role[v] # "none"
            /\ \A d \in Working({"grant"}) : GrantsMember(d)
            /\ \A d \in Working({"remove"}) : DropsAll(d)
            /\ r \in Working({"remove"})
        BY <1>0, <2>2 DEF AccessSafe, Working, At
      <3>2. ASSUME NEW v \in Users, <<v, "company">> \in access' PROVE role'[v] # "none"
        <4>1. v # u
          BY <2>1, <2>2, <3>1, <3>2 DEF DropsAll, At
        <4> QED
          BY <2>2, <2>5, <3>1, <3>2, <4>1
      <3>3. ASSUME NEW d \in Working({"grant"})' PROVE GrantsMember(d)'
        <4>1. d \in Working({"grant"}) /\ req'[d] = req[d] /\ d \in Requests /\ req[d].user \in Users
          BY <1>0, <2>10, <2>11 DEF Typed, Asked, RequestTypes
        <4>2. req[d].user # u
          BY <2>1, <3>1, <4>1 DEF GrantsMember
        <4> QED
          BY <2>5, <2>10, <2>11, <3>1, <4>1, <4>2 DEF GrantsMember
      <3>4. ASSUME NEW d \in Working({"remove"})' PROVE DropsAll(d)'
        BY <2>2, <2>10, <2>11, <3>1 DEF DropsAll
      <3> QED
        BY <3>2, <3>3, <3>4
    <2> QED
      BY <2>6, <2>7, <2>8, <2>9, <2>12, <2>13, OthersHoldRows DEF MInv
  <1> QED
    BY <1>1, <1>2, <1>3, <1>4, <1>5, <1>6, <1>7, <1>8 DEF Members

\* What a commit of another kind than a change of a member or a grant leaves of the checks.
LEMMA OthersWork ==
    ASSUME NEW r \in Requests, req'[r] = Idle, \A d \in Requests : d # r => req'[d] = req[d]
    PROVE  \A d \in Requests, K \in {Changes, {"grant"}, {"remove"}} :
               d \in Working(K)' => d # r /\ d \in Working(K) /\ req'[d] = req[d]
  BY DEF Working, Idle

\* One step of a request about an invitation.
LEMMA InvitesKeeps == ASSUME MInv, NEW r \in Requests, Invites(r) PROVE MInv'
  <1>0. /\ Typed /\ JoinsOnce /\ AdminSafe /\ AccessSafe /\ HoldsRows(r)
        /\ req[r] \in Asked /\ req[r] \in RequestTypes /\ req[r].user \in Users
        /\ crossed \subseteq {"admins", "grants"}
        /\ req[r].kind = "accept" => req[r].inv \in Invitations
    BY DEF MInv, Typed, TypeOK, Asked, RequestTypes, KindFits
  <1>1. CASE CreateInvitation(r)
    <2>1. PICK i \in Invitations :
              /\ invitation[i].status = "none"
              /\ invitation' = [invitation EXCEPT ![i] = [status |-> "open", user |-> req[r].user, role |-> req[r].new]]
      BY <1>1 DEF CreateInvitation
    <2>2. Finish(r) /\ UNCHANGED <<role, account, access, crossed, joins>>
      BY <1>1 DEF CreateInvitation
    <2>3. invitation' \in [Invitations -> InvitationTypes] /\ \A j \in Invitations : j # i => invitation'[j] = invitation[j]
      <3>1. [status |-> "open", user |-> req[r].user, role |-> req[r].new] \in InvitationTypes
        BY <1>0 DEF RequestTypes, InvitationTypes
      <3> QED
        BY <1>0, <2>1, <3>1 DEF Typed
    <2>4. /\ req' \in [Requests -> Asked] /\ req'[r] = Idle
          /\ \A d \in Requests : d # r => req'[d] = req[d]
          /\ locked' \in [Rows -> Requests \cup {Nobody}]
          /\ \A d \in Requests, x \in Rows : d # r /\ locked[x] = d => locked'[x] = d
          /\ HoldsRows(r)'
      BY <2>2, Finished
    <2>5. StepOf(r)
      BY <2>1, <2>2, <2>3, <2>4 DEF StepOf
    <2>6. Typed'
      BY <1>0, <2>2, <2>3, <2>4 DEF Typed, TypeOK, Asked, RequestTypes, InvitationTypes, Steps
    <2>7. JoinsOnce'
      BY <1>0, <2>1, <2>2, <2>3 DEF JoinsOnce
    <2>8. AdminSafe' /\ AccessSafe'
      BY <2>2, <2>4, OthersWork, KeepsAdmin, KeepsAccess
    <2> QED
      BY <2>4, <2>5, <2>6, <2>7, <2>8, OthersHoldRows DEF MInv
  <1>2. CASE AcceptInvitation(r)
    <2>1. PICK i \in Invitations :
              req' = [req EXCEPT ![r] = [Idle EXCEPT !.kind = "accept", !.pc = "probed", !.inv = i,
                            !.user = invitation[i].user, !.new = invitation[i].role]]
      BY <1>2 DEF AcceptInvitation
    <2>2. PICK q : q = [Idle EXCEPT !.kind = "accept", !.pc = "probed", !.inv = i,
                                    !.user = invitation[i].user, !.new = invitation[i].role]
      OBVIOUS
    <2>3. invitation[i].user \in Users /\ invitation[i].role \in Roles
      BY <1>0 DEF Typed, TypeOK
    <2>4. q \in RequestTypes /\ q.kind = "accept" /\ q.pc = "probed" /\ q.inv = i /\ q.place = "company"
      BY <2>2, <2>3, FounderAssumption DEF Idle, RequestTypes, Kinds, Steps
    <2>5. q \in Asked
      BY <2>4, PlacesAssumption DEF Asked, KindFits
    <2>6. req'[r] = q
      BY <1>0, <2>1, <2>2 DEF Typed
    <2>7. HoldsRows(r)'
      BY <2>4, <2>6 DEF HoldsRows, Entered, At
    <2> QED
      BY <1>2, <2>1, <2>2, <2>4, <2>5, <2>7, InvitesStepKeeps DEF AcceptInvitation
  <1>3. CASE LockInvitation(r)
    <2>1. CASE Refuse(r)
      BY <2>1, RefusalKeeps
    <2>2. CASE ~Refuse(r)
      <3>1. PICK i : i = req[r].inv
        OBVIOUS
      <3>2. /\ At(r, {"accept"}, "probed") /\ RowFree(Invited(i), r) /\ invitation[i].status = "open"
            /\ locked' = [locked EXCEPT ![Invited(i)] = r] /\ Go(r, "locked")
            /\ UNCHANGED <<tables, crossed, joins>> /\ i \in Invitations
        BY <1>0, <1>3, <2>2, <3>1 DEF LockInvitation, At
      <3>3. PICK q \in Asked :
               /\ req' = [req EXCEPT ![r] = q]
               /\ q.pc = "locked" /\ q.kind = req[r].kind /\ q.user = req[r].user /\ q.new = req[r].new
               /\ q.inv = req[r].inv /\ q.was = req[r].was /\ q.drops = req[r].drops
        BY <3>2, Goes DEF At, Steps
      <3>4. req'[r] = q
        BY <1>0, <3>3 DEF Typed
      <3>5. locked'[Invited(i)] = r /\ \E x \in Rows : locked[x] \in {Nobody, r} /\ locked' = [locked EXCEPT ![x] = r]
        BY <1>0, <3>2, RowsAre DEF RowFree, Typed, TypeOK
      <3>6. HoldsRows(r)'
        BY <3>1, <3>2, <3>3, <3>4, <3>5 DEF HoldsRows, Entered, At, tables
      <3> QED
        BY <3>2, <3>3, <3>5, <3>6, InvitesStepKeeps DEF At
    <2> QED
      BY <2>1, <2>2
  <1>4. CASE FindAccount(r)
    <2>1. CASE Refuse(r)
      BY <2>1, RefusalKeeps
    <2>2. CASE ~Refuse(r)
      <3>1. PICK pc \in {"create", "join"} :
               At(r, {"accept"}, "locked") /\ Go(r, pc) /\ UNCHANGED <<tables, locked, crossed, joins>>
        BY <1>4, <2>2 DEF FindAccount
      <3>2. PICK q \in Asked :
               /\ req' = [req EXCEPT ![r] = q]
               /\ q.pc = pc /\ q.kind = req[r].kind /\ q.user = req[r].user /\ q.new = req[r].new
               /\ q.inv = req[r].inv /\ q.was = req[r].was /\ q.drops = req[r].drops
        BY <3>1, Goes DEF At, Steps
      <3>3. req'[r] = q
        BY <1>0, <3>2 DEF Typed
      <3>4. HoldsRows(r)'
        BY <1>0, <3>1, <3>2, <3>3 DEF HoldsRows, Entered, At, tables
      <3> QED
        BY <3>1, <3>2, <3>4, InvitesStepKeeps DEF At
    <2> QED
      BY <2>1, <2>2
  <1>5. CASE CreateAccount(r)
    <2>1. CASE Refuse(r)
      BY <2>1, RefusalKeeps
    <2>2. CASE ~Refuse(r)
      <3>1. PICK u \in Users : u = req[r].user
        BY <1>0
      <3>2. /\ At(r, {"accept"}, "create") /\ RowFree(Account(u), r)
            /\ locked' = [locked EXCEPT ![Account(u)] = r] /\ Go(r, "join")
            /\ UNCHANGED <<tables, crossed, joins>>
        BY <1>5, <2>2, <3>1 DEF CreateAccount
      <3>3. PICK q \in Asked :
               /\ req' = [req EXCEPT ![r] = q]
               /\ q.pc = "join" /\ q.kind = req[r].kind /\ q.user = req[r].user /\ q.new = req[r].new
               /\ q.inv = req[r].inv /\ q.was = req[r].was /\ q.drops = req[r].drops
        BY <3>2, Goes DEF At, Steps
      <3>4. req'[r] = q
        BY <1>0, <3>3 DEF Typed
      <3>5. \E x \in Rows : locked[x] \in {Nobody, r} /\ locked' = [locked EXCEPT ![x] = r]
        BY <3>2, RowsAre DEF RowFree
      <3>6. HoldsRows(r)'
        <4>1. PICK i \in Invitations : i = req[r].inv
          BY <1>0, <3>2 DEF At
        <4>2. locked[Invited(i)] = r /\ invitation[i].status = "open"
          BY <1>0, <3>2, <4>1 DEF HoldsRows, Entered, At
        <4>3. locked'[Invited(i)] = r
          BY <1>0, <3>2, <4>2, RowsAre, RowsAreApart DEF Typed, TypeOK
        <4> QED
          BY <3>2, <3>3, <3>4, <4>1, <4>2, <4>3 DEF HoldsRows, Entered, At, tables
      <3> QED
        BY <3>2, <3>3, <3>5, <3>6, InvitesStepKeeps DEF At
    <2> QED
      BY <2>1, <2>2
  <1>6. CASE Join(r)
    <2>1. CASE Refuse(r)
      BY <2>1, RefusalKeeps
    <2>2. CASE ~Refuse(r)
      <3>1. PICK u \in Users : u = req[r].user
        BY <1>0
      <3>2. /\ At(r, {"accept"}, "join") /\ RowFree(Member(u), r) /\ role[u] = "none"
            /\ locked' = [locked EXCEPT ![Member(u)] = r] /\ Go(r, "held")
            /\ UNCHANGED <<tables, crossed, joins>>
        BY <1>6, <2>2, <3>1 DEF Join
      <3>3. PICK q \in Asked :
               /\ req' = [req EXCEPT ![r] = q]
               /\ q.pc = "held" /\ q.kind = req[r].kind /\ q.user = req[r].user /\ q.new = req[r].new
               /\ q.inv = req[r].inv /\ q.was = req[r].was /\ q.drops = req[r].drops
        BY <3>2, Goes DEF At, Steps
      <3>4. req'[r] = q
        BY <1>0, <3>3 DEF Typed
      <3>5. /\ \E x \in Rows : locked[x] \in {Nobody, r} /\ locked' = [locked EXCEPT ![x] = r]
            /\ locked'[Member(u)] = r
        BY <1>0, <3>2, RowsAre DEF RowFree, Typed, TypeOK
      <3>6. HoldsRows(r)'
        <4>1. PICK i \in Invitations : i = req[r].inv
          BY <1>0, <3>2 DEF At
        <4>2. locked[Invited(i)] = r /\ invitation[i].status = "open"
          BY <1>0, <3>2, <4>1 DEF HoldsRows, Entered, At
        <4>3. locked'[Invited(i)] = r
          BY <1>0, <3>2, <4>2, RowsAre, RowsAreApart DEF Typed, TypeOK
        <4> QED
          BY <3>1, <3>2, <3>3, <3>4, <3>5, <4>1, <4>2, <4>3 DEF HoldsRows, Entered, At, tables
      <3> QED
        BY <3>2, <3>3, <3>5, <3>6, InvitesStepKeeps DEF At
    <2> QED
      BY <2>1, <2>2
  \* The lock on the invitation is what lets it in once: it is open for the one who holds it.
  <1>7. CASE CommitAcceptance(r)
    <2>1. PICK u \in Users, i \in Invitations : u = req[r].user /\ i = req[r].inv
      BY <1>0, <1>7 DEF CommitAcceptance, At
    <2>2. /\ At(r, {"accept"}, "held") /\ Finish(r) /\ UNCHANGED <<access, crossed>>
          /\ role' = [role EXCEPT ![u] = req[r].new] /\ account' = account \cup {u}
          /\ invitation' = [invitation EXCEPT ![i].status = IF @ = "deleted" THEN @ ELSE AcceptedStatus]
          /\ joins' = [joins EXCEPT ![i] = @ + 1]
      BY <1>7, <2>1 DEF CommitAcceptance
    <2>3. locked[Invited(i)] = r /\ invitation[i].status = "open" /\ locked[Member(u)] = r /\ role[u] = "none"
      BY <1>0, <2>1, <2>2 DEF HoldsRows, Entered, At
    <2>4. /\ role \in [Users -> Roles \cup {"none"}] /\ \A v \in Users : role[v] # "none" => v \in account
          /\ account \subseteq Users /\ req[r].new \in Roles
      BY <1>0 DEF Typed, TypeOK, RequestTypes
    <2>5. /\ role' \in [Users -> Roles \cup {"none"}]
          /\ role'[u] = req[r].new /\ \A v \in Users : v # u => role'[v] = role[v]
          /\ \A v \in Users : role'[v] # role[v] => locked[Member(v)] = r
          /\ \A v \in Users : role[v] # "none" => role'[v] = role[v]
      BY <2>2, <2>3, <2>4
    <2>6. /\ invitation' \in [Invitations -> InvitationTypes] /\ invitation'[i].status = "accepted"
          /\ \A j \in Invitations : j # i => invitation'[j] = invitation[j]
      <3>1. invitation' = [invitation EXCEPT ![i] = [invitation[i] EXCEPT !.status = "accepted"]]
        BY <2>2, <2>3 DEF AcceptedStatus
      <3>2. invitation[i] \in InvitationTypes
        BY <1>0 DEF Typed
      <3>3. [invitation[i] EXCEPT !.status = "accepted"] \in InvitationTypes
        BY <3>2 DEF InvitationTypes
      <3> QED
        BY <1>0, <3>1, <3>2, <3>3 DEF Typed, InvitationTypes
    <2>7. joins' \in [Invitations -> Nat] /\ joins'[i] = 1 /\ \A j \in Invitations : j # i => joins'[j] = joins[j]
      <3>1. joins \in [Invitations -> Nat] /\ joins[i] = 0
        BY <1>0, <2>3 DEF Typed, JoinsOnce
      <3> QED
        BY <2>2, <3>1
    <2>8. /\ req' \in [Requests -> Asked] /\ req'[r] = Idle
          /\ \A d \in Requests : d # r => req'[d] = req[d]
          /\ locked' \in [Rows -> Requests \cup {Nobody}]
          /\ \A d \in Requests, x \in Rows : d # r /\ locked[x] = d => locked'[x] = d
          /\ HoldsRows(r)'
      BY <2>2, Finished
    <2>9. StepOf(r)
      BY <2>3, <2>5, <2>6, <2>8 DEF StepOf
    <2>10. Typed'
      <3>1. \A v \in Users : role'[v] # "none" => v \in account'
        BY <2>2, <2>4, <2>5
      <3> QED
        BY <1>0, <2>2, <2>4, <2>5, <2>6, <2>7, <2>8, <3>1 DEF Typed, TypeOK, Asked, RequestTypes, InvitationTypes, Steps
    <2>11. JoinsOnce'
      BY <1>0, <2>6, <2>7 DEF JoinsOnce
    <2>12. \A d \in Requests, K \in {Changes, {"grant"}, {"remove"}} :
               d \in Working(K)' => d # r /\ d \in Working(K) /\ req'[d] = req[d]
      BY <2>8, OthersWork
    <2>13. AccessSafe'
      BY <2>2, <2>4, <2>5, <2>12, KeepsAccess
    <2>14. AdminSafe'
      <3> SUFFICES ASSUME "admins" \notin crossed' PROVE AlwaysAnAdmin' /\ (\A a, b \in Working(Changes)' : a = b)
                                                           /\ (\A d \in Working(Changes)' : ReadsMember(d)')
        BY DEF AdminSafe
      <3>1. /\ AlwaysAnAdmin /\ \A a, b \in Working(Changes) : a = b
            /\ \A d \in Working(Changes) : ReadsMember(d)
        BY <1>0, <2>2 DEF AdminSafe
      <3>2. AlwaysAnAdmin'
        BY <2>5, <3>1 DEF AlwaysAnAdmin
      <3>3. \A d \in Working(Changes)' : d \in Working(Changes) /\ req'[d] = req[d] /\ d \in Requests
        BY <2>12 DEF Working
      <3>4. ASSUME NEW d \in Working(Changes)' PROVE ReadsMember(d)'
        <4>1. PICK v \in Users : v = req[d].user
          BY <1>0, <3>3 DEF Typed, Asked, RequestTypes
        <4>2. /\ req[d].was \in Roles /\ role[v] = req[d].was
              /\ req[d].pc # "loaded" /\ TakesAdmin(d) => AnotherAdmin(v)
          BY <3>1, <3>3, <4>1 DEF ReadsMember
        <4>3. role'[v] = req[d].was
          BY <2>5, <4>2 DEF Roles
        <4>4. AnotherAdmin(v) => AnotherAdmin(v)'
          BY <2>5 DEF AnotherAdmin
        <4> QED
          BY <3>3, <4>1, <4>2, <4>3, <4>4 DEF ReadsMember, TakesAdmin
      <3> QED
        BY <3>1, <3>2, <3>3, <3>4
    <2> QED
      BY <2>8, <2>9, <2>10, <2>11, <2>13, <2>14, OthersHoldRows DEF MInv
  <1>8. CASE LoadInvitation(r)
    <2>1. PICK i \in Invitations :
              req' = [req EXCEPT ![r] = [Idle EXCEPT !.kind = "revoke", !.pc = "loaded", !.inv = i]]
      BY <1>8 DEF LoadInvitation
    <2>2. PICK q : q = [Idle EXCEPT !.kind = "revoke", !.pc = "loaded", !.inv = i]
      OBVIOUS
    <2>3. q \in RequestTypes /\ q.kind = "revoke" /\ q.pc = "loaded" /\ q.inv = i /\ q.place = "company"
      BY <2>2, FounderAssumption DEF Idle, RequestTypes, Kinds, Steps, Roles
    <2>4. q \in Asked
      BY <2>3, PlacesAssumption DEF Asked, KindFits
    <2>5. req'[r] = q
      BY <1>0, <2>1, <2>2 DEF Typed
    <2>6. HoldsRows(r)'
      BY <2>3, <2>5 DEF HoldsRows, Entered, At
    <2> QED
      BY <1>8, <2>1, <2>2, <2>3, <2>4, <2>6, InvitesStepKeeps DEF LoadInvitation
  <1>9. CASE CommitRevocation(r)
    <2>1. PICK i \in Invitations : i = req[r].inv
      BY <1>0, <1>9 DEF CommitRevocation, At, Asked, KindFits
    <2>2. /\ RowFree(Invited(i), r) /\ Finish(r) /\ UNCHANGED <<role, account, access, crossed, joins>>
          /\ invitation' = [invitation EXCEPT ![i].status = "deleted"]
      BY <1>9, <2>1 DEF CommitRevocation
    <2>3. /\ invitation' \in [Invitations -> InvitationTypes] /\ invitation'[i].status = "deleted"
          /\ \A j \in Invitations : j # i => invitation'[j] = invitation[j]
      <3>1. invitation[i] \in InvitationTypes
        BY <1>0 DEF Typed
      <3>2. [invitation[i] EXCEPT !.status = "deleted"] \in InvitationTypes
        BY <3>1 DEF InvitationTypes
      <3> QED
        BY <1>0, <2>2, <3>1, <3>2 DEF Typed, InvitationTypes
    <2>4. /\ req' \in [Requests -> Asked] /\ req'[r] = Idle
          /\ \A d \in Requests : d # r => req'[d] = req[d]
          /\ locked' \in [Rows -> Requests \cup {Nobody}]
          /\ \A d \in Requests, x \in Rows : d # r /\ locked[x] = d => locked'[x] = d
          /\ HoldsRows(r)'
      BY <2>2, Finished
    <2>5. StepOf(r)
      BY <2>2, <2>3, <2>4 DEF StepOf, RowFree
    <2>6. Typed'
      BY <1>0, <2>2, <2>3, <2>4 DEF Typed, TypeOK, Asked, RequestTypes, InvitationTypes, Steps
    <2>7. JoinsOnce'
      BY <1>0, <2>2, <2>3 DEF JoinsOnce
    <2>8. AdminSafe' /\ AccessSafe'
      BY <2>2, <2>4, OthersWork, KeepsAdmin, KeepsAccess
    <2> QED
      BY <2>4, <2>5, <2>6, <2>7, <2>8, OthersHoldRows DEF MInv
  <1> QED
    BY <1>1, <1>2, <1>3, <1>4, <1>5, <1>6, <1>7, <1>8, <1>9 DEF Invites

\* One step of a request about the access of a client.
LEMMA ClientsKeeps == ASSUME MInv, NEW r \in Requests, Clients(r) PROVE MInv'
  <1>0. /\ Typed /\ JoinsOnce /\ AdminSafe /\ AccessSafe /\ HoldsRows(r)
        /\ req[r] \in Asked /\ req[r] \in RequestTypes /\ req[r].user \in Users /\ req[r].place \in Places
        /\ crossed \subseteq {"admins", "grants"}
    BY DEF MInv, Typed, TypeOK, Asked, RequestTypes, KindFits
  <1>1. CASE RequireClient(r)
    <2>1. CASE Refuse(r)
      BY <2>1, RefusalKeeps
    <2>2. CASE ~Refuse(r)
      <3>1. PICK u \in Users : u = req[r].user
        BY <1>0
      <3>2. /\ At(r, {"grant"}, "auth") /\ role[u] = "client" /\ Go(r, "checked")
            /\ crossed' = IF \E d \in Working({"remove"}) : req[d].user = u THEN crossed \cup {"grants"} ELSE crossed
            /\ UNCHANGED <<tables, locked, joins>>
        BY <1>1, <2>2, <3>1 DEF RequireClient
      <3>3. PICK q \in Asked :
               /\ req' = [req EXCEPT ![r] = q]
               /\ q.pc = "checked" /\ q.kind = req[r].kind /\ q.user = req[r].user /\ q.new = req[r].new
               /\ q.inv = req[r].inv /\ q.was = req[r].was /\ q.drops = req[r].drops
        BY <3>2, Goes DEF At, Steps
      <3>4. req'[r] = q /\ \A d \in Requests : d # r => req'[d] = req[d]
        BY <1>0, <3>3 DEF Typed
      <3>5. HoldsRows(r)'
        BY <3>2, <3>3, <3>4 DEF HoldsRows, Entered, At
      <3>6. UNCHANGED <<role, access>> /\ crossed \subseteq crossed' /\ crossed' \subseteq {"admins", "grants"}
        BY <1>0, <3>2 DEF tables
      <3>7. \A d \in Requests, K \in {Changes, {"remove"}} : d \in Working(K)' =>
                d # r /\ d \in Working(K) /\ req'[d] = req[d]
        BY <3>2, <3>3, <3>4 DEF Working, At, Changes
      <3>8. AdminSafe'
        BY <3>6, <3>7, KeepsAdmin
      <3>9. AccessSafe'
        <4> SUFFICES ASSUME "grants" \notin crossed'
                     PROVE  /\ \A v \in Users : <<v, "company">> \in access' => role'[v] # "none"
                            /\ \A d \in Working({"grant"})' : GrantsMember(d)'
                            /\ \A d \in Working({"remove"})' : DropsAll(d)'
          BY DEF AccessSafe
        <4>1. /\ \A v \in Users : <<v, "company">> \in access => role[v] # "none"
              /\ \A d \in Working({"grant"}) : GrantsMember(d)
              /\ \A d \in Working({"remove"}) : DropsAll(d)
              /\ \A d \in Working({"remove"}) : req[d].user # u
          BY <1>0, <3>2, <3>6 DEF AccessSafe
        <4>2. \A K : \A d \in Working(K)' : d \in Requests
          BY DEF Working
        <4>3. ASSUME NEW d \in Working({"grant"})' PROVE GrantsMember(d)'
          <5>1. CASE d = r
            BY <3>1, <3>2, <3>3, <3>4, <3>6, <3>7, <4>1, <4>2, <5>1 DEF GrantsMember
          <5>2. CASE d # r
            <6>1. d \in Working({"grant"}) /\ req'[d] = req[d]
              BY <3>4, <4>2, <5>2 DEF Working
            <6> QED
              BY <3>6, <3>7, <4>1, <4>2, <6>1 DEF GrantsMember
          <5> QED
            BY <5>1, <5>2
        <4>4. ASSUME NEW d \in Working({"remove"})' PROVE DropsAll(d)'
          BY <3>6, <3>7, <4>1, <4>2 DEF DropsAll
        <4> QED
          BY <3>6, <4>1, <4>3, <4>4
      <3> QED
        BY <3>2, <3>3, <3>5, <3>6, <3>8, <3>9, StepKeeps
    <2> QED
      BY <2>1, <2>2
  <1>2. CASE GrantAccess(r) \/ RevokeAccess(r)
    <2>1. PICK u \in Users, place \in Places : u = req[r].user /\ place = req[r].place
      BY <1>0
    <2>2. /\ Finish(r) /\ UNCHANGED <<role, account, invitation, crossed, joins>>
          /\ \/ At(r, {"grant"}, "checked") /\ access' = access \cup {<<u, place>>}
             \/ access' \subseteq access
      BY <1>2, <2>1 DEF GrantAccess, RevokeAccess
    <2>3. access' \subseteq Users \X Places
      BY <1>0, <2>2 DEF Typed, TypeOK
    <2>4. /\ req' \in [Requests -> Asked] /\ req'[r] = Idle
          /\ \A d \in Requests : d # r => req'[d] = req[d]
          /\ locked' \in [Rows -> Requests \cup {Nobody}]
          /\ \A d \in Requests, x \in Rows : d # r /\ locked[x] = d => locked'[x] = d
          /\ HoldsRows(r)'
      BY <2>2, Finished
    <2>5. StepOf(r)
      BY <2>2, <2>4 DEF StepOf
    <2>6. Typed'
      BY <1>0, <2>2, <2>3, <2>4 DEF Typed, TypeOK, Asked, RequestTypes, Steps
    <2>7. JoinsOnce'
      BY <1>0, <2>2 DEF JoinsOnce
    <2>8. \A d \in Requests, K \in {Changes, {"grant"}, {"remove"}} :
              d \in Working(K)' => d # r /\ d \in Working(K) /\ req'[d] = req[d]
      BY <2>4, OthersWork
    <2>9. AdminSafe'
      BY <2>2, <2>8, KeepsAdmin
    <2>10. AccessSafe'
      <3>1. CASE access' \subseteq access
        BY <2>2, <2>8, <3>1, KeepsAccess
      <3>2. CASE At(r, {"grant"}, "checked") /\ access' = access \cup {<<u, place>>}
        <4> SUFFICES ASSUME "grants" \notin crossed'
                     PROVE  /\ \A v \in Users : <<v, "company">> \in access' => role'[v] # "none"
                            /\ \A d \in Working({"grant"})' : GrantsMember(d)'
                            /\ \A d \in Working({"remove"})' : DropsAll(d)'
          BY DEF AccessSafe
        <4>1. /\ \A v \in Users : <<v, "company">> \in access => role[v] # "none"
              /\ \A d \in Working({"grant"}) : GrantsMember(d)
              /\ \A d \in Working({"remove"}) : DropsAll(d)
              /\ r \in Working({"grant"})
          BY <1>0, <2>2, <3>2 DEF AccessSafe, Working, At
        <4>2. role[u] # "none" /\ \A d \in Working({"remove"}) : req[d].user # u
          BY <2>1, <4>1 DEF GrantsMember
        <4>3. \A K : \A d \in Working(K)' : d \in Requests
          BY DEF Working
        <4>4. \A v \in Users : <<v, "company">> \in access' => role'[v] # "none"
          BY <2>2, <3>2, <4>1, <4>2
        <4>5. ASSUME NEW d \in Working({"grant"})' PROVE GrantsMember(d)'
          BY <2>2, <2>8, <4>1, <4>3 DEF GrantsMember
        <4>6. ASSUME NEW d \in Working({"remove"})' PROVE DropsAll(d)'
          <5>1. d \in Working({"remove"}) /\ req'[d] = req[d] /\ req[d].user # u
            BY <2>8, <4>2, <4>3
          <5>2. <<req[d].user, "company">> \in access' => <<req[d].user, "company">> \in access
            BY <3>2, <5>1
          <5> QED
            BY <4>1, <5>1, <5>2 DEF DropsAll
        <4> QED
          BY <4>4, <4>5, <4>6
      <3> QED
        BY <2>2, <3>1, <3>2
    <2> QED
      BY <2>4, <2>5, <2>6, <2>7, <2>9, <2>10, OthersHoldRows DEF MInv
  <1> QED
    BY <1>1, <1>2 DEF Clients

\* An invitation expires only when no acceptance holds it.
LEMMA ExpireKeeps == ASSUME MInv, NEW i \in Invitations, Expire(i) PROVE MInv'
  <1>1. /\ invitation[i].status = "open" /\ locked[Invited(i)] = Nobody
        /\ invitation' = [invitation EXCEPT ![i].status = "expired"]
        /\ UNCHANGED <<role, account, access, locked, req, crossed, joins>>
    BY DEF Expire
  <1>2. /\ invitation' \in [Invitations -> InvitationTypes] /\ invitation'[i].status = "expired"
        /\ \A j \in Invitations : j # i => invitation'[j] = invitation[j]
    <2>1. invitation \in [Invitations -> InvitationTypes]
      BY DEF MInv, Typed
    <2>2. [invitation[i] EXCEPT !.status = "expired"] \in InvitationTypes
      BY <2>1 DEF InvitationTypes
    <2> QED
      BY <1>1, <2>1, <2>2 DEF InvitationTypes
  <1>3. ASSUME NEW r \in Requests PROVE HoldsRows(r)'
    <2>1. HoldsRows(r) /\ r # Nobody
      BY NobodyAssumption DEF MInv
    <2>2. Entered(r) => req[r].inv \in Invitations
      BY DEF MInv, Typed, Asked, KindFits, Entered, At
    <2> QED
      BY <1>1, <1>2, <2>1, <2>2 DEF HoldsRows, Entered, At
  <1>4. Typed'
    BY <1>1, <1>2 DEF MInv, Typed, TypeOK, InvitationTypes
  <1>5. JoinsOnce'
    BY <1>1, <1>2 DEF MInv, JoinsOnce
  <1>6. \A K : Working(K)' = Working(K)
    BY <1>1 DEF Working
  <1>7. AdminSafe' /\ AccessSafe'
    BY <1>1, <1>6, KeepsAdmin, KeepsAccess
  <1> QED
    BY <1>3, <1>4, <1>5, <1>7 DEF MInv

LEMMA NextMInv == MInv /\ [Next]_vars => MInv'
  <1> SUFFICES ASSUME MInv, [Next]_vars PROVE MInv'
    OBVIOUS
  <1>1. ASSUME NEW r \in Requests, Rollback(r) PROVE MInv'
    BY <1>1, RefusalKeeps DEF Rollback
  <1>2. CASE UNCHANGED vars
    <2>1. UNCHANGED <<role, account, access, invitation, locked, req, crossed, joins>>
      BY <1>2 DEF vars, tables
    <2>2. Typed' /\ JoinsOnce'
      BY <2>1 DEF MInv, Typed, TypeOK, JoinsOnce
    <2>3. \A r \in Requests : HoldsRows(r)'
      BY <2>1 DEF MInv, HoldsRows, Entered, At
    <2>4. \A K : Working(K)' = Working(K)
      BY <2>1 DEF Working
    <2>5. AdminSafe' /\ AccessSafe'
      BY <2>1, <2>4, KeepsAdmin, KeepsAccess
    <2> QED
      BY <2>2, <2>3, <2>5 DEF MInv
  <1> QED
    BY <1>1, <1>2, MembersKeeps, InvitesKeeps, ClientsKeeps, ExpireKeeps DEF Next

-----------------------------------------------------------------------------

\* Every table keeps its type, and whoever is a member has an account.
THEOREM MembersTyped == Spec => []TypeOK
  <1>1. MInv => TypeOK
    BY DEF MInv, Typed
  <1> QED
    BY <1>1, InitMInv, NextMInv, PTL DEF Spec

\* However many acceptances of an invitation race with each other, with its revocation, its expiry
\* and the removal of the member it made, it makes one membership at most.
THEOREM AdmittedOnce == Spec => []AdmitsOnce
  <1>1. MInv => AdmitsOnce
    BY DEF MInv, JoinsOnce, AdmitsOnce
  <1> QED
    BY <1>1, InitMInv, NextMInv, PTL DEF Spec

\* A company keeps an admin unless two changes of its members overlapped.
THEOREM AdminRemains == Spec => []AdminUnlessRace
  <1>1. MInv => AdminUnlessRace
    BY DEF MInv, AdminSafe, AdminUnlessRace
  <1> QED
    BY <1>1, InitMInv, NextMInv, PTL DEF Spec

\* Whoever is no longer a member has no access to the company's work unless a grant overlapped the
\* removal.
THEOREM AccessEnds == Spec => []NoStrayAccess
  <1>1. MInv => NoStrayAccess
    BY DEF MInv, AccessSafe, NoStrayAccess
  <1> QED
    BY <1>1, InitMInv, NextMInv, PTL DEF Spec

-----------------------------------------------------------------------------
(***************************************************************************)
(* Catalogs: a company sees one row of each item, the closest one.         *)
(***************************************************************************)

\* A row comes after the row it overrides, and is of the same original item.
UpwardRows ==
    /\ \A i \in there : /\ concept[i] \in 1 .. i /\ owner[i] \in Companies
                        /\ parent[i] # 0 => parent[i] < i /\ concept[parent[i]] = concept[i]
    /\ \A i \in Items \ there : parent[i] = 0

\* Of each original item one row overrides no other.
OneRoot ==
    \A i, j \in there : parent[i] = 0 /\ parent[j] = 0 /\ concept[i] = concept[j] =>
        i = j \/ concept[i] \in torn

\* A deletion that has looked for overrides and found none knows them all, or some is unseen.
NoneUnseen ==
    \A r \in Editors :
        /\ doing[r].kind # "none" => doing[r].item \in 1 .. made /\ doing[r].company \in Companies
        /\ doing[r].kind = "checked" /\ ~doing[r].unseen => \A j \in there : parent[j] # doing[r].item

KInv == CatalogsTypeOK /\ UpwardRows /\ OneRoot /\ NoneUnseen

\* A set of naturals has a least element.
LEMMA LeastOf ==
    ASSUME NEW S, S \subseteq Nat, S # {}
    PROVE  \E n \in S : \A m \in S : n <= m
  <1>1. PICK n \in S : \A m \in S : ~(<<m, n>> \in OpToRel(<, Nat))
    BY Zenon, NatLessThanWellFounded, WFMin
  <1>2. \A m \in S : m \in Nat /\ n \in Nat
    OBVIOUS
  <1>3. \A m \in S : ~(m < n)
    BY <1>1, <1>2, Zenon DEF OpToRel
  <1>4. \A m \in S : n <= m
    BY <1>2, <1>3
  <1> QED
    BY <1>4

\* The way from a row to the top of its chain of overrides is well defined, because each step of
\* it leads to an earlier row.
LEMMA TopsExist ==
    ASSUME NEW n \in Nat, NEW above \in [1 .. n -> Nat], NEW rows, \A i \in 1 .. n : above[i] \in rows => above[i] \in 1 .. i - 1
    PROVE  \E top : top = [i \in 1 .. n |-> IF above[i] \in rows THEN top[above[i]] ELSE i]
  <1> DEFINE Tops(m, top) == top = [i \in 1 .. m |-> IF above[i] \in rows THEN top[above[i]] ELSE i]
             A == {m \in 0 .. n : ~\E top : Tops(m, top)}
  <1> SUFFICES A = {}
    <2>1. n \in 0 .. n
      OBVIOUS
    <2> QED
      BY <2>1
  <1> SUFFICES ASSUME A # {} PROVE FALSE
    OBVIOUS
  <1>1. PICK m \in A : \A k \in A : m <= k
    <2>1. A \subseteq Nat
      OBVIOUS
    <2> HIDE DEF A
    <2> QED
      BY <2>1, LeastOf
  <1>2. m # 0
    <2> DEFINE top == [i \in 1 .. 0 |-> i]
    <2>1. Tops(0, top)
      OBVIOUS
    <2> QED
      BY <2>1
  <1>3. m - 1 \in 0 .. n /\ m - 1 < m /\ m \in 1 .. n
    BY <1>2
  <1>4. PICK low : Tops(m - 1, low)
    BY <1>1, <1>3
  <1> DEFINE top == [i \in 1 .. m |-> IF above[i] \in rows THEN low[above[i]] ELSE i]
  <1>5. \A i \in 1 .. m - 1 : top[i] = low[i]
    BY <1>3, <1>4
  <1>6. \A i \in 1 .. m : above[i] \in rows => above[i] \in 1 .. m - 1
    BY <1>3
  <1>7. \A i \in 1 .. m : above[i] \in rows => low[above[i]] = top[above[i]]
    BY <1>5, <1>6
  <1>8. Tops(m, top)
    BY <1>7
  <1> QED
    BY <1>1, <1>8

\* What RootIdentity is.
LEMMA RootIs ==
    ASSUME CatalogsTypeOK, UpwardRows, NEW c \in Companies
    PROVE  \A i \in Items : RootIdentity(c)[i] = IF parent[i] \in Visible(c) THEN RootIdentity(c)[parent[i]] ELSE i
  <1> DEFINE rows == Visible(c)
  <1>0. /\ rows \subseteq there /\ there \subseteq 1 .. made /\ made \in 0 .. MaxItems /\ MaxItems \in Nat
        /\ parent \in [Items -> there \cup {0}]
    BY ItemsAssumption DEF CatalogsTypeOK, Visible
  <1> HIDE DEF rows
  <1>1. \A i \in Items : parent[i] \in rows => parent[i] \in 1 .. i - 1
    <2> SUFFICES ASSUME NEW i \in Items, parent[i] \in rows PROVE parent[i] \in 1 .. i - 1
      OBVIOUS
    <2>1. \A k \in rows : k # 0 /\ k \in Nat /\ k \in there
      BY <1>0
    <2>2. parent[i] # 0 /\ parent[i] \in Nat
      BY Zenon, <2>1
    <2>3. i \in there
      BY <2>2 DEF UpwardRows
    <2>4. parent[i] < i
      BY Zenon, <2>2, <2>3 DEF UpwardRows
    <2> QED
      BY <1>0, <2>2, <2>4 DEF Items
  <1>2. parent \in [1 .. MaxItems -> Nat]
    <2>1. there \cup {0} \subseteq Nat
      BY <1>0
    <2> QED
      BY <1>0, <2>1 DEF Items
  <1>3. \E top : top = [i \in 1 .. MaxItems |-> IF parent[i] \in rows THEN top[parent[i]] ELSE i]
    BY SMTT(30), <1>1, <1>2, ItemsAssumption, TopsExist DEF Items
  <1>4. RootIdentity(c) = [i \in Items |-> IF parent[i] \in rows THEN RootIdentity(c)[parent[i]] ELSE i]
    BY Zenon, <1>3 DEF RootIdentity, Items, rows
  <1> QED
    BY Zenon, <1>4 DEF rows

\* Of two companies above one company, one is above the other; so what a row it sees is an override
\* of is seen too, if the companies of the rows are one above the other.
LEMMA ParentsSeen ==
    ASSUME CatalogsTypeOK, UpwardRows, NEW c \in Companies, NEW i \in Visible(c), parent[i] # 0,
           ~Raised(concept[i])
    PROVE  parent[i] \in Visible(c)
  <1> DEFINE p == parent[i]
             d == owner[i]
             e == owner[p]
  <1>1. i \in there /\ (d \in Above[c] \/ c \in Above[d])
    BY DEF Visible
  <1>2. i \in Items
    BY <1>1, ItemsAssumption DEF CatalogsTypeOK, Items
  <1>3. p \in there
    BY <1>2 DEF CatalogsTypeOK
  <1>4. d \in Companies /\ e \in Companies
    BY <1>1, <1>3 DEF UpwardRows
  <1>5. e \in Above[d]
    BY <1>1 DEF Raised
  <1> HIDE DEF p, d, e
  <1>6. CASE d \in Above[c]
    BY <1>3, <1>5, <1>6, TreeAssumption DEF Visible, e, p
  <1>7. CASE c \in Above[d]
    BY <1>3, <1>4, <1>5, <1>7, TreeAssumption DEF Visible, e, p
  <1> QED
    BY <1>1, <1>6, <1>7 DEF p

\* The end of a chain is a row that overrides no other, of the same original item.
LEMMA RootIsRoot ==
    ASSUME CatalogsTypeOK, UpwardRows, NEW c \in Companies
    PROVE  \A i \in Visible(c) : ~Raised(concept[i]) =>
               /\ RootIdentity(c)[i] \in there /\ parent[RootIdentity(c)[i]] = 0
               /\ concept[RootIdentity(c)[i]] = concept[i]
  <1> DEFINE Good(i) == /\ RootIdentity(c)[i] \in there /\ parent[RootIdentity(c)[i]] = 0
                        /\ concept[RootIdentity(c)[i]] = concept[i]
             A == {i \in Visible(c) : ~Raised(concept[i]) /\ ~Good(i)}
  <1> SUFFICES ASSUME A # {} PROVE FALSE
    OBVIOUS
  <1>1. there \subseteq Nat /\ there \subseteq Items /\ 0 \notin there /\ Visible(c) \subseteq there
    BY ItemsAssumption DEF CatalogsTypeOK, Items, Visible
  <1>2. PICK i \in A : \A j \in A : i <= j
    <2>1. A \subseteq Nat
      BY <1>1
    <2> HIDE DEF A
    <2> QED
      BY <2>1, LeastOf
  <1>3. RootIdentity(c)[i] = IF parent[i] \in Visible(c) THEN RootIdentity(c)[parent[i]] ELSE i
    BY <1>1, RootIs
  <1>4. CASE parent[i] = 0
    BY <1>1, <1>3, <1>4
  <1>5. CASE parent[i] # 0
    <2>1. i \in Visible(c) /\ ~Raised(concept[i]) /\ ~Good(i)
      OBVIOUS
    <2>2. parent[i] \in Visible(c)
      BY <1>5, <2>1, ParentsSeen
    <2>3. parent[i] < i /\ concept[parent[i]] = concept[i]
      BY <1>1, <1>5, <2>1 DEF UpwardRows
    <2>4. parent[i] \notin A
      <3>1. i \in Nat /\ parent[i] \in Nat
        BY <1>1, <2>1, <2>2
      <3>2. \A j \in A : i <= j
        BY <1>2
      <3> HIDE DEF A
      <3> QED
        BY <2>3, <3>1, <3>2
    <2>5. Good(parent[i])
      BY <2>1, <2>2, <2>3, <2>4
    <2> QED
      BY <1>3, <2>1, <2>2, <2>3, <2>5
  <1> QED
    BY <1>4, <1>5

\* A company has more companies above it than each of those.
LEMMA LowerIsLonger ==
    ASSUME NEW c \in Companies, NEW d \in Above[c]
    PROVE  /\ d \in Companies /\ chain_lengths[c] \in Nat /\ chain_lengths[d] \in Nat \ {0}
           /\ d # c => chain_lengths[d] < chain_lengths[c]
  <1>1. /\ d \in Companies /\ Above[d] \subseteq Above[c]
        /\ IsFiniteSet(Above[c]) /\ IsFiniteSet(Above[d])
        /\ c \in Above[c] /\ d \in Above[d] /\ (c \in Above[d] => c = d)
    BY TreeAssumption
  <1>2. chain_lengths[c] = Cardinality(Above[c]) /\ chain_lengths[d] = Cardinality(Above[d])
    BY <1>1 DEF chain_lengths
  <1>3. /\ Cardinality(Above[d]) <= Cardinality(Above[c])
        /\ Cardinality(Above[c]) = Cardinality(Above[d]) => Above[c] = Above[d]
    BY <1>1, FS_Subset
  <1>4. Cardinality(Above[c]) \in Nat /\ Cardinality(Above[d]) \in Nat
    BY <1>1, FS_CardinalityType
  <1>5. Cardinality(Above[d]) # 0
    BY <1>1, FS_EmptySet
  <1> QED
    BY <1>1, <1>2, <1>3, <1>4, <1>5

\* One root each is one group each.
LEMMA GroupsFollow == KInv => CatalogHolds
  <1> SUFFICES ASSUME KInv PROVE CatalogHolds
    OBVIOUS
  <1> USE DEF KInv
  <1>1. ASSUME NEW c \in Companies, NEW i \in Visible(c), NEW j \in Visible(c),
               concept[i] = concept[j], concept[i] \notin torn, ~Raised(concept[i])
        PROVE  RootIdentity(c)[i] = RootIdentity(c)[j]
    <2>1. /\ RootIdentity(c)[i] \in there /\ parent[RootIdentity(c)[i]] = 0
          /\ concept[RootIdentity(c)[i]] = concept[i]
          /\ RootIdentity(c)[j] \in there /\ parent[RootIdentity(c)[j]] = 0
          /\ concept[RootIdentity(c)[j]] = concept[j]
      BY <1>1, RootIsRoot
    <2> QED
      BY <1>1, <2>1 DEF OneRoot
  <1>2. OneGroupEach
    BY <1>1 DEF OneGroupEach
  <1>3. ClosestShown
    <2> SUFFICES ASSUME NEW c \in Companies, NEW i \in Shown(c), NEW j \in Visible(c),
                        concept[i] = concept[j], concept[i] \notin torn, ~Raised(concept[i]),
                        owner[j] \in Above[c]
                 PROVE  owner[i] \in Above[c] /\ owner[j] \in Above[owner[i]]
      BY DEF ClosestShown
    <2> DEFINE d == owner[i]
               e == owner[j]
    <2>1. i \in Visible(c) /\ ~(HopDistance(c, d) > HopDistance(c, e))
      BY <1>1 DEF Shown
    <2>2. d \in Companies /\ (d \in Above[c] \/ c \in Above[d]) /\ c \in Above[c] /\ e \in Above[c]
      BY <2>1, TreeAssumption DEF Visible, UpwardRows
    <2> HIDE DEF d, e
    <2>3. /\ chain_lengths[c] \in Nat /\ chain_lengths[e] \in Nat \ {0}
          /\ chain_lengths[e] <= chain_lengths[c] /\ e \in Companies
      BY <2>2, LowerIsLonger
    <2>4. d \in Above[c]
      <3> SUFFICES ASSUME d \notin Above[c] PROVE FALSE
        OBVIOUS
      <3>1. c \in Above[d] /\ c # d
        BY <2>2
      <3>2. chain_lengths[c] < chain_lengths[d] /\ chain_lengths[d] \in Nat
        BY <2>2, <3>1, LowerIsLonger
      <3> QED
        BY <2>1, <2>3, <3>2 DEF HopDistance
    <2>5. chain_lengths[d] \in Nat /\ chain_lengths[d] <= chain_lengths[c]
      BY <2>2, <2>4, LowerIsLonger
    <2>6. chain_lengths[e] <= chain_lengths[d]
      BY <2>1, <2>3, <2>5 DEF HopDistance
    <2>7. e \in Above[d]
      <3> SUFFICES ASSUME e \notin Above[d] PROVE FALSE
        OBVIOUS
      <3>1. d \in Above[e] /\ d # e
        BY <2>2, <2>4, TreeAssumption
      <3>2. chain_lengths[d] < chain_lengths[e]
        BY <2>3, <3>1, LowerIsLonger
      <3> QED
        BY <2>3, <2>5, <2>6, <3>2
    <2> QED
      BY <2>4, <2>7 DEF d, e
  <1> QED
    BY <1>2, <1>3 DEF CatalogHolds

\* What CatalogsTypeOK says of the rows and of the requests.
RowsTyped ==
    /\ made \in 0 .. MaxItems /\ there \subseteq 1 .. made /\ lines \subseteq there \X Companies
    /\ owner \in [Items -> Companies \cup {Nowhere}] /\ parent \in [Items -> there \cup {0}]
    /\ concept \in [Items -> 0 .. MaxItems] /\ torn \subseteq Items
DoingTyped ==
    doing \in [Editors -> [kind : {"none", "override", "loaded", "checked"},
                           company : Companies \cup {Nowhere}, item : 0 .. MaxItems, unseen : BOOLEAN]]

LEMMA CatalogBasics ==
    ASSUME CatalogsTypeOK
    PROVE  /\ MaxItems \in Nat /\ made \in Nat /\ NoWork.item = 0 /\ NoWork.kind = "none"
           /\ NoWork \in [kind : {"none", "override", "loaded", "checked"},
                          company : Companies \cup {Nowhere}, item : 0 .. MaxItems, unseen : BOOLEAN]
           /\ \A i \in there : i \in Items /\ i \in Nat /\ i # 0 /\ i <= made
           /\ \A i \in Items : i \in Nat /\ i # 0
  BY ItemsAssumption DEF CatalogsTypeOK, Items, NoWork

\* A new row is the last one, and is of its own item or of that of the row it overrides.
LEMMA AddKeeps ==
    ASSUME KInv, NEW c \in Companies, NEW above \in there \cup {0},
           Add(c, above, IF above = 0 THEN made + 1 ELSE concept[above]), torn' = torn, lines' = lines
    PROVE  /\ RowsTyped' /\ UpwardRows' /\ OneRoot'
           /\ made' = made + 1 /\ there' = there \cup {made + 1} /\ parent'[made + 1] = above
           /\ \A i \in there : parent'[i] = parent[i]
  <1> USE DEF KInv
  <1> DEFINE n    == made + 1
             what == IF above = 0 THEN n ELSE concept[above]
  <1>1. /\ n \in Items /\ n \notin there /\ n \in Nat /\ made \in Nat
        /\ made' = n /\ there' = there \cup {n} /\ n \in 0 .. MaxItems
    <2>1. made < MaxItems /\ made' = made + 1 /\ there' = there \cup {made + 1}
      BY DEF Add
    <2> QED
      BY <2>1, CatalogBasics DEF Items, CatalogsTypeOK
  <1>2. /\ \A i \in Items : i # n => owner'[i] = owner[i] /\ parent'[i] = parent[i] /\ concept'[i] = concept[i]
        /\ owner'[n] = c /\ parent'[n] = above /\ concept'[n] = what
        /\ owner' = [owner EXCEPT ![n] = c] /\ parent' = [parent EXCEPT ![n] = above]
        /\ concept' = [concept EXCEPT ![n] = what]
    BY <1>1 DEF Add, CatalogsTypeOK
  <1>3. /\ above # 0 => above \in there /\ above < n
        /\ what \in 1 .. n /\ what \in 0 .. MaxItems
        /\ above # 0 => what = concept[above] /\ what < n
        /\ above = 0 => what = n
    BY <1>1, CatalogBasics DEF UpwardRows, Items
  <1>4. \A i \in there : concept[i] # n /\ i \in Items /\ i # n
    BY <1>1, CatalogBasics DEF UpwardRows
  <1> HIDE DEF what
  <1>5. RowsTyped'
    <2>1. owner' \in [Items -> Companies \cup {Nowhere}]
      BY <1>2 DEF CatalogsTypeOK
    <2>2. parent' \in [Items -> there' \cup {0}]
      BY <1>1, <1>2, <1>3 DEF CatalogsTypeOK
    <2>3. concept' \in [Items -> 0 .. MaxItems]
      BY <1>2, <1>3 DEF CatalogsTypeOK
    <2>4. there' \subseteq 1 .. made' /\ lines' \subseteq there' \X Companies /\ torn' \subseteq Items
      BY <1>1 DEF CatalogsTypeOK
    <2> QED
      BY <1>1, <2>1, <2>2, <2>3, <2>4 DEF RowsTyped, Items, Companies
  <1>6. UpwardRows'
    <2>1. ASSUME NEW i \in there'
          PROVE  /\ concept'[i] \in 1 .. i /\ owner'[i] \in Companies
                 /\ parent'[i] # 0 => parent'[i] < i /\ concept'[parent'[i]] = concept'[i]
      <3>1. CASE i = n
        BY <1>2, <1>3, <1>4, <3>1
      <3>2. CASE i # n
        <4>1. i \in there /\ i \in Items
          BY <1>1, <1>4, <3>2
        <4>2. concept'[i] = concept[i] /\ parent'[i] = parent[i] /\ owner'[i] = owner[i]
          BY <1>2, <3>2, <4>1
        <4>3. /\ concept[i] \in 1 .. i /\ owner[i] \in Companies
              /\ parent[i] # 0 => parent[i] < i /\ concept[parent[i]] = concept[i]
          BY <4>1 DEF UpwardRows
        <4>4. parent[i] # 0 => parent[i] \in there
          BY <4>1 DEF CatalogsTypeOK
        <4>5. parent[i] # 0 => concept'[parent[i]] = concept[parent[i]]
          BY <1>2, <1>4, <4>4
        <4> QED
          BY <4>2, <4>3, <4>5
      <3> QED
        BY <3>1, <3>2
    <2>2. \A i \in Items \ there' : parent'[i] = 0
      BY <1>1, <1>2 DEF UpwardRows
    <2> QED
      BY <2>1, <2>2 DEF UpwardRows, Items, Companies
  <1>7. OneRoot'
    <2> SUFFICES ASSUME NEW i \in there', NEW j \in there', parent'[i] = 0, parent'[j] = 0, concept'[i] = concept'[j]
                 PROVE  i = j \/ concept'[i] \in torn'
      BY DEF OneRoot
    <2>1. CASE i = n \/ j = n
      BY <1>1, <1>2, <1>3, <1>4, <2>1
    <2>2. CASE i # n /\ j # n
      <3>1. i \in there /\ j \in there
        BY <1>1, <2>2
      <3>2. /\ parent[i] = 0 /\ parent[j] = 0 /\ concept[i] = concept[j] /\ concept'[i] = concept[i]
        BY <1>2, <1>4, <3>1
      <3> QED
        BY <3>1, <3>2 DEF OneRoot
    <2> QED
      BY <2>1, <2>2
  <1> QED
    BY <1>1, <1>2, <1>4, <1>5, <1>6, <1>7

\* A deletion takes a row that is overridden by none, or some override is not seen; then the item is torn.
LEMMA DeleteKeeps ==
    ASSUME KInv, NEW r \in Editors, DeleteItem(r)
    PROVE  RowsTyped' /\ UpwardRows' /\ OneRoot' /\ DoingTyped' /\ NoneUnseen'
  <1> USE DEF KInv
  <1> DEFINE i == doing[r].item
  <1>1. /\ doing[r].kind = "checked" /\ i \in there /\ \A d \in Companies : <<i, d>> \notin lines
        /\ there' = there \ {i} /\ made' = made /\ lines' = lines
        /\ parent' = [j \in Items |-> IF parent[j] = i \/ j = i THEN 0 ELSE parent[j]]
        /\ torn' = IF doing[r].unseen THEN torn \cup {concept[i]} ELSE torn
        /\ doing' = [doing EXCEPT ![r] = NoWork]
        /\ owner' = [owner EXCEPT ![i] = Nowhere] /\ concept' = [concept EXCEPT ![i] = 0]
    BY DEF DeleteItem
  <1>2. i \in Items /\ i # 0 /\ concept[i] \in Items
    BY <1>1, CatalogBasics DEF UpwardRows, Items
  <1> HIDE DEF i
  <1>3. \A j \in Items : /\ parent'[j] = IF parent[j] = i \/ j = i THEN 0 ELSE parent[j]
                         /\ j # i => concept'[j] = concept[j]
    BY <1>1, <1>2 DEF CatalogsTypeOK
  <1>4. RowsTyped'
    <2>1. owner' \in [Items -> Companies \cup {Nowhere}]
      BY <1>1, CatalogBasics DEF CatalogsTypeOK, Companies
    <2>2. parent' \in [Items -> there' \cup {0}]
      BY <1>1 DEF CatalogsTypeOK
    <2>3. concept' \in [Items -> 0 .. MaxItems]
      BY <1>1, CatalogBasics DEF CatalogsTypeOK
    <2>4. made' \in 0 .. MaxItems /\ there' \subseteq 1 .. made' /\ torn' \subseteq Items
      BY <1>1, <1>2 DEF CatalogsTypeOK
    <2>5. lines' \subseteq there' \X Companies
      <3> SUFFICES ASSUME NEW k \in there, NEW d \in Companies, <<k, d>> \in lines PROVE k \in there'
        BY <1>1 DEF CatalogsTypeOK
      <3> QED
        BY <1>1
    <2> QED
      BY <2>1, <2>2, <2>3, <2>4, <2>5 DEF RowsTyped, Items, Companies
  <1>5. UpwardRows'
    <2>1. ASSUME NEW j \in there'
          PROVE  /\ concept'[j] \in 1 .. j /\ owner'[j] \in Companies
                 /\ parent'[j] # 0 => parent'[j] < j /\ concept'[parent'[j]] = concept'[j]
      <3>1. j \in there /\ j # i /\ j \in Items
        BY <1>1, CatalogBasics
      <3>2. /\ concept[j] \in 1 .. j /\ owner[j] \in Companies
            /\ parent[j] # 0 => parent[j] < j /\ concept[parent[j]] = concept[j]
        BY <3>1 DEF UpwardRows
      <3>3. concept'[j] = concept[j] /\ owner'[j] = owner[j]
        BY <1>1, <1>3, <3>1 DEF CatalogsTypeOK
      <3>4. parent'[j] # 0 => parent'[j] = parent[j] /\ parent[j] # i /\ parent[j] # 0
        BY <1>3, <3>1
      <3>5. parent[j] # 0 => parent[j] \in Items
        BY <3>1, CatalogBasics DEF CatalogsTypeOK
      <3>6. parent'[j] # 0 => concept'[parent[j]] = concept[parent[j]]
        BY <1>3, <3>4, <3>5
      <3> QED
        BY <3>2, <3>3, <3>4, <3>6
    <2>2. \A j \in Items \ there' : parent'[j] = 0
      BY <1>1, <1>3 DEF UpwardRows
    <2> QED
      BY <2>1, <2>2 DEF UpwardRows, Items, Companies
  <1>6. ~doing[r].unseen => \A j \in there : parent[j] # i
    BY <1>1 DEF NoneUnseen, i
  <1>7. OneRoot'
    <2> SUFFICES ASSUME NEW j \in there', NEW k \in there', parent'[j] = 0, parent'[k] = 0, concept'[j] = concept'[k]
                 PROVE  j = k \/ concept'[j] \in torn'
      BY DEF OneRoot
    <2>1. j \in there /\ k \in there /\ j # i /\ k # i /\ j \in Items /\ k \in Items
      BY <1>1, CatalogBasics
    <2>2. concept'[j] = concept[j] /\ concept[j] = concept[k]
      BY <1>3, <2>1
    <2>3. CASE parent[j] = i \/ parent[k] = i
      <3>1. concept[j] = concept[i]
        BY <1>2, <2>1, <2>2, <2>3 DEF UpwardRows
      <3> QED
        BY <1>1, <1>6, <2>1, <2>2, <2>3, <3>1
    <2>4. CASE parent[j] # i /\ parent[k] # i
      <3>1. parent[j] = 0 /\ parent[k] = 0
        BY <1>3, <2>1, <2>4
      <3> QED
        BY <1>1, <2>1, <2>2, <3>1 DEF OneRoot
    <2> QED
      BY <2>3, <2>4
  <1>8. DoingTyped'
    BY <1>1, CatalogBasics DEF CatalogsTypeOK, DoingTyped, Companies
  <1>9. NoneUnseen'
    <2> SUFFICES ASSUME NEW s \in Editors
                 PROVE  /\ doing'[s].kind # "none" => doing'[s].item \in 1 .. made' /\ doing'[s].company \in Companies
                        /\ doing'[s].kind = "checked" /\ ~doing'[s].unseen => \A j \in there' : parent'[j] # doing'[s].item
      BY DEF NoneUnseen
    <2>1. CASE s = r
      BY <1>1, <2>1, CatalogBasics DEF CatalogsTypeOK
    <2>2. CASE s # r
      <3>1. doing'[s] = doing[s]
        BY <1>1, <2>2 DEF CatalogsTypeOK
      <3>2. doing[s].kind = "checked" => doing[s].item # 0
        BY CatalogBasics DEF NoneUnseen
      <3>3. \A j \in there' : j \in there /\ (parent'[j] = 0 \/ parent'[j] = parent[j])
        BY <1>1, <1>3, CatalogBasics
      <3> QED
        BY <1>1, <3>1, <3>2, <3>3 DEF NoneUnseen
    <2> QED
      BY <2>1, <2>2
  <1> QED
    BY <1>4, <1>5, <1>7, <1>8, <1>9

\* An override puts every deletion of the row it is an override of out of date.
LEMMA OverrideKeeps ==
    ASSUME KInv, NEW r \in Editors, InsertOverride(r)
    PROVE  RowsTyped' /\ UpwardRows' /\ OneRoot' /\ DoingTyped' /\ NoneUnseen'
  <1> USE DEF KInv
  <1> DEFINE above == doing[r].item
  <1>1. /\ doing[r].kind = "override" /\ above \in there /\ Add(doing[r].company, above, concept[above]) /\ torn' = torn /\ lines' = lines
        /\ doing' = [s \in Editors |->
                       IF s = r THEN NoWork
                       ELSE IF doing[s].kind = "checked" /\ doing[s].item = above
                            THEN [doing[s] EXCEPT !.unseen = TRUE] ELSE doing[s]]
    BY DEF InsertOverride
  <1>2. above # 0 /\ doing[r].company \in Companies
    BY <1>1, CatalogBasics DEF NoneUnseen
  <1> HIDE DEF above
  <1>3. /\ RowsTyped' /\ UpwardRows' /\ OneRoot'
        /\ made' = made + 1 /\ there' = there \cup {made + 1} /\ parent'[made + 1] = above
        /\ \A i \in there : parent'[i] = parent[i]
    BY <1>1, <1>2, AddKeeps
  <1>4. DoingTyped'
    <2> SUFFICES ASSUME NEW s \in Editors
                 PROVE  doing'[s] \in [kind : {"none", "override", "loaded", "checked"},
                                       company : Companies \cup {Nowhere}, item : 0 .. MaxItems, unseen : BOOLEAN]
      BY <1>1 DEF DoingTyped, Companies
    <2>1. doing[s] \in [kind : {"none", "override", "loaded", "checked"},
                        company : Companies \cup {Nowhere}, item : 0 .. MaxItems, unseen : BOOLEAN]
      BY DEF CatalogsTypeOK
    <2>2. [doing[s] EXCEPT !.unseen = TRUE] \in [kind : {"none", "override", "loaded", "checked"},
                        company : Companies \cup {Nowhere}, item : 0 .. MaxItems, unseen : BOOLEAN]
      BY <2>1
    <2> QED
      BY <1>1, <2>1, <2>2, CatalogBasics
  <1>5. NoneUnseen'
    <2> SUFFICES ASSUME NEW s \in Editors
                 PROVE  /\ doing'[s].kind # "none" => doing'[s].item \in 1 .. made' /\ doing'[s].company \in Companies
                        /\ doing'[s].kind = "checked" /\ ~doing'[s].unseen => \A j \in there' : parent'[j] # doing'[s].item
      BY DEF NoneUnseen
    <2>1. CASE s = r
      BY <1>1, <2>1, CatalogBasics
    <2>2. CASE s # r /\ doing[s].kind = "checked" /\ doing[s].item = above
      <3>1. doing'[s] = [doing[s] EXCEPT !.unseen = TRUE]
        BY <1>1, <2>2
      <3>2. doing'[s].unseen /\ doing'[s].item = doing[s].item /\ doing'[s].company = doing[s].company
        BY <3>1 DEF CatalogsTypeOK
      <3> QED
        BY <1>3, <2>2, <3>2, CatalogBasics DEF NoneUnseen
    <2>3. CASE s # r /\ ~(doing[s].kind = "checked" /\ doing[s].item = above)
      <3>1. doing'[s] = doing[s]
        BY <1>1, <2>3
      <3> QED
        BY <1>3, <2>3, <3>1, CatalogBasics DEF NoneUnseen
    <2> QED
      BY <2>1, <2>2, <2>3
  <1> QED
    BY <1>3, <1>4, <1>5

\* A request that starts with a row that is there, goes on or stops leaves the rows alone.
LEMMA RowsSame ==
    ASSUME KInv, UNCHANGED <<made, there, owner, parent, concept, torn>>, lines' \subseteq there \X Companies
    PROVE  RowsTyped' /\ UpwardRows' /\ OneRoot'
  BY DEF KInv, CatalogsTypeOK, RowsTyped, UpwardRows, OneRoot, Items, Companies

LEMMA DoingSame ==
    ASSUME KInv, doing' = doing, made' \in {made, made + 1},
           \A j \in there' : IF j \in there THEN parent'[j] = parent[j] ELSE parent'[j] = 0
    PROVE  DoingTyped' /\ NoneUnseen'
  <1>1. DoingTyped'
    BY DEF KInv, CatalogsTypeOK, DoingTyped, Companies
  <1>2. ASSUME NEW r \in Editors
        PROVE  /\ doing'[r].kind # "none" => doing'[r].item \in 1 .. made' /\ doing'[r].company \in Companies
               /\ doing'[r].kind = "checked" /\ ~doing'[r].unseen => \A j \in there' : parent'[j] # doing'[r].item
    <2>1. doing[r].kind # "none" => doing[r].item # 0 /\ doing[r].item \in 1 .. made'
      BY CatalogBasics DEF KInv, NoneUnseen
    <2> QED
      BY <2>1 DEF KInv, NoneUnseen
  <1> QED
    BY <1>1, <1>2 DEF NoneUnseen

LEMMA RequestMoves ==
    ASSUME KInv, NEW r \in Editors, NEW w, doing' = [doing EXCEPT ![r] = w],
           w \in [kind : {"none", "override", "loaded", "checked"},
                  company : Companies \cup {Nowhere}, item : 0 .. MaxItems, unseen : BOOLEAN],
           w.kind # "none" => w.item \in 1 .. made /\ w.company \in Companies,
           w.kind = "checked" /\ ~w.unseen => \A j \in there : parent[j] # w.item,
           UNCHANGED <<made, there, parent>>
    PROVE  DoingTyped' /\ NoneUnseen'
  <1>1. DoingTyped'
    BY DEF KInv, CatalogsTypeOK, DoingTyped, Companies
  <1>2. \A s \in Editors : doing'[s] = IF s = r THEN w ELSE doing[s]
    BY DEF KInv, CatalogsTypeOK
  <1>3. NoneUnseen'
    BY <1>2 DEF KInv, NoneUnseen
  <1> QED
    BY <1>1, <1>3

LEMMA CatalogInit == InitCatalogs => KInv
  <1> SUFFICES ASSUME InitCatalogs PROVE KInv
    OBVIOUS
  <1>1. NoWork \in [kind : {"none", "override", "loaded", "checked"},
                    company : Companies \cup {Nowhere}, item : 0 .. MaxItems, unseen : BOOLEAN] /\ NoWork.kind = "none"
    BY ItemsAssumption DEF NoWork, Companies
  <1>2. CatalogsTypeOK
    BY <1>1, ItemsAssumption DEF InitCatalogs, CatalogsTypeOK, Companies
  <1>3. UpwardRows /\ OneRoot /\ NoneUnseen
    BY <1>1 DEF InitCatalogs, UpwardRows, OneRoot, NoneUnseen
  <1> QED
    BY <1>2, <1>3 DEF KInv

LEMMA CatalogNext == KInv /\ [NextCatalogs]_kvars => KInv'
  <1> SUFFICES ASSUME KInv, [NextCatalogs]_kvars PROVE KInv'
    OBVIOUS
  <1> DEFINE Kept == RowsTyped' /\ UpwardRows' /\ OneRoot' /\ DoingTyped' /\ NoneUnseen'
             rest == <<made, there, owner, parent, concept, torn>>
  <1> SUFFICES Kept
    BY DEF KInv, CatalogsTypeOK, RowsTyped, DoingTyped
  <1>a. CatalogsTypeOK
    BY DEF KInv
  <1>b. UNCHANGED rest /\ lines' \subseteq there \X Companies => RowsTyped' /\ UpwardRows' /\ OneRoot'
    BY RowsSame
  <1>1. ASSUME NEW c \in Companies, CreateItem(c) PROVE Kept
    <2>1. Add(c, 0, made + 1) /\ UNCHANGED <<lines, doing, torn>>
      BY <1>1 DEF CreateItem
    <2>2. /\ RowsTyped' /\ UpwardRows' /\ OneRoot'
          /\ made' = made + 1 /\ there' = there \cup {made + 1} /\ parent'[made + 1] = 0
          /\ \A i \in there : parent'[i] = parent[i]
      BY <2>1, AddKeeps
    <2>3. made + 1 \notin there
      BY <1>a, CatalogBasics
    <2>4. \A j \in there' : IF j \in there THEN parent'[j] = parent[j] ELSE parent'[j] = 0
      BY <2>2, <2>3
    <2>5. DoingTyped' /\ NoneUnseen'
      BY <2>1, <2>2, <2>4, DoingSame
    <2> QED
      BY <2>2, <2>5
  <1>2. ASSUME NEW i \in Items, NEW c \in Companies,
               InsertLine(i, c) \/ RemoveLines(i, c)
        PROVE  Kept
    <2>1. UNCHANGED rest /\ doing' = doing /\ lines' \subseteq there \X Companies
      BY <1>a, <1>2 DEF InsertLine, RemoveLines, CatalogsTypeOK
    <2>2. \A j \in there' : j \in there /\ parent'[j] = parent[j]
      BY <2>1
    <2>3. DoingTyped' /\ NoneUnseen'
      BY <2>1, <2>2, DoingSame
    <2> QED
      BY <1>b, <2>1, <2>3
  <1>3. ASSUME NEW r \in Editors, NEW c \in Companies, NEW i \in Items,
               ResolveOverride(r, c, i) \/ LoadDelete(r, c, i)
        PROVE  Kept
    <2>1. PICK kind \in {"override", "loaded"} : i \in there /\ Start(r, kind, c, i)
      BY <1>3 DEF ResolveOverride, LoadDelete, Visible
    <2> DEFINE w == [kind |-> kind, company |-> c, item |-> i, unseen |-> FALSE]
    <2>2. /\ doing' = [doing EXCEPT ![r] = w] /\ UNCHANGED rest /\ lines' = lines /\ lines \subseteq there \X Companies
          /\ i \in 1 .. made
      BY <1>a, <2>1, CatalogBasics DEF Start, CatalogsTypeOK
    <2>3. /\ w \in [kind : {"none", "override", "loaded", "checked"},
                    company : Companies \cup {Nowhere}, item : 0 .. MaxItems, unseen : BOOLEAN]
          /\ w.item \in 1 .. made /\ w.company \in Companies /\ w.kind # "checked"
      BY <1>a, <2>2, CatalogBasics DEF Items
    <2> HIDE DEF w
    <2> QED
      BY <1>b, <2>2, <2>3, RequestMoves
  <1>4. ASSUME NEW r \in Editors, CheckOverrides(r) PROVE Kept
    <2> DEFINE other == \E j \in there \ Visible(doing[r].company) : parent[j] = doing[r].item
               w == [doing[r] EXCEPT !.kind = "checked", !.unseen = other]
    <2>1. /\ doing' = [doing EXCEPT ![r] = w] /\ UNCHANGED rest /\ lines' = lines /\ lines \subseteq there \X Companies
          /\ doing[r].kind = "loaded" /\ (~other => \A j \in there : parent[j] # doing[r].item)
      BY <1>a, <1>4 DEF CheckOverrides, Overridden, CatalogsTypeOK
    <2>2. /\ w \in [kind : {"none", "override", "loaded", "checked"},
                    company : Companies \cup {Nowhere}, item : 0 .. MaxItems, unseen : BOOLEAN]
          /\ w.item = doing[r].item /\ w.item \in 1 .. made /\ w.company \in Companies /\ w.unseen = other
      BY <1>a, <2>1 DEF CatalogsTypeOK, KInv, NoneUnseen
    <2> HIDE DEF w, other
    <2> QED
      BY <1>b, <2>1, <2>2, RequestMoves
  <1>5. ASSUME NEW r \in Editors, AbortCatalog(r) PROVE Kept
    <2>1. doing' = [doing EXCEPT ![r] = NoWork] /\ UNCHANGED rest /\ lines' = lines /\ lines \subseteq there \X Companies
      BY <1>a, <1>5 DEF AbortCatalog, CatalogsTypeOK
    <2> QED
      BY <1>a, <1>b, <2>1, RequestMoves, CatalogBasics
  <1>6. ASSUME NEW r \in Editors, InsertOverride(r) \/ DeleteItem(r) PROVE Kept
    BY <1>6, OverrideKeeps, DeleteKeeps
  <1>7. CASE UNCHANGED kvars
    <2>1. UNCHANGED rest /\ doing' = doing /\ lines' \subseteq there \X Companies
      BY <1>a, <1>7 DEF kvars, CatalogsTypeOK
    <2>2. \A j \in there' : j \in there /\ parent'[j] = parent[j]
      BY <2>1
    <2>3. DoingTyped' /\ NoneUnseen'
      BY <2>1, <2>2, DoingSame
    <2> QED
      BY <1>b, <2>1, <2>3
  <1> HIDE DEF Kept
  <1> QED
    BY <1>1, <1>2, <1>3, <1>4, <1>5, <1>6, <1>7 DEF NextCatalogs

\* catalog_resolution.py: in every tree of companies each of them is shown one row of each original
\* item, that of its closest ancestor, unless a row was deleted while an override of it was not seen,
\* in another branch or just being created, or some row overrides one of a company below its own.
THEOREM CatalogsResolve == CatalogsSpec => []CatalogHolds
  BY CatalogInit, CatalogNext, GroupsFollow, PTL DEF CatalogsSpec

-----------------------------------------------------------------------------
(***************************************************************************)
(* Lists: what is on screen, while the table changes and answers come late. *)
(***************************************************************************)

\* What an answer holds: rows in order, as far as the cursor it was or will be read from next.  An
\* answer to append starts after the rows shown.
InOrder(a) ==
    /\ Ascending(a.got)
    /\ a.at = "sent" => \A i \in DOMAIN a.got : a.got[i] <= a.from
    /\ a.at = "served" /\ a.more # 0 =>
           a.more > a.from /\ \A i \in DOMAIN a.got : a.got[i] <= a.more
    /\ a.at # "idle" /\ ~a.replace => hook = "paged"
    /\ a.at = "sent" /\ ~a.replace => a.got = <<>>
    /\ a.at = "served" /\ ~a.replace => \A i \in DOMAIN a.got : a.got[i] > a.from

\* An answer that will be used is of the filter chosen, unless that was deselected, and has every
\* expected row of the pages it covers.  A page to append is the one after those shown.
Useful(a) ==
    a.current =>
        /\ a.at # "idle"
        /\ ~a.replace => want # None /\ next # 0 /\ a.from = next
        /\ want # None /\ ~unasked =>
               /\ a.of = want
               /\ \A k \in expected :
                      \/ a.at = "sent" /\ (a.replace => k > a.from)
                      \/ a.at = "served" /\ ~a.replace /\ k <= a.from
                      \/ a.at = "served" /\ a.more # 0 /\ k > a.more
                      \/ \E i \in DOMAIN a.got : a.got[i] = k

CallsFit == \A c \in Calls : InOrder(call[c]) /\ Useful(call[c])

OneIsCurrent == \A c, d \in Calls : call[c].current /\ call[d].current => c = d

\* The cursor is that of the last row shown; the whole list has none.
CursorIsLast ==
    /\ hook = "whole" => next = 0
    /\ next # 0 => \A i \in DOMAIN items : items[i] <= next

\* The rows the last reload had to find are still on the side they were on.
ExpectedMatch == want # None /\ ~unasked => \A k \in expected : side[k] = want

\* What is shown is complete while no reload is under way: LatestShown, whatever page is awaited.
ShownComplete ==
    want # None /\ ~unasked /\ ~broken /\ (\A c \in Calls : call[c].current => ~call[c].replace) =>
        /\ of = want
        /\ \A k \in expected : next = 0 \/ k <= next => \E i \in DOMAIN items : items[i] = k

\* Nothing is awaited from the server by a list that still waits for its token.
ColdIsFirst == cold => \A c \in Calls : ~call[c].current

\* What every step of a list preserves.
LInv ==
    /\ ListsTypeOK /\ EachOnce /\ SpinnerTells
    /\ CallsFit /\ OneIsCurrent /\ ColdIsFirst /\ CursorIsLast /\ ExpectedMatch /\ ShownComplete

\* The rows of a finite table can be read in the order of their keys.  Were there a set of rows
\* that cannot, a smallest one would be its least row before a set that can.
LEMMA RowsHaveAnOrder ==
    ASSUME NEW S, S \subseteq Nat, IsFiniteSet(S)
    PROVE  \E s \in [1 .. Cardinality(S) -> S] :
               \A i, j \in 1 .. Cardinality(S) : i < j => s[i] < s[j]
  <1> DEFINE Ordered(T) == \E s \in [1 .. Cardinality(T) -> T] :
                               \A i, j \in 1 .. Cardinality(T) : i < j => s[i] < s[j]
             Sizes == {Cardinality(T) : T \in {U \in SUBSET S : ~Ordered(U)}}
  <1> HIDE DEF Ordered
  <1> SUFFICES ASSUME ~Ordered(S)
               PROVE  FALSE
    BY DEF Ordered
  <1>1. \A T \in SUBSET S : IsFiniteSet(T) /\ Cardinality(T) \in Nat
    BY FS_Subset, FS_CardinalityType
  <1>2. PICK n \in Sizes : \A m \in Sizes : n <= m
    <2>1. Sizes \subseteq Nat
      BY <1>1
    <2>2. Sizes # {}
      OBVIOUS
    <2> HIDE DEF Sizes
    <2> QED
      BY <2>1, <2>2, LeastOf
  <1>3. PICK T \in SUBSET S : ~Ordered(T) /\ Cardinality(T) = n
    BY <1>2
  <1>4. n \in Nat /\ IsFiniteSet(T)
    BY <1>1, <1>3
  <1>5. T # {}
    <2> SUFFICES ASSUME T = {}
                 PROVE  FALSE
      OBVIOUS
    <2>1. Cardinality(T) = 0
      BY FS_EmptySet
    <2>2. [i \in 1 .. 0 |-> i] \in [1 .. 0 -> T]
      OBVIOUS
    <2>3. Ordered(T)
      BY <2>1, <2>2 DEF Ordered
    <2> QED
      BY <2>3, <1>3
  <1>6. PICK m \in T : \A k \in T : m <= k
    BY <1>5, LeastOf
  <1> DEFINE U == T \ {m}
  <1>7. Cardinality(U) = n - 1 /\ n >= 1
    <2>1. Cardinality(U) = n - 1
      BY <1>3, <1>4, FS_RemoveElement
    <2>2. Cardinality(U) \in Nat
      BY <1>1
    <2> QED
      BY <2>1, <2>2, <1>4
  <1>8. Ordered(U)
    <2>1. U \in SUBSET S
      OBVIOUS
    <2>2. ~Ordered(U) => Cardinality(U) \in Sizes
      BY <2>1
    <2>3. ~(n <= n - 1)
      BY <1>4
    <2> QED
      BY <2>2, <2>3, <1>2, <1>7
  <1>9. PICK s \in [1 .. n - 1 -> U] : \A i, j \in 1 .. n - 1 : i < j => s[i] < s[j]
    BY <1>7, <1>8 DEF Ordered
  <1> DEFINE t == [i \in 1 .. n |-> IF i = 1 THEN m ELSE s[i - 1]]
  <1>10. \A i \in 1 .. n : i # 1 => i - 1 \in 1 .. n - 1 /\ t[i] = s[i - 1] /\ t[i] \in U
    BY <1>4, <1>9
  <1>11. t \in [1 .. n -> T]
    BY <1>10
  <1>12. t[1] = m
    BY <1>4, <1>7
  <1>13. ASSUME NEW i \in 1 .. n, NEW j \in 1 .. n, i < j
         PROVE  t[i] < t[j]
    <2>1. j # 1 /\ i \in Int /\ j \in Int
      BY <1>4, <1>13
    <2>2. CASE i = 1
      <3>1. t[j] \in T /\ t[j] # m /\ m <= t[j]
        BY <1>6, <1>10, <2>1
      <3>2. m \in Nat /\ t[j] \in Nat
        BY <3>1
      <3>3. m < t[j]
        BY <3>1, <3>2
      <3> QED
        BY <2>2, <3>3, <1>12
    <2>3. CASE i # 1
      <3>1. i - 1 < j - 1
        BY <2>1, <1>13
      <3> QED
        BY <1>9, <1>10, <2>1, <2>3, <3>1
    <2> QED
      BY <2>2, <2>3
  <1> HIDE DEF t
  <1>14. Ordered(T)
    BY <1>3, <1>11, <1>13 DEF Ordered
  <1> QED
    BY <1>3, <1>14

\* What the server reads of a filter's rows after a cursor: all of them, each once, in order.
LEMMA LaterIsAll ==
    ASSUME ListsTypeOK, NEW f, NEW from
    PROVE  /\ Later(f, from) \in Seq(Keys)
           /\ Ascending(Later(f, from))
           /\ \A i \in 1 .. Len(Later(f, from)) : Later(f, from)[i] > from
           /\ \A k \in Matching(f) : k > from =>
                  \E i \in 1 .. Len(Later(f, from)) : Later(f, from)[i] = k
  <1> DEFINE rows == {k \in Matching(f) : k > from}
             n == Cardinality(rows)
             s == Later(f, from)
  <1>1. rows \subseteq Keys /\ rows \subseteq Nat
    BY TableAssumption DEF Matching
  <1>2. IsFiniteSet(rows) /\ n \in Nat
    BY <1>1, TableAssumption, FS_Subset, FS_CardinalityType
  <1>3. s \in [1 .. n -> rows] /\ \A i, j \in 1 .. n : i < j => s[i] < s[j]
    <2>1. \E r \in [1 .. n -> rows] : \A i, j \in 1 .. n : i < j => r[i] < r[j]
      BY <1>1, <1>2, RowsHaveAnOrder
    <2> HIDE DEF n, rows
    <2>2. s = CHOOSE r \in [1 .. n -> rows] : \A i, j \in 1 .. n : i < j => r[i] < r[j]
      BY DEF Later, n, rows
    <2> HIDE DEF s
    <2> QED
      BY <2>1, <2>2
  <1> HIDE DEF s, n
  <1>4. s \in Seq(Keys) /\ Len(s) = n /\ DOMAIN s = 1 .. n
    BY <1>1, <1>2, <1>3
  <1>5. \A i \in 1 .. n : s[i] > from
    BY <1>3
  <1>6. s \in Surjection(1 .. n, rows)
    <2>1. s \in Injection(1 .. n, rows)
      <3>1. \A i, j \in 1 .. n : s[i] = s[j] => i = j
        BY <1>1, <1>2, <1>3
      <3> QED
        BY <1>3, <3>1, Fun_IsInj
    <2>2. Cardinality(1 .. n) = Cardinality(rows)
      BY <1>2, FS_Interval DEF n
    <2> QED
      BY <1>2, <2>1, <2>2, FS_Injection
  <1>7. \A k \in rows : \E i \in 1 .. n : s[i] = k
    BY <1>6 DEF Surjection
  <1> QED
    BY <1>3, <1>4, <1>5, <1>7 DEF s, Ascending

\* A page and its cursor: rows of the filter after the cursor given, in order, and every one of
\* them up to the new cursor.
LEMMA PageIs ==
    ASSUME ListsTypeOK, NEW f, NEW from \in Keys \cup {0}, NEW p, p = Page(f, from),
           NEW n, n = NextCursor(f, from)
    PROVE  /\ p \in Seq(Keys) /\ Ascending(p) /\ n \in Keys \cup {0}
           /\ \A i \in DOMAIN p : p[i] > from
           /\ n # 0 => n > from /\ \A i \in DOMAIN p : p[i] <= n
           /\ \A k \in Matching(f) : k > from /\ (n = 0 \/ k <= n) => \E i \in DOMAIN p : p[i] = k
  <1>1. PICK s : s = Later(f, from)
    OBVIOUS
  <1>2. /\ s \in Seq(Keys) /\ Ascending(s)
        /\ \A i \in 1 .. Len(s) : s[i] > from
        /\ \A k \in Matching(f) : k > from => \E i \in 1 .. Len(s) : s[i] = k
    BY <1>1, LaterIsAll
  <1>3. PICK m : m = Len(s)
    OBVIOUS
  <1>4. m \in Nat /\ s \in [1 .. m -> Keys] /\ DOMAIN s = 1 .. m
    BY <1>2, <1>3, LenProperties
  <1>5. \E l : /\ l = (IF m < PageSize THEN m ELSE PageSize)
               /\ p = SubSeq(s, 1, l)
    BY <1>1, <1>3 DEF Page
  <1>6. PICK l : l = (IF m < PageSize THEN m ELSE PageSize) /\ p = SubSeq(s, 1, l)
    BY <1>5
  <1>7. n = IF m > PageSize THEN p[PageSize] ELSE 0
    BY <1>1, <1>3 DEF NextCursor
  <1>8. /\ l \in Nat /\ l <= m
        /\ \/ m > PageSize /\ l = PageSize /\ n = p[PageSize]
           \/ l = m /\ n = 0
    BY <1>4, <1>6, <1>7, PageAssumption
  <1>9. /\ p \in Seq(Keys) /\ Len(p) = IF 1 <= l THEN l - 1 + 1 ELSE 0
        /\ \A i \in 1 .. l - 1 + 1 : p[i] = s[1 + i - 1]
    <2>1. \A i \in 1 .. l : s[i] \in Keys
      BY <1>4, <1>8
    <2>2. 1 \in Int /\ l \in Int
      BY <1>8
    <2> QED
      BY <1>6, <2>1, <2>2, SubSeqProperties
  <1>10. Len(p) = l /\ \A i \in 1 .. l : p[i] = s[i]
    <2>1. l - 1 + 1 = l /\ \A i \in 1 .. l : 1 + i - 1 = i
      BY <1>8
    <2>2. (IF 1 <= l THEN l - 1 + 1 ELSE 0) = l
      BY <1>8
    <2> QED
      BY <1>9, <2>1, <2>2
  <1>11. DOMAIN p = 1 .. l
    BY <1>9, <1>10, LenProperties
  <1>12. /\ \A i, j \in 1 .. m : i < j => s[i] < s[j]
         /\ \A i \in 1 .. m : s[i] > from
         /\ \A k \in Matching(f) : k > from => \E i \in 1 .. m : s[i] = k
    BY <1>2, <1>3, <1>4 DEF Ascending
  <1>13. from \in Nat
    BY TableAssumption
  <1>14. Ascending(p) /\ \A i \in DOMAIN p : p[i] > from
    <2>1. \A i \in 1 .. l : i \in 1 .. m
      BY <1>4, <1>8
    <2> QED
      BY <2>1, <1>10, <1>11, <1>12 DEF Ascending
  <1>15. \A i \in 1 .. m : s[i] \in Keys /\ s[i] \in Nat \ {0}
    BY <1>4, TableAssumption
  <1>16. CASE m > PageSize /\ l = PageSize /\ n = p[PageSize]
    <2>1. l \in 1 .. m /\ l \in 1 .. l /\ n = s[l]
      BY <1>4, <1>8, <1>10, <1>16, PageAssumption
    <2>2. n \in Keys /\ n > from /\ n # 0
      BY <1>12, <1>15, <2>1
    <2>3. ASSUME NEW i \in 1 .. l
          PROVE  p[i] <= n
      <3>1. i \in 1 .. m /\ (i = l \/ i < l)
        BY <2>1, <1>4
      <3>2. s[i] <= s[l]
        BY <3>1, <2>1, <1>12, <1>15
      <3> QED
        BY <3>2, <2>1, <1>10
    <2>4. ASSUME NEW k \in Matching(f), k > from, k <= n
          PROVE  \E i \in DOMAIN p : p[i] = k
      <3>1. PICK i \in 1 .. m : s[i] = k
        BY <1>12, <2>4
      <3>2. ~(l < i)
        BY <3>1, <2>1, <2>4, <1>12, <1>15
      <3>3. i \in 1 .. l
        BY <3>2, <1>4, <1>8
      <3> QED
        BY <3>1, <3>3, <1>10, <1>11
    <2> QED
      BY <1>9, <1>11, <1>14, <2>2, <2>3, <2>4
  <1>17. CASE l = m /\ n = 0
    <2>1. \A k \in Matching(f) : k > from => \E i \in DOMAIN p : p[i] = k
      BY <1>10, <1>11, <1>12, <1>17
    <2> QED
      BY <1>9, <1>14, <1>17, <2>1
  <1> QED
    BY <1>8, <1>16, <1>17

\* Putting rows after rows.
Below(s, t) == \A i \in DOMAIN s : \A j \in DOMAIN t : s[i] < t[j]

Joins(u, s, t) ==
    /\ u \in Seq(Keys) /\ Ascending(u)
    /\ \A i \in DOMAIN u : \/ \E j \in DOMAIN s : s[j] = u[i]
                           \/ \E j \in DOMAIN t : t[j] = u[i]
    /\ \A j \in DOMAIN s : \E i \in DOMAIN u : u[i] = s[j]
    /\ \A j \in DOMAIN t : \E i \in DOMAIN u : u[i] = t[j]

LEMMA Appended ==
    ASSUME NEW s \in Seq(Keys), NEW t \in Seq(Keys), Ascending(s), Ascending(t), Below(s, t)
    PROVE  Joins(s \o t, s, t)
  <1>1. PICK u : u = s \o t
    OBVIOUS
  <1>2. PICK m \in Nat, n \in Nat : m = Len(s) /\ n = Len(t)
    BY LenProperties
  <1>3. DOMAIN s = 1 .. m /\ DOMAIN t = 1 .. n
    BY <1>2, LenProperties
  <1>4. /\ u \in Seq(Keys) /\ Len(u) = m + n
        /\ \A i \in 1 .. m + n : u[i] = IF i <= m THEN s[i] ELSE t[i - m]
    BY <1>1, <1>2, ConcatProperties
  <1>5. DOMAIN u = 1 .. m + n
    BY <1>4, LenProperties
  <1>6. \A i \in 1 .. m : i \in DOMAIN u /\ u[i] = s[i]
    <2>1. \A i \in 1 .. m : i \in 1 .. m + n /\ i <= m
      OBVIOUS
    <2> QED
      BY <1>4, <1>5, <2>1
  <1>7. \A i \in 1 .. n : m + i \in DOMAIN u /\ u[m + i] = t[i]
    <2>1. \A i \in 1 .. n : m + i \in 1 .. m + n /\ ~(m + i <= m) /\ m + i - m = i
      OBVIOUS
    <2> QED
      BY <1>4, <1>5, <2>1
  <1>8. \A i \in DOMAIN u : \/ i \in 1 .. m /\ u[i] = s[i]
                            \/ i - m \in 1 .. n /\ u[i] = t[i - m] /\ i > m
    <2> TAKE i \in DOMAIN u
    <2>1. i \in 1 .. m + n /\ i \in Int
      BY <1>5
    <2>2. CASE i <= m
      BY <2>1, <2>2, <1>4
    <2>3. CASE ~(i <= m)
      <3>1. i > m /\ i - m \in 1 .. n
        BY <2>1, <2>3
      <3> QED
        BY <2>1, <2>3, <3>1, <1>4
    <2> QED
      BY <2>2, <2>3
  <1>9. Ascending(u)
    <2> SUFFICES ASSUME NEW i \in DOMAIN u, NEW j \in DOMAIN u, i < j
                 PROVE  u[i] < u[j]
      BY DEF Ascending
    <2>1. i \in Int /\ j \in Int
      BY <1>5
    <2>2. CASE i \in 1 .. m /\ u[i] = s[i] /\ j \in 1 .. m /\ u[j] = s[j]
      BY <2>2, <1>3 DEF Ascending
    <2>3. CASE i \in 1 .. m /\ u[i] = s[i] /\ j - m \in 1 .. n /\ u[j] = t[j - m]
      BY <2>3, <1>3 DEF Below
    <2>4. CASE i > m /\ i - m \in 1 .. n /\ u[i] = t[i - m] /\ j - m \in 1 .. n /\ u[j] = t[j - m]
      <3>1. i - m < j - m
        BY <2>1
      <3> QED
        BY <2>4, <3>1, <1>3 DEF Ascending
    <2>5. ~(i > m /\ j \in 1 .. m)
      BY <2>1
    <2> QED
      BY <1>8, <2>2, <2>3, <2>4, <2>5
  <1>10. \A i \in DOMAIN u : \/ \E j \in DOMAIN s : s[j] = u[i]
                             \/ \E j \in DOMAIN t : t[j] = u[i]
    BY <1>3, <1>8
  <1>11. \A j \in DOMAIN s : \E i \in DOMAIN u : u[i] = s[j]
    BY <1>3, <1>6
  <1>12. \A j \in DOMAIN t : \E i \in DOMAIN u : u[i] = t[j]
    BY <1>3, <1>7
  <1> QED
    <2>1. Joins(u, s, t)
      BY <1>4, <1>9, <1>10, <1>11, <1>12 DEF Joins
    <2> QED
      BY <1>1, <2>1

\* A slot at rest, and one that did not move, fit as before.
LEMMA IdleFits ==
    ASSUME NEW d \in Calls, call'[d] = IdleCall
    PROVE  InOrder(call[d])' /\ Useful(call[d])' /\ ~call'[d].current
  <1>1. DOMAIN IdleCall.got = {}
    BY LenProperties, EmptySeq DEF IdleCall
  <1> QED
    BY <1>1 DEF InOrder, Useful, Ascending, IdleCall

LEMMA RestFits ==
    ASSUME LInv, NEW d \in Calls, call'[d] = call[d], hook' = hook,
           \/ ~call[d].current
           \/ next' = next /\ want' # None /\ unasked'
           \/ next' = next /\ want' = want /\ unasked' = unasked /\ expected' \subseteq expected
    PROVE  InOrder(call[d])' /\ Useful(call[d])'
  <1>1. InOrder(call[d]) /\ Useful(call[d])
    BY DEF LInv, CallsFit
  <1>2. InOrder(call[d])'
    BY <1>1 DEF InOrder, Ascending
  <1>3. Useful(call[d])'
    BY <1>1 DEF Useful
  <1> QED
    BY <1>2, <1>3

\* What a slot holds, and when the spinner turns.
LEMMA SlotIs ==
    ASSUME LInv, NEW c \in Calls
    PROVE  /\ call[c].at \in {"idle", "sent", "served"} /\ call[c].from \in Keys \cup {0}
           /\ call[c].of \in Filters \cup {None} /\ call[c].got \in Seq(Keys)
           /\ call[c].more \in Keys \cup {0}
           /\ call[c].replace \in BOOLEAN /\ call[c].current \in BOOLEAN
  BY DEF LInv, ListsTypeOK, ListCall

LEMMA SpinnerIs ==
    ASSUME LInv
    PROVE  /\ loading <=> cold \/ \E c \in Calls : call[c].current
           /\ hook = "paged" /\ want = None => ~loading
  <1>1. \A c \in Calls : call[c].current => call[c].at # "idle"
    BY DEF LInv, CallsFit, Useful
  <1> QED
    BY <1>1 DEF LInv, SpinnerTells

LEMMA SpinnerAfter ==
    ASSUME CallsFit', loading' <=> cold' \/ \E c \in Calls : call'[c].current,
           hook' = "paged" /\ want' = None => ~loading'
    PROVE  SpinnerTells'
  <1>1. \A c \in Calls : call'[c].current => call'[c].at # "idle"
    BY DEF CallsFit, Useful
  <1> QED
    BY <1>1 DEF SpinnerTells

\* Keys and cursors are naturals.
LEMMA KeysCount == Keys \subseteq Nat /\ Keys \cup {0} \subseteq Nat /\ 0 \notin Keys
  BY TableAssumption

LEMMA RowsCount ==
    ASSUME NEW s \in Seq(Keys)
    PROVE  \A i \in DOMAIN s : s[i] \in Keys /\ s[i] \in Nat
  BY KeysCount, LenProperties, ElementOfSeq

\* The call of a slot ends.
LEMMA EndsCall ==
    ASSUME LInv, NEW c \in Calls, End(c)
    PROVE  /\ call' \in [Calls -> ListCall]
           /\ call'[c] = IdleCall
           /\ \A d \in Calls : d # c => call'[d] = call[d]
           /\ \A d \in Calls : call'[d].current => d # c /\ call[d].current
  <1>1. <<>> \in Seq(Keys)
    BY EmptySeq
  <1>2. IdleCall \in ListCall
    BY <1>1 DEF IdleCall, ListCall
  <1>3. ~IdleCall.current
    BY DEF IdleCall
  <1>4. /\ call'[c] = IdleCall
        /\ \A d \in Calls : d # c => call'[d] = call[d]
    BY DEF LInv, ListsTypeOK, End
  <1>5. call' \in [Calls -> ListCall]
    BY <1>2 DEF LInv, ListsTypeOK, End
  <1> QED
    BY <1>3, <1>4, <1>5

LEMMA ListsInit == InitLists => LInv
  <1> SUFFICES ASSUME InitLists
               PROVE  LInv
    OBVIOUS
  <1>1. <<>> \in Seq(Keys) /\ DOMAIN <<>> = {}
    BY EmptySeq, LenProperties
  <1>2. \A c \in Calls : call[c] = IdleCall /\ ~call[c].current /\ call[c].at = "idle" /\ call[c].got = <<>>
    BY DEF InitLists, IdleCall
  <1>3. ListsTypeOK
    <2>1. IdleCall \in ListCall
      BY <1>1 DEF IdleCall, ListCall
    <2>2. call \in [Calls -> ListCall]
      BY <2>1 DEF InitLists
    <2>3. 0 \in 0 .. MaxMoves
      BY MovesAssumption
    <2> QED
      BY <1>1, <2>2, <2>3 DEF InitLists, ListsTypeOK
  <1>4. EachOnce /\ CursorIsLast /\ ExpectedMatch /\ ShownComplete
    BY <1>1 DEF InitLists, EachOnce, Ascending, CursorIsLast, ExpectedMatch, ShownComplete
  <1>5. CallsFit /\ OneIsCurrent /\ ColdIsFirst /\ SpinnerTells
    BY <1>1, <1>2 DEF CallsFit, InOrder, Useful, Ascending, OneIsCurrent, ColdIsFirst, SpinnerTells, InitLists
  <1> QED
    BY <1>3, <1>4, <1>5 DEF LInv

\* The rows of an answer after the server read a page for it.
LEMMA ServeKeeps ==
    ASSUME LInv, NEW c \in Calls, Serve(c)
    PROVE  LInv'
  <1>1. PICK p, n : p = Page(call[c].of, call[c].from) /\ n = NextCursor(call[c].of, call[c].from)
    OBVIOUS
  <1>2. /\ p \in Seq(Keys) /\ Ascending(p) /\ n \in Keys \cup {0}
        /\ \A i \in DOMAIN p : p[i] > call[c].from
        /\ n # 0 => n > call[c].from /\ \A i \in DOMAIN p : p[i] <= n
        /\ \A k \in Matching(call[c].of) : k > call[c].from /\ (n = 0 \/ k <= n) =>
               \E i \in DOMAIN p : p[i] = k
    BY <1>1, SlotIs, PageIs DEF LInv
  <1>3. call[c].at = "sent" /\ InOrder(call[c]) /\ Useful(call[c])
    BY DEF LInv, CallsFit, Serve
  <1>4. PICK g : g = call[c].got \o p
    OBVIOUS
  <1>5. /\ call'[c].at = "served" /\ call'[c].from = call[c].from /\ call'[c].of = call[c].of
        /\ call'[c].replace = call[c].replace /\ call'[c].current = call[c].current
        /\ call'[c].got = g /\ call'[c].more = n
        /\ \A d \in Calls : d # c => call'[d] = call[d]
        /\ call' \in [Calls -> ListCall]
    <2>1. g \in Seq(Keys)
      BY <1>2, <1>4, SlotIs, ConcatProperties
    <2>2. PICK b : b = [call[c] EXCEPT !.at = "served", !.got = g, !.more = n]
      OBVIOUS
    <2>3. call[c] \in ListCall
      BY DEF LInv, ListsTypeOK
    <2>4. b \in ListCall
      BY <1>2, <2>1, <2>2, <2>3 DEF ListCall
    <2>5. /\ b.at = "served" /\ b.from = call[c].from /\ b.of = call[c].of
          /\ b.replace = call[c].replace /\ b.current = call[c].current /\ b.got = g /\ b.more = n
      BY <2>2, <2>3 DEF ListCall
    <2>6. call' = [call EXCEPT ![c] = b]
      BY <1>1, <1>4, <2>2 DEF Serve
    <2> QED
      BY <2>4, <2>5, <2>6 DEF LInv, ListsTypeOK
  <1>6. PICK from, got : from = call[c].from /\ got = call[c].got
    OBVIOUS
  <1>7. /\ from \in Nat /\ n \in Nat /\ got \in Seq(Keys) /\ Ascending(got)
        /\ \A i \in DOMAIN got : got[i] \in Nat /\ got[i] <= from
        /\ \A i \in DOMAIN p : p[i] \in Nat /\ p[i] > from
    <2>1. from \in Nat /\ n \in Nat /\ got \in Seq(Keys)
      BY <1>2, <1>6, SlotIs, KeysCount
    <2>2. \A i \in DOMAIN got : got[i] \in Nat
      BY <2>1, RowsCount
    <2>3. \A i \in DOMAIN p : p[i] \in Nat
      BY <1>2, RowsCount
    <2>4. Ascending(got) /\ \A i \in DOMAIN got : got[i] <= from
      BY <1>3, <1>6 DEF InOrder
    <2> QED
      BY <2>1, <2>2, <2>3, <2>4, <1>2, <1>6
  <1>8. /\ Ascending(g)
        /\ \A i \in DOMAIN g : \/ \E j \in DOMAIN got : got[j] = g[i]
                              \/ \E j \in DOMAIN p : p[j] = g[i]
        /\ \A j \in DOMAIN got : \E i \in DOMAIN g : g[i] = got[j]
        /\ \A j \in DOMAIN p : \E i \in DOMAIN g : g[i] = p[j]
    <2>1. Below(got, p)
      BY <1>7 DEF Below
    <2>2. g = got \o p /\ p \in Seq(Keys) /\ got \in Seq(Keys) /\ Ascending(p) /\ Ascending(got)
      BY <1>2, <1>4, <1>6, <1>7
    <2>3. Joins(g, got, p)
      BY Zenon, <2>1, <2>2, Appended
    <2> QED
      BY <2>3 DEF Joins
  <1>9. n # 0 => n > from /\ \A i \in DOMAIN g : g[i] <= n
    <2> SUFFICES ASSUME n # 0
                 PROVE  n > from /\ \A i \in DOMAIN g : g[i] <= n
      OBVIOUS
    <2>1. n > from /\ \A i \in DOMAIN p : p[i] <= n
      BY <1>2, <1>6
    <2>2. \A i \in DOMAIN got : got[i] <= n
      BY <2>1, <1>7
    <2> QED
      BY <2>1, <2>2, <1>8
  <1>10. ~call[c].replace => hook = "paged" /\ \A i \in DOMAIN g : g[i] > from
    <2> SUFFICES ASSUME ~call[c].replace
                 PROVE  hook = "paged" /\ \A i \in DOMAIN g : g[i] > from
      OBVIOUS
    <2>1. hook = "paged" /\ got = <<>>
      BY <1>3, <1>6 DEF InOrder
    <2>2. g = p
      BY <2>1, <1>2, <1>4, <1>6, ConcatEmptySeq
    <2> QED
      BY <2>1, <2>2, <1>7
  <1>11. InOrder(call[c])'
    <2>1. hook' = hook /\ Ascending(g)
      BY <1>8 DEF Serve
    <2> QED
      BY <1>5, <1>6, <1>9, <1>10, <2>1 DEF InOrder, Ascending
  <1>12. Useful(call[c])'
    <2> SUFFICES ASSUME call[c].current
                 PROVE  Useful(call[c])'
      BY <1>5 DEF Useful
    <2>1. /\ ~call[c].replace => want # None /\ next # 0 /\ call[c].from = next
          /\ want # None /\ ~unasked => call[c].of = want
      BY <1>3 DEF Useful
    <2>2. ASSUME want # None, ~unasked, NEW k \in expected
          PROVE  \/ ~call[c].replace /\ k <= from
                 \/ n # 0 /\ k > n
                 \/ \E i \in DOMAIN g : g[i] = k
      <3>1. k \in Nat /\ k \in Matching(call[c].of)
        BY <2>1, <2>2, KeysCount DEF LInv, ListsTypeOK, ExpectedMatch, Matching
      <3>2. (call[c].replace => k > from) \/ \E i \in DOMAIN got : got[i] = k
        BY <2>2, <1>3, <1>6 DEF Useful
      <3>3. k > from /\ (n = 0 \/ k <= n) => \E i \in DOMAIN p : p[i] = k
        BY <3>1, <1>2, <1>6
      <3>4. (k > from \/ k <= from) /\ (n = 0 \/ k <= n \/ k > n)
        BY <3>1, <1>7
      <3> QED
        BY <3>2, <3>3, <3>4, <1>7, <1>8
    <2>3. want' = want /\ unasked' = unasked /\ next' = next /\ expected' = expected
      BY DEF Serve, shown, past
    <2> QED
      BY <1>5, <1>6, <2>1, <2>2, <2>3 DEF Useful
  <1>13. CallsFit'
    BY <1>5, <1>11, <1>12, RestFits DEF CallsFit, Serve, shown, past
  <1>14. \A d \in Calls : call'[d].current = call[d].current /\ call'[d].replace = call[d].replace
    BY <1>5
  <1>15. OneIsCurrent' /\ ColdIsFirst' /\ ShownComplete'
    BY <1>14 DEF LInv, OneIsCurrent, ColdIsFirst, ShownComplete, Serve, shown, past
  <1>16. SpinnerTells'
    <2>1. UNCHANGED <<hook, want, loading, cold>>
      BY DEF Serve, shown, past
    <2>2. loading' <=> cold' \/ \E d \in Calls : call'[d].current
      BY <1>14, <2>1, SpinnerIs
    <2> QED
      BY <1>13, <2>1, <2>2, SpinnerIs, SpinnerAfter
  <1>17. ListsTypeOK' /\ EachOnce' /\ CursorIsLast' /\ ExpectedMatch'
    BY <1>5 DEF LInv, ListsTypeOK, EachOnce, Ascending, CursorIsLast, ExpectedMatch, Serve, shown, past
  <1> QED
    BY <1>13, <1>15, <1>16, <1>17 DEF LInv

\* A row that comes, goes or changes sides is no longer expected.
LEMMA ChangeKeeps ==
    ASSUME LInv, NEW k \in Keys, NEW f \in Filters \cup {None}, ChangeRow(k, f)
    PROVE  LInv'
  <1>1. /\ UNCHANGED <<hook, want, items, next, loading, call, of, broken, unasked, cold>>
        /\ expected' \subseteq expected
    BY DEF ChangeRow, shown
  <1>2. ListsTypeOK'
    BY MovesAssumption DEF LInv, ListsTypeOK, ChangeRow, shown
  <1>3. CallsFit'
    BY <1>1, RestFits DEF CallsFit
  <1>4. ExpectedMatch'
    BY DEF LInv, ListsTypeOK, ExpectedMatch, ChangeRow
  <1>5. EachOnce' /\ SpinnerTells' /\ OneIsCurrent' /\ ColdIsFirst' /\ CursorIsLast'
    BY <1>1 DEF LInv, EachOnce, Ascending, SpinnerTells, OneIsCurrent, ColdIsFirst, CursorIsLast
  <1>6. ShownComplete'
    BY <1>1 DEF LInv, ShownComplete
  <1> QED
    BY <1>2, <1>3, <1>4, <1>5, <1>6 DEF LInv

\* A reload supersedes every other call, and expects the rows that are there when it begins.
LEMMA BeginKeeps ==
    ASSUME LInv, NEW c \in Calls, NEW f \in Filters, Begin(c, f), want' = f, token' \in BOOLEAN
    PROVE  LInv'
  <1>1. f # None /\ f \in Filters \cup {None}
    BY FilterAssumption
  <1>2. /\ call'[c].at = "sent" /\ call'[c].from = 0 /\ call'[c].of = f
        /\ call'[c].replace /\ call'[c].current /\ call'[c].got = <<>>
    BY DEF Begin, IdleCall
  <1>3. ASSUME NEW d \in Calls, d # c
        PROVE  /\ call'[d] \in ListCall /\ ~call'[d].current
               /\ call'[d].at = call[d].at /\ call'[d].from = call[d].from
               /\ call'[d].replace = call[d].replace /\ call'[d].got = call[d].got
               /\ call'[d].more = call[d].more
    <2>1. call[d] \in ListCall /\ call'[d] = [call[d] EXCEPT !.current = FALSE]
      BY <1>3 DEF LInv, ListsTypeOK, Begin
    <2> QED
      BY <2>1 DEF ListCall
  <1>4. <<>> \in Seq(Keys) /\ DOMAIN <<>> = {}
    BY EmptySeq, LenProperties
  <1>5. call' \in [Calls -> ListCall]
    <2>1. call'[c] \in ListCall
      BY <1>1, <1>4 DEF Begin, IdleCall, ListCall
    <2>2. \A d \in Calls : call'[d] \in ListCall
      BY <1>3, <2>1
    <2>3. call' = [d \in Calls |-> call'[d]]
      BY DEF Begin
    <2> QED
      BY <2>2, <2>3
  <1>6. ListsTypeOK'
    BY <1>1, <1>5 DEF LInv, ListsTypeOK, Begin, Matching
  <1>7. expected' = {k \in Keys : side[k] = f} /\ loading'
    BY DEF Begin, Matching
  <1>8. InOrder(call[c])' /\ Useful(call[c])'
    <2>1. InOrder(call[c])'
      BY <1>2, <1>4 DEF InOrder, Ascending
    <2>2. \A k \in expected' : k > 0
      BY <1>7, TableAssumption
    <2> QED
      BY <1>2, <2>1, <2>2 DEF Useful
  <1>9. ASSUME NEW d \in Calls, d # c
        PROVE  InOrder(call[d])' /\ Useful(call[d])'
    <2>1. InOrder(call[d]) /\ hook' = hook
      BY DEF LInv, CallsFit, Begin
    <2> QED
      BY <1>3, <1>9, <2>1 DEF InOrder, Useful, Ascending
  <1>10. CallsFit'
    BY <1>8, <1>9 DEF CallsFit
  <1>11. OneIsCurrent' /\ ColdIsFirst'
    BY <1>3 DEF OneIsCurrent, ColdIsFirst, Begin
  <1>12. SpinnerTells'
    BY <1>1, <1>2, <1>7, <1>10, SpinnerAfter
  <1>13. EachOnce' /\ CursorIsLast'
    <2>1. UNCHANGED <<hook, items, next>>
      BY DEF Begin
    <2> QED
      BY <2>1 DEF LInv, EachOnce, Ascending, CursorIsLast
  <1>14. ExpectedMatch'
    BY <1>7 DEF ExpectedMatch, Begin
  <1>15. ShownComplete'
    BY <1>2 DEF ShownComplete
  <1> QED
    BY <1>6, <1>10, <1>11, <1>12, <1>13, <1>14, <1>15 DEF LInv

\* Deselecting the parent: the paged hook gives up every call, the whole one goes on.
LEMMA DeselectKeeps ==
    ASSUME LInv, Deselect
    PROVE  LInv'
  <1>1. want' = None /\ unasked' = FALSE /\ UNCHANGED <<hook, side, changed, token, of, broken, expected>>
    BY DEF Deselect
  <1>2. ExpectedMatch' /\ ShownComplete'
    BY <1>1 DEF ExpectedMatch, ShownComplete
  <1>3. CASE hook = "paged" /\ Deselect
    <2>1. items' = <<>> /\ next' = 0 /\ loading' = FALSE /\ error' = FALSE /\ cold' = FALSE
      BY <1>3 DEF Deselect
    <2>2. call' = [c \in Calls |-> [call[c] EXCEPT !.current = FALSE]]
      BY <1>3 DEF Deselect
    <2>3. ASSUME NEW d \in Calls
          PROVE  /\ call'[d] \in ListCall /\ ~call'[d].current
                 /\ call'[d].at = call[d].at /\ call'[d].from = call[d].from
                 /\ call'[d].replace = call[d].replace /\ call'[d].got = call[d].got
                 /\ call'[d].more = call[d].more
      <3>1. call[d] \in ListCall /\ call'[d] = [call[d] EXCEPT !.current = FALSE]
        BY <2>2 DEF LInv, ListsTypeOK
      <3> QED
        BY <3>1 DEF ListCall
    <2>4. <<>> \in Seq(Keys) /\ DOMAIN <<>> = {}
      BY EmptySeq, LenProperties
    <2>5. ListsTypeOK'
      <3>1. call' \in [Calls -> ListCall]
        BY <2>2, <2>3
      <3> QED
        BY <1>1, <2>1, <2>4, <3>1 DEF LInv, ListsTypeOK
    <2>6. CallsFit'
      <3> SUFFICES ASSUME NEW d \in Calls
                   PROVE  InOrder(call[d])' /\ Useful(call[d])'
        BY DEF CallsFit
      <3>1. InOrder(call[d])
        BY DEF LInv, CallsFit
      <3> QED
        BY <1>1, <2>3, <3>1 DEF InOrder, Useful, Ascending
    <2>7. OneIsCurrent' /\ ColdIsFirst'
      BY <2>3 DEF OneIsCurrent, ColdIsFirst
    <2>8. SpinnerTells'
      BY <2>1, <2>3, <2>6, SpinnerAfter
    <2>9. EachOnce' /\ CursorIsLast'
      BY <2>1, <2>4 DEF EachOnce, Ascending, CursorIsLast
    <2> QED
      BY <1>2, <2>5, <2>6, <2>7, <2>8, <2>9 DEF LInv
  <1>4. CASE hook = "whole" /\ Deselect
    <2>1. UNCHANGED <<call, items, next, loading, error, cold>>
      BY <1>4 DEF Deselect, shown
    <2>2. ListsTypeOK'
      BY <1>1, <2>1 DEF LInv, ListsTypeOK
    <2>3. CallsFit'
      <3> SUFFICES ASSUME NEW d \in Calls
                   PROVE  InOrder(call[d])' /\ Useful(call[d])'
        BY DEF CallsFit
      <3>1. InOrder(call[d]) /\ (call[d].current => call[d].at # "idle")
        BY DEF LInv, CallsFit, Useful
      <3>2. call[d].current => call[d].replace
        BY <1>4, <3>1 DEF InOrder
      <3> QED
        BY <1>1, <2>1, <3>1, <3>2 DEF InOrder, Useful, Ascending
    <2>4. EachOnce' /\ OneIsCurrent' /\ ColdIsFirst' /\ CursorIsLast'
      BY <1>1, <2>1 DEF LInv, EachOnce, Ascending, OneIsCurrent, ColdIsFirst, CursorIsLast
    <2>5. SpinnerTells'
      BY <1>1, <1>4, <2>1 DEF LInv, SpinnerTells
    <2> QED
      BY <1>2, <2>2, <2>3, <2>4, <2>5 DEF LInv
  <1> QED
    BY <1>3, <1>4 DEF LInv, ListsTypeOK

\* A filter chosen without a token: nothing is claimed of the list until it is asked for.
LEMMA SelectUnreadyKeeps ==
    ASSUME LInv, NEW f \in Filters, SelectUnready(f)
    PROVE  LInv'
  <1>1. /\ want' = f /\ f # None /\ f \in Filters \cup {None} /\ unasked' = TRUE
        /\ UNCHANGED <<hook, side, changed, token, items, next, loading, error, call, of, broken, cold, expected>>
    BY FilterAssumption DEF SelectUnready, shown
  <1>2. CallsFit'
    BY <1>1, RestFits DEF CallsFit
  <1>3. ListsTypeOK' /\ EachOnce' /\ OneIsCurrent' /\ ColdIsFirst' /\ CursorIsLast'
    BY <1>1 DEF LInv, ListsTypeOK, EachOnce, Ascending, OneIsCurrent, ColdIsFirst, CursorIsLast
  <1>4. ExpectedMatch' /\ ShownComplete' /\ SpinnerTells'
    BY <1>1 DEF LInv, ExpectedMatch, ShownComplete, SpinnerTells
  <1> QED
    BY <1>2, <1>3, <1>4 DEF LInv

\* A page to append is asked for while nothing else is awaited.
LEMMA LoadMoreKeeps ==
    ASSUME LInv, NEW c \in Calls, LoadMore(c)
    PROVE  LInv'
  <1>1. /\ hook = "paged" /\ want # None /\ next # 0 /\ ~loading
        /\ loading' = TRUE
        /\ UNCHANGED <<hook, side, changed, token, want, items, next, of, broken, unasked, cold, expected>>
    BY DEF LoadMore, past
  <1>2. ~cold /\ \A d \in Calls : ~call[d].current
    BY <1>1, SpinnerIs
  <1>3. <<>> \in Seq(Keys) /\ DOMAIN <<>> = {}
    BY EmptySeq, LenProperties
  <1>4. PICK b : b = [IdleCall EXCEPT !.at = "sent", !.from = next, !.of = want, !.current = TRUE]
    OBVIOUS
  <1>5. /\ b \in ListCall /\ b.at = "sent" /\ b.from = next /\ b.of = want /\ b.current
        /\ ~b.replace /\ b.got = <<>>
    BY <1>3, <1>4 DEF IdleCall, ListCall, LInv, ListsTypeOK
  <1>6. /\ call'[c] = b /\ call' \in [Calls -> ListCall]
        /\ \A d \in Calls : d # c => call'[d] = call[d]
    BY <1>4, <1>5 DEF LInv, ListsTypeOK, LoadMore
  <1>7. ListsTypeOK'
    BY <1>1, <1>6 DEF LInv, ListsTypeOK, LoadMore
  <1>8. InOrder(call[c])' /\ Useful(call[c])'
    BY <1>1, <1>3, <1>5, <1>6 DEF InOrder, Useful, Ascending
  <1>9. CallsFit'
    BY <1>1, <1>6, <1>8, RestFits DEF CallsFit
  <1>10. OneIsCurrent' /\ ColdIsFirst'
    BY <1>1, <1>2, <1>6 DEF OneIsCurrent, ColdIsFirst
  <1>11. SpinnerTells'
    BY <1>1, <1>5, <1>6, <1>9, SpinnerAfter
  <1>12. EachOnce' /\ CursorIsLast' /\ ExpectedMatch'
    BY <1>1 DEF LInv, EachOnce, Ascending, CursorIsLast, ExpectedMatch
  <1>13. ShownComplete'
    BY <1>1, <1>2 DEF LInv, ShownComplete
  <1> QED
    BY <1>7, <1>9, <1>10, <1>11, <1>12, <1>13 DEF LInv

\* The call that was to be used ends: no other was.
LEMMA CurrentEnds ==
    ASSUME LInv, NEW c \in Calls, call[c].current, End(c), hook' = hook, loading' = FALSE, cold' = cold
    PROVE  /\ CallsFit' /\ OneIsCurrent' /\ ColdIsFirst' /\ SpinnerTells'
           /\ \A d \in Calls : ~call'[d].current
           /\ \A d \in Calls : call[d].current => d = c
  <1>1. \A d \in Calls : call[d].current => d = c
    BY DEF LInv, OneIsCurrent
  <1>2. \A d \in Calls : ~call'[d].current
    BY <1>1, EndsCall
  <1>3. CallsFit'
    <2> SUFFICES ASSUME NEW d \in Calls
                 PROVE  InOrder(call[d])' /\ Useful(call[d])'
      BY DEF CallsFit
    <2>1. CASE d = c
      BY <2>1, EndsCall, IdleFits
    <2>2. CASE d # c
      BY <2>2, <1>1, EndsCall, RestFits
    <2> QED
      BY <2>1, <2>2
  <1>4. OneIsCurrent' /\ ColdIsFirst'
    BY <1>2 DEF OneIsCurrent, ColdIsFirst
  <1>5. SpinnerTells'
    <2>1. ~cold
      BY DEF LInv, ColdIsFirst
    <2> QED
      BY <1>2, <1>3, <2>1, SpinnerAfter
  <1> QED
    BY <1>1, <1>2, <1>3, <1>4, <1>5

\* What the call that will be used holds when it is served.
LEMMA ServedIs ==
    ASSUME LInv, NEW c \in Calls, call[c].at = "served", call[c].current
    PROVE  /\ call[c].got \in Seq(Keys) /\ Ascending(call[c].got) /\ call[c].more \in Keys \cup {0}
           /\ call[c].of \in Filters \cup {None} /\ call[c].replace \in BOOLEAN
           /\ call[c].more # 0 => /\ call[c].more > call[c].from
                                  /\ \A i \in DOMAIN call[c].got : call[c].got[i] <= call[c].more
           /\ ~call[c].replace =>
                  /\ hook = "paged" /\ want # None /\ next # 0 /\ call[c].from = next
                  /\ \A i \in DOMAIN call[c].got : call[c].got[i] > next
           /\ ~cold
           /\ want # None /\ ~unasked =>
                  /\ call[c].of = want
                  /\ \A k \in expected :
                         \/ ~call[c].replace /\ k <= next
                         \/ call[c].more # 0 /\ k > call[c].more
                         \/ \E i \in DOMAIN call[c].got : call[c].got[i] = k
  <1>1. InOrder(call[c]) /\ Useful(call[c])
    BY DEF LInv, CallsFit
  <1> QED
    BY <1>1, SlotIs DEF LInv, ColdIsFirst, InOrder, Useful

\* A first page replaces what is shown, another is appended to it.
LEMMA DeliverPageKeeps ==
    ASSUME LInv, NEW c \in Calls, DeliverPage(c)
    PROVE  LInv'
  <1>1. /\ call[c].at = "served" /\ call[c].current /\ hook = "paged" /\ End(c)
        /\ next' = call[c].more /\ loading' = FALSE
        /\ UNCHANGED <<hook, side, changed, token, want, error, unasked, cold, expected>>
    BY DEF DeliverPage, IsCurrent
  <1>2. PICK got, more : got = call[c].got /\ more = call[c].more
    OBVIOUS
  <1>3. /\ got \in Seq(Keys) /\ Ascending(got) /\ more \in Keys \cup {0}
        /\ more # 0 => more > call[c].from /\ \A i \in DOMAIN got : got[i] <= more
        /\ ~call[c].replace => /\ want # None /\ next # 0 /\ call[c].from = next
                               /\ \A i \in DOMAIN got : got[i] > next
        /\ want # None /\ ~unasked =>
                          /\ call[c].of = want
                          /\ \A k \in expected : \/ ~call[c].replace /\ k <= next
                                                 \/ more # 0 /\ k > more
                                                 \/ \E i \in DOMAIN got : got[i] = k
    BY <1>1, <1>2, ServedIs
  <1>4. /\ of' = IF call[c].replace \/ of = call[c].of THEN call[c].of ELSE None
        /\ broken' = (broken /\ ~call[c].replace)
    BY DEF DeliverPage, Show
  <1>5. /\ CallsFit' /\ OneIsCurrent' /\ ColdIsFirst' /\ SpinnerTells'
        /\ \A d \in Calls : call[d].current => d = c
    BY <1>1, CurrentEnds
  <1>6. ExpectedMatch'
    BY <1>1 DEF LInv, ExpectedMatch
  <1>7. items \in Seq(Keys) /\ next \in Keys \cup {0} /\ expected \subseteq Keys
    BY DEF LInv, ListsTypeOK
  <1>8. items' \in Seq(Keys) => ListsTypeOK'
    <2>1. call' \in [Calls -> ListCall] /\ call[c].of \in Filters \cup {None}
      BY <1>1, EndsCall, SlotIs
    <2>2. of' \in Filters \cup {None} /\ broken' \in BOOLEAN
      BY <2>1, <1>4 DEF LInv, ListsTypeOK
    <2> QED
      BY <1>1, <1>2, <1>3, <2>1, <2>2 DEF LInv, ListsTypeOK
  <1>9. CASE call[c].replace
    <2>1. items' = got /\ of' = call[c].of
      BY <1>2, <1>4, <1>9 DEF DeliverPage
    <2>2. EachOnce' /\ CursorIsLast'
      BY <1>1, <1>2, <1>3, <2>1 DEF EachOnce, Ascending, CursorIsLast
    <2>3. ShownComplete'
      <3> SUFFICES ASSUME want # None, ~unasked
                   PROVE  /\ of' = want
                          /\ \A k \in expected : more = 0 \/ k <= more =>
                                 \E i \in DOMAIN got : got[i] = k
        BY <1>1, <1>2, <2>1 DEF ShownComplete
      <3>1. \A k \in expected : ~(k > more /\ k <= more)
        <4>1. more \in Nat /\ \A k \in expected : k \in Nat
          BY <1>3, <1>7, KeysCount
        <4> QED
          BY <4>1
      <3> QED
        BY <1>3, <1>9, <2>1, <3>1
    <2> QED
      BY <1>3, <1>5, <1>6, <1>8, <2>1, <2>2, <2>3 DEF LInv
  <1>10. CASE ~call[c].replace
    <2>1. items' = items \o got
      BY <1>2, <1>10 DEF DeliverPage
    <2>2. next # 0 /\ (\A i \in DOMAIN items : items[i] <= next) /\ EachOnce
      BY <1>3, <1>10 DEF LInv, CursorIsLast
    <2>3. Below(items, got)
      <3>1. next \in Nat
        BY <1>7, KeysCount
      <3>2. \A i \in DOMAIN items : items[i] \in Nat
        BY <1>7, RowsCount
      <3>3. \A i \in DOMAIN got : got[i] \in Nat
        BY <1>3, RowsCount
      <3>4. \A i \in DOMAIN got : got[i] > next
        BY <1>3, <1>10
      <3> QED
        BY <2>2, <3>1, <3>2, <3>3, <3>4 DEF Below
    <2>4. Ascending(items)
      BY <2>2 DEF EachOnce
    <2>5. Joins(items', items, got)
      <3>1. Joins(items \o got, items, got)
        BY Zenon, <1>3, <1>7, <2>3, <2>4, Appended
      <3> QED
        BY <2>1, <3>1
    <2>6. items' \in Seq(Keys) /\ EachOnce'
      BY <2>5 DEF Joins, EachOnce, Ascending
    <2>7. CursorIsLast'
      <3> SUFFICES ASSUME more # 0, NEW i \in DOMAIN items'
                   PROVE  items'[i] <= more
        BY <1>1, <1>2 DEF CursorIsLast
      <3>1. next < more /\ next \in Nat /\ more \in Nat
        BY <1>3, <1>7, <1>10, KeysCount
      <3>2. \A j \in DOMAIN items : items[j] <= more
        <4>1. \A j \in DOMAIN items : items[j] \in Nat
          BY <1>7, RowsCount
        <4> QED
          BY <2>2, <3>1, <4>1
      <3>3. \A j \in DOMAIN got : got[j] <= more
        BY <1>3
      <3>4. \/ \E j \in DOMAIN items : items[j] = items'[i]
            \/ \E j \in DOMAIN got : got[j] = items'[i]
        BY <2>5 DEF Joins
      <3> QED
        BY <3>2, <3>3, <3>4
    <2>8. ShownComplete'
      <3> SUFFICES ASSUME ~unasked, ~broken', NEW k \in expected, more = 0 \/ k <= more
                   PROVE  of' = want /\ \E i \in DOMAIN items' : items'[i] = k
        <4>1. want # None /\ ~unasked /\ ~broken' => of' = want
          <5>1. ~unasked /\ ~broken' => of = want
            BY <1>3, <1>4, <1>5, <1>10 DEF LInv, ShownComplete
          <5> QED
            BY <1>3, <1>4, <1>10, <5>1
        <4> QED
          BY <1>1, <1>2, <4>1 DEF ShownComplete
      <3>1. /\ of = want
            /\ k <= next => \E i \in DOMAIN items : items[i] = k
        BY <1>3, <1>4, <1>5, <1>10 DEF LInv, ShownComplete
      <3>2. of' = want
        BY <1>3, <1>4, <1>10, <3>1
      <3>3. ~(more # 0 /\ k > more)
        <4>1. more \in Nat /\ k \in Nat
          BY <1>3, <1>7, KeysCount
        <4> QED
          BY <4>1
      <3>4. k <= next \/ \E i \in DOMAIN got : got[i] = k
        BY <1>3, <1>10, <3>3
      <3>5. \/ \E i \in DOMAIN items : items[i] = k
            \/ \E i \in DOMAIN got : got[i] = k
        BY <3>1, <3>4
      <3> QED
        BY <2>5, <3>2, <3>5 DEF Joins
    <2> QED
      BY <1>5, <1>6, <1>8, <2>6, <2>7, <2>8 DEF LInv
  <1> QED
    BY <1>9, <1>10

\* The walk asks for its next page.
LEMMA WalkOnKeeps ==
    ASSUME LInv, NEW c \in Calls, WalkOn(c)
    PROVE  LInv'
  <1>1. /\ hook = "whole" /\ call[c].at = "served" /\ call[c].current /\ call[c].more # 0
        /\ UNCHANGED <<hook, side, changed, token, want, items, next, loading, error, of, broken, unasked, cold, expected>>
    BY DEF WalkOn, IsCurrent, shown, past
  <1>2. InOrder(call[c]) /\ Useful(call[c]) /\ call[c] \in ListCall
    BY DEF LInv, CallsFit, ListsTypeOK
  <1>3. call[c].replace
    BY <1>1, <1>2 DEF InOrder
  <1>4. /\ call' \in [Calls -> ListCall]
        /\ call'[c].at = "sent" /\ call'[c].from = call[c].more /\ call'[c].of = call[c].of
        /\ call'[c].replace = call[c].replace /\ call'[c].current = call[c].current
        /\ call'[c].got = call[c].got
        /\ \A d \in Calls : d # c => call'[d] = call[d]
    <2>1. PICK b : b = [call[c] EXCEPT !.at = "sent", !.from = call[c].more]
      OBVIOUS
    <2>2. /\ b \in ListCall /\ b.at = "sent" /\ b.from = call[c].more /\ b.of = call[c].of
          /\ b.replace = call[c].replace /\ b.current = call[c].current /\ b.got = call[c].got
      BY <1>2, <2>1 DEF ListCall
    <2>3. call' = [call EXCEPT ![c] = b]
      BY <2>1 DEF WalkOn
    <2> QED
      BY <2>2, <2>3 DEF LInv, ListsTypeOK
  <1>5. InOrder(call[c])'
    BY <1>1, <1>2, <1>3, <1>4 DEF InOrder, Ascending
  <1>6. Useful(call[c])'
    BY <1>1, <1>2, <1>3, <1>4 DEF Useful
  <1>7. CallsFit'
    BY <1>1, <1>4, <1>5, <1>6, RestFits DEF CallsFit
  <1>8. \A d \in Calls : call'[d].current = call[d].current /\ call'[d].replace = call[d].replace
    BY <1>4
  <1>9. SpinnerTells'
    <2>1. loading' <=> cold' \/ \E d \in Calls : call'[d].current
      BY <1>1, <1>8, SpinnerIs
    <2> QED
      BY <1>1, <1>7, <2>1, SpinnerIs, SpinnerAfter
  <1>10. OneIsCurrent' /\ ColdIsFirst' /\ ShownComplete'
    BY <1>1, <1>8 DEF LInv, OneIsCurrent, ColdIsFirst, ShownComplete
  <1>11. ListsTypeOK' /\ EachOnce' /\ CursorIsLast' /\ ExpectedMatch'
    BY <1>1, <1>4 DEF LInv, ListsTypeOK, EachOnce, Ascending, CursorIsLast, ExpectedMatch
  <1> QED
    BY <1>7, <1>9, <1>10, <1>11 DEF LInv

\* The walk has come to the end: it shows the whole list.
LEMMA DeliverWalkKeeps ==
    ASSUME LInv, NEW c \in Calls, DeliverWalk(c)
    PROVE  LInv'
  <1>1. /\ call[c].at = "served" /\ call[c].current /\ call[c].more = 0 /\ hook = "whole" /\ End(c)
        /\ items' = call[c].got /\ loading' = FALSE /\ error' = FALSE
        /\ UNCHANGED <<hook, side, changed, token, want, next, unasked, cold, expected>>
    BY DEF DeliverWalk, IsCurrent
  <1>2. next = 0
    BY <1>1 DEF LInv, CursorIsLast
  <1>3. call[c].replace /\ call[c].got \in Seq(Keys) /\ Ascending(call[c].got)
    BY <1>1, ServedIs
  <1>4. want # None /\ ~unasked =>
                       /\ call[c].of = want
                       /\ \A k \in expected : \E i \in DOMAIN call[c].got : call[c].got[i] = k
    BY <1>1, <1>3, ServedIs
  <1>5. of' = call[c].of /\ broken' = FALSE
    BY <1>3 DEF DeliverWalk, Show
  <1>6. CallsFit' /\ OneIsCurrent' /\ ColdIsFirst' /\ SpinnerTells'
    BY <1>1, CurrentEnds
  <1>7. ListsTypeOK'
    <2>1. call' \in [Calls -> ListCall] /\ call[c].of \in Filters \cup {None}
      BY <1>1, EndsCall, SlotIs
    <2> QED
      BY <1>1, <1>3, <1>5, <2>1 DEF LInv, ListsTypeOK
  <1>8. EachOnce' /\ CursorIsLast' /\ ExpectedMatch'
    BY <1>1, <1>2, <1>3 DEF LInv, EachOnce, Ascending, CursorIsLast, ExpectedMatch
  <1>9. ShownComplete'
    BY <1>1, <1>4, <1>5 DEF ShownComplete
  <1> QED
    BY <1>6, <1>7, <1>8, <1>9 DEF LInv

\* A reload that fails is marked; what is shown stays.
LEMMA FailKeeps ==
    ASSUME LInv, NEW c \in Calls, Fail(c)
    PROVE  LInv'
  <1>1. /\ call[c].current /\ End(c) /\ loading' = FALSE /\ error' \in BOOLEAN
        /\ broken' = (broken \/ call[c].replace)
        /\ UNCHANGED <<hook, side, changed, token, want, items, next, of, unasked, cold, expected>>
    BY DEF Fail, IsCurrent, LInv, ListsTypeOK
  <1>2. /\ CallsFit' /\ OneIsCurrent' /\ ColdIsFirst' /\ SpinnerTells'
        /\ \A d \in Calls : call[d].current => d = c
    BY <1>1, CurrentEnds
  <1>3. ListsTypeOK'
    <2>1. call' \in [Calls -> ListCall] /\ broken' \in BOOLEAN
      BY <1>1, EndsCall, SlotIs
    <2> QED
      BY <1>1, <2>1 DEF LInv, ListsTypeOK
  <1>4. EachOnce' /\ CursorIsLast' /\ ExpectedMatch'
    BY <1>1 DEF LInv, EachOnce, Ascending, CursorIsLast, ExpectedMatch
  <1>5. ShownComplete'
    BY <1>1, <1>2 DEF LInv, ShownComplete
  <1> QED
    BY <1>2, <1>3, <1>4, <1>5 DEF LInv

\* An answer that came late changes nothing.
LEMMA DropKeeps ==
    ASSUME LInv, NEW c \in Calls, Drop(c)
    PROVE  LInv'
  <1>1. /\ ~call[c].current /\ End(c)
        /\ UNCHANGED <<hook, side, changed, token, want, items, next, loading, error, of, broken, unasked, cold, expected>>
    BY DEF Drop, IsCurrent, shown, past
  <1>2. /\ call' \in [Calls -> ListCall] /\ call'[c] = IdleCall
        /\ \A d \in Calls : d # c => call'[d] = call[d]
    BY <1>1, EndsCall
  <1>3. CallsFit'
    BY <1>1, <1>2, IdleFits, RestFits DEF CallsFit
  <1>4. \A d \in Calls : call'[d].current <=> call[d].current
    BY <1>1, <1>2, IdleFits
  <1>5. \A d \in Calls : call[d].current => call'[d] = call[d]
    BY <1>1, <1>2
  <1>6. SpinnerTells'
    <2>1. loading' <=> cold' \/ \E d \in Calls : call'[d].current
      BY <1>1, <1>4, SpinnerIs
    <2> QED
      BY <1>1, <1>3, <2>1, SpinnerIs, SpinnerAfter
  <1>7. OneIsCurrent' /\ ColdIsFirst'
    BY <1>1, <1>4 DEF LInv, OneIsCurrent, ColdIsFirst
  <1>8. ShownComplete'
    BY <1>1, <1>4, <1>5 DEF LInv, ShownComplete
  <1>9. ListsTypeOK' /\ EachOnce' /\ CursorIsLast' /\ ExpectedMatch'
    BY <1>1, <1>2 DEF LInv, ListsTypeOK, EachOnce, Ascending, CursorIsLast, ExpectedMatch
  <1> QED
    BY <1>3, <1>6, <1>7, <1>8, <1>9 DEF LInv

LEMMA ListsNext ==
    ASSUME LInv, [NextLists]_lvars
    PROVE  LInv'
  <1>1. ASSUME UNCHANGED <<hook, side, changed, want, shown, call, past>>, token' \in BOOLEAN
        PROVE  LInv'
    <2>1. UNCHANGED <<hook, want, unasked, next, expected, call>>
      BY <1>1 DEF shown, past
    <2>2. CallsFit'
      BY <2>1, RestFits DEF CallsFit
    <2> QED
      BY <1>1, <2>2 DEF shown, past, LInv, ListsTypeOK, EachOnce, Ascending, SpinnerTells, OneIsCurrent,
                        ColdIsFirst, CursorIsLast, ExpectedMatch, ShownComplete
  <1>2. ASSUME NEW k \in Keys, NEW f \in Filters \cup {None}, ChangeRow(k, f)
        PROVE  LInv'
    BY <1>2, ChangeKeeps
  <1>3. CASE Deselect
    BY <1>3, DeselectKeeps
  <1>4. ASSUME NEW c \in Calls, NEW f \in Filters, Select(c, f)
        PROVE  LInv'
    BY <1>4, BeginKeeps DEF Select, LInv, ListsTypeOK
  <1>5. ASSUME NEW c \in Calls, Reload(c)
        PROVE  LInv'
    <2>1. want \in Filters /\ token' \in BOOLEAN
      BY <1>5 DEF Reload, LInv, ListsTypeOK
    <2> QED
      BY <1>5, <2>1, BeginKeeps DEF Reload
  <1>13. ASSUME NEW c \in Calls, TokenArrives(c)
         PROVE  LInv'
    <2>1. CASE want # None /\ Begin(c, want)
      <3>1. want \in Filters /\ token' \in BOOLEAN /\ want' = want
        BY <1>13, <2>1 DEF TokenArrives, LInv, ListsTypeOK
      <3> QED
        BY <2>1, <3>1, BeginKeeps
    <2>2. CASE UNCHANGED <<hook, side, changed, want, shown, call, past>>
      BY <1>1, <1>13, <2>2 DEF TokenArrives
    <2> QED
      BY <1>13, <2>1, <2>2 DEF TokenArrives
  <1>14. CASE TokenLost
    BY <1>1, <1>14 DEF TokenLost
  <1>15. ASSUME NEW f \in Filters, SelectUnready(f)
         PROVE  LInv'
    BY <1>15, SelectUnreadyKeeps
  <1>16. CASE UNCHANGED lvars
    <2>1. token' \in BOOLEAN
      BY <1>16 DEF lvars, LInv, ListsTypeOK
    <2> QED
      BY <1>1, <1>16, <2>1 DEF lvars
  <1>6. ASSUME NEW c \in Calls, LoadMore(c)
        PROVE  LInv'
    BY <1>6, LoadMoreKeeps
  <1>7. ASSUME NEW c \in Calls, Serve(c)
        PROVE  LInv'
    BY <1>7, ServeKeeps
  <1>8. ASSUME NEW c \in Calls, DeliverPage(c)
        PROVE  LInv'
    BY <1>8, DeliverPageKeeps
  <1>9. ASSUME NEW c \in Calls, WalkOn(c)
        PROVE  LInv'
    BY <1>9, WalkOnKeeps
  <1>10. ASSUME NEW c \in Calls, DeliverWalk(c)
         PROVE  LInv'
    BY <1>10, DeliverWalkKeeps
  <1>11. ASSUME NEW c \in Calls, Fail(c)
         PROVE  LInv'
    BY <1>11, FailKeeps
  <1>12. ASSUME NEW c \in Calls, Drop(c)
         PROVE  LInv'
    BY <1>12, DropKeeps
  <1> QED
    BY <1>2, <1>3, <1>4, <1>5, <1>6, <1>7, <1>8, <1>9, <1>10, <1>11, <1>12, <1>13, <1>14, <1>15, <1>16
       DEF NextLists

\* A list on screen shows each row once and in order, at rest every row of the latest request as
\* far as its pages reach, and the spinner turns exactly while an answer is awaited or the list has
\* been waiting for its token since it was mounted: whatever changes in the table between two pages,
\* whenever the token comes and goes, and in whatever order answers come (use-cursor-list.ts,
\* pagination.py).
THEOREM ListsStayTrue == ListsSpec => []ListsHold
  <1>1. LInv /\ [NextLists]_lvars => LInv'
    BY ListsNext
  <1>2. LInv => ListsHold
    <2> SUFFICES ASSUME LInv
                 PROVE  LatestShown
      BY DEF LInv, ListsHold
    <2>1. ~loading => \A c \in Calls : ~call[c].current
      BY SpinnerIs
    <2> QED
      BY <2>1 DEF LInv, ShownComplete, LatestShown
  <1> QED
    BY <1>1, <1>2, ListsInit, PTL DEF ListsSpec
=============================================================================
