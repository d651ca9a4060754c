-------------------------------- MODULE Team --------------------------------
(***************************************************************************)
(* One person in the team directory of one company: routers/team.py, with  *)
(* guard_stale_write of services/concurrency.py and the constraints of     *)
(* migration 0026.                                                         *)
(*                                                                         *)
(* A PATCH carries the updated_at its client was shown.  The server looks  *)
(* the profile and its phones up without a lock and compares, looks them   *)
(* up again, and commits later: the columns whose value is not the one it  *)
(* loaded, the phones it loaded deleted, the phones it was sent inserted.  *)
(* Only an UPDATE of the profile's own columns gives it another            *)
(* updated_at.                                                             *)
(*                                                                         *)
(* Every column but the trade and the photo is "contact": its value is the *)
(* edit that wrote it.  A phone, too, is the edit whose list it came with. *)
(***************************************************************************)
EXTENDS Integers

CONSTANTS
    Edits,          \* PATCHes, each one also the value and the phone it writes
    Photos,         \* uploads of a photo, each one also its content
    Trades,         \* professions, by id
    Extensions,     \* .png and .jpg
    Nothing

ASSUME NothingAssumption == Nothing \notin Edits \cup Photos \cup Trades \cup Extensions

VARIABLES
    member,         \* whether there is a company_users row
    profile,        \* the member_profiles row; its id is the first updated_at it had, 0 for no row
    phones,         \* its member_phones rows
    trades,         \* professions: "new", "there" or "gone"
    disk,           \* the content of the photo file of each extension
    edit,
    photo,
    clock,          \* the last updated_at given
    newest,         \* history: the phones of the last list committed
    mixed,          \* history: that list replaced other rows than those it had loaded
    clobbered       \* history: how contact columns were replaced by a save that sent updated_at
                    \* and whose client was not shown them: "overlapped" by another, or "alone"

tvars == <<member, profile, phones, trades, disk, edit, photo, clock, newest, mixed, clobbered>>

NoProfile == [id |-> 0, stamp |-> 0, contact |-> Nothing, trade |-> Nothing, image |-> Nothing]
NewEdit   == [at |-> "new", expects |-> 0, saw |-> Nothing, shown |-> {}, seen |-> NoProfile, rows |-> {},
              contact |-> FALSE, list |-> "absent", trade |-> "absent", overtaken |-> FALSE]
NewPhoto  == [at |-> "new", image |-> Nothing, seen |-> NoProfile]

Profiles == [id : Nat, stamp : Nat, contact : Edits \cup {Nothing}, trade : Trades \cup {Nothing},
             image : Extensions \cup {Nothing}]

TeamTypeOK ==
    /\ member \in BOOLEAN /\ mixed \in BOOLEAN
    /\ profile \in Profiles
    /\ phones \subseteq Edits /\ newest \subseteq Edits
    /\ trades \in [Trades -> {"new", "there", "gone"}]
    /\ disk \in [Extensions -> Photos \cup {Nothing}]
    /\ edit \in [Edits -> [at : {"new", "open", "compared", "loaded", "done"}, expects : Nat,
                           saw : Edits \cup {Nothing}, shown : SUBSET Edits, seen : Profiles,
                           rows : SUBSET Edits, contact : BOOLEAN, list : {"absent", "empty", "one"},
                           trade : Trades \cup {Nothing, "absent"}, overtaken : BOOLEAN]]
    /\ photo \in [Photos -> [at : {"new", "written", "done"}, image : Extensions \cup {Nothing},
                             seen : Profiles]]
    /\ clock \in Nat /\ clobbered \subseteq {"overlapped", "alone"}

InitTeam ==
    /\ member = TRUE
    /\ profile = NoProfile /\ phones = {}
    /\ trades = [t \in Trades |-> "new"]
    /\ disk = [x \in Extensions |-> Nothing]
    /\ edit = [e \in Edits |-> NewEdit]
    /\ photo = [p \in Photos |-> NewPhoto]
    /\ clock = 0
    /\ newest = {} /\ mixed = FALSE /\ clobbered = {}

(* Decisions of the code, each preceded by the mutant that shows that the  *)
(* property depends on it.                                                 *)

\* guard_stale_write.  No row is nothing to conflict with, and no expectation is no check.
PassesGuard_Always(e) == TRUE
PassesGuard(e) == edit[e].expects = 0 \/ profile.id = 0 \/ profile.stamp = edit[e].expects

\* _replace_phones: the list sent is the list; an append would keep what was loaded.
Replaced_Appended(loaded) == {}
Replaced(loaded) == loaded

-----------------------------------------------------------------------------
(* The company's side: memberships and professions.                        *)

\* remove_member; the foreign keys cascade to the profile, and from there to the phones.
RemoveMember ==
    /\ member
    /\ member' = FALSE
    /\ profile' = NoProfile /\ phones' = {}
    /\ newest' = {} /\ mixed' = FALSE
    /\ UNCHANGED <<trades, disk, edit, photo, clock, clobbered>>

\* accept_invitation.
RejoinCompany ==
    /\ ~member
    /\ member' = TRUE
    /\ UNCHANGED <<profile, phones, trades, disk, edit, photo, clock, newest, mixed, clobbered>>

CreateProfession(t) ==
    /\ trades[t] = "new"
    /\ trades' = [trades EXCEPT ![t] = "there"]
    /\ UNCHANGED <<member, profile, phones, disk, edit, photo, clock, newest, mixed, clobbered>>

\* ON DELETE SET NULL is the database's own UPDATE: updated_at stays.
DeleteProfession(t) ==
    /\ trades[t] = "there"
    /\ trades' = [trades EXCEPT ![t] = "gone"]
    /\ profile' = [profile EXCEPT !.trade = IF @ = t THEN Nothing ELSE @]
    /\ UNCHANGED <<member, phones, disk, edit, photo, clock, newest, mixed, clobbered>>

-----------------------------------------------------------------------------
(* An edit: the client opens the record, the server compares it, loads it, *)
(* and commits.                                                            *)

OpenRecord(e) ==
    /\ edit[e].at = "new" /\ member
    /\ edit' = [edit EXCEPT ![e].at = "open", ![e].expects = profile.stamp,
                            ![e].saw = profile.contact, ![e].shown = phones]
    /\ UNCHANGED <<member, profile, phones, trades, disk, photo, clock, newest, mixed, clobbered>>

\* The first lookup.  What the request carries: contact columns or none, a list of phones, an empty
\* one or none, a profession, null or no profession.  The guard's 409 is an abort.
Compare(e, contact, list, trade) ==
    /\ edit[e].at = "open" /\ member
    /\ PassesGuard(e)
    /\ edit' = [edit EXCEPT ![e].at = "compared", ![e].seen = profile, ![e].rows = phones,
                            ![e].contact = contact, ![e].list = list, ![e].trade = trade]
    /\ UNCHANGED <<member, profile, phones, trades, disk, photo, clock, newest, mixed, clobbered>>

\* The administrator's route.
UpdateTeamMember(e, contact, list, trade) == Compare(e, contact, list, trade)

\* The member's own route knows neither notes nor professions.
UpdateMyProfile(e, contact, list) == Compare(e, contact, list, "absent")

\* The second lookup: the session keeps the row it has, as it first read it.  A row made since then,
\* or in the place of one that is gone, is loaded without a comparison; no row is one to insert.
\* A profession that is not there is a 404.
LoadRecord(e) ==
    /\ edit[e].at = "compared"
    /\ edit[e].trade \in Trades => trades[edit[e].trade] = "there"
    /\ edit' = [edit EXCEPT ![e] = IF profile.id = @.seen.id THEN [@ EXCEPT !.at = "loaded"]
                                   ELSE [@ EXCEPT !.at = "loaded", !.seen = profile, !.rows = phones]]
    /\ UNCHANGED <<member, profile, phones, trades, disk, photo, clock, newest, mixed, clobbered>>

\* The key (company_id, user_id) and the foreign key into company_users, for the row a request
\* makes; the row an UPDATE or a new phone needs must be the one that was loaded.
RowFor(seen) == IF seen.id = 0 THEN member /\ profile.id = 0 ELSE profile.id = seen.id

\* The profile with new values in it.  One that is inserted begins empty.
Written(seen, new) ==
    IF seen.id = 0 THEN [new EXCEPT !.id = clock + 1, !.stamp = clock + 1]
                   ELSE [new EXCEPT !.stamp = clock + 1]

Retrades(e) == edit[e].trade \notin {"absent", edit[e].seen.trade}

\* Whether a save that sent updated_at replaces contact columns that its client was not shown.
Unshown(e) == edit[e].expects # 0 /\ edit[e].contact /\ profile.contact \notin {Nothing, edit[e].saw}

CommitEdit(e) ==
    LET seen  == edit[e].seen
        base  == IF seen.id = 0 THEN NoProfile ELSE profile
        wrote == seen.id = 0 \/ edit[e].contact \/ Retrades(e)
        list  == IF edit[e].list = "one" THEN {e} ELSE {}
    IN
    /\ edit[e].at = "loaded"
    /\ wrote \/ list # {} => RowFor(seen)
    /\ Retrades(e) /\ edit[e].trade # Nothing => trades[edit[e].trade] = "there"
    /\ IF wrote
       THEN /\ profile' = Written(seen,
                  [base EXCEPT !.contact = IF edit[e].contact THEN e ELSE @,
                               !.trade = IF Retrades(e) THEN edit[e].trade ELSE @])
            /\ clock' = clock + 1
       ELSE UNCHANGED <<profile, clock>>
    /\ IF edit[e].list = "absent"
       THEN UNCHANGED <<phones, newest, mixed>>
       ELSE /\ phones' = (phones \ Replaced(edit[e].rows)) \cup list
            /\ newest' = list
            /\ mixed' = (phones # edit[e].rows)
    /\ edit' = [f \in Edits |->
                   IF f = e THEN [NewEdit EXCEPT !.at = "done"]
                   ELSE IF edit[e].contact /\ edit[f].at \in {"compared", "loaded"}
                        THEN [edit[f] EXCEPT !.overtaken = TRUE] ELSE edit[f]]
    /\ clobbered' = IF Unshown(e) THEN clobbered \cup {IF edit[e].overtaken THEN "overlapped" ELSE "alone"}
                    ELSE clobbered
    /\ UNCHANGED <<member, trades, disk, photo>>

\* A refusal, an error at the flush or a client that gives up.
AbortEdit(e) ==
    /\ edit[e].at \in {"open", "compared", "loaded"}
    /\ edit' = [edit EXCEPT ![e] = [NewEdit EXCEPT !.at = "done"]]
    /\ UNCHANGED <<member, profile, phones, trades, disk, photo, clock, newest, mixed, clobbered>>

-----------------------------------------------------------------------------
(* A photo: the file is written first, over the one of that extension.     *)

UploadPhoto(p, x) ==
    /\ photo[p].at = "new" /\ member
    /\ disk' = [disk EXCEPT ![x] = p]
    /\ photo' = [photo EXCEPT ![p] = [at |-> "written", image |-> x, seen |-> profile]]
    /\ UNCHANGED <<member, profile, phones, trades, edit, clock, newest, mixed, clobbered>>

CommitPhoto(p) ==
    LET seen == photo[p].seen
        base == IF seen.id = 0 THEN NoProfile ELSE profile
    IN
    /\ photo[p].at = "written"
    /\ IF seen.image = photo[p].image
       THEN UNCHANGED <<profile, clock>>
       ELSE /\ RowFor(seen)
            /\ profile' = Written(seen, [base EXCEPT !.image = photo[p].image])
            /\ clock' = clock + 1
    /\ photo' = [photo EXCEPT ![p] = [NewPhoto EXCEPT !.at = "done"]]
    /\ UNCHANGED <<member, phones, trades, disk, edit, newest, mixed, clobbered>>

AbortPhoto(p) ==
    /\ photo[p].at = "written"
    /\ photo' = [photo EXCEPT ![p] = [NewPhoto EXCEPT !.at = "done"]]
    /\ UNCHANGED <<member, profile, phones, trades, disk, edit, clock, newest, mixed, clobbered>>

\* _photo_response: the row says there is a photo, and the volume agrees.
Served == profile.image # Nothing /\ disk[profile.image] # Nothing

NextTeam ==
    \/ RemoveMember \/ RejoinCompany
    \/ \E t \in Trades : CreateProfession(t) \/ DeleteProfession(t)
    \/ \E e \in Edits :
           \/ OpenRecord(e) \/ LoadRecord(e) \/ CommitEdit(e) \/ AbortEdit(e)
           \/ \E contact \in BOOLEAN, list \in {"absent", "empty", "one"} :
                  \/ UpdateMyProfile(e, contact, list)
                  \/ \E trade \in Trades \cup {Nothing, "absent"} :
                         UpdateTeamMember(e, contact, list, trade)
    \/ \E p \in Photos :
           \/ \E x \in Extensions : UploadPhoto(p, x)
           \/ CommitPhoto(p) \/ AbortPhoto(p)

TeamSpec == InitTeam /\ [][NextTeam]_tvars

-----------------------------------------------------------------------------

\* concurrency.py: a save that sends updated_at replaces contact columns its client was not shown
\* only if another save committed them after it had compared.
ReplacesTheShown == "alone" \notin clobbered

\* team.py:135, "the list sent IS the list": the last list committed is there, and nothing else
\* is unless it replaced rows it had not loaded.
ListIsTheList == newest \subseteq phones /\ (phones = newest \/ mixed)

\* A photo the directory announces can be shown, whatever uploads overlapped or failed.
PhotoShown == profile.image # Nothing => Served

\* Migration 0026: no record outlives the membership it describes or names a profession that is
\* gone, although an edit begun earlier may commit later.
RecordOfMember ==
    /\ profile.id # 0 => member
    /\ phones # {} => profile.id # 0
    /\ profile.trade # Nothing => trades[profile.trade] = "there"

\* What the directory promises about a person's record.
DirectoryHolds == ReplacesTheShown /\ ListIsTheList /\ PhotoShown /\ RecordOfMember

\* concurrency.py:32-34: "a client that opts in cannot clobber".  Two saves that overlap both
\* compare with the row as it was, and the second to commit replaces what the first wrote.
NeverClobbers == clobbered = {}

\* schemas/team.py:102-104: a save whose client sends updated_at never "silently discards" phone
\* numbers the client was not shown.  A change of the phones alone leaves updated_at as it was.
PhonesLoadedAsShown ==
    \A e \in Edits : edit[e].at = "loaded" /\ edit[e].expects # 0 /\ edit[e].list # "absent" =>
        edit[e].rows = edit[e].shown
=============================================================================
