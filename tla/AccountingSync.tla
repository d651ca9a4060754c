--------------------------- MODULE AccountingSync ---------------------------
(***************************************************************************)
(* From a committed financial record to the provider's books: the          *)
(* after-commit queue (core/after_commit.py), the event handler that fills *)
(* it, the Dramatiq actor of tasks/accounting_sync.py, the OAuth callback  *)
(* of routers/integrations.py and the two real provider clients.           *)
(*                                                                         *)
(* One company with one connection.  The actor works in one database       *)
(* transaction, committed when the refreshed tokens are saved and at its   *)
(* end; every call to the provider is a step of its own, during which      *)
(* other workers run.  The provider is external: a company file is the     *)
(* sequence of the records posted to it and the sequence of the customers  *)
(* and vendors in it, and a grant is the number of its latest token pair.  *)
(* A record refers to one such name; QuickBooks asks for it in a payment   *)
(* too.  The item and account references go through the same code.         *)
(***************************************************************************)
EXTENDS Integers, Sequences, FiniteSets, SequencesExt

CONSTANTS
    Records,
    InvoiceOf,       \* the invoice a payment is for; NoRecord for the other records
    NameOf,          \* the customer or vendor of each record
    Files,           \* the company files the connection may point at
    Providers,       \* "quickbooks", "freshbooks"
    Workers,
    MaxRetries,      \* max_retries of the actor (3 in the code)
    MaxExpiries,     \* bound: expired access tokens
    MaxFaults,       \* bound: crashes, provider errors, redelivered and lost messages
    NoRecord, NoWorker

ASSUME RecordAssumption == InvoiceOf \in [Records -> Records \cup {NoRecord}] /\ NoRecord \notin Records
ASSUME BoundAssumption  == MaxRetries \in Nat /\ MaxExpiries \in Nat /\ MaxFaults \in Nat
ASSUME WorkerAssumption == NoWorker \notin Workers
ASSUME ProviderAssumption == Providers \subseteq {"quickbooks", "freshbooks"}

Names == {NameOf[r] : r \in Records}

VARIABLES
    provider,    \* which client get_accounting_client returns
    row,         \* the records in the database: "none", "committed" or, once sent on, "enqueued"
    queue,       \* the messages of sync_financial_record: [rec, tries]
    dead,        \* the messages given up after the last retry
    sync,        \* integration_sync_records of the connection
    conn,        \* integration_connections: the token pair and the provider_account_id
    mapping,     \* integration_entity_mappings: the provider's id of each name; 0 for none
    mapLock,     \* the worker whose transaction has inserted a name
    job,
    books,       \* at the provider: the records posted to each file
    people,      \* at the provider: the customers and vendors of each file
    grant,       \* at the provider: the latest pair of each file's grant, and whether it has expired
    expiries, faults,
    crossed      \* history: "redelivered" a record was worked on twice at once, "reconnected" another
                 \* file was connected, "crashed" the answer with new tokens was lost

db       == <<row, sync, conn, mapping, mapLock>>
external == <<books, people, grant>>
syncvars == <<provider, db, queue, dead, job, external, expiries, faults, crossed>>

NoJob == [pc |-> "idle", rec |-> NoRecord, tries |-> 0, tok |-> [file |-> NoRecord, n |-> 0],
          file |-> NoRecord, ent |-> 0, inv |-> 0, id |-> 0, again |-> FALSE]

At(w, pc) == job[w].pc = pc
Go(w, r)  == job' = [job EXCEPT ![w] = r]
Step(w, pc) == Go(w, [job[w] EXCEPT !.pc = pc])
IsPayment(r) == InvoiceOf[r] # NoRecord

(* The decisions of the code, each preceded by the mutant that shows which *)
(* property depends on it.                                                 *)

\* 401 or 403: an expired or superseded token, or one of another file.
Accepts(tok, file) == tok.file = file /\ tok.n = grant[file].n /\ ~grant[file].expired

\* required_refs of the two clients.
NeedsName(r) == provider = "quickbooks" \/ ~IsPayment(r)

\* Posting a payment whether or not its invoice has synced.
ExternalInvoice_Any(r) == TRUE
ExternalInvoice(r) == sync[InvoiceOf[r]].status = "success"

\* A push without an idempotency key.
AlreadyPosted_NoKey(file, r) == {}
AlreadyPosted(file, r) == {i \in DOMAIN books[file] : books[file][i].rec = r}

\* The new pair saved without its refresh token.
Saved_AccessOnly(old, new) == old
Saved(old, new) == new

\* A failure that re-raises without committing the failed row.
Recorded_RolledBack(old) == old
Recorded(old) == [old EXCEPT !.status = "failed"]

SuccessStatus == "success"

InitSync ==
    /\ provider \in Providers
    /\ row      = [r \in Records |-> "none"]
    /\ queue    = {}
    /\ dead     = {}
    /\ sync     = [r \in Records |-> [status |-> "none", id |-> 0]]
    /\ \E f \in Files : conn = [tok |-> [file |-> f, n |-> 1], file |-> f]
    /\ mapping  = [n \in Names |-> 0]
    /\ mapLock  = [n \in Names |-> NoWorker]
    /\ job      = [w \in Workers |-> NoJob]
    /\ books    = [f \in Files |-> <<>>]
    /\ people   = [f \in Files |-> <<>>]
    /\ grant    = [f \in Files |-> [n |-> 1, expired |-> FALSE]]
    /\ expiries = 0
    /\ faults   = 0
    /\ crossed  = {}

(***************************************************************************)
(* The request that creates a record, and the OAuth callback.              *)
(***************************************************************************)

\* The request commits; handle_financial_record_created has put the send on the session's list.
CommitRecord(r) ==
    /\ row[r] = "none"
    /\ IsPayment(r) => row[InvoiceOf[r]] # "none"
    /\ row' = [row EXCEPT ![r] = "committed"]
    /\ UNCHANGED <<provider, sync, conn, mapping, mapLock, queue, dead, job, external, expiries, faults,
                   crossed>>

\* run_after_commit drains the list.
Enqueue(r) ==
    /\ row[r] = "committed"
    /\ row' = [row EXCEPT ![r] = "enqueued"]
    /\ queue' = queue \cup {[rec |-> r, tries |-> 0]}
    /\ UNCHANGED <<provider, sync, conn, mapping, mapLock, dead, job, external, expiries, faults, crossed>>

\* callback: the authorization code of another company file, and ON CONFLICT DO UPDATE on the one
\* row of the provider; what the connection remembers of the old file stays.
Reconnect(f) ==
    /\ f # conn.file
    /\ "reconnected" \notin crossed
    /\ conn' = [tok |-> [file |-> f, n |-> grant[f].n], file |-> f]
    /\ crossed' = crossed \cup {"reconnected"}
    /\ UNCHANGED <<provider, row, sync, mapping, mapLock, queue, dead, job, external, expiries, faults>>

(***************************************************************************)
(* The actor.                                                              *)
(***************************************************************************)

Unlocked(w) == [n \in Names |-> IF mapLock[n] = w THEN NoWorker ELSE mapLock[n]]

\* The end of a transaction that keeps the names it inserted, or loses them.
KeepsNames(w) == mapLock' = Unlocked(w) /\ UNCHANGED mapping
LosesNames(w) ==
    /\ mapLock' = Unlocked(w)
    /\ mapping' = [n \in Names |-> IF mapLock[n] = w THEN 0 ELSE mapping[n]]

\* Dramatiq puts a failed message back until its retries are used up.
Nack(w) ==
    LET m == [rec |-> job[w].rec, tries |-> job[w].tries] IN
    IF m.tries < MaxRetries
    THEN queue' = queue \cup {[m EXCEPT !.tries = @ + 1]} /\ UNCHANGED dead
    ELSE dead' = dead \cup {m} /\ UNCHANGED queue

\* except Exception: the failed row is committed, with whatever else the transaction did.
Fail(w) ==
    /\ sync' = [sync EXCEPT ![job[w].rec] = Recorded(@)]
    /\ KeepsNames(w)
    /\ Nack(w)
    /\ Go(w, NoJob)
    /\ UNCHANGED <<row, conn>>

\* The actor loads the connection and the record, and looks up the invoice of a payment.
Start(w) ==
    /\ At(w, "idle")
    /\ \E m \in queue :
          /\ queue' = queue \ {m}
          /\ Go(w, [NoJob EXCEPT !.pc = "loaded", !.rec = m.rec, !.tries = m.tries,
                                 !.tok = conn.tok, !.file = conn.file])
    /\ UNCHANGED <<provider, db, dead, external, expiries, faults, crossed>>

Prepare(w) ==
    LET r == job[w].rec  name == NameOf[r]
        known == mapLock[name] \in {w, NoWorker} /\ mapping[name] # 0 IN
    /\ At(w, "loaded")
    /\ IF IsPayment(r) /\ ~ExternalInvoice(r)
       THEN Fail(w)
       ELSE /\ Go(w, [job[w] EXCEPT !.inv = IF IsPayment(r) THEN sync[InvoiceOf[r]].id ELSE 0,
                                    !.ent = IF NeedsName(r) /\ known THEN mapping[name] ELSE 0,
                                    !.pc  = IF NeedsName(r) /\ ~known THEN "search" ELSE "find"])
            /\ UNCHANGED <<db, queue, dead>>
    /\ UNCHANGED <<provider, external, expiries, faults, crossed>>

\* resolve_entity: search by name ...
Search(w) ==
    LET f == job[w].file  found == {i \in DOMAIN people[f] : people[f][i] = NameOf[job[w].rec]} IN
    /\ At(w, "search")
    /\ IF ~Accepts(job[w].tok, f)
       THEN Fail(w)
       ELSE /\ Go(w, IF found = {} THEN [job[w] EXCEPT !.pc = "make"]
                     ELSE [job[w] EXCEPT !.pc = "remember", !.ent = CHOOSE i \in found : TRUE])
            /\ UNCHANGED <<db, queue, dead>>
    /\ UNCHANGED <<provider, external, expiries, faults, crossed>>

\* ... and create what is not there.  QuickBooks refuses a second customer of one name, FreshBooks
\* does not.
Make(w) ==
    LET f == job[w].file  name == NameOf[job[w].rec]
        taken == provider = "quickbooks" /\ name \in ToSet(people[f]) IN
    /\ At(w, "make")
    /\ IF ~Accepts(job[w].tok, f) \/ taken
       THEN Fail(w) /\ UNCHANGED people
       ELSE /\ people' = [people EXCEPT ![f] = Append(@, name)]
            /\ Go(w, [job[w] EXCEPT !.pc = "remember", !.ent = Len(people[f]) + 1])
            /\ UNCHANGED <<db, queue, dead>>
    /\ UNCHANGED <<provider, books, grant, expiries, faults, crossed>>

\* The INSERT of the mapping waits for one under way; a name already there breaks the transaction,
\* so that not even the failed row can be written.
Remember(w) ==
    LET name == NameOf[job[w].rec] IN
    /\ At(w, "remember")
    /\ mapLock[name] = NoWorker
    /\ IF mapping[name] # 0
       THEN LosesNames(w) /\ Nack(w) /\ Go(w, NoJob)
       ELSE /\ mapping' = [mapping EXCEPT ![name] = job[w].ent]
            /\ mapLock' = [mapLock EXCEPT ![name] = w]
            /\ Step(w, "find")
            /\ UNCHANGED <<queue, dead>>
    /\ UNCHANGED <<provider, row, sync, conn, external, expiries, faults, crossed>>

\* A rejected token is refreshed once.
Rejected(w) ==
    IF job[w].again THEN Fail(w)
    ELSE Step(w, "refresh") /\ UNCHANGED <<db, queue, dead>>

\* FreshBooks has no idempotency keys: the client looks for a record tagged with the key ...
Find(w) ==
    LET found == AlreadyPosted(job[w].file, job[w].rec) IN
    /\ At(w, "find")
    /\ provider = "freshbooks"
    /\ IF ~Accepts(job[w].tok, job[w].file)
       THEN Rejected(w)
       ELSE /\ Go(w, IF found = {} THEN [job[w] EXCEPT !.pc = "push"]
                     ELSE [job[w] EXCEPT !.pc = "pushed", !.id = CHOOSE i \in found : TRUE])
            /\ UNCHANGED <<db, queue, dead>>
    /\ UNCHANGED <<provider, external, expiries, faults, crossed>>

\* ... and then creates it.  QuickBooks answers a repeated requestid with the first record.
Push(w) ==
    LET f == job[w].file  r == job[w].rec
        repeated == IF provider = "quickbooks" THEN AlreadyPosted(f, r) ELSE {}  IN
    /\ At(w, "push") \/ (At(w, "find") /\ provider = "quickbooks")
    /\ IF ~Accepts(job[w].tok, f)
       THEN Rejected(w) /\ UNCHANGED books
       ELSE /\ books' = IF repeated # {} THEN books
                        ELSE [books EXCEPT ![f] =
                                Append(@, [rec |-> r, ent |-> job[w].ent, inv |-> job[w].inv])]
            /\ Go(w, [job[w] EXCEPT !.pc = "pushed",
                        !.id = IF repeated # {} THEN CHOOSE i \in repeated : TRUE
                               ELSE Len(books[f]) + 1])
            /\ UNCHANGED <<db, queue, dead>>
    /\ UNCHANGED <<provider, people, grant, expiries, faults, crossed>>

\* refresh_access_token spends the refresh token; a spent one is refused.
Refresh(w) ==
    LET g == grant[job[w].tok.file] IN
    /\ At(w, "refresh")
    /\ IF job[w].tok.n # g.n
       THEN Fail(w) /\ UNCHANGED grant
       ELSE /\ grant' = [grant EXCEPT ![job[w].tok.file] = [n |-> g.n + 1, expired |-> FALSE]]
            /\ Go(w, [job[w] EXCEPT !.pc = "persist", !.tok.n = g.n + 1])
            /\ UNCHANGED <<db, queue, dead>>
    /\ UNCHANGED <<provider, books, people, expiries, faults, crossed>>

\* ... and the new pair is committed at once, then pushed with.
Persist(w) ==
    /\ At(w, "persist")
    /\ conn' = [conn EXCEPT !.tok = Saved(@, job[w].tok)]
    /\ KeepsNames(w)
    /\ Go(w, [job[w] EXCEPT !.pc = "find", !.again = TRUE])
    /\ UNCHANGED <<provider, row, sync, queue, dead, external, expiries, faults, crossed>>

Succeed(w) ==
    /\ At(w, "pushed")
    /\ sync' = [sync EXCEPT ![job[w].rec] = [status |-> SuccessStatus, id |-> job[w].id]]
    /\ KeepsNames(w)
    /\ Go(w, NoJob)
    /\ UNCHANGED <<provider, row, conn, queue, dead, external, expiries, faults, crossed>>

(***************************************************************************)
(* Time and failures.                                                      *)
(***************************************************************************)

AccessTokenExpires(f) ==
    /\ expiries < MaxExpiries
    /\ f = conn.file /\ ~grant[f].expired
    /\ expiries' = expiries + 1
    /\ grant' = [grant EXCEPT ![f].expired = TRUE]
    /\ UNCHANGED <<provider, db, queue, dead, job, books, people, faults, crossed>>

Fault == faults < MaxFaults /\ faults' = faults + 1 /\ UNCHANGED <<provider, expiries>>

\* The process dies between COMMIT and the enqueue, or Redis refuses it and the error is logged.
EnqueueLost(r) ==
    /\ row[r] = "committed"
    /\ row' = [row EXCEPT ![r] = "lost"]
    /\ Fault
    /\ UNCHANGED <<sync, conn, mapping, mapLock, queue, dead, job, external, crossed>>

\* The worker dies: its transaction is rolled back and its message delivered again.
WorkerCrashes(w) ==
    /\ ~At(w, "idle")
    /\ queue' = queue \cup {[rec |-> job[w].rec, tries |-> job[w].tries]}
    /\ crossed' = IF At(w, "persist") THEN crossed \cup {"crashed"} ELSE crossed
    /\ LosesNames(w)
    /\ Go(w, NoJob)
    /\ Fault
    /\ UNCHANGED <<row, sync, conn, dead, external>>

\* The worker is only taken for dead: its message is delivered to another while it goes on.
Redelivered(w) ==
    /\ ~At(w, "idle")
    /\ queue' = queue \cup {[rec |-> job[w].rec, tries |-> job[w].tries]}
    /\ crossed' = crossed \cup {"redelivered"}
    /\ Fault
    /\ UNCHANGED <<db, dead, job, external>>

\* The provider answers with an error, or its answer is lost after it has done what it was asked.
ProviderFails(w) ==
    /\ ~job[w].pc \in {"idle", "loaded"}
    /\ crossed' = IF At(w, "persist") THEN crossed \cup {"crashed"} ELSE crossed
    /\ Fail(w)
    /\ Fault
    /\ UNCHANGED external

Works(w) == Start(w) \/ Prepare(w) \/ Search(w) \/ Make(w) \/ Remember(w) \/ Find(w) \/ Push(w)
            \/ Refresh(w) \/ Persist(w) \/ Succeed(w)

NextSync ==
    \/ \E r \in Records : CommitRecord(r) \/ Enqueue(r) \/ EnqueueLost(r)
    \/ \E f \in Files : Reconnect(f) \/ AccessTokenExpires(f)
    \/ \E w \in Workers : Works(w) \/ WorkerCrashes(w) \/ Redelivered(w) \/ ProviderFails(w)

SyncSpec == InitSync /\ [][NextSync]_syncvars

\* The process that committed a record goes on to enqueue it, and workers do not stop.
FairSyncSpec ==
    /\ SyncSpec
    /\ \A r \in Records : WF_syncvars(Enqueue(r) \/ EnqueueLost(r))
    /\ \A w \in Workers : WF_syncvars(Works(w))

-----------------------------------------------------------------------------
Pcs == {"idle", "loaded", "search", "make", "remember", "find", "push", "pushed", "refresh", "persist"}

Messages == [rec : Records, tries : 0 .. MaxRetries]
Pairs    == [file : Files \cup {NoRecord}, n : Nat]
Jobs     == [pc : Pcs, rec : Records \cup {NoRecord}, tries : 0 .. MaxRetries, tok : Pairs,
             file : Files \cup {NoRecord}, ent : Nat, inv : Nat, id : Nat, again : BOOLEAN]
Posts    == [rec : Records, ent : Nat, inv : Nat]

\* The tables, the queue, the workers and the provider's books keep their types.
SyncTypeOK ==
    /\ provider \in Providers
    /\ row \in [Records -> {"none", "committed", "enqueued", "lost"}]
    /\ queue \subseteq Messages /\ dead \subseteq Messages
    /\ sync \in [Records -> [status : {"none", "success", "failed"}, id : Nat]]
    /\ conn \in [tok : Pairs, file : Files] /\ conn.tok.file \in Files
    /\ mapping \in [Names -> Nat] /\ mapLock \in [Names -> Workers \cup {NoWorker}]
    /\ job \in [Workers -> Jobs]
    /\ \A w \in Workers : ~At(w, "idle") =>
          job[w].rec \in Records /\ job[w].file \in Files /\ job[w].tok.file \in Files
    /\ books \in [Files -> Seq(Posts)] /\ people \in [Files -> Seq(Names)]
    /\ grant \in [Files -> [n : Nat, expired : BOOLEAN]]
    /\ crossed \subseteq {"redelivered", "reconnected", "crashed"}

Twice(f) == \E i, j \in DOMAIN books[f] : i # j /\ books[f][i].rec = books[f][j].rec

\* However often a worker dies, fails or loses an answer, no record is posted to a company file
\* twice: QuickBooks knows the requestid, and the FreshBooks client finds its own tag, unless two
\* workers were given the record at the same time (idempotency_key=entity_id of _push).
PostedOnce ==
    \A f \in Files : Twice(f) => provider = "freshbooks" /\ "redelivered" \in crossed

\* A record marked as synced is in the books under the id the row gives, and a payment is applied
\* there to its own invoice, as long as the connection stays with one file.
SyncedIsPosted ==
    "reconnected" \notin crossed =>
        \A r \in Records : sync[r].status = "success" =>
            LET posted == books[conn.file] IN
            /\ sync[r].id \in DOMAIN posted /\ posted[sync[r].id].rec = r
            /\ IsPayment(r) => /\ posted[sync[r].id].inv \in DOMAIN posted
                               /\ posted[posted[sync[r].id].inv].rec = InvoiceOf[r]

\* The connection never dies by itself: unless the new pair is lost on its way to the row or another
\* file is connected, the stored refresh token is the one the provider will accept.
ConnectionAlive ==
    crossed \cap {"crashed", "reconnected"} = {} /\ (\A w \in Workers : ~At(w, "persist")) =>
        conn.tok.n = grant[conn.file].n

\* Every record whose message was sent ends as synced, or is given up with a failed row that
\* GET /integrations/{provider}/sync-status shows.
EndsVisibly ==
    \A r \in Records : row[r] = "enqueued" ~>
        \/ sync[r].status = "success"
        \/ sync[r].status = "failed" /\ \E m \in dead : m.rec = r

\* tasks/accounting_sync.py:506-511: an expired access token "is the normal steady state ...
\* Refresh, persist, and try once": without any other failure no record is given up.
ExpiryIsHarmless == faults = 0 /\ crossed = {} => \A m \in dead : IsPayment(m.rec)

\* tasks/accounting_sync.py:239-241: "reconnecting to a different company file does not reuse the
\* previous file's ids": a mapped name is the id of that name in the connected file.
MappingFollowsFile ==
    \A n \in Names : mapping[n] # 0 =>
        mapping[n] \in DOMAIN people[conn.file] /\ people[conn.file][mapping[n]] = n
=============================================================================
