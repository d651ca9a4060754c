------------------------------- MODULE Offline -------------------------------
(***************************************************************************)
(* What a device writes without a signal: the status changes and daily     *)
(* logs of the crew (app/(app)/my-tasks/page.tsx, lib/offline/crew.ts) and *)
(* the estimates captured on site (CaptureScreen.tsx, flush.ts), kept in   *)
(* one IndexedDB (store.ts) that every page of the browser shares, and     *)
(* sent to the routes of tasks.py, projects.py and estimates.py.           *)
(*                                                                         *)
(* A page acts on the copy of the store it last listed, and its loop on    *)
(* the copies it started with.  A request goes on when its page is closed  *)
(* or its connection breaks.  One task, one catalogue rate and one         *)
(* identity stand for all: items of other tasks, other rates and other     *)
(* users meet nowhere.                                                     *)
(***************************************************************************)
EXTENDS Integers, FiniteSets, FiniteSetsExt

CONSTANTS
    Pages,
    Requests,        \* bound: calls on their way or at the server
    Statuses,        \* bound: the statuses of tasks.status in use
    MaxItems,        \* bound: what is written on the device
    MaxTogether,     \* bound: pages open and items written
    MaxOffice,       \* bound: changes the office makes meanwhile
    MaxDecisions,    \* bound: decisions of the user about what was written
    MaxMishaps,      \* bound: closed pages, broken connections and refusals
    Absent

ASSUME AbsentAssumption == Absent \notin Pages \cup Requests
ASSUME StatusAssumption == {"open", "done"} \subseteq Statuses /\ Statuses \subseteq {"open", "in_progress", "done"}
ASSUME CapAssumption  == MaxItems \in Nat \ {0} /\ \A b \in {MaxTogether, MaxOffice, MaxDecisions, MaxMishaps} : b \in Nat

Rates     == {"old", "new"}      \* of the catalogue: before and after the office changes it
Screens   == {"crew", "capture"}
Items     == 1 .. MaxItems       \* in the order of created_at
Estimates == 1 .. 2 * MaxItems   \* bound: estimates made of drafts

VARIABLES
    store,       \* IndexedDB: CREW_QUEUE_STORE and DRAFT_STORE
    screen,      \* the one this behaviour uses: the two share no store and no row
    cached,      \* IndexedDB: the rate of the primed catalogue
    page,
    request,
    task,        \* tasks.status; "gone" once it is assigned to somebody else
    rate,        \* cost_catalog_items.unit_rate
    logs,        \* daily_logs: rows of each log
    estimate,    \* estimates made of drafts
    office, decisions, mishaps,
    written,     \* history: how many items were written
    settled,     \* history: items applied at the server, and items the user has discarded
    agreed,      \* history: <<draft, rate>> the estimator has seen
    parked,      \* history: adopted drafts whose send nobody has asked for
    crossed      \* history: "pages" two pages sent at once or from old copies, "fetch" the task list
                 \* was loaded over an unsent change, "cut" a call to create was cut off

server  == <<task, rate, logs, estimate>>
history == <<written, settled, agreed, parked, crossed>>
ovars   == <<screen, store, cached, page, request, server, office, decisions, mishaps, history>>

None    == "none"
NoItem  == [state |-> None, kind |-> "log", seen |-> None, want |-> None, current |-> None, id |-> 0]
NoRequest  == [pc |-> "free", page |-> Absent, i |-> 0, item |-> NoItem, step |-> None, answer |-> None]
Closed  == [open |-> FALSE, list |-> [i \in Items |-> NoItem], batch |-> [i \in Items |-> NoItem],
            tried |-> {}, request |-> Absent, shown |-> "open", fresh |-> {}]
NoEstimate == [draft |-> 0, rate |-> None, calculated |-> FALSE, deleted |-> FALSE]

ScreenOf(kind) == IF kind = "estimate" THEN "capture" ELSE "crew"
Shown(p)   == {i \in Items : page[p].list[i].state # None}
Batch(p)   == {i \in Items : page[p].batch[i].state # None}
Waiting(p) == {i \in Shown(p) : page[p].list[i].state # "needs_attention"}
Standing(e)    == estimate[e].draft # 0 /\ ~estimate[e].deleted
Decision   == decisions < MaxDecisions /\ decisions' = decisions + 1
Roomy       == written + Cardinality({p \in Pages : page[p].open}) < MaxTogether
Mishap      == mishaps < MaxMishaps /\ mishaps' = mishaps + 1
Office     == office < MaxOffice /\ office' = office + 1

(* The decisions of the code, each preceded by the mutant that shows which *)
(* property depends on it.                                                 *)

\* The unique index on (company_id, client_reference).
UniqueLog_None(i) == FALSE
UniqueLog(i) == logs[i] > 0

\* A queue emptied by every answer instead of the server's ok.
Removes_Answered(answer) == answer # None
Removes(answer) == answer = "ok"

\* The order of the list: oldest first for the crew.
First_Newest(S) == Max(S)
First(S) == IF screen = "crew" THEN Min(S) ELSE Max(S)

\* The id of the estimate, saved before the lines are sent.
SavedId_Late(item, id) == item
SavedId(item, id) == [item EXCEPT !.id = id]

InitOffline ==
    /\ screen   \in Screens
    /\ store    = [i \in Items |-> NoItem]
    /\ cached   = "old"
    /\ page     = [p \in Pages |-> Closed]
    /\ request  = [r \in Requests |-> NoRequest]
    /\ task     = "open"
    /\ rate     = "old"
    /\ logs     = [i \in Items |-> 0]
    /\ estimate = [e \in Estimates |-> NoEstimate]
    /\ office   = 0
    /\ decisions = 0
    /\ mishaps  = 0
    /\ written  = 0
    /\ settled  = [applied |-> {}, discarded |-> {}]
    /\ agreed   = {}
    /\ parked   = {}
    /\ crossed  = {}

(***************************************************************************)
(* The pages.                                                              *)
(***************************************************************************)

\* With its first list of tasks: before that there is none to change.
OpenPage(p) ==
    /\ ~page[p].open /\ Roomy
    /\ page' = [page EXCEPT ![p] = [Closed EXCEPT !.open = TRUE, !.list = store, !.shown = task]]
    /\ UNCHANGED <<screen, store, cached, request, server, office, decisions, mishaps, history>>

\* The loading of the task list, on every tick: fetchMyTasks is answered, and later the answer is
\* what the page shows.  It knows nothing of the queue, nor of an answer that came before it.
FetchTasks(p) ==
    /\ page[p].open /\ screen = "crew" /\ task \notin page[p].fresh
    /\ page' = [page EXCEPT ![p].fresh = @ \cup {task}]
    /\ UNCHANGED <<screen, store, cached, request, server, office, decisions, mishaps, history>>

ShowTasks(p) ==
    /\ \E answer \in page[p].fresh :
          /\ page' = [page EXCEPT ![p].shown = answer, ![p].fresh = @ \ {answer}]
          /\ crossed' = IF answer # task \/ \E i \in Items : store[i].kind = "status" /\ store[i].state # None
                        THEN crossed \cup {"fetch"} ELSE crossed
    /\ UNCHANGED <<screen, store, cached, request, server, office, decisions, mishaps, written, settled, agreed, parked>>

Prime(p) ==
    /\ page[p].open /\ screen = "capture" /\ cached # rate
    /\ cached' = rate
    /\ UNCHANGED <<screen, store, page, request, server, office, decisions, mishaps, history>>

\* saveQueueItem or saveDraft, the list again, and retryNow.
Write(p) ==
    LET n == written + 1 IN
    /\ page[p].open /\ n \in Items /\ Roomy
    /\ \E item \in [state : {"queued"}, kind : {"status", "log", "estimate"}, seen : Statuses \cup Rates \cup {None},
                    want : Statuses \cup {None}, current : {None}, id : {0}] :
          /\ ScreenOf(item.kind) = screen
          /\ CASE item.kind = "status"   -> item.seen = page[p].shown /\ item.want \in Statuses \ {item.seen}
               [] item.kind = "log"      -> item.seen = None /\ item.want = None
               [] item.kind = "estimate" -> item.seen = cached /\ item.want = None
          /\ store' = [store EXCEPT ![n] = item]
          /\ page' = [page EXCEPT ![p].list = store', ![p].tried = {},
                                  ![p].shown = IF item.kind = "status" THEN item.want ELSE @]
          /\ agreed' = IF item.kind = "estimate" THEN agreed \cup {<<n, cached>>} ELSE agreed
    /\ written' = n
    /\ crossed' = IF \E q \in Pages \ {p} : page[q].open THEN crossed \cup {"pages"} ELSE crossed
    /\ UNCHANGED <<screen, cached, request, server, office, decisions, mishaps, settled, parked>>

\* The effect that sends: one loop of a page at a time, over what it has not tried on this tick.
StartSending(p) ==
    LET due == Waiting(p) \ page[p].tried IN
    /\ Batch(p) = {} /\ due # {}
    /\ page' = [page EXCEPT ![p].batch = [i \in Items |-> IF i \in due THEN page[p].list[i] ELSE NoItem],
                            ![p].tried = @ \cup due]
    /\ UNCHANGED <<screen, store, cached, request, server, office, decisions, mishaps, history>>

Dial(p, i, item, step) ==
    \E r \in Requests :
        /\ request[r] = NoRequest
        /\ request' = [request EXCEPT ![r] = [NoRequest EXCEPT !.pc = "sent", !.page = p, !.i = i, !.item = item,
                                                      !.step = step]]
        /\ page' = [page EXCEPT ![p].request = r, ![p].batch[i] = item]

\* sendQueueItem and flushDraft put their copy back as being sent, and make the first call.
Send(p) ==
    LET i == First(Batch(p))
        item == [page[p].batch[i] EXCEPT !.state = "sending", !.current = None]
        step == IF item.kind # "estimate" THEN "write" ELSE IF item.id = 0 THEN "create" ELSE "lines" IN
    /\ Batch(p) # {} /\ page[p].request = Absent
    /\ store' = [store EXCEPT ![i] = item]
    /\ Dial(p, i, item, step)
    /\ crossed' = IF store[i] # page[p].batch[i] \/ (\E r \in Requests : request[r].i = i)
                  THEN crossed \cup {"pages"} ELSE crossed
    /\ UNCHANGED <<screen, cached, server, office, decisions, mishaps, written, settled, agreed, parked>>

\* What the loop does when it is done with an item: the next one, or the list again.
Rest(p, i, shown) ==
    LET last == Batch(p) = {i}
    IN  [page EXCEPT ![p].batch[i] = NoItem, ![p].request = Absent, ![p].shown = shown,
                     ![p].list = IF last THEN store' ELSE @]

Replied(p) == page[p].request # Absent /\ request[page[p].request].pc \in {"ok", "conflict", "refused"}

\* The estimate exists, or its lines do: on to the next call of the chain.
NextStep(p) ==
    LET r == page[p].request  x == request[r]
        item == IF x.step = "create" THEN [x.item EXCEPT !.id = x.answer] ELSE x.item
        kept == IF x.step = "create" THEN SavedId(store[x.i], x.answer) ELSE store[x.i] IN
    /\ Replied(p) /\ x.pc = "ok" /\ x.step \in {"create", "lines"}
    /\ store' = [store EXCEPT ![x.i] = IF x.step = "create" THEN [item EXCEPT !.id = kept.id] ELSE @]
    /\ request' = [request EXCEPT ![r] = [x EXCEPT !.pc = "sent", !.item = item, !.answer = None,
                                             !.step = IF x.step = "create" THEN "lines" ELSE "calculate"]]
    /\ page' = [page EXCEPT ![p].batch[x.i] = item]
    /\ UNCHANGED <<screen, cached, server, office, decisions, mishaps, history>>

\* Done, or parked for a person.
Settle(p) ==
    LET r == page[p].request  x == request[r]  parks == [x.item EXCEPT !.state = "needs_attention"] IN
    /\ Replied(p) /\ (x.pc = "ok" => x.step \in {"write", "calculate"})
    /\ store' = [store EXCEPT ![x.i] = IF Removes(x.pc) THEN NoItem
                                       ELSE IF x.pc = "conflict" THEN [parks EXCEPT !.current = x.answer]
                                       ELSE parks]
    /\ page' = Rest(p, x.i, IF x.pc = "conflict" /\ x.item.kind = "status" THEN x.answer ELSE page[p].shown)
    /\ request' = [request EXCEPT ![r] = NoRequest]
    /\ UNCHANGED <<screen, cached, server, office, decisions, mishaps, history>>

\* fetch throws: back to the queue, on to the next item.
Defer(p) ==
    LET r == page[p].request  x == request[r] IN
    /\ r # Absent
    /\ Mishap
    /\ store' = [store EXCEPT ![x.i] = [x.item EXCEPT !.state = "queued"]]
    /\ page' = Rest(p, x.i, page[p].shown)
    /\ request' = [request EXCEPT ![r].page = Absent]
    /\ crossed' = IF x.step = "create" THEN crossed \cup {"cut"} ELSE crossed
    /\ UNCHANGED <<screen, cached, server, office, decisions, written, settled, agreed, parked>>

ClosePage(p) ==
    LET r == page[p].request IN
    /\ page[p].open
    /\ Mishap
    /\ page' = [page EXCEPT ![p] = Closed]
    /\ request' = IF r = Absent THEN request ELSE [request EXCEPT ![r].page = Absent]
    /\ crossed' = IF r # Absent /\ request[r].step = "create" THEN crossed \cup {"cut"} ELSE crossed
    /\ UNCHANGED <<screen, store, cached, server, office, decisions, written, settled, agreed, parked>>

\* useRetryTicker: what was tried may be tried again.
Tick(p) ==
    /\ Waiting(p) # {} /\ page[p].tried # {}
    /\ page' = [page EXCEPT ![p].tried = {}]
    /\ UNCHANGED <<screen, store, cached, request, server, office, decisions, mishaps, history>>

(***************************************************************************)
(* What the user decides about a parked or waiting item.                   *)
(***************************************************************************)

Parked(p, i) == i \in Shown(p) /\ page[p].list[i].state = "needs_attention"

\* handleApplyAnyway: against what the task says now.
ApplyAnyway(p, i) ==
    LET item == page[p].list[i] IN
    /\ Parked(p, i) /\ item.kind = "status" /\ item.current # None
    /\ Decision
    /\ store' = [store EXCEPT ![i] = [item EXCEPT !.state = "queued", !.seen = item.current, !.current = None]]
    /\ page' = [page EXCEPT ![p].list = store', ![p].tried = {}]
    /\ UNCHANGED <<screen, cached, request, server, office, mishaps, history>>

\* handleAdoptRates: marked as tried on the current tick.
AdoptRates(p, i) ==
    LET item == page[p].list[i] IN
    /\ Parked(p, i) /\ item.kind = "estimate" /\ item.current # None
    /\ Decision
    /\ store' = [store EXCEPT ![i] = [item EXCEPT !.state = "queued", !.seen = item.current, !.current = None]]
    /\ page' = [page EXCEPT ![p].list = store', ![p].tried = @ \cup {i}]
    /\ agreed' = agreed \cup {<<i, item.current>>}
    /\ parked' = parked \cup {i}
    /\ UNCHANGED <<screen, cached, request, server, office, mishaps, written, settled, crossed>>

SendNow(p, i) ==
    /\ screen = "capture" /\ i \in Shown(p) /\ Batch(p) = {}
    /\ Decision
    /\ page' = [page EXCEPT ![p].batch[i] = page[p].list[i], ![p].tried = @ \cup {i}]
    /\ parked' = parked \ {i}
    /\ UNCHANGED <<screen, store, cached, request, server, office, mishaps, written, settled, agreed, crossed>>

\* handleDiscard; the estimate a draft has made is deleted first.
Discard(p, i) ==
    LET item == page[p].list[i] IN
    /\ i \in Shown(p) /\ (item.kind # "estimate" => Parked(p, i))
    /\ Decision
    /\ estimate' = IF item.id = 0 THEN estimate ELSE [estimate EXCEPT ![item.id].deleted = TRUE]
    /\ store' = [store EXCEPT ![i] = NoItem]
    /\ page' = [page EXCEPT ![p].list = store',
                            ![p].shown = IF item.kind = "status" /\ item.current # None THEN item.current ELSE @]
    /\ settled' = [settled EXCEPT !.discarded = @ \cup {i}]
    /\ UNCHANGED <<screen, cached, request, task, rate, logs, office, mishaps, written, agreed, parked, crossed>>

(***************************************************************************)
(* The server.                                                             *)
(***************************************************************************)

Reply(r, pc, answer) == request' = [request EXCEPT ![r].pc = pc, ![r].answer = answer]
Sent(r, step) == request[r].pc = "sent" /\ request[r].step = step
Applied(r) == settled' = [settled EXCEPT !.applied = @ \cup {request[r].i}]

\* patch_task reads the task, and create_daily_log looks for the reference.
Check(r) ==
    LET x == request[r] IN
    /\ Sent(r, "write")
    /\ IF x.item.kind = "log"
       THEN Reply(r, IF logs[x.i] > 0 THEN "ok" ELSE "checked", None)
       ELSE \/ task = "gone" /\ Reply(r, "refused", None)
            \/ task \in Statuses \ {x.item.seen} /\ Reply(r, "conflict", task)
            \/ task = x.item.seen /\ Reply(r, "checked", None)
    /\ UNCHANGED <<screen, store, cached, page, server, office, mishaps, decisions, history>>

\* The UPDATE writes a status that differs from the one read; the INSERT may meet the key.
Commit(r) ==
    LET x == request[r]  i == x.i IN
    /\ x.pc = "checked"
    /\ IF x.item.kind = "log"
       THEN IF UniqueLog(i)
            THEN Reply(r, "refused", None) /\ UNCHANGED <<task, logs, settled>>
            ELSE logs' = [logs EXCEPT ![i] = @ + 1] /\ Reply(r, "ok", None) /\ Applied(r) /\ UNCHANGED task
       ELSE /\ task' = IF task = "gone" THEN task ELSE x.item.want
            /\ Reply(r, "ok", None) /\ Applied(r) /\ UNCHANGED logs
    /\ UNCHANGED <<screen, store, cached, page, rate, estimate, office, mishaps, decisions, written, agreed, parked, crossed>>

CreateEstimate(r) ==
    /\ Sent(r, "create")
    /\ \E e \in Estimates :
          /\ estimate[e] = NoEstimate /\ \A d \in Estimates : estimate[d] = NoEstimate => d >= e
          /\ estimate' = [estimate EXCEPT ![e].draft = request[r].i]
          /\ Reply(r, "ok", e)
    /\ UNCHANGED <<screen, store, cached, page, task, rate, logs, office, mishaps, decisions, history>>

\* expected_unit_rate against the catalogue.
ReplaceLines(r) ==
    LET x == request[r]  e == x.item.id IN
    /\ Sent(r, "lines")
    /\ \/ ~Standing(e) /\ Reply(r, "refused", None) /\ UNCHANGED estimate
       \/ Standing(e) /\ rate # x.item.seen /\ Reply(r, "conflict", rate) /\ UNCHANGED estimate
       \/ /\ Standing(e) /\ rate = x.item.seen
          /\ estimate' = [estimate EXCEPT ![e].rate = rate]
          /\ Reply(r, "ok", None)
    /\ UNCHANGED <<screen, store, cached, page, task, rate, logs, office, mishaps, decisions, history>>

Calculate(r) ==
    LET e == request[r].item.id IN
    /\ Sent(r, "calculate")
    /\ IF Standing(e)
       THEN estimate' = [estimate EXCEPT ![e].calculated = TRUE] /\ Reply(r, "ok", None)
       ELSE UNCHANGED estimate /\ Reply(r, "refused", None)
    /\ UNCHANGED <<screen, store, cached, page, task, rate, logs, office, mishaps, decisions, history>>

\* A lapsed subscription, a withheld module or a server that is down.
Refuse(r) ==
    /\ request[r].pc = "sent"
    /\ Mishap
    /\ Reply(r, "refused", None)
    /\ UNCHANGED <<screen, store, cached, page, server, office, decisions, history>>

\* A request whose page is gone never arrives, or is answered to nobody.
Vanish(r) ==
    /\ request[r].pc \notin {"free", "checked"} /\ request[r].page = Absent
    /\ request' = [request EXCEPT ![r] = NoRequest]
    /\ UNCHANGED <<screen, store, cached, page, server, office, mishaps, decisions, history>>

OfficeSetsStatus ==
    /\ Office
    /\ task' \in {"done", "gone"} \ {task}
    /\ UNCHANGED <<screen, store, cached, page, request, rate, logs, estimate, mishaps, decisions, history>>

OfficeSetsRate ==
    /\ Office /\ rate = "old"
    /\ rate' = "new"
    /\ UNCHANGED <<screen, store, cached, page, request, task, logs, estimate, mishaps, decisions, history>>

Loop(p)   == StartSending(p) \/ Send(p) \/ NextStep(p) \/ Settle(p) \/ Tick(p)
Serve(r) == Check(r) \/ Commit(r) \/ CreateEstimate(r) \/ ReplaceLines(r) \/ Calculate(r)

NextOffline ==
    \/ \E p \in Pages : OpenPage(p) \/ FetchTasks(p) \/ ShowTasks(p) \/ Prime(p) \/ Write(p) \/ Loop(p) \/ Defer(p) \/ ClosePage(p)
    \/ \E p \in Pages, i \in Items : ApplyAnyway(p, i) \/ AdoptRates(p, i) \/ SendNow(p, i) \/ Discard(p, i)
    \/ \E r \in Requests : Serve(r) \/ Refuse(r) \/ Vanish(r)
    \/ OfficeSetsStatus \/ OfficeSetsRate

OfflineSpec == InitOffline /\ [][NextOffline]_ovars

-----------------------------------------------------------------------------
ItemTypes ==
    [state : {None, "queued", "sending", "needs_attention"}, kind : {"status", "log", "estimate"},
     seen : Statuses \cup Rates \cup {None}, want : Statuses \cup {None},
     current : Statuses \cup Rates \cup {None}, id : 0 .. 2 * MaxItems]
PageTypes ==
    [open : BOOLEAN, list : [Items -> ItemTypes], batch : [Items -> ItemTypes], tried : SUBSET Items,
     request : Requests \cup {Absent}, shown : Statuses \cup {"gone"},
     fresh : SUBSET (Statuses \cup {"gone"})]
RequestTypes(answer) ==
    [pc : {"free", "sent", "checked", "ok", "conflict", "refused"}, page : Pages \cup {Absent}, i : 0 .. MaxItems,
     item : ItemTypes, step : {None, "write", "create", "lines", "calculate"}, answer : {answer}]
EstimateTypes ==
    [draft : 0 .. MaxItems, rate : Rates \cup {None}, calculated : BOOLEAN, deleted : BOOLEAN]

\* An answer is the id of the new estimate, and in a conflict the status or rate of today.
AnswerFits(x) ==
    /\ x.pc = "ok" /\ x.step = "create" => x.answer \in Estimates
    /\ x.pc = "conflict" => IF x.item.kind = "status" THEN x.answer \in Statuses ELSE x.answer \in Rates

\* The store, the pages, the calls and the server keep their types.
OfflineTypeOK ==
    /\ screen \in Screens /\ cached \in Rates /\ rate \in Rates /\ task \in Statuses \cup {"gone"}
    /\ store \in [Items -> ItemTypes] /\ page \in [Pages -> PageTypes]
    /\ DOMAIN request = Requests
    /\ \A r \in Requests :
          request[r] \in RequestTypes(request[r].answer) /\ AnswerFits(request[r])
    /\ logs \in [Items -> Nat]
    /\ estimate \in [Estimates -> EstimateTypes]
    /\ office \in 0 .. MaxOffice /\ decisions \in 0 .. MaxDecisions /\ mishaps \in 0 .. MaxMishaps
    /\ written \in 0 .. MaxItems
    /\ settled \in [applied : SUBSET Items, discarded : SUBSET Items]
    /\ agreed \subseteq Items \X Rates /\ parked \subseteq Items
    /\ crossed \subseteq {"pages", "fetch", "cut"}

\* tasks.py and migration 0034: a daily log can never be removed, so whatever is sent twice, by two
\* pages or after a lost answer, is written once.
LoggedOnce == \A i \in Items : logs[i] <= 1

Complete(i) == \E e \in Estimates : /\ estimate[e].draft = i /\ estimate[e].calculated
                                    /\ <<i, estimate[e].rate>> \in agreed

\* What was written on the device stays on it until the server has all of it (an estimate: its
\* lines at rates the estimator has seen, and its totals) or the user discards it.
NothingLost ==
    \A i \in 1 .. written :
        store[i].state # None \/ i \in settled.discarded \/ i \in settled.applied \/ Complete(i)

\* flush.ts:84-86: an interrupted flush resumes "instead of creating a second estimate", unless
\* the creating call itself was cut off or two pages sent at once.
OneEstimatePerDraft ==
    crossed \cap {"cut", "pages"} = {} =>
        \A d, e \in Estimates : d # e /\ Standing(d) /\ Standing(e) => estimate[d].draft # estimate[e].draft

\* What was written once arrives once: a log, whatever is sent again, and an estimate.
ArrivesOnce == LoggedOnce /\ OneEstimatePerDraft

\* page.tsx:128-131: changes of one screen arrive in the order they were made, or "the crew member
\* would be told their own change conflicts": so without the office, a mishap, a second page or a
\* list loaded in between, none does.
NoFalseConflict ==
    office = 0 /\ mishaps = 0 /\ crossed = {} =>
        \A i \in Items : ~(store[i].kind = "status" /\ store[i].current # None)

\* The same whatever happens to the connection and the list, as long as the office keeps away.
OwnChangesAgree ==
    office = 0 => \A i \in Items : ~(store[i].kind = "status" /\ store[i].current # None)

\* CaptureScreen.tsx:316-318: adopting rates is one decision and sending the estimate another, which
\* "this screen must not make" for them.
AdoptedWaitsForSend == \A i \in parked : store[i].state # "sending"
=============================================================================
