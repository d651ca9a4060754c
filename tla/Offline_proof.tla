--------------------------- MODULE Offline_proof --------------------------
(***************************************************************************)
(* Proofs about Offline, for any number of pages, requests, writings and   *)
(* mishaps.  The invariant OInv comes first, then what each step does,     *)
(* then one part of OInv after another, and the theorems at the end. The   *)
(* parts need each other: that a draft becomes one estimate needs that an  *)
(* item and every copy of it agree on the estimate, and that no two calls  *)
(* are about one item; that the changes of a status agree needs the order  *)
(* they are sent in.                                                       *)
(***************************************************************************)
EXTENDS Offline, NaturalsInduction, WellFoundedInduction, FiniteSetTheorems, TLAPS

\* What every copy of an item, in the store, in a list, in a batch or in a request, keeps.
Copy(item, i) ==
    item.state # None =>
        /\ i <= written /\ ScreenOf(item.kind) = screen
        /\ item.kind = "status" =>
              item.seen \in Statuses /\ item.want \in Statuses /\ item.current \in Statuses \cup {None}
        /\ item.kind # "estimate" => item.id = 0
        /\ item.kind = "estimate" =>
              /\ item.seen \in Rates /\ <<i, item.seen>> \in agreed /\ item.current \in Rates \cup {None}
              /\ item.current # None => item.id # 0
              /\ item.id # 0 => estimate[item.id].draft = i

\* A place without an item holds nothing.
Empty(item) == item.state = None => item = NoItem

\* All copies of an item carry the same writing and name the same estimate.
Copies ==
    /\ \A i \in Items : Copy(store[i], i) /\ Empty(store[i])
    /\ \A p \in Pages, i \in Items : Copy(page[p].list[i], i) /\ Empty(page[p].list[i])
    /\ \A p \in Pages, i \in Items : Copy(page[p].batch[i], i) /\ Empty(page[p].batch[i])

\* The request r is on its way, at the server or answered.
Used(r) == request[r].pc # "free"

\* The step a request has come to and what is known of the server by then.
RequestFits(r) ==
    LET x == request[r]  item == x.item  e == x.item.id IN
    /\ ~Used(r) => x = NoRequest
    /\ Used(r) =>
          /\ x.i \in Items /\ item.state = "sending" /\ item.current = None /\ Copy(item, x.i)
          /\ (x.step = "write") <=> (item.kind # "estimate")
          /\ x.step # None /\ (x.step = "create" => e = 0) /\ (x.step \in {"lines", "calculate"} => e # 0)
          /\ x.pc = "checked" => x.step = "write"
          /\ x.pc = "conflict" => item.kind = "status" \/ x.step = "lines"
          /\ x.pc = "ok" /\ x.step = "create" => estimate[x.answer].draft = x.i
          /\ x.pc = "ok" /\ x.step = "write" => x.i \in settled.applied
          /\ x.step = "calculate" \/ (x.step = "lines" /\ x.pc = "ok") => estimate[e].rate # None
          /\ x.pc = "ok" /\ x.step = "calculate" => estimate[e].calculated

RequestsFit == \A r \in Requests : RequestFits(r)

\* The request a page waits for is its own.
LinksFit == \A p \in Pages : page[p].request # Absent =>
    page[p].open /\ Used(page[p].request) /\ request[page[p].request].page = p

\* A closed page keeps nothing.
ShutFits == \A p \in Pages : ~page[p].open => page[p] = Closed

\* What the server has is what was applied or agreed to, a log once at most.
ServerFits ==
    /\ \A i \in Items : logs[i] <= 1 /\ (logs[i] > 0 => i \in settled.applied)
    /\ \A e \in Estimates :
          /\ estimate[e].draft = 0 => estimate[e].rate = None
          /\ estimate[e].draft # 0 => screen = "capture" /\ estimate[e].draft <= written
          /\ estimate[e].rate # None => <<estimate[e].draft, estimate[e].rate>> \in agreed

\* While no call is cut off and no second page sends, a draft has one estimate, a call to create one
\* finds none, and neither does an item that is still to make its own.
OneEach ==
    crossed \cap {"cut", "pages"} = {} =>
        /\ \A d, e \in Estimates : estimate[d].draft = estimate[e].draft => d = e \/ estimate[d].draft = 0
        /\ \A r \in Requests : request[r].step = "create" =>
              /\ request[r].page # Absent
              /\ request[r].pc # "ok" => \A e \in Estimates : estimate[e].draft # request[r].i
        /\ \A i \in Items :
              store[i].state # None /\ store[i].id = 0 /\ (\A r \in Requests : request[r].step = "create" => request[r].i # i) =>
              \A e \in Estimates : estimate[e].draft # i

\* While no second page sends, no two requests are about one item.
Single ==
    "pages" \notin crossed => \A r, s \in Requests : Used(r) /\ request[r].i = request[s].i => r = s

\* The changes of a status that wait, in the order they were made, while nothing disturbs them: no
\* office, no mishap, and neither a second page nor the list has crossed them.
Calm         == office = 0 /\ mishaps = 0 /\ crossed = {}
Changes      == {i \in Items : store[i].state # None /\ store[i].kind = "status"}
Oldest(i)    == i \in Changes /\ \A j \in Changes : i <= j
Newest(i)    == i \in Changes /\ \A j \in Changes : j <= i
Follows(j, i) == /\ i \in Changes /\ j \in Changes /\ i < j
                 /\ \A k \in Changes : ~(i < k /\ k < j)
Alone(p)     == page[p].open /\ \A q \in Pages : page[q].open => q = p

\* The changes wait or are being sent, and none is in conflict.
QueueOrder ==
    /\ task \in Statuses
    /\ \A i \in Items : store[i].kind = "status" => store[i].current = None
    /\ \A i \in Changes : store[i].state \in {"queued", "sending"}
\* Every call has its page, and one is open once something is written.
CallsOrder ==
    /\ \A r \in Requests : Used(r) => request[r].page # Absent
    /\ (\A p \in Pages : ~page[p].open) => written = 0
\* The loop of a page goes through the changes from the oldest on, and leaves out none before one it
\* still has.
PageOrder(p) ==
    /\ \A i \in Items : page[p].list[i].kind = "status" => page[p].list[i].current = None
    /\ page[p].open => \A i \in Changes :
          /\ page[p].list[i].state \in {"queued", "sending"}
          /\ i \in page[p].tried => i \in Batch(p)
          /\ \A j \in Batch(p) : i < j => i \in Batch(p)
\* Only the oldest change is under way, against the status it was made over.
SendOrder(r) ==
    Used(r) =>
        LET x == request[r] IN
        IF x.item.kind = "status"
        THEN /\ Oldest(x.i) /\ store[x.i] = x.item /\ x.pc \in {"sent", "checked", "ok"}
             /\ task = IF x.pc = "ok" THEN x.item.want ELSE x.item.seen
        ELSE x.i \notin Changes
\* The oldest change was made over the status the task has, unless it has been applied already.
FirstOrder ==
    \A i \in Items : Oldest(i) =>
        store[i].seen = task \/ \E r \in Requests : Used(r) /\ request[r].i = i /\ request[r].pc = "ok"
\* Every change was made over the one before it.
LinkOrder == \A i, j \in Items : Follows(j, i) => store[j].seen = store[i].want
\* The only open page shows the newest change.
ViewOrder(p) ==
    Alone(p) => /\ Changes = {} => page[p].shown = task
                /\ \A i \in Items : Newest(i) => page[p].shown = store[i].want
\* All of this, as long as nothing disturbs the changes.
Order ==
    /\ QueueOrder /\ CallsOrder /\ FirstOrder /\ LinkOrder
    /\ \A p \in Pages : PageOrder(p) /\ ViewOrder(p)
    /\ \A r \in Requests : SendOrder(r)
InOrder == Calm => Order

\* The inductive invariant.
OInv ==
    /\ OfflineTypeOK /\ Copies /\ RequestsFit /\ LinksFit /\ ShutFits /\ ServerFits
    /\ NothingLost /\ OneEach /\ Single /\ InOrder

-----------------------------------------------------------------------------
(* What each step does to a page, an item and a request, field by field.   *)

\* Nothing but the page p, the item i in the store or the request r changes.
OnlyPage(p)    == \A q \in Pages \ {p} : page'[q] = page[q]
OnlyItem(i)    == \A j \in Items \ {i} : store'[j] = store[j]
OnlyRequest(r) == \A s \in Requests \ {r} : request'[s] = request[s]

\* The next state's pages, store and requests are typed.
PagesTyped    == page' \in [Pages -> PageTypes]
StoreTyped    == store' \in [Items -> ItemTypes]
RequestsTyped == DOMAIN request' = Requests /\ \A r \in Requests :
                    request'[r] \in RequestTypes(request'[r].answer) /\ AnswerFits(request'[r])

LEMMA BlankIsTyped ==
    /\ NoItem \in ItemTypes /\ Closed \in PageTypes
    /\ NoRequest \in RequestTypes(None) /\ AnswerFits(NoRequest)
    /\ NoItem.state = None /\ NoItem.kind = "log" /\ NoItem.current = None /\ NoItem.id = 0
    /\ NoRequest.pc = "free" /\ NoRequest.i = 0 /\ NoRequest.item = NoItem /\ NoRequest.step = None
    /\ NoRequest.page = Absent
    /\ Closed.list = [i \in Items |-> NoItem] /\ Closed.batch = [i \in Items |-> NoItem] /\ Closed.tried = {}
    /\ ~Closed.open /\ Closed.request = Absent /\ Closed.shown = "open" /\ Closed.fresh = {}
  <1>1. NoItem \in ItemTypes
    BY CapAssumption DEF NoItem, ItemTypes
  <1>2. Closed \in PageTypes
    BY <1>1, StatusAssumption DEF Closed, PageTypes
  <1>3. NoRequest \in RequestTypes(None)
    BY <1>1, CapAssumption DEF NoRequest, RequestTypes
  <1> QED
    BY <1>1, <1>2, <1>3 DEF NoItem, Closed, NoRequest, AnswerFits, None

LEMMA FirstIs ==
    ASSUME NEW S \in SUBSET Items, S # {}
    PROVE  First(S) \in S /\ (screen = "crew" => \A i \in S : First(S) <= i)
  <1>1. \A i \in S : i \in Nat /\ MaxItems - i \in Nat
    BY CapAssumption DEF Items
  <1>2. S \subseteq Nat
    BY <1>1
  <1>3. PICK least \in S : \A i \in S : ~(<<i, least>> \in OpToRel(<, Nat))
    BY Zenon, <1>2, NatLessThanWellFounded, WFMin
  <1>4. \A i \in S : ~(i < least)
    BY <1>1, <1>3, Zenon DEF OpToRel
  <1>5. \A i \in S : least <= i
    BY <1>1, <1>4
  <1>6. Min(S) \in S /\ \A i \in S : Min(S) <= i
    BY <1>5 DEF Min
  <1> DEFINE D == {MaxItems - i : i \in S}
  <1>7. D # {} /\ D \subseteq Nat
    BY <1>1
  <1>8. PICK d \in D : \A n \in D : ~(<<n, d>> \in OpToRel(<, Nat))
    BY Zenon, <1>7, NatLessThanWellFounded, WFMin
  <1>9. \A n \in D : ~(n < d)
    BY <1>7, <1>8, Zenon DEF OpToRel
  <1>10. PICK most \in S : d = MaxItems - most
    BY Zenon, <1>8
  <1>11. \A i \in S : ~(MaxItems - i < MaxItems - most)
    BY <1>9, <1>10
  <1>12. \A i \in S : most >= i
    BY <1>1, <1>11, CapAssumption
  <1>13. Max(S) \in S
    BY <1>12 DEF Max
  <1> QED
    BY <1>6, <1>13 DEF First

LEMMA OpenPageIs ==
    ASSUME OfflineTypeOK, NEW p \in Pages, OpenPage(p)
    PROVE  /\ PagesTyped /\ OnlyPage(p)
           /\ page'[p].open /\ page'[p].list = store /\ page'[p].batch = [i \in Items |-> NoItem]
           /\ page'[p].tried = {} /\ page'[p].request = Absent /\ page'[p].shown = task
  <1>1. page \in [Pages -> PageTypes] /\ store \in [Items -> ItemTypes] /\ task \in Statuses \cup {"gone"}
    BY DEF OfflineTypeOK
  <1> DEFINE new == [Closed EXCEPT !.open = TRUE, !.list = store, !.shown = task]
  <1>2. /\ new \in PageTypes /\ new.open /\ new.list = store /\ new.batch = [i \in Items |-> NoItem]
        /\ new.tried = {} /\ new.request = Absent /\ new.shown = task
    BY <1>1, BlankIsTyped DEF PageTypes
  <1>3. page' = [page EXCEPT ![p] = new]
    BY DEF OpenPage
  <1> HIDE DEF new
  <1> QED
    BY <1>1, <1>2, <1>3 DEF PagesTyped, OnlyPage

LEMMA FetchTasksIs ==
    ASSUME OfflineTypeOK, NEW p \in Pages, FetchTasks(p)
    PROVE  /\ PagesTyped /\ OnlyPage(p)
           /\ page'[p].open = page[p].open /\ page'[p].list = page[p].list /\ page'[p].batch = page[p].batch
           /\ page'[p].tried = page[p].tried /\ page'[p].request = page[p].request
           /\ page'[p].shown = page[p].shown
  <1>1. page \in [Pages -> PageTypes] /\ page[p] \in PageTypes /\ task \in Statuses \cup {"gone"}
    BY DEF OfflineTypeOK
  <1>a. page[p].fresh \cup {task} \in SUBSET (Statuses \cup {"gone"})
    BY <1>1 DEF PageTypes
  <1> DEFINE new == [page[p] EXCEPT !.fresh = @ \cup {task}]
  <1>2. page' = [page EXCEPT ![p] = new]
    BY <1>1 DEF FetchTasks
  <1>3. /\ new \in PageTypes /\ new.open = page[p].open /\ new.list = page[p].list /\ new.batch = page[p].batch
        /\ new.tried = page[p].tried /\ new.request = page[p].request /\ new.shown = page[p].shown
    BY <1>1, <1>a DEF PageTypes
  <1> HIDE DEF new
  <1> QED
    BY <1>1, <1>2, <1>3 DEF PagesTyped, OnlyPage

LEMMA ShowTasksIs ==
    ASSUME OfflineTypeOK, NEW p \in Pages, ShowTasks(p)
    PROVE  /\ PagesTyped /\ OnlyPage(p)
           /\ page'[p].open = page[p].open /\ page'[p].list = page[p].list /\ page'[p].batch = page[p].batch
           /\ page'[p].tried = page[p].tried /\ page'[p].request = page[p].request
           /\ crossed' = {} => page'[p].shown = task
  <1>1. page \in [Pages -> PageTypes] /\ page[p] \in PageTypes /\ page[p].fresh \subseteq Statuses \cup {"gone"}
    BY DEF OfflineTypeOK, PageTypes
  <1>2. PICK answer \in page[p].fresh :
           /\ page' = [page EXCEPT ![p].shown = answer, ![p].fresh = @ \ {answer}]
           /\ answer = task \/ crossed' = crossed \cup {"fetch"}
    BY DEF ShowTasks
  <1> DEFINE new == [page[p] EXCEPT !.shown = answer, !.fresh = @ \ {answer}]
  <1>3. page' = [page EXCEPT ![p] = new]
    BY <1>1, <1>2
  <1>a. answer \in Statuses \cup {"gone"} /\ page[p].fresh \ {answer} \in SUBSET (Statuses \cup {"gone"})
    BY <1>1
  <1>4. /\ new \in PageTypes /\ new.open = page[p].open /\ new.list = page[p].list /\ new.batch = page[p].batch
        /\ new.tried = page[p].tried /\ new.request = page[p].request /\ new.shown = answer
    BY <1>1, <1>a DEF PageTypes
  <1> HIDE DEF new
  <1> QED
    BY <1>1, <1>2, <1>3, <1>4 DEF PagesTyped, OnlyPage

LEMMA WriteIs ==
    ASSUME OfflineTypeOK, NEW p \in Pages, Write(p)
    PROVE  \E item \in ItemTypes :
           LET n == written + 1 IN
           /\ n \in Items /\ page[p].open
           /\ item.state = "queued" /\ item.current = None /\ item.id = 0 /\ ScreenOf(item.kind) = screen
           /\ item.kind = "status" => item.seen = page[p].shown /\ item.seen \in Statuses /\ item.want \in Statuses
           /\ item.kind = "estimate" => item.seen = cached
           /\ StoreTyped /\ OnlyItem(n) /\ store'[n] = item
           /\ PagesTyped /\ OnlyPage(p)
           /\ page'[p].open /\ page'[p].list = store' /\ page'[p].batch = page[p].batch
           /\ page'[p].tried = {} /\ page'[p].request = page[p].request
           /\ page'[p].shown = IF item.kind = "status" THEN item.want ELSE page[p].shown
           /\ agreed' = IF item.kind = "estimate" THEN agreed \cup {<<n, cached>>} ELSE agreed
  <1> DEFINE n == written + 1
  <1>1. page \in [Pages -> PageTypes] /\ page[p] \in PageTypes /\ store \in [Items -> ItemTypes]
    BY DEF OfflineTypeOK
  <1>2. PICK item \in [state : {"queued"}, kind : {"status", "log", "estimate"}, seen : Statuses \cup Rates \cup {None},
                       want : Statuses \cup {None}, current : {None}, id : {0}] :
          /\ ScreenOf(item.kind) = screen
          /\ CASE item.kind = "status"   -> item.seen = page[p].shown /\ item.want \in Statuses \ {item.seen}
               [] item.kind = "log"      -> item.seen = None /\ item.want = None
               [] item.kind = "estimate" -> item.seen = cached /\ item.want = None
          /\ store' = [store EXCEPT ![n] = item]
          /\ page' = [page EXCEPT ![p].list = store', ![p].tried = {},
                                  ![p].shown = IF item.kind = "status" THEN item.want ELSE @]
          /\ agreed' = IF item.kind = "estimate" THEN agreed \cup {<<n, cached>>} ELSE agreed
    BY DEF Write
  <1>3. item \in ItemTypes /\ item.state = "queued" /\ item.current = None /\ item.id = 0
    BY <1>2, CapAssumption DEF ItemTypes
  <1>4. /\ item.kind = "status" => item.seen = page[p].shown /\ item.want \in Statuses
        /\ item.kind = "estimate" => item.seen = cached
    BY <1>2
  <1>5. item.kind = "status" => item.seen \in Statuses
    BY <1>1, <1>2, <1>4, StatusAssumption DEF PageTypes, Rates, None
  <1>6. StoreTyped /\ OnlyItem(n) /\ store'[n] = item /\ n \in Items /\ page[p].open
    BY <1>1, <1>2, <1>3 DEF Write, StoreTyped, OnlyItem
  <1> DEFINE shown == IF item.kind = "status" THEN item.want ELSE page[p].shown
             new   == [page[p] EXCEPT !.list = store', !.tried = {}, !.shown = shown]
  <1>7. page' = [page EXCEPT ![p] = new]
    BY <1>1, <1>2
  <1>8. shown \in Statuses \cup {"gone"}
    BY <1>1, <1>4 DEF PageTypes
  <1> HIDE DEF shown
  <1>9. /\ new \in PageTypes /\ new.open /\ new.list = store' /\ new.batch = page[p].batch
        /\ new.tried = {} /\ new.request = page[p].request /\ new.shown = shown
    BY <1>1, <1>6, <1>8 DEF PageTypes, StoreTyped
  <1> HIDE DEF new
  <1>10. /\ PagesTyped /\ OnlyPage(p) /\ page'[p] = new
    BY <1>1, <1>7, <1>9 DEF PagesTyped, OnlyPage
  <1> QED
    BY <1>2, <1>3, <1>4, <1>5, <1>6, <1>9, <1>10 DEF shown

LEMMA StartSendingIs ==
    ASSUME OfflineTypeOK, NEW p \in Pages, StartSending(p)
    PROVE  /\ Batch(p) = {}
           /\ PagesTyped /\ OnlyPage(p)
           /\ page'[p].open = page[p].open /\ page'[p].list = page[p].list
           /\ page'[p].batch = [i \in Items |-> IF i \in Waiting(p) \ page[p].tried THEN page[p].list[i] ELSE NoItem]
           /\ page'[p].tried = page[p].tried \cup Waiting(p)
           /\ page'[p].request = page[p].request /\ page'[p].shown = page[p].shown
  <1> DEFINE due  == Waiting(p) \ page[p].tried
             load == [i \in Items |-> IF i \in due THEN page[p].list[i] ELSE NoItem]
             new  == [page[p] EXCEPT !.batch = load, !.tried = @ \cup due]
  <1>1. page \in [Pages -> PageTypes] /\ page[p] \in PageTypes
    BY DEF OfflineTypeOK
  <1>2. page' = [page EXCEPT ![p] = new] /\ Batch(p) = {}
    BY <1>1 DEF StartSending
  <1>3. due \subseteq Items /\ page[p].tried \cup due = page[p].tried \cup Waiting(p)
    BY DEF Waiting, Shown
  <1>4. load \in [Items -> ItemTypes]
    BY <1>1, BlankIsTyped DEF PageTypes
  <1> HIDE DEF load, due
  <1>5. /\ new \in PageTypes /\ new.open = page[p].open /\ new.list = page[p].list /\ new.batch = load
        /\ new.tried = page[p].tried \cup due /\ new.request = page[p].request /\ new.shown = page[p].shown
    BY <1>1, <1>3, <1>4 DEF PageTypes
  <1> HIDE DEF new
  <1> QED
    BY <1>1, <1>2, <1>3, <1>5 DEF PagesTyped, OnlyPage, load, due

Fields(x, pc, owner, i, item, step) ==
    x.pc = pc /\ x.page = owner /\ x.i = i /\ x.item = item /\ x.step = step
StepOf(item) == IF item.kind # "estimate" THEN "write" ELSE IF item.id = 0 THEN "create" ELSE "lines"

LEMMA RequestSet ==
    ASSUME OfflineTypeOK, NEW r \in Requests, NEW x, x \in RequestTypes(x.answer), AnswerFits(x),
           request' = [request EXCEPT ![r] = x]
    PROVE  RequestsTyped /\ OnlyRequest(r) /\ request'[r] = x
  BY DEF OfflineTypeOK, RequestsTyped, OnlyRequest

LEMMA PageSet ==
    ASSUME OfflineTypeOK, NEW p \in Pages, NEW x \in PageTypes, page' = [page EXCEPT ![p] = x]
    PROVE  PagesTyped /\ OnlyPage(p) /\ page'[p] = x
  BY DEF OfflineTypeOK, PagesTyped, OnlyPage

LEMMA ItemSet ==
    ASSUME OfflineTypeOK, NEW i \in Items, NEW x \in ItemTypes, store' = [store EXCEPT ![i] = x]
    PROVE  StoreTyped /\ OnlyItem(i) /\ store'[i] = x
  BY DEF OfflineTypeOK, StoreTyped, OnlyItem

\* The page p sends the item i of its batch, marked as being sent, with the free request r.
Sends(p, i, item, r) ==
    /\ screen = "crew" => \A j \in Batch(p) : i <= j
    /\ item.state = "sending" /\ item.current = None /\ item.kind = page[p].batch[i].kind
    /\ item.seen = page[p].batch[i].seen /\ item.want = page[p].batch[i].want /\ item.id = page[p].batch[i].id
    /\ StoreTyped /\ OnlyItem(i) /\ store'[i] = item
    /\ request[r] = NoRequest
    /\ RequestsTyped /\ OnlyRequest(r) /\ Fields(request'[r], "sent", p, i, item, StepOf(item))
    /\ PagesTyped /\ OnlyPage(p)
    /\ page'[p].open = page[p].open /\ page'[p].list = page[p].list
    /\ page'[p].batch = [page[p].batch EXCEPT ![i] = item] /\ page'[p].tried = page[p].tried
    /\ page'[p].request = r /\ page'[p].shown = page[p].shown
    /\ crossed' = IF store[i] # page[p].batch[i] \/ (\E s \in Requests : request[s].i = i)
                  THEN crossed \cup {"pages"} ELSE crossed

LEMMA SendIs ==
    ASSUME OfflineTypeOK, NEW p \in Pages, Send(p)
    PROVE  \E i \in Batch(p), item \in ItemTypes, r \in Requests : Sends(p, i, item, r)
  <1> DEFINE i    == First(Batch(p))
             item == [page[p].batch[i] EXCEPT !.state = "sending", !.current = None]
  <1>1. page \in [Pages -> PageTypes] /\ page[p] \in PageTypes
    BY DEF OfflineTypeOK
  <1>2. i \in Batch(p) /\ (screen = "crew" => \A j \in Batch(p) : i <= j)
    BY Zenon, FirstIs DEF Send, Batch
  <1>3. i \in Items
    BY <1>2 DEF Batch
  <1>4. page[p].batch[i] \in ItemTypes
    BY <1>1, <1>3 DEF PageTypes
  <1>5. /\ item \in ItemTypes /\ item.state = "sending" /\ item.current = None /\ item.kind = page[p].batch[i].kind
        /\ item.seen = page[p].batch[i].seen /\ item.want = page[p].batch[i].want /\ item.id = page[p].batch[i].id
    BY <1>4 DEF ItemTypes
  <1>6. PICK r \in Requests :
          /\ request[r] = NoRequest
          /\ request' = [request EXCEPT ![r] = [NoRequest EXCEPT !.pc = "sent", !.page = p, !.i = i, !.item = item,
                                                                 !.step = StepOf(item)]]
          /\ page' = [page EXCEPT ![p].request = r, ![p].batch[i] = item]
    BY Zenon DEF Send, Dial, StepOf
  <1>7. /\ store' = [store EXCEPT ![i] = item]
        /\ crossed' = IF store[i] # page[p].batch[i] \/ (\E s \in Requests : request[s].i = i)
                      THEN crossed \cup {"pages"} ELSE crossed
    BY Zenon DEF Send
  <1> HIDE DEF item, i
  <1> DEFINE x   == [NoRequest EXCEPT !.pc = "sent", !.page = p, !.i = i, !.item = item, !.step = StepOf(item)]
             new == [page[p] EXCEPT !.request = r, !.batch = [@ EXCEPT ![i] = item]]
  <1>8. x \in RequestTypes(x.answer) /\ AnswerFits(x) /\ Fields(x, "sent", p, i, item, StepOf(item))
    <2>1. StepOf(item) \in {"write", "create", "lines"} /\ i \in 0 .. MaxItems
      BY <1>3 DEF StepOf, Items
    <2>2. NoRequest \in RequestTypes(None) /\ p \in Pages \cup {Absent}
      BY BlankIsTyped
    <2> HIDE DEF StepOf
    <2>3. x \in RequestTypes(None) /\ Fields(x, "sent", p, i, item, StepOf(item)) /\ x.answer = None
      BY <1>5, <2>1, <2>2 DEF RequestTypes, Fields
    <2> QED
      BY <2>3 DEF AnswerFits, Fields
  <1>9. page' = [page EXCEPT ![p] = new]
    BY <1>1, <1>3, <1>6 DEF PageTypes
  <1>10. /\ new \in PageTypes /\ new.open = page[p].open /\ new.list = page[p].list
         /\ new.batch = [page[p].batch EXCEPT ![i] = item]
         /\ new.tried = page[p].tried /\ new.request = r /\ new.shown = page[p].shown
    BY <1>1, <1>3, <1>5 DEF PageTypes
  <1>11. RequestsTyped /\ OnlyRequest(r) /\ request'[r] = x
    BY <1>6, <1>8, RequestSet
  <1>12. PagesTyped /\ OnlyPage(p) /\ page'[p] = new
    BY <1>9, <1>10, PageSet
  <1>13. StoreTyped /\ OnlyItem(i) /\ store'[i] = item
    BY <1>3, <1>5, <1>7, ItemSet
  <1> HIDE DEF x, new
  <1>14. Sends(p, i, item, r)
    BY Zenon, <1>2, <1>5, <1>6, <1>7, <1>8, <1>10, <1>11, <1>12, <1>13 DEF Sends
  <1> QED
    BY Zenon, <1>2, <1>5, <1>6, <1>14

\* The request a page waits for.
LEMMA AwaitedIs ==
    ASSUME OfflineTypeOK, LinksFit, RequestsFit, NEW p \in Pages, page[p].request # Absent
    PROVE  LET r == page[p].request IN
           /\ r \in Requests /\ Used(r) /\ request[r].page = p /\ page[p].open
           /\ request[r] \in RequestTypes(request[r].answer) /\ AnswerFits(request[r])
           /\ request[r].i \in Items /\ request[r].item \in ItemTypes
           /\ page[p] \in PageTypes /\ store[request[r].i] \in ItemTypes
  <1>1. page[p] \in PageTypes /\ page[p].request \in Requests
    BY DEF OfflineTypeOK, PageTypes
  <1> QED
    BY <1>1 DEF OfflineTypeOK, RequestTypes, LinksFit, RequestsFit, RequestFits

LEMMA NextStepIs ==
    ASSUME OfflineTypeOK, LinksFit, RequestsFit, NEW p \in Pages, NextStep(p)
    PROVE  LET r == page[p].request  i == request[r].i  x == request[r] IN
           \E item \in ItemTypes :
           /\ r \in Requests /\ i \in Items /\ x.pc = "ok" /\ x.step \in {"create", "lines"} /\ Used(r)
           /\ item.state = x.item.state /\ item.kind = x.item.kind /\ item.seen = x.item.seen
           /\ item.want = x.item.want /\ item.current = x.item.current
           /\ item.id = IF x.step = "create" THEN x.answer ELSE x.item.id
           /\ x.step = "create" => x.answer \in Estimates
           /\ StoreTyped /\ OnlyItem(i) /\ store'[i] = IF x.step = "create" THEN item ELSE store[i]
           /\ RequestsTyped /\ OnlyRequest(r)
           /\ Fields(request'[r], "sent", x.page, i, item, IF x.step = "create" THEN "lines" ELSE "calculate")
           /\ PagesTyped /\ OnlyPage(p)
           /\ page'[p].open = page[p].open /\ page'[p].list = page[p].list
           /\ page'[p].batch = [page[p].batch EXCEPT ![i] = item] /\ page'[p].tried = page[p].tried
           /\ page'[p].request = r /\ page'[p].shown = page[p].shown
  <1> DEFINE r    == page[p].request
             x    == request[r]
             i    == x.i
             item == IF x.step = "create" THEN [x.item EXCEPT !.id = x.answer] ELSE x.item
             kept == IF x.step = "create" THEN SavedId(store[i], x.answer) ELSE store[i]
             y    == [x EXCEPT !.pc = "sent", !.item = item, !.answer = None,
                               !.step = IF x.step = "create" THEN "lines" ELSE "calculate"]
             new  == [page[p] EXCEPT !.batch = [@ EXCEPT ![i] = item]]
  <1>1. x.pc = "ok" /\ x.step \in {"create", "lines"} /\ r # Absent
    BY Zenon DEF NextStep, Replied
  <1>2. /\ r \in Requests /\ Used(r) /\ x \in RequestTypes(x.answer) /\ AnswerFits(x) /\ i \in Items
        /\ x.item \in ItemTypes /\ page[p] \in PageTypes /\ store[i] \in ItemTypes
    BY <1>1, AwaitedIs
  <1>3. x.step = "create" => x.answer \in Estimates
    BY <1>1, <1>2 DEF AnswerFits
  <1>4. x.step = "create" => x.answer \in 0 .. 2 * MaxItems
    BY <1>3, CapAssumption DEF Estimates
  <1>5. x.step = "create" => kept.id = x.answer
    BY SMTT(30), <1>2 DEF SavedId, ItemTypes
  <1>6. /\ item \in ItemTypes /\ item.state = x.item.state /\ item.kind = x.item.kind /\ item.seen = x.item.seen
        /\ item.want = x.item.want /\ item.current = x.item.current
        /\ item.id = IF x.step = "create" THEN x.answer ELSE x.item.id
    BY SMTT(30), <1>2, <1>4 DEF ItemTypes
  <1>7. x.step = "create" => [item EXCEPT !.id = kept.id] = item
    BY <1>5, <1>6 DEF ItemTypes
  <1>8. /\ store' = [store EXCEPT ![i] = IF x.step = "create" THEN [item EXCEPT !.id = kept.id] ELSE @]
        /\ request' = [request EXCEPT ![r] = y]
        /\ page' = [page EXCEPT ![p].batch[i] = item]
    BY Zenon DEF NextStep
  <1> HIDE DEF item, kept
  <1>9. store' = [store EXCEPT ![i] = IF x.step = "create" THEN item ELSE store[i]]
    BY <1>2, <1>7, <1>8 DEF OfflineTypeOK
  <1>10. y \in RequestTypes(y.answer) /\ AnswerFits(y)
         /\ Fields(y, "sent", x.page, i, item, IF x.step = "create" THEN "lines" ELSE "calculate")
    BY <1>2, <1>6 DEF RequestTypes, AnswerFits, Fields
  <1>11. page' = [page EXCEPT ![p] = new]
    BY <1>2, <1>8 DEF PageTypes, OfflineTypeOK
  <1>12. /\ new \in PageTypes /\ new.open = page[p].open /\ new.list = page[p].list
         /\ new.batch = [page[p].batch EXCEPT ![i] = item]
         /\ new.tried = page[p].tried /\ new.request = r /\ new.shown = page[p].shown
    BY SMTT(30), <1>2, <1>6 DEF PageTypes
  <1> DEFINE stored == IF x.step = "create" THEN item ELSE store[i]
  <1> HIDE DEF y
  <1>13. RequestsTyped /\ OnlyRequest(r) /\ request'[r] = y
    BY <1>2, <1>8, <1>10, RequestSet
  <1>14. PagesTyped /\ OnlyPage(p) /\ page'[p] = new
    BY <1>11, <1>12, PageSet
  <1>15. StoreTyped /\ OnlyItem(i) /\ store'[i] = stored
    <2>1. stored \in ItemTypes
      BY <1>2, <1>6
    <2> HIDE DEF stored
    <2>2. store' = [store EXCEPT ![i] = stored]
      BY <1>9 DEF stored
    <2> QED
      BY <1>2, <2>1, <2>2, ItemSet
  <1> HIDE DEF r, x, new
  <1> SUFFICES
           /\ r \in Requests /\ i \in Items /\ x.pc = "ok" /\ x.step \in {"create", "lines"} /\ Used(r)
           /\ x.step = "create" => x.answer \in Estimates
           /\ RequestsTyped /\ OnlyRequest(r)
           /\ Fields(request'[r], "sent", x.page, i, item, IF x.step = "create" THEN "lines" ELSE "calculate")
           /\ PagesTyped /\ OnlyPage(p)
           /\ page'[p].open = page[p].open /\ page'[p].list = page[p].list
           /\ page'[p].batch = [page[p].batch EXCEPT ![i] = item] /\ page'[p].tried = page[p].tried
           /\ page'[p].request = r /\ page'[p].shown = page[p].shown
    BY Zenon, <1>6, <1>15 DEF r, x, stored
  <1> QED
    BY SMTT(30), <1>1, <1>2, <1>3, <1>10, <1>12, <1>13, <1>14

\* What the loop of a page has left when it is done with the item i, and the request r with it.
LoopGoesOn(p, i) ==
    /\ PagesTyped /\ OnlyPage(p)
    /\ page'[p].open = page[p].open
    /\ page'[p].list = page[p].list \/ page'[p].list = store'
    /\ page'[p].batch = [page[p].batch EXCEPT ![i] = NoItem] /\ page'[p].tried = page[p].tried
    /\ page'[p].request = Absent

LEMMA RestIs ==
    ASSUME OfflineTypeOK, StoreTyped, NEW p \in Pages, NEW i \in Items, NEW shown \in Statuses \cup {"gone"},
           page' = Rest(p, i, shown)
    PROVE  LoopGoesOn(p, i) /\ page'[p].shown = shown
           /\ (page'[p].list # store' => Batch(p) # {i})
  <1> DEFINE listed == IF Batch(p) = {i} THEN store' ELSE page[p].list
             new    == [page[p] EXCEPT !.batch = [@ EXCEPT ![i] = NoItem], !.request = Absent, !.shown = shown,
                                       !.list = listed]
  <1>1. page[p] \in PageTypes
    BY DEF OfflineTypeOK
  <1>2. page' = [page EXCEPT ![p] = new]
    BY <1>1 DEF Rest, PageTypes, OfflineTypeOK
  <1>3. listed \in [Items -> ItemTypes]
    BY <1>1 DEF PageTypes, StoreTyped
  <1> HIDE DEF listed
  <1>4. /\ new \in PageTypes /\ new.open = page[p].open /\ new.list = listed
        /\ new.batch = [page[p].batch EXCEPT ![i] = NoItem]
        /\ new.tried = page[p].tried /\ new.request = Absent /\ new.shown = shown
    BY <1>1, <1>3, BlankIsTyped DEF PageTypes
  <1> HIDE DEF new
  <1>5. PagesTyped /\ OnlyPage(p) /\ page'[p] = new
    BY Zenon, <1>2, <1>4, PageSet
  <1> QED
    BY <1>4, <1>5 DEF LoopGoesOn, listed

LEMMA SettleIs ==
    ASSUME OfflineTypeOK, LinksFit, RequestsFit, NEW p \in Pages, Settle(p)
    PROVE  LET r == page[p].request  i == request[r].i  x == request[r] IN
           \E item \in ItemTypes :
           /\ r \in Requests /\ i \in Items /\ Used(r) /\ x.pc \in {"ok", "conflict", "refused"}
           /\ x.pc = "ok" => x.step \in {"write", "calculate"}
           /\ item.state = "needs_attention" /\ item.kind = x.item.kind /\ item.seen = x.item.seen
           /\ item.want = x.item.want /\ item.id = x.item.id
           /\ item.current = IF x.pc = "conflict" THEN x.answer ELSE x.item.current
           /\ x.pc = "conflict" => IF x.item.kind = "status" THEN x.answer \in Statuses ELSE x.answer \in Rates
           /\ StoreTyped /\ OnlyItem(i) /\ store'[i] = IF x.pc = "ok" THEN NoItem ELSE item
           /\ RequestsTyped /\ OnlyRequest(r) /\ request'[r] = NoRequest
           /\ LoopGoesOn(p, i)
           /\ page'[p].shown = IF x.pc = "conflict" /\ x.item.kind = "status" THEN x.answer ELSE page[p].shown
           /\ page'[p].list # store' => Batch(p) # {i}
  <1> DEFINE r     == page[p].request
             x     == request[r]
             i     == x.i
             parks == [x.item EXCEPT !.state = "needs_attention"]
             item  == IF x.pc = "conflict" THEN [parks EXCEPT !.current = x.answer] ELSE parks
             shown == IF x.pc = "conflict" /\ x.item.kind = "status" THEN x.answer ELSE page[p].shown
  <1>1. x.pc \in {"ok", "conflict", "refused"} /\ r # Absent /\ (x.pc = "ok" => x.step \in {"write", "calculate"})
    BY DEF Settle, Replied
  <1>2. /\ r \in Requests /\ Used(r) /\ x \in RequestTypes(x.answer) /\ AnswerFits(x) /\ i \in Items
        /\ x.item \in ItemTypes /\ page[p] \in PageTypes /\ store[i] \in ItemTypes
    BY <1>1, AwaitedIs
  <1>3. x.pc = "conflict" => IF x.item.kind = "status" THEN x.answer \in Statuses ELSE x.answer \in Rates
    BY SMTT(30), <1>2 DEF AnswerFits
  <1>4. /\ item \in ItemTypes /\ item.state = "needs_attention" /\ item.kind = x.item.kind /\ item.seen = x.item.seen
        /\ item.want = x.item.want /\ item.id = x.item.id
        /\ item.current = IF x.pc = "conflict" THEN x.answer ELSE x.item.current
    BY <1>2, <1>3 DEF ItemTypes
  <1>5. shown \in Statuses \cup {"gone"}
    BY <1>2, <1>3 DEF PageTypes
  <1>6. /\ store' = [store EXCEPT ![i] = IF Removes(x.pc) THEN NoItem
                                         ELSE IF x.pc = "conflict" THEN [parks EXCEPT !.current = x.answer]
                                         ELSE parks]
        /\ page' = Rest(p, i, shown)
        /\ request' = [request EXCEPT ![r] = NoRequest]
    BY Zenon DEF Settle
  <1> DEFINE stored == IF x.pc = "ok" THEN NoItem ELSE item
  <1>7. store' = [store EXCEPT ![i] = stored]
    BY <1>6 DEF Removes
  <1>8. stored \in ItemTypes
    BY <1>4, BlankIsTyped
  <1> HIDE DEF item, shown, stored
  <1>9. StoreTyped /\ OnlyItem(i) /\ store'[i] = stored
    BY Zenon, <1>2, <1>7, <1>8, ItemSet
  <1>10. LoopGoesOn(p, i) /\ page'[p].shown = shown /\ (page'[p].list # store' => Batch(p) # {i})
    BY Zenon, <1>2, <1>5, <1>6, <1>9, RestIs
  <1>11. NoRequest \in RequestTypes(NoRequest.answer)
    BY BlankIsTyped DEF NoRequest
  <1>12. RequestsTyped /\ OnlyRequest(r) /\ request'[r] = NoRequest
    BY <1>2, <1>6, <1>11, BlankIsTyped, RequestSet
  <1> QED
    BY Zenon, <1>1, <1>2, <1>3, <1>4, <1>9, <1>10, <1>12 DEF stored, shown

LEMMA DeferIs ==
    ASSUME OfflineTypeOK, LinksFit, RequestsFit, NEW p \in Pages, Defer(p)
    PROVE  LET r == page[p].request  i == request[r].i  x == request[r] IN
           \E item \in ItemTypes :
           /\ r \in Requests /\ i \in Items /\ Used(r)
           /\ item.state = "queued" /\ item.kind = x.item.kind /\ item.seen = x.item.seen
           /\ item.want = x.item.want /\ item.id = x.item.id /\ item.current = x.item.current
           /\ StoreTyped /\ OnlyItem(i) /\ store'[i] = item
           /\ RequestsTyped /\ OnlyRequest(r)
           /\ Fields(request'[r], x.pc, Absent, i, x.item, x.step) /\ request'[r].answer = x.answer
           /\ LoopGoesOn(p, i) /\ page'[p].shown = page[p].shown
           /\ mishaps' = mishaps + 1 /\ mishaps < MaxMishaps
           /\ crossed' = IF x.step = "create" THEN crossed \cup {"cut"} ELSE crossed
  <1> DEFINE r    == page[p].request
             x    == request[r]
             i    == x.i
             item == [x.item EXCEPT !.state = "queued"]
             y    == [x EXCEPT !.page = Absent]
  <1>1. r # Absent
    BY DEF Defer
  <1>2. /\ r \in Requests /\ Used(r) /\ x \in RequestTypes(x.answer) /\ AnswerFits(x) /\ i \in Items
        /\ x.item \in ItemTypes /\ page[p] \in PageTypes
    BY <1>1, AwaitedIs
  <1>3. /\ item \in ItemTypes /\ item.state = "queued" /\ item.kind = x.item.kind /\ item.seen = x.item.seen
        /\ item.want = x.item.want /\ item.id = x.item.id /\ item.current = x.item.current
    BY <1>2 DEF ItemTypes
  <1>4. /\ store' = [store EXCEPT ![i] = item] /\ page' = Rest(p, i, page[p].shown)
        /\ request' = [request EXCEPT ![r].page = Absent]
        /\ mishaps' = mishaps + 1 /\ mishaps < MaxMishaps
        /\ crossed' = IF x.step = "create" THEN crossed \cup {"cut"} ELSE crossed
    BY Zenon DEF Defer, Mishap
  <1>5. page[p].shown \in Statuses \cup {"gone"}
    BY <1>2 DEF PageTypes
  <1>6. request' = [request EXCEPT ![r] = y]
    BY <1>2, <1>4 DEF OfflineTypeOK
  <1>7. y \in RequestTypes(y.answer) /\ AnswerFits(y) /\ Fields(y, x.pc, Absent, i, x.item, x.step) /\ y.answer = x.answer
    BY <1>2 DEF RequestTypes, AnswerFits, Fields
  <1> HIDE DEF item, y
  <1>8. StoreTyped /\ OnlyItem(i) /\ store'[i] = item
    BY Zenon, <1>2, <1>3, <1>4, ItemSet
  <1>9. LoopGoesOn(p, i) /\ page'[p].shown = page[p].shown
    BY Zenon, <1>2, <1>4, <1>5, <1>8, RestIs
  <1>10. RequestsTyped /\ OnlyRequest(r) /\ request'[r] = y
    BY <1>2, <1>6, <1>7, RequestSet
  <1> QED
    BY Zenon, <1>2, <1>3, <1>4, <1>7, <1>8, <1>9, <1>10

LEMMA ClosePageIs ==
    ASSUME OfflineTypeOK, LinksFit, RequestsFit, NEW p \in Pages, ClosePage(p)
    PROVE  LET r == page[p].request  x == request[r] IN
           /\ PagesTyped /\ OnlyPage(p) /\ page'[p] = Closed
           /\ mishaps' = mishaps + 1 /\ mishaps < MaxMishaps
           /\ \/ r = Absent /\ request' = request /\ crossed' = crossed
              \/ /\ r \in Requests /\ Used(r)
                 /\ RequestsTyped /\ OnlyRequest(r)
                 /\ Fields(request'[r], x.pc, Absent, x.i, x.item, x.step) /\ request'[r].answer = x.answer
                 /\ crossed' = IF x.step = "create" THEN crossed \cup {"cut"} ELSE crossed
  <1> DEFINE r == page[p].request
             x == request[r]
             y == [x EXCEPT !.page = Absent]
  <1>1. /\ page' = [page EXCEPT ![p] = Closed]
        /\ request' = IF r = Absent THEN request ELSE [request EXCEPT ![r].page = Absent]
        /\ crossed' = IF r # Absent /\ x.step = "create" THEN crossed \cup {"cut"} ELSE crossed
        /\ mishaps' = mishaps + 1 /\ mishaps < MaxMishaps
    BY Zenon DEF ClosePage, Mishap
  <1>2. PagesTyped /\ OnlyPage(p) /\ page'[p] = Closed
    BY <1>1, BlankIsTyped, PageSet
  <1>3. CASE r = Absent
    BY <1>1, <1>2, <1>3
  <1>4. CASE r # Absent
    <2>1. r \in Requests /\ Used(r) /\ x \in RequestTypes(x.answer) /\ AnswerFits(x)
      BY <1>4, AwaitedIs
    <2>2. request' = [request EXCEPT ![r] = y]
      BY <1>1, <1>4, <2>1 DEF OfflineTypeOK
    <2>3. y \in RequestTypes(y.answer) /\ AnswerFits(y) /\ Fields(y, x.pc, Absent, x.i, x.item, x.step) /\ y.answer = x.answer
      BY <2>1 DEF RequestTypes, AnswerFits, Fields
    <2> HIDE DEF y
    <2>4. RequestsTyped /\ OnlyRequest(r) /\ request'[r] = y
      BY <2>1, <2>2, <2>3, RequestSet
    <2> QED
      BY <1>1, <1>2, <1>4, <2>1, <2>3, <2>4
  <1> QED
    BY <1>3, <1>4

LEMMA TickIs ==
    ASSUME OfflineTypeOK, NEW p \in Pages, Tick(p)
    PROVE  /\ PagesTyped /\ OnlyPage(p)
           /\ page'[p].open = page[p].open /\ page'[p].list = page[p].list /\ page'[p].batch = page[p].batch
           /\ page'[p].tried = {} /\ page'[p].request = page[p].request /\ page'[p].shown = page[p].shown
  <1> DEFINE new == [page[p] EXCEPT !.tried = {}]
  <1>1. page[p] \in PageTypes
    BY DEF OfflineTypeOK
  <1>2. page' = [page EXCEPT ![p] = new]
    BY DEF Tick
  <1>3. /\ new \in PageTypes /\ new.open = page[p].open /\ new.list = page[p].list /\ new.batch = page[p].batch
        /\ new.tried = {} /\ new.request = page[p].request /\ new.shown = page[p].shown
    BY <1>1 DEF PageTypes
  <1> HIDE DEF new
  <1>4. PagesTyped /\ OnlyPage(p) /\ page'[p] = new
    BY <1>2, <1>3, PageSet
  <1> QED
    BY <1>3, <1>4

\* Applying anyway and adopting put the listed item back, to be sent against what its route has now.
PutsBack(p, i) ==
    \E item \in ItemTypes :
        /\ page[p].list[i].state = "needs_attention" /\ page[p].list[i].current # None
        /\ item.state = "queued" /\ item.kind = page[p].list[i].kind /\ item.seen = page[p].list[i].current
        /\ item.want = page[p].list[i].want /\ item.current = None /\ item.id = page[p].list[i].id
        /\ StoreTyped /\ OnlyItem(i) /\ store'[i] = item
        /\ PagesTyped /\ OnlyPage(p)
        /\ page'[p].open = page[p].open /\ page'[p].list = store' /\ page'[p].batch = page[p].batch
        /\ page'[p].request = page[p].request /\ page'[p].shown = page[p].shown

LEMMA PutBack ==
    ASSUME OfflineTypeOK, NEW p \in Pages, NEW i \in Items, Parked(p, i), page[p].list[i].current # None,
           NEW tried \in SUBSET Items,
           store' = [store EXCEPT ![i] = [page[p].list[i] EXCEPT !.state = "queued", !.seen = page[p].list[i].current,
                                                                 !.current = None]],
           page' = [page EXCEPT ![p].list = store', ![p].tried = tried]
    PROVE  PutsBack(p, i) /\ page'[p].tried = tried
  <1> DEFINE was  == page[p].list[i]
             item == [was EXCEPT !.state = "queued", !.seen = was.current, !.current = None]
             new  == [page[p] EXCEPT !.list = store', !.tried = tried]
  <1>1. page[p] \in PageTypes /\ was \in ItemTypes /\ was.state = "needs_attention"
    BY DEF OfflineTypeOK, PageTypes, Parked
  <1>2. /\ item \in ItemTypes /\ item.state = "queued" /\ item.kind = was.kind /\ item.seen = was.current
        /\ item.want = was.want /\ item.current = None /\ item.id = was.id
    BY <1>1 DEF ItemTypes
  <1>3. store' = [store EXCEPT ![i] = item]
    OBVIOUS
  <1> HIDE DEF item
  <1>4. StoreTyped /\ OnlyItem(i) /\ store'[i] = item
    BY <1>2, <1>3, ItemSet
  <1>5. page' = [page EXCEPT ![p] = new]
    BY <1>1 DEF PageTypes
  <1>6. /\ new \in PageTypes /\ new.open = page[p].open /\ new.list = store' /\ new.batch = page[p].batch
        /\ new.tried = tried /\ new.request = page[p].request /\ new.shown = page[p].shown
    BY <1>1, <1>4 DEF PageTypes, StoreTyped
  <1> HIDE DEF new
  <1>7. PagesTyped /\ OnlyPage(p) /\ page'[p] = new
    BY <1>5, <1>6, PageSet
  <1> QED
    BY <1>1, <1>2, <1>4, <1>6, <1>7 DEF PutsBack

LEMMA ApplyAnywayIs ==
    ASSUME OfflineTypeOK, NEW p \in Pages, NEW i \in Items, ApplyAnyway(p, i)
    PROVE  PutsBack(p, i) /\ page'[p].tried = {} /\ page[p].list[i].kind = "status"
  BY Zenon, PutBack DEF ApplyAnyway

LEMMA AdoptRatesIs ==
    ASSUME OfflineTypeOK, NEW p \in Pages, NEW i \in Items, AdoptRates(p, i)
    PROVE  PutsBack(p, i) /\ page'[p].tried = page[p].tried \cup {i} /\ page[p].list[i].kind = "estimate"
           /\ agreed' = agreed \cup {<<i, page[p].list[i].current>>}
  <1> DEFINE tried == page[p].tried \cup {i}
  <1>1. page[p] \in PageTypes
    BY DEF OfflineTypeOK
  <1>2. tried \in SUBSET Items
    BY <1>1 DEF PageTypes
  <1>3. page' = [page EXCEPT ![p].list = store', ![p].tried = tried]
    BY <1>1 DEF AdoptRates, PageTypes, OfflineTypeOK
  <1> HIDE DEF tried
  <1>4. PutsBack(p, i) /\ page'[p].tried = tried
    BY Zenon, <1>2, <1>3, PutBack DEF AdoptRates
  <1> QED
    BY <1>4 DEF AdoptRates, tried

LEMMA SendNowIs ==
    ASSUME OfflineTypeOK, NEW p \in Pages, NEW i \in Items, SendNow(p, i)
    PROVE  /\ screen = "capture" /\ page[p].list[i].state # None
           /\ PagesTyped /\ OnlyPage(p)
           /\ page'[p].open = page[p].open /\ page'[p].list = page[p].list
           /\ page'[p].batch = [page[p].batch EXCEPT ![i] = page[p].list[i]]
           /\ page'[p].tried = page[p].tried \cup {i} /\ page'[p].request = page[p].request
           /\ page'[p].shown = page[p].shown
  <1> DEFINE load == [page[p].batch EXCEPT ![i] = page[p].list[i]]
             new  == [page[p] EXCEPT !.batch = load, !.tried = @ \cup {i}]
  <1>1. page[p] \in PageTypes
    BY DEF OfflineTypeOK
  <1>2. page' = [page EXCEPT ![p] = new] /\ screen = "capture" /\ page[p].list[i].state # None
    BY <1>1 DEF SendNow, Shown, PageTypes, OfflineTypeOK
  <1>3. load \in [Items -> ItemTypes] /\ page[p].tried \cup {i} \subseteq Items
    BY <1>1 DEF PageTypes
  <1> HIDE DEF load
  <1>4. /\ new \in PageTypes /\ new.open = page[p].open /\ new.list = page[p].list /\ new.batch = load
        /\ new.tried = page[p].tried \cup {i} /\ new.request = page[p].request /\ new.shown = page[p].shown
    BY <1>1, <1>3 DEF PageTypes
  <1> HIDE DEF new
  <1>5. PagesTyped /\ OnlyPage(p) /\ page'[p] = new
    BY <1>2, <1>4, PageSet
  <1> QED
    BY <1>2, <1>4, <1>5 DEF load

\* What the server does to a request: it answers or checks it, and leaves what it asks.
Replies(r, pc) ==
    /\ RequestsTyped /\ OnlyRequest(r) /\ Used(r) /\ pc # "free"
    /\ Fields(request'[r], pc, request[r].page, request[r].i, request[r].item, request[r].step)

LEMMA ReplyIs ==
    ASSUME OfflineTypeOK, NEW r \in Requests, NEW pc \in {"sent", "checked", "ok", "conflict", "refused"}, NEW answer,
           Used(r), Reply(r, pc, answer),
           pc = "ok" /\ request[r].step = "create" => answer \in Estimates,
           pc = "conflict" => IF request[r].item.kind = "status" THEN answer \in Statuses ELSE answer \in Rates
    PROVE  Replies(r, pc) /\ request'[r].answer = answer
  <1> DEFINE y == [request[r] EXCEPT !.pc = pc, !.answer = answer]
  <1>1. request[r] \in RequestTypes(request[r].answer)
    BY DEF OfflineTypeOK
  <1>2. request' = [request EXCEPT ![r] = y]
    BY <1>1 DEF Reply, OfflineTypeOK
  <1>3. /\ y \in RequestTypes(y.answer) /\ y.answer = answer
        /\ Fields(y, pc, request[r].page, request[r].i, request[r].item, request[r].step)
    BY <1>1 DEF RequestTypes, Fields
  <1> HIDE DEF y
  <1>4. AnswerFits(y)
    BY <1>3 DEF AnswerFits, Fields
  <1>5. RequestsTyped /\ OnlyRequest(r) /\ request'[r] = y
    BY <1>2, <1>3, <1>4, RequestSet
  <1> QED
    BY <1>3, <1>5 DEF Replies

LEMMA CheckIs ==
    ASSUME OfflineTypeOK, RequestsFit, NEW r \in Requests, Check(r)
    PROVE  LET x == request[r] IN
           /\ x.pc = "sent" /\ x.step = "write" /\ Used(r) /\ x.item.kind # "estimate"
           /\ \/ x.item.kind = "log" /\ logs[x.i] > 0 /\ Replies(r, "ok")
              \/ x.item.kind = "log" /\ Replies(r, "checked")
              \/ x.item.kind = "status" /\ task = "gone" /\ Replies(r, "refused")
              \/ x.item.kind = "status" /\ task \in Statuses /\ task # x.item.seen /\ Replies(r, "conflict")
              \/ x.item.kind = "status" /\ task = x.item.seen /\ Replies(r, "checked")
  <1> DEFINE x == request[r]
  <1>1. x.pc = "sent" /\ x.step = "write" /\ Used(r)
    BY DEF Check, Sent, Used
  <1>2. x.item.kind # "estimate" /\ x.item.kind \in {"status", "log", "estimate"}
    BY <1>1 DEF RequestsFit, RequestFits, OfflineTypeOK, RequestTypes, ItemTypes
  <1>3. CASE x.item.kind = "log"
    <2>1. Reply(r, IF logs[x.i] > 0 THEN "ok" ELSE "checked", None)
      BY <1>3 DEF Check
    <2> QED
      BY <1>1, <1>3, <2>1, ReplyIs
  <1>4. CASE x.item.kind = "status"
    <2>1. \/ task = "gone" /\ Reply(r, "refused", None)
          \/ task \in Statuses \ {x.item.seen} /\ Reply(r, "conflict", task)
          \/ task = x.item.seen /\ Reply(r, "checked", None)
      BY <1>4 DEF Check
    <2>2. CASE task = "gone" /\ Reply(r, "refused", None)
      BY <1>1, <1>4, <2>2, ReplyIs
    <2>3. CASE task \in Statuses \ {x.item.seen} /\ Reply(r, "conflict", task)
      BY <1>1, <1>4, <2>3, ReplyIs
    <2>4. CASE task = x.item.seen /\ Reply(r, "checked", None)
      BY <1>1, <1>4, <2>4, ReplyIs
    <2> QED
      BY <2>1, <2>2, <2>3, <2>4
  <1> QED
    BY <1>1, <1>2, <1>3, <1>4

LEMMA CommitIs ==
    ASSUME OfflineTypeOK, RequestsFit, NEW r \in Requests, Commit(r)
    PROVE  LET x == request[r] IN
           /\ x.pc = "checked" /\ x.step = "write" /\ Used(r) /\ x.item.kind # "estimate" /\ x.i \in Items
           /\ \/ /\ x.item.kind = "log" /\ logs[x.i] > 0 /\ Replies(r, "refused")
                 /\ UNCHANGED <<task, logs, settled>>
              \/ /\ x.item.kind = "log" /\ ~(logs[x.i] > 0) /\ Replies(r, "ok") /\ task' = task
                 /\ logs' = [logs EXCEPT ![x.i] = @ + 1]
                 /\ settled' = [settled EXCEPT !.applied = @ \cup {x.i}]
              \/ /\ x.item.kind = "status" /\ Replies(r, "ok") /\ logs' = logs
                 /\ task' = IF task = "gone" THEN task ELSE x.item.want
                 /\ settled' = [settled EXCEPT !.applied = @ \cup {x.i}]
  <1> DEFINE x == request[r]
  <1>1. x.pc = "checked" /\ Used(r)
    BY DEF Commit, Used
  <1>2. /\ x.item.kind # "estimate" /\ x.item.kind \in {"status", "log", "estimate"} /\ x.step = "write" /\ x.i \in Items
    BY <1>1 DEF RequestsFit, RequestFits, OfflineTypeOK, RequestTypes, ItemTypes
  <1>3. CASE x.item.kind = "log" /\ logs[x.i] > 0
    <2>1. Reply(r, "refused", None) /\ UNCHANGED <<task, logs, settled>>
      BY <1>3 DEF Commit, UniqueLog
    <2> QED
      BY <1>1, <1>2, <1>3, <2>1, ReplyIs
  <1>4. CASE x.item.kind = "log" /\ ~(logs[x.i] > 0)
    <2>1. logs' = [logs EXCEPT ![x.i] = @ + 1] /\ Reply(r, "ok", None) /\ Applied(r) /\ task' = task
      BY <1>4 DEF Commit, UniqueLog
    <2> QED
      BY <1>1, <1>2, <1>4, <2>1, ReplyIs DEF Applied
  <1>5. CASE x.item.kind = "status"
    <2>1. /\ task' = IF task = "gone" THEN task ELSE x.item.want
          /\ Reply(r, "ok", None) /\ Applied(r) /\ logs' = logs
      BY <1>5 DEF Commit
    <2> QED
      BY <1>1, <1>2, <1>5, <2>1, ReplyIs DEF Applied
  <1> QED
    BY <1>1, <1>2, <1>3, <1>4, <1>5

\* The estimate e is as it was but for these.
EstimateBecomes(e, draft, itsRate) ==
    /\ estimate' \in [Estimates -> EstimateTypes] /\ \A d \in Estimates \ {e} : estimate'[d] = estimate[d]
    /\ estimate'[e].draft = draft /\ estimate'[e].rate = itsRate /\ (estimate[e].calculated => estimate'[e].calculated)

LEMMA NoEstimateIs == NoEstimate.draft = 0 /\ NoEstimate.rate = None
  BY DEF NoEstimate

LEMMA EstimateSet ==
    ASSUME OfflineTypeOK, NEW e \in Estimates, NEW x \in EstimateTypes, estimate[e].calculated => x.calculated,
           estimate' = [estimate EXCEPT ![e] = x]
    PROVE  EstimateBecomes(e, x.draft, x.rate) /\ (x.calculated => estimate'[e].calculated)
  BY DEF OfflineTypeOK, EstimateBecomes

LEMMA CreateEstimateIs ==
    ASSUME OfflineTypeOK, RequestsFit, NEW r \in Requests, CreateEstimate(r)
    PROVE  LET x == request[r] IN
           \E e \in Estimates :
           /\ x.pc = "sent" /\ x.step = "create" /\ Used(r) /\ x.item.kind = "estimate" /\ x.i \in Items
           /\ estimate[e] = NoEstimate /\ EstimateBecomes(e, x.i, None)
           /\ Replies(r, "ok") /\ request'[r].answer = e
  <1> DEFINE x == request[r]
  <1>1. x.pc = "sent" /\ x.step = "create" /\ Used(r)
    BY DEF CreateEstimate, Sent, Used
  <1>2. x.item.kind = "estimate" /\ x.i \in Items
    BY <1>1 DEF RequestsFit, RequestFits
  <1>3. PICK e \in Estimates :
          /\ estimate[e] = NoEstimate /\ estimate' = [estimate EXCEPT ![e].draft = x.i]
          /\ Reply(r, "ok", e)
    BY DEF CreateEstimate
  <1> DEFINE y == [estimate[e] EXCEPT !.draft = x.i]
  <1>4. y \in EstimateTypes /\ y.draft = x.i /\ y.rate = None /\ (estimate[e].calculated => y.calculated)
    <2>1. x.i \in 0 .. MaxItems
      BY <1>2, CapAssumption DEF Items
    <2>2. estimate[e] \in EstimateTypes /\ estimate[e].rate = None
      BY <1>3, NoEstimateIs DEF OfflineTypeOK
    <2>3. y \in EstimateTypes /\ y.draft = x.i /\ y.rate = None /\ (estimate[e].calculated => y.calculated)
      BY <2>1, <2>2 DEF EstimateTypes
    <2> QED
      BY <2>3
  <1>5. estimate' = [estimate EXCEPT ![e] = y]
    BY <1>3 DEF OfflineTypeOK
  <1> HIDE DEF y
  <1>6. EstimateBecomes(e, x.i, None)
    BY <1>4, <1>5, EstimateSet
  <1> QED
    BY <1>1, <1>2, <1>3, <1>6, ReplyIs

LEMMA ReplaceLinesIs ==
    ASSUME OfflineTypeOK, RequestsFit, NEW r \in Requests, ReplaceLines(r)
    PROVE  LET x == request[r]  e == x.item.id IN
           /\ x.pc = "sent" /\ x.step = "lines" /\ Used(r) /\ x.item.kind = "estimate" /\ e \in Estimates
           /\ \/ \E pc \in {"refused", "conflict"} : Replies(r, pc) /\ estimate' = estimate
              \/ /\ rate = x.item.seen /\ Replies(r, "ok")
                 /\ EstimateBecomes(e, estimate[e].draft, rate)
  <1> DEFINE x == request[r]  e == x.item.id
  <1>1. x.pc = "sent" /\ x.step = "lines" /\ Used(r)
    BY DEF ReplaceLines, Sent, Used
  <1>2. x.item.kind = "estimate" /\ e \in Estimates /\ rate \in Rates
    BY <1>1, CapAssumption DEF RequestsFit, RequestFits, OfflineTypeOK, RequestTypes, ItemTypes, Estimates
  <1>3. \/ Reply(r, "refused", None) /\ estimate' = estimate
        \/ Reply(r, "conflict", rate) /\ estimate' = estimate
        \/ rate = x.item.seen /\ Reply(r, "ok", None) /\ estimate' = [estimate EXCEPT ![e].rate = rate]
    BY DEF ReplaceLines
  <1>4. CASE Reply(r, "refused", None) /\ estimate' = estimate
    BY <1>1, <1>2, <1>4, ReplyIs
  <1>5. CASE Reply(r, "conflict", rate) /\ estimate' = estimate
    BY <1>1, <1>2, <1>5, ReplyIs
  <1>6. CASE rate = x.item.seen /\ Reply(r, "ok", None) /\ estimate' = [estimate EXCEPT ![e].rate = rate]
    <2> DEFINE y == [estimate[e] EXCEPT !.rate = rate]
    <2>1. y \in EstimateTypes /\ y.draft = estimate[e].draft /\ y.rate = rate /\ (estimate[e].calculated => y.calculated)
      BY <1>2 DEF OfflineTypeOK, EstimateTypes
    <2>2. estimate' = [estimate EXCEPT ![e] = y]
      BY <1>2, <1>6 DEF OfflineTypeOK
    <2> HIDE DEF y
    <2>3. EstimateBecomes(e, estimate[e].draft, rate)
      BY <1>2, <2>1, <2>2, EstimateSet
    <2> QED
      BY <1>1, <1>2, <1>6, <2>3, ReplyIs
  <1> QED
    BY <1>3, <1>4, <1>5, <1>6

LEMMA CalculateIs ==
    ASSUME OfflineTypeOK, RequestsFit, NEW r \in Requests, Calculate(r)
    PROVE  LET x == request[r]  e == x.item.id IN
           /\ x.pc = "sent" /\ x.step = "calculate" /\ Used(r) /\ x.item.kind = "estimate" /\ e \in Estimates
           /\ \/ Replies(r, "refused") /\ estimate' = estimate
              \/ Replies(r, "ok") /\ EstimateBecomes(e, estimate[e].draft, estimate[e].rate) /\ estimate'[e].calculated
  <1> DEFINE x == request[r]  e == x.item.id
  <1>1. x.pc = "sent" /\ x.step = "calculate" /\ Used(r)
    BY DEF Calculate, Sent, Used
  <1>2. x.item.kind = "estimate" /\ e \in Estimates
    BY <1>1, CapAssumption DEF RequestsFit, RequestFits, OfflineTypeOK, RequestTypes, ItemTypes, Estimates
  <1>3. \/ Reply(r, "refused", None) /\ estimate' = estimate
        \/ Reply(r, "ok", None) /\ estimate' = [estimate EXCEPT ![e].calculated = TRUE]
    BY DEF Calculate
  <1> DEFINE y == [estimate[e] EXCEPT !.calculated = TRUE]
  <1>4. y \in EstimateTypes /\ y.draft = estimate[e].draft /\ y.rate = estimate[e].rate /\ y.calculated
    BY ZenonT(30), <1>2 DEF OfflineTypeOK, EstimateTypes
  <1>5. estimate' = [estimate EXCEPT ![e].calculated = TRUE] => estimate' = [estimate EXCEPT ![e] = y]
    BY SMTT(30), <1>2 DEF OfflineTypeOK
  <1> HIDE DEF y
  <1>6. estimate' = [estimate EXCEPT ![e].calculated = TRUE] =>
            EstimateBecomes(e, estimate[e].draft, estimate[e].rate) /\ estimate'[e].calculated
    BY <1>2, <1>4, <1>5, EstimateSet
  <1> QED
    BY <1>1, <1>2, <1>3, <1>6, ReplyIs

LEMMA RefuseIs ==
    ASSUME OfflineTypeOK, NEW r \in Requests, Refuse(r)
    PROVE  Replies(r, "refused") /\ request[r].pc = "sent" /\ mishaps < MaxMishaps /\ mishaps' = mishaps + 1
  BY ReplyIs DEF Refuse, Used, Mishap

LEMMA VanishIs ==
    ASSUME OfflineTypeOK, NEW r \in Requests, Vanish(r)
    PROVE  RequestsTyped /\ OnlyRequest(r) /\ request'[r] = NoRequest /\ Used(r) /\ request[r].page = Absent
  <1>1. NoRequest \in RequestTypes(NoRequest.answer)
    BY BlankIsTyped DEF NoRequest
  <1> QED
    BY <1>1, BlankIsTyped, RequestSet DEF Vanish, Used

LEMMA DiscardIs ==
    ASSUME OfflineTypeOK, Copies, NEW p \in Pages, NEW i \in Items, Discard(p, i)
    PROVE  LET item == page[p].list[i] IN
           /\ item.state # None /\ (item.kind # "estimate" => Parked(p, i))
           /\ StoreTyped /\ OnlyItem(i) /\ store'[i] = NoItem
           /\ PagesTyped /\ OnlyPage(p)
           /\ page'[p].open = page[p].open /\ page'[p].list = store' /\ page'[p].batch = page[p].batch
           /\ page'[p].tried = page[p].tried /\ page'[p].request = page[p].request
           /\ page'[p].shown = IF item.kind = "status" /\ item.current # None THEN item.current ELSE page[p].shown
           /\ \/ item.id = 0 /\ estimate' = estimate
              \/ /\ item.id \in Estimates
                 /\ EstimateBecomes(item.id, estimate[item.id].draft, estimate[item.id].rate)
  <1> DEFINE item  == page[p].list[i]
             shown == IF item.kind = "status" /\ item.current # None THEN item.current ELSE page[p].shown
             new   == [page[p] EXCEPT !.list = store', !.shown = shown]
  <1>1. page[p] \in PageTypes /\ item.state # None /\ (item.kind # "estimate" => Parked(p, i))
    BY DEF OfflineTypeOK, Discard, Shown
  <1>2. page' = [page EXCEPT ![p] = new] /\ store' = [store EXCEPT ![i] = NoItem]
    BY <1>1 DEF Discard, PageTypes, OfflineTypeOK
  <1>3. StoreTyped /\ OnlyItem(i) /\ store'[i] = NoItem
    BY <1>2, BlankIsTyped, ItemSet
  <1>4. shown \in Statuses \cup {"gone"}
    BY <1>1 DEF PageTypes, Copies, Copy
  <1> HIDE DEF shown
  <1>5. /\ new \in PageTypes /\ new.open = page[p].open /\ new.list = store' /\ new.batch = page[p].batch
        /\ new.tried = page[p].tried /\ new.request = page[p].request /\ new.shown = shown
    BY <1>1, <1>3, <1>4 DEF PageTypes, StoreTyped
  <1> HIDE DEF new
  <1>6. PagesTyped /\ OnlyPage(p) /\ page'[p] = new
    BY <1>2, <1>5, PageSet
  <1>7. CASE item.id = 0
    BY <1>1, <1>3, <1>5, <1>6, <1>7 DEF shown, Discard
  <1>8. CASE item.id # 0
    <2> DEFINE e == item.id
               y == [estimate[e] EXCEPT !.deleted = TRUE]
    <2>1. item \in ItemTypes
      BY <1>1 DEF PageTypes
    <2>2. e \in Estimates
      BY <1>8, <2>1, CapAssumption DEF ItemTypes, Estimates
    <2>3. /\ y \in EstimateTypes /\ y.draft = estimate[e].draft /\ y.rate = estimate[e].rate
          /\ (estimate[e].calculated => y.calculated)
      BY ZenonT(30), <2>2 DEF OfflineTypeOK, EstimateTypes
    <2>4. estimate' = [estimate EXCEPT ![e] = y]
      BY <1>8, <2>2 DEF OfflineTypeOK, Discard
    <2> HIDE DEF y
    <2>5. EstimateBecomes(e, estimate[e].draft, estimate[e].rate)
      BY <2>2, <2>3, <2>4, EstimateSet
    <2> QED
      BY <1>1, <1>3, <1>5, <1>6, <2>2, <2>5 DEF shown
  <1> QED
    BY <1>7, <1>8

-----------------------------------------------------------------------------
(* Types, and what only grows.                                             *)

LEMMA TypesOfServer ==
    ASSUME OfflineTypeOK, RequestsFit, NEW r \in Requests, Serve(r) \/ Refuse(r) \/ Vanish(r)
    PROVE  OfflineTypeOK'
  <1> USE DEF server, history
  <1>1. CASE Check(r)
    BY <1>1, CheckIs DEF Check, OfflineTypeOK, Replies, RequestsTyped
  <1>2. CASE Commit(r)
    <2>1. request[r].item \in ItemTypes /\ Copy(request[r].item, request[r].i)
      BY SMTT(30), <1>2, CommitIs DEF OfflineTypeOK, RequestTypes, RequestsFit, RequestFits
    <2>2. request[r].item.kind = "status" => request[r].item.want \in Statuses
      BY <1>2, CommitIs, <2>1 DEF RequestsFit, RequestFits, Copy, None
    <2>3. task' \in Statuses \cup {"gone"} /\ logs' \in [Items -> Nat]
      BY <1>2, <2>2, CommitIs DEF OfflineTypeOK
    <2>4. settled' \in [applied : SUBSET Items, discarded : SUBSET Items]
      BY <1>2, CommitIs DEF OfflineTypeOK
    <2>5. RequestsTyped
      BY <1>2, CommitIs DEF Replies
    <2> QED
      BY <1>2, <2>3, <2>4, <2>5 DEF Commit, OfflineTypeOK, RequestsTyped
  <1>3. CASE CreateEstimate(r)
    <2>1. estimate' \in [Estimates -> EstimateTypes] /\ Replies(r, "ok")
      BY <1>3, CreateEstimateIs DEF EstimateBecomes
    <2> QED
      BY <1>3, <2>1 DEF CreateEstimate, OfflineTypeOK, Replies, RequestsTyped
  <1>4. CASE ReplaceLines(r)
    <2>1. estimate' \in [Estimates -> EstimateTypes]
      BY <1>4, ReplaceLinesIs DEF OfflineTypeOK, EstimateBecomes
    <2> QED
      BY <1>4, <2>1, ReplaceLinesIs DEF ReplaceLines, OfflineTypeOK, Replies, RequestsTyped
  <1>5. CASE Calculate(r)
    <2>1. estimate' \in [Estimates -> EstimateTypes]
      BY <1>5, CalculateIs DEF OfflineTypeOK, EstimateBecomes
    <2> QED
      BY <1>5, <2>1, CalculateIs DEF Calculate, OfflineTypeOK, Replies, RequestsTyped
  <1>6. CASE Refuse(r)
    <2>1. mishaps' \in 0 .. MaxMishaps
      BY <1>6, RefuseIs, CapAssumption DEF OfflineTypeOK
    <2> QED
      BY <1>6, <2>1, RefuseIs DEF Refuse, OfflineTypeOK, Replies, RequestsTyped
  <1>7. CASE Vanish(r)
    BY <1>7, VanishIs DEF Vanish, OfflineTypeOK, RequestsTyped
  <1> QED
    BY <1>1, <1>2, <1>3, <1>4, <1>5, <1>6, <1>7 DEF Serve

LEMMA TypesOfPage ==
    ASSUME OfflineTypeOK, LinksFit, RequestsFit, NEW p \in Pages,
           OpenPage(p) \/ FetchTasks(p) \/ ShowTasks(p) \/ Prime(p) \/ Write(p) \/ Loop(p) \/ Defer(p) \/ ClosePage(p)
    PROVE  OfflineTypeOK'
  <1> USE DEF server, history
  <1>1. CASE OpenPage(p)
    BY <1>1, OpenPageIs DEF OpenPage, OfflineTypeOK, PagesTyped
  <1>2. CASE FetchTasks(p) \/ ShowTasks(p)
    BY <1>2, FetchTasksIs, ShowTasksIs DEF FetchTasks, ShowTasks, OfflineTypeOK, PagesTyped
  <1>3. CASE Prime(p)
    BY <1>3 DEF Prime, OfflineTypeOK
  <1>4. CASE Write(p)
    <2>1. StoreTyped /\ PagesTyped
      BY <1>4, WriteIs
    <2>2. agreed' = agreed \/ agreed' = agreed \cup {<<written + 1, cached>>}
      BY <1>4, WriteIs
    <2>3. written + 1 \in Items /\ written' = written + 1
      BY <1>4 DEF Write
    <2>4. agreed' \subseteq Items \X Rates /\ written' \in 0 .. MaxItems
      BY <2>2, <2>3, CapAssumption DEF OfflineTypeOK, Items
    <2> QED
      BY Zenon, <1>4, <2>1, <2>4 DEF Write, OfflineTypeOK, PagesTyped, StoreTyped
  <1>5. CASE StartSending(p)
    BY Zenon, <1>5, StartSendingIs DEF StartSending, OfflineTypeOK, PagesTyped
  <1>6. CASE Send(p)
    <2>0. PICK i \in Batch(p), item \in ItemTypes, r \in Requests : Sends(p, i, item, r)
      BY <1>6, SendIs
    <2>1. StoreTyped /\ PagesTyped /\ RequestsTyped
      BY <2>0 DEF Sends
    <2>2. crossed' \subseteq crossed \cup {"pages"}
      BY <2>0 DEF Sends
    <2> QED
      BY <1>6, <2>1, <2>2 DEF Send, OfflineTypeOK, PagesTyped, StoreTyped, RequestsTyped
  <1>7. CASE NextStep(p)
    <2>1. StoreTyped /\ PagesTyped /\ RequestsTyped
      BY Zenon, <1>7, NextStepIs
    <2> QED
      BY Zenon, <1>7, <2>1 DEF NextStep, OfflineTypeOK, PagesTyped, StoreTyped, RequestsTyped
  <1>8. CASE Settle(p)
    <2>1. StoreTyped /\ PagesTyped /\ RequestsTyped
      BY <1>8, SettleIs DEF LoopGoesOn
    <2> QED
      BY Zenon, <1>8, <2>1 DEF Settle, OfflineTypeOK, PagesTyped, StoreTyped, RequestsTyped
  <1>9. CASE Tick(p)
    BY <1>9, TickIs DEF Tick, OfflineTypeOK, PagesTyped
  <1>10. CASE Defer(p)
    <2>1. StoreTyped /\ PagesTyped /\ RequestsTyped
      BY <1>10, DeferIs DEF LoopGoesOn
    <2>2. crossed' \subseteq crossed \cup {"cut"} /\ mishaps' = mishaps + 1 /\ mishaps < MaxMishaps
      BY <1>10, DeferIs
    <2>3. mishaps' \in 0 .. MaxMishaps
      BY <2>2, CapAssumption DEF OfflineTypeOK
    <2> QED
      BY <1>10, <2>1, <2>2, <2>3 DEF Defer, OfflineTypeOK, PagesTyped, StoreTyped, RequestsTyped
  <1>11. CASE ClosePage(p)
    <2>1. /\ PagesTyped /\ crossed' \subseteq {"pages", "fetch", "cut"} /\ mishaps' \in 0 .. MaxMishaps
          /\ RequestsTyped \/ request' = request
      <3>1. /\ PagesTyped /\ mishaps' = mishaps + 1 /\ mishaps < MaxMishaps
            /\ RequestsTyped \/ request' = request
            /\ crossed' = crossed \/ crossed' = crossed \cup {"cut"}
        BY <1>11, ClosePageIs
      <3>2. mishaps' \in 0 .. MaxMishaps
        BY <3>1, CapAssumption DEF OfflineTypeOK
      <3>3. crossed' \subseteq {"pages", "fetch", "cut"}
        BY <3>1 DEF OfflineTypeOK
      <3> QED
        BY <3>1, <3>2, <3>3
    <2> QED
      BY <1>11, <2>1 DEF ClosePage, OfflineTypeOK, PagesTyped, RequestsTyped
  <1> QED
    BY <1>1, <1>2, <1>3, <1>4, <1>5, <1>6, <1>7, <1>8, <1>9, <1>10, <1>11 DEF Loop

LEMMA TypesOfDecision ==
    ASSUME OfflineTypeOK, Copies, NEW p \in Pages, NEW i \in Items,
           ApplyAnyway(p, i) \/ AdoptRates(p, i) \/ SendNow(p, i) \/ Discard(p, i)
    PROVE  OfflineTypeOK'
  <1> USE DEF server, history
  <1>1. Decision => decisions' \in 0 .. MaxDecisions
    BY CapAssumption DEF Decision, OfflineTypeOK
  <1>2. CASE ApplyAnyway(p, i)
    <2>1. StoreTyped /\ PagesTyped
      BY <1>2, ApplyAnywayIs DEF PutsBack
    <2> QED
      BY <1>1, <1>2, <2>1 DEF ApplyAnyway, OfflineTypeOK, PagesTyped, StoreTyped
  <1>3. CASE AdoptRates(p, i)
    <2>1. StoreTyped /\ PagesTyped /\ page[p].list[i].current # None /\ page[p].list[i].kind = "estimate"
          /\ page[p].list[i].state # None
      BY SMTT(30), <1>3, AdoptRatesIs DEF PutsBack, None
    <2>2. page[p].list[i].current \in Rates
      BY <2>1 DEF Copies, Copy
    <2>3. agreed' \subseteq Items \X Rates
      BY <1>3, <2>2, AdoptRatesIs DEF OfflineTypeOK
    <2> QED
      BY <1>1, <1>3, <2>1, <2>3 DEF AdoptRates, OfflineTypeOK, PagesTyped, StoreTyped
  <1>4. CASE SendNow(p, i)
    BY Zenon, <1>1, <1>4, SendNowIs DEF SendNow, OfflineTypeOK, PagesTyped
  <1>5. CASE Discard(p, i)
    <2>1. StoreTyped /\ PagesTyped /\ estimate' \in [Estimates -> EstimateTypes]
      BY <1>5, DiscardIs DEF EstimateBecomes, OfflineTypeOK
    <2>2. settled' \in [applied : SUBSET Items, discarded : SUBSET Items]
      BY <1>5 DEF Discard, OfflineTypeOK
    <2> QED
      BY SMTT(30), <1>1, <1>5, <2>1, <2>2 DEF Discard, OfflineTypeOK, PagesTyped, StoreTyped
  <1> QED
    BY <1>2, <1>3, <1>4, <1>5

LEMMA TypesOfOffice ==
    ASSUME OfflineTypeOK, OfficeSetsStatus \/ OfficeSetsRate
    PROVE  OfflineTypeOK'
  <1>1. office' \in 0 .. MaxOffice
    BY CapAssumption DEF OfficeSetsStatus, OfficeSetsRate, Office, OfflineTypeOK
  <1> QED
    BY <1>1, StatusAssumption DEF OfficeSetsStatus, OfficeSetsRate, OfflineTypeOK, Rates, history

\* What a step never takes back.
Grows ==
    /\ screen' = screen /\ written <= written' /\ agreed \subseteq agreed'
    /\ settled.applied \subseteq settled'.applied /\ settled.discarded \subseteq settled'.discarded
    /\ crossed \subseteq crossed' /\ office <= office' /\ mishaps <= mishaps'
    /\ \A e \in Estimates :
          /\ estimate[e].draft # 0 => estimate'[e].draft = estimate[e].draft
          /\ estimate[e].rate # None => estimate'[e].rate # None
          /\ estimate[e].calculated => estimate'[e].calculated

\* What the steps of the pages and of the office leave to the server.
Still == UNCHANGED <<logs, estimate, settled>>

LEMMA GrowsByPage ==
    ASSUME OfflineTypeOK, LinksFit, RequestsFit, NEW p \in Pages,
           OpenPage(p) \/ FetchTasks(p) \/ ShowTasks(p) \/ Prime(p) \/ Write(p) \/ Loop(p) \/ Defer(p) \/ ClosePage(p)
    PROVE  Grows /\ Still
  <1> USE DEF server, history
  <1>1. written \in Nat /\ office \in Nat /\ mishaps \in Nat
    BY CapAssumption DEF OfflineTypeOK
  <1>2. ASSUME Still, screen' = screen, office' = office, written <= written', agreed \subseteq agreed',
               mishaps <= mishaps', crossed \subseteq crossed'
        PROVE  Grows /\ Still
    BY <1>1, <1>2 DEF Grows, Still
  <1>3. CASE OpenPage(p) \/ FetchTasks(p) \/ Prime(p)
    BY <1>1, <1>2, <1>3 DEF OpenPage, FetchTasks, Prime, Still
  <1>10. CASE ShowTasks(p)
    <2>1. crossed \subseteq crossed' /\ Still
      BY <1>10 DEF ShowTasks, Still
    <2>2. screen' = screen /\ office' = office /\ written' = written /\ agreed' = agreed /\ mishaps' = mishaps
      BY <1>10 DEF ShowTasks
    <2> QED
      BY <1>1, <1>2, <2>1, <2>2
  <1>4. CASE Write(p)
    <2>1. agreed \subseteq agreed'
      BY <1>4, WriteIs
    <2> QED
      BY <1>1, <1>2, <1>4, <2>1 DEF Write, Still
  <1>5. CASE StartSending(p) \/ Tick(p)
    BY <1>1, <1>2, <1>5 DEF StartSending, Tick, Still
  <1>6. CASE Send(p)
    BY <1>1, <1>2, <1>6 DEF Send, Still
  <1>7. CASE NextStep(p) \/ Settle(p)
    <2>1. /\ screen' = screen /\ office' = office /\ written' = written /\ agreed' = agreed /\ mishaps' = mishaps
          /\ crossed' = crossed /\ Still
      BY Zenon, <1>7 DEF NextStep, Settle, Still
    <2> QED
      BY <1>1, <1>2, <2>1
  <1>8. CASE Defer(p)
    <2>1. mishaps' = mishaps + 1
      BY <1>8 DEF Defer, Mishap
    <2> QED
      BY <1>1, <1>2, <1>8, <2>1 DEF Defer, Still
  <1>9. CASE ClosePage(p)
    <2>1. mishaps' = mishaps + 1
      BY <1>9 DEF ClosePage, Mishap
    <2> QED
      BY <1>1, <1>2, <1>9, <2>1 DEF ClosePage, Still
  <1> QED
    BY <1>3, <1>4, <1>5, <1>6, <1>7, <1>8, <1>9, <1>10 DEF Loop

LEMMA GrowsByDecision ==
    ASSUME OfflineTypeOK, Copies, NEW p \in Pages, NEW i \in Items,
           ApplyAnyway(p, i) \/ AdoptRates(p, i) \/ SendNow(p, i) \/ Discard(p, i)
    PROVE  Grows
  <1> USE DEF server, history
  <1>1. written \in Nat /\ office \in Nat /\ mishaps \in Nat
    BY SMTT(30), CapAssumption DEF OfflineTypeOK
  <1>2. /\ screen' = screen /\ office' = office /\ written' = written /\ mishaps' = mishaps /\ crossed' = crossed
        /\ agreed \subseteq agreed'
    BY DEF ApplyAnyway, AdoptRates, SendNow, Discard
  <1>3. settled.applied \subseteq settled'.applied /\ settled.discarded \subseteq settled'.discarded
    BY DEF ApplyAnyway, AdoptRates, SendNow, Discard, OfflineTypeOK
  <1>4. CASE Discard(p, i)
    BY <1>1, <1>2, <1>3, <1>4, DiscardIs DEF Grows, EstimateBecomes
  <1>5. CASE ~Discard(p, i)
    <2>1. estimate' = estimate
      BY <1>5 DEF ApplyAnyway, AdoptRates, SendNow
    <2> QED
      BY <1>1, <1>2, <1>3, <2>1 DEF Grows
  <1> QED
    BY <1>4, <1>5

LEMMA GrowsByServer ==
    ASSUME OfflineTypeOK, RequestsFit, NEW r \in Requests, Serve(r) \/ Refuse(r) \/ Vanish(r)
    PROVE  Grows
  <1> USE DEF server, history
  <1>1. written \in Nat /\ office \in Nat /\ mishaps \in Nat
    BY CapAssumption DEF OfflineTypeOK
  <1>2. /\ screen' = screen /\ office' = office /\ written' = written /\ crossed' = crossed /\ agreed' = agreed
        /\ mishaps <= mishaps'
    BY <1>1 DEF Serve, Check, Commit, CreateEstimate, ReplaceLines, Calculate, Refuse, Vanish, Mishap
  <1>3. settled.applied \subseteq settled'.applied /\ settled.discarded \subseteq settled'.discarded
    <2>1. CASE Commit(r)
      BY <2>1, CommitIs DEF OfflineTypeOK
    <2>2. CASE ~Commit(r)
      BY <2>2 DEF Serve, Check, CreateEstimate, ReplaceLines, Calculate, Refuse, Vanish
    <2> QED
      BY <2>1, <2>2
  <1>4. CASE CreateEstimate(r)
    <2>1. PICK e \in Estimates : estimate[e] = NoEstimate /\ EstimateBecomes(e, request[r].i, None)
      BY <1>4, CreateEstimateIs
    <2> QED
      BY <1>1, <1>2, <1>3, <2>1, NoEstimateIs DEF Grows, EstimateBecomes
  <1>5. CASE ReplaceLines(r)
    <2>1. rate # None
      BY DEF OfflineTypeOK, Rates, None
    <2> QED
      BY <1>1, <1>2, <1>3, <1>5, <2>1, ReplaceLinesIs DEF Grows, EstimateBecomes
  <1>6. CASE Calculate(r)
    BY <1>1, <1>2, <1>3, <1>6, CalculateIs DEF Grows, EstimateBecomes
  <1>7. CASE Check(r) \/ Commit(r) \/ Refuse(r) \/ Vanish(r)
    <2>1. estimate' = estimate
      BY <1>7 DEF Check, Commit, Refuse, Vanish
    <2> QED
      BY <1>1, <1>2, <1>3, <2>1 DEF Grows
  <1> QED
    BY <1>4, <1>5, <1>6, <1>7 DEF Serve

LEMMA TypesNextOffline ==
    ASSUME OfflineTypeOK, Copies, LinksFit, RequestsFit, [NextOffline]_ovars
    PROVE  OfflineTypeOK' /\ Grows
  <1>1. written \in Nat /\ office \in Nat /\ mishaps \in Nat
    BY CapAssumption DEF OfflineTypeOK
  <1>2. ASSUME NEW p \in Pages,
               OpenPage(p) \/ FetchTasks(p) \/ ShowTasks(p) \/ Prime(p) \/ Write(p) \/ Loop(p) \/ Defer(p) \/ ClosePage(p)
        PROVE  OfflineTypeOK' /\ Grows
    BY <1>2, TypesOfPage, GrowsByPage
  <1>3. ASSUME NEW p \in Pages, NEW i \in Items,
               ApplyAnyway(p, i) \/ AdoptRates(p, i) \/ SendNow(p, i) \/ Discard(p, i)
        PROVE  OfflineTypeOK' /\ Grows
    BY <1>3, TypesOfDecision, GrowsByDecision
  <1>4. ASSUME NEW r \in Requests, Serve(r) \/ Refuse(r) \/ Vanish(r)
        PROVE  OfflineTypeOK' /\ Grows
    BY <1>4, TypesOfServer, GrowsByServer
  <1>5. CASE OfficeSetsStatus \/ OfficeSetsRate
    <2>1. Grows
      BY <1>1, <1>5 DEF Grows, OfficeSetsStatus, OfficeSetsRate, Office, history
    <2> QED
      BY <1>5, <2>1, TypesOfOffice
  <1>6. CASE UNCHANGED ovars
    BY <1>1, <1>6 DEF Grows, OfflineTypeOK, ovars, server, history
  <1> QED
    BY <1>2, <1>3, <1>4, <1>5, <1>6 DEF NextOffline

-----------------------------------------------------------------------------
(* The copies of an item.                                                  *)

\* A copy of the item i that may stand in the next state.
Kept(item, i) ==
    /\ Empty(item)
    /\ item.state # None =>
        /\ i <= written' /\ ScreenOf(item.kind) = screen'
        /\ item.kind = "status" => item.seen \in Statuses /\ item.want \in Statuses /\ item.current \in Statuses \cup {None}
        /\ item.kind # "estimate" => item.id = 0
        /\ item.kind = "estimate" =>
              /\ item.seen \in Rates /\ <<i, item.seen>> \in agreed' /\ item.current \in Rates \cup {None}
              /\ item.current # None => item.id # 0
              /\ item.id # 0 => estimate'[item.id].draft = i

LEMMA BlankIsKept == \A i \in Items : Kept(NoItem, i)
  BY BlankIsTyped DEF Kept, Empty

LEMMA OldIsKept ==
    ASSUME OfflineTypeOK, OfflineTypeOK', Grows, NEW i \in Items, NEW item \in ItemTypes, Copy(item, i), Empty(item)
    PROVE  Kept(item, i)
  <1> SUFFICES ASSUME item.state # None PROVE Kept(item, i)
    BY DEF Kept
  <1>1. /\ i <= written /\ ScreenOf(item.kind) = screen
        /\ item.kind = "status" => item.seen \in Statuses /\ item.want \in Statuses /\ item.current \in Statuses \cup {None}
        /\ item.kind # "estimate" => item.id = 0
        /\ item.kind = "estimate" =>
              /\ item.seen \in Rates /\ <<i, item.seen>> \in agreed /\ item.current \in Rates \cup {None}
              /\ item.current # None => item.id # 0
              /\ item.id # 0 => estimate[item.id].draft = i
    BY DEF Copy
  <1>2. i <= written' /\ screen' = screen /\ (<<i, item.seen>> \in agreed => <<i, item.seen>> \in agreed')
    BY <1>1 DEF Grows, OfflineTypeOK, Items
  <1>3. item.id # 0 => item.id \in Estimates
    BY CapAssumption DEF ItemTypes, Estimates
  <1>4. item.id # 0 /\ estimate[item.id].draft = i => estimate'[item.id].draft = i
    BY <1>3 DEF Grows, Items
  <1> QED
    BY <1>1, <1>2, <1>4 DEF Kept

LEMMA OldAreKept ==
    ASSUME OfflineTypeOK, OfflineTypeOK', Grows, Copies, RequestsFit
    PROVE  /\ \A i \in Items : Kept(store[i], i)
           /\ \A p \in Pages, i \in Items : Kept(page[p].list[i], i) /\ Kept(page[p].batch[i], i)
           /\ \A r \in Requests : Used(r) => Kept(request[r].item, request[r].i)
  <1>1. \A i \in Items : store[i] \in ItemTypes
    BY DEF OfflineTypeOK
  <1>2. \A p \in Pages, i \in Items : page[p].list[i] \in ItemTypes /\ page[p].batch[i] \in ItemTypes
    BY DEF OfflineTypeOK, PageTypes
  <1>3. \A r \in Requests : Used(r) =>
            request[r].item \in ItemTypes /\ request[r].i \in Items /\ Copy(request[r].item, request[r].i)
            /\ Empty(request[r].item)
    BY DEF OfflineTypeOK, RequestTypes, RequestsFit, RequestFits, Empty, None
  <1>4. \A i \in Items : Kept(store[i], i)
    BY <1>1, OldIsKept DEF Copies
  <1>5. \A p \in Pages, i \in Items : Kept(page[p].list[i], i) /\ Kept(page[p].batch[i], i)
    BY <1>2, OldIsKept DEF Copies
  <1>6. \A r \in Requests : Used(r) => Kept(request[r].item, request[r].i)
    BY <1>3, OldIsKept
  <1> QED
    BY <1>4, <1>5, <1>6

\* A copy marked as queued, as sent or as parked.
LEMMA MarkedIsKept ==
    ASSUME NEW i \in Items, NEW x \in ItemTypes, NEW y \in ItemTypes, Kept(x, i), x.state # None, y.state # None,
           y.kind = x.kind, y.seen = x.seen, y.want = x.want, y.id = x.id, y.current = x.current \/ y.current = None
    PROVE  Kept(y, i)
  BY DEF Kept, Empty

\* Every copy in the next state is kept.
AllKept ==
    /\ \A i \in Items : Kept(store'[i], i)
    /\ \A p \in Pages, i \in Items : Kept(page'[p].list[i], i) /\ Kept(page'[p].batch[i], i)

LEMMA ItemIsKept ==
    ASSUME \A j \in Items : Kept(store[j], j), NEW i \in Items, OnlyItem(i), Kept(store'[i], i)
    PROVE  \A j \in Items : Kept(store'[j], j)
  BY DEF OnlyItem

LEMMA BatchIsKept ==
    ASSUME OfflineTypeOK, NEW p \in Pages, \A j \in Items : Kept(page[p].batch[j], j),
           NEW i \in Items, NEW item, Kept(item, i), page'[p].batch = [page[p].batch EXCEPT ![i] = item]
    PROVE  \A j \in Items : Kept(page'[p].batch[j], j)
  <1>1. page[p].batch \in [Items -> ItemTypes]
    BY DEF OfflineTypeOK, PageTypes
  <1>2. \A j \in Items : page'[p].batch[j] = IF j = i THEN item ELSE page[p].batch[j]
    BY <1>1
  <1> QED
    BY <1>2

LEMMA PageIsKept ==
    ASSUME \A q \in Pages, j \in Items : Kept(page[q].list[j], j) /\ Kept(page[q].batch[j], j),
           \A j \in Items : Kept(store'[j], j),
           NEW p \in Pages, OnlyPage(p), page'[p].list \in {page[p].list, store'},
           \A j \in Items : Kept(page'[p].batch[j], j)
    PROVE  AllKept
  <1>1. \A j \in Items : Kept(page'[p].list[j], j)
    <2>1. CASE page'[p].list = page[p].list
      BY <2>1
    <2>2. CASE page'[p].list = store'
      BY <2>2
    <2> QED
      BY <2>1, <2>2
  <1>2. \A q \in Pages \ {p}, j \in Items : Kept(page'[q].list[j], j) /\ Kept(page'[q].batch[j], j)
    BY DEF OnlyPage
  <1> QED
    BY <1>1, <1>2 DEF AllKept

LEMMA KeptAreCopies == AllKept => Copies'
  <1> SUFFICES ASSUME AllKept PROVE Copies'
    OBVIOUS
  <1>1. \A i \in Items : Copy(store[i], i)' /\ Empty(store[i])'
    BY Zenon DEF AllKept, Kept, Copy, Empty
  <1>2. \A p \in Pages, i \in Items : Copy(page[p].list[i], i)' /\ Empty(page[p].list[i])'
    BY Zenon DEF AllKept, Kept, Copy, Empty
  <1>3. \A p \in Pages, i \in Items : Copy(page[p].batch[i], i)' /\ Empty(page[p].batch[i])'
    BY Zenon DEF AllKept, Kept, Copy, Empty
  <1> QED
    BY <1>1, <1>2, <1>3 DEF Copies

LEMMA SendKeeps ==
    ASSUME OfflineTypeOK, OfflineTypeOK', Grows, Copies, RequestsFit, NEW p \in Pages, Send(p)
    PROVE  AllKept
  <1>1. /\ \A j \in Items : Kept(store[j], j)
        /\ \A q \in Pages, j \in Items : Kept(page[q].list[j], j) /\ Kept(page[q].batch[j], j)
    BY OldAreKept
  <1>2. PICK i \in Batch(p), item \in ItemTypes, r \in Requests :
         /\ item.state = "sending" /\ item.current = None /\ item.kind = page[p].batch[i].kind
         /\ item.seen = page[p].batch[i].seen /\ item.want = page[p].batch[i].want /\ item.id = page[p].batch[i].id
         /\ OnlyItem(i) /\ store'[i] = item
         /\ request[r] = NoRequest
         /\ OnlyRequest(r) /\ Fields(request'[r], "sent", p, i, item, StepOf(item))
         /\ OnlyPage(p)
         /\ page'[p].list = page[p].list
         /\ page'[p].batch = [page[p].batch EXCEPT ![i] = item]
    BY SendIs DEF Sends
  <1>3. i \in Items /\ page[p].batch[i].state # None /\ page[p].batch[i] \in ItemTypes
    BY <1>2 DEF Batch, OfflineTypeOK, PageTypes
  <1>4. Kept(item, i)
    BY <1>1, <1>2, <1>3, MarkedIsKept DEF None
  <1>5. (\A j \in Items : Kept(store'[j], j)) /\ \A j \in Items : Kept(page'[p].batch[j], j)
    BY <1>1, <1>2, <1>3, <1>4, ItemIsKept, BatchIsKept
  <1> QED
    BY <1>1, <1>2, <1>5, PageIsKept

LEMMA PageKeeps ==
    ASSUME OfflineTypeOK, OfflineTypeOK', Grows, Copies, RequestsFit, LinksFit, NEW p \in Pages,
           OpenPage(p) \/ FetchTasks(p) \/ ShowTasks(p) \/ Prime(p) \/ Write(p) \/ Loop(p) \/ Defer(p) \/ ClosePage(p)
    PROVE  AllKept
  <1>1. /\ \A i \in Items : Kept(store[i], i)
        /\ \A q \in Pages, i \in Items : Kept(page[q].list[i], i) /\ Kept(page[q].batch[i], i)
        /\ \A r \in Requests : Used(r) => Kept(request[r].item, request[r].i)
    BY OldAreKept
  <1>2. page[p] \in PageTypes /\ \A i \in Items : page[p].batch[i] \in ItemTypes /\ store[i] \in ItemTypes
    BY DEF OfflineTypeOK, PageTypes
  <1>3. CASE OpenPage(p)
    <2>1. store' = store /\ OnlyPage(p) /\ page'[p].list = store' /\ page'[p].batch = [i \in Items |-> NoItem]
      BY <1>3, OpenPageIs DEF OpenPage
    <2>2. \A j \in Items : Kept(page'[p].batch[j], j) /\ Kept(store'[j], j)
      BY <1>1, <2>1, BlankIsKept
    <2> QED
      BY <1>1, <2>1, <2>2, PageIsKept
  <1>4. CASE FetchTasks(p) \/ ShowTasks(p) \/ Tick(p)
    <2>1. store' = store /\ OnlyPage(p) /\ page'[p].list = page[p].list /\ page'[p].batch = page[p].batch
      BY <1>4, FetchTasksIs, ShowTasksIs, TickIs DEF FetchTasks, ShowTasks, Tick
    <2> QED
      BY <1>1, <2>1, PageIsKept
  <1>5. CASE Prime(p)
    BY <1>1, <1>5 DEF Prime, AllKept
  <1>6. CASE Write(p)
    <2> DEFINE n == written + 1
    <2>1. PICK item \in ItemTypes :
           /\ n \in Items
           /\ item.state = "queued" /\ item.current = None /\ item.id = 0 /\ ScreenOf(item.kind) = screen
           /\ item.kind = "status" => item.seen = page[p].shown /\ item.seen \in Statuses /\ item.want \in Statuses
           /\ item.kind = "estimate" => item.seen = cached
           /\ OnlyItem(n) /\ store'[n] = item
           /\ OnlyPage(p) /\ page'[p].list = store' /\ page'[p].batch = page[p].batch
           /\ agreed' = IF item.kind = "estimate" THEN agreed \cup {<<n, cached>>} ELSE agreed
      BY <1>6, WriteIs
    <2>2. n <= written' /\ screen' = screen /\ cached \in Rates
      <3>1. written' = n /\ screen' = screen
        BY <1>6 DEF Write
      <3>2. n \in Nat /\ cached \in Rates
        BY CapAssumption DEF OfflineTypeOK
      <3> QED
        BY <3>1, <3>2
    <2>3. item.kind = "estimate" => item.seen \in Rates /\ <<n, item.seen>> \in agreed'
      BY <2>1, <2>2
    <2>4. Kept(item, n)
      BY <2>1, <2>2, <2>3 DEF Kept, Empty, None
    <2> HIDE DEF n
    <2>5. \A i \in Items : Kept(store'[i], i)
      BY <1>1, <2>1, <2>4, ItemIsKept
    <2> QED
      BY <1>1, <2>1, <2>5, PageIsKept
  <1>7. CASE StartSending(p)
    <2>1. /\ store' = store /\ OnlyPage(p) /\ page'[p].list = page[p].list
          /\ page'[p].batch = [i \in Items |-> IF i \in Waiting(p) \ page[p].tried THEN page[p].list[i] ELSE NoItem]
      BY <1>7, StartSendingIs DEF StartSending
    <2>2. \A i \in Items : page'[p].batch[i] \in {page[p].list[i], NoItem}
      BY <2>1
    <2>3. \A i \in Items : Kept(page'[p].batch[i], i)
      BY <1>1, <2>2, BlankIsKept
    <2> QED
      BY SMTT(30), <1>1, <2>1, <2>3, PageIsKept
  <1>8. CASE Send(p)
    BY <1>8, SendKeeps
  <1>9. CASE NextStep(p)
    <2> DEFINE x == request[page[p].request]  i == x.i
    <2>1. PICK item \in ItemTypes :
           /\ page[p].request \in Requests /\ i \in Items /\ x.pc = "ok" /\ x.step \in {"create", "lines"}
           /\ Used(page[p].request)
           /\ item.state = x.item.state /\ item.kind = x.item.kind /\ item.seen = x.item.seen
           /\ item.want = x.item.want /\ item.current = x.item.current
           /\ item.id = IF x.step = "create" THEN x.answer ELSE x.item.id
           /\ x.step = "create" => x.answer \in Estimates
           /\ OnlyItem(i) /\ store'[i] = IF x.step = "create" THEN item ELSE store[i]
           /\ OnlyPage(p) /\ page'[p].list = page[p].list
           /\ page'[p].batch = [page[p].batch EXCEPT ![i] = item]
      BY Zenon, <1>9, NextStepIs
    <2>2. /\ x.item.state = "sending" /\ x.item.kind = "estimate" /\ x.item.current = None
          /\ x.step = "create" => estimate[x.answer].draft = i
      BY Zenon, <2>1 DEF RequestsFit, RequestFits
    <2>3. x.step = "create" => estimate'[x.answer].draft = i
      BY <2>1, <2>2 DEF Grows, Items
    <2>4. Kept(x.item, i)
      BY SMTT(30), <1>1, <2>1
    <2>5. Kept(item, i)
      BY Zenon, <2>1, <2>2, <2>3, <2>4 DEF Kept, Empty, None
    <2> HIDE DEF x, i
    <2>6. (\A j \in Items : Kept(store'[j], j)) /\ \A j \in Items : Kept(page'[p].batch[j], j)
      BY <1>1, <2>1, <2>5, ItemIsKept, BatchIsKept
    <2> QED
      BY <1>1, <2>1, <2>6, PageIsKept
  <1>10. CASE Settle(p)
    <2> DEFINE x == request[page[p].request]  i == x.i
    <2>1. PICK item \in ItemTypes :
           /\ page[p].request \in Requests /\ i \in Items /\ Used(page[p].request)
           /\ item.state = "needs_attention" /\ item.kind = x.item.kind /\ item.seen = x.item.seen
           /\ item.want = x.item.want /\ item.id = x.item.id
           /\ item.current = IF x.pc = "conflict" THEN x.answer ELSE x.item.current
           /\ x.pc = "conflict" => IF x.item.kind = "status" THEN x.answer \in Statuses ELSE x.answer \in Rates
           /\ OnlyItem(i) /\ store'[i] = IF x.pc = "ok" THEN NoItem ELSE item
           /\ LoopGoesOn(p, i)
      BY <1>10, SettleIs
    <2>2. /\ x.item.state = "sending" /\ x.item.current = None
          /\ (x.pc = "conflict" => x.item.kind = "status" \/ x.step = "lines")
          /\ (x.step = "lines" => x.item.id # 0 /\ x.item.kind = "estimate")
      BY <2>1 DEF RequestsFit, RequestFits
    <2>3. Kept(x.item, i)
      BY SMTT(30), <1>1, <2>1
    <2>4. /\ x.pc = "conflict" /\ x.item.kind = "status" => item.current \in Statuses
          /\ x.pc = "conflict" /\ x.item.kind # "status" => x.item.kind = "estimate" /\ item.current \in Rates /\ item.id # 0
      BY SMTT(30), <2>1, <2>2
    <2>5. Kept(item, i)
      BY Zenon, <2>1, <2>2, <2>3, <2>4 DEF Kept, Empty, None
    <2> HIDE DEF x, i
    <2>6. (\A j \in Items : Kept(store'[j], j)) /\ \A j \in Items : Kept(page'[p].batch[j], j)
      BY <1>1, <2>1, <2>5, BlankIsKept, ItemIsKept, BatchIsKept DEF LoopGoesOn
    <2> QED
      BY <1>1, <2>1, <2>6, PageIsKept DEF LoopGoesOn
  <1>11. CASE Defer(p)
    <2> DEFINE x == request[page[p].request]  i == x.i
    <2>1. PICK item \in ItemTypes :
           /\ page[p].request \in Requests /\ i \in Items /\ Used(page[p].request)
           /\ item.state = "queued" /\ item.kind = x.item.kind /\ item.seen = x.item.seen
           /\ item.want = x.item.want /\ item.id = x.item.id /\ item.current = x.item.current
           /\ OnlyItem(i) /\ store'[i] = item
           /\ LoopGoesOn(p, i)
      BY SMTT(30), <1>11, DeferIs
    <2>2. x.item.state = "sending"
      BY <2>1 DEF RequestsFit, RequestFits
    <2>3. Kept(x.item, i)
      BY SMTT(30), <1>1, <2>1
    <2>4. Kept(item, i)
      BY Zenon, <2>1, <2>2, <2>3 DEF Kept, Empty, None
    <2> HIDE DEF x, i
    <2>5. (\A j \in Items : Kept(store'[j], j)) /\ \A j \in Items : Kept(page'[p].batch[j], j)
      BY <1>1, <2>1, <2>4, BlankIsKept, ItemIsKept, BatchIsKept DEF LoopGoesOn
    <2> QED
      BY <1>1, <2>1, <2>5, PageIsKept DEF LoopGoesOn
  <1>12. CASE ClosePage(p)
    <2>1. store' = store /\ OnlyPage(p) /\ page'[p] = Closed
      BY <1>12, ClosePageIs DEF ClosePage
    <2>2. \A j \in Items : Kept(page'[p].list[j], j) /\ Kept(page'[p].batch[j], j)
      BY <2>1, BlankIsKept, BlankIsTyped
    <2> QED
      BY SMTT(30), <1>1, <2>1, <2>2 DEF AllKept, OnlyPage
  <1> QED
    BY <1>3, <1>4, <1>5, <1>6, <1>7, <1>8, <1>9, <1>10, <1>11, <1>12 DEF Loop

LEMMA DecisionKeeps ==
    ASSUME OfflineTypeOK, OfflineTypeOK', Grows, Copies, RequestsFit, NEW p \in Pages, NEW i \in Items,
           ApplyAnyway(p, i) \/ AdoptRates(p, i) \/ SendNow(p, i) \/ Discard(p, i)
    PROVE  AllKept
  <1>1. /\ \A j \in Items : Kept(store[j], j)
        /\ \A q \in Pages, j \in Items : Kept(page[q].list[j], j) /\ Kept(page[q].batch[j], j)
    BY OldAreKept
  <1>2. page[p] \in PageTypes
    BY DEF OfflineTypeOK
  <1>3. CASE ApplyAnyway(p, i) \/ AdoptRates(p, i)
    <2>1. PutsBack(p, i) /\ (page[p].list[i].kind = "estimate" => <<i, page[p].list[i].current>> \in agreed')
          /\ page[p].list[i].kind \in {"status", "estimate"}
      BY <1>3, ApplyAnywayIs, AdoptRatesIs
    <2>2. PICK item \in ItemTypes :
           /\ page[p].list[i].state = "needs_attention" /\ page[p].list[i].current # None
           /\ item.state = "queued" /\ item.kind = page[p].list[i].kind /\ item.seen = page[p].list[i].current
           /\ item.want = page[p].list[i].want /\ item.current = None /\ item.id = page[p].list[i].id
           /\ OnlyItem(i) /\ store'[i] = item
           /\ OnlyPage(p) /\ page'[p].list = store' /\ page'[p].batch = page[p].batch
      BY <2>1 DEF PutsBack
    <2>3. Kept(page[p].list[i], i) /\ page[p].list[i].state # None
      BY <1>1, <2>2 DEF None
    <2>4. Kept(item, i)
      BY <2>1, <2>2, <2>3 DEF Kept, Empty, None
    <2>5. \A j \in Items : Kept(store'[j], j)
      BY <1>1, <2>2, <2>4, ItemIsKept
    <2> QED
      BY <1>1, <2>2, <2>5, PageIsKept
  <1>4. CASE SendNow(p, i)
    <2>1. /\ store' = store /\ OnlyPage(p) /\ page'[p].list = page[p].list
          /\ page'[p].batch = [page[p].batch EXCEPT ![i] = page[p].list[i]]
      BY <1>4, SendNowIs DEF SendNow
    <2>2. \A j \in Items : Kept(page'[p].batch[j], j)
      BY <1>1, <2>1, BatchIsKept
    <2> QED
      BY <1>1, <2>1, <2>2, PageIsKept
  <1>5. CASE Discard(p, i)
    <2>1. OnlyItem(i) /\ store'[i] = NoItem /\ OnlyPage(p) /\ page'[p].list = store' /\ page'[p].batch = page[p].batch
      BY <1>5, DiscardIs
    <2>2. \A j \in Items : Kept(store'[j], j)
      BY <1>1, <2>1, BlankIsKept, ItemIsKept
    <2> QED
      BY <1>1, <2>1, <2>2, PageIsKept
  <1> QED
    BY <1>3, <1>4, <1>5

LEMMA CopiesNext ==
    ASSUME OfflineTypeOK, OfflineTypeOK', Grows, Copies, RequestsFit, LinksFit, [NextOffline]_ovars
    PROVE  Copies'
  <1>1. CASE UNCHANGED <<store, page>>
    BY <1>1, OldAreKept, KeptAreCopies DEF AllKept
  <1>2. ASSUME NEW r \in Requests, Serve(r) \/ Refuse(r) \/ Vanish(r)
        PROVE  UNCHANGED <<store, page>>
    BY <1>2 DEF Serve, Check, Commit, CreateEstimate, ReplaceLines, Calculate, Refuse, Vanish
  <1>3. OfficeSetsStatus \/ OfficeSetsRate \/ UNCHANGED ovars => UNCHANGED <<store, page>>
    BY DEF OfficeSetsStatus, OfficeSetsRate, ovars
  <1> QED
    BY <1>1, <1>2, <1>3, PageKeeps, DecisionKeeps, KeptAreCopies DEF NextOffline

-----------------------------------------------------------------------------
(* The requests.                                                           *)

\* What a request in use keeps in the next state.
Fits(x) ==
    LET e == x.item.id IN
    /\ x.i \in Items /\ x.item.state = "sending" /\ x.item.current = None /\ Kept(x.item, x.i)
    /\ (x.step = "write") <=> (x.item.kind # "estimate")
    /\ x.step # None /\ (x.step = "create" => e = 0) /\ (x.step \in {"lines", "calculate"} => e # 0)
    /\ x.pc = "checked" => x.step = "write"
    /\ x.pc = "conflict" => x.item.kind = "status" \/ x.step = "lines"
    /\ x.pc = "ok" /\ x.step = "create" => estimate'[x.answer].draft = x.i
    /\ x.pc = "ok" /\ x.step = "write" => x.i \in settled'.applied
    /\ x.step = "calculate" \/ (x.step = "lines" /\ x.pc = "ok") => estimate'[e].rate # None
    /\ x.pc = "ok" /\ x.step = "calculate" => estimate'[e].calculated

LEMMA FitIs ==
    ASSUME NEW r \in Requests, request'[r] = NoRequest \/ (request'[r].pc # "free" /\ Fits(request'[r]))
    PROVE  RequestFits(r)'
  <1>1. CASE request'[r] = NoRequest
    BY <1>1, BlankIsTyped DEF RequestFits, Used
  <1>2. CASE request'[r].pc # "free" /\ Fits(request'[r])
    <2>1. Copy(request[r].item, request[r].i)'
      BY <1>2 DEF Fits, Kept, Copy
    <2> QED
      BY <1>2, <2>1 DEF RequestFits, Used, Fits
  <1> QED
    BY <1>1, <1>2

\* A request that goes on as it is, whoever waits for it.
LEMMA SameFits ==
    ASSUME OfflineTypeOK, OfflineTypeOK', Grows, Copies, RequestsFit, NEW r \in Requests,
           \/ request'[r] = request[r]
           \/ /\ Used(r) /\ request'[r].answer = request[r].answer
              /\ Fields(request'[r], request[r].pc, Absent, request[r].i, request[r].item, request[r].step)
    PROVE  RequestFits(r)'
  <1> DEFINE x == request[r]  y == request'[r]  e == x.item.id
  <1>1. CASE ~Used(r)
    BY <1>1, FitIs DEF RequestsFit, RequestFits
  <1>2. CASE Used(r)
    <2>1. y.pc = x.pc /\ y.i = x.i /\ y.item = x.item /\ y.step = x.step /\ y.answer = x.answer
      BY DEF Fields
    <2>2. Kept(x.item, x.i)
      BY <1>2, OldAreKept
    <2>3. /\ x.pc # "free" /\ x.i \in Items /\ x.item.state = "sending" /\ x.item.current = None
          /\ (x.step = "write") <=> (x.item.kind # "estimate")
          /\ x.step # None /\ (x.step = "create" => e = 0) /\ (x.step \in {"lines", "calculate"} => e # 0)
          /\ x.pc = "checked" => x.step = "write"
          /\ x.pc = "conflict" => x.item.kind = "status" \/ x.step = "lines"
          /\ x.pc = "ok" /\ x.step = "create" => estimate[x.answer].draft = x.i
          /\ x.pc = "ok" /\ x.step = "write" => x.i \in settled.applied
          /\ x.step = "calculate" \/ (x.step = "lines" /\ x.pc = "ok") => estimate[e].rate # None
          /\ x.pc = "ok" /\ x.step = "calculate" => estimate[e].calculated
      BY <1>2 DEF RequestsFit, RequestFits, Used
    <2>4. /\ x.pc = "ok" /\ x.step = "create" => x.answer \in Estimates
          /\ x.item \in ItemTypes
      BY DEF OfflineTypeOK, AnswerFits, RequestTypes
    <2>5. e # 0 => e \in Estimates
      BY <2>4, CapAssumption DEF ItemTypes, Estimates
    <2>6. /\ x.pc = "ok" /\ x.step = "create" => estimate'[x.answer].draft = x.i
          /\ x.pc = "ok" /\ x.step = "write" => x.i \in settled'.applied
          /\ x.step = "calculate" \/ (x.step = "lines" /\ x.pc = "ok") => estimate'[e].rate # None
          /\ x.pc = "ok" /\ x.step = "calculate" => estimate'[e].calculated
      BY <2>3, <2>4, <2>5 DEF Grows, Items
    <2>7. Fits(y) /\ y.pc # "free"
      BY <2>1, <2>2, <2>3, <2>6 DEF Fits
    <2> QED
      BY <2>7, FitIs
  <1> QED
    BY <1>1, <1>2

\* A request that is answered.
LEMMA ReplyFits ==
    ASSUME OfflineTypeOK, OfflineTypeOK', Grows, Copies, RequestsFit, NEW r \in Requests, NEW pc, Replies(r, pc),
           pc = "checked" => request[r].step = "write",
           pc = "conflict" => request[r].item.kind = "status" \/ request[r].step = "lines",
           pc = "ok" /\ request[r].step = "create" => estimate'[request'[r].answer].draft = request[r].i,
           pc = "ok" /\ request[r].step = "write" => request[r].i \in settled'.applied,
           pc = "ok" /\ request[r].step = "lines" => estimate'[request[r].item.id].rate # None,
           pc = "ok" /\ request[r].step = "calculate" => estimate'[request[r].item.id].calculated
    PROVE  RequestFits(r)'
  <1> DEFINE x == request[r]  y == request'[r]  e == x.item.id
  <1>1. y.pc = pc /\ pc # "free" /\ y.i = x.i /\ y.item = x.item /\ y.step = x.step /\ Used(r)
    BY DEF Fields, Replies
  <1>2. Kept(x.item, x.i)
    BY <1>1, OldAreKept
  <1>3. /\ x.i \in Items /\ x.item.state = "sending" /\ x.item.current = None
        /\ (x.step = "write") <=> (x.item.kind # "estimate")
        /\ x.step # None /\ (x.step = "create" => e = 0) /\ (x.step \in {"lines", "calculate"} => e # 0)
        /\ x.step = "calculate" => estimate[e].rate # None
    BY <1>1 DEF RequestsFit, RequestFits
  <1>4. e # 0 => e \in Estimates
    BY SMTT(30), CapAssumption DEF ItemTypes, Estimates, OfflineTypeOK, RequestTypes
  <1>5. x.step = "calculate" => estimate'[e].rate # None
    BY <1>3, <1>4 DEF Grows
  <1>6. Fits(y)
    BY <1>1, <1>2, <1>3, <1>5 DEF Fits
  <1> QED
    BY <1>1, <1>6, FitIs

LEMMA OthersFit ==
    ASSUME OfflineTypeOK, OfflineTypeOK', Grows, Copies, RequestsFit, NEW r \in Requests, OnlyRequest(r), RequestFits(r)'
    PROVE  RequestsFit'
  <1>1. \A s \in Requests \ {r} : RequestFits(s)'
    BY SameFits DEF OnlyRequest
  <1> QED
    BY <1>1 DEF RequestsFit

LEMMA ServerFitsRequests ==
    ASSUME OfflineTypeOK, OfflineTypeOK', Grows, Copies, RequestsFit, ServerFits, NEW r \in Requests,
           Serve(r) \/ Refuse(r) \/ Vanish(r)
    PROVE  RequestsFit'
  <1> DEFINE x == request[r]  e == x.item.id
  <1>1. CASE Check(r)
    <2>1. /\ x.step = "write" /\ Used(r) /\ settled' = settled
          /\ \E pc \in {"ok", "checked", "refused", "conflict"} :
                /\ Replies(r, pc) /\ (pc = "conflict" => x.item.kind = "status")
                /\ pc = "ok" => logs[x.i] > 0
      BY <1>1, CheckIs DEF Check, history
    <2>2. x.i \in Items
      BY <2>1 DEF RequestsFit, RequestFits
    <2>3. logs[x.i] > 0 => x.i \in settled'.applied
      BY <2>1, <2>2 DEF ServerFits
    <2>4. RequestFits(r)'
      BY <2>1, <2>3, ReplyFits
    <2> QED
      BY <2>1, <2>4, OthersFit DEF Replies
  <1>2. CASE Commit(r)
    <2>1. /\ x.step = "write" /\ Used(r) /\ x.i \in Items
          /\ \E pc \in {"ok", "refused"} :
                /\ Replies(r, pc)
                /\ pc = "ok" => settled' = [settled EXCEPT !.applied = @ \cup {x.i}]
      BY <1>2, CommitIs
    <2>2. settled' = [settled EXCEPT !.applied = @ \cup {x.i}] => x.i \in settled'.applied
      BY DEF OfflineTypeOK
    <2>3. RequestFits(r)'
      BY <2>1, <2>2, ReplyFits
    <2> QED
      BY <2>1, <2>3, OthersFit DEF Replies
  <1>3. CASE CreateEstimate(r)
    <2>1. PICK d \in Estimates : /\ x.step = "create" /\ EstimateBecomes(d, x.i, None)
                                 /\ Replies(r, "ok") /\ request'[r].answer = d
      BY <1>3, CreateEstimateIs
    <2>2. RequestFits(r)'
      BY <2>1, ReplyFits DEF EstimateBecomes
    <2> QED
      BY <2>1, <2>2, OthersFit DEF Replies
  <1>4. CASE ReplaceLines(r)
    <2>1. /\ x.step = "lines" /\ rate # None
          /\ \/ \E pc \in {"refused", "conflict"} : Replies(r, pc)
             \/ Replies(r, "ok") /\ estimate'[e].rate = rate
      BY <1>4, ReplaceLinesIs DEF EstimateBecomes, OfflineTypeOK, Rates, None
    <2>2. RequestFits(r)'
      BY <2>1, ReplyFits
    <2> QED
      BY <2>1, <2>2, OthersFit DEF Replies
  <1>5. CASE Calculate(r)
    <2>1. x.step = "calculate" /\ (Replies(r, "refused") \/ (Replies(r, "ok") /\ estimate'[e].calculated))
      BY <1>5, CalculateIs
    <2>2. RequestFits(r)'
      BY <2>1, ReplyFits
    <2> QED
      BY <2>1, <2>2, OthersFit DEF Replies
  <1>6. CASE Refuse(r)
    <2>1. Replies(r, "refused")
      BY <1>6, RefuseIs
    <2>2. RequestFits(r)'
      BY <2>1, ReplyFits
    <2> QED
      BY <2>1, <2>2, OthersFit DEF Replies
  <1>7. CASE Vanish(r)
    BY <1>7, VanishIs, FitIs, OthersFit
  <1> QED
    BY <1>1, <1>2, <1>3, <1>4, <1>5, <1>6, <1>7 DEF Serve

LEMMA PageFitsRequests ==
    ASSUME OfflineTypeOK, OfflineTypeOK', Grows, Copies, RequestsFit, LinksFit, NEW p \in Pages,
           Send(p) \/ NextStep(p) \/ Settle(p) \/ Defer(p) \/ ClosePage(p)
    PROVE  RequestsFit'
  <1> DEFINE x == request[page[p].request]  i == x.i
  <1>1. CASE Send(p)
    <2>0. PICK j \in Batch(p), item \in ItemTypes, r \in Requests : Sends(p, j, item, r)
      BY <1>1, SendIs
    <2>1. /\ item.state = "sending" /\ item.current = None /\ item.kind = page[p].batch[j].kind
          /\ item.seen = page[p].batch[j].seen /\ item.want = page[p].batch[j].want /\ item.id = page[p].batch[j].id
          /\ OnlyRequest(r) /\ Fields(request'[r], "sent", p, j, item, StepOf(item))
      BY <2>0 DEF Sends
    <2>2. j \in Items /\ page[p].batch[j].state # None /\ page[p].batch[j] \in ItemTypes
      BY <2>1 DEF Batch, OfflineTypeOK, PageTypes
    <2>3. Kept(page[p].batch[j], j)
      BY <2>2, OldAreKept
    <2>4. Kept(item, j)
      BY <2>1, <2>2, <2>3, MarkedIsKept DEF None
    <2>5. Fits(request'[r]) /\ request'[r].pc # "free"
      BY <2>1, <2>2, <2>4 DEF Fits, Fields, StepOf, None
    <2> QED
      BY <2>1, <2>5, FitIs, OthersFit
  <1>2. CASE NextStep(p)
    <2>1. PICK item \in ItemTypes :
           /\ page[p].request \in Requests /\ i \in Items /\ x.pc = "ok" /\ x.step \in {"create", "lines"}
           /\ Used(page[p].request)
           /\ item.state = x.item.state /\ item.kind = x.item.kind /\ item.seen = x.item.seen
           /\ item.want = x.item.want /\ item.current = x.item.current
           /\ item.id = IF x.step = "create" THEN x.answer ELSE x.item.id
           /\ x.step = "create" => x.answer \in Estimates
           /\ OnlyRequest(page[p].request)
           /\ Fields(request'[page[p].request], "sent", x.page, i, item, IF x.step = "create" THEN "lines" ELSE "calculate")
      BY <1>2, NextStepIs
    <2>2. /\ x.item.state = "sending" /\ x.item.kind = "estimate" /\ x.item.current = None
          /\ x.step = "create" => estimate[x.answer].draft = i
          /\ x.step = "lines" => estimate[x.item.id].rate # None /\ x.item.id # 0
      BY Zenon, <2>1 DEF RequestsFit, RequestFits
    <2>3. x.step = "create" => estimate'[x.answer].draft = i
      BY <2>1, <2>2 DEF Grows, Items
    <2>4. x.step = "lines" => estimate'[item.id].rate # None /\ item.id # 0
      BY <2>1, <2>2, CapAssumption DEF Grows, ItemTypes, Estimates
    <2>5. x.step = "create" => item.id # 0
      BY <2>1 DEF Estimates
    <2>6. Kept(x.item, i)
      BY SMTT(30), <2>1, OldAreKept
    <2>7. Kept(item, i)
      BY Zenon, <2>1, <2>2, <2>3, <2>6 DEF Kept, Empty, None
    <2> DEFINE y == request'[page[p].request]
    <2>8. y.pc = "sent" /\ y.i = i /\ y.item = item /\ y.step = IF x.step = "create" THEN "lines" ELSE "calculate"
      BY SMTT(30), <2>1 DEF Fields
    <2>9. Fits(y)
      BY Zenon, <2>1, <2>2, <2>4, <2>5, <2>7, <2>8 DEF Fits, None
    <2> QED
      BY <2>1, <2>8, <2>9, FitIs, OthersFit
  <1>3. CASE Settle(p)
    <2>1. page[p].request \in Requests /\ OnlyRequest(page[p].request) /\ request'[page[p].request] = NoRequest
      BY <1>3, SettleIs
    <2> QED
      BY <2>1, FitIs, OthersFit
  <1>4. CASE Defer(p)
    <2>1. /\ page[p].request \in Requests /\ Used(page[p].request) /\ OnlyRequest(page[p].request)
          /\ Fields(request'[page[p].request], x.pc, Absent, i, x.item, x.step)
          /\ request'[page[p].request].answer = x.answer
      BY <1>4, DeferIs
    <2> QED
      BY <2>1, SameFits, OthersFit
  <1>5. CASE ClosePage(p)
    <2>1. CASE request' = request
      BY <2>1, SameFits DEF RequestsFit
    <2>2. CASE request' # request
      <3>1. /\ page[p].request \in Requests /\ Used(page[p].request) /\ OnlyRequest(page[p].request)
            /\ Fields(request'[page[p].request], x.pc, Absent, i, x.item, x.step)
            /\ request'[page[p].request].answer = x.answer
        BY <1>5, <2>2, ClosePageIs
      <3> QED
        BY <3>1, SameFits, OthersFit
    <2> QED
      BY <2>1, <2>2
  <1> QED
    BY <1>1, <1>2, <1>3, <1>4, <1>5

LEMMA RequestsNext ==
    ASSUME OfflineTypeOK, OfflineTypeOK', Grows, Copies, RequestsFit, LinksFit, ServerFits, [NextOffline]_ovars
    PROVE  RequestsFit'
  <1>1. CASE request' = request
    BY <1>1, SameFits DEF RequestsFit
  <1>2. ASSUME NEW p \in Pages, OpenPage(p) \/ FetchTasks(p) \/ ShowTasks(p) \/ Prime(p) \/ Write(p) \/ StartSending(p) \/ Tick(p)
        PROVE  request' = request
    BY <1>2 DEF OpenPage, FetchTasks, ShowTasks, Prime, Write, StartSending, Tick
  <1>3. ASSUME NEW p \in Pages, NEW i \in Items, ApplyAnyway(p, i) \/ AdoptRates(p, i) \/ SendNow(p, i) \/ Discard(p, i)
        PROVE  request' = request
    BY <1>3 DEF ApplyAnyway, AdoptRates, SendNow, Discard
  <1>4. OfficeSetsStatus \/ OfficeSetsRate \/ UNCHANGED ovars => request' = request
    BY DEF OfficeSetsStatus, OfficeSetsRate, ovars
  <1> QED
    BY <1>1, <1>2, <1>3, <1>4, PageFitsRequests, ServerFitsRequests DEF NextOffline, Loop

\* Only an open page does anything.
LEMMA OpenIs ==
    ASSUME ShutFits, NEW p \in Pages, Batch(p) # {} \/ Shown(p) # {} \/ page[p].request # Absent
    PROVE  page[p].open
  <1> SUFFICES ASSUME ~page[p].open PROVE FALSE
    OBVIOUS
  <1>1. page[p].batch = [i \in Items |-> NoItem] /\ page[p].list = [i \in Items |-> NoItem] /\ page[p].request = Absent
    BY BlankIsTyped DEF ShutFits
  <1> QED
    BY <1>1, BlankIsTyped DEF Batch, Shown

LEMMA ShutNext ==
    ASSUME OfflineTypeOK, OfflineTypeOK', Copies, RequestsFit, LinksFit, ShutFits, [NextOffline]_ovars
    PROVE  ShutFits'
  <1>1. CASE page' = page
    BY <1>1 DEF ShutFits
  <1>2. ASSUME NEW p \in Pages, OnlyPage(p), page'[p].open \/ page'[p] = Closed
        PROVE  ShutFits'
    BY <1>2 DEF ShutFits, OnlyPage
  <1>3. ASSUME NEW p \in Pages, OpenPage(p) \/ FetchTasks(p) \/ ShowTasks(p) \/ Prime(p) \/ Write(p) \/ Loop(p) \/ Defer(p) \/ ClosePage(p)
        PROVE  ShutFits'
    <2>1. CASE OpenPage(p)
      BY <2>1, OpenPageIs, <1>2
    <2>2. CASE FetchTasks(p) \/ ShowTasks(p)
      <3>1. page[p].open
        BY <2>2, BlankIsTyped DEF FetchTasks, ShowTasks, ShutFits
      <3> QED
        BY <2>2, <3>1, FetchTasksIs, ShowTasksIs, <1>2
    <2>3. CASE Prime(p)
      BY <2>3, <1>1 DEF Prime
    <2>4. CASE Write(p)
      BY <2>4, WriteIs, <1>2
    <2>5. CASE StartSending(p) \/ Tick(p)
      <3>1. page[p].open
        BY <2>5, OpenIs DEF StartSending, Tick, Waiting
      <3> QED
        BY <2>5, <3>1, StartSendingIs, TickIs, <1>2
    <2>6. CASE Send(p)
      <3>1. page[p].open
        BY <2>6, OpenIs DEF Send
      <3> QED
        BY <2>6, <3>1, SendIs, <1>2 DEF Sends
    <2>7. CASE NextStep(p) \/ Settle(p) \/ Defer(p)
      <3>1. page[p].open
        BY Zenon, <2>7, OpenIs DEF NextStep, Settle, Replied, Defer
      <3> QED
        BY <2>7, <3>1, NextStepIs, SettleIs, DeferIs, <1>2 DEF LoopGoesOn
    <2>8. CASE ClosePage(p)
      BY <2>8, ClosePageIs, <1>2
    <2> QED
      BY <1>3, <2>1, <2>2, <2>3, <2>4, <2>5, <2>6, <2>7, <2>8 DEF Loop
  <1>4. ASSUME NEW p \in Pages, NEW i \in Items, ApplyAnyway(p, i) \/ AdoptRates(p, i) \/ SendNow(p, i) \/ Discard(p, i)
        PROVE  ShutFits'
    <2>1. page[p].open
      BY <1>4, OpenIs DEF ApplyAnyway, AdoptRates, SendNow, Discard, Parked
    <2>2. OnlyPage(p) /\ page'[p].open = page[p].open
      <3>1. CASE ApplyAnyway(p, i)
        BY <3>1, ApplyAnywayIs DEF PutsBack
      <3>2. CASE AdoptRates(p, i)
        BY <3>2, AdoptRatesIs DEF PutsBack
      <3>3. CASE SendNow(p, i)
        BY <3>3, SendNowIs
      <3>4. CASE Discard(p, i)
        BY <3>4, DiscardIs
      <3> QED
        BY <1>4, <3>1, <3>2, <3>3, <3>4
    <2> QED
      BY <2>1, <2>2, <1>2
  <1>5. ASSUME NEW r \in Requests, Serve(r) \/ Refuse(r) \/ Vanish(r)
        PROVE  ShutFits'
    BY <1>5, <1>1 DEF Serve, Check, Commit, CreateEstimate, ReplaceLines, Calculate, Refuse, Vanish
  <1>6. OfficeSetsStatus \/ OfficeSetsRate \/ UNCHANGED ovars => ShutFits'
    BY <1>1 DEF OfficeSetsStatus, OfficeSetsRate, ovars
  <1> QED
    BY <1>3, <1>4, <1>5, <1>6 DEF NextOffline

LEMMA LinksNext ==
    ASSUME OfflineTypeOK, OfflineTypeOK', Copies, RequestsFit, LinksFit, ShutFits, [NextOffline]_ovars
    PROVE  LinksFit'
  <1>1. page' \in [Pages -> PageTypes] /\ page \in [Pages -> PageTypes]
    BY DEF OfflineTypeOK
  <1>2. CASE UNCHANGED <<page, request>>
    BY <1>2 DEF LinksFit, Used
  \* A step of one page that makes and ends no call.
  <1>3. ASSUME NEW p \in Pages, OnlyPage(p), request' = request, page'[p].open \/ page'[p].open = page[p].open,
               page'[p].request = page[p].request
        PROVE  LinksFit'
    BY <1>3 DEF LinksFit, Used, OnlyPage
  \* A step of a page and the call it waits for.
  <1>4. ASSUME NEW p \in Pages, page[p].request # Absent, OnlyPage(p), OnlyRequest(page[p].request),
               page'[p].request = Absent
        PROVE  LinksFit'
    <2>1. ASSUME NEW q \in Pages, page'[q].request # Absent
          PROVE  page'[q].open /\ Used(page[q].request)' /\ request'[page'[q].request].page = q
      <3>1. q # p /\ page'[q] = page[q]
        BY <1>4, <2>1 DEF OnlyPage
      <3>2. page[q].open /\ Used(page[q].request) /\ request[page[q].request].page = q
        BY <2>1, <3>1 DEF LinksFit
      <3>3. page[q].request # page[p].request /\ page[q].request \in Requests
        BY <1>4, <2>1, <3>1, <3>2, AwaitedIs
      <3>4. request'[page[q].request] = request[page[q].request]
        BY <1>4, <3>3 DEF OnlyRequest
      <3> QED
        BY <3>1, <3>2, <3>4 DEF Used
    <2> QED
      BY <2>1 DEF LinksFit
  <1>5. ASSUME NEW r \in Requests, NEW pc, Replies(r, pc), page' = page
        PROVE  LinksFit'
    <2>1. \A s \in Requests : request'[s].page = request[s].page /\ (Used(s) => request'[s].pc # "free")
      BY <1>5 DEF Replies, Fields, OnlyRequest, Used
    <2>2. \A q \in Pages : page[q].request # Absent => page[q].request \in Requests
      BY AwaitedIs
    <2> QED
      BY <1>5, <2>1, <2>2 DEF LinksFit, Used
  <1>6. ASSUME NEW p \in Pages, Send(p)
        PROVE  LinksFit'
    <2>0. PICK r \in Requests, i \in Batch(p), item \in ItemTypes : Sends(p, i, item, r)
      BY <1>6, SendIs
    <2>1. /\ i \in Items
          /\ request[r] = NoRequest /\ OnlyRequest(r) /\ Fields(request'[r], "sent", p, i, item, StepOf(item))
          /\ OnlyPage(p) /\ page'[p].open = page[p].open /\ page'[p].request = r
      BY <2>0 DEF Sends, Batch
    <2>2. page[p].open
      BY <1>6, OpenIs DEF Send
    <2>3. ASSUME NEW q \in Pages \ {p}, page'[q].request # Absent
          PROVE  page'[q].open /\ Used(page[q].request)' /\ request'[page'[q].request].page = q
      <3>1. page'[q] = page[q]
        BY <2>1 DEF OnlyPage
      <3>2. page[q].open /\ Used(page[q].request) /\ request[page[q].request].page = q /\ page[q].request \in Requests
        BY <2>3, <3>1, AwaitedIs DEF LinksFit
      <3>3. page[q].request # r
        BY <2>1, <3>2, BlankIsTyped DEF Used
      <3> QED
        BY <2>1, <3>1, <3>2, <3>3 DEF Used, OnlyRequest
    <2>4. page'[p].open /\ Used(page[p].request)' /\ request'[page'[p].request].page = p
      BY <2>1, <2>2 DEF Fields, Used
    <2> QED
      BY <2>3, <2>4 DEF LinksFit
  <1>7. ASSUME NEW p \in Pages, NextStep(p)
        PROVE  LinksFit'
    <2> DEFINE r == page[p].request
    <2>1. PICK i \in Items, item \in ItemTypes, step \in {"lines", "calculate"} :
           /\ r \in Requests /\ Used(r) /\ OnlyRequest(r) /\ Fields(request'[r], "sent", request[r].page, i, item, step)
           /\ OnlyPage(p) /\ page'[p].open = page[p].open /\ page'[p].request = r
      BY <1>7, NextStepIs
    <2>2. \A s \in Requests : request'[s].page = request[s].page /\ (Used(s) => request'[s].pc # "free")
      BY <2>1 DEF Fields, OnlyRequest, Used
    <2>3. \A q \in Pages : page[q].request # Absent => page[q].request \in Requests
      BY AwaitedIs
    <2>4. \A q \in Pages : page'[q].open = page[q].open /\ page'[q].request = page[q].request
      BY <2>1 DEF OnlyPage
    <2> QED
      BY <2>2, <2>3, <2>4 DEF LinksFit, Used
  <1>8. ASSUME NEW p \in Pages, Settle(p) \/ Defer(p) \/ ClosePage(p)
        PROVE  LinksFit'
    <2>1. CASE Settle(p) \/ Defer(p)
      <3>1. page[p].request # Absent
        BY Zenon, <2>1 DEF Settle, Replied, Defer
      <3>2. OnlyPage(p) /\ page'[p].request = Absent /\ OnlyRequest(page[p].request)
        BY <2>1, SettleIs, DeferIs DEF LoopGoesOn
      <3> QED
        BY SMTT(30), <3>1, <3>2, <1>4
    <2>2. CASE ClosePage(p)
      <3>1. OnlyPage(p) /\ page'[p].request = Absent
        BY <2>2, ClosePageIs, BlankIsTyped
      <3>2. CASE page[p].request = Absent
        <4>1. request' = request
          BY <2>2, <3>2, ClosePageIs, AbsentAssumption
        <4> QED
          BY <3>1, <4>1 DEF LinksFit, OnlyPage, Used
      <3>3. CASE page[p].request # Absent
        <4>1. OnlyRequest(page[p].request)
          BY <2>2, <3>3, ClosePageIs
        <4> QED
          BY <3>1, <3>3, <4>1, <1>4
      <3> QED
        BY <3>2, <3>3
    <2> QED
      BY <1>8, <2>1, <2>2
  <1>9. ASSUME NEW p \in Pages, OpenPage(p) \/ FetchTasks(p) \/ ShowTasks(p) \/ Prime(p) \/ Write(p) \/ StartSending(p) \/ Tick(p)
        PROVE  LinksFit'
    <2>1. request' = request
      BY <1>9 DEF OpenPage, FetchTasks, ShowTasks, Prime, Write, StartSending, Tick
    <2>2. CASE Prime(p)
      BY <2>1, <2>2, <1>2 DEF Prime
    <2>3. CASE OpenPage(p)
      <3>1. page[p].request = Absent
        BY <2>3 DEF OpenPage, LinksFit
      <3> QED
        BY <2>1, <2>3, <3>1, OpenPageIs, <1>3
    <2>4. CASE FetchTasks(p) \/ ShowTasks(p) \/ Write(p) \/ StartSending(p) \/ Tick(p)
      BY <2>1, <2>4, FetchTasksIs, ShowTasksIs, WriteIs, StartSendingIs, TickIs, <1>3
    <2> QED
      BY <1>9, <2>2, <2>3, <2>4
  <1>10. ASSUME NEW p \in Pages, NEW i \in Items, ApplyAnyway(p, i) \/ AdoptRates(p, i) \/ SendNow(p, i) \/ Discard(p, i)
         PROVE  LinksFit'
    <2>1. request' = request
      BY <1>10 DEF ApplyAnyway, AdoptRates, SendNow, Discard
    <2>2. OnlyPage(p) /\ page'[p].open = page[p].open /\ page'[p].request = page[p].request
      <3>1. CASE ApplyAnyway(p, i) \/ AdoptRates(p, i)
        BY <3>1, ApplyAnywayIs, AdoptRatesIs DEF PutsBack
      <3>2. CASE SendNow(p, i)
        BY <3>2, SendNowIs
      <3>3. CASE Discard(p, i)
        BY <3>3, DiscardIs
      <3> QED
        BY <1>10, <3>1, <3>2, <3>3
    <2> QED
      BY <2>1, <2>2, <1>3
  <1>11. ASSUME NEW r \in Requests, Serve(r) \/ Refuse(r) \/ Vanish(r)
         PROVE  LinksFit'
    <2>1. page' = page
      BY <1>11 DEF Serve, Check, Commit, CreateEstimate, ReplaceLines, Calculate, Refuse, Vanish
    <2>2. CASE Serve(r) \/ Refuse(r)
      <3>1. \E pc \in {"sent", "checked", "ok", "conflict", "refused"} : Replies(r, pc)
        BY <2>2, CheckIs, CommitIs, CreateEstimateIs, ReplaceLinesIs, CalculateIs, RefuseIs DEF Serve
      <3> QED
        BY <2>1, <3>1, <1>5
    <2>3. CASE Vanish(r)
      <3>1. OnlyRequest(r) /\ request[r].page = Absent
        BY <2>3, VanishIs
      <3>2. \A q \in Pages : page[q].request # Absent =>
                page[q].request \in Requests /\ page[q].request # r
        BY <3>1, AwaitedIs, AbsentAssumption
      <3> QED
        BY <2>1, <3>1, <3>2 DEF LinksFit, Used, OnlyRequest
    <2> QED
      BY <1>11, <2>2, <2>3
  <1>12. OfficeSetsStatus \/ OfficeSetsRate \/ UNCHANGED ovars => LinksFit'
    BY <1>2 DEF OfficeSetsStatus, OfficeSetsRate, ovars
  <1> QED
    BY <1>6, <1>7, <1>8, <1>9, <1>10, <1>11, <1>12 DEF NextOffline, Loop

-----------------------------------------------------------------------------
(* The rows of the server, and what is left on the device.                 *)

LEMMA ServerNext ==
    ASSUME OfflineTypeOK, OfflineTypeOK', Grows, Copies, RequestsFit, LinksFit, ServerFits, [NextOffline]_ovars
    PROVE  ServerFits'
  <1>1. /\ \A i \in Items : logs[i] <= 1 /\ (logs[i] > 0 => i \in settled.applied)
        /\ \A e \in Estimates :
              /\ estimate[e].draft = 0 => estimate[e].rate = None
              /\ estimate[e].draft # 0 => screen = "capture" /\ estimate[e].draft <= written
              /\ estimate[e].rate # None => <<estimate[e].draft, estimate[e].rate>> \in agreed
    BY DEF ServerFits
  <1>2. /\ written \in Nat /\ written' \in Nat /\ written <= written' /\ screen' = screen
        /\ settled.applied \subseteq settled'.applied /\ agreed \subseteq agreed'
        /\ \A e \in Estimates : estimate[e].draft \in Nat
    BY CapAssumption DEF OfflineTypeOK, Grows, EstimateTypes
  <1> DEFINE LogsFit == \A i \in Items : logs'[i] <= 1 /\ (logs'[i] > 0 => i \in settled'.applied)
             RowFits(e) == /\ estimate'[e].draft = 0 => estimate'[e].rate = None
                           /\ estimate'[e].draft # 0 => screen' = "capture" /\ estimate'[e].draft <= written'
                           /\ estimate'[e].rate # None => <<estimate'[e].draft, estimate'[e].rate>> \in agreed'
  <1>3. LogsFit /\ (\A e \in Estimates : RowFits(e)) => ServerFits'
    BY DEF ServerFits
  <1>4. logs' = logs => LogsFit
    BY <1>1, <1>2
  <1>5. \A e \in Estimates : estimate'[e].draft = estimate[e].draft /\ estimate'[e].rate = estimate[e].rate => RowFits(e)
    BY <1>1, <1>2
  <1>6. \A e \in Estimates : EstimateBecomes(e, estimate[e].draft, estimate[e].rate) => \A d \in Estimates : RowFits(d)
    BY Zenon, <1>5 DEF EstimateBecomes
  <1>7. ASSUME NEW e \in Estimates, NEW draft, NEW itsRate, EstimateBecomes(e, draft, itsRate), RowFits(e)
        PROVE  \A d \in Estimates : RowFits(d)
    BY Zenon, <1>5, <1>7 DEF EstimateBecomes
  <1> HIDE DEF LogsFit
  <1>8. CASE Still
    <2>1. LogsFit
      BY <1>8, <1>4 DEF Still
    <2>2. \A e \in Estimates : RowFits(e)
      BY <1>8, <1>5 DEF Still
    <2> QED
      BY <2>1, <2>2, <1>3
  <1>9. ASSUME NEW r \in Requests, Serve(r) \/ Refuse(r) \/ Vanish(r)
        PROVE  ServerFits'
    <2> DEFINE x == request[r]
    <2>1. /\ x.item.kind = "estimate" /\ Used(r) => /\ screen = "capture" /\ x.i <= written /\ x.i \in Items
                                                    /\ <<x.i, x.item.seen>> \in agreed
                                                    /\ x.item.id # 0 => estimate[x.item.id].draft = x.i
      BY DEF RequestsFit, RequestFits, Copy, ScreenOf, None
    <2>2. CASE Check(r) \/ Refuse(r) \/ Vanish(r)
      BY <2>2, <1>8 DEF Check, Refuse, Vanish, Still, server, history
    <2>3. CASE Commit(r)
      <3>1. estimate' = estimate
        BY <2>3 DEF Commit
      <3>2. CASE logs' = logs
        <4>1. \A e \in Estimates : RowFits(e)
          BY <3>1, <1>5
        <4> QED
          BY <3>2, <4>1, <1>3, <1>4
      <3>3. CASE logs' # logs
        <4>1. /\ x.i \in Items /\ ~(logs[x.i] > 0) /\ logs' = [logs EXCEPT ![x.i] = @ + 1]
              /\ settled' = [settled EXCEPT !.applied = @ \cup {x.i}]
          BY <2>3, <3>3, CommitIs
        <4>2. logs \in [Items -> Nat] /\ x.i \in settled'.applied
          BY <4>1 DEF OfflineTypeOK
        <4>3. \A i \in Items : logs'[i] = IF i = x.i THEN logs[i] + 1 ELSE logs[i]
          BY <4>1, <4>2
        <4>4. logs[x.i] = 0
          BY <4>1, <4>2
        <4>5. LogsFit
          BY <1>1, <1>2, <4>2, <4>3, <4>4 DEF LogsFit
        <4>6. \A e \in Estimates : RowFits(e)
          BY <3>1, <1>5
        <4> QED
          BY <4>5, <4>6, <1>3
      <3> QED
        BY <3>2, <3>3
    <2>4. CASE CreateEstimate(r)
      <3>1. PICK e \in Estimates : Used(r) /\ x.item.kind = "estimate" /\ EstimateBecomes(e, x.i, None)
        BY <2>4, CreateEstimateIs
      <3>2. estimate'[e].draft = x.i /\ estimate'[e].rate = None
        BY <3>1 DEF EstimateBecomes
      <3>3. RowFits(e)
        BY <1>2, <2>1, <3>1, <3>2 DEF Items
      <3>4. LogsFit
        BY <2>4, <1>4 DEF CreateEstimate
      <3> QED
        BY <3>1, <3>3, <3>4, <1>3, <1>7
    <2>5. CASE ReplaceLines(r)
      <3>1. LogsFit
        BY <2>5, <1>4 DEF ReplaceLines
      <3>2. CASE estimate' = estimate
        <4>1. \A e \in Estimates : RowFits(e)
          BY <3>2, <1>5
        <4> QED
          BY <3>1, <4>1, <1>3
      <3>3. CASE estimate' # estimate
        <4> DEFINE e == x.item.id
        <4>1. /\ Used(r) /\ x.item.kind = "estimate" /\ e \in Estimates /\ rate = x.item.seen
              /\ EstimateBecomes(e, estimate[e].draft, rate)
          BY <2>5, <3>3, ReplaceLinesIs
        <4>2. estimate'[e].draft = estimate[e].draft /\ estimate'[e].rate = rate /\ estimate[e].draft = x.i
          BY <2>1, <4>1 DEF EstimateBecomes, Estimates
        <4>3. RowFits(e)
          BY <1>1, <1>2, <2>1, <4>1, <4>2 DEF Items
        <4> QED
          BY <3>1, <4>1, <4>3, <1>3, <1>7
      <3> QED
        BY <3>2, <3>3
    <2>6. CASE Calculate(r)
      <3>1. LogsFit
        BY <2>6, <1>4 DEF Calculate
      <3>2. \A e \in Estimates : RowFits(e)
        BY Zenon, <2>6, CalculateIs, <1>5, <1>6
      <3> QED
        BY <3>1, <3>2, <1>3
    <2> QED
      BY <1>9, <2>2, <2>3, <2>4, <2>5, <2>6 DEF Serve
  <1>10. ASSUME NEW p \in Pages, NEW i \in Items, ApplyAnyway(p, i) \/ AdoptRates(p, i) \/ SendNow(p, i) \/ Discard(p, i)
         PROVE  ServerFits'
    <2>1. CASE ApplyAnyway(p, i) \/ AdoptRates(p, i) \/ SendNow(p, i)
      BY <2>1, <1>8 DEF ApplyAnyway, AdoptRates, SendNow, Still, server, history
    <2>2. CASE Discard(p, i)
      <3>1. LogsFit
        BY <2>2, <1>4 DEF Discard
      <3>2. \A e \in Estimates : RowFits(e)
        BY Zenon, <2>2, DiscardIs, <1>5, <1>6
      <3> QED
        BY <3>1, <3>2, <1>3
    <2> QED
      BY <1>10, <2>1, <2>2
  <1>11. OfficeSetsStatus \/ OfficeSetsRate \/ UNCHANGED ovars => Still
    BY DEF OfficeSetsStatus, OfficeSetsRate, ovars, server, history, Still
  <1> QED
    BY <1>8, <1>9, <1>10, <1>11, GrowsByPage DEF NextOffline

\* What is complete stays so.
LEMMA CompleteStays ==
    ASSUME OfflineTypeOK, OfflineTypeOK', Grows, ServerFits', NEW i \in Items, NEW e \in Estimates,
           estimate[e].draft = i, estimate[e].calculated, estimate[e].rate # None
    PROVE  Complete(i)'
  <1>1. estimate'[e].draft = i /\ estimate'[e].calculated /\ estimate'[e].rate # None
    BY DEF Grows, Items
  <1>2. <<i, estimate'[e].rate>> \in agreed'
    BY <1>1 DEF ServerFits
  <1> QED
    BY <1>1, <1>2 DEF Complete

\* The last answer of a chain of calls means that the estimate is complete.
LEMMA FinishedIs ==
    ASSUME OfflineTypeOK, OfflineTypeOK', Grows, RequestsFit, ServerFits', NEW r \in Requests, Used(r),
           request[r].pc = "ok", request[r].step = "calculate", NEW i \in Items, request[r].i = i
    PROVE  Complete(i)'
  <1> DEFINE item == request[r].item  e == item.id
  <1>1. /\ e # 0 /\ item.kind = "estimate" /\ item.state # None /\ Copy(item, i) /\ i \in Items
        /\ estimate[e].rate # None /\ estimate[e].calculated
    BY DEF RequestsFit, RequestFits, None
  <1>2. e # 0 => e \in Estimates
    <2>1. request[r] \in RequestTypes(request[r].answer)
      BY DEF OfflineTypeOK
    <2>2. e \in 0 .. 2 * MaxItems
      BY <2>1 DEF RequestTypes, ItemTypes
    <2> QED
      BY <2>2, CapAssumption DEF Estimates
  <1>3. estimate[e].draft = i
    BY <1>1 DEF Copy
  <1> HIDE DEF item, e
  <1> QED
    BY <1>1, <1>2, <1>3, CompleteStays

LEMMA LostNext ==
    ASSUME OfflineTypeOK, OfflineTypeOK', Grows, Copies, RequestsFit, LinksFit, ServerFits, ServerFits', NothingLost,
           [NextOffline]_ovars
    PROVE  NothingLost'
  <1> DEFINE Held(i) == store'[i].state # None \/ i \in settled'.discarded \/ i \in settled'.applied \/ Complete(i)'
  <1>1. ASSUME NEW i \in Items, i <= written, store[i].state # None => Held(i)
        PROVE  Held(i)
    <2>1. store[i].state # None \/ i \in settled.discarded \/ i \in settled.applied \/ Complete(i)
      BY <1>1 DEF NothingLost, Items
    <2>2. i \in settled.discarded => i \in settled'.discarded
      BY DEF Grows
    <2>3. i \in settled.applied => i \in settled'.applied
      BY DEF Grows
    <2>4. CASE Complete(i)
      <3>1. PICK e \in Estimates : estimate[e].draft = i /\ estimate[e].calculated /\ <<i, estimate[e].rate>> \in agreed
        BY <2>4 DEF Complete
      <3>2. estimate[e].rate # None
        BY <3>1 DEF OfflineTypeOK, Rates, None
      <3> QED
        BY <3>1, <3>2, CompleteStays
    <2> QED
      BY <1>1, <2>1, <2>2, <2>3, <2>4
  <1>2. \A i \in 1 .. written' : i \in Items
    BY CapAssumption DEF OfflineTypeOK, Items
  <1>3. ASSUME written' = written, \A i \in Items : store[i].state # None => Held(i)
        PROVE  NothingLost'
    <2>1. \A i \in 1 .. written' : Held(i)
      BY <1>1, <1>2, <1>3 DEF OfflineTypeOK
    <2> QED
      BY <2>1 DEF NothingLost
  <1>4. CASE store' = store /\ written' = written
    BY <1>3, <1>4
  <1>5. ASSUME NEW i \in Items, OnlyItem(i), Held(i), written' = written
        PROVE  NothingLost'
    <2>1. \A j \in Items : store[j].state # None => Held(j)
      BY <1>5 DEF OnlyItem
    <2> QED
      BY <1>3, <1>5, <2>1
  <1>6. ASSUME NEW p \in Pages, Write(p)
        PROVE  NothingLost'
    <2>1. PICK n \in Items : n = written + 1 /\ store'[n].state # None /\ OnlyItem(n)
      BY <1>6, WriteIs DEF None
    <2>2. written' = written + 1
      BY <1>6 DEF Write
    <2>3. ASSUME NEW i \in 1 .. written' PROVE Held(i)
      <3>1. i \in Items
        BY <1>2
      <3>2. CASE i = n
        BY <2>1, <3>2
      <3>3. CASE i # n
        <4>1. i <= written /\ store'[i] = store[i]
          BY <2>1, <2>2, <3>1, <3>3 DEF OnlyItem, OfflineTypeOK
        <4> QED
          BY <3>1, <4>1, <1>1
      <3> QED
        BY <3>2, <3>3
    <2> QED
      BY <2>3 DEF NothingLost
  <1>7. ASSUME NEW p \in Pages, Send(p)
        PROVE  NothingLost'
    <2>0. PICK i \in Batch(p), item \in ItemTypes, r \in Requests : Sends(p, i, item, r)
      BY <1>7, SendIs
    <2>1. /\ item.state = "sending"
          /\ OnlyItem(i) /\ store'[i] = item
      BY <2>0 DEF Sends
    <2>2. i \in Items /\ written' = written
      BY Zenon, <1>7 DEF Batch, Send
    <2>3. Held(i)
      BY <2>1 DEF None
    <2> QED
      BY <2>1, <2>2, <2>3, <1>5
  <1>8. ASSUME NEW p \in Pages, NextStep(p)
        PROVE  NothingLost'
    <2> DEFINE x == request[page[p].request]
    <2>1. PICK item \in ItemTypes : /\ x.i \in Items /\ Used(page[p].request) /\ page[p].request \in Requests
                                    /\ item.state = x.item.state
                                    /\ OnlyItem(x.i) /\ store'[x.i] = IF x.step = "create" THEN item ELSE store[x.i]
      BY <1>8, NextStepIs
    <2>2. x.item.state = "sending"
      BY <2>1 DEF RequestsFit, RequestFits
    <2>3. \A j \in Items : store[j].state # None => store'[j].state # None
      BY SMTT(30), <2>1, <2>2 DEF OnlyItem, None
    <2>4. written' = written
      BY Zenon, <1>8 DEF NextStep, history
    <2> QED
      BY <2>3, <2>4, <1>3
  <1>9. ASSUME NEW p \in Pages, Settle(p)
        PROVE  NothingLost'
    <2> DEFINE x == request[page[p].request]
    <2>1. PICK item \in ItemTypes, i \in Items :
           /\ page[p].request \in Requests /\ i = x.i /\ Used(page[p].request)
           /\ x.pc = "ok" => x.step \in {"write", "calculate"}
           /\ item.state = "needs_attention"
           /\ OnlyItem(i) /\ store'[i] = IF x.pc = "ok" THEN NoItem ELSE item
      BY SMTT(30), <1>9, SettleIs
    <2>2. written' = written
      BY <1>9 DEF Settle, history
    <2>3. CASE x.pc # "ok"
      BY <2>1, <2>2, <2>3, <1>5 DEF None
    <2>4. CASE x.pc = "ok" /\ x.step = "write"
      <3>1. i \in settled.applied
        BY <2>1, <2>4 DEF RequestsFit, RequestFits
      <3>2. i \in settled'.applied
        BY <3>1 DEF Grows
      <3> QED
        BY <2>1, <2>2, <3>2, <1>5
    <2>5. CASE x.pc = "ok" /\ x.step = "calculate"
      <3>1. Complete(i)'
        BY <2>1, <2>5, FinishedIs
      <3>2. Held(i)
        BY <3>1
      <3> HIDE DEF Held, x
      <3> QED
        BY <2>1, <2>2, <3>2, <1>5
    <2> QED
      BY <2>1, <2>3, <2>4, <2>5
  <1>10. ASSUME NEW p \in Pages, Defer(p)
         PROVE  NothingLost'
    <2>1. PICK i \in Items : OnlyItem(i) /\ store'[i].state = "queued"
      BY <1>10, DeferIs
    <2> QED
      BY <1>10, <2>1, <1>5 DEF Defer, None
  <1>11. ASSUME NEW p \in Pages, OpenPage(p) \/ FetchTasks(p) \/ ShowTasks(p) \/ Prime(p) \/ StartSending(p) \/ Tick(p) \/ ClosePage(p)
         PROVE  store' = store /\ written' = written
    BY <1>11 DEF OpenPage, FetchTasks, ShowTasks, Prime, StartSending, Tick, ClosePage, history
  <1>12. ASSUME NEW p \in Pages, NEW i \in Items, ApplyAnyway(p, i) \/ AdoptRates(p, i) \/ SendNow(p, i) \/ Discard(p, i)
         PROVE  NothingLost'
    <2>1. CASE ApplyAnyway(p, i) \/ AdoptRates(p, i)
      <3>1. OnlyItem(i) /\ store'[i].state = "queued"
        BY <2>1, ApplyAnywayIs, AdoptRatesIs DEF PutsBack
      <3> QED
        BY <2>1, <3>1, <1>5 DEF ApplyAnyway, AdoptRates, history, None
    <2>2. CASE SendNow(p, i)
      BY <2>2, <1>4 DEF SendNow
    <2>3. CASE Discard(p, i)
      <3>1. OnlyItem(i)
        BY <2>3, DiscardIs
      <3>2. i \in settled'.discarded /\ written' = written
        BY <2>3 DEF Discard, OfflineTypeOK
      <3> QED
        BY <3>1, <3>2, <1>5
    <2> QED
      BY <1>12, <2>1, <2>2, <2>3
  <1>13. ASSUME NEW r \in Requests, Serve(r) \/ Refuse(r) \/ Vanish(r)
         PROVE  store' = store /\ written' = written
    BY <1>13 DEF Serve, Check, Commit, CreateEstimate, ReplaceLines, Calculate, Refuse, Vanish, history
  <1>14. OfficeSetsStatus \/ OfficeSetsRate \/ UNCHANGED ovars => store' = store /\ written' = written
    BY DEF OfficeSetsStatus, OfficeSetsRate, ovars, history
  <1> QED
    BY <1>4, <1>6, <1>7, <1>8, <1>9, <1>10, <1>11, <1>12, <1>13, <1>14 DEF NextOffline, Loop

-----------------------------------------------------------------------------
(* One call for each item, one estimate for each draft.                    *)

\* No call is made in this step; one to create goes on for its page, or is known to be cut off.
NoNewCall ==
    \A r \in Requests : request'[r] = NoRequest \/
        /\ Used(r) /\ request'[r].i = request[r].i
        /\ request'[r].step = "create" =>
              /\ request[r].step = "create" /\ (request'[r].page = request[r].page \/ "cut" \in crossed')
              /\ request'[r].pc # "ok" => request[r].pc # "ok"

LEMMA AnsweredIs ==
    ASSUME OfflineTypeOK, RequestsFit, NEW r \in Requests, Serve(r) \/ Refuse(r)
    PROVE  request[r].pc \in {"sent", "checked"} /\ \E pc \in {"checked", "ok", "conflict", "refused"} : Replies(r, pc)
  <1>1. CASE Check(r)
    BY <1>1, CheckIs
  <1>2. CASE Commit(r)
    BY <1>2, CommitIs
  <1>3. CASE CreateEstimate(r)
    BY <1>3, CreateEstimateIs
  <1>4. CASE ReplaceLines(r)
    BY <1>4, ReplaceLinesIs
  <1>5. CASE Calculate(r)
    BY <1>5, CalculateIs
  <1>6. CASE Refuse(r)
    BY <1>6, RefuseIs
  <1> QED
    BY <1>1, <1>2, <1>3, <1>4, <1>5, <1>6 DEF Serve

\* What becomes of the calls of a page, and of one at the server.
LEMMA PageGoesOn ==
    ASSUME OfflineTypeOK, LinksFit, RequestsFit, NEW p \in Pages, NextStep(p) \/ Settle(p) \/ Defer(p) \/ ClosePage(p)
    PROVE  NoNewCall
  <1> DEFINE x == request[page[p].request]
  <1>1. \A s \in Requests : request'[s] = request[s] =>
            request'[s] = NoRequest \/ /\ Used(s) /\ request'[s].i = request[s].i
                                       /\ request'[s].step = request[s].step /\ request'[s].page = request[s].page
                                       /\ request'[s].pc = request[s].pc
    BY DEF RequestsFit, RequestFits
  <1>2. CASE NextStep(p)
    <2>1. PICK item \in ItemTypes, step \in {"lines", "calculate"} :
           /\ page[p].request \in Requests /\ Used(page[p].request)
           /\ OnlyRequest(page[p].request)
           /\ Fields(request'[page[p].request], "sent", x.page, x.i, item, step)
      BY <1>2, NextStepIs
    <2> QED
      BY <1>1, <2>1 DEF NoNewCall, Fields, OnlyRequest
  <1>3. CASE Settle(p)
    <2>1. page[p].request \in Requests /\ OnlyRequest(page[p].request) /\ request'[page[p].request] = NoRequest
      BY <1>3, SettleIs
    <2> QED
      BY <1>1, <2>1 DEF NoNewCall, OnlyRequest
  <1>4. CASE Defer(p)
    <2>1. /\ page[p].request \in Requests /\ Used(page[p].request) /\ OnlyRequest(page[p].request)
          /\ Fields(request'[page[p].request], x.pc, Absent, x.i, x.item, x.step)
          /\ crossed' = IF x.step = "create" THEN crossed \cup {"cut"} ELSE crossed
      BY <1>4, DeferIs
    <2> QED
      BY <1>1, <2>1 DEF NoNewCall, Fields, OnlyRequest
  <1>5. CASE ClosePage(p)
    <2>1. CASE request' = request
      BY <1>1, <2>1 DEF NoNewCall
    <2>2. CASE request' # request
      <3>1. /\ page[p].request \in Requests /\ Used(page[p].request) /\ OnlyRequest(page[p].request)
            /\ Fields(request'[page[p].request], x.pc, Absent, x.i, x.item, x.step)
            /\ crossed' = IF x.step = "create" THEN crossed \cup {"cut"} ELSE crossed
        BY <1>5, <2>2, ClosePageIs
      <3> QED
        BY <1>1, <3>1 DEF NoNewCall, Fields, OnlyRequest
    <2> QED
      BY <2>1, <2>2
  <1> QED
    BY <1>2, <1>3, <1>4, <1>5

LEMMA GoesOn ==
    ASSUME OfflineTypeOK, LinksFit, RequestsFit, [NextOffline]_ovars
    PROVE  NoNewCall \/ \E p \in Pages : Send(p)
  <1>1. \A s \in Requests : request'[s] = request[s] =>
            request'[s] = NoRequest \/ /\ Used(s) /\ request'[s].i = request[s].i
                                       /\ request'[s].step = request[s].step /\ request'[s].page = request[s].page
                                       /\ request'[s].pc = request[s].pc
    BY DEF RequestsFit, RequestFits
  <1>2. CASE request' = request
    BY <1>1, <1>2 DEF NoNewCall
  <1>3. ASSUME NEW r \in Requests, Serve(r) \/ Refuse(r) \/ Vanish(r)
        PROVE  NoNewCall
    <2>1. CASE Vanish(r)
      <3>1. OnlyRequest(r) /\ request'[r] = NoRequest
        BY <2>1, VanishIs
      <3> QED
        BY <1>1, <3>1 DEF NoNewCall, OnlyRequest
    <2>2. CASE Serve(r) \/ Refuse(r)
      <3>1. request[r].pc # "ok"
        BY <2>2, AnsweredIs
      <3>2. /\ OnlyRequest(r) /\ Used(r) /\ request'[r].i = request[r].i /\ request'[r].step = request[r].step
            /\ request'[r].page = request[r].page
        BY <2>2, AnsweredIs DEF Replies, Fields
      <3> QED
        BY <1>1, <3>1, <3>2 DEF NoNewCall, OnlyRequest
    <2> QED
      BY <1>3, <2>1, <2>2
  <1>4. ASSUME NEW p \in Pages, OpenPage(p) \/ FetchTasks(p) \/ ShowTasks(p) \/ Prime(p) \/ Write(p) \/ StartSending(p) \/ Tick(p)
        PROVE  request' = request
    BY <1>4 DEF OpenPage, FetchTasks, ShowTasks, Prime, Write, StartSending, Tick
  <1>5. ASSUME NEW p \in Pages, NEW i \in Items, ApplyAnyway(p, i) \/ AdoptRates(p, i) \/ SendNow(p, i) \/ Discard(p, i)
        PROVE  request' = request
    BY <1>5 DEF ApplyAnyway, AdoptRates, SendNow, Discard
  <1>6. OfficeSetsStatus \/ OfficeSetsRate \/ UNCHANGED ovars => request' = request
    BY DEF OfficeSetsStatus, OfficeSetsRate, ovars
  <1> QED
    BY <1>2, <1>3, <1>4, <1>5, <1>6, PageGoesOn DEF NextOffline, Loop

LEMMA SingleNext ==
    ASSUME OfflineTypeOK, Grows, LinksFit, RequestsFit, Single, [NextOffline]_ovars
    PROVE  Single'
  <1> SUFFICES ASSUME "pages" \notin crossed' PROVE \A r, s \in Requests : Used(r)' /\ request'[r].i = request'[s].i => r = s
    BY DEF Single
  <1>1. \A r, s \in Requests : Used(r) /\ request[r].i = request[s].i => r = s
    BY DEF Grows, Single
  <1>2. CASE NoNewCall
    <2>1. ASSUME NEW r \in Requests, NEW s \in Requests, Used(r)', request'[r].i = request'[s].i
          PROVE  r = s
      <3>1. Used(r) /\ request'[r].i = request[r].i
        BY <1>2, <2>1, BlankIsTyped DEF NoNewCall, Used
      <3>2. request[r].i # 0
        BY <3>1 DEF RequestsFit, RequestFits, Items
      <3>3. request'[s] # NoRequest
        BY <2>1, <3>1, <3>2, BlankIsTyped
      <3> QED
        BY <1>1, <1>2, <2>1, <3>1, <3>3 DEF NoNewCall
    <2> QED
      BY <2>1
  <1>3. ASSUME NEW p \in Pages, Send(p)
        PROVE  \A r, s \in Requests : Used(r)' /\ request'[r].i = request'[s].i => r = s
    <2>0. PICK i \in Batch(p), item \in ItemTypes, c \in Requests : Sends(p, i, item, c)
      BY <1>3, SendIs
    <2>1. /\ i \in Items
          /\ request[c] = NoRequest /\ OnlyRequest(c) /\ Fields(request'[c], "sent", p, i, item, StepOf(item))
          /\ crossed' = IF store[i] # page[p].batch[i] \/ (\E s \in Requests : request[s].i = i)
                        THEN crossed \cup {"pages"} ELSE crossed
      BY <2>0 DEF Sends, Batch
    <2>2. \A s \in Requests : request[s].i # i
      BY <2>1
    <2>3. request'[c].i = i /\ \A s \in Requests \ {c} : request'[s] = request[s]
      BY <2>1 DEF Fields, OnlyRequest
    <2> QED
      BY <1>1, <2>2, <2>3 DEF Used
  <1> QED
    BY <1>2, <1>3, GoesOn

\* No estimate is made of the draft i, and none may be.
DraftFree(i) == \A e \in Estimates : estimate[e].draft # i
Unmade(i) ==
    store[i].state # None /\ store[i].id = 0 /\ \A r \in Requests : request[r].step = "create" => request[r].i # i
Distinct == \A d, e \in Estimates : estimate[d].draft = estimate[e].draft => d = e \/ estimate[d].draft = 0
CreatesFit == \A r \in Requests : request[r].step = "create" =>
    request[r].page # Absent /\ (request[r].pc # "ok" => DraftFree(request[r].i))
UnmadeFit == \A i \in Items : Unmade(i) => DraftFree(i)

LEMMA OneEachIs == OneEach <=> (crossed \cap {"cut", "pages"} = {} => Distinct /\ CreatesFit /\ UnmadeFit)
  BY DEF OneEach, Distinct, CreatesFit, UnmadeFit, Unmade, DraftFree

SameDrafts == \A e \in Estimates : estimate'[e].draft = estimate[e].draft

LEMMA CrewIsFree ==
    ASSUME ServerFits, screen # "capture", NEW i \in Items
    PROVE  DraftFree(i)
  <1>1. i # 0
    BY DEF Items
  <1>2. \A e \in Estimates : estimate[e].draft = 0
    BY DEF ServerFits
  <1> QED
    BY <1>1, <1>2 DEF DraftFree

LEMMA OneEachSame ==
    ASSUME RequestsFit, crossed' \cap {"cut", "pages"} = {}, NoNewCall, SameDrafts, Distinct, CreatesFit, UnmadeFit,
           \A i \in Items : Unmade(i)' => Unmade(i) \/ DraftFree(i)
    PROVE  Distinct' /\ CreatesFit' /\ UnmadeFit'
  <1>1. Distinct'
    BY DEF SameDrafts, Distinct
  <1>2. \A i : DraftFree(i) => DraftFree(i)'
    BY DEF SameDrafts, DraftFree
  <1>3. ASSUME NEW r \in Requests, request'[r].step = "create"
        PROVE  request'[r].page # Absent /\ (request'[r].pc # "ok" => DraftFree(request[r].i)')
    <2>1. request'[r] # NoRequest
      BY <1>3, BlankIsTyped DEF None
    <2>2. /\ request'[r].i = request[r].i /\ request[r].step = "create"
          /\ request'[r].page = request[r].page /\ (request'[r].pc # "ok" => request[r].pc # "ok")
      BY <1>3, <2>1 DEF NoNewCall
    <2>3. request[r].page # Absent /\ (request[r].pc # "ok" => DraftFree(request[r].i))
      BY <2>2 DEF CreatesFit
    <2>4. DraftFree(request[r].i) => DraftFree(request[r].i)'
      BY <2>2 DEF DraftFree, SameDrafts
    <2> QED
      BY <2>2, <2>3, <2>4
  <1>4. CreatesFit'
    BY <1>3 DEF CreatesFit
  <1>5. UnmadeFit'
    BY <1>2 DEF UnmadeFit
  <1> QED
    BY <1>1, <1>4, <1>5

\* An item that keeps its id, is complete with one, or whose draft is free, as long as no call to create ends.
LEMMA ItemUnmade ==
    ASSUME NEW i \in Items, OnlyItem(i), DraftFree(i) \/ store'[i].state = None \/ store'[i].id # 0,
           \A r \in Requests : request[r].step = "create" /\ request[r].i # i =>
                                   request'[r].step = "create" /\ request'[r].i = request[r].i
    PROVE  \A j \in Items : Unmade(j)' => Unmade(j) \/ DraftFree(j)
  <1> SUFFICES ASSUME NEW j \in Items, Unmade(j)', ~DraftFree(j)
               PROVE  Unmade(j)
    OBVIOUS
  <1>1. store'[j].state # None /\ store'[j].id = 0 /\ \A r \in Requests : request'[r].step = "create" => request'[r].i # j
    BY DEF Unmade
  <1>2. j # i
    BY <1>1
  <1>3. store'[j] = store[j]
    BY <1>2 DEF OnlyItem
  <1>4. \A r \in Requests : request[r].step = "create" => request[r].i # j
    BY <1>1, <1>2
  <1> QED
    BY <1>1, <1>3, <1>4 DEF Unmade

LEMMA StoreUnmade ==
    ASSUME store' = store,
           \A r \in Requests : request[r].step = "create" => request'[r].step = "create" /\ request'[r].i = request[r].i
    PROVE  \A j \in Items : Unmade(j)' => Unmade(j) \/ DraftFree(j)
  BY DEF Unmade

\* The new call of a page is for an item nothing has been made of.
\* What the crew writes has nothing to do with estimates.
LEMMA CallOfCrew ==
    ASSUME RequestsFit, ServerFits, NEW r \in Requests, Used(r), request[r].step = "write", NEW i \in Items
    PROVE  DraftFree(i)
  <1>1. Copy(request[r].item, request[r].i) /\ request[r].item.state # None /\ request[r].item.kind # "estimate"
    BY DEF RequestsFit, RequestFits, None
  <1>2. screen # "capture"
    BY <1>1 DEF Copy, ScreenOf
  <1> QED
    BY <1>2, CrewIsFree

LEMMA OneEachSend ==
    ASSUME OfflineTypeOK, RequestsFit, NEW p \in Pages, Send(p), crossed' \cap {"cut", "pages"} = {},
           Distinct, CreatesFit, UnmadeFit
    PROVE  Distinct' /\ CreatesFit' /\ UnmadeFit'
  <1>0. PICK i \in Batch(p), item \in ItemTypes, c \in Requests : Sends(p, i, item, c)
    BY SendIs
  <1>1. /\ i \in Items
        /\ page[p].batch[i].state # None
        /\ item.id = page[p].batch[i].id
        /\ OnlyItem(i) /\ store'[i] = item
        /\ request[c] = NoRequest /\ OnlyRequest(c) /\ Fields(request'[c], "sent", p, i, item, StepOf(item))
        /\ crossed' = IF store[i] # page[p].batch[i] \/ (\E s \in Requests : request[s].i = i)
                      THEN crossed \cup {"pages"} ELSE crossed
    BY <1>0 DEF Sends, Batch
  <1>2. store[i] = page[p].batch[i] /\ \A s \in Requests : request[s].i # i
    BY <1>1
  <1>3. item.id = 0 => Unmade(i)
    BY <1>1, <1>2 DEF Unmade
  <1>4. item.id = 0 => DraftFree(i)
    BY <1>1, <1>3 DEF UnmadeFit
  <1>5. estimate' = estimate
    BY DEF Send, server
  <1>6. Distinct'
    BY <1>5 DEF Distinct
  <1>7. \A j : DraftFree(j) => DraftFree(j)'
    BY <1>5 DEF DraftFree
  <1>8. request'[c].step = "create" => item.id = 0 /\ request'[c].i = i /\ request'[c].page # Absent
    BY <1>1, AbsentAssumption DEF Fields, StepOf
  <1>9. CreatesFit'
    <2>1. ASSUME NEW r \in Requests, request'[r].step = "create"
          PROVE  request'[r].page # Absent /\ (request'[r].pc # "ok" => DraftFree(request[r].i)')
      <3>1. CASE r = c
        <4>1. request'[r].i = i /\ request'[r].page # Absent /\ \A e \in Estimates : estimate[e].draft # i
          BY <1>4, <1>8, <2>1, <3>1 DEF DraftFree
        <4> QED
          BY <1>5, <4>1 DEF DraftFree
      <3>2. CASE r # c
        BY <1>1, <1>5, <2>1, <3>2 DEF CreatesFit, OnlyRequest, DraftFree
      <3> QED
        BY <3>1, <3>2
    <2> QED
      BY <2>1 DEF CreatesFit
  <1>10. \A r \in Requests : request[r].step = "create" => request'[r].step = "create" /\ request'[r].i = request[r].i
    <2>1. request[c].step # "create"
      BY <1>1, BlankIsTyped DEF None
    <2> QED
      BY <1>1, <2>1 DEF OnlyRequest
  <1>11. \A j \in Items : Unmade(j)' => Unmade(j) \/ DraftFree(j)
    BY <1>1, <1>4, <1>10, ItemUnmade
  <1>12. UnmadeFit'
    BY <1>7, <1>11 DEF UnmadeFit
  <1> QED
    BY <1>6, <1>9, <1>12

\* The server makes an estimate of a draft nothing has been made of.
LEMMA OneEachCreate ==
    ASSUME OfflineTypeOK, RequestsFit, NoNewCall, Single, NEW c \in Requests, CreateEstimate(c),
           crossed' \cap {"cut", "pages"} = {}, Distinct, CreatesFit, UnmadeFit
    PROVE  Distinct' /\ CreatesFit' /\ UnmadeFit'
  <1>1. PICK e \in Estimates, i \in Items :
           /\ request[c].pc = "sent" /\ request[c].step = "create" /\ Used(c) /\ request[c].i = i
           /\ EstimateBecomes(e, i, None)
           /\ Replies(c, "ok")
    BY CreateEstimateIs
  <1>2. estimate'[e].draft = i /\ \A d \in Estimates \ {e} : estimate'[d] = estimate[d]
    BY <1>1 DEF EstimateBecomes
  <1>3. DraftFree(i)
    BY <1>1 DEF CreatesFit
  <1>4. Distinct'
    BY <1>2, <1>3 DEF Distinct, DraftFree
  <1>5. \A j : DraftFree(j) /\ j # i => DraftFree(j)'
    BY <1>2 DEF DraftFree
  <1>6. crossed' = crossed /\ store' = store
    BY DEF CreateEstimate, history
  <1>7. OnlyRequest(c) /\ request'[c].pc = "ok" /\ request'[c].page = request[c].page /\ request'[c].i = i
        /\ request'[c].step = "create"
    BY <1>1 DEF Replies, Fields
  <1>8. \A r \in Requests \ {c} : request[r].i # i
    BY <1>1, <1>6 DEF Single
  <1>9. CreatesFit'
    <2>1. ASSUME NEW r \in Requests, request'[r].step = "create"
          PROVE  request'[r].page # Absent /\ (request'[r].pc # "ok" => DraftFree(request[r].i)')
      <3>1. CASE r = c
        BY <1>1, <1>7, <3>1 DEF CreatesFit
      <3>2. CASE r # c
        <4>1. request'[r] = request[r]
          BY <1>7, <3>2 DEF OnlyRequest
        <4>2. request[r].page # Absent /\ (request[r].pc # "ok" => DraftFree(request[r].i)) /\ request[r].i # i
          BY <1>8, <2>1, <3>2, <4>1 DEF CreatesFit
        <4>3. DraftFree(request[r].i) => DraftFree(request[r].i)'
          BY <1>2, <4>1, <4>2 DEF DraftFree
        <4> QED
          BY <4>1, <4>2, <4>3
      <3> QED
        BY <3>1, <3>2
    <2> QED
      BY <2>1 DEF CreatesFit
  <1>10. ASSUME NEW j \in Items, Unmade(j)'
         PROVE  DraftFree(j)'
    <2>1. j # i
      BY <1>7, <1>10 DEF Unmade
    <2>2. Unmade(j)
      BY <1>1, <1>6, <1>7, <1>10 DEF Unmade, OnlyRequest
    <2> QED
      BY <1>5, <2>1, <2>2 DEF UnmadeFit
  <1> QED
    BY <1>4, <1>9, <1>10 DEF UnmadeFit

LEMMA OneEachPage ==
    ASSUME OfflineTypeOK, OfflineTypeOK', Grows, Copies, RequestsFit, LinksFit, ShutFits, ServerFits, NEW p \in Pages,
           OpenPage(p) \/ FetchTasks(p) \/ ShowTasks(p) \/ Prime(p) \/ Write(p) \/ StartSending(p) \/ Tick(p) \/ NextStep(p)
              \/ Settle(p) \/ Defer(p) \/ ClosePage(p),
           crossed' \cap {"cut", "pages"} = {}, CreatesFit
    PROVE  \A j \in Items : Unmade(j)' => Unmade(j) \/ DraftFree(j)
  <1> DEFINE r == page[p].request  x == request[r]
  <1>1. CASE OpenPage(p) \/ FetchTasks(p) \/ ShowTasks(p) \/ Prime(p) \/ StartSending(p) \/ Tick(p)
    BY <1>1, StoreUnmade DEF OpenPage, FetchTasks, ShowTasks, Prime, StartSending, Tick
  <1>2. CASE Write(p)
    <2>1. PICK n \in Items : n = written + 1 /\ OnlyItem(n)
      BY <1>2, WriteIs
    <2>2. ASSUME NEW e \in Estimates
          PROVE  estimate[e].draft # n
      <3>1. estimate[e].draft # 0 => estimate[e].draft <= written
        BY DEF ServerFits
      <3>2. written \in Nat /\ n \in Nat \ {0}
        BY CapAssumption DEF OfflineTypeOK, Items
      <3> QED
        BY <2>1, <3>1, <3>2
    <2>3. DraftFree(n) /\ request' = request
      BY <1>2, <2>2 DEF DraftFree, Write
    <2> QED
      BY <2>1, <2>3, ItemUnmade
  <1>3. CASE NextStep(p)
    <2>1. PICK item \in ItemTypes, i \in Items, step \in {"lines", "calculate"} :
           /\ r \in Requests /\ Used(r) /\ x.i = i /\ x.pc = "ok" /\ x.step \in {"create", "lines"}
           /\ item.id = IF x.step = "create" THEN x.answer ELSE x.item.id
           /\ x.step = "create" => x.answer \in Estimates
           /\ OnlyItem(i) /\ store'[i] = IF x.step = "create" THEN item ELSE store[i]
           /\ OnlyRequest(r) /\ Fields(request'[r], "sent", x.page, i, item, step)
      BY <1>3, NextStepIs
    <2>2. \A s \in Requests \ {r} : request'[s] = request[s]
      BY <2>1 DEF OnlyRequest
    <2>3. CASE x.step = "create"
      <3>1. store'[i].id # 0
        BY <2>1, <2>3 DEF Estimates
      <3>2. \A s \in Requests : request[s].step = "create" /\ request[s].i # i =>
                                    request'[s].step = "create" /\ request'[s].i = request[s].i
        BY <2>1, <2>2
      <3> QED
        BY <2>1, <3>1, <3>2, ItemUnmade
    <2>4. CASE x.step = "lines"
      <3>1. \A j \in Items : store'[j] = store[j]
        BY <2>1, <2>4 DEF OnlyItem
      <3>2. \A s \in Requests : request[s].step = "create" => request'[s].step = "create" /\ request'[s].i = request[s].i
        BY <2>2, <2>4
      <3> QED
        BY <3>1, <3>2 DEF Unmade
    <2> QED
      BY <2>1, <2>3, <2>4
  <1>4. CASE Settle(p)
    <2>1. PICK item \in ItemTypes, i \in Items :
           /\ r \in Requests /\ Used(r) /\ x.i = i /\ (x.pc = "ok" => x.step \in {"write", "calculate"})
           /\ item.id = x.item.id
           /\ OnlyItem(i) /\ store'[i] = IF x.pc = "ok" THEN NoItem ELSE item
           /\ OnlyRequest(r) /\ request'[r] = NoRequest
      BY <1>4, SettleIs
    <2>2. \A s \in Requests \ {r} : request'[s] = request[s]
      BY <2>1 DEF OnlyRequest
    <2>3. DraftFree(i) \/ store'[i].state = None \/ store'[i].id # 0
      <3>1. CASE x.pc = "ok"
        BY <2>1, <3>1, BlankIsTyped
      <3>2. CASE x.pc # "ok" /\ x.step = "create"
        BY <2>1, <3>2 DEF CreatesFit
      <3>3. CASE x.pc # "ok" /\ x.step \in {"lines", "calculate"}
        BY <2>1, <3>3 DEF RequestsFit, RequestFits
      <3>4. CASE x.step = "write"
        BY <2>1, <3>4, CallOfCrew
      <3> QED
        BY <2>1, <3>1, <3>2, <3>3, <3>4 DEF RequestsFit, RequestFits, OfflineTypeOK, RequestTypes
    <2>4. \A s \in Requests : request[s].step = "create" /\ request[s].i # i =>
                                  request'[s].step = "create" /\ request'[s].i = request[s].i
      BY <2>1, <2>2
    <2> QED
      BY <2>1, <2>3, <2>4, ItemUnmade
  <1>5. CASE Defer(p)
    <2>1. PICK item \in ItemTypes, i \in Items :
           /\ r \in Requests /\ Used(r) /\ x.i = i
           /\ item.id = x.item.id
           /\ OnlyItem(i) /\ store'[i] = item
           /\ OnlyRequest(r) /\ Fields(request'[r], x.pc, Absent, i, x.item, x.step)
           /\ crossed' = IF x.step = "create" THEN crossed \cup {"cut"} ELSE crossed
      BY <1>5, DeferIs
    <2>2. \A s \in Requests : request[s].step = "create" => request'[s].step = "create" /\ request'[s].i = request[s].i
      BY <2>1 DEF OnlyRequest, Fields
    <2>3. x.step # "create"
      BY <2>1
    <2>4. DraftFree(i) \/ store'[i].id # 0
      <3>1. CASE x.step \in {"lines", "calculate"}
        BY <2>1, <3>1 DEF RequestsFit, RequestFits
      <3>2. CASE x.step = "write"
        BY <2>1, <3>2, CallOfCrew
      <3> QED
        BY <2>1, <2>3, <3>1, <3>2 DEF RequestsFit, RequestFits, OfflineTypeOK, RequestTypes
    <2> QED
      BY <2>1, <2>2, <2>4, ItemUnmade
  <1>6. CASE ClosePage(p)
    <2>1. store' = store
      BY <1>6 DEF ClosePage
    <2>2. CASE request' = request
      BY <2>1, <2>2, StoreUnmade
    <2>3. CASE request' # request
      <3>1. r \in Requests /\ OnlyRequest(r) /\ Fields(request'[r], x.pc, Absent, x.i, x.item, x.step)
        BY <1>6, <2>3, ClosePageIs
      <3>2. \A s \in Requests : request[s].step = "create" => request'[s].step = "create" /\ request'[s].i = request[s].i
        BY <3>1 DEF OnlyRequest, Fields
      <3> QED
        BY <2>1, <3>2, StoreUnmade
    <2> QED
      BY <2>2, <2>3
  <1> QED
    BY <1>1, <1>2, <1>3, <1>4, <1>5, <1>6

LEMMA OneEachDecision ==
    ASSUME OfflineTypeOK, OfflineTypeOK', Copies, ServerFits, NEW p \in Pages, NEW i \in Items,
           ApplyAnyway(p, i) \/ AdoptRates(p, i) \/ SendNow(p, i) \/ Discard(p, i)
    PROVE  \A j \in Items : Unmade(j)' => Unmade(j) \/ DraftFree(j)
  <1> DEFINE old == page[p].list[i]
  <1>1. request' = request
    BY DEF ApplyAnyway, AdoptRates, SendNow, Discard
  <1>2. CASE SendNow(p, i)
    BY <1>1, <1>2, StoreUnmade DEF SendNow
  <1>3. CASE Discard(p, i)
    BY <1>1, <1>3, DiscardIs, BlankIsTyped, ItemUnmade
  <1>4. CASE ApplyAnyway(p, i) \/ AdoptRates(p, i)
    <2>1. PICK item \in ItemTypes :
           /\ old.state = "needs_attention" /\ old.current # None /\ item.id = old.id
           /\ OnlyItem(i) /\ store'[i] = item
      BY <1>4, ApplyAnywayIs, AdoptRatesIs DEF PutsBack
    <2>2. Copy(old, i) /\ old.state # None
      BY <2>1 DEF Copies, None
    <2>3. CASE old.kind = "estimate"
      <3>1. item.id # 0
        BY <2>1, <2>2, <2>3 DEF Copy
      <3> QED
        BY <1>1, <2>1, <3>1, ItemUnmade
    <2>4. CASE old.kind # "estimate"
      <3>1. screen # "capture"
        BY <2>2, <2>4 DEF Copy, ScreenOf
      <3> QED
        BY <1>1, <2>1, <3>1, CrewIsFree, ItemUnmade
    <2> QED
      BY <2>3, <2>4
  <1> QED
    BY SMTT(30), <1>2, <1>3, <1>4

LEMMA OneEachNext ==
    ASSUME OfflineTypeOK, OfflineTypeOK', Grows, Copies, RequestsFit, LinksFit, ShutFits, ServerFits, Single, OneEach,
           [NextOffline]_ovars
    PROVE  OneEach'
  <1> SUFFICES ASSUME crossed' \cap {"cut", "pages"} = {}
               PROVE  Distinct' /\ CreatesFit' /\ UnmadeFit'
    BY DEF OneEach, Distinct, CreatesFit, UnmadeFit, Unmade, DraftFree
  <1>1. Distinct /\ CreatesFit /\ UnmadeFit
    BY OneEachIs DEF Grows
  <1>2. CASE \E p \in Pages : Send(p)
    BY <1>1, <1>2, OneEachSend
  <1>3. CASE NoNewCall
    <2>1. CASE \E r \in Requests : CreateEstimate(r)
      BY <1>1, <1>3, <2>1, OneEachCreate
    <2>2. ASSUME SameDrafts, \A j \in Items : Unmade(j)' => Unmade(j) \/ DraftFree(j)
          PROVE  Distinct' /\ CreatesFit' /\ UnmadeFit'
      BY <1>1, <1>3, <2>2, OneEachSame
    <2>3. estimate' = estimate => SameDrafts
      BY DEF SameDrafts
    <2>4. ASSUME NEW e \in Estimates, NEW itsRate, EstimateBecomes(e, estimate[e].draft, itsRate)
          PROVE  SameDrafts
      BY <2>4 DEF EstimateBecomes, SameDrafts
    <2>5. ASSUME NEW r \in Requests, Check(r) \/ Commit(r) \/ ReplaceLines(r) \/ Calculate(r) \/ Refuse(r) \/ Vanish(r)
          PROVE  Distinct' /\ CreatesFit' /\ UnmadeFit'
      <3>1. SameDrafts
        <4>1. CASE Check(r) \/ Commit(r) \/ Refuse(r) \/ Vanish(r)
          BY <4>1, <2>3 DEF Check, Commit, Refuse, Vanish, server
        <4>2. CASE ReplaceLines(r)
          BY <4>2, ReplaceLinesIs, <2>3, <2>4
        <4>3. CASE Calculate(r)
          BY <4>3, CalculateIs, <2>3, <2>4
        <4> QED
          BY <2>5, <4>1, <4>2, <4>3
      <3>2. store' = store
        BY <2>5 DEF Check, Commit, ReplaceLines, Calculate, Refuse, Vanish
      <3>3. \A s \in Requests : request[s].step = "create" => request'[s].step = "create" /\ request'[s].i = request[s].i
        <4>1. CASE Vanish(r)
          <5>1. request[r].page = Absent /\ OnlyRequest(r)
            BY <4>1, VanishIs
          <5>2. request[r].step # "create"
            BY <1>1, <5>1 DEF CreatesFit
          <5> QED
            BY <5>1, <5>2 DEF OnlyRequest
        <4>2. CASE ~Vanish(r)
          <5>1. Serve(r) \/ Refuse(r)
            BY <2>5, <4>2 DEF Serve
          <5>2. OnlyRequest(r) /\ request'[r].i = request[r].i /\ request'[r].step = request[r].step
            BY <5>1, AnsweredIs DEF Replies, Fields
          <5> QED
            BY <5>2 DEF OnlyRequest
        <4> QED
          BY <4>1, <4>2
      <3> QED
        BY <3>1, <3>2, <3>3, <2>2, StoreUnmade
    <2>6. ASSUME NEW p \in Pages,
                 OpenPage(p) \/ FetchTasks(p) \/ ShowTasks(p) \/ Prime(p) \/ Write(p) \/ StartSending(p) \/ Tick(p) \/ NextStep(p)
                    \/ Settle(p) \/ Defer(p) \/ ClosePage(p)
          PROVE  Distinct' /\ CreatesFit' /\ UnmadeFit'
      <3>1. \A j \in Items : Unmade(j)' => Unmade(j) \/ DraftFree(j)
        BY <1>1, <2>6, OneEachPage
      <3>2. estimate' = estimate
        BY Zenon, <2>6 DEF OpenPage, FetchTasks, ShowTasks, Prime, Write, StartSending, Tick, NextStep, Settle, Defer, ClosePage, server
      <3> QED
        BY <3>1, <3>2, <2>2, <2>3
    <2>7. ASSUME NEW p \in Pages, NEW i \in Items, ApplyAnyway(p, i) \/ AdoptRates(p, i) \/ SendNow(p, i) \/ Discard(p, i)
          PROVE  Distinct' /\ CreatesFit' /\ UnmadeFit'
      <3>1. \A j \in Items : Unmade(j)' => Unmade(j) \/ DraftFree(j)
        BY <2>7, OneEachDecision
      <3>2. SameDrafts
        <4>1. CASE Discard(p, i)
          BY <4>1, DiscardIs, <2>3, <2>4
        <4>2. CASE ~Discard(p, i)
          BY <2>7, <4>2, <2>3 DEF ApplyAnyway, AdoptRates, SendNow, server
        <4> QED
          BY <4>1, <4>2
      <3> QED
        BY <3>1, <3>2, <2>2
    <2>8. OfficeSetsStatus \/ OfficeSetsRate \/ UNCHANGED ovars => Distinct' /\ CreatesFit' /\ UnmadeFit'
      <3>1. OfficeSetsStatus \/ OfficeSetsRate \/ UNCHANGED ovars => store' = store /\ request' = request /\ estimate' = estimate
        BY DEF OfficeSetsStatus, OfficeSetsRate, ovars, server
      <3> QED
        BY <3>1, <2>2, <2>3, StoreUnmade
    <2> QED
      BY <1>2, <2>1, <2>5, <2>6, <2>7, <2>8 DEF NextOffline, Loop, Serve
  <1> QED
    BY <1>2, <1>3, GoesOn

-----------------------------------------------------------------------------
(* The order of the changes.                                               *)

LEMMA ChangesAre ==
    ASSUME OfflineTypeOK, Copies
    PROVE  \A i \in Changes : i \in Items /\ i \in Nat /\ i <= written /\ screen = "crew"
                              /\ store[i].seen \in Statuses /\ store[i].want \in Statuses
  <1> SUFFICES ASSUME NEW i \in Changes
               PROVE  i \in Items /\ i \in Nat /\ i <= written /\ screen = "crew"
                      /\ store[i].seen \in Statuses /\ store[i].want \in Statuses
    OBVIOUS
  <1>1. i \in Items /\ store[i].state # None /\ store[i].kind = "status"
    BY DEF Changes
  <1>2. Copy(store[i], i)
    BY <1>1 DEF Copies
  <1>3. i \in Nat
    BY <1>1, CapAssumption DEF Items
  <1>4. i <= written /\ screen = "crew" /\ store[i].seen \in Statuses /\ store[i].want \in Statuses
    BY <1>1, <1>2 DEF Copy, ScreenOf
  <1> QED
    BY <1>1, <1>3, <1>4

\* No change, and no call about one, on the screen that captures estimates.
LEMMA CaptureHasNone ==
    ASSUME OfflineTypeOK, Copies, screen = "capture"
    PROVE  Changes = {}
  BY ChangesAre

\* The changes of the next state are those of this one.
SameChanges ==
    Changes' = Changes /\ \A i \in Changes : store'[i].seen = store[i].seen /\ store'[i].want = store[i].want

LEMMA OldestIs ==
    ASSUME SameChanges
    PROVE  \A i \in Items : (Oldest(i)' <=> Oldest(i)) /\ (Newest(i)' <=> Newest(i))
                            /\ \A j \in Items : Follows(j, i)' <=> Follows(j, i)
  BY DEF SameChanges, Oldest, Newest, Follows

LEMMA StoreChanges == store' = store => SameChanges
  BY DEF SameChanges, Changes

\* An item that is no change before and after the step.
LEMMA AsideChanges ==
    ASSUME NEW i \in Items, OnlyItem(i), i \notin Changes, ~(store'[i].state # None /\ store'[i].kind = "status")
    PROVE  SameChanges /\ \A j \in Changes : store'[j] = store[j]
  <1>1. \A j \in Items : j # i => store'[j] = store[j]
    BY DEF OnlyItem
  <1>2. \A j \in Items : j \in Changes' <=> j \in Changes
    BY <1>1 DEF Changes
  <1>3. Changes' = Changes
    BY <1>2 DEF Changes
  <1>4. \A j \in Changes : store'[j] = store[j]
    BY <1>1 DEF Changes
  <1> QED
    BY <1>3, <1>4 DEF SameChanges

\* The chain stays as it is when the changes, the task and the answers to their calls do.
LEMMA ChainSame ==
    ASSUME SameChanges, task' = task, FirstOrder, LinkOrder,
           \A r \in Requests : Used(r) /\ request[r].i \in Changes /\ request[r].pc = "ok" => request'[r] = request[r]
    PROVE  FirstOrder' /\ LinkOrder'
  <1>1. ASSUME NEW i \in Items, Oldest(i)'
        PROVE  store'[i].seen = task' \/ \E r \in Requests : Used(r)' /\ request'[r].i = i /\ request'[r].pc = "ok"
    <2>1. Oldest(i) /\ i \in Changes /\ store'[i].seen = store[i].seen
      BY <1>1, OldestIs DEF Oldest, SameChanges
    <2> QED
      BY <2>1 DEF FirstOrder, Used
  <1>2. ASSUME NEW i \in Items, NEW j \in Items, Follows(j, i)'
        PROVE  store'[j].seen = store'[i].want
    <2>1. Follows(j, i) /\ i \in Changes /\ j \in Changes
      BY <1>2, OldestIs DEF Follows
    <2> QED
      BY <2>1 DEF LinkOrder, SameChanges
  <1> QED
    BY <1>1, <1>2 DEF FirstOrder, LinkOrder

\* A page of the next state that shows what it showed.
LEMMA ViewSame ==
    ASSUME SameChanges, NEW p \in Pages, ViewOrder(p), Alone(p)' => Alone(p), page'[p].shown = page[p].shown,
           Changes = {} => task' = task
    PROVE  ViewOrder(p)'
  <1> SUFFICES ASSUME Alone(p)'
               PROVE  /\ Changes' = {} => page'[p].shown = task'
                      /\ \A i \in Items : Newest(i)' => page'[p].shown = store'[i].want
    BY DEF ViewOrder
  <1>1. Changes = {} => page[p].shown = task
    BY DEF ViewOrder
  <1>2. \A i \in Items : Newest(i) => page[p].shown = store[i].want /\ i \in Changes
    BY DEF ViewOrder, Newest
  <1> QED
    BY <1>1, <1>2, OldestIs DEF SameChanges

LEMMA AloneIs ==
    ASSUME NEW p \in Pages, \A q \in Pages : page[q].open => page'[q].open, page'[p].open => page[p].open
    PROVE  Alone(p)' => Alone(p)
  BY DEF Alone

\* A page of which nothing that matters has changed.
LEMMA PageSame ==
    ASSUME NEW p \in Pages, page'[p] = page[p], PageOrder(p), \A i \in Changes' : i \in Changes
    PROVE  PageOrder(p)'
  BY DEF PageOrder, Batch

\* A call of which nothing that matters has changed.
LEMMA SendSame ==
    ASSUME NEW r \in Requests, request'[r] = request[r], SendOrder(r), SameChanges,
           \A i \in Changes : store'[i] = store[i], task' = task, Used(r) => request[r].i \in Items
    PROVE  SendOrder(r)'
  <1> SUFFICES ASSUME Used(r)'
               PROVE  LET x == request'[r] IN
                      IF x.item.kind = "status"
                      THEN /\ Oldest(request[r].i)' /\ store'[x.i] = x.item /\ x.pc \in {"sent", "checked", "ok"}
                           /\ task' = IF x.pc = "ok" THEN x.item.want ELSE x.item.seen
                      ELSE x.i \notin Changes'
    BY DEF SendOrder
  <1>1. Used(r)
    BY DEF Used
  <1>2. CASE request[r].item.kind = "status"
    <2>1. Oldest(request[r].i) /\ store[request[r].i] = request[r].item
      BY <1>1, <1>2 DEF SendOrder
    <2>2. request[r].i \in Changes /\ Oldest(request[r].i)'
      BY <1>1, <2>1, OldestIs DEF Oldest, SameChanges
    <2> QED
      BY <1>1, <1>2, <2>1, <2>2 DEF SendOrder
  <1>3. CASE request[r].item.kind # "status"
    BY <1>1, <1>3 DEF SendOrder, SameChanges
  <1> QED
    BY <1>2, <1>3

\* A call about something else than a change.
LEMMA SendAside ==
    ASSUME NEW r \in Requests, NEW i, request'[r].i = i, i \notin Changes', request'[r].item.kind # "status"
    PROVE  SendOrder(r)'
  BY DEF SendOrder

LEMMA SendFree == ASSUME NEW r \in Requests, request'[r] = NoRequest PROVE SendOrder(r)'
  BY BlankIsTyped DEF SendOrder, Used

\* Two calls for changes are one.
LEMMA SendsAreOne ==
    ASSUME OfflineTypeOK, Copies, NEW i \in Items, NEW j \in Items, Oldest(i), Oldest(j)
    PROVE  i = j
  <1>1. i <= j /\ j <= i /\ i \in Nat /\ j \in Nat
    BY ChangesAre DEF Oldest
  <1> QED
    BY <1>1

\* What a step keeps that moves one page and touches no change, no call for one and no task.
LEMMA OrderAside ==
    ASSUME OfflineTypeOK, Copies, RequestsFit, Order, SameChanges, task' = task, CallsOrder', QueueOrder',
           NEW p \in Pages, OnlyPage(p), PageOrder(p)', ViewOrder(p)', \A q \in Pages : page[q].open => page'[q].open,
           \A r \in Requests : SendOrder(r)',
           \A r \in Requests : Used(r) /\ request[r].i \in Changes /\ request[r].pc = "ok" => request'[r] = request[r]
    PROVE  Order'
  <1>1. FirstOrder' /\ LinkOrder'
    BY ChainSame DEF Order
  <1>2. ASSUME NEW q \in Pages
        PROVE  PageOrder(q)' /\ ViewOrder(q)'
    <2>1. CASE q = p
      BY <2>1
    <2>2. CASE q # p
      <3>1. page'[q] = page[q]
        BY <2>2 DEF OnlyPage
      <3>2. PageOrder(q)'
        BY <3>1, PageSame DEF Order, SameChanges
      <3>3. ViewOrder(q)'
        BY <3>1, AloneIs, ViewSame DEF Order
      <3> QED
        BY <3>2, <3>3
    <2> QED
      BY <2>1, <2>2
  <1> QED
    BY <1>1, <1>2 DEF Order

LEMMA SendsSame ==
    ASSUME RequestsFit, Order, request' = request, SameChanges, \A i \in Changes : store'[i] = store[i], task' = task
    PROVE  \A r \in Requests : SendOrder(r)'
  BY SendSame DEF Order, RequestsFit, RequestFits

LEMMA StoreQueue == ASSUME QueueOrder, store' = store, task' = task PROVE QueueOrder'
  BY DEF QueueOrder, Changes

LEMMA CallsSame ==
    ASSUME CallsOrder, \A q \in Pages : page[q].open => page'[q].open, written' = written,
           \A r \in Requests : request'[r] = NoRequest \/ (Used(r) /\ request'[r].page # Absent) \/ request'[r] = request[r]
    PROVE  CallsOrder'
  <1>1. \A r \in Requests : Used(r)' => request'[r].page # Absent
    BY BlankIsTyped DEF CallsOrder, Used
  <1>2. (\A q \in Pages : ~page'[q].open) => written' = 0
    BY DEF CallsOrder
  <1> QED
    BY <1>1, <1>2 DEF CallsOrder

LEMMA OrderOpenPage ==
    ASSUME OfflineTypeOK, OfflineTypeOK', Copies, RequestsFit, Order, NEW p \in Pages, OpenPage(p)
    PROVE  Order'
  <1>1. /\ store' = store /\ request' = request /\ task' = task /\ written' = written /\ ~page[p].open
        /\ OnlyPage(p) /\ page'[p].open /\ page'[p].list = store /\ page'[p].batch = [i \in Items |-> NoItem]
        /\ page'[p].tried = {} /\ page'[p].shown = task
    BY OpenPageIs DEF OpenPage, server, history
  <1>2. \A q \in Pages : page[q].open => page'[q].open
    BY <1>1 DEF OnlyPage
  <1>3. SameChanges /\ \A r \in Requests : SendOrder(r)'
    BY <1>1, StoreChanges, SendsSame DEF Changes
  <1>4. QueueOrder' /\ CallsOrder'
    BY <1>1, <1>2, StoreQueue, CallsSame DEF Order
  <1>5. PageOrder(p)'
    <2>1. \A i \in Items : page'[p].batch[i].state = None
      BY <1>1, BlankIsTyped
    <2>2. Batch(p)' = {}
      BY <2>1 DEF Batch
    <2>3. \A i \in Items : store[i].kind = "status" => store[i].current = None
      BY DEF Order, QueueOrder
    <2>4. \A i \in Changes' : store[i].state \in {"queued", "sending"}
      BY <1>3 DEF Order, QueueOrder, SameChanges
    <2> QED
      BY <1>1, <2>2, <2>3, <2>4 DEF PageOrder
  <1>6. ViewOrder(p)'
    <2>1. ASSUME Alone(p)' PROVE Changes = {}
      <3>1. \A q \in Pages : ~page[q].open
        BY <1>1, <1>2, <2>1 DEF Alone
      <3>2. written = 0
        BY <3>1 DEF Order, CallsOrder
      <3>3. \A i \in Changes : i <= 0 /\ i \in Items
        BY <3>2, ChangesAre
      <3> QED
        BY <3>3 DEF Items
    <2>2. Alone(p)' => Changes' = {}
      BY <1>3, <2>1 DEF SameChanges
    <2>3. Alone(p)' => \A i \in Items : ~Newest(i)'
      BY <2>2 DEF Newest
    <2> QED
      BY <1>1, <2>3 DEF ViewOrder
  <1> QED
    BY <1>1, <1>2, <1>3, <1>4, <1>5, <1>6, OrderAside

LEMMA OrderFetchTasks ==
    ASSUME OfflineTypeOK, OfflineTypeOK', Copies, RequestsFit, Order, NEW p \in Pages, FetchTasks(p)
    PROVE  Order'
  <1>1. /\ store' = store /\ request' = request /\ task' = task /\ written' = written
        /\ OnlyPage(p) /\ page'[p].open = page[p].open /\ page'[p].list = page[p].list
        /\ page'[p].batch = page[p].batch /\ page'[p].tried = page[p].tried /\ page'[p].shown = page[p].shown
    BY FetchTasksIs DEF FetchTasks, server, history
  <1>2. \A q \in Pages : page[q].open => page'[q].open
    BY <1>1 DEF OnlyPage
  <1>3. SameChanges /\ \A r \in Requests : SendOrder(r)'
    BY <1>1, StoreChanges, SendsSame DEF Changes
  <1>4. QueueOrder' /\ CallsOrder'
    BY <1>1, <1>2, StoreQueue, CallsSame DEF Order
  <1>5. PageOrder(p)'
    BY <1>1, <1>3 DEF Order, PageOrder, Batch, SameChanges
  <1>6. ViewOrder(p)'
    BY <1>1, <1>2, <1>3, AloneIs, ViewSame DEF Order
  <1> QED
    BY <1>1, <1>2, <1>3, <1>4, <1>5, <1>6, OrderAside

LEMMA OrderShowTasks ==
    ASSUME OfflineTypeOK, OfflineTypeOK', Copies, RequestsFit, Order, ShutFits, NEW p \in Pages, ShowTasks(p), crossed' = {}
    PROVE  Order'
  <1>1. /\ store' = store /\ request' = request /\ task' = task /\ written' = written /\ page[p].open
        /\ OnlyPage(p) /\ page'[p].open = page[p].open /\ page'[p].list = page[p].list
        /\ page'[p].batch = page[p].batch /\ page'[p].tried = page[p].tried /\ page'[p].shown = task
    BY ShowTasksIs, BlankIsTyped DEF ShowTasks, ShutFits, server
  <1>2. \A q \in Pages : page[q].open => page'[q].open
    BY <1>1 DEF OnlyPage
  <1>3. SameChanges /\ \A r \in Requests : SendOrder(r)'
    BY <1>1, StoreChanges, SendsSame DEF Changes
  <1>4. QueueOrder' /\ CallsOrder'
    BY <1>1, <1>2, StoreQueue, CallsSame DEF Order
  <1>5. ~(\E i \in Items : store[i].kind = "status" /\ store[i].state # None)
    BY DEF ShowTasks
  <1>6. Changes' = {} /\ Changes = {}
    BY <1>3, <1>5 DEF Changes, SameChanges
  <1>7. PageOrder(p)'
    BY <1>1, <1>6 DEF PageOrder, Order
  <1>8. ViewOrder(p)'
    BY <1>1, <1>6 DEF ViewOrder, Newest
  <1> QED
    BY <1>1, <1>2, <1>3, <1>4, <1>7, <1>8, OrderAside

\* Sending starts with every change there is.
LEMMA OrderStartSending ==
    ASSUME OfflineTypeOK, OfflineTypeOK', Copies, RequestsFit, ShutFits, Order, NEW p \in Pages, StartSending(p)
    PROVE  Order'
  <1>1. /\ store' = store /\ request' = request /\ task' = task /\ written' = written /\ Batch(p) = {}
        /\ OnlyPage(p) /\ page'[p].open = page[p].open /\ page'[p].list = page[p].list
        /\ page'[p].batch = [i \in Items |-> IF i \in Waiting(p) \ page[p].tried THEN page[p].list[i] ELSE NoItem]
        /\ page'[p].shown = page[p].shown
    BY StartSendingIs DEF StartSending, server, history
  <1>2. \A q \in Pages : page[q].open => page'[q].open
    BY <1>1 DEF OnlyPage
  <1>3. SameChanges /\ \A r \in Requests : SendOrder(r)'
    BY <1>1, StoreChanges, SendsSame DEF Changes
  <1>4. QueueOrder' /\ CallsOrder'
    BY <1>1, <1>2, StoreQueue, CallsSame DEF Order
  <1>5. PageOrder(p)'
    <2>1. ASSUME page[p].open, NEW i \in Changes
          PROVE  page[p].list[i].state \in {"queued", "sending"} /\ i \in Batch(p)' /\ i \in Items
      <3>1. page[p].list[i].state \in {"queued", "sending"} /\ i \notin page[p].tried /\ i \in Items
        BY <1>1, <2>1 DEF Order, PageOrder, Changes
      <3>2. i \in Waiting(p)
        BY <3>1 DEF Waiting, Shown, None
      <3>3. page'[p].batch[i] = page[p].list[i]
        BY <1>1, <3>1, <3>2
      <3> QED
        BY <3>1, <3>3 DEF Batch, None
    <2>2. \A i \in Items : page[p].list[i].kind = "status" => page[p].list[i].current = None
      BY DEF Order, PageOrder
    <2> QED
      BY <1>1, <1>3, <2>1, <2>2 DEF PageOrder, SameChanges
  <1>6. ViewOrder(p)'
    BY <1>1, <1>2, <1>3, AloneIs, ViewSame DEF Order
  <1> QED
    BY SMTT(30), <1>1, <1>2, <1>3, <1>4, <1>5, <1>6, OrderAside

LEMMA OrderTick ==
    ASSUME OfflineTypeOK, OfflineTypeOK', Copies, RequestsFit, Order, NEW p \in Pages, Tick(p)
    PROVE  Order'
  <1>1. /\ store' = store /\ request' = request /\ task' = task /\ written' = written
        /\ OnlyPage(p) /\ page'[p].open = page[p].open /\ page'[p].list = page[p].list
        /\ page'[p].batch = page[p].batch /\ page'[p].tried = {} /\ page'[p].shown = page[p].shown
    BY TickIs DEF Tick, server, history
  <1>2. \A q \in Pages : page[q].open => page'[q].open
    BY <1>1 DEF OnlyPage
  <1>3. SameChanges /\ \A r \in Requests : SendOrder(r)'
    BY <1>1, StoreChanges, SendsSame DEF Changes
  <1>4. QueueOrder' /\ CallsOrder'
    BY <1>1, <1>2, StoreQueue, CallsSame DEF Order
  <1>5. PageOrder(p)'
    BY <1>1, <1>3 DEF Order, PageOrder, Batch, SameChanges
  <1>6. ViewOrder(p)'
    BY <1>1, <1>2, <1>3, AloneIs, ViewSame DEF Order
  <1> QED
    BY <1>1, <1>2, <1>3, <1>4, <1>5, <1>6, OrderAside

\* A call for the oldest change.
LEMMA SendOnward ==
    ASSUME NEW r \in Requests, NEW i \in Items, request'[r].i = i, Oldest(i)', store'[i] = request'[r].item,
           request'[r].item.kind = "status", request'[r].pc \in {"sent", "checked", "ok"},
           task' = IF request'[r].pc = "ok" THEN request'[r].item.want ELSE request'[r].item.seen
    PROVE  SendOrder(r)'
  <1>1. Oldest(request[r].i)'
    BY DEF Oldest
  <1> QED
    BY <1>1 DEF SendOrder

LEMMA AsideQueue ==
    ASSUME QueueOrder, NEW i \in Items, OnlyItem(i), store'[i].kind = "status" => store'[i] = store[i],
           SameChanges, \A j \in Changes : store'[j] = store[j], task' = task
    PROVE  QueueOrder'
  BY DEF QueueOrder, OnlyItem, SameChanges

\* A page whose loop has less to do, but for what has left the queue.
LEMMA AsidePage ==
    ASSUME NEW p \in Pages, PageOrder(p), QueueOrder', page'[p].open = page[p].open,
           page'[p].list = page[p].list \/ page'[p].list = store',
           \A i \in Changes' : /\ i \in Changes
                               /\ i \in page'[p].tried => i \in page[p].tried
                               /\ i \in Batch(p) => i \in Batch(p)',
           \A i \in Batch(p)' : i \in Batch(p)
    PROVE  PageOrder(p)'
  <1>1. \A i \in Items : page'[p].list[i].kind = "status" => page'[p].list[i].current = None
    <2>1. CASE page'[p].list = page[p].list
      BY <2>1 DEF PageOrder
    <2>2. CASE page'[p].list = store'
      BY <2>2 DEF QueueOrder
    <2> QED
      BY <2>1, <2>2
  <1>2. ASSUME page'[p].open, NEW i \in Changes'
        PROVE  /\ page'[p].list[i].state \in {"queued", "sending"}
               /\ i \in page'[p].tried => i \in Batch(p)'
               /\ \A j \in Batch(p)' : i < j => i \in Batch(p)'
    <2>1. page[p].list[i].state \in {"queued", "sending"}
      BY <1>2 DEF PageOrder
    <2>2. store'[i].state \in {"queued", "sending"}
      BY <1>2 DEF QueueOrder
    <2> QED
      BY <1>2, <2>1, <2>2 DEF PageOrder
  <1> QED
    BY <1>1, <1>2 DEF PageOrder

\* Two copies of the queue with the same members.
LEMMA BatchSame ==
    ASSUME OfflineTypeOK, NEW p \in Pages, NEW i \in Items, NEW item,
           page'[p].batch = [page[p].batch EXCEPT ![i] = item]
    PROVE  /\ \A j \in Items \ {i} : j \in Batch(p)' <=> j \in Batch(p)
           /\ i \in Batch(p)' <=> item.state # None
  <1>1. page[p].batch \in [Items -> ItemTypes]
    BY DEF OfflineTypeOK, PageTypes
  <1>2. \A j \in Items : page'[p].batch[j] = IF j = i THEN item ELSE page[p].batch[j]
    BY <1>1
  <1> QED
    BY <1>2 DEF Batch

\* A status is written by the only page, over the newest change.
LEMMA OrderWrite ==
    ASSUME OfflineTypeOK, OfflineTypeOK', Copies, RequestsFit, Order, NEW p \in Pages, Write(p), crossed' = {}
    PROVE  Order'
  <1> DEFINE n == written + 1
  <1>1. PICK item \in ItemTypes :
           /\ n \in Items /\ page[p].open
           /\ item.state = "queued" /\ item.current = None
           /\ item.kind = "status" => item.seen = page[p].shown
           /\ OnlyItem(n) /\ store'[n] = item
           /\ OnlyPage(p)
           /\ page'[p].open /\ page'[p].list = store' /\ page'[p].batch = page[p].batch
           /\ page'[p].tried = {} 
           /\ page'[p].shown = IF item.kind = "status" THEN item.want ELSE page[p].shown
    BY WriteIs
  <1>2. request' = request /\ task' = task /\ written \in Nat /\ n \in Nat
    BY CapAssumption DEF Write, server, OfflineTypeOK
  <1>3. Alone(p) /\ \A q \in Pages \ {p} : ~page[q].open
    BY SMTT(30), <1>1 DEF Write, Alone
  <1>4. ASSUME NEW i \in Items, store[i].state # None \/ i \in Batch(p) \/ \E r \in Requests : Used(r) /\ request[r].i = i
        PROVE  i < n /\ i # n /\ i \in Nat
    <2>1. i <= written
      <3>1. CASE store[i].state # None
        BY <3>1 DEF Copies, Copy
      <3>2. CASE i \in Batch(p)
        BY <3>2 DEF Batch, Copies, Copy
      <3>3. CASE \E r \in Requests : Used(r) /\ request[r].i = i
        BY <3>3 DEF RequestsFit, RequestFits, Copy, None
      <3> QED
        BY <1>4, <3>1, <3>2, <3>3
    <2>2. i \in Nat
      BY CapAssumption DEF Items
    <2> QED
      BY <1>2, <2>1, <2>2
  <1> HIDE DEF n
  <1>5. n \notin Changes
    BY <1>1, <1>4 DEF Changes
  <1>6. \A i \in Changes : i \in Items /\ i < n /\ i \in Nat /\ store'[i] = store[i]
    <2>1. \A i \in Changes : i \in Items /\ i < n /\ i # n /\ i \in Nat
      BY <1>4 DEF Changes
    <2> QED
      BY <1>1, <2>1 DEF OnlyItem
  <1>7. \A i \in Items : i # n => store'[i] = store[i]
    BY <1>1 DEF OnlyItem
  <1>8. QueueOrder'
    <2>1. \A i \in Items : store'[i].kind = "status" => store'[i].current = None
      BY <1>1, <1>7 DEF Order, QueueOrder
    <2>2. \A i \in Changes' : store'[i].state \in {"queued", "sending"}
      BY <1>1, <1>7 DEF Order, QueueOrder, Changes
    <2> QED
      BY <1>2, <2>1, <2>2 DEF Order, QueueOrder
  <1>9. CallsOrder'
    BY <1>1, <1>2 DEF Order, CallsOrder, Used
  <1>10. \A q \in Pages : PageOrder(q)'
    <2>1. PageOrder(p)'
      <3>1. Batch(p)' = Batch(p)
        BY <1>1 DEF Batch
      <3>2. ASSUME NEW i \in Changes', NEW j \in Batch(p), i < j
            PROVE  i \in Batch(p)
        <4>1. i \in Items /\ j \in Items /\ j < n /\ j \in Nat
          BY <1>4 DEF Changes, Batch
        <4>2. i # n
          BY <1>2, <3>2, <4>1
        <4>3. i \in Changes
          BY <1>7, <4>1, <4>2 DEF Changes
        <4> QED
          BY <1>1, <3>2, <4>3 DEF Order, PageOrder
      <3> QED
        BY <1>1, <1>8, <3>1, <3>2 DEF PageOrder, QueueOrder
    <2>2. ASSUME NEW q \in Pages \ {p}
          PROVE  PageOrder(q)'
      <3>1. page'[q] = page[q] /\ ~page'[q].open
        BY <1>1, <1>3 DEF OnlyPage
      <3> QED
        BY <3>1 DEF Order, PageOrder
    <2> QED
      BY <2>1, <2>2
  <1>11. CASE item.kind # "status"
    <2>1. SameChanges /\ \A i \in Changes : store'[i] = store[i]
      BY <1>1, <1>5, <1>11, AsideChanges
    <2>2. \A q \in Pages : page[q].open => page'[q].open
      BY <1>1, <1>3
    <2>3. \A r \in Requests : SendOrder(r)'
      BY <1>2, <2>1, SendsSame
    <2>4. page'[p].shown = page[p].shown
      BY <1>1, <1>11
    <2>5. ViewOrder(p)'
      BY <1>1, <1>2, <2>1, <2>2, <2>4, AloneIs, ViewSame DEF Order
    <2> QED
      BY <1>1, <1>2, <1>8, <1>9, <1>10, <2>1, <2>2, <2>3, <2>5, OrderAside
  <1>12. CASE item.kind = "status"
    <2>1. Changes' = Changes \cup {n}
      <3>1. \A i \in Items : i \in Changes' <=> i \in Changes \/ i = n
        BY <1>1, <1>7, <1>12 DEF Changes, None
      <3> QED
        BY <1>1, <3>1 DEF Changes
    <2>2. item.seen = page[p].shown /\ page'[p].shown = item.want
      BY <1>1, <1>12
    <2>3. FirstOrder'
      <3>1. ASSUME NEW i \in Items, Oldest(i)'
            PROVE  store'[i].seen = task' \/ \E r \in Requests : Used(r)' /\ request'[r].i = i /\ request'[r].pc = "ok"
        <4>1. CASE i = n
          <5>1. \A k \in Changes : n <= k
            BY <2>1, <3>1, <4>1 DEF Oldest
          <5>2. Changes = {}
            BY <1>2, <1>6, <5>1
          <5>3. page[p].shown = task
            BY <1>3, <5>2 DEF Order, ViewOrder
          <5> QED
            BY <1>1, <1>2, <2>2, <4>1, <5>3
        <4>2. CASE i # n
          <5>1. Oldest(i)
            BY <2>1, <3>1, <4>2 DEF Oldest
          <5>2. store'[i] = store[i]
            BY <1>7, <4>2
          <5> QED
            BY <1>2, <5>1, <5>2 DEF Order, FirstOrder, Used
        <4> QED
          BY <4>1, <4>2
      <3> QED
        BY <3>1 DEF FirstOrder
    <2>4. LinkOrder'
      <3>1. ASSUME NEW i \in Items, NEW j \in Items, Follows(j, i)'
            PROVE  store'[j].seen = store'[i].want
        <4>1. /\ i \in Changes \cup {n} /\ j \in Changes \cup {n} /\ i < j
              /\ \A k \in Changes : ~(i < k /\ k < j)
          BY <2>1, <3>1 DEF Follows
        <4>2. i # n /\ i \in Changes /\ store'[i] = store[i]
          BY <1>2, <1>6, <4>1
        <4>3. CASE j = n
          <5>1. \A k \in Changes : k <= i
            BY <1>6, <4>1, <4>2, <4>3
          <5>2. Newest(i)
            BY <4>2, <5>1 DEF Newest
          <5>3. page[p].shown = store[i].want
            BY <1>3, <5>2 DEF Order, ViewOrder
          <5> QED
            BY <1>1, <2>2, <4>2, <4>3, <5>3
        <4>4. CASE j # n
          <5>1. j \in Changes /\ store'[j] = store[j]
            BY <1>6, <4>1, <4>4
          <5>2. Follows(j, i)
            BY <4>1, <4>2, <5>1 DEF Follows
          <5> QED
            BY <4>2, <5>1, <5>2 DEF Order, LinkOrder
        <4> QED
          BY <4>3, <4>4
      <3> QED
        BY <3>1 DEF LinkOrder
    <2>5. \A q \in Pages : ViewOrder(q)'
      <3>1. ASSUME NEW i \in Items, Newest(i)'
            PROVE  i = n
        <4>1. i \in Changes \cup {n} /\ n <= i
          BY <2>1, <3>1 DEF Newest
        <4> QED
          BY <1>2, <1>6, <4>1
      <3>2. \A q \in Pages \ {p} : ~page'[q].open
        BY <1>1, <1>3 DEF OnlyPage
      <3>3. Changes' # {}
        BY <2>1
      <3>4. ViewOrder(p)'
        BY <1>1, <2>2, <3>1, <3>3 DEF ViewOrder
      <3>5. \A q \in Pages \ {p} : ViewOrder(q)'
        BY <3>2 DEF ViewOrder, Alone
      <3> QED
        BY <3>4, <3>5
    <2>6. ASSUME NEW r \in Requests
          PROVE  SendOrder(r)'
      <3>1. CASE ~Used(r)
        BY <1>2, <3>1 DEF SendOrder, Used
      <3>2. CASE Used(r)
        <4>1. PICK i \in Items : i = request[r].i
          BY <3>2 DEF RequestsFit, RequestFits
        <4>2. i < n /\ i # n /\ i \in Nat /\ store'[i] = store[i]
          BY <1>4, <1>7, <3>2, <4>1
        <4>3. CASE request[r].item.kind = "status"
          <5>1. Oldest(i) /\ store[i] = request[r].item /\ request[r].pc \in {"sent", "checked", "ok"}
                /\ task = IF request[r].pc = "ok" THEN request[r].item.want ELSE request[r].item.seen
            BY <3>2, <4>1, <4>3 DEF Order, SendOrder
          <5>2. Oldest(i)'
            <6>1. i \in Changes /\ \A j \in Changes : i <= j
              BY <5>1 DEF Oldest
            <6>2. i <= n
              BY <1>2, <4>2
            <6> QED
              BY <2>1, <6>1, <6>2 DEF Oldest
          <5>3. request'[r] = request[r]
            BY <1>2
          <5> QED
            BY <1>2, <3>2, <4>1, <4>2, <4>3, <5>1, <5>2, <5>3, SendOnward
        <4>4. CASE request[r].item.kind # "status"
          <5>1. i \notin Changes'
            BY <2>1, <3>2, <4>1, <4>2, <4>4 DEF Order, SendOrder
          <5> QED
            BY <1>2, <4>1, <4>4, <5>1, SendAside
        <4> QED
          BY <4>3, <4>4
      <3> QED
        BY <3>1, <3>2
    <2> QED
      BY <1>8, <1>9, <1>10, <2>3, <2>4, <2>5, <2>6 DEF Order
  <1> QED
    BY <1>11, <1>12

\* A page starts with the oldest change, and only once.
LEMMA OrderSend ==
    ASSUME OfflineTypeOK, OfflineTypeOK', Copies, RequestsFit, ShutFits, Order, NEW p \in Pages, Send(p), crossed' = {}
    PROVE  Order'
  <1>0. PICK i \in Batch(p), item \in ItemTypes, c \in Requests : Sends(p, i, item, c)
    BY SendIs
  <1>1. /\ screen = "crew" => \A j \in Batch(p) : i <= j
        /\ item.state = "sending" /\ item.current = None /\ item.kind = page[p].batch[i].kind
        /\ item.seen = page[p].batch[i].seen /\ item.want = page[p].batch[i].want
        /\ OnlyItem(i) /\ store'[i] = item
        /\ request[c] = NoRequest
        /\ OnlyRequest(c) /\ Fields(request'[c], "sent", p, i, item, StepOf(item))
        /\ OnlyPage(p)
        /\ page'[p].open = page[p].open /\ page'[p].list = page[p].list
        /\ page'[p].batch = [page[p].batch EXCEPT ![i] = item] /\ page'[p].tried = page[p].tried
        /\ page'[p].shown = page[p].shown
        /\ crossed' = IF store[i] # page[p].batch[i] \/ (\E s \in Requests : request[s].i = i)
                      THEN crossed \cup {"pages"} ELSE crossed
    BY <1>0 DEF Sends
  <1>2. /\ i \in Items /\ page[p].batch[i].state # None /\ task' = task /\ written' = written /\ page[p].open
        /\ store[i] = page[p].batch[i] /\ \A s \in Requests : request[s].i # i
    <2>1. i \in Items /\ page[p].batch[i].state # None
      BY <1>1 DEF Batch
    <2>2. task' = task /\ written' = written
      BY DEF Send, server
    <2>3. page[p].open
      BY OpenIs DEF Send
    <2> QED
      BY <1>1, <2>1, <2>2, <2>3
  <1>3. \A j \in Items : j # i => store'[j] = store[j]
    BY <1>1 DEF OnlyItem
  <1>4. SameChanges
    <2>1. \A j \in Items : j \in Changes' <=> j \in Changes
      BY <1>1, <1>2, <1>3 DEF Changes, None
    <2>2. Changes' = Changes
      BY <2>1 DEF Changes
    <2>3. \A j \in Changes : store'[j].seen = store[j].seen /\ store'[j].want = store[j].want
      BY <1>1, <1>2, <1>3 DEF Changes
    <2> QED
      BY <2>2, <2>3 DEF SameChanges
  <1>5. QueueOrder'
    <2>1. \A j \in Items : store'[j].kind = "status" => store'[j].current = None
      BY <1>1, <1>3 DEF Order, QueueOrder
    <2>2. \A j \in Changes' : store'[j].state \in {"queued", "sending"}
      BY <1>1, <1>3 DEF Order, QueueOrder, Changes
    <2> QED
      BY <1>2, <2>1, <2>2 DEF Order, QueueOrder
  <1>6. \A q \in Pages : page[q].open => page'[q].open
    BY <1>1 DEF OnlyPage
  <1>7. request'[c].page = p /\ request'[c].i = i /\ request'[c].item = item /\ request'[c].pc = "sent"
    BY <1>1 DEF Fields
  <1>8. CallsOrder'
    <2>1. \A r \in Requests : Used(r)' => request'[r].page # Absent
      BY <1>1, <1>7, AbsentAssumption DEF Order, CallsOrder, OnlyRequest, Used
    <2>2. ~ \A q \in Pages : ~page'[q].open
      BY <1>2, <1>6
    <2> QED
      BY <2>1, <2>2 DEF CallsOrder
  <1>9. PageOrder(p)'
    <2>1. \A j \in Items : j \in Batch(p)' <=> j \in Batch(p)
      BY <1>1, <1>2, BatchSame DEF None
    <2>2. PageOrder(p)
      BY DEF Order
    <2>3. \A j \in Changes' : j \in Changes /\ j \in Items
      BY <1>4 DEF SameChanges, Changes
    <2>4. \A j \in Batch(p)' : j \in Items
      BY DEF Batch
    <2> QED
      BY <1>1, <1>5, <2>1, <2>2, <2>3, <2>4, AsidePage
  <1>10. ViewOrder(p)'
    BY <1>1, <1>2, <1>4, <1>6, AloneIs, ViewSame DEF Order
  <1>11. SendOrder(c)'
    <2>1. CASE item.kind = "status"
      <3>1. i \in Changes /\ screen = "crew"
        BY ZenonT(30), <1>1, <1>2, <2>1, ChangesAre DEF Changes
      <3>2. Oldest(i)
        <4>1. ASSUME NEW k \in Changes
              PROVE  i <= k
          <5>1. k \in Nat /\ i \in Nat
            BY <3>1, ChangesAre
          <5>2. k < i => k \in Batch(p)
            BY <1>1, <1>2 DEF Order, PageOrder
          <5> QED
            BY <1>1, <3>1, <5>1, <5>2
        <4> QED
          BY <3>1, <4>1 DEF Oldest
      <3>3. store[i].seen = task
        BY <1>2, <3>2 DEF Order, FirstOrder
      <3>4. Oldest(i)'
        BY <1>2, <1>4, <3>2, OldestIs
      <3> QED
        BY <1>1, <1>2, <1>7, <2>1, <3>3, <3>4, SendOnward
    <2>2. CASE item.kind # "status"
      <3>1. i \notin Changes'
        BY <1>1, <2>2 DEF Changes
      <3> QED
        BY <1>7, <2>2, <3>1, SendAside
    <2> QED
      BY <2>1, <2>2
  <1>12. ASSUME NEW r \in Requests, r # c
         PROVE  SendOrder(r)'
    <2>1. request'[r] = request[r]
      BY <1>1, <1>12 DEF OnlyRequest
    <2>2. CASE ~Used(r)
      BY <2>1, <2>2 DEF SendOrder, Used
    <2>3. CASE Used(r)
      <3>1. PICK k \in Items : k = request[r].i
        BY <2>3 DEF RequestsFit, RequestFits
      <3>2. k # i /\ store'[k] = store[k]
        BY <1>2, <1>3, <3>1
      <3>3. CASE request[r].item.kind = "status"
        <4>1. Oldest(k) /\ store[k] = request[r].item /\ request[r].pc \in {"sent", "checked", "ok"}
              /\ task = IF request[r].pc = "ok" THEN request[r].item.want ELSE request[r].item.seen
          BY <2>3, <3>1, <3>3 DEF Order, SendOrder
        <4>2. Oldest(k)'
          BY <1>4, <4>1, OldestIs
        <4> QED
          BY <1>2, <2>1, <3>1, <3>2, <3>3, <4>1, <4>2, SendOnward
      <3>4. CASE request[r].item.kind # "status"
        <4>1. k \notin Changes'
          BY <1>4, <2>3, <3>1, <3>4 DEF Order, SendOrder, SameChanges
        <4> QED
          BY <2>1, <3>1, <3>4, <4>1, SendAside
      <3> QED
        BY <3>3, <3>4
    <2> QED
      BY <2>2, <2>3
  <1>13. \A r \in Requests : Used(r) => request'[r] = request[r]
    BY <1>1, BlankIsTyped DEF OnlyRequest, Used
  <1> QED
    BY <1>1, <1>2, <1>4, <1>5, <1>6, <1>8, <1>9, <1>10, <1>11, <1>12, <1>13, OrderAside

\* On the screen that captures estimates there is no change to put in order.
LEMMA PageIdle ==
    ASSUME NEW p \in Pages, PageOrder(p), QueueOrder', Changes' = {},
           page'[p].list = page[p].list \/ page'[p].list = store'
    PROVE  PageOrder(p)'
  <1>1. \A i \in Items : page'[p].list[i].kind = "status" => page'[p].list[i].current = None
    <2>1. CASE page'[p].list = page[p].list
      BY <2>1 DEF PageOrder
    <2>2. CASE page'[p].list = store'
      BY <2>2 DEF QueueOrder
    <2> QED
      BY <2>1, <2>2
  <1> QED
    BY <1>1 DEF PageOrder

LEMMA OrderNextStep ==
    ASSUME OfflineTypeOK, OfflineTypeOK', Copies, RequestsFit, LinksFit, Order, NEW p \in Pages, NextStep(p)
    PROVE  Order'
  <1>1. PICK r \in Requests, i \in Items, item \in ItemTypes, step \in {"lines", "calculate"} :
           /\ r = page[p].request /\ i = request[r].i /\ request[r].step \in {"create", "lines"} /\ Used(r)
           /\ item.kind = request[r].item.kind
           /\ OnlyItem(i) /\ store'[i] = IF request[r].step = "create" THEN item ELSE store[i]
           /\ OnlyRequest(r)
           /\ Fields(request'[r], "sent", request[r].page, i, item, step)
           /\ OnlyPage(p)
           /\ page'[p].open = page[p].open /\ page'[p].list = page[p].list
           /\ page'[p].shown = page[p].shown
    BY NextStepIs
  <1>2. request[r].item.kind = "estimate" /\ Copy(request[r].item, i) /\ request[r].item.state # None
    BY <1>1 DEF RequestsFit, RequestFits, None
  <1>3. screen = "capture"
    BY <1>2 DEF Copy, ScreenOf
  <1>4. Changes = {}
    BY SMTT(30), <1>3, CaptureHasNone
  <1>5. SameChanges /\ \A j \in Changes : store'[j] = store[j]
    BY <1>1, <1>2, <1>4, AsideChanges DEF Changes
  <1>6. Changes' = {}
    BY SMTT(30), <1>4, <1>5 DEF SameChanges
  <1>7. task' = task /\ written' = written
    BY Zenon DEF NextStep, server, history
  <1>8. QueueOrder'
    BY <1>1, <1>2, <1>5, <1>7, AsideQueue DEF Order
  <1>9. \A q \in Pages : page[q].open => page'[q].open
    BY <1>1 DEF OnlyPage
  <1>10. request'[r].page = request[r].page /\ request'[r].i = i /\ request'[r].item = item
    BY <1>1 DEF Fields
  <1>11. CallsOrder'
    <2>1. request[r].page # Absent /\ \A s \in Requests \ {r} : request'[s] = request[s]
      BY <1>1 DEF Order, CallsOrder, OnlyRequest
    <2> QED
      BY <1>1, <1>7, <1>9, <1>10, <2>1, CallsSame DEF Order
  <1>12. PageOrder(p)'
    BY <1>1, <1>6, <1>8, PageIdle DEF Order
  <1>13. ViewOrder(p)'
    BY SMTT(30), <1>1, <1>5, <1>7, <1>9, AloneIs, ViewSame DEF Order
  <1>14. SendOrder(r)'
    BY SMTT(30), <1>1, <1>2, <1>6, <1>10, SendAside
  <1>15. \A s \in Requests \ {r} : SendOrder(s)'
    BY <1>1, <1>5, <1>7, SendSame DEF Order, OnlyRequest, RequestsFit, RequestFits
  <1> QED
    BY <1>1, <1>4, <1>5, <1>7, <1>8, <1>9, <1>11, <1>12, <1>13, <1>14, <1>15, OrderAside

\* The answer to the oldest change takes it off the queue, and the next one is in its place.
LEMMA OrderSettle ==
    ASSUME OfflineTypeOK, OfflineTypeOK', Copies, RequestsFit, LinksFit, Order, Single, crossed = {},
           NEW p \in Pages, Settle(p)
    PROVE  Order'
  <1>1. PICK item \in ItemTypes, i \in Items, r \in Requests :
           /\ r = page[p].request /\ i = request[r].i /\ Used(r) /\ request[r].pc \in {"ok", "conflict", "refused"}
           /\ item.kind = request[r].item.kind
           /\ OnlyItem(i) /\ store'[i] = IF request[r].pc = "ok" THEN NoItem ELSE item
           /\ OnlyRequest(r) /\ request'[r] = NoRequest
           /\ LoopGoesOn(p, i)
           /\ page'[p].shown = IF request[r].pc = "conflict" /\ request[r].item.kind = "status"
                               THEN request[r].answer ELSE page[p].shown
    BY SettleIs
  <1>2. /\ task' = task /\ written' = written /\ OnlyPage(p) /\ page'[p].open = page[p].open
        /\ (page'[p].list = page[p].list \/ page'[p].list = store') /\ page'[p].tried = page[p].tried
        /\ page'[p].batch = [page[p].batch EXCEPT ![i] = NoItem]
    BY Zenon, <1>1 DEF Settle, server, history, LoopGoesOn
  <1>3. /\ \A j \in Items \ {i} : j \in Batch(p)' <=> j \in Batch(p)
        /\ i \notin Batch(p)'
    BY <1>2, BatchSame, BlankIsTyped
  <1>4. \A j \in Items : j # i => store'[j] = store[j]
    BY <1>1 DEF OnlyItem
  <1>5. \A q \in Pages : page[q].open => page'[q].open
    BY <1>2 DEF OnlyPage
  <1>6. \A s \in Requests \ {r} : request'[s] = request[s]
    BY <1>1 DEF OnlyRequest
  <1>7. CallsOrder'
    BY <1>1, <1>2, <1>5, <1>6, CallsSame DEF Order
  <1>8. SendOrder(r)'
    BY <1>1, SendFree
  <1>9. ASSUME \A j \in Changes' : j \in Changes /\ j # i, QueueOrder'
        PROVE  PageOrder(p)'
    <2>1. \A j \in Changes' : j \in Items
      BY DEF Changes
    <2>2. \A j \in Batch(p)' : j \in Items
      BY DEF Batch
    <2> QED
      BY <1>2, <1>3, <1>9, <2>1, <2>2, AsidePage DEF Order
  <1>10. CASE request[r].item.kind # "status"
    <2>1. i \notin Changes
      BY <1>1, <1>10 DEF Order, SendOrder
    <2>2. store'[i].kind # "status"
      BY <1>1, <1>10, BlankIsTyped
    <2>3. SameChanges /\ \A j \in Changes : store'[j] = store[j]
      BY <1>1, <2>1, <2>2, AsideChanges
    <2>4. QueueOrder'
      BY <1>1, <1>2, <2>2, <2>3, AsideQueue DEF Order
    <2>5. PageOrder(p)'
      BY <1>9, <2>1, <2>3, <2>4 DEF SameChanges
    <2>6. page'[p].shown = page[p].shown
      BY <1>1, <1>10
    <2>7. ViewOrder(p)'
      BY <1>2, <1>5, <2>3, <2>6, AloneIs, ViewSame DEF Order
    <2>8. \A s \in Requests \ {r} : SendOrder(s)'
      BY <1>2, <1>6, <2>3, SendSame DEF Order, RequestsFit, RequestFits
    <2> QED
      BY <1>1, <1>2, <1>5, <1>6, <1>7, <1>8, <2>1, <2>3, <2>4, <2>5, <2>7, <2>8, OrderAside
  <1>11. CASE request[r].item.kind = "status"
    <2>1. /\ Oldest(i) /\ i \in Changes /\ store[i] = request[r].item /\ request[r].pc = "ok"
          /\ task = store[i].want
      BY <1>1, <1>11 DEF Order, SendOrder, Oldest
    <2>2. store'[i] = NoItem /\ page'[p].shown = page[p].shown
      BY <1>1, <2>1
    <2>3. Changes' = Changes \ {i}
      <3>1. \A j \in Items : j \in Changes' <=> j \in Changes /\ j # i
        BY <1>4, <2>2, BlankIsTyped DEF Changes
      <3> QED
        BY <3>1 DEF Changes
    <2>4. \A j \in Changes : j \in Items /\ j \in Nat /\ i <= j /\ i \in Nat
      BY <2>1, ChangesAre DEF Oldest
    <2>5. QueueOrder'
      <3>1. \A j \in Items : store'[j].kind = "status" => store'[j].current = None
        BY <1>4, <2>2, BlankIsTyped DEF Order, QueueOrder
      <3>2. \A j \in Changes' : store'[j].state \in {"queued", "sending"}
        BY <1>4, <2>3, <2>4 DEF Order, QueueOrder
      <3> QED
        BY <1>2, <3>1, <3>2 DEF Order, QueueOrder
    <2>6. \A q \in Pages : PageOrder(q)'
      <3>1. PageOrder(p)'
        BY <1>9, <2>3, <2>5
      <3>2. \A q \in Pages \ {p} : PageOrder(q)'
        BY <1>2, <2>3, PageSame DEF Order, OnlyPage
      <3> QED
        BY <3>1, <3>2
    <2>7. FirstOrder'
      <3>1. ASSUME NEW k \in Items, Oldest(k)'
            PROVE  store'[k].seen = task'
        <4>1. k \in Changes /\ k # i /\ \A j \in Changes : j # i => k <= j
          BY <2>3, <3>1 DEF Oldest
        <4>2. i < k /\ \A j \in Changes : ~(i < j /\ j < k)
          BY <2>4, <4>1
        <4>3. Follows(k, i)
          BY <2>1, <4>1, <4>2 DEF Follows
        <4>4. store[k].seen = store[i].want
          BY <4>3 DEF Order, LinkOrder
        <4> QED
          BY <1>2, <1>4, <2>1, <4>1, <4>4
      <3> QED
        BY <3>1 DEF FirstOrder
    <2>8. LinkOrder'
      <3>1. ASSUME NEW k \in Items, NEW j \in Items, Follows(j, k)'
            PROVE  store'[j].seen = store'[k].want
        <4>1. /\ k \in Changes /\ j \in Changes /\ k # i /\ j # i /\ k < j
              /\ \A m \in Changes : m # i => ~(k < m /\ m < j)
          BY <2>3, <3>1 DEF Follows
        <4>2. ~(k < i)
          BY <2>4, <4>1
        <4>3. Follows(j, k)
          BY <4>1, <4>2 DEF Follows
        <4> QED
          BY <1>4, <4>1, <4>3 DEF Order, LinkOrder
      <3> QED
        BY <3>1 DEF LinkOrder
    <2>9. ASSUME NEW q \in Pages
          PROVE  ViewOrder(q)'
      <3> SUFFICES ASSUME Alone(q)'
                   PROVE  /\ Changes' = {} => page'[q].shown = task'
                          /\ \A k \in Items : Newest(k)' => page'[q].shown = store'[k].want
        BY DEF ViewOrder
      <3>1. Alone(q) /\ page'[q].shown = page[q].shown
        BY <1>2, <1>5, <2>2, AloneIs DEF OnlyPage
      <3>2. \A k \in Items : Newest(k) => page[q].shown = store[k].want
        BY <3>1 DEF Order, ViewOrder
      <3>3. ASSUME Changes' = {} PROVE page[q].shown = task
        <4>1. \A j \in Changes : j <= i
          BY <2>3, <2>4, <3>3
        <4>2. Newest(i)
          BY <2>1, <4>1 DEF Newest
        <4> QED
          BY <2>1, <3>2, <4>2
      <3>4. ASSUME NEW k \in Items, Newest(k)' PROVE page[q].shown = store'[k].want
        <4>1. k \in Changes /\ k # i /\ \A j \in Changes : j # i => j <= k
          BY <2>3, <3>4 DEF Newest
        <4>2. i <= k
          BY <2>4, <4>1
        <4>3. Newest(k)
          BY <4>1, <4>2 DEF Newest
        <4> QED
          BY <1>4, <3>2, <4>1, <4>3
      <3> QED
        BY <1>2, <3>1, <3>3, <3>4
    <2>10. ASSUME NEW s \in Requests, s # r
           PROVE  SendOrder(s)'
      <3>1. request'[s] = request[s]
        BY <1>6, <2>10
      <3>2. CASE ~Used(s)
        BY <3>1, <3>2 DEF SendOrder, Used
      <3>3. CASE Used(s)
        <4>1. PICK k \in Items : k = request[s].i
          BY <3>3 DEF RequestsFit, RequestFits
        <4>2. k # i
          BY <1>1, <2>10, <3>3, <4>1 DEF Single
        <4>3. request[s].item.kind # "status"
          BY <2>1, <3>3, <4>1, <4>2, SendsAreOne DEF Order, SendOrder
        <4>4. k \notin Changes'
          BY <2>3, <3>3, <4>1, <4>3 DEF Order, SendOrder
        <4> QED
          BY <3>1, <4>1, <4>3, <4>4, SendAside
      <3> QED
        BY <3>2, <3>3
    <2> QED
      BY <1>7, <1>8, <2>5, <2>6, <2>7, <2>8, <2>9, <2>10 DEF Order
  <1> QED
    BY <1>10, <1>11

\* No decision is to be made about a change.
LEMMA OrderDecision ==
    ASSUME OfflineTypeOK, OfflineTypeOK', Copies, RequestsFit, LinksFit, ShutFits, Order, NEW p \in Pages, NEW i \in Items,
           ApplyAnyway(p, i) \/ AdoptRates(p, i) \/ SendNow(p, i) \/ Discard(p, i)
    PROVE  Order'
  <1> DEFINE old == page[p].list[i]
  <1>1. request' = request /\ task' = task /\ written' = written /\ page[p].open
    <2>1. request' = request /\ task' = task /\ written' = written
      BY SMTT(30) DEF ApplyAnyway, AdoptRates, SendNow, Discard, server, history
    <2>2. Shown(p) # {}
      BY DEF ApplyAnyway, AdoptRates, SendNow, Discard, Parked
    <2> QED
      BY SMTT(30), <2>1, <2>2, OpenIs
  <1>2. old.kind = "status" => old.current = None
    BY DEF Order, PageOrder
  <1>3. ~ApplyAnyway(p, i)
    BY <1>2 DEF ApplyAnyway
  <1>4. Parked(p, i) => i \notin Changes
    BY <1>1 DEF Order, PageOrder, Parked
  <1>5. old.state # None /\ old.kind = "estimate" => Changes = {}
    <2>1. old.state # None /\ old.kind = "estimate" => screen = "capture"
      BY DEF Copies, Copy, ScreenOf
    <2> QED
      BY SMTT(30), <2>1, CaptureHasNone
  <1>6. ASSUME SameChanges, \A j \in Changes : store'[j] = store[j], QueueOrder', OnlyPage(p), PageOrder(p)',
               page'[p].open = page[p].open, page'[p].shown = page[p].shown
        PROVE  Order'
    <2>1. \A q \in Pages : page[q].open => page'[q].open
      BY <1>6 DEF OnlyPage
    <2>2. CallsOrder'
      BY <1>1, <2>1, CallsSame DEF Order
    <2>3. ViewOrder(p)'
      BY <1>1, <1>6, <2>1, AloneIs, ViewSame DEF Order
    <2>4. \A r \in Requests : SendOrder(r)'
      BY <1>1, <1>6, SendsSame
    <2> QED
      BY <1>1, <1>6, <2>1, <2>2, <2>3, <2>4, OrderAside
  <1>7. CASE AdoptRates(p, i)
    <2>1. PICK item \in ItemTypes :
           /\ old.state = "needs_attention" /\ old.kind = "estimate" /\ item.kind = old.kind
           /\ OnlyItem(i) /\ store'[i] = item
           /\ OnlyPage(p) /\ page'[p].open = page[p].open /\ page'[p].list = store'
           /\ page'[p].shown = page[p].shown
      BY <1>7, AdoptRatesIs DEF PutsBack
    <2>2. Changes = {}
      BY <1>5, <2>1 DEF None
    <2>3. SameChanges /\ \A j \in Changes : store'[j] = store[j]
      BY <2>1, <2>2, AsideChanges
    <2>4. QueueOrder'
      BY <1>1, <2>1, <2>3, AsideQueue DEF Order
    <2>5. PageOrder(p)'
      BY <2>1, <2>2, <2>3, <2>4, PageIdle DEF Order, SameChanges
    <2> QED
      BY <1>6, <2>1, <2>3, <2>4, <2>5
  <1>8. CASE SendNow(p, i)
    <2>1. /\ screen = "capture" /\ store' = store /\ OnlyPage(p)
          /\ page'[p].open = page[p].open /\ page'[p].list = page[p].list /\ page'[p].shown = page[p].shown
      BY <1>8, SendNowIs DEF SendNow
    <2>2. Changes = {}
      BY <2>1, CaptureHasNone
    <2>3. SameChanges /\ \A j \in Changes : store'[j] = store[j]
      BY <2>1, StoreChanges
    <2>4. QueueOrder'
      BY <1>1, <2>1, StoreQueue DEF Order
    <2>5. PageOrder(p)'
      BY <2>1, <2>2, <2>3, <2>4, PageIdle DEF Order, SameChanges
    <2> QED
      BY <1>6, <2>1, <2>3, <2>4, <2>5
  <1>9. CASE Discard(p, i)
    <2>1. /\ old.state # None /\ (old.kind # "estimate" => Parked(p, i))
          /\ OnlyItem(i) /\ store'[i] = NoItem /\ OnlyPage(p)
          /\ page'[p].open = page[p].open /\ page'[p].list = store' /\ page'[p].batch = page[p].batch
          /\ page'[p].tried = page[p].tried
          /\ page'[p].shown = IF old.kind = "status" /\ old.current # None THEN old.current ELSE page[p].shown
      BY <1>9, DiscardIs
    <2>2. i \notin Changes
      BY <1>4, <1>5, <2>1
    <2>3. SameChanges /\ \A j \in Changes : store'[j] = store[j]
      BY <2>1, <2>2, BlankIsTyped, AsideChanges
    <2>4. QueueOrder'
      BY <1>1, <2>1, <2>3, BlankIsTyped, AsideQueue DEF Order
    <2>5. \A j \in Items : j \in Batch(p)' <=> j \in Batch(p)
      BY <2>1 DEF Batch
    <2>6. PageOrder(p)'
      <3>1. (\A j \in Changes' : j \in Changes /\ j \in Items) /\ \A j \in Batch(p)' : j \in Items
        BY <2>3 DEF SameChanges, Changes, Batch
      <3> QED
        BY <2>1, <2>4, <2>5, <3>1, AsidePage DEF Order
    <2>7. page'[p].shown = page[p].shown
      BY <1>2, <2>1
    <2> QED
      BY <1>6, <2>1, <2>3, <2>4, <2>6, <2>7
  <1> QED
    BY <1>3, <1>7, <1>8, <1>9

\* The server answers a call about something else, or goes on with one for the oldest change.
LEMMA OrderReply ==
    ASSUME OfflineTypeOK, OfflineTypeOK', Copies, RequestsFit, Order, NEW r \in Requests, NEW pc, Replies(r, pc),
           page' = page, store' = store, task' = task, written' = written,
           request[r].item.kind = "status" => pc = "checked" /\ request[r].pc = "sent"
    PROVE  Order'
  <1>1. PICK i \in Items : i = request[r].i
    BY DEF RequestsFit, RequestFits, Replies
  <1>2. /\ Used(r) /\ OnlyRequest(r) /\ request'[r].pc = pc /\ request'[r].page = request[r].page /\ request'[r].i = i
        /\ request'[r].item = request[r].item
    BY <1>1 DEF Replies, Fields
  <1>3. SameChanges /\ \A j \in Changes : store'[j] = store[j]
    BY StoreChanges
  <1>4. QueueOrder'
    BY StoreQueue DEF Order
  <1>5. \A s \in Requests \ {r} : request'[s] = request[s]
    BY <1>2 DEF OnlyRequest
  <1>6. CallsOrder'
    <2>1. request[r].page # Absent
      BY <1>2 DEF Order, CallsOrder
    <2>2. \A s \in Requests : request'[s] = NoRequest \/ (Used(s) /\ request'[s].page # Absent) \/ request'[s] = request[s]
      BY <1>2, <1>5, <2>1
    <2> QED
      BY <2>2, CallsSame DEF Order
  <1>7. \A q \in Pages : PageOrder(q)' /\ ViewOrder(q)'
    BY <1>3, PageSame, ViewSame, AloneIs DEF Order, SameChanges
  <1>8. SendOrder(r)' /\ (request[r].i \in Changes /\ request[r].pc = "ok" => FALSE)
    <2>1. CASE request[r].item.kind # "status"
      <3>1. i \notin Changes
        BY <1>1, <1>2, <2>1 DEF Order, SendOrder
      <3> QED
        BY <1>1, <1>2, <1>3, <2>1, <3>1, SendAside DEF SameChanges
    <2>2. CASE request[r].item.kind = "status"
      <3>1. Oldest(i) /\ store[i] = request[r].item /\ task = request[r].item.seen
        BY <1>1, <1>2, <2>2 DEF Order, SendOrder
      <3>2. Oldest(i)'
        BY <1>3, <3>1, OldestIs
      <3> QED
        BY <1>2, <2>2, <3>1, <3>2, SendOnward
    <2> QED
      BY <2>1, <2>2
  <1>9. \A s \in Requests \ {r} : SendOrder(s)'
    BY <1>3, <1>5, SendSame DEF Order, RequestsFit, RequestFits
  <1>10. FirstOrder' /\ LinkOrder'
    BY <1>3, <1>5, <1>8, ChainSame DEF Order
  <1> QED
    BY <1>4, <1>6, <1>7, <1>8, <1>9, <1>10 DEF Order

\* The task takes the status of the oldest change.
LEMMA OrderCommit ==
    ASSUME OfflineTypeOK, OfflineTypeOK', Copies, RequestsFit, Order, Single, crossed = {},
           NEW r \in Requests, Commit(r), request[r].item.kind = "status"
    PROVE  Order'
  <1>1. PICK i \in Items : i = request[r].i
    BY CommitIs
  <1>2. /\ Used(r) /\ OnlyRequest(r) /\ request'[r].pc = "ok" /\ request'[r].page = request[r].page /\ request'[r].i = i
        /\ request'[r].item = request[r].item
        /\ task' = IF task = "gone" THEN task ELSE request[r].item.want
    BY <1>1, CommitIs DEF Replies, Fields
  <1>3. store' = store /\ page' = page /\ written' = written
    BY DEF Commit
  <1>4. Oldest(i) /\ i \in Changes /\ store[i] = request[r].item
    BY <1>1, <1>2 DEF Order, SendOrder, Oldest
  <1>5. task' = store[i].want /\ task' \in Statuses
    <2>1. task # "gone"
      BY StatusAssumption DEF Order, QueueOrder
    <2> QED
      BY <1>2, <1>4, <2>1, ChangesAre
  <1>6. SameChanges /\ \A j \in Changes : store'[j] = store[j]
    BY <1>3, StoreChanges
  <1>7. QueueOrder'
    BY <1>3, <1>5, <1>6 DEF Order, QueueOrder, SameChanges
  <1>8. \A s \in Requests \ {r} : request'[s] = request[s]
    BY <1>2 DEF OnlyRequest
  <1>9. CallsOrder'
    <2>1. request[r].page # Absent
      BY <1>2 DEF Order, CallsOrder
    <2>2. \A s \in Requests : request'[s] = NoRequest \/ (Used(s) /\ request'[s].page # Absent) \/ request'[s] = request[s]
      BY <1>2, <1>8, <2>1
    <2> QED
      BY <1>3, <2>2, CallsSame DEF Order
  <1>10. \A q \in Pages : PageOrder(q)' /\ ViewOrder(q)'
    <2>1. \A q \in Pages : PageOrder(q)'
      BY <1>3, <1>6, PageSame DEF Order, SameChanges
    <2>2. \A q \in Pages : ViewOrder(q)'
      BY <1>3, <1>4, <1>6, ViewSame, AloneIs DEF Order
    <2> QED
      BY <2>1, <2>2
  <1>11. SendOrder(r)'
    <2>1. Oldest(i)'
      BY <1>4, <1>6, OldestIs
    <2> QED
      BY <1>2, <1>3, <1>4, <1>5, <2>1, SendOnward
  <1>12. ASSUME NEW s \in Requests, s # r
         PROVE  SendOrder(s)'
    <2>1. request'[s] = request[s]
      BY <1>8, <1>12
    <2>2. CASE ~Used(s)
      BY <2>1, <2>2 DEF SendOrder, Used
    <2>3. CASE Used(s)
      <3>1. PICK k \in Items : k = request[s].i
        BY <2>3 DEF RequestsFit, RequestFits
      <3>2. k # i
        BY <1>1, <1>2, <1>12, <2>3, <3>1 DEF Single
      <3>3. request[s].item.kind # "status"
        BY <1>4, <2>3, <3>1, <3>2, SendsAreOne DEF Order, SendOrder
      <3>4. k \notin Changes'
        BY <1>6, <2>3, <3>1, <3>3 DEF Order, SendOrder, SameChanges
      <3> QED
        BY <2>1, <3>1, <3>3, <3>4, SendAside
    <2> QED
      BY <2>2, <2>3
  <1>13. FirstOrder'
    <2>1. ASSUME NEW k \in Items, Oldest(k)'
          PROVE  \E s \in Requests : Used(s)' /\ request'[s].i = k /\ request'[s].pc = "ok"
      <3>1. k = i
        BY <1>4, <1>6, <2>1, OldestIs, SendsAreOne
      <3> QED
        BY <1>2, <3>1 DEF Used
    <2> QED
      BY <2>1 DEF FirstOrder
  <1>14. LinkOrder'
    BY <1>3, <1>6, OldestIs DEF Order, LinkOrder
  <1> QED
    BY <1>7, <1>9, <1>10, <1>11, <1>12, <1>13, <1>14 DEF Order

LEMMA OrderServer ==
    ASSUME OfflineTypeOK, OfflineTypeOK', Copies, RequestsFit, Order, Single, crossed = {}, NEW r \in Requests, Serve(r)
    PROVE  Order'
  <1> DEFINE x == request[r]
  <1>1. page' = page /\ store' = store /\ written' = written
    BY DEF Serve, Check, Commit, CreateEstimate, ReplaceLines, Calculate, history
  <1>2. CASE Check(r)
    <2>1. task' = task
      BY <1>2 DEF Check, server
    <2>2. x.pc = "sent" /\ Used(r) /\ x.item.kind # "estimate"
      BY <1>2, CheckIs
    <2>3. CASE x.item.kind = "status"
      <3>1. task = x.item.seen /\ task # "gone"
        BY <2>2, <2>3, StatusAssumption DEF Order, SendOrder, QueueOrder
      <3>2. Replies(r, "checked")
        BY <1>2, <2>3, <3>1, CheckIs
      <3> QED
        BY <1>1, <2>1, <2>2, <3>2, OrderReply
    <2>4. CASE x.item.kind # "status"
      <3>1. \E pc \in {"ok", "checked"} : Replies(r, pc)
        BY <1>2, <2>4, CheckIs
      <3> QED
        BY <1>1, <2>1, <2>4, <3>1, OrderReply
    <2> QED
      BY <2>3, <2>4
  <1>3. CASE Commit(r)
    <2>1. CASE x.item.kind = "status"
      BY <1>3, <2>1, OrderCommit
    <2>2. CASE x.item.kind # "status"
      <3>1. task' = task /\ \E pc \in {"ok", "refused"} : Replies(r, pc)
        BY <1>3, <2>2, CommitIs
      <3> QED
        BY <1>1, <2>2, <3>1, OrderReply
    <2> QED
      BY <2>1, <2>2
  <1>4. CASE CreateEstimate(r) \/ ReplaceLines(r) \/ Calculate(r)
    <2>1. task' = task
      BY <1>4 DEF CreateEstimate, ReplaceLines, Calculate
    <2>2. x.item.kind # "status" /\ \E pc \in {"ok", "refused", "conflict"} : Replies(r, pc)
      BY <1>4, CreateEstimateIs, ReplaceLinesIs, CalculateIs
    <2> QED
      BY <1>1, <2>1, <2>2, OrderReply
  <1> QED
    BY <1>2, <1>3, <1>4 DEF Serve

\* A step of the rate, or none.
LEMMA OrderStill ==
    ASSUME OfflineTypeOK, Copies, RequestsFit, Order, UNCHANGED <<store, page, request, task, written>>
    PROVE  Order'
  <1>1. SameChanges /\ \A j \in Changes : store'[j] = store[j]
    BY StoreChanges
  <1>2. QueueOrder' /\ CallsOrder' /\ FirstOrder' /\ LinkOrder'
    BY <1>1, StoreQueue, CallsSame, ChainSame DEF Order
  <1>3. \A p \in Pages : PageOrder(p)' /\ ViewOrder(p)'
    BY <1>1, PageSame, ViewSame, AloneIs DEF Order, SameChanges
  <1>4. \A r \in Requests : SendOrder(r)'
    BY <1>1, SendsSame
  <1> QED
    BY <1>2, <1>3, <1>4 DEF Order

LEMMA OrderNext ==
    ASSUME OfflineTypeOK, OfflineTypeOK', Grows, Copies, RequestsFit, LinksFit, ShutFits, Single, InOrder,
           [NextOffline]_ovars
    PROVE  InOrder'
  <1> SUFFICES ASSUME Calm' PROVE Order'
    BY DEF InOrder
  <1>1. office' = 0 /\ mishaps' = 0 /\ crossed' = {}
    BY DEF Calm
  <1>2. office = 0 /\ mishaps = 0 /\ crossed = {}
    BY <1>1 DEF Grows, OfflineTypeOK
  <1>3. Order
    BY <1>2 DEF InOrder, Calm
  <1>4. ASSUME NEW p \in Pages, OpenPage(p) \/ FetchTasks(p) \/ ShowTasks(p) \/ Prime(p) \/ Write(p) \/ Loop(p)
        PROVE  Order'
    <2>1. CASE Prime(p)
      <3>1. UNCHANGED <<store, page, request, task, written>>
        BY <2>1 DEF Prime, server, history
      <3> QED
        BY <1>3, <3>1, OrderStill
    <2> QED
      BY <1>1, <1>2, <1>3, <1>4, <2>1, OrderOpenPage, OrderFetchTasks, OrderShowTasks, OrderWrite, OrderStartSending, OrderSend,
         OrderNextStep, OrderSettle, OrderTick DEF Loop
  <1>5. ASSUME NEW p \in Pages
        PROVE  ~Defer(p) /\ ~ClosePage(p)
    BY <1>1, <1>2 DEF Defer, ClosePage, Mishap
  <1>6. ASSUME NEW r \in Requests
        PROVE  ~Refuse(r) /\ ~Vanish(r)
    <2>1. ~Refuse(r)
      BY <1>1, <1>2 DEF Refuse, Mishap
    <2>2. ~Vanish(r)
      BY <1>3, VanishIs DEF Order, CallsOrder
    <2> QED
      BY <2>1, <2>2
  <1>7. ~OfficeSetsStatus /\ ~OfficeSetsRate
    BY <1>1, <1>2 DEF OfficeSetsStatus, OfficeSetsRate, Office
  <1>8. CASE UNCHANGED ovars
    <2>1. UNCHANGED <<store, page, request, task, written>>
      BY <1>8 DEF ovars, server, history
    <2> QED
      BY <1>3, <2>1, OrderStill
  <1> QED
    BY <1>2, <1>3, <1>4, <1>5, <1>6, <1>7, <1>8, OrderDecision, OrderServer DEF NextOffline

-----------------------------------------------------------------------------
(* The theorems.                                                           *)

\* A device without writings is in order.
LEMMA OInvInit == InitOffline => OInv
  <1> SUFFICES ASSUME InitOffline PROVE OInv
    OBVIOUS
  <1>1. /\ screen \in Screens /\ store = [i \in Items |-> NoItem] /\ cached = "old" /\ page = [p \in Pages |-> Closed]
        /\ request = [r \in Requests |-> NoRequest] /\ task = "open" /\ rate = "old" /\ logs = [i \in Items |-> 0]
        /\ estimate = [e \in Estimates |-> NoEstimate] /\ office = 0 /\ decisions = 0 /\ mishaps = 0 /\ written = 0
        /\ settled = [applied |-> {}, discarded |-> {}] /\ agreed = {} /\ parked = {} /\ crossed = {}
    BY DEF InitOffline
  <1>2. /\ \A i \in Items : store[i] = NoItem /\ logs[i] = 0
        /\ \A p \in Pages : page[p] = Closed
        /\ \A r \in Requests : request[r] = NoRequest
        /\ \A e \in Estimates : estimate[e] = NoEstimate
    BY <1>1
  <1>3. NoEstimate.draft = 0 /\ NoEstimate.rate = None /\ NoEstimate \in EstimateTypes
    BY CapAssumption DEF NoEstimate, EstimateTypes
  <1>4. Empty(NoItem) /\ NoItem.state = None
    BY BlankIsTyped DEF Empty
  <1>5. OfflineTypeOK
    <2>1. store \in [Items -> ItemTypes] /\ page \in [Pages -> PageTypes] /\ estimate \in [Estimates -> EstimateTypes]
          /\ logs \in [Items -> Nat]
      BY <1>1, <1>3, BlankIsTyped
    <2>2. DOMAIN request = Requests
          /\ \A r \in Requests : request[r] \in RequestTypes(request[r].answer) /\ AnswerFits(request[r])
      BY <1>1, BlankIsTyped DEF NoRequest
    <2>3. task \in Statuses \cup {"gone"} /\ cached \in Rates /\ rate \in Rates
      BY <1>1, StatusAssumption DEF Rates
    <2>4. office \in 0 .. MaxOffice /\ decisions \in 0 .. MaxDecisions /\ mishaps \in 0 .. MaxMishaps
          /\ written \in 0 .. MaxItems
      BY <1>1, CapAssumption
    <2>5. settled \in [applied : SUBSET Items, discarded : SUBSET Items]
      BY <1>1
    <2> QED
      BY <1>1, <2>1, <2>2, <2>3, <2>4, <2>5 DEF OfflineTypeOK
  <1>6. Copies
    <2>1. \A p \in Pages, i \in Items : page[p].list[i] = NoItem /\ page[p].batch[i] = NoItem
      BY <1>2, BlankIsTyped
    <2> QED
      BY <1>2, <1>4, <2>1 DEF Copies, Copy
  <1>7. RequestsFit /\ Single
    BY <1>2, BlankIsTyped DEF RequestsFit, RequestFits, Single, Used
  <1>8. LinksFit /\ ShutFits
    BY <1>2, BlankIsTyped DEF LinksFit, ShutFits
  <1>9. ServerFits
    BY <1>2, <1>3 DEF ServerFits
  <1>10. NothingLost
    BY <1>1 DEF NothingLost
  <1>11. OneEach
    BY <1>2, <1>3, <1>4, BlankIsTyped DEF OneEach, None
  <1>12. InOrder
    <2>1. Changes = {}
      BY <1>2, <1>4 DEF Changes
    <2>2. QueueOrder
      BY <1>1, <1>2, <2>1, BlankIsTyped, StatusAssumption DEF QueueOrder
    <2>3. CallsOrder /\ \A r \in Requests : SendOrder(r)
      BY <1>1, <1>2, BlankIsTyped DEF CallsOrder, SendOrder, Used
    <2>4. FirstOrder /\ LinkOrder
      BY <2>1 DEF FirstOrder, LinkOrder, Oldest, Follows
    <2>5. \A p \in Pages : PageOrder(p) /\ ViewOrder(p)
      <3>1. \A p \in Pages : ~page[p].open /\ \A i \in Items : page[p].list[i] = NoItem
        BY <1>2, BlankIsTyped
      <3> QED
        BY <3>1, BlankIsTyped DEF PageOrder, ViewOrder, Alone
    <2> QED
      BY <2>2, <2>3, <2>4, <2>5 DEF InOrder, Order
  <1> QED
    BY <1>5, <1>6, <1>7, <1>8, <1>9, <1>10, <1>11, <1>12 DEF OInv

\* The state of the device, of its calls and of the server stays in order.
THEOREM OfflineInvariant == OfflineSpec => []OInv
  <1>1. OInv /\ [NextOffline]_ovars => OInv'
    <2> SUFFICES ASSUME OInv, [NextOffline]_ovars PROVE OInv'
      OBVIOUS
    <2>1. /\ OfflineTypeOK /\ Copies /\ RequestsFit /\ LinksFit /\ ShutFits /\ ServerFits /\ NothingLost
          /\ OneEach /\ Single /\ InOrder
      BY DEF OInv
    <2>2. OfflineTypeOK' /\ Grows
      BY <2>1, TypesNextOffline
    <2>3. Copies'
      BY <2>1, <2>2, CopiesNext
    <2>4. RequestsFit' /\ LinksFit' /\ ShutFits'
      BY <2>1, <2>2, RequestsNext, LinksNext, ShutNext
    <2>5. ServerFits'
      BY <2>1, <2>2, ServerNext
    <2>6. NothingLost'
      BY <2>1, <2>2, <2>5, LostNext
    <2>7. OneEach' /\ Single'
      BY <2>1, <2>2, OneEachNext, SingleNext
    <2>8. InOrder'
      BY <2>1, <2>2, OrderNext
    <2> QED
      BY <2>2, <2>3, <2>4, <2>5, <2>6, <2>7, <2>8 DEF OInv
  <1> QED
    BY OInvInit, <1>1, PTL DEF OfflineSpec

\* The store, the pages, the calls and the server keep their types.
THEOREM OfflineTypes == OfflineSpec => []OfflineTypeOK
  <1>1. OInv => OfflineTypeOK
    BY DEF OInv
  <1> QED
    BY <1>1, OfflineInvariant, PTL

\* What was written stays on the device until the server has all of it or the user discards it.
THEOREM NothingIsLost == OfflineSpec => []NothingLost
  <1>1. OInv => NothingLost
    BY DEF OInv
  <1> QED
    BY <1>1, OfflineInvariant, PTL

\* A log is written once whatever is sent again, and a draft becomes one estimate.
THEOREM WritingsArriveOnce == OfflineSpec => []ArrivesOnce
  <1>1. OInv => ArrivesOnce
    <2> SUFFICES ASSUME OInv PROVE ArrivesOnce
      OBVIOUS
    <2>1. LoggedOnce
      BY DEF OInv, ServerFits, LoggedOnce
    <2>2. OneEstimatePerDraft
      BY DEF OInv, OneEach, OneEstimatePerDraft, Standing
    <2> QED
      BY <2>1, <2>2 DEF ArrivesOnce
  <1> QED
    BY <1>1, OfflineInvariant, PTL

\* Undisturbed, no change of the crew conflicts with another of their own.
THEOREM ChangesAgree == OfflineSpec => []NoFalseConflict
  <1>1. OInv => NoFalseConflict
    BY DEF OInv, InOrder, Calm, Order, QueueOrder, NoFalseConflict, None
  <1> QED
    BY <1>1, OfflineInvariant, PTL
=============================================================================
