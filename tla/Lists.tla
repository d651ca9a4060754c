------------------------------- MODULE Lists --------------------------------
(***************************************************************************)
(* A list on screen and the table it is read from, a page at a time:       *)
(* core/pagination.py and its two relatives in routers/catalogs.py on the  *)
(* server, frontend/lib/use-cursor-list.ts in the browser.                 *)
(*                                                                         *)
(* The browser has two hooks.  "paged" (useCursorListCore) shows a page    *)
(* and appends the next one on demand; "whole" (useCursorAll) walks every  *)
(* page and shows the complete list.  Rows come, go and change sides of    *)
(* the filter meanwhile, and answers arrive in any order or not at all.    *)
(* Nothing is asked without an access token, which comes and goes; a list  *)
(* is enabled while it has a filter, and one that is enabled when it is    *)
(* mounted spins from the start.                                           *)
(*                                                                         *)
(* A row is its immutable sort key.  The generation counters of the hooks  *)
(* are only ever compared with a call's own, so a call carries the outcome *)
(* of the comparison: whether it is still "current".                       *)
(***************************************************************************)
EXTENDS Integers, Sequences, FiniteSets

CONSTANTS
    Keys,             \* the sort keys, in the order of which the table is read
    Filters,          \* filters (or parents) of which a row satisfies one
    PageSize,
    Calls,            \* slots for requests of the list under way at once
    MaxMoves,         \* bound: rows that come, go or change
    None              \* no filter: no parent selected, the list is not enabled

\* Keys are counted from 1: the cursor 0 is before every row, and stands for null.
ASSUME TableAssumption == Keys \subseteq Nat \ {0} /\ IsFiniteSet(Keys)
ASSUME PageAssumption == PageSize \in Nat \ {0}
ASSUME FilterAssumption == None \notin Filters
ASSUME MovesAssumption == MaxMoves \in Nat

VARIABLES
    hook,
    side,             \* side[k]: the filter row k satisfies, None if there is no row k
    changed,          \* how often the table has changed
    token,            \* whether there is an access token (the console's list is always ready)
    want,             \* the filter chosen
    items,            \* the keys shown
    next,             \* the cursor of the next page, 0 if none
    loading,
    error,
    call,
    of,               \* history: the filter the list shown was asked for with
    broken,           \* history: the last reload failed
    unasked,          \* history: no list of the filter chosen has been asked for
    cold,             \* history: enabled when mounted, and no list was ever asked for
    expected          \* history: rows the last reload had to find, untouched since

shown == <<items, next, loading, error>>
past  == <<of, broken, unasked, cold, expected>>
lvars == <<hook, side, changed, token, want, shown, call, past>>

IdleCall == [at |-> "idle", from |-> 0, of |-> None, replace |-> FALSE,
             current |-> FALSE, got |-> <<>>, more |-> 0]

ListCall == [at : {"idle", "sent", "served"}, from : Keys \cup {0}, of : Filters \cup {None},
           replace : BOOLEAN, current : BOOLEAN, got : Seq(Keys), more : Keys \cup {0}]

ListsTypeOK ==
    /\ hook \in {"paged", "whole"}
    /\ side \in [Keys -> Filters \cup {None}] /\ changed \in 0 .. MaxMoves
    /\ {want, of} \subseteq Filters \cup {None}
    /\ items \in Seq(Keys) /\ next \in Keys \cup {0}
    /\ {token, loading, error, broken, unasked, cold} \subseteq BOOLEAN
    /\ call \in [Calls -> ListCall]
    /\ expected \subseteq Keys

InitLists ==
    /\ hook \in {"paged", "whole"}
    /\ side \in [Keys -> Filters \cup {None}] /\ changed = 0
    /\ token \in BOOLEAN
    /\ want \in Filters \cup {None} /\ items = <<>> /\ next = 0
    /\ loading = (want # None) /\ error = FALSE
    /\ call = [c \in Calls |-> IdleCall]
    /\ of = None /\ broken = FALSE /\ expected = {}
    /\ unasked = (want # None) /\ cold = (want # None)

-----------------------------------------------------------------------------
(* The server.                                                             *)

Matching(f) == {k \in Keys : side[k] = f}

\* In order of the key, strictly after the cursor.
Later(f, from) ==
    LET rows == {k \in Matching(f) : k > from}
        n == Cardinality(rows)
    IN  CHOOSE s \in [1 .. n -> rows] : \A i, j \in 1 .. n : i < j => s[i] < s[j]

Page(f, from) == LET later == Later(f, from) IN
    SubSeq(later, 1, IF Len(later) < PageSize THEN Len(later) ELSE PageSize)

\* One row beyond the page is fetched to learn whether there is a next one.
NextCursor(f, from) ==
    IF Len(Later(f, from)) > PageSize THEN Page(f, from)[PageSize] ELSE 0

Serve(c) ==
    /\ call[c].at = "sent"
    /\ call' = [call EXCEPT ![c].at = "served",
                            ![c].got = @ \o Page(call[c].of, call[c].from),
                            ![c].more = NextCursor(call[c].of, call[c].from)]
    /\ UNCHANGED <<hook, side, changed, token, want, shown, past>>

\* Somebody inserts row k, deletes it or moves it to the other side of the filter.
ChangeRow(k, f) ==
    /\ changed < MaxMoves /\ side[k] # f
    /\ changed' = changed + 1
    /\ side' = [side EXCEPT ![k] = f]
    /\ expected' = expected \ {k}
    /\ UNCHANGED <<hook, token, want, shown, call, of, broken, unasked, cold>>

-----------------------------------------------------------------------------
(* The browser.                                                            *)

\* The guard of both hooks, preceded by the form it had when it was left out.
IsCurrent_Any(c) == TRUE
IsCurrent(c) == call[c].current

\* A load from the first page: it supersedes every other.
Begin(c, f) ==
    /\ call[c].at = "idle"
    /\ call' = [d \in Calls |->
                   IF d = c THEN [IdleCall EXCEPT !.at = "sent", !.of = f, !.replace = TRUE,
                                                  !.current = TRUE]
                   ELSE [call[d] EXCEPT !.current = FALSE]]
    /\ loading' = TRUE
    /\ error' = IF hook = "paged" THEN FALSE ELSE error
    /\ expected' = Matching(f)
    /\ unasked' = FALSE /\ cold' = FALSE
    /\ UNCHANGED <<hook, side, changed, items, next, of, broken>>

\* A filter or a parent is chosen, or another one; or the token was replaced.
Select(c, f) ==
    /\ token
    /\ Begin(c, f)
    /\ want' = f
    /\ UNCHANGED token

\* Without a token the effect's load returns at once: nothing is superseded.
SelectUnready(f) ==
    /\ ~token /\ want # f
    /\ want' = f
    /\ unasked' = TRUE
    /\ UNCHANGED <<hook, side, changed, token, shown, call, of, broken, cold, expected>>

\* The first render's effect; later after a write of the user's own, typically.
Reload(c) ==
    /\ token /\ want # None
    /\ Begin(c, want)
    /\ UNCHANGED <<token, want>>

\* A new token makes a new load, and with it the effect runs again.
TokenArrives(c) ==
    /\ ~token /\ token' = TRUE
    /\ \/ want # None /\ Begin(c, want)
       \/ want = None /\ UNCHANGED <<hook, side, changed, shown, call, past>>
    /\ UNCHANGED want

\* A load under way keeps the token it was sent with.
TokenLost ==
    /\ token /\ token' = FALSE
    /\ UNCHANGED <<hook, side, changed, want, shown, call, past>>

\* The parent is deselected.  Only the paged hook reacts to it.
Deselect ==
    /\ want # None
    /\ want' = None /\ unasked' = FALSE
    /\ \/ /\ hook = "paged"
          /\ call' = [c \in Calls |-> [call[c] EXCEPT !.current = FALSE]]
          /\ items' = <<>> /\ next' = 0 /\ loading' = FALSE /\ error' = FALSE
          /\ cold' = FALSE
       \/ /\ hook = "whole"
          /\ UNCHANGED <<call, shown, cold>>
    /\ UNCHANGED <<hook, side, changed, token, of, broken, expected>>

\* The button is disabled while a page is loading.
LoadMore(c) ==
    /\ hook = "paged" /\ token /\ want # None /\ next # 0 /\ ~loading
    /\ call[c].at = "idle"
    /\ call' = [call EXCEPT ![c] = [IdleCall EXCEPT !.at = "sent", !.from = next, !.of = want,
                                                    !.current = TRUE]]
    /\ loading' = TRUE /\ error' = FALSE
    /\ UNCHANGED <<hook, side, changed, token, want, items, next, past>>

End(c) == call' = [call EXCEPT ![c] = IdleCall]

Show(c) ==
    /\ of' = IF call[c].replace \/ of = call[c].of THEN call[c].of ELSE None
    /\ broken' = (broken /\ ~call[c].replace)

DeliverPage(c) ==
    /\ hook = "paged" /\ call[c].at = "served" /\ IsCurrent(c)
    /\ items' = IF call[c].replace THEN call[c].got ELSE items \o call[c].got
    /\ next' = call[c].more
    /\ loading' = FALSE
    /\ Show(c) /\ End(c)
    /\ UNCHANGED <<hook, side, changed, token, want, error, unasked, cold, expected>>

\* The walk goes on until there is no cursor, then shows everything at once.
WalkOn(c) ==
    /\ hook = "whole" /\ call[c].at = "served" /\ IsCurrent(c) /\ call[c].more # 0
    /\ call' = [call EXCEPT ![c].at = "sent", ![c].from = call[c].more]
    /\ UNCHANGED <<hook, side, changed, token, want, shown, past>>

DeliverWalk(c) ==
    /\ hook = "whole" /\ call[c].at = "served" /\ IsCurrent(c) /\ call[c].more = 0
    /\ items' = call[c].got
    /\ error' = FALSE /\ loading' = FALSE
    /\ Show(c) /\ End(c)
    /\ UNCHANGED <<hook, side, changed, token, want, next, unasked, cold, expected>>

\* An answer other than a list, or none at all: what is shown stays, and so does its cursor.
\* The console leaves the page on a 401 instead of reporting it.
Fail(c) ==
    /\ call[c].at # "idle" /\ IsCurrent(c)
    /\ error' \in IF hook = "paged" THEN {TRUE, error} ELSE {TRUE}
    /\ loading' = FALSE
    /\ broken' = (broken \/ call[c].replace)
    /\ End(c)
    /\ UNCHANGED <<hook, side, changed, token, want, items, next, of, unasked, cold, expected>>

Drop(c) ==
    /\ call[c].at # "idle" /\ ~IsCurrent(c)
    /\ End(c)
    /\ UNCHANGED <<hook, side, changed, token, want, shown, past>>

NextLists ==
    \/ \E k \in Keys, f \in Filters \cup {None} : ChangeRow(k, f)
    \/ Deselect \/ TokenLost
    \/ \E f \in Filters : SelectUnready(f)
    \/ \E c \in Calls :
           \/ \E f \in Filters : Select(c, f)
           \/ Reload(c) \/ TokenArrives(c) \/ LoadMore(c) \/ Serve(c) \/ DeliverPage(c) \/ WalkOn(c)
           \/ DeliverWalk(c) \/ Fail(c) \/ Drop(c)

ListsSpec == InitLists /\ [][NextLists]_lvars

-----------------------------------------------------------------------------

\* A row is shown once, in order, whatever moved between two pages and whichever
\* answers came late.
Ascending(s) == \A i, j \in DOMAIN s : i < j => s[i] < s[j]
EachOnce == Ascending(items)

\* At rest the list is what was asked for last: of the filter chosen, and with
\* every row that was there when the load began and has not changed since, as far
\* as the pages shown reach.  A filter chosen without a token is asked for later.
LatestShown ==
    want # None /\ ~unasked /\ ~loading /\ ~broken =>
        /\ of = want
        /\ \A k \in expected : next = 0 \/ k <= next => \E i \in DOMAIN items : items[i] = k

\* The spinner turns exactly while an answer that will be used is awaited, or a
\* list enabled from the start waits for its token ("must keep its spinner"); a
\* paged list that is not enabled is idle.
SpinnerTells ==
    /\ loading <=> cold \/ \E c \in Calls : call[c].at # "idle" /\ call[c].current
    /\ hook = "paged" /\ want = None => ~loading

\* What use-cursor-list.ts and pagination.py promise of a list on screen.
ListsHold == EachOnce /\ LatestShown /\ SpinnerTells

\* use-cursor-list.ts: loadMore never stitches a page of the old filter onto the
\* new list.  It does the converse after a failed load: the old list keeps its
\* cursor, and "Load more" appends a page of the new filter to it.
PagesOfOneFilter == items # <<>> => of # None

\* use-cursor-list.ts: "a list waiting on a token is mid-load and must keep its
\* spinner".  One that is enabled only after it was mounted shows none.
WaitingSpins == want # None /\ unasked => loading
=============================================================================
