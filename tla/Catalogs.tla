------------------------------ MODULE Catalogs ------------------------------
(***************************************************************************)
(* The cost catalogue of a tree of companies: routers/catalogs.py and      *)
(* services/catalog_resolution.py.                                         *)
(*                                                                         *)
(* A company sees its own items, its descendants' and its ancestors', and  *)
(* may put an override of its own in the place of one it sees.  What it is *)
(* shown is one row of each conceptual item: the one of the company        *)
(* closest to it on its way to the root.                                   *)
(*                                                                         *)
(* The tree of companies is fixed, and given by what the policies of the   *)
(* table ask of it: Above[c] is company c and its ancestors.  Rates and    *)
(* names are left out.  A PATCH changes only them and updated_at, which    *)
(* decides between rows at the same distance: the model leaves that choice *)
(* open.                                                                   *)
(***************************************************************************)
EXTENDS Integers, FiniteSets

CONSTANTS
    Above,            \* get_all_ancestor_ids of each company
    Nowhere,          \* the owner of no row
    Editors,          \* the requests that may be under way at once
    MaxItems          \* bound: items ever created

Companies == DOMAIN Above

ASSUME TreeAssumption ==
    /\ Nowhere \notin Companies
    /\ \A c \in Companies :
           /\ c \in Above[c] /\ Above[c] \subseteq Companies /\ IsFiniteSet(Above[c])
           /\ \A d \in Above[c] : Above[d] \subseteq Above[c] /\ (c \in Above[d] => c = d)
           /\ \A d, e \in Above[c] : d \in Above[e] \/ e \in Above[d]
ASSUME ItemsAssumption == MaxItems \in Nat

VARIABLES
    made,             \* items created so far: their ids are 1 .. made
    there,            \* those not deleted
    owner, parent,    \* company_id, parent_catalog_item_id (0 is NULL)
    concept,          \* history: the original item a row is an override of, at any remove
    lines,            \* <<i, c>>: some estimate line of company c refers to item i
    doing,
    torn              \* history: concepts of which a row was deleted whose override was not seen

kvars == <<made, there, owner, parent, concept, lines, doing, torn>>

Items == 1 .. MaxItems
NoWork == [kind |-> "none", company |-> Nowhere, item |-> 0, unseen |-> FALSE]

CatalogsTypeOK ==
    /\ made \in 0 .. MaxItems /\ there \subseteq 1 .. made /\ lines \subseteq there \X Companies
    /\ owner \in [Items -> Companies \cup {Nowhere}] /\ parent \in [Items -> there \cup {0}]
    /\ concept \in [Items -> 0 .. MaxItems] /\ torn \subseteq Items
    /\ doing \in [Editors -> [kind : {"none", "override", "loaded", "checked"},
                              company : Companies \cup {Nowhere}, item : 0 .. MaxItems, unseen : BOOLEAN]]

InitCatalogs ==
    /\ made = 0 /\ there = {} /\ lines = {} /\ torn = {}
    /\ owner = [i \in Items |-> Nowhere]
    /\ parent = [i \in Items |-> 0]
    /\ concept = [i \in Items |-> 0]
    /\ doing = [r \in Editors |-> NoWork]

-----------------------------------------------------------------------------
(* resolve_visible_catalog_items.                                          *)

\* What the policy of the table shows a company, and lets it delete: rows of its
\* own, of its descendants and of its ancestors.
Visible(c) == {i \in there : owner[i] \in Above[c] \/ c \in Above[owner[i]]}

\* A descendant's row is farther than any ancestor's, never closer than the company's own.
chain_lengths == [c \in Companies |-> Cardinality(Above[c])]
HopDistance(c, d) ==
    IF chain_lengths[d] > chain_lengths[c] THEN chain_lengths[c]
    ELSE chain_lengths[c] - chain_lengths[d]

\* The end of a row's chain of overrides, as far as the company can follow it.
RootIdentity(c) ==
    LET rows == Visible(c)
        root[i \in Items] == IF parent[i] \in rows THEN root[parent[i]] ELSE i
    IN  root

\* The rows company c may be shown: of each group those at the least distance.
Shown(c) ==
    LET rows == Visible(c)
        root == RootIdentity(c)
    IN  {i \in rows : \A j \in rows :
            HopDistance(c, owner[i]) > HopDistance(c, owner[j]) => root[i] # root[j]}

\* Whether some row overrides item i, as delete_catalog_item asks for company c;
\* before it a mutant that does not ask.
Overridden_Never(c, i) == FALSE
Overridden(c, i) == \E j \in Visible(c) : parent[j] = i

-----------------------------------------------------------------------------
(* The routes.  A request first resolves or checks, then writes and        *)
(* commits; another may commit in between.                                 *)

Add(c, up, what) ==
    /\ made < MaxItems
    /\ made' = made + 1 /\ there' = there \cup {made + 1}
    /\ owner' = [owner EXCEPT ![made + 1] = c]
    /\ parent' = [parent EXCEPT ![made + 1] = up]
    /\ concept' = [concept EXCEPT ![made + 1] = what]

CreateItem(c) ==
    /\ Add(c, 0, made + 1)
    /\ UNCHANGED <<lines, doing, torn>>

Start(r, kind, c, i) ==
    /\ doing[r] = NoWork
    /\ doing' = [doing EXCEPT ![r] = [kind |-> kind, company |-> c, item |-> i, unseen |-> FALSE]]
    /\ UNCHANGED <<made, there, owner, parent, concept, lines, torn>>

\* 404 for an item the company is not shown.
ResolveOverride(r, c, i) ==
    doing[r] = NoWork /\ i \in there /\ i \in Shown(c) /\ Start(r, "override", c, i)

\* The foreign key refuses a parent that is gone.  A deletion of the parent that
\* has looked for overrides already does not see this one.
InsertOverride(r) ==
    LET up == doing[r].item IN
    /\ doing[r].kind = "override" /\ up \in there
    /\ Add(doing[r].company, up, concept[up])
    /\ doing' = [s \in Editors |->
                   IF s = r THEN NoWork
                   ELSE IF doing[s].kind = "checked" /\ doing[s].item = up
                        THEN [doing[s] EXCEPT !.unseen = TRUE] ELSE doing[s]]
    /\ UNCHANGED <<lines, torn>>

\* replace_estimate_line_items commits a line of the item, which it resolved
\* earlier: the foreign key asks only that the item is there.
InsertLine(i, c) ==
    /\ i \in there /\ <<i, c>> \notin lines /\ lines' = lines \cup {<<i, c>>}
    /\ UNCHANGED <<made, there, owner, parent, concept, doing, torn>>

\* A company's last line of an item goes with its estimate.
RemoveLines(i, c) ==
    /\ <<i, c>> \in lines /\ lines' = lines \ {<<i, c>>}
    /\ UNCHANGED <<made, there, owner, parent, concept, doing, torn>>

\* 404; then 409 for an item in use, if the line is the company's or a descendant's.
LoadDelete(r, c, i) ==
    /\ i \in Visible(c) /\ ~\E d \in Companies : <<i, d>> \in lines /\ c \in Above[d]
    /\ Start(r, "loaded", c, i)

CheckOverrides(r) ==
    LET i == doing[r].item IN
    /\ doing[r].kind = "loaded" /\ ~Overridden(doing[r].company, i)
    /\ doing' = [doing EXCEPT ![r].kind = "checked",
                              ![r].unseen = \E j \in there \ Visible(doing[r].company) : parent[j] = i]
    /\ UNCHANGED <<made, there, owner, parent, concept, lines, torn>>

\* The foreign key of the lines has no ON DELETE and refuses; the one of the
\* overrides says SET NULL.
DeleteItem(r) ==
    LET i == doing[r].item IN
    /\ doing[r].kind = "checked" /\ i \in there /\ \A c \in Companies : <<i, c>> \notin lines
    /\ there' = there \ {i}
    /\ parent' = [j \in Items |-> IF parent[j] = i \/ j = i THEN 0 ELSE parent[j]]
    /\ torn' = IF doing[r].unseen THEN torn \cup {concept[i]} ELSE torn
    /\ doing' = [doing EXCEPT ![r] = NoWork]
    /\ owner' = [owner EXCEPT ![i] = Nowhere] /\ concept' = [concept EXCEPT ![i] = 0]
    /\ UNCHANGED <<made, lines>>

\* A refusal, an error or a disconnection.
AbortCatalog(r) ==
    /\ doing[r] # NoWork
    /\ doing' = [doing EXCEPT ![r] = NoWork]
    /\ UNCHANGED <<made, there, owner, parent, concept, lines, torn>>

NextCatalogs ==
    \/ \E c \in Companies : CreateItem(c)
    \/ \E i \in Items, c \in Companies : InsertLine(i, c) \/ RemoveLines(i, c)
    \/ \E r \in Editors :
           \/ \E c \in Companies, i \in Items : ResolveOverride(r, c, i) \/ LoadDelete(r, c, i)
           \/ InsertOverride(r) \/ CheckOverrides(r) \/ DeleteItem(r)
           \/ AbortCatalog(r)

CatalogsSpec == InitCatalogs /\ [][NextCatalogs]_kvars

-----------------------------------------------------------------------------

\* The route asks only that the row it overrides is shown: it may be a descendant's,
\* and then another branch sees the override without what it is of.
Raised(q) == \E i \in there : /\ concept[i] = q /\ parent[i] # 0
                              /\ owner[parent[i]] \notin Above[owner[i]]

\* The visible rows of one conceptual item are one group, so that each company is shown
\* it once, unless a row was deleted while an override of it was not seen, by a company of
\* another branch or because it was just being created, or some row overrides a descendant's.
OneGroupEach ==
    \A c \in Companies : LET root == RootIdentity(c) IN \A i, j \in Visible(c) :
        concept[i] = concept[j] => root[i] = root[j] \/ concept[i] \in torn \/ Raised(concept[i])

\* A company is shown the row of the closest of its ancestors that has one, itself
\* first: an override below never takes the place of the row of a company above.
ClosestShown ==
    \A c \in Companies : \A i \in Shown(c), j \in Visible(c) :
        concept[i] = concept[j] /\ owner[j] \in Above[c] =>
            \/ owner[i] \in Above[c] /\ owner[j] \in Above[owner[i]]
            \/ concept[i] \in torn \/ Raised(concept[i])

\* What catalog_resolution.py promises of a company's effective catalogue.
CatalogHolds == OneGroupEach /\ ClosestShown

\* catalog_resolution.py: "exactly one row per conceptual item".  Where no row was torn from
\* its override, one that overrides a descendant's row still divides the item for a sibling.
OneRowEach ==
    \A c \in Companies : LET root == RootIdentity(c) IN \A i, j \in Visible(c) :
        concept[i] = concept[j] => root[i] = root[j] \/ concept[i] \in torn

\* delete_catalog_item: "409 if ... any other CostCatalogItem overrides it".  A sibling's
\* override is not visible to the check, but is torn off by the deletion.
NoneTornOff == torn = {}
=============================================================================
