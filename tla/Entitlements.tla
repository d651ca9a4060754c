---------------------------- MODULE Entitlements ----------------------------
(***************************************************************************)
(* What a tenant may do: core/tier_gating.py and block_if_read_only of     *)
(* core/deps.py, which every writing route runs before its handler, and    *)
(* the routes of routers/platform_tenants.py by which an operator          *)
(* overrides a module or takes a company out of service.                   *)
(*                                                                         *)
(* One tree of companies, a root and its branch, and one module.  The four *)
(* reads of a writing request are four READ COMMITTED snapshots, and what  *)
(* they read changes underneath: the tier and the status with Stripe's     *)
(* webhook, the override and the companies with the console.               *)
(***************************************************************************)
EXTENDS Integers

CONSTANTS
    Writers,          \* writing requests of the tenant
    Operators,        \* requests of the platform console
    MaxChanges        \* bound: the changes of an entitlement

ASSUME ChangesAssumption == MaxChanges \in Nat

VARIABLES
    plan,             \* whether the root's tier includes the module
    standing,         \* whether the root's status is "trialing" or "active"
    override,         \* company_module_overrides: "none", "on" or "off"
    deleted,          \* the companies with a deleted_at
    audit,            \* what the last audit record says of the override
    write,
    op,
    changes,
    interleaved       \* history: two requests of the console overlapped

evars == <<plan, standing, override, deleted, audit, write, op, changes, interleaved>>

Tree == {"root", "branch"}
Kinds == {"set", "clear", "deactivate", "restore"}
Ancestors(c) == IF c = "root" THEN {"root"} ELSE Tree

AtRest == [at |-> "rest", company |-> "root", allowed |-> FALSE, since |-> 0]
NoOp   == [kind |-> "none", company |-> "root", new |-> "none", seen |-> "none"]

EntitlementsTypeOK ==
    /\ plan \in BOOLEAN /\ standing \in BOOLEAN /\ interleaved \in BOOLEAN
    /\ override \in {"none", "on", "off"} /\ audit \in {"none", "on", "off"}
    /\ deleted \subseteq Tree
    /\ write \in [Writers -> [at : {"rest", "live", "standing", "deferred", "admitted"},
                              company : Tree, allowed : BOOLEAN, since : 0 .. MaxChanges]]
    /\ op \in [Operators -> [kind : Kinds \cup {"none"}, company : Tree,
                             new : {"none", "on", "off"}, seen : {"none", "on", "off"}]]
    /\ changes \in 0 .. MaxChanges

InitEntitlements ==
    /\ plan \in BOOLEAN /\ standing = TRUE
    /\ override = "none" /\ audit = "none"
    /\ deleted = {}
    /\ write = [w \in Writers |-> AtRest]
    /\ op = [o \in Operators |-> NoOp]
    /\ changes = 0
    /\ interleaved = FALSE

(* The decisions of the code, each preceded by the mutant that shows that  *)
(* the property depends on it.                                             *)

\* is_company_live walks up to the root.
Live_Own(c) == c \notin deleted
Live(c) == Ancestors(c) \cap deleted = {}

\* A row of the overrides answers the question outright.
Decides_Grants(x) == x = "on"
Decides(x) == x # "none"

\* What the override and the tier are to mean together, as _module_override documents it.
Entitled == IF override = "none" THEN plan ELSE override = "on"
Allowed(c) == Ancestors(c) \cap deleted = {} /\ standing /\ Entitled

-----------------------------------------------------------------------------
(* A writing request: get_current_user, block_if_read_only, require_module *)
(* and the handler.  "allowed" remembers whether, at one moment since it   *)
(* began, every answer would have been yes.                                *)

WriteTo(w, at) == write' = [write EXCEPT ![w].at = at]

GetCurrentUser(w, c) ==
    /\ write[w].at = "rest" /\ Live(c)
    /\ write' = [write EXCEPT ![w] = [at |-> "live", company |-> c, allowed |-> Allowed(c),
                                      since |-> changes]]
    /\ UNCHANGED <<plan, standing, override, deleted, audit, op, changes, interleaved>>

BlockIfReadOnly(w) ==
    /\ write[w].at = "live" /\ standing
    /\ WriteTo(w, "standing")
    /\ UNCHANGED <<plan, standing, override, deleted, audit, op, changes, interleaved>>

ModuleOverride(w) ==
    /\ write[w].at = "standing"
    /\ \/ Decides(override) /\ override = "on" /\ WriteTo(w, "admitted")
       \/ ~Decides(override) /\ WriteTo(w, "deferred")
    /\ UNCHANGED <<plan, standing, override, deleted, audit, op, changes, interleaved>>

RootTier(w) ==
    /\ write[w].at = "deferred" /\ plan
    /\ WriteTo(w, "admitted")
    /\ UNCHANGED <<plan, standing, override, deleted, audit, op, changes, interleaved>>

\* The handler ends, or one of the four answers was no.
EndWrite(w) ==
    /\ write[w].at # "rest"
    /\ write' = [write EXCEPT ![w] = AtRest]
    /\ UNCHANGED <<plan, standing, override, deleted, audit, op, changes, interleaved>>

-----------------------------------------------------------------------------
(* Changes.                                                                *)

\* After each, some of the requests under way would be allowed.
Changed ==
    /\ changes < MaxChanges
    /\ changes' = changes + 1
    /\ write' = [w \in Writers |->
                    IF write[w].at = "rest" THEN write[w]
                    ELSE [write[w] EXCEPT !.allowed = @ \/ write[w].company \in {c \in Tree : Allowed(c)}']]

ChangePlan ==
    /\ plan' = ~plan
    /\ UNCHANGED <<standing, override, deleted, audit, op, interleaved>>
    /\ Changed

ChangeStanding ==
    /\ standing' = ~standing
    /\ UNCHANGED <<plan, override, deleted, audit, op, interleaved>>
    /\ Changed

LoadTenant(o, kind, c, new) ==
    /\ op[o] = NoOp
    /\ kind \in {"set", "clear"} => c = "root"          \* _require_root
    /\ (kind = "set") = (new # "none")
    /\ kind = "clear" => override # "none"              \* 404
    /\ kind = "deactivate" => c \notin deleted          \* 409
    /\ kind = "restore" => c \in deleted                \* 409
    /\ op' = [op EXCEPT ![o] = [kind |-> kind, company |-> c, new |-> new, seen |-> override]]
    /\ UNCHANGED <<plan, standing, override, deleted, audit, write, changes, interleaved>>

Finish(o) ==
    /\ op' = [op EXCEPT ![o] = NoOp]
    /\ interleaved' = (interleaved \/ \E p \in Operators \ {o} : op[p] # NoOp)

\* An INSERT when no row was seen, which the unique key refuses if there is one
\* by now; else an UPDATE, if the value is another one than the value seen, which
\* fails if the row is gone.
SetModuleOverride(o) ==
    LET seen == op[o].seen  new == op[o].new IN
    /\ op[o].kind = "set"
    /\ seen = "none" => override = "none"
    /\ seen \notin {"none", new} => override # "none"
    /\ override' = IF seen = new THEN override ELSE new
    /\ audit' = new
    /\ Finish(o)
    /\ UNCHANGED <<plan, standing, deleted>>
    /\ Changed

ClearModuleOverride(o) ==
    /\ op[o].kind = "clear"
    /\ override' = "none" /\ audit' = "none"
    /\ Finish(o)
    /\ UNCHANGED <<plan, standing, deleted>>
    /\ Changed

DeactivateTenant(o) ==
    /\ op[o].kind = "deactivate"
    /\ deleted' = deleted \cup {op[o].company}
    /\ Finish(o)
    /\ UNCHANGED <<plan, standing, override, audit>>
    /\ Changed

RestoreTenant(o) ==
    /\ op[o].kind = "restore"
    /\ deleted' = deleted \ {op[o].company}
    /\ Finish(o)
    /\ UNCHANGED <<plan, standing, override, audit>>
    /\ Changed

AbortOperator(o) ==
    /\ op[o] # NoOp
    /\ Finish(o)
    /\ UNCHANGED <<plan, standing, override, deleted, audit, write, changes>>

NextEntitlements ==
    \/ \E w \in Writers : \/ \E c \in Tree : GetCurrentUser(w, c)
                          \/ BlockIfReadOnly(w) \/ ModuleOverride(w) \/ RootTier(w) \/ EndWrite(w)
    \/ ChangePlan \/ ChangeStanding
    \/ \E o \in Operators :
           \/ \E c \in Tree, new \in {"none", "on", "off"}, kind \in Kinds :
                  LoadTenant(o, kind, c, new)
           \/ SetModuleOverride(o) \/ ClearModuleOverride(o) \/ DeactivateTenant(o)
           \/ RestoreTenant(o) \/ AbortOperator(o)

EntitlementsSpec == InitEntitlements /\ [][NextEntitlements]_evars

-----------------------------------------------------------------------------

\* A request is admitted only if it would have been at one moment since it began,
\* although its answers are of four moments, unless two changes fell in between.
AdmittedOnce ==
    \A w \in Writers : write[w].at = "admitted" => write[w].allowed \/ changes - write[w].since > 1

\* The audit trail ends with the override that is in force, unless two requests of
\* the console overlapped: the second may find nothing to write and still be recorded.
AuditTells == interleaved \/ audit = override

\* A company uses what it is entitled to, and the records say so.
EntitlementsHold == AdmittedOnce /\ AuditTells
=============================================================================
