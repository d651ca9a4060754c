---------------------------- MODULE Subscriptions ----------------------------
(***************************************************************************)
(* The subscription of one tenant: its registration (routers/auth.py and   *)
(* platform_tenants.py create the Stripe objects first and the rows then), *)
(* the webhook that mirrors Stripe's status (routers/webhooks.py), the     *)
(* platform console that may overrule it, and the nightly report of seats  *)
(* (tasks/seat_usage.py).  Stripe is external: it has a status, events it  *)
(* delivers at least once and in any order, trials it creates once per     *)
(* idempotency key (for a day), and the quantity of the overage item.      *)
(***************************************************************************)
EXTENDS Integers, FiniteSets

CONSTANTS
    Requests,        \* registrations, console requests and deliveries at work at once
    Allowances,      \* included_seats an operator may set
    MaxSeats,        \* bound: members
    MaxEvents,       \* bound: events of Stripe
    MaxConsole,      \* bound: console requests
    MaxTrials,       \* bound: trials at Stripe
    MaxFaults        \* bound: failed requests and lost acknowledgements

ASSUME BoundAssumption ==
    /\ {MaxEvents, MaxConsole, MaxFaults} \subseteq Nat
    /\ {MaxSeats, MaxTrials} \subseteq Nat \ {0}
ASSUME AllowanceAssumption == Allowances # {} /\ Allowances \subseteq Nat

Statuses == {"trialing", "active", "past_due", "canceled"}
EventTypes == {"updated", "deleted", "payment_failed"}

VARIABLES
    row,         \* the row of subscriptions; its trial is 0 before the registration commits
    seats,       \* distinct users of the company and its branches
    req,
    priced,      \* whether this deployment has a Price for the overage of seats
    report,      \* the worker that runs report_seat_usage
    stripe,      \* at Stripe: the status of the trial in use, and the last event
    events,      \* at Stripe: events not acknowledged yet
    trials,      \* at Stripe: how many trials exist, the one the idempotency key remembers, and
                 \* those that were created with an item for the overage of seats
    billed,      \* at Stripe: the quantity of the seat-overage item
    console, faults,
    decided,     \* history: the status an operator set last
    applied,     \* history: the latest event the webhook has committed
    overlapped   \* history: "webhooks" overlapped or out of order, "console" a console request
                 \* overlapped another request

external == <<stripe, events, trials, billed>>
history  == <<decided, applied, overlapped>>
svars    == <<row, seats, priced, req, report, external, console, faults, history>>

NoRow   == [trial |-> 0, status |-> "trialing", override |-> FALSE, included |-> 0, period |-> 0]
NoEvent == [n |-> 0, type |-> "updated", status |-> "trialing"]
Idle    == [kind |-> "none", pc |-> "idle", trial |-> 0, event |-> NoEvent, was |-> NoRow,
            status |-> "none", included |-> 0, clear |-> FALSE]

Doing(r, kind, pc) == req[r].kind = kind /\ req[r].pc = pc
Go(r, x)     == req' = [req EXCEPT ![r] = x]
Ends(r)      == Go(r, Idle)
Others(r, kinds) == \E d \in Requests \ {r} : req[d].kind \in kinds
Registered   == row.trial # 0

(* The decisions of the code, each preceded by the mutant that shows which *)
(* property depends on it.                                                 *)

\* A webhook that does not ask for the override.
Overruled_Never(s) == FALSE
Overruled(s) == s.override

NewStatus_Cancels(e) == IF e.type = "updated" THEN e.status ELSE "canceled"
NewStatus(e) == CASE e.type = "updated"        -> e.status
                  [] e.type = "deleted"        -> "canceled"
                  [] e.type = "payment_failed" -> "past_due"

\* create_customer and create_trialing_subscription without idempotency keys.
Remembered_NoKey == 0
Remembered == trials.keyed

\* An overage counted from the second extra seat on.
Overage_Rounded(count, included) == IF count > included + 1 THEN count - included ELSE 0
Overage(count, included) == IF count > included THEN count - included ELSE 0

Reported == {"trialing", "active", "past_due"}

InitialStatus == "trialing"

InitSubscriptions ==
    /\ row     = NoRow
    /\ seats   = 1
    /\ req     = [r \in Requests |-> Idle]
    /\ priced \in BOOLEAN
    /\ report  = [pc |-> "idle", included |-> 0]
    /\ stripe  = [status |-> "trialing", last |-> 0]
    /\ events  = {}
    /\ trials  = [made |-> 0, keyed |-> 0, items |-> {}]
    /\ billed  = 0
    /\ console = 0
    /\ faults  = 0
    /\ decided = "none"
    /\ applied = 0
    /\ overlapped = {}

(***************************************************************************)
(* Registration: register and create_tenant, with one e-mail address.      *)
(***************************************************************************)

\* The address is not taken yet.
Register(r) ==
    /\ req[r] = Idle /\ ~Registered
    /\ Go(r, [Idle EXCEPT !.kind = "register", !.pc = "checked"])
    /\ UNCHANGED <<row, seats, priced, report, external, console, faults, history>>

\* What the key remembers is what is asked now: the item for the overage is part of the request.
SameRequest == (Remembered \in trials.items) = priced

\* create_customer and create_trialing_subscription, whose keys derive from the address.
CreateTrial(r) ==
    LET made == trials.made + 1 IN
    /\ Doing(r, "register", "checked")
    /\ IF Remembered # 0
       THEN /\ SameRequest /\ UNCHANGED trials
            /\ Go(r, [req[r] EXCEPT !.pc = "paid", !.trial = Remembered])
       ELSE /\ trials.made < MaxTrials
            /\ trials' = [made |-> made, keyed |-> made,
                          items |-> IF priced THEN trials.items \cup {made} ELSE trials.items]
            /\ Go(r, [req[r] EXCEPT !.pc = "paid", !.trial = made])
    /\ UNCHANGED <<row, seats, priced, report, stripe, events, billed, console, faults, history>>

\* Stripe refuses a key that returns with another request: the registration fails.
TrialRefused(r) ==
    /\ Doing(r, "register", "checked")
    /\ Remembered # 0 /\ ~SameRequest
    /\ Ends(r)
    /\ UNCHANGED <<row, seats, priced, report, external, console, faults, history>>

\* The rows of the tenant; the unique address refuses the second registration.
CommitTenant(r) ==
    /\ Doing(r, "register", "paid")
    /\ row' = IF Registered THEN row
              ELSE [NoRow EXCEPT !.trial = req[r].trial, !.status = InitialStatus,
                                 !.included = CHOOSE a \in Allowances : \A b \in Allowances : a <= b]
    /\ Ends(r)
    /\ UNCHANGED <<seats, priced, report, external, console, faults, history>>

(***************************************************************************)
(* The webhook.                                                            *)
(***************************************************************************)

\* _sync_subscription finds the tenant and loads its row, without a lock.
Deliver(r) ==
    /\ req[r] = Idle
    /\ \E e \in events :
          /\ Go(r, [Idle EXCEPT !.kind = "webhook", !.pc = "loaded", !.event = e, !.was = row])
          /\ overlapped' = overlapped
                \cup (IF Others(r, {"webhook"}) \/ e.n < applied \/ ~Registered THEN {"webhooks"} ELSE {})
                \cup (IF Others(r, {"console"}) THEN {"console"} ELSE {})
    /\ UNCHANGED <<row, seats, priced, report, external, console, faults, decided, applied>>

\* The columns that changed: the period always, the status unless it is overruled or was the same.
Synced(r) ==
    LET e == req[r].event  was == req[r].was IN
    [row EXCEPT
        !.period = IF e.type = "updated" /\ was.period # e.n THEN e.n ELSE @,
        !.status = IF Overruled(was) \/ was.status = NewStatus(e) THEN @ ELSE NewStatus(e)]

Acknowledge(r) ==
    /\ Doing(r, "webhook", "loaded")
    /\ row' = IF req[r].was.trial = 0 THEN row ELSE Synced(r)
    /\ applied' = IF req[r].event.n > applied THEN req[r].event.n ELSE applied
    /\ overlapped' = IF \E e \in events : e.n < req[r].event.n THEN overlapped \cup {"webhooks"} ELSE overlapped
    /\ Ends(r)
    /\ \/ events' = events \ {req[r].event} /\ UNCHANGED faults
       \/ faults < MaxFaults /\ faults' = faults + 1 /\ UNCHANGED events    \* the answer is lost
    /\ UNCHANGED <<seats, priced, report, stripe, trials, billed, console, decided>>

(***************************************************************************)
(* The platform console: update_subscription.                              *)
(***************************************************************************)

LoadSubscription(r) ==
    /\ req[r] = Idle /\ Registered
    /\ console < MaxConsole
    /\ console' = console + 1
    /\ \E status \in {"none", "active", "canceled"}, included \in Allowances, clear \in BOOLEAN :
          Go(r, [Idle EXCEPT !.kind = "console", !.pc = "loaded", !.was = row, !.status = status,
                             !.included = included, !.clear = clear])
    /\ overlapped' = IF Others(r, {"webhook", "console"}) THEN overlapped \cup {"console"} ELSE overlapped
    /\ UNCHANGED <<row, seats, priced, report, external, faults, decided, applied>>

\* SQLAlchemy writes the columns whose value differs from the one it loaded.
CommitSubscription(r) ==
    LET x == req[r]  sets == x.status # "none"
        override == IF x.clear THEN FALSE ELSE x.was.override \/ sets IN
    /\ Doing(r, "console", "loaded")
    /\ row' = [row EXCEPT !.status   = IF sets /\ x.status # x.was.status THEN x.status ELSE @,
                          !.override = IF override # x.was.override THEN override ELSE @,
                          !.included = IF x.included # x.was.included THEN x.included ELSE @]
    /\ decided' = IF sets THEN x.status ELSE IF override THEN decided ELSE "none"
    /\ Ends(r)
    /\ UNCHANGED <<seats, priced, report, external, console, faults, applied, overlapped>>

(***************************************************************************)
(* The nightly report of seats.                                            *)
(***************************************************************************)

StartScan ==
    /\ report.pc = "idle" /\ Registered
    /\ row.status \in Reported
    /\ report' = [pc |-> "loaded", included |-> row.included]
    /\ UNCHANGED <<row, seats, priced, req, external, console, faults, history>>

\* Without a Price, or for a subscription that is older than the Price, nothing is reported.
Billable == priced /\ row.trial \in trials.items

\* Counts the users now, and sets the quantity only of an overage.
ReportSeatUsage ==
    LET overage == Overage(seats, report.included) IN
    /\ report.pc = "loaded"
    /\ billed' = IF overage > 0 /\ Billable THEN overage ELSE billed
    /\ report' = [report EXCEPT !.pc = "idle", !.included = 0]
    /\ UNCHANGED <<row, seats, priced, req, stripe, events, trials, console, faults, history>>

\* Stripe fails: the subscription is skipped until the next night.
ReportFails ==
    /\ report.pc = "loaded"
    /\ report' = [report EXCEPT !.pc = "idle", !.included = 0]
    /\ UNCHANGED <<row, seats, priced, req, external, console, faults, history>>

(***************************************************************************)
(* Members, Stripe, and failures.                                          *)
(***************************************************************************)

SeatsChange ==
    /\ Registered
    /\ seats' \in {seats - 1, seats + 1} \cap 1 .. MaxSeats
    /\ UNCHANGED <<row, priced, req, report, external, console, faults, history>>

\* A deployment that adds the Price.
ConfigurePrice ==
    /\ ~priced
    /\ priced' = TRUE
    /\ UNCHANGED <<row, seats, req, report, external, console, faults, history>>

\* A payment succeeds or fails, a trial ends, the customer cancels in the portal.
StripeChanges ==
    /\ trials.made > 0 /\ stripe.last < MaxEvents /\ stripe.status # "canceled"
    /\ \E type \in EventTypes, status \in Statuses \ {"trialing"} :
          /\ (type = "deleted") = (status = "canceled")
          /\ type = "payment_failed" => status = "past_due"
          /\ stripe' = [status |-> status, last |-> stripe.last + 1]
          /\ events' = events \cup {[n |-> stripe.last + 1, type |-> type, status |-> status]}
    /\ UNCHANGED <<row, seats, priced, req, report, trials, billed, console, faults, history>>

Fault == faults < MaxFaults /\ faults' = faults + 1

\* A request fails and rolls back; what it has created at Stripe stays.
RequestFails(r) ==
    /\ req[r].pc # "idle"
    /\ Ends(r)
    /\ Fault
    /\ UNCHANGED <<row, seats, priced, report, external, console, history>>

NextSubscriptions ==
    \/ \E r \in Requests : \/ Register(r) \/ CreateTrial(r) \/ TrialRefused(r) \/ CommitTenant(r)
                           \/ Deliver(r) \/ Acknowledge(r)
                           \/ LoadSubscription(r) \/ CommitSubscription(r) \/ RequestFails(r)
    \/ StartScan \/ ReportSeatUsage \/ ReportFails
    \/ SeatsChange \/ ConfigurePrice \/ StripeChanges

SubscriptionsSpec == InitSubscriptions /\ [][NextSubscriptions]_svars

\* The job runs every night, and Stripe does not fail it for ever.
FairSubscriptionsSpec == SubscriptionsSpec /\ WF_svars(StartScan) /\ SF_svars(ReportSeatUsage)

-----------------------------------------------------------------------------
\* The row, the requests and the job keep their types.
RowTypes   == [trial : 0 .. MaxTrials, status : Statuses, override : BOOLEAN,
               included : Allowances \cup {0}, period : 0 .. MaxEvents]
EventFacts == [n : 1 .. MaxEvents, type : EventTypes, status : Statuses]
Asked      == [kind : {"none", "register", "webhook", "console"}, pc : {"idle", "checked", "paid", "loaded"},
               trial : 0 .. MaxTrials, event : EventFacts \cup {NoEvent}, was : RowTypes,
               status : Statuses \cup {"none"}, included : Allowances \cup {0}, clear : BOOLEAN]

SubscriptionsTypeOK ==
    /\ row \in RowTypes
    /\ seats \in 1 .. MaxSeats /\ billed \in 0 .. MaxSeats /\ priced \in BOOLEAN
    /\ req \in [Requests -> Asked]
    /\ report \in [pc : {"idle", "loaded"}, included : Allowances \cup {0}]
    /\ stripe \in [status : Statuses, last : 0 .. MaxEvents]
    /\ events \subseteq EventFacts
    /\ trials \in [made : 0 .. MaxTrials, keyed : 0 .. MaxTrials, items : SUBSET (1 .. MaxTrials)]
    /\ console \in 0 .. MaxConsole /\ faults \in 0 .. MaxFaults
    /\ decided \in Statuses \cup {"none"}
    /\ applied \in 0 .. MaxEvents
    /\ overlapped \subseteq {"webhooks", "console"}

\* stripe_client.py:317-330: however many registrations of one address race, fail and are retried
\* within a day, Stripe holds one trial for it, and it is the tenant's.
OneTrialPerAddress ==
    trials.made <= 1 /\ (Registered => row.trial = trials.keyed)

\* webhooks.py:167-177: a status set by an operator stands while the override does, unless the
\* console request overlapped a webhook or another one.
OverrideHolds == row.override /\ "console" \notin overlapped => row.status = decided

\* webhooks.py:4-6: the row is "an accurate mirror of Stripe's own state" once every event is
\* acknowledged, if they came in order and no operator has meddled.
MirrorsInOrder ==
    Registered /\ console = 0 /\ "webhooks" \notin overlapped /\ events = {} =>
        row.status = stripe.status

\* webhooks.py:11-13: "at-least-once webhook redelivery is harmless": the same however they came.
MirrorsStripe ==
    Registered /\ console = 0 /\ events = {} /\ (\A r \in Requests : req[r] = Idle) =>
        row.status = stripe.status

Excess == IF Registered /\ row.status # "canceled" /\ seats > row.included
          THEN seats - row.included ELSE 0

\* An overage that lasts is billed in the end, whatever nights Stripe was down, for a subscription
\* created with the item for it; one that is older than the Price is never billed for its seats
\* (stripe_client.py:400-405 and 419-424 say so).
OverageIsBilled ==
    \A q \in 1 .. MaxSeats : Excess = q /\ Billable ~> billed = q \/ Excess # q

\* stripe_client.py:393-397: a company is billed "for where it ended up": one that is back within
\* its allowance is in the end not billed for the seats it had.
NoPhantomSeats ==
    Registered /\ row.status # "canceled" /\ Excess = 0 /\ billed > 0
        ~> billed = 0 \/ row.status = "canceled" \/ Excess > 0
=============================================================================
