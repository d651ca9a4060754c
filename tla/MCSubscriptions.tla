--------------------------- MODULE MCSubscriptions ---------------------------
(* Two requests at work at once, so that a webhook can overlap the console *)
(* or another webhook, and one registration can race another.              *)
EXTENDS Subscriptions
CONSTANTS r1, r2

(* The bound of the instance: a trial without an item for the overage,     *)
(* which the nightly job has to leave alone, sees one event or one fault   *)
(* and no console.                                                         *)
OlderTrialsAreQuiet ==
    trials.made > 0 /\ trials.items = {} => stripe.last + faults <= 1 /\ console = 0
=============================================================================
