------------------------------ MODULE SiteTable ------------------------------
(***************************************************************************)
(* What the pipelines of one site share: the site's item in the table      *)
(* hezo_pipeline_state and the site-published events on the event bus.     *)
(* Sites share nothing.                                                    *)
(*                                                                         *)
(* Of the item, the attributes the state machines decide on are kept.  An  *)
(* absent publish_status is "none"; an absent attempt is 0, as             *)
(* MarkBuilding's if_not_exists makes it before anything reads it; domain  *)
(* says whether domain_url is stored.                                      *)
(***************************************************************************)
EXTENDS Naturals

VARIABLES
    item,       \* the site's item
    events      \* site-published events sent so far

tableVars == <<item, events>>

Status == {"none", "building", "validating", "retrying", "published",
           "failed", "provisioning"}

TableTypeOK ==
    /\ item \in [status: Status, attempt: Nat, domain: BOOLEAN]
    /\ events \in Nat

TableInit ==
    /\ item = [status |-> "none", attempt |-> 0, domain |-> FALSE]
    /\ events = 0

Mark(status) == item' = [item EXCEPT !.status = status]
=============================================================================
