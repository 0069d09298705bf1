-------------------------- MODULE SiteProvisioning ---------------------------
(***************************************************************************)
(* The provisioning of one site: executions of the state machine           *)
(* infra/step-functions/hezo_iac_pipeline.json, which every site-published *)
(* event starts, and the site's CloudFormation stack.                      *)
(*                                                                         *)
(* The event bus delivers an event at least once.  PrepareName computes    *)
(* the stack's name and goes with the delivery; WaitForStack and           *)
(* CheckStackStatus poll the stack and are one state, StackStatusChoice    *)
(* goes with them.  A failure is reported (IaCFailed, SNS) and ends the    *)
(* execution: nothing of it is recorded in the site's item.                *)
(***************************************************************************)
EXTENDS SiteTable

CONSTANTS
    Prov,           \* executions of the site that may run at once
    MaxDuplicates,  \* bound: events the bus delivers once more
    ProvErrors      \* may calls to AWS fail?

ASSUME ProvAssumption ==
    /\ MaxDuplicates \in Nat
    /\ ProvErrors \in BOOLEAN

VARIABLES
    prov,       \* the executions, each at the state it is about to enter
    stack,      \* the stack hezo-customer-{site}
    delivered,  \* events delivered so far
    duplicates  \* deliveries beyond the first

provVars == <<prov, stack, delivered, duplicates>>
provSysVars == <<tableVars, provVars>>

ProvPc == {"idle", "MarkProvisioning", "CreateCustomerStack", "WaitForStack",
           "StoreDomain"}

(* broken stands for every status but CREATE_IN_PROGRESS and               *)
(* CREATE_COMPLETE: nothing in the repository updates or deletes a stack.  *)
StackStatus == {"none", "creating", "complete", "broken"}

ProvTypeOK ==
    /\ prov \in [Prov -> ProvPc]
    /\ stack \in StackStatus
    /\ delivered \in Nat
    /\ duplicates \in Nat

ProvInit ==
    /\ prov = [p \in Prov |-> "idle"]
    /\ stack = "none"
    /\ delivered = 0
    /\ duplicates = 0

Proceed(p, pc) == prov' = [prov EXCEPT ![p] = pc]

-----------------------------------------------------------------------------

(* The rule hezo-site-published-iac starts an execution.                   *)
Deliver(p) ==
    /\ prov[p] = "idle"
    /\ \/ /\ delivered < events
          /\ delivered' = delivered + 1
          /\ UNCHANGED duplicates
       \/ /\ delivered > 0
          /\ duplicates < MaxDuplicates
          /\ duplicates' = duplicates + 1
          /\ UNCHANGED delivered
    /\ Proceed(p, "MarkProvisioning")
    /\ UNCHANGED <<tableVars, stack>>

MarkProvisioning(p) ==
    /\ prov[p] = "MarkProvisioning"
    /\ Mark("provisioning")
    /\ Proceed(p, "CreateCustomerStack")
    /\ UNCHANGED <<events, stack, delivered, duplicates>>

(* AlreadyExistsException is caught: the stack in place is polled, in      *)
(* whatever state it is.                                                   *)
CreateCustomerStack(p) ==
    /\ prov[p] = "CreateCustomerStack"
    /\ stack' = IF stack = "none" THEN "creating" ELSE stack
    /\ Proceed(p, "WaitForStack")
    /\ UNCHANGED <<tableVars, delivered, duplicates>>

(* Mutants of CheckStackStatus: CREATE_IN_PROGRESS is taken for complete,  *)
(* or falls to the default.                                                *)
CheckStackTooEarly(p) ==
    /\ prov[p] = "WaitForStack"
    /\ \/ /\ stack \in {"creating", "complete"}
          /\ Proceed(p, "StoreDomain")
       \/ /\ stack = "broken"
          /\ Proceed(p, "idle")
    /\ UNCHANGED <<tableVars, stack, delivered, duplicates>>

CheckStackOnce(p) ==
    /\ prov[p] = "WaitForStack"
    /\ \/ /\ stack = "complete"
          /\ Proceed(p, "StoreDomain")
       \/ /\ stack \in {"creating", "broken"}
          /\ Proceed(p, "idle")
    /\ UNCHANGED <<tableVars, stack, delivered, duplicates>>

(* StackStatusChoice; a stack still being created is polled again.         *)
CheckStackStatus(p) ==
    /\ prov[p] = "WaitForStack"
    /\ \/ /\ stack = "complete"
          /\ Proceed(p, "StoreDomain")
       \/ /\ stack = "broken"
          /\ Proceed(p, "idle")
    /\ UNCHANGED <<tableVars, stack, delivered, duplicates>>

(* store_customer_domain: domain_url and publish_status in one update.     *)
StoreDomain(p) ==
    /\ prov[p] = "StoreDomain"
    /\ item' = [item EXCEPT !.status = "published", !.domain = TRUE]
    /\ Proceed(p, "idle")
    /\ UNCHANGED <<events, stack, delivered, duplicates>>

ProvFails(p) ==
    /\ ProvErrors
    /\ prov[p] # "idle"
    /\ Proceed(p, "idle")
    /\ UNCHANGED <<tableVars, stack, delivered, duplicates>>

(* CloudFormation finishes, or rolls back.                                 *)
StackEnds ==
    /\ stack = "creating"
    /\ stack' \in {"complete", "broken"}
    /\ UNCHANGED <<tableVars, prov, delivered, duplicates>>

-----------------------------------------------------------------------------

ProvStep(p) ==
    \/ MarkProvisioning(p)
    \/ CreateCustomerStack(p)
    \/ CheckStackStatus(p)
    \/ StoreDomain(p)

ProvNext ==
    \/ \E p \in Prov : Deliver(p) \/ ProvStep(p) \/ ProvFails(p)
    \/ StackEnds

(* The bus delivers, Step Functions drives an execution on, CloudFormation *)
(* ends every creation.                                                    *)
ProvFairness ==
    /\ WF_provSysVars(\E p \in Prov : Deliver(p))
    /\ \A p \in Prov : WF_provSysVars(ProvStep(p))
    /\ WF_provSysVars(StackEnds)
=============================================================================
