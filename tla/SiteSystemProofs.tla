-------------------------- MODULE SiteSystemProofs ---------------------------
(***************************************************************************)
(* What holds of a site as deployed, for every number of overlapping       *)
(* executions of both pipelines and wherever their calls fail.  The        *)
(* pipeline's own steps are covered by the lemmas of SitePipelineProofs.   *)
(***************************************************************************)
EXTENDS SiteSystem, SitePipelineProofs

-----------------------------------------------------------------------------

(* What a step of the provisioning may do to what it shares: it never      *)
(* touches `attempt` or the executions of the content pipeline.            *)
LEMMA ProvStepType ==
  ASSUME SiteTypeOK, ProvNext, UNCHANGED execVars
  PROVE  /\ SiteTypeOK'
         /\ item'.attempt = item.attempt
<1>. USE DEF SiteTypeOK
<1>1. ASSUME NEW p \in Prov, NEW pc \in ProvPc, Proceed(p, pc)
      PROVE  prov' \in [Prov -> ProvPc]
  BY <1>1 DEF Proceed, ProvTypeOK
<1>2. ExecTypeOK'
  BY DEF execVars, ExecTypeOK
<1>3. ASSUME NEW p \in Prov, Deliver(p)
      PROVE  TableTypeOK' /\ ProvTypeOK' /\ item' = item
  <2>1. prov' \in [Prov -> ProvPc]
    BY <1>1, <1>3 DEF Deliver, ProvPc
  <2>2. item' = item /\ events' = events /\ stack' = stack
    BY <1>3 DEF Deliver, tableVars
  <2>3. delivered' \in Nat /\ duplicates' \in Nat
    BY <1>3 DEF Deliver, ProvTypeOK
  <2>. QED BY <2>1, <2>2, <2>3 DEF TableTypeOK, ProvTypeOK
<1>4. ASSUME NEW p \in Prov, MarkProvisioning(p)
      PROVE  TableTypeOK' /\ ProvTypeOK' /\ item'.attempt = item.attempt
  <2>1. prov' \in [Prov -> ProvPc]
    BY <1>1, <1>4 DEF MarkProvisioning, ProvPc
  <2>2. /\ item' \in [status: Status, attempt: Nat, domain: BOOLEAN]
        /\ item'.attempt = item.attempt
    BY <1>4, MarkType DEF MarkProvisioning, Status
  <2>. QED BY <1>4, <2>1, <2>2 DEF MarkProvisioning, TableTypeOK, ProvTypeOK
<1>5. ASSUME NEW p \in Prov, CreateCustomerStack(p)
      PROVE  TableTypeOK' /\ ProvTypeOK' /\ item' = item
  <2>1. prov' \in [Prov -> ProvPc]
    BY <1>1, <1>5 DEF CreateCustomerStack, ProvPc
  <2>2. stack' \in StackStatus
    BY <1>5 DEF CreateCustomerStack, ProvTypeOK, StackStatus
  <2>. QED BY <1>5, <2>1, <2>2
           DEF CreateCustomerStack, tableVars, TableTypeOK, ProvTypeOK
<1>6. ASSUME NEW p \in Prov, CheckStackStatus(p) \/ ProvFails(p)
      PROVE  TableTypeOK' /\ ProvTypeOK' /\ item' = item
  <2>1. prov' \in [Prov -> ProvPc]
    BY <1>1, <1>6 DEF CheckStackStatus, ProvFails, ProvPc
  <2>2. UNCHANGED <<tableVars, stack, delivered, duplicates>>
    BY <1>6 DEF CheckStackStatus, ProvFails
  <2>. QED BY <2>1, <2>2 DEF tableVars, TableTypeOK, ProvTypeOK
<1>7. ASSUME NEW p \in Prov, StoreDomain(p)
      PROVE  TableTypeOK' /\ ProvTypeOK' /\ item'.attempt = item.attempt
  <2>1. prov' \in [Prov -> ProvPc]
    BY <1>1, <1>7 DEF StoreDomain, ProvPc
  <2>2. /\ item' \in [status: Status, attempt: Nat, domain: BOOLEAN]
        /\ item'.attempt = item.attempt
    BY <1>7, StoreType DEF StoreDomain
  <2>. QED BY <1>7, <2>1, <2>2 DEF StoreDomain, TableTypeOK, ProvTypeOK
<1>8. ASSUME StackEnds
      PROVE  TableTypeOK' /\ ProvTypeOK' /\ item' = item
  BY <1>8 DEF StackEnds, tableVars, TableTypeOK, ProvTypeOK, StackStatus
<1>. QED
  BY <1>2, <1>3, <1>4, <1>5, <1>6, <1>7, <1>8 DEF ProvNext, ProvStep

(* The counters, executions, item and stack keep their types.              *)
THEOREM SiteTyped == Spec => []SiteTypeOK
<1>1. Init => SiteTypeOK
  BY DEF Init, TableInit, ExecInit, ProvInit, SiteTypeOK, TableTypeOK,
         ExecTypeOK, ProvTypeOK, Status, ExecPc, At, ProvPc, StackStatus
<1>2. ASSUME SiteTypeOK, [Next]_vars PROVE SiteTypeOK'
  <2>1. CASE PipelineNext /\ UNCHANGED provVars
    <3>1. PipelineTypeOK'
      BY <1>2, <2>1, TypeStep DEF SiteTypeOK, PipelineTypeOK
    <3>. QED BY <1>2, <2>1, <3>1
             DEF SiteTypeOK, PipelineTypeOK, provVars, ProvTypeOK
  <2>2. CASE ProvNext /\ UNCHANGED execVars
    BY <1>2, <2>2, ProvStepType
  <2>3. CASE UNCHANGED vars
    BY <1>2, <2>3 DEF vars, tableVars, execVars, provVars, SiteTypeOK,
                      TableTypeOK, ExecTypeOK, ProvTypeOK
  <2>. QED BY <1>2, <2>1, <2>2, <2>3 DEF Next
<1>. QED BY <1>1, <1>2, PTL DEF Spec

-----------------------------------------------------------------------------

(* Provisioning leaves the belt retry's bound alone.                       *)
THEOREM SiteRetriesBounded == Spec => []RetriesBounded
<1>1. Init => RetryInv
  BY RetryInit DEF Init, PipelineInit
<1>2. ASSUME SiteTypeOK, RetryInv, [Next]_vars PROVE RetryInv'
  <2>. PipelineTypeOK
    BY <1>2 DEF SiteTypeOK, PipelineTypeOK
  <2>1. CASE PipelineNext
    BY <1>2, <2>1, RetryStep
  <2>2. CASE ProvNext /\ UNCHANGED execVars
    <3>1. item'.attempt = item.attempt /\ Raising' = Raising
      BY <1>2, <2>2, ProvStepType DEF execVars, Raising
    <3>. QED BY <1>2, <3>1, RetryQuiet
  <2>3. CASE UNCHANGED vars
    <3>1. item' = item /\ Raising' = Raising
      BY <2>3 DEF vars, tableVars, execVars, Raising
    <3>. QED BY <1>2, <3>1, RetryQuiet
  <2>. QED BY <1>2, <2>1, <2>2, <2>3 DEF Next
<1>3. SiteTypeOK /\ RetryInv => RetriesBounded
  BY RetryBound DEF SiteTypeOK, PipelineTypeOK
<1>. QED BY <1>1, <1>2, <1>3, SiteTyped, PTL DEF Spec

(* A provisioning stores the domain only after it has seen the stack       *)
(* complete, and nothing takes a complete stack away.                      *)
StackInv ==
    /\ DomainHasStack
    /\ \A p \in Prov : prov[p] = "StoreDomain" => stack = "complete"

(* domain_url is never shown before the site's infrastructure stands.      *)
THEOREM DomainsHaveStacks == Spec => []DomainHasStack
<1>1. Init => StackInv
  BY DEF Init, TableInit, ProvInit, StackInv, DomainHasStack
<1>2. ASSUME SiteTypeOK, StackInv, [Next]_vars PROVE StackInv'
  <2>1. ASSUME NEW p \in Prov, NEW pc \in ProvPc, Proceed(p, pc)
        PROVE  \A q \in Prov : prov'[q] = IF q = p THEN pc ELSE prov[q]
    BY <1>2, <2>1 DEF SiteTypeOK, ProvTypeOK, Proceed
  <2>2. CASE PipelineNext /\ UNCHANGED provVars
    <3>1. item'.domain = item.domain
      BY <1>2, <2>2, DomainKept DEF SiteTypeOK
    <3>. QED BY <1>2, <2>2, <3>1 DEF StackInv, DomainHasStack, provVars
  <2>3. ASSUME NEW p \in Prov, Deliver(p) PROVE StackInv'
    BY <1>2, <2>1, <2>3
       DEF Deliver, tableVars, ProvPc, StackInv, DomainHasStack
  <2>4. ASSUME NEW p \in Prov, MarkProvisioning(p) PROVE StackInv'
    <3>1. item'.domain = item.domain
      BY <1>2, <2>4, MarkType DEF MarkProvisioning, Status, SiteTypeOK
    <3>. QED BY <1>2, <2>1, <2>4, <3>1
             DEF MarkProvisioning, ProvPc, StackInv, DomainHasStack
  <2>5. ASSUME NEW p \in Prov, CreateCustomerStack(p) PROVE StackInv'
    BY <1>2, <2>1, <2>5
       DEF CreateCustomerStack, tableVars, ProvPc, StackInv, DomainHasStack
  <2>6. ASSUME NEW p \in Prov, CheckStackStatus(p) PROVE StackInv'
    BY <1>2, <2>1, <2>6
       DEF CheckStackStatus, tableVars, ProvPc, StackInv, DomainHasStack
  <2>7. ASSUME NEW p \in Prov, StoreDomain(p) PROVE StackInv'
    BY <1>2, <2>1, <2>7 DEF StoreDomain, ProvPc, StackInv, DomainHasStack
  <2>8. ASSUME NEW p \in Prov, ProvFails(p) PROVE StackInv'
    BY <1>2, <2>1, <2>8
       DEF ProvFails, tableVars, ProvPc, StackInv, DomainHasStack
  <2>9. CASE StackEnds
    BY <1>2, <2>9 DEF StackEnds, tableVars, StackInv, DomainHasStack
  <2>10. CASE UNCHANGED vars
    BY <1>2, <2>10 DEF vars, tableVars, provVars, StackInv, DomainHasStack
  <2>. QED
    BY <1>2, <2>2, <2>3, <2>4, <2>5, <2>6, <2>7, <2>8, <2>9, <2>10
       DEF Next, ProvNext, ProvStep
<1>3. StackInv => DomainHasStack
  BY DEF StackInv
<1>. QED BY <1>1, <1>2, <1>3, SiteTyped, PTL DEF Spec
=============================================================================
