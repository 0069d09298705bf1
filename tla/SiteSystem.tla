----------------------------- MODULE SiteSystem ------------------------------
(***************************************************************************)
(* A site as deployed: the content pipeline (SitePipeline) and the         *)
(* provisioning its events start (SiteProvisioning), over one item.  The   *)
(* provisioning writes publish_status too, so the two may interleave on it *)
(* when the user asks for publication again.                               *)
(***************************************************************************)
EXTENDS SitePipeline, SiteProvisioning

vars == <<tableVars, execVars, provVars>>

Init == TableInit /\ ExecInit /\ ProvInit

Next ==
    \/ PipelineNext /\ UNCHANGED provVars
    \/ ProvNext /\ UNCHANGED execVars

Spec == Init /\ [][Next]_vars

FairSpec == Spec /\ PipelineFairness /\ ProvFairness

-----------------------------------------------------------------------------
(* Properties.                                                             *)

SiteTypeOK == TableTypeOK /\ ExecTypeOK /\ ProvTypeOK

(* The front end shows the site as issued once it sees domain_url: then    *)
(* the site's infrastructure stands, however many provisionings ran,       *)
(* overlapped or failed.                                                   *)
DomainHasStack == item.domain => stack = "complete"

(* While no call fails, a site that was published gets its domain, unless  *)
(* CloudFormation could not create its stack.                              *)
Provisioned == events > 0 ~> (item.domain \/ stack = "broken")

(* While no call fails, the front end's poll of publish_status ends,       *)
(* whatever the agents answer and however the executions of the two        *)
(* pipelines overlap on it.  One transient status may stay: provisioning,  *)
(* when CloudFormation could not create the stack.                         *)
Transient ==
    \/ item.status \in {"building", "validating", "retrying"}
    \/ item.status = "provisioning" /\ stack # "broken"

SiteSettles == Transient ~> ~Transient
=============================================================================
