---------------------------- MODULE SitePipeline -----------------------------
(***************************************************************************)
(* The content pipeline of one site: executions of the state machine       *)
(* infra/step-functions/hezo_pipeline_v6.json over the site's item.        *)
(*                                                                         *)
(* One action per state of the machine (a Pass or Choice state goes with   *)
(* the task before it: it only reads what that task returned).  What the   *)
(* generation agent, the build worker and the validation agent do is       *)
(* reduced to how their task ends.                                         *)
(***************************************************************************)
EXTENDS SiteTable, FiniteSets

CONSTANTS
    Exec,           \* executions of the site that may run at once
    MAX_ATTEMPT,    \* RetryOrFail's limit
    TASK_RETRY,     \* Retry.MaxAttempts of the generation and build tasks
    MaxStarts,      \* bound: how often the user asks for publication
    Errors          \* may calls to DynamoDB, S3 and EventBridge fail?

ASSUME PipelineAssumption ==
    /\ IsFiniteSet(Exec)
    /\ Exec # {}
    /\ MAX_ATTEMPT \in Nat \ {0}
    /\ TASK_RETRY \in Nat
    /\ MaxStarts \in Nat
    /\ Errors \in BOOLEAN

VARIABLES
    exec,       \* the executions, each at the state it is about to enter
    starts      \* how often the user asked for publication

execVars == <<exec, starts>>
pipelineVars == <<tableVars, execVars>>

(* idle stands for no execution as well as for one that ended.             *)
ExecPc == {"idle", "CheckIdempotency", "MarkBuilding", "Generation", "Build",
           "MarkValidating", "Validation", "MarkPublished", "ReadContract",
           "PublishSiteEvent", "CheckRetryCount", "IncrementAttempt",
           "StartNewExecution", "MarkFailed"}

ExecTypeOK ==
    /\ exec \in [Exec -> [at: ExecPc, tries: Nat]]
    /\ starts \in Nat

PipelineTypeOK == TableTypeOK /\ ExecTypeOK

At(pc) == [at |-> pc, tries |-> 0]

ExecInit ==
    /\ exec = [e \in Exec |-> At("idle")]
    /\ starts = 0

PipelineInit == TableInit /\ ExecInit

Enter(e, pc) == exec' = [exec EXCEPT ![e] = At(pc)]

-----------------------------------------------------------------------------

(* POST /sites/{id}/publish starts an execution, whatever else runs.       *)
Start(e) ==
    /\ exec[e].at = "idle"
    /\ starts < MaxStarts
    /\ starts' = starts + 1
    /\ Enter(e, "CheckIdempotency")
    /\ UNCHANGED <<item, events>>

CheckIdempotency(e) ==
    /\ exec[e].at = "CheckIdempotency"
    /\ \/ /\ item.status = "published"
          /\ Enter(e, "idle")
       \/ /\ item.status # "published"
          /\ Enter(e, "MarkBuilding")
    /\ UNCHANGED <<item, starts, events>>

MarkBuilding(e) ==
    /\ exec[e].at = "MarkBuilding"
    /\ Mark("building")
    /\ Enter(e, "Generation")
    /\ UNCHANGED <<starts, events>>

Generate(e) ==
    /\ exec[e].at = "Generation"
    /\ Enter(e, "Build")
    /\ UNCHANGED <<item, starts, events>>

Build(e) ==
    /\ exec[e].at = "Build"
    /\ Enter(e, "MarkValidating")
    /\ UNCHANGED <<item, starts, events>>

(* Throttling or a timeout: the task is invoked once more.                 *)
RetryTask(e) ==
    /\ exec[e].at \in {"Generation", "Build"}
    /\ exec[e].tries < TASK_RETRY
    /\ exec' = [exec EXCEPT ![e].tries = @ + 1]
    /\ UNCHANGED <<item, starts, events>>

(* The agent answered with an error, timed out or ran out of retries.      *)
TaskFails(e) ==
    /\ exec[e].at \in {"Generation", "Build", "Validation"}
    /\ Enter(e, "MarkFailed")
    /\ UNCHANGED <<item, starts, events>>

MarkValidating(e) ==
    /\ exec[e].at = "MarkValidating"
    /\ Mark("validating")
    /\ Enter(e, "Validation")
    /\ UNCHANGED <<starts, events>>

(* PASS or PASS_WITH_WARNINGS, or anything else.                           *)
Validate(e) ==
    /\ exec[e].at = "Validation"
    /\ \/ Enter(e, "MarkPublished")
       \/ Enter(e, "CheckRetryCount")
    /\ UNCHANGED <<item, starts, events>>

(* The condition fails when another execution has published the site: this *)
(* one then ends in success and sends no event.                            *)
MarkPublished(e) ==
    /\ exec[e].at = "MarkPublished"
    /\ \/ /\ item.status # "published"
          /\ Mark("published")
          /\ Enter(e, "ReadContract")
       \/ /\ item.status = "published"
          /\ Enter(e, "idle")
          /\ UNCHANGED item
    /\ UNCHANGED <<starts, events>>

ReadContract(e) ==
    /\ exec[e].at = "ReadContract"
    /\ Enter(e, "PublishSiteEvent")
    /\ UNCHANGED <<item, starts, events>>

PublishSiteEvent(e) ==
    /\ exec[e].at = "PublishSiteEvent"
    /\ events' = events + 1
    /\ Enter(e, "idle")
    /\ UNCHANGED <<item, starts>>

(* Mutant of CheckRetryCount: NumericLessThanEquals.                       *)
CheckRetryCountOffByOne(e) ==
    /\ exec[e].at = "CheckRetryCount"
    /\ \/ /\ item.attempt <= MAX_ATTEMPT
          /\ Enter(e, "IncrementAttempt")
       \/ /\ item.attempt > MAX_ATTEMPT
          /\ Enter(e, "MarkFailed")
    /\ UNCHANGED <<item, starts, events>>

(* CheckRetryCount, NormalizeAttempt, RetryOrFail.                         *)
CheckRetryCount(e) ==
    /\ exec[e].at = "CheckRetryCount"
    /\ \/ /\ item.attempt < MAX_ATTEMPT
          /\ Enter(e, "IncrementAttempt")
       \/ /\ item.attempt >= MAX_ATTEMPT
          /\ Enter(e, "MarkFailed")
    /\ UNCHANGED <<item, starts, events>>

(* Mutant of IncrementAttempt: the update leaves out `attempt`.            *)
IncrementNothing(e) ==
    /\ exec[e].at = "IncrementAttempt"
    /\ Mark("retrying")
    /\ Enter(e, "StartNewExecution")
    /\ UNCHANGED <<starts, events>>

IncrementAttempt(e) ==
    /\ exec[e].at = "IncrementAttempt"
    /\ item' = [item EXCEPT !.status = "retrying",
                            !.attempt = item.attempt + 1]
    /\ Enter(e, "StartNewExecution")
    /\ UNCHANGED <<starts, events>>

(* This execution ends, the new one takes its place.                       *)
StartNewExecution(e) ==
    /\ exec[e].at = "StartNewExecution"
    /\ Enter(e, "CheckIdempotency")
    /\ UNCHANGED <<item, starts, events>>

(* Mutant of MarkFailed: a status the front end does not know.             *)
MarkFailedMisnamed(e) ==
    /\ exec[e].at = "MarkFailed"
    /\ Mark("FAILED")
    /\ Enter(e, "idle")
    /\ UNCHANGED <<starts, events>>

MarkFailed(e) ==
    /\ exec[e].at = "MarkFailed"
    /\ Mark("failed")
    /\ Enter(e, "idle")
    /\ UNCHANGED <<starts, events>>

(* A call fails in a state with a Catch for it.                            *)
CallFails(e) ==
    /\ Errors
    /\ exec[e].at \in {"CheckIdempotency", "MarkBuilding", "ReadContract"}
    /\ Enter(e, "MarkFailed")
    /\ UNCHANGED <<item, starts, events>>

(* A call fails in a state without one, or in MarkFailed, whose Catch only *)
(* ends the execution.  Validation has one; ParseValidationResult, which   *)
(* goes with it, has none for an answer that is not JSON.                  *)
Dies(e) ==
    /\ Errors
    /\ exec[e].at \in {"MarkValidating", "Validation", "MarkPublished",
                       "PublishSiteEvent", "CheckRetryCount",
                       "IncrementAttempt", "StartNewExecution", "MarkFailed"}
    /\ Enter(e, "idle")
    /\ UNCHANGED <<item, starts, events>>

-----------------------------------------------------------------------------

(* The states an execution goes through by itself.                         *)
ExecStep(e) ==
    \/ CheckIdempotency(e)
    \/ MarkBuilding(e)
    \/ Generate(e)
    \/ Build(e)
    \/ TaskFails(e)
    \/ MarkValidating(e)
    \/ Validate(e)
    \/ MarkPublished(e)
    \/ ReadContract(e)
    \/ PublishSiteEvent(e)
    \/ CheckRetryCount(e)
    \/ IncrementAttempt(e)
    \/ StartNewExecution(e)
    \/ MarkFailed(e)

PipelineNext ==
    \E e \in Exec :
      Start(e) \/ ExecStep(e) \/ RetryTask(e) \/ CallFails(e) \/ Dies(e)

PipelineSpec == PipelineInit /\ [][PipelineNext]_pipelineVars

(* Step Functions drives an execution on; every task has a timeout.        *)
PipelineFairness == \A e \in Exec : WF_pipelineVars(ExecStep(e))

-----------------------------------------------------------------------------
(* Properties.                                                             *)

(* The belt retry is bounded although RetryOrFail reads `attempt` in one   *)
(* call and IncrementAttempt raises it in another: executions that overlap *)
(* overshoot the limit by at most one each, and a lone execution never.    *)
RetriesBounded == item.attempt <= MAX_ATTEMPT + Cardinality(Exec) - 1

(* To the readers of publish_status, executions that do not overlap        *)
(* implement the lifecycle.                                                *)
Lifecycle == INSTANCE StatusLifecycle WITH status <- item.status
FollowsLifecycle == Lifecycle!Spec

(* The task that an execution is at; MarkValidating goes with Validation.  *)
Task(pc) ==
    CASE pc = "Generation" -> "generation"
      [] pc = "Build" -> "build"
      [] pc \in {"MarkValidating", "Validation"} -> "validation"
      [] OTHER -> "none"

(* To the agents, executions implement the order of their tasks, in        *)
(* whatever states they are retried, caught or die, and overlap or not.    *)
Tasks == INSTANCE TaskOrder WITH
    task <- [e \in Exec |-> [at |-> Task(exec[e].at),
                             tries |-> exec[e].tries]]
OrdersTasks == Tasks!Spec
=============================================================================
