---------------------------- MODULE SiteContent ------------------------------
(***************************************************************************)
(* What the content pipeline makes: the render_spec, the page and its      *)
(* supplementary files, and the feedback of a failing validation, as the   *)
(* generation agent, the build worker and the validation agent read and    *)
(* write them in S3, for one site.                                         *)
(*                                                                         *)
(* The executions are those of SitePipeline, reduced to the three tasks    *)
(* and their timeouts.  An execution that ended may leave agents at work   *)
(* behind it; its slot is used again once they are done.                   *)
(***************************************************************************)
EXTENDS ContentRules, Naturals

CONSTANTS
    Exec,               \* executions of the site that may run at once
    Nobody,             \* the requester that does not listen any more
    Thread,             \* what could build at once
    Contracts,          \* the contracts the chat agent may save
    Drafts,             \* the pages the generation's model may answer
    MAX_PATCH_ATTEMPTS, \* rounds of a validation
    TASK_RETRY,         \* Retry.MaxAttempts of the generation and build tasks
    MaxRuns,            \* bound: executions, the retries included
    MaxStrays,          \* bound: abandoned requests that wait for the worker
    Errors,             \* may calls fail?
    Timeouts            \* may a task or a rebuild time out?

Contract == [ready: BOOLEAN, unsupported: BOOLEAN]

ASSUME ContentAssumption ==
    /\ Nobody \notin Exec
    /\ Contracts \subseteq Contract
    /\ Drafts \subseteq Page
    /\ MAX_PATCH_ATTEMPTS \in Nat \ {0}
    /\ TASK_RETRY \in Nat
    /\ MaxRuns \in Nat
    /\ MaxStrays \in Nat
    /\ Errors \in BOOLEAN
    /\ Timeouts \in BOOLEAN

VARIABLES
    contract,   \* contract_final.json
    spec,       \* render_spec.json: its version, and the version its
                \* generation had; version 0 stands for no object
    site,       \* the site's objects: index.html with the version and the
                \* generation of its spec, the version of the spec of the
                \* supplementary files, whether llms.txt is there
    feedback,   \* validation_feedback.json: the execution it is of, or 0
    exec,       \* executions: the task, its retries, a number, and the
                \* number of the execution it is the retry of, or 0
    runs,       \* executions so far
    gen,        \* an execution's session of the generation agent
    val,        \* an execution's session of the validation agent
    asked,      \* executions whose request waits for the build worker
    want,       \* history: the spec's version when a build was asked for
    strays,     \* abandoned requests that wait for the build worker
    thread      \* the build worker

vars == <<contract, spec, site, feedback, exec, runs, gen, val, asked, want,
          strays, thread>>

Spec0 == [v: Nat, gen: Nat, page: Page]
NoPage == [h1 |-> FALSE, title |-> "none", ld |-> "none", supp |-> "none"]
NoSpec == [v |-> 0, gen |-> 0, page |-> NoPage]

Site == [v: Nat, gen: Nat, html: Html, geo: Nat, llms: BOOLEAN]
Execution == [at: {"idle", "generation", "build", "validation"},
              tries: Nat, run: Nat, from: Nat]
GenSession == [left: Nat, loaded: BOOLEAN, hints: Nat]
ValSession == [pc: {"idle", "fetch", "inspect", "passing", "failing",
                    "patching", "rebuilding"},
               round: Nat, spec: Spec0, demands: SUBSET Demands,
               listed: BOOLEAN, issues: SUBSET Code, applied: SUBSET Code,
               rebuilt: BOOLEAN]
Job == [at: {"idle", "html", "geo"}, for: Exec \union {Nobody}, spec: Spec0]

ContentTypeOK ==
    /\ contract \in Contract
    /\ spec \in Spec0
    /\ site \in Site
    /\ feedback \in Nat
    /\ exec \in [Exec -> Execution]
    /\ runs \in Nat
    /\ gen \in [Exec -> GenSession]
    /\ val \in [Exec -> ValSession]
    /\ asked \subseteq Exec
    /\ want \in [Exec -> Nat]
    /\ strays \in Nat
    /\ thread \in [Thread -> Job]

NoRun == [at |-> "idle", tries |-> 0, run |-> 0, from |-> 0]
Asleep == [left |-> 0, loaded |-> FALSE, hints |-> 0]
NoVal == [pc |-> "idle", round |-> 0, spec |-> NoSpec, demands |-> {},
          listed |-> FALSE, issues |-> {}, applied |-> {}, rebuilt |-> FALSE]
NoJob == [at |-> "idle", for |-> Nobody, spec |-> NoSpec]

Init ==
    /\ contract \in Contracts
    /\ spec = NoSpec
    /\ site = [v |-> 0, gen |-> 0, html |-> Render(NoPage), geo |-> 0,
               llms |-> FALSE]
    /\ feedback = 0
    /\ exec = [e \in Exec |-> NoRun]
    /\ runs = 0
    /\ gen = [e \in Exec |-> Asleep]
    /\ val = [e \in Exec |-> NoVal]
    /\ asked = {}
    /\ want = [e \in Exec |-> 0]
    /\ strays = 0
    /\ thread = [t \in Thread |-> NoJob]

stored == <<contract, spec, site, feedback>>
worker == <<asked, want, strays, thread>>

-----------------------------------------------------------------------------
(* The executions.                                                         *)

(* The chat agent stores a final contract, at any time.                    *)
SaveContract ==
    /\ contract' \in Contracts
    /\ contract' # contract
    /\ UNCHANGED <<spec, site, feedback, exec, runs, gen, val, worker>>

(* An execution begins, as the retry of execution number from or, with     *)
(* from = 0, for the user, and invokes the generation agent.               *)
Begin(e, from) ==
    /\ runs < MaxRuns
    /\ runs' = runs + 1
    /\ exec' = [exec EXCEPT ![e] = [at |-> "generation", tries |-> 0,
                                    run |-> runs + 1, from |-> from]]
    /\ gen' = [gen EXCEPT ![e] = [Asleep EXCEPT !.left = 1]]

(* Whether CheckIdempotency lets it pass is told by SitePipeline.           *)
Start(e) ==
    /\ exec[e].at = "idle"
    /\ gen[e].left = 0
    /\ val[e].pc = "idle"
    /\ Begin(e, 0)
    /\ UNCHANGED <<stored, val, worker>>

(* Mutant of Ended: a state that the machine does not have.                *)
EndedMisnamed(e) == [exec EXCEPT ![e].at = "FAILED", ![e].tries = 0]

(* MarkFailed, or the end of a published site's execution.                 *)
Ended(e) == [exec EXCEPT ![e].at = "idle", ![e].tries = 0]

(* e waits for the worker, as the pipeline's build task or as the rebuild  *)
(* of its validation.                                                      *)
Ask(e, version) ==
    /\ asked' = asked \union {e}
    /\ want' = [want EXCEPT ![e] = version]

-----------------------------------------------------------------------------
(* The generation agent.  Invocations of one execution share a session,    *)
(* whose event loop runs them one after the other.                         *)

(* An invocation ends; the task hears of the last one it made.  version    *)
(* is what is stored then.                                                 *)
GenAnswers(e, ok, version) ==
    /\ gen' = [gen EXCEPT ![e] = [Asleep EXCEPT !.left = gen[e].left - 1]]
    /\ \/ /\ exec[e].at = "generation"
          /\ gen[e].left = 1
          /\ \/ /\ ok
                /\ exec' = [exec EXCEPT ![e].at = "build", ![e].tries = 0]
                /\ Ask(e, version)
             \/ /\ ~ok
                /\ exec' = Ended(e)
                /\ UNCHANGED <<asked, want>>
       \/ /\ exec[e].at # "generation" \/ gen[e].left > 1
          /\ UNCHANGED <<exec, asked, want>>

(* load_contract, the gate, load_feedback.                                 *)
GenLoad(e) ==
    /\ gen[e].left > 0
    /\ ~gen[e].loaded
    /\ contract.ready
    /\ gen' = [gen EXCEPT ![e].loaded = TRUE, ![e].hints = feedback]
    /\ UNCHANGED <<stored, exec, runs, val, worker>>

(* generation_ready is false: skipped, which the pipeline takes for done.  *)
GenSkip(e) ==
    /\ gen[e].left > 0
    /\ ~gen[e].loaded
    /\ ~contract.ready
    /\ GenAnswers(e, TRUE, spec.v)
    /\ UNCHANGED <<stored, runs, val, strays, thread>>

(* save_render_spec, and the answer.                                       *)
GenSave(e) ==
    /\ gen[e].left > 0
    /\ gen[e].loaded
    /\ \E draft \in Drafts :
         spec' = [v |-> spec.v + 1, gen |-> spec.v + 1, page |-> Fill(draft)]
    /\ GenAnswers(e, TRUE, spec.v + 1)
    /\ UNCHANGED <<contract, site, feedback, runs, val, strays, thread>>

(* No contract, no answer of the model, a guardrail, S3.                   *)
GenFails(e) ==
    /\ Errors
    /\ gen[e].left > 0
    /\ GenAnswers(e, FALSE, spec.v)
    /\ UNCHANGED <<stored, runs, val, strays, thread>>

(* The task times out; the invocation goes on.                             *)
GenTimeout(e) ==
    /\ Timeouts
    /\ exec[e].at = "generation"
    /\ \/ /\ exec[e].tries < TASK_RETRY
          /\ exec' = [exec EXCEPT ![e].tries = exec[e].tries + 1]
          /\ gen' = [gen EXCEPT ![e].left = gen[e].left + 1]
       \/ /\ exec[e].tries >= TASK_RETRY
          /\ exec' = Ended(e)
          /\ UNCHANGED gen
    /\ UNCHANGED <<stored, runs, val, worker>>

-----------------------------------------------------------------------------
(* The build worker: one task of the ECS service, one process, whose       *)
(* handlers call build_run on the event loop.                              *)

(* A round of a validation, after a rebuild or without one.                *)
Round(n, applied, rebuilt) ==
    [pc |-> "fetch", round |-> n, spec |-> NoSpec, demands |-> {},
     listed |-> FALSE, issues |-> {}, applied |-> applied,
     rebuilt |-> rebuilt]

(* Mutant of NextRound: the rounds are not counted.                        *)
SameRound(e, applied, rebuilt) ==
    val' = [val EXCEPT ![e] = Round(val[e].round, applied, rebuilt)]

(* What the validation does after patching.                                *)
NextRound(e, applied, rebuilt) ==
    val' = [val EXCEPT ![e] = Round(val[e].round + 1, applied, rebuilt)]

(* The answer of the build who asked for.                                  *)
BuildAnswers(who, ok) ==
    \/ /\ who = Nobody
       /\ UNCHANGED <<exec, val>>
    \/ /\ who \in Exec
       /\ exec[who].at = "build"
       /\ \/ /\ ok
             /\ exec' = [exec EXCEPT ![who].at = "validation",
                                     ![who].tries = 0]
             /\ val' = [val EXCEPT ![who] = Round(1, {}, FALSE)]
          \/ /\ ~ok
             /\ exec' = Ended(who)
             /\ UNCHANGED val
    \/ /\ who \in Exec
       /\ val[who].pc = "rebuilding"
       /\ NextRound(who, val[who].applied, ok)
       /\ UNCHANGED exec

(* Mutant of Free: every request has a thread of its own.                  *)
FreeThread(t) == thread[t].at = "idle"

Free(t) == \A u \in Thread : thread[u].at = "idle"

(* load_render_spec.                                                       *)
BuildLoad(t, who) ==
    /\ Free(t)
    /\ \/ /\ who \in asked
          /\ asked' = asked \ {who}
          /\ UNCHANGED strays
       \/ /\ who = Nobody
          /\ strays > 0
          /\ strays' = strays - 1
          /\ UNCHANGED asked
    /\ \/ /\ spec.v > 0
          /\ thread' = [thread EXCEPT ![t] =
                          [at |-> "html", for |-> who, spec |-> spec]]
          /\ UNCHANGED <<exec, val>>
       \/ /\ spec.v = 0
          /\ BuildAnswers(who, FALSE)
          /\ UNCHANGED thread
    /\ UNCHANGED <<stored, runs, gen, want>>

(* upload_site.                                                            *)
PutHtml(t) ==
    /\ thread[t].at = "html"
    /\ LET s == thread[t].spec IN
         site' = [site EXCEPT !.v = s.v, !.gen = s.gen,
                              !.html = Render(s.page)]
    /\ thread' = [thread EXCEPT ![t].at = "geo"]
    /\ UNCHANGED <<contract, spec, feedback, exec, runs, gen, val, asked,
                   want, strays>>

(* write_geo_files: none where the spec names none; llms.txt is never      *)
(* removed.                                                                *)
PutGeo(t) ==
    /\ thread[t].at = "geo"
    /\ LET s == thread[t].spec IN
         site' = [site EXCEPT
                    !.geo = IF s.page.supp = "none" THEN site.geo ELSE s.v,
                    !.llms = site.llms \/ s.page.supp = "llms"]
    /\ thread' = [thread EXCEPT ![t] = NoJob]
    /\ BuildAnswers(thread[t].for, TRUE)
    /\ UNCHANGED <<contract, spec, feedback, runs, gen, asked, want, strays>>

(* An error of S3 or of the template, or the process dies: what was put    *)
(* stays, llms.txt included if the files after it failed.                  *)
BuildFails(t) ==
    /\ Errors
    /\ thread[t].at # "idle"
    /\ \/ UNCHANGED site
       \/ /\ thread[t].at = "geo"
          /\ thread[t].spec.page.supp = "llms"
          /\ site' = [site EXCEPT !.llms = TRUE]
    /\ thread' = [thread EXCEPT ![t] = NoJob]
    /\ BuildAnswers(thread[t].for, FALSE)
    /\ UNCHANGED <<contract, spec, feedback, runs, gen, asked, want, strays>>

(* The worker cannot be reached.                                           *)
Unreachable(e) ==
    /\ Errors
    /\ e \in asked
    /\ asked' = asked \ {e}
    /\ BuildAnswers(e, FALSE)
    /\ UNCHANGED <<stored, runs, gen, want, strays, thread>>

(* A request whose sender hung up is dropped, or handled all the same      *)
(* (BuildLoad).                                                            *)
StrayLost ==
    /\ strays > 0
    /\ strays' = strays - 1
    /\ UNCHANGED <<stored, exec, runs, gen, val, asked, want, thread>>

(* e hangs up.                                                             *)
Abandoned(e) == IF e \in asked THEN strays + 1 ELSE strays

(* Mutant of HangUp: a late answer counts as the one to the retry.         *)
HangUpHeard(e) ==
    /\ Abandoned(e) <= MaxStrays
    /\ strays' = Abandoned(e)
    /\ UNCHANGED thread

HangUp(e) ==
    /\ Abandoned(e) <= MaxStrays
    /\ strays' = Abandoned(e)
    /\ thread' = [t \in Thread |->
                    IF thread[t].for = e
                    THEN [thread[t] EXCEPT !.for = Nobody] ELSE thread[t]]

BuildTimeout(e) ==
    /\ Timeouts
    /\ exec[e].at = "build"
    /\ HangUp(e)
    /\ \/ /\ exec[e].tries < TASK_RETRY
          /\ exec' = [exec EXCEPT ![e].tries = exec[e].tries + 1]
          /\ Ask(e, spec.v)
       \/ /\ exec[e].tries >= TASK_RETRY
          /\ exec' = Ended(e)
          /\ asked' = asked \ {e}
          /\ UNCHANGED want
    /\ UNCHANGED <<stored, runs, gen, val>>

-----------------------------------------------------------------------------
(* The validation agent.                                                   *)

(* fetch_artifacts: the contract and the render_spec.                      *)
FetchSpec(e) ==
    /\ val[e].pc = "fetch"
    /\ val' = [val EXCEPT ![e].pc = "inspect", ![e].spec = spec,
                          ![e].demands = Layer2(contract)]
    /\ UNCHANGED <<stored, exec, runs, gen, worker>>

(* Mutant of Inspect: a failed listing counts as a list that has all.      *)
InspectLenient(e) ==
    /\ val[e].pc = "inspect"
    /\ \E listed \in {TRUE, ~Errors} :
         LET issues == Layer3(site.v > 0, site.html, ~listed \/ site.llms)
                         \union val[e].demands
         IN  val' = [val EXCEPT
               ![e].listed = listed,
               ![e].issues = issues,
               ![e].pc = CASE issues = {} -> "passing"
                           [] issues # {} /\ val[e].round >= MAX_PATCH_ATTEMPTS
                                -> "failing"
                           [] OTHER -> "patching"]
    /\ UNCHANGED <<stored, exec, runs, gen, worker>>

(* fetch_artifacts: the page and the list of files, which is empty when    *)
(* its call fails.  Then the layers, of which only 3 and 2 block.          *)
Inspect(e) ==
    /\ val[e].pc = "inspect"
    /\ \E listed \in {TRUE, ~Errors} :
         LET issues == Layer3(site.v > 0, site.html, listed /\ site.llms)
                         \union val[e].demands
         IN  val' = [val EXCEPT
               ![e].listed = listed,
               ![e].issues = issues,
               ![e].pc = CASE issues = {} -> "passing"
                           [] issues # {} /\ val[e].round >= MAX_PATCH_ATTEMPTS
                                -> "failing"
                           [] OTHER -> "patching"]
    /\ UNCHANGED <<stored, exec, runs, gen, worker>>

Verdict(e) == val' = [val EXCEPT ![e] = NoVal]

(* PASS: the report, and the answer, with which the site is published.     *)
Pass(e) ==
    /\ val[e].pc = "passing"
    /\ Verdict(e)
    /\ exec' = IF exec[e].at = "validation" THEN Ended(e) ELSE exec
    /\ UNCHANGED <<stored, runs, gen, worker>>

(* FAIL_BLOCKING answered: the execution ends, or the belt retry puts a    *)
(* new one in its place (SitePipeline says when).                          *)
FailAnswered(e) ==
    \/ /\ exec[e].at # "validation"
       /\ UNCHANGED <<exec, runs, gen>>
    \/ /\ exec[e].at = "validation"
       /\ \/ Begin(e, exec[e].run)
          \/ exec' = Ended(e) /\ UNCHANGED <<runs, gen>>

(* Mutant of Fail: save_validation_feedback is left out.                   *)
FailSilently(e) ==
    /\ val[e].pc = "failing"
    /\ Verdict(e)
    /\ FailAnswered(e)
    /\ UNCHANGED <<stored, worker>>

(* The report and the feedback are saved first.                            *)
Fail(e) ==
    /\ val[e].pc = "failing"
    /\ feedback' = exec[e].run
    /\ Verdict(e)
    /\ FailAnswered(e)
    /\ UNCHANGED <<contract, spec, site, worker>>

(* patch writes the render_spec it was given, and a rebuild is asked for.  *)
Patch(e) ==
    /\ val[e].pc = "patching"
    /\ LET s == val[e].spec
           applied == Applied(s.page, val[e].issues)
       IN  /\ \E ld \in {"other", "faq"} :
                spec' = [v |-> spec.v + 1, gen |-> s.gen,
                         page |-> Patched(s.page, applied, ld)]
           /\ val' = [val EXCEPT ![e].pc = "rebuilding",
                                 ![e].applied = applied]
    /\ Ask(e, spec.v + 1)
    /\ UNCHANGED <<contract, site, feedback, exec, runs, gen, strays, thread>>

(* patch raises before its write.                                          *)
PatchFails(e) ==
    /\ Errors
    /\ val[e].pc = "patching"
    /\ NextRound(e, {}, FALSE)
    /\ UNCHANGED <<stored, exec, runs, gen, worker>>

(* The rebuild takes more than 600 s: it counts as failed.                 *)
RebuildTimeout(e) ==
    /\ Timeouts
    /\ val[e].pc = "rebuilding"
    /\ HangUp(e)
    /\ asked' = asked \ {e}
    /\ NextRound(e, val[e].applied, FALSE)
    /\ UNCHANGED <<stored, exec, runs, gen, want>>

(* An exception, which the handler answers with VALIDATION_ERROR.          *)
ValFails(e) ==
    /\ Errors
    /\ val[e].pc \in {"fetch", "inspect", "passing", "failing"}
    /\ Verdict(e)
    /\ exec' = IF exec[e].at = "validation" THEN Ended(e) ELSE exec
    /\ UNCHANGED <<stored, runs, gen, worker>>

(* The task times out and is not retried; the validation goes on.          *)
ValTimeout(e) ==
    /\ Timeouts
    /\ exec[e].at = "validation"
    /\ exec' = Ended(e)
    /\ UNCHANGED <<stored, runs, gen, val, worker>>

-----------------------------------------------------------------------------

GenStep(e) == GenLoad(e) \/ GenSkip(e) \/ GenSave(e)

BuildStep(t) ==
    \/ \E who \in Exec \union {Nobody} : BuildLoad(t, who)
    \/ PutHtml(t)
    \/ PutGeo(t)

ValStep(e) == FetchSpec(e) \/ Inspect(e) \/ Pass(e) \/ Fail(e) \/ Patch(e)

Next ==
    \/ SaveContract
    \/ \E e \in Exec :
         \/ Start(e)
         \/ GenStep(e) \/ GenFails(e) \/ GenTimeout(e)
         \/ Unreachable(e) \/ BuildTimeout(e)
         \/ ValStep(e) \/ PatchFails(e) \/ RebuildTimeout(e)
         \/ ValFails(e) \/ ValTimeout(e)
    \/ \E t \in Thread : BuildStep(t) \/ BuildFails(t)
    \/ StrayLost

Spec == Init /\ [][Next]_vars

(* Every agent goes on with what it does, and the worker with its queue.   *)
Fairness ==
    /\ \A e \in Exec : WF_vars(GenStep(e)) /\ WF_vars(ValStep(e))
    /\ WF_vars(\E t \in Thread : BuildStep(t))

FairSpec == Spec /\ Fairness

-----------------------------------------------------------------------------
(* Properties.                                                             *)

(* The page served never goes back to an older render_spec, whatever       *)
(* builds of overlapping executions, of rebuilds and of abandoned requests *)
(* are made: the worker builds one at a time and reads the spec first.     *)
NeverOlder == [][site'.v >= site.v]_vars

(* When the supplementary files of a spec are put, the page served is the  *)
(* one of the same spec.                                                   *)
GeoFollowsPage == [][site'.geo # site.geo => site'.geo = site'.v]_vars

(* A build that is answered with success has put a page at least as new as *)
(* the spec its requester had seen stored when it asked, also when the     *)
(* answer is to a retry of a request that was abandoned.                   *)
Answered(e) ==
    \/ exec[e].at = "build" /\ exec'[e].at = "validation"
    \/ /\ val[e].pc = "rebuilding"
       /\ val'[e].pc = "fetch"
       /\ val'[e].rebuilt

FreshWhenAnswered == [][\A e \in Exec : Answered(e) => site'.v >= want[e]]_vars

(* Of an execution that runs alone: when a validation passes, the page     *)
(* served breaks no structural rule and is of the generation that is       *)
(* stored, although rounds with failed patches, failed rebuilds and failed *)
(* listings came before.                                                   *)
PassedServed ==
    \A e \in Exec :
      val[e].pc = "passing" =>
        /\ Layer3(site.v > 0, site.html, site.llms) = {}
        /\ site.gen = spec.gen

(* Of an execution that runs alone: after a rebuild that succeeded, no     *)
(* issue is reported again that the patch before it dealt with, unless the *)
(* list of files could not be had.                                         *)
PatchCures ==
    \A e \in Exec :
      val[e].rebuilt /\ val[e].listed => val[e].issues \intersect val[e].applied = {}

(* What generation fills in is enough for the rules that only another call *)
(* of the model could satisfy: no verdict names them.                      *)
FillSuffices ==
    \A e \in Exec : val[e].issues \intersect
                      {"NO_H1", "NO_JSONLD", "NO_FAQ_PAGE_JSONLD"} = {}

(* Of executions that do not overlap: a retry's generation is steered by   *)
(* the verdict that caused it.                                             *)
RetrySteered ==
    \A e \in Exec :
      gen[e].loaded /\ exec[e].from # 0 => gen[e].hints = exec[e].from

(* An execution ends: its patch rounds are counted, and so are retries     *)
(* (by MaxRuns here, by `attempt` in SitePipeline).                        *)
ExecutionsEnd == \A e \in Exec : exec[e].at # "idle" ~> exec[e].at = "idle"

(* The executions here are ones of the state machine (SitePipeline): they  *)
(* keep the order of its tasks and its retries, whatever the agents, which *)
(* work on behind their backs, answer and when.                            *)
Tasks == INSTANCE TaskOrder WITH
    task <- [e \in Exec |-> [at |-> IF exec[e].at = "idle" THEN "none"
                                    ELSE exec[e].at,
                             tries |-> exec[e].tries]]
OrdersTasks == Tasks!Spec
=============================================================================
