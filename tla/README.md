# HEZO in TLA+

HEZO turns a conversation into a published web site. A chat agent fills a
contract, a generation agent turns the contract into a `render_spec`, a build
worker renders it to HTML, a validation agent checks and patches the result, and
a second pipeline gives the site its own infrastructure and a weekly report.
Beside that runs a wiki of domain knowledge that is crawled on a schedule and
improved by what the chat learns; the chat and the validation read it.

Everything runs on managed services: Step Functions state machines, Lambda
handlers, AgentCore agents, DynamoDB items and S3 objects. No part locks
another. What makes the system correct is the order of single-item calls, a few
conditional writes, leases and retries. That is what is modelled here.

## Inventory

| Component | State it keeps | Operations | Talks to |
|---|---|---|---|
| Wiki index and bodies (`agents/wiki/index_store.py`, `storage.py`) | one item per domain (status, `next_refresh_at`, `latest_version`, `attempts`); a versioned object per domain | register, due, claim, commit, reject; put, get | every wiki process |
| Wiki crawl (`wiki_pipeline.json`, `agents/wiki/handlers`, `pipeline.py`, `initialize.py`) | the execution's state and input | Pick, Crawl, ReviewAndStore, Catch; register_catalog, bootstrap_seeds | index, bodies, raw documents |
| Wiki reinforcement (`agents/wiki/reinforce.py`) | the `pending/` objects | one invocation per uploaded document, a compare-and-save loop | index, bodies; triggered by the chat's upload |
| Content pipeline (`hezo_pipeline_v6.json`) | the site's item: `publish_status`, `attempt`; the execution's state | the states of the machine | generation, build and validation agents; event bus |
| Provisioning (`hezo_iac_pipeline.json`, `infra/lambda`) | the same item (`publish_status`, `domain_url`); the CloudFormation stack | the states of the machine | event bus, CloudFormation, report trigger |
| Generation agent (`agents/generation`) | `render_spec.json`; the run's spec, attempt and hints | load contract and feedback, generate and evaluate in up to three rounds, judge, rewrite weak sections, fill, guard, save | S3, Bedrock |
| Build worker (`agents/build`) | the site's files in S3 | render, upload, write the GEO files | S3; called by pipeline and validation |
| Validation agent (`agents/validation`) | `validation_report.json`, `validation_feedback.json`, patched `render_spec.json` | three rounds of check, patch, rebuild | S3, build worker |
| Chat agent (`agents/chat`) | session, messages, checkpoint, slots, `contract_final.json` | turns, guarded reply, contract and companions, supplement thread | DynamoDB, S3, Bedrock, wiki |
| Chat graph (`chat_graph.py`, `chat_session_start.py` and what they call) | the same items; the drafts in S3 | graph_smoke: load, parse, review, question, answer, compile, guard, checkpoint, store; session_start | DynamoDB, S3, wiki |
| Report (`infra/lambda/trigger_report_agent.py`, `agents/report`) | the weekly schedule, reports | invoke, ensure schedule | Scheduler, S3 |

Hard behaviours: executions of one state machine overlap on one item (nothing
makes them exclusive); every read-then-write is two calls; a body and its index
entry are two stores; an execution ends in `Catch` anywhere and nobody undoes
what it did; Lambda and EventBridge deliver at least once; leases and time-outs
expire while the late party still runs; two state machines write
`publish_status`. `PROJECT.json` lists them as hazards, each at its line.

What makes each part correct:

- index and crawl: one execution per domain at a time, no rejection lost, no
  domain of the catalogue stuck, the index never names a body that is not stored;
- reinforcement: adopt a document only over what it was compared with, keep the
  stored one otherwise, always delete the pending one;
- content pipeline: `publish_status` follows its lifecycle, retries are bounded,
  the status settles;
- provisioning: no domain before its infrastructure, a published site gets one;
- content: the page served never goes back, its files are of its spec, a late
  answer is never taken for the retry's; what a validation passes is what is
  served, a patch cures what it says it cured, rounds end, a retry learns from
  the verdict before it;
- generation: a run saves one spec of one contract that was ready, or nothing;
  what the contract gave stays, what is saved can be built, every round knows
  what the one before lacked, every run ends;
- chat: a contract is only saved complete, what was rejected leaves no trace, no
  answer is lost between turns;
- chat graph and replies: no document of the graph and no answer that the guardrails
  object to is stored or shown, a
  stored draft has its checkpoint, only open slots are asked for, a session only
  starts over a document that is sound, Claude is given a sound conversation.

## Modules

| Module | Models | Composes |
|---|---|---|
| `WikiIndex` | the two stores of the wiki and each single-call operation, as operators on items | |
| `WikiCrawl` | executions of the crawl, initialisation, the clock | `WikiIndex` |
| `WikiReinforce` | invocations of the reinforcement | `WikiIndex` |
| `WikiSystem` | crawl and reinforcement over one index and one bucket | `WikiCrawl`, `WikiReinforce` |
| `SiteTable` | the site's item and the events sent | |
| `SitePipeline` | executions of the content pipeline | `SiteTable` |
| `StatusLifecycle` | abstract: what readers of `publish_status` may see | |
| `TaskOrder` | abstract: the order of an execution's tasks and their retries; both `SitePipeline` and `SiteContent` implement it | |
| `SiteProvisioning` | executions of the provisioning, the stack | `SiteTable` |
| `SiteSystem` | both pipelines over one item | `SitePipeline`, `SiteProvisioning` |
| `ContentRules` | what is computed of a page: fill, render, rules, patch | |
| `SiteContent` | the three agents and the objects they share, for one site | `ContentRules` |
| `GenerationService` | abstract: what the pipeline counts on when it calls the generation agent | `ContentRules` |
| `SpecGeneration` | the generation agent: one run, call by call | `ContentRules`; implements `GenerationService` |
| `ChatTurn` | turns of one chat session: answers, messages, contract, transcript | |
| `ChatStore` | one session's items and documents, the slot state every action of the chat works out | |
| `ChatGraph` | graph runs and session starts | `ChatStore` |
| `GuardedReply` | turns: restoring, the two guardrails around Claude, messages, contract | `ChatStore` |
| `ChatAgent` | both over one session and one site | `ChatGraph`, `GuardedReply` |
| `WikiCrawlProofs`, `WikiSystemProofs`, `SitePipelineProofs`, `SiteSystemProofs`, `SiteContentProofs`, `SpecGenerationProofs`, `ChatTurnProofs`, `ChatAgentProofs` | theorems | the module they are named after |
| `MCWikiCrawl`, `MCWikiSystem`, `MCSiteSystem`, `MCSiteContent`, `MCSpecGeneration`, `MCChatTurn`, `MCChatAgent` | instances for TLC | likewise |

### Wiki

`index[d]` is the DynamoDB item of domain `d`. `next_refresh_at` is kept as
`wait`, the clock ticks left until it is due; every operation that sets it sets
a distance from now, so nothing else is needed. `object[d]` is the newest
version of the body; versions are numbered, 0 is none. A body is its author (a
crawl or a supplement document) and its coverage, which is what `_is_shrink`
compares. The order in which the due-index returns items of one status is left
open; a query sees the table as it is, and because the claim is a separate
action, whatever happens between the two makes the answer stale.

An execution of the crawl is `run[r]`. Each remote call of a handler is one
action: `PickDue` reads the due-index, `ClaimWon`/`ClaimLost` is the conditional
update, `Crawl` is `collect`, `RejectRead` and `RejectWrite` are the two calls of
`reject`, `Put` and `Commit` the two of `save_industry_versioned`. The verdicts
of generation, precheck and review are free choices. `Fail` is any other error
at any point (Catch). `Unanswered` and `Reinvoke` are a Lambda whose reply is
lost, before or after its effect. `lease` is the ticks left of the execution's
own claim and exists only to state properties. `ClaimBare` is the pick handler
on an item that lacks `category`; the crawl by itself starts on stores that may
hold such items (`FoundStores`), the system as a whole creates them. Such an item
is claimed and failed on at every pick, again and again: `Requeued` is about items
with a category.

A reinforcement is `call[x]`, one action per call again: `ReadVersion`,
`Compare`, `Save`, `Adopt` or `Conflict`, `DeletePending`; `Die` ends an
invocation after any call, and the event is delivered again a bounded number of
times. Uploading is not tied to an existing body, although the chat skips domains
that have none: the code handles that case (`FindNothing`) and so does the model.

### Site

`item` is the site's item in `hezo_pipeline_state`. `exec[e]` is an execution of
the content pipeline at the state it is about to enter; a Choice or Pass state
goes with the task before it, whose answer is all it reads. What the three agents
do is reduced to how their tasks end. `TaskFails` and `CallFails` take an
execution to MarkFailed where the machine has a Catch, `Dies` ends it where it
has none. `StartNewExecution` reuses the slot of the execution that ends with it.

`prov[p]` is an execution of the provisioning, `stack` the CloudFormation stack.
The event bus delivers every event (`delivered`) and some twice (`duplicates`).
WaitForStack and CheckStackStatus poll; only the poll that sees the end is an
action. A failed provisioning writes nothing to the item, as in the code.

### Chat

`ChatTurn` is the action chat_turn for one session. The agent keeps no answers
between turns: `client` holds what the last response said and sends it back (or
nothing; then the agent starts anew, as no turn stores a checkpoint). `turn[t]` is
one invocation; the back end names no runtime session, so two of them run side by
side when a call that timed out is made again (`Resend`). `Accept`, `ForceAccept`,
`Retry` and `Reject` are what `handle_chat_turn` and the force-accept of
`_run_chat_turn` make of an answer; the intent is free. Each store is an action of
its own: `Persist`, `SaveContract`, `SaveTranscript`; then `Answer`, or `Dies`
anywhere before. The extractor may return any word for any key, as the code does
not compare keys (`Extracted`, `Merged`). A text is a model value that may be
short, a name that is only quotation marks, or no wine list (`Short`, `Quotes`,
`Refused`). The supplement of the wiki that ends a complete session is
`WikiReinforce`'s `Upload`. `session_start` gives the first question (`Init`).

### Chat graph and guarded replies

`ChatStore` is what the actions of the chat agent share: the session's items in
the table (`listed` is META, `checkpoint`, `messages`), the domain's document of
the wiki, and the documents written (`enriched`, `draft`, `final`). A slot's answer
is none, the user's, the user's with what the local mock of the guardrail looks for
(`private`, a resident registration number, or `orders`, words that tell the model
what to do), or the graph's own example. `Candidates`
and `Applied` are the pure functions both actions call.

`ChatGraph`: `run[r]` is an invocation of graph_smoke or session_start. A node
that makes no call is part of the action before it: `Load` is everything from
reading the document to the verdict on the draft, then each store is an action
(`SaveMetadata`, `SaveCheckpoint`, `PutEnriched`, `PutDraft`, `PutFinal`); `Raises` is
any call that fails, with nothing undone. A document is seven things that
`parse_p2_markdown` and `review_p2_markdown` tell apart; `Parse`, `Review` and
`Routing` are their decisions. The graph reports the two verdicts and goes by
neither, so only `StartSession` records them. `Seed` puts the sample document;
`Publish` is the wiki. The document `enriched` lies in `pending/`, where the wiki's
reinforcement deletes it whatever it makes of it, or the bucket after three days:
`DeletePending`.

`GuardedReply`: `turn[t]` is a turn that brings no answers of its own: `Restore`
reads the checkpoint (or fails to, and the session begins anew), `Handle` loads the
window of messages and lets `handle_chat_turn` take, reject or leave the answer;
`GuardInput`, `Invoke` and `GuardOutput` are the three calls to Bedrock, each of
which may fail; `StoreUser`, `StoreAssistant` and `SaveContract` are what is stored.
The guardrail of Bedrock intervenes on what `Intervenes` names and on some of the
orders to the model (`MayIntervene`); the adapter of Claude refuses every
conversation that holds one (`Valid`). The two do not look for the same, so an answer
with such words ("system prompt") may be shown and stored; so may a user's text, when
the request states its intent and the classifier is not asked. `CallsSound` claims
that none of it is sent. What follows in the code, that every call with it in its
window is refused, is in the model, and no property excludes it. The
budget for the conversation is a free choice of how many of the newest messages
fit. Companions, names and force-accepting are `ChatTurn`'s; here an answer is
taken or not.

### Generation

`SpecGeneration` opens the generation that `SiteContent` reduces to the page it ends
with. `run` is one invocation; a session runs its invocations one after the other.
A spec says for every section of `pages[0]` and every field beside it where its
text comes from: nowhere, the model (good, or with the flaw its rule looks for),
the contract, a rewriting, a stock text. `Answers` are whole answers of the model;
`Completed` merges one into the partial spec of the three templates that have one.
`Deduction` is the score of `evaluate_render_spec`, number by number. `LoadContract`,
`LoadFeedback`, `Parsed`/`Unparsable`, `Judge`, the three rewritings and `Finish` are
the calls of `run_generation` in their order, `Fails` an error of any of them. The
judgement of `llm_self_eval` is free. The texts `check_guardrails` refuses (words,
addresses, numbers) are a free refusal; what it asks to be there is `Allowed`.
`SaveContract` and `SaveFeedback` are the chat and the validation, at any time.
`heard` (the hints of the prompt that was answered) and the making of `saved` are
history.

`GenerationService` is the view of a caller: a run is called, loads a contract that
is ready, and saves one filled page or gives up. `Implements` maps the spec saved to
the page `ContentRules` is about.

### Content

`SiteContent` opens the three tasks `SitePipeline` reduces to their endings, and
in turn reduces the executions to those tasks: `exec[e].at`. The objects in S3
are `contract`, `spec` (`render_spec.json`), `site` (the published page and its
supplementary files) and `feedback`. A spec carries a version and the version its
generation had, which patches keep; `site.v` and `site.geo` remember the version
put. A page is what a blocking rule looks at (`ContentRules`): whether there is
an h1, the title, the JSON-LD, the supplementary files. `MULTIPLE_H1` is left out
because the renderer removes every h1 but one; layer 1 only warns; a spec without
pages is not enumerated.

- *Generation.* `gen[e]` is one AgentCore session (the runtime session is named
  after the execution). Its handler blocks the event loop, so invocations of one
  execution run one after the other; `left` counts those still to run. When the
  task times out (`GenTimeout`) the invocation goes on, and its late end is heard
  only if it is the last one. Attempts, self evaluation and weak sections end in
  one page, `\E draft \in Drafts`, that `Fill` completes.
- *Build.* One ECS task with one process whose handler calls `build_run` on the
  event loop: `Free` says no two builds overlap. The first read is `BuildLoad`,
  the puts are `PutHtml` and `PutGeo`; `BuildFails` stops between or in them.
  Who hangs up (`HangUp`) leaves a request in the queue (`strays`) or a build
  that no one listens to (`for = Nobody`), which are carried out all the same.
- *Validation.* `val[e]` is one run of the loop: `FetchSpec`, `Inspect` (page and
  listing, the layers, the decision), `Patch`, the rebuild, the next round; `Pass`
  and `Fail`. A task that times out leaves it running (`ValTimeout`).

`want[e]` is history: the version stored when the build was asked for.
An execution that ended leaves its agents at work; `Start` reuses its slot when
they are done. When a belt retry may start is `SitePipeline`'s concern; here it
may whenever a validation fails (`FailAnswered`).

## Runs

| Run | Question | Bounds |
|---|---|---|
| `wiki_crawl` | do claims exclude, do rejections count? | 2 domains, 2 overlapping executions, 3 picks, a lease of 2 ticks; on time, answered |
| `wiki_system` | what survives when everything may be late or die? | 1 domain, 1 crawl (late allowed), 2 documents of 2 coverages, 2 rounds, 1 redelivery |
| `wiki_live` | does every claimed domain of the catalogue come free, is every pending document deleted? | 1 domain, 1 crawl (late, replies lost, seed unclaimed, failing), 3 picks, 1 document, 2 rounds, 1 redelivery, dying invocations |
| `wiki_kept` | is the stored document kept when another is not adopted? | 2 documents, nothing dies: **violated** |
| `site_system` | retry bound, domain and stack | 2 + 2 overlapping executions, 3 requests, 1 duplicate event, all calls may fail |
| `site_live` | does the site settle and get its domain? | 2 + 2 overlapping executions, 2 requests, limit 2, 1 duplicate, no call fails |
| `content_overlap` | what do overlapping builds leave behind? | 2 executions, 2 threads (so that `Free` is what keeps one idle), 2 rounds, 1 task retry, 1 stray request; all time-outs, no errors; one draft that needs a patch; symmetric |
| `content_alone` | is what passes what is served, do executions end? | 1 execution and its retry, 3 rounds, every contract, 7 drafts, a template without h1; all errors, no time-outs |
| `chat_turn` | is a contract complete, does a rejected text leave a trace, is an answer lost? | 2 slots, 2 texts, 1 word, 3 turns, 1 sent again, 2 invocations at once; symmetric |
| `generation` | what does a run save, does its loop learn and end? | 1 run, 2 rounds, 3 templates (two with a partial spec) and a contract that is not ready, 5 answers, every judgement; all errors |
| `generation_merge` | does the merge take every null of a partial spec from the answer? | as `generation`: **violated** |
| `chat_agent` | what is stored, asked, shown and sent to Claude? | 3 invocations of 2 runs and 1 turn, 2 slots (the optional one first), 6 documents, 3 requests, 1 question at a time, a window of 2 messages; all errors; symmetric |

Domains do not interact except in the choice of a candidate, so two suffice where
that choice matters and one elsewhere. Two overlapping executions exhibit every
race between a read and a write of the code; the theorems below cover any number.
In the crawl's runs the delays keep the order the code gives them (lease < 1 day <
3 days < 7 days < refresh < 30 days; one tick is not one unit of time); the runs of
`WikiSystem` check nothing that depends on that order and keep them short. The named bounds are
`MaxPicks`, `MaxRedeliver`, `MaxStarts`, `MaxDuplicates`, `MaxRuns`, `MaxStrays`,
`MaxTurns`, `MaxResends`, `MaxCalls`;
`MaxRetry`, `MAX_CAS_RETRY`, `MAX_ATTEMPT`, `TASK_RETRY`, `MAX_PATCH_ATTEMPTS`,
`MAX_RETRIES`, `MAX_QUESTIONS` and `WINDOW` are limits of the code. The two runs of the content split the faults: time-outs
matter to what overlaps, errors to what a round decides.

`content_alone` claims what holds of executions that do not overlap, because with
overlap it does not: a patch writes back the spec its round began with, and a
second execution's generation in between is lost; feedback is one object per
site. Nothing in the code excludes that, and no document promises it. Likewise
the feedback of a failure is never deleted, so it steers the user's later
requests too, and the llms.txt of an earlier spec stays and satisfies the rule.

In `generation` one run suffices (`MaxRuns` = 1): a run keeps nothing of the one
before it but the saved spec, which it does not read, and what runs find in S3 is
whatever the others wrote. Two rounds show what a second one is told; the theorems
cover any number, and any answers. In `chat_agent` three invocations are what the
races take: a run that stores a checkpoint, a turn that restores it, and a run (or
turn) that overlaps either. A window of two messages is cut at either role. One
document for each thing a verdict looks for is enough, since the verdicts are
disjunctions of them but for the score, whose only sum that matters (a boast and no
sources) is there.

The `CHECK_DEADLOCK FALSE` of the runs of the site and of `content_overlap`: a
site no one asks to publish any more is at rest; of the chat and
of `generation`: every invocation the bound allows is over.

What the violated run `wiki_kept` shows: the reinforcement puts its body before the
commit that may be refused. With two reinforcements of a domain, the loser's text
is what every reader gets, and its next round finds its own text and reports "no
change". The index goes on naming the winner's version.

What the violated run `generation_merge` shows: `_merge_partial_spec` is said to merge
deeply (`generation/agent.py:688`) and recursively (`agent.py:694`). Of a list it only
replaces elements that are null, and `pages` is a list of dicts: what the model
completes in the page of a partial spec is lost. The proofs have the consequence
(`LoopExhausted`): with the code's threshold no round passes, and every run with a
partial spec makes all its calls. That is not claimed as a property of the agent,
only used to prove others of the code as it is.

Other disagreements met on the way, which the models have and no run is about:

- The comment at `pick_lambda.py:25` calls the last fallback of the pick handler the
  recovery of domains stuck in crawling. An item with no category
  (`ClaimBare`) is stuck there for good: every pick that finds it fails with
  KeyError.
- `docs/P5_PIPELINE_RETRY_DESIGN.md:121` has the generation learn from the
  validation's feedback; its hints only reach the first round, only the prompt of a
  partial template has room for hints (`agent.py:600`), and there a second round
  follows always, with other hints.
- When an ambiguous answer is accepted all the same, the response still carries the
  question candidates of the rejection (`chat_http_handler.py:252`), so the user may
  be asked again for what the session now holds; `agents/chat/README.md:332` says
  such slots are left out.
- The review of a document is given the same domain as the document's and as the
  expected one (`chat_graph.py:231`), so its check of the domain that
  `agents/chat/README.md` lists cannot fail; the mismatch it acts on is the parser's.
- `handle_chat_turn` goes to contract_compile when no slot is *listed* missing; a
  session restored from a graph's checkpoint may list fewer than lack an answer, and
  the contract stored is then not ready. `StoredCleared` claims no more.
- A message the input guardrail blocked is stored all the same (whether to store is
  the intent's decision, `chat_http_handler.py:562`; `agents/chat/README.md:810` says
  the guardrail prevents it) and is in the history of the turns after it.
- The graph's contract has no gates and may replace one that is ready; its enriched
  document is one per domain, whatever the site.
- No turn stores a checkpoint: a session is only restored to where a graph run left
  it.
- The design of the retries (`docs/P5_PIPELINE_RETRY_DESIGN.md`) excludes automatic
  ones, the deployed state machine (v6) starts a new execution up to three times;
  `docs/P1_API_CONTRACT.md` says the contract is saved when `next_stage` is
  `contract_compile`, the code only logs a refused name or list and a failed put;
  `agents/chat/README.md` says an ambiguous answer is never applied, the code accepts
  one of five characters.

## Fairness

- `CrawlFairness`: the schedule keeps firing (EventBridge), an invoked handler
  proceeds or fails, time passes. Failing is never required.
- `ReinforceFairness`: an invocation that does not die proceeds. The upload of a
  document is never required.
- `PipelineFairness`, `ProvFairness`: Step Functions drives an execution on (every
  agent task has a time-out), the bus delivers, CloudFormation ends a creation.
  Asking for publication, an error and a retry of a task are never required.

- `Fairness` of `SiteContent`: an agent that works goes on (an invocation is not
  bound to the task that made it), the worker takes the next request (the ECS
  service restarts its task). Errors and time-outs are never required.

- `Spec` of `SpecGeneration`: a run that began goes on; its calls return or raise
  (boto3's time-outs). Failing is never required.
- `ChatTurn` and `ChatAgent` assume none: their properties are about what is stored.

All of it is weak fairness: no step needs to be chosen infinitely often against a
competitor.

## Proofs

All statements hold for every value of the constants that meets the modules'
assumptions (any sets of domains, documents and executions, any delays, any
limits). `Exec` is assumed finite because the bound on retries counts it.

- `CrawlTyped`, `SystemTyped`, `PipelineTyped`, `SiteTyped`: types.
- `LeasesExclusive`: assumes `OnTime` (no execution outlives its lease, no reply
  is lost, no seed is generated unclaimed); `IndexNeverAhead` and the liveness
  runs do without it, and TLC refutes exclusion when any of the three is dropped.
  Exclusion alone is not inductive: nothing in it ties an execution's lease to
  the item. `LeaseInv` adds that a working execution holds its item (the item is
  crawling, its lease ends no earlier than the execution's, and a pending
  rejection has read the current `attempts`), that holders are apart, and that a
  domain about to be registered is fresh. The claim's condition then contradicts
  any other holder.
- `RejectionsCount` follows from the same invariant: what `RejectRead` read is
  still there when `RejectWrite` writes.
- `IndexStaysBehind`, `AdoptionsInformed`: one strengthening, `StoresInv`: an
  execution between its put and its commit knows a version that is stored, and a
  reinforcement that has read a version has read one not newer than the body it
  then compares. The order of the two reads in the code is what makes this true.
- `RetriesStayBounded`, `SiteRetriesBounded`: the bound becomes inductive once the
  executions that have read `attempt` and not yet raised it are counted in
  (`RetryInv`).
- `ImplementsLifecycle`: a refinement, for executions that do not overlap
  (`Alone`). `StatusInv` says an execution finds the status it set itself. The
  lifecycle lets a site fail at any time, since the code does: a published one too,
  when the read after MarkPublished fails.
- `MachineOrdersTasks`, `ContentOrdersTasks`: refinements of `TaskOrder` by both models
  of an execution, the state machine's (`SitePipeline`) and the one with the agents'
  work in it (`SiteContent`), with every fault and any overlap. So what `SiteContent`
  has of the executions agrees with the states of the definition: a validation
  follows a build and a build a generation, only the first two tasks are retried, and
  at most `TASK_RETRY` times each time they are reached. No run has `OrdersTasks` or
  `FollowsLifecycle` as a property: the theorems are where they are shown.
- `DomainsHaveStacks`: whoever is about to store the domain has seen the stack
  complete, and a complete stack stays.
- `ContentTypeCorrect`, `ContentInvariant`: any number of executions, threads,
  strays and rounds, all faults at once. `ContentInv` is the inductive invariant:
  who waits for the worker is live, and no one validates before it has built
  (`Phases`); one build at a time, begun with a spec at least as new as the page,
  whose page is the one served from its first put on (`Serial`); a build someone
  listens to began with a spec at least as new as the one it was asked for
  (`Wanted`). None of the three properties is inductive without it: they say
  what a put does, and it depends on what the build read before.
- `PageNeverOlder`, `GeoBesidePage`, `AnswersFresh` follow from it step by step.
  The last needs that nothing but a finished build counts as a successful
  answer (`NoOtherAnswer`), and that hanging up makes a build no one's.

- `ChatTypeCorrect`, `ChatInvariant`: any registry, texts and turns. `Complete` is not
  inductive: `ChatInv` adds that no answer a turn carries is blank, that it is done
  only with every slot answered, and that what the extractor adds takes nothing away
  (`ExtensionKeeps`). From it follow `ContractsComplete`, `RejectedLeavesNoTrace` (what
  a turn holds was admitted) and `AnswersKept`, which needs that at most one turn is
  waited for and that it was sent what the client still has (`OneAwaited`).

- `GenCorrect` and the five theorems that follow from it: any contracts, any answers,
  any number of rounds. `GenInv` adds to the types that a run past its load has a
  contract that was ready; that a spec in the making has the contract's fields; that
  the hints of a round after the first name what the one before lacked; and where the
  loop stands. `PartialLacks` and `LackingFails` say what the merge leaves out and
  what it costs. They assume a threshold above 47 (those
  sections cost 53 of the 100 points: h2 5, seo 18, ld 10, qa 5, faq 15); the code's is 70.
- `GenerationImplements`: a refinement by the same invariant; a step of the loop is a
  stutter of the service.

- `RetriesSteered`, `PassedIsServed`, `PatchesCure` assume `Alone` (one slot for
  executions, used again and again): what the properties say is false with overlap,
  as said above. They go beyond `content_alone`, which has no time-outs and no
  abandoned requests: these are in the theorems. Each needs more than its property.
  `Sessions` says that the generation agent is at work only while its task waits or
  the execution has ended without it; `Steered`, that until it is done the feedback is
  that of the verdict. `Current` says that nobody stores a spec while a build is
  waited for; `Versions`, that a version belongs to one spec, also in a build of a
  request nobody waits for any more; `Validated`, that stored, built and served pages
  are of one generation once a validation has begun, and that what it has read is what
  is stored. `Cured` follows an issue from the patch through the rebuild to the next
  inspection. `AloneInvariant` is their conjunction.
- `FillIsEnough` needs no such assumption: `Filled` says that every spec stored, in a
  build or read by a validation has what only the model could add, so that what a
  patch cannot fill in is never lacking, on whichever page an overlapping execution
  served.

- `StartsAreSound`, `StoredIsCleared`, `DraftsResumable`, `CallsAreSound`,
  `AnswersAreCleared`: any registry, documents and requests, any number of runs and
  turns at once, any window. `RunsSound` says that a session start holds the verdicts
  on the document it read, and that a run about to store the final contract has every
  required answer; `StoresSound` that what a run has stored on the way is there,
  whoever stored over it since, but for the document in `pending/`, which the wiki may
  have deleted. `TurnsSound` says that what is on its way to Claude was let through,
  that a flow that succeeded shows an answer the guardrail does not object to, and
  what may be among the messages (`Clean`): a user's text of any kind, and any answer
  but one it objects to. What a later turn sends opens with the user because
  `Conversation` cuts there (`ConversationOpens`). `DraftsResumable` assumes `NoneApart`: a stored slot state is
  not taken for nothing stored.
- `QuestionsAreOpen`: any registry, required slots, requests and number of questions.
  `RunsTyped` says of every run, also before it is done, that its questions fit its
  answers and its missing slots (`Fits`). A template or a request gives lists without
  repetition; `KeptHolds` says what a selection from a list has and that it repeats
  nothing, `SortedHolds` that required slots come first, `CandidatesFit` that cutting
  the list to the number of questions keeps all this.
- `AgentTypeCorrect`: with `TurnsAreSound` (what may be among the messages) and
  `RunsAreTyped`.

Every invariant and action property of the runs is stated by one of these theorems.
Only model-checked: `Requeued`, `PendingDeleted`, `Provisioned`, `SiteSettles`,
`ExecutionsEnd`, `RunsEnd`. They are liveness under fairness, which the prover does
not reach. It has no definition of `SelectSeq`: `Kept` in `ChatStore` picks the
elements of a list by their ranks instead, so that its lemma (`KeptHolds`) needs no
induction.

## Mutants

Next to an operator stands, where a run has a property that depends on it, a
mutant: the same operator with a plausible bug (a dropped guard, a forgotten
write, an off-by-one). No specification uses it. Replacing the operator by it
makes TLC find the property violated.

## Plan

1. `ChatAgent` composed with the reader of its contract (`SiteContent`'s `GenLoad`,
   `SpecGeneration`'s `LoadContract`): which faults let a published site have an older
   contract than its last complete turn.
2. Pure algorithms, checked against reference definitions: coverage and shrink,
   precheck, review score and gate, backoff, report score.
3. Proofs: that the wiki as a whole implements an abstract register of adopted bodies.

## Not modelled

- The report (`trigger_report_agent.py`, `agents/report`): it reads the published
  site, asks AI services about it and scores the answers; the schedule it ensures is
  read by no other component. Its races are listed as a hazard.
- The text processing of the wiki (`generate.py`, `review.py`, `precheck.py`,
  `search.py`, `fetch.py`): model calls, HTTP and text rules; their verdicts are free
  choices of `WikiCrawl` and `WikiReinforce`.
- `agents/generation/action_groups`: deprecated, called by nothing.
- `storage_guardrails.py` and the stored guardrail results: called by tests only.
- The map from site ids to stack names (`prepare_customer_name.py`): the model has one
  site. It maps `_` to `-`, so two sites whose ids differ in that alone would share a
  stack.
- Prompts, wording, rendering and templates, telemetry, deployment scripts, IAM and
  Terraform: they hold no state, or are inputs the models leave free.
