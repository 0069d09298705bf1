--------------------------- MODULE SpecGeneration ---------------------------
(***************************************************************************)
(* How the generation agent makes a render_spec: run_generation and what   *)
(* it calls, for one site.  A session runs its invocations one after the   *)
(* other; contract_final.json and validation_feedback.json are written by  *)
(* others at any time.                                                     *)
(*                                                                         *)
(* One action per call of a service with the code up to the next one.      *)
(***************************************************************************)
EXTENDS ContentRules, Naturals

CONSTANTS
    Contracts,          \* the contracts the chat agent may save
    Answers,            \* what the model may answer, section by section
    MAX_RETRIES,        \* calls of the model before a run makes do
    QUALITY_THRESHOLD,  \* the score with which an answer passes
    MaxRuns,            \* bound: invocations
    Errors              \* may calls fail?

(* The templates with a partial render_spec, and what of it the contract   *)
(* gives; every other template is called other.                            *)
Given == [wine   |-> {"h1", "hero", "services", "contact", "business"},
          tax    |-> {"services", "contact", "business"},
          career |-> {"services", "business"}]
Partial == DOMAIN Given
Template == Partial \union {"other"}

(* What of a render_spec is told apart: sections of pages[0], and fields   *)
(* beside it (business is json_ld, ids are site_id and template_id).       *)
Section == {"h1", "h2", "hero", "services", "contact", "qa", "faq", "seo",
            "ld"}
Field == Section \union {"business", "files", "ids"}

(* Where the text of a field comes from: not there (an FAQ block: without  *)
(* items), the model's with the flaw that the rules look for (qa: without  *)
(* text) or good, the contract's, written anew for the section alone, or a *)
(* stock text.  JSON-LD with a FAQPage has the origin of its questions,    *)
(* without one it is other.                                                *)
Origin == {"none", "poor", "model", "contract", "new", "stock", "other"}

Contract == [ready: BOOLEAN, template: Template]
Answer == {a \in [Field -> {"none", "poor", "model", "other"}] :
             a["faq"] # "other"}

ASSUME GenerationAssumption ==
    /\ Contracts \subseteq Contract
    /\ Contracts # {}
    /\ Answers \subseteq Answer
    /\ MAX_RETRIES \in Nat \ {0}
    /\ QUALITY_THRESHOLD \in 1..100
    /\ MaxRuns \in Nat
    /\ Errors \in BOOLEAN

VARIABLES
    contract,   \* contract_final.json
    feedback,   \* is there a validation_feedback.json?
    saved,      \* render_spec.json, with its making (history)
    runs,       \* invocations so far
    run         \* the invocation at work

vars == <<contract, feedback, saved, runs, run>>

Hint == Field \union {"feedback", "json"}
Pc == {"idle", "load", "feedback", "generate", "judge", "faq", "qa", "seo",
       "finish"}

(* spec is made of the last answer that could be parsed, which was answer; *)
(* heard are the hints of the prompt it answers (history).                 *)
Run == [pc: Pc, contract: Contract, fed: BOOLEAN, hints: SUBSET Hint,
        attempt: Nat, spec: [Field -> Origin], answer: [Field -> Origin],
        heard: SUBSET Hint, weak: SUBSET Section]
Saved == [v: Nat, contract: Contract, fed: BOOLEAN, heard: SUBSET Hint,
          spec: [Field -> Origin]]

GenTypeOK ==
    /\ contract \in Contract
    /\ feedback \in BOOLEAN
    /\ saved \in Saved
    /\ runs \in Nat
    /\ run \in Run

Blank == [f \in Field |-> "none"]
NoContract == [ready |-> FALSE, template |-> "other"]
Asleep == [pc |-> "idle", contract |-> NoContract, fed |-> FALSE,
           hints |-> {}, attempt |-> 0, spec |-> Blank, answer |-> Blank,
           heard |-> {}, weak |-> {}]

Init ==
    /\ contract \in Contracts
    /\ feedback \in BOOLEAN
    /\ saved = [v |-> 0, contract |-> NoContract, fed |-> FALSE,
                heard |-> {}, spec |-> Blank]
    /\ runs = 0
    /\ run = Asleep

-----------------------------------------------------------------------------
(* Making a spec.                                                          *)

(* What the contract's slots are parsed into is the contract's, whatever    *)
(* the parsers drop, cut and bring into form.                              *)
FromContract == "contract"

(* Mutant of PartialSpec: what is to be completed is empty, not null.      *)
PartialSpecEmpty(template) ==
    [f \in Field |-> IF f \in Given[template] THEN FromContract ELSE ""]

(* _build_partial_render_spec: the fields the contract gives are filled,   *)
(* the others are null, or (qa, seo, ld) not there.                        *)
PartialSpec(template) ==
    [f \in Field |-> IF f \in Given[template] THEN FromContract ELSE "none"]

(* Of the page's fields, those that are null: what is not given, but for   *)
(* seo, the QuickAnswer and the JSON-LD, which are not fields of the page. *)
Nulls(template) ==
    {"h1", "h2", "hero", "contact", "faq"} \ Given[template]

(* Mutant of Merge: what the model answers goes before what is there.      *)
MergeTrusting(partial, answer) ==
    [f \in Field |-> IF answer[f] = "none" THEN partial[f] ELSE answer[f]]

(* _merge_partial_spec: a null outside pages is taken from the answer; the *)
(* elements of the list pages are not descended into.                      *)
Merge(partial, answer) ==
    [f \in Field |-> IF f \notin Section /\ partial[f] = "none"
                     THEN answer[f] ELSE partial[f]]

(* Without a partial spec the answer is the spec.                          *)
Completed(template, answer) ==
    IF template \in Partial THEN Merge(PartialSpec(template), answer)
                            ELSE answer

(* What evaluate_render_spec takes off for a field that is missing, and    *)
(* for one with its flaw: a short h1, few h2 or questions, a title of the  *)
(* wrong length, an empty QuickAnswer, no core pages in llms.txt, one id   *)
(* of the two.                                                             *)
Missing == [h1 |-> 10, h2 |-> 5, seo |-> 18, ld |-> 10, qa |-> 5,
            faq |-> 15, files |-> 30, ids |-> 30]
Flawed == [h1 |-> 5, h2 |-> 5, seo |-> 7, ld |-> 10, qa |-> 5,
           faq |-> 15, files |-> 20, ids |-> 15]

TakenOff(spec, f) == IF spec[f] = "none" THEN Missing[f]
                     ELSE IF spec[f] = "poor" THEN Flawed[f]
                     ELSE IF spec[f] = "other" THEN 5 ELSE 0

Deduction(spec) ==
    TakenOff(spec, "h1") + TakenOff(spec, "h2") + TakenOff(spec, "seo")
    + TakenOff(spec, "ld") + TakenOff(spec, "qa") + TakenOff(spec, "faq")
    + TakenOff(spec, "files") + TakenOff(spec, "ids")

Passed(spec) == Deduction(spec) + QUALITY_THRESHOLD <= 100

Issues(spec) == {f \in DOMAIN Missing : spec[f] \in {"none", "poor", "other"}}

(* Mutant of Finished: the questions are made up for the JSON-LD only.     *)
FinishedAside(spec) ==
    [spec EXCEPT
       !["h1"] = IF spec.h1 # "none" THEN spec.h1
              ELSE IF spec.hero # "none" THEN spec.hero ELSE "stock",
       !["h2"] = IF spec.h2 = "none" THEN spec.faq ELSE spec.h2,
       !["ld"] = IF spec.faq = "none" THEN "stock" ELSE spec.faq]

(* Step 6-pre: the h1 falls back on the hero's and on stock; the h2 on the *)
(* questions; without questions there are stock ones, of which the FAQPage *)
(* is made.                                                                *)
Finished(spec) ==
    LET faq == IF spec.faq = "none" THEN "stock" ELSE spec.faq IN
      [spec EXCEPT
         !["h1"] = IF spec.h1 # "none" THEN spec.h1
                ELSE IF spec.hero # "none" THEN spec.hero ELSE "stock",
         !["h2"] = IF spec.h2 = "none" THEN spec.faq ELSE spec.h2,
         !["faq"] = faq,
         !["ld"] = faq]

(* check_guardrails, as far as it asks what is there: h1, seo and blocks,  *)
(* and a QuickAnswer with text.                                            *)
Allowed(spec) == spec.h1 # "none" /\ spec.seo # "none" /\ spec.qa # "poor"

-----------------------------------------------------------------------------
(* The others.                                                             *)

SaveContract ==
    /\ contract' \in Contracts
    /\ contract' # contract
    /\ UNCHANGED <<feedback, saved, runs, run>>

(* A validation gave up on what a generation saved before.                 *)
SaveFeedback ==
    /\ ~feedback
    /\ feedback' = TRUE
    /\ UNCHANGED <<contract, saved, runs, run>>

Invoke ==
    /\ run.pc = "idle"
    /\ runs < MaxRuns
    /\ runs' = runs + 1
    /\ run' = [Asleep EXCEPT !.pc = "load"]
    /\ UNCHANGED <<contract, feedback, saved>>

-----------------------------------------------------------------------------
(* run_generation.                                                         *)

Answered == run' = Asleep

(* Mutant of LoadContract: the gate is missing.                            *)
LoadUngated ==
    /\ run.pc = "load"
    /\ run' = [run EXCEPT !.pc = "feedback", !.contract = contract]
    /\ UNCHANGED <<contract, feedback, saved, runs>>

(* load_contract and the gate: not ready is skipped.                       *)
LoadContract ==
    /\ run.pc = "load"
    /\ \/ /\ contract.ready
          /\ run' = [run EXCEPT !.pc = "feedback", !.contract = contract]
       \/ /\ ~contract.ready
          /\ Answered
    /\ UNCHANGED <<contract, feedback, saved, runs>>

LoadFeedback ==
    /\ run.pc = "feedback"
    /\ run' = [run EXCEPT !.pc = "generate", !.attempt = 1, !.fed = feedback,
                          !.hints = IF feedback THEN {"feedback"} ELSE {}]
    /\ UNCHANGED <<contract, feedback, saved, runs>>

(* Only the prompt around a partial spec has room for hints.               *)
Prompted == IF run.contract.template \in Partial THEN run.hints ELSE {}

(* Mutant of Again: the issues are logged, and the hints stay.             *)
AgainBlindly(r, issues) == [r EXCEPT !.attempt = r.attempt + 1]

(* Mutant of Again: the round is not counted.                              *)
AgainUncounted(r, issues) == [r EXCEPT !.hints = issues]

(* The next round of the loop, told what was wrong in this one.            *)
Again(r, issues) == [r EXCEPT !.attempt = r.attempt + 1, !.hints = issues]

(* call_claude with an answer that is no JSON: the last round raises, even *)
(* where an earlier one had a spec.                                        *)
Unparsable ==
    /\ run.pc = "generate"
    /\ \/ /\ run.attempt < MAX_RETRIES
          /\ run' = Again(run, {"json"})
       \/ /\ run.attempt >= MAX_RETRIES
          /\ Answered
    /\ UNCHANGED <<contract, feedback, saved, runs>>

Taken(answer) ==
    [run EXCEPT !.spec = Completed(run.contract.template, answer),
                !.answer = answer, !.heard = Prompted]

(* call_claude and evaluate_render_spec.  The loop is left with a spec     *)
(* that passes, or with the last; then the ids are put in.                 *)
Parsed ==
    /\ run.pc = "generate"
    /\ \E answer \in Answers :
         LET now == Taken(answer) IN
           \/ /\ Passed(now.spec) \/ run.attempt >= MAX_RETRIES
              /\ run' = [now EXCEPT !.pc = "judge", !.spec["ids"] = "contract"]
           \/ /\ ~Passed(now.spec)
              /\ run.attempt < MAX_RETRIES
              /\ run' = Again(now, Issues(now.spec))
    /\ UNCHANGED <<contract, feedback, saved, runs>>

(* llm_self_eval: a score that is good enough, as one that cannot be       *)
(* parsed is, or sections that are weak.                                   *)
Judge ==
    /\ run.pc = "judge"
    /\ \/ run' = [run EXCEPT !.pc = "finish"]
       \/ \E weak \in SUBSET {"faq", "qa", "seo", "ld"} \ {{}} :
            run' = [run EXCEPT !.pc = "faq", !.weak = weak]
    /\ UNCHANGED <<contract, feedback, saved, runs>>

(* A section of regenerate_weak_sections: one that cannot be parsed stays. *)
Rewrite(section, next, spec) ==
    /\ run.pc = section
    /\ \/ run' = [run EXCEPT !.pc = next]
       \/ /\ section \in run.weak
          /\ run' = [run EXCEPT !.pc = next, !.spec = spec]
    /\ UNCHANGED <<contract, feedback, saved, runs>>

(* The FAQ block's items, and the FAQPage where there is one.              *)
RewriteFaq ==
    Rewrite("faq", "qa",
            [run.spec EXCEPT
               !["faq"] = "new",
               !["ld"] = IF @ \in {"none", "other"} THEN @ ELSE "new"])

(* The QuickAnswer block, where there is one; the new text may be empty.   *)
RewriteQa ==
    \E text \in {"new", "poor"} :
      Rewrite("qa", "seo",
              [run.spec EXCEPT !["qa"] = IF @ = "none" THEN @ ELSE text])

RewriteSeo == Rewrite("seo", "finish", [run.spec EXCEPT !["seo"] = "new"])

(* Step 6-pre, and the guardrails and save_render_spec in one: what is     *)
(* there decides, then the text (a blocked word, a URL or a phone of the   *)
(* wrong form).                                                            *)
Finish ==
    /\ run.pc = "finish"
    /\ LET spec == Finished(run.spec) IN
         \/ /\ Allowed(spec)
            /\ saved' = [v |-> saved.v + 1, contract |-> run.contract,
                         fed |-> run.fed, heard |-> run.heard, spec |-> spec]
         \/ UNCHANGED saved
    /\ Answered
    /\ UNCHANGED <<contract, feedback, runs>>

(* A call of S3 or of the model fails, or the model's verdict lacks a key. *)
Fails ==
    /\ Errors
    /\ run.pc # "idle"
    /\ Answered
    /\ UNCHANGED <<contract, feedback, saved, runs>>

Working == \/ LoadContract \/ LoadFeedback \/ Unparsable \/ Parsed \/ Judge
           \/ RewriteFaq \/ RewriteQa \/ RewriteSeo \/ Finish \/ Fails

Next == SaveContract \/ SaveFeedback \/ Invoke \/ Working

(* An invocation that began is worked on: boto3's calls return or raise.   *)
Spec == Init /\ [][Next]_vars /\ WF_vars(Working)

-----------------------------------------------------------------------------
(* Properties.                                                             *)

PageOf(spec) ==
    [h1    |-> spec.h1 # "none",
     title |-> IF spec.seo = "none" THEN "none" ELSE "text",
     ld    |-> IF spec.ld = "none" THEN "none"
               ELSE IF spec.ld = "other" THEN "other" ELSE "faq",
     supp  |-> IF spec.files = "none" THEN "none" ELSE "llms"]

Phase == IF run.pc = "idle" THEN "idle"
         ELSE IF run.pc = "load" THEN "called" ELSE "loaded"

Service == INSTANCE GenerationService WITH
             ready <- contract.ready, run <- Phase, page <- PageOf(saved.spec)

(* run_generation implements the service the pipeline counts on            *)
(* (SiteContent's generation agent): however many answers it asks for and  *)
(* sections it rewrites, a run reads one contract that is ready and saves  *)
(* at most one page, with an h1 and a FAQPage.                             *)
Implements == Service!Spec

(* What the partial spec took from the contract, "이미 구성됨, 수정 금지"   *)
(* in call_claude's prompt, is in the spec that is saved, whatever the     *)
(* model answered in any round and rewrote after it.                       *)
ContractKept ==
    saved.v > 0 /\ saved.contract.template \in Partial =>
      \A f \in Given[saved.contract.template] : saved.spec[f] = "contract"

(* "Two dicts are merged deeply", "recursively every null is taken from    *)
(* completed" (_merge_partial_spec): the fields that a partial spec leaves *)
(* null are what the model's answer says of them, when the loop is left.   *)
(* False: the elements of the list pages are not descended into.           *)
NullsCompleted ==
    run.pc = "judge" /\ run.contract.template \in Partial =>
      \A f \in Nulls(run.contract.template) : run.spec[f] = run.answer[f]

(* With a partial spec, a round after the first answers a prompt that      *)
(* names all the first one got wrong in the page, or that it was no JSON.  *)
RoundSteered ==
    run.pc \in {"judge", "faq", "qa", "seo", "finish"}
    /\ run.contract.template \in Partial /\ MAX_RETRIES > 1 =>
      run.heard = {"json"} \/ {"h2", "faq", "qa", "seo", "ld"} \subseteq run.heard

(* What is saved can be built: the fields that the worker and the rules of *)
(* the validation need are there, no QuickAnswer is empty, and the FAQPage *)
(* holds the questions of the FAQ block.                                   *)
SavedServable ==
    saved.v > 0 => /\ \A f \in {"h1", "seo", "faq"} : saved.spec[f] # "none"
                   /\ saved.spec.qa # "poor"
                   /\ saved.spec.ld = saved.spec.faq

(* Every invocation ends: the loop, which asks again when an answer is no  *)
(* JSON or does not pass, is left.                                         *)
RunsEnd == run.pc # "idle" ~> run.pc = "idle"
=============================================================================
