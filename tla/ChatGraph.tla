------------------------------ MODULE ChatGraph ------------------------------
(***************************************************************************)
(* The actions graph_smoke and session_start of the chat agent over one    *)
(* session: run_chat_graph and start_chat_session.  Both read the domain's *)
(* document and work out what to ask; the graph answers the first question *)
(* itself, then stores a checkpoint and the documents.                     *)
(*                                                                         *)
(* An action ends at the next call to S3 or the table.  Every run has an   *)
(* agent process of its own, so that runs overlap; the wiki publishes      *)
(* meanwhile.  The guardrail is the local mock.                            *)
(***************************************************************************)
EXTENDS ChatStore

CONSTANTS
    Run,        \* invocations that may be at work at once
    Requests    \* the known answers and missing slots a request may carry

ASSUME GraphAssumption ==
    /\ Requests \subseteq SlotState
    /\ \A req \in Requests : IsInjective(req.missing)

VARIABLE run    \* the invocations

RunPc == {"idle", "seed", "load", "metadata", "checkpoint", "enriched",
          "draft", "final", "done"}

(* asked are the questions of the answer; doc what a session_start read    *)
(* (history), parse and review its verdicts.                               *)
GraphRun ==
    [pc: RunPc, start: BOOLEAN, known: Answers,
     missing: Seq(Slot), doc: Doc \union {None},
     parse: {"none", "passed", "needs_enrichment", "failed"},
     review: {"none", "passed", "needs_enrichment", "failed"},
     asked: Seq(Slot)]

IdleRun ==
    [pc |-> "idle", start |-> FALSE, known |-> NoAnswers,
     missing |-> <<>>, doc |-> None, parse |-> "none", review |-> "none",
     asked |-> <<>>]

GraphTypeOK == run \in [Run -> GraphRun]

GraphInit == run = [r \in Run |-> IdleRun]

-----------------------------------------------------------------------------
(* The document.                                                           *)

(* _mock_p2_markdown_content and _sample_p2_markdown_content.              *)
Sample == [front |-> TRUE, domain |-> "own", category |-> "own",
           sections |-> TRUE, sources |-> TRUE, confidence |-> "high",
           orders |-> FALSE, boasts |-> FALSE]

(* Without a frontmatter the request's domain and category count.          *)
Mismatch(doc) == doc.front /\ doc.domain = "other"

(* parse_p2_markdown.                                                      *)
Parse(doc) ==
    IF \/ Mismatch(doc)
       \/ doc.front /\ doc.category = "other"
       \/ ~doc.sections
    THEN "failed"
    ELSE IF doc.front /\ doc.sources THEN "passed" ELSE "needs_enrichment"

(* A confidence the document states goes before the parser's own.          *)
Confident(doc) ==
    \/ doc.confidence = "high"
    \/ doc.confidence = "none" /\ Parse(doc) # "failed"

(* review_p2_markdown; counted: does the request state a number of         *)
(* sources?                                                                *)
Review(doc, counted) ==
    LET mismatch == Mismatch(doc)
        uncounted == ~counted /\ ~doc.sources
        score == 100 - (IF mismatch THEN 35 ELSE 0)
                     - (IF doc.boasts THEN 10 ELSE 0)
                     - (IF uncounted THEN 10 ELSE 0)
    IN  IF doc.orders \/ ~Confident(doc) THEN "failed"
        ELSE IF ~(mismatch \/ doc.boasts \/ uncounted) /\ score >= CUTOFF
        THEN "passed"
        ELSE IF score < CUTOFF /\ mismatch THEN "failed"
        ELSE "needs_enrichment"

(* The registry gets a hint for every slot from any document that was      *)
(* parsed: the review alone makes the questions fall back.                 *)
FallsBack(q) == q.asked # <<>> /\ q.review = "failed"

(* Mutant of Routing: what the parser found missing is left to the review. *)
RoutingUnparsed(q) ==
    IF q.review = "failed" THEN "p2_retry"
    ELSE IF q.review # "passed" \/ FallsBack(q) \/ q.asked = <<>>
    THEN "llm_enrichment"
    ELSE "proactive_questioning"

(* _session_routing: the next stage of a session_start.                    *)
Routing(q) ==
    IF q.review = "failed" THEN "p2_retry"
    ELSE IF q.parse # "passed" \/ q.review # "passed" \/ FallsBack(q)
            \/ q.asked = <<>>
    THEN "llm_enrichment"
    ELSE "proactive_questioning"

-----------------------------------------------------------------------------
(* The contract.                                                           *)

(* MockBedrockGuardrailsClient, over the draft.                            *)
GuardClear(known) == \A s \in Slot : known[s] \notin {"private", "orders"}

(* Mutant of Storable: put_artifact does not look at store_allowed.        *)
StorableAnyway(known) == TRUE

(* put_artifact goes by the verdict on the draft.                          *)
Storable(known) == GuardClear(known)

(* check_contract_quality, asked for one answer at least.                  *)
FinalReady(known) ==
    /\ Filled(known)
    /\ \E s \in Slot : HasAnswer(known[s])

-----------------------------------------------------------------------------

Become(r, q) == run' = [run EXCEPT ![r] = q]
Proceed(r, pc) == Become(r, [run[r] EXCEPT !.pc = pc])

(* What is left of a graph run when it is over.                            *)
RunDone(q) == [IdleRun EXCEPT !.pc = "done", !.known = q.known,
                           !.missing = q.missing, !.asked = q.asked]

(* An invocation, perhaps with a sample document to put first.             *)
Begin(r) ==
    /\ run[r].pc \in {"idle", "done"}
    /\ Call
    /\ \E pc \in {"seed", "load"} : Become(r, [IdleRun EXCEPT !.pc = pc])
    /\ UNCHANGED storeVars

Seed(r) ==
    /\ run[r].pc = "seed"
    /\ document' = Sample
    /\ Proceed(r, "load")
    /\ UNCHANGED <<tableVars, bucketVars, calls>>

(* start_chat_session: load, parse, review, questions.                     *)
StartSession(r) ==
    /\ run[r].pc = "load"
    /\ document # None
    /\ \E req \in Requests, counted \in BOOLEAN :
         Become(r, [IdleRun EXCEPT
                      !.pc = "done",
                      !.start = TRUE,
                      !.known = req.known,
                      !.missing = req.missing,
                      !.doc = document,
                      !.parse = Parse(document),
                      !.review = Review(document, counted),
                      !.asked = Candidates(req.known, req.missing)])
    /\ UNCHANGED <<storeVars, calls>>

(* chat_turn_handler_node: the first question is given an example for an   *)
(* answer, always on topic.                                                *)
Exemplified(req) ==
    LET questions == Candidates(req.known, req.missing)
        a == Applied(req.known, req.missing, questions[1], "example")
    IN  IF questions = <<>>
        THEN [known |-> req.known, missing |-> req.missing, asked |-> <<>>]
        ELSE [known |-> a.known, missing |-> a.missing, asked |-> a.asked]

(* The nodes from p2_markdown_load to bedrock_guardrails.  The document is *)
(* parsed and reviewed, but the verdicts are only reported: no node goes   *)
(* by them.                                                                *)
Load(r) ==
    /\ run[r].pc = "load"
    /\ document # None
    /\ \E req \in Requests :
         LET e == Exemplified(req)
         IN  Become(r, [IdleRun EXCEPT !.pc = "metadata", !.known = e.known,
                                       !.missing = e.missing,
                                       !.asked = e.asked])
    /\ UNCHANGED <<storeVars, calls>>

(* Mutant of SaveMetadata: only a session that is new gets a checkpoint.   *)
SaveMetadataOnce(r) ==
    /\ run[r].pc = "metadata"
    /\ listed' = TRUE
    /\ Proceed(r, IF listed THEN "enriched" ELSE "checkpoint")
    /\ UNCHANGED <<document, checkpoint, messages, bucketVars, calls>>

SaveMetadata(r) ==
    /\ run[r].pc = "metadata"
    /\ listed' = TRUE
    /\ Proceed(r, "checkpoint")
    /\ UNCHANGED <<document, checkpoint, messages, bucketVars, calls>>

StateOf(q) == [known |-> q.known, missing |-> q.missing]

(* Always version 1 of one stage: it replaces the session's last.          *)
SaveCheckpoint(r) ==
    /\ run[r].pc = "checkpoint"
    /\ checkpoint' = StateOf(run[r])
    /\ Proceed(r, "enriched")
    /\ UNCHANGED <<document, listed, messages, bucketVars, calls>>

PutEnriched(r) ==
    /\ run[r].pc = "enriched"
    /\ Storable(run[r].known)
    /\ enriched' = StateOf(run[r])
    /\ Proceed(r, "draft")
    /\ UNCHANGED <<document, tableVars, draft, final, calls>>

PutDraft(r) ==
    /\ run[r].pc = "draft"
    /\ Storable(run[r].known)
    /\ draft' = StateOf(run[r])
    /\ IF FinalReady(run[r].known) THEN Proceed(r, "final")
       ELSE Become(r, RunDone(run[r]))
    /\ UNCHANGED <<document, tableVars, enriched, final, calls>>

PutFinal(r) ==
    /\ run[r].pc = "final"
    /\ Storable(run[r].known)
    /\ final' = [known |-> run[r].known, ready |-> FALSE, by |-> "graph"]
    /\ Become(r, RunDone(run[r]))
    /\ UNCHANGED <<document, tableVars, enriched, draft, calls>>

(* No document, a verdict against the draft, or a call that fails: nothing *)
(* catches it.                                                             *)
Raises(r) ==
    /\ run[r].pc \notin {"idle", "done"}
    /\ Become(r, IdleRun)
    /\ UNCHANGED <<storeVars, calls>>

(* The wiki, external here.                                                *)
Publish ==
    /\ document' \in Docs \ {document}
    /\ UNCHANGED <<tableVars, bucketVars, calls, run>>

(* And its reinforcement, which the upload starts: whatever it makes of    *)
(* the document, it deletes it.  What it leaves the bucket expires.        *)
DeletePending ==
    /\ enriched # None
    /\ enriched' = None
    /\ UNCHANGED <<document, tableVars, draft, final, calls, run>>

GraphStep(r) ==
    \/ Seed(r)
    \/ StartSession(r)
    \/ Load(r)
    \/ SaveMetadata(r)
    \/ SaveCheckpoint(r)
    \/ PutEnriched(r)
    \/ PutDraft(r)
    \/ PutFinal(r)
    \/ Raises(r)

GraphNext ==
    \/ \E r \in Run : Begin(r) \/ GraphStep(r)
    \/ Publish
    \/ DeletePending

-----------------------------------------------------------------------------
(* Properties.                                                             *)

(* "S3 storage is refused when store_allowed is false" (README): no        *)
(* document of the graph holds an answer that the guardrail objects to.    *)
(* And a contract that is final, or is ready for generation, answers every *)
(* required slot, whatever the missing slots were that a turn got from the *)
(* graph's checkpoint: they need not be all that have no answer.           *)
StoredCleared ==
    /\ enriched # None => GuardClear(enriched.known)
    /\ draft # None => GuardClear(draft.known)
    /\ final # None /\ final.by = "graph" => GuardClear(final.known)
    /\ final # None /\ (final.by = "graph" \/ final.ready)
       => Filled(final.known)

(* A draft can be gone on from: wherever runs stop, however they overlap   *)
(* and whatever the wiki deletes, what a run stored in S3 has a checkpoint *)
(* of its session beside it, that the session's own item, and the final    *)
(* contract its draft.  Of the document in pending/ only that: it is the   *)
(* wiki's to delete, and a draft may outlive it.                           *)
Resumable ==
    /\ checkpoint # None => listed
    /\ enriched # None => checkpoint # None
    /\ draft # None => checkpoint # None
    /\ final # None /\ final.by = "graph" => draft # None

(* The questions of an answer to the client: never of a slot the session   *)
(* has an answer to, none twice, and no optional slot while there is room  *)
(* for a required one that is missing.                                     *)
AsksWhatIsOpen ==
    \A r \in Run :
      LET q == run[r]
      IN  q.pc = "done" =>
            /\ \A i \in 1..Len(q.asked) :
                 /\ ~HasAnswer(q.known[q.asked[i]])
                 /\ \A j \in 1..(i - 1) : q.asked[i] # q.asked[j]
            /\ Range(q.asked) \ Required # {}
               => \A s \in Range(q.missing) \intersect Required :
                    HasAnswer(q.known[s]) \/ s \in Range(q.asked)

(* A session goes straight to the user's questions only over a document of *)
(* its domain and category with sections and sources, that states no low   *)
(* confidence, gives the model no orders and does not boast.               *)
SoundStart ==
    \A r \in Run :
      LET q == run[r]
      IN  q.pc = "done" /\ q.start /\ Routing(q) = "proactive_questioning" =>
            /\ q.doc.front
            /\ q.doc.domain = "own" /\ q.doc.category = "own"
            /\ q.doc.sections /\ q.doc.sources
            /\ q.doc.confidence # "low"
            /\ ~q.doc.orders /\ ~q.doc.boasts
=============================================================================
