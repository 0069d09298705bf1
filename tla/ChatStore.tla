------------------------------ MODULE ChatStore ------------------------------
(***************************************************************************)
(* What the actions of the chat agent share: the items of one session in   *)
(* the table, the documents of its domain and site in S3, and the slot     *)
(* state that each action works out anew.                                  *)
(***************************************************************************)
EXTENDS Integers, SequencesExt

CONSTANTS
    Registry,       \* the template's slots, in their order
    Required,       \* those that must be answered
    Docs,           \* the documents the wiki may publish for the domain
    MAX_QUESTIONS,  \* question candidates at a time
    CUTOFF,         \* the review score, in percent, below which it fails
    None,           \* nothing is stored
    MaxCalls        \* bound: invocations

Slot == Range(Registry)

(* A document of the wiki, by what the parser and the review tell apart:   *)
(* is there a frontmatter, the domain and the category it names, are there *)
(* knowledge sections and sources, the confidence it states, orders to the *)
(* model, boasts.                                                          *)
Doc == [front: BOOLEAN, domain: {"own", "other"}, category: {"own", "other"},
        sections: BOOLEAN, sources: BOOLEAN,
        confidence: {"none", "low", "high"}, orders: BOOLEAN, boasts: BOOLEAN]

(* The answer of a slot: none, the user's, the user's with what the mock   *)
(* guardrail looks for (a resident registration number, an order to the    *)
(* model), the graph's own example.                                        *)
Value == {"none", "said", "private", "orders", "example"}
Answers == [Slot -> Value]

ASSUME ChatStoreAssumption ==
    /\ Registry \in Seq(STRING)
    /\ IsInjective(Registry)
    /\ Registry # <<>>
    /\ Required \subseteq Slot
    /\ Docs \subseteq Doc
    /\ MAX_QUESTIONS \in Nat \ {0}
    /\ CUTOFF \in 1..100
    /\ None \notin Doc
    /\ MaxCalls \in Nat

VARIABLES
    document,   \* industries/{category}/{domain}.md; None: or it is empty
    listed,     \* has the session its META item?
    checkpoint, \* its CHECKPOINT item
    messages,   \* its MESSAGE items, in their order
    enriched,   \* pending/{category}/{domain}.md
    draft,      \* contracts/draft/000001.json
    final,      \* contract_final.json
    calls       \* invocations so far

tableVars == <<listed, checkpoint, messages>>
bucketVars == <<enriched, draft, final>>
storeVars == <<document, tableVars, bucketVars>>

(* missing is a tuple of slots.                                            *)
SlotState == [known: Answers, missing: Seq(Slot)]

(* An assistant's message is the model's answer, or a fixed text: a        *)
(* question or a notice.  An answer is good, of the kind the guardrail     *)
(* masks, or has words that the adapter takes for an order to the model    *)
(* ("system prompt", say).                                                 *)
UserText == {"said", "private", "orders"}
ModelText == {"good", "bad", "orders"}
Message == [role: {"user"}, text: UserText]
           \union [role: {"assistant"}, text: ModelText \union {"fixed"}]

(* A graph's contract has no gates, which generation takes for not ready.  *)
Contract == [known: Answers, ready: BOOLEAN, by: {"graph", "turn"}]

StoreTypeOK ==
    /\ document \in Doc \union {None}
    /\ listed \in BOOLEAN
    /\ checkpoint \in SlotState \union {None}
    /\ messages \in Seq(Message)
    /\ enriched \in SlotState \union {None}
    /\ draft \in SlotState \union {None}
    /\ final \in Contract \union {None}
    /\ calls \in Nat

StoreInit ==
    /\ document \in Docs \union {None}
    /\ listed = FALSE
    /\ checkpoint = None
    /\ messages = <<>>
    /\ enriched = None
    /\ draft = None
    /\ final = None
    /\ calls = 0

-----------------------------------------------------------------------------
(* Another invocation, while the bound allows one.                         *)
Call == calls < MaxCalls /\ calls' = calls + 1

(* The slot state.                                                         *)

NoAnswers == [s \in Slot |-> "none"]

HasAnswer(v) == v # "none"

(* The elements of seq that are in set, in their order, each by its rank.  *)
Kept(seq, set) ==
    LET at == {i \in 1..Len(seq) : seq[i] \in set}
        rank == [i \in at |-> Cardinality({j \in at : j <= i})]
    IN  [n \in 1..Cardinality(at) |-> seq[CHOOSE i \in at : rank[i] = n]]

Without(missing, slot) == Kept(missing, Slot \ {slot})

(* Mutant of Candidates: the slots keep the order they were missing in.    *)
CandidatesUnsorted(known, missing) ==
    LET from == IF missing = <<>> THEN Registry ELSE missing
        open == Kept(from, {s \in Slot : ~HasAnswer(known[s])})
    IN  IF Len(open) > MAX_QUESTIONS THEN SubSeq(open, 1, MAX_QUESTIONS)
        ELSE open

(* build_proactive_question_candidates: of the missing slots, or of all    *)
(* when none is missing, those without an answer, required ones first.     *)
Candidates(known, missing) ==
    LET from == IF missing = <<>> THEN Registry ELSE missing
        open == Kept(from, {s \in Slot : ~HasAnswer(known[s])})
        sorted == Kept(open, Required) \o Kept(open, Slot \ Required)
    IN  IF Len(sorted) > MAX_QUESTIONS THEN SubSeq(sorted, 1, MAX_QUESTIONS)
        ELSE sorted

(* What handle_chat_turn makes of an answer it accepts: told says that the *)
(* next stage is contract_compile.                                         *)
Applied(known, missing, slot, value) ==
    LET after == [known EXCEPT ![slot] = value]
        rest == Without(missing, slot)
    IN  [known |-> after, missing |-> rest, told |-> rest = <<>>,
         asked |-> IF rest = <<>> THEN <<>> ELSE Candidates(after, rest)]

Filled(known) == \A s \in Required : HasAnswer(known[s])
=============================================================================
