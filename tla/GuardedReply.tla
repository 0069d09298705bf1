---------------------------- MODULE GuardedReply -----------------------------
(***************************************************************************)
(* A chat_turn that brings no known_answers, from the restoring of the     *)
(* session to its answer: run_guarded_claude_reply between two guardrails, *)
(* the messages it stores and, when the turn handler says so, the          *)
(* contract.  What a turn makes of its answer's words - companions, names, *)
(* a text taken against the classifier's doubts - is ChatTurn's.           *)
(*                                                                         *)
(* An action ends at the next call to the table, S3 or Bedrock.            *)
(***************************************************************************)
EXTENDS ChatStore, FiniteSetsExt

CONSTANTS
    Turn,       \* turns that may be at work at once
    WINDOW      \* messages that are loaded of the conversation

ASSUME ReplyAssumption == WINDOW \in Nat \ {0}

VARIABLE turn   \* the turns

TurnPc == {"idle", "handle", "input", "claude", "output", "user",
           "assistant", "contract", "done"}

(* sent is what Claude is given, reply the text for the client ("none":    *)
(* no text), model Claude's own, status the flow's.                        *)
TurnState ==
    [pc: TurnPc, text: UserText \union {"blank"}, known: Answers, missing: Seq(Slot), told: BOOLEAN, store: BOOLEAN,
     history: Seq(Message),
     sent: Seq(Message), model: ModelText \union {"none"},
     reply: ModelText \union {"none", "masked", "fixed"},
     status: {"none", "succeeded", "blocked", "failed"}]

IdleTurn ==
    [pc |-> "idle", text |-> "said", known |-> NoAnswers, missing |-> <<>>, told |-> FALSE, store |-> FALSE,
     history |-> <<>>, sent |-> <<>>, model |-> "none", reply |-> "none",
     status |-> "none"]

ReplyTypeOK == turn \in [Turn -> TurnState]

ReplyInit == turn = [t \in Turn |-> IdleTurn]

UserSays(text) == [role |-> "user", text |-> text]
AssistantSays(text) == [role |-> "assistant", text |-> text]

Recent(seq, n) == SubSeq(seq, Len(seq) - n + 1, Len(seq))

-----------------------------------------------------------------------------
(* The checks on the way.                                                  *)

(* ApplyGuardrail, external: what it objects to, and what it may object    *)
(* to.  Orders to the model it finds with a model of its own (the mock     *)
(* with the adapter's patterns), so some of those the adapter refuses may  *)
(* pass.                                                                   *)
Intervenes(text) == text \in {"private", "bad"}
MayIntervene(text) == Intervenes(text) \/ text = "orders"

(* _validate_invocation_input: no message may hold an order to the model.  *)
Valid(seq) == \A i \in 1..Len(seq) : seq[i].text # "orders"

(* Mutant of Conversation: an answer may come first.                       *)
ConversationCut(history, n) == Recent(history, n)

(* _build_conversation_history: the newest that fit in the budget, from a  *)
(* message of the user's on.                                               *)
Conversation(history, n) ==
    LET newest == Recent(history, n)
        users == {i \in 1..n : newest[i].role = "user"}
    IN  IF users = {} THEN <<>> ELSE SubSeq(newest, Min(users), n)

(* _save_contract_final's gates.generation_ready.                          *)
Gates(q) == Filled(q.known)

-----------------------------------------------------------------------------

Move(t, q) == turn' = [turn EXCEPT ![t] = q]

(* _restore_session_state, when the table answers.                         *)
Restored == IF checkpoint = None
            THEN [known |-> NoAnswers, missing |-> Registry]
            ELSE checkpoint

(* A table that does not give the checkpoint counts as one without.        *)
Restore(t) ==
    /\ turn[t].pc \in {"idle", "done"}
    /\ Call
    /\ \E s \in {Restored, [known |-> NoAnswers, missing |-> Registry]} :
         Move(t, [IdleTurn EXCEPT !.pc = "handle", !.known = s.known,
                                    !.missing = s.missing])
    /\ UNCHANGED storeVars

(* On topic and for a slot of the registry.                                *)
Applicable(slot, text) == slot # None /\ text # "blank"

(* The messages so far; then the classifier and the turn handler: the      *)
(* answer is taken, or rejected with nothing to be stored, or on topic but *)
(* no slot's answer.  The classifier, asked by the adapter, gets no order  *)
(* to the model to see and rejects it; but a request that states its       *)
(* intent is asked of no classifier, and its orders are taken.             *)
Handle(t) ==
    LET q == turn[t]
        n == IF Len(messages) < WINDOW THEN Len(messages) ELSE WINDOW
    IN  /\ q.pc = "handle"
        /\ \E slot \in Slot \union {None}, text \in UserText \union {"blank"} :
             LET read == [q EXCEPT !.pc = "input", !.text = text,
                                   !.history = Recent(messages, n)]
             IN  \/ Move(t, read)
                 \/ /\ ~Applicable(slot, text)
                    /\ Move(t, [read EXCEPT !.store = TRUE])
                 \/ /\ Applicable(slot, text)
                    /\ LET a == Applied(q.known, q.missing, slot, text)
                       IN  Move(t, [read EXCEPT !.known = a.known,
                                                  !.missing = a.missing,
                                                  !.told = a.told,
                                                  !.store = TRUE])
        /\ UNCHANGED <<storeVars, calls>>

(* What is left of a turn when it is over.                                 *)
TurnDone(q) == [IdleTurn EXCEPT !.pc = "done", !.reply = q.reply]

(* The flow is over: its text for the client, and what it stores.          *)
Close(t, status, reply) ==
    LET q == [turn[t] EXCEPT
                !.pc = "user", !.history = <<>>, !.sent = <<>>,
                !.model = "none", !.status = status,
                !.reply = IF reply = "none" THEN "fixed" ELSE reply]
    IN  Move(t, IF q.store THEN q ELSE TurnDone(q))

GuardInput(t) ==
    LET q == turn[t]
    IN  /\ q.pc = "input"
        /\ \/ MayIntervene(q.text) /\ Close(t, "blocked", "masked")
           \/ /\ ~Intervenes(q.text)
              /\ q.text # "blank"
              /\ Move(t, [q EXCEPT !.pc = "claude"])
           \/ Close(t, "failed", "none")
        /\ UNCHANGED <<storeVars, calls>>

Invoke(t) ==
    LET q == turn[t]
    IN  /\ q.pc = "claude"
        /\ \E n \in 0..Len(q.history) :
             LET said == Append(Conversation(q.history, n), UserSays(q.text))
             IN  \/ /\ Valid(said)
                    /\ \E answer \in ModelText \union {"none"} :
                         Move(t, [q EXCEPT !.pc = "output", !.sent = said,
                                             !.model = answer])
                 \/ Close(t, "failed", "none")
        /\ UNCHANGED <<storeVars, calls>>

(* Mutant of GuardOutput: a guardrail that fails lets the text pass.       *)
GuardOutputOpen(t) ==
    LET q == turn[t]
    IN  /\ q.pc = "output"
        /\ \/ /\ q.model # "none"
              /\ \/ MayIntervene(q.model) /\ Close(t, "blocked", "masked")
                 \/ Close(t, "succeeded", q.model)
           \/ q.model = "none" /\ Close(t, "failed", "none")
        /\ UNCHANGED <<storeVars, calls>>

(* No text is no content for the guardrail: it fails.                      *)
GuardOutput(t) ==
    LET q == turn[t]
    IN  /\ q.pc = "output"
        /\ \/ /\ q.model # "none"
              /\ \/ MayIntervene(q.model) /\ Close(t, "blocked", "masked")
                 \/ ~Intervenes(q.model) /\ Close(t, "succeeded", q.model)
           \/ Close(t, "failed", "none")
        /\ UNCHANGED <<storeVars, calls>>

(* Mutant of StoreUser: a turn without a text leaves its message too.      *)
StoreUserBlank(t) ==
    LET q == turn[t]
    IN  /\ q.pc = "user"
        /\ messages' = Append(messages, UserSays(q.text))
        /\ Move(t, [q EXCEPT !.pc = "assistant"])
        /\ UNCHANGED <<document, listed, checkpoint, bucketVars, calls>>

StoreUser(t) ==
    LET q == turn[t]
    IN  /\ q.pc = "user"
        /\ messages' = IF q.text = "blank" THEN messages
                       ELSE Append(messages, UserSays(q.text))
        /\ Move(t, [q EXCEPT !.pc = "assistant"])
        /\ UNCHANGED <<document, listed, checkpoint, bucketVars, calls>>

(* Claude's answer when the flow succeeded, else the next question or a    *)
(* notice.                                                                 *)
StoreAssistant(t) ==
    LET q == turn[t]
        text == IF q.status = "succeeded" THEN q.reply ELSE "fixed"
    IN  /\ q.pc = "assistant"
        /\ messages' = Append(messages, AssistantSays(text))
        /\ Move(t, IF q.told THEN [q EXCEPT !.pc = "contract"] ELSE TurnDone(q))
        /\ UNCHANGED <<document, listed, checkpoint, bucketVars, calls>>

(* Stored, refused for its name, or lost with an error that is logged.     *)
SaveContract(t) ==
    LET q == turn[t]
    IN  /\ q.pc = "contract"
        /\ \/ final' = [known |-> q.known, ready |-> Gates(q), by |-> "turn"]
           \/ UNCHANGED final
        /\ Move(t, TurnDone(q))
        /\ UNCHANGED <<document, tableVars, enriched, draft, calls>>

(* A call to the table that fails: nothing catches it.                     *)
TurnRaises(t) ==
    /\ turn[t].pc \in {"handle", "user", "assistant", "contract"}
    /\ Move(t, IdleTurn)
    /\ UNCHANGED <<storeVars, calls>>

TurnStep(t) ==
    \/ Handle(t)
    \/ GuardInput(t)
    \/ Invoke(t)
    \/ GuardOutput(t)
    \/ StoreUser(t)
    \/ StoreAssistant(t)
    \/ SaveContract(t)
    \/ TurnRaises(t)

ReplyNext == \E t \in Turn : Restore(t) \/ TurnStep(t)

-----------------------------------------------------------------------------
(* Properties.                                                             *)

(* Claude is given a conversation that opens with the user (the Converse   *)
(* API asks for that), with no order to the model in it, although answers  *)
(* and texts of the user that hold one may be among the messages, and      *)
(* closed by the user's text, which is none the guardrail objects to.      *)
CallsSound ==
    \A t \in Turn :
      LET sent == turn[t].sent
      IN  sent # <<>> =>
            /\ sent[1].role = "user"
            /\ Valid(sent)
            /\ sent[Len(sent)] = UserSays(turn[t].text)
            /\ ~Intervenes(turn[t].text)

(* "All steps passed: Claude's text is final_text" (README), else never:   *)
(* an answer the guardrail objects to is not shown to the client, nor is   *)
(* it stored, where the next turns would go by it, when a call of the      *)
(* guardrail fails no more than when it answers.                           *)
AnswersCleared ==
    /\ \A t \in Turn : turn[t].pc = "done" => turn[t].reply # "bad"
    /\ \A i \in 1..Len(messages) : messages[i].text # "bad"
=============================================================================
