------------------------------ MODULE ChatTurn -------------------------------
(***************************************************************************)
(* One session of the chat agent: the action chat_turn of                  *)
(* agents/chat/chat_http_handler.py.  The agent keeps no answers between   *)
(* turns: the client sends those known so far with every turn and takes    *)
(* the new ones from the response.  A turn that finds every slot of the    *)
(* registry answered saves the contract.                                   *)
(*                                                                         *)
(* A turn is split at the calls that store something.  The model calls are *)
(* free in the intent they find and in the keys and words they extract:    *)
(* the code does not compare the keys with those it asked for.             *)
(*                                                                         *)
(* The client is external: docs/P1_API_CONTRACT.md describes it.  It waits *)
(* for the response, and may give up waiting and send the same turn again  *)
(* while the agent is still at it: the back end names no runtime session,  *)
(* so that every call may get an agent process of its own.                 *)
(***************************************************************************)
EXTENDS Naturals, FiniteSets

CONSTANTS
    Slot,       \* the template's slot registry; every slot is required
    Place,      \* their places in the registry
    Name,       \* the slot business_name
    Companion,  \* keys that are only ever extracted
    Lead,       \* the slots whose answers the extractor is given
    Text,       \* what the user may say
    Word,       \* what the extractor may find
    Short,      \* texts of at most four characters
    Quotes,     \* values that are nothing but quotation marks
    Refused,    \* <<slot, value>>: placeholder names, malformed wine lists
    Blank,      \* white space
    Nothing,    \* no value
    NoSlot,     \* answered_slot of a turn that answers none
    Turn,       \* turns that may run at once
    MaxTurns,   \* bound: turns the user takes
    MaxResends  \* bound: turns the client sends again

Said == Text \union {Blank}
Filled == Text \union Word

ASSUME ChatAssumption ==
    /\ Name \in Slot
    /\ Lead \subseteq Slot
    /\ Place \in [Slot -> Nat]
    /\ NoSlot \notin Slot
    /\ Text \intersect Word = {}
    /\ Blank \notin Filled
    /\ Nothing \notin Filled \union {Blank}
    /\ MaxTurns \in Nat
    /\ MaxResends \in Nat

VARIABLES
    client,     \* what the client holds
    turn,       \* the turns the agent is at
    messages,   \* the user's messages in the table
    contract,   \* contract_final.json
    transcript, \* chat_{session}.md
    taken,      \* turns the user took
    resent,     \* turns the client sent again
    admitted    \* history: the texts some turn did not reject

storeVars == <<messages, contract, transcript>>
vars == <<client, turn, storeVars, taken, resent, admitted>>

Key == Slot \union Companion
Value == Filled \union {Blank, Nothing}
Answers == [Key -> Value]
NoAnswers == [k \in Key |-> Nothing]

(* ready is gates.generation_ready; no contract is "none".                 *)
Contract == [slots: Answers, ready: {"none", "yes", "no"}]
NoContract == [slots |-> NoAnswers, ready |-> "none"]

Client == [known: Answers, asked: Slot \union {NoSlot}, waiting: BOOLEAN,
           told: BOOLEAN]

(* sent, slot and text are the request; known, asked, store and done what  *)
(* the turn makes of it (done: next_stage is contract_compile); final the  *)
(* answers it compiles; live says whether the client waits for it.         *)
TurnPc == {"idle", "sent", "decided", "compiling", "saved", "answering"}

TurnState ==
    [pc: TurnPc, sent: Answers, slot: Slot \union {NoSlot}, text: Said,
     known: Answers, asked: Slot \union {NoSlot}, store: BOOLEAN,
     done: BOOLEAN, final: Answers, live: BOOLEAN]

Request(sent, slot, text) ==
    [pc |-> "sent", sent |-> sent, slot |-> slot, text |-> text,
     known |-> NoAnswers, asked |-> NoSlot, store |-> FALSE, done |-> FALSE,
     final |-> NoAnswers, live |-> TRUE]

Idle == [Request(NoAnswers, NoSlot, Blank) EXCEPT !.pc = "idle",
                                                  !.live = FALSE]

-----------------------------------------------------------------------------

(* _restore_session_state: the slots that are not keys.                    *)
Missing(known) == {s \in Slot : known[s] = Nothing}

HasAnswer(v) == v \in Filled

(* _target_slots: of the missing slots, or of all when none is missing,    *)
(* those without an answer.                                                *)
Target(known, missing) ==
    {s \in IF missing = {} THEN Slot ELSE missing : ~HasAnswer(known[s])}

(* The slot of question_candidates[0], if there is a candidate.            *)
Asks(known, missing) ==
    LET target == Target(known, missing)
    IN  IF target = {} THEN {NoSlot}
        ELSE {s \in target : \A r \in target : Place[s] <= Place[r]}

(* Mutant of Applicable: _has_answer is missing.                           *)
ApplicableBlank(q) == q.slot \in Slot

(* apply_slot_answer accepts the answer.                                   *)
Applicable(q) == q.slot \in Slot /\ HasAnswer(q.text)

(* Mutant of Answered: known_answers are not copied.                       *)
AnsweredAlone(q) == [NoAnswers EXCEPT ![q.slot] = q.text]

Answered(q) == [q.sent EXCEPT ![q.slot] = q.text]

(* What the extractor may add, asked for the companions of one slot ...    *)
Extracted(known, slot) ==
    LET found == IF slot \in Lead THEN Word ELSE {}
    IN  {f \in [Key -> Value] :
           \A k \in Key : f[k] \in {known[k]} \union found}

(* ... and of every slot.                                                  *)
Merged(known) ==
    LET found == IF Lead = {} THEN {} ELSE Word
    IN  {f \in [Key -> Value] :
           \A k \in Key : f[k] \in {known[k]} \union found}

(* _save_contract_final's early returns.                                   *)
Savable(known) == \A s \in Slot : <<s, known[s]>> \notin Refused

(* A name loses its quotation marks; a slot without an answer is None.     *)
ContractOf(known) ==
    LET slots == [known EXCEPT ![Name] = IF @ \in Quotes THEN Nothing ELSE @]
    IN  [slots |-> slots,
         ready |-> IF \A s \in Slot : HasAnswer(slots[s]) THEN "yes" ELSE "no"]

-----------------------------------------------------------------------------

(* A new session, or one whose client has the first question of            *)
(* session_start.                                                          *)
Init ==
    /\ client \in [known: {NoAnswers},
                   asked: {NoSlot} \union Asks(NoAnswers, Slot),
                   waiting: {FALSE}, told: {FALSE}]
    /\ turn = [t \in Turn |-> Idle]
    /\ messages = {}
    /\ contract = NoContract
    /\ transcript = [answers |-> NoAnswers, said |-> {}]
    /\ taken = 0
    /\ resent = 0
    /\ admitted = {}

(* The user says something.  Without known_answers the agent looks for a   *)
(* checkpoint; no turn stores one, so that it starts from nothing.         *)
Send(t) ==
    /\ turn[t].pc = "idle"
    /\ ~client.waiting
    /\ taken < MaxTurns
    /\ taken' = taken + 1
    /\ \E text \in Said, sent \in {client.known, NoAnswers} :
         turn' = [turn EXCEPT ![t] = Request(sent, client.asked, text)]
    /\ client' = [client EXCEPT !.waiting = TRUE]
    /\ UNCHANGED <<storeVars, resent, admitted>>

(* The client, or the SDK it calls the agent with, gives up waiting and    *)
(* sends the turn again; the agent knows nothing of it.                    *)
Resend(t, u) ==
    /\ turn[t].live
    /\ turn[u].pc = "idle"
    /\ resent < MaxResends
    /\ resent' = resent + 1
    /\ turn' = [turn EXCEPT
                  ![t] = [@ EXCEPT !.live = FALSE],
                  ![u] = Request(turn[t].sent, turn[t].slot, turn[t].text)]
    /\ UNCHANGED <<client, storeVars, taken, admitted>>

(* What a turn makes of the answer; the model calls are over.              *)
Decide(t, known, asked, store, done) ==
    turn' = [turn EXCEPT ![t] = [@ EXCEPT !.pc = "decided", !.known = known,
                                 !.asked = asked, !.store = store,
                                 !.done = done]]

(* On topic, and applied.  The next question is chosen before the          *)
(* companions are extracted.                                               *)
Accept(t) ==
    LET q == turn[t]
        missing == Missing(q.sent) \ {q.slot}
    IN  /\ q.pc = "sent"
        /\ Applicable(q)
        /\ \E known \in Extracted(Answered(q), q.slot) :
           \E asked \in IF missing = {} THEN {NoSlot}
                        ELSE Asks(Answered(q), missing) :
             Decide(t, known, asked, TRUE, Missing(known) = {})
        /\ admitted' = admitted \union {q.text}
        /\ UNCHANGED <<client, storeVars, taken, resent>>

(* Ambiguous, but long enough to be taken.  The questions stay those of    *)
(* the rejection.                                                          *)
ForceAccept(t) ==
    LET q == turn[t]
    IN  /\ q.pc = "sent"
        /\ Applicable(q)
        /\ q.text \notin Short
        /\ \E known \in Extracted(Answered(q), q.slot),
              asked \in Asks(q.sent, Missing(q.sent)) :
             Decide(t, known, asked, TRUE, Missing(known) = {})
        /\ admitted' = admitted \union {q.text}
        /\ UNCHANGED <<client, storeVars, taken, resent>>

(* On topic, but no slot's answer: retry_answer, without questions.        *)
Retry(t) ==
    LET q == turn[t]
    IN  /\ q.pc = "sent"
        /\ ~Applicable(q)
        /\ Decide(t, q.sent, NoSlot, TRUE, FALSE)
        /\ admitted' = admitted \union {q.text}
        /\ UNCHANGED <<client, storeVars, taken, resent>>

(* Mutant of Reject: store_allowed is left to its default.                 *)
RejectStored(t) ==
    LET q == turn[t]
    IN  /\ q.pc = "sent"
        /\ \E asked \in Asks(q.sent, Missing(q.sent)) :
             Decide(t, q.sent, asked, TRUE, FALSE)
        /\ UNCHANGED <<client, storeVars, taken, resent, admitted>>

(* Off topic, ambiguous or not classified.                                 *)
Reject(t) ==
    LET q == turn[t]
    IN  /\ q.pc = "sent"
        /\ \E asked \in Asks(q.sent, Missing(q.sent)) :
             Decide(t, q.sent, asked, FALSE, FALSE)
        /\ UNCHANGED <<client, storeVars, taken, resent, admitted>>

(* Mutant of Persist: a message of blanks is stored.                       *)
PersistBlank(t) ==
    LET q == turn[t]
    IN  /\ q.pc = "decided"
        /\ messages' = IF q.store THEN messages \union {q.text} ELSE messages
        /\ turn' = [turn EXCEPT ![t].pc = IF q.done THEN "compiling"
                                          ELSE "answering"]
        /\ UNCHANGED <<client, contract, transcript, taken, resent, admitted>>

(* _persist_chat_turn_messages.                                            *)
Persist(t) ==
    LET q == turn[t]
    IN  /\ q.pc = "decided"
        /\ messages' = IF q.store THEN messages \union ({q.text} \ {Blank})
                       ELSE messages
        /\ turn' = [turn EXCEPT ![t].pc = IF q.done THEN "compiling"
                                          ELSE "answering"]
        /\ UNCHANGED <<client, contract, transcript, taken, resent, admitted>>

(* The companions of every slot, then the contract: refused, stored, or    *)
(* lost with an error that is logged.                                      *)
SaveContract(t) ==
    LET q == turn[t]
    IN  /\ q.pc = "compiling"
        /\ \E final \in Merged(q.known) :
             /\ turn' = [turn EXCEPT ![t] = [@ EXCEPT !.pc = "saved",
                                                      !.final = final]]
             /\ \/ Savable(final) /\ contract' = ContractOf(final)
                \/ UNCHANGED contract
        /\ UNCHANGED <<client, messages, transcript, taken, resent, admitted>>

(* _save_chat_transcript, the same way.                                    *)
SaveTranscript(t) ==
    LET q == turn[t]
    IN  /\ q.pc = "saved"
        /\ turn' = [turn EXCEPT ![t].pc = "answering"]
        /\ transcript' \in {transcript,
                            [answers |-> q.final, said |-> messages]}
        /\ UNCHANGED <<client, messages, contract, taken, resent, admitted>>

(* The response reaches the client, unless that has given up waiting.      *)
Answer(t) ==
    LET q == turn[t]
    IN  /\ q.pc = "answering"
        /\ turn' = [turn EXCEPT ![t] = Idle]
        /\ client' = IF q.live
                     THEN [known |-> q.known, asked |-> q.asked,
                           waiting |-> FALSE, told |-> q.done]
                     ELSE client
        /\ UNCHANGED <<storeVars, taken, resent, admitted>>

(* An exception, a crash or a lost response: the client sees an error.     *)
Dies(t) ==
    /\ turn[t].pc # "idle"
    /\ turn' = [turn EXCEPT ![t] = Idle]
    /\ client' = IF turn[t].live THEN [client EXCEPT !.waiting = FALSE]
                 ELSE client
    /\ UNCHANGED <<storeVars, taken, resent, admitted>>

Next ==
    \E t \in Turn :
      \/ Send(t)
      \/ \E u \in Turn : Resend(t, u)
      \/ Accept(t)
      \/ ForceAccept(t)
      \/ Retry(t)
      \/ Reject(t)
      \/ Persist(t)
      \/ SaveContract(t)
      \/ SaveTranscript(t)
      \/ Answer(t)
      \/ Dies(t)

Spec == Init /\ [][Next]_vars

-----------------------------------------------------------------------------
(* Properties.                                                             *)

(* The types; messages never hold blanks.                                  *)
ChatTypeOK ==
    /\ client \in Client
    /\ turn \in [Turn -> TurnState]
    /\ messages \in SUBSET Text
    /\ contract \in Contract
    /\ transcript \in [answers: Answers, said: SUBSET Text]
    /\ taken \in Nat
    /\ resent \in Nat
    /\ admitted \in SUBSET Said

(* A contract lets the generation begin, whatever the extractor found,     *)
(* whichever turns overlapped and whatever the client sent again; only a   *)
(* name made of quotation marks is lost on the way.  And a client is sent  *)
(* on to the publication only with an answer to every slot.                *)
OnlyNameLost(c) ==
    \A s \in Slot : HasAnswer(c.slots[s]) \/ (s = Name /\ c.slots[s] = Nothing)

Complete ==
    /\ contract.ready # "none" => OnlyNameLost(contract)
    /\ client.told => Missing(client.known) = {}

(* What every turn rejected leaves no trace: not in the answers that       *)
(* travel with the session, nor in the contract, the table or the          *)
(* transcript, also when the same turn was sent again.                     *)
Traces(known) == {known[k] : k \in Key} \intersect Text

OnlyAdmitted ==
    /\ Traces(client.known) \subseteq admitted
    /\ \A t \in Turn : Traces(turn[t].sent) \subseteq admitted
    /\ Traces(contract.slots) \subseteq admitted
    /\ Traces(transcript.answers) \subseteq admitted
    /\ transcript.said \subseteq admitted
    /\ messages \subseteq admitted

(* A turn that was sent the client's answers never takes one of them from  *)
(* it, in whatever order turns and what was sent again are answered.       *)
NeverForgets ==
    [][\A t \in Turn :
         Answer(t) /\ turn[t].live /\ turn[t].sent # NoAnswers
         => \A k \in Key : client.known[k] # Nothing
                           => client'.known[k] # Nothing]_vars
=============================================================================
