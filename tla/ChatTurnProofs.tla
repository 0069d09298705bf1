--------------------------- MODULE ChatTurnProofs ---------------------------
(***************************************************************************)
(* What holds of a chat session for any registry of slots, any number of   *)
(* turns and of turns sent again, whatever the models answer and whatever  *)
(* fails.                                                                  *)
(***************************************************************************)
EXTENDS ChatTurn, TLAPS

-----------------------------------------------------------------------------
(* The inductive invariant.                                                *)

Unblank(a) == \A k \in Key : a[k] # Blank

(* b has what a has.                                                       *)
Holds(b, a) == \A k \in Key : a[k] # Nothing => b[k] # Nothing

(* A turn by itself: its answers are no blanks, it is done only with every *)
(* slot answered, and what it was sent it still has.                       *)
Sound(q) ==
  /\ Unblank(q.sent) /\ Unblank(q.known) /\ Unblank(q.final)
  /\ q.done => Missing(q.known) = {}
  /\ q.pc = "compiling" => q.done
  /\ q.pc \notin {"idle", "sent"} => Holds(q.known, q.sent)
  /\ q.live => q.pc # "idle"

(* Where its answers and its message come from.                            *)
Traced(q, said) ==
  /\ Traces(q.sent) \subseteq said
  /\ Traces(q.known) \subseteq said
  /\ Traces(q.final) \subseteq said
  /\ q.store => q.text \in said

TurnsSound == \A t \in Turn : Sound(turn[t])

TurnsTraced ==
  /\ OnlyAdmitted
  /\ \A t \in Turn : Traced(turn[t], admitted)

(* Who is waited for was sent what the client holds, or nothing.           *)
Awaited(q) == q.live => client.waiting /\ q.sent \in {client.known, NoAnswers}

OneAwaited ==
  /\ \A t \in Turn : Awaited(turn[t])
  /\ \A t, u \in Turn : turn[t].live /\ turn[u].live => t = u

ChatInv ==
  /\ ChatTypeOK
  /\ Unblank(client.known)
  /\ Complete
  /\ TurnsSound
  /\ TurnsTraced
  /\ OneAwaited

-----------------------------------------------------------------------------
(* Answers.                                                                *)

LEMMA NoAnswersFacts ==
  /\ NoAnswers \in Answers
  /\ Unblank(NoAnswers)
  /\ Traces(NoAnswers) = {}
<1>1. NoAnswers \in Answers
  BY DEF NoAnswers, Answers, Value
<1>2. \A k \in Key : NoAnswers[k] = Nothing
  BY DEF NoAnswers
<1>. QED BY <1>1, <1>2, ChatAssumption DEF Unblank, Traces, Filled

(* What the extractor adds takes no answer away, adds no blank and nothing *)
(* that the user said.                                                     *)
Extends(f, known) == \A k \in Key : f[k] = known[k] \/ f[k] \in Word

LEMMA ExtractorExtends ==
  ASSUME NEW known \in Answers
  PROVE  /\ \A slot : \A f \in Extracted(known, slot) :
              f \in Answers /\ Extends(f, known)
         /\ \A f \in Merged(known) : f \in Answers /\ Extends(f, known)
<1>1. ASSUME NEW slot, NEW f \in Extracted(known, slot)
      PROVE  f \in Answers /\ Extends(f, known)
  <2>1. f \in [Key -> Value]
        /\ \A k \in Key :
             f[k] \in {known[k]} \union (IF slot \in Lead THEN Word ELSE {})
    BY <1>1 DEF Extracted
  <2>. QED BY <2>1 DEF Answers, Extends
<1>2. ASSUME NEW f \in Merged(known)
      PROVE  f \in Answers /\ Extends(f, known)
  <2>1. f \in [Key -> Value]
        /\ \A k \in Key :
             f[k] \in {known[k]} \union (IF Lead = {} THEN {} ELSE Word)
    BY <1>2 DEF Merged
  <2>. QED BY <2>1 DEF Answers, Extends
<1>. QED BY <1>1, <1>2

LEMMA ExtensionKeeps ==
  ASSUME NEW known \in Answers, NEW f \in Answers, Extends(f, known),
         Unblank(known)
  PROVE  /\ Unblank(f)
         /\ Holds(f, known)
         /\ Traces(f) \subseteq Traces(known)
         /\ Missing(f) \subseteq Missing(known)
<1>1. \A k \in Key : f[k] = known[k] \/ f[k] \in Word
  BY DEF Extends
<1>2. \A w \in Word : w # Blank /\ w # Nothing /\ w \notin Text
  BY ChatAssumption DEF Filled
<1>3. Unblank(f) /\ Holds(f, known)
  BY <1>1, <1>2 DEF Unblank, Holds
<1>4. Traces(f) \subseteq Traces(known)
  BY <1>1, <1>2 DEF Traces
<1>5. Missing(f) \subseteq Missing(known)
  BY <1>3 DEF Missing, Holds, Key
<1>. QED BY <1>3, <1>4, <1>5

(* What an accepted answer makes of those sent.                            *)
LEMMA AnsweredFacts ==
  ASSUME NEW q \in TurnState, Applicable(q), Unblank(q.sent)
  PROVE  /\ Answered(q) \in Answers
         /\ Unblank(Answered(q))
         /\ Holds(Answered(q), q.sent)
         /\ Traces(Answered(q)) \subseteq Traces(q.sent) \union {q.text}
<1>1. q.slot \in Key /\ q.text \in Filled /\ q.sent \in Answers
  BY DEF Applicable, HasAnswer, TurnState, Key
<1>2. q.text # Blank /\ q.text # Nothing /\ q.text \in Value
  BY <1>1, ChatAssumption DEF Value
<1>3. Answered(q) \in Answers
  BY <1>1, <1>2 DEF Answered, Answers
<1>4. \A k \in Key : Answered(q)[k] = IF k = q.slot THEN q.text ELSE q.sent[k]
  BY <1>1 DEF Answered, Answers
<1>5. Unblank(Answered(q)) /\ Holds(Answered(q), q.sent)
  BY <1>2, <1>4 DEF Unblank, Holds
<1>6. Traces(Answered(q)) \subseteq Traces(q.sent) \union {q.text}
  BY <1>4 DEF Traces
<1>. QED BY <1>3, <1>5, <1>6

LEMMA HoldsTransitive ==
  ASSUME NEW a, NEW b, NEW c, Holds(b, a), Holds(c, b)
  PROVE  Holds(c, a)
BY DEF Holds

(* The question is for a slot of the registry, or there is none.           *)
LEMMA AsksSlots ==
  \A known, missing : missing \subseteq Slot
    => Asks(known, missing) \subseteq Slot \union {NoSlot}
<1>. SUFFICES ASSUME NEW known, NEW missing, missing \subseteq Slot
              PROVE  Asks(known, missing) \subseteq Slot \union {NoSlot}
  OBVIOUS
<1>1. Target(known, missing) \subseteq Slot
  BY DEF Target
<1>. QED BY <1>1 DEF Asks

-----------------------------------------------------------------------------
(* Turns.                                                                  *)

LEMMA RequestFacts ==
  ASSUME NEW sent \in Answers, NEW slot \in Slot \union {NoSlot},
         NEW text \in Said
  PROVE  Request(sent, slot, text) \in TurnState
BY NoAnswersFacts DEF Request, TurnState, TurnPc

LEMMA IdleFacts ==
  /\ Idle \in TurnState
  /\ Sound(Idle)
  /\ \A said : Traced(Idle, said)
  /\ Idle.pc = "idle"
  /\ Idle.live = FALSE
<1>1. Idle \in TurnState
  <2>1. Request(NoAnswers, NoSlot, Blank) \in TurnState
    BY NoAnswersFacts DEF Request, TurnState, TurnPc, Said
  <2>. QED BY <2>1 DEF Idle, TurnState, TurnPc
<1>2. /\ Idle.pc = "idle" /\ Idle.sent = NoAnswers /\ Idle.known = NoAnswers
      /\ Idle.final = NoAnswers /\ Idle.store = FALSE /\ Idle.done = FALSE
      /\ Idle.live = FALSE
  BY DEF Idle, Request
<1>. QED BY <1>1, <1>2, NoAnswersFacts DEF Sound, Traced

(* One turn changes: the others are as sound as they were.                 *)
LEMMA OneTurnChanges ==
  ASSUME ChatInv, NEW t \in Turn, NEW r \in TurnState, Sound(r),
         turn' = [turn EXCEPT ![t] = r],
         admitted \subseteq admitted', Traced(r, admitted')
  PROVE  /\ turn' \in [Turn -> TurnState]
         /\ TurnsSound'
         /\ \A u \in Turn : Traced(turn'[u], admitted')
<1>1. turn \in [Turn -> TurnState]
  BY DEF ChatInv, ChatTypeOK
<1>2. turn' \in [Turn -> TurnState]
  BY <1>1
<1>3. \A u \in Turn : turn'[u] = IF u = t THEN r ELSE turn[u]
  BY <1>1
<1>4. \A u \in Turn : Sound(turn[u]) /\ Traced(turn[u], admitted)
  BY DEF ChatInv, TurnsSound, TurnsTraced
<1>5. \A u \in Turn : Sound(turn'[u])
  BY <1>3, <1>4
<1>6. \A u \in Turn : Traced(turn[u], admitted')
  BY <1>4 DEF Traced
<1>7. \A u \in Turn : Traced(turn'[u], admitted')
  BY <1>3, <1>6
<1>. QED BY <1>2, <1>5, <1>7 DEF TurnsSound

(* A turn that goes on is waited for as it was.                            *)
LEMMA StillAwaited ==
  ASSUME ChatInv, NEW t \in Turn, NEW r,
         turn' = [turn EXCEPT ![t] = r], client' = client,
         r.live => turn[t].live /\ r.sent = turn[t].sent
  PROVE  OneAwaited'
<1>1. turn \in [Turn -> TurnState]
  BY DEF ChatInv, ChatTypeOK
<1>2. \A u \in Turn : turn'[u] = IF u = t THEN r ELSE turn[u]
  BY <1>1
<1>3. \A u \in Turn : turn'[u].live
                       => turn[u].live /\ turn'[u].sent = turn[u].sent
  BY <1>2
<1>4. /\ \A u \in Turn : Awaited(turn[u])
      /\ \A u, v \in Turn : turn[u].live /\ turn[v].live => u = v
  BY DEF ChatInv, OneAwaited
<1>5. \A u \in Turn : Awaited(turn[u])'
  BY <1>3, <1>4 DEF Awaited
<1>6. \A u, v \in Turn : turn'[u].live /\ turn'[v].live => u = v
  BY <1>3, <1>4
<1>. QED BY <1>5, <1>6 DEF OneAwaited

(* What Decide makes of a turn.                                            *)
Decided(q, known, asked, store, done) ==
  [q EXCEPT !.pc = "decided", !.known = known, !.asked = asked,
            !.store = store, !.done = done]

LEMMA DecidedFacts ==
  ASSUME NEW q \in TurnState, NEW known \in Answers,
         NEW asked \in Slot \union {NoSlot},
         NEW store \in BOOLEAN, NEW done \in BOOLEAN, NEW r,
         r = Decided(q, known, asked, store, done)
  PROVE  /\ r \in TurnState
         /\ r.pc = "decided" /\ r.known = known /\ r.store = store
         /\ r.done = done /\ r.sent = q.sent /\ r.text = q.text
         /\ r.final = q.final /\ r.live = q.live
<1>. DEFINE a == [q EXCEPT !.pc = "decided"]
            b == [a EXCEPT !.known = known]
            c == [b EXCEPT !.asked = asked]
            d == [c EXCEPT !.store = store]
<1>1. /\ a \in TurnState /\ a.pc = "decided" /\ a.sent = q.sent
      /\ a.text = q.text /\ a.final = q.final /\ a.live = q.live
  BY DEF TurnState, TurnPc
<1>2. r = [[[[a EXCEPT !.known = known] EXCEPT !.asked = asked]
              EXCEPT !.store = store] EXCEPT !.done = done]
  BY DEF Decided
<1>. HIDE DEF a
<1>3. /\ b \in TurnState /\ b.pc = "decided" /\ b.known = known
      /\ b.sent = q.sent /\ b.text = q.text /\ b.final = q.final
      /\ b.live = q.live
  BY <1>1 DEF TurnState
<1>4. r = [[[b EXCEPT !.asked = asked] EXCEPT !.store = store]
              EXCEPT !.done = done]
  BY <1>2
<1>. HIDE DEF b
<1>5. /\ c \in TurnState /\ c.pc = "decided" /\ c.known = known
      /\ c.sent = q.sent /\ c.text = q.text /\ c.final = q.final
      /\ c.live = q.live
  BY <1>3 DEF TurnState
<1>6. r = [[c EXCEPT !.store = store] EXCEPT !.done = done]
  BY <1>4
<1>. HIDE DEF c
<1>7. /\ d \in TurnState /\ d.pc = "decided" /\ d.known = known
      /\ d.store = store /\ d.sent = q.sent /\ d.text = q.text
      /\ d.final = q.final /\ d.live = q.live
  BY <1>5 DEF TurnState
<1>8. r = [d EXCEPT !.done = done]
  BY <1>6
<1>. HIDE DEF d
<1>. QED BY <1>7, <1>8 DEF TurnState

(* What a decision has to meet.                                            *)
LEMMA DecisionKeeps ==
  ASSUME ChatInv, NEW t \in Turn, NEW known \in Answers,
         NEW asked \in Slot \union {NoSlot},
         NEW store \in BOOLEAN, NEW done \in BOOLEAN,
         Decide(t, known, asked, store, done),
         turn[t].pc = "sent",
         Unblank(known), Holds(known, turn[t].sent),
         done => Missing(known) = {},
         admitted \subseteq admitted', admitted' \in SUBSET Said,
         Traces(known) \subseteq admitted',
         store => turn[t].text \in admitted',
         UNCHANGED <<client, storeVars, taken, resent>>
  PROVE  ChatInv'
<1>. DEFINE q == turn[t]
            r == Decided(q, known, asked, store, done)
<1>1. q \in TurnState /\ Sound(q) /\ Traced(q, admitted)
  BY DEF ChatInv, ChatTypeOK, TurnsSound, TurnsTraced
<1>2. turn' = [turn EXCEPT ![t] = r]
  BY DEF Decide, Decided
<1>. HIDE DEF r
<1>3. /\ r \in TurnState
      /\ r.pc = "decided" /\ r.known = known /\ r.store = store
      /\ r.done = done /\ r.sent = q.sent /\ r.text = q.text
      /\ r.final = q.final /\ r.live = q.live
  <2>. HIDE DEF q
  <2>. QED BY <1>1, DecidedFacts DEF r
<1>4. Sound(r)
  BY <1>1, <1>3 DEF Sound
<1>5. Traced(r, admitted')
  BY <1>1, <1>3 DEF Traced
<1>6. /\ turn' \in [Turn -> TurnState]
      /\ TurnsSound'
      /\ \A u \in Turn : Traced(turn'[u], admitted')
  BY <1>2, <1>3, <1>4, <1>5, OneTurnChanges
<1>7. OneAwaited'
  BY <1>2, <1>3, StillAwaited
<1>8. ChatTypeOK'
  BY <1>6 DEF ChatInv, ChatTypeOK, storeVars
<1>9. Unblank(client.known)' /\ Complete'
  BY DEF ChatInv, Complete, storeVars, Unblank
<1>10. OnlyAdmitted'
  BY <1>6 DEF ChatInv, TurnsTraced, OnlyAdmitted, Traced, storeVars
<1>. QED BY <1>6, <1>7, <1>8, <1>9, <1>10 DEF ChatInv, TurnsTraced

-----------------------------------------------------------------------------
(* Each action.                                                            *)

(* What Accept and ForceAccept have in common.                             *)
LEMMA AppliedKeeps ==
  ASSUME ChatInv, NEW t \in Turn, turn[t].pc = "sent", Applicable(turn[t]),
         NEW known \in Extracted(Answered(turn[t]), turn[t].slot),
         NEW asked \in Slot \union {NoSlot},
         Decide(t, known, asked, TRUE, Missing(known) = {}),
         admitted' = admitted \union {turn[t].text},
         UNCHANGED <<client, storeVars, taken, resent>>
  PROVE  ChatInv'
<1>. DEFINE q == turn[t]
            done == Missing(known) = {}
<1>1. /\ q \in TurnState /\ Sound(q) /\ Traced(q, admitted)
      /\ admitted \in SUBSET Said
  BY DEF ChatInv, ChatTypeOK, TurnsSound, TurnsTraced
<1>2. Unblank(q.sent) /\ Traces(q.sent) \subseteq admitted
      /\ q.text \in Said
  BY <1>1 DEF Sound, Traced, TurnState
<1>3. /\ Answered(q) \in Answers
      /\ Unblank(Answered(q))
      /\ Holds(Answered(q), q.sent)
      /\ Traces(Answered(q)) \subseteq Traces(q.sent) \union {q.text}
  BY <1>1, <1>2, AnsweredFacts
<1>4. known \in Answers /\ Extends(known, Answered(q))
  BY <1>3, ExtractorExtends
<1>5. /\ Unblank(known) /\ Holds(known, Answered(q))
      /\ Traces(known) \subseteq Traces(Answered(q))
  BY <1>3, <1>4, ExtensionKeeps
<1>6. Holds(known, q.sent)
  BY <1>3, <1>5, HoldsTransitive
<1>7. Traces(known) \subseteq admitted'
  BY <1>2, <1>3, <1>5
<1>8. done \in BOOLEAN /\ (done => Missing(known) = {})
  OBVIOUS
<1>9. Decide(t, known, asked, TRUE, done)
  OBVIOUS
<1>10. admitted \subseteq admitted' /\ admitted' \in SUBSET Said
       /\ (TRUE => turn[t].text \in admitted')
  BY <1>1, <1>2
<1>. HIDE DEF done
<1>. QED BY <1>4, <1>5, <1>6, <1>7, <1>8, <1>9, <1>10, DecisionKeeps

LEMMA AcceptKeeps ==
  ASSUME ChatInv, NEW t \in Turn, Accept(t)
  PROVE  ChatInv'
<1>. DEFINE q == turn[t]
            missing == Missing(q.sent) \ {q.slot}
<1>1. /\ q.pc = "sent" /\ Applicable(q)
      /\ admitted' = admitted \union {q.text}
      /\ UNCHANGED <<client, storeVars, taken, resent>>
  BY DEF Accept
<1>2. PICK known \in Extracted(Answered(q), q.slot) :
        \E asked \in IF missing = {} THEN {NoSlot}
                     ELSE Asks(Answered(q), missing) :
          Decide(t, known, asked, TRUE, Missing(known) = {})
  BY Zenon DEF Accept
<1>3. missing \subseteq Slot
  BY DEF Missing
<1>4. PICK asked \in Slot \union {NoSlot} :
        Decide(t, known, asked, TRUE, Missing(known) = {})
  BY <1>2, <1>3, AsksSlots
<1>. QED BY <1>1, <1>4, AppliedKeeps

LEMMA ForceAcceptKeeps ==
  ASSUME ChatInv, NEW t \in Turn, ForceAccept(t)
  PROVE  ChatInv'
<1>. DEFINE q == turn[t]
<1>1. /\ q.pc = "sent" /\ Applicable(q)
      /\ admitted' = admitted \union {q.text}
      /\ UNCHANGED <<client, storeVars, taken, resent>>
  BY DEF ForceAccept
<1>2. PICK known \in Extracted(Answered(q), q.slot) :
        \E asked \in Asks(q.sent, Missing(q.sent)) :
          Decide(t, known, asked, TRUE, Missing(known) = {})
  BY Zenon DEF ForceAccept
<1>3. Missing(q.sent) \subseteq Slot
  BY DEF Missing
<1>4. PICK asked \in Slot \union {NoSlot} :
        Decide(t, known, asked, TRUE, Missing(known) = {})
  BY <1>2, <1>3, AsksSlots
<1>. QED BY <1>1, <1>4, AppliedKeeps

(* A turn that keeps the answers it was sent.                              *)
LEMMA SentFacts ==
  ASSUME ChatInv, NEW t \in Turn
  PROVE  /\ turn[t].sent \in Answers /\ turn[t].text \in Said
         /\ Unblank(turn[t].sent)
         /\ Holds(turn[t].sent, turn[t].sent)
         /\ Traces(turn[t].sent) \subseteq admitted
         /\ admitted \in SUBSET Said
<1>1. /\ turn[t] \in TurnState /\ Sound(turn[t])
      /\ Traced(turn[t], admitted) /\ admitted \in SUBSET Said
  BY DEF ChatInv, ChatTypeOK, TurnsSound, TurnsTraced
<1>. QED BY <1>1 DEF TurnState, Sound, Traced, Holds

LEMMA RetryKeeps ==
  ASSUME ChatInv, NEW t \in Turn, Retry(t)
  PROVE  ChatInv'
<1>1. /\ turn[t].pc = "sent"
      /\ Decide(t, turn[t].sent, NoSlot, TRUE, FALSE)
      /\ admitted' = admitted \union {turn[t].text}
      /\ UNCHANGED <<client, storeVars, taken, resent>>
  BY DEF Retry
<1>2. /\ admitted \subseteq admitted' /\ admitted' \in SUBSET Said
      /\ Traces(turn[t].sent) \subseteq admitted'
      /\ TRUE => turn[t].text \in admitted'
  BY <1>1, SentFacts
<1>. QED BY <1>1, <1>2, SentFacts, DecisionKeeps

LEMMA RejectKeeps ==
  ASSUME ChatInv, NEW t \in Turn, Reject(t)
  PROVE  ChatInv'
<1>1. /\ turn[t].pc = "sent"
      /\ admitted' = admitted
      /\ UNCHANGED <<client, storeVars, taken, resent>>
  BY DEF Reject
<1>2. PICK asked \in Asks(turn[t].sent, Missing(turn[t].sent)) :
        Decide(t, turn[t].sent, asked, FALSE, FALSE)
  BY Zenon DEF Reject
<1>3. asked \in Slot \union {NoSlot}
  <2>1. Missing(turn[t].sent) \subseteq Slot
    BY DEF Missing
  <2>. QED BY <1>2, <2>1, AsksSlots
<1>4. /\ admitted \subseteq admitted' /\ admitted' \in SUBSET Said
      /\ Traces(turn[t].sent) \subseteq admitted'
  BY <1>1, SentFacts
<1>. QED BY <1>1, <1>2, <1>3, <1>4, SentFacts, DecisionKeeps

LEMMA PersistKeeps ==
  ASSUME ChatInv, NEW t \in Turn, Persist(t)
  PROVE  ChatInv'
<1>. DEFINE q == turn[t]
            pc == IF q.done THEN "compiling" ELSE "answering"
            r == [q EXCEPT !.pc = pc]
<1>1. q \in TurnState /\ Sound(q) /\ Traced(q, admitted)
  BY DEF ChatInv, ChatTypeOK, TurnsSound, TurnsTraced
<1>2. /\ q.pc = "decided"
      /\ messages' = IF q.store THEN messages \union ({q.text} \ {Blank})
                     ELSE messages
      /\ turn' = [turn EXCEPT ![t] = r]
      /\ UNCHANGED <<client, contract, transcript, taken, resent, admitted>>
  BY DEF Persist
<1>3. /\ r \in TurnState /\ r.pc = pc /\ r.sent = q.sent
      /\ r.known = q.known /\ r.final = q.final /\ r.store = q.store
      /\ r.text = q.text /\ r.done = q.done /\ r.live = q.live
  BY <1>1 DEF TurnState, TurnPc
<1>4. Sound(r)
  BY <1>1, <1>2, <1>3 DEF Sound
<1>5. Traced(r, admitted')
  BY <1>1, <1>2, <1>3 DEF Traced
<1>. HIDE DEF r
<1>6. /\ turn' \in [Turn -> TurnState]
      /\ TurnsSound'
      /\ \A u \in Turn : Traced(turn'[u], admitted')
  BY <1>2, <1>3, <1>4, <1>5, OneTurnChanges
<1>7. OneAwaited'
  BY <1>2, <1>3, StillAwaited
<1>8. messages' \subseteq Text /\ messages' \subseteq admitted
  <2>1. q.text \in Text \union {Blank} /\ (q.store => q.text \in admitted)
    BY <1>1 DEF TurnState, Said, Traced
  <2>2. messages \subseteq Text /\ messages \subseteq admitted
    BY DEF ChatInv, ChatTypeOK, TurnsTraced, OnlyAdmitted
  <2>. HIDE DEF q
  <2>. QED BY <1>2, <2>1, <2>2
<1>9. ChatTypeOK'
  BY <1>2, <1>6, <1>8 DEF ChatInv, ChatTypeOK
<1>10. Unblank(client.known)' /\ Complete'
  BY <1>2 DEF ChatInv, Complete, Unblank
<1>11. OnlyAdmitted'
  BY <1>2, <1>6, <1>8 DEF ChatInv, TurnsTraced, OnlyAdmitted, Traced
<1>. QED BY <1>6, <1>7, <1>9, <1>10, <1>11 DEF ChatInv, TurnsTraced

(* The contract that is stored, if one is.                                 *)
LEMMA ContractFacts ==
  ASSUME NEW known \in Answers, Unblank(known), Missing(known) = {}
  PROVE  /\ ContractOf(known) \in Contract
         /\ OnlyNameLost(ContractOf(known))
         /\ Traces(ContractOf(known).slots) \subseteq Traces(known)
<1>. DEFINE c == ContractOf(known)
            slots == [known EXCEPT ![Name] = IF @ \in Quotes THEN Nothing
                                             ELSE @]
<1>1. c.slots = slots /\ c = [slots |-> slots, ready |-> c.ready]
      /\ c.ready \in {"yes", "no"}
  BY DEF ContractOf
<1>2. Name \in Key /\ known \in [Key -> Value] /\ Nothing \in Value
  BY ChatAssumption DEF Key, Answers, Value
<1>3. slots \in Answers
  BY <1>2 DEF Answers
<1>4. \A k \in Key : slots[k] = IF k = Name /\ known[k] \in Quotes
                                THEN Nothing ELSE known[k]
  BY <1>2
<1>5. \A s \in Slot : s \in Key /\ known[s] # Nothing /\ known[s] # Blank
  BY DEF Missing, Unblank, Key
<1>6. \A s \in Slot : known[s] \in Filled
  BY <1>2, <1>5 DEF Value
<1>. HIDE DEF c, slots
<1>7. c \in Contract
  BY <1>1, <1>3 DEF Contract
<1>8. OnlyNameLost(c)
  BY <1>1, <1>4, <1>5, <1>6 DEF OnlyNameLost, HasAnswer
<1>9. Traces(c.slots) \subseteq Traces(known)
  <2>1. Nothing \notin Text
    BY ChatAssumption DEF Filled
  <2>. QED BY <1>1, <1>4, <2>1 DEF Traces
<1>. QED BY <1>7, <1>8, <1>9 DEF c

LEMMA SaveContractKeeps ==
  ASSUME ChatInv, NEW t \in Turn, SaveContract(t)
  PROVE  ChatInv'
<1>. DEFINE q == turn[t]
<1>1. q \in TurnState /\ Sound(q) /\ Traced(q, admitted)
  BY DEF ChatInv, ChatTypeOK, TurnsSound, TurnsTraced
<1>2. /\ q.pc = "compiling"
      /\ UNCHANGED <<client, messages, transcript, taken, resent, admitted>>
  BY DEF SaveContract
<1>3. PICK final \in Merged(q.known) :
        /\ turn' = [turn EXCEPT ![t] = [q EXCEPT !.pc = "saved",
                                                !.final = final]]
        /\ contract' = ContractOf(final) \/ contract' = contract
  BY DEF SaveContract
<1>. DEFINE a == [q EXCEPT !.pc = "saved"]
            r == [a EXCEPT !.final = final]
<1>4. turn' = [turn EXCEPT ![t] = r]
  BY <1>3
<1>5. /\ q.known \in Answers /\ Unblank(q.known)
      /\ Missing(q.known) = {} /\ Traces(q.known) \subseteq admitted
  BY <1>1, <1>2 DEF TurnState, Sound, Traced
<1>6. final \in Answers /\ Extends(final, q.known)
  BY <1>5, ExtractorExtends
<1>7. /\ Unblank(final) /\ Missing(final) = {}
      /\ Traces(final) \subseteq admitted
  BY <1>5, <1>6, ExtensionKeeps
<1>8. /\ a \in TurnState /\ a.pc = "saved" /\ a.sent = q.sent
      /\ a.known = q.known /\ a.store = q.store /\ a.text = q.text
      /\ a.done = q.done /\ a.live = q.live
  BY <1>1 DEF TurnState, TurnPc
<1>. HIDE DEF a
<1>9. /\ r \in TurnState /\ r.pc = "saved" /\ r.sent = q.sent
      /\ r.known = q.known /\ r.store = q.store /\ r.text = q.text
      /\ r.done = q.done /\ r.live = q.live /\ r.final = final
  BY <1>6, <1>8 DEF TurnState
<1>. HIDE DEF r
<1>10. Sound(r)
  BY <1>1, <1>2, <1>7, <1>9 DEF Sound
<1>11. Traced(r, admitted')
  BY <1>1, <1>2, <1>7, <1>9 DEF Traced
<1>12. /\ turn' \in [Turn -> TurnState]
       /\ TurnsSound'
       /\ \A u \in Turn : Traced(turn'[u], admitted')
  BY <1>2, <1>4, <1>9, <1>10, <1>11, OneTurnChanges
<1>13. OneAwaited'
  BY <1>2, <1>4, <1>9, StillAwaited
<1>14. /\ contract' \in Contract
       /\ contract'.ready # "none" => OnlyNameLost(contract')
       /\ Traces(contract'.slots) \subseteq admitted
  <2>1. CASE contract' = ContractOf(final)
    BY <1>6, <1>7, <2>1, ContractFacts
  <2>2. CASE contract' = contract
    BY <2>2 DEF ChatInv, ChatTypeOK, Complete, TurnsTraced, OnlyAdmitted
  <2>. QED BY <1>3, <2>1, <2>2
<1>15. ChatTypeOK'
  BY <1>2, <1>12, <1>14 DEF ChatInv, ChatTypeOK
<1>16. Unblank(client.known)' /\ Complete'
  BY <1>2, <1>14 DEF ChatInv, Complete, Unblank
<1>17. OnlyAdmitted'
  BY <1>2, <1>12, <1>14 DEF ChatInv, TurnsTraced, OnlyAdmitted, Traced
<1>. QED BY <1>12, <1>13, <1>15, <1>16, <1>17 DEF ChatInv, TurnsTraced

LEMMA SaveTranscriptKeeps ==
  ASSUME ChatInv, NEW t \in Turn, SaveTranscript(t)
  PROVE  ChatInv'
<1>. DEFINE q == turn[t]
            r == [q EXCEPT !.pc = "answering"]
<1>1. q \in TurnState /\ Sound(q) /\ Traced(q, admitted)
  BY DEF ChatInv, ChatTypeOK, TurnsSound, TurnsTraced
<1>2. /\ q.pc = "saved"
      /\ turn' = [turn EXCEPT ![t] = r]
      /\ transcript' \in {transcript, [answers |-> q.final, said |-> messages]}
      /\ UNCHANGED <<client, messages, contract, taken, resent, admitted>>
  BY DEF SaveTranscript
<1>3. /\ r \in TurnState /\ r.pc = "answering" /\ r.sent = q.sent
      /\ r.known = q.known /\ r.final = q.final /\ r.store = q.store
      /\ r.text = q.text /\ r.done = q.done /\ r.live = q.live
  BY <1>1 DEF TurnState, TurnPc
<1>4. Sound(r)
  BY <1>1, <1>2, <1>3 DEF Sound
<1>5. Traced(r, admitted')
  BY <1>1, <1>2, <1>3 DEF Traced
<1>6. q.final \in Answers /\ Traces(q.final) \subseteq admitted
  BY <1>1 DEF TurnState, Traced
<1>. HIDE DEF r, q
<1>7. /\ turn' \in [Turn -> TurnState]
      /\ TurnsSound'
      /\ \A u \in Turn : Traced(turn'[u], admitted')
  BY <1>2, <1>3, <1>4, <1>5, OneTurnChanges
<1>8. OneAwaited'
  BY <1>2, <1>3, StillAwaited DEF q
<1>9. /\ transcript' \in [answers: Answers, said: SUBSET Text]
      /\ Traces(transcript'.answers) \subseteq admitted
      /\ transcript'.said \subseteq admitted
  BY <1>2, <1>6 DEF ChatInv, ChatTypeOK, TurnsTraced, OnlyAdmitted
<1>10. ChatTypeOK'
  BY <1>2, <1>7, <1>9 DEF ChatInv, ChatTypeOK
<1>11. Unblank(client.known)' /\ Complete'
  BY <1>2 DEF ChatInv, Complete, Unblank
<1>12. OnlyAdmitted'
  BY <1>2, <1>7, <1>9 DEF ChatInv, TurnsTraced, OnlyAdmitted, Traced
<1>. QED BY <1>7, <1>8, <1>10, <1>11, <1>12 DEF ChatInv, TurnsTraced

(* A turn ends: the others keep waiting, or no other is waited for.        *)
LEMMA EndKeeps ==
  ASSUME ChatInv, NEW t \in Turn, turn' = [turn EXCEPT ![t] = Idle],
         turn[t].live \/ client' = client,
         client' \in Client, Unblank(client'.known),
         Traces(client'.known) \subseteq admitted,
         client'.told => Missing(client'.known) = {},
         UNCHANGED <<storeVars, taken, resent, admitted>>
  PROVE  ChatInv'
<1>1. /\ turn' \in [Turn -> TurnState]
      /\ TurnsSound'
      /\ \A u \in Turn : Traced(turn'[u], admitted')
  BY IdleFacts, OneTurnChanges
<1>2. OneAwaited'
  <2>1. CASE client' = client
    BY <2>1, IdleFacts, StillAwaited
  <2>2. CASE turn[t].live
    <3>1. turn \in [Turn -> TurnState]
      BY DEF ChatInv, ChatTypeOK
    <3>2. \A u \in Turn : turn[u].live => u = t
      BY <2>2 DEF ChatInv, OneAwaited
    <3>3. \A u \in Turn : \/ turn'[u].live = FALSE
                          \/ turn'[u] = turn[u] /\ u # t
      BY <3>1, IdleFacts
    <3>4. \A u \in Turn : ~turn'[u].live
      BY <3>2, <3>3
    <3>. QED BY <3>4 DEF OneAwaited, Awaited
  <2>. QED BY <2>1, <2>2
<1>3. ChatTypeOK'
  BY <1>1 DEF ChatInv, ChatTypeOK, storeVars
<1>4. Unblank(client.known)' /\ Complete'
  BY DEF ChatInv, Complete, Unblank, storeVars
<1>5. OnlyAdmitted'
  BY <1>1 DEF ChatInv, TurnsTraced, OnlyAdmitted, Traced, storeVars
<1>. QED BY <1>1, <1>2, <1>3, <1>4, <1>5 DEF ChatInv, TurnsTraced

LEMMA AnswerKeeps ==
  ASSUME ChatInv, NEW t \in Turn, Answer(t)
  PROVE  ChatInv'
<1>. DEFINE q == turn[t]
            heard == [known |-> q.known, asked |-> q.asked,
                      waiting |-> FALSE, told |-> q.done]
<1>1. q \in TurnState /\ Sound(q) /\ Traced(q, admitted)
  BY DEF ChatInv, ChatTypeOK, TurnsSound, TurnsTraced
<1>2. /\ turn' = [turn EXCEPT ![t] = Idle]
      /\ client' = IF q.live THEN heard ELSE client
      /\ UNCHANGED <<storeVars, taken, resent, admitted>>
  BY DEF Answer
<1>3. /\ heard \in Client /\ Unblank(heard.known)
      /\ Traces(heard.known) \subseteq admitted
      /\ heard.told => Missing(heard.known) = {}
  BY <1>1 DEF TurnState, Client, Sound, Traced
<1>4. /\ client \in Client /\ Unblank(client.known)
      /\ Traces(client.known) \subseteq admitted
      /\ client.told => Missing(client.known) = {}
  BY DEF ChatInv, ChatTypeOK, Complete, TurnsTraced, OnlyAdmitted
<1>. HIDE DEF heard
<1>5. CASE q.live
  <2>1. client' = heard
    BY <1>2, <1>5
  <2>. QED BY <1>2, <1>3, <1>5, <2>1, EndKeeps
<1>6. CASE ~q.live
  <2>1. client' = client
    BY <1>2, <1>6
  <2>. QED BY <1>2, <1>4, <2>1, EndKeeps
<1>. QED BY <1>5, <1>6

LEMMA DiesKeeps ==
  ASSUME ChatInv, NEW t \in Turn, Dies(t)
  PROVE  ChatInv'
<1>1. /\ turn' = [turn EXCEPT ![t] = Idle]
      /\ client' = IF turn[t].live THEN [client EXCEPT !.waiting = FALSE]
                   ELSE client
      /\ UNCHANGED <<storeVars, taken, resent, admitted>>
  BY DEF Dies
<1>2. /\ client \in Client /\ Unblank(client.known)
      /\ Traces(client.known) \subseteq admitted
      /\ client.told => Missing(client.known) = {}
  BY DEF ChatInv, ChatTypeOK, Complete, TurnsTraced, OnlyAdmitted
<1>3. /\ client' \in Client /\ client'.known = client.known
      /\ client'.told = client.told
  BY <1>1, <1>2 DEF Client
<1>4. turn[t].live \/ client' = client
  BY <1>1
<1>5. /\ Unblank(client'.known)
      /\ Traces(client'.known) \subseteq admitted
      /\ client'.told => Missing(client'.known) = {}
  BY <1>2, <1>3
<1>. QED BY <1>1, <1>3, <1>4, <1>5, EndKeeps

(* A turn as it is sent.                                                   *)
LEMMA SentSound ==
  ASSUME NEW sent \in Answers, NEW slot \in Slot \union {NoSlot},
         NEW text \in Said, NEW said, Unblank(sent),
         Traces(sent) \subseteq said
  PROVE  /\ Request(sent, slot, text) \in TurnState
         /\ Sound(Request(sent, slot, text))
         /\ Traced(Request(sent, slot, text), said)
         /\ Request(sent, slot, text).sent = sent
         /\ Request(sent, slot, text).live = TRUE
<1>1. Request(sent, slot, text) \in TurnState
  BY RequestFacts
<1>. DEFINE r == Request(sent, slot, text)
<1>2. /\ r.pc = "sent" /\ r.sent = sent /\ r.known = NoAnswers
      /\ r.final = NoAnswers /\ r.store = FALSE /\ r.done = FALSE
      /\ r.live = TRUE
  BY DEF Request
<1>. HIDE DEF r
<1>3. Sound(r)
  BY <1>2, NoAnswersFacts DEF Sound
<1>4. Traced(r, said)
  BY <1>2, NoAnswersFacts DEF Traced
<1>5. r \in TurnState
  BY <1>1 DEF r
<1>6. /\ r \in TurnState /\ Sound(r) /\ Traced(r, said)
      /\ r.sent = sent /\ r.live = TRUE
  BY <1>2, <1>3, <1>4, <1>5
<1>. QED BY <1>6, Zenon DEF r

LEMMA SendKeeps ==
  ASSUME ChatInv, NEW t \in Turn, Send(t)
  PROVE  ChatInv'
<1>1. /\ ~client.waiting /\ taken' = taken + 1
      /\ client' = [client EXCEPT !.waiting = TRUE]
      /\ UNCHANGED <<storeVars, resent, admitted>>
  BY DEF Send
<1>2. PICK text \in Said, sent \in {client.known, NoAnswers} :
        turn' = [turn EXCEPT ![t] = Request(sent, client.asked, text)]
  BY DEF Send
<1>3. /\ client \in Client /\ Unblank(client.known)
      /\ Traces(client.known) \subseteq admitted
      /\ client.told => Missing(client.known) = {}
  BY DEF ChatInv, ChatTypeOK, Complete, TurnsTraced, OnlyAdmitted
<1>4. /\ client' \in Client /\ client'.known = client.known
      /\ client'.told = client.told /\ client'.waiting = TRUE
  BY <1>1, <1>3 DEF Client
<1>. DEFINE r == Request(sent, client.asked, text)
<1>5. /\ sent \in Answers /\ Unblank(sent) /\ Traces(sent) \subseteq admitted
      /\ client.asked \in Slot \union {NoSlot}
  BY <1>2, <1>3, NoAnswersFacts DEF Client
<1>6. /\ r \in TurnState /\ Sound(r) /\ Traced(r, admitted)
      /\ r.sent = sent /\ r.live = TRUE
  BY <1>5, SentSound
<1>7. turn' = [turn EXCEPT ![t] = r]
  BY <1>2
<1>. HIDE DEF r
<1>8. admitted \subseteq admitted' /\ Traced(r, admitted')
  BY <1>1, <1>6
<1>9. /\ turn' \in [Turn -> TurnState]
      /\ TurnsSound'
      /\ \A u \in Turn : Traced(turn'[u], admitted')
  BY <1>6, <1>7, <1>8, OneTurnChanges
<1>10. OneAwaited'
  <2>1. turn \in [Turn -> TurnState]
    BY DEF ChatInv, ChatTypeOK
  <2>2. \A u \in Turn : ~turn[u].live
    BY <1>1 DEF ChatInv, OneAwaited, Awaited
  <2>3. \A u \in Turn : turn'[u] = IF u = t THEN r ELSE turn[u]
    BY <1>7, <2>1
  <2>4. \A u \in Turn : turn'[u].live => u = t
    BY <2>2, <2>3
  <2>5. \A u \in Turn : Awaited(turn[u])'
    BY <1>2, <1>4, <1>6, <2>3, <2>4 DEF Awaited
  <2>. QED BY <2>4, <2>5 DEF OneAwaited
<1>11. ChatTypeOK'
  BY <1>1, <1>4, <1>9 DEF ChatInv, ChatTypeOK, storeVars
<1>12. Unblank(client.known)' /\ Complete'
  BY <1>1, <1>3, <1>4 DEF ChatInv, Complete, Unblank, storeVars
<1>13. OnlyAdmitted'
  BY <1>1, <1>4, <1>9
     DEF ChatInv, TurnsTraced, OnlyAdmitted, Traced, storeVars
<1>. QED BY <1>9, <1>10, <1>11, <1>12, <1>13 DEF ChatInv, TurnsTraced

LEMMA ResendKeeps ==
  ASSUME ChatInv, NEW t \in Turn, NEW u \in Turn, Resend(t, u)
  PROVE  ChatInv'
<1>. DEFINE q == turn[t]
            unheard == [q EXCEPT !.live = FALSE]
            r == Request(q.sent, q.slot, q.text)
<1>1. /\ q.live /\ turn[u].pc = "idle" /\ resent' = resent + 1
      /\ turn' = [turn EXCEPT ![t] = unheard, ![u] = r]
      /\ UNCHANGED <<client, storeVars, taken, admitted>>
  BY DEF Resend
<1>2. /\ q \in TurnState /\ Sound(q) /\ Traced(q, admitted)
      /\ turn \in [Turn -> TurnState]
  BY DEF ChatInv, ChatTypeOK, TurnsSound, TurnsTraced
<1>3. t # u
  BY <1>1, <1>2 DEF Sound
<1>4. /\ unheard \in TurnState /\ unheard.live = FALSE
      /\ unheard.pc = q.pc /\ unheard.sent = q.sent
      /\ unheard.known = q.known /\ unheard.final = q.final
      /\ unheard.store = q.store /\ unheard.text = q.text
      /\ unheard.done = q.done
  BY <1>2 DEF TurnState
<1>5. Sound(unheard) /\ Traced(unheard, admitted)
  BY <1>2, <1>4 DEF Sound, Traced
<1>6. /\ q.sent \in Answers /\ q.slot \in Slot \union {NoSlot}
      /\ q.text \in Said /\ Unblank(q.sent)
      /\ Traces(q.sent) \subseteq admitted
  BY <1>2 DEF TurnState, Sound, Traced
<1>7. /\ r \in TurnState /\ Sound(r) /\ Traced(r, admitted)
      /\ r.sent = q.sent /\ r.live = TRUE
  <2>. HIDE DEF q
  <2>. QED BY <1>6, SentSound
<1>8. \A v \in Turn : turn'[v] = IF v = u THEN r
                                 ELSE IF v = t THEN unheard ELSE turn[v]
  <2>. HIDE DEF r, unheard
  <2>. QED BY <1>1, <1>2, <1>3
<1>9. turn' \in [Turn -> TurnState]
  <2>. HIDE DEF r, unheard
  <2>. QED BY <1>1, <1>2, <1>4, <1>7
<1>. HIDE DEF r, unheard
<1>10. \A v \in Turn : Sound(turn'[v]) /\ Traced(turn'[v], admitted)
  BY <1>5, <1>7, <1>8 DEF ChatInv, TurnsSound, TurnsTraced
<1>11. OneAwaited'
  <2>1. \A v \in Turn : turn[v].live => v = t
    BY <1>1 DEF ChatInv, OneAwaited
  <2>2. \A v \in Turn : turn'[v].live => v = u
    BY <1>4, <1>8, <2>1
  <2>3. client.waiting /\ q.sent \in {client.known, NoAnswers}
    BY <1>1 DEF ChatInv, OneAwaited, Awaited
  <2>4. turn'[u] = r
    BY <1>8
  <2>5. \A v \in Turn : Awaited(turn[v])'
    BY <1>1, <1>7, <2>2, <2>3, <2>4 DEF Awaited
  <2>. QED BY <2>2, <2>5 DEF OneAwaited
<1>12. ChatTypeOK'
  BY <1>1, <1>9 DEF ChatInv, ChatTypeOK, storeVars
<1>13. Unblank(client.known)' /\ Complete'
  BY <1>1 DEF ChatInv, Complete, Unblank, storeVars
<1>14. OnlyAdmitted'
  BY <1>1, <1>10 DEF ChatInv, TurnsTraced, OnlyAdmitted, Traced, storeVars
<1>. QED BY <1>1, <1>10, <1>11, <1>12, <1>13, <1>14
         DEF ChatInv, TurnsSound, TurnsTraced

-----------------------------------------------------------------------------
(* Theorems.                                                               *)

LEMMA InitHolds == Init => ChatInv
<1>. SUFFICES ASSUME Init PROVE ChatInv
  OBVIOUS
<1>1. /\ client.known = NoAnswers /\ client.told = FALSE
      /\ client.waiting = FALSE
      /\ client.asked \in {NoSlot} \union Asks(NoAnswers, Slot)
      /\ client = [known |-> NoAnswers, asked |-> client.asked,
                   waiting |-> FALSE, told |-> FALSE]
  BY DEF Init
<1>2. client \in Client
  BY <1>1, AsksSlots, NoAnswersFacts DEF Client
<1>3. /\ turn = [t \in Turn |-> Idle] /\ messages = {}
      /\ contract = NoContract
      /\ transcript = [answers |-> NoAnswers, said |-> {}]
      /\ taken = 0 /\ resent = 0 /\ admitted = {}
  BY DEF Init
<1>4. contract \in Contract /\ contract.ready = "none"
      /\ contract.slots = NoAnswers
  BY <1>3, NoAnswersFacts DEF NoContract, Contract
<1>5. ChatTypeOK
  BY <1>2, <1>3, <1>4, IdleFacts, NoAnswersFacts DEF ChatTypeOK
<1>6. Unblank(client.known) /\ Complete
  BY <1>1, <1>4, NoAnswersFacts DEF Complete
<1>7. \A t \in Turn : turn[t] = Idle
  BY <1>3
<1>8. TurnsSound /\ OneAwaited
  BY <1>7, IdleFacts DEF TurnsSound, OneAwaited, Awaited
<1>9. TurnsTraced
  <2>1. OnlyAdmitted
    BY <1>1, <1>3, <1>4, <1>7, IdleFacts, NoAnswersFacts
       DEF OnlyAdmitted, Traced
  <2>. QED BY <1>7, <2>1, IdleFacts DEF TurnsTraced
<1>. QED BY <1>5, <1>6, <1>8, <1>9 DEF ChatInv

LEMMA NextKeeps == ChatInv /\ [Next]_vars => ChatInv'
<1>. SUFFICES ASSUME ChatInv, [Next]_vars PROVE ChatInv'
  OBVIOUS
<1>1. CASE Next
  <2>1. PICK t \in Turn :
          \/ Send(t)
          \/ \E u \in Turn : Resend(t, u)
          \/ Accept(t) \/ ForceAccept(t) \/ Retry(t) \/ Reject(t)
          \/ Persist(t) \/ SaveContract(t) \/ SaveTranscript(t)
          \/ Answer(t) \/ Dies(t)
    BY <1>1 DEF Next
  <2>2. CASE Send(t) \/ \E u \in Turn : Resend(t, u)
    BY <2>2, SendKeeps, ResendKeeps
  <2>3. CASE Accept(t) \/ ForceAccept(t) \/ Retry(t) \/ Reject(t)
    BY <2>3, AcceptKeeps, ForceAcceptKeeps, RetryKeeps, RejectKeeps
  <2>4. CASE Persist(t) \/ SaveContract(t) \/ SaveTranscript(t)
    BY <2>4, PersistKeeps, SaveContractKeeps, SaveTranscriptKeeps
  <2>5. CASE Answer(t) \/ Dies(t)
    BY <2>5, AnswerKeeps, DiesKeeps
  <2>. QED BY <2>1, <2>2, <2>3, <2>4, <2>5
<1>2. CASE UNCHANGED vars
  BY <1>2 DEF vars, storeVars, ChatInv, ChatTypeOK, Complete, TurnsSound,
              TurnsTraced, OnlyAdmitted, OneAwaited, Awaited, Unblank
<1>. QED BY <1>1, <1>2

(* The invariant of a session: a turn is done only with every slot         *)
(* answered, what it holds was admitted, and who is waited for was sent    *)
(* what the client has.                                                    *)
THEOREM ChatInvariant == Spec => []ChatInv
BY InitHolds, NextKeeps, PTL DEF Spec

(* The types of a session.                                                 *)
THEOREM ChatTypeCorrect == Spec => []ChatTypeOK
<1>1. ChatInv => ChatTypeOK
  BY DEF ChatInv
<1>. QED BY <1>1, ChatInvariant, PTL

(* A stored contract answers every slot but a name made of quotation marks,*)
(* and a client is sent on only with an answer to every slot.              *)
THEOREM ContractsComplete == Spec => []Complete
<1>1. ChatInv => Complete
  BY DEF ChatInv
<1>. QED BY <1>1, ChatInvariant, PTL

(* What every turn rejected is in no answer, contract, message or          *)
(* transcript.                                                             *)
THEOREM RejectedLeavesNoTrace == Spec => []OnlyAdmitted
<1>1. ChatInv => OnlyAdmitted
  BY DEF ChatInv, TurnsTraced
<1>. QED BY <1>1, ChatInvariant, PTL

(* No answer takes from the client one that it sent.                       *)
THEOREM AnswersKept == Spec => NeverForgets
<1>. DEFINE Kept ==
       \A t \in Turn :
         Answer(t) /\ turn[t].live /\ turn[t].sent # NoAnswers
         => \A k \in Key : client.known[k] # Nothing
                           => client'.known[k] # Nothing
<1>1. ChatInv => Kept
  <2>. SUFFICES ASSUME ChatInv, NEW t \in Turn, Answer(t), turn[t].live,
                       turn[t].sent # NoAnswers
                PROVE  Holds(client'.known, client.known)
    BY DEF Holds
  <2>1. turn[t].sent = client.known
    BY DEF ChatInv, OneAwaited, Awaited
  <2>2. turn[t].pc = "answering" /\ client'.known = turn[t].known
    BY DEF Answer
  <2>3. Holds(turn[t].known, turn[t].sent)
    BY <2>2 DEF ChatInv, TurnsSound, Sound
  <2>. QED BY <2>1, <2>2, <2>3
<1>2. ChatInv => [Kept]_vars
  BY <1>1
<1>. QED BY <1>2, ChatInvariant, PTL DEF NeverForgets
=============================================================================
