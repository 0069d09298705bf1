--------------------------- MODULE ChatAgentProofs ---------------------------
(***************************************************************************)
(* Proofs about ChatAgent: what is stored, shown, sent and asked, and when *)
(* a session starts with questions, for any number of runs and turns.  One *)
(* invariant of the runs, on which rests one of what they store, and one   *)
(* of the turns; what a sequence of slots holds comes last, with the       *)
(* questions and the types.                                                *)
(***************************************************************************)
EXTENDS ChatAgent, SequenceTheorems, FiniteSetTheorems,
        WellFoundedInduction, TLAPS

(* A slot state that is stored is not taken for nothing stored.            *)
NoneApart == \A k, m : [known |-> k, missing |-> m] # None

-----------------------------------------------------------------------------
(* The invariants.                                                         *)

RunFields == {"pc", "start", "known", "missing", "doc", "parse", "review",
              "asked"}

(* A record of these fields, whatever they hold.                           *)
IsRun(q) == q = [f \in RunFields |-> q[f]]

(* A session start holds the verdicts on the document it read; a run about *)
(* to store a contract for good has one that is filled.                    *)
RunSound(q) ==
    /\ IsRun(q)
    /\ q.pc = "final" => Filled(q.known)
    /\ q.start => /\ q.pc = "done"
                  /\ q.doc \in Doc
                  /\ q.parse = Parse(q.doc)
                  /\ \E counted \in BOOLEAN : q.review = Review(q.doc, counted)

RunsSound ==
    /\ document \in Doc \union {None}
    /\ run = [r \in Run |-> run[r]]
    /\ \A r \in Run : RunSound(run[r])

(* What a run has stored on the way is there, but for what the wiki        *)
(* deletes of it.                                                          *)
Behind(q) ==
    /\ q.pc \in {"checkpoint", "enriched", "draft", "final"} => listed
    /\ q.pc \in {"enriched", "draft", "final"} => checkpoint # None
    /\ q.pc = "final" => draft # None

StoresSound ==
    /\ \A r \in Run : Behind(run[r])
    /\ Resumable

TurnFields == {"pc", "text", "known", "missing", "told", "store", "history",
               "sent", "model", "reply", "status"}

IsTurn(q) == q = [f \in TurnFields |-> q[f]]

(* What CallsSound asks of the conversation of a turn.                     *)
SentSound(sent, text) ==
    /\ sent[1].role = "user"
    /\ Valid(sent)
    /\ sent[Len(sent)] = UserSays(text)
    /\ ~Intervenes(text)

(* Nothing is sent that the guardrail has not let through, and nothing the *)
(* guardrail objects to is an answer; an order to the model may be one.    *)
TurnSound(q) ==
    /\ IsTurn(q)
    /\ q.text \in UserText \union {"blank"}
    /\ q.history \in Seq(Message)
    /\ q.store => q.pc # "handle"
    /\ q.pc \in {"user", "assistant"} => q.store
    /\ q.reply # "bad"
    /\ q.status = "succeeded" => q.reply \in {"good", "orders"}
    /\ q.pc \in {"claude", "output"}
       => ~Intervenes(q.text) /\ q.text # "blank"
    /\ q.pc \in {"handle", "input", "claude"} => q.sent = <<>>
    /\ q.pc = "output" => q.model \in ModelText \union {"none"}
    /\ q.sent # <<>> => SentSound(q.sent, q.text)

(* What may be among the messages.                                         *)
Clean == [role: {"user"}, text: UserText]
         \union [role: {"assistant"}, text: {"good", "orders", "fixed"}]

TurnsSound ==
    /\ messages \in Seq(Clean)
    /\ turn = [t \in Turn |-> turn[t]]
    /\ \A t \in Turn : TurnSound(turn[t])

-----------------------------------------------------------------------------
(* Runs.                                                                   *)

(* A step of one run is seen in that run alone.                            *)
LEMMA RunBecomes ==
  ASSUME RunsSound, NEW r \in Run, NEW q, Become(r, q)
  PROVE  /\ run' = [x \in Run |-> run'[x]]
         /\ run'[r] = q
         /\ \A x \in Run \ {r} : run'[x] = run[x]
BY DEF RunsSound, Become

LEMMA IdleRunSound ==
  /\ IsRun(IdleRun)
  /\ IdleRun.pc = "idle"
  /\ IdleRun.start = FALSE
BY DEF IdleRun, IsRun, RunFields

(* A run that goes on is as it was but for its pc.                         *)
LEMMA ProceedSound ==
  ASSUME NEW q, NEW pc, RunSound(q), q.pc # "done",
         pc = "final" => Filled(q.known)
  PROVE  LET e == [q EXCEPT !.pc = pc]
         IN  RunSound(e) /\ e.pc = pc /\ e.known = q.known
<1>. DEFINE e == [q EXCEPT !.pc = pc]
<1>1. /\ IsRun(e)
      /\ e.pc = pc
      /\ e.known = q.known
      /\ e.start = q.start
  BY DEF RunSound, IsRun, RunFields
<1>. HIDE DEF e
<1>2. ~q.start
  BY DEF RunSound
<1>3. RunSound(e)
  BY <1>1, <1>2 DEF RunSound
<1>. QED BY <1>1, <1>3 DEF e

LEMMA RunDoneSound ==
  ASSUME NEW q
  PROVE  RunSound(RunDone(q)) /\ RunDone(q).pc = "done"
<1>1. IsRun(RunDone(q)) /\ RunDone(q).pc = "done" /\ ~RunDone(q).start
  BY IdleRunSound DEF RunDone, IsRun, RunFields
<1>. QED BY <1>1 DEF RunSound

LEMMA SampleType == Sample \in Doc
BY DEF Sample, Doc

LEMMA RunsInit ==
  Init => RunsSound
<1>. SUFFICES ASSUME Init PROVE RunsSound
  OBVIOUS
<1>1. document \in Doc \union {None}
  BY ChatStoreAssumption DEF Init, StoreInit
<1>2. run = [r \in Run |-> run[r]] /\ \A r \in Run : run[r] = IdleRun
  BY DEF Init, GraphInit
<1>. QED BY <1>1, <1>2, IdleRunSound DEF RunsSound, RunSound

(* Every step keeps the runs sound.                                        *)
LEMMA RunsStep ==
  ASSUME RunsSound, [Next]_vars
  PROVE  RunsSound'
<1>1. ASSUME NEW r \in Run, NEW q, Become(r, q), RunSound(q),
             document' \in Doc \union {None}
      PROVE  RunsSound'
  BY <1>1, RunBecomes DEF RunsSound
<1>2. ASSUME NEW r \in Run, NEW pc, Proceed(r, pc),
             run[r].pc # "done", pc = "final" => Filled(run[r].known),
             document' \in Doc \union {None}
      PROVE  RunsSound'
  <2>. DEFINE e == [run[r] EXCEPT !.pc = pc]
  <2>1. RunSound(e)
    BY <1>2, ProceedSound DEF RunsSound
  <2>2. Become(r, e)
    BY <1>2 DEF Proceed
  <2>. HIDE DEF e
  <2>. QED BY <1>1, <1>2, <2>1, <2>2
<1>3. document \in Doc \union {None} /\ Sample \in Doc
  BY SampleType DEF RunsSound
<1>4. ASSUME NEW r \in Run, Begin(r) PROVE RunsSound'
  <2>1. PICK pc \in {"seed", "load"} :
          Become(r, [IdleRun EXCEPT !.pc = pc])
    BY <1>4 DEF Begin
  <2>. DEFINE e == [IdleRun EXCEPT !.pc = pc]
  <2>2. RunSound(e)
    BY <2>1, IdleRunSound DEF RunSound, IsRun, RunFields
  <2>3. Become(r, e) /\ document' = document
    BY <1>4, <2>1 DEF Begin, storeVars
  <2>. HIDE DEF e
  <2>. QED BY <1>1, <1>3, <2>2, <2>3
<1>5. ASSUME NEW r \in Run, Seed(r) PROVE RunsSound'
  BY <1>2, <1>3, <1>5 DEF Seed
<1>6. ASSUME NEW r \in Run, StartSession(r) PROVE RunsSound'
  <2>. DEFINE Started(req, counted) ==
                [IdleRun EXCEPT
                   !.pc = "done", !.start = TRUE, !.known = req.known,
                   !.missing = req.missing, !.doc = document,
                   !.parse = Parse(document),
                   !.review = Review(document, counted),
                   !.asked = Candidates(req.known, req.missing)]
  <2>1. PICK req \in Requests, counted \in BOOLEAN :
          Become(r, Started(req, counted))
    BY <1>6 DEF StartSession
  <2>2. document \in Doc /\ document' = document
    BY <1>3, <1>6 DEF StartSession, storeVars
  <2>3. /\ IsRun(Started(req, counted))
        /\ Started(req, counted).pc = "done"
        /\ Started(req, counted).doc = document
        /\ Started(req, counted).parse = Parse(document)
        /\ Started(req, counted).review = Review(document, counted)
    BY IdleRunSound DEF IsRun, RunFields
  <2>. HIDE DEF Started
  <2>4. RunSound(Started(req, counted))
    BY <2>2, <2>3 DEF RunSound
  <2>. QED BY <1>1, <2>1, <2>2, <2>4
<1>7. ASSUME NEW r \in Run, Load(r) PROVE RunsSound'
  <2>. DEFINE Loaded(e) == [IdleRun EXCEPT !.pc = "metadata",
                                           !.known = e.known,
                                           !.missing = e.missing,
                                           !.asked = e.asked]
  <2>1. PICK req \in Requests : Become(r, Loaded(Exemplified(req)))
    BY <1>7 DEF Load
  <2>2. ASSUME NEW e PROVE RunSound(Loaded(e))
    <3>1. IsRun(Loaded(e)) /\ Loaded(e).pc = "metadata" /\ ~Loaded(e).start
      BY IdleRunSound DEF IsRun, RunFields
    <3>. HIDE DEF Loaded
    <3>. QED BY <3>1 DEF RunSound
  <2>3. document' = document
    BY <1>7 DEF Load, storeVars
  <2>. HIDE DEF Loaded
  <2>. QED BY <1>1, <1>3, <2>1, <2>2, <2>3
<1>8. ASSUME NEW r \in Run,
             SaveMetadata(r) \/ SaveCheckpoint(r) \/ PutEnriched(r)
      PROVE  RunsSound'
  BY <1>2, <1>3, <1>8 DEF SaveMetadata, SaveCheckpoint, PutEnriched
<1>9. ASSUME NEW r \in Run, PutDraft(r) PROVE RunsSound'
  <2>1. document' = document /\ run[r].pc = "draft"
    BY <1>9 DEF PutDraft
  <2>2. CASE FinalReady(run[r].known) /\ Proceed(r, "final")
    BY <1>2, <1>3, <2>1, <2>2 DEF FinalReady
  <2>3. CASE Become(r, RunDone(run[r]))
    BY <1>1, <1>3, <2>1, <2>3, RunDoneSound
  <2>. QED BY <1>9, <2>2, <2>3 DEF PutDraft
<1>10. ASSUME NEW r \in Run, PutFinal(r) PROVE RunsSound'
  BY <1>1, <1>3, <1>10, RunDoneSound DEF PutFinal
<1>11. ASSUME NEW r \in Run, Raises(r) PROVE RunsSound'
  <2>1. RunSound(IdleRun)
    BY IdleRunSound DEF RunSound
  <2>. QED BY <1>1, <1>3, <1>11, <2>1 DEF Raises, storeVars
<1>12. CASE Publish
  <2>1. document' \in Doc
    BY <1>12, ChatStoreAssumption DEF Publish
  <2>. QED BY <1>12, <2>1 DEF Publish, RunsSound
<1>13. ASSUME UNCHANGED <<run, document>> PROVE RunsSound'
  BY <1>13 DEF RunsSound
<1>13a. DeletePending => UNCHANGED <<run, document>>
  BY DEF DeletePending
<1>14. ASSUME NEW t \in Turn, Restore(t) \/ TurnStep(t)
       PROVE  document' = document
  BY <1>14 DEF Restore, TurnStep, Handle, GuardInput, Invoke, GuardOutput,
               StoreUser, StoreAssistant, SaveContract, TurnRaises, storeVars
<1>15. CASE GraphNext
  BY <1>4, <1>5, <1>6, <1>7, <1>8, <1>9, <1>10, <1>11, <1>12, <1>13, <1>13a,
     <1>15 DEF GraphNext, GraphStep
<1>16. CASE ReplyNext /\ UNCHANGED run
  BY <1>13, <1>14, <1>16 DEF ReplyNext
<1>17. CASE UNCHANGED vars
  BY <1>13, <1>17 DEF vars, storeVars
<1>. QED BY <1>15, <1>16, <1>17 DEF Next

THEOREM RunsAreSound ==
  Spec => []RunsSound
BY RunsInit, RunsStep, PTL DEF Spec

(* A session goes straight to the questions over a sound document alone:   *)
(* what Routing decides by is the parser's and the review's verdicts.      *)
THEOREM StartsAreSound ==
  Spec => []SoundStart
<1>1. RunsSound => SoundStart
  <2>. SUFFICES ASSUME RunsSound, NEW r \in Run,
                       run[r].pc = "done", run[r].start,
                       Routing(run[r]) = "proactive_questioning"
                PROVE  LET d == run[r].doc
                       IN  /\ d.front
                           /\ d.domain = "own" /\ d.category = "own"
                           /\ d.sections /\ d.sources
                           /\ d.confidence # "low"
                           /\ ~d.orders /\ ~d.boasts
    BY DEF SoundStart
  <2>. DEFINE d == run[r].doc
  <2>1. d \in Doc /\ run[r].parse = Parse(d)
    BY DEF RunsSound, RunSound
  <2>2. PICK counted \in BOOLEAN : run[r].review = Review(d, counted)
    BY DEF RunsSound, RunSound
  <2>3. Parse(d) = "passed" /\ Review(d, counted) = "passed"
    BY <2>1, <2>2 DEF Routing
  <2>. HIDE DEF d
  <2>4. /\ d.front /\ d.sections /\ d.sources
        /\ d.domain = "own" /\ d.category = "own"
    BY <2>1, <2>3 DEF Parse, Mismatch, Doc
  <2>5. ~d.orders /\ ~d.boasts /\ d.confidence # "low"
    BY <2>1, <2>3 DEF Review, Confident, Doc
  <2>. QED BY <2>4, <2>5 DEF d
<1>. QED BY <1>1, RunsAreSound, PTL

-----------------------------------------------------------------------------
(* What runs and turns store.                                              *)

(* A step of one run is seen in that run alone, and what a run goes on     *)
(* behind stays stored.                                                    *)
LEMMA BehindStep ==
  ASSUME RunsSound, StoresSound, NEW r \in Run, NEW q, Become(r, q),
         listed => listed',
         checkpoint # None => checkpoint' # None,
         draft # None => draft' # None,
         Behind(q)'
  PROVE  \A x \in Run : Behind(run[x])'
<1>1. run'[r] = q /\ \A x \in Run \ {r} : run'[x] = run[x]
  BY RunBecomes
<1>2. ASSUME NEW x \in Run \ {r} PROVE Behind(run[x])'
  BY <1>1, <1>2 DEF Behind, StoresSound
<1>3. Behind(run[r])'
  BY <1>1 DEF Behind
<1>. QED BY <1>2, <1>3

LEMMA StoredStep ==
  ASSUME RunsSound, StoredCleared, [Next]_vars
  PROVE  StoredCleared'
<1>1. ASSUME UNCHANGED bucketVars PROVE StoredCleared'
  BY <1>1 DEF StoredCleared, bucketVars
<1>2. ASSUME NEW r \in Run, PutEnriched(r) PROVE StoredCleared'
  BY <1>2 DEF PutEnriched, Storable, StateOf, StoredCleared
<1>3. ASSUME NEW r \in Run, PutDraft(r) PROVE StoredCleared'
  BY <1>3 DEF PutDraft, Storable, StateOf, StoredCleared
<1>4. ASSUME NEW r \in Run, PutFinal(r) PROVE StoredCleared'
  <2>1. Filled(run[r].known)
    BY <1>4 DEF RunsSound, RunSound, PutFinal
  <2>. QED BY <1>4, <2>1 DEF PutFinal, Storable, StoredCleared
<1>5. ASSUME NEW t \in Turn, SaveContract(t) PROVE StoredCleared'
  <2>1. CASE final' = [known |-> turn[t].known, ready |-> Gates(turn[t]),
                       by |-> "turn"]
    BY <1>5, <2>1 DEF SaveContract, Gates, StoredCleared
  <2>. QED BY <1>5, <2>1 DEF SaveContract, StoredCleared
<1>6. CASE GraphNext
  <2>1. ASSUME NEW r \in Run,
               \/ Begin(r) \/ Seed(r) \/ StartSession(r) \/ Load(r)
               \/ SaveMetadata(r) \/ SaveCheckpoint(r) \/ Raises(r)
        PROVE  UNCHANGED bucketVars
    BY <2>1 DEF Begin, Seed, StartSession, Load, SaveMetadata,
                SaveCheckpoint, Raises, storeVars
  <2>2. Publish => UNCHANGED bucketVars
    BY DEF Publish
  <2>3. DeletePending => StoredCleared'
    BY DEF DeletePending, StoredCleared
  <2>. QED BY <1>1, <1>2, <1>3, <1>4, <1>6, <2>1, <2>2, <2>3
           DEF GraphNext, GraphStep
<1>7. CASE ReplyNext
  <2>1. ASSUME NEW t \in Turn,
               \/ Restore(t) \/ Handle(t) \/ GuardInput(t) \/ Invoke(t)
               \/ GuardOutput(t) \/ StoreUser(t) \/ StoreAssistant(t)
               \/ TurnRaises(t)
        PROVE  UNCHANGED bucketVars
    BY <2>1 DEF Restore, Handle, GuardInput, Invoke, GuardOutput, StoreUser,
                StoreAssistant, TurnRaises, storeVars
  <2>. QED BY <1>1, <1>5, <1>7, <2>1 DEF ReplyNext, TurnStep
<1>. QED BY <1>1, <1>6, <1>7 DEF Next, vars, storeVars

(* Nothing that the guardrail objects to is stored by a graph run, and no  *)
(* contract that lacks a required answer is final, or ready: whatever runs *)
(* and turns overlap.                                                      *)
THEOREM StoredIsCleared ==
  Spec => []StoredCleared
<1>1. Init => StoredCleared
  BY DEF Init, StoreInit, StoredCleared
<1>. QED BY <1>1, RunsAreSound, StoredStep, PTL DEF Spec

(* What is stored stays stored, and a run goes on behind it.               *)
LEMMA StoresStep ==
  ASSUME NoneApart, RunsSound, StoresSound, [Next]_vars
  PROVE  StoresSound'
<1>1. ASSUME NEW r \in Run, NEW q, Become(r, q), Behind(q),
             UNCHANGED <<tableVars, bucketVars>>
      PROVE  StoresSound'
  <2>1. Behind(q)'
    BY <1>1 DEF Behind, tableVars, bucketVars
  <2>2. \A x \in Run : Behind(run[x])'
    BY <1>1, <2>1, BehindStep DEF tableVars, bucketVars
  <2>. QED BY <1>1, <2>2 DEF StoresSound, Resumable, tableVars, bucketVars
<1>2. ASSUME NEW r \in Run, NEW pc
      PROVE  [run[r] EXCEPT !.pc = pc].pc = pc
  BY DEF RunsSound, RunSound, IsRun, RunFields
<1>3. ASSUME NEW q, q.pc \in {"idle", "seed", "load", "metadata", "done"}
      PROVE  Behind(q) /\ Behind(q)'
  BY <1>3 DEF Behind
<1>4. ASSUME NEW r \in Run, Begin(r) PROVE StoresSound'
  <2>1. PICK pc \in {"seed", "load"} :
          Become(r, [IdleRun EXCEPT !.pc = pc])
    BY <1>4 DEF Begin
  <2>. DEFINE e == [IdleRun EXCEPT !.pc = pc]
  <2>2. e.pc \in {"seed", "load"} /\ Become(r, e)
    BY <2>1, IdleRunSound DEF IsRun, RunFields
  <2>. HIDE DEF e
  <2>. QED BY <1>1, <1>3, <1>4, <2>2 DEF Begin, storeVars
<1>5. ASSUME NEW r \in Run, Seed(r) PROVE StoresSound'
  <2>1. PICK q : q.pc = "load" /\ Become(r, q)
    BY <1>2, <1>5 DEF Seed, Proceed
  <2>. QED BY <1>1, <1>3, <1>5, <2>1 DEF Seed
<1>6. ASSUME NEW r \in Run, StartSession(r) PROVE StoresSound'
  <2>. DEFINE Started(req, counted) ==
                [IdleRun EXCEPT
                   !.pc = "done", !.start = TRUE, !.known = req.known,
                   !.missing = req.missing, !.doc = document,
                   !.parse = Parse(document),
                   !.review = Review(document, counted),
                   !.asked = Candidates(req.known, req.missing)]
  <2>1. PICK req \in Requests, counted \in BOOLEAN :
          Become(r, Started(req, counted))
    BY <1>6 DEF StartSession
  <2>2. Started(req, counted).pc = "done"
    BY IdleRunSound DEF IsRun, RunFields
  <2>. HIDE DEF Started
  <2>. QED BY <1>1, <1>3, <1>6, <2>1, <2>2 DEF StartSession, storeVars
<1>7. ASSUME NEW r \in Run, Load(r) PROVE StoresSound'
  <2>. DEFINE Loaded(e) == [IdleRun EXCEPT !.pc = "metadata",
                                           !.known = e.known,
                                           !.missing = e.missing,
                                           !.asked = e.asked]
  <2>1. PICK req \in Requests : Become(r, Loaded(Exemplified(req)))
    BY <1>7 DEF Load
  <2>2. ASSUME NEW e PROVE Loaded(e).pc = "metadata"
    BY IdleRunSound DEF IsRun, RunFields
  <2>. HIDE DEF Loaded
  <2>. QED BY <1>1, <1>3, <1>7, <2>1, <2>2 DEF Load, storeVars
<1>8. ASSUME NEW r \in Run, Raises(r) PROVE StoresSound'
  BY <1>1, <1>3, <1>8, IdleRunSound DEF Raises, storeVars
<1>9. ASSUME NEW r \in Run, SaveMetadata(r) PROVE StoresSound'
  <2>1. PICK q : q.pc = "checkpoint" /\ Become(r, q) /\ listed'
    BY <1>2, <1>9 DEF SaveMetadata, Proceed
  <2>2. Behind(q)'
    BY <2>1 DEF Behind
  <2>3. UNCHANGED <<checkpoint, bucketVars>>
    BY <1>9 DEF SaveMetadata
  <2>4. \A x \in Run : Behind(run[x])'
    BY <2>1, <2>2, <2>3, BehindStep DEF bucketVars
  <2>. QED BY <2>1, <2>3, <2>4 DEF StoresSound, Resumable, bucketVars
<1>10. ASSUME NEW q PROVE StateOf(q) # None
  BY DEF StateOf, NoneApart
<1>11. ASSUME NEW r \in Run, SaveCheckpoint(r) PROVE StoresSound'
  <2>1. PICK q : q.pc = "enriched" /\ Become(r, q) /\ checkpoint' # None
    BY <1>2, <1>10, <1>11 DEF SaveCheckpoint, Proceed
  <2>2. listed
    BY <1>11 DEF SaveCheckpoint, StoresSound, Behind
  <2>3. UNCHANGED <<listed, bucketVars>>
    BY <1>11 DEF SaveCheckpoint
  <2>4. Behind(q)'
    BY <2>1, <2>2, <2>3 DEF Behind
  <2>5. \A x \in Run : Behind(run[x])'
    BY <2>1, <2>3, <2>4, BehindStep DEF bucketVars
  <2>. QED BY <2>1, <2>2, <2>3, <2>5 DEF StoresSound, Resumable, bucketVars
<1>12. ASSUME NEW r \in Run, PutEnriched(r) PROVE StoresSound'
  <2>1. PICK q : q.pc = "draft" /\ Become(r, q) /\ enriched' # None
    BY <1>2, <1>10, <1>12 DEF PutEnriched, Proceed
  <2>2. listed /\ checkpoint # None
    BY <1>12 DEF PutEnriched, StoresSound, Behind
  <2>3. UNCHANGED <<tableVars, draft, final>>
    BY <1>12 DEF PutEnriched
  <2>4. Behind(q)'
    BY <2>1, <2>2, <2>3 DEF Behind, tableVars
  <2>5. \A x \in Run : Behind(run[x])'
    BY <2>1, <2>3, <2>4, BehindStep DEF tableVars
  <2>. QED BY <2>1, <2>2, <2>3, <2>5 DEF StoresSound, Resumable, tableVars
<1>13. ASSUME NEW r \in Run, PutDraft(r) PROVE StoresSound'
  <2>1. /\ draft' # None /\ listed /\ checkpoint # None
        /\ UNCHANGED <<tableVars, enriched, final>>
    BY <1>10, <1>13 DEF PutDraft, StoresSound, Behind
  <2>2. PICK q : Become(r, q) /\ q.pc \in {"final", "done"}
    <3>1. CASE Proceed(r, "final")
      BY <1>2, <3>1 DEF Proceed
    <3>2. CASE Become(r, RunDone(run[r]))
      BY <3>2, RunDoneSound
    <3>. QED BY <1>13, <3>1, <3>2 DEF PutDraft
  <2>3. Behind(q)'
    BY <2>1, <2>2 DEF Behind, tableVars
  <2>4. \A x \in Run : Behind(run[x])'
    BY <2>1, <2>2, <2>3, BehindStep DEF tableVars
  <2>. QED BY <2>1, <2>4 DEF StoresSound, Resumable, tableVars
<1>14. ASSUME NEW r \in Run, PutFinal(r) PROVE StoresSound'
  <2>1. draft # None /\ UNCHANGED <<tableVars, enriched, draft>>
    BY <1>14 DEF PutFinal, StoresSound, Behind
  <2>2. PICK q : q.pc = "done" /\ Become(r, q)
    BY <1>14, RunDoneSound DEF PutFinal
  <2>3. \A x \in Run : Behind(run[x])'
    BY <1>3, <2>1, <2>2, BehindStep DEF tableVars
  <2>. QED BY <2>1, <2>3 DEF StoresSound, Resumable, tableVars
<1>15. ASSUME UNCHANGED <<run, listed, checkpoint, draft>>,
              enriched' \in {enriched, None},
              \/ UNCHANGED final
              \/ \E k, g : final' = [known |-> k, ready |-> g, by |-> "turn"]
       PROVE  StoresSound'
  <2>1. \A x \in Run : Behind(run[x])'
    BY <1>15 DEF StoresSound, Behind
  <2>2. final' # None /\ final'.by = "graph" => UNCHANGED final
    BY <1>15
  <2>. QED BY <1>15, <2>1, <2>2 DEF StoresSound, Resumable
<1>16. CASE GraphNext
  <2>1. Publish => StoresSound'
    BY <1>15 DEF Publish, tableVars, bucketVars
  <2>2. DeletePending => StoresSound'
    BY <1>15 DEF DeletePending, tableVars
  <2>. QED BY <1>4, <1>5, <1>6, <1>7, <1>8, <1>9, <1>11, <1>12, <1>13, <1>14,
              <1>16, <2>1, <2>2 DEF GraphNext, GraphStep
<1>17. CASE ReplyNext /\ UNCHANGED run
  <2>1. ASSUME NEW t \in Turn, SaveContract(t) PROVE StoresSound'
    BY <1>15, <1>17, <2>1 DEF SaveContract, tableVars
  <2>2. ASSUME NEW t \in Turn,
               \/ Restore(t) \/ Handle(t) \/ GuardInput(t) \/ Invoke(t)
               \/ GuardOutput(t) \/ StoreUser(t) \/ StoreAssistant(t)
               \/ TurnRaises(t)
        PROVE  UNCHANGED <<listed, checkpoint, bucketVars>>
    BY <2>2 DEF Restore, Handle, GuardInput, Invoke, GuardOutput, StoreUser,
                StoreAssistant, TurnRaises, storeVars, tableVars
  <2>. QED BY <1>15, <1>17, <2>1, <2>2 DEF ReplyNext, TurnStep, bucketVars
<1>18. CASE UNCHANGED vars
  BY <1>15, <1>18 DEF vars, storeVars, tableVars, bucketVars
<1>. QED BY <1>16, <1>17, <1>18 DEF Next

(* Wherever runs stop, however they overlap and whatever the wiki deletes  *)
(* of pending/: a draft has the checkpoint beside it that a turn goes on   *)
(* from, a final contract of the graph its draft.                          *)
THEOREM DraftsResumable ==
  ASSUME NoneApart
  PROVE  Spec => []Resumable
<1>1. Init => StoresSound
  BY IdleRunSound DEF Init, StoreInit, GraphInit, StoresSound, Behind,
                      Resumable
<1>2. RunsSound /\ StoresSound /\ [Next]_vars => StoresSound'
  BY StoresStep
<1>3. StoresSound => Resumable
  BY DEF StoresSound
<1>. QED BY <1>1, <1>2, <1>3, RunsAreSound, PTL DEF Spec

-----------------------------------------------------------------------------
(* Turns.                                                                  *)

LEMMA TurnMoves ==
  ASSUME TurnsSound, NEW t \in Turn, NEW q, Move(t, q), TurnSound(q),
         messages' \in Seq(Clean)
  PROVE  TurnsSound'
BY DEF TurnsSound, Move

LEMMA IdleTurnSound ==
  /\ TurnSound(IdleTurn)
  /\ IsTurn(IdleTurn)
  /\ IdleTurn.text = "said"
  /\ IdleTurn.history = <<>>
  /\ IdleTurn.sent = <<>>
  /\ IdleTurn.store = FALSE
  /\ IdleTurn.status = "none"
<1>1. /\ IsTurn(IdleTurn)
      /\ IdleTurn.pc = "idle"
      /\ IdleTurn.text = "said"
      /\ IdleTurn.history = <<>>
      /\ IdleTurn.sent = <<>>
      /\ IdleTurn.reply = "none"
      /\ IdleTurn.store = FALSE
      /\ IdleTurn.status = "none"
  BY DEF IdleTurn, IsTurn, TurnFields
<1>. QED BY <1>1 DEF TurnSound, UserText

LEMMA TurnDoneSound ==
  ASSUME NEW q, q.reply # "bad"
  PROVE  TurnSound(TurnDone(q))
<1>. DEFINE e == TurnDone(q)
<1>1. /\ IsTurn(e)
      /\ e.pc = "done"
      /\ e.reply = q.reply
      /\ e.text = "said"
      /\ e.history = <<>>
      /\ e.sent = <<>>
      /\ e.store = FALSE
      /\ e.status = "none"
  BY IdleTurnSound DEF TurnDone, IsTurn, TurnFields
<1>. HIDE DEF e
<1>2. TurnSound(e)
  BY <1>1 DEF TurnSound, UserText
<1>. QED BY <1>2 DEF e

(* What Close leaves of a turn, if what it is given to show is cleared.    *)
LEMMA CloseSound ==
  ASSUME TurnsSound, NEW t \in Turn, NEW status, NEW reply,
         Close(t, status, reply), reply # "bad",
         status = "succeeded" => reply \in {"good", "orders"},
         messages' \in Seq(Clean)
  PROVE  TurnsSound'
<1>1. PICK e : /\ e = [turn[t] EXCEPT
                         !.pc = "user", !.history = <<>>, !.sent = <<>>,
                         !.model = "none", !.status = status,
                         !.reply = IF reply = "none" THEN "fixed" ELSE reply]
               /\ Move(t, IF e.store THEN e ELSE TurnDone(e))
  BY DEF Close
<1>2. PICK q : q = turn[t] /\ TurnSound(q)
  BY DEF TurnsSound
<1>3. /\ IsTurn(e)
      /\ e.pc = "user" /\ e.history = <<>> /\ e.status = status
      /\ e.reply = IF reply = "none" THEN "fixed" ELSE reply
      /\ e.text = q.text /\ e.store = q.store /\ e.sent = <<>>
  BY <1>1, <1>2 DEF TurnSound, IsTurn, TurnFields
<1>4. CASE e.store
  <2>1. TurnSound(e)
    BY <1>2, <1>3, <1>4 DEF TurnSound
  <2>. QED BY <1>1, <1>4, <2>1, TurnMoves
<1>5. CASE ~e.store
  <2>1. TurnSound(TurnDone(e))
    BY <1>3, TurnDoneSound
  <2>. QED BY <1>1, <1>5, <2>1, TurnMoves
<1>. QED BY <1>4, <1>5

LEMMA CleanMessages ==
  Clean \subseteq Message
BY DEF Clean, Message, UserText, ModelText

LEMMA RecentType ==
  ASSUME NEW S, NEW seq \in Seq(S), NEW n \in 0..Len(seq)
  PROVE  Recent(seq, n) \in Seq(S) /\ Len(Recent(seq, n)) = n
<1>1. \A i \in (Len(seq) - n + 1)..Len(seq) : seq[i] \in S
  BY LenProperties
<1>. QED BY <1>1, SubSeqProperties, LenProperties DEF Recent

LEMMA MinOfNats ==
  ASSUME NEW T, T \subseteq Nat, T # {}
  PROVE  Min(T) \in T
<1>. DEFINE R == {p \in Nat \X Nat : p[1] < p[2]}
<1>1. IsWellFoundedOn(R, Nat)
  BY NatLessThanWellFounded DEF OpToRel
<1>2. PICK x \in T : \A y \in T : <<y, x>> \notin R
  BY <1>1, WFMin
<1>3. ASSUME NEW y \in T PROVE x <= y
  <2>1. x \in Nat /\ y \in Nat
    OBVIOUS
  <2>2. ~(y < x)
    BY <1>2, <2>1
  <2>. QED BY <2>1, <2>2
<1>. QED BY <1>3 DEF Min

(* The conversation opens with the user, or is empty.                      *)
LEMMA ConversationOpens ==
  ASSUME NEW history \in Seq(Message), NEW n \in 0..Len(history)
  PROVE  /\ Conversation(history, n) \in Seq(Message)
         /\ Conversation(history, n) # <<>>
            => Conversation(history, n)[1].role = "user"
<1>. DEFINE newest == Recent(history, n)
            users == {i \in 1..n : newest[i].role = "user"}
<1>1. newest \in Seq(Message) /\ Len(newest) = n
  BY RecentType
<1>. HIDE DEF newest
<1>2. CASE users = {}
  BY <1>2, EmptySeq DEF Conversation, newest
<1>3. CASE users # {}
  <2>1. Min(users) \in users
    <3>1. users \subseteq Nat
      OBVIOUS
    <3>. HIDE DEF users
    <3>. QED BY <1>3, <3>1, MinOfNats
  <2>. DEFINE m == Min(users)
  <2>2. m \in 1..n /\ newest[m].role = "user"
    BY <2>1
  <2>3. Conversation(history, n) = SubSeq(newest, m, n)
    BY <1>3 DEF Conversation, newest
  <2>. HIDE DEF m
  <2>4. \A i \in m..n : newest[i] \in Message
    BY <1>1, <2>2, LenProperties
  <2>5. /\ SubSeq(newest, m, n) \in Seq(Message)
        /\ SubSeq(newest, m, n)[1] = newest[m]
    BY <2>2, <2>4, SubSeqProperties
  <2>. QED BY <2>2, <2>3, <2>5
<1>. QED BY <1>2, <1>3

(* What Invoke sends, if it is valid, is what CallsSound asks for.         *)
LEMMA SaidSound ==
  ASSUME NEW history \in Seq(Message), NEW n \in 0..Len(history), NEW text,
         LET said == Append(Conversation(history, n), UserSays(text))
         IN  Valid(said),
         text \in UserText, ~Intervenes(text)
  PROVE  SentSound(Append(Conversation(history, n), UserSays(text)), text)
<1>. DEFINE c == Conversation(history, n)
            said == Append(c, UserSays(text))
<1>1. c \in Seq(Message) /\ (c # <<>> => c[1].role = "user")
  BY ConversationOpens
<1>2. UserSays(text) \in Message /\ UserSays(text).role = "user"
  BY DEF UserSays, Message
<1>. HIDE DEF c
<1>3. Len(said) = Len(c) + 1 /\ said[Len(said)] = UserSays(text)
  BY <1>1, <1>2, AppendProperties, LenProperties
<1>4. said[1].role = "user"
  <2>1. CASE c = <<>>
    BY <1>2, <1>3, <2>1
  <2>2. CASE c # <<>>
    <3>1. 1 \in 1..Len(c)
      BY <1>1, <2>2, EmptySeq, LenProperties
    <3>2. said[1] = c[1]
      BY <1>1, <1>2, <3>1, AppendProperties
    <3>. QED BY <1>1, <2>2, <3>2
  <2>. QED BY <2>1, <2>2
<1>5. Valid(said)
  BY DEF c
<1>. HIDE DEF said
<1>6. SentSound(said, text)
  BY <1>3, <1>4, <1>5 DEF SentSound
<1>. QED BY <1>6 DEF said, c

LEMMA TurnsInit ==
  Init => TurnsSound
<1>. SUFFICES ASSUME Init PROVE TurnsSound
  OBVIOUS
<1>1. messages \in Seq(Clean)
  BY EmptySeq DEF Init, StoreInit
<1>. QED BY <1>1, IdleTurnSound DEF Init, ReplyInit, TurnsSound

(* Every step keeps the turns sound, and clean what they store.            *)
LEMMA TurnsStep ==
  ASSUME TurnsSound, [Next]_vars
  PROVE  TurnsSound'
<1>1. ASSUME NEW t \in Turn
      PROVE  TurnSound(turn[t]) /\ IsTurn(turn[t])
  BY DEF TurnsSound, TurnSound
<1>2. messages \in Seq(Clean) /\ messages \in Seq(Message)
  BY CleanMessages DEF TurnsSound
<1>3. ASSUME NEW t \in Turn, Restore(t) PROVE TurnsSound'
  <2>1. PICK s : Move(t, [IdleTurn EXCEPT !.pc = "handle", !.known = s.known,
                                          !.missing = s.missing])
    BY <1>3 DEF Restore
  <2>. DEFINE e == [IdleTurn EXCEPT !.pc = "handle", !.known = s.known,
                                    !.missing = s.missing]
  <2>2. /\ IsTurn(e) /\ e.pc = "handle" /\ e.text = IdleTurn.text
        /\ e.history = IdleTurn.history /\ e.sent = IdleTurn.sent
        /\ e.store = IdleTurn.store /\ e.status = IdleTurn.status
        /\ e.reply = IdleTurn.reply
    BY IdleTurnSound DEF IsTurn, TurnFields
  <2>3. Move(t, e) /\ messages' \in Seq(Clean)
    BY <1>2, <1>3, <2>1 DEF Restore, storeVars, tableVars
  <2>. HIDE DEF e
  <2>4. TurnSound(e)
    BY <2>2, IdleTurnSound DEF TurnSound
  <2>. QED BY <2>3, <2>4, TurnMoves
<1>4. ASSUME NEW t \in Turn, Handle(t) PROVE TurnsSound'
  <2>. DEFINE n == IF Len(messages) < WINDOW THEN Len(messages) ELSE WINDOW
  <2>1. n \in 0..Len(messages)
    BY <1>2, LenProperties, ReplyAssumption
  <2>. HIDE DEF n
  <2>2. Recent(messages, n) \in Seq(Message)
    BY <1>2, <2>1, RecentType
  <2>3. PICK slot \in Slot \union {None}, text \in UserText \union {"blank"} :
          LET read == [turn[t] EXCEPT !.pc = "input", !.text = text,
                                      !.history = Recent(messages, n)]
          IN  \/ Move(t, read)
              \/ /\ ~Applicable(slot, text)
                 /\ Move(t, [read EXCEPT !.store = TRUE])
              \/ /\ Applicable(slot, text)
                 /\ LET a == Applied(turn[t].known, turn[t].missing, slot,
                                     text)
                    IN  Move(t, [read EXCEPT !.known = a.known,
                                             !.missing = a.missing,
                                             !.told = a.told,
                                             !.store = TRUE])
    BY <1>4 DEF Handle, n
  <2>. DEFINE read == [turn[t] EXCEPT !.pc = "input", !.text = text,
                                      !.history = Recent(messages, n)]
  <2>4. /\ IsTurn(read) /\ read.pc = "input" /\ read.text = text
        /\ read.history \in Seq(Message)
        /\ read.sent = turn[t].sent /\ read.store = turn[t].store
        /\ read.status = turn[t].status /\ read.reply = turn[t].reply
    BY <1>1, <2>2 DEF IsTurn, TurnFields
  <2>. HIDE DEF read
  <2>5. turn[t].pc = "handle" /\ messages' \in Seq(Clean)
    BY <1>2, <1>4 DEF Handle, storeVars, tableVars
  <2>6. turn[t].sent = <<>> /\ ~turn[t].store
    BY <1>1, <2>5 DEF TurnSound
  <2>7. CASE Move(t, read)
    <3>1. TurnSound(read)
      BY <1>1, <2>4, <2>6 DEF TurnSound
    <3>. QED BY <2>5, <2>7, <3>1, TurnMoves
  <2>8. CASE Move(t, [read EXCEPT !.store = TRUE])
    <3>. DEFINE e == [read EXCEPT !.store = TRUE]
    <3>1. /\ IsTurn(e) /\ e.pc = "input" /\ e.text = text
          /\ e.history = read.history /\ e.sent = read.sent
          /\ e.status = read.status /\ e.reply = read.reply
      BY <2>4 DEF IsTurn, TurnFields
    <3>2. Move(t, e)
      BY <2>8
    <3>. HIDE DEF e
    <3>3. TurnSound(e)
      BY <1>1, <2>4, <2>6, <2>8, <3>1 DEF TurnSound
    <3>. QED BY <2>5, <3>2, <3>3, TurnMoves
  <2>9. CASE \E a : Move(t, [read EXCEPT !.known = a.known,
                                         !.missing = a.missing,
                                         !.told = a.told,
                                         !.store = TRUE])
    <3>1. PICK a : Move(t, [read EXCEPT !.known = a.known,
                                        !.missing = a.missing,
                                        !.told = a.told,
                                        !.store = TRUE])
      BY <2>9
    <3>. DEFINE e == [read EXCEPT !.known = a.known, !.missing = a.missing,
                                  !.told = a.told, !.store = TRUE]
    <3>2. /\ IsTurn(e) /\ e.pc = "input" /\ e.text = text
          /\ e.history = read.history /\ e.sent = read.sent
          /\ e.status = read.status /\ e.reply = read.reply
      BY <2>4 DEF IsTurn, TurnFields
    <3>3. Move(t, e)
      BY <3>1
    <3>. HIDE DEF e
    <3>4. TurnSound(e)
      BY <1>1, <2>4, <2>6, <3>2 DEF TurnSound
    <3>. QED BY <2>5, <3>3, <3>4, TurnMoves
  <2>. QED BY <2>3, <2>7, <2>8, <2>9 DEF read
<1>5. ASSUME NEW t \in Turn, GuardInput(t) PROVE TurnsSound'
  <2>1. messages' \in Seq(Clean) /\ turn[t].pc = "input"
    BY <1>2, <1>5 DEF GuardInput, storeVars, tableVars
  <2>2. CASE \/ Close(t, "blocked", "masked")
             \/ Close(t, "failed", "none")
    BY <2>1, <2>2, CloseSound
  <2>3. CASE /\ ~Intervenes(turn[t].text)
             /\ turn[t].text # "blank"
             /\ Move(t, [turn[t] EXCEPT !.pc = "claude"])
    <3>. DEFINE e == [turn[t] EXCEPT !.pc = "claude"]
    <3>1. /\ IsTurn(e) /\ e.pc = "claude" /\ e.text = turn[t].text
          /\ e.history = turn[t].history /\ e.sent = turn[t].sent
          /\ e.store = turn[t].store /\ e.status = turn[t].status
          /\ e.reply = turn[t].reply
      BY <1>1 DEF IsTurn, TurnFields
    <3>2. Move(t, e)
      BY <2>3
    <3>. HIDE DEF e
    <3>3. TurnSound(e)
      BY <1>1, <2>1, <2>3, <3>1 DEF TurnSound
    <3>. QED BY <2>1, <3>2, <3>3, TurnMoves
  <2>. QED BY <1>5, <2>2, <2>3 DEF GuardInput
<1>6. ASSUME NEW t \in Turn, Invoke(t) PROVE TurnsSound'
  <2>1. messages' \in Seq(Clean) /\ turn[t].pc = "claude"
    BY <1>2, <1>6 DEF Invoke, storeVars, tableVars
  <2>. DEFINE Said(n) == Append(Conversation(turn[t].history, n),
                                UserSays(turn[t].text))
  <2>2. CASE Close(t, "failed", "none")
    BY <2>1, <2>2, CloseSound
  <2>3. ASSUME NEW n \in 0..Len(turn[t].history),
               NEW answer \in ModelText \union {"none"},
               Valid(Said(n)),
               Move(t, [turn[t] EXCEPT !.pc = "output", !.sent = Said(n),
                                       !.model = answer])
        PROVE  TurnsSound'
    <3>. DEFINE e == [turn[t] EXCEPT !.pc = "output", !.sent = Said(n),
                                     !.model = answer]
    <3>1. SentSound(Said(n), turn[t].text)
      <4>1. /\ turn[t].history \in Seq(Message)
            /\ ~Intervenes(turn[t].text)
            /\ turn[t].text \in UserText
        BY <1>1, <2>1 DEF TurnSound
      <4>. QED BY <2>3, <4>1, SaidSound
    <3>. HIDE DEF Said
    <3>2. /\ IsTurn(e) /\ e.pc = "output" /\ e.text = turn[t].text
          /\ e.history = turn[t].history /\ e.sent = Said(n)
          /\ e.store = turn[t].store /\ e.status = turn[t].status
          /\ e.reply = turn[t].reply /\ e.model = answer
      BY <1>1 DEF IsTurn, TurnFields
    <3>3. Move(t, e)
      BY <2>3
    <3>. HIDE DEF e
    <3>4. TurnSound(e)
      BY <1>1, <2>1, <2>3, <3>1, <3>2 DEF TurnSound
    <3>. QED BY <2>1, <3>3, <3>4, TurnMoves
  <2>. QED BY <1>6, <2>2, <2>3 DEF Invoke
<1>7. ASSUME NEW t \in Turn, GuardOutput(t) PROVE TurnsSound'
  <2>1. messages' \in Seq(Clean) /\ turn[t].pc = "output"
    BY <1>2, <1>7 DEF GuardOutput, storeVars, tableVars
  <2>2. CASE \/ Close(t, "blocked", "masked")
             \/ Close(t, "failed", "none")
    BY <2>1, <2>2, CloseSound
  <2>3. CASE /\ turn[t].model # "none"
             /\ ~Intervenes(turn[t].model)
             /\ Close(t, "succeeded", turn[t].model)
    <3>1. PICK m : m = turn[t].model
      OBVIOUS
    <3>2. m \in {"good", "orders"}
      BY <1>1, <2>1, <2>3, <3>1 DEF TurnSound, ModelText, Intervenes
    <3>. QED BY <2>1, <2>3, <3>1, <3>2, CloseSound
  <2>. QED BY <1>7, <2>2, <2>3 DEF GuardOutput
<1>8. ASSUME NEW t \in Turn, NEW pc \in {"assistant", "contract"},
             pc = "assistant" => turn[t].store,
             turn[t].pc \in {"user", "assistant"}
      PROVE  TurnSound([turn[t] EXCEPT !.pc = pc])
  <2>. DEFINE e == [turn[t] EXCEPT !.pc = pc]
  <2>1. /\ IsTurn(e) /\ e.pc = pc /\ e.text = turn[t].text
        /\ e.history = turn[t].history /\ e.sent = turn[t].sent
        /\ e.store = turn[t].store /\ e.status = turn[t].status
        /\ e.reply = turn[t].reply
    BY <1>1 DEF IsTurn, TurnFields
  <2>. HIDE DEF e
  <2>2. TurnSound(e)
    BY <1>1, <1>8, <2>1 DEF TurnSound
  <2>. QED BY <2>2 DEF e
<1>9. ASSUME NEW t \in Turn, StoreUser(t) PROVE TurnsSound'
  <2>1. turn[t].pc = "user" /\ turn[t].store
    BY <1>1, <1>9 DEF StoreUser, TurnSound
  <2>2. messages' \in Seq(Clean)
    <3>1. CASE turn[t].text = "blank"
      BY <1>2, <1>9, <3>1 DEF StoreUser
    <3>2. CASE turn[t].text # "blank"
      <4>1. turn[t].text \in UserText
        BY <1>1, <3>2 DEF TurnSound
      <4>2. UserSays(turn[t].text) \in Clean
        BY <4>1 DEF UserSays, Clean
      <4>. QED BY <1>2, <1>9, <3>2, <4>2, AppendProperties DEF StoreUser
    <3>. QED BY <3>1, <3>2
  <2>3. Move(t, [turn[t] EXCEPT !.pc = "assistant"])
    BY <1>9 DEF StoreUser
  <2>4. TurnSound([turn[t] EXCEPT !.pc = "assistant"])
    BY <1>8, <2>1
  <2>. QED BY <2>2, <2>3, <2>4, TurnMoves
<1>10. ASSUME NEW t \in Turn, StoreAssistant(t) PROVE TurnsSound'
  <2>. DEFINE text == IF turn[t].status = "succeeded" THEN turn[t].reply
                      ELSE "fixed"
  <2>1. turn[t].pc = "assistant" /\ messages' = Append(messages,
                                                       AssistantSays(text))
    BY <1>10 DEF StoreAssistant
  <2>2. messages' \in Seq(Clean)
    <3>1. text \in {"good", "orders", "fixed"}
      BY <1>1 DEF TurnSound
    <3>. HIDE DEF text
    <3>2. AssistantSays(text) \in Clean
      BY <3>1 DEF AssistantSays, Clean
    <3>. QED BY <1>2, <2>1, <3>2, AppendProperties
  <2>3. CASE Move(t, [turn[t] EXCEPT !.pc = "contract"])
    <3>1. TurnSound([turn[t] EXCEPT !.pc = "contract"])
      BY <1>8, <2>1
    <3>. QED BY <2>2, <2>3, <3>1, TurnMoves
  <2>4. CASE Move(t, TurnDone(turn[t]))
    <3>1. TurnSound(TurnDone(turn[t]))
      BY <1>1, TurnDoneSound DEF TurnSound
    <3>. QED BY <2>2, <2>4, <3>1, TurnMoves
  <2>. QED BY <1>10, <2>3, <2>4 DEF StoreAssistant
<1>11. ASSUME NEW t \in Turn, SaveContract(t) PROVE TurnsSound'
  <2>1. TurnSound(TurnDone(turn[t]))
    BY <1>1, TurnDoneSound DEF TurnSound
  <2>2. messages' \in Seq(Clean) /\ Move(t, TurnDone(turn[t]))
    BY <1>2, <1>11 DEF SaveContract, tableVars
  <2>. QED BY <2>1, <2>2, TurnMoves
<1>12. ASSUME NEW t \in Turn, TurnRaises(t) PROVE TurnsSound'
  <2>1. messages' \in Seq(Clean) /\ Move(t, IdleTurn)
    BY <1>2, <1>12 DEF TurnRaises, storeVars, tableVars
  <2>. QED BY <2>1, IdleTurnSound, TurnMoves
<1>13. ASSUME UNCHANGED <<messages, turn>> PROVE TurnsSound'
  BY <1>13 DEF TurnsSound
<1>14. ASSUME NEW r \in Run, Begin(r) \/ GraphStep(r) PROVE UNCHANGED messages
  BY <1>14 DEF Begin, GraphStep, Seed, StartSession, Load, SaveMetadata,
               SaveCheckpoint, PutEnriched, PutDraft, PutFinal, Raises,
               storeVars, tableVars
<1>15. CASE GraphNext /\ UNCHANGED turn
  <2>1. Publish \/ DeletePending => UNCHANGED messages
    BY DEF Publish, DeletePending, tableVars
  <2>. QED BY <1>13, <1>14, <1>15, <2>1 DEF GraphNext
<1>16. CASE ReplyNext
  BY <1>3, <1>4, <1>5, <1>6, <1>7, <1>9, <1>10, <1>11, <1>12, <1>16
     DEF ReplyNext, TurnStep
<1>17. CASE UNCHANGED vars
  BY <1>13, <1>17 DEF vars, storeVars, tableVars
<1>. QED BY <1>15, <1>16, <1>17 DEF Next

THEOREM TurnsAreSound ==
  Spec => []TurnsSound
BY TurnsInit, TurnsStep, PTL DEF Spec

(* Claude is never given a conversation that opens with an answer, holds   *)
(* an order to the model, or ends in a text the guardrail stopped.         *)
THEOREM CallsAreSound ==
  Spec => []CallsSound
<1>1. TurnsSound => CallsSound
  BY DEF TurnsSound, TurnSound, SentSound, CallsSound
<1>. QED BY <1>1, TurnsAreSound, PTL

(* No answer that the guardrail objects to is shown or stored, in however  *)
(* many turns at once, though orders to the model may be.                  *)
THEOREM AnswersAreCleared ==
  Spec => []AnswersCleared
<1>1. ASSUME TurnsSound PROVE AnswersCleared
  <2>1. \A t \in Turn : turn[t].reply # "bad"
    BY <1>1 DEF TurnsSound, TurnSound
  <2>2. \A i \in 1..Len(messages) : messages[i] \in Clean
    BY <1>1, LenProperties DEF TurnsSound
  <2>3. \A m \in Clean : m.text # "bad"
    BY DEF Clean, UserText
  <2>. QED BY <2>1, <2>2, <2>3 DEF AnswersCleared
<1>. QED BY <1>1, TurnsAreSound, PTL

-----------------------------------------------------------------------------
(* Questions.                                                              *)

(* The positions of a set are ranked from 1 to their number.               *)
LEMMA RanksAreAll ==
  ASSUME NEW n \in Nat, NEW at \in SUBSET (1..n)
  PROVE  LET rank == [i \in at |-> Cardinality({j \in at : j <= i})]
         IN  /\ Cardinality(at) \in Nat
             /\ \A m \in 1..Cardinality(at) : \E i \in at : rank[i] = m
             /\ \A i \in at : rank[i] \in 1..Cardinality(at)
             /\ \A i, k \in at : rank[i] = rank[k] => i = k
<1>. DEFINE below(i) == {j \in at : j <= i}
            rank == [i \in at |-> Cardinality(below(i))]
            c == Cardinality(at)
<1>1. IsFiniteSet(at) /\ c \in Nat
  <2>1. IsFiniteSet(1..n)
    BY FS_Interval
  <2>2. IsFiniteSet(at)
    BY <2>1, FS_Subset
  <2>. QED BY <2>2, FS_CardinalityType
<1>2. ASSUME NEW i \in at
      PROVE  /\ IsFiniteSet(below(i))
             /\ rank[i] = Cardinality(below(i))
             /\ rank[i] \in 1..c
  <2>1. below(i) \in SUBSET at /\ below(i) # {}
    OBVIOUS
  <2>2. IsFiniteSet(below(i)) /\ Cardinality(below(i)) <= c
    BY <1>1, <2>1, FS_Subset
  <2>3. Cardinality(below(i)) \in Nat /\ Cardinality(below(i)) # 0
    BY <2>1, <2>2, FS_CardinalityType, FS_EmptySet
  <2>. HIDE DEF below, c
  <2>. QED BY <1>1, <2>2, <2>3
<1>3. ASSUME NEW i \in at, NEW k \in at, i < k
      PROVE  rank[i] # rank[k]
  <2>0. i \in Nat /\ k \in Nat /\ \A j \in at : j \in Nat
    OBVIOUS
  <2>1. below(i) \in SUBSET below(k)
    <3>1. \A j \in at : j <= i => j <= k
      BY <1>3, <2>0
    <3>. QED BY <3>1
  <2>3. k \in below(k)
    BY <2>0
  <2>4. k \notin below(i)
    BY <1>3, <2>0
  <2>2. below(i) # below(k)
    BY <2>3, <2>4
  <2>. HIDE DEF below
  <2>. QED BY <1>2, <2>1, <2>2, FS_Subset
<1>4. ASSUME NEW i \in at, NEW k \in at, rank[i] = rank[k]
      PROVE  i = k
  BY <1>3, <1>4
<1>5. rank \in Injection(at, 1..c)
  <2>1. rank \in [at -> 1..c]
    BY <1>2
  <2>. HIDE DEF rank, c
  <2>. QED BY <1>4, <2>1 DEF Injection, IsInjective
<1>6. IsFiniteSet(1..c) /\ Cardinality(1..c) = c
  BY <1>1, FS_Interval
<1>7. rank \in Surjection(at, 1..c)
  <2>. HIDE DEF rank
  <2>. QED BY <1>5, <1>6, FS_Injection
<1>8. \A m \in 1..c : \E i \in at : rank[i] = m
  <2>. HIDE DEF rank, c
  <2>. QED BY <1>7 DEF Surjection
<1>. QED BY <1>1, <1>2, <1>4, <1>8

(* What is kept of a sequence: all that the set holds, nothing else, and   *)
(* nothing twice that was not there twice.                                 *)
LEMMA KeptHolds ==
  ASSUME NEW S, NEW seq \in Seq(S), NEW set
  PROVE  /\ Kept(seq, set) \in Seq(S)
         /\ Range(Kept(seq, set)) = Range(seq) \intersect set
         /\ IsInjective(seq) => IsInjective(Kept(seq, set))
<1>. DEFINE at == {i \in 1..Len(seq) : seq[i] \in set}
            rank == [i \in at |-> Cardinality({j \in at : j <= i})]
            c == Cardinality(at)
            k == Kept(seq, set)
            pos(m) == CHOOSE i \in at : rank[i] = m
<1>1. Len(seq) \in Nat /\ DOMAIN seq = 1..Len(seq) /\ \A i \in 1..Len(seq) : seq[i] \in S
  BY LenProperties, ElementOfSeq
<1>2. /\ c \in Nat
      /\ \A m \in 1..c : \E i \in at : rank[i] = m
      /\ \A i \in at : rank[i] \in 1..c
      /\ \A i, j \in at : rank[i] = rank[j] => i = j
  <2>1. at \in SUBSET (1..Len(seq))
    OBVIOUS
  <2>. HIDE DEF at
  <2>. QED BY <1>1, <2>1, RanksAreAll
<1>3. k = [m \in 1..c |-> seq[pos(m)]]
  BY DEF Kept
<1>4. at \subseteq 1..Len(seq) /\ \A i \in 1..Len(seq) : i \in at <=> seq[i] \in set
  OBVIOUS
<1>. HIDE DEF k, at, rank, c
<1>5. \A m \in 1..c : pos(m) \in at /\ rank[pos(m)] = m
  BY <1>2
<1>. HIDE DEF pos
<1>6. k \in Seq(S) /\ DOMAIN k = 1..c
  <2>1. k \in [1..c -> S]
    BY <1>1, <1>3, <1>4, <1>5
  <2>. QED BY <1>2, <2>1, IsASeq
<1>7. Range(k) = Range(seq) \intersect set
  <2>1. ASSUME NEW m \in 1..c PROVE k[m] \in Range(seq) \intersect set
    BY <1>1, <1>3, <1>4, <1>5 DEF Range
  <2>2. ASSUME NEW i \in 1..Len(seq), seq[i] \in set PROVE seq[i] \in Range(k)
    <3>1. i \in at /\ rank[i] \in 1..c
      BY <1>2, <1>4, <2>2
    <3>2. pos(rank[i]) = i
      BY <1>2, <1>5, <3>1
    <3>. QED BY <1>3, <1>6, <3>1, <3>2 DEF Range
  <2>. QED BY <1>1, <1>6, <2>1, <2>2 DEF Range
<1>8. IsInjective(seq) => IsInjective(k)
  <2>. SUFFICES ASSUME IsInjective(seq), NEW a \in 1..c, NEW b \in 1..c, k[a] = k[b]
                PROVE  a = b
    BY <1>6 DEF IsInjective
  <2>1. pos(a) = pos(b)
    BY <1>1, <1>3, <1>4, <1>5 DEF IsInjective
  <2>. QED BY <1>5, <2>1
<1>. QED BY <1>6, <1>7, <1>8 DEF k

(* The questions a request leads to, or an answer leaves.                  *)
Fits(known, missing, asked) ==
    /\ known \in Answers
    /\ missing \in Seq(Slot) /\ IsInjective(missing)
    /\ asked \in Seq(Slot) /\ IsInjective(asked)
    /\ \A s \in Range(asked) : ~HasAnswer(known[s])
    /\ Range(asked) \ Required # {}
       => \A s \in Range(missing) \intersect Required :
            HasAnswer(known[s]) \/ s \in Range(asked)

LEMMA EmptyFits ==
  ASSUME NEW known \in Answers, NEW missing \in Seq(Slot),
         IsInjective(missing)
  PROVE  Fits(known, missing, <<>>)
BY EmptySeq DEF Fits, IsInjective, Range

(* One after the other, two lists of different slots, the first of them    *)
(* the required ones.                                                      *)
LEMMA SortedHolds ==
  ASSUME NEW open \in Seq(Slot), IsInjective(open)
  PROVE  LET sorted == Kept(open, Required) \o Kept(open, Slot \ Required)
             n == Len(Kept(open, Required))
         IN  /\ sorted \in Seq(Slot)
             /\ IsInjective(sorted)
             /\ Range(sorted) = Range(open)
             /\ n \in 0..Len(sorted)
             /\ \A i \in 1..Len(sorted) : sorted[i] \in Required <=> i <= n
             /\ \A s \in Range(open) \intersect Required :
                  \E i \in 1..n : sorted[i] = s
<1>. DEFINE a == Kept(open, Required)
            b == Kept(open, Slot \ Required)
            sorted == a \o b
<1>1. /\ a \in Seq(Slot) /\ IsInjective(a)
      /\ Range(a) = Range(open) \intersect Required
  BY KeptHolds
<1>2. /\ b \in Seq(Slot) /\ IsInjective(b)
      /\ Range(b) = Range(open) \intersect (Slot \ Required)
  BY KeptHolds
<1>. HIDE DEF a, b
<1>3. /\ sorted \in Seq(Slot)
      /\ Len(a) \in Nat /\ Len(b) \in Nat
      /\ Len(sorted) = Len(a) + Len(b)
      /\ DOMAIN a = 1..Len(a) /\ DOMAIN b = 1..Len(b)
      /\ DOMAIN sorted = 1..Len(sorted)
      /\ \A i \in 1..Len(a) : sorted[i] = a[i]
      /\ \A i \in 1..Len(sorted) : i > Len(a) => sorted[i] = b[i - Len(a)]
  BY <1>1, <1>2, ConcatProperties, LenProperties
<1>. HIDE DEF sorted
<1>4. \A i \in 1..Len(a) : a[i] \in Range(open) \intersect Required
  BY <1>1, <1>3 DEF Range
<1>5. \A i \in 1..Len(b) : b[i] \in Range(open) \intersect (Slot \ Required)
  BY <1>2, <1>3 DEF Range
<1>6. ASSUME NEW i \in 1..Len(sorted)
      PROVE  /\ i <= Len(a) => sorted[i] = a[i] /\ i \in 1..Len(a)
             /\ i > Len(a) => sorted[i] = b[i - Len(a)]
                              /\ i - Len(a) \in 1..Len(b)
  BY <1>3
<1>7. \A i \in 1..Len(sorted) :
        sorted[i] \in Range(open) /\ (sorted[i] \in Required <=> i <= Len(a))
  BY <1>3, <1>4, <1>5, <1>6
<1>8. IsInjective(sorted)
  <2>. SUFFICES ASSUME NEW i \in 1..Len(sorted), NEW j \in 1..Len(sorted),
                       sorted[i] = sorted[j]
                PROVE  i = j
    BY <1>3 DEF IsInjective
  <2>1. CASE i <= Len(a) /\ j <= Len(a)
    BY <1>1, <1>3, <1>6, <2>1 DEF IsInjective
  <2>2. CASE i > Len(a) /\ j > Len(a)
    <3>1. /\ i - Len(a) \in 1..Len(b) /\ j - Len(a) \in 1..Len(b)
          /\ b[i - Len(a)] = b[j - Len(a)]
      BY <1>6, <2>2
    <3>2. i - Len(a) = j - Len(a)
      BY <1>2, <1>3, <3>1 DEF IsInjective
    <3>. QED BY <1>3, <3>2
  <2>. QED BY <1>3, <1>7, <2>1, <2>2
<1>9. \A s \in Range(open) \intersect Required :
        \E i \in 1..Len(a) : sorted[i] = s
  BY <1>1, <1>3 DEF Range
<1>10. Range(sorted) = Range(open)
  <2>1. Range(sorted) = Range(a) \union Range(b)
    BY <1>1, <1>2, RangeConcatenation DEF sorted
  <2>2. Range(open) \subseteq Slot
    BY RangeOfSeq
  <2>. QED BY <1>1, <1>2, <2>1, <2>2
<1>11. Len(a) \in 0..Len(sorted)
  BY <1>3
<1>. QED BY <1>3, <1>7, <1>8, <1>9, <1>10, <1>11 DEF a, b, sorted

(* What Candidates asks for.                                               *)
LEMMA CandidatesFit ==
  ASSUME NEW known \in Answers, NEW missing \in Seq(Slot),
         IsInjective(missing)
  PROVE  Fits(known, missing, Candidates(known, missing))
<1>. DEFINE from == IF missing = <<>> THEN Registry ELSE missing
            unknown == {s \in Slot : ~HasAnswer(known[s])}
            open == Kept(from, unknown)
            sorted == Kept(open, Required) \o Kept(open, Slot \ Required)
            n == Len(Kept(open, Required))
            c == Candidates(known, missing)
<1>1. from \in Seq(Slot) /\ IsInjective(from)
  <2>1. Registry \in Seq(Slot) /\ IsInjective(Registry)
    BY ChatStoreAssumption, SeqOfRange, RangeOfSeq DEF Slot
  <2>. QED BY <2>1
<1>2. Range(missing) \subseteq Range(from) /\ Range(missing) \subseteq Slot
  BY ElementOfSeq, LenProperties, EmptySeq DEF Range
<1>. HIDE DEF from
<1>3. /\ open \in Seq(Slot) /\ IsInjective(open)
      /\ Range(open) = Range(from) \intersect unknown
  BY <1>1, KeptHolds
<1>. HIDE DEF open
<1>4. /\ sorted \in Seq(Slot)
      /\ IsInjective(sorted)
      /\ Range(sorted) = Range(open)
      /\ n \in 0..Len(sorted)
      /\ \A i \in 1..Len(sorted) : sorted[i] \in Required <=> i <= n
      /\ \A s \in Range(open) \intersect Required :
           \E i \in 1..n : sorted[i] = s
  BY <1>3, SortedHolds
<1>5. c = IF Len(sorted) > MAX_QUESTIONS
          THEN SubSeq(sorted, 1, MAX_QUESTIONS) ELSE sorted
  BY DEF Candidates, from, open
<1>. HIDE DEF sorted, n, c
<1>6. Len(sorted) \in Nat /\ DOMAIN sorted = 1..Len(sorted)
  BY <1>4, LenProperties
<1>7. /\ c \in Seq(Slot)
      /\ Len(c) \in 0..Len(sorted)
      /\ DOMAIN c = 1..Len(c)
      /\ \A i \in 1..Len(c) : c[i] = sorted[i]
  <2>1. CASE Len(sorted) > MAX_QUESTIONS
    <3>1. MAX_QUESTIONS \in Nat /\ MAX_QUESTIONS \in 1..Len(sorted)
      BY <1>6, <2>1, ChatStoreAssumption
    <3>2. \A i \in 1..MAX_QUESTIONS : sorted[i] \in Slot
      BY <1>4, <1>6, <3>1, ElementOfSeq
    <3>3. /\ c \in Seq(Slot)
          /\ Len(c) = MAX_QUESTIONS
          /\ \A i \in 1..MAX_QUESTIONS : c[i] = sorted[1 + i - 1]
      BY <1>4, <1>5, <2>1, <3>1, <3>2, SubSeqProperties
    <3>. QED BY <1>6, <3>1, <3>3, LenProperties
  <2>2. CASE ~(Len(sorted) > MAX_QUESTIONS)
    BY <1>4, <1>5, <1>6, <2>2
  <2>. QED BY <2>1, <2>2
<1>8. \A i \in 1..Len(c) : i \in 1..Len(sorted)
  BY <1>6, <1>7
<1>9. IsInjective(c)
  BY <1>4, <1>6, <1>7, <1>8 DEF IsInjective
<1>10. Range(c) \subseteq Range(open)
  <2>1. ASSUME NEW i \in 1..Len(c) PROVE c[i] \in Range(sorted)
    BY <1>6, <1>7, <1>8 DEF Range
  <2>2. Range(c) \subseteq Range(sorted)
    BY <1>7, <2>1 DEF Range
  <2>. QED BY <1>4, <2>2
<1>11. ASSUME Range(c) \ Required # {},
              NEW s \in Range(missing) \intersect Required,
              ~HasAnswer(known[s])
       PROVE  s \in Range(c)
  <2>1. PICK j \in 1..Len(c) : c[j] \notin Required
    BY <1>7, <1>11 DEF Range
  <2>2. n < Len(c)
    BY <1>4, <1>6, <1>7, <1>8, <2>1
  <2>3. s \in Range(open)
    BY <1>2, <1>3, <1>11
  <2>4. PICK i \in 1..n : sorted[i] = s
    BY <1>4, <1>11, <2>3
  <2>5. i \in 1..Len(c)
    BY <1>4, <1>6, <1>7, <2>2
  <2>. QED BY <1>7, <2>4, <2>5 DEF Range
<1>12. Fits(known, missing, c)
  BY <1>3, <1>7, <1>9, <1>10, <1>11 DEF Fits
<1>. QED BY <1>12 DEF c

(* What is left of the missing slots is missing once at most.              *)
LEMMA WithoutType ==
  ASSUME NEW missing \in Seq(Slot), NEW slot
  PROVE  /\ Without(missing, slot) \in Seq(Slot)
         /\ IsInjective(missing) => IsInjective(Without(missing, slot))
BY KeptHolds DEF Without

LEMMA AppliedType ==
  ASSUME NEW known \in Answers, NEW missing \in Seq(Slot), NEW slot,
         NEW value \in Value
  PROVE  LET a == Applied(known, missing, slot, value)
         IN  /\ a.known \in Answers
             /\ a.missing \in Seq(Slot)
             /\ a.told \in BOOLEAN
             /\ IsInjective(missing) => Fits(a.known, a.missing, a.asked)
<1>. DEFINE after == [known EXCEPT ![slot] = value]
            rest == Without(missing, slot)
            a == Applied(known, missing, slot, value)
<1>1. /\ a.known = after
      /\ a.missing = rest
      /\ a.told = (rest = <<>>)
      /\ a.asked = IF rest = <<>> THEN <<>> ELSE Candidates(after, rest)
  BY DEF Applied
<1>2. after \in Answers
  BY DEF Answers
<1>3. rest \in Seq(Slot) /\ (IsInjective(missing) => IsInjective(rest))
  BY WithoutType
<1>. HIDE DEF a, after, rest
<1>4. ASSUME IsInjective(missing)
      PROVE  Fits(after, rest, a.asked)
  BY <1>1, <1>2, <1>3, <1>4, CandidatesFit, EmptyFits
<1>5. a.told \in BOOLEAN
  BY <1>1
<1>6. IsInjective(missing) => Fits(a.known, a.missing, a.asked)
  BY <1>1, <1>4
<1>. QED BY <1>1, <1>2, <1>3, <1>5, <1>6 DEF a

(* What the graph makes of a request.                                      *)
LEMMA ExemplifiedFits ==
  ASSUME NEW req \in Requests
  PROVE  LET e == Exemplified(req) IN Fits(e.known, e.missing, e.asked)
<1>. DEFINE questions == Candidates(req.known, req.missing)
            a == Applied(req.known, req.missing, questions[1], "example")
            e == Exemplified(req)
<1>1. /\ req.known \in Answers /\ req.missing \in Seq(Slot)
      /\ IsInjective(req.missing)
  BY GraphAssumption DEF SlotState
<1>2. Fits(a.known, a.missing, a.asked)
  BY <1>1, AppliedType DEF Value
<1>3. Fits(req.known, req.missing, <<>>)
  BY <1>1, EmptyFits
<1>4. e = IF questions = <<>>
          THEN [known |-> req.known, missing |-> req.missing, asked |-> <<>>]
          ELSE [known |-> a.known, missing |-> a.missing, asked |-> a.asked]
  BY DEF Exemplified
<1>. HIDE DEF questions, a, e
<1>5. Fits(e.known, e.missing, e.asked)
  BY <1>2, <1>3, <1>4
<1>. QED BY <1>5 DEF e

-----------------------------------------------------------------------------
(* Types.                                                                  *)

(* A run, its questions those that its answers and missing slots call for. *)
RunTyped(q) == q \in GraphRun /\ Fits(q.known, q.missing, q.asked)

RunsTyped == run = [r \in Run |-> run[r]] /\ \A r \in Run : RunTyped(run[r])

LEMMA RunIs ==
  ASSUME NEW q
  PROVE  q \in GraphRun <=>
           /\ IsRun(q)
           /\ q.pc \in RunPc /\ q.start \in BOOLEAN
           /\ q.known \in Answers /\ q.missing \in Seq(Slot)
           /\ q.doc \in Doc \union {None}
           /\ q.parse \in {"none", "passed", "needs_enrichment", "failed"}
           /\ q.review \in {"none", "passed", "needs_enrichment", "failed"}
           /\ q.asked \in Seq(Slot)
BY DEF IsRun, RunFields, GraphRun

LEMMA NoAnswersType ==
  NoAnswers \in Answers
BY DEF NoAnswers, Answers, Value

LEMMA IdleRunTyped ==
  /\ RunTyped(IdleRun)
  /\ IdleRun.known = NoAnswers /\ IdleRun.missing = <<>>
  /\ IdleRun.asked = <<>> /\ IdleRun.start = FALSE /\ IdleRun.doc = None
  /\ IdleRun.parse = "none" /\ IdleRun.review = "none"
<1>1. /\ IsRun(IdleRun)
      /\ IdleRun.pc = "idle" /\ IdleRun.start = FALSE
      /\ IdleRun.known = NoAnswers /\ IdleRun.missing = <<>>
      /\ IdleRun.doc = None
      /\ IdleRun.parse = "none" /\ IdleRun.review = "none"
      /\ IdleRun.asked = <<>>
  BY DEF IdleRun, IsRun, RunFields
<1>2. <<>> \in Seq(Slot) /\ IsInjective(<<>>)
  BY EmptySeq DEF IsInjective
<1>3. IdleRun \in GraphRun
  BY <1>1, <1>2, NoAnswersType, RunIs DEF RunPc
<1>. QED BY <1>1, <1>2, <1>3, NoAnswersType, EmptyFits DEF RunTyped

LEMMA RunMoves ==
  ASSUME RunsTyped, NEW r \in Run, NEW q, Become(r, q), RunTyped(q)
  PROVE  RunsTyped'
BY DEF RunsTyped, Become

LEMMA ProceedTyped ==
  ASSUME RunsTyped, NEW r \in Run, NEW pc \in RunPc, Proceed(r, pc)
  PROVE  RunsTyped'
<1>. DEFINE q == run[r]
            e == [q EXCEPT !.pc = pc]
<1>1. RunTyped(q) /\ IsRun(q)
  BY RunIs DEF RunsTyped, RunTyped
<1>. HIDE DEF q
<1>2. /\ IsRun(e) /\ e.pc = pc /\ e.start = q.start /\ e.known = q.known
      /\ e.missing = q.missing /\ e.doc = q.doc /\ e.parse = q.parse
      /\ e.review = q.review /\ e.asked = q.asked
  BY <1>1 DEF IsRun, RunFields
<1>3. Become(r, e)
  BY DEF Proceed, q
<1>. HIDE DEF e
<1>4. RunTyped(e)
  BY <1>1, <1>2, RunIs DEF RunTyped
<1>. QED BY <1>3, <1>4, RunMoves

LEMMA RunDoneTyped ==
  ASSUME NEW q, RunTyped(q)
  PROVE  RunTyped(RunDone(q))
<1>. DEFINE e == RunDone(q)
<1>1. IsRun(IdleRun)
  BY IdleRunTyped, RunIs DEF RunTyped
<1>2. /\ IsRun(e) /\ e.pc = "done" /\ e.start = FALSE /\ e.known = q.known
      /\ e.missing = q.missing /\ e.doc = None /\ e.parse = "none"
      /\ e.review = "none" /\ e.asked = q.asked
  BY <1>1, IdleRunTyped DEF RunDone, IsRun, RunFields
<1>. HIDE DEF e
<1>3. RunTyped(e)
  BY <1>2, RunIs DEF RunTyped, RunPc
<1>. QED BY <1>3 DEF e

LEMMA VerdictTypes ==
  ASSUME NEW doc, NEW counted
  PROVE  /\ Parse(doc) \in {"passed", "needs_enrichment", "failed"}
         /\ Review(doc, counted) \in {"passed", "needs_enrichment", "failed"}
BY DEF Parse, Review

(* Every step keeps the runs typed: only a request and the answer that the *)
(* graph gives itself bring questions.                                     *)
LEMMA RunsTypedStep ==
  ASSUME document \in Doc \union {None}, RunsTyped, [Next]_vars
  PROVE  RunsTyped'
<1>1. ASSUME NEW r \in Run, Begin(r) PROVE RunsTyped'
  <2>1. PICK pc \in {"seed", "load"} :
          Become(r, [IdleRun EXCEPT !.pc = pc])
    BY <1>1 DEF Begin
  <2>. DEFINE e == [IdleRun EXCEPT !.pc = pc]
  <2>2. IsRun(IdleRun)
    BY IdleRunTyped, RunIs DEF RunTyped
  <2>3. /\ IsRun(e) /\ e.pc = pc /\ e.start = IdleRun.start
        /\ e.known = IdleRun.known /\ e.missing = IdleRun.missing
        /\ e.doc = IdleRun.doc /\ e.parse = IdleRun.parse
        /\ e.review = IdleRun.review /\ e.asked = IdleRun.asked
    BY <2>2 DEF IsRun, RunFields
  <2>. HIDE DEF e
  <2>4. RunTyped(e)
    BY <2>3, IdleRunTyped, RunIs DEF RunTyped, RunPc
  <2>. QED BY <2>1, <2>4, RunMoves DEF e
<1>2. ASSUME NEW r \in Run,
             \/ Seed(r) \/ SaveMetadata(r) \/ SaveCheckpoint(r)
             \/ PutEnriched(r)
      PROVE  RunsTyped'
  <2>1. PICK pc \in RunPc : Proceed(r, pc)
    BY <1>2 DEF Seed, SaveMetadata, SaveCheckpoint, PutEnriched, RunPc
  <2>. QED BY <2>1, ProceedTyped
<1>3. ASSUME NEW r \in Run, StartSession(r) PROVE RunsTyped'
  <2>. DEFINE Started(req, counted) ==
                [IdleRun EXCEPT
                   !.pc = "done", !.start = TRUE, !.known = req.known,
                   !.missing = req.missing, !.doc = document,
                   !.parse = Parse(document),
                   !.review = Review(document, counted),
                   !.asked = Candidates(req.known, req.missing)]
  <2>1. PICK req \in Requests, counted \in BOOLEAN :
          Become(r, Started(req, counted))
    BY <1>3 DEF StartSession
  <2>2. /\ req.known \in Answers /\ req.missing \in Seq(Slot)
        /\ IsInjective(req.missing)
    BY GraphAssumption DEF SlotState
  <2>3. Fits(req.known, req.missing, Candidates(req.known, req.missing))
    BY <2>2, CandidatesFit
  <2>. DEFINE e == Started(req, counted)
  <2>4. IsRun(IdleRun)
    BY IdleRunTyped, RunIs DEF RunTyped
  <2>5. /\ IsRun(e) /\ e.pc = "done" /\ e.start = TRUE
        /\ e.known = req.known /\ e.missing = req.missing
        /\ e.doc = document /\ e.parse = Parse(document)
        /\ e.review = Review(document, counted)
        /\ e.asked = Candidates(req.known, req.missing)
    BY <2>4 DEF IsRun, RunFields
  <2>. HIDE DEF e
  <2>6. e \in GraphRun
    <3>1. e.asked \in Seq(Slot)
      BY <2>3, <2>5 DEF Fits
    <3>. QED BY <2>2, <2>5, <3>1, VerdictTypes, RunIs DEF RunPc
  <2>7. RunTyped(e)
    BY <2>3, <2>5, <2>6 DEF RunTyped
  <2>. QED BY <2>1, <2>7, RunMoves DEF e
<1>4. ASSUME NEW r \in Run, Load(r) PROVE RunsTyped'
  <2>. DEFINE Loaded(x) == [IdleRun EXCEPT !.pc = "metadata",
                                           !.known = x.known,
                                           !.missing = x.missing,
                                           !.asked = x.asked]
  <2>1. PICK req \in Requests : Become(r, Loaded(Exemplified(req)))
    BY <1>4 DEF Load
  <2>2. PICK x : x = Exemplified(req)
    OBVIOUS
  <2>3. Fits(x.known, x.missing, x.asked)
    BY <2>2, ExemplifiedFits
  <2>. DEFINE e == Loaded(x)
  <2>4. IsRun(IdleRun)
    BY IdleRunTyped, RunIs DEF RunTyped
  <2>5. /\ IsRun(e) /\ e.pc = "metadata" /\ e.start = IdleRun.start
        /\ e.known = x.known /\ e.missing = x.missing
        /\ e.doc = IdleRun.doc /\ e.parse = IdleRun.parse
        /\ e.review = IdleRun.review /\ e.asked = x.asked
    BY <2>4 DEF IsRun, RunFields
  <2>. HIDE DEF e
  <2>6. e \in GraphRun
    BY <2>3, <2>5, IdleRunTyped, RunIs DEF RunPc, Fits
  <2>7. RunTyped(e)
    BY <2>3, <2>5, <2>6 DEF RunTyped
  <2>. QED BY <2>1, <2>2, <2>7, RunMoves DEF e
<1>5. ASSUME NEW r \in Run, PutDraft(r) \/ PutFinal(r) \/ Raises(r)
      PROVE  RunsTyped'
  <2>1. CASE \E pc \in RunPc : Proceed(r, pc)
    BY <2>1, ProceedTyped
  <2>2. CASE Become(r, RunDone(run[r]))
    <3>1. RunTyped(run[r])
      BY DEF RunsTyped
    <3>. QED BY <2>2, <3>1, RunDoneTyped, RunMoves
  <2>3. CASE Become(r, IdleRun)
    BY <2>3, IdleRunTyped, RunMoves
  <2>. QED BY <1>5, <2>1, <2>2, <2>3 DEF PutDraft, PutFinal, Raises, RunPc
<1>6. ASSUME UNCHANGED run PROVE RunsTyped'
  BY <1>6 DEF RunsTyped
<1>7. CASE GraphNext
  BY <1>1, <1>2, <1>3, <1>4, <1>5, <1>6, <1>7
     DEF GraphNext, GraphStep, Publish, DeletePending
<1>8. CASE ReplyNext /\ UNCHANGED run
  BY <1>6, <1>8
<1>9. CASE UNCHANGED vars
  BY <1>6, <1>9 DEF vars
<1>. QED BY <1>7, <1>8, <1>9 DEF Next

THEOREM RunsAreTyped ==
  Spec => []RunsTyped
<1>1. Init => RunsTyped
  BY IdleRunTyped DEF Init, GraphInit, RunsTyped
<1>2. RunsSound /\ RunsTyped /\ [Next]_vars => RunsTyped'
  BY RunsTypedStep DEF RunsSound
<1>. QED BY <1>1, <1>2, RunsAreSound, PTL DEF Spec

(* The client is never asked for what it has answered, nor twice, nor for  *)
(* an optional slot before a required one that is missing: whatever the    *)
(* template, the required slots and the request.                           *)
THEOREM QuestionsAreOpen ==
  Spec => []AsksWhatIsOpen
<1>1. RunsTyped => AsksWhatIsOpen
  <2>. SUFFICES ASSUME RunsTyped, NEW r \in Run
                PROVE  LET q == run[r]
                       IN  /\ \A i \in 1..Len(q.asked) :
                                /\ ~HasAnswer(q.known[q.asked[i]])
                                /\ \A j \in 1..(i - 1) :
                                     q.asked[i] # q.asked[j]
                           /\ Range(q.asked) \ Required # {}
                              => \A s \in Range(q.missing)
                                          \intersect Required :
                                   HasAnswer(q.known[s])
                                   \/ s \in Range(q.asked)
    BY DEF AsksWhatIsOpen
  <2>1. PICK q : q = run[r] /\ Fits(q.known, q.missing, q.asked)
    BY DEF RunsTyped, RunTyped
  <2>2. /\ Len(q.asked) \in Nat /\ DOMAIN q.asked = 1..Len(q.asked)
        /\ IsInjective(q.asked)
        /\ \A s \in Range(q.asked) : ~HasAnswer(q.known[s])
    BY <2>1, LenProperties DEF Fits
  <2>3. ASSUME NEW i \in 1..Len(q.asked)
        PROVE  ~HasAnswer(q.known[q.asked[i]])
    BY <2>2 DEF Range
  <2>4. ASSUME NEW i \in 1..Len(q.asked), NEW j \in 1..(i - 1)
        PROVE  q.asked[i] # q.asked[j]
    BY <2>2 DEF IsInjective
  <2>5. Range(q.asked) \ Required # {}
        => \A s \in Range(q.missing) \intersect Required :
             HasAnswer(q.known[s]) \/ s \in Range(q.asked)
    BY <2>1 DEF Fits
  <2>. QED BY <2>1, <2>3, <2>4, <2>5
<1>. QED BY <1>1, RunsAreTyped, PTL

-----------------------------------------------------------------------------

LEMMA TurnIs ==
  ASSUME NEW q
  PROVE  q \in TurnState <=>
           /\ IsTurn(q)
           /\ q.pc \in TurnPc
           /\ q.text \in UserText \union {"blank"}
           /\ q.known \in Answers /\ q.missing \in Seq(Slot)
           /\ q.told \in BOOLEAN /\ q.store \in BOOLEAN
           /\ q.history \in Seq(Message) /\ q.sent \in Seq(Message)
           /\ q.model \in ModelText \union {"none"}
           /\ q.reply \in ModelText \union {"none", "masked", "fixed"}
           /\ q.status \in {"none", "succeeded", "blocked", "failed"}
BY DEF IsTurn, TurnFields, TurnState

TurnsTyped ==
    turn = [t \in Turn |-> turn[t]] /\ \A t \in Turn : turn[t] \in TurnState

LEMMA IdleTurnTyped ==
  /\ IdleTurn \in TurnState
  /\ IdleTurn.pc = "idle" /\ IdleTurn.text = "said"
  /\ IdleTurn.known = NoAnswers /\ IdleTurn.missing = <<>>
  /\ IdleTurn.told = FALSE /\ IdleTurn.store = FALSE
  /\ IdleTurn.history = <<>> /\ IdleTurn.sent = <<>>
  /\ IdleTurn.model = "none" /\ IdleTurn.reply = "none"
  /\ IdleTurn.status = "none"
<1>1. /\ IsTurn(IdleTurn)
      /\ IdleTurn.pc = "idle" /\ IdleTurn.text = "said"
      /\ IdleTurn.known = NoAnswers /\ IdleTurn.missing = <<>>
      /\ IdleTurn.told = FALSE /\ IdleTurn.store = FALSE
      /\ IdleTurn.history = <<>> /\ IdleTurn.sent = <<>>
      /\ IdleTurn.model = "none" /\ IdleTurn.reply = "none"
      /\ IdleTurn.status = "none"
  BY DEF IdleTurn, IsTurn, TurnFields
<1>2. <<>> \in Seq(Slot) /\ <<>> \in Seq(Message)
  BY EmptySeq
<1>3. IdleTurn \in TurnState
  BY <1>1, <1>2, NoAnswersType, TurnIs DEF TurnPc, UserText
<1>. QED BY <1>1, <1>3

LEMMA TurnMovesTyped ==
  ASSUME TurnsTyped, NEW t \in Turn, NEW q \in TurnState, Move(t, q)
  PROVE  TurnsTyped'
BY DEF TurnsTyped, Move

LEMMA TurnDoneTyped ==
  ASSUME NEW q, q.reply \in ModelText \union {"none", "masked", "fixed"}
  PROVE  TurnDone(q) \in TurnState
<1>. DEFINE e == TurnDone(q)
<1>1. IsTurn(IdleTurn) /\ IdleTurn \in TurnState
  BY IdleTurnTyped, TurnIs
<1>2. /\ IsTurn(e) /\ e.pc = "done" /\ e.text = IdleTurn.text
      /\ e.known = IdleTurn.known /\ e.missing = IdleTurn.missing
      /\ e.told = IdleTurn.told /\ e.store = IdleTurn.store
      /\ e.history = IdleTurn.history /\ e.sent = IdleTurn.sent
      /\ e.model = IdleTurn.model /\ e.reply = q.reply
      /\ e.status = IdleTurn.status
  BY <1>1 DEF TurnDone, IsTurn, TurnFields
<1>. HIDE DEF e
<1>3. e \in TurnState
  BY <1>1, <1>2, TurnIs DEF TurnPc
<1>. QED BY <1>3 DEF e

LEMMA CloseTyped ==
  ASSUME TurnsTyped, NEW t \in Turn,
         NEW status \in {"succeeded", "blocked", "failed"},
         NEW reply \in ModelText \union {"none", "masked"},
         Close(t, status, reply)
  PROVE  TurnsTyped'
<1>. DEFINE e == [turn[t] EXCEPT
                    !.pc = "user", !.history = <<>>, !.sent = <<>>,
                    !.model = "none", !.status = status,
                    !.reply = IF reply = "none" THEN "fixed" ELSE reply]
<1>1. PICK q \in TurnState : q = turn[t]
  BY DEF TurnsTyped
<1>2. IsTurn(q)
  BY TurnIs
<1>3. /\ IsTurn(e) /\ e.pc = "user" /\ e.text = q.text
      /\ e.known = q.known /\ e.missing = q.missing
      /\ e.told = q.told /\ e.store = q.store
      /\ e.history = <<>> /\ e.sent = <<>>
      /\ e.model = "none"
      /\ e.reply = IF reply = "none" THEN "fixed" ELSE reply
      /\ e.status = status
  BY <1>1, <1>2 DEF IsTurn, TurnFields
<1>4. Move(t, IF e.store THEN e ELSE TurnDone(e))
  BY DEF Close
<1>. HIDE DEF e
<1>5. e.reply \in ModelText \union {"none", "masked", "fixed"}
  BY <1>3
<1>6. e \in TurnState
  BY <1>3, <1>5, TurnIs, EmptySeq DEF TurnPc
<1>7. TurnDone(e) \in TurnState
  BY <1>5, TurnDoneTyped
<1>. QED BY <1>4, <1>6, <1>7, TurnMovesTyped

(* A turn that only goes on.                                               *)
LEMMA AdvanceTyped ==
  ASSUME NEW q \in TurnState, NEW pc \in TurnPc
  PROVE  [q EXCEPT !.pc = pc] \in TurnState
<1>. DEFINE e == [q EXCEPT !.pc = pc]
<1>1. IsTurn(q)
  BY TurnIs
<1>2. /\ IsTurn(e) /\ e.pc = pc /\ e.text = q.text
      /\ e.known = q.known /\ e.missing = q.missing
      /\ e.told = q.told /\ e.store = q.store
      /\ e.history = q.history /\ e.sent = q.sent
      /\ e.model = q.model /\ e.reply = q.reply /\ e.status = q.status
  BY <1>1 DEF IsTurn, TurnFields
<1>. HIDE DEF e
<1>3. e \in TurnState
  BY <1>2, TurnIs
<1>. QED BY <1>3 DEF e

LEMMA RegistryType ==
  Registry \in Seq(Slot)
BY ChatStoreAssumption, SeqOfRange DEF Slot

(* Every step keeps the turns typed.                                       *)
LEMMA TurnsTypedStep ==
  ASSUME checkpoint \in SlotState \union {None}, TurnsSound, TurnsTyped,
         [Next]_vars
  PROVE  TurnsTyped'
<1>1. ASSUME NEW t \in Turn
      PROVE  turn[t] \in TurnState /\ IsTurn(turn[t]) /\ TurnSound(turn[t])
  BY TurnIs DEF TurnsSound, TurnsTyped
<1>2. ASSUME NEW t \in Turn, Restore(t) PROVE TurnsTyped'
  <2>. DEFINE Handled(s) == [IdleTurn EXCEPT !.pc = "handle",
                                             !.known = s.known,
                                             !.missing = s.missing]
  <2>1. PICK s \in {Restored, [known |-> NoAnswers, missing |-> Registry]} :
          Move(t, Handled(s))
    BY <1>2 DEF Restore
  <2>2. s.known \in Answers /\ s.missing \in Seq(Slot)
    <3>1. CASE s = [known |-> NoAnswers, missing |-> Registry]
      BY <3>1, NoAnswersType, RegistryType
    <3>2. CASE s = checkpoint /\ checkpoint # None
      BY <3>2 DEF SlotState
    <3>. QED BY <2>1, <3>1, <3>2 DEF Restored
  <2>. DEFINE e == Handled(s)
  <2>3. IsTurn(IdleTurn) /\ IdleTurn \in TurnState
    BY IdleTurnTyped, TurnIs
  <2>4. /\ IsTurn(e) /\ e.pc = "handle" /\ e.text = IdleTurn.text
        /\ e.known = s.known /\ e.missing = s.missing
        /\ e.told = IdleTurn.told /\ e.store = IdleTurn.store
        /\ e.history = IdleTurn.history /\ e.sent = IdleTurn.sent
        /\ e.model = IdleTurn.model /\ e.reply = IdleTurn.reply
        /\ e.status = IdleTurn.status
    BY <2>3 DEF IsTurn, TurnFields
  <2>5. Move(t, e)
    BY <2>1
  <2>. HIDE DEF e
  <2>6. e \in TurnState
    BY <2>2, <2>3, <2>4, TurnIs DEF TurnPc
  <2>. QED BY <2>5, <2>6, TurnMovesTyped
<1>3. ASSUME NEW t \in Turn, Handle(t) PROVE TurnsTyped'
  <2>. DEFINE n == IF Len(messages) < WINDOW THEN Len(messages) ELSE WINDOW
  <2>1. messages \in Seq(Message) /\ n \in 0..Len(messages)
    BY CleanMessages, LenProperties, ReplyAssumption DEF TurnsSound
  <2>. HIDE DEF n
  <2>2. Recent(messages, n) \in Seq(Message)
    BY <2>1, RecentType
  <2>3. PICK slot \in Slot \union {None}, text \in UserText \union {"blank"} :
          LET read == [turn[t] EXCEPT !.pc = "input", !.text = text,
                                      !.history = Recent(messages, n)]
          IN  \/ Move(t, read)
              \/ Move(t, [read EXCEPT !.store = TRUE])
              \/ /\ Applicable(slot, text)
                 /\ LET a == Applied(turn[t].known, turn[t].missing, slot,
                                     text)
                    IN  Move(t, [read EXCEPT !.known = a.known,
                                             !.missing = a.missing,
                                             !.told = a.told,
                                             !.store = TRUE])
    BY <1>3 DEF Handle, n
  <2>. DEFINE read == [turn[t] EXCEPT !.pc = "input", !.text = text,
                                      !.history = Recent(messages, n)]
  <2>4. PICK q \in TurnState : q = turn[t] /\ IsTurn(q)
    BY <1>1
  <2>5. /\ IsTurn(read) /\ read.pc = "input" /\ read.text = text
        /\ read.known = q.known /\ read.missing = q.missing
        /\ read.told = q.told /\ read.store = q.store
        /\ read.history = Recent(messages, n) /\ read.sent = q.sent
        /\ read.model = q.model /\ read.reply = q.reply
        /\ read.status = q.status
    BY <2>4 DEF IsTurn, TurnFields
  <2>. HIDE DEF read
  <2>6. read \in TurnState
    BY <2>2, <2>4, <2>5, TurnIs DEF TurnPc
  <2>7. CASE Move(t, read)
    BY <2>6, <2>7, TurnMovesTyped
  <2>8. CASE Move(t, [read EXCEPT !.store = TRUE])
    <3>. DEFINE e == [read EXCEPT !.store = TRUE]
    <3>1. /\ IsTurn(e) /\ e.pc = read.pc /\ e.text = read.text
          /\ e.known = read.known /\ e.missing = read.missing
          /\ e.told = read.told /\ e.store = TRUE
          /\ e.history = read.history /\ e.sent = read.sent
          /\ e.model = read.model /\ e.reply = read.reply
          /\ e.status = read.status
      BY <2>5 DEF IsTurn, TurnFields
    <3>2. Move(t, e)
      BY <2>8
    <3>. HIDE DEF e
    <3>3. e \in TurnState
      BY <2>6, <3>1, TurnIs
    <3>. QED BY <3>2, <3>3, TurnMovesTyped
  <2>9. CASE /\ Applicable(slot, text)
             /\ LET a == Applied(q.known, q.missing, slot, text)
                IN  Move(t, [read EXCEPT !.known = a.known,
                                         !.missing = a.missing,
                                         !.told = a.told, !.store = TRUE])
    <3>1. q.known \in Answers /\ q.missing \in Seq(Slot)
      BY <2>4, TurnIs
    <3>2. text \in Value
      BY <2>9 DEF Applicable, Value, UserText
    <3>3. PICK a : a = Applied(q.known, q.missing, slot, text)
      OBVIOUS
    <3>4. /\ a.known \in Answers /\ a.missing \in Seq(Slot)
          /\ a.told \in BOOLEAN
      BY <3>1, <3>2, <3>3, AppliedType
    <3>. DEFINE e == [read EXCEPT !.known = a.known, !.missing = a.missing,
                                  !.told = a.told, !.store = TRUE]
    <3>5. /\ IsTurn(e) /\ e.pc = read.pc /\ e.text = read.text
          /\ e.known = a.known /\ e.missing = a.missing
          /\ e.told = a.told /\ e.store = TRUE
          /\ e.history = read.history /\ e.sent = read.sent
          /\ e.model = read.model /\ e.reply = read.reply
          /\ e.status = read.status
      BY <2>5 DEF IsTurn, TurnFields
    <3>6. Move(t, e)
      BY <2>9, <3>3
    <3>. HIDE DEF e
    <3>7. e \in TurnState
      BY <2>6, <3>4, <3>5, TurnIs
    <3>. QED BY <3>6, <3>7, TurnMovesTyped
  <2>. QED BY <2>3, <2>4, <2>7, <2>8, <2>9 DEF read
<1>4. ASSUME NEW t \in Turn, GuardInput(t) PROVE TurnsTyped'
  <2>1. CASE \/ Close(t, "blocked", "masked")
             \/ Close(t, "failed", "none")
    BY <2>1, CloseTyped
  <2>2. CASE Move(t, [turn[t] EXCEPT !.pc = "claude"])
    <3>1. [turn[t] EXCEPT !.pc = "claude"] \in TurnState
      BY <1>1, AdvanceTyped DEF TurnPc
    <3>. QED BY <2>2, <3>1, TurnMovesTyped
  <2>. QED BY <1>4, <2>1, <2>2 DEF GuardInput
<1>5. ASSUME NEW t \in Turn, Invoke(t) PROVE TurnsTyped'
  <2>. DEFINE Said(n) == Append(Conversation(turn[t].history, n),
                                UserSays(turn[t].text))
  <2>1. CASE Close(t, "failed", "none")
    BY <2>1, CloseTyped
  <2>2. ASSUME NEW n \in 0..Len(turn[t].history),
               NEW answer \in ModelText \union {"none"},
               Move(t, [turn[t] EXCEPT !.pc = "output", !.sent = Said(n),
                                       !.model = answer])
        PROVE  TurnsTyped'
    <3>1. PICK q \in TurnState : q = turn[t] /\ IsTurn(q)
      BY <1>1
    <3>2. UserSays(turn[t].text) \in Message
      <4>1. turn[t].text \in UserText
        BY <1>1, <1>5 DEF Invoke, TurnSound
      <4>. QED BY <4>1 DEF UserSays, Message
    <3>3. Said(n) \in Seq(Message)
      <4>1. Conversation(turn[t].history, n) \in Seq(Message)
        BY <1>1, ConversationOpens DEF TurnSound
      <4>. QED BY <3>2, <4>1, AppendProperties
    <3>. HIDE DEF Said
    <3>. DEFINE e == [q EXCEPT !.pc = "output", !.sent = Said(n),
                               !.model = answer]
    <3>4. /\ IsTurn(e) /\ e.pc = "output" /\ e.text = q.text
          /\ e.known = q.known /\ e.missing = q.missing
          /\ e.told = q.told /\ e.store = q.store
          /\ e.history = q.history /\ e.sent = Said(n)
          /\ e.model = answer /\ e.reply = q.reply /\ e.status = q.status
      BY <3>1 DEF IsTurn, TurnFields
    <3>5. Move(t, e)
      BY <2>2, <3>1
    <3>. HIDE DEF e
    <3>6. e \in TurnState
      BY <3>1, <3>3, <3>4, TurnIs DEF TurnPc
    <3>. QED BY <3>5, <3>6, TurnMovesTyped
  <2>. QED BY <1>5, <2>1, <2>2 DEF Invoke
<1>6. ASSUME NEW t \in Turn, GuardOutput(t) PROVE TurnsTyped'
  <2>1. CASE \/ Close(t, "blocked", "masked")
             \/ Close(t, "failed", "none")
    BY <2>1, CloseTyped
  <2>2. CASE turn[t].model # "none" /\ Close(t, "succeeded", turn[t].model)
    <3>1. turn[t].model \in ModelText \union {"none", "masked"}
      BY <1>1, TurnIs
    <3>. QED BY <2>2, <3>1, CloseTyped
  <2>. QED BY <1>6, <2>1, <2>2 DEF GuardOutput
<1>7. ASSUME NEW t \in Turn,
             \/ StoreUser(t) \/ StoreAssistant(t) \/ SaveContract(t)
             \/ TurnRaises(t)
      PROVE  TurnsTyped'
  <2>1. CASE \/ Move(t, [turn[t] EXCEPT !.pc = "assistant"])
             \/ Move(t, [turn[t] EXCEPT !.pc = "contract"])
    <3>1. /\ [turn[t] EXCEPT !.pc = "assistant"] \in TurnState
          /\ [turn[t] EXCEPT !.pc = "contract"] \in TurnState
      BY <1>1, AdvanceTyped DEF TurnPc
    <3>. QED BY <2>1, <3>1, TurnMovesTyped
  <2>2. CASE Move(t, TurnDone(turn[t]))
    <3>1. TurnDone(turn[t]) \in TurnState
      BY <1>1, TurnIs, TurnDoneTyped
    <3>. QED BY <2>2, <3>1, TurnMovesTyped
  <2>3. CASE Move(t, IdleTurn)
    BY <2>3, IdleTurnTyped, TurnMovesTyped
  <2>. QED BY <1>7, <2>1, <2>2, <2>3
           DEF StoreUser, StoreAssistant, SaveContract, TurnRaises
<1>8. ASSUME UNCHANGED turn PROVE TurnsTyped'
  BY <1>8 DEF TurnsTyped
<1>9. CASE ReplyNext
  BY <1>2, <1>3, <1>4, <1>5, <1>6, <1>7, <1>9 DEF ReplyNext, TurnStep
<1>10. CASE UNCHANGED turn
  BY <1>8, <1>10
<1>. QED BY <1>9, <1>10 DEF Next, vars

-----------------------------------------------------------------------------

StoresTyped ==
    /\ listed \in BOOLEAN
    /\ checkpoint \in SlotState \union {None}
    /\ enriched \in SlotState \union {None}
    /\ draft \in SlotState \union {None}
    /\ final \in Contract \union {None}
    /\ calls \in Nat

(* What runs and turns store of what they hold.                            *)
LEMMA StoresTypedStep ==
  ASSUME StoresTyped, RunsTyped, TurnsTyped, [Next]_vars
  PROVE  StoresTyped'
<1>1. ASSUME NEW r \in Run
      PROVE  run[r].known \in Answers /\ StateOf(run[r]) \in SlotState
  BY DEF RunsTyped, RunTyped, Fits, StateOf, SlotState
<1>2. ASSUME NEW t \in Turn
      PROVE  turn[t].known \in Answers
  BY TurnIs DEF TurnsTyped
<1>3. ASSUME UNCHANGED <<tableVars, bucketVars>>, calls' \in Nat
      PROVE  StoresTyped'
  BY <1>3 DEF StoresTyped, tableVars, bucketVars
<1>4. calls' = calls \/ calls' = calls + 1 => calls' \in Nat
  BY DEF StoresTyped
<1>5. ASSUME NEW r \in Run, Begin(r) PROVE StoresTyped'
  BY <1>3, <1>4, <1>5 DEF Begin, Call, storeVars
<1>6. ASSUME NEW r \in Run,
             \/ Seed(r) \/ StartSession(r) \/ Load(r) \/ Raises(r)
      PROVE  StoresTyped'
  BY <1>3, <1>4, <1>6
     DEF Seed, StartSession, Load, Raises, storeVars
<1>7. ASSUME NEW r \in Run, SaveMetadata(r) PROVE StoresTyped'
  BY <1>7 DEF SaveMetadata, StoresTyped, bucketVars
<1>8. ASSUME NEW r \in Run, SaveCheckpoint(r) PROVE StoresTyped'
  BY <1>1, <1>8 DEF SaveCheckpoint, StoresTyped, bucketVars
<1>9. ASSUME NEW r \in Run, PutEnriched(r) PROVE StoresTyped'
  BY <1>1, <1>9 DEF PutEnriched, StoresTyped, tableVars
<1>10. ASSUME NEW r \in Run, PutDraft(r) PROVE StoresTyped'
  BY <1>1, <1>10 DEF PutDraft, StoresTyped, tableVars
<1>11. ASSUME NEW r \in Run, PutFinal(r) PROVE StoresTyped'
  <2>1. final' \in Contract
    BY <1>1, <1>11 DEF PutFinal, Contract
  <2>. QED BY <1>11, <2>1 DEF PutFinal, StoresTyped, tableVars
<1>12. CASE Publish
  BY <1>3, <1>4, <1>12 DEF Publish
<1>12a. CASE DeletePending
  BY <1>12a DEF DeletePending, StoresTyped, tableVars
<1>13. ASSUME NEW t \in Turn, Restore(t) PROVE StoresTyped'
  BY <1>3, <1>4, <1>13 DEF Restore, Call, storeVars
<1>14. ASSUME NEW t \in Turn,
              \/ Handle(t) \/ GuardInput(t) \/ Invoke(t) \/ GuardOutput(t)
              \/ TurnRaises(t)
       PROVE  StoresTyped'
  BY <1>3, <1>4, <1>14
     DEF Handle, GuardInput, Invoke, GuardOutput, TurnRaises, storeVars
<1>15. ASSUME NEW t \in Turn, StoreUser(t) \/ StoreAssistant(t)
       PROVE  StoresTyped'
  BY <1>15 DEF StoreUser, StoreAssistant, StoresTyped, bucketVars
<1>16. ASSUME NEW t \in Turn, SaveContract(t) PROVE StoresTyped'
  <2>1. Gates(turn[t]) \in BOOLEAN
    BY DEF Gates, Filled
  <2>2. final' = final \/ final' \in Contract
    BY <1>2, <1>16, <2>1 DEF SaveContract, Contract
  <2>. QED BY <1>16, <2>2 DEF SaveContract, StoresTyped, tableVars
<1>17. CASE GraphNext
  BY <1>5, <1>6, <1>7, <1>8, <1>9, <1>10, <1>11, <1>12, <1>12a,
     <1>17 DEF GraphNext, GraphStep
<1>18. CASE ReplyNext
  BY <1>13, <1>14, <1>15, <1>16, <1>18 DEF ReplyNext, TurnStep
<1>19. CASE UNCHANGED vars
  BY <1>3, <1>4, <1>19 DEF vars, storeVars
<1>. QED BY <1>17, <1>18, <1>19 DEF Next

(* The types of ChatAgent, in particular of the sequences that runs and    *)
(* turns pass on and cut: slots, questions, messages, conversations.       *)
THEOREM AgentTypeCorrect ==
  Spec => []AgentTypeOK
<1>. DEFINE Inv == StoresTyped /\ TurnsTyped
<1>1. Init => Inv
  <2>1. Init => StoresTyped
    <3>. SUFFICES ASSUME Init PROVE StoresTyped
      OBVIOUS
    <3>1. /\ listed = FALSE /\ calls = 0
          /\ checkpoint = None /\ enriched = None /\ draft = None
          /\ final = None
      BY DEF Init, StoreInit
    <3>. QED BY <3>1 DEF StoresTyped
  <2>2. Init => TurnsTyped
    BY IdleTurnTyped DEF Init, ReplyInit, TurnsTyped
  <2>. QED BY <2>1, <2>2
<1>2. TurnsSound /\ RunsTyped /\ Inv /\ [Next]_vars => Inv'
  <2>1. TurnsSound /\ RunsTyped /\ Inv /\ [Next]_vars => StoresTyped'
    BY StoresTypedStep
  <2>2. TurnsSound /\ RunsTyped /\ Inv /\ [Next]_vars => TurnsTyped'
    BY TurnsTypedStep DEF StoresTyped
  <2>. QED BY <2>1, <2>2
<1>3. RunsSound /\ TurnsSound /\ RunsTyped /\ Inv => AgentTypeOK
  <2>. SUFFICES ASSUME RunsSound, TurnsSound, RunsTyped, Inv
                PROVE  AgentTypeOK
    OBVIOUS
  <2>1. StoreTypeOK
    <3>1. messages \in Seq(Message)
      BY CleanMessages DEF TurnsSound
    <3>2. document \in Doc \union {None}
      BY DEF RunsSound
    <3>. QED BY <3>1, <3>2 DEF StoresTyped, StoreTypeOK
  <2>2. GraphTypeOK
    BY DEF RunsTyped, RunTyped, GraphTypeOK
  <2>3. ReplyTypeOK
    BY DEF TurnsTyped, ReplyTypeOK
  <2>. QED BY <2>1, <2>2, <2>3 DEF AgentTypeOK
<1>. QED BY <1>1, <1>2, <1>3, RunsAreSound, TurnsAreSound, RunsAreTyped, PTL
         DEF Spec
=============================================================================
