----------------------- MODULE SpecGenerationProofs -------------------------
(***************************************************************************)
(* Proofs about SpecGeneration.  The invariant says of the run at work     *)
(* what the properties say of what is saved: where its loop stands, what   *)
(* its prompt held, which of its fields are the contract's.                *)
(***************************************************************************)
EXTENDS SpecGeneration, TLAPS

(* The run has left the loop.                                              *)
Made == run.pc \in {"judge", "faq", "qa", "seo", "finish"}
HasPartial == run.contract.template \in Partial

(* A run past the gate has a contract that was ready.                      *)
Gated == run.pc \notin {"idle", "load"} => run.contract.ready

(* The fields of the contract are in the spec since the merge.             *)
RunKept ==
    Made /\ HasPartial =>
      \A f \in Given[run.contract.template] : run.spec[f] = "contract"

(* The first round is told of no more than the feedback, a later one of    *)
(* what the round before lacked, or that it was no JSON.                   *)
Lacking == {"h2", "faq", "qa", "seo", "ld"}
HintsSteer ==
    run.pc = "generate" /\ HasPartial /\ run.attempt > 1 =>
      run.hints = {"json"} \/ Lacking \subseteq run.hints
InLoop == run.pc = "generate" => run.attempt \in 1..MAX_RETRIES

(* Only JSON-LD can be other.                                              *)
FaqPlain == run.spec["faq"] # "other"

(* What the merge makes of the loop, and no one wanted (NullsCompleted is  *)
(* what is said of the merge): nothing that is completed in the page of a  *)
(* partial spec arrives, so no answer passes and every run makes all its   *)
(* calls.                                                                  *)
LoopExhausted ==
    Made /\ HasPartial =>
      /\ run.attempt = MAX_RETRIES
      /\ run.pc = "judge" => ~Passed(run.spec)

GenInv ==
    /\ GenTypeOK
    /\ FaqPlain
    /\ Gated
    /\ InLoop
    /\ HintsSteer
    /\ RunKept
    /\ ContractKept
    /\ LoopExhausted
    /\ RoundSteered
    /\ SavedServable

-----------------------------------------------------------------------------

(* The sections a partial spec leaves out cost 53 points, which no answer  *)
(* of the model wins back.                                                 *)
LEMMA PartialLacks ==
  ASSUME NEW t \in Partial, NEW answer \in [Field -> Origin]
  PROVE  /\ Completed(t, answer) \in [Field -> Origin]
         /\ \A f \in Lacking : Completed(t, answer)[f] = "none"
         /\ \A f \in Given[t] : Completed(t, answer)[f] = "contract"
<1> DEFINE s == Completed(t, answer)
           p == PartialSpec(t)
<1>1. t \in {"wine", "tax", "career"}
  BY DEF Partial, Given
<1>2. /\ Given[t] \subseteq Field
      /\ Given[t] \intersect Lacking = {}
  BY <1>1 DEF Given, Field, Section, Lacking
<1>3. p = [f \in Field |-> IF f \in Given[t] THEN "contract" ELSE "none"]
  BY DEF PartialSpec, FromContract
<1>4. s = [f \in Field |-> IF f \notin Section /\ p[f] = "none"
                           THEN answer[f] ELSE p[f]]
  BY DEF Completed, Merge
<1>5. Lacking \subseteq Section /\ Section \subseteq Field
  BY DEF Lacking, Section, Field
<1>6. \A f \in Field : p[f] \in Origin
  BY <1>3 DEF Origin
<1>7. s \in [Field -> Origin]
  BY <1>4, <1>6
<1>8. \A f \in Lacking : s[f] = "none"
  BY <1>2, <1>3, <1>4, <1>5
<1>9. \A f \in Given[t] : s[f] = "contract"
  BY <1>2, <1>3, <1>4
<1> QED  BY <1>7, <1>8, <1>9

LEMMA TakenOffNat ==
  ASSUME NEW s \in [Field -> Origin], NEW f \in DOMAIN Missing
  PROVE  TakenOff(s, f) \in Nat
BY DEF TakenOff, Missing, Flawed

LEMMA LackingFails ==
  ASSUME NEW s \in [Field -> Origin], \A f \in Lacking : s[f] = "none",
         QUALITY_THRESHOLD > 47
  PROVE  ~Passed(s) /\ Lacking \subseteq Issues(s)
<1>1. /\ TakenOff(s, "h2") = 5
      /\ TakenOff(s, "seo") = 18
      /\ TakenOff(s, "ld") = 10
      /\ TakenOff(s, "qa") = 5
      /\ TakenOff(s, "faq") = 15
  BY DEF TakenOff, Missing, Lacking
<1>2. /\ TakenOff(s, "h1") \in Nat
      /\ TakenOff(s, "files") \in Nat
      /\ TakenOff(s, "ids") \in Nat
  BY TakenOffNat DEF Missing
<1>3. Deduction(s) >= 53
  BY <1>1, <1>2 DEF Deduction
<1>4. Deduction(s) \in Nat
  BY <1>1, <1>2 DEF Deduction
<1>5. ~Passed(s)
  BY <1>3, <1>4, GenerationAssumption DEF Passed
<1>6. Lacking \subseteq Issues(s)
  BY DEF Issues, Lacking, Missing
<1> QED  BY <1>5, <1>6

LEMMA FaqField == "faq" \in Field /\ "ids" # "faq"
BY DEF Field, Section

LEMMA GivenKnown ==
  \A t \in Partial : /\ Given[t] \subseteq Field
                     /\ Given[t] \intersect (Lacking \union {"files", "ids"}) = {}
BY DEF Partial, Given, Field, Section, Lacking

-----------------------------------------------------------------------------
(* The steps of the run.  The run alone changes, except where it saves.    *)

InvRun == /\ FaqPlain /\ Gated /\ InLoop /\ HintsSteer /\ RunKept /\ LoopExhausted
          /\ RoundSteered
InvSaved == ContractKept /\ SavedServable

LEMMA AsleepInv ==
  ASSUME run' = Asleep
  PROVE  run' \in Run /\ InvRun'
<1>1. Asleep \in Run
  BY DEF Asleep, Run, Pc, Contract, NoContract, Template, Hint, Blank,
         Origin
<1>2. run'.pc = "idle" /\ run'.spec = Blank
  BY DEF Asleep
<1>3. FaqPlain'
  BY <1>2 DEF FaqPlain, Blank, Field, Section
<1> QED
  BY <1>1, <1>2, <1>3
  DEF InvRun, Gated, InLoop, HintsSteer, RunKept, LoopExhausted, RoundSteered,
      Made

LEMMA GenInit == Init => GenInv
<1> SUFFICES ASSUME Init PROVE GenInv
  OBVIOUS
<1>1. Asleep \in Run /\ saved \in Saved
  BY DEF Init, Asleep, Run, Pc, Contract, NoContract, Template, Hint, Blank,
         Origin, Saved
<1>2. GenTypeOK
  BY <1>1, GenerationAssumption DEF Init, GenTypeOK
<1>3. run.pc = "idle" /\ saved.v = 0 /\ FaqPlain
  BY DEF Init, Asleep, FaqPlain, Blank, Field, Section
<1> QED
  BY <1>2, <1>3
  DEF GenInv, Gated, InLoop, HintsSteer, RunKept, LoopExhausted, RoundSteered,
      ContractKept, SavedServable, Made

LEMMA AgainRun ==
  ASSUME NEW r \in Run, NEW h \in SUBSET Hint
  PROVE  /\ Again(r, h) \in Run
         /\ Again(r, h).pc = r.pc
         /\ Again(r, h).attempt = r.attempt + 1
         /\ Again(r, h).contract = r.contract
         /\ Again(r, h).hints = h
         /\ Again(r, h).spec = r.spec
<1>1. r.attempt + 1 \in Nat
  BY DEF Run
<1> QED  BY <1>1 DEF Again, Run

(* An answer is taken: the loop goes on, or is left with a last spec.      *)
LEMMA ParsedInv ==
  ASSUME GenInv, Parsed, QUALITY_THRESHOLD > 47
  PROVE  run' \in Run /\ InvRun'
<1>1. PICK answer \in Answers :
        LET now == Taken(answer) IN
           \/ /\ Passed(now.spec) \/ run.attempt >= MAX_RETRIES
              /\ run' = [now EXCEPT !.pc = "judge", !.spec["ids"] = "contract"]
           \/ /\ ~Passed(now.spec)
              /\ run.attempt < MAX_RETRIES
              /\ run' = Again(now, Issues(now.spec))
  BY DEF Parsed
<1> DEFINE s == Completed(run.contract.template, answer)
           now == Taken(answer)
<1>2. /\ answer \in [Field -> Origin]
      /\ run \in Run
      /\ run.pc = "generate"
      /\ run.attempt \in 1..MAX_RETRIES
      /\ MAX_RETRIES \in Nat
      /\ run.contract.ready
      /\ answer["faq"] # "other"
  BY GenerationAssumption
  DEF GenInv, GenTypeOK, Parsed, InLoop, Gated, Origin, Answer
<1>3. s \in [Field -> Origin] /\ s["faq"] # "other"
  <2>1. CASE run.contract.template \in Partial
    BY <1>2, <2>1, PartialLacks DEF Lacking
  <2>2. CASE run.contract.template \notin Partial
    BY <1>2, <2>2 DEF Completed
  <2> QED  BY <2>1, <2>2
<1>4. HasPartial => /\ \A f \in Lacking : s[f] = "none"
                    /\ \A f \in Given[run.contract.template] :
                         s[f] = "contract"
                    /\ ~Passed(s)
                    /\ Lacking \subseteq Issues(s)
  BY <1>2, <1>3, PartialLacks, LackingFails DEF HasPartial
<1>5. /\ now \in Run
      /\ now.pc = "generate" /\ now.attempt = run.attempt
      /\ now.contract = run.contract /\ now.spec = s
      /\ now.heard = Prompted
  BY <1>2, <1>3 DEF Taken, Prompted, Run
<1>0. \/ /\ Passed(s) \/ run.attempt >= MAX_RETRIES
         /\ run' = [now EXCEPT !.pc = "judge", !.spec["ids"] = "contract"]
      \/ /\ ~Passed(s)
         /\ run.attempt < MAX_RETRIES
         /\ run' = Again(now, Issues(s))
  BY <1>1, <1>5
<1> HIDE DEF s, now
<1>6. CASE /\ Passed(s) \/ run.attempt >= MAX_RETRIES
           /\ run' = [now EXCEPT !.pc = "judge", !.spec["ids"] = "contract"]
  <2> DEFINE t == [s EXCEPT !["ids"] = "contract"]
  <2>1. /\ t \in [Field -> Origin]
        /\ \A f \in Field \ {"ids"} : t[f] = s[f]
        /\ t["faq"] # "other"
    BY <1>3, FaqField DEF Origin
  <2>2. /\ run' \in Run
        /\ run'.pc = "judge" /\ run'.attempt = run.attempt
        /\ run'.contract = run.contract /\ run'.spec = t
        /\ run'.heard = Prompted
    BY <1>5, <1>6, <2>1 DEF Run, Pc
  <2>3. HasPartial' <=> HasPartial
    BY <2>2 DEF HasPartial
  <2>4. HasPartial => /\ ~Passed(t)
                      /\ run.attempt = MAX_RETRIES
                      /\ \A f \in Given[run.contract.template] :
                           t[f] = "contract"
    <3> SUFFICES ASSUME HasPartial
                 PROVE  /\ ~Passed(t)
                        /\ run.attempt = MAX_RETRIES
                        /\ \A f \in Given[run.contract.template] :
                             t[f] = "contract"
      OBVIOUS
    <3>1. \A f \in Lacking : t[f] = "none"
      BY <1>4, <2>1 DEF Lacking, Field, Section
    <3>2. ~Passed(t)
      BY <3>1, <2>1, LackingFails
    <3>3. run.attempt = MAX_RETRIES
      BY <1>4, <1>6, <1>2
    <3>4. \A f \in Given[run.contract.template] : t[f] = "contract"
      BY <1>4, <2>1, GivenKnown DEF HasPartial
    <3> QED  BY <3>2, <3>3, <3>4
  <2> HIDE DEF t
  <2>5. RoundSteered'
    BY <1>2, <2>2, <2>3, <2>4
    DEF RoundSteered, GenInv, HintsSteer, Prompted, HasPartial, Lacking
  <2> QED
    BY <1>2, <2>1, <2>2, <2>3, <2>4, <2>5
    DEF InvRun, FaqPlain, Gated, InLoop, HintsSteer, RunKept, LoopExhausted, Made,
        HasPartial
<1>7. CASE /\ ~Passed(s)
           /\ run.attempt < MAX_RETRIES
           /\ run' = Again(now, Issues(s))
  <2>1. Issues(s) \subseteq Hint
    BY DEF Issues, Missing, Hint, Field, Section
  <2>2. /\ run' \in Run
        /\ run'.pc = "generate" /\ run'.attempt = run.attempt + 1
        /\ run'.contract = run.contract
        /\ run'.hints = Issues(s) /\ run'.spec = s
    BY <1>5, <1>7, <2>1, AgainRun
  <2> QED
    BY <1>2, <1>3, <1>4, <1>7, <2>2
    DEF InvRun, FaqPlain, Gated, InLoop, HintsSteer, RunKept, LoopExhausted,
        RoundSteered, Made, HasPartial
<1> QED  BY <1>0, <1>6, <1>7

(* A later step that changes the spec only where the partial has nothing.  *)
LEMMA LaterInv ==
  ASSUME GenInv, Made,
         NEW pc \in {"faq", "qa", "seo", "finish"},
         NEW weak \in SUBSET Section,
         NEW s \in [Field -> Origin],
         s["faq"] # "other",
         \A f \in Field \ Lacking : s[f] = run.spec[f],
         run' = [run EXCEPT !.pc = pc, !.weak = weak, !.spec = s]
  PROVE  run' \in Run /\ InvRun'
<1>1. run \in Run
  BY DEF GenInv, GenTypeOK
<1>2. /\ run' \in Run
      /\ run'.pc = pc /\ run'.attempt = run.attempt
      /\ run'.contract = run.contract /\ run'.spec = s
      /\ run'.heard = run.heard
  BY <1>1 DEF Run, Pc
<1>3. HasPartial' <=> HasPartial
  BY <1>2 DEF HasPartial
<1>4. RunKept'
  BY <1>2, <1>3, GivenKnown DEF RunKept, GenInv, HasPartial
<1>5. Gated' /\ InLoop' /\ HintsSteer'
  BY <1>2 DEF Gated, InLoop, HintsSteer, GenInv, Made
<1>6. LoopExhausted' /\ RoundSteered'
  BY <1>2 DEF LoopExhausted, RoundSteered, GenInv, Made, HasPartial
<1> QED  BY <1>2, <1>4, <1>5, <1>6 DEF InvRun, FaqPlain

(* What can be saved, of a spec the run has at its end.                    *)
LEMMA FinishedSpec ==
  ASSUME NEW s \in [Field -> Origin]
  PROVE  /\ Finished(s) \in [Field -> Origin]
         /\ Finished(s)["h1"] # "none"
         /\ Finished(s)["faq"] # "none"
         /\ Finished(s)["ld"] = Finished(s)["faq"]
         /\ \A f \in Field \ {"h1", "h2", "faq", "ld"} :
              Finished(s)[f] = s[f]
         /\ s["h1"] # "none" => Finished(s)["h1"] = s["h1"]
         /\ s["faq"] # "other" => Finished(s)["faq"] # "other"
<1>1. /\ "h1" \in Field /\ "h2" \in Field /\ "faq" \in Field
      /\ "ld" \in Field /\ "hero" \in Field
  BY DEF Field, Section
<1>2. "stock" \in Origin /\ "none" \in Origin
  BY DEF Origin
<1> QED  BY <1>1, <1>2 DEF Finished

LEMMA FinishInv ==
  ASSUME GenInv, Finish
  PROVE  saved' \in Saved /\ InvSaved'
<1> DEFINE s == Finished(run.spec)
<1>1. /\ run \in Run /\ saved \in Saved
      /\ run.spec \in [Field -> Origin]
      /\ Made
  BY DEF GenInv, GenTypeOK, Run, Finish, Made
<1>2. CASE UNCHANGED saved
  BY <1>1, <1>2 DEF GenInv, InvSaved, ContractKept, SavedServable
<1>3. CASE /\ Allowed(s)
           /\ saved' = [v |-> saved.v + 1, contract |-> run.contract,
                        fed |-> run.fed, heard |-> run.heard, spec |-> s]
  <2>1. s \in [Field -> Origin]
    BY <1>1, FinishedSpec
  <2>2. /\ saved' \in Saved
        /\ saved'.contract = run.contract /\ saved'.spec = s
    BY <1>1, <1>3, <2>1 DEF Saved, Run
  <2>3. ContractKept'
    <3> SUFFICES ASSUME HasPartial
                 PROVE  \A f \in Given[run.contract.template] :
                          s[f] = "contract"
      BY <2>2 DEF ContractKept, HasPartial
    <3>1. \A f \in Given[run.contract.template] : run.spec[f] = "contract"
      BY <1>1 DEF GenInv, RunKept
    <3>2. /\ Given[run.contract.template] \subseteq Field
          /\ Given[run.contract.template] \intersect {"h2", "faq", "ld"} = {}
      BY GivenKnown DEF HasPartial, Lacking
    <3> QED  BY <1>1, <3>1, <3>2, FinishedSpec
  <2>4. SavedServable'
    BY <1>1, <1>3, <2>2, FinishedSpec DEF SavedServable, Allowed
  <2> QED  BY <2>2, <2>3, <2>4 DEF InvSaved
<1> QED  BY <1>2, <1>3 DEF Finish

(* Every step of the specification preserves the invariant.                *)
LEMMA GenNext ==
  ASSUME GenInv, [Next]_vars, QUALITY_THRESHOLD > 47
  PROVE  GenInv'
<1> USE DEF GenInv, GenTypeOK
<1>0. /\ run \in Run /\ saved \in Saved /\ contract \in Contract
      /\ run.spec \in [Field -> Origin] /\ run.weak \in SUBSET Section
      /\ Contracts \subseteq Contract /\ run.spec["faq"] # "other"
  BY GenerationAssumption DEF Run, FaqPlain
<1>1. ASSUME contract' \in Contract, feedback' \in BOOLEAN, runs' \in Nat,
             run' \in Run /\ InvRun', UNCHANGED saved
      PROVE  GenInv'
  BY <1>1, <1>0 DEF InvRun, ContractKept, SavedServable
<1>2. ASSUME UNCHANGED <<run, saved>>, contract' \in Contract,
             feedback' \in BOOLEAN, runs' \in Nat
      PROVE  GenInv'
  BY <1>1, <1>2, <1>0
  DEF InvRun, FaqPlain, Gated, InLoop, HintsSteer, RunKept, LoopExhausted,
      RoundSteered, Made, HasPartial
<1>3. CASE SaveContract
  BY <1>0, <1>2, <1>3 DEF SaveContract
<1>4. CASE SaveFeedback
  BY <1>0, <1>2, <1>4 DEF SaveFeedback
<1>5. CASE Invoke
  <2>1. run' = [Asleep EXCEPT !.pc = "load"]
    BY <1>5 DEF Invoke
  <2>2. Asleep \in Run
    BY DEF Asleep, Run, Pc, Contract, NoContract, Template, Hint, Blank,
           Origin
  <2>3. run' \in Run /\ run'.pc = "load" /\ run'.spec = Blank
    BY <2>1, <2>2 DEF Run, Pc, Asleep
  <2>4. FaqPlain'
    BY <2>3 DEF FaqPlain, Blank, Field, Section
  <2>5. InvRun'
    BY <2>3, <2>4 DEF InvRun, Gated, InLoop, HintsSteer, RunKept, LoopExhausted,
                RoundSteered, Made
  <2> QED  BY <1>1, <1>5, <2>3, <2>5, <1>0 DEF Invoke
<1>6. ASSUME Answered, UNCHANGED <<contract, feedback, saved, runs>>
      PROVE  GenInv'
  BY <1>1, <1>6, <1>0, AsleepInv DEF Answered
<1>7. CASE LoadContract
  <2>1. CASE Answered
    BY <1>6, <1>7, <2>1 DEF LoadContract
  <2>2. CASE /\ contract.ready
             /\ run' = [run EXCEPT !.pc = "feedback", !.contract = contract]
    <3>1. /\ run' \in Run /\ run'.pc = "feedback"
          /\ run'.contract = contract /\ run'.spec = run.spec
      BY <1>0, <2>2 DEF Run, Pc
    <3>2. InvRun'
      BY <2>2, <3>1
      DEF InvRun, FaqPlain, Gated, InLoop, HintsSteer, RunKept, LoopExhausted,
          RoundSteered, Made
    <3> QED  BY <1>0, <1>1, <1>7, <3>1, <3>2 DEF LoadContract
  <2> QED  BY <1>7, <2>1, <2>2 DEF LoadContract
<1>8. CASE LoadFeedback
  <2> DEFINE h == IF feedback THEN {"feedback"} ELSE {}
  <2>1. h \in SUBSET Hint
    BY DEF Hint
  <2>2. run' = [run EXCEPT !.pc = "generate", !.attempt = 1,
                           !.fed = feedback, !.hints = h]
    BY <1>8 DEF LoadFeedback
  <2> HIDE DEF h
  <2>3. /\ run' \in Run /\ run'.pc = "generate" /\ run'.attempt = 1
        /\ run'.contract = run.contract /\ run'.spec = run.spec
    BY <1>0, <2>1, <2>2 DEF Run, Pc
  <2>4. run.contract.ready
    BY <1>8 DEF LoadFeedback, Gated
  <2>5. InvRun'
    BY <2>3, <2>4, GenerationAssumption
    DEF InvRun, FaqPlain, Gated, InLoop, HintsSteer, RunKept, LoopExhausted,
        RoundSteered, Made
  <2> QED  BY <1>0, <1>1, <1>8, <2>3, <2>5 DEF LoadFeedback
<1>9. CASE Unparsable
  <2>1. CASE Answered
    BY <1>6, <1>9, <2>1 DEF Unparsable
  <2>2. CASE run.attempt < MAX_RETRIES /\ run' = Again(run, {"json"})
    <3>1. /\ run' \in Run /\ run'.pc = "generate"
          /\ run'.attempt = run.attempt + 1
          /\ run'.contract = run.contract /\ run'.hints = {"json"}
          /\ run'.spec = run.spec
      BY <1>0, <1>9, <2>2, AgainRun DEF Hint, Unparsable
    <3>2. run.contract.ready /\ run.attempt \in 1..MAX_RETRIES
      BY <1>9 DEF Unparsable, Gated, InLoop
    <3>3. InvRun'
      BY <2>2, <3>1, <3>2, GenerationAssumption
      DEF InvRun, FaqPlain, Gated, InLoop, HintsSteer, RunKept, LoopExhausted,
          RoundSteered, Made
    <3> QED  BY <1>0, <1>1, <1>9, <3>1, <3>3 DEF Unparsable
  <2> QED  BY <1>9, <2>1, <2>2 DEF Unparsable
<1>10. CASE Parsed
  BY <1>0, <1>1, <1>10, ParsedInv DEF Parsed
<1>11. ASSUME NEW pc \in {"faq", "qa", "seo", "finish"},
              NEW weak \in SUBSET Section, NEW s \in [Field -> Origin],
              Made, s["faq"] # "other",
              \A f \in Field \ Lacking : s[f] = run.spec[f],
              run' = [run EXCEPT !.pc = pc, !.weak = weak, !.spec = s],
              UNCHANGED <<contract, feedback, saved, runs>>
       PROVE  GenInv'
  BY <1>0, <1>1, <1>11, LaterInv
<1>12. CASE Judge
  <2>1. PICK pc \in {"faq", "finish"}, weak \in SUBSET Section :
          run' = [run EXCEPT !.pc = pc, !.weak = weak, !.spec = run.spec]
    <3>1. CASE run' = [run EXCEPT !.pc = "finish"]
      <4>1. run' = [run EXCEPT !.pc = "finish", !.weak = run.weak,
                               !.spec = run.spec]
        BY <1>0, <3>1 DEF Run
      <4> QED  BY <1>0, <4>1
    <3>2. CASE \E weak \in SUBSET {"faq", "qa", "seo", "ld"} \ {{}} :
                 run' = [run EXCEPT !.pc = "faq", !.weak = weak]
      <4>1. PICK weak \in SUBSET {"faq", "qa", "seo", "ld"} :
                 run' = [run EXCEPT !.pc = "faq", !.weak = weak]
        BY <3>2
      <4>2. run' = [run EXCEPT !.pc = "faq", !.weak = weak,
                               !.spec = run.spec]
        BY <1>0, <4>1 DEF Run
      <4>3. weak \in SUBSET Section
        BY DEF Section
      <4> QED  BY <4>2, <4>3
    <3> QED  BY <1>12, <3>1, <3>2 DEF Judge
  <2> QED  BY <1>0, <1>11, <1>12, <2>1 DEF Judge, Made
<1>13. ASSUME NEW section \in {"faq", "qa", "seo"},
              NEW next \in {"faq", "qa", "seo", "finish"},
              NEW s \in [Field -> Origin], s["faq"] # "other",
              \A f \in Field \ Lacking : s[f] = run.spec[f],
              Rewrite(section, next, s)
       PROVE  GenInv'
  <2>1. \/ run' = [run EXCEPT !.pc = next]
        \/ run' = [run EXCEPT !.pc = next, !.spec = s]
    BY <1>13 DEF Rewrite
  <2>2. PICK t \in {s, run.spec} :
          run' = [run EXCEPT !.pc = next, !.weak = run.weak, !.spec = t]
    BY <1>0, <2>1 DEF Run
  <2>3. Made /\ UNCHANGED <<contract, feedback, saved, runs>>
    BY <1>13 DEF Rewrite, Made
  <2>4. t \in [Field -> Origin] /\ t["faq"] # "other" /\ \A f \in Field \ Lacking : t[f] = run.spec[f]
    BY <1>0, <1>13, <2>2
  <2>5. run.weak \in SUBSET Section
    BY <1>0
  <2> QED  BY <1>11, <1>13, <2>2, <2>3, <2>4, <2>5
<1>14. CASE RewriteFaq
  <2> DEFINE s == [run.spec EXCEPT
                     !["faq"] = "new",
                     !["ld"] = IF @ \in {"none", "other"} THEN @ ELSE "new"]
  <2>1. /\ s \in [Field -> Origin] /\ s["faq"] # "other"
        /\ \A f \in Field \ Lacking : s[f] = run.spec[f]
    BY <1>0, FaqField DEF Origin, Lacking
  <2>2. Rewrite("faq", "qa", s)
    BY <1>14, Zenon DEF RewriteFaq
  <2> HIDE DEF s
  <2> QED  BY <1>13, <2>1, <2>2
<1>15. CASE RewriteQa
  <2>1. PICK text \in {"new", "poor"} :
          Rewrite("qa", "seo",
                  [run.spec EXCEPT !["qa"] = IF @ = "none" THEN @ ELSE text])
    BY <1>15, Zenon DEF RewriteQa
  <2> DEFINE s == [run.spec EXCEPT !["qa"] = IF @ = "none" THEN @ ELSE text]
  <2>2. /\ s \in [Field -> Origin] /\ s["faq"] # "other"
        /\ \A f \in Field \ Lacking : s[f] = run.spec[f]
    BY <1>0, FaqField DEF Origin, Lacking
  <2> HIDE DEF s
  <2>3. Rewrite("qa", "seo", s)
    BY <2>1 DEF s
  <2> QED  BY <1>13, <2>2, <2>3
<1>16. CASE RewriteSeo
  <2> DEFINE s == [run.spec EXCEPT !["seo"] = "new"]
  <2>1. /\ s \in [Field -> Origin] /\ s["faq"] # "other"
        /\ \A f \in Field \ Lacking : s[f] = run.spec[f]
    BY <1>0, FaqField DEF Origin, Lacking
  <2>2. Rewrite("seo", "finish", s)
    BY <1>16, Zenon DEF RewriteSeo
  <2> HIDE DEF s
  <2> QED  BY <1>13, <2>1, <2>2
<1>17. CASE Finish
  <2>1. run' \in Run /\ InvRun'
    BY <1>17, AsleepInv DEF Finish, Answered
  <2>2. saved' \in Saved /\ InvSaved'
    BY <1>17, FinishInv
  <2> QED  BY <1>0, <1>17, <2>1, <2>2 DEF Finish, InvRun, InvSaved
<1>18. CASE Fails
  BY <1>6, <1>18 DEF Fails
<1>19. CASE UNCHANGED vars
  BY <1>0, <1>2, <1>19 DEF vars
<1> QED
  BY <1>3, <1>4, <1>5, <1>7, <1>8, <1>9, <1>10, <1>12, <1>14, <1>15, <1>16,
     <1>17, <1>18, <1>19 DEF Next, Working

-----------------------------------------------------------------------------

THEOREM GenCorrect ==
  ASSUME QUALITY_THRESHOLD > 47
  PROVE  Spec => []GenInv
<1>1. Init => GenInv
  BY GenInit
<1>2. GenInv /\ [Next]_vars => GenInv'
  BY GenNext
<1> QED  BY <1>1, <1>2, PTL DEF Spec

(* The state of an invocation, of its prompt and of what it saves is       *)
(* well-formed.                                                            *)
THEOREM GenTypes ==
  ASSUME QUALITY_THRESHOLD > 47
  PROVE  Spec => []GenTypeOK
<1>1. GenInv => GenTypeOK
  BY DEF GenInv
<1> QED  BY <1>1, GenCorrect, PTL

(* What a partial spec took of the contract survives the merge of any      *)
(* answer, every rewritten section and the final fill into what is saved.  *)
THEOREM ContractIsKept ==
  ASSUME QUALITY_THRESHOLD > 47
  PROVE  Spec => []ContractKept
<1>1. GenInv => ContractKept
  BY DEF GenInv
<1> QED  BY <1>1, GenCorrect, PTL

(* The hints of a round are what its predecessor lacked.                   *)
THEOREM RoundsAreSteered ==
  ASSUME QUALITY_THRESHOLD > 47
  PROVE  Spec => []RoundSteered
<1>1. GenInv => RoundSteered
  BY DEF GenInv
<1> QED  BY <1>1, GenCorrect, PTL

(* Whatever the model answers, what is saved has what a build needs.       *)
THEOREM SavedIsServable ==
  ASSUME QUALITY_THRESHOLD > 47
  PROVE  Spec => []SavedServable
<1>1. GenInv => SavedServable
  BY DEF GenInv
<1> QED  BY <1>1, GenCorrect, PTL

-----------------------------------------------------------------------------
(* The refinement.                                                         *)

LEMMA PageOfPage ==
  ASSUME NEW s \in [Field -> Origin]
  PROVE  PageOf(s) \in Page
BY DEF PageOf, Page

LEMMA FinishMaps ==
  ASSUME GenInv, Finish
  PROVE  Service!Save \/ Service!GiveUp
<1>1. Phase = "loaded" /\ Phase' = "idle"
  BY DEF Finish, Answered, Asleep, Phase
<1>2. UNCHANGED contract
  BY DEF Finish
<1>3. CASE UNCHANGED saved
  BY <1>1, <1>2, <1>3 DEF Service!GiveUp
<1>4. CASE ~UNCHANGED saved
  <2> DEFINE s == Finished(run.spec)
  <2>1. saved'.spec = s
    BY <1>4 DEF Finish
  <2>2. run.spec \in [Field -> Origin] /\ run.spec["faq"] # "other"
    BY DEF GenInv, GenTypeOK, Run, FaqPlain
  <2>3. /\ s \in [Field -> Origin]
        /\ s["h1"] # "none" /\ s["ld"] \notin {"none", "other"}
    BY <2>2, FinishedSpec
  <2>4. PageOf(s) \in Page /\ PageOf(s).h1 = TRUE /\ PageOf(s).ld = "faq"
    BY <2>3, PageOfPage DEF PageOf
  <2> HIDE DEF s
  <2>5. Service!Fill(PageOf(s)) = PageOf(s)
    BY <2>4 DEF Service!Fill, Page
  <2>6. PageOf(s) \in Service!Page
    BY <2>4 DEF Page, Service!Page
  <2> QED  BY <1>1, <1>2, <2>1, <2>5, <2>6 DEF Service!Save
<1> QED  BY <1>3, <1>4

LEMMA StepMaps ==
  ASSUME GenInv, [Next]_vars
  PROVE  [Service!Next]_Service!vars
<1>1. /\ contract \in Contract /\ Contracts \subseteq Contract
      /\ run.pc \in Pc
  BY GenerationAssumption DEF GenInv, GenTypeOK, Run
<1>2. CASE SaveContract
  <2>1. contract'.ready \in BOOLEAN
    BY <1>1, <1>2 DEF SaveContract, Contract
  <2>2. UNCHANGED <<Phase, PageOf(saved.spec)>>
    BY <1>2 DEF SaveContract, Phase
  <2> QED  BY <2>1, <2>2 DEF Service!Next, Service!Replace
<1>3. CASE SaveFeedback \/ UNCHANGED vars
  <2>1. UNCHANGED <<contract.ready, Phase, PageOf(saved.spec)>>
    BY <1>3 DEF SaveFeedback, Phase, vars
  <2> QED  BY <2>1 DEF Service!vars
<1>4. CASE Invoke
  <2>1. /\ Phase = "idle" /\ Phase' = "called"
        /\ UNCHANGED <<contract.ready, PageOf(saved.spec)>>
    BY <1>4 DEF Invoke, Phase, Asleep
  <2> QED  BY <2>1 DEF Service!Next, Service!Call
<1>5. ASSUME run.pc # "idle", Answered, UNCHANGED <<contract, saved>>
      PROVE  [Service!Next]_Service!vars
  <2>1. /\ Phase # "idle" /\ Phase' = "idle"
        /\ UNCHANGED <<contract.ready, PageOf(saved.spec)>>
    BY <1>5 DEF Answered, Asleep, Phase
  <2> QED  BY <2>1 DEF Service!Next, Service!GiveUp
<1>6. ASSUME run.pc \notin {"idle", "load"}, run'.pc \notin {"idle", "load"},
             UNCHANGED <<contract, saved>>
      PROVE  [Service!Next]_Service!vars
  <2>1. UNCHANGED <<contract.ready, Phase, PageOf(saved.spec)>>
    BY <1>6 DEF Phase
  <2> QED  BY <2>1 DEF Service!vars
<1>7. CASE LoadContract
  <2>1. CASE Answered
    BY <1>5, <1>7, <2>1 DEF LoadContract
  <2>2. CASE /\ contract.ready
             /\ run' = [run EXCEPT !.pc = "feedback", !.contract = contract]
    <3>1. run'.pc = "feedback"
      BY <2>2 DEF GenInv, GenTypeOK, Run
    <3>2. /\ Phase = "called" /\ Phase' = "loaded"
          /\ UNCHANGED <<contract.ready, PageOf(saved.spec)>>
      BY <1>7, <3>1 DEF LoadContract, Phase
    <3>3. contract.ready = TRUE
      BY <1>1, <2>2 DEF Contract
    <3> QED  BY <3>2, <3>3 DEF Service!Next, Service!Load
  <2> QED  BY <1>7, <2>1, <2>2 DEF LoadContract
<1>8. CASE LoadFeedback
  <2>1. run'.pc = "generate"
    BY <1>8 DEF LoadFeedback, GenInv, GenTypeOK, Run
  <2> QED  BY <1>6, <1>8, <2>1 DEF LoadFeedback
<1>9. CASE Unparsable
  <2>1. CASE Answered
    BY <1>5, <1>9, <2>1 DEF Unparsable
  <2>2. CASE run' = Again(run, {"json"})
    BY <1>6, <1>9, <2>2, AgainRun DEF Unparsable, GenInv, GenTypeOK, Hint
  <2> QED  BY <1>9, <2>1, <2>2 DEF Unparsable
<1>10. CASE Parsed
  <2>1. run'.pc \in {"generate", "judge"}
    <3>1. PICK answer \in Answers :
             \/ run' = [Taken(answer) EXCEPT !.pc = "judge",
                                             !.spec["ids"] = "contract"]
             \/ run' = Again(Taken(answer), Issues(Taken(answer).spec))
      BY <1>10 DEF Parsed
    <3> QED
      BY <1>10, <3>1 DEF Again, Taken, Parsed, GenInv, GenTypeOK, Run
  <2> QED  BY <1>6, <1>10, <2>1 DEF Parsed
<1>11. CASE Judge
  <2>1. run'.pc \in {"faq", "finish"}
    BY <1>11 DEF Judge, GenInv, GenTypeOK, Run
  <2> QED  BY <1>6, <1>11, <2>1 DEF Judge
<1>12. ASSUME NEW section \in {"faq", "qa", "seo"},
              NEW next \in {"qa", "seo", "finish"}, NEW s,
              Rewrite(section, next, s)
       PROVE  [Service!Next]_Service!vars
  <2>1. run'.pc = next
    BY <1>12 DEF Rewrite, GenInv, GenTypeOK, Run
  <2> QED  BY <1>6, <1>12, <2>1 DEF Rewrite
<1>13. CASE RewriteFaq \/ RewriteQa \/ RewriteSeo
  BY <1>12, <1>13, Zenon DEF RewriteFaq, RewriteQa, RewriteSeo
<1>14. CASE Finish
  BY <1>14, FinishMaps DEF Service!Next
<1>15. CASE Fails
  BY <1>5, <1>15 DEF Fails
<1> QED
  BY <1>2, <1>3, <1>4, <1>7, <1>8, <1>9, <1>10, <1>11, <1>13, <1>14, <1>15
  DEF Next, Working

(* run_generation is the service the pipeline counts on: every run saves   *)
(* one filled page of a contract that was ready when it read it, or        *)
(* nothing.                                                                *)
THEOREM GenerationImplements ==
  ASSUME QUALITY_THRESHOLD > 47
  PROVE  Spec => Implements
<1>1. Init => Service!Init
  <2> SUFFICES ASSUME Init PROVE Service!Init
    OBVIOUS
  <2>1. contract.ready \in BOOLEAN
    BY GenerationAssumption DEF Init, Contract
  <2>2. Phase = "idle"
    BY DEF Init, Asleep, Phase
  <2>3. PageOf(saved.spec) = Service!NoPage
    BY DEF Init, PageOf, Blank, Service!NoPage, Field, Section
  <2> QED  BY <2>1, <2>2, <2>3 DEF Service!Init
<1>2. GenInv /\ [Next]_vars => [Service!Next]_Service!vars
  BY StepMaps
<1> QED
  BY <1>1, <1>2, GenCorrect, PTL DEF Spec, Implements, Service!Spec

=============================================================================
