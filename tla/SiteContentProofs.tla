-------------------------- MODULE SiteContentProofs --------------------------
(***************************************************************************)
(* What holds of the content of a site for every number of overlapping     *)
(* executions, every answer of the models and every value of the limits.   *)
(***************************************************************************)
EXTENDS SiteContent, TLAPS

-----------------------------------------------------------------------------
(* Types.                                                                  *)

LEMMA Constants ==
  /\ NoPage \in Page
  /\ NoSpec \in Spec0
  /\ NoRun \in Execution
  /\ Asleep \in GenSession
  /\ NoVal \in ValSession
  /\ NoJob \in Job
<1>1. NoPage \in Page
  BY DEF NoPage, Page
<1>2. NoSpec \in Spec0
  BY <1>1 DEF NoSpec, Spec0
<1>3. NoRun \in Execution
  BY DEF NoRun, Execution
<1>4. Asleep \in GenSession
  BY DEF Asleep, GenSession
<1>5. NoVal \in ValSession
  BY <1>2 DEF NoVal, ValSession
<1>6. NoJob \in Job
  BY <1>2 DEF NoJob, Job
<1>. QED BY <1>1, <1>2, <1>3, <1>4, <1>5, <1>6

(* What is computed of pages is a page, an index.html, a set of issues.    *)
LEMMA RulesType ==
  /\ \A p \in Page : Fill(p) \in Page /\ Render(p) \in Html
  /\ \A p \in Page, codes \in SUBSET Code : Applied(p, codes) \in SUBSET Code
  /\ \A p \in Page, codes \in SUBSET Code, ld \in {"other", "faq"} :
       Patched(p, codes, ld) \in Page
  /\ \A exists, llms \in BOOLEAN, html \in Html :
       Layer3(exists, html, llms) \in SUBSET Code
  /\ \A c \in Contract : Layer2(c) \in SUBSET Demands
  /\ Demands \subseteq Code
<1>1. ASSUME NEW p \in Page
      PROVE  Fill(p) \in Page
  <2>. DEFINE p1 == [p EXCEPT !.h1 = TRUE]
  <2>1. p1 \in Page
    BY DEF Page
  <2>2. Fill(p) = [p1 EXCEPT !.ld = "faq"]
    BY DEF Fill
  <2>. HIDE DEF p1
  <2>. QED BY <2>1, <2>2 DEF Page
<1>2. ASSUME NEW p \in Page
      PROVE  Render(p) \in Html
  <2>1. /\ p.h1 \in BOOLEAN /\ TemplateH1 \in BOOLEAN
        /\ p.ld \in {"none", "other", "faq"}
    BY RulesAssumption DEF Page
  <2>. QED BY <2>1, Zenon DEF Render, Html
<1>3. \A p \in Page, codes \in SUBSET Code :
        Applied(p, codes) \in SUBSET Code
  BY DEF Applied
<1>4. ASSUME NEW p \in Page, NEW codes \in SUBSET Code,
             NEW ld \in {"other", "faq"}
      PROVE  Patched(p, codes, ld) \in Page
  <2>. DEFINE q == Patched(p, codes, ld)
  <2>1. /\ p.h1 \in BOOLEAN /\ p.title \in {"none", "blank", "text"}
        /\ p.ld \in {"none", "other", "faq"}
        /\ p.supp \in {"none", "some", "llms"}
    BY DEF Page
  <2>2. (p.h1 \/ "NO_H1" \in codes) \in BOOLEAN
    BY <2>1, Zenon
  <2>3. /\ (IF "NO_TITLE_TAG" \in codes THEN "text" ELSE p.title)
             \in {"none", "blank", "text"}
        /\ (IF codes \intersect {"NO_JSONLD", "NO_FAQ_PAGE_JSONLD"} # {}
            THEN ld ELSE p.ld) \in {"none", "other", "faq"}
        /\ (IF "NO_LLMS_TXT" \in codes THEN "llms" ELSE p.supp)
             \in {"none", "some", "llms"}
    BY <2>1
  <2>. QED BY <2>2, <2>3, Zenon DEF Patched, Page
<1>5. ASSUME NEW exists \in BOOLEAN, NEW llms \in BOOLEAN, NEW html \in Html
      PROVE  Layer3(exists, html, llms) \in SUBSET Code
  BY DEF Layer3, Code
<1>6. \A c \in Contract : Layer2(c) \in SUBSET Demands
  BY DEF Layer2
<1>7. Demands \subseteq Code
  BY DEF Code
<1>. QED BY <1>1, <1>2, <1>3, <1>4, <1>5, <1>6, <1>7

LEMMA InitType == Init => ContentTypeOK
<1>. SUFFICES ASSUME Init PROVE ContentTypeOK
  OBVIOUS
<1>1. site \in Site
  <2>1. Render(NoPage) \in Html
    BY Constants, RulesType
  <2>. QED BY <2>1 DEF Init, Site
<1>2. contract \in Contract
  BY ContentAssumption DEF Init
<1>. QED BY <1>1, <1>2, Constants DEF Init, ContentTypeOK

-----------------------------------------------------------------------------
(* The helpers of the actions.                                             *)

(* An execution that ends is idle, the others stay as they are.            *)
LEMMA EndedType ==
  ASSUME ContentTypeOK, NEW e \in Exec
  PROVE  /\ Ended(e) \in [Exec -> Execution]
         /\ Ended(e)[e].at = "idle"
         /\ Ended(e)[e].from = exec[e].from
         /\ Ended(e)[e].run = exec[e].run
         /\ \A d \in Exec \ {e} : Ended(e)[d] = exec[d]
<1>. DEFINE x1 == [exec EXCEPT ![e].at = "idle"]
            x2 == [x1 EXCEPT ![e].tries = 0]
<1>1. exec \in [Exec -> Execution]
  BY DEF ContentTypeOK
<1>2. /\ x1 \in [Exec -> Execution] /\ x1[e].at = "idle"
      /\ x1[e].from = exec[e].from /\ x1[e].run = exec[e].run
      /\ \A d \in Exec \ {e} : x1[d] = exec[d]
  BY <1>1 DEF Execution
<1>3. Ended(e) = x2
  BY DEF Ended
<1>. HIDE DEF x1
<1>4. /\ x2 \in [Exec -> Execution] /\ x2[e].at = "idle"
      /\ x2[e].from = x1[e].from /\ x2[e].run = x1[e].run
      /\ \A d \in Exec \ {e} : x2[d] = x1[d]
  BY <1>2 DEF Execution
<1>. HIDE DEF x2
<1>. QED BY <1>2, <1>3, <1>4

(* So does one that goes on to its next task.                              *)
LEMMA AdvancedType ==
  ASSUME ContentTypeOK, NEW e \in Exec, NEW pc \in {"build", "validation"}
  PROVE  LET x == [exec EXCEPT ![e].at = pc, ![e].tries = 0]
         IN  /\ x \in [Exec -> Execution]
             /\ x[e].at = pc
             /\ x[e].from = exec[e].from
             /\ x[e].run = exec[e].run
             /\ \A d \in Exec \ {e} : x[d] = exec[d]
<1>. DEFINE x1 == [exec EXCEPT ![e].at = pc]
            x2 == [x1 EXCEPT ![e].tries = 0]
<1>1. exec \in [Exec -> Execution]
  BY DEF ContentTypeOK
<1>2. /\ x1 \in [Exec -> Execution] /\ x1[e].at = pc
      /\ x1[e].from = exec[e].from /\ x1[e].run = exec[e].run
      /\ \A d \in Exec \ {e} : x1[d] = exec[d]
  BY <1>1 DEF Execution
<1>3. [exec EXCEPT ![e].at = pc, ![e].tries = 0] = x2
  OBVIOUS
<1>. HIDE DEF x1
<1>4. /\ x2 \in [Exec -> Execution] /\ x2[e].at = pc
      /\ x2[e].from = x1[e].from /\ x2[e].run = x1[e].run
      /\ \A d \in Exec \ {e} : x2[d] = x1[d]
  BY <1>2 DEF Execution
<1>. HIDE DEF x2
<1>. QED BY <1>2, <1>3, <1>4

LEMMA TriesType ==
  ASSUME ContentTypeOK, NEW e \in Exec
  PROVE  LET x == [exec EXCEPT ![e].tries = exec[e].tries + 1]
         IN  /\ x \in [Exec -> Execution]
             /\ x[e].at = exec[e].at
             /\ x[e].from = exec[e].from
             /\ x[e].run = exec[e].run
             /\ \A d \in Exec \ {e} : x[d] = exec[d]
<1>1. exec \in [Exec -> Execution]
  BY DEF ContentTypeOK
<1>. QED BY <1>1 DEF Execution

LEMMA SessionType ==
  \A n \in Nat : /\ [Asleep EXCEPT !.left = n] \in GenSession
                 /\ [Asleep EXCEPT !.left = n].left = n
                 /\ [Asleep EXCEPT !.left = n].loaded = FALSE
BY DEF Asleep, GenSession

LEMMA BeginType ==
  ASSUME ContentTypeOK, NEW e \in Exec, NEW from \in Nat, Begin(e, from)
  PROVE  /\ runs' \in Nat
         /\ exec' \in [Exec -> Execution]
         /\ gen' \in [Exec -> GenSession]
         /\ exec'[e].at = "generation" /\ exec'[e].from = from
         /\ gen'[e].left = 1 /\ gen'[e].loaded = FALSE
         /\ \A d \in Exec \ {e} : exec'[d] = exec[d] /\ gen'[d] = gen[d]
<1>1. /\ exec \in [Exec -> Execution] /\ gen \in [Exec -> GenSession]
      /\ runs \in Nat
  BY DEF ContentTypeOK
<1>. DEFINE x == [at |-> "generation", tries |-> 0, run |-> runs + 1,
                  from |-> from]
            g == [Asleep EXCEPT !.left = 1]
<1>2. x \in Execution /\ x.at = "generation" /\ x.from = from
  BY <1>1 DEF Execution
<1>3. g \in GenSession /\ g.left = 1 /\ g.loaded = FALSE
  BY SessionType
<1>4. /\ exec' = [exec EXCEPT ![e] = x]
      /\ gen' = [gen EXCEPT ![e] = g]
      /\ runs' = runs + 1
  BY DEF Begin
<1>. HIDE DEF x, g
<1>. QED BY <1>1, <1>2, <1>3, <1>4

(* A round that begins: the validation of a build that succeeded, or the   *)
(* one after the round of a validation.                                    *)
LEMMA RoundType ==
  ASSUME NEW n \in Nat, NEW applied \in SUBSET Code, NEW rebuilt \in BOOLEAN
  PROVE  /\ Round(n, applied, rebuilt) \in ValSession
         /\ Round(n, applied, rebuilt).pc = "fetch"
         /\ Round(n, applied, rebuilt).rebuilt = rebuilt
BY Constants DEF Round, ValSession

LEMMA NextRoundType ==
  ASSUME ContentTypeOK, NEW e \in Exec, NEW applied \in SUBSET Code,
         NEW rebuilt \in BOOLEAN, NextRound(e, applied, rebuilt)
  PROVE  /\ val' \in [Exec -> ValSession]
         /\ val'[e].pc = "fetch"
         /\ val'[e].rebuilt = rebuilt
         /\ val'[e].applied = applied
         /\ val'[e].listed = FALSE
         /\ val'[e].issues = {}
         /\ \A d \in Exec \ {e} : val'[d] = val[d]
<1>1. val \in [Exec -> ValSession]
  BY DEF ContentTypeOK
<1>2. val[e].round + 1 \in Nat
  BY <1>1 DEF ValSession
<1>3. PICK n \in Nat : n = val[e].round + 1
  BY <1>2
<1>4. val'[e] = Round(n, applied, rebuilt)
  BY <1>1, <1>3 DEF NextRound
<1>5. Round(n, applied, rebuilt) \in ValSession
  BY RoundType
<1>6. /\ val' \in [Exec -> ValSession]
      /\ \A d \in Exec \ {e} : val'[d] = val[d]
  BY <1>1, <1>3, <1>5 DEF NextRound
<1>. QED BY <1>4, <1>6 DEF Round

(* A verdict puts the session to rest.                                     *)
LEMMA VerdictType ==
  ASSUME ContentTypeOK, NEW e \in Exec, Verdict(e)
  PROVE  /\ val' \in [Exec -> ValSession]
         /\ val'[e].pc = "idle" /\ val'[e].issues = {}
         /\ val'[e].applied = {} /\ val'[e].rebuilt = FALSE
         /\ \A d \in Exec \ {e} : val'[d] = val[d]
<1>1. /\ NoVal \in ValSession /\ NoVal.pc = "idle" /\ NoVal.issues = {}
      /\ NoVal.applied = {} /\ NoVal.rebuilt = FALSE
  BY Constants DEF NoVal
<1>. QED BY <1>1 DEF Verdict, ContentTypeOK

LEMMA AskType ==
  ASSUME ContentTypeOK, NEW e \in Exec, NEW n \in Nat, Ask(e, n)
  PROVE  /\ asked' \subseteq Exec
         /\ want' \in [Exec -> Nat]
         /\ want'[e] = n
         /\ \A d \in Exec \ {e} : want'[d] = want[d]
BY DEF Ask, ContentTypeOK

LEMMA GenAnswersType ==
  ASSUME ContentTypeOK, NEW e \in Exec, NEW ok \in BOOLEAN, NEW n \in Nat,
         gen[e].left > 0, GenAnswers(e, ok, n)
  PROVE  /\ exec' \in [Exec -> Execution]
         /\ gen' \in [Exec -> GenSession]
         /\ asked' \subseteq Exec
         /\ want' \in [Exec -> Nat]
         /\ gen'[e].left = gen[e].left - 1 /\ gen'[e].loaded = FALSE
         /\ exec'[e].from = exec[e].from
         /\ \/ /\ exec[e].at = "generation" /\ gen[e].left = 1
               /\ exec'[e].at \in {"build", "idle"}
            \/ /\ exec[e].at # "generation" \/ gen[e].left > 1
               /\ exec'[e].at = exec[e].at
         /\ \A d \in Exec \ {e} : exec'[d] = exec[d] /\ gen'[d] = gen[d]
<1>1. gen \in [Exec -> GenSession] /\ gen[e].left - 1 \in Nat
  BY DEF ContentTypeOK, GenSession
<1>2. /\ gen' \in [Exec -> GenSession]
      /\ gen'[e].left = gen[e].left - 1 /\ gen'[e].loaded = FALSE
      /\ \A d \in Exec \ {e} : gen'[d] = gen[d]
  <2>. DEFINE g == [Asleep EXCEPT !.left = gen[e].left - 1]
  <2>1. /\ g \in GenSession /\ g.left = gen[e].left - 1
        /\ g.loaded = FALSE
    BY <1>1, SessionType
  <2>2. gen' = [gen EXCEPT ![e] = g]
    BY DEF GenAnswers
  <2>. HIDE DEF g
  <2>. QED BY <1>1, <2>1, <2>2
<1>3. CASE /\ exec[e].at = "generation" /\ gen[e].left = 1
           /\ exec' = Ended(e) /\ UNCHANGED <<asked, want>>
  BY <1>2, <1>3, EndedType DEF ContentTypeOK
<1>4. CASE /\ exec[e].at = "generation" /\ gen[e].left = 1
           /\ exec' = [exec EXCEPT ![e].at = "build", ![e].tries = 0]
           /\ Ask(e, n)
  <2>1. /\ exec' \in [Exec -> Execution]
        /\ exec'[e].at = "build" /\ exec'[e].from = exec[e].from
        /\ \A d \in Exec \ {e} : exec'[d] = exec[d]
    BY <1>4, AdvancedType
  <2>2. asked' \subseteq Exec /\ want' \in [Exec -> Nat]
    BY <1>4, AskType
  <2>. QED BY <1>2, <1>4, <2>1, <2>2
<1>5. CASE /\ exec[e].at # "generation" \/ gen[e].left > 1
           /\ UNCHANGED <<exec, asked, want>>
  BY <1>2, <1>5 DEF ContentTypeOK
<1>. QED BY <1>3, <1>4, <1>5 DEF GenAnswers

(* A build that is answered concerns the one that asked for it.            *)
LEMMA BuildAnswersType ==
  ASSUME ContentTypeOK, NEW who \in Exec \union {Nobody}, NEW ok \in BOOLEAN,
         BuildAnswers(who, ok)
  PROVE  /\ exec' \in [Exec -> Execution]
         /\ val' \in [Exec -> ValSession]
         /\ \A d \in Exec \ {who} : exec'[d] = exec[d] /\ val'[d] = val[d]
         /\ \/ val' = val
            \/ /\ ok = TRUE /\ who \in Exec /\ exec[who].at = "build"
               /\ val'[who] = Round(1, {}, FALSE)
            \/ /\ who \in Exec /\ val[who].pc = "rebuilding"
               /\ val'[who] = Round(val[who].round + 1, val[who].applied, ok)
<1>0. exec \in [Exec -> Execution] /\ val \in [Exec -> ValSession]
  BY DEF ContentTypeOK
<1>1. CASE who = Nobody /\ UNCHANGED <<exec, val>>
  BY <1>0, <1>1
<1>2. CASE /\ who \in Exec /\ ok = TRUE /\ exec[who].at = "build"
           /\ exec' = [exec EXCEPT ![who].at = "validation", ![who].tries = 0]
           /\ val' = [val EXCEPT ![who] = Round(1, {}, FALSE)]
  <2>1. Round(1, {}, FALSE) \in ValSession
    BY RoundType
  <2>2. /\ val' \in [Exec -> ValSession]
        /\ \A d \in Exec \ {who} : val'[d] = val[d]
        /\ val'[who] = Round(1, {}, FALSE)
    BY <1>0, <1>2, <2>1
  <2>. QED BY <1>2, <2>2, AdvancedType
<1>3. CASE who \in Exec /\ exec' = Ended(who) /\ UNCHANGED val
  BY <1>0, <1>3, EndedType
<1>4. CASE /\ who \in Exec /\ val[who].pc = "rebuilding"
           /\ NextRound(who, val[who].applied, ok)
           /\ UNCHANGED exec
  <2>1. val[who].applied \in SUBSET Code
    BY <1>0, <1>4 DEF ValSession
  <2>2. val'[who] = Round(val[who].round + 1, val[who].applied, ok)
    BY <1>0, <1>4 DEF NextRound
  <2>. QED BY <1>0, <1>4, <2>1, <2>2, NextRoundType
<1>. QED BY <1>1, <1>2, <1>3, <1>4 DEF BuildAnswers

LEMMA HangUpType ==
  ASSUME ContentTypeOK, NEW e \in Exec, HangUp(e)
  PROVE  /\ strays' \in Nat
         /\ thread' \in [Thread -> Job]
         /\ \A t \in Thread :
              /\ thread'[t].at = thread[t].at
              /\ thread'[t].spec = thread[t].spec
              /\ thread'[t].for # e
              /\ thread'[t].for = thread[t].for \/ thread'[t].for = Nobody
<1>1. strays \in Nat /\ thread \in [Thread -> Job]
  BY DEF ContentTypeOK
<1>2. strays' \in Nat
  BY <1>1 DEF HangUp, Abandoned
<1>3. \A j \in Job : LET k == [j EXCEPT !.for = Nobody]
                     IN  /\ k \in Job /\ k.at = j.at /\ k.spec = j.spec
                         /\ k.for = Nobody
  BY DEF Job
<1>4. Nobody # e
  BY ContentAssumption
<1>. QED BY <1>1, <1>2, <1>3, <1>4 DEF HangUp

LEMMA FailAnsweredType ==
  ASSUME ContentTypeOK, NEW e \in Exec, FailAnswered(e)
  PROVE  /\ exec' \in [Exec -> Execution]
         /\ runs' \in Nat
         /\ gen' \in [Exec -> GenSession]
         /\ \A d \in Exec \ {e} : exec'[d] = exec[d]
         /\ \A d \in Exec \ {e} : gen'[d] = gen[d]
         /\ \/ exec[e].at # "validation" /\ exec' = exec /\ gen' = gen
            \/ /\ exec[e].at = "validation"
               /\ exec'[e].at = "idle" /\ gen' = gen
            \/ /\ exec[e].at = "validation"
               /\ exec'[e].at = "generation"
               /\ exec'[e].from = exec[e].run
               /\ gen'[e].left = 1 /\ gen'[e].loaded = FALSE
<1>1. exec[e].run \in Nat
  BY DEF ContentTypeOK, Execution
<1>2. CASE exec[e].at # "validation" /\ UNCHANGED <<exec, runs, gen>>
  BY <1>2 DEF ContentTypeOK
<1>3. CASE exec[e].at = "validation" /\ Begin(e, exec[e].run)
  BY <1>1, <1>3, BeginType
<1>4. CASE /\ exec[e].at = "validation" 
           /\ exec' = Ended(e) /\ UNCHANGED <<runs, gen>>
  BY <1>4, EndedType DEF ContentTypeOK
<1>. QED BY <1>2, <1>3, <1>4 DEF FailAnswered

-----------------------------------------------------------------------------
(* Every step keeps the types.                                             *)

LEMMA GenType ==
  ASSUME ContentTypeOK, NEW e \in Exec,
         GenLoad(e) \/ GenSkip(e) \/ GenSave(e) \/ GenFails(e)
           \/ GenTimeout(e)
  PROVE  ContentTypeOK'
<1>0. /\ gen \in [Exec -> GenSession] /\ feedback \in Nat
      /\ spec \in Spec0 /\ spec.v \in Nat
      /\ exec \in [Exec -> Execution]
  BY DEF ContentTypeOK, Spec0
<1>1. ASSUME GenLoad(e)
      PROVE  ContentTypeOK'
  <2>. DEFINE g1 == [gen EXCEPT ![e].loaded = TRUE]
              g2 == [g1 EXCEPT ![e].hints = feedback]
  <2>1. g1 \in [Exec -> GenSession]
    BY <1>0 DEF GenSession
  <2>2. gen' = g2
    BY <1>1 DEF GenLoad
  <2>. HIDE DEF g1
  <2>3. g2 \in [Exec -> GenSession]
    BY <1>0, <2>1 DEF GenSession
  <2>. HIDE DEF g2
  <2>. QED BY <1>1, <2>2, <2>3 DEF GenLoad, stored, worker, ContentTypeOK
<1>2. ASSUME GenSkip(e)
      PROVE  ContentTypeOK'
  <2>1. gen[e].left > 0 /\ GenAnswers(e, TRUE, spec.v)
    BY <1>2 DEF GenSkip
  <2>2. /\ exec' \in [Exec -> Execution]
        /\ gen' \in [Exec -> GenSession]
        /\ asked' \subseteq Exec
        /\ want' \in [Exec -> Nat]
    BY <1>0, <2>1, GenAnswersType
  <2>. QED BY <1>2, <2>2 DEF GenSkip, stored, ContentTypeOK
<1>3. ASSUME GenSave(e)
      PROVE  ContentTypeOK'
  <2>3. gen[e].left > 0 /\ GenAnswers(e, TRUE, spec.v + 1)
    BY <1>3, Zenon DEF GenSave
  <2>4. spec.v + 1 \in Nat
    BY <1>0
  <2>1. /\ exec' \in [Exec -> Execution]
        /\ gen' \in [Exec -> GenSession]
        /\ asked' \subseteq Exec
        /\ want' \in [Exec -> Nat]
    BY <2>3, <2>4, GenAnswersType
  <2>2. spec' \in Spec0
    BY <1>0, <1>3, ContentAssumption, RulesType DEF GenSave, Spec0
  <2>. QED BY <1>3, <2>1, <2>2 DEF GenSave, ContentTypeOK
<1>4. ASSUME GenFails(e)
      PROVE  ContentTypeOK'
  <2>1. gen[e].left > 0 /\ GenAnswers(e, FALSE, spec.v)
    BY <1>4 DEF GenFails
  <2>2. /\ exec' \in [Exec -> Execution]
        /\ gen' \in [Exec -> GenSession]
        /\ asked' \subseteq Exec
        /\ want' \in [Exec -> Nat]
    BY <1>0, <2>1, GenAnswersType
  <2>. QED BY <1>4, <2>2 DEF GenFails, stored, ContentTypeOK
<1>5. ASSUME GenTimeout(e)
      PROVE  ContentTypeOK'
  <2>1. [gen EXCEPT ![e].left = gen[e].left + 1] \in [Exec -> GenSession]
    BY <1>0 DEF GenSession
  <2>2. CASE /\ exec' = [exec EXCEPT ![e].tries = exec[e].tries + 1]
             /\ gen' = [gen EXCEPT ![e].left = gen[e].left + 1]
    BY <1>5, <2>1, <2>2, TriesType
         DEF GenTimeout, stored, worker, ContentTypeOK
  <2>3. CASE exec' = Ended(e) /\ UNCHANGED gen
    BY <1>5, <2>3, EndedType DEF GenTimeout, stored, worker, ContentTypeOK
  <2>. QED BY <1>5, <2>2, <2>3 DEF GenTimeout
<1>. QED BY <1>1, <1>2, <1>3, <1>4, <1>5

LEMMA BuildType ==
  ASSUME ContentTypeOK, NEW t \in Thread, NEW who \in Exec \union {Nobody},
         BuildLoad(t, who) \/ PutHtml(t) \/ PutGeo(t) \/ BuildFails(t)
  PROVE  ContentTypeOK'
<1>0. /\ thread \in [Thread -> Job] /\ thread[t] \in Job
      /\ thread[t].for \in Exec \union {Nobody}
      /\ thread[t].spec \in Spec0 /\ thread[t].spec.v \in Nat
      /\ thread[t].spec.gen \in Nat /\ thread[t].spec.page \in Page
      /\ spec \in Spec0 /\ site \in Site
      /\ strays \in Nat
  BY DEF ContentTypeOK, Job, Spec0
<1>1. ASSUME BuildLoad(t, who)
      PROVE  ContentTypeOK'
  <2>1. asked' \subseteq Exec /\ strays' \in Nat
    BY <1>0, <1>1 DEF BuildLoad, ContentTypeOK
  <2>2. CASE /\ thread' = [thread EXCEPT ![t] =
                             [at |-> "html", for |-> who, spec |-> spec]]
             /\ UNCHANGED <<exec, val>>
    <3>1. [at |-> "html", for |-> who, spec |-> spec] \in Job
      BY <1>0 DEF Job
    <3>2. thread' \in [Thread -> Job]
      BY <1>0, <2>2, <3>1
    <3>. QED BY <1>1, <2>1, <2>2, <3>2 DEF BuildLoad, stored, ContentTypeOK
  <2>3. CASE BuildAnswers(who, FALSE) /\ UNCHANGED thread
    <3>1. exec' \in [Exec -> Execution] /\ val' \in [Exec -> ValSession]
      BY <2>3, BuildAnswersType
    <3>. QED BY <1>1, <2>1, <2>3, <3>1 DEF BuildLoad, stored, ContentTypeOK
  <2>. QED BY <1>1, <2>2, <2>3 DEF BuildLoad
<1>2. ASSUME PutHtml(t)
      PROVE  ContentTypeOK'
  <2>1. site' \in Site
    <3>. DEFINE s == thread[t].spec
                s1 == [site EXCEPT !.v = s.v]
                s2 == [s1 EXCEPT !.gen = s.gen]
                s3 == [s2 EXCEPT !.html = Render(s.page)]
    <3>1. s1 \in Site
      BY <1>0 DEF Site
    <3>2. site' = s3
      BY <1>2 DEF PutHtml
    <3>. HIDE DEF s1
    <3>3. s2 \in Site
      BY <1>0, <3>1 DEF Site
    <3>. HIDE DEF s2
    <3>4. Render(s.page) \in Html
      BY <1>0, RulesType
    <3>5. s3 \in Site
      BY <3>3, <3>4 DEF Site
    <3>. QED BY <3>2, <3>5
  <2>2. thread' \in [Thread -> Job]
    BY <1>0, <1>2 DEF PutHtml, Job
  <2>. QED BY <1>2, <2>1, <2>2 DEF PutHtml, ContentTypeOK
<1>3. ASSUME PutGeo(t)
      PROVE  ContentTypeOK'
  <2>1. site' \in Site
    <3>. DEFINE s == thread[t].spec
                g == IF s.page.supp = "none" THEN site.geo ELSE s.v
                l == site.llms \/ s.page.supp = "llms"
                s1 == [site EXCEPT !.geo = g]
                s2 == [s1 EXCEPT !.llms = l]
    <3>1. g \in Nat
      BY <1>0 DEF Site
    <3>2. site.llms \in BOOLEAN
      BY <1>0 DEF Site
    <3>3. l \in BOOLEAN
      BY <3>2, Zenon
    <3>4. site' = s2
      BY <1>3 DEF PutGeo
    <3>. HIDE DEF g, l
    <3>5. s1 \in Site
      BY <1>0, <3>1 DEF Site
    <3>. HIDE DEF s1
    <3>6. s2 \in Site
      BY <3>3, <3>5 DEF Site
    <3>. QED BY <3>4, <3>6
  <2>2. thread' \in [Thread -> Job]
    BY <1>0, <1>3, Constants DEF PutGeo
  <2>3. exec' \in [Exec -> Execution] /\ val' \in [Exec -> ValSession]
    BY <1>0, <1>3, BuildAnswersType DEF PutGeo
  <2>. QED BY <1>3, <2>1, <2>2, <2>3 DEF PutGeo, ContentTypeOK
<1>4. ASSUME BuildFails(t)
      PROVE  ContentTypeOK'
  <2>1. site' \in Site
    BY <1>0, <1>4 DEF BuildFails, Site
  <2>2. thread' \in [Thread -> Job]
    BY <1>0, <1>4, Constants DEF BuildFails
  <2>3. exec' \in [Exec -> Execution] /\ val' \in [Exec -> ValSession]
    BY <1>0, <1>4, BuildAnswersType DEF BuildFails
  <2>. QED BY <1>4, <2>1, <2>2, <2>3 DEF BuildFails, ContentTypeOK
<1>. QED BY <1>1, <1>2, <1>3, <1>4

LEMMA QueueType ==
  ASSUME ContentTypeOK, NEW e \in Exec,
         Unreachable(e) \/ BuildTimeout(e) \/ RebuildTimeout(e)
  PROVE  ContentTypeOK'
<1>0. /\ spec.v \in Nat /\ asked \subseteq Exec /\ strays \in Nat
      /\ val \in [Exec -> ValSession] /\ val[e].applied \in SUBSET Code
  BY DEF ContentTypeOK, Spec0, ValSession
<1>1. ASSUME Unreachable(e)
      PROVE  ContentTypeOK'
  <2>1. exec' \in [Exec -> Execution] /\ val' \in [Exec -> ValSession]
    BY <1>1, BuildAnswersType DEF Unreachable
  <2>. QED BY <1>1, <2>1 DEF Unreachable, stored, ContentTypeOK
<1>2. ASSUME BuildTimeout(e)
      PROVE  ContentTypeOK'
  <2>1. strays' \in Nat /\ thread' \in [Thread -> Job]
    BY <1>2, HangUpType DEF BuildTimeout
  <2>2. CASE /\ exec' = [exec EXCEPT ![e].tries = exec[e].tries + 1]
             /\ Ask(e, spec.v)
    BY <1>0, <1>2, <2>1, <2>2, TriesType, AskType
       DEF BuildTimeout, stored, ContentTypeOK
  <2>3. CASE exec' = Ended(e) /\ asked' = asked \ {e} /\ UNCHANGED want
    BY <1>0, <1>2, <2>1, <2>3, EndedType
       DEF BuildTimeout, stored, ContentTypeOK
  <2>. QED BY <1>2, <2>2, <2>3 DEF BuildTimeout
<1>3. ASSUME RebuildTimeout(e)
      PROVE  ContentTypeOK'
  <2>1. strays' \in Nat /\ thread' \in [Thread -> Job]
    BY <1>3, HangUpType DEF RebuildTimeout
  <2>2. val' \in [Exec -> ValSession]
    BY <1>0, <1>3, NextRoundType DEF RebuildTimeout
  <2>. QED BY <1>0, <1>3, <2>1, <2>2 DEF RebuildTimeout, stored, ContentTypeOK
<1>. QED BY <1>1, <1>2, <1>3

(* What Inspect leaves of a session.                                       *)
Seen(e, listed) ==
    Layer3(site.v > 0, site.html, listed /\ site.llms) \union val[e].demands

LEMMA InspectType ==
  ASSUME ContentTypeOK, NEW e \in Exec, Inspect(e)
  PROVE  /\ val' \in [Exec -> ValSession]
         /\ val'[e].listed \in BOOLEAN
         /\ val'[e].issues = Seen(e, val'[e].listed)
         /\ val'[e].pc \in {"passing", "failing", "patching"}
         /\ val'[e].pc = "passing" <=> val'[e].issues = {}
         /\ val'[e].rebuilt = val[e].rebuilt
         /\ val'[e].spec = val[e].spec
         /\ val'[e].applied = val[e].applied
         /\ \A d \in Exec \ {e} : val'[d] = val[d]
<1>0. /\ val \in [Exec -> ValSession] /\ val[e] \in ValSession
      /\ val[e].demands \in SUBSET Code /\ site \in Site
  BY RulesType DEF ContentTypeOK, ValSession
<1>1. PICK listed \in {TRUE, ~Errors} :
        LET issues == Layer3(site.v > 0, site.html, listed /\ site.llms)
                        \union val[e].demands
        IN  val' = [val EXCEPT
              ![e].listed = listed,
              ![e].issues = issues,
              ![e].pc = CASE issues = {} -> "passing"
                          [] issues # {} /\ val[e].round >= MAX_PATCH_ATTEMPTS
                               -> "failing"
                          [] OTHER -> "patching"]
  BY Zenon DEF Inspect
<1>. DEFINE issues == Layer3(site.v > 0, site.html, listed /\ site.llms)
                        \union val[e].demands
            pc == CASE issues = {} -> "passing"
                    [] issues # {} /\ val[e].round >= MAX_PATCH_ATTEMPTS
                         -> "failing"
                    [] OTHER -> "patching"
            v1 == [val EXCEPT ![e].listed = listed]
            v2 == [v1 EXCEPT ![e].issues = issues]
            v3 == [v2 EXCEPT ![e].pc = pc]
<1>2. val' = v3
  BY <1>1
<1>3. listed \in BOOLEAN
  BY ContentAssumption
<1>4. issues \in SUBSET Code /\ issues = Seen(e, listed)
  <2>1. /\ (site.v > 0) \in BOOLEAN /\ (listed /\ site.llms) \in BOOLEAN
        /\ site.html \in Html
    BY <1>0, <1>3 DEF Site
  <2>. QED BY <1>0, <2>1, RulesType DEF Seen
<1>5. /\ pc \in {"passing", "failing", "patching"}
      /\ pc = "passing" <=> issues = {}
  OBVIOUS
<1>. HIDE DEF issues, pc
<1>6. /\ v1 \in [Exec -> ValSession]
      /\ v1[e].listed = listed /\ v1[e].rebuilt = val[e].rebuilt
      /\ v1[e].spec = val[e].spec /\ v1[e].applied = val[e].applied
      /\ \A d \in Exec \ {e} : v1[d] = val[d]
  BY <1>0, <1>3 DEF ValSession
<1>. HIDE DEF v1
<1>7. /\ v2 \in [Exec -> ValSession] /\ v2[e].issues = issues
      /\ v2[e].listed = v1[e].listed /\ v2[e].rebuilt = v1[e].rebuilt
      /\ v2[e].spec = v1[e].spec /\ v2[e].applied = v1[e].applied
      /\ \A d \in Exec \ {e} : v2[d] = v1[d]
  BY <1>4, <1>6 DEF ValSession
<1>. HIDE DEF v2
<1>8. /\ v3 \in [Exec -> ValSession] /\ v3[e].pc = pc
      /\ v3[e].issues = v2[e].issues
      /\ v3[e].listed = v2[e].listed /\ v3[e].rebuilt = v2[e].rebuilt
      /\ v3[e].spec = v2[e].spec /\ v3[e].applied = v2[e].applied
      /\ \A d \in Exec \ {e} : v3[d] = v2[d]
  BY <1>5, <1>7 DEF ValSession
<1>. HIDE DEF v3
<1>. QED BY <1>2, <1>3, <1>4, <1>5, <1>6, <1>7, <1>8

LEMMA FetchType ==
  ASSUME ContentTypeOK, NEW e \in Exec, FetchSpec(e)
  PROVE  /\ val' \in [Exec -> ValSession]
         /\ val'[e].pc = "inspect"
         /\ val'[e].spec = spec
         /\ val'[e].rebuilt = val[e].rebuilt
         /\ val'[e].applied = val[e].applied
         /\ val'[e].listed = val[e].listed
         /\ val'[e].issues = val[e].issues
         /\ val'[e].demands \subseteq Demands
         /\ \A d \in Exec \ {e} : val'[d] = val[d]
<1>. DEFINE v1 == [val EXCEPT ![e].pc = "inspect"]
            v2 == [v1 EXCEPT ![e].spec = spec]
            v3 == [v2 EXCEPT ![e].demands = Layer2(contract)]
<1>0. /\ val \in [Exec -> ValSession] /\ spec \in Spec0
      /\ Layer2(contract) \in SUBSET Demands
  BY RulesType DEF ContentTypeOK
<1>1. val' = v3
  BY DEF FetchSpec
<1>2. /\ v1 \in [Exec -> ValSession] /\ v1[e].rebuilt = val[e].rebuilt
      /\ v1[e].applied = val[e].applied /\ v1[e].listed = val[e].listed
      /\ v1[e].issues = val[e].issues
      /\ v1[e].pc = "inspect" /\ \A d \in Exec \ {e} : v1[d] = val[d]
  BY <1>0 DEF ValSession
<1>. HIDE DEF v1
<1>3. /\ v2 \in [Exec -> ValSession] /\ v2[e].rebuilt = v1[e].rebuilt
      /\ v2[e].applied = v1[e].applied /\ v2[e].listed = v1[e].listed
      /\ v2[e].issues = v1[e].issues /\ v2[e].spec = spec
      /\ v2[e].pc = v1[e].pc /\ \A d \in Exec \ {e} : v2[d] = v1[d]
  BY <1>0, <1>2 DEF ValSession
<1>. HIDE DEF v2
<1>4. /\ v3 \in [Exec -> ValSession] /\ v3[e].rebuilt = v2[e].rebuilt
      /\ v3[e].applied = v2[e].applied /\ v3[e].listed = v2[e].listed
      /\ v3[e].issues = v2[e].issues /\ v3[e].spec = v2[e].spec
      /\ v3[e].demands = Layer2(contract)
      /\ v3[e].pc = v2[e].pc /\ \A d \in Exec \ {e} : v3[d] = v2[d]
  BY <1>0, <1>3 DEF ValSession
<1>. HIDE DEF v3
<1>. QED BY <1>0, <1>1, <1>2, <1>3, <1>4

LEMMA PatchType ==
  ASSUME ContentTypeOK, NEW e \in Exec, Patch(e)
  PROVE  /\ spec' \in Spec0
         /\ spec'.v = spec.v + 1
         /\ spec'.gen = val[e].spec.gen
         /\ LET applied == Applied(val[e].spec.page, val[e].issues)
            IN  /\ val'[e].applied = applied
                /\ \E ld \in {"other", "faq"} :
                     spec'.page = Patched(val[e].spec.page, applied, ld)
         /\ val'[e].spec = val[e].spec
         /\ val'[e].rebuilt = val[e].rebuilt
         /\ val'[e].listed = val[e].listed
         /\ val'[e].issues = val[e].issues
         /\ val' \in [Exec -> ValSession]
         /\ val'[e].pc = "rebuilding"
         /\ \A d \in Exec \ {e} : val'[d] = val[d]
<1>0. /\ val \in [Exec -> ValSession] /\ val[e] \in ValSession
      /\ val[e].spec \in Spec0 /\ val[e].spec.gen \in Nat
      /\ val[e].spec.page \in Page /\ val[e].issues \in SUBSET Code
      /\ spec.v \in Nat
  BY DEF ContentTypeOK, ValSession, Spec0
<1>. DEFINE s == val[e].spec
            applied == Applied(s.page, val[e].issues)
            v1 == [val EXCEPT ![e].pc = "rebuilding"]
            v2 == [v1 EXCEPT ![e].applied = applied]
<1>1. applied \in SUBSET Code
  BY <1>0, RulesType
<1>2. PICK ld \in {"other", "faq"} :
        spec' = [v |-> spec.v + 1, gen |-> s.gen,
                 page |-> Patched(s.page, applied, ld)]
  BY Zenon DEF Patch
<1>3. /\ spec' \in Spec0 /\ spec'.v = spec.v + 1 /\ spec'.gen = s.gen
      /\ spec'.page = Patched(s.page, applied, ld)
  <2>1. Patched(s.page, applied, ld) \in Page
    BY <1>0, <1>1, RulesType
  <2>. DEFINE p == Patched(s.page, applied, ld)
  <2>. HIDE DEF p
  <2>2. /\ spec' = [v |-> spec.v + 1, gen |-> s.gen, page |-> p]
        /\ p \in Page
    BY <1>2, <2>1 DEF p
  <2>3. /\ spec' \in Spec0 /\ spec'.v = spec.v + 1 /\ spec'.gen = s.gen
        /\ spec'.page = p
    BY <1>0, <2>2 DEF Spec0
  <2>. QED BY <2>3 DEF p
<1>4. val' = v2
  BY DEF Patch
<1>. HIDE DEF applied
<1>5. /\ v1 \in [Exec -> ValSession] /\ v1[e].pc = "rebuilding"
      /\ v1[e].spec = val[e].spec /\ v1[e].rebuilt = val[e].rebuilt
      /\ v1[e].listed = val[e].listed /\ v1[e].issues = val[e].issues
      /\ \A d \in Exec \ {e} : v1[d] = val[d]
  BY <1>0 DEF ValSession
<1>. HIDE DEF v1
<1>6. /\ v2 \in [Exec -> ValSession] /\ v2[e].pc = v1[e].pc
      /\ v2[e].spec = v1[e].spec /\ v2[e].rebuilt = v1[e].rebuilt
      /\ v2[e].listed = v1[e].listed /\ v2[e].issues = v1[e].issues
      /\ v2[e].applied = applied
      /\ \A d \in Exec \ {e} : v2[d] = v1[d]
  BY <1>1, <1>5 DEF ValSession
<1>. HIDE DEF v2
<1>. HIDE DEF v2
<1>. QED BY <1>3, <1>4, <1>5, <1>6 DEF applied

LEMMA ValType ==
  ASSUME ContentTypeOK, NEW e \in Exec,
         ValStep(e) \/ PatchFails(e) \/ ValFails(e) \/ ValTimeout(e)
  PROVE  ContentTypeOK'
<1>1. ASSUME FetchSpec(e)
      PROVE  ContentTypeOK'
  BY <1>1, FetchType DEF FetchSpec, stored, worker, ContentTypeOK
<1>2. ASSUME Inspect(e)
      PROVE  ContentTypeOK'
  <2>1. val' \in [Exec -> ValSession]
    BY <1>2, InspectType
  <2>. QED BY <1>2, <2>1 DEF Inspect, stored, worker, ContentTypeOK
<1>3. ASSUME Pass(e)
      PROVE  ContentTypeOK'
  <2>1. val' \in [Exec -> ValSession] /\ exec' \in [Exec -> Execution]
    BY <1>3, VerdictType, EndedType DEF Pass, ContentTypeOK
  <2>. QED BY <1>3, <2>1 DEF Pass, stored, worker, ContentTypeOK
<1>4. ASSUME Fail(e)
      PROVE  ContentTypeOK'
  <2>1. val' \in [Exec -> ValSession]
    BY <1>4, VerdictType DEF Fail
  <2>2. /\ exec' \in [Exec -> Execution] /\ runs' \in Nat
        /\ gen' \in [Exec -> GenSession]
    BY <1>4, FailAnsweredType DEF Fail
  <2>3. feedback' \in Nat
    BY <1>4 DEF Fail, ContentTypeOK, Execution
  <2>. QED BY <1>4, <2>1, <2>2, <2>3 DEF Fail, worker, ContentTypeOK
<1>5. ASSUME Patch(e)
      PROVE  ContentTypeOK'
  <2>1. spec' \in Spec0 /\ val' \in [Exec -> ValSession]
    BY <1>5, PatchType
  <2>2. spec.v + 1 \in Nat
    BY DEF ContentTypeOK, Spec0
  <2>3. Ask(e, spec.v + 1)
    BY <1>5, Zenon DEF Patch
  <2>4. asked' \subseteq Exec /\ want' \in [Exec -> Nat]
    BY <2>2, <2>3, AskType
  <2>. QED BY <1>5, <2>1, <2>4 DEF Patch, ContentTypeOK
<1>6. ASSUME PatchFails(e)
      PROVE  ContentTypeOK'
  <2>1. val' \in [Exec -> ValSession]
    BY <1>6, NextRoundType DEF PatchFails
  <2>. QED BY <1>6, <2>1 DEF PatchFails, stored, worker, ContentTypeOK
<1>7. ASSUME ValFails(e)
      PROVE  ContentTypeOK'
  <2>1. val' \in [Exec -> ValSession] /\ exec' \in [Exec -> Execution]
    BY <1>7, VerdictType, EndedType DEF ValFails, ContentTypeOK
  <2>. QED BY <1>7, <2>1 DEF ValFails, stored, worker, ContentTypeOK
<1>8. ASSUME ValTimeout(e)
      PROVE  ContentTypeOK'
  BY <1>8, EndedType DEF ValTimeout, stored, worker, ContentTypeOK
<1>. QED BY <1>1, <1>2, <1>3, <1>4, <1>5, <1>6, <1>7, <1>8 DEF ValStep

LEMMA TypeStep == ContentTypeOK /\ [Next]_vars => ContentTypeOK'
<1>. SUFFICES ASSUME ContentTypeOK, [Next]_vars
              PROVE  ContentTypeOK'
  OBVIOUS
<1>1. ASSUME SaveContract
      PROVE  ContentTypeOK'
  BY <1>1, ContentAssumption DEF SaveContract, worker, ContentTypeOK
<1>2. ASSUME NEW e \in Exec, Start(e)
      PROVE  ContentTypeOK'
  <2>1. /\ runs' \in Nat /\ exec' \in [Exec -> Execution]
        /\ gen' \in [Exec -> GenSession]
    <3>1. 0 \in Nat /\ Begin(e, 0)
      BY <1>2 DEF Start
    <3>. QED BY <3>1, BeginType
  <2>. QED BY <1>2, <2>1 DEF Start, stored, worker, ContentTypeOK
<1>3. CASE UNCHANGED vars
  BY <1>3 DEF vars, ContentTypeOK
<1>4. ASSUME StrayLost
      PROVE  ContentTypeOK'
  BY <1>4 DEF StrayLost, stored, ContentTypeOK
<1>. QED
  BY <1>1, <1>2, <1>3, <1>4, GenType, BuildType, QueueType, ValType
     DEF Next, GenStep, BuildStep

(* Type correctness, of executions that overlap and time out at will.      *)
THEOREM ContentTypeCorrect == Spec => []ContentTypeOK
<1>. QED BY InitType, TypeStep, PTL DEF Spec

-----------------------------------------------------------------------------
(* The inductive invariant of what is served.  e listens for the worker:   *)
Live(e) == exec[e].at = "build" \/ val[e].pc = "rebuilding"

(* An execution validates only what it built; only the live wait.          *)
Phases ==
    \A e \in Exec :
      /\ exec[e].at \in {"generation", "build"} => val[e].pc = "idle"
      /\ e \in asked => Live(e)

(* One build at a time; it begins with a spec that is not older than the   *)
(* page, and from its first put on the page is of its spec.                *)
Serial ==
    /\ \A t, u \in Thread :
         thread[t].at # "idle" /\ thread[u].at # "idle" => t = u
    /\ site.v <= spec.v
    /\ \A t \in Thread :
         /\ thread[t].at # "idle" => thread[t].spec.v <= spec.v
         /\ thread[t].at = "html" => site.v <= thread[t].spec.v
         /\ thread[t].at = "geo" => site.v = thread[t].spec.v

(* A build someone listens to began after it was asked for.                *)
Wanted ==
    /\ \A e \in Exec : want[e] <= spec.v
    /\ \A t \in Thread : \A e \in Exec :
         thread[t].for = e =>
           /\ Live(e)
           /\ e \notin asked
           /\ thread[t].at # "idle"
           /\ want[e] <= thread[t].spec.v

ContentInv == ContentTypeOK /\ Phases /\ Serial /\ Wanted

LEMMA ContentInvInit == Init => ContentInv
<1>. SUFFICES ASSUME Init PROVE ContentInv
  OBVIOUS
<1>1. Phases
  BY DEF Init, Phases, NoRun, Live
<1>2. Serial
  BY DEF Init, Serial, NoJob, NoSpec
<1>3. Wanted
  BY ContentAssumption DEF Init, Wanted, NoJob, NoSpec
<1>. QED BY <1>1, <1>2, <1>3, InitType DEF ContentInv

(* A step that changes neither what is stored nor the worker, and no       *)
(* Live of an execution, keeps the invariant.                              *)
LEMMA QuietStep ==
  ASSUME ContentInv, NEW e \in Exec,
         UNCHANGED <<spec, site, asked, want, thread>>,
         \A d \in Exec \ {e} : exec'[d] = exec[d] /\ val'[d] = val[d],
         exec'[e].at \in {"generation", "build"} => val'[e].pc = "idle",
         Live(e) => Live(e)'
  PROVE  Phases' /\ Serial' /\ Wanted'
<1>1. \A d \in Exec : Live(d) => Live(d)'
  BY DEF Live
<1>2. Phases'
  BY <1>1 DEF ContentInv, Phases
<1>3. Serial'
  BY DEF ContentInv, Serial
<1>4. Wanted'
  BY <1>1 DEF ContentInv, Wanted
<1>. QED BY <1>2, <1>3, <1>4

(* Asking: e was not live, so nothing waits or builds for it yet.          *)
LEMMA AskStep ==
  ASSUME ContentInv, NEW e \in Exec, NEW n \in Nat, Ask(e, n),
         ~Live(e), Live(e)',
         n = spec'.v, spec'.v \in Nat, spec'.v >= spec.v,
         UNCHANGED <<site, thread>>,
         \A d \in Exec \ {e} : exec'[d] = exec[d] /\ val'[d] = val[d],
         exec'[e].at \in {"generation", "build"} => val'[e].pc = "idle"
  PROVE  Phases' /\ Serial' /\ Wanted'
<1>0. /\ spec.v \in Nat /\ site.v \in Nat /\ want \in [Exec -> Nat]
      /\ \A t \in Thread : thread[t].spec.v \in Nat
  BY DEF ContentInv, ContentTypeOK, Spec0, Site, Job
<1>1. \A d \in Exec : Live(d) => Live(d)'
  BY DEF Live
<1>2. /\ asked' = asked \union {e} /\ want'[e] = n
      /\ \A d \in Exec \ {e} : want'[d] = want[d]
  BY <1>0 DEF Ask
<1>3. Phases'
  BY <1>1, <1>2 DEF ContentInv, Phases
<1>4. Serial'
  BY <1>0 DEF ContentInv, Serial
<1>5. \A d \in Exec : want'[d] <= spec'.v
  BY <1>0, <1>2 DEF ContentInv, Wanted
<1>6. \A t \in Thread : thread[t].for # e
  BY DEF ContentInv, Wanted
<1>7. Wanted'
  BY <1>1, <1>2, <1>5, <1>6 DEF ContentInv, Wanted
<1>. QED BY <1>3, <1>4, <1>7

LEMMA GenAnswersStep ==
  ASSUME ContentInv, NEW e \in Exec, NEW ok \in BOOLEAN,
         GenAnswers(e, ok, spec'.v), spec'.v \in Nat, spec'.v >= spec.v,
         UNCHANGED <<site, val, thread>>
  PROVE  Phases' /\ Serial' /\ Wanted'
<1>0. /\ spec.v \in Nat /\ site.v \in Nat /\ want \in [Exec -> Nat]
      /\ \A t \in Thread : thread[t].spec.v \in Nat
      /\ ContentTypeOK
  BY DEF ContentInv, ContentTypeOK, Spec0, Site, Job
<1>1. CASE /\ exec[e].at = "generation"
           /\ exec' = [exec EXCEPT ![e].at = "build", ![e].tries = 0]
           /\ Ask(e, spec'.v)
  <2>1. /\ exec'[e].at = "build"
        /\ \A d \in Exec \ {e} : exec'[d] = exec[d]
    BY <1>0, <1>1, AdvancedType
  <2>2. val[e].pc = "idle"
    BY <1>1 DEF ContentInv, Phases
  <2>3. ~Live(e) /\ Live(e)'
    BY <1>1, <2>1, <2>2 DEF Live
  <2>. QED BY <1>1, <2>1, <2>2, <2>3, AskStep
<1>2. CASE /\ UNCHANGED <<asked, want>>
           /\ exec' = exec \/ (exec[e].at = "generation" /\ exec' = Ended(e))
  <2>1. \A d \in Exec : (exec'[d].at = exec[d].at \/ exec'[d].at = "idle")
    BY <1>0, <1>2, EndedType
  <2>2. \A d \in Exec : Live(d) => Live(d)'
    BY <1>0, <1>2, EndedType DEF Live
  <2>3. Phases'
    BY <1>2, <2>1, <2>2 DEF ContentInv, Phases
  <2>4. Serial'
    BY <1>0 DEF ContentInv, Serial
  <2>5. Wanted'
    BY <1>0, <1>2, <2>2 DEF ContentInv, Wanted
  <2>. QED BY <2>3, <2>4, <2>5
<1>. QED BY <1>1, <1>2 DEF GenAnswers

LEMMA GenInv ==
  ASSUME ContentInv, NEW e \in Exec,
         GenLoad(e) \/ GenSkip(e) \/ GenSave(e) \/ GenFails(e)
           \/ GenTimeout(e)
  PROVE  Phases' /\ Serial' /\ Wanted'
<1>0. spec.v \in Nat /\ ContentTypeOK
  BY DEF ContentInv, ContentTypeOK, Spec0
<1>1. ASSUME GenLoad(e)
      PROVE  Phases' /\ Serial' /\ Wanted'
  <2>1. UNCHANGED <<spec, site, asked, want, thread, exec, val>>
    BY <1>1 DEF GenLoad, stored, worker
  <2>2. exec[e].at \in {"generation", "build"} => val[e].pc = "idle"
    BY DEF ContentInv, Phases
  <2>3. Live(e) => Live(e)'
    BY <2>1 DEF Live
  <2>. QED BY <2>1, <2>2, <2>3, QuietStep
<1>2. ASSUME GenSkip(e) \/ GenFails(e)
      PROVE  Phases' /\ Serial' /\ Wanted'
  <2>1. /\ UNCHANGED <<spec, site, val, thread>>
        /\ GenAnswers(e, TRUE, spec.v) \/ GenAnswers(e, FALSE, spec.v)
    BY <1>2, Zenon DEF GenSkip, GenFails, stored
  <2>2. spec'.v = spec.v
    BY <2>1
  <2>3. GenAnswers(e, TRUE, spec'.v) \/ GenAnswers(e, FALSE, spec'.v)
    BY <2>1, <2>2, Zenon
  <2>4. spec'.v \in Nat /\ spec'.v >= spec.v
    BY <1>0, <2>2
  <2>5. CASE GenAnswers(e, TRUE, spec'.v)
    BY <2>1, <2>4, <2>5, GenAnswersStep
  <2>6. CASE GenAnswers(e, FALSE, spec'.v)
    BY <2>1, <2>4, <2>6, GenAnswersStep
  <2>. QED BY <2>3, <2>5, <2>6
<1>3. ASSUME GenSave(e)
      PROVE  Phases' /\ Serial' /\ Wanted'
  <2>1. UNCHANGED <<site, val, thread>> /\ GenAnswers(e, TRUE, spec.v + 1)
    BY <1>3, Zenon DEF GenSave
  <2>2. spec'.v = spec.v + 1
    BY <1>3 DEF GenSave
  <2>3. GenAnswers(e, TRUE, spec'.v)
    BY <2>1, <2>2, Zenon
  <2>4. spec'.v \in Nat /\ spec'.v >= spec.v
    BY <1>0, <2>2
  <2>. QED BY <2>1, <2>3, <2>4, GenAnswersStep
<1>4. ASSUME GenTimeout(e)
      PROVE  Phases' /\ Serial' /\ Wanted'
  <2>1. UNCHANGED <<spec, site, asked, want, thread, val>>
    BY <1>4 DEF GenTimeout, stored, worker
  <2>2. exec[e].at = "generation" /\ val[e].pc = "idle"
    BY <1>4 DEF GenTimeout, ContentInv, Phases
  <2>3. \A d \in Exec \ {e} : exec'[d] = exec[d]
    <3>1. \/ exec' = [exec EXCEPT ![e].tries = exec[e].tries + 1]
          \/ exec' = Ended(e)
      BY <1>4, Zenon DEF GenTimeout
    <3>2. CASE exec' = [exec EXCEPT ![e].tries = exec[e].tries + 1]
      BY <1>0, <3>2 DEF ContentTypeOK
    <3>3. CASE exec' = Ended(e)
      BY <1>0, <3>3, EndedType
    <3>. QED BY <3>1, <3>2, <3>3
  <2>4. ~Live(e)
    BY <2>2 DEF Live
  <2>. QED BY <2>1, <2>2, <2>3, <2>4, QuietStep
<1>. QED BY <1>1, <1>2, <1>3, <1>4

(* An answered build: its requester goes on, and asks no more.             *)
LEMMA AnsweredStep ==
  ASSUME ContentInv, NEW who \in Exec \union {Nobody}, NEW ok \in BOOLEAN,
         BuildAnswers(who, ok),
         UNCHANGED <<spec, want>>,
         asked' \subseteq asked, who \notin asked',
         site'.v = site.v,
         \A t \in Thread : /\ thread'[t] = thread[t] \/ thread'[t] = NoJob
                           /\ thread'[t].for = who => who = Nobody
  PROVE  Phases' /\ Serial' /\ Wanted'
<1>0. /\ ContentTypeOK
      /\ \A d \in Exec \ {who} : exec'[d] = exec[d] /\ val'[d] = val[d]
  BY BuildAnswersType DEF ContentInv
<1>1. \A d \in Exec \ {who} : Live(d) => Live(d)'
  BY <1>0 DEF Live
<1>2. who \in Exec => exec'[who].at \notin {"generation", "build"}
  <2>1. CASE who = Nobody
    BY <2>1, ContentAssumption
  <2>2. CASE exec' = [exec EXCEPT ![who].at = "validation", ![who].tries = 0]
    BY <1>0, <2>2, AdvancedType
  <2>3. CASE exec' = Ended(who)
    BY <1>0, <2>3, EndedType
  <2>4. CASE val[who].pc = "rebuilding" /\ UNCHANGED exec
    BY <2>4 DEF ContentInv, Phases
  <2>. QED BY <2>1, <2>2, <2>3, <2>4 DEF BuildAnswers
<1>3. Phases'
  BY <1>0, <1>1, <1>2 DEF ContentInv, Phases
<1>4. NoJob.at = "idle" /\ NoJob.for = Nobody
  BY DEF NoJob
<1>5. Serial'
  BY <1>4 DEF ContentInv, Serial
<1>6. Wanted'
  BY <1>1, <1>4, ContentAssumption DEF ContentInv, Wanted
<1>. QED BY <1>3, <1>5, <1>6

LEMMA BuildInv ==
  ASSUME ContentInv, NEW t \in Thread, NEW who \in Exec \union {Nobody},
         BuildLoad(t, who) \/ PutHtml(t) \/ PutGeo(t) \/ BuildFails(t)
  PROVE  Phases' /\ Serial' /\ Wanted'
<1>0. /\ ContentTypeOK
      /\ spec \in Spec0 /\ spec.v \in Nat /\ site \in Site /\ site.v \in Nat
      /\ thread \in [Thread -> Job]
      /\ thread[t].for \in Exec \union {Nobody}
      /\ thread[t].spec \in Spec0 /\ thread[t].spec.v \in Nat
      /\ NoJob.at = "idle" /\ NoJob.for = Nobody
  BY DEF ContentInv, ContentTypeOK, Spec0, Site, Job, NoJob
<1>1. ASSUME BuildLoad(t, who)
      PROVE  Phases' /\ Serial' /\ Wanted'
  <2>1. /\ asked' \subseteq asked /\ who \notin asked'
        /\ who \in Exec => who \in asked
        /\ UNCHANGED <<spec, site, want>>
        /\ \A u \in Thread : thread[u].at = "idle"
    BY <1>0, <1>1, ContentAssumption
       DEF BuildLoad, Free, stored, ContentTypeOK
  <2>2. \A u \in Thread : thread[u].for \notin Exec
    BY <2>1 DEF ContentInv, Wanted
  <2>3. ASSUME thread' = [thread EXCEPT ![t] =
                            [at |-> "html", for |-> who, spec |-> spec]],
               UNCHANGED <<exec, val>>
        PROVE  Phases' /\ Serial' /\ Wanted'
    <3>1. \A d \in Exec : Live(d)' = Live(d)
      BY <2>3 DEF Live
    <3>2. /\ thread'[t] = [at |-> "html", for |-> who, spec |-> spec]
          /\ \A u \in Thread \ {t} : thread'[u] = thread[u]
      BY <1>0, <2>3
    <3>3. Phases'
      BY <2>1, <2>3, <3>1 DEF ContentInv, Phases
    <3>4. Serial'
      BY <1>0, <2>1, <3>2 DEF ContentInv, Serial
    <3>5. who \in Exec => Live(who) /\ want[who] <= spec.v
      BY <2>1 DEF ContentInv, Phases, Wanted
    <3>6. Wanted'
      BY <2>1, <2>2, <3>1, <3>2, <3>5 DEF ContentInv, Wanted
    <3>. QED BY <3>3, <3>4, <3>6
  <2>4. ASSUME BuildAnswers(who, FALSE), UNCHANGED thread
        PROVE  Phases' /\ Serial' /\ Wanted'
    <3>1. \A u \in Thread : thread'[u].for = who => who = Nobody
      BY <2>2, <2>4
    <3>. QED BY <2>1, <2>4, <3>1, AnsweredStep
  <2>. QED BY <1>1, <2>3, <2>4 DEF BuildLoad
<1>2. ASSUME PutHtml(t)
      PROVE  Phases' /\ Serial' /\ Wanted'
  <2>1. /\ UNCHANGED <<spec, exec, val, asked, want>>
        /\ thread[t].at = "html"
    BY <1>2 DEF PutHtml
  <2>2. /\ thread'[t].at = "geo" /\ thread'[t].for = thread[t].for
        /\ thread'[t].spec = thread[t].spec
        /\ \A u \in Thread \ {t} : thread'[u] = thread[u]
    BY <1>0, <1>2 DEF PutHtml, Job
  <2>3. site'.v = thread[t].spec.v
    BY <1>0, <1>2 DEF PutHtml, Site
  <2>4. \A d \in Exec : Live(d)' = Live(d)
    BY <2>1 DEF Live
  <2>5. Phases'
    BY <2>1, <2>4 DEF ContentInv, Phases
  <2>6. Serial'
    BY <2>1, <2>2, <2>3 DEF ContentInv, Serial
  <2>7. Wanted'
    BY <2>1, <2>2, <2>4 DEF ContentInv, Wanted
  <2>. QED BY <2>5, <2>6, <2>7
<1>3. ASSUME PutGeo(t) \/ BuildFails(t)
      PROVE  Phases' /\ Serial' /\ Wanted'
  <2>1. /\ UNCHANGED <<spec, asked, want>>
        /\ thread[t].at # "idle"
        /\ thread' = [thread EXCEPT ![t] = NoJob]
    BY <1>3 DEF PutGeo, BuildFails
  <2>2. PICK ok \in BOOLEAN : BuildAnswers(thread[t].for, ok)
    BY <1>3, Zenon DEF PutGeo, BuildFails
  <2>3. site'.v = site.v
    BY <1>0, <1>3 DEF PutGeo, BuildFails, Site
  <2>4. thread[t].for \notin asked
    BY <1>0, ContentAssumption DEF ContentInv, Wanted, ContentTypeOK
  <2>5. \A u \in Thread \ {t} : thread[u].for \notin Exec
    BY <2>1 DEF ContentInv, Serial, Wanted
  <2>6. \A u \in Thread :
          /\ thread'[u] = thread[u] \/ thread'[u] = NoJob
          /\ thread'[u].for = thread[t].for => thread[t].for = Nobody
    BY <1>0, <2>1, <2>5
  <2>. QED BY <1>0, <2>1, <2>2, <2>3, <2>4, <2>6, AnsweredStep
<1>. QED BY <1>1, <1>2, <1>3

(* Hanging up: the requester is not waited for nor built for any more.     *)
LEMMA HangUpStep ==
  ASSUME ContentInv, NEW e \in Exec, HangUp(e), asked' = asked \ {e},
         UNCHANGED <<spec, site, want>>,
         \A d \in Exec \ {e} : exec'[d] = exec[d] /\ val'[d] = val[d],
         exec'[e].at \in {"generation", "build"} => val'[e].pc = "idle"
  PROVE  Phases' /\ Serial' /\ Wanted'
<1>1. ContentTypeOK
  BY DEF ContentInv
<1>2. \A t \in Thread :
        /\ thread'[t].at = thread[t].at
        /\ thread'[t].spec = thread[t].spec
        /\ thread'[t].for # e
        /\ thread'[t].for = thread[t].for \/ thread'[t].for = Nobody
  BY <1>1, HangUpType
<1>3. \A d \in Exec \ {e} : Live(d) => Live(d)'
  BY DEF Live
<1>4. Phases'
  BY <1>3 DEF ContentInv, Phases
<1>5. Serial'
  BY <1>2 DEF ContentInv, Serial
<1>6. Wanted'
  BY <1>2, <1>3, ContentAssumption DEF ContentInv, Wanted
<1>. QED BY <1>4, <1>5, <1>6

(* A build task that times out and asks again does so with a page that is  *)
(* still to come: what it now wants is what is stored now.                 *)
LEMMA QueueInv ==
  ASSUME ContentInv, NEW e \in Exec,
         Unreachable(e) \/ BuildTimeout(e) \/ RebuildTimeout(e)
  PROVE  Phases' /\ Serial' /\ Wanted'
<1>0. /\ ContentTypeOK
      /\ exec \in [Exec -> Execution] /\ val \in [Exec -> ValSession]
      /\ want \in [Exec -> Nat] /\ spec.v \in Nat
  BY DEF ContentInv, ContentTypeOK, Spec0
<1>1. ASSUME Unreachable(e)
      PROVE  Phases' /\ Serial' /\ Wanted'
  <2>1. /\ UNCHANGED <<spec, want, site, thread>>
        /\ e \in asked /\ asked' = asked \ {e}
        /\ BuildAnswers(e, FALSE)
    BY <1>1 DEF Unreachable, stored
  <2>2. \A t \in Thread : thread[t].for # e
    BY <2>1 DEF ContentInv, Wanted
  <2>. QED BY <2>1, <2>2, AnsweredStep
<1>2. ASSUME BuildTimeout(e)
      PROVE  Phases' /\ Serial' /\ Wanted'
  <2>1. /\ UNCHANGED <<spec, site, val>> /\ exec[e].at = "build" /\ HangUp(e)
    BY <1>2 DEF BuildTimeout, stored
  <2>2. val[e].pc = "idle"
    BY <2>1 DEF ContentInv, Phases
  <2>3. ASSUME exec' = [exec EXCEPT ![e].tries = exec[e].tries + 1],
               Ask(e, spec.v)
        PROVE  Phases' /\ Serial' /\ Wanted'
    <3>1. /\ exec'[e].at = "build"
          /\ \A d \in Exec \ {e} : exec'[d] = exec[d]
      BY <1>0, <2>1, <2>3, TriesType
    <3>2. \A d \in Exec : Live(d)' = Live(d)
      BY <2>1, <3>1 DEF Live
    <3>3. /\ asked' = asked \union {e} /\ want'[e] = spec.v
          /\ \A d \in Exec \ {e} : want'[d] = want[d]
      BY <1>0, <2>3 DEF Ask
    <3>4. \A t \in Thread :
            /\ thread'[t].at = thread[t].at
            /\ thread'[t].spec = thread[t].spec
            /\ thread'[t].for # e
            /\ thread'[t].for = thread[t].for \/ thread'[t].for = Nobody
      BY <1>0, <2>1, HangUpType
    <3>5. Phases'
      BY <2>1, <2>2, <3>1, <3>2, <3>3 DEF ContentInv, Phases, Live
    <3>6. Serial'
      BY <2>1, <3>4 DEF ContentInv, Serial
    <3>7. \A d \in Exec : want'[d] <= spec'.v
      BY <1>0, <2>1, <3>3 DEF ContentInv, Wanted
    <3>8. Wanted'
      BY <3>2, <3>3, <3>4, <3>7, ContentAssumption DEF ContentInv, Wanted
    <3>. QED BY <3>5, <3>6, <3>8
  <2>4. ASSUME exec' = Ended(e), asked' = asked \ {e}, UNCHANGED want
        PROVE  Phases' /\ Serial' /\ Wanted'
    <3>1. /\ exec'[e].at = "idle"
          /\ \A d \in Exec \ {e} : exec'[d] = exec[d]
      BY <1>0, <2>4, EndedType
    <3>. QED BY <2>1, <2>2, <2>4, <3>1, HangUpStep
  <2>. QED BY <1>2, <2>3, <2>4 DEF BuildTimeout
<1>3. ASSUME RebuildTimeout(e)
      PROVE  Phases' /\ Serial' /\ Wanted'
  <2>1. /\ UNCHANGED <<spec, site, want, exec>> /\ asked' = asked \ {e}
        /\ HangUp(e) /\ NextRound(e, val[e].applied, FALSE)
        /\ val[e].pc = "rebuilding"
    BY <1>3 DEF RebuildTimeout, stored
  <2>2. val[e].applied \in SUBSET Code
    BY <1>0 DEF ValSession
  <2>3. \A d \in Exec \ {e} : val'[d] = val[d]
    BY <1>0, <2>1, <2>2, NextRoundType
  <2>4. exec[e].at \notin {"generation", "build"}
    BY <2>1 DEF ContentInv, Phases
  <2>. QED BY <2>1, <2>3, <2>4, HangUpStep
<1>. QED BY <1>1, <1>2, <1>3

LEMMA ValInv ==
  ASSUME ContentInv, NEW e \in Exec,
         ValStep(e) \/ PatchFails(e) \/ ValFails(e) \/ ValTimeout(e)
  PROVE  Phases' /\ Serial' /\ Wanted'
<1>0. /\ ContentTypeOK
      /\ exec \in [Exec -> Execution] /\ val \in [Exec -> ValSession]
      /\ spec.v \in Nat
  BY DEF ContentInv, ContentTypeOK, Spec0
<1>1. exec[e].at \in {"generation", "build"} => val[e].pc = "idle"
  BY DEF ContentInv, Phases
<1>2. ASSUME FetchSpec(e) \/ Inspect(e)
      PROVE  Phases' /\ Serial' /\ Wanted'
  <2>1. /\ UNCHANGED <<spec, site, asked, want, thread, exec>>
        /\ val[e].pc \in {"fetch", "inspect"}
        /\ \A d \in Exec \ {e} : val'[d] = val[d]
    BY <1>0, <1>2 DEF FetchSpec, Inspect, stored, worker
  <2>2. exec'[e].at \notin {"generation", "build"} /\ ~Live(e)
    BY <1>1, <2>1 DEF Live
  <2>. QED BY <2>1, <2>2, QuietStep
<1>3. ASSUME Pass(e) \/ ValFails(e) \/ Fail(e)
      PROVE  Phases' /\ Serial' /\ Wanted'
  <2>1. /\ UNCHANGED <<spec, site, asked, want, thread>>
        /\ val[e].pc \in {"fetch", "inspect", "passing", "failing"}
        /\ Verdict(e)
    BY <1>3 DEF Pass, Fail, ValFails, stored, worker
  <2>2. val'[e].pc = "idle" /\ \A d \in Exec \ {e} : val'[d] = val[d]
    BY <1>0, <2>1, VerdictType
  <2>3. ~Live(e)
    BY <1>1, <2>1 DEF Live
  <2>4. \A d \in Exec \ {e} : exec'[d] = exec[d]
    <3>1. CASE Fail(e)
      BY <1>0, <3>1, FailAnsweredType DEF Fail
    <3>2. CASE Pass(e) \/ ValFails(e)
      BY <1>0, <3>2, EndedType DEF Pass, ValFails
    <3>. QED BY <1>3, <3>1, <3>2
  <2>. QED BY <2>1, <2>2, <2>3, <2>4, QuietStep
<1>4. ASSUME Patch(e)
      PROVE  Phases' /\ Serial' /\ Wanted'
  <2>1. /\ UNCHANGED <<site, thread, exec>>
        /\ val[e].pc = "patching"
        /\ spec'.v = spec.v + 1
        /\ val'[e].pc = "rebuilding"
        /\ \A d \in Exec \ {e} : val'[d] = val[d]
    BY <1>0, <1>4 DEF Patch, ValSession
  <2>2. Ask(e, spec.v + 1)
    BY <1>4, Zenon DEF Patch
  <2>3. exec[e].at \notin {"generation", "build"}
    BY <1>1, <2>1
  <2>4. ~Live(e) /\ Live(e)'
    BY <2>1, <2>3 DEF Live
  <2>5. /\ spec.v + 1 \in Nat /\ spec.v + 1 = spec'.v
        /\ spec'.v \in Nat /\ spec'.v >= spec.v
    BY <1>0, <2>1
  <2>. QED BY <2>1, <2>2, <2>3, <2>4, <2>5, AskStep
<1>5. ASSUME PatchFails(e)
      PROVE  Phases' /\ Serial' /\ Wanted'
  <2>1. /\ UNCHANGED <<spec, site, asked, want, thread, exec>>
        /\ val[e].pc = "patching"
        /\ NextRound(e, {}, FALSE)
    BY <1>5 DEF PatchFails, stored, worker
  <2>2. \A d \in Exec \ {e} : val'[d] = val[d]
    BY <1>0, <2>1, NextRoundType
  <2>3. exec[e].at \notin {"generation", "build"} /\ ~Live(e)
    BY <1>1, <2>1 DEF Live
  <2>. QED BY <2>1, <2>2, <2>3, QuietStep
<1>6. ASSUME ValTimeout(e)
      PROVE  Phases' /\ Serial' /\ Wanted'
  <2>1. /\ UNCHANGED <<spec, site, asked, want, thread, val>>
        /\ exec[e].at = "validation"
        /\ exec' = Ended(e)
    BY <1>6 DEF ValTimeout, stored, worker
  <2>2. /\ exec'[e].at = "idle"
        /\ \A d \in Exec \ {e} : exec'[d] = exec[d]
    BY <1>0, <2>1, EndedType
  <2>3. Live(e) => Live(e)'
    BY <2>1 DEF Live
  <2>. QED BY <2>1, <2>2, <2>3, QuietStep
<1>. QED BY <1>2, <1>3, <1>4, <1>5, <1>6 DEF ValStep

LEMMA ContentInvStep == ContentInv /\ [Next]_vars => ContentInv'
<1>. SUFFICES ASSUME ContentInv, [Next]_vars
              PROVE  Phases' /\ Serial' /\ Wanted'
  BY TypeStep DEF ContentInv
<1>1. ASSUME \/ UNCHANGED vars
             \/ SaveContract
             \/ StrayLost
      PROVE  Phases' /\ Serial' /\ Wanted'
  <2>1. UNCHANGED <<spec, site, exec, val, asked, want, thread>>
    BY <1>1 DEF vars, SaveContract, StrayLost, stored, worker
  <2>2. \A d \in Exec : Live(d)' = Live(d)
    BY <2>1 DEF Live
  <2>. QED BY <2>1, <2>2 DEF ContentInv, Phases, Serial, Wanted
<1>2. ASSUME NEW e \in Exec, Start(e)
      PROVE  Phases' /\ Serial' /\ Wanted'
  <2>1. /\ UNCHANGED <<spec, site, asked, want, thread, val>>
        /\ exec[e].at = "idle" /\ val[e].pc = "idle"
        /\ Begin(e, 0)
    BY <1>2 DEF Start, stored, worker
  <2>2. \A d \in Exec \ {e} : exec'[d] = exec[d]
    BY <2>1, BeginType DEF ContentInv
  <2>3. ~Live(e)
    BY <2>1 DEF Live
  <2>. QED BY <2>1, <2>2, <2>3, QuietStep
<1>. QED
  BY <1>1, <1>2, GenInv, BuildInv, QueueInv, ValInv
     DEF Next, GenStep, BuildStep

(* What the properties of the page rest on: one build at a time, with the  *)
(* spec that was stored when it began, for a requester that still listens. *)
THEOREM ContentInvariant == Spec => []ContentInv
<1>. QED BY ContentInvInit, ContentInvStep, PTL DEF Spec

-----------------------------------------------------------------------------
(* The properties of the page served.                                      *)

(* Only the worker's three steps put objects of the site.                  *)
LEMMA SiteChanges ==
  ASSUME [Next]_vars
  PROVE  \/ site' = site
         \/ \E t \in Thread : PutHtml(t) \/ PutGeo(t) \/ BuildFails(t)
<1>1. ASSUME \/ UNCHANGED vars
             \/ SaveContract
             \/ StrayLost
      PROVE  site' = site
  BY <1>1 DEF vars, SaveContract, StrayLost, stored
<1>2. ASSUME NEW e \in Exec,
             Start(e) \/ GenStep(e) \/ GenFails(e) \/ GenTimeout(e)
      PROVE  site' = site
  BY <1>2 DEF Start, GenStep, GenLoad, GenSkip, GenSave, GenFails,
              GenTimeout, stored
<1>3. ASSUME NEW e \in Exec,
             Unreachable(e) \/ BuildTimeout(e) \/ RebuildTimeout(e)
      PROVE  site' = site
  BY <1>3 DEF Unreachable, BuildTimeout, RebuildTimeout, stored
<1>4. ASSUME NEW e \in Exec,
             ValStep(e) \/ PatchFails(e) \/ ValFails(e) \/ ValTimeout(e)
      PROVE  site' = site
  BY <1>4 DEF ValStep, FetchSpec, Inspect, Pass, Fail, Patch, PatchFails,
              ValFails, ValTimeout, stored
<1>5. ASSUME NEW t \in Thread, NEW who \in Exec \union {Nobody},
             BuildLoad(t, who)
      PROVE  site' = site
  BY <1>5 DEF BuildLoad, stored
<1>. QED BY <1>1, <1>2, <1>3, <1>4, <1>5 DEF Next, BuildStep

(* Putting the page: it is of the spec the build began with.               *)
LEMMA PutHtmlSite ==
  ASSUME ContentTypeOK, NEW t \in Thread, PutHtml(t)
  PROVE  /\ thread[t].at = "html"
         /\ site'.v = thread[t].spec.v
         /\ site'.gen = thread[t].spec.gen
         /\ site'.html = Render(thread[t].spec.page)
         /\ site'.geo = site.geo
         /\ site'.llms = site.llms
BY DEF PutHtml, ContentTypeOK, Site

(* Putting the files beside it leaves the page alone.                      *)
LEMMA PutGeoSite ==
  ASSUME ContentTypeOK, NEW t \in Thread, PutGeo(t)
  PROVE  /\ thread[t].at = "geo"
         /\ site'.v = site.v /\ site'.gen = site.gen /\ site'.html = site.html
         /\ site'.geo = site.geo \/ site'.geo = thread[t].spec.v
         /\ site'.llms <=> site.llms \/ thread[t].spec.page.supp = "llms"
BY DEF PutGeo, ContentTypeOK, Site

LEMMA BuildFailsSite ==
  ASSUME ContentTypeOK, NEW t \in Thread, BuildFails(t)
  PROVE  /\ site'.v = site.v /\ site'.gen = site.gen /\ site'.html = site.html
         /\ site'.geo = site.geo
         /\ site.llms => site'.llms
BY DEF BuildFails, ContentTypeOK, Site

LEMMA NeverOlderStep == ContentInv /\ [Next]_vars => [site'.v >= site.v]_vars
<1>. SUFFICES ASSUME ContentInv, [Next]_vars
              PROVE  site'.v >= site.v
  OBVIOUS
<1>0. ContentTypeOK /\ site.v \in Nat
  BY DEF ContentInv, ContentTypeOK, Site
<1>1. CASE site' = site
  BY <1>0, <1>1
<1>2. ASSUME NEW t \in Thread, PutHtml(t)
      PROVE  site'.v >= site.v
  <2>1. thread[t].spec.v \in Nat
    BY <1>0 DEF ContentTypeOK, Job, Spec0
  <2>2. site.v <= thread[t].spec.v
    BY <1>0, <1>2, PutHtmlSite DEF ContentInv, Serial
  <2>. QED BY <1>0, <1>2, <2>1, <2>2, PutHtmlSite
<1>3. ASSUME NEW t \in Thread, PutGeo(t) \/ BuildFails(t)
      PROVE  site'.v >= site.v
  BY <1>0, <1>3, PutGeoSite, BuildFailsSite
<1>. QED BY <1>1, <1>2, <1>3, SiteChanges

(* The page served is never replaced by one of an older spec, for every    *)
(* number of overlapping executions, of abandoned requests and of rounds.  *)
THEOREM PageNeverOlder == Spec => NeverOlder
<1>1. ContentInv /\ [Next]_vars => [site'.v >= site.v]_vars
  BY NeverOlderStep
<1>. QED BY <1>1, ContentInvariant, PTL DEF Spec, NeverOlder

LEMMA GeoStep ==
  ContentInv /\ [Next]_vars => [site'.geo # site.geo => site'.geo = site'.v]_vars
<1>. SUFFICES ASSUME ContentInv, [Next]_vars, site'.geo # site.geo
              PROVE  site'.geo = site'.v
  OBVIOUS
<1>0. ContentTypeOK
  BY DEF ContentInv
<1>1. PICK t \in Thread : PutGeo(t)
  BY <1>0, SiteChanges, PutHtmlSite, BuildFailsSite
<1>2. site.v = thread[t].spec.v
  BY <1>0, <1>1, PutGeoSite DEF ContentInv, Serial
<1>. QED BY <1>0, <1>1, <1>2, PutGeoSite

(* The supplementary files are put beside the page of the same spec.       *)
THEOREM GeoBesidePage == Spec => GeoFollowsPage
<1>1. ContentInv /\ [Next]_vars =>
        [site'.geo # site.geo => site'.geo = site'.v]_vars
  BY GeoStep
<1>. QED BY <1>1, ContentInvariant, PTL DEF Spec, GeoFollowsPage

-----------------------------------------------------------------------------
(* Whom an answer reaches.                                                 *)

(* An answer of the worker counts as success for no one but its requester, *)
(* and only if it is one.                                                  *)
LEMMA AnswerReaches ==
  ASSUME ContentInv, NEW who \in Exec \union {Nobody}, NEW ok \in BOOLEAN,
         BuildAnswers(who, ok), NEW e \in Exec, Answered(e)
  PROVE  who = e /\ ok = TRUE
<1>0. /\ ContentTypeOK
      /\ \A d \in Exec \ {who} : exec'[d] = exec[d] /\ val'[d] = val[d]
  BY BuildAnswersType DEF ContentInv
<1>1. who = e
  BY <1>0 DEF Answered
<1>2. ASSUME ok = FALSE
      PROVE  FALSE
  <2>1. CASE exec[e].at = "build" /\ exec' = Ended(e) /\ UNCHANGED val
    <3>1. exec'[e].at = "idle" /\ val[e].pc = "idle"
      BY <1>0, <2>1, EndedType DEF ContentInv, Phases
    <3>. QED BY <3>1 DEF Answered
  <2>2. CASE /\ val[e].pc = "rebuilding"
             /\ NextRound(e, val[e].applied, FALSE)
             /\ UNCHANGED exec
    <3>1. val[e].applied \in SUBSET Code
      BY <1>0 DEF ContentTypeOK, ValSession
    <3>2. val'[e].rebuilt = FALSE
      BY <1>0, <2>2, <3>1, NextRoundType
    <3>. QED BY <2>2, <3>2 DEF Answered
  <2>. QED BY <1>1, <1>2, <2>1, <2>2, ContentAssumption DEF BuildAnswers
<1>. QED BY <1>1, <1>2

(* No step of the generation agent, of the validation agent or of a        *)
(* timeout answers a build.                                                *)
LEMMA NoOtherAnswer ==
  ASSUME ContentInv, NEW d \in Exec, NEW e \in Exec,
         \/ Start(d) \/ GenStep(d) \/ GenFails(d) \/ GenTimeout(d)
         \/ BuildTimeout(d) \/ RebuildTimeout(d)
         \/ ValStep(d) \/ PatchFails(d) \/ ValFails(d) \/ ValTimeout(d)
  PROVE  ~Answered(e)
<1>0. /\ ContentTypeOK
      /\ exec \in [Exec -> Execution] /\ val \in [Exec -> ValSession]
      /\ spec.v \in Nat
  BY DEF ContentInv, ContentTypeOK, Spec0
<1>1. ASSUME Start(d)
      PROVE  ~Answered(e)
  <2>1. /\ exec'[d].at = "generation" /\ val' = val
        /\ \A c \in Exec \ {d} : exec'[c] = exec[c]
    <3>1. 0 \in Nat /\ Begin(d, 0) /\ val' = val
      BY <1>1 DEF Start
    <3>. QED BY <1>0, <3>1, BeginType
  <2>. QED BY <2>1 DEF Answered
<1>2. ASSUME GenStep(d) \/ GenFails(d)
      PROVE  ~Answered(e)
  <2>1. val' = val
    BY <1>2 DEF GenStep, GenLoad, GenSkip, GenSave, GenFails
  <2>2. \/ exec' = exec
        \/ exec' = [exec EXCEPT ![d].at = "build", ![d].tries = 0]
        \/ exec' = Ended(d)
    <3>1. CASE GenLoad(d)
      BY <3>1 DEF GenLoad
    <3>2. CASE GenSkip(d) \/ GenFails(d) \/ GenSave(d)
      BY <3>2, Zenon DEF GenSkip, GenFails, GenSave, GenAnswers
    <3>. QED BY <1>2, <3>1, <3>2 DEF GenStep
  <2>3. CASE exec' = exec
    BY <2>1, <2>3 DEF Answered
  <2>4. CASE exec' = [exec EXCEPT ![d].at = "build", ![d].tries = 0]
    <3>1. /\ exec'[d].at = "build"
          /\ \A c \in Exec \ {d} : exec'[c] = exec[c]
      BY <1>0, <2>4, AdvancedType
    <3>. QED BY <2>1, <3>1 DEF Answered
  <2>5. CASE exec' = Ended(d)
    <3>1. /\ exec'[d].at = "idle"
          /\ \A c \in Exec \ {d} : exec'[c] = exec[c]
      BY <1>0, <2>5, EndedType
    <3>. QED BY <2>1, <3>1 DEF Answered
  <2>. QED BY <2>2, <2>3, <2>4, <2>5
<1>3. ASSUME GenTimeout(d) \/ BuildTimeout(d)
      PROVE  ~Answered(e)
  <2>1. val' = val
    BY <1>3 DEF GenTimeout, BuildTimeout
  <2>2. \/ exec' = [exec EXCEPT ![d].tries = exec[d].tries + 1]
        \/ exec' = Ended(d)
    BY <1>3, Zenon DEF GenTimeout, BuildTimeout
  <2>3. exec'[e].at = exec[e].at \/ exec'[e].at = "idle"
    <3>1. CASE exec' = [exec EXCEPT ![d].tries = exec[d].tries + 1]
      <4>1. /\ exec'[d].at = exec[d].at
            /\ \A c \in Exec \ {d} : exec'[c] = exec[c]
        BY <1>0, <3>1, TriesType
      <4>. QED BY <4>1
    <3>2. CASE exec' = Ended(d)
      <4>1. /\ exec'[d].at = "idle"
            /\ \A c \in Exec \ {d} : exec'[c] = exec[c]
        BY <1>0, <3>2, EndedType
      <4>. QED BY <4>1
    <3>. QED BY <2>2, <3>1, <3>2
  <2>. QED BY <2>1, <2>3 DEF Answered
<1>4. ASSUME RebuildTimeout(d) \/ PatchFails(d)
      PROVE  ~Answered(e)
  <2>1. /\ exec' = exec
        /\ NextRound(d, val[d].applied, FALSE) \/ NextRound(d, {}, FALSE)
    BY <1>4 DEF RebuildTimeout, PatchFails, stored
  <2>2. val[d].applied \in SUBSET Code
    BY <1>0 DEF ValSession
  <2>3. CASE NextRound(d, val[d].applied, FALSE)
    <3>1. /\ val'[d].rebuilt = FALSE
          /\ \A c \in Exec \ {d} : val'[c] = val[c]
      BY <1>0, <2>2, <2>3, NextRoundType
    <3>. QED BY <2>1, <3>1 DEF Answered
  <2>4. CASE NextRound(d, {}, FALSE)
    <3>1. /\ val'[d].rebuilt = FALSE
          /\ \A c \in Exec \ {d} : val'[c] = val[c]
      BY <1>0, <2>4, NextRoundType
    <3>. QED BY <2>1, <3>1 DEF Answered
  <2>. QED BY <2>1, <2>3, <2>4
<1>5. ASSUME ValStep(d) \/ ValFails(d) \/ ValTimeout(d)
      PROVE  ~Answered(e)
  <2>1. /\ \A c \in Exec \ {d} : val'[c] = val[c]
        /\ val[d].pc # "rebuilding" \/ val'[d] = val[d]
    <3>1. CASE ValStep(d) \/ ValFails(d)
      <4>1. val[d].pc # "rebuilding"
        BY <3>1 DEF ValStep, FetchSpec, Inspect, Pass, Fail, Patch, ValFails
      <4>2. \A c \in Exec \ {d} : val'[c] = val[c]
        BY <1>0, <3>1, VerdictType
           DEF ValStep, FetchSpec, Inspect, Pass, Fail, Patch, ValFails
      <4>. QED BY <4>1, <4>2
    <3>2. CASE ValTimeout(d)
      BY <3>2 DEF ValTimeout
    <3>. QED BY <1>5, <3>1, <3>2
  <2>2. \/ exec' = exec
        \/ exec' = Ended(d)
        \/ exec'[d].at \in {"idle", "generation"}
           /\ \A c \in Exec \ {d} : exec'[c] = exec[c]
    <3>1. CASE Fail(d)
      BY <1>0, <3>1, FailAnsweredType DEF Fail
    <3>2. CASE \/ FetchSpec(d) \/ Inspect(d) \/ Pass(d) \/ Patch(d)
               \/ ValFails(d) \/ ValTimeout(d)
      BY <3>2 DEF FetchSpec, Inspect, Pass, Patch, ValFails, ValTimeout
    <3>. QED BY <1>5, <3>1, <3>2 DEF ValStep
  <2>3. exec'[e] = exec[e] \/ exec'[e].at # "validation"
    BY <1>0, <2>2, EndedType
  <2>. QED BY <2>1, <2>3 DEF Answered
<1>. QED BY <1>1, <1>2, <1>3, <1>4, <1>5

LEMMA FreshStep ==
  ContentInv /\ [Next]_vars =>
    [\A e \in Exec : Answered(e) => site'.v >= want[e]]_vars
<1>. SUFFICES ASSUME ContentInv, [Next]_vars, NEW e \in Exec, Answered(e)
              PROVE  site'.v >= want[e]
  OBVIOUS
<1>0. ContentTypeOK /\ site.v \in Nat /\ want[e] \in Nat
  BY DEF ContentInv, ContentTypeOK, Site
<1>1. ASSUME \/ UNCHANGED vars
             \/ SaveContract
             \/ StrayLost
             \/ \E t \in Thread : PutHtml(t)
      PROVE  FALSE
  <2>1. UNCHANGED <<exec, val>>
    BY <1>1 DEF vars, SaveContract, StrayLost, PutHtml
  <2>. QED BY <2>1 DEF Answered
<1>2. ASSUME NEW who \in Exec \union {Nobody}, BuildAnswers(who, FALSE)
      PROVE  FALSE
  BY <1>2, AnswerReaches
<1>3. ASSUME NEW t \in Thread, NEW who \in Exec \union {Nobody},
             BuildLoad(t, who)
      PROVE  FALSE
  <2>1. \/ UNCHANGED <<exec, val>>
        \/ BuildAnswers(who, FALSE)
    BY <1>3 DEF BuildLoad
  <2>. QED BY <1>2, <2>1 DEF Answered
<1>4. ASSUME NEW t \in Thread, BuildFails(t)
      PROVE  FALSE
  <2>1. thread[t].for \in Exec \union {Nobody}
    BY <1>0 DEF ContentTypeOK, Job
  <2>2. BuildAnswers(thread[t].for, FALSE)
    BY <1>4, Zenon DEF BuildFails
  <2>. QED BY <1>2, <2>1, <2>2
<1>5. ASSUME NEW d \in Exec, Unreachable(d)
      PROVE  FALSE
  BY <1>2, <1>5 DEF Unreachable
<1>6. ASSUME NEW t \in Thread, PutGeo(t)
      PROVE  site'.v >= want[e]
  <2>1. thread[t].for \in Exec \union {Nobody} /\ thread[t].spec.v \in Nat
    BY <1>0 DEF ContentTypeOK, Job, Spec0
  <2>2. BuildAnswers(thread[t].for, TRUE)
    BY <1>6, Zenon DEF PutGeo
  <2>3. thread[t].for = e
    BY <2>1, <2>2, AnswerReaches
  <2>4. want[e] <= thread[t].spec.v /\ site.v = thread[t].spec.v
    BY <1>0, <1>6, <2>3, PutGeoSite DEF ContentInv, Serial, Wanted
  <2>. QED BY <1>0, <1>6, <2>1, <2>4, PutGeoSite
<1>. QED BY <1>1, <1>3, <1>4, <1>5, <1>6, NoOtherAnswer DEF Next, BuildStep

(* A build answered with success has put what its requester had seen       *)
(* stored: no late answer to an abandoned request is taken for it.         *)
THEOREM AnswersFresh == Spec => FreshWhenAnswered
<1>1. ContentInv /\ [Next]_vars =>
        [\A e \in Exec : Answered(e) => site'.v >= want[e]]_vars
  BY FreshStep
<1>. QED BY <1>1, ContentInvariant, PTL DEF Spec, FreshWhenAnswered

-----------------------------------------------------------------------------
(* The sessions of an execution, and what steers a retry.                  *)

(* The generation agent is at work while its task waits for it, and never  *)
(* behind the back of a build or a validation of the same execution.       *)
Sessions ==
    \A e \in Exec :
      /\ exec[e].at = "generation" => gen[e].left > 0
      /\ gen[e].left > 0 =>
           exec[e].at \in {"generation", "idle"} /\ val[e].pc = "idle"
      /\ gen[e].loaded => gen[e].left > 0

LEMMA SessionsInit == Init => Sessions
BY DEF Init, Sessions, NoRun, NoVal, Asleep

(* Whose steps concern e: the sessions of the others stay as they are.     *)
LEMMA SessionsOf ==
  ASSUME Sessions, NEW e \in Exec,
         \A d \in Exec \ {e} : /\ exec'[d].at = exec[d].at
                               /\ val'[d].pc = val[d].pc
                               /\ gen'[d] = gen[d],
         exec'[e].at = "generation" => gen'[e].left > 0,
         gen'[e].left > 0 =>
           exec'[e].at \in {"generation", "idle"} /\ val'[e].pc = "idle",
         gen'[e].loaded => gen'[e].left > 0
  PROVE  Sessions'
BY DEF Sessions

LEMMA SessionsGen ==
  ASSUME ContentInv, Sessions, NEW e \in Exec,
         GenStep(e) \/ GenFails(e) \/ GenTimeout(e)
  PROVE  Sessions'
<1>0. /\ ContentTypeOK /\ spec.v \in Nat
      /\ exec \in [Exec -> Execution] /\ gen \in [Exec -> GenSession]
      /\ gen[e].left \in Nat
  BY DEF ContentInv, ContentTypeOK, Spec0, GenSession
<1>1. ASSUME GenLoad(e)
      PROVE  Sessions'
  <2>1. /\ UNCHANGED <<exec, val>> /\ gen[e].left > 0
        /\ gen'[e].left = gen[e].left
        /\ \A d \in Exec \ {e} : gen'[d] = gen[d]
    BY <1>0, <1>1 DEF GenLoad, GenSession
  <2>. QED BY <2>1, SessionsOf DEF Sessions
<1>2. ASSUME NEW ok \in BOOLEAN, NEW n \in Nat, GenAnswers(e, ok, n),
             gen[e].left > 0, val' = val
      PROVE  Sessions'
  <2>1. /\ gen'[e].left = gen[e].left - 1 /\ gen'[e].loaded = FALSE
        /\ \/ /\ exec[e].at = "generation" /\ gen[e].left = 1
              /\ exec'[e].at \in {"build", "idle"}
           \/ /\ exec[e].at # "generation" \/ gen[e].left > 1
              /\ exec'[e].at = exec[e].at
        /\ \A d \in Exec \ {e} : exec'[d] = exec[d] /\ gen'[d] = gen[d]
    BY <1>0, <1>2, GenAnswersType
  <2>2. exec[e].at \in {"generation", "idle"} /\ val[e].pc = "idle"
    BY <1>2 DEF Sessions
  <2>3. exec'[e].at = "generation" => gen'[e].left > 0
    BY <1>0, <2>1
  <2>4. gen'[e].left > 0 =>
          exec'[e].at \in {"generation", "idle"} /\ val'[e].pc = "idle"
    BY <1>0, <1>2, <2>1, <2>2
  <2>. QED BY <1>2, <2>1, <2>3, <2>4, SessionsOf
<1>3. ASSUME GenSkip(e) \/ GenSave(e) \/ GenFails(e)
      PROVE  Sessions'
  <2>1. /\ gen[e].left > 0 /\ val' = val
        /\ \/ GenAnswers(e, TRUE, spec.v)
           \/ GenAnswers(e, TRUE, spec.v + 1)
           \/ GenAnswers(e, FALSE, spec.v)
    BY <1>3, Zenon DEF GenSkip, GenSave, GenFails
  <2>2. spec.v + 1 \in Nat
    BY <1>0
  <2>. QED BY <1>0, <1>2, <2>1, <2>2
<1>4. ASSUME GenTimeout(e)
      PROVE  Sessions'
  <2>1. exec[e].at = "generation" /\ val' = val
    BY <1>4 DEF GenTimeout
  <2>2. gen[e].left > 0 /\ val[e].pc = "idle"
    BY <2>1 DEF Sessions
  <2>3. ASSUME exec' = [exec EXCEPT ![e].tries = exec[e].tries + 1],
               gen' = [gen EXCEPT ![e].left = gen[e].left + 1]
        PROVE  Sessions'
    <3>1. /\ exec'[e].at = exec[e].at
          /\ \A d \in Exec \ {e} : exec'[d] = exec[d]
      BY <1>0, <2>3, TriesType
    <3>2. /\ gen'[e].left = gen[e].left + 1
          /\ \A d \in Exec \ {e} : gen'[d] = gen[d]
      BY <1>0, <2>3 DEF GenSession
    <3>3. gen'[e].left > 0
      BY <1>0, <3>2
    <3>. QED BY <2>1, <2>2, <3>1, <3>2, <3>3, SessionsOf
  <2>4. ASSUME exec' = Ended(e), gen' = gen
        PROVE  Sessions'
    <3>1. /\ exec'[e].at = "idle"
          /\ \A d \in Exec \ {e} : exec'[d] = exec[d]
      BY <1>0, <2>4, EndedType
    <3>. QED BY <2>1, <2>2, <2>4, <3>1, SessionsOf
  <2>. QED BY <1>4, <2>3, <2>4 DEF GenTimeout
<1>. QED BY <1>1, <1>3, <1>4 DEF GenStep

(* A step that leaves the generation's sessions alone, and starts none.    *)
LEMMA SessionsKept ==
  ASSUME Sessions, gen' = gen, NEW e \in Exec, gen[e].left > 0 =>
           exec'[e].at \in {"generation", "idle"} /\ val'[e].pc = "idle",
         exec'[e].at = "generation" => exec[e].at = "generation",
         \A d \in Exec \ {e} : exec'[d] = exec[d] /\ val'[d] = val[d]
  PROVE  Sessions'
BY DEF Sessions

(* An answered build concerns no session of the generation agent.          *)
LEMMA SessionsAnswered ==
  ASSUME ContentInv, Sessions, NEW who \in Exec \union {Nobody},
         NEW ok \in BOOLEAN, BuildAnswers(who, ok), gen' = gen
  PROVE  Sessions'
<1>0. ContentTypeOK
  BY DEF ContentInv
<1>1. CASE who = Nobody
  <2>1. UNCHANGED <<exec, val>>
    BY <1>1, ContentAssumption DEF BuildAnswers
  <2>. QED BY <2>1 DEF Sessions
<1>2. CASE who \in Exec
  <2>1. /\ exec[who].at = "build" \/ val[who].pc = "rebuilding"
        /\ exec'[who].at # "generation"
    <3>1. CASE exec' = [exec EXCEPT ![who].at = "validation",
                                    ![who].tries = 0]
      BY <1>0, <1>2, <3>1, AdvancedType, ContentAssumption DEF BuildAnswers
    <3>2. CASE exec' = Ended(who)
      BY <1>0, <1>2, <3>2, EndedType, ContentAssumption DEF BuildAnswers
    <3>3. CASE val[who].pc = "rebuilding" /\ UNCHANGED exec
      BY <1>2, <3>3 DEF ContentInv, Phases
    <3>. QED BY <1>2, <3>1, <3>2, <3>3, ContentAssumption DEF BuildAnswers
  <2>2. ~(gen[who].left > 0)
    BY <1>2, <2>1 DEF Sessions
  <2>3. \A d \in Exec \ {who} : exec'[d] = exec[d] /\ val'[d] = val[d]
    BY <1>0, BuildAnswersType
  <2>. QED BY <1>2, <2>1, <2>2, <2>3, SessionsKept
<1>. QED BY <1>1, <1>2

LEMMA SessionsBuild ==
  ASSUME ContentInv, Sessions, NEW t \in Thread, BuildStep(t) \/ BuildFails(t)
  PROVE  Sessions'
<1>1. gen' = gen
  BY DEF BuildStep, BuildLoad, PutHtml, PutGeo, BuildFails
<1>2. CASE UNCHANGED <<exec, val>>
  BY <1>1, <1>2 DEF Sessions
<1>3. thread[t].for \in Exec \union {Nobody}
  BY DEF ContentInv, ContentTypeOK, Job
<1>4. ASSUME NEW who \in Exec \union {Nobody}, BuildLoad(t, who)
      PROVE  UNCHANGED <<exec, val>> \/ BuildAnswers(who, FALSE)
  BY <1>4 DEF BuildLoad
<1>5. ASSUME PutHtml(t)
      PROVE  UNCHANGED <<exec, val>>
  BY <1>5 DEF PutHtml
<1>6. ASSUME PutGeo(t) \/ BuildFails(t)
      PROVE  \E ok \in BOOLEAN : BuildAnswers(thread[t].for, ok)
  BY <1>6, Zenon DEF PutGeo, BuildFails
<1>. QED BY <1>1, <1>2, <1>3, <1>4, <1>5, <1>6, SessionsAnswered DEF BuildStep

LEMMA SessionsQueue ==
  ASSUME ContentInv, Sessions, NEW e \in Exec,
         Unreachable(e) \/ BuildTimeout(e) \/ RebuildTimeout(e)
  PROVE  Sessions'
<1>0. /\ ContentTypeOK /\ val \in [Exec -> ValSession]
      /\ val[e].applied \in SUBSET Code
  BY DEF ContentInv, ContentTypeOK, ValSession
<1>1. ASSUME Unreachable(e)
      PROVE  Sessions'
  BY <1>1, SessionsAnswered DEF Unreachable
<1>2. ASSUME BuildTimeout(e)
      PROVE  Sessions'
  <2>1. exec[e].at = "build" /\ UNCHANGED <<gen, val>>
    BY <1>2 DEF BuildTimeout
  <2>2. exec'[e].at # "generation"
        /\ \A d \in Exec \ {e} : exec'[d] = exec[d]
    <3>1. CASE exec' = [exec EXCEPT ![e].tries = exec[e].tries + 1]
      BY <1>0, <2>1, <3>1, TriesType
    <3>2. CASE exec' = Ended(e)
      BY <1>0, <3>2, EndedType
    <3>. QED BY <1>2, <3>1, <3>2, Zenon DEF BuildTimeout
  <2>. QED BY <2>1, <2>2, SessionsKept DEF Sessions
<1>3. ASSUME RebuildTimeout(e)
      PROVE  Sessions'
  <2>1. /\ val[e].pc = "rebuilding" /\ UNCHANGED <<gen, exec>>
        /\ NextRound(e, val[e].applied, FALSE)
    BY <1>3 DEF RebuildTimeout, stored
  <2>2. \A d \in Exec \ {e} : val'[d] = val[d]
    BY <1>0, <2>1, NextRoundType
  <2>. QED BY <2>1, <2>2, SessionsKept DEF Sessions
<1>. QED BY <1>1, <1>2, <1>3

LEMMA SessionsVal ==
  ASSUME ContentInv, Sessions, NEW e \in Exec,
         ValStep(e) \/ PatchFails(e) \/ ValFails(e) \/ ValTimeout(e)
  PROVE  Sessions'
<1>0. ContentTypeOK /\ exec \in [Exec -> Execution]
  BY DEF ContentInv, ContentTypeOK
<1>1. ASSUME Fail(e)
      PROVE  Sessions'
  <2>1. val[e].pc = "failing" /\ Verdict(e) /\ FailAnswered(e)
    BY <1>1 DEF Fail
  <2>2. ~(gen[e].left > 0)
    BY <2>1 DEF Sessions
  <2>3. val'[e].pc = "idle" /\ \A d \in Exec \ {e} : val'[d] = val[d]
    BY <1>0, <2>1, VerdictType
  <2>4. /\ \A d \in Exec \ {e} : exec'[d] = exec[d] /\ gen'[d] = gen[d]
        /\ \/ exec' = exec /\ gen' = gen
           \/ exec'[e].at = "idle" /\ gen' = gen
           \/ /\ exec'[e].at = "generation"
              /\ gen'[e].left = 1 /\ gen'[e].loaded = FALSE
    BY <1>0, <2>1, FailAnsweredType
  <2>. QED BY <2>2, <2>3, <2>4, SessionsOf DEF Sessions
<1>2. ASSUME Pass(e) \/ ValFails(e)
      PROVE  Sessions'
  <2>1. gen' = gen /\ Verdict(e) /\ (exec' = exec \/ exec' = Ended(e))
    BY <1>2 DEF Pass, ValFails
  <2>2. val'[e].pc = "idle" /\ \A d \in Exec \ {e} : val'[d] = val[d]
    BY <1>0, <2>1, VerdictType
  <2>3. /\ exec'[e].at \in {exec[e].at, "idle"}
        /\ \A d \in Exec \ {e} : exec'[d] = exec[d]
    BY <1>0, <2>1, EndedType
  <2>. QED BY <2>1, <2>2, <2>3, SessionsKept DEF Sessions
<1>3. ASSUME FetchSpec(e) \/ Inspect(e) \/ Patch(e) \/ PatchFails(e)
      PROVE  Sessions'
  <2>1. /\ val[e].pc \in {"fetch", "inspect", "patching"}
        /\ UNCHANGED <<gen, exec>>
    BY <1>3 DEF FetchSpec, Inspect, Patch, PatchFails
  <2>2. \A d \in Exec \ {e} : val'[d] = val[d]
    <3>1. CASE PatchFails(e)
      <4>1. NextRound(e, {}, FALSE)
        BY <3>1 DEF PatchFails
      <4>. QED BY <1>0, <4>1, NextRoundType
    <3>2. CASE FetchSpec(e)
      BY <1>0, <3>2, FetchType
    <3>3. CASE Inspect(e)
      BY <1>0, <3>3, InspectType
    <3>4. CASE Patch(e)
      BY <1>0, <3>4, PatchType
    <3>. QED BY <1>3, <3>1, <3>2, <3>3, <3>4
  <2>. QED BY <2>1, <2>2, SessionsKept DEF Sessions
<1>4. ASSUME ValTimeout(e)
      PROVE  Sessions'
  <2>1. /\ UNCHANGED <<gen, val>> /\ exec' = Ended(e)
        /\ exec[e].at = "validation"
    BY <1>4 DEF ValTimeout
  <2>2. /\ exec'[e].at = "idle"
        /\ \A d \in Exec \ {e} : exec'[d] = exec[d]
    BY <1>0, <2>1, EndedType
  <2>. QED BY <2>1, <2>2, SessionsKept DEF Sessions
<1>. QED BY <1>1, <1>2, <1>3, <1>4 DEF ValStep

LEMMA SessionsStep == ContentInv /\ Sessions /\ [Next]_vars => Sessions'
<1>. SUFFICES ASSUME ContentInv, Sessions, [Next]_vars
              PROVE  Sessions'
  OBVIOUS
<1>1. ASSUME \/ UNCHANGED vars
             \/ SaveContract
             \/ StrayLost
      PROVE  Sessions'
  <2>1. UNCHANGED <<exec, gen, val>>
    BY <1>1 DEF vars, SaveContract, StrayLost
  <2>. QED BY <2>1 DEF Sessions
<1>2. ASSUME NEW e \in Exec, Start(e)
      PROVE  Sessions'
  <2>1. 0 \in Nat /\ Begin(e, 0) /\ val' = val /\ val[e].pc = "idle"
    BY <1>2 DEF Start
  <2>2. /\ exec'[e].at = "generation"
        /\ gen'[e].left = 1 /\ gen'[e].loaded = FALSE
        /\ \A d \in Exec \ {e} : exec'[d] = exec[d] /\ gen'[d] = gen[d]
    BY <2>1, BeginType DEF ContentInv
  <2>. QED BY <2>1, <2>2, SessionsOf
<1>. QED
  BY <1>1, <1>2, SessionsGen, SessionsBuild, SessionsQueue, SessionsVal
     DEF Next

(* What a retry is steered by, where executions do not overlap: the        *)
(* feedback stays that of the verdict that caused it until its generation  *)
(* agent is done.                                                          *)
Steered ==
    \A e \in Exec :
      exec[e].from # 0 =>
        /\ gen[e].left > 0 => feedback = exec[e].from
        /\ gen[e].loaded => gen[e].hints = exec[e].from

(* One execution of the site at a time: its slot is the only one.          *)
Alone == \A d, e \in Exec : d = e

LEMMA SteeredInit == Init => Steered
BY DEF Init, Steered, NoRun

(* A step that loads no feedback, begins no execution and saves no         *)
(* feedback while a generation is under way.                               *)
LEMMA SteeredKept ==
  ASSUME Steered,
         \A e \in Exec : /\ exec'[e].from = exec[e].from
                         /\ gen'[e].left > 0 => gen[e].left > 0
                         /\ gen'[e].loaded => gen'[e] = gen[e],
         feedback' = feedback \/ \A e \in Exec : ~(gen[e].left > 0)
  PROVE  Steered'
BY DEF Steered

LEMMA SteeredGen ==
  ASSUME ContentInv, Sessions, Steered, NEW e \in Exec,
         GenStep(e) \/ GenFails(e) \/ GenTimeout(e)
  PROVE  Steered'
<1>0. /\ ContentTypeOK /\ spec.v \in Nat
      /\ exec \in [Exec -> Execution] /\ gen \in [Exec -> GenSession]
      /\ gen[e].left \in Nat
  BY DEF ContentInv, ContentTypeOK, Spec0, GenSession
<1>1. ASSUME GenLoad(e)
      PROVE  Steered'
  <2>1. /\ UNCHANGED <<exec, feedback>> /\ gen[e].left > 0
        /\ gen'[e].left = gen[e].left /\ gen'[e].hints = feedback
        /\ \A d \in Exec \ {e} : gen'[d] = gen[d]
    BY <1>0, <1>1 DEF GenLoad, GenSession, stored
  <2>. QED BY <2>1 DEF Steered
<1>2. ASSUME NEW ok \in BOOLEAN, NEW n \in Nat, GenAnswers(e, ok, n),
             gen[e].left > 0, feedback' = feedback
      PROVE  Steered'
  <2>1. /\ gen'[e].loaded = FALSE /\ exec'[e].from = exec[e].from
        /\ \A d \in Exec \ {e} : exec'[d] = exec[d] /\ gen'[d] = gen[d]
    BY <1>0, <1>2, GenAnswersType
  <2>. QED BY <1>2, <2>1, SteeredKept
<1>3. ASSUME GenSkip(e) \/ GenSave(e) \/ GenFails(e)
      PROVE  Steered'
  <2>1. /\ gen[e].left > 0 /\ feedback' = feedback
        /\ \/ GenAnswers(e, TRUE, spec.v)
           \/ GenAnswers(e, TRUE, spec.v + 1)
           \/ GenAnswers(e, FALSE, spec.v)
    BY <1>3, Zenon DEF GenSkip, GenSave, GenFails, stored
  <2>2. spec.v + 1 \in Nat
    BY <1>0
  <2>. QED BY <1>0, <1>2, <2>1, <2>2
<1>4. ASSUME GenTimeout(e)
      PROVE  Steered'
  <2>1. gen[e].left > 0 /\ feedback' = feedback
    BY <1>4 DEF GenTimeout, Sessions, stored
  <2>2. \A d \in Exec : exec'[d].from = exec[d].from
    <3>1. CASE exec' = [exec EXCEPT ![e].tries = exec[e].tries + 1]
      <4>1. /\ exec'[e].from = exec[e].from
            /\ \A d \in Exec \ {e} : exec'[d] = exec[d]
        BY <1>0, <3>1, TriesType
      <4>. QED BY <4>1
    <3>2. CASE exec' = Ended(e)
      <4>1. /\ exec'[e].from = exec[e].from
            /\ \A d \in Exec \ {e} : exec'[d] = exec[d]
        BY <1>0, <3>2, EndedType
      <4>. QED BY <4>1
    <3>. QED BY <1>4, <3>1, <3>2, Zenon DEF GenTimeout
  <2>3. \A d \in Exec : /\ gen'[d].loaded = gen[d].loaded
                        /\ gen'[d].hints = gen[d].hints
                        /\ d # e => gen'[d] = gen[d]
    BY <1>0, <1>4 DEF GenTimeout, GenSession
  <2>. QED BY <2>1, <2>2, <2>3 DEF Steered
<1>. QED BY <1>1, <1>3, <1>4 DEF GenStep

(* Only the generation agent's sessions and executions that begin concern  *)
(* the origin of an execution.                                             *)
LEMMA OriginKept ==
  ASSUME ContentInv, [Next]_vars, NEW e \in Exec
  PROVE  \/ exec'[e].from = exec[e].from
         \/ Start(e) \/ Fail(e)
<1>0. /\ ContentTypeOK
      /\ exec \in [Exec -> Execution] /\ spec.v \in Nat
  BY DEF ContentInv, ContentTypeOK, Spec0
<1>. SUFFICES ASSUME ~Start(e), ~Fail(e)
              PROVE  exec'[e].from = exec[e].from
  OBVIOUS
<1>1. ASSUME NEW d \in Exec,
             \/ exec' = [exec EXCEPT ![d].at = "build", ![d].tries = 0]
             \/ exec' = [exec EXCEPT ![d].at = "validation", ![d].tries = 0]
             \/ exec' = [exec EXCEPT ![d].tries = exec[d].tries + 1]
             \/ exec' = Ended(d)
             \/ exec' = exec
      PROVE  exec'[e].from = exec[e].from
  <2>. DEFINE Kept == /\ exec'[d].from = exec[d].from
                      /\ \A c \in Exec \ {d} : exec'[c] = exec[c]
  <2>1. CASE exec' = [exec EXCEPT ![d].at = "build", ![d].tries = 0]
    <3>1. Kept
      BY <1>0, <2>1, AdvancedType
    <3>. QED BY <3>1
  <2>2. CASE exec' = [exec EXCEPT ![d].at = "validation", ![d].tries = 0]
    <3>1. Kept
      BY <1>0, <2>2, AdvancedType
    <3>. QED BY <3>1
  <2>3. CASE exec' = [exec EXCEPT ![d].tries = exec[d].tries + 1]
    <3>1. Kept
      BY <1>0, <2>3, TriesType
    <3>. QED BY <3>1
  <2>4. CASE exec' = Ended(d)
    <3>1. Kept
      BY <1>0, <2>4, EndedType
    <3>. QED BY <3>1
  <2>. QED BY <1>1, <2>1, <2>2, <2>3, <2>4
<1>2. ASSUME NEW who \in Exec \union {Nobody}, NEW ok \in BOOLEAN,
             BuildAnswers(who, ok)
      PROVE  exec'[e].from = exec[e].from
  BY <1>1, <1>2, Zenon DEF BuildAnswers
<1>3. ASSUME NEW d \in Exec, GenStep(d) \/ GenFails(d) \/ GenTimeout(d)
      PROVE  exec'[e].from = exec[e].from
  BY <1>1, <1>3, Zenon DEF GenStep, GenLoad, GenSkip, GenSave, GenFails,
                           GenTimeout, GenAnswers
<1>4. ASSUME NEW t \in Thread, BuildStep(t) \/ BuildFails(t)
      PROVE  exec'[e].from = exec[e].from
  <2>1. thread[t].for \in Exec \union {Nobody}
    BY <1>0 DEF ContentTypeOK, Job
  <2>. QED BY <1>2, <1>4, <2>1, Zenon
           DEF BuildStep, BuildLoad, PutHtml, PutGeo, BuildFails
<1>5. ASSUME NEW d \in Exec,
             Unreachable(d) \/ BuildTimeout(d) \/ RebuildTimeout(d)
      PROVE  exec'[e].from = exec[e].from
  BY <1>1, <1>2, <1>5, Zenon DEF Unreachable, BuildTimeout, RebuildTimeout
<1>6. ASSUME NEW d \in Exec,
             \/ FetchSpec(d) \/ Inspect(d) \/ Pass(d) \/ Patch(d)
             \/ PatchFails(d) \/ ValFails(d) \/ ValTimeout(d)
      PROVE  exec'[e].from = exec[e].from
  BY <1>1, <1>6, Zenon DEF FetchSpec, Inspect, Pass, Patch, PatchFails,
                           ValFails, ValTimeout
<1>7. ASSUME NEW d \in Exec, Start(d)
      PROVE  exec'[e].from = exec[e].from
  <2>1. 0 \in Nat /\ Begin(d, 0)
    BY <1>7 DEF Start
  <2>. QED BY <1>0, <1>7, <2>1, BeginType
<1>8. ASSUME NEW d \in Exec, Fail(d)
      PROVE  exec'[e].from = exec[e].from
  <2>1. FailAnswered(d)
    BY <1>8 DEF Fail
  <2>. QED BY <1>0, <1>8, <2>1, FailAnsweredType
<1>9. ASSUME UNCHANGED vars \/ SaveContract \/ StrayLost
      PROVE  exec'[e].from = exec[e].from
  BY <1>9 DEF vars, SaveContract, StrayLost
<1>. QED
  BY <1>3, <1>4, <1>5, <1>6, <1>7, <1>8, <1>9 DEF Next, ValStep

(* A verdict that fails speaks of the execution it is the verdict of, and  *)
(* no generation is under way then: the one that begins is its retry.      *)
LEMMA SteeredFail ==
  ASSUME Alone, ContentInv, Sessions, Steered, NEW e \in Exec, Fail(e)
  PROVE  Steered'
<1>0. ContentTypeOK
  BY DEF ContentInv
<1>1. /\ val[e].pc = "failing" /\ feedback' = exec[e].run
      /\ FailAnswered(e)
  BY DEF Fail
<1>2. ~(gen[e].left > 0) /\ ~gen[e].loaded
  BY <1>1 DEF Sessions
<1>3. \/ exec'[e].from = exec[e].from /\ gen' = gen
      \/ exec'[e].from = feedback' /\ gen'[e].loaded = FALSE
  <2>1. CASE exec' = exec /\ gen' = gen
    BY <2>1
  <2>2. CASE exec' = Ended(e) /\ gen' = gen
    BY <1>0, <2>2, EndedType
  <2>3. CASE Begin(e, exec[e].run)
    <3>1. exec[e].run \in Nat
      BY <1>0 DEF ContentTypeOK, Execution
    <3>. QED BY <1>0, <1>1, <2>3, <3>1, BeginType
  <2>. QED BY <1>1, <2>1, <2>2, <2>3, Zenon DEF FailAnswered
<1>. QED BY <1>2, <1>3 DEF Alone, Steered

LEMMA SteeredStep ==
  ASSUME Alone
  PROVE  ContentInv /\ Sessions /\ Steered /\ [Next]_vars => Steered'
<1>. SUFFICES ASSUME ContentInv, Sessions, Steered, [Next]_vars
              PROVE  Steered'
  OBVIOUS
<1>1. ASSUME NEW e \in Exec, Start(e)
      PROVE  Steered'
  <2>1. 0 \in Nat /\ Begin(e, 0)
    BY <1>1 DEF Start
  <2>2. exec'[e].from = 0
    BY <2>1, BeginType DEF ContentInv
  <2>. QED BY <2>2 DEF Alone, Steered
<1>2. ASSUME gen' = gen, feedback' = feedback,
             \A e \in Exec : ~Start(e) /\ ~Fail(e)
      PROVE  Steered'
  <2>1. \A e \in Exec : exec'[e].from = exec[e].from
    BY <1>2, OriginKept
  <2>. QED BY <1>2, <2>1, SteeredKept
<1>3. \/ gen' = gen /\ feedback' = feedback
      \/ \E e \in Exec :
           Start(e) \/ GenStep(e) \/ GenFails(e) \/ GenTimeout(e) \/ Fail(e)
  <2>1. ASSUME UNCHANGED vars \/ SaveContract \/ StrayLost
        PROVE  gen' = gen /\ feedback' = feedback
    BY <2>1 DEF vars, SaveContract, StrayLost, stored
  <2>2. ASSUME NEW t \in Thread, BuildStep(t) \/ BuildFails(t)
        PROVE  gen' = gen /\ feedback' = feedback
    BY <2>2 DEF BuildStep, BuildLoad, PutHtml, PutGeo, BuildFails, stored
  <2>3. ASSUME NEW e \in Exec,
               \/ Unreachable(e) \/ BuildTimeout(e) \/ RebuildTimeout(e)
               \/ FetchSpec(e) \/ Inspect(e) \/ Pass(e) \/ Patch(e)
               \/ PatchFails(e) \/ ValFails(e) \/ ValTimeout(e)
        PROVE  gen' = gen /\ feedback' = feedback
    BY <2>3 DEF Unreachable, BuildTimeout, RebuildTimeout, FetchSpec, Inspect,
                Pass, Patch, PatchFails, ValFails, ValTimeout, stored
  <2>. QED BY <2>1, <2>2, <2>3 DEF Next, ValStep
<1>. QED BY <1>1, <1>2, <1>3, SteeredGen, SteeredFail

(* Of executions that do not overlap, whatever times out and whichever     *)
(* invocation of the generation agent loads it: a retry is steered by the  *)
(* verdict that caused it.                                                 *)
THEOREM RetriesSteered ==
  ASSUME Alone
  PROVE  Spec => []RetrySteered
<1>1. Init => Sessions /\ Steered
  BY SessionsInit, SteeredInit
<1>2. ContentInv /\ Sessions /\ Steered /\ [Next]_vars
        => (Sessions /\ Steered)'
  BY SessionsStep, SteeredStep
<1>3. Steered => RetrySteered
  BY DEF Steered, RetrySteered
<1>. QED BY <1>1, <1>2, <1>3, ContentInvariant, PTL DEF Spec

-----------------------------------------------------------------------------
(* Who writes what.                                                        *)

(* Only a generation and a patch store a render_spec.                      *)
LEMMA SpecChanges ==
  ASSUME [Next]_vars
  PROVE  spec' = spec \/ \E e \in Exec : GenSave(e) \/ Patch(e)
<1>1. ASSUME UNCHANGED vars \/ SaveContract \/ StrayLost
      PROVE  spec' = spec
  BY <1>1 DEF vars, SaveContract, StrayLost, stored
<1>2. ASSUME NEW e \in Exec,
             \/ Start(e) \/ GenLoad(e) \/ GenSkip(e) \/ GenFails(e)
             \/ GenTimeout(e)
      PROVE  spec' = spec
  BY <1>2 DEF Start, GenLoad, GenSkip, GenFails, GenTimeout, stored
<1>3. ASSUME NEW e \in Exec,
             Unreachable(e) \/ BuildTimeout(e) \/ RebuildTimeout(e)
      PROVE  spec' = spec
  BY <1>3 DEF Unreachable, BuildTimeout, RebuildTimeout, stored
<1>4. ASSUME NEW e \in Exec,
             \/ FetchSpec(e) \/ Inspect(e) \/ Pass(e) \/ Fail(e)
             \/ PatchFails(e) \/ ValFails(e) \/ ValTimeout(e)
      PROVE  spec' = spec
  BY <1>4 DEF FetchSpec, Inspect, Pass, Fail, PatchFails, ValFails,
              ValTimeout, stored
<1>5. ASSUME NEW t \in Thread, BuildStep(t) \/ BuildFails(t)
      PROVE  spec' = spec
  BY <1>5 DEF BuildStep, BuildLoad, PutHtml, PutGeo, BuildFails, stored
<1>. QED BY <1>1, <1>2, <1>3, <1>4, <1>5 DEF Next, GenStep, ValStep

(* What a thread that builds was doing before.                             *)
LEMMA ThreadChanges ==
  ASSUME ContentTypeOK, [Next]_vars, NEW t \in Thread,
         thread'[t].at # "idle"
  PROVE  \/ /\ thread'[t].at = thread[t].at
            /\ thread'[t].spec = thread[t].spec
         \/ /\ PutHtml(t)
            /\ thread'[t].at = "geo"
            /\ thread'[t].spec = thread[t].spec
         \/ /\ Free(t) /\ spec.v > 0
            /\ thread'[t].at = "html" /\ thread'[t].spec = spec
            /\ UNCHANGED <<spec, site>>
<1>0. thread \in [Thread -> Job] /\ NoJob.at = "idle"
  BY DEF ContentTypeOK, NoJob
<1>1. ASSUME \/ UNCHANGED vars
             \/ SaveContract
             \/ StrayLost
             \/ \E e \in Exec :
                  \/ Start(e) \/ GenStep(e) \/ GenFails(e) \/ GenTimeout(e)
                  \/ Unreachable(e)
      PROVE  thread' = thread
  BY <1>1 DEF vars, SaveContract, StrayLost, Start, GenStep, GenLoad, GenSkip,
              GenSave, GenFails, GenTimeout, Unreachable, worker
<1>2. ASSUME NEW e \in Exec,
             ValStep(e) \/ PatchFails(e) \/ ValFails(e) \/ ValTimeout(e)
      PROVE  thread' = thread
  BY <1>2 DEF ValStep, FetchSpec, Inspect, Pass, Fail, Patch, PatchFails,
              ValFails, ValTimeout, worker
<1>3. ASSUME NEW e \in Exec, BuildTimeout(e) \/ RebuildTimeout(e)
      PROVE  /\ thread'[t].at = thread[t].at
             /\ thread'[t].spec = thread[t].spec
  BY <1>3, HangUpType DEF BuildTimeout, RebuildTimeout
<1>4. ASSUME NEW u \in Thread, NEW who \in Exec \union {Nobody},
             BuildLoad(u, who)
      PROVE  \/ thread'[t] = thread[t]
             \/ /\ Free(t) /\ spec.v > 0
                /\ thread'[t].at = "html" /\ thread'[t].spec = spec
                /\ UNCHANGED <<spec, site>>
  <2>1. \/ thread' = thread
        \/ /\ Free(u) /\ spec.v > 0 /\ UNCHANGED <<spec, site>>
           /\ thread' = [thread EXCEPT ![u] =
                           [at |-> "html", for |-> who, spec |-> spec]]
    BY <1>4, Zenon DEF BuildLoad, stored
  <2>2. Free(u) => Free(t)
    BY DEF Free
  <2>. QED BY <1>0, <2>1, <2>2
<1>5. ASSUME NEW u \in Thread, PutHtml(u)
      PROVE  \/ thread'[t] = thread[t]
             \/ /\ PutHtml(t)
                /\ thread'[t].at = "geo"
                /\ thread'[t].spec = thread[t].spec
  <2>1. /\ \A j \in Job : LET k == [j EXCEPT !.at = "geo"]
                          IN  k.at = "geo" /\ k.spec = j.spec
        /\ thread' = [thread EXCEPT ![u].at = "geo"]
    BY <1>5 DEF PutHtml, Job
  <2>. QED BY <1>0, <1>5, <2>1
<1>6. ASSUME NEW u \in Thread, PutGeo(u) \/ BuildFails(u)
      PROVE  thread'[t] = thread[t]
  <2>1. thread' = [thread EXCEPT ![u] = NoJob]
    BY <1>6 DEF PutGeo, BuildFails
  <2>. QED BY <1>0, <2>1
<1>. QED
  BY <1>1, <1>2, <1>3, <1>4, <1>5, <1>6 DEF Next, BuildStep

(* How the session of a validation goes on; its next round counts as       *)
(* rebuilt only by the answer of a build that was made for it.             *)
NextFetch(e) ==
    /\ val'[e].pc = "fetch" /\ val'[e].issues = {} /\ val'[e].listed = FALSE
    /\ \/ val'[e].applied = {}
       \/ val[e].pc # "idle" /\ val'[e].applied = val[e].applied
    /\ \/ val[e].pc # "idle" /\ val'[e].rebuilt = FALSE
       \/ \E t \in Thread :
            /\ PutGeo(t) /\ thread[t].for = e
            /\ val'[e].rebuilt = FALSE \/ val[e].pc = "rebuilding"

LEMMA ValChanges ==
  ASSUME ContentInv, [Next]_vars, NEW e \in Exec
  PROVE  \/ val'[e] = val[e]
         \/ val'[e].pc = "idle" /\ val'[e].issues = {}
         \/ NextFetch(e)
         \/ FetchSpec(e) \/ Inspect(e) \/ Patch(e)
<1>0. /\ ContentTypeOK /\ val \in [Exec -> ValSession]
      /\ \A d \in Exec : val[d].applied \in SUBSET Code
  BY DEF ContentInv, ContentTypeOK, ValSession
<1>1. ASSUME \/ UNCHANGED vars
             \/ SaveContract
             \/ StrayLost
             \/ \E d \in Exec :
                  \/ Start(d) \/ GenStep(d) \/ GenFails(d) \/ GenTimeout(d)
                  \/ BuildTimeout(d) \/ ValTimeout(d)
      PROVE  val' = val
  BY <1>1 DEF vars, SaveContract, StrayLost, Start, GenStep, GenLoad, GenSkip,
              GenSave, GenFails, GenTimeout, BuildTimeout, ValTimeout
<1>2. ASSUME NEW d \in Exec, Pass(d) \/ Fail(d) \/ ValFails(d)
      PROVE  \/ val'[e] = val[e]
             \/ val'[e].pc = "idle" /\ val'[e].issues = {}
  <2>1. Verdict(d)
    BY <1>2 DEF Pass, Fail, ValFails
  <2>2. /\ val'[d].pc = "idle" /\ val'[d].issues = {}
        /\ \A c \in Exec \ {d} : val'[c] = val[c]
    BY <1>0, <2>1, VerdictType
  <2>. QED BY <2>2
<1>3. ASSUME NEW d \in Exec, PatchFails(d) \/ RebuildTimeout(d)
      PROVE  val'[e] = val[e] \/ NextFetch(e)
  <2>1. val[d].pc # "idle"
    BY <1>3 DEF PatchFails, RebuildTimeout
  <2>2. ASSUME NEW applied \in {{}, val[d].applied},
               NextRound(d, applied, FALSE)
        PROVE  val'[e] = val[e] \/ NextFetch(e)
    <3>1. /\ val'[d].pc = "fetch" /\ val'[d].rebuilt = FALSE
          /\ val'[d].applied = applied /\ val'[d].listed = FALSE
          /\ val'[d].issues = {}
          /\ \A c \in Exec \ {d} : val'[c] = val[c]
      BY <1>0, <2>2, NextRoundType
    <3>. QED BY <2>1, <3>1 DEF NextFetch
  <2>. QED BY <1>3, <2>2 DEF PatchFails, RebuildTimeout
<1>4. ASSUME NEW d \in Exec, FetchSpec(d) \/ Inspect(d) \/ Patch(d), d # e
      PROVE  val'[e] = val[e]
  <2>1. CASE FetchSpec(d)
    BY <1>0, <1>4, <2>1, FetchType
  <2>2. CASE Inspect(d)
    BY <1>0, <1>4, <2>2, InspectType
  <2>3. CASE Patch(d)
    BY <1>0, <1>4, <2>3, PatchType
  <2>. QED BY <1>4, <2>1, <2>2, <2>3
<1>5. ASSUME NEW who \in Exec \union {Nobody}, NEW ok \in BOOLEAN,
             BuildAnswers(who, ok),
             ok = FALSE \/ \E t \in Thread : PutGeo(t) /\ thread[t].for = who
      PROVE  val'[e] = val[e] \/ NextFetch(e)
  <2>1. /\ \A d \in Exec \ {who} : val'[d] = val[d]
        /\ \/ val' = val
           \/ /\ ok = TRUE /\ who \in Exec /\ exec[who].at = "build"
              /\ val'[who] = Round(1, {}, FALSE)
           \/ /\ who \in Exec /\ val[who].pc = "rebuilding"
              /\ val'[who] = Round(val[who].round + 1, val[who].applied, ok)
    BY <1>0, <1>5, BuildAnswersType
  <2>2. CASE who = e /\ ok = TRUE /\ val'[e] = Round(1, {}, FALSE)
    BY <1>5, <2>2 DEF Round, NextFetch
  <2>3. CASE /\ who = e /\ val[e].pc = "rebuilding"
             /\ val'[e] = Round(val[e].round + 1, val[e].applied, ok)
    <3>1. /\ val'[e].pc = "fetch" /\ val'[e].issues = {}
          /\ val'[e].listed = FALSE /\ val'[e].applied = val[e].applied
          /\ val'[e].rebuilt = ok
      BY <2>3 DEF Round
    <3>. QED BY <1>5, <2>3, <3>1 DEF NextFetch
  <2>. QED BY <2>1, <2>2, <2>3
<1>6. ASSUME NEW t \in Thread, BuildStep(t) \/ BuildFails(t)
      PROVE  val'[e] = val[e] \/ NextFetch(e)
  <2>1. thread[t].for \in Exec \union {Nobody}
    BY <1>0 DEF ContentTypeOK, Job
  <2>2. ASSUME NEW who \in Exec \union {Nobody}, BuildLoad(t, who)
        PROVE  val' = val \/ BuildAnswers(who, FALSE)
    BY <2>2 DEF BuildLoad
  <2>3. CASE PutHtml(t)
    BY <2>3 DEF PutHtml
  <2>4. PutGeo(t) => BuildAnswers(thread[t].for, TRUE)
    BY Zenon DEF PutGeo
  <2>5. BuildFails(t) => BuildAnswers(thread[t].for, FALSE)
    BY Zenon DEF BuildFails
  <2>6. PutGeo(t) => val'[e] = val[e] \/ NextFetch(e)
    BY <1>5, <2>1, <2>4
  <2>7. BuildFails(t) => val'[e] = val[e] \/ NextFetch(e)
    BY <1>5, <2>1, <2>5
  <2>. QED BY <1>5, <1>6, <2>2, <2>3, <2>6, <2>7 DEF BuildStep
<1>7. ASSUME NEW d \in Exec, Unreachable(d)
      PROVE  val'[e] = val[e] \/ NextFetch(e)
  BY <1>5, <1>7 DEF Unreachable
<1>. QED
  BY <1>1, <1>2, <1>3, <1>4, <1>6, <1>7 DEF Next, ValStep

-----------------------------------------------------------------------------
(* What is in every page that is stored, built or served.                  *)

Beyond == {"NO_H1", "NO_JSONLD", "NO_FAQ_PAGE_JSONLD", "NO_HTML"}
Whole(page) == page.h1 = TRUE /\ page.ld = "faq"

LEMMA WholeRules ==
  /\ \A p \in Page : Whole(Fill(p))
  /\ \A p \in Page : Whole(p) => Render(p).h1 = TRUE /\ Render(p).ld = "faq"
  /\ \A p \in Page, codes \in SUBSET Code, ld \in {"other", "faq"} :
       Whole(p) /\ codes \intersect Beyond = {} => Whole(Patched(p, codes, ld))
  /\ \A p \in Page, codes \in SUBSET Code : Applied(p, codes) \subseteq codes
  /\ \A html \in Html, llms \in BOOLEAN :
       html.h1 = TRUE /\ html.ld = "faq"
         => Layer3(TRUE, html, llms) \intersect Beyond = {}
  /\ Demands \intersect Beyond = {}
<1>1. ASSUME NEW p \in Page
      PROVE  Whole(Fill(p))
  BY DEF Whole, Fill, Page
<1>2. ASSUME NEW p \in Page, Whole(p)
      PROVE  Render(p).h1 = TRUE /\ Render(p).ld = "faq"
  BY <1>2 DEF Whole, Render
<1>3. ASSUME NEW p \in Page, NEW codes \in SUBSET Code,
             NEW ld \in {"other", "faq"},
             Whole(p), codes \intersect Beyond = {}
      PROVE  Whole(Patched(p, codes, ld))
  <2>1. codes \intersect {"NO_JSONLD", "NO_FAQ_PAGE_JSONLD"} = {}
    BY <1>3 DEF Beyond
  <2>. QED BY <1>3, <2>1 DEF Whole, Patched
<1>4. \A p \in Page, codes \in SUBSET Code : Applied(p, codes) \subseteq codes
  BY DEF Applied
<1>5. ASSUME NEW html \in Html, NEW llms \in BOOLEAN,
             html.h1 = TRUE, html.ld = "faq"
      PROVE  Layer3(TRUE, html, llms) \intersect Beyond = {}
  BY <1>5 DEF Layer3, Broken, Structural, Beyond
<1>6. Demands \intersect Beyond = {}
  BY DEF Demands, Beyond
<1>. QED BY <1>1, <1>2, <1>3, <1>4, <1>5, <1>6

(* What is stored, what is built from it, what is served, and so what a    *)
(* validation reads and reports.                                           *)
Filled ==
    /\ spec.v > 0 => Whole(spec.page)
    /\ site.v > 0 => site.html.h1 = TRUE /\ site.html.ld = "faq"
    /\ \A t \in Thread : thread[t].at # "idle" =>
         thread[t].spec.v > 0 /\ Whole(thread[t].spec.page)
    /\ \A e \in Exec :
         /\ val[e].pc # "idle" => site.v > 0
         /\ val[e].pc \notin {"idle", "fetch"} => Whole(val[e].spec.page)
         /\ val[e].issues \intersect Beyond = {}

LEMMA FilledInit == Init => Filled
BY DEF Init, Filled, NoSpec, NoJob, NoVal

LEMMA FilledStep == ContentInv /\ Filled /\ [Next]_vars => Filled'
<1>. SUFFICES ASSUME ContentInv, Filled, [Next]_vars
              PROVE  Filled'
  OBVIOUS
<1>0. /\ ContentTypeOK /\ spec \in Spec0 /\ spec.v \in Nat /\ site \in Site
      /\ site.v \in Nat /\ site.html \in Html /\ site.llms \in BOOLEAN
      /\ site.v <= spec.v
      /\ \A t \in Thread : thread[t].spec \in Spec0 /\ thread[t].spec.v \in Nat
                           /\ thread[t].spec.page \in Page
      /\ \A e \in Exec : /\ val[e] \in ValSession
                         /\ val[e].spec.page \in Page
                         /\ val[e].issues \in SUBSET Code
                         /\ val[e].demands \in SUBSET Demands
  BY DEF ContentInv, Serial, ContentTypeOK, Spec0, Site, Job, ValSession
<1>1. spec'.v > 0 => Whole(spec'.page)
  <2>1. ASSUME NEW e \in Exec, GenSave(e)
        PROVE  Whole(spec'.page)
    <3>1. PICK draft \in Page : spec'.page = Fill(draft)
      BY <2>1, ContentAssumption DEF GenSave
    <3>. QED BY <3>1, WholeRules
  <2>2. ASSUME NEW e \in Exec, Patch(e)
        PROVE  Whole(spec'.page)
    <3>. DEFINE applied == Applied(val[e].spec.page, val[e].issues)
    <3>1. PICK ld \in {"other", "faq"} :
            spec'.page = Patched(val[e].spec.page, applied, ld)
      BY <1>0, <2>2, PatchType
    <3>2. Whole(val[e].spec.page)
      BY <2>2 DEF Patch, Filled
    <3>3. applied \subseteq val[e].issues /\ applied \in SUBSET Code
      BY <1>0, WholeRules, RulesType
    <3>4. applied \intersect Beyond = {}
      BY <3>3 DEF Filled
    <3>. QED BY <1>0, <3>1, <3>2, <3>3, <3>4, WholeRules
  <2>. QED BY <2>1, <2>2, SpecChanges DEF Filled
<1>2. /\ site'.v > 0 => site'.html.h1 = TRUE /\ site'.html.ld = "faq"
      /\ site.v > 0 => site'.v > 0
  <2>1. ASSUME NEW t \in Thread, PutHtml(t)
        PROVE  /\ site'.html.h1 = TRUE /\ site'.html.ld = "faq"
               /\ site'.v > 0
    <3>1. /\ thread[t].at = "html" /\ site'.v = thread[t].spec.v
          /\ site'.html = Render(thread[t].spec.page)
      BY <1>0, <2>1, PutHtmlSite
    <3>2. thread[t].spec.v > 0 /\ Whole(thread[t].spec.page)
      BY <3>1 DEF Filled
    <3>. QED BY <1>0, <3>1, <3>2, WholeRules
  <2>2. ASSUME NEW t \in Thread, PutGeo(t) \/ BuildFails(t)
        PROVE  site'.v = site.v /\ site'.html = site.html
    BY <1>0, <2>2, PutGeoSite, BuildFailsSite
  <2>. QED BY <2>1, <2>2, SiteChanges DEF Filled
<1>3. ASSUME NEW t \in Thread, thread'[t].at # "idle"
      PROVE  thread'[t].spec.v > 0 /\ Whole(thread'[t].spec.page)
  <2>1. \/ thread[t].at # "idle" /\ thread'[t].spec = thread[t].spec
        \/ spec.v > 0 /\ thread'[t].spec = spec
    BY <1>0, <1>3, ThreadChanges DEF PutHtml
  <2>. QED BY <2>1 DEF Filled
<1>4. ASSUME NEW e \in Exec
      PROVE  /\ val'[e].pc # "idle" => site'.v > 0
             /\ val'[e].pc \notin {"idle", "fetch"} => Whole(val'[e].spec.page)
             /\ val'[e].issues \intersect Beyond = {}
  <2>1. CASE val'[e] = val[e]
    BY <1>2, <2>1 DEF Filled
  <2>2. CASE val'[e].pc = "idle" /\ val'[e].issues = {}
    BY <2>2
  <2>3. CASE NextFetch(e)
    <3>1. ASSUME NEW t \in Thread, PutGeo(t)
          PROVE  site'.v > 0
      <4>1. thread[t].at = "geo" /\ site'.v = site.v
        BY <1>0, <3>1, PutGeoSite
      <4>2. thread[t].spec.v > 0 /\ site.v = thread[t].spec.v
        BY <4>1 DEF Filled, ContentInv, Serial
      <4>. QED BY <4>1, <4>2
    <3>. QED BY <1>2, <2>3, <3>1 DEF Filled, NextFetch
  <2>4. CASE FetchSpec(e)
    <3>1. /\ val[e].pc = "fetch" /\ val'[e].spec = spec
          /\ val'[e].issues = val[e].issues
      BY <1>0, <2>4, FetchType DEF FetchSpec
    <3>2. site.v > 0 /\ spec.v > 0
      BY <1>0, <3>1 DEF Filled
    <3>. QED BY <1>2, <3>1, <3>2 DEF Filled
  <2>5. CASE Inspect(e)
    <3>1. /\ val[e].pc = "inspect" /\ val'[e].spec = val[e].spec
          /\ val'[e].listed \in BOOLEAN
          /\ val'[e].issues = Seen(e, val'[e].listed)
      BY <1>0, <2>5, InspectType DEF Inspect
    <3>2. /\ site.v > 0 /\ Whole(val[e].spec.page)
          /\ site.html.h1 = TRUE /\ site.html.ld = "faq"
      BY <3>1 DEF Filled
    <3>3. (site.v > 0) = TRUE /\ (val'[e].listed /\ site.llms) \in BOOLEAN
      BY <1>0, <3>1, <3>2
    <3>4. Layer3(site.v > 0, site.html, val'[e].listed /\ site.llms)
            \intersect Beyond = {}
      BY <1>0, <3>2, <3>3, WholeRules
    <3>5. val[e].demands \intersect Beyond = {}
      BY <1>0, WholeRules
    <3>. QED BY <1>2, <3>1, <3>2, <3>4, <3>5 DEF Seen
  <2>6. CASE Patch(e)
    <3>1. /\ val[e].pc = "patching" /\ val'[e].spec = val[e].spec
          /\ val'[e].issues = val[e].issues
      BY <1>0, <2>6, PatchType DEF Patch
    <3>. QED BY <1>2, <3>1 DEF Filled
  <2>. QED BY <2>1, <2>2, <2>3, <2>4, <2>5, <2>6, ValChanges
<1>. QED BY <1>1, <1>2, <1>3, <1>4 DEF Filled

(* No verdict, on whichever page an overlapping execution served, names a  *)
(* rule that only another call of the model could satisfy.                 *)
THEOREM FillIsEnough == Spec => []FillSuffices
<1>1. ContentInv /\ Filled /\ [Next]_vars => Filled'
  BY FilledStep
<1>2. Filled => FillSuffices
  BY DEF Filled, FillSuffices, Beyond
<1>. QED BY <1>1, <1>2, FilledInit, ContentInvariant, PTL DEF Spec

-----------------------------------------------------------------------------
(* What a validation that runs alone rests on.                             *)

(* A version is of one spec: a build that began with the version that is   *)
(* stored has that spec, a page of that version is its rendering.          *)
Versions ==
    /\ \A t \in Thread :
         /\ thread[t].at # "idle" /\ thread[t].spec.v = spec.v
              => thread[t].spec = spec
         /\ thread[t].at = "geo"
              => /\ site.html = Render(thread[t].spec.page)
                 /\ site.gen = thread[t].spec.gen
    /\ site.v > 0 /\ site.v = spec.v
         => site.html = Render(spec.page) /\ site.gen = spec.gen

LEMMA VersionsInit == Init => Versions
BY DEF Init, Versions, NoJob

LEMMA VersionsStep == ContentInv /\ Versions /\ [Next]_vars => Versions'
<1>. SUFFICES ASSUME ContentInv, Versions, [Next]_vars
              PROVE  Versions'
  OBVIOUS
<1>0. /\ ContentTypeOK /\ spec.v \in Nat /\ site.v \in Nat
      /\ site.v <= spec.v
      /\ \A t \in Thread : thread[t].spec.v \in Nat
      /\ \A t \in Thread :
           thread[t].at # "idle" => thread[t].spec.v <= spec.v
      /\ \A t, u \in Thread :
           thread[t].at # "idle" /\ thread[u].at # "idle" => t = u
  BY DEF ContentInv, Serial, ContentTypeOK, Spec0, Site, Job
<1>1. spec' = spec \/ (spec'.v = spec.v + 1 /\ site' = site)
  <2>1. ASSUME NEW e \in Exec, GenSave(e)
        PROVE  spec'.v = spec.v + 1 /\ site' = site
    BY <2>1 DEF GenSave
  <2>2. ASSUME NEW e \in Exec, Patch(e)
        PROVE  spec'.v = spec.v + 1 /\ site' = site
    BY <1>0, <2>2, PatchType DEF Patch
  <2>. QED BY <2>1, <2>2, SpecChanges
<1>2. ASSUME NEW t \in Thread, thread'[t].at # "idle",
             thread'[t].spec.v = spec'.v
      PROVE  thread'[t].spec = spec'
  <2>1. \/ thread[t].at # "idle" /\ thread'[t].spec = thread[t].spec
        \/ spec' = spec /\ thread'[t].spec = spec
    BY <1>0, <1>2, ThreadChanges DEF PutHtml
  <2>2. CASE thread[t].at # "idle" /\ thread'[t].spec = thread[t].spec
    <3>1. thread[t].spec.v <= spec.v /\ thread[t].spec.v \in Nat
      BY <1>0, <2>2
    <3>2. spec' = spec
      BY <1>0, <1>1, <1>2, <2>2, <3>1
    <3>. QED BY <1>2, <2>2, <3>2 DEF Versions
  <2>. QED BY <2>1, <2>2
<1>3. ASSUME NEW t \in Thread, thread'[t].at = "geo"
      PROVE  /\ site'.html = Render(thread'[t].spec.page)
             /\ site'.gen = thread'[t].spec.gen
  <2>1. CASE PutHtml(t) /\ thread'[t].spec = thread[t].spec
    BY <1>0, <2>1, PutHtmlSite
  <2>2. CASE thread[t].at = "geo" /\ thread'[t].spec = thread[t].spec
    <3>1. \A u \in Thread : ~PutHtml(u)
      BY <1>0, <2>2 DEF PutHtml
    <3>2. site'.html = site.html /\ site'.gen = site.gen
      BY <1>0, <3>1, SiteChanges, PutGeoSite, BuildFailsSite
    <3>. QED BY <2>2, <3>2 DEF Versions
  <2>. QED BY <1>0, <1>3, <2>1, <2>2, ThreadChanges
<1>4. ASSUME site'.v > 0, site'.v = spec'.v
      PROVE  site'.html = Render(spec'.page) /\ site'.gen = spec'.gen
  <2>1. spec' = spec
    BY <1>0, <1>1, <1>4
  <2>2. ASSUME NEW t \in Thread, PutHtml(t)
        PROVE  site'.html = Render(spec.page) /\ site'.gen = spec.gen
    <3>1. /\ thread[t].at = "html" /\ site'.v = thread[t].spec.v
          /\ site'.html = Render(thread[t].spec.page)
          /\ site'.gen = thread[t].spec.gen
      BY <1>0, <2>2, PutHtmlSite
    <3>2. thread[t].spec = spec
      BY <1>4, <2>1, <3>1 DEF Versions
    <3>. QED BY <3>1, <3>2
  <2>3. ASSUME NEW t \in Thread, PutGeo(t) \/ BuildFails(t)
        PROVE  /\ site'.v = site.v /\ site'.html = site.html
               /\ site'.gen = site.gen
    BY <1>0, <2>3, PutGeoSite, BuildFailsSite
  <2>. QED BY <1>4, <2>1, <2>2, <2>3, SiteChanges DEF Versions
<1>. QED BY <1>2, <1>3, <1>4 DEF Versions

(* Alone, nobody stores a spec while a build is waited for: what was asked *)
(* for is what is stored.                                                  *)
Current == \A e \in Exec : Live(e) => want[e] = spec.v

LEMMA CurrentInit == Init => Current
BY DEF Init, Current, Live, NoRun, NoVal

LEMMA CurrentGen ==
  ASSUME Alone, ContentInv, Sessions, NEW e \in Exec,
         GenStep(e) \/ GenFails(e) \/ GenTimeout(e), Current
  PROVE  Current'
<1>0. /\ ContentTypeOK /\ spec.v \in Nat
      /\ want \in [Exec -> Nat] /\ exec \in [Exec -> Execution]
  BY DEF ContentInv, ContentTypeOK, Spec0
<1>1. ASSUME GenLoad(e)
      PROVE  Current'
  <2>1. UNCHANGED <<exec, val, want, spec>>
    BY <1>1 DEF GenLoad, stored, worker
  <2>. QED BY <2>1 DEF Current, Live
<1>2. ASSUME NEW ok \in BOOLEAN, NEW n \in Nat, GenAnswers(e, ok, n),
             n = spec'.v, gen[e].left > 0, val' = val
      PROVE  Current'
  <2>1. exec[e].at # "build" /\ val'[e].pc = "idle"
    BY <1>2 DEF Sessions
  <2>2. CASE Ask(e, n)
    <3>1. want'[e] = n
      BY <1>0, <2>2, AskType
    <3>. QED BY <1>2, <3>1 DEF Current, Alone
  <2>3. CASE exec' = Ended(e)
    <3>1. exec'[e].at = "idle"
      BY <1>0, <2>3, EndedType
    <3>. QED BY <2>1, <3>1 DEF Current, Live, Alone
  <2>4. CASE exec' = exec
    BY <2>1, <2>4 DEF Current, Live, Alone
  <2>. QED BY <1>2, <2>2, <2>3, <2>4 DEF GenAnswers
<1>3. ASSUME GenSkip(e) \/ GenFails(e)
      PROVE  Current'
  <2>1. /\ gen[e].left > 0 /\ val' = val /\ spec' = spec
        /\ GenAnswers(e, TRUE, spec.v) \/ GenAnswers(e, FALSE, spec.v)
    BY <1>3, Zenon DEF GenSkip, GenFails, stored
  <2>. QED BY <1>0, <1>2, <2>1
<1>4. ASSUME GenSave(e)
      PROVE  Current'
  <2>1. gen[e].left > 0 /\ val' = val /\ GenAnswers(e, TRUE, spec.v + 1)
    BY <1>4, Zenon DEF GenSave
  <2>3. spec'.v = spec.v + 1
    BY <1>4 DEF GenSave
  <2>2. spec.v + 1 \in Nat
    BY <1>0
  <2>. QED BY <1>2, <2>1, <2>2, <2>3
<1>5. ASSUME GenTimeout(e)
      PROVE  Current'
  <2>1. exec[e].at = "generation" /\ val' = val
    BY <1>5 DEF GenTimeout
  <2>2. val[e].pc = "idle"
    BY <2>1 DEF ContentInv, Phases
  <2>3. exec'[e].at # "build"
    <3>1. CASE exec' = [exec EXCEPT ![e].tries = exec[e].tries + 1]
      BY <1>0, <2>1, <3>1, TriesType
    <3>2. CASE exec' = Ended(e)
      BY <1>0, <3>2, EndedType
    <3>. QED BY <1>5, <3>1, <3>2, Zenon DEF GenTimeout
  <2>. QED BY <2>1, <2>2, <2>3 DEF Current, Live, Alone
<1>. QED BY <1>1, <1>3, <1>4, <1>5 DEF GenStep

(* A step that stores nothing and asks for no build.                       *)
LEMMA CurrentKept ==
  ASSUME Current, UNCHANGED <<spec, want>>,
         \A e \in Exec : Live(e)' => Live(e)
  PROVE  Current'
BY DEF Current

LEMMA CurrentStep ==
  ASSUME Alone
  PROVE  ContentInv /\ Sessions /\ Current /\ [Next]_vars => Current'
<1>. SUFFICES ASSUME ContentInv, Sessions, Current, [Next]_vars
              PROVE  Current'
  OBVIOUS
<1>0. /\ ContentTypeOK /\ spec.v \in Nat
      /\ want \in [Exec -> Nat] /\ exec \in [Exec -> Execution]
      /\ val \in [Exec -> ValSession]
      /\ \A e \in Exec : val[e].applied \in SUBSET Code
  BY DEF ContentInv, ContentTypeOK, Spec0, ValSession
<1>1. ASSUME \/ UNCHANGED vars
             \/ SaveContract
             \/ StrayLost
      PROVE  Current'
  <2>1. UNCHANGED <<exec, val, want, spec>>
    BY <1>1 DEF vars, SaveContract, StrayLost, stored, worker
  <2>. QED BY <2>1 DEF Current, Live
<1>2. ASSUME NEW e \in Exec, Start(e)
      PROVE  Current'
  <2>1. /\ 0 \in Nat /\ Begin(e, 0) /\ val' = val /\ val[e].pc = "idle"
    BY <1>2 DEF Start
  <2>2. exec'[e].at = "generation"
    BY <1>0, <2>1, BeginType
  <2>. QED BY <2>1, <2>2 DEF Current, Live, Alone
<1>3. ASSUME NEW who \in Exec \union {Nobody}, NEW ok \in BOOLEAN,
             BuildAnswers(who, ok), UNCHANGED <<spec, want>>
      PROVE  Current'
  <2>1. CASE UNCHANGED <<exec, val>>
    BY <1>3, <2>1 DEF Current, Live
  <2>2. CASE /\ who \in Exec
             /\ exec' = [exec EXCEPT ![who].at = "validation",
                                     ![who].tries = 0]
             /\ val' = [val EXCEPT ![who] = Round(1, {}, FALSE)]
    <3>1. exec'[who].at = "validation"
      BY <1>0, <2>2, AdvancedType
    <3>2. val'[who].pc = "fetch"
      BY <1>0, <2>2 DEF Round
    <3>. QED BY <2>2, <3>1, <3>2 DEF Current, Live, Alone
  <2>3. CASE who \in Exec /\ exec[who].at = "build"
             /\ exec' = Ended(who) /\ UNCHANGED val
    <3>1. exec'[who].at = "idle" /\ val'[who].pc = "idle"
      BY <1>0, <2>3, EndedType DEF ContentInv, Phases
    <3>. QED BY <2>3, <3>1 DEF Current, Live, Alone
  <2>4. CASE /\ who \in Exec /\ val[who].pc = "rebuilding"
             /\ NextRound(who, val[who].applied, ok) /\ UNCHANGED exec
    <3>1. val'[who].pc = "fetch"
      <4>1. PICK applied \in SUBSET Code : applied = val[who].applied
        BY <1>0, <2>4
      <4>2. NextRound(who, applied, ok)
        BY <2>4, <4>1, Zenon
      <4>3. ContentTypeOK /\ who \in Exec
        BY <1>0, <2>4
      <4>. QED BY <4>2, <4>3, NextRoundType
    <3>2. exec'[who].at # "build"
      BY <2>4 DEF ContentInv, Phases
    <3>. QED BY <2>4, <3>1, <3>2 DEF Current, Live, Alone
  <2>. QED BY <1>3, <2>1, <2>2, <2>3, <2>4 DEF BuildAnswers
<1>4. ASSUME NEW t \in Thread, BuildStep(t) \/ BuildFails(t)
      PROVE  Current'
  <2>1. UNCHANGED <<spec, want>>
    BY <1>4 DEF BuildStep, BuildLoad, PutHtml, PutGeo, BuildFails, stored
  <2>2. thread[t].for \in Exec \union {Nobody}
    BY <1>0 DEF ContentTypeOK, Job
  <2>3. CASE UNCHANGED <<exec, val>>
    BY <2>1, <2>3 DEF Current, Live
  <2>4. \/ UNCHANGED <<exec, val>>
        \/ \E who \in Exec \union {Nobody}, ok \in BOOLEAN :
             BuildAnswers(who, ok)
    BY <1>4, <2>2, Zenon
       DEF BuildStep, BuildLoad, PutHtml, PutGeo, BuildFails
  <2>. QED BY <1>3, <2>1, <2>3, <2>4
<1>5. ASSUME NEW e \in Exec, Unreachable(e)
      PROVE  Current'
  BY <1>3, <1>5 DEF Unreachable, stored
<1>6. ASSUME NEW e \in Exec, BuildTimeout(e)
      PROVE  Current'
  <2>1. exec[e].at = "build" /\ spec' = spec /\ val' = val
    BY <1>6 DEF BuildTimeout, stored
  <2>2. CASE Ask(e, spec.v)
    <3>1. want'[e] = spec.v
      BY <1>0, <2>2, AskType
    <3>. QED BY <2>1, <3>1 DEF Current, Alone
  <2>3. CASE exec' = Ended(e)
    <3>1. exec'[e].at = "idle" /\ val'[e].pc = "idle"
      BY <1>0, <2>1, <2>3, EndedType DEF ContentInv, Phases
    <3>. QED BY <3>1 DEF Current, Live, Alone
  <2>. QED BY <1>6, <2>2, <2>3 DEF BuildTimeout
<1>7. ASSUME NEW e \in Exec, RebuildTimeout(e)
      PROVE  Current'
  <2>1. /\ val[e].pc = "rebuilding" /\ exec' = exec
        /\ NextRound(e, val[e].applied, FALSE)
    BY <1>7 DEF RebuildTimeout, stored
  <2>2. val'[e].pc = "fetch" /\ exec'[e].at # "build"
    BY <1>0, <2>1, NextRoundType DEF ContentInv, Phases
  <2>. QED BY <2>2 DEF Current, Live, Alone
<1>8. ASSUME NEW e \in Exec, Patch(e)
      PROVE  Current'
  <2>1. spec'.v = spec.v + 1 /\ Ask(e, spec.v + 1)
    BY <1>0, <1>8, PatchType DEF Patch
  <2>2. want'[e] = spec.v + 1
    BY <1>0, <2>1, AskType
  <2>. QED BY <2>1, <2>2 DEF Current, Alone
<1>9. ASSUME NEW e \in Exec,
             \/ FetchSpec(e) \/ Inspect(e) \/ Pass(e) \/ Fail(e)
             \/ PatchFails(e) \/ ValFails(e) \/ ValTimeout(e)
      PROVE  Current'
  <2>1. UNCHANGED <<spec, want>>
    BY <1>9 DEF FetchSpec, Inspect, Pass, Fail, PatchFails, ValFails,
                ValTimeout, stored, worker
  <2>2. val'[e].pc = "rebuilding" => val[e].pc = "rebuilding"
    <3>1. CASE FetchSpec(e)
      BY <1>0, <3>1, FetchType
    <3>2. CASE Inspect(e)
      BY <1>0, <3>2, InspectType
    <3>3. CASE Pass(e) \/ Fail(e) \/ ValFails(e)
      <4>1. Verdict(e)
        BY <3>3 DEF Pass, Fail, ValFails
      <4>. QED BY <1>0, <4>1, VerdictType
    <3>4. CASE PatchFails(e)
      <4>1. NextRound(e, {}, FALSE)
        BY <3>4 DEF PatchFails
      <4>. QED BY <1>0, <4>1, NextRoundType
    <3>5. CASE ValTimeout(e)
      BY <3>5 DEF ValTimeout
    <3>. QED BY <1>9, <3>1, <3>2, <3>3, <3>4, <3>5
  <2>3. exec'[e].at = "build" => exec[e].at = "build"
    <3>1. CASE Fail(e)
      BY <1>0, <3>1, FailAnsweredType DEF Fail
    <3>2. CASE exec' = exec
      BY <3>2
    <3>3. CASE exec' = Ended(e)
      BY <1>0, <3>3, EndedType
    <3>. QED BY <1>9, <3>1, <3>2, <3>3
             DEF FetchSpec, Inspect, Pass, PatchFails, ValFails, ValTimeout
  <2>. QED BY <2>1, <2>2, <2>3, CurrentKept DEF Live, Alone
<1>. QED
  BY <1>1, <1>2, <1>4, <1>5, <1>6, <1>7, <1>8, <1>9, CurrentGen
     DEF Next, ValStep

(* While a site is validated, what is served and what is built is of the   *)
(* generation that is stored, and no later page of it has lost the title.  *)
OneGeneration ==
    /\ site.gen = spec.gen
    /\ site.html.titled => spec.page.title = "text"
    /\ \A t \in Thread : thread[t].at # "idle" =>
         /\ thread[t].spec.gen = spec.gen
         /\ thread[t].spec.page.title = "text" => spec.page.title = "text"
         /\ site.html.titled => thread[t].spec.page.title = "text"

(* What the validation has read of it, it is.                              *)
Validated ==
    \A e \in Exec : val[e].pc # "idle" =>
      /\ OneGeneration
      /\ val[e].pc \in {"inspect", "passing", "failing", "patching"}
           => val[e].spec = spec

LEMMA RenderTitle == \A p \in Page : Render(p).titled <=> p.title = "text"
BY DEF Render

(* The pages put improve on the one that is served.                        *)
LEMMA SiteImproves ==
  ASSUME ContentInv, OneGeneration, [Next]_vars
  PROVE  /\ site.html.titled => site'.html.titled
         /\ site.llms => site'.llms
<1>0. ContentTypeOK /\ \A t \in Thread : thread[t].spec.page \in Page
  BY DEF ContentInv, ContentTypeOK, Job, Spec0
<1>1. ASSUME NEW t \in Thread, PutHtml(t)
      PROVE  /\ site.html.titled => site'.html.titled
             /\ site.llms => site'.llms
  <2>1. /\ thread[t].at = "html" /\ site'.llms = site.llms
        /\ site'.html = Render(thread[t].spec.page)
    BY <1>0, <1>1, PutHtmlSite
  <2>2. site.html.titled => thread[t].spec.page.title = "text"
    BY <2>1 DEF OneGeneration
  <2>. QED BY <1>0, <2>1, <2>2, RenderTitle
<1>2. ASSUME NEW t \in Thread, PutGeo(t) \/ BuildFails(t)
      PROVE  site'.html = site.html /\ (site.llms => site'.llms)
  BY <1>0, <1>2, PutGeoSite, BuildFailsSite
<1>. QED BY <1>1, <1>2, SiteChanges

LEMMA OneGenerationKept ==
  ASSUME ContentInv, OneGeneration, [Next]_vars, spec' = spec
  PROVE  OneGeneration'
<1>0. /\ ContentTypeOK /\ \A t \in Thread : thread[t].spec.page \in Page
      /\ \A t, u \in Thread :
           thread[t].at # "idle" /\ thread[u].at # "idle" => t = u
  BY DEF ContentInv, Serial, ContentTypeOK, Job, Spec0
<1>1. ASSUME NEW u \in Thread, PutHtml(u)
      PROVE  OneGeneration'
  <2>1. /\ thread[u].at = "html" /\ site'.gen = thread[u].spec.gen
        /\ site'.html = Render(thread[u].spec.page)
    BY <1>0, <1>1, PutHtmlSite
  <2>2. site'.html.titled <=> thread[u].spec.page.title = "text"
    BY <1>0, <2>1, RenderTitle
  <2>3. \A t \in Thread : thread'[t].at # "idle"
                            => t = u /\ thread'[t].spec = thread[t].spec
    BY <1>0, <2>1, ThreadChanges DEF PutHtml, Free
  <2>. QED BY <2>1, <2>2, <2>3 DEF OneGeneration
<1>2. ASSUME \A u \in Thread : ~PutHtml(u)
      PROVE  OneGeneration'
  <2>1. site'.gen = site.gen /\ site'.html = site.html
    BY <1>0, <1>2, SiteChanges, PutGeoSite, BuildFailsSite
  <2>2. \A t \in Thread : thread'[t].at # "idle" =>
          \/ thread[t].at # "idle" /\ thread'[t].spec = thread[t].spec
          \/ thread'[t].spec = spec
    BY <1>0, <1>2, ThreadChanges
  <2>. QED BY <2>1, <2>2 DEF OneGeneration
<1>. QED BY <1>1, <1>2

(* A build that is answered to the one that waits for it had the spec that *)
(* is stored, and no other is under way.                                   *)
LEMMA BuiltIsStored ==
  ASSUME ContentInv, Versions, Current, NEW e \in Exec, NEW t \in Thread,
         PutGeo(t), thread[t].for = e
  PROVE  /\ thread[t].spec = spec /\ spec' = spec
         /\ site'.v = spec.v /\ site'.gen = spec.gen
         /\ site'.html = Render(spec.page)
         /\ site'.llms <=> site.llms \/ spec.page.supp = "llms"
         /\ \A u \in Thread : thread'[u].at = "idle"
<1>0. /\ ContentTypeOK /\ spec.v \in Nat /\ thread \in [Thread -> Job]
      /\ thread[t].spec.v \in Nat /\ want[e] \in Nat
      /\ \A u \in Thread :
           thread[t].at # "idle" /\ thread[u].at # "idle" => t = u
  BY DEF ContentInv, Serial, ContentTypeOK, Spec0, Job
<1>1. /\ thread[t].at = "geo" /\ site'.v = site.v /\ site'.gen = site.gen
      /\ site'.html = site.html
      /\ site'.llms <=> site.llms \/ thread[t].spec.page.supp = "llms"
  BY <1>0, PutGeoSite
<1>2. /\ Live(e) /\ want[e] <= thread[t].spec.v /\ thread[t].spec.v <= spec.v
      /\ site.v = thread[t].spec.v
  BY <1>1 DEF ContentInv, Serial, Wanted
<1>3. want[e] = spec.v
  BY <1>2 DEF Current
<1>4. thread[t].spec.v = spec.v
  BY <1>0, <1>2, <1>3
<1>5. thread[t].spec = spec
  BY <1>1, <1>4 DEF Versions
<1>6. site.html = Render(spec.page) /\ site.gen = spec.gen
  BY <1>1, <1>5 DEF Versions
<1>7. \A u \in Thread : thread'[u].at = "idle"
  BY <1>0, <1>1 DEF PutGeo, NoJob
<1>8. spec' = spec
  BY DEF PutGeo
<1>. QED BY <1>1, <1>2, <1>4, <1>5, <1>6, <1>7, <1>8

(* Alone, the spec that is stored changes under no validation but by its   *)
(* own patch.                                                              *)
LEMMA AloneSpec ==
  ASSUME Alone, ContentInv, Sessions, [Next]_vars, NEW e \in Exec,
         val'[e].pc # "idle", spec' # spec
  PROVE  Patch(e)
<1>1. ASSUME GenSave(e)
      PROVE  FALSE
  BY <1>1 DEF GenSave, Sessions
<1>. QED BY <1>1, SpecChanges DEF Alone

LEMMA ValidatedStep ==
  ASSUME Alone
  PROVE  /\ ContentInv /\ Sessions /\ Versions /\ Current /\ Validated
         /\ [Next]_vars
         => Validated'
<1>. SUFFICES ASSUME ContentInv, Sessions, Versions, Current, Validated,
                     [Next]_vars, NEW e \in Exec, val'[e].pc # "idle"
              PROVE  /\ OneGeneration'
                     /\ val'[e].pc \in {"inspect", "passing", "failing",
                                        "patching"}
                          => val'[e].spec = spec'
  BY DEF Validated
<1>0. /\ ContentTypeOK
      /\ spec \in Spec0 /\ spec.page \in Page
  BY DEF ContentInv, ContentTypeOK, Spec0
<1>1. ASSUME Patch(e)
      PROVE  OneGeneration' /\ val'[e].pc = "rebuilding"
  <2>1. /\ val[e].pc = "patching" /\ UNCHANGED <<site, thread>>
    BY <1>1 DEF Patch
  <2>2. OneGeneration /\ val[e].spec = spec
    BY <2>1 DEF Validated
  <2>3. spec'.gen = spec.gen /\ val'[e].pc = "rebuilding"
    BY <1>0, <1>1, <2>2, PatchType
  <2>4. spec.page.title = "text" => spec'.page.title = "text"
    <3>1. PICK ld \in {"other", "faq"} :
            spec'.page = Patched(spec.page,
                                 Applied(spec.page, val[e].issues), ld)
      BY <1>0, <1>1, <2>2, PatchType
    <3>. QED BY <3>1 DEF Patched
  <2>. QED BY <2>1, <2>2, <2>3, <2>4 DEF OneGeneration
<1>2. ASSUME ~Patch(e)
      PROVE  spec' = spec
  BY <1>2, AloneSpec
<1>3. ASSUME ~Patch(e), val[e].pc # "idle"
      PROVE  OneGeneration'
  BY <1>2, <1>3, OneGenerationKept DEF Validated
<1>4. ASSUME NEW t \in Thread, PutGeo(t), thread[t].for = e
      PROVE  OneGeneration'
  <2>1. /\ spec' = spec /\ site'.gen = spec.gen
        /\ site'.html = Render(spec.page)
        /\ \A u \in Thread : thread'[u].at = "idle"
    BY <1>4, BuiltIsStored
  <2>. QED BY <1>0, <2>1, RenderTitle DEF OneGeneration
<1>5. CASE val'[e] = val[e]
  BY <1>1, <1>2, <1>3, <1>5 DEF Validated
<1>6. CASE NextFetch(e)
  <2>1. ~Patch(e)
    BY <1>1, <1>6 DEF NextFetch
  <2>. QED BY <1>3, <1>4, <1>6, <2>1 DEF NextFetch
<1>7. CASE FetchSpec(e)
  <2>1. /\ val[e].pc = "fetch" /\ spec' = spec
        /\ val'[e].spec = spec /\ val'[e].pc = "inspect"
    BY <1>0, <1>7, FetchType DEF FetchSpec, stored
  <2>. QED BY <2>1, OneGenerationKept DEF Validated
<1>8. CASE Inspect(e)
  <2>1. /\ val[e].pc = "inspect" /\ spec' = spec
        /\ val'[e].spec = val[e].spec
    BY <1>0, <1>8, InspectType DEF Inspect, stored
  <2>. QED BY <2>1, OneGenerationKept DEF Validated
<1>. QED BY <1>1, <1>5, <1>6, <1>7, <1>8, ValChanges

(* What the patches of a validation have reached: the issues they dealt    *)
(* with are gone from the spec that is stored, and from the page and the   *)
(* files that are served once a rebuild has succeeded.                     *)
CuredOf(e) ==
    /\ val[e].pc = "idle" => val[e].issues = {}
    /\ val[e].pc # "idle" =>
         /\ val[e].applied \subseteq {"NO_TITLE_TAG", "NO_LLMS_TXT"}
         /\ "NO_TITLE_TAG" \in val[e].applied => spec.page.title = "text"
    /\ val[e].pc = "passing" => site.html.titled /\ site.llms
    /\ val[e].pc = "patching" =>
         /\ spec.page.title = "none" => "NO_TITLE_TAG" \in val[e].issues
         /\ site.llms \/ "NO_LLMS_TXT" \in val[e].issues
    /\ val[e].pc = "rebuilding" =>
         /\ spec.page.title # "none"
         /\ site.llms \/ spec.page.supp = "llms"
         /\ val[e].rebuilt /\ val[e].listed => val[e].applied = {}
    /\ val[e].rebuilt /\ val[e].pc \notin {"idle", "rebuilding"} =>
         /\ site.v = spec.v /\ site.llms /\ spec.page.title # "none"
         /\ val[e].listed => "NO_LLMS_TXT" \notin val[e].issues
         /\ "NO_TITLE_TAG" \in val[e].issues => spec.page.title # "text"

Cured == \A e \in Exec : CuredOf(e)

LEMMA CuredInit == Init => Cured
BY DEF Init, Cured, CuredOf, NoVal

(* What a layer-3 check of the page that is served says.                   *)
LEMMA SeenIssues ==
  ASSUME ContentInv, NEW e \in Exec, NEW listed \in BOOLEAN, site.v > 0
  PROVE  /\ "NO_TITLE_TAG" \in Seen(e, listed) <=> ~site.html.titled
         /\ "NO_LLMS_TXT" \in Seen(e, listed) <=> ~(listed /\ site.llms)
<1>1. val[e].demands \subseteq Demands
  BY DEF ContentInv, ContentTypeOK, ValSession
<1>. QED BY <1>1 DEF Seen, Layer3, Broken, Structural, Demands

(* What patch does about what it is told, when only the model's own        *)
(* omissions are left.                                                     *)
LEMMA PatchedPage ==
  ASSUME NEW p \in Page, NEW issues \in SUBSET Code, NEW ld \in {"other", "faq"},
         issues \intersect Beyond = {}
  PROVE  LET applied == Applied(p, issues)
             q == Patched(p, applied, ld)
         IN  /\ applied \subseteq {"NO_TITLE_TAG", "NO_LLMS_TXT"}
             /\ applied \subseteq issues
             /\ "NO_TITLE_TAG" \in applied => q.title = "text"
             /\ "NO_TITLE_TAG" \in issues \/ p.title # "none" => q.title # "none"
             /\ "NO_LLMS_TXT" \in issues \/ p.supp = "llms" => q.supp = "llms"
             /\ p.title # "none" => "NO_TITLE_TAG" \notin applied
BY DEF Applied, Patched, Page, Code, Structural, Demands, Beyond

(* A step that lets the validation's session and the stored spec be.       *)
LEMMA CuredKept ==
  ASSUME ContentInv, ContentInv', OneGeneration, [Next]_vars, spec' = spec
  PROVE  /\ site.html.titled => site'.html.titled
         /\ site.llms => site'.llms
         /\ site.v = spec.v => site'.v = spec'.v
<1>1. site'.v >= site.v
  <2>1. site'.v >= site.v \/ site' = site
    BY NeverOlderStep DEF vars
  <2>2. site.v \in Nat
    BY DEF ContentInv, ContentTypeOK, Site
  <2>. QED BY <2>1, <2>2
<1>2. site'.v <= spec'.v /\ site'.v \in Nat /\ site.v \in Nat
  BY DEF ContentInv, Serial, ContentTypeOK, Site
<1>. QED BY <1>1, <1>2, SiteImproves

LEMMA CuredStep ==
  ASSUME Alone
  PROVE  /\ ContentInv /\ ContentInv' /\ Sessions /\ Filled /\ Versions
         /\ Current /\ Validated /\ Cured
         /\ [Next]_vars
         => Cured'
<1>. SUFFICES ASSUME ContentInv, ContentInv', Sessions, Filled, Versions,
                     Current, Validated, Cured, [Next]_vars
              PROVE  Cured'
  OBVIOUS
<1>. SUFFICES ASSUME NEW e \in Exec
              PROVE  CuredOf(e)'
  BY DEF Cured
<1>0. /\ ContentTypeOK /\ CuredOf(e)
      /\ spec.v \in Nat /\ site.v \in Nat /\ spec.page \in Page
      /\ val[e].issues \in SUBSET Code /\ val[e].issues \intersect Beyond = {}
      /\ val'[e] \in ValSession
      /\ val[e].pc # "idle" => OneGeneration /\ site.v > 0
  BY DEF ContentInv, ContentTypeOK, Spec0, Site, ValSession, Cured, Filled,
         Validated
<1>1. CASE val'[e].pc = "idle" /\ val'[e].issues = {}
  BY <1>1 DEF CuredOf
<1>2. CASE Patch(e)
  <2>1. /\ val[e].pc = "patching" /\ site' = site
    BY <1>2 DEF Patch
  <2>2. val[e].spec = spec
    BY <2>1 DEF Validated
  <2>. DEFINE applied == Applied(spec.page, val[e].issues)
  <2>3. PICK ld \in {"other", "faq"} :
          spec'.page = Patched(spec.page, applied, ld)
    BY <1>0, <1>2, <2>2, PatchType
  <2>4. /\ val'[e].applied = applied /\ val'[e].pc = "rebuilding"
        /\ val'[e].rebuilt = val[e].rebuilt
        /\ val'[e].listed = val[e].listed
    BY <1>0, <1>2, <2>2, PatchType
  <2>5. /\ applied \subseteq {"NO_TITLE_TAG", "NO_LLMS_TXT"}
        /\ applied \subseteq val[e].issues
        /\ "NO_TITLE_TAG" \in applied => spec'.page.title = "text"
        /\ "NO_TITLE_TAG" \in val[e].issues \/ spec.page.title # "none"
             => spec'.page.title # "none"
        /\ "NO_LLMS_TXT" \in val[e].issues \/ spec.page.supp = "llms"
             => spec'.page.supp = "llms"
        /\ spec.page.title # "none" => "NO_TITLE_TAG" \notin applied
    BY <1>0, <2>3, PatchedPage
  <2>. HIDE DEF applied
  <2>6. spec'.page.title # "none"
    BY <1>0, <2>1, <2>5 DEF CuredOf
  <2>7. site'.llms \/ spec'.page.supp = "llms"
    BY <1>0, <2>1, <2>5 DEF CuredOf
  <2>8. ASSUME val'[e].rebuilt, val'[e].listed
        PROVE  applied = {}
    <3>1. spec.page.title # "none" /\ "NO_LLMS_TXT" \notin val[e].issues
      BY <1>0, <2>1, <2>4, <2>8 DEF CuredOf
    <3>. QED BY <2>5, <3>1
  <2>. QED BY <2>4, <2>5, <2>6, <2>7, <2>8 DEF CuredOf
<1>3. ASSUME ~Patch(e), val'[e].pc # "idle"
      PROVE  spec' = spec
  BY <1>3, AloneSpec
<1>4. ASSUME ~Patch(e), val'[e].pc # "idle", val[e].pc # "idle"
      PROVE  /\ site.html.titled => site'.html.titled
             /\ site.llms => site'.llms
             /\ site.v = spec.v => site'.v = spec'.v
  BY <1>0, <1>3, <1>4, CuredKept
<1>5. CASE val'[e] = val[e]
  <2>1. CASE val[e].pc = "idle"
    BY <1>0, <1>1, <1>5, <2>1 DEF CuredOf
  <2>2. CASE val[e].pc # "idle"
    <3>1. ~Patch(e)
      BY <1>0, <1>5, PatchType DEF Patch
    <3>. QED BY <1>0, <1>3, <1>4, <1>5, <2>2, <3>1 DEF CuredOf
  <2>. QED BY <2>1, <2>2
<1>6. CASE NextFetch(e)
  <2>1. /\ val'[e].pc = "fetch" /\ val'[e].issues = {}
        /\ val'[e].listed = FALSE
        /\ \/ val'[e].applied = {}
           \/ val[e].pc # "idle" /\ val'[e].applied = val[e].applied
    BY <1>6 DEF NextFetch
  <2>2. ~Patch(e)
    BY <1>0, <2>1, PatchType
  <2>3. spec' = spec
    BY <1>3, <2>1, <2>2
  <2>4. /\ val'[e].applied \subseteq {"NO_TITLE_TAG", "NO_LLMS_TXT"}
        /\ "NO_TITLE_TAG" \in val'[e].applied => spec'.page.title = "text"
    BY <1>0, <2>1, <2>3 DEF CuredOf
  <2>5. ASSUME val'[e].rebuilt
        PROVE  site'.v = spec'.v /\ site'.llms /\ spec'.page.title # "none"
    <3>1. PICK t \in Thread : /\ PutGeo(t) /\ thread[t].for = e
                              /\ val[e].pc = "rebuilding"
      BY <1>6, <2>5 DEF NextFetch
    <3>2. /\ site'.v = spec.v
          /\ site'.llms <=> site.llms \/ spec.page.supp = "llms"
      BY <3>1, BuiltIsStored
    <3>. QED BY <1>0, <2>3, <3>1, <3>2 DEF CuredOf
  <2>. QED BY <2>1, <2>4, <2>5 DEF CuredOf
<1>7. CASE FetchSpec(e)
  <2>1. /\ val[e].pc = "fetch" /\ spec' = spec /\ site' = site
        /\ val'[e].pc = "inspect" /\ val'[e].rebuilt = val[e].rebuilt
        /\ val'[e].applied = val[e].applied
        /\ val'[e].listed = val[e].listed /\ val'[e].issues = val[e].issues
    BY <1>0, <1>7, FetchType DEF FetchSpec, stored
  <2>. QED BY <1>0, <2>1 DEF CuredOf
<1>8. CASE Inspect(e)
  <2>1. /\ val[e].pc = "inspect" /\ spec' = spec /\ site' = site
        /\ val'[e].pc \in {"passing", "failing", "patching"}
        /\ val'[e].pc = "passing" <=> val'[e].issues = {}
        /\ val'[e].listed \in BOOLEAN
        /\ val'[e].issues = Seen(e, val'[e].listed)
        /\ val'[e].rebuilt = val[e].rebuilt
        /\ val'[e].applied = val[e].applied
    BY <1>0, <1>8, InspectType DEF Inspect, stored
  <2>2. PICK listed \in BOOLEAN : listed = val'[e].listed
    BY <2>1
  <2>3. /\ "NO_TITLE_TAG" \in val'[e].issues <=> ~site.html.titled
        /\ "NO_LLMS_TXT" \in val'[e].issues <=> ~(listed /\ site.llms)
    BY <1>0, <2>1, <2>2, SeenIssues
  <2>4. val'[e].pc = "passing" => site.html.titled /\ site.llms
    BY <2>1, <2>3
  <2>5. spec.page.title = "none" => ~site.html.titled
    BY <1>0, <2>1 DEF OneGeneration
  <2>6. ASSUME val'[e].rebuilt
        PROVE  /\ site.v = spec.v /\ site.llms /\ spec.page.title # "none"
               /\ val'[e].listed => "NO_LLMS_TXT" \notin val'[e].issues
               /\ "NO_TITLE_TAG" \in val'[e].issues
                    => spec.page.title # "text"
    <3>1. site.v = spec.v /\ site.llms /\ spec.page.title # "none"
      BY <1>0, <2>1, <2>6 DEF CuredOf
    <3>2. site.html = Render(spec.page)
      BY <1>0, <2>1, <3>1 DEF Versions
    <3>3. site.html.titled <=> spec.page.title = "text"
      BY <1>0, <3>2, RenderTitle
    <3>. QED BY <2>2, <2>3, <3>1, <3>3
  <2>7. /\ val'[e].applied \subseteq {"NO_TITLE_TAG", "NO_LLMS_TXT"}
        /\ "NO_TITLE_TAG" \in val'[e].applied => spec.page.title = "text"
    BY <1>0, <2>1 DEF CuredOf
  <2>. QED BY <2>1, <2>3, <2>4, <2>5, <2>6, <2>7 DEF CuredOf
<1>. QED BY <1>1, <1>2, <1>5, <1>6, <1>7, <1>8, ValChanges

(* The inductive invariant of an execution that runs alone.                *)
AloneInv == Sessions /\ Filled /\ Versions /\ Current /\ Validated /\ Cured

THEOREM AloneInvariant ==
  ASSUME Alone
  PROVE  Spec => []AloneInv
<1>1. Init => AloneInv
  <2>1. Init => Validated
    BY DEF Init, Validated, NoVal
  <2>. QED BY <2>1, SessionsInit, FilledInit, VersionsInit, CurrentInit,
              CuredInit DEF AloneInv
<1>2. ContentInv /\ ContentInv' /\ AloneInv /\ [Next]_vars => AloneInv'
  BY SessionsStep, FilledStep, VersionsStep, CurrentStep, ValidatedStep,
     CuredStep DEF AloneInv
<1>. QED BY <1>1, <1>2, ContentInvariant, PTL DEF Spec

(* Of an execution that runs alone, whatever times out and whichever       *)
(* abandoned requests are built meanwhile: what passes is served whole,    *)
(* and is of the generation that is stored.                                *)
THEOREM PassedIsServed ==
  ASSUME Alone
  PROVE  Spec => []PassedServed
<1>1. ContentInv /\ AloneInv => PassedServed
  <2>. SUFFICES ASSUME ContentInv, AloneInv, NEW e \in Exec,
                       val[e].pc = "passing"
                PROVE  /\ Layer3(site.v > 0, site.html, site.llms) = {}
                       /\ site.gen = spec.gen
    BY DEF PassedServed
  <2>1. site.html.titled /\ site.llms
    BY DEF AloneInv, Cured, CuredOf
  <2>2. /\ site.v > 0 /\ site.html.h1 = TRUE /\ site.html.ld = "faq"
    BY DEF AloneInv, Filled
  <2>3. site.gen = spec.gen
    BY DEF AloneInv, Validated, OneGeneration
  <2>. QED BY <2>1, <2>2, <2>3 DEF Layer3, Broken, Structural
<1>. QED BY <1>1, AloneInvariant, ContentInvariant, PTL

(* Of an execution that runs alone: no issue comes back that a patch dealt *)
(* with, once the rebuild after it has succeeded and the files are listed. *)
THEOREM PatchesCure ==
  ASSUME Alone
  PROVE  Spec => []PatchCures
<1>1. ContentInv /\ AloneInv => PatchCures
  <2>. SUFFICES ASSUME ContentInv, AloneInv, NEW e \in Exec,
                       val[e].rebuilt, val[e].listed
                PROVE  val[e].issues \intersect val[e].applied = {}
    BY DEF PatchCures
  <2>1. CuredOf(e)
    BY DEF AloneInv, Cured
  <2>2. CASE val[e].pc = "idle" \/ val[e].pc = "rebuilding"
    BY <2>1, <2>2 DEF CuredOf
  <2>3. CASE val[e].pc \notin {"idle", "rebuilding"}
    <3>1. /\ val[e].applied \subseteq {"NO_TITLE_TAG", "NO_LLMS_TXT"}
          /\ "NO_TITLE_TAG" \in val[e].applied => spec.page.title = "text"
          /\ "NO_LLMS_TXT" \notin val[e].issues
          /\ "NO_TITLE_TAG" \in val[e].issues => spec.page.title # "text"
      BY <2>1, <2>3 DEF CuredOf
    <3>. QED BY <3>1
  <2>. QED BY <2>2, <2>3
<1>. QED BY <1>1, AloneInvariant, ContentInvariant, PTL

-----------------------------------------------------------------------------
(* The order of the tasks.                                                 *)

TaskOf ==
    [e \in Exec |-> [at |-> IF exec[e].at = "idle" THEN "none"
                            ELSE exec[e].at,
                     tries |-> exec[e].tries]]

(* Whatever the agents, the worker and the clock do, an execution only     *)
(* ends, goes on, invokes the same task again or begins.                   *)
LEMMA ExecChanges ==
  ASSUME [Next]_vars
  PROVE  \/ UNCHANGED exec
         \/ \E e \in Exec :
              \/ exec' = Ended(e)
              \/ /\ exec[e].at = "generation"
                 /\ exec' = [exec EXCEPT ![e].at = "build", ![e].tries = 0]
              \/ /\ exec[e].at = "build"
                 /\ exec' = [exec EXCEPT ![e].at = "validation",
                                         ![e].tries = 0]
              \/ /\ exec[e].at \in {"generation", "build"}
                 /\ exec[e].tries < TASK_RETRY
                 /\ exec' = [exec EXCEPT ![e].tries = exec[e].tries + 1]
              \/ /\ exec[e].at \in {"idle", "validation"}
                 /\ \E from : Begin(e, from)
<1>. DEFINE Goal ==
         \/ UNCHANGED exec
         \/ \E e \in Exec :
              \/ exec' = Ended(e)
              \/ /\ exec[e].at = "generation"
                 /\ exec' = [exec EXCEPT ![e].at = "build", ![e].tries = 0]
              \/ /\ exec[e].at = "build"
                 /\ exec' = [exec EXCEPT ![e].at = "validation",
                                         ![e].tries = 0]
              \/ /\ exec[e].at \in {"generation", "build"}
                 /\ exec[e].tries < TASK_RETRY
                 /\ exec' = [exec EXCEPT ![e].tries = exec[e].tries + 1]
              \/ /\ exec[e].at \in {"idle", "validation"}
                 /\ \E from : Begin(e, from)
<1>1. ASSUME NEW e \in Exec,
             \/ Start(e) \/ GenStep(e) \/ GenFails(e) \/ GenTimeout(e)
             \/ BuildTimeout(e)
      PROVE  Goal
  BY <1>1 DEF Start, GenStep, GenLoad, GenSkip, GenSave, GenFails, GenAnswers,
              GenTimeout, BuildTimeout
<1>2. ASSUME NEW e \in Exec,
             \/ FetchSpec(e) \/ Inspect(e) \/ Pass(e) \/ Patch(e)
             \/ PatchFails(e) \/ RebuildTimeout(e) \/ ValFails(e)
             \/ ValTimeout(e)
      PROVE  Goal
  BY <1>2 DEF FetchSpec, Inspect, Pass, Patch, PatchFails, RebuildTimeout,
              ValFails, ValTimeout
<1>3. ASSUME NEW e \in Exec, Fail(e) PROVE Goal
  BY <1>3 DEF Fail, FailAnswered
<1>4. ASSUME NEW who, NEW ok, BuildAnswers(who, ok) PROVE Goal
  BY <1>4 DEF BuildAnswers
<1>5. ASSUME NEW e \in Exec, Unreachable(e) PROVE Goal
  BY <1>4, <1>5 DEF Unreachable
<1>6. ASSUME NEW t \in Thread, BuildStep(t) \/ BuildFails(t) PROVE Goal
  BY <1>4, <1>6 DEF BuildStep, BuildLoad, PutHtml, PutGeo, BuildFails
<1>7. SaveContract \/ StrayLost \/ UNCHANGED vars => Goal
  BY DEF SaveContract, StrayLost, vars
<1>. HIDE DEF Goal
<1>8. Goal
  BY <1>1, <1>2, <1>3, <1>5, <1>6, <1>7 DEF Next, ValStep
<1>. QED BY <1>8 DEF Goal

LEMMA TasksStep ==
  ASSUME ContentTypeOK, [Next]_vars
  PROVE  [Tasks!Next]_TaskOf
<1>0. exec \in [Exec -> Execution]
  BY DEF ContentTypeOK
<1>1. ASSUME NEW e \in Exec, NEW x \in Execution,
             exec' = [exec EXCEPT ![e] = x]
      PROVE  TaskOf' = [TaskOf EXCEPT
                          ![e] = [at |-> IF x.at = "idle" THEN "none"
                                         ELSE x.at,
                                  tries |-> x.tries]]
  BY <1>0, <1>1 DEF TaskOf
<1>2. ASSUME NEW e \in Exec,
             NEW at \in {"idle", "generation", "build", "validation"}
      PROVE  LET x == [[exec[e] EXCEPT !.at = at] EXCEPT !.tries = 0]
             IN  /\ x \in Execution /\ x.at = at /\ x.tries = 0
                 /\ [exec EXCEPT ![e].at = at, ![e].tries = 0]
                      = [exec EXCEPT ![e] = x]
  BY <1>0 DEF Execution
<1>3. ASSUME NEW e \in Exec,
             NEW at \in {"idle", "generation", "build", "validation"},
             exec' = [exec EXCEPT ![e].at = at, ![e].tries = 0]
      PROVE  Tasks!Enter(e, IF at = "idle" THEN "none" ELSE at)
  <2>. DEFINE x == [[exec[e] EXCEPT !.at = at] EXCEPT !.tries = 0]
  <2>1. /\ x \in Execution /\ x.at = at /\ x.tries = 0
        /\ exec' = [exec EXCEPT ![e] = x]
    BY <1>2, <1>3
  <2>. HIDE DEF x
  <2>2. TaskOf' = [TaskOf EXCEPT ![e] = [at |-> IF x.at = "idle" THEN "none"
                                                ELSE x.at,
                                         tries |-> x.tries]]
    BY <1>1, <2>1
  <2>3. TaskOf' = [TaskOf EXCEPT ![e] = [at |-> IF at = "idle" THEN "none"
                                                ELSE at,
                                         tries |-> 0]]
    BY <2>1, <2>2, Zenon
  <2>. QED BY <2>3, Zenon DEF Tasks!Enter, TaskOf
<1>4. ASSUME NEW e \in Exec
      PROVE  /\ TaskOf[e].at = IF exec[e].at = "idle" THEN "none"
                               ELSE exec[e].at
             /\ TaskOf[e].tries = exec[e].tries
  BY DEF TaskOf
<1>5. ASSUME NEW e \in Exec, exec' = Ended(e) PROVE Tasks!Next
  BY <1>3, <1>5 DEF Ended, Tasks!Next, Tasks!End
<1>6. ASSUME NEW e \in Exec, exec[e].at = "generation",
             exec' = [exec EXCEPT ![e].at = "build", ![e].tries = 0]
      PROVE  Tasks!Next
  BY <1>3, <1>4, <1>6 DEF Tasks!Next, Tasks!Generated, TaskOf
<1>7. ASSUME NEW e \in Exec, exec[e].at = "build",
             exec' = [exec EXCEPT ![e].at = "validation", ![e].tries = 0]
      PROVE  Tasks!Next
  BY <1>3, <1>4, <1>7 DEF Tasks!Next, Tasks!Built, TaskOf
<1>8. ASSUME NEW e \in Exec, exec[e].at \in {"generation", "build"},
             exec[e].tries < TASK_RETRY,
             exec' = [exec EXCEPT ![e].tries = exec[e].tries + 1]
      PROVE  Tasks!Next
  <2>. DEFINE x == [exec[e] EXCEPT !.tries = exec[e].tries + 1]
  <2>1. /\ x \in Execution /\ x.at = exec[e].at
        /\ x.tries = exec[e].tries + 1
        /\ exec' = [exec EXCEPT ![e] = x]
    BY <1>0, <1>8 DEF Execution
  <2>. HIDE DEF x
  <2>2. TaskOf' = [TaskOf EXCEPT ![e] = [at |-> IF x.at = "idle" THEN "none"
                                                ELSE x.at,
                                         tries |-> x.tries]]
    BY <1>1, <2>1
  <2>3. TaskOf' = [TaskOf EXCEPT ![e] = [at |-> TaskOf[e].at,
                                         tries |-> TaskOf[e].tries + 1]]
    BY <1>4, <2>1, <2>2, Zenon
  <2>4. TaskOf[e] = [at |-> TaskOf[e].at, tries |-> TaskOf[e].tries]
    BY DEF TaskOf
  <2>. DEFINE t == TaskOf[e]
  <2>5. [t EXCEPT !.tries = t.tries + 1]
          = [at |-> t.at, tries |-> t.tries + 1]
    BY <2>4
  <2>6. TaskOf' = [TaskOf EXCEPT ![e].tries = TaskOf[e].tries + 1]
    BY <2>3, <2>5, Zenon
  <2>7. TaskOf[e].at \in {"generation", "build"}
        /\ TaskOf[e].tries < TASK_RETRY
    BY <1>4, <1>8
  <2>. QED BY <2>6, <2>7 DEF Tasks!Next, Tasks!Retry, TaskOf
<1>9. ASSUME NEW e \in Exec, exec[e].at \in {"idle", "validation"},
             NEW from, Begin(e, from)
      PROVE  Tasks!Next
  <2>1. exec' = [exec EXCEPT ![e] = [at |-> "generation", tries |-> 0,
                                     run |-> runs + 1, from |-> from]]
    BY <1>9 DEF Begin
  <2>2. TaskOf' = [TaskOf EXCEPT ![e] = [at |-> "generation", tries |-> 0]]
    BY <1>0, <2>1 DEF TaskOf
  <2>. QED BY <1>4, <1>9, <2>2
           DEF TaskOf, Tasks!Next, Tasks!Begin, Tasks!Enter
<1>10. UNCHANGED exec => UNCHANGED TaskOf
  BY DEF TaskOf
<1>. QED BY <1>5, <1>6, <1>7, <1>8, <1>9, <1>10, ExecChanges

(* However late the agents, the worker and their answers are, and however  *)
(* executions overlap: what this model has of the executions is what the   *)
(* state machine does, which keeps this order too (MachineOrdersTasks).    *)
THEOREM ContentOrdersTasks == Spec => OrdersTasks
<1>1. Init => Tasks!Init
  BY DEF Init, NoRun, Tasks!Init, Tasks!Nothing
<1>2. ContentTypeOK /\ [Next]_vars => [Tasks!Next]_TaskOf
  BY TasksStep
<1>. QED
  BY <1>1, <1>2, ContentTypeCorrect, PTL
     DEF Spec, OrdersTasks, Tasks!Spec, TaskOf
=============================================================================
