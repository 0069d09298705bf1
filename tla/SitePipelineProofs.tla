------------------------- MODULE SitePipelineProofs --------------------------
(***************************************************************************)
(* What holds of the content pipeline of a site for every number of        *)
(* overlapping executions and every value of the limits.                   *)
(***************************************************************************)
EXTENDS SitePipeline, FiniteSetTheorems, TLAPS

-----------------------------------------------------------------------------
(* Types.                                                                  *)

(* An execution that enters a state of the machine is an execution still.  *)
LEMMA EnterType ==
  ASSUME NEW e \in Exec, NEW pc \in ExecPc, ExecTypeOK, Enter(e, pc)
  PROVE  exec' \in [Exec -> [at: ExecPc, tries: Nat]]
BY DEF Enter, At, ExecTypeOK

(* Marking the item keeps what it is.                                      *)
LEMMA MarkType ==
  ASSUME NEW s \in Status, TableTypeOK, Mark(s)
  PROVE  /\ item' \in [status: Status, attempt: Nat, domain: BOOLEAN]
         /\ item'.status = s
         /\ item'.attempt = item.attempt
         /\ item'.domain = item.domain
BY DEF Mark, TableTypeOK

(* So does the record store_customer_domain leaves.                        *)
LEMMA StoreType ==
  ASSUME TableTypeOK,
         item' = [item EXCEPT !.status = "published", !.domain = TRUE]
  PROVE  /\ item' \in [status: Status, attempt: Nat, domain: BOOLEAN]
         /\ item'.attempt = item.attempt
<1>. DEFINE i1 == [item EXCEPT !.status = "published"]
            i2 == [i1 EXCEPT !.domain = TRUE]
            I == [status: Status, attempt: Nat, domain: BOOLEAN]
<1>1. i1 \in I /\ i1.attempt = item.attempt
  BY DEF TableTypeOK, Status
<1>2. item' = i2
  OBVIOUS
<1>. HIDE DEF i1
<1>3. i2 \in I /\ i2.attempt = item.attempt
  BY <1>1
<1>. HIDE DEF i2
<1>. QED BY <1>2, <1>3

LEMMA IncrementType ==
  ASSUME NEW e \in Exec, TableTypeOK, IncrementAttempt(e)
  PROVE  /\ item' \in [status: Status, attempt: Nat, domain: BOOLEAN]
         /\ item'.status = "retrying"
         /\ item'.attempt = item.attempt + 1
         /\ item'.domain = item.domain
<1>. DEFINE I == [status: Status, attempt: Nat, domain: BOOLEAN]
<1>1. item \in I /\ "retrying" \in Status
  BY DEF TableTypeOK, Status
<1>2. /\ \A i \in I, s \in Status :
           LET j == [i EXCEPT !.status = s]
           IN  /\ j \in I /\ j.status = s
               /\ j.attempt = i.attempt /\ j.domain = i.domain
      /\ \A i \in I, n \in Nat :
           LET j == [i EXCEPT !.attempt = n]
           IN  /\ j \in I /\ j.attempt = n
               /\ j.status = i.status /\ j.domain = i.domain
      /\ item.attempt + 1 \in Nat
  BY <1>1
<1>. DEFINE i1 == [item EXCEPT !.status = "retrying"]
            i2 == [i1 EXCEPT !.attempt = item.attempt + 1]
<1>. HIDE DEF I
<1>3. /\ i1 \in I /\ i1.status = "retrying"
      /\ i1.domain = item.domain
  BY <1>1, <1>2
<1>4. item' = i2
  BY DEF IncrementAttempt
<1>. HIDE DEF i1
<1>5. /\ i2 \in I /\ i2.status = "retrying"
      /\ i2.attempt = item.attempt + 1 /\ i2.domain = item.domain
  BY <1>2, <1>3
<1>. HIDE DEF i2
<1>. QED BY <1>4, <1>5 DEF I

(* Every action sends its execution to a state of the machine, and the     *)
(* ones that leave the item alone are these.                               *)
Quiet(e) ==
    \/ CheckIdempotency(e)
    \/ Generate(e)
    \/ Build(e)
    \/ TaskFails(e)
    \/ Validate(e)
    \/ MarkPublished(e) /\ item.status = "published"
    \/ ReadContract(e)
    \/ StartNewExecution(e)
    \/ CallFails(e)
    \/ Dies(e)

(* A quiet action changes nothing but where its execution stands, and      *)
(* leads none to IncrementAttempt.                                         *)
LEMMA QuietStep ==
  ASSUME NEW e \in Exec, Quiet(e)
  PROVE  /\ UNCHANGED <<item, starts, events>>
         /\ \E pc \in ExecPc \ {"IncrementAttempt"} : Enter(e, pc)
BY DEF Quiet, CheckIdempotency, Generate, Build, TaskFails, Validate,
       MarkPublished, ReadContract, StartNewExecution, CallFails, Dies, ExecPc

(* The content pipeline never writes domain_url.                           *)
LEMMA DomainKept ==
  ASSUME TableTypeOK, PipelineNext PROVE item'.domain = item.domain
<1>1. ASSUME NEW s \in Status, Mark(s) PROVE item'.domain = item.domain
  BY <1>1, MarkType
<1>2. ASSUME NEW e \in Exec,
             \/ MarkBuilding(e) \/ MarkValidating(e) \/ MarkFailed(e)
             \/ MarkPublished(e) /\ item.status # "published"
      PROVE  item'.domain = item.domain
  BY <1>1, <1>2
     DEF MarkBuilding, MarkValidating, MarkFailed, MarkPublished, Status
<1>3. ASSUME NEW e \in Exec, Quiet(e) PROVE item' = item
  BY <1>3, QuietStep
<1>4. ASSUME NEW e \in Exec,
             \/ Start(e) \/ PublishSiteEvent(e) \/ CheckRetryCount(e)
             \/ RetryTask(e)
      PROVE  item' = item
  BY <1>4 DEF Start, PublishSiteEvent, CheckRetryCount, RetryTask
<1>. QED
  BY <1>2, <1>3, <1>4, IncrementType DEF PipelineNext, ExecStep, Quiet

LEMMA TypeStep ==
  ASSUME PipelineTypeOK, [PipelineNext]_pipelineVars
  PROVE  PipelineTypeOK'
<1>. USE DEF PipelineTypeOK, TableTypeOK, ExecTypeOK
<1>1. ASSUME NEW e \in Exec, Start(e) PROVE PipelineTypeOK'
  <2>1. exec' \in [Exec -> [at: ExecPc, tries: Nat]]
    BY <1>1, EnterType DEF Start, ExecPc
  <2>. QED BY <1>1, <2>1 DEF Start
<1>2. ASSUME NEW e \in Exec, Quiet(e) PROVE PipelineTypeOK'
  <2>1. PICK pc \in ExecPc : Enter(e, pc)
    BY <1>2, QuietStep
  <2>2. exec' \in [Exec -> [at: ExecPc, tries: Nat]]
    BY <2>1, EnterType
  <2>. QED BY <1>2, <2>2, QuietStep
<1>3. ASSUME NEW e \in Exec, NEW s \in Status, NEW pc \in ExecPc,
             Mark(s), Enter(e, pc), UNCHANGED <<starts, events>>
      PROVE  PipelineTypeOK'
  <2>1. exec' \in [Exec -> [at: ExecPc, tries: Nat]]
    BY <1>3, EnterType
  <2>. QED BY <1>3, <2>1, MarkType
<1>4. ASSUME NEW e \in Exec, IncrementAttempt(e) PROVE PipelineTypeOK'
  <2>1. exec' \in [Exec -> [at: ExecPc, tries: Nat]]
    BY <1>4, EnterType DEF IncrementAttempt, ExecPc
  <2>. QED BY <1>4, <2>1, IncrementType DEF IncrementAttempt
<1>5. ASSUME NEW e \in Exec, CheckRetryCount(e) PROVE PipelineTypeOK'
  <2>1. exec' \in [Exec -> [at: ExecPc, tries: Nat]]
    BY <1>5, EnterType DEF CheckRetryCount, ExecPc
  <2>. QED BY <1>5, <2>1 DEF CheckRetryCount
<1>6. ASSUME NEW e \in Exec, PublishSiteEvent(e) PROVE PipelineTypeOK'
  <2>1. exec' \in [Exec -> [at: ExecPc, tries: Nat]]
    BY <1>6, EnterType DEF PublishSiteEvent, ExecPc
  <2>. QED BY <1>6, <2>1 DEF PublishSiteEvent
<1>7. ASSUME NEW e \in Exec, RetryTask(e) PROVE PipelineTypeOK'
  BY <1>7 DEF RetryTask
<1>8. CASE UNCHANGED pipelineVars
  BY <1>8 DEF pipelineVars, tableVars, execVars
<1>9. ASSUME NEW e \in Exec, MarkBuilding(e) PROVE PipelineTypeOK'
  BY <1>3, <1>9 DEF MarkBuilding, Status, ExecPc
<1>10. ASSUME NEW e \in Exec, MarkValidating(e) PROVE PipelineTypeOK'
  BY <1>3, <1>10 DEF MarkValidating, Status, ExecPc
<1>11. ASSUME NEW e \in Exec, MarkPublished(e), item.status # "published"
       PROVE  PipelineTypeOK'
  BY <1>3, <1>11 DEF MarkPublished, Status, ExecPc
<1>12. ASSUME NEW e \in Exec, MarkFailed(e) PROVE PipelineTypeOK'
  BY <1>3, <1>12 DEF MarkFailed, Status, ExecPc
<1>. QED
  BY <1>1, <1>2, <1>4, <1>5, <1>6, <1>7, <1>8, <1>9, <1>10, <1>11, <1>12
     DEF PipelineNext, ExecStep, Quiet

(* The item, the executions and the counters keep their types.             *)
THEOREM PipelineTyped == PipelineSpec => []PipelineTypeOK
<1>1. PipelineInit => PipelineTypeOK
  BY DEF PipelineInit, TableInit, ExecInit, PipelineTypeOK, TableTypeOK,
         ExecTypeOK, Status, ExecPc, At
<1>2. PipelineTypeOK /\ [PipelineNext]_pipelineVars => PipelineTypeOK'
  BY TypeStep
<1>. QED BY <1>1, <1>2, PTL DEF PipelineSpec

-----------------------------------------------------------------------------
(* The belt retry.                                                         *)

(* The executions that have read an `attempt` below the limit and not yet  *)
(* raised it.                                                              *)
Raising == {e \in Exec : exec[e].at = "IncrementAttempt"}

(* `attempt` may still be raised once by each of them: with those pending  *)
(* raises counted in, the bound is inductive.                              *)
RetryInv ==
    item.attempt + Cardinality(Raising) <= MAX_ATTEMPT + Cardinality(Exec) - 1

LEMMA RaisingSize ==
  /\ IsFiniteSet(Exec) /\ Cardinality(Exec) \in Nat \ {0}
  /\ \A R \in SUBSET Exec :
       /\ IsFiniteSet(R) /\ Cardinality(R) \in Nat
       /\ Cardinality(R) <= Cardinality(Exec)
       /\ \A Q \in SUBSET R : Cardinality(Q) <= Cardinality(R)
       /\ \A e \in R : Cardinality(R \ {e}) = Cardinality(R) - 1
<1>1. IsFiniteSet(Exec) /\ Exec # {}
  BY PipelineAssumption
<1>2. Cardinality(Exec) \in Nat \ {0}
  BY <1>1, FS_CardinalityType, FS_EmptySet
<1>3. ASSUME NEW R \in SUBSET Exec
      PROVE  /\ IsFiniteSet(R) /\ Cardinality(R) \in Nat
             /\ Cardinality(R) <= Cardinality(Exec)
  BY <1>1, FS_Subset, FS_CardinalityType
<1>4. ASSUME NEW R \in SUBSET Exec, NEW Q \in SUBSET R
      PROVE  Cardinality(Q) <= Cardinality(R)
  BY <1>3, FS_Subset
<1>5. ASSUME NEW R \in SUBSET Exec, NEW e \in R
      PROVE  Cardinality(R \ {e}) = Cardinality(R) - 1
  BY <1>3, FS_RemoveElement
<1>. QED BY <1>1, <1>2, <1>3, <1>4, <1>5

(* No new raise is pending and `attempt` is as it was.                     *)
LEMMA RetryQuiet ==
  ASSUME PipelineTypeOK, RetryInv, item'.attempt = item.attempt,
         Raising' \subseteq Raising
  PROVE  RetryInv'
<1>1. Raising \in SUBSET Exec /\ Raising' \in SUBSET Raising
  BY DEF Raising
<1>2. /\ Cardinality(Raising') <= Cardinality(Raising)
      /\ Cardinality(Raising') \in Nat /\ Cardinality(Raising) \in Nat
      /\ Cardinality(Exec) \in Nat
  BY <1>1, RaisingSize
<1>3. item.attempt \in Nat /\ MAX_ATTEMPT \in Nat
  BY PipelineAssumption DEF PipelineTypeOK, TableTypeOK
<1>4. RetryInv'
       <=> item'.attempt + Cardinality(Raising')
             <= MAX_ATTEMPT + Cardinality(Exec) - 1
  BY DEF RetryInv
<1>. QED BY <1>2, <1>3, <1>4 DEF RetryInv

LEMMA EnterElsewhere ==
  ASSUME PipelineTypeOK, NEW e \in Exec,
         NEW pc \in ExecPc \ {"IncrementAttempt"}, Enter(e, pc)
  PROVE  Raising' = Raising \ {e}
BY DEF Raising, Enter, At, PipelineTypeOK, ExecTypeOK

LEMMA RetryStep ==
  ASSUME PipelineTypeOK, RetryInv, [PipelineNext]_pipelineVars
  PROVE  RetryInv'
<1>1. ASSUME NEW e \in Exec, NEW pc \in ExecPc \ {"IncrementAttempt"},
             Enter(e, pc), item'.attempt = item.attempt
      PROVE  RetryInv'
  BY <1>1, EnterElsewhere, RetryQuiet
<1>2. ASSUME NEW e \in Exec, NEW s \in Status,
             NEW pc \in ExecPc \ {"IncrementAttempt"}, Enter(e, pc), Mark(s)
      PROVE  RetryInv'
  BY <1>1, <1>2, MarkType DEF PipelineTypeOK
<1>3. ASSUME NEW e \in Exec, Quiet(e) PROVE RetryInv'
  <2>1. PICK pc \in ExecPc \ {"IncrementAttempt"} : Enter(e, pc)
    BY <1>3, QuietStep
  <2>2. item' = item
    BY <1>3, QuietStep
  <2>. QED BY <1>1, <2>1, <2>2
<1>4. ASSUME NEW e \in Exec, Start(e) PROVE RetryInv'
  BY <1>1, <1>4 DEF Start, ExecPc
<1>5. ASSUME NEW e \in Exec, MarkBuilding(e) PROVE RetryInv'
  BY <1>2, <1>5 DEF MarkBuilding, Status, ExecPc
<1>6. ASSUME NEW e \in Exec, MarkValidating(e) PROVE RetryInv'
  BY <1>2, <1>6 DEF MarkValidating, Status, ExecPc
<1>7. ASSUME NEW e \in Exec, MarkPublished(e), item.status # "published"
      PROVE  RetryInv'
  BY <1>2, <1>7 DEF MarkPublished, Status, ExecPc
<1>8. ASSUME NEW e \in Exec, MarkFailed(e) PROVE RetryInv'
  BY <1>2, <1>8 DEF MarkFailed, Status, ExecPc
<1>9. ASSUME NEW e \in Exec, PublishSiteEvent(e) PROVE RetryInv'
  BY <1>1, <1>9 DEF PublishSiteEvent, ExecPc
<1>10. ASSUME NEW e \in Exec, RetryTask(e) PROVE RetryInv'
  <2>1. Raising' = Raising /\ item' = item
    BY <1>10 DEF RetryTask, Raising, PipelineTypeOK, ExecTypeOK
  <2>. QED BY <2>1, RetryQuiet
<1>11. ASSUME NEW e \in Exec, CheckRetryCount(e) PROVE RetryInv'
  <2>1. CASE item.attempt < MAX_ATTEMPT
    <3>1. item' = item
      BY <1>11 DEF CheckRetryCount
    <3>2. /\ Cardinality(Raising') \in Nat /\ Cardinality(Exec) \in Nat
          /\ Cardinality(Raising') <= Cardinality(Exec)
      <4>1. Raising' \in SUBSET Exec
        BY DEF Raising
      <4>. QED BY <4>1, RaisingSize
    <3>3. item.attempt \in Nat /\ MAX_ATTEMPT \in Nat
      BY PipelineAssumption DEF PipelineTypeOK, TableTypeOK
    <3>4. RetryInv'
           <=> item'.attempt + Cardinality(Raising')
                 <= MAX_ATTEMPT + Cardinality(Exec) - 1
      BY DEF RetryInv
    <3>. QED BY <2>1, <3>1, <3>2, <3>3, <3>4
  <2>2. CASE item.attempt >= MAX_ATTEMPT
    <3>1. item.attempt \in Nat /\ MAX_ATTEMPT \in Nat
      BY PipelineAssumption DEF PipelineTypeOK, TableTypeOK
    <3>2. item' = item /\ Enter(e, "MarkFailed")
      BY <1>11, <2>2, <3>1 DEF CheckRetryCount
    <3>. QED BY <1>1, <3>2 DEF ExecPc
  <2>. QED BY <1>11, <2>1, <2>2 DEF CheckRetryCount
<1>12. ASSUME NEW e \in Exec, IncrementAttempt(e) PROVE RetryInv'
  <2>1. e \in Raising /\ Raising \in SUBSET Exec /\ Raising' = Raising \ {e}
    <3>1. e \in Raising /\ Enter(e, "StartNewExecution")
      BY <1>12 DEF IncrementAttempt, Raising
    <3>. QED BY <3>1, EnterElsewhere DEF ExecPc, Raising
  <2>2. /\ Cardinality(Raising') = Cardinality(Raising) - 1
        /\ Cardinality(Raising) \in Nat /\ Cardinality(Exec) \in Nat
    BY <2>1, RaisingSize
  <2>3. item'.attempt = item.attempt + 1
    BY <1>12, IncrementType DEF PipelineTypeOK
  <2>4. item.attempt \in Nat /\ MAX_ATTEMPT \in Nat
    BY PipelineAssumption DEF PipelineTypeOK, TableTypeOK
  <2>5. RetryInv'
         <=> item'.attempt + Cardinality(Raising')
               <= MAX_ATTEMPT + Cardinality(Exec) - 1
    BY DEF RetryInv
  <2>. QED BY <2>2, <2>3, <2>4, <2>5 DEF RetryInv
<1>13. CASE UNCHANGED pipelineVars
  <2>1. Raising' = Raising /\ item' = item
    BY <1>13 DEF pipelineVars, tableVars, execVars, Raising
  <2>. QED BY <2>1, RetryQuiet
<1>. QED
  BY <1>3, <1>4, <1>5, <1>6, <1>7, <1>8, <1>9, <1>10, <1>11, <1>12, <1>13
     DEF PipelineNext, ExecStep, Quiet

LEMMA RetryInit == PipelineInit => RetryInv
<1>1. SUFFICES ASSUME PipelineInit PROVE RetryInv
  OBVIOUS
<1>2. Raising = {} /\ item.attempt = 0
  BY <1>1 DEF PipelineInit, TableInit, ExecInit, Raising, At
<1>3. Cardinality(Raising) = 0 /\ Cardinality(Exec) \in Nat \ {0}
  BY <1>2, FS_EmptySet, RaisingSize
<1>. QED BY <1>2, <1>3, PipelineAssumption DEF RetryInv

LEMMA RetryBound ==
  ASSUME PipelineTypeOK, RetryInv PROVE RetriesBounded
<1>1. Raising \in SUBSET Exec
  BY DEF Raising
<1>2. Cardinality(Raising) \in Nat /\ Cardinality(Exec) \in Nat
  BY <1>1, RaisingSize
<1>3. item.attempt \in Nat /\ MAX_ATTEMPT \in Nat
  BY PipelineAssumption DEF PipelineTypeOK, TableTypeOK
<1>. QED BY <1>2, <1>3 DEF RetryInv, RetriesBounded

(* However many executions of a site overlap, each of them overshoots the  *)
(* limit of RetryOrFail at most once; a lone execution never does.         *)
THEOREM RetriesStayBounded == PipelineSpec => []RetriesBounded
<1>1. PipelineTypeOK /\ RetryInv /\ [PipelineNext]_pipelineVars => RetryInv'
  BY RetryStep
<1>2. PipelineTypeOK /\ RetryInv => RetriesBounded
  BY RetryBound
<1>. QED
  BY <1>1, <1>2, RetryInit, PipelineTyped, PTL DEF PipelineSpec

-----------------------------------------------------------------------------
(* The lifecycle that readers of publish_status see.                       *)

(* One execution of the site at a time.                                    *)
Alone == \A e1, e2 \in Exec : e1 = e2

(* An execution running alone finds the status it set itself, or, before   *)
(* it set any, one that is not published.                                  *)
StatusInv ==
    \A e \in Exec :
      /\ exec[e].at = "MarkBuilding" => item.status # "published"
      /\ exec[e].at \in {"Generation", "Build", "MarkValidating"}
           => item.status = "building"
      /\ exec[e].at \in {"Validation", "MarkPublished", "CheckRetryCount",
                         "IncrementAttempt"}
           => item.status = "validating"

LEMMA StatusStep ==
  ASSUME Alone, PipelineTypeOK, StatusInv, [PipelineNext]_pipelineVars
  PROVE  /\ StatusInv'
         /\ [Lifecycle!Next]_(item.status)
<1>1. ASSUME NEW e \in Exec, NEW pc \in ExecPc, Enter(e, pc)
      PROVE  \A f \in Exec : f = e /\ exec'[f].at = pc
  BY <1>1 DEF Alone, Enter, At, PipelineTypeOK, ExecTypeOK
<1>. DEFINE Goal == StatusInv' /\ [Lifecycle!Next]_(item.status)
<1>2. ASSUME NEW e \in Exec, Start(e) PROVE Goal
  BY <1>1, <1>2 DEF Start, ExecPc, StatusInv
<1>3. ASSUME NEW e \in Exec, Quiet(e) PROVE Goal
  <2>1. item' = item
    BY <1>3, QuietStep
  <2>2. PICK pc \in ExecPc : Enter(e, pc)
    BY <1>3, QuietStep
  <2>3. StatusInv'
    <3>1. CASE CheckIdempotency(e)
      BY <2>1, <3>1, <1>1 DEF CheckIdempotency, ExecPc, StatusInv
    <3>2. CASE Generate(e)
      BY <2>1, <3>2, <1>1 DEF Generate, ExecPc, StatusInv
    <3>3. CASE Build(e)
      BY <2>1, <3>3, <1>1 DEF Build, ExecPc, StatusInv
    <3>4. CASE Validate(e)
      BY <2>1, <3>4, <1>1 DEF Validate, ExecPc, StatusInv
    <3>5. CASE \/ TaskFails(e) \/ CallFails(e)
      BY <2>1, <3>5, <1>1 DEF TaskFails, CallFails, ExecPc, StatusInv
    <3>6. CASE Dies(e) \/ (MarkPublished(e) /\ item.status = "published")
      BY <2>1, <3>6, <1>1 DEF Dies, MarkPublished, ExecPc, StatusInv
    <3>7. CASE ReadContract(e) \/ StartNewExecution(e)
      BY <2>1, <3>7, <1>1 DEF ReadContract, StartNewExecution, ExecPc, StatusInv
    <3>. QED BY <1>3, <3>1, <3>2, <3>3, <3>4, <3>5, <3>6, <3>7 DEF Quiet
  <2>. QED BY <2>1, <2>3
<1>4. ASSUME NEW e \in Exec, MarkBuilding(e) PROVE Goal
  <2>1. item.status # "published" /\ item'.status = "building"
    BY <1>4, MarkType DEF MarkBuilding, StatusInv, Status, PipelineTypeOK
  <2>2. \A f \in Exec : exec'[f].at = "Generation"
    BY <1>1, <1>4 DEF MarkBuilding, ExecPc
  <2>. QED BY <2>1, <2>2 DEF StatusInv, Lifecycle!Next, Lifecycle!Build
<1>5. ASSUME NEW e \in Exec, MarkValidating(e) PROVE Goal
  <2>1. item.status = "building" /\ item'.status = "validating"
    BY <1>5, MarkType DEF MarkValidating, StatusInv, Status, PipelineTypeOK
  <2>2. \A f \in Exec : exec'[f].at = "Validation"
    BY <1>1, <1>5 DEF MarkValidating, ExecPc
  <2>. QED BY <2>1, <2>2 DEF StatusInv, Lifecycle!Next, Lifecycle!Validate
<1>6. ASSUME NEW e \in Exec, MarkPublished(e), item.status # "published"
      PROVE  Goal
  <2>1. item.status = "validating" /\ item'.status = "published"
    BY <1>6, MarkType DEF MarkPublished, StatusInv, Status, PipelineTypeOK
  <2>2. \A f \in Exec : exec'[f].at = "ReadContract"
    BY <1>1, <1>6 DEF MarkPublished, ExecPc
  <2>. QED BY <2>1, <2>2 DEF StatusInv, Lifecycle!Next, Lifecycle!Publish
<1>7. ASSUME NEW e \in Exec, MarkFailed(e) PROVE Goal
  <2>1. item'.status = "failed"
    BY <1>7, MarkType DEF MarkFailed, Status, PipelineTypeOK
  <2>2. \A f \in Exec : exec'[f].at = "idle"
    BY <1>1, <1>7 DEF MarkFailed, ExecPc
  <2>. QED BY <2>1, <2>2 DEF StatusInv, Lifecycle!Next, Lifecycle!Fail
<1>8. ASSUME NEW e \in Exec, IncrementAttempt(e) PROVE Goal
  <2>1. item.status = "validating" /\ item'.status = "retrying"
    BY <1>8, IncrementType DEF IncrementAttempt, StatusInv, PipelineTypeOK
  <2>2. \A f \in Exec : exec'[f].at = "StartNewExecution"
    BY <1>1, <1>8 DEF IncrementAttempt, ExecPc
  <2>. QED BY <2>1, <2>2 DEF StatusInv, Lifecycle!Next, Lifecycle!Retry
<1>9. ASSUME NEW e \in Exec, PublishSiteEvent(e) PROVE Goal
  BY <1>1, <1>9 DEF PublishSiteEvent, ExecPc, StatusInv
<1>10. ASSUME NEW e \in Exec, CheckRetryCount(e) PROVE Goal
  BY <1>1, <1>10 DEF CheckRetryCount, ExecPc, StatusInv
<1>11. ASSUME NEW e \in Exec, RetryTask(e) PROVE Goal
  <2>1. \A f \in Exec : exec'[f].at = exec[f].at
    BY <1>11 DEF RetryTask, PipelineTypeOK, ExecTypeOK
  <2>. QED BY <1>11, <2>1 DEF RetryTask, StatusInv
<1>12. CASE UNCHANGED pipelineVars
  BY <1>12 DEF pipelineVars, tableVars, execVars, StatusInv
<1>. QED
  BY <1>2, <1>3, <1>4, <1>5, <1>6, <1>7, <1>8, <1>9, <1>10, <1>11, <1>12
     DEF PipelineNext, ExecStep, Quiet

(* The state machine implements the lifecycle when executions of a site    *)
(* do not overlap, wherever its calls fail: every step of it maps to a     *)
(* step of the lifecycle or leaves publish_status alone.                   *)
THEOREM ImplementsLifecycle ==
  ASSUME Alone PROVE PipelineSpec => FollowsLifecycle
<1>1. PipelineInit => Lifecycle!Init /\ StatusInv
  BY DEF PipelineInit, TableInit, ExecInit, Lifecycle!Init, StatusInv, At
<1>2. PipelineTypeOK /\ StatusInv /\ [PipelineNext]_pipelineVars
      => StatusInv' /\ [Lifecycle!Next]_(item.status)
  BY StatusStep
<1>. QED
  BY <1>1, <1>2, PipelineTyped, PTL
     DEF PipelineSpec, FollowsLifecycle, Lifecycle!Spec

-----------------------------------------------------------------------------
(* The order of the tasks.                                                 *)

(* The task goes with no retries into the validation.                      *)
Counted ==
    \A e \in Exec : exec[e].at = "MarkValidating" => exec[e].tries = 0

TaskOf == [e \in Exec |-> [at |-> Task(exec[e].at), tries |-> exec[e].tries]]

(* What a step that enters a state of the machine is to the agents.        *)
LEMMA EntersTask ==
  ASSUME ExecTypeOK, NEW e \in Exec, NEW pc \in ExecPc, Enter(e, pc)
  PROVE  /\ Tasks!Enter(e, Task(pc))
         /\ TaskOf[e].at = Task(exec[e].at)
         /\ Counted => Counted'
<1>1. /\ exec' = [exec EXCEPT ![e] = [at |-> pc, tries |-> 0]]
      /\ exec \in [Exec -> [at: ExecPc, tries: Nat]]
  BY DEF Enter, At, ExecTypeOK
<1>2. TaskOf' = [TaskOf EXCEPT ![e] = [at |-> Task(pc), tries |-> 0]]
  BY <1>1 DEF TaskOf
<1>3. Counted => Counted'
  BY <1>1 DEF Counted
<1>. QED BY <1>2, <1>3 DEF TaskOf, Tasks!Enter

LEMMA TasksStep ==
  ASSUME PipelineTypeOK, Counted, [PipelineNext]_pipelineVars
  PROVE  Counted' /\ [Tasks!Next]_TaskOf
<1>. DEFINE Goal == Counted' /\ [Tasks!Next]_TaskOf
<1>0. ExecTypeOK
  BY DEF PipelineTypeOK
<1>1. ASSUME NEW e \in Exec, NEW pc \in ExecPc, Enter(e, pc),
             Task(pc) = "none"
      PROVE  Goal
  BY <1>0, <1>1, EntersTask DEF Tasks!Next, Tasks!End
<1>2. ASSUME NEW e \in Exec, Start(e) \/ StartNewExecution(e) PROVE Goal
  BY <1>1, <1>2 DEF Start, StartNewExecution, Task, ExecPc
<1>3. ASSUME NEW e \in Exec, CheckIdempotency(e) PROVE Goal
  BY <1>1, <1>3 DEF CheckIdempotency, Task, ExecPc
<1>4. ASSUME NEW e \in Exec, MarkBuilding(e) PROVE Goal
  <2>1. Enter(e, "Generation") /\ Task(exec[e].at) = "none"
        /\ Task("Generation") = "generation"
    BY <1>4 DEF MarkBuilding, Task
  <2>. QED BY <1>0, <2>1, EntersTask DEF ExecPc, Tasks!Next, Tasks!Begin
<1>5. ASSUME NEW e \in Exec, Generate(e) PROVE Goal
  <2>1. Enter(e, "Build") /\ Task(exec[e].at) = "generation"
        /\ Task("Build") = "build"
    BY <1>5 DEF Generate, Task
  <2>. QED BY <1>0, <2>1, EntersTask DEF ExecPc, Tasks!Next, Tasks!Generated
<1>6. ASSUME NEW e \in Exec, Build(e) PROVE Goal
  <2>1. Enter(e, "MarkValidating") /\ Task(exec[e].at) = "build"
        /\ Task("MarkValidating") = "validation"
    BY <1>6 DEF Build, Task
  <2>. QED BY <1>0, <2>1, EntersTask DEF ExecPc, Tasks!Next, Tasks!Built
<1>7. ASSUME NEW e \in Exec, RetryTask(e) PROVE Goal
  <2>1. /\ exec' = [exec EXCEPT ![e].tries = @ + 1]
        /\ exec \in [Exec -> [at: ExecPc, tries: Nat]]
        /\ exec[e].at \in {"Generation", "Build"}
        /\ exec[e].tries < TASK_RETRY
    BY <1>0, <1>7 DEF RetryTask, ExecTypeOK
  <2>2. TaskOf[e].at \in {"generation", "build"}
        /\ TaskOf[e].tries < TASK_RETRY
    BY <2>1 DEF TaskOf, Task
  <2>3. TaskOf' = [TaskOf EXCEPT ![e].tries = @ + 1]
    BY <2>1 DEF TaskOf
  <2>4. Counted'
    BY <2>1 DEF Counted
  <2>. QED BY <2>2, <2>3, <2>4 DEF TaskOf, Tasks!Next, Tasks!Retry
<1>8. ASSUME NEW e \in Exec, MarkValidating(e) PROVE Goal
  <2>1. Enter(e, "Validation") /\ exec[e].at = "MarkValidating"
    BY <1>8 DEF MarkValidating
  <2>2. Counted' /\ exec[e].tries = 0
    BY <1>0, <2>1, EntersTask DEF ExecPc, Counted
  <2>3. TaskOf' = TaskOf
    <3>1. /\ exec' = [exec EXCEPT ![e] = [at |-> "Validation", tries |-> 0]]
          /\ exec \in [Exec -> [at: ExecPc, tries: Nat]]
      BY <1>0, <2>1 DEF Enter, At, ExecTypeOK
    <3>2. Task("Validation") = Task("MarkValidating")
      BY DEF Task
    <3>. QED BY <2>1, <2>2, <3>1, <3>2 DEF TaskOf
  <2>. QED BY <2>2, <2>3
<1>9. ASSUME NEW e \in Exec,
             \/ TaskFails(e) \/ Validate(e) \/ MarkPublished(e)
             \/ ReadContract(e) \/ PublishSiteEvent(e) \/ CheckRetryCount(e)
             \/ IncrementAttempt(e) \/ MarkFailed(e) \/ CallFails(e)
             \/ Dies(e)
      PROVE  Goal
  <2>1. \E pc \in ExecPc : Enter(e, pc) /\ Task(pc) = "none"
    BY <1>9 DEF TaskFails, Validate, MarkPublished, ReadContract,
                PublishSiteEvent, CheckRetryCount, IncrementAttempt,
                MarkFailed, CallFails, Dies, Task, ExecPc
  <2>. QED BY <1>1, <2>1
<1>10. CASE UNCHANGED pipelineVars
  BY <1>10 DEF pipelineVars, execVars, Counted, TaskOf
<1>. QED
  BY <1>2, <1>3, <1>4, <1>5, <1>6, <1>7, <1>8, <1>9, <1>10
     DEF PipelineNext, ExecStep

(* Whatever the executions of a site do to each other through its item,    *)
(* and wherever their calls fail, the agents are invoked in order.         *)
THEOREM MachineOrdersTasks == PipelineSpec => OrdersTasks
<1>1. PipelineInit => Counted /\ Tasks!Init
  BY DEF PipelineInit, ExecInit, At, Counted, Task, Tasks!Init,
         Tasks!Nothing
<1>2. PipelineTypeOK /\ Counted /\ [PipelineNext]_pipelineVars
      => Counted' /\ [Tasks!Next]_TaskOf
  BY TasksStep
<1>. QED
  BY <1>1, <1>2, PipelineTyped, PTL
     DEF PipelineSpec, OrdersTasks, Tasks!Spec, TaskOf
=============================================================================
