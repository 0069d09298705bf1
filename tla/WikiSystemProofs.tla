-------------------------- MODULE WikiSystemProofs ---------------------------
(***************************************************************************)
(* Theorems about the wiki as deployed, for any number of domains,         *)
(* executions, documents, rounds and redeliveries, and with every failure  *)
(* the model has: late executions, lost replies, uncoordinated seeds.      *)
(***************************************************************************)
EXTENDS WikiSystem, WikiCrawlProofs

-----------------------------------------------------------------------------
(* Typing.                                                                 *)

LEMMA TurnType ==
    ASSUME call \in [Doc -> Invocation], NEW x \in Doc, NEW c \in Invocation,
           Turn(x, c)
    PROVE  call' \in [Doc -> Invocation]
BY DEF Turn

LEMMA ForgetType ==
    ASSUME NEW c \in Invocation
    PROVE  /\ Forget(c) \in Invocation
           /\ Forget(c).pc = c.pc /\ Forget(c).stage = c.stage
           /\ Forget(c).domain = c.domain /\ Forget(c).cov = c.cov
BY DEF Forget, Invocation

LEMMA DecideType ==
    ASSUME call \in [Doc -> Invocation], NEW x \in Doc, NEW s \in Stage,
           Decide(x, s)
    PROVE  call' \in [Doc -> Invocation]
<1>1. Forget(call[x]) \in Invocation
  BY ForgetType
<1>2. [Forget(call[x]) EXCEPT !.pc = "deciding", !.stage = s] \in Invocation
  BY <1>1 DEF Invocation, CallPc
<1>. QED BY <1>2, TurnType DEF Decide

LEMMA ReinforceInitType == ReinforceInit => ReinforceTypeOK
BY DEF ReinforceInit, ReinforceTypeOK, Invocation, CallPc, Stage

LEMMA ReinforceStepType ==
    ASSUME StoreTypeOK, ReinforceTypeOK, [ReinforceNext]_reinforceSysVars
    PROVE  StoreTypeOK' /\ ReinforceTypeOK'
<1>. DEFINE Typed == StoreTypeOK /\ ReinforceTypeOK
<1>. USE DEF StoreTypeOK, ReinforceTypeOK
<1>0. ASSUME NEW x \in Doc
      PROVE  /\ call[x] \in Invocation
             /\ call[x].domain \in Domain
             /\ call[x].rounds + 1 \in Nat
             /\ call[x].redelivered + 1 \in Nat
             /\ index[call[x].domain] \in Item
             /\ NewVersion(call[x].domain) \in Nat
             /\ ObjectOf(x).version \in Nat
  BY <1>0 DEF Invocation, NewVersion, Object, ObjectOf
<1>1. ASSUME NEW x \in Doc, Upload(x) PROVE Typed'
  <2>1. [call[x] EXCEPT !.pc = "sent"] \in Invocation
    BY <1>0 DEF Invocation, CallPc
  <2>. QED BY <1>1, <2>1, TurnType DEF Upload, storeVars
<1>2. ASSUME NEW x \in Doc, Accept(x) PROVE Typed'
  <2>1. [call[x] EXCEPT !.pc = "looping"] \in Invocation
    BY <1>0 DEF Invocation, CallPc
  <2>. QED BY <1>2, <2>1, TurnType DEF Accept, storeVars
<1>3. ASSUME NEW x \in Doc, Refuse(x) PROVE Typed'
  BY <1>3, DecideType DEF Refuse, storeVars, Stage
<1>4. ASSUME NEW x \in Doc, ReadGone(x) PROVE Typed'
  <2>1. [call[x] EXCEPT !.pc = "lost"] \in Invocation
    BY <1>0 DEF Invocation, CallPc
  <2>. QED BY <1>4, <2>1, TurnType DEF ReadGone, storeVars
<1>5. ASSUME NEW x \in Doc, FindNothing(x) PROVE Typed'
  <2>1. [call[x] EXCEPT !.pc = "chosen", !.expected = 0, !.compared = 0]
          \in Invocation
    BY <1>0 DEF Invocation, CallPc
  <2>. QED BY <1>5, <2>1, TurnType DEF FindNothing, storeVars
<1>6. ASSUME NEW x \in Doc, ReadVersion(x) PROVE Typed'
  <2>1. index[call[x].domain].version \in Nat
    BY <1>0 DEF Item
  <2>2. [call[x] EXCEPT !.pc = "known",
                        !.expected = index[call[x].domain].version]
          \in Invocation
    BY <1>0, <2>1 DEF Invocation, CallPc
  <2>. QED BY <1>6, <2>2, TurnType DEF ReadVersion, storeVars
<1>7. ASSUME NEW x \in Doc, Compare(x) PROVE Typed'
  <2>1. [call[x] EXCEPT !.pc = "chosen", !.compared = ObjectOf(x).version]
          \in Invocation
    BY <1>0 DEF Invocation, CallPc
  <2>. QED BY <1>7, <2>1, TurnType, DecideType DEF Compare, storeVars, Stage
<1>8. ASSUME NEW x \in Doc, Save(x) PROVE Typed'
  <2>1. [call[x] EXCEPT !.pc = "put",
                        !.version = NewVersion(call[x].domain)] \in Invocation
    BY <1>0 DEF Invocation, CallPc
  <2>2. call' \in [Doc -> Invocation]
    BY <1>8, <2>1, TurnType DEF Save
  <2>3. call[x].cov \in Nat
    BY <1>0, CoverageAssumption DEF Invocation
  <2>4. object' \in [Domain -> Object]
    BY <1>0, <1>8, <2>3 DEF Save, PutBody, Object, Author
  <2>. QED BY <1>8, <2>2, <2>4 DEF Save
<1>9. ASSUME NEW x \in Doc, Adopt(x) PROVE Typed'
  <2>1. Committed(index[call[x].domain], call[x].version) \in Item
    <3>1. call[x].version \in Nat
      BY <1>0 DEF Invocation
    <3>. QED BY <1>0, <3>1, WriteType
  <2>2. call' \in [Doc -> Invocation]
    BY <1>9, DecideType DEF Adopt, Stage
  <2>. QED BY <1>9, <2>1, <2>2 DEF Adopt
<1>10. ASSUME NEW x \in Doc, Conflict(x) PROVE Typed'
  <2>1. Forget(call[x]) \in Invocation
    BY <1>0, ForgetType
  <2>2. [Forget(call[x]) EXCEPT !.pc = "looping",
                                !.rounds = call[x].rounds + 1] \in Invocation
    BY <1>0, <2>1 DEF Invocation, CallPc
  <2>. QED BY <1>10, <2>2, TurnType, DecideType DEF Conflict, storeVars, Stage
<1>11. ASSUME NEW x \in Doc, DeletePending(x) PROVE Typed'
  <2>1. [call[x] EXCEPT !.pc = "over"] \in Invocation
    BY <1>0 DEF Invocation, CallPc
  <2>. QED BY <1>11, <2>1, TurnType DEF DeletePending, storeVars
<1>12. ASSUME NEW x \in Doc, Die(x) PROVE Typed'
  <2>1. Forget(call[x]) \in Invocation
    BY <1>0, ForgetType
  <2>2. [Forget(call[x]) EXCEPT !.pc = "lost"] \in Invocation
    BY <2>1 DEF Invocation, CallPc
  <2>3. Forget(call[x]).redelivered = call[x].redelivered
    BY <1>0 DEF Forget, Invocation
  <2>4. [Forget(call[x]) EXCEPT
           !.pc = "sent", !.stage = "none",
           !.redelivered = Forget(call[x]).redelivered + 1] \in Invocation
    BY <1>0, <2>1, <2>3 DEF Invocation, CallPc, Stage
  <2>5. call' \in [Doc -> Invocation]
    BY <1>12, <2>2, <2>4, TurnType DEF Die
  <2>. QED BY <1>12, <2>5 DEF Die, storeVars
<1>13. CASE UNCHANGED reinforceSysVars
  BY <1>13 DEF reinforceSysVars, storeVars, reinforceVars
<1>. QED
  BY <1>1, <1>2, <1>3, <1>4, <1>5, <1>6, <1>7, <1>8, <1>9, <1>10, <1>11,
     <1>12, <1>13
     DEF ReinforceNext, ReinforceStep

LEMMA SystemInitType == Init => SystemTypeOK
BY CrawlInitType, ReinforceInitType DEF Init, SystemTypeOK, TypeOK

LEMMA SystemStepType ==
    ASSUME SystemTypeOK, [Next]_vars PROVE SystemTypeOK'
<1>. USE DEF SystemTypeOK, TypeOK
<1>1. CASE CrawlNext /\ UNCHANGED reinforceVars
  BY <1>1, CrawlStepType DEF reinforceVars, ReinforceTypeOK
<1>2. CASE ReinforceNext /\ UNCHANGED crawlVars
  BY <1>2, ReinforceStepType DEF crawlVars, CrawlTypeOK
<1>3. CASE UNCHANGED vars
  <2>1. UNCHANGED crawlSysVars /\ UNCHANGED reinforceSysVars
    BY <1>3 DEF vars, crawlSysVars, reinforceSysVars
  <2>. QED BY <2>1, CrawlStepType, ReinforceStepType
<1>. QED BY <1>1, <1>2, <1>3 DEF Next

(* The system's type invariant.                                            *)
THEOREM SystemTyped == Spec => []SystemTypeOK
BY SystemInitType, SystemStepType, PTL DEF Spec
-----------------------------------------------------------------------------
(* The index and the bucket.                                               *)

(* A run about to commit names a body that is stored.                      *)
RunKnows(r) ==
    run[r].pc = "put"
      => 0 < run[r].version /\ run[r].version <= object[run[r].domain].version

(* An invocation measured itself against the index version it expects; it  *)
(* has no outcome before it decides.                                       *)
CallKnows(x) ==
    /\ call[x].pc = "known" => call[x].expected <= ObjectOf(x).version
    /\ call[x].pc \in {"chosen", "put"} => call[x].expected <= call[x].compared
    /\ call[x].pc = "put"
         => 0 < call[x].version /\ call[x].version <= ObjectOf(x).version
    /\ call[x].pc \in {"none", "sent", "looping", "known", "chosen", "put"}
         => call[x].stage = "none"

StoresInv ==
    /\ IndexNeverAhead
    /\ \A r \in Run : RunKnows(r)
    /\ \A x \in Doc : CallKnows(x)

(* Versions of a body are only ever added.                                 *)
Grows == \A d \in Domain : object[d].version <= object'[d].version

LEMMA PutGrows ==
    ASSUME StoreTypeOK, NEW d \in Domain, NEW a, NEW c, PutBody(d, a, c)
    PROVE  Grows /\ object'[d].version = NewVersion(d) /\ NewVersion(d) > 0
BY DEF StoreTypeOK, Object, PutBody, NewVersion, Grows

(* A write to the index that names a stored body.                          *)
LEMMA WriteKeeps ==
    ASSUME StoreTypeOK, IndexNeverAhead, object' = object,
           NEW d \in Domain, NEW i \in Item,
           index' = [index EXCEPT ![d] = i],
           i.version <= object[d].version,
           i.status = "done" => i.version > 0
    PROVE  IndexNeverAhead'
BY DEF StoreTypeOK, IndexNeverAhead

LEMMA GrowthKeeps ==
    ASSUME StoreTypeOK, StoreTypeOK', IndexNeverAhead, Grows, index' = index
    PROVE  IndexNeverAhead'
BY DEF StoreTypeOK, IndexNeverAhead, Grows, Item, Object

LEMMA RunGrowth ==
    ASSUME SystemTypeOK, SystemTypeOK', Grows, NEW r \in Run,
           run'[r] = run[r], RunKnows(r)
    PROVE  RunKnows(r)'
<1>1. run[r].domain \in Domain /\ run[r].version \in Nat
  BY DEF SystemTypeOK, CrawlTypeOK, Execution
<1>2. /\ object[run[r].domain].version \in Nat
      /\ object'[run[r].domain].version \in Nat
  BY <1>1 DEF SystemTypeOK, StoreTypeOK, Object
<1>. QED BY <1>1, <1>2 DEF RunKnows, Grows

LEMMA CallGrowth ==
    ASSUME SystemTypeOK, SystemTypeOK', Grows, NEW x \in Doc,
           call'[x] = call[x], CallKnows(x)
    PROVE  CallKnows(x)'
<1>1. /\ call[x].domain \in Domain /\ call[x].version \in Nat
      /\ call[x].expected \in Nat
  BY DEF SystemTypeOK, ReinforceTypeOK, Invocation
<1>2. /\ object[call[x].domain].version \in Nat
      /\ object'[call[x].domain].version \in Nat
  BY <1>1 DEF SystemTypeOK, StoreTypeOK, Object
<1>. QED BY <1>1, <1>2 DEF CallKnows, ObjectOf, Grows

LEMMA StoresInit == Init => StoresInv
BY DEF Init, StoreInit, Unregistered, CrawlInit, ReinforceInit, StoresInv,
       IndexNeverAhead, RunKnows, CallKnows, Idle

LEMMA CrawlStores ==
    ASSUME SystemTypeOK, SystemTypeOK', StoresInv, CrawlNext
    PROVE  Grows /\ IndexNeverAhead' /\ \A r \in Run : RunKnows(r)'
<1>. DEFINE Kept == Grows /\ IndexNeverAhead' /\ \A r \in Run : RunKnows(r)'
<1>0. ASSUME NEW r \in Run
      PROVE  /\ run[r] \in Execution /\ run[r].domain \in Domain
             /\ run[r].version \in Nat
             /\ index[run[r].domain] \in Item
  BY <1>0 DEF SystemTypeOK, StoreTypeOK, CrawlTypeOK, Execution
<1>1. object' = object => Grows
  BY DEF SystemTypeOK, StoreTypeOK, Object, Grows
<1>2. ASSUME NEW d \in Domain, RegisterPut(d) PROVE Kept
  <2>1. Registered \in Item /\ 0 <= object[d].version
    BY DEF Registered, Item, Status, SystemTypeOK, StoreTypeOK, Object
  <2>2. IndexNeverAhead'
    BY <1>2, <2>1, WriteKeeps
       DEF RegisterPut, Registered, SystemTypeOK, StoresInv
  <2>. QED BY <1>1, <1>2, <2>2, RunGrowth DEF RegisterPut, StoresInv
(* A step of one execution that neither puts nor commits: the index item   *)
(* it may write keeps its version, or the index is left alone.             *)
<1>3. ASSUME NEW r \in Run, object' = object,
             \/ index' = index
             \/ \E i \in Item :
                  /\ index' = [index EXCEPT ![run[r].domain] = i]
                  /\ i.version = index[run[r].domain].version
                  /\ i.status # "done",
             NEW e, Become(r, e), RunKnows(r)'
      PROVE  Kept
  <2>1. IndexNeverAhead'
    <3>1. CASE index' = index
      BY <1>1, <1>3, <3>1, GrowthKeeps DEF SystemTypeOK, StoresInv
    <3>2. ASSUME NEW i \in Item,
                 index' = [index EXCEPT ![run[r].domain] = i],
                 i.version = index[run[r].domain].version,
                 i.status # "done"
          PROVE  IndexNeverAhead'
      BY <1>0, <1>3, <3>2, WriteKeeps
         DEF SystemTypeOK, StoresInv, IndexNeverAhead
    <3>. QED BY <1>3, <3>1, <3>2
  <2>2. \A s \in Run \ {r} : run'[s] = run[s]
    BY <1>3 DEF Become, SystemTypeOK, CrawlTypeOK
  <2>3. \A s \in Run : RunKnows(s)'
    BY <1>1, <1>3, <2>2, RunGrowth DEF StoresInv
  <2>. QED BY <1>1, <1>3, <2>1, <2>3
<1>4. ASSUME NEW r \in Run, NEW e, Become(r, e), e.pc # "put"
      PROVE  RunKnows(r)'
  BY <1>4 DEF Become, RunKnows, SystemTypeOK, CrawlTypeOK
<1>5. ASSUME NEW r \in Run, End(r) PROVE RunKnows(r)'
  BY <1>4, <1>5 DEF End, Idle
<1>6. ASSUME NEW r \in Run, Unanswered(r) PROVE RunKnows(r)'
  <2>1. ASSUME NEW n PROVE [run[r] EXCEPT
           !.pc = "crawled", !.tries = n, !.read = 0, !.version = 0].pc
             # "put"
    BY <1>0 DEF Execution
  <2>. QED BY <1>4, <1>6, <2>1 DEF Unanswered
<1>7. ASSUME NEW r \in Run, NEW n \in Nat
      PROVE  LET i == index[run[r].domain] IN
             /\ Claimed(i) \in Item /\ Claimed(i).version = i.version
             /\ Claimed(i).status # "done"
             /\ Rejected(i, n) \in Item /\ Rejected(i, n).version = i.version
             /\ Rejected(i, n).status # "done"
  BY <1>0, WriteType DEF Claimed, Rejected, Item
<1>8. ASSUME NEW r \in Run, NEW d \in Seeds, BootstrapSeed(r, d) PROVE Kept
  <2>. DEFINE e == [Idle(d) EXCEPT !.pc = "crawled", !.tries = MaxRetry]
  <2>1. e.pc # "put" /\ Become(r, e) /\ object' = object /\ index' = index
    BY <1>8 DEF BootstrapSeed, Idle, storeVars
  <2>. HIDE DEF e
  <2>. QED BY <1>3, <1>4, <2>1
<1>9. ASSUME NEW r \in Run, PickStep(r) PROVE Kept
  <2>1. ASSUME NEW d \in Domain, PickDue(r, d) PROVE Kept
    <3>. DEFINE e == [Idle(d) EXCEPT !.pc = "picked"]
                b == [Idle(d) EXCEPT !.pc = "bare"]
    <3>1. /\ e.pc # "put" /\ b.pc # "put"
          /\ Become(r, e) \/ Become(r, b)
          /\ object' = object /\ index' = index
      BY <2>1 DEF PickDue, Idle, storeVars
    <3>. HIDE DEF e, b
    <3>. QED BY <1>3, <1>4, <3>1
  <2>2. CASE ClaimWon(r)
    <3>. DEFINE e == [run[r] EXCEPT !.pc = "claimed", !.lease = LEASE]
    <3>1. e.pc # "put" /\ Become(r, e) /\ object' = object
      BY <1>0, <2>2 DEF ClaimWon, Execution
    <3>. HIDE DEF e
    <3>. QED BY <1>3, <1>4, <1>7, <2>2, <3>1 DEF ClaimWon
  <2>3. CASE ClaimBare(r)
    BY <1>3, <1>5, <1>7, <2>3 DEF ClaimBare, End
  <2>4. CASE ClaimLost(r)
    BY <1>3, <1>5, <2>4 DEF ClaimLost, End, storeVars
  <2>. QED BY <1>9, <2>1, <2>2, <2>3, <2>4 DEF PickStep
<1>10. ASSUME NEW r \in Run, StoreStep(r) PROVE Kept
  <2>0. Answered(r) => RunKnows(r)' /\ \E e : Become(r, e)
    BY <1>5, <1>6 DEF Answered, End, Unanswered
  <2>1. CASE Crawl(r)
    <3>. DEFINE e == [run[r] EXCEPT !.pc = "crawled"]
    <3>1. e.pc # "put" /\ Become(r, e) /\ object' = object /\ index' = index
      BY <1>0, <2>1 DEF Crawl, Execution, storeVars
    <3>. HIDE DEF e
    <3>. QED BY <1>3, <1>4, <3>1
  <2>2. CASE RejectRead(r)
    <3>. DEFINE e == [run[r] EXCEPT !.pc = "rejecting",
                                    !.read = ItemOf(r).attempts]
    <3>1. e.pc # "put" /\ Become(r, e) /\ object' = object /\ index' = index
      BY <1>0, <2>2 DEF RejectRead, Execution, storeVars
    <3>. HIDE DEF e
    <3>. QED BY <1>3, <1>4, <3>1
  <2>3. CASE RejectWrite(r)
    <3>1. run[r].read + 1 \in Nat
      BY <1>0 DEF Execution
    <3>. QED BY <1>3, <1>7, <2>0, <2>3, <3>1 DEF RejectWrite
  <2>4. CASE Put(r)
    <3>1. PICK c \in Coverage : PutBody(run[r].domain, "crawl", c)
      BY <2>4 DEF Put
    <3>2. /\ Grows /\ NewVersion(run[r].domain) > 0
          /\ object'[run[r].domain].version = NewVersion(run[r].domain)
      BY <1>0, <3>1, PutGrows DEF SystemTypeOK
    <3>3. IndexNeverAhead'
      BY <2>4, <3>2, GrowthKeeps DEF Put, SystemTypeOK, StoresInv
    <3>4. /\ run'[r] = [run[r] EXCEPT !.pc = "put",
                          !.version = NewVersion(run[r].domain)]
          /\ \A s \in Run \ {r} : run'[s] = run[s]
      BY <2>4 DEF Put, Become, SystemTypeOK, CrawlTypeOK
    <3>5. /\ run'[r].version = NewVersion(run[r].domain)
          /\ run'[r].domain = run[r].domain
      BY <1>0, <3>4 DEF Execution
    <3>6. NewVersion(run[r].domain) \in Nat
      BY <1>0 DEF NewVersion, SystemTypeOK, StoreTypeOK, Object
    <3>7. RunKnows(r)'
      BY <3>2, <3>5, <3>6 DEF RunKnows
    <3>. QED BY <3>2, <3>3, <3>4, <3>7, RunGrowth DEF StoresInv
  <2>5. CASE Commit(r)
    <3>. DEFINE i == Committed(index[run[r].domain], run[r].version)
    <3>1. i \in Item /\ i.version = run[r].version
      BY <1>0, WriteType DEF Committed, Item
    <3>2. RunKnows(r) /\ run[r].pc = "put"
      BY <2>5 DEF StoresInv, Commit
    <3>3. /\ index' = [index EXCEPT ![run[r].domain] = i]
          /\ object' = object
      BY <2>5 DEF Commit
    <3>. HIDE DEF i
    <3>4. IndexNeverAhead'
      BY <1>0, <3>1, <3>2, <3>3, WriteKeeps
         DEF RunKnows, SystemTypeOK, StoresInv
    <3>5. RunKnows(r)' /\ \A s \in Run \ {r} : run'[s] = run[s]
      BY <2>0, <2>5 DEF Commit, Become, SystemTypeOK, CrawlTypeOK
    <3>. QED BY <1>1, <3>3, <3>4, <3>5, RunGrowth DEF StoresInv
  <2>. QED BY <1>10, <2>1, <2>2, <2>3, <2>4, <2>5 DEF StoreStep
<1>11. ASSUME NEW r \in LostReplies, Reinvoke(r) PROVE Kept
  <2>1. r \in Run
    BY CrawlAssumption
  <2>. QED BY <1>3, <1>6, <1>11, <2>1 DEF Reinvoke, Unanswered, storeVars
<1>12. ASSUME NEW r \in Run, Fail(r) PROVE Kept
  BY <1>3, <1>5, <1>12 DEF Fail, End, storeVars
<1>13. CASE Tick
  <2>1. \A d \in Domain : /\ index'[d].version = index[d].version
                          /\ index'[d].status = index[d].status
    BY <1>13 DEF Tick, TickIndex, SystemTypeOK, StoreTypeOK, Item
  <2>2. \A r \in Run : /\ run'[r].pc = run[r].pc
                       /\ run'[r].domain = run[r].domain
                       /\ run'[r].version = run[r].version
    BY <1>13 DEF Tick, SystemTypeOK, CrawlTypeOK, Execution
  <2>3. object' = object
    BY <1>13 DEF Tick
  <2>4. IndexNeverAhead'
    BY <2>1, <2>3 DEF StoresInv, IndexNeverAhead
  <2>. QED BY <1>1, <2>2, <2>3, <2>4 DEF StoresInv, RunKnows
<1>14. ASSUME NEW d \in Domain, RegisterCheck(d) PROVE Kept
  BY <1>1, <1>14, GrowthKeeps, RunGrowth
     DEF RegisterCheck, storeVars, StoresInv, SystemTypeOK
<1>. QED
  BY <1>2, <1>8, <1>9, <1>10, <1>11, <1>12, <1>13, <1>14
     DEF CrawlNext, Register
LEMMA ReinforceStores ==
    ASSUME SystemTypeOK, SystemTypeOK', StoresInv, ReinforceNext,
           UNCHANGED crawlVars
    PROVE  StoresInv'
<1>0. ASSUME NEW x \in Doc
      PROVE  /\ call[x] \in Invocation /\ call[x].domain \in Domain
             /\ call[x].version \in Nat /\ call[x].expected \in Nat
             /\ index[call[x].domain] \in Item
             /\ index[call[x].domain].version \in Nat
             /\ ObjectOf(x).version \in Nat
             /\ NewVersion(call[x].domain) \in Nat
             /\ CallKnows(x)
  BY <1>0 DEF SystemTypeOK, StoreTypeOK, ReinforceTypeOK, Invocation, Item,
              Object, ObjectOf, NewVersion, StoresInv
<1>1. object' = object => Grows
  BY DEF SystemTypeOK, StoreTypeOK, Object, Grows
<1>2. ASSUME Grows, IndexNeverAhead', NEW x \in Doc, NEW c, Turn(x, c),
             CallKnows(x)'
      PROVE  StoresInv'
  <2>1. \A y \in Doc \ {x} : call'[y] = call[y]
    BY <1>2 DEF Turn, SystemTypeOK, ReinforceTypeOK
  <2>2. \A y \in Doc : CallKnows(y)'
    BY <1>2, <2>1, CallGrowth DEF StoresInv
  <2>3. \A r \in Run : RunKnows(r)'
    BY <1>2, RunGrowth DEF StoresInv, crawlVars
  <2>. QED BY <1>2, <2>2, <2>3 DEF StoresInv
(* A step that writes neither store.                                       *)
<1>3. ASSUME NEW x \in Doc, NEW c, Turn(x, c), CallKnows(x)',
             UNCHANGED storeVars
      PROVE  StoresInv'
  BY <1>1, <1>2, <1>3, GrowthKeeps DEF storeVars, SystemTypeOK, StoresInv
<1>4. ASSUME NEW x \in Doc, NEW c, Turn(x, c),
             c.pc \in {"sent", "looping"} => c.stage = "none",
             c.pc \notin {"none", "known", "chosen", "put"}
      PROVE  CallKnows(x)'
  BY <1>4 DEF Turn, CallKnows, SystemTypeOK, ReinforceTypeOK
<1>5. ASSUME NEW x \in Doc, NEW s, Decide(x, s)
      PROVE  CallKnows(x)' /\ \E c : Turn(x, c)
  <2>. DEFINE c == [Forget(call[x]) EXCEPT !.pc = "deciding", !.stage = s]
  <2>1. c.pc = "deciding" /\ Turn(x, c)
    BY <1>0, <1>5, ForgetType DEF Decide, Invocation
  <2>. HIDE DEF c
  <2>. QED BY <1>4, <2>1
<1>6. ASSUME NEW x \in Doc, Upload(x) \/ Accept(x) PROVE StoresInv'
  <2>. DEFINE s == [call[x] EXCEPT !.pc = "sent"]
              l == [call[x] EXCEPT !.pc = "looping"]
  <2>1. call[x].stage = "none"
    BY <1>0, <1>6 DEF Upload, Accept, CallKnows
  <2>2. /\ s.pc = "sent" /\ s.stage = "none"
        /\ l.pc = "looping" /\ l.stage = "none"
    BY <1>0, <2>1 DEF Invocation
  <2>3. UNCHANGED storeVars /\ (Turn(x, s) \/ Turn(x, l))
    BY <1>6 DEF Upload, Accept
  <2>. HIDE DEF s, l
  <2>. QED BY <1>3, <1>4, <2>2, <2>3
<1>7. ASSUME NEW x \in Doc, Refuse(x) PROVE StoresInv'
  BY <1>3, <1>5, <1>7 DEF Refuse
<1>8. ASSUME NEW x \in Doc, ReadGone(x) \/ DeletePending(x) PROVE StoresInv'
  <2>. DEFINE g == [call[x] EXCEPT !.pc = "lost"]
              o == [call[x] EXCEPT !.pc = "over"]
  <2>1. g.pc = "lost" /\ o.pc = "over"
    BY <1>0 DEF Invocation
  <2>2. UNCHANGED storeVars /\ (Turn(x, g) \/ Turn(x, o))
    BY <1>8 DEF ReadGone, DeletePending
  <2>. HIDE DEF g, o
  <2>. QED BY <1>3, <1>4, <2>1, <2>2
<1>9. ASSUME NEW x \in Doc, FindNothing(x) PROVE StoresInv'
  <2>. DEFINE c == [call[x] EXCEPT !.pc = "chosen", !.expected = 0,
                                   !.compared = 0]
  <2>1. /\ c.pc = "chosen" /\ c.expected = 0 /\ c.compared = 0
        /\ c.stage = "none"
    BY <1>0, <1>9 DEF Invocation, FindNothing, CallKnows
  <2>2. Turn(x, c) /\ UNCHANGED storeVars
    BY <1>9 DEF FindNothing
  <2>. HIDE DEF c
  <2>3. CallKnows(x)'
    BY <2>1, <2>2 DEF Turn, CallKnows, SystemTypeOK, ReinforceTypeOK
  <2>. QED BY <1>3, <2>2, <2>3
<1>10. ASSUME NEW x \in Doc, ReadVersion(x) PROVE StoresInv'
  <2>. DEFINE c == [call[x] EXCEPT !.pc = "known",
                      !.expected = index[call[x].domain].version]
  <2>1. /\ c.pc = "known" /\ c.stage = "none" /\ c.domain = call[x].domain
        /\ c.expected = index[call[x].domain].version
    BY <1>0, <1>10 DEF Invocation, ReadVersion, CallKnows
  <2>2. Turn(x, c) /\ UNCHANGED storeVars
    BY <1>10 DEF ReadVersion
  <2>3. c.expected <= ObjectOf(x).version
    BY <1>0, <2>1 DEF StoresInv, IndexNeverAhead, ObjectOf
  <2>. HIDE DEF c
  <2>4. CallKnows(x)'
    BY <2>1, <2>2, <2>3
       DEF Turn, CallKnows, ObjectOf, storeVars, SystemTypeOK,
           ReinforceTypeOK
  <2>. QED BY <1>3, <2>2, <2>4
<1>11. ASSUME NEW x \in Doc, Compare(x) PROVE StoresInv'
  <2>. DEFINE c == [call[x] EXCEPT !.pc = "chosen",
                                   !.compared = ObjectOf(x).version]
  <2>1. /\ c.pc = "chosen" /\ c.stage = "none"
        /\ c.expected = call[x].expected /\ c.compared = ObjectOf(x).version
        /\ call[x].expected <= ObjectOf(x).version
    BY <1>0, <1>11 DEF Invocation, Compare, CallKnows
  <2>2. CASE Turn(x, c)
    <3>. HIDE DEF c
    <3>1. CallKnows(x)'
      BY <2>1, <2>2 DEF Turn, CallKnows, SystemTypeOK, ReinforceTypeOK
    <3>. QED BY <1>3, <1>11, <2>2, <3>1 DEF Compare
  <2>3. ASSUME NEW s, Decide(x, s) PROVE StoresInv'
    BY <1>3, <1>5, <1>11, <2>3 DEF Compare
  <2>. QED BY <1>11, <2>2, <2>3 DEF Compare
<1>12. ASSUME NEW x \in Doc, Save(x) PROVE StoresInv'
  <2>. DEFINE c == [call[x] EXCEPT !.pc = "put",
                      !.version = NewVersion(call[x].domain)]
  <2>1. /\ c.pc = "put" /\ c.stage = "none" /\ c.domain = call[x].domain
        /\ c.version = NewVersion(call[x].domain)
        /\ c.expected = call[x].expected /\ c.compared = call[x].compared
        /\ call[x].expected <= call[x].compared
    BY <1>0, <1>12 DEF Invocation, Save, CallKnows
  <2>2. Turn(x, c) /\ index' = index
    BY <1>12 DEF Save
  <2>3. /\ Grows /\ NewVersion(call[x].domain) > 0
        /\ object'[call[x].domain].version = NewVersion(call[x].domain)
    BY <1>0, <1>12, PutGrows DEF Save, SystemTypeOK
  <2>. HIDE DEF c
  <2>4. CallKnows(x)'
    BY <1>0, <2>1, <2>2, <2>3
       DEF Turn, CallKnows, ObjectOf, SystemTypeOK, ReinforceTypeOK
  <2>5. IndexNeverAhead'
    BY <2>2, <2>3, GrowthKeeps DEF SystemTypeOK, StoresInv
  <2>. QED BY <1>2, <2>2, <2>3, <2>4, <2>5
<1>13. ASSUME NEW x \in Doc, Adopt(x) PROVE StoresInv'
  <2>. DEFINE i == Committed(index[call[x].domain], call[x].version)
  <2>1. i \in Item /\ i.version = call[x].version
    BY <1>0, WriteType DEF Committed, Item
  <2>2. 0 < call[x].version /\ call[x].version <= ObjectOf(x).version
    BY <1>0, <1>13 DEF Adopt, CallKnows
  <2>3. index' = [index EXCEPT ![call[x].domain] = i] /\ object' = object
    BY <1>13 DEF Adopt
  <2>. HIDE DEF i
  <2>4. IndexNeverAhead'
    BY <1>0, <2>1, <2>2, <2>3, WriteKeeps
       DEF ObjectOf, SystemTypeOK, StoresInv
  <2>. QED BY <1>1, <1>2, <1>5, <1>13, <2>3, <2>4 DEF Adopt
<1>14. ASSUME NEW x \in Doc, Conflict(x) PROVE StoresInv'
  <2>. DEFINE c == [Forget(call[x]) EXCEPT !.pc = "looping",
                      !.rounds = call[x].rounds + 1]
  <2>1. c.pc = "looping" /\ c.stage = "none"
    BY <1>0, <1>14, ForgetType DEF Invocation, Conflict, CallKnows
  <2>2. CASE Turn(x, c)
    <3>. HIDE DEF c
    <3>. QED BY <1>3, <1>4, <1>14, <2>1, <2>2 DEF Conflict
  <2>3. CASE Decide(x, "conflict")
    BY <1>3, <1>5, <1>14, <2>3 DEF Conflict
  <2>. QED BY <1>14, <2>2, <2>3 DEF Conflict
<1>15. ASSUME NEW x \in Doc, Die(x) PROVE StoresInv'
  <2>. DEFINE s == [Forget(call[x]) EXCEPT !.pc = "sent", !.stage = "none",
                      !.redelivered = Forget(call[x]).redelivered + 1]
              l == [Forget(call[x]) EXCEPT !.pc = "lost"]
  <2>1. s.pc = "sent" /\ s.stage = "none" /\ l.pc = "lost"
    BY <1>0, ForgetType DEF Invocation
  <2>2. UNCHANGED storeVars /\ (Turn(x, s) \/ Turn(x, l))
    BY <1>15 DEF Die
  <2>. HIDE DEF s, l
  <2>. QED BY <1>3, <1>4, <2>1, <2>2
<1>. QED
  BY <1>6, <1>7, <1>8, <1>9, <1>10, <1>11, <1>12, <1>13, <1>14, <1>15
     DEF ReinforceNext, ReinforceStep

LEMMA StoresStep ==
    ASSUME SystemTypeOK, SystemTypeOK', StoresInv, [Next]_vars
    PROVE  StoresInv'
<1>1. CASE CrawlNext /\ UNCHANGED reinforceVars
  <2>1. \A x \in Doc : CallKnows(x)'
    BY <1>1, CrawlStores, CallGrowth DEF StoresInv, reinforceVars
  <2>. QED BY <1>1, <2>1, CrawlStores DEF StoresInv
<1>2. CASE ReinforceNext /\ UNCHANGED crawlVars
  BY <1>2, ReinforceStores
<1>3. CASE UNCHANGED vars
  BY <1>3 DEF vars, storeVars, crawlVars, reinforceVars, StoresInv,
              IndexNeverAhead, RunKnows, CallKnows, ObjectOf
<1>. QED BY <1>1, <1>2, <1>3 DEF Next

(* Whatever fails, and however crawls and reinforcements of one domain     *)
(* interleave, the index never names a body that is not stored: every      *)
(* writer puts the body before it commits its version.                     *)
THEOREM IndexStaysBehind == Spec => []IndexNeverAhead
<1>1. StoresInv => IndexNeverAhead
  BY DEF StoresInv
<1>. QED
  BY <1>1, StoresInit, StoresStep, SystemTyped, PTL DEF Spec

(* A reinforcement never replaces an index version it has not measured     *)
(* itself against, whoever else commits in between.                        *)
THEOREM AdoptionsInformed == Spec => AdoptsOverKnown
<1>. DEFINE Informed ==
        \A x \in Doc :
          call[x].pc = "put" /\ call'[x].stage = "committed"
          => index[call[x].domain].version <= call[x].compared
<1>1. ASSUME SystemTypeOK, StoresInv, Next PROVE Informed
  <2>. SUFFICES ASSUME NEW x \in Doc, call[x].pc = "put",
                       call'[x].stage = "committed"
                PROVE  index[call[x].domain].version <= call[x].compared
    OBVIOUS
  <2>0. /\ call[x] \in Invocation /\ CallKnows(x)
        /\ call[x].stage = "none"
        /\ call[x].expected <= call[x].compared
    BY <1>1 DEF SystemTypeOK, ReinforceTypeOK, StoresInv, CallKnows
  <2>1. PICK y \in Doc : Upload(y) \/ ReinforceStep(y) \/ Die(y)
    <3>1. call' # call
      BY <2>0
    <3>. QED BY <1>1, <3>1 DEF Next, ReinforceNext, reinforceVars
  <2>2. \E c : Turn(y, c)
    BY <2>1 DEF Upload, ReinforceStep, Die, Accept, Refuse, ReadGone,
                FindNothing, ReadVersion, Compare, Save, Adopt, Conflict,
                DeletePending, Decide
  <2>3. y = x
    <3>1. y # x => call'[x] = call[x]
      BY <2>2 DEF Turn
    <3>. QED BY <2>0, <3>1
  <2>4. Adopt(x) \/ Conflict(x) \/ Die(x)
    BY <2>1, <2>3 DEF Upload, ReinforceStep, Accept, Refuse, ReadGone,
                      FindNothing, ReadVersion, Compare, Save, DeletePending
  <2>5. ASSUME NEW c, Turn(x, c) PROVE c.stage = "committed"
    BY <1>1, <2>5 DEF Turn, SystemTypeOK, ReinforceTypeOK
  <2>6. ~Die(x)
    <3>. DEFINE s == [Forget(call[x]) EXCEPT !.pc = "sent", !.stage = "none",
                        !.redelivered = Forget(call[x]).redelivered + 1]
                l == [Forget(call[x]) EXCEPT !.pc = "lost"]
    <3>1. s.stage = "none" /\ l.stage = "none"
      BY <2>0, ForgetType DEF Invocation
    <3>2. Die(x) => Turn(x, s) \/ Turn(x, l)
      BY DEF Die
    <3>. HIDE DEF s, l
    <3>. QED BY <2>5, <3>1, <3>2
  <2>7. ~Conflict(x)
    <3>. DEFINE l == [Forget(call[x]) EXCEPT !.pc = "looping",
                        !.rounds = call[x].rounds + 1]
                c == [Forget(call[x]) EXCEPT !.pc = "deciding",
                        !.stage = "conflict"]
    <3>1. l.stage = "none" /\ c.stage = "conflict"
      BY <2>0, ForgetType DEF Invocation
    <3>2. Conflict(x) => Turn(x, l) \/ Turn(x, c)
      BY DEF Conflict, Decide
    <3>. HIDE DEF l, c
    <3>. QED BY <2>5, <3>1, <3>2
  <2>. QED BY <2>0, <2>4, <2>6, <2>7 DEF Adopt, Unchanged
<1>2. SystemTypeOK /\ StoresInv /\ [Next]_vars => [Informed]_reinforceSysVars
  <2>1. UNCHANGED vars => UNCHANGED reinforceSysVars
    BY DEF vars, reinforceSysVars
  <2>. HIDE DEF Informed
  <2>. QED BY <1>1, <2>1
<1>. QED
  BY <1>2, StoresInit, StoresStep, SystemTyped, PTL DEF Spec, AdoptsOverKnown
=============================================================================
