--------------------------- MODULE WikiCrawlProofs ---------------------------
(***************************************************************************)
(* Theorems about WikiCrawl, for any number of domains, executions,        *)
(* retries and picks, and any delays.                                      *)
(***************************************************************************)
EXTENDS WikiCrawl, TLAPS

-----------------------------------------------------------------------------
(* Typing.                                                                 *)

LEMMA BackoffType == \A n \in Nat : BackoffAfter(n) \in Nat
BY TimesAssumption DEF BackoffAfter

LEMMA CountdownType ==
    \A n \in Nat : Countdown(n) \in Nat /\ (n > 1 => Countdown(n) = n - 1)
BY DEF Countdown

LEMMA WriteType ==
    ASSUME NEW item \in Item, NEW n \in Nat
    PROVE  /\ Claimed(item) \in Item
           /\ Committed(item, n) \in Item
           /\ Rejected(item, n) \in Item
           /\ Registered \in Item
BY BackoffType, TimesAssumption
   DEF Item, Status, Claimed, Committed, Rejected, Registered

LEMMA IdleType == \A d \in Domain : Idle(d) \in Execution
BY DEF Idle, Execution, RunPc

LEMMA CrawlInitType == StoreInit /\ CrawlInit => TypeOK
<1>1. StoreInit => StoreTypeOK
  BY DEF StoreInit, Unregistered, StoreTypeOK, Item, Status, Object, Author
<1>2. CrawlInit => CrawlTypeOK
  BY IdleType DEF CrawlInit, CrawlTypeOK
<1>. QED BY <1>1, <1>2 DEF TypeOK

LEMMA CrawlStartType == CrawlStart => TypeOK
<1>1. Unregistered \in Item
  BY DEF Unregistered, Item, Status
<1>2. Committed(Unregistered, 1) \in Item
  BY <1>1, WriteType
<1>3. FoundStores => StoreTypeOK
  BY <1>1, <1>2 DEF FoundStores, StoreTypeOK, Object, Author
<1>4. CrawlInit => CrawlTypeOK
  BY IdleType DEF CrawlInit, CrawlTypeOK
<1>. QED BY <1>3, <1>4 DEF CrawlStart, TypeOK

LEMMA BecomeType ==
    ASSUME run \in [Run -> Execution], NEW r \in Run, NEW e \in Execution,
           Become(r, e)
    PROVE  run' \in [Run -> Execution]
BY DEF Become

LEMMA EndType ==
    ASSUME run \in [Run -> Execution], NEW r \in Run, End(r)
    PROVE  run' \in [Run -> Execution]
<1>1. Idle(run[r].domain) \in Execution
  BY IdleType DEF Execution
<1>. QED BY <1>1, BecomeType DEF End

LEMMA UnansweredType ==
    ASSUME run \in [Run -> Execution], NEW r \in Run, Unanswered(r)
    PROVE  run' \in [Run -> Execution]
<1>1. [run[r] EXCEPT !.pc = "crawled", !.tries = run[r].tries + 1,
                     !.read = 0, !.version = 0] \in Execution
  <2>1. run[r] \in Execution
    OBVIOUS
  <2>2. run[r].tries + 1 \in Nat
    BY <2>1 DEF Execution
  <2>. QED BY <2>1, <2>2 DEF Execution, RunPc
<1>. QED BY <1>1, BecomeType DEF Unanswered

(* Every step of a crawl keeps the types.                                  *)
LEMMA CrawlStepType == TypeOK /\ [CrawlNext]_crawlSysVars => TypeOK'
<1>. SUFFICES ASSUME TypeOK, [CrawlNext]_crawlSysVars PROVE TypeOK'
  OBVIOUS
<1>. USE DEF TypeOK, StoreTypeOK, CrawlTypeOK
<1>1. ASSUME NEW d \in Domain, RegisterCheck(d) PROVE TypeOK'
  BY <1>1 DEF RegisterCheck, storeVars
<1>2. ASSUME NEW d \in Domain, RegisterPut(d) PROVE TypeOK'
  <2>1. Registered \in Item
    BY DEF Registered, Item, Status
  <2>. QED BY <1>2, <2>1 DEF RegisterPut
<1>3. ASSUME NEW r \in Run PROVE run[r] \in Execution
  BY <1>3
<1>4. ASSUME NEW r \in Run, NEW d \in Seeds, BootstrapSeed(r, d)
      PROVE  TypeOK'
  <2>0. MaxRetry \in Nat /\ d \in Domain
    BY CrawlAssumption
  <2>1. [Idle(d) EXCEPT !.pc = "crawled", !.tries = MaxRetry] \in Execution
    BY <2>0 DEF Idle, Execution, RunPc
  <2>. QED BY <1>4, <2>1, BecomeType DEF BootstrapSeed, storeVars
<1>5. ASSUME NEW r \in Run, PickStep(r) PROVE TypeOK'
  <2>1. ASSUME NEW d \in Domain, PickDue(r, d) PROVE TypeOK'
    <3>. DEFINE e == [Idle(d) EXCEPT !.pc = "picked"]
                b == [Idle(d) EXCEPT !.pc = "bare"]
    <3>1. e \in Execution /\ b \in Execution
      BY IdleType DEF Idle, Execution, RunPc
    <3>2. /\ Become(r, e) \/ Become(r, b)
          /\ UNCHANGED <<storeVars, registering>>
          /\ picks' = picks + 1
      BY <2>1 DEF PickDue
    <3>. HIDE DEF e, b
    <3>. QED BY <3>1, <3>2, BecomeType DEF storeVars
  <2>2. CASE ClaimWon(r)
    <3>1. [run[r] EXCEPT !.pc = "claimed", !.lease = LEASE] \in Execution
      BY <1>3, TimesAssumption DEF Execution, RunPc
    <3>2. Claimed(index[run[r].domain]) \in Item
      BY <1>3, WriteType DEF Execution
    <3>. QED BY <2>2, <3>1, <3>2, BecomeType DEF ClaimWon
  <2>3. CASE ClaimBare(r)
    <3>1. Claimed(index[run[r].domain]) \in Item
      BY <1>3, WriteType DEF Execution
    <3>. QED BY <2>3, <3>1, EndType DEF ClaimBare
  <2>4. CASE ClaimLost(r)
    BY <2>4, EndType DEF ClaimLost, storeVars
  <2>. QED BY <1>5, <2>1, <2>2, <2>3, <2>4 DEF PickStep
<1>6. ASSUME NEW r \in Run, StoreStep(r) PROVE TypeOK'
  <2>0. Answered(r) => run' \in [Run -> Execution]
    BY EndType, UnansweredType DEF Answered
  <2>1. CASE Crawl(r)
    <3>1. [run[r] EXCEPT !.pc = "crawled"] \in Execution
      BY <1>3 DEF Execution, RunPc
    <3>. QED BY <2>1, <3>1, BecomeType DEF Crawl, storeVars
  <2>2. CASE RejectRead(r)
    <3>1. ItemOf(r).attempts \in Nat
      BY <1>3 DEF ItemOf, Item, Execution
    <3>2. [run[r] EXCEPT !.pc = "rejecting", !.read = ItemOf(r).attempts]
            \in Execution
      BY <1>3, <3>1 DEF Execution, RunPc
    <3>. QED BY <2>2, <3>2, BecomeType DEF RejectRead, storeVars
  <2>3. CASE RejectWrite(r)
    <3>1. Rejected(index[run[r].domain], run[r].read + 1) \in Item
      <4>1. run[r].read + 1 \in Nat /\ index[run[r].domain] \in Item
        BY <1>3 DEF Execution
      <4>. QED BY <4>1, WriteType
    <3>. QED BY <2>0, <2>3, <3>1 DEF RejectWrite
  <2>4. CASE Put(r)
    <3>1. run[r].domain \in Domain /\ NewVersion(run[r].domain) \in Nat
      BY <1>3 DEF NewVersion, Object, Execution
    <3>2. [run[r] EXCEPT !.pc = "put",
                         !.version = NewVersion(run[r].domain)] \in Execution
      BY <1>3, <3>1 DEF Execution, RunPc
    <3>3. run' \in [Run -> Execution]
      BY <2>4, <3>2, BecomeType DEF Put
    <3>4. object' \in [Domain -> Object]
      BY <2>4, <3>1, CoverageAssumption DEF Put, PutBody, Object, Author
    <3>. QED BY <2>4, <3>3, <3>4 DEF Put
  <2>5. CASE Commit(r)
    <3>1. Committed(index[run[r].domain], run[r].version) \in Item
      <4>1. run[r].version \in Nat /\ index[run[r].domain] \in Item
        BY <1>3 DEF Execution
      <4>. QED BY <4>1, WriteType
    <3>. QED BY <2>0, <2>5, <3>1 DEF Commit
  <2>. QED BY <1>6, <2>1, <2>2, <2>3, <2>4, <2>5 DEF StoreStep
<1>7. ASSUME NEW r \in LostReplies, Reinvoke(r) PROVE TypeOK'
  <2>1. r \in Run
    BY CrawlAssumption
  <2>. QED BY <1>7, <2>1, UnansweredType DEF Reinvoke, storeVars
<1>8. ASSUME NEW r \in Run, Fail(r) PROVE TypeOK'
  BY <1>8, EndType DEF Fail, storeVars
<1>9. CASE Tick
  <2>1. \A d \in Domain :
          [index[d] EXCEPT !.wait = Countdown(index[d].wait)] \in Item
    <3>. SUFFICES ASSUME NEW d \in Domain
                  PROVE  [index[d] EXCEPT !.wait = Countdown(index[d].wait)]
                           \in Item
      OBVIOUS
    <3>1. index[d] \in Item /\ Countdown(index[d].wait) \in Nat
      BY CountdownType DEF Item
    <3>. QED BY <3>1 DEF Item
  <2>2. \A r \in Run :
          [run[r] EXCEPT !.lease = Countdown(run[r].lease)] \in Execution
    <3>. SUFFICES ASSUME NEW r \in Run
                  PROVE  [run[r] EXCEPT !.lease = Countdown(run[r].lease)]
                           \in Execution
      OBVIOUS
    <3>1. run[r] \in Execution /\ Countdown(run[r].lease) \in Nat
      BY <1>3, CountdownType DEF Execution
    <3>. QED BY <3>1 DEF Execution
  <2>. QED BY <1>9, <2>1, <2>2 DEF Tick, TickIndex
<1>10. CASE UNCHANGED crawlSysVars
  BY <1>10 DEF crawlSysVars, storeVars, crawlVars
<1>. QED
  BY <1>1, <1>2, <1>4, <1>5, <1>6, <1>7, <1>8, <1>9, <1>10
     DEF CrawlNext, Register

(* The crawl's type invariant.                                             *)
THEOREM CrawlTyped == CrawlSpec => []TypeOK
BY CrawlStartType, CrawlStepType, PTL DEF CrawlSpec

-----------------------------------------------------------------------------
(* Exclusive leases.                                                       *)

(* What the schedule is run under: no execution outlives its lease, no     *)
(* task is retried after it took effect, and the seeds are bootstrapped    *)
(* before the schedule is on.                                              *)
OnTime == ~LateRuns /\ LostReplies = {} /\ Seeds = {}

(* A working execution is the one its domain's item waits for.             *)
Holds(r) ==
    /\ run[r].lease > 0
    /\ index[run[r].domain].status = "crawling"
    /\ index[run[r].domain].wait = run[r].lease
    /\ run[r].pc = "rejecting" => run[r].read = index[run[r].domain].attempts

HoldersApart ==
    \A r, s \in Run :
      r # s /\ Working(r) /\ Working(s) => run[r].domain # run[s].domain

AbsentFresh ==
    /\ \A d \in Domain : index[d].status = "absent" => index[d].attempts = 0
    /\ \A d \in registering : index[d].status = "absent"

LeaseInv ==
    /\ \A r \in Run : Working(r) => Holds(r)
    /\ HoldersApart
    /\ AbsentFresh

LEMMA LeaseInit == CrawlStart => LeaseInv
<1>1. ASSUME CrawlStart, NEW d \in Domain
      PROVE  index[d].attempts = 0
  BY <1>1 DEF CrawlStart, FoundStores, Committed, Unregistered
<1>2. ASSUME CrawlStart, NEW r \in Run PROVE ~Working(r)
  BY <1>2 DEF CrawlStart, CrawlInit, Working, Idle
<1>. QED
  BY <1>1, <1>2 DEF CrawlStart, CrawlInit, LeaseInv, HoldersApart,
                    AbsentFresh

(* Where an execution comes to rest or only looks, nothing is disturbed.   *)
LEMMA LeaseQuiet ==
    ASSUME TypeOK, LeaseInv, NEW r \in Run, NEW e \in Execution,
           Become(r, e), index' = index, registering' = registering,
           e.pc \in {"claimed", "crawled", "rejecting", "put"}
             => /\ Working(r)
                /\ e.domain = run[r].domain
                /\ e.lease = run[r].lease
                /\ e.pc = "rejecting" => e.read = index[e.domain].attempts
    PROVE  LeaseInv'
BY DEF TypeOK, StoreTypeOK, CrawlTypeOK, LeaseInv, Holds, HoldersApart,
       AbsentFresh, Working, Become

(* An execution that has finished leaves its domain's item to anyone.      *)
LEMMA LeaseRelease ==
    ASSUME TypeOK, LeaseInv, NEW r \in Run, NEW i \in Item,
           Working(r), End(r), i.status # "absent",
           index' = [index EXCEPT ![run[r].domain] = i],
           registering' = registering
    PROVE  LeaseInv'
<1>1. run[r].domain \in Domain
  BY DEF TypeOK, CrawlTypeOK, Execution
<1>2. run' = [run EXCEPT ![r] = Idle(run[r].domain)]
  BY DEF End, Become
<1>3. ~Working(r)' /\ \A s \in Run \ {r} : run'[s] = run[s]
  BY <1>2 DEF TypeOK, CrawlTypeOK, Working, Idle
<1>4. \A s \in Run \ {r} :
        Working(s) => index'[run[s].domain] = index[run[s].domain]
  BY DEF LeaseInv, HoldersApart, TypeOK, StoreTypeOK, CrawlTypeOK, Execution
<1>5. AbsentFresh'
  BY <1>1 DEF LeaseInv, AbsentFresh, TypeOK, StoreTypeOK, CrawlTypeOK, Holds
<1>. QED
  BY <1>3, <1>4, <1>5 DEF LeaseInv, Holds, HoldersApart, Working

LEMMA LeaseStep ==
    ASSUME OnTime, TypeOK, LeaseInv, [CrawlNext]_crawlSysVars
    PROVE  LeaseInv'
<1>. USE DEF OnTime
<1>0. ASSUME NEW r \in Run
      PROVE  /\ run[r] \in Execution
             /\ run[r].domain \in Domain
             /\ Idle(run[r].domain) \in Execution
             /\ Idle(run[r].domain).pc = "idle"
  BY <1>0, IdleType DEF TypeOK, CrawlTypeOK, Execution, Idle
<1>1. ASSUME NEW d \in Domain, RegisterCheck(d) PROVE LeaseInv'
  BY <1>1 DEF RegisterCheck, storeVars, LeaseInv, Holds, HoldersApart,
              AbsentFresh, Working
<1>2. ASSUME NEW d \in Domain, RegisterPut(d) PROVE LeaseInv'
  <2>1. index[d].status = "absent"
    BY <1>2 DEF RegisterPut, LeaseInv, AbsentFresh
  <2>2. \A s \in Run :
          Working(s) => index'[run[s].domain] = index[run[s].domain]
    BY <1>0, <1>2, <2>1
       DEF RegisterPut, LeaseInv, Holds, TypeOK, StoreTypeOK
  <2>3. AbsentFresh'
    BY <1>2 DEF RegisterPut, LeaseInv, AbsentFresh, TypeOK, StoreTypeOK,
                Registered
  <2>. QED BY <1>2, <2>2, <2>3
           DEF RegisterPut, LeaseInv, Holds, HoldersApart, Working
<1>3. ASSUME NEW r \in Run, NEW d \in Seeds, BootstrapSeed(r, d)
      PROVE  FALSE
  BY <1>3 DEF BootstrapSeed
<1>4. ASSUME NEW r \in Run, PickStep(r) PROVE LeaseInv'
  <2>1. ASSUME NEW d \in Domain, PickDue(r, d) PROVE LeaseInv'
    <3>. DEFINE e == [Idle(d) EXCEPT !.pc = "picked"]
                b == [Idle(d) EXCEPT !.pc = "bare"]
    <3>1. /\ e \in Execution /\ e.pc = "picked"
          /\ b \in Execution /\ b.pc = "bare"
      BY IdleType DEF Idle, Execution, RunPc
    <3>2. /\ Become(r, e) \/ Become(r, b)
          /\ index' = index /\ registering' = registering
      BY <2>1 DEF PickDue, storeVars
    <3>. HIDE DEF e, b
    <3>. QED BY <3>1, <3>2, LeaseQuiet
  <2>2. ASSUME Claimable(ItemOf(r)),
               index' = [index EXCEPT ![run[r].domain] = Claimed(@)],
               registering' = registering, ~Working(r),
               \A s \in Run \ {r} : run'[s] = run[s]
        PROVE  /\ AbsentFresh'
               /\ \A s \in Run \ {r} :
                    Working(s) => /\ Holds(s)'
                                  /\ run[s].domain # run[r].domain
    <3>1. index[run[r].domain] \in Item /\ run[r].domain \in Domain
      BY <1>0 DEF TypeOK, StoreTypeOK
    <3>2. AbsentFresh'
      BY <2>2, <3>1 DEF LeaseInv, AbsentFresh, TypeOK, StoreTypeOK,
                        Claimed, Item, Claimable, ItemOf
    <3>3. ASSUME NEW s \in Run \ {r}, Working(s)
          PROVE  run[s].domain # run[r].domain
      BY <2>2, <3>3 DEF LeaseInv, Holds, Claimable, ItemOf
    <3>. QED BY <1>0, <2>2, <3>2, <3>3
             DEF LeaseInv, Holds, TypeOK, StoreTypeOK
  <2>3. CASE ClaimWon(r)
    <3>1. run'[r] = [run[r] EXCEPT !.pc = "claimed", !.lease = LEASE]
          /\ \A s \in Run \ {r} : run'[s] = run[s]
      BY <2>3 DEF ClaimWon, Become, TypeOK, CrawlTypeOK
    <3>2. /\ run'[r].pc = "claimed" /\ run'[r].lease = LEASE
          /\ run'[r].domain = run[r].domain
      BY <1>0, <3>1 DEF Execution
    <3>3. Holds(r)'
      <4>1. index'[run[r].domain] = Claimed(index[run[r].domain])
        BY <1>0, <2>3 DEF ClaimWon, TypeOK, StoreTypeOK
      <4>2. index[run[r].domain] \in Item
        BY <1>0 DEF TypeOK, StoreTypeOK
      <4>. QED BY <3>2, <4>1, <4>2, TimesAssumption DEF Holds, Claimed, Item
    <3>4. /\ AbsentFresh'
          /\ \A s \in Run \ {r} :
               Working(s) => Holds(s)' /\ run[s].domain # run[r].domain
      BY <2>2, <2>3, <3>1 DEF ClaimWon, Working
    <3>5. \A s \in Run : Working(s)' => s = r \/ Working(s)
      BY <3>1 DEF Working
    <3>6. HoldersApart'
      <4>. SUFFICES ASSUME NEW s \in Run, NEW t \in Run, s # t,
                           Working(s)', Working(t)'
                    PROVE  run'[s].domain # run'[t].domain
        BY DEF HoldersApart
      <4>1. CASE s = r
        BY <3>1, <3>2, <3>4, <3>5, <4>1
      <4>2. CASE t = r
        BY <3>1, <3>2, <3>4, <3>5, <4>2
      <4>3. CASE s # r /\ t # r
        <5>1. run'[s] = run[s] /\ run'[t] = run[t]
          BY <3>1, <4>3
        <5>2. Working(s) /\ Working(t)
          BY <3>5, <4>3
        <5>. QED BY <5>1, <5>2 DEF LeaseInv, HoldersApart
      <4>. QED BY <4>1, <4>2, <4>3
    <3>7. \A s \in Run : Working(s)' => Holds(s)'
      BY <3>3, <3>4, <3>5
    <3>. QED BY <3>4, <3>6, <3>7 DEF LeaseInv
  <2>4. CASE ClaimBare(r)
    <3>1. run'[r].pc = "idle" /\ \A s \in Run \ {r} : run'[s] = run[s]
      BY <1>0, <2>4 DEF ClaimBare, End, Become, TypeOK, CrawlTypeOK
    <3>2. /\ AbsentFresh'
          /\ \A s \in Run \ {r} :
               Working(s) => Holds(s)' /\ run[s].domain # run[r].domain
      BY <2>2, <2>4, <3>1 DEF ClaimBare, Working
    <3>. QED BY <3>1, <3>2 DEF LeaseInv, HoldersApart, Working
  <2>5. CASE ClaimLost(r)
    BY <1>0, <2>5, LeaseQuiet DEF ClaimLost, End, storeVars
  <2>. QED BY <1>4, <2>1, <2>3, <2>4, <2>5 DEF PickStep
<1>5. ASSUME NEW r \in Run, StoreStep(r) PROVE LeaseInv'
  <2>0. Answered(r) => End(r)
    BY DEF Answered, Unanswered
  <2>1. CASE Crawl(r)
    <3>. DEFINE e == [run[r] EXCEPT !.pc = "crawled"]
    <3>1. /\ e \in Execution /\ e.pc = "crawled"
          /\ e.domain = run[r].domain /\ e.lease = run[r].lease
      BY <1>0 DEF Execution, RunPc
    <3>2. /\ Working(r) /\ Become(r, e)
          /\ index' = index /\ registering' = registering
      BY <2>1 DEF Crawl, Working, storeVars
    <3>. HIDE DEF e
    <3>. QED BY <3>1, <3>2, LeaseQuiet
  <2>2. CASE RejectRead(r)
    <3>. DEFINE e == [run[r] EXCEPT !.pc = "rejecting",
                                    !.read = ItemOf(r).attempts]
    <3>1. /\ e \in Execution /\ e.pc = "rejecting"
          /\ e.domain = run[r].domain /\ e.lease = run[r].lease
          /\ e.read = index[e.domain].attempts
      BY <1>0 DEF Execution, RunPc, ItemOf, TypeOK, StoreTypeOK, Item
    <3>2. /\ Working(r) /\ Become(r, e)
          /\ index' = index /\ registering' = registering
      BY <2>2 DEF RejectRead, Working, storeVars
    <3>. HIDE DEF e
    <3>. QED BY <3>1, <3>2, LeaseQuiet
  <2>3. CASE RejectWrite(r)
    <3>. DEFINE i == Rejected(index[run[r].domain], run[r].read + 1)
    <3>1. index[run[r].domain] \in Item /\ run[r].read + 1 \in Nat
      BY <1>0 DEF TypeOK, StoreTypeOK, Execution
    <3>2. i \in Item
      BY <3>1, WriteType
    <3>3. i.status # "absent"
      BY <3>1 DEF Rejected, Item
    <3>4. /\ Working(r) /\ End(r) /\ registering' = registering
          /\ index' = [index EXCEPT ![run[r].domain] = i]
      BY <2>0, <2>3 DEF RejectWrite, Working
    <3>. HIDE DEF i
    <3>. QED BY <3>2, <3>3, <3>4, LeaseRelease
  <2>4. CASE Put(r)
    <3>. DEFINE e == [run[r] EXCEPT !.pc = "put",
                                    !.version = NewVersion(run[r].domain)]
    <3>1. NewVersion(run[r].domain) \in Nat
      BY <1>0 DEF NewVersion, TypeOK, StoreTypeOK, Object
    <3>2. /\ e \in Execution /\ e.pc = "put"
          /\ e.domain = run[r].domain /\ e.lease = run[r].lease
      BY <1>0, <3>1 DEF Execution, RunPc
    <3>3. /\ Working(r) /\ Become(r, e)
          /\ index' = index /\ registering' = registering
      BY <2>4 DEF Put, Working
    <3>. HIDE DEF e
    <3>. QED BY <3>2, <3>3, LeaseQuiet
  <2>5. CASE Commit(r)
    <3>. DEFINE i == Committed(index[run[r].domain], run[r].version)
    <3>1. index[run[r].domain] \in Item /\ run[r].version \in Nat
      BY <1>0 DEF TypeOK, StoreTypeOK, Execution
    <3>2. i \in Item
      BY <3>1, WriteType
    <3>3. i.status # "absent"
      BY <3>1 DEF Committed, Item
    <3>4. /\ Working(r) /\ End(r) /\ registering' = registering
          /\ index' = [index EXCEPT ![run[r].domain] = i]
      BY <2>0, <2>5 DEF Commit, Working
    <3>. HIDE DEF i
    <3>. QED BY <3>2, <3>3, <3>4, LeaseRelease
  <2>. QED BY <1>5, <2>1, <2>2, <2>3, <2>4, <2>5 DEF StoreStep
<1>6. ASSUME NEW r \in LostReplies, Reinvoke(r) PROVE FALSE
  BY <1>6 DEF Reinvoke, Unanswered
<1>7. ASSUME NEW r \in Run, Fail(r) PROVE LeaseInv'
  BY <1>0, <1>7, LeaseQuiet DEF Fail, End, storeVars
<1>8. CASE Tick
  <2>1. \A d \in Domain :
          /\ index'[d].status = index[d].status
          /\ index'[d].attempts = index[d].attempts
          /\ index'[d].wait = Countdown(index[d].wait)
    BY <1>8 DEF Tick, TickIndex, TypeOK, StoreTypeOK, Item
  <2>2. \A r \in Run :
          /\ run'[r].pc = run[r].pc /\ run'[r].domain = run[r].domain
          /\ run'[r].read = run[r].read
          /\ run'[r].lease = Countdown(run[r].lease)
    BY <1>8 DEF Tick, TypeOK, CrawlTypeOK, Execution
  <2>3. \A r \in Run : Working(r) => run[r].lease > 1
    BY <1>8 DEF Tick, InTime, LeaseInv, Holds
  <2>4. ASSUME NEW r \in Run, Working(r)' PROVE Holds(r)'
    <3>1. Working(r)
      BY <2>2, <2>4 DEF Working
    <3>2. Holds(r) /\ run[r].lease \in Nat /\ run[r].domain \in Domain
      BY <1>0, <3>1 DEF LeaseInv, Execution
    <3>. QED BY <2>1, <2>2, <2>3, <3>1, <3>2 DEF Holds, Countdown
  <2>5. HoldersApart'
    BY <2>2 DEF LeaseInv, HoldersApart, Working
  <2>6. AbsentFresh'
    BY <1>8, <2>1 DEF Tick, LeaseInv, AbsentFresh, TypeOK, CrawlTypeOK
  <2>. QED BY <2>4, <2>5, <2>6 DEF LeaseInv
<1>9. CASE UNCHANGED crawlSysVars
  BY <1>9 DEF crawlSysVars, storeVars, crawlVars, LeaseInv, Holds,
              HoldersApart, AbsentFresh, Working
<1>. QED
  BY <1>1, <1>2, <1>3, <1>4, <1>5, <1>6, <1>7, <1>8, <1>9
     DEF CrawlNext, Register

(* On time, the claims of index_store shut out concurrent work on a        *)
(* domain, however the query of the due-index and the claims interleave    *)
(* and wherever executions fail.                                           *)
THEOREM LeasesExclusive ==
  ASSUME OnTime PROVE CrawlSpec => []LeaseExclusive
<1>1. TypeOK /\ LeaseInv /\ [CrawlNext]_crawlSysVars => LeaseInv'
  BY LeaseStep
<1>2. LeaseInv => LeaseExclusive
  BY DEF LeaseInv, HoldersApart, LeaseExclusive
<1>. QED
  BY <1>1, <1>2, LeaseInit, CrawlTyped, PTL DEF CrawlSpec

(* On time, no rejection is lost: the `attempts` that reject writes back   *)
(* is one larger than the one it replaces, although another call separates *)
(* its read from its write.                                                *)
THEOREM RejectionsCount ==
  ASSUME OnTime PROVE CrawlSpec => RejectionCounts
<1>. DEFINE Counts == \A d \in Domain :
                        index'[d].attempts # index[d].attempts
                        => index'[d].attempts = index[d].attempts + 1
           Recorded == \A r \in Run :
                         run[r].pc = "rejecting" /\ run'[r].pc # "rejecting"
                         => \/ index' = index
                            \/ index'[run[r].domain].attempts
                                 = ItemOf(r).attempts + 1
<1>1. TypeOK /\ LeaseInv /\ [CrawlNext]_crawlSysVars => LeaseInv'
  BY LeaseStep
<1>2. ASSUME TypeOK, LeaseInv, CrawlNext PROVE Counts
  <2>1. ASSUME NEW d \in Domain, RegisterPut(d) PROVE Counts
    <3>1. index[d].attempts = 0
      BY <2>1, <1>2 DEF RegisterPut, LeaseInv, AbsentFresh
    <3>. QED BY <2>1, <3>1, <1>2
             DEF RegisterPut, Registered, TypeOK, StoreTypeOK
  <2>2. ASSUME NEW r \in Run, RejectWrite(r) PROVE Counts
    <3>1. run[r].read = index[run[r].domain].attempts
      BY <2>2, <1>2 DEF RejectWrite, Working, LeaseInv, Holds
    <3>. QED BY <2>2, <3>1, <1>2
             DEF RejectWrite, Rejected, TypeOK, StoreTypeOK, CrawlTypeOK,
                 Item, Execution
  <2>3. ASSUME NEW r \in Run, ClaimWon(r) \/ ClaimBare(r) \/ Commit(r)
        PROVE  Counts
    <3>1. /\ index \in [Domain -> Item] /\ run[r].domain \in Domain
          /\ run[r].version \in Nat
      BY <1>2 DEF TypeOK, StoreTypeOK, CrawlTypeOK, Execution
    <3>2. \A i \in Item, v \in Nat :
            /\ Claimed(i).attempts = i.attempts
            /\ Committed(i, v).attempts = i.attempts
      BY DEF Claimed, Committed, Item
    <3>3. \E i \in {Claimed(index[run[r].domain]),
                   Committed(index[run[r].domain], run[r].version)} :
            index' = [index EXCEPT ![run[r].domain] = i]
      BY <2>3 DEF ClaimWon, ClaimBare, Commit
    <3>. QED BY <3>1, <3>2, <3>3
  <2>4. CASE Tick
    BY <2>4, <1>2 DEF Tick, TickIndex, TypeOK, StoreTypeOK, Item
  <2>5. ASSUME index' = index PROVE Counts
    BY <2>5
  <2>. QED
    BY <1>2, <2>1, <2>2, <2>3, <2>4, <2>5
       DEF CrawlNext, Register, RegisterCheck, BootstrapSeed, PickStep,
           PickDue, ClaimLost, StoreStep, Crawl, RejectRead, Put, Reinvoke,
           Fail, storeVars
<1>3. ASSUME TypeOK, LeaseInv, CrawlNext PROVE Recorded
  <2>1. ASSUME NEW s \in Run, RejectWrite(s) PROVE Recorded
    <3>1. /\ run[s].read = index[run[s].domain].attempts
          /\ run[s].domain \in Domain
      BY <2>1, <1>3
         DEF RejectWrite, Working, LeaseInv, Holds, TypeOK, CrawlTypeOK,
             Execution
    <3>2. index'[run[s].domain].attempts = index[run[s].domain].attempts + 1
      BY <2>1, <3>1, <1>3
         DEF RejectWrite, Rejected, TypeOK, StoreTypeOK, Item
    <3>3. \A r \in Run : r # s => run'[r] = run[r]
      BY <2>1, <1>3
         DEF RejectWrite, Answered, Unanswered, End, Become, TypeOK,
             CrawlTypeOK
    <3>. QED BY <3>2, <3>3 DEF ItemOf
  <2>2. ASSUME NEW s \in Run, run[s].pc # "rejecting",
               \E e : Become(s, e)
        PROVE  Recorded
    BY <2>2, <1>3 DEF Become, TypeOK, CrawlTypeOK
  <2>3. ASSUME NEW s \in Run, StoreStep(s), ~RejectWrite(s) PROVE Recorded
    <3>1. run[s].pc # "rejecting" /\ (\E e : Become(s, e))
      BY <2>3 DEF StoreStep, Crawl, RejectRead, Put, Commit, Answered,
                  Unanswered, End
    <3>. QED BY <3>1, <2>2
  <2>4. ASSUME NEW s \in Run, PickStep(s) PROVE Recorded
    <3>1. run[s].pc # "rejecting" /\ (\E e : Become(s, e))
      BY <2>4 DEF PickStep, PickDue, ClaimWon, ClaimBare, ClaimLost, End
    <3>. QED BY <3>1, <2>2
  <2>5. CASE Tick
    BY <2>5, <1>3 DEF Tick, TypeOK, CrawlTypeOK, Execution
  <2>6. CASE Register
    BY <2>6 DEF Register, RegisterCheck, RegisterPut
  <2>7. ASSUME index' = index PROVE Recorded
    BY <2>7
  <2>. QED
    BY <1>3, <2>1, <2>3, <2>4, <2>5, <2>6, <2>7
       DEF CrawlNext, BootstrapSeed, Reinvoke, Fail, storeVars
<1>4. TypeOK /\ LeaseInv /\ [CrawlNext]_crawlSysVars
      => [Counts /\ Recorded]_crawlSysVars
  BY <1>2, <1>3
<1>. QED
  BY <1>1, <1>4, LeaseInit, CrawlTyped, PTL DEF CrawlSpec, RejectionCounts
=============================================================================
