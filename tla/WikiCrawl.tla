------------------------------ MODULE WikiCrawl ------------------------------
(***************************************************************************)
(* The scheduled crawl of the wiki: executions of                          *)
(* infra/step-functions/wiki_pipeline.json (Pick, Crawl, ReviewAndStore),  *)
(* the Lambda handlers they invoke, the clock that leases and back-offs    *)
(* run on, and the one-off initialisation of agents/wiki/initialize.py.    *)
(*                                                                         *)
(* Every remote call of a handler is an action of its own, so a run may be *)
(* overtaken between any two of them: between the query of the due-index   *)
(* and the claim, between reading `attempts` and writing it back, and      *)
(* between putting the body and committing the index.                      *)
(***************************************************************************)
EXTENDS WikiIndex

CONSTANTS
    Run,            \* executions of the state machine that may overlap
    Seeds,          \* the domains bootstrap_seeds generates without a claim
    MaxRetry,       \* Retry.MaxAttempts of the state machine's tasks
    MaxPicks,       \* bound: executions that find a domain to work on
    LateRuns,       \* may an execution outlive its lease?
    LostReplies     \* the executions whose tasks may be retried after they
                    \* took effect

ASSUME CrawlAssumption ==
    /\ Seeds \subseteq Domain
    /\ MaxRetry \in Nat
    /\ MaxPicks \in Nat
    /\ LateRuns \in BOOLEAN
    /\ LostReplies \subseteq Run

VARIABLES
    run,            \* the executions
    registering,    \* the domain register_catalog is about to put, or none
    picks           \* executions that found a domain so far

crawlVars == <<run, registering, picks>>
crawlSysVars == <<storeVars, crawlVars>>

(* idle      no execution, or one that ended                               *)
(* picked    Pick has read the due-index and not claimed yet               *)
(* bare      the same, on an item that lacks the catalog's attributes      *)
(* claimed   Pick returned; Crawl is running                               *)
(* crawled   the raw documents are stored; ReviewAndStore is running       *)
(* rejecting reject has read `attempts`                                    *)
(* put       the body is stored, the index is not committed                *)
RunPc == {"idle", "picked", "bare", "claimed", "crawled", "rejecting", "put"}

Execution ==
    [pc: RunPc, domain: Domain, lease: Nat, tries: Nat, read: Nat,
     version: Nat]

CrawlTypeOK ==
    /\ run \in [Run -> Execution]
    /\ registering \in SUBSET Domain
    /\ picks \in Nat

Idle(d) ==
    [pc |-> "idle", domain |-> d, lease |-> 0, tries |-> 0, read |-> 0,
     version |-> 0]

CrawlInit ==
    /\ \E d \in Domain : run = [r \in Run |-> Idle(d)]
    /\ registering = {}
    /\ picks = 0

Working(r) == run[r].pc \in {"claimed", "crawled", "rejecting", "put"}

ItemOf(r) == index[run[r].domain]

Become(r, e) == run' = [run EXCEPT ![r] = e]

End(r) == Become(r, Idle(run[r].domain))

-----------------------------------------------------------------------------
(* Initialisation: register_catalog gets each item and puts the absent     *)
(* ones; the get and the put are two calls.                                *)

RegisterCheck(d) ==
    /\ registering = {}
    /\ index[d].status = "absent"
    /\ registering' = {d}
    /\ UNCHANGED <<storeVars, run, picks>>

RegisterPut(d) ==
    /\ d \in registering
    /\ index' = [index EXCEPT ![d] = Registered]
    /\ registering' = {}
    /\ UNCHANGED <<object, run, picks>>

(* bootstrap_seeds collects and generates a registered seed with no claim. *)
BootstrapSeed(r, d) ==
    /\ run[r].pc = "idle"
    /\ index[d].status # "absent"
    /\ picks < MaxPicks
    /\ picks' = picks + 1
    /\ Become(r, [Idle(d) EXCEPT !.pc = "crawled", !.tries = MaxRetry])
    /\ UNCHANGED <<storeVars, registering>>

-----------------------------------------------------------------------------
(* Pick.                                                                   *)

(* The handler reads the due-index.  With no candidate it answers          *)
(* found = False and nothing changes.                                      *)
PickDue(r, d) ==
    /\ run[r].pc = "idle"
    /\ d \in Candidates
    /\ picks < MaxPicks
    /\ picks' = picks + 1
    /\ \/ /\ index[d].catalogued
          /\ Become(r, [Idle(d) EXCEPT !.pc = "picked"])
       \/ /\ ~index[d].catalogued
          /\ Become(r, [Idle(d) EXCEPT !.pc = "bare"])
    /\ UNCHANGED <<storeVars, registering>>

ClaimWon(r) ==
    /\ run[r].pc = "picked"
    /\ Claimable(ItemOf(r))
    /\ index' = [index EXCEPT ![run[r].domain] = Claimed(@)]
    /\ Become(r, [run[r] EXCEPT !.pc = "claimed", !.lease = LEASE])
    /\ UNCHANGED <<object, registering, picks>>

(* An item that only ever went through commit or reject has no `category`: *)
(* the handler claims it, then fails on reading that attribute.            *)
ClaimBare(r) ==
    /\ run[r].pc = "bare"
    /\ Claimable(ItemOf(r))
    /\ index' = [index EXCEPT ![run[r].domain] = Claimed(@)]
    /\ End(r)
    /\ UNCHANGED <<object, registering, picks>>

ClaimLost(r) ==
    /\ run[r].pc \in {"picked", "bare"}
    /\ ~Claimable(ItemOf(r))
    /\ End(r)
    /\ UNCHANGED <<storeVars, registering, picks>>

-----------------------------------------------------------------------------
(* Crawl and ReviewAndStore.                                               *)

Crawl(r) ==
    /\ run[r].pc = "claimed"
    /\ Become(r, [run[r] EXCEPT !.pc = "crawled"])
    /\ UNCHANGED <<storeVars, registering, picks>>

(* The handler ran to its end, and its reply arrived or was lost; a lost   *)
(* reply (Lambda.ServiceException) makes Step Functions invoke             *)
(* ReviewAndStore again.                                                   *)
Unanswered(r) ==
    /\ r \in LostReplies
    /\ run[r].tries < MaxRetry
    /\ Become(r, [run[r] EXCEPT !.pc = "crawled", !.tries = @ + 1,
                                !.read = 0, !.version = 0])

Answered(r) == End(r) \/ Unanswered(r)

(* Mutant of RejectRead: `attempts` is taken to be absent.                 *)
RejectReadNothing(r) ==
    /\ run[r].pc = "crawled"
    /\ Become(r, [run[r] EXCEPT !.pc = "rejecting", !.read = 0])
    /\ UNCHANGED <<storeVars, registering, picks>>

(* Generation, precheck or review fell short: reject reads `attempts` ...  *)
RejectRead(r) ==
    /\ run[r].pc = "crawled"
    /\ Become(r, [run[r] EXCEPT !.pc = "rejecting",
                                !.read = ItemOf(r).attempts])
    /\ UNCHANGED <<storeVars, registering, picks>>

(* ... and writes it back one larger.                                      *)
RejectWrite(r) ==
    /\ run[r].pc = "rejecting"
    /\ index' = [index EXCEPT
                   ![run[r].domain] = Rejected(@, run[r].read + 1)]
    /\ Answered(r)
    /\ UNCHANGED <<object, registering, picks>>

(* The review passed: save_industry_versioned puts the body ...            *)
Put(r) ==
    /\ run[r].pc = "crawled"
    /\ \E c \in Coverage : PutBody(run[r].domain, "crawl", c)
    /\ Become(r, [run[r] EXCEPT !.pc = "put",
                                !.version = NewVersion(run[r].domain)])
    /\ UNCHANGED <<index, registering, picks>>

(* ... and commits its version to the index, unconditionally.              *)
Commit(r) ==
    /\ run[r].pc = "put"
    /\ index' = [index EXCEPT
                   ![run[r].domain] = Committed(@, run[r].version)]
    /\ Answered(r)
    /\ UNCHANGED <<object, registering, picks>>

(* The same error while the handler is half way through.                   *)
Reinvoke(r) ==
    /\ run[r].pc \in {"rejecting", "put"}
    /\ Unanswered(r)
    /\ UNCHANGED <<storeVars, registering, picks>>

(* Any other error, at any task: Catch, PipelineFailed.  Nobody puts the   *)
(* domain back, its lease does.                                            *)
Fail(r) ==
    /\ run[r].pc # "idle"
    /\ End(r)
    /\ UNCHANGED <<storeVars, registering, picks>>

-----------------------------------------------------------------------------
(* The clock.  The code takes it that a run (two minutes at most, as       *)
(* measured) never outlives its lease (thirty minutes): ~LateRuns.         *)

InTime ==
    \A r \in Run : Working(r) /\ run[r].lease > 0 => run[r].lease > 1

Tick ==
    /\ LateRuns \/ InTime
    /\ TickIndex
    /\ run' = [r \in Run |->
                 [run[r] EXCEPT !.lease = Countdown(run[r].lease)]]
    /\ UNCHANGED <<object, registering, picks>>

-----------------------------------------------------------------------------

Register == \E d \in Domain : RegisterCheck(d) \/ RegisterPut(d)

PickStep(r) ==
    \/ \E d \in Domain : PickDue(r, d)
    \/ ClaimWon(r)
    \/ ClaimBare(r)
    \/ ClaimLost(r)

StoreStep(r) ==
    \/ Crawl(r)
    \/ RejectRead(r)
    \/ RejectWrite(r)
    \/ Put(r)
    \/ Commit(r)

CrawlNext ==
    \/ Register
    \/ \E r \in Run :
         \/ \E d \in Seeds : BootstrapSeed(r, d)
         \/ PickStep(r)
         \/ StoreStep(r)
         \/ Fail(r)
    \/ \E r \in LostReplies : Reinvoke(r)
    \/ Tick

(* The crawl by itself starts on stores in which a reinforcement may have  *)
(* put and committed the body of a domain that was never registered.       *)
FoundStores ==
    \E found \in SUBSET Domain :
      /\ index = [d \in Domain |->
                    IF d \in found THEN Committed(Unregistered, 1)
                                   ELSE Unregistered]
      /\ object = [d \in Domain |->
                     [version |-> IF d \in found THEN 1 ELSE 0,
                      author |-> "crawl", cov |-> 0]]

CrawlStart == FoundStores /\ CrawlInit

CrawlSpec == CrawlStart /\ [][CrawlNext]_crawlSysVars

(* The schedule keeps firing, an invoked handler keeps running, the clock  *)
(* keeps ticking.                                                          *)
CrawlFairness ==
    /\ WF_crawlSysVars(Register)
    /\ \A r \in Run : WF_crawlSysVars(PickStep(r) \/ StoreStep(r))
    /\ WF_crawlSysVars(Tick)

CrawlFairSpec == CrawlSpec /\ CrawlFairness

-----------------------------------------------------------------------------
(* Properties.                                                             *)

TypeOK == StoreTypeOK /\ CrawlTypeOK

(* Two executions never work on one domain at the same time while both     *)
(* hold a lease that has not run out: the claim of index_store shuts out   *)
(* duplicate and concurrent work.                                          *)
LeaseExclusive ==
    \A r, s \in Run :
      /\ r # s
      /\ Working(r) /\ run[r].lease > 0
      /\ Working(s) /\ run[s].lease > 0
      => run[r].domain # run[s].domain

(* A rejection counts: `attempts`, which sets the delay before the next    *)
(* try, grows by one with each, although reject reads it in one call and   *)
(* writes it back in another, and it changes in no other way.              *)
RejectionCounts ==
    [][/\ \A d \in Domain :
            index'[d].attempts # index[d].attempts
            => index'[d].attempts = index[d].attempts + 1
       /\ \A r \in Run :
            run[r].pc = "rejecting" /\ run'[r].pc # "rejecting"
            => \/ index' = index
               \/ index'[run[r].domain].attempts = ItemOf(r).attempts + 1
      ]_crawlSysVars

(* "The last fallback is the self-recovery of orphans stuck in crawling"   *)
(* (pick handler): a run that ends, in success or failure, releases the    *)
(* domain, and the lease releases it from a run that dies, so that a later *)
(* pick has it crawled.  Only the bound on picks may leave it there.  This *)
(* is of items with a category: one that only commit or reject made is     *)
(* claimed at every pick, each of which then fails (ClaimBare), and no     *)
(* number of picks releases it.                                            *)
Requeued ==
    \A d \in Domain :
      index[d].status = "crawling" /\ index[d].catalogued
        ~> (index[d].status # "crawling" \/ picks = MaxPicks)
=============================================================================
