------------------------------ MODULE WikiIndex ------------------------------
(***************************************************************************)
(* The two stores of the wiki and the single-call operations on them.      *)
(*                                                                         *)
(* index[d] is the DynamoDB item of domain d in hezo_wiki_index            *)
(* (agents/wiki/index_store.py); object[d] is the newest version of        *)
(* industries/{category}/{d}.md in the versioned bucket                    *)
(* (agents/wiki/storage.py).  One remote call is atomic; nothing spans     *)
(* two calls, which is what the modules that use these operators are       *)
(* about.                                                                  *)
(*                                                                         *)
(* Abstractions.  next_refresh_at is kept as `wait`, the ticks left until  *)
(* next_refresh_at <= now, so "due" is wait = 0.  A version id is the      *)
(* position of the version in the object's history; 0 stands for "no such  *)
(* attribute" in the index and for "no such key" in the bucket.  A body is *)
(* its author and its coverage (the sections and length that _is_shrink    *)
(* compares).  confidence, source_urls and last_updated are left out: no   *)
(* decision of the code reads them.                                        *)
(***************************************************************************)
EXTENDS Naturals

CONSTANTS
    Domain,     \* the catalog's domains
    Doc,        \* the supplement documents P1 may submit (reinforcement A)
    Coverage,   \* the coverages a body may have
    LEASE,      \* CRAWL_LEASE_SECONDS, in ticks
    REFRESH,    \* REFRESH_DAYS, in ticks
    Backoff     \* the retry delays in ticks; Backoff[4] is the default

ASSUME TimesAssumption ==
    /\ LEASE \in Nat \ {0}
    /\ REFRESH \in Nat \ {0}
    /\ Backoff \in [1..4 -> Nat \ {0}]

ASSUME CoverageAssumption == Coverage \subseteq Nat /\ Coverage # {}

VARIABLES
    index,      \* the index items
    object      \* the newest body of every domain

storeVars == <<index, object>>

Status == {"absent", "pending", "crawling", "done"}

Item ==
    [status: Status, wait: Nat, version: Nat, attempts: Nat,
     catalogued: BOOLEAN]

(* A body is written by a crawl or is the text of a supplement document.   *)
Author == Doc \cup {"crawl"}

Object == [version: Nat, author: Author, cov: Nat]

StoreTypeOK ==
    /\ index \in [Domain -> Item]
    /\ object \in [Domain -> Object]

Unregistered ==
    [status |-> "absent", wait |-> 0, version |-> 0, attempts |-> 0,
     catalogued |-> FALSE]

(* No item is registered and no body is stored before the first            *)
(* deployment.  The author and coverage of version 0 are never read.       *)
StoreInit ==
    /\ index = [d \in Domain |-> Unregistered]
    /\ object = [d \in Domain |->
                   [version |-> 0, author |-> "crawl", cov |-> 0]]

-----------------------------------------------------------------------------
(* Reads.                                                                  *)

(* due(status, ..): the items of the GSI partition whose time has come.    *)
Due(s) == {d \in Domain : index[d].status = s /\ index[d].wait = 0}

(* Mutant of Candidates: nobody falls back on an expired crawl.            *)
CandidatesNoFallback ==
    {d \in Due("pending") \cup Due("done") :
       index[d].status # "pending" => Due("pending") = {}}

(* The pick handler's order: pending, else expired done, else crawling     *)
(* whose lease ran out.                                                    *)
Candidates ==
    {d \in Due("pending") \cup Due("done") \cup Due("crawling") :
       /\ index[d].status # "pending" => Due("pending") = {}
       /\ index[d].status = "crawling" => Due("done") = {}}

BackoffAfter(n) == Backoff[IF n \in 1..3 THEN n ELSE 4]

(* Mutant of Claimable: the lease is not looked at.                        *)
ClaimableAnyway(item) == item.status # "absent"

(* claim's condition: the item exists, and it is not being crawled or the  *)
(* crawl's lease has run out.                                              *)
Claimable(item) ==
    /\ item.status # "absent"
    /\ item.status = "crawling" => item.wait = 0

(* Mutant of Unchanged: check_version is not passed on.                    *)
UnchangedAssumed(item, expected) == TRUE

(* commit's optional condition (check_version): the version read is still  *)
(* the one stored; expected = 0 is attribute_not_exists(latest_version).   *)
Unchanged(item, expected) == item.version = expected

-----------------------------------------------------------------------------
(* Writes: one update_item, put_item or put_object each.                   *)

(* Mutant of Claimed: a status that no query of the due-index asks for.    *)
ClaimedMisnamed(item) == [item EXCEPT !.status = "claimed", !.wait = LEASE]

Claimed(item) == [item EXCEPT !.status = "crawling", !.wait = LEASE]

Committed(item, v) ==
    [item EXCEPT !.status = "done", !.version = v, !.wait = REFRESH]

Rejected(item, n) ==
    [item EXCEPT !.status = "pending", !.attempts = n,
                 !.wait = BackoffAfter(n)]

(* put_item replaces the whole item, so an earlier latest_version is gone. *)
Registered ==
    [status |-> "pending", wait |-> 0, version |-> 0, attempts |-> 0,
     catalogued |-> TRUE]

(* put_object: a new newest version.                                       *)
NewVersion(d) == object[d].version + 1

PutBody(d, a, c) ==
    object' = [object EXCEPT ![d] =
                 [version |-> NewVersion(d), author |-> a, cov |-> c]]

(* One tick of the clock.                                                  *)
Countdown(n) == IF n = 0 THEN 0 ELSE n - 1

TickIndex ==
    index' = [d \in Domain |->
                [index[d] EXCEPT !.wait = Countdown(index[d].wait)]]

-----------------------------------------------------------------------------

(* An index item never names a body that is not in the bucket: the body is *)
(* put before the index is committed, so a done domain can always be read. *)
IndexNeverAhead ==
    \A d \in Domain :
      /\ index[d].version <= object[d].version
      /\ index[d].status = "done" => index[d].version > 0
=============================================================================
