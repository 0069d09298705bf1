----------------------------- MODULE WikiSystem ------------------------------
(***************************************************************************)
(* The wiki as deployed: scheduled crawls (WikiCrawl) and reinforcements   *)
(* (WikiReinforce) over one index table and one bucket.                    *)
(***************************************************************************)
EXTENDS WikiCrawl, WikiReinforce

vars == <<storeVars, crawlVars, reinforceVars>>

Init == StoreInit /\ CrawlInit /\ ReinforceInit

Next ==
    \/ CrawlNext /\ UNCHANGED reinforceVars
    \/ ReinforceNext /\ UNCHANGED crawlVars

Spec == Init /\ [][Next]_vars

FairSpec == Spec /\ CrawlFairness /\ ReinforceFairness

SystemTypeOK == StoreTypeOK /\ CrawlTypeOK /\ ReinforceTypeOK
=============================================================================
