----------------------------- MODULE MCWikiCrawl -----------------------------
(* WikiCrawl for TLC: the delays in ticks, in the order the code has them  *)
(* (lease < 1 day < 3 days < 7 days < refresh < 30 days).                  *)
EXTENDS WikiCrawl

MCBackoff == <<2, 3, 4, 6>>
=============================================================================
