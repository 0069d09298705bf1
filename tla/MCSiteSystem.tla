---------------------------- MODULE MCSiteSystem -----------------------------
(* SiteSystem for TLC.  Executions are interchangeable.                    *)
EXTENDS SiteSystem, TLC

SiteSymmetry == Permutations(Exec) \cup Permutations(Prov)
=============================================================================
