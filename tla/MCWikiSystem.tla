---------------------------- MODULE MCWikiSystem -----------------------------
(* WikiSystem for TLC.  The order of the delays plays no part in what its   *)
(* runs check; they are kept short.                                        *)
EXTENDS WikiSystem, TLC

MCBackoff == <<1, 2, 2, 2>>

(* No document is told apart from another; for the safety run only.        *)
DocSymmetry == Permutations(Doc)
=============================================================================
