----------------------------- MODULE MCChatTurn ------------------------------
(* Small instances of ChatTurn: a name, which the extractor reads, and a   *)
(* wine list, which it does not.                                           *)
EXTENDS ChatTurn, TLC

MCPlace == (Name :> 1) @@ [s \in Slot \ {Name} |-> 2]

(* The odd text is short, as a name all quotes, and no wine list; the word *)
(* makes no list either.                                                   *)
MCRefused == (Slot \ {Name}) \X (Short \union Word)

Symmetry == Permutations(Turn)
=============================================================================
