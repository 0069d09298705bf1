--------------------------- MODULE MCSiteContent -----------------------------
(* Small instances of SiteContent.                                         *)
EXTENDS SiteContent, TLC

Answer(title, supp) ==
    [h1 |-> FALSE, title |-> title, ld |-> "other", supp |-> supp]

(* For executions that overlap: a page that needs one patch.               *)
OneDraft == {Answer("none", "none")}
GoodContract == {[ready |-> TRUE, unsupported |-> FALSE]}

(* For an execution that runs alone: what the rules tell apart.            *)
AllDrafts ==
    {Answer(title, supp) : title \in {"none", "blank", "text"},
                           supp \in {"none", "llms"}}
    \union {Answer("text", "some")}

Symmetry == Permutations(Thread) \union Permutations(Exec)
=============================================================================
