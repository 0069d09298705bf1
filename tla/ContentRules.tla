---------------------------- MODULE ContentRules -----------------------------
(***************************************************************************)
(* What the agents compute of a page: the generation agent's final fill,   *)
(* the build worker's renderer, the validation agent's rules and its       *)
(* patcher.  Of a page only what a blocking rule looks at is kept.         *)
(***************************************************************************)

CONSTANTS
    TemplateH1      \* has the template an h1 of its own (one has none)?

ASSUME RulesAssumption == TemplateH1 \in BOOLEAN

(* pages[0] of a render_spec and its supplementary_files: whether there is *)
(* text for the h1, seo.title, the JSON-LD (faq: with a FAQPage), and      *)
(* whether there are files beside llms.txt.                                *)
Page == [h1: BOOLEAN,
         title: {"none", "blank", "text"},
         ld: {"none", "other", "faq"},
         supp: {"none", "some", "llms"}]

(* An index.html.  Every template has a <title>.                           *)
Html == [h1: BOOLEAN, titled: BOOLEAN, ld: {"none", "other", "faq"}]

(* Mutant of Fill: a FAQPage is only put where there is no JSON-LD.        *)
FillMissing(p) ==
    [p EXCEPT !.h1 = TRUE,
              !.ld = IF p.ld = "none" THEN "faq" ELSE p.ld]

(* Step 6-pre of run_generation: the h1 falls back on the hero's, the      *)
(* FAQPage is made of the FAQ block, or of stock questions.                *)
Fill(p) == [p EXCEPT !.h1 = TRUE, !.ld = "faq"]

(* render: a title that is missing leaves the tag empty; an h1 is put even *)
(* where the template has no place for one; no template has JSON-LD.       *)
Render(p) ==
    [h1 |-> p.h1 \/ TemplateH1, titled |-> p.title = "text", ld |-> p.ld]

-----------------------------------------------------------------------------

(* The blocking rules.  MULTIPLE_H1 is left out: render keeps one h1, and  *)
(* no template has two.                                                    *)
Structural == {"NO_H1", "NO_JSONLD", "NO_FAQ_PAGE_JSONLD", "NO_LLMS_TXT",
               "NO_TITLE_TAG"}
Demands == {"UNSUPPORTED_FEATURE", "GENERATION_NOT_READY"}
Code == Structural \union Demands \union {"NO_HTML"}

(* check_layer3 on an index.html, next to llms.txt or not.                 *)
Broken(code, html, llms) ==
    \/ code = "NO_H1" /\ ~html.h1
    \/ code = "NO_JSONLD" /\ html.ld = "none"
    \/ code = "NO_FAQ_PAGE_JSONLD" /\ html.ld = "other"
    \/ code = "NO_LLMS_TXT" /\ ~llms
    \/ code = "NO_TITLE_TAG" /\ ~html.titled

Layer3(exists, html, llms) ==
    IF exists THEN {code \in Structural : Broken(code, html, llms)}
              ELSE {"NO_HTML"}

(* check_layer2 on the contract.                                           *)
Layer2(contract) ==
    {code \in Demands :
       \/ code = "UNSUPPORTED_FEATURE" /\ contract.unsupported
       \/ code = "GENERATION_NOT_READY" /\ ~contract.ready}

-----------------------------------------------------------------------------

(* The issues patch does something about: the contract's are beyond it, a  *)
(* title that is blank or an llms.txt that is there is left as it is.      *)
Applied(p, codes) ==
    {code \in codes :
       \/ code \in {"NO_H1", "NO_JSONLD", "NO_FAQ_PAGE_JSONLD"}
       \/ code = "NO_TITLE_TAG" /\ p.title = "none"
       \/ code = "NO_LLMS_TXT" /\ p.supp # "llms"}

(* Mutant of Patched: the title is put where render does not look.         *)
PatchedTitleAside(p, applied, ld) ==
    [h1    |-> p.h1 \/ "NO_H1" \in applied,
     title |-> p.title,
     ld    |-> IF applied \intersect {"NO_JSONLD", "NO_FAQ_PAGE_JSONLD"} # {}
               THEN ld ELSE p.ld,
     supp  |-> IF "NO_LLMS_TXT" \in applied THEN "llms" ELSE p.supp]

(* The page patch stores; ld is what the model's JSON-LD turns out to be.  *)
Patched(p, applied, ld) ==
    [h1    |-> p.h1 \/ "NO_H1" \in applied,
     title |-> IF "NO_TITLE_TAG" \in applied THEN "text" ELSE p.title,
     ld    |-> IF applied \intersect {"NO_JSONLD", "NO_FAQ_PAGE_JSONLD"} # {}
               THEN ld ELSE p.ld,
     supp  |-> IF "NO_LLMS_TXT" \in applied THEN "llms" ELSE p.supp]
=============================================================================
