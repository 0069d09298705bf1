-------------------------- MODULE MCSpecGeneration --------------------------
(* A small instance of SpecGeneration.                                     *)
EXTENDS SpecGeneration

AllContracts ==
    {[ready |-> TRUE, template |-> t] : t \in {"wine", "tax", "other"}}
    \union {[ready |-> FALSE, template |-> "wine"]}

(* Everything the rules ask for; flawed and missing sections; an answer    *)
(* with nothing that can be used.                                          *)
Whole == [f \in Field |-> "model"]
SomeAnswers ==
    {Whole,
     [f \in Field |-> "none"],
     [f \in Field |-> IF f \in {"h1", "seo", "files"} THEN "poor" ELSE "model"],
     [f \in Field |-> IF f \in {"faq", "qa", "hero", "ids"} THEN "none"
                      ELSE "model"],
     [f \in Field |-> IF f \in {"h1", "h2", "seo"} THEN "none"
                      ELSE IF f = "ld" THEN "other"
                      ELSE IF f \in {"faq", "qa"} THEN "poor" ELSE "model"]}
=============================================================================
