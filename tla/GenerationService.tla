------------------------- MODULE GenerationService --------------------------
(***************************************************************************)
(* What the generation agent promises the pipeline: a run reads the        *)
(* contract once; then it saves one filled page of a contract that was     *)
(* ready, or it saves nothing.                                             *)
(***************************************************************************)
EXTENDS ContentRules

VARIABLES
    ready,      \* is contract_final.json fit for generation?
    run,        \* the run: idle, called, or loaded
    page        \* the page of render_spec.json

vars == <<ready, run, page>>

NoPage == [h1 |-> FALSE, title |-> "none", ld |-> "none", supp |-> "none"]

Init ==
    /\ ready \in BOOLEAN
    /\ run = "idle"
    /\ page = NoPage

(* The chat agent replaces the contract, whatever the run does.            *)
Replace ==
    /\ ready' \in BOOLEAN
    /\ UNCHANGED <<run, page>>

Call == run = "idle" /\ run' = "called" /\ UNCHANGED <<ready, page>>

Load ==
    /\ run = "called"
    /\ ready
    /\ run' = "loaded"
    /\ UNCHANGED <<ready, page>>

Save ==
    /\ run = "loaded"
    /\ \E draft \in Page : page' = Fill(draft)
    /\ run' = "idle"
    /\ UNCHANGED ready

(* Skipped, rejected, or failed.                                           *)
GiveUp ==
    /\ run # "idle"
    /\ run' = "idle"
    /\ UNCHANGED <<ready, page>>

Next == Replace \/ Call \/ Load \/ Save \/ GiveUp

Spec == Init /\ [][Next]_vars
=============================================================================
