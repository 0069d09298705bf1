----------------------------- MODULE MCChatAgent -----------------------------
(* A small instance of ChatAgent.                                          *)
EXTENDS ChatAgent

(* The optional slot comes first.                                          *)
MCRegistry == <<"hours", "name">>

(* The sample, as it is and with one thing the parser or the review looks  *)
(* for, each; the last states no confidence.                               *)
MCDocs ==
    {Sample,
     [Sample EXCEPT !.domain = "other"],
     [Sample EXCEPT !.category = "other"],
     [Sample EXCEPT !.orders = TRUE],
     [Sample EXCEPT !.boasts = TRUE, !.sources = FALSE],
     [Sample EXCEPT !.front = FALSE, !.confidence = "none"]}

(* Nothing known; a required slot that the list leaves out; an answer the  *)
(* mock guardrail objects to.                                              *)
MCRequests ==
    {[known |-> NoAnswers, missing |-> MCRegistry],
     [known |-> NoAnswers, missing |-> <<"hours">>],
     [known |-> [NoAnswers EXCEPT !["name"] = "private"],
      missing |-> <<"hours">>]}

(* Runs are alike.                                                         *)
Symmetry == Permutations(Run)
=============================================================================
