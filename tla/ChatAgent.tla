------------------------------ MODULE ChatAgent ------------------------------
(***************************************************************************)
(* The chat agent over one session: graph runs and session starts          *)
(* (ChatGraph), and turns that go on from what these checkpointed          *)
(* (GuardedReply).  Both store the site's contract.                        *)
(***************************************************************************)
EXTENDS ChatGraph, GuardedReply

vars == <<storeVars, calls, run, turn>>

Init == StoreInit /\ GraphInit /\ ReplyInit

Next ==
    \/ GraphNext /\ UNCHANGED turn
    \/ ReplyNext /\ UNCHANGED run

Spec == Init /\ [][Next]_vars

-----------------------------------------------------------------------------
(* Properties.                                                             *)

AgentTypeOK == StoreTypeOK /\ GraphTypeOK /\ ReplyTypeOK
=============================================================================
