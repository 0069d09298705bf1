---------------------------- MODULE WikiReinforce ----------------------------
(***************************************************************************)
(* Reinforcement A (agents/wiki/reinforce.py): a supplement document that  *)
(* the chat left under pending/ is compared with the stored body of its    *)
(* domain and, if it passes, stored in its place under optimistic          *)
(* concurrency control: read the index's version, read the body, put the   *)
(* new body, commit the index only if its version is still the one read,   *)
(* and otherwise start over, at most MAX_CAS_RETRY times.                  *)
(*                                                                         *)
(* One invocation per document; the Lambda service delivers the upload     *)
(* event again when an invocation dies.  The review's verdict is free, the *)
(* comparison with the stored body is not.                                 *)
(***************************************************************************)
EXTENDS WikiIndex

CONSTANTS
    MAX_CAS_RETRY,  \* rounds of the compare-and-save loop
    MaxRedeliver    \* further deliveries of an event whose handler died

ASSUME ReinforceAssumption ==
    /\ MAX_CAS_RETRY \in Nat \ {0}
    /\ MaxRedeliver \in Nat

VARIABLES
    call,           \* the invocation of every document
    pending         \* the documents whose pending/ object exists

reinforceVars == <<call, pending>>
reinforceSysVars == <<storeVars, reinforceVars>>

(* none       the document is not uploaded                                 *)
(* sent       uploaded, its event waits for delivery                       *)
(* looping    it passed the precheck and the review; top of the loop       *)
(* known      the index's version is read                                  *)
(* chosen     neither identical to the stored body nor smaller             *)
(* put        the body is stored, the index is not committed               *)
(* deciding   an outcome is reached, the pending object is to be deleted   *)
(* over       returned                                                     *)
(* lost       no delivery is left                                          *)
CallPc == {"none", "sent", "looping", "known", "chosen", "put", "deciding",
           "over", "lost"}

Stage == {"none", "refused", "no_change", "shrink", "committed", "conflict"}

Invocation ==
    [pc: CallPc, domain: Domain, cov: Coverage, expected: Nat,
     compared: Nat, version: Nat, rounds: Nat, redelivered: Nat,
     stage: Stage]

ReinforceTypeOK ==
    /\ call \in [Doc -> Invocation]
    /\ pending \in SUBSET Doc

(* What each document is about and how much it covers is up to its author. *)
ReinforceInit ==
    /\ call \in [Doc -> [pc: {"none"}, domain: Domain, cov: Coverage,
                         expected: {0}, compared: {0}, version: {0},
                         rounds: {0}, redelivered: {0}, stage: {"none"}]]
    /\ pending = {}

ObjectOf(x) == object[call[x].domain]

(* _norm(p1_body) == _norm(existing_body)                                  *)
Identical(x) == ObjectOf(x).author = x

(* _is_shrink                                                              *)
Shrinks(x) == call[x].cov < ObjectOf(x).cov

Turn(x, c) == call' = [call EXCEPT ![x] = c]

(* What a round read and wrote is forgotten when the round is over.        *)
Forget(c) == [c EXCEPT !.expected = 0, !.compared = 0, !.version = 0,
                       !.rounds = 0]

Decide(x, stage) ==
    Turn(x, [Forget(call[x]) EXCEPT !.pc = "deciding", !.stage = stage])

-----------------------------------------------------------------------------

Upload(x) ==
    /\ call[x].pc = "none"
    /\ pending' = pending \cup {x}
    /\ Turn(x, [call[x] EXCEPT !.pc = "sent"])
    /\ UNCHANGED storeVars

(* The document is read; precheck and review pass.                         *)
Accept(x) ==
    /\ call[x].pc = "sent"
    /\ x \in pending
    /\ Turn(x, [call[x] EXCEPT !.pc = "looping"])
    /\ UNCHANGED <<storeVars, pending>>

(* An unknown domain, a failed precheck or a failed review.                *)
Refuse(x) ==
    /\ call[x].pc = "sent"
    /\ x \in pending
    /\ Decide(x, "refused")
    /\ UNCHANGED <<storeVars, pending>>

(* The pending object is gone: an earlier delivery had deleted it before   *)
(* it died; reading it raises, in this delivery and in any further one.    *)
ReadGone(x) ==
    /\ call[x].pc = "sent"
    /\ x \notin pending
    /\ Turn(x, [call[x] EXCEPT !.pc = "lost"])
    /\ UNCHANGED <<storeVars, pending>>

(* Nothing is stored yet: there is nothing to compare with, and the commit *)
(* will insist that the index names no version.                            *)
FindNothing(x) ==
    /\ call[x].pc = "looping"
    /\ ObjectOf(x).version = 0
    /\ Turn(x, [call[x] EXCEPT !.pc = "chosen", !.expected = 0,
                              !.compared = 0])
    /\ UNCHANGED <<storeVars, pending>>

(* Otherwise the index's version is read first ...                         *)
ReadVersion(x) ==
    /\ call[x].pc = "looping"
    /\ ObjectOf(x).version > 0
    /\ Turn(x, [call[x] EXCEPT !.pc = "known",
                              !.expected = index[call[x].domain].version])
    /\ UNCHANGED <<storeVars, pending>>

(* ... and then the body, which decides.                                   *)
Compare(x) ==
    /\ call[x].pc = "known"
    /\ \/ /\ Identical(x)
          /\ Decide(x, "no_change")
       \/ /\ ~Identical(x)
          /\ Shrinks(x)
          /\ Decide(x, "shrink")
       \/ /\ ~Identical(x)
          /\ ~Shrinks(x)
          /\ Turn(x, [call[x] EXCEPT !.pc = "chosen",
                                    !.compared = ObjectOf(x).version])
    /\ UNCHANGED <<storeVars, pending>>

(* Mutant of Save: the index is committed although nothing was put.        *)
SaveNothing(x) ==
    /\ call[x].pc = "chosen"
    /\ Turn(x, [call[x] EXCEPT !.pc = "put",
                              !.version = NewVersion(call[x].domain)])
    /\ UNCHANGED <<storeVars, pending>>

Save(x) ==
    /\ call[x].pc = "chosen"
    /\ PutBody(call[x].domain, x, call[x].cov)
    /\ Turn(x, [call[x] EXCEPT !.pc = "put",
                              !.version = NewVersion(call[x].domain)])
    /\ UNCHANGED <<index, pending>>

Adopt(x) ==
    /\ call[x].pc = "put"
    /\ Unchanged(index[call[x].domain], call[x].expected)
    /\ index' = [index EXCEPT
                   ![call[x].domain] = Committed(@, call[x].version)]
    /\ Decide(x, "committed")
    /\ UNCHANGED <<object, pending>>

(* ConcurrencyConflict: another round, unless this was the last.           *)
Conflict(x) ==
    /\ call[x].pc = "put"
    /\ ~Unchanged(index[call[x].domain], call[x].expected)
    /\ \/ /\ call[x].rounds + 1 < MAX_CAS_RETRY
          /\ Turn(x, [Forget(call[x]) EXCEPT !.pc = "looping",
                                           !.rounds = call[x].rounds + 1])
       \/ /\ call[x].rounds + 1 >= MAX_CAS_RETRY
          /\ Decide(x, "conflict")
    /\ UNCHANGED <<storeVars, pending>>

(* Mutant of DeletePending: only an adopted document is deleted.           *)
DeleteAdopted(x) ==
    /\ call[x].pc = "deciding"
    /\ pending' = IF call[x].stage = "committed" THEN pending \ {x}
                                                 ELSE pending
    /\ Turn(x, [call[x] EXCEPT !.pc = "over"])
    /\ UNCHANGED storeVars

DeletePending(x) ==
    /\ call[x].pc = "deciding"
    /\ pending' = pending \ {x}
    /\ Turn(x, [call[x] EXCEPT !.pc = "over"])
    /\ UNCHANGED storeVars

(* The invocation dies between two calls, after any of them.  The event is *)
(* delivered again, a bounded number of times.                             *)
Die(x) ==
    /\ call[x].pc \in {"looping", "known", "chosen", "put", "deciding", "over"}
    /\ \/ /\ call[x].redelivered < MaxRedeliver
          /\ Turn(x, [Forget(call[x]) EXCEPT !.pc = "sent", !.stage = "none",
                                           !.redelivered = @ + 1])
       \/ /\ call[x].redelivered = MaxRedeliver
          /\ call[x].pc # "over"
          /\ Turn(x, [Forget(call[x]) EXCEPT !.pc = "lost"])
    /\ UNCHANGED <<storeVars, pending>>

ReinforceStep(x) ==
    \/ Accept(x)
    \/ Refuse(x)
    \/ ReadGone(x)
    \/ FindNothing(x)
    \/ ReadVersion(x)
    \/ Compare(x)
    \/ Save(x)
    \/ Adopt(x)
    \/ Conflict(x)
    \/ DeletePending(x)

ReinforceNext == \E x \in Doc : Upload(x) \/ ReinforceStep(x) \/ Die(x)

(* An invocation that does not die keeps running.                          *)
ReinforceFairness ==
    \A x \in Doc : WF_reinforceSysVars(ReinforceStep(x))

-----------------------------------------------------------------------------
(* Properties.                                                             *)

(* A reinforcement only replaces an index version it has measured itself   *)
(* against: at the moment of its commit, the body it compared with is the  *)
(* one the index names or a newer one.  This needs the version to be read  *)
(* before the body, and the commit to insist on that version.              *)
AdoptsOverKnown ==
    [][\A x \in Doc :
         call[x].pc = "put" /\ call'[x].stage = "committed"
         => index[call[x].domain].version <= call[x].compared]_reinforceSysVars

(* "Otherwise the existing document is kept": an invocation that does not  *)
(* adopt its document leaves another one in place.                         *)
NotAdoptedNotStored ==
    \A x \in Doc :
      call[x].stage \in {"refused", "no_change", "shrink", "conflict"}
        => ObjectOf(x).author # x

(* Whatever the outcome, the pending object is deleted; only a document    *)
(* whose deliveries all died may stay.                                     *)
PendingDeleted ==
    \A x \in Doc : x \in pending ~> (x \notin pending \/ call[x].pc = "lost")
=============================================================================
