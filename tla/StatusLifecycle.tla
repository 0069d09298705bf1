--------------------------- MODULE StatusLifecycle ---------------------------
(***************************************************************************)
(* What the content pipeline promises those who read publish_status (the   *)
(* front end polls it): the order in which it may change.                  *)
(*                                                                         *)
(* A site is published only out of validation and validated only out of a  *)
(* build; it is retried only out of validation; once published it is not   *)
(* built again.  A failure may be recorded at any time.                    *)
(***************************************************************************)

VARIABLE status     \* publish_status of the site; "none" before its first run

Init == status = "none"

Build ==
    /\ status # "published"
    /\ status' = "building"

Validate ==
    /\ status = "building"
    /\ status' = "validating"

Publish ==
    /\ status = "validating"
    /\ status' = "published"

Retry ==
    /\ status = "validating"
    /\ status' = "retrying"

Fail == status' = "failed"

Next == Build \/ Validate \/ Publish \/ Retry \/ Fail

Spec == Init /\ [][Next]_status
=============================================================================
