---------------------------- MODULE PollPromise ----------------------------
(***************************************************************************)
(* What the lifecycle of a poll promises its users (the docstring of        *)
(* InvalidStatusTransitionError and the Lifecycle entry of the domain       *)
(* model): DRAFT, then ACTIVE, then CLOSED for good, with the automatic     *)
(* deletion armed only while CLOSED; it may be deleted at any time.         *)
(***************************************************************************)
VARIABLES status, armed

Init == status = "not created" /\ armed = FALSE

Create ==
    /\ status = "not created"
    /\ status' \in {"DRAFT", "ACTIVE"}
    /\ UNCHANGED armed

Activate == status = "DRAFT" /\ status' = "ACTIVE" /\ UNCHANGED armed

Close == status = "ACTIVE" /\ status' = "CLOSED" /\ armed' \in BOOLEAN

Rearm == status = "CLOSED" /\ UNCHANGED status /\ armed' \in BOOLEAN

Delete ==
    /\ status \in {"DRAFT", "ACTIVE", "CLOSED"}
    /\ status' = "deleted"
    /\ UNCHANGED armed

Next == Create \/ Activate \/ Close \/ Rearm \/ Delete

Spec == Init /\ [][Next]_<<status, armed>>
=============================================================================
