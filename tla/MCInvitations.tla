--------------------------- MODULE MCInvitations ---------------------------
(* Invitations for TLC: requests are interchangeable. *)
EXTENDS Invitations, FiniteSets, TLC

CONSTANTS r1, r2, u1, unknown

\* Excuses are never taken back.  NobodyForgotten claims nothing of a behaviour that has
\* one but "unclaimed", InitialDispatchOnce nothing of one whose poll was rescheduled;
\* an audience write that failed is followed no further either, and any other excuse
\* until the second.
StillClaimed ==
    excuses \cap {"rescheduled", "failed"} = {} /\ Cardinality(excuses) <= 1

Interchangeable == Permutations({r1, r2})
=============================================================================
