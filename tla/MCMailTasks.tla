---------------------------- MODULE MCMailTasks ----------------------------
(* MailTasks for TLC: the calls are interchangeable. *)
EXTENDS MailTasks, TLC

CONSTANTS invitation, closing, t1, t2, t3

Interchangeable == Permutations({t1, t2, t3})
=============================================================================
