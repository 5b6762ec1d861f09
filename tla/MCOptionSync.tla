---------------------------- MODULE MCOptionSync ----------------------------
(* OptionSync for TLC: the tabs are interchangeable, and so are the values. *)
EXTENDS OptionSync, TLC

CONSTANTS t1, t2, monday, tuesday

Plain(groups) ==
    Cardinality(DOMAIN groups) <= 1 /\ \A key \in DOMAIN groups : groups[key] = Unlimited

\* Bound: voters add one option, and there is a third option or a second group; a
\* second tab is opened on a poll of at most two options ever, and with one group, that
\* has no cap, at a time.
Small ==
    /\ Cardinality(DOMAIN option \ Regular) <= 1 /\ nextId + nextGroupId <= 4
    /\ DOMAIN page = Tabs => /\ nextId <= 2 /\ Plain(group)
                             /\ \A t \in Tabs : Plain(page[t].groups)

Interchangeable == Permutations({t1, t2}) \cup Permutations({monday, tuesday})
=============================================================================
