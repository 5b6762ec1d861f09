------------------------------ MODULE Ballots ------------------------------
(***************************************************************************)
(* What the server accepts as a ballot.  A ballot maps ids of options to    *)
(* YES, MAYBE or NO; an option it leaves out has no vote.  The rules of a   *)
(* poll are its response mode, the cap of a MULTI_CHOICE poll and the caps  *)
(* of its option groups.                                                    *)
(***************************************************************************)
EXTENDS Integers, FiniteSets

CONSTANTS
    Options,      \* ids of options
    Groups,       \* ids of option groups
    NoGroup       \* group_id IS NULL

ASSUME BallotAssumption == IsFiniteSet(Options) /\ NoGroup \notin Groups

Modes    == {"YES_NO_MAYBE", "SINGLE_CHOICE", "MULTI_CHOICE"}
Statuses == {"YES", "MAYBE", "NO"}

Unlimited == 0            \* max_yes_choices or max_selections is None; both are >= 1

Rules == [mode : Modes, maxYes : Nat, group : [Options -> Groups \cup {NoGroup}],
          cap : [Groups -> Nat]]

Voted(ballot, status) == {o \in DOMAIN ballot : ballot[o] = status}
Yes(ballot) == Voted(ballot, "YES")
YesIn(rules, ballot, g) == {o \in Yes(ballot) : rules.group[o] = g}

\* The votes for options that the poll (still) has.
Filtered(ballot, existing) == [o \in DOMAIN ballot \cap existing |-> ballot[o]]

\* _validate_votes_against_mode
ModeAccepts(rules, ballot) ==
    /\ rules.mode # "YES_NO_MAYBE" => Voted(ballot, "MAYBE") = {}
    /\ rules.mode = "SINGLE_CHOICE" => Cardinality(Yes(ballot)) <= 1
    /\ rules.mode = "MULTI_CHOICE" /\ rules.maxYes # Unlimited
          => Cardinality(Yes(ballot)) <= rules.maxYes

\* _validate_group_limits, whatever the mode
GroupsAccept(rules, ballot) ==
    \A g \in Groups :
        rules.cap[g] # Unlimited => Cardinality(YesIn(rules, ballot, g)) <= rules.cap[g]

Accepts(rules, ballot) == ModeAccepts(rules, ballot) /\ GroupsAccept(rules, ballot)

\* What submit_response makes of the number of guests that comes with a vote.
StoredGuests(allowed, max, status, guests) ==
    IF ~allowed \/ status # "YES" \/ guests < 0 THEN 0
    ELSE IF max # Unlimited /\ guests > max THEN max ELSE guests
=============================================================================
