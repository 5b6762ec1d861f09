----------------------------- MODULE VoteEditor -----------------------------
(***************************************************************************)
(* The vote form in the browser: the Alpine component voteEditor of         *)
(* static/js/polls-vote.js, as the template polls/vote.html drives it.  It  *)
(* starts from the votes and guests stored for the voter, and repeats the   *)
(* limits the server enforces (module Ballots), so that a voter sees them   *)
(* before the server refuses the ballot.                                    *)
(***************************************************************************)
EXTENDS Ballots

CONSTANTS
    MaxChoices,   \* bound: the largest max_yes_choices and max_selections
    MaxTyped,     \* bound: the largest number of guests a voter types or has stored
    GuestLimits   \* bound: values of max_guests; Unlimited is null

ASSUME EditorAssumption ==
    /\ MaxChoices \in Nat /\ MaxTyped \in Nat
    /\ GuestLimits \subseteq Nat

VARIABLES
    rules,        \* mode, maxYes and groups, as rendered into the page
    allowGuests,  \* allow_guests: whether the page shows guests
    maxGuests,    \* max_guests; it is null if guests are not allowed
    votes,        \* per option: the status shown
    guests,       \* per option: the number shown
    typing,       \* options whose number was typed and not yet clamped
    stale         \* history: options with a stored number that the rules have since
                  \* ceased to allow, and that the voter leaves alone

settings == <<rules, allowGuests, maxGuests>>

vars == <<settings, votes, guests, typing, stale>>

\* A ballot and its numbers are loaded as they are stored, whatever the rules were then.
Outdated(n) == n > 0 /\ (~allowGuests \/ (maxGuests # Unlimited /\ n > maxGuests))

Init ==
    /\ rules \in [mode : Modes, maxYes : 0 .. MaxChoices,
                  group : [Options -> Groups \cup {NoGroup}],
                  cap : [Groups -> 0 .. MaxChoices]]
    /\ allowGuests \in BOOLEAN
    /\ maxGuests \in IF allowGuests THEN GuestLimits ELSE {Unlimited}
    /\ votes \in [Options -> Statuses]
    /\ guests \in [Options -> 0 .. MaxTyped]
    /\ \A o \in Options : votes[o] # "YES" => guests[o] = 0
    /\ typing = {}
    /\ stale = {o \in Options : Outdated(guests[o])}

\* Mutant: a full group still takes one more.
CanSelectGroupWhenFull(o) ==
    LET g == rules.group[o]
        capped == rules.mode # "SINGLE_CHOICE" /\ g # NoGroup /\ rules.cap[g] # Unlimited
    IN  capped /\ votes[o] # "YES"
            => Cardinality(YesIn(rules, votes, g)) <= rules.cap[g]

\* canSelectGroup(id)
CanSelectGroup(o) ==
    LET g == rules.group[o]
        capped == rules.mode # "SINGLE_CHOICE" /\ g # NoGroup /\ rules.cap[g] # Unlimited
    IN  capped /\ votes[o] # "YES"
            => Cardinality(YesIn(rules, votes, g)) < rules.cap[g]

\* canSelect(id): whether the button of o is enabled.
CanSelect(o) ==
    /\ CanSelectGroup(o)
    /\ \/ rules.mode # "MULTI_CHOICE" \/ rules.maxYes = Unlimited
       \/ votes[o] = "YES"
       \/ Cardinality(Yes(votes)) < rules.maxYes

LimitReached ==
    /\ rules.mode = "MULTI_CHOICE" /\ rules.maxYes # Unlimited
    /\ Cardinality(Yes(votes)) >= rules.maxYes

\* Whether set(id, status) gets past its early returns.
GetsThrough(o, status) ==
    status = "YES" => CanSelectGroup(o) /\ ~(LimitReached /\ votes[o] # "YES")

\* A YES in a SINGLE_CHOICE poll takes the place of every other vote and its guests.
Exclusive(status) == rules.mode = "SINGLE_CHOICE" /\ status = "YES"

VotesAfter(o, status) ==
    [p \in Options |-> IF p = o THEN status
                       ELSE IF Exclusive(status) THEN "NO" ELSE votes[p]]

GuestsAfter(o, status) ==
    [p \in Options |-> IF Exclusive(status) \/ (p = o /\ status # "YES") THEN 0
                       ELSE guests[p]]

Set(o, status) ==
    /\ GetsThrough(o, status)
    /\ votes' = VotesAfter(o, status)
    /\ guests' = GuestsAfter(o, status)
    /\ typing' = {p \in typing : guests'[p] # 0}
    /\ stale' = {p \in stale : guests'[p] # 0}
    /\ UNCHANGED settings

\* The buttons of each mode; those that only say MAYBE or NO
\* are always enabled.
Click(o, status) ==
    /\ \/ rules.mode = "YES_NO_MAYBE"
       \/ rules.mode = "SINGLE_CHOICE" /\ status = "YES"
       \/ rules.mode = "MULTI_CHOICE" /\ status = IF votes[o] = "YES" THEN "NO" ELSE "YES"
    /\ status = "YES" \/ rules.mode = "MULTI_CHOICE" => CanSelect(o)
    /\ Set(o, status)

\* The number input is shown for the options with a YES, if guests are allowed.
Type(o, n) ==
    /\ allowGuests /\ votes[o] = "YES"
    /\ guests' = [guests EXCEPT ![o] = n]
    /\ typing' = typing \cup {o}
    /\ stale' = stale \ {o}
    /\ UNCHANGED <<settings, votes>>

\* Mutant: only negative numbers are corrected.
ClampGuestsBelow(o) ==
    /\ o \in typing
    /\ guests' = [guests EXCEPT ![o] = IF @ < 0 THEN 0 ELSE @]
    /\ typing' = typing \ {o}
    /\ UNCHANGED <<settings, votes, stale>>

ClampGuests(o) ==
    /\ o \in typing
    /\ guests' = [guests EXCEPT ![o] = IF @ < 0 THEN 0
                                       ELSE IF maxGuests # Unlimited /\ @ > maxGuests
                                       THEN maxGuests ELSE @]
    /\ typing' = typing \ {o}
    /\ UNCHANGED <<settings, votes, stale>>

Next ==
    \E o \in Options :
        \/ \E status \in Statuses : Click(o, status)
        \/ \E n \in -1 .. MaxTyped : Type(o, n)
        \/ ClampGuests(o)

Spec == Init /\ [][Next]_vars

\* serialize(): the guest_count that goes with the vote for o.
SentGuests(o) == IF votes[o] = "YES" THEN guests[o] ELSE 0

-----------------------------------------------------------------------------
(* Properties. *)

TypeOK ==
    /\ rules \in Rules
    /\ allowGuests \in BOOLEAN
    /\ maxGuests \in GuestLimits \cup {Unlimited}
    /\ votes \in [Options -> Statuses]
    /\ guests \in [Options -> Int]
    /\ typing \subseteq Options /\ stale \subseteq Options

\* The server would accept the form as it stands.
Acceptable == Accepts(rules, votes)

\* No click turns a ballot the server accepts into one it refuses.  (A stored ballot
\* may be refused from the start, when the owner changed the rules since.)
StaysAcceptable == [][Acceptable => Acceptable']_vars

\* What the form shows is what the server stores: submit_response does not change
\* the number of guests of any vote the voter is done with.  The exception is a number
\* left over from before the owner lowered the limit or turned guests off: the page takes
\* it as it is stored, clampGuests looks at a number only when it is typed, and the server
\* cuts it without a word.
GuestsAsShown ==
    \A o \in Options \ (typing \cup stale) :
        SentGuests(o) >= 0
        /\ StoredGuests(allowGuests, maxGuests, votes[o], SentGuests(o)) = SentGuests(o)
=============================================================================
