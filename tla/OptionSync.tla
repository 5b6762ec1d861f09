----------------------------- MODULE OptionSync -----------------------------
(***************************************************************************)
(* The list of options of a poll on its way between the database and the    *)
(* owner's browser: rendered into the page, changed there by the Alpine     *)
(* component optionsEditor (static/js/polls-edit.js), sent back whole, and  *)
(* matched against the rows by _apply_groups and _apply_options, so that an *)
(* option that is still listed keeps its row and thereby its votes.         *)
(*                                                                         *)
(* Options are matched by their values, here Labels; groups by a client key *)
(* that is the id of a row or a new token.  The owner may have the page     *)
(* open in several tabs.  A save is one action (races with votes are in     *)
(* Voting, those of the row in PollLifecycle).                              *)
(***************************************************************************)
EXTENDS Integers, Sequences, FiniteSets

CONSTANTS
    Labels,
    Tabs,
    MaxOptions,   \* bound: options on a page
    MaxGroups,    \* bound: groups on a page
    MaxIds,       \* bound: ids of options handed out
    MaxGroupIds,  \* bound: ids of groups and new tokens handed out
    MaxCap        \* bound: the largest max_selections

ASSUME SyncAssumption ==
    /\ {MaxOptions, MaxGroups, MaxIds, MaxGroupIds, MaxCap} \subseteq Nat
    /\ MaxOptions <= MaxIds          \* the options a poll starts with have ids

VARIABLES
    option,       \* the rows of poll_options, by id
    group,        \* the rows of poll_option_groups, by id: max_selections
    nextId,       \* ids handed out so far
    nextGroupId,
    nextToken,
    page          \* what the form shows, in each tab it is open in

vars == <<option, group, nextId, nextGroupId, nextToken, page>>
rows == <<option, group, nextId, nextGroupId>>

Ungrouped == 0                 \* group_id IS NULL
Unlimited == 0                 \* max_selections: null

\* Client keys.
NoKey    == <<"null", 0>>
Id(n)    == <<"id", n>>        \* the id of a row
Token(n) == <<"new", n>>       \* new-<uuid>

Regular == {o \in DOMAIN option : ~option[o].custom}

\* _poll_options_to_dicts and _poll_option_groups_to_dicts: what the page is rendered
\* from, the options in their sort order.
Before(p, o) == \/ option[p].order < option[o].order
                \/ option[p].order = option[o].order /\ p < o
Nth(i) == CHOOSE o \in Regular : Cardinality({p \in Regular : Before(p, o)}) = i - 1
KeyOf(o) == IF option[o].group = Ungrouped THEN NoKey ELSE Id(option[o].group)
Rendered ==
    [options |-> [i \in 1 .. Cardinality(Regular) |->
                    LET o == Nth(i) IN [label |-> option[o].label, key |-> KeyOf(o)]],
     groups  |-> [key \in {Id(n) : n \in DOMAIN group} |-> group[key[2]]]]

Init ==
    /\ \E listing \in UNION {[1 .. n -> Labels] : n \in 1 .. MaxOptions} :
          /\ nextId = Len(listing)
          /\ option = [o \in 1 .. nextId |->
                         [label |-> listing[o], order |-> o - 1, group |-> Ungrouped,
                          custom |-> FALSE]]
    /\ group = << >> /\ nextGroupId = 0 /\ nextToken = 0
    /\ page = << >>

-----------------------------------------------------------------------------
(* In the browser. *)

Shown(t, options, groups) ==
    page' = [page EXCEPT ![t] = [options |-> options, groups |-> groups]]

\* GET /polls/<id>/edit, in a new tab or in one that is open.
Load(t) ==
    /\ page' = [u \in DOMAIN page \cup {t} |-> IF u = t THEN Rendered ELSE page[u]]
    /\ UNCHANGED <<rows, nextToken>>

\* add(): below the last option, in its group.
AddOption(t, l) ==
    LET shown == page[t].options
        key   == IF shown = << >> THEN NoKey ELSE shown[Len(shown)].key
    IN  /\ Len(shown) < MaxOptions
        /\ Shown(t, Append(shown, [label |-> l, key |-> key]), page[t].groups)
        /\ UNCHANGED <<rows, nextToken>>

Remove(t, i) ==
    LET shown == page[t].options
    IN  /\ i \in DOMAIN shown
        /\ Shown(t, SubSeq(shown, 1, i - 1) \o SubSeq(shown, i + 1, Len(shown)),
                 page[t].groups)
        /\ UNCHANGED <<rows, nextToken>>

Change(t, i, l, key) ==
    /\ i \in DOMAIN page[t].options
    /\ key \in DOMAIN page[t].groups \cup {NoKey}
    /\ Shown(t, [page[t].options EXCEPT ![i] = [label |-> l, key |-> key]], page[t].groups)
    /\ UNCHANGED <<rows, nextToken>>

\* Dragging an option to the next place.
Drag(t, i) ==
    LET shown == page[t].options
    IN  /\ {i, i + 1} \subseteq DOMAIN shown
        /\ Shown(t, [shown EXCEPT ![i] = shown[i + 1], ![i + 1] = shown[i]], page[t].groups)
        /\ UNCHANGED <<rows, nextToken>>

AddGroup(t, max) ==
    LET groups == page[t].groups
        token  == Token(nextToken + 1)
    IN  /\ Cardinality(DOMAIN groups) < MaxGroups /\ nextToken < MaxGroupIds
        /\ nextToken' = nextToken + 1
        /\ Shown(t, page[t].options,
                 [key \in DOMAIN groups \cup {token} |-> IF key = token THEN max
                                                         ELSE groups[key]])
        /\ UNCHANGED rows

SetCap(t, key, max) ==
    /\ key \in DOMAIN page[t].groups
    /\ Shown(t, page[t].options, [page[t].groups EXCEPT ![key] = max])
    /\ UNCHANGED <<rows, nextToken>>

GroupsWithout(t, key) == [k \in DOMAIN page[t].groups \ {key} |-> page[t].groups[k]]

\* removeGroup(): its options stay, ungrouped.
RemoveGroup(t, key) ==
    LET shown == page[t].options
    IN  /\ key \in DOMAIN page[t].groups
        /\ Shown(t, [i \in DOMAIN shown |-> IF shown[i].key = key
                                            THEN [shown[i] EXCEPT !.key = NoKey] ELSE shown[i]],
                 GroupsWithout(t, key))
        /\ UNCHANGED <<rows, nextToken>>

-----------------------------------------------------------------------------
(* On the server. *)

\* PollForm: unique client keys are those of a function; references must resolve.
Valid(form) ==
    \A i \in DOMAIN form.options : form.options[i].key \in DOMAIN form.groups \cup {NoKey}

Listed(form) == {form.options[i].label : i \in DOMAIN form.options}

\* Mutant: only the number of options is compared.
DestructiveByCount(form) == Cardinality(Regular) > Len(form.options)

\* options_have_destructive_changes
Destructive(form) == \E o \in Regular : option[o].label \notin Listed(form)

\* _apply_groups: a key that names a row of this poll keeps it, any other makes one.
NewKeys(form) == {key \in DOMAIN form.groups : key \notin {Id(n) : n \in DOMAIN group}}
Earlier(k, l) ==
    \/ k[1] = "id" /\ l[1] = "new"
    \/ k[1] = l[1] /\ k[2] < l[2]

\* Mutant: the first new group gets the id of the last.
GroupIdTaken(form, key) ==
    IF key = NoKey THEN Ungrouped
    ELSE IF key \in NewKeys(form)
    THEN nextGroupId + Cardinality({k \in NewKeys(form) : Earlier(k, key)})
    ELSE key[2]

GroupId(form, key) ==
    IF key = NoKey THEN Ungrouped
    ELSE IF key \in NewKeys(form)
    THEN nextGroupId + 1 + Cardinality({k \in NewKeys(form) : Earlier(k, key)})
    ELSE key[2]

\* Mutant: a group that exists keeps its max_selections.
ApplyGroupsOldCap(form) ==
    /\ group' = [n \in {GroupId(form, key) : key \in DOMAIN form.groups} |->
                   IF n \in DOMAIN group THEN group[n]
                   ELSE form.groups[CHOOSE key \in DOMAIN form.groups :
                                       GroupId(form, key) = n]]
    /\ nextGroupId' = nextGroupId + Cardinality(NewKeys(form))

ApplyGroups(form) ==
    /\ group' = [n \in {GroupId(form, key) : key \in DOMAIN form.groups} |->
                   form.groups[CHOOSE key \in DOMAIN form.groups : GroupId(form, key) = n]]
    /\ nextGroupId' = nextGroupId + Cardinality(NewKeys(form))

\* One row per label, whichever the query returns first, can be matched; the first
\* option listed with the label takes it.
First(form, i) == \A j \in 1 .. i - 1 : form.options[j].label # form.options[i].label

\* Mutant: an option that moved is another option.
MatchesInPlace(form, match, i) ==
    /\ form.options[i].label \in DOMAIN match /\ First(form, i)
    /\ option[match[form.options[i].label]].order = i - 1

Matches(form, match, i) == form.options[i].label \in DOMAIN match /\ First(form, i)
Unmatched(form, match)  == {i \in DOMAIN form.options : ~Matches(form, match, i)}
RowOf(form, match, i) ==
    IF Matches(form, match, i) THEN match[form.options[i].label]
    ELSE nextId + Cardinality({j \in Unmatched(form, match) : j <= i})

RowAfter(form, match, i) ==
    [label |-> form.options[i].label, custom |-> FALSE, order |-> i - 1,
     group |-> GroupId(form, form.options[i].key)]

\* _apply_options
ApplyOptions(form, match) ==
    LET kept == {RowOf(form, match, i) : i \in DOMAIN form.options}
    IN  /\ option' = [o \in kept \cup (DOMAIN option \ Regular) |->
                        IF o \in DOMAIN option \ Regular THEN option[o]
                        ELSE RowAfter(form, match, CHOOSE i \in DOMAIN form.options :
                                                      RowOf(form, match, i) = o)]
        /\ nextId' = nextId + Cardinality(Unmatched(form, match))

Candidates ==
    {match \in [{option[o].label : o \in Regular} -> Regular] :
        \A l \in DOMAIN match : option[match[l]].label = l}

\* POST /polls/<id>/edit, once a destructive form is confirmed; the browser is sent
\* back to the page.
Save(t) ==
    LET form == page[t]
    IN  /\ Valid(form)
        /\ \E match \in Candidates : ApplyOptions(form, match)
        /\ ApplyGroups(form)
        /\ nextId' <= MaxIds /\ nextGroupId' <= MaxGroupIds
        /\ page' = [page EXCEPT ![t] = Rendered']
        /\ UNCHANGED nextToken

\* A voter adds an option at the end.
AddCustom(l) ==
    LET last == {option[o].order : o \in DOMAIN option} \cup {-1}
        o    == nextId + 1
    IN  /\ nextId < MaxIds
        /\ option' = [p \in DOMAIN option \cup {o} |->
                        IF p = o
                        THEN [label |-> l, custom |-> TRUE, group |-> Ungrouped,
                              order |-> 1 + CHOOSE m \in last : \A n \in last : n <= m]
                        ELSE option[p]]
        /\ nextId' = o
        /\ UNCHANGED <<group, nextGroupId, nextToken, page>>

\* What the owner does to the page of a tab.
Edit(t) ==
    \/ \E l \in Labels : AddOption(t, l)
    \/ \E i \in DOMAIN page[t].options :
          \/ Remove(t, i) \/ Drag(t, i)
          \/ \E l \in Labels, key \in DOMAIN page[t].groups \cup {NoKey} :
                Change(t, i, l, key)
    \/ \E max \in 0 .. MaxCap :
          \/ AddGroup(t, max)
          \/ \E key \in DOMAIN page[t].groups : SetCap(t, key, max)
    \/ \E key \in DOMAIN page[t].groups : RemoveGroup(t, key)

Next ==
    \/ \E t \in Tabs : Load(t)
    \/ \E t \in DOMAIN page : Edit(t) \/ Save(t)
    \/ \E l \in Labels : AddCustom(l)

Spec == Init /\ [][Next]_vars

-----------------------------------------------------------------------------
(* Properties. *)

TypeOK ==
    /\ DOMAIN option \subseteq 1 .. nextId /\ nextId \in 0 .. MaxIds
    /\ \A o \in DOMAIN option :
          option[o] \in [label : Labels, order : Nat, custom : BOOLEAN,
                         group : DOMAIN group \cup {Ungrouped}]
    /\ DOMAIN group \subseteq 1 .. nextGroupId /\ nextGroupId \in 0 .. MaxGroupIds
    /\ \A n \in DOMAIN group : group[n] \in 0 .. MaxCap
    /\ nextToken \in 0 .. MaxGroupIds
    /\ \A o, p \in Regular : option[o].order = option[p].order => o = p

\* Two pages that show the same: the keys of groups aside.
Same(form, shown) ==
    /\ Len(form.options) = Len(shown.options)
    /\ \A i \in DOMAIN form.options : form.options[i].label = shown.options[i].label
    /\ Cardinality(DOMAIN form.groups) = Cardinality(DOMAIN shown.groups)
    /\ \E key \in [DOMAIN form.groups -> DOMAIN shown.groups] :
          /\ \A k, l \in DOMAIN key : key[k] = key[l] => k = l
          /\ \A k \in DOMAIN key : form.groups[k] = shown.groups[key[k]]
          /\ \A i \in DOMAIN form.options :
                shown.options[i].key = IF form.options[i].key = NoKey THEN NoKey
                                       ELSE key[form.options[i].key]

\* What is saved is what was shown: the page that comes back has the same options, in
\* the same order and the same groups, even if it shows a value twice or was opened
\* before another tab deleted the groups.
SaveIsFaithful ==
    [][\A t \in DOMAIN page : page'[t] = Rendered' /\ Save(t) => Same(page[t], page'[t])]_vars

Distinct == \A o, p \in Regular : option[o].label = option[p].label => o = p

\* As long as no two options have the same value, one whose value is still listed keeps
\* its row, and so its votes, however the form moved, regrouped or repeated it: a step
\* that takes the row away is no save of such a form.
ListedIsKept ==
    [][\A t \in DOMAIN page, o \in Regular :
          o \notin DOMAIN option' /\ option[o].label \in Listed(page[t]) /\ Distinct
             => ~Save(t)]_vars

\* As long as no two options have the same value, the owner is warned exactly if an
\* option is about to go: a step of which the warning says otherwise is no save.
DestructiveIsExact ==
    [][\A t \in DOMAIN page :
          (Destructive(page[t]) <=> Regular \subseteq DOMAIN option') /\ Distinct
             => ~Save(t)]_vars
=============================================================================
