--------------------------- MODULE GroupSettings ---------------------------
(***************************************************************************)
(* The administrators' table of groups (admin/groups.html): an alias and a  *)
(* mark "hidden" per group, saved for all groups in one form.  The groups   *)
(* come and go by SCIM while the table is open, perhaps in several tabs.    *)
(* The filter of static/js/admin-groups.js hides lines of the table without *)
(* taking them out of the form.  The route is admin.groups, with            *)
(* apply_admin_edits behind it.                                             *)
(***************************************************************************)
EXTENDS Integers

CONSTANTS
    Groups,       \* ids, none of which is used twice
    Aliases,      \* names other than the empty one
    Admins,       \* tabs that may have the table open
    MaxMoves,     \* bound: changes made to tables and filters
    MaxPosts      \* bound: forms sent

VARIABLES
    setting,      \* per group there is: name and hidden
    unused,       \* ids the database has not given yet
    table,        \* per open tab: its lines, its filter, the lines touched
    post,         \* per tab: where its POST is and the rows it loaded
    overtaken,    \* history: tabs since whose table another tab was saved
    moves, posts

vars == <<setting, unused, table, post, overtaken, moves, posts>>

NoName   == ""
Settings == [name : Aliases, hidden : BOOLEAN]
Lines    == [name : Aliases \cup {NoName}, hidden : BOOLEAN]
Filters  == {"all", "visible", "hidden"}

Quiet == [pc |-> "idle", loaded |-> << >>]

Init ==
    /\ \E known \in SUBSET Groups :
          setting \in [known -> Settings] /\ unused = Groups \ known
    /\ table = << >>
    /\ post = [t \in Admins |-> Quiet]
    /\ overtaken = {}
    /\ moves = 0 /\ posts = 0

-----------------------------------------------------------------------------
(* The table. *)

\* A table with these lines; the filter goes by what the page was made with (data-*).
Table(lines, filter) == [lines |-> lines, made |-> lines, filter |-> filter, touched |-> {}]

\* rowMatches(ds): the lines an administrator sees.  (The search for a part of a name
\* hides lines in the same way.)
RowMatches(t, g) ==
    table[t].filter = "all" \/ (table[t].filter = "hidden") = table[t].made[g].hidden

Open(t) ==
    /\ t \notin DOMAIN table
    /\ table' = [u \in DOMAIN table \cup {t} |->
                   IF u = t THEN Table(setting, "all") ELSE table[u]]
    /\ overtaken' = overtaken \ {t}
    /\ UNCHANGED <<setting, unused, post, moves, posts>>

Move(t, after) ==
    /\ post[t].pc = "idle" /\ moves < MaxMoves
    /\ table' = [table EXCEPT ![t] = after]
    /\ moves' = moves + 1
    /\ UNCHANGED <<setting, unused, post, overtaken, posts>>

\* A page without groups has neither a filter nor a form.
HasForm(t) == DOMAIN table[t].lines # {}

Filter(t, f) ==
    /\ HasForm(t) /\ f # table[t].filter
    /\ Move(t, [table[t] EXCEPT !.filter = f])

Fill(t, g, line) ==
    /\ g \in DOMAIN table[t].lines /\ line # table[t].lines[g]
    /\ RowMatches(t, g)
    /\ Move(t, [table[t] EXCEPT !.lines[g] = line, !.touched = @ \cup {g}])

-----------------------------------------------------------------------------
(* The route. *)

\* What the form says of a group: nothing of one the table does not list.
Submitted(t, g) ==
    IF g \in DOMAIN table[t].lines THEN table[t].lines[g]
    ELSE [name |-> NoName, hidden |-> FALSE]

\* Mutant: GroupEdit takes any name.
NoErrors(t, known) == {}

\* _parse_group_edits: GroupEdit asks for a name.
Errors(t, known) == {g \in known : Submitted(t, g).name = NoName}

\* The rows are loaded and the form is parsed against them; with an error the table
\* comes back with a line for each of them, as submitted.
Post(t) ==
    LET known == DOMAIN setting
    IN  /\ HasForm(t)
        /\ post[t].pc = "idle" /\ posts < MaxPosts
        /\ posts' = posts + 1
        /\ IF Errors(t, known) = {}
           THEN /\ post' = [post EXCEPT ![t] = [pc |-> "loaded", loaded |-> setting]]
                /\ UNCHANGED table
           ELSE /\ table' = [table EXCEPT ![t] =
                      [Table([g \in known |-> Submitted(t, g)], table[t].filter)
                          EXCEPT !.touched = table[t].touched \cap known]]
                /\ UNCHANGED post
        /\ UNCHANGED <<setting, unused, overtaken, moves>>

WriteBack(current, loaded, mine) == IF mine = loaded THEN current ELSE mine

Saved(t, g) ==
    LET loaded == post[t].loaded[g]
    IN  IF g \notin DOMAIN post[t].loaded THEN setting[g]
        ELSE [name   |-> WriteBack(setting[g].name, loaded.name, Submitted(t, g).name),
              hidden |-> WriteBack(setting[g].hidden, loaded.hidden, Submitted(t, g).hidden)]

\* apply_admin_edits: every group of the form is still there.
Check(t) ==
    /\ post[t].pc = "loaded"
    /\ DOMAIN post[t].loaded \subseteq DOMAIN setting
    /\ post' = [post EXCEPT ![t].pc = "checked"]
    /\ UNCHANGED <<setting, unused, table, overtaken, moves, posts>>

\* Its commit: all or nothing; then the redirect.  That a group has gone since is noticed
\* only if there is something to write to it.
Commit(t) ==
    /\ post[t].pc = "checked"
    /\ \A g \in DOMAIN post[t].loaded \ DOMAIN setting : Submitted(t, g) = post[t].loaded[g]
    /\ setting' = [g \in DOMAIN setting |-> Saved(t, g)]
    /\ post' = [post EXCEPT ![t] = Quiet]
    /\ table' = [table EXCEPT ![t] = Table(setting', table[t].filter)]
    /\ overtaken' = DOMAIN table \ {t}
    /\ UNCHANGED <<unused, moves, posts>>

\* A group of the form is gone, the process dies or the tab is closed.
Lose(t) ==
    /\ post' = [post EXCEPT ![t] = Quiet]
    /\ table' = [u \in DOMAIN table \ {t} |-> table[u]]
    /\ UNCHANGED <<setting, unused, overtaken, moves, posts>>

-----------------------------------------------------------------------------
(* SCIM. *)

Create(g, name) ==
    /\ g \in unused
    /\ unused' = unused \ {g}
    /\ setting' = [h \in DOMAIN setting \cup {g} |->
                     IF h = g THEN [name |-> name, hidden |-> FALSE] ELSE setting[h]]
    /\ UNCHANGED <<table, post, overtaken, moves, posts>>

Delete(g) ==
    /\ setting' = [h \in DOMAIN setting \ {g} |-> setting[h]]
    /\ UNCHANGED <<unused, table, post, overtaken, moves, posts>>

Next ==
    \/ \E t \in Admins : Open(t)
    \/ \E t \in DOMAIN table :
          \/ \E f \in Filters : Filter(t, f)
          \/ \E g \in Groups, line \in Lines : Fill(t, g, line)
          \/ Post(t) \/ Check(t) \/ Commit(t) \/ Lose(t)
    \/ \E g \in Groups, name \in Aliases : Create(g, name)
    \/ \E g \in DOMAIN setting : Delete(g)

Spec == Init /\ [][Next]_vars

-----------------------------------------------------------------------------
(* Properties. *)

TypeOK ==
    /\ DOMAIN setting \subseteq Groups \ unused /\ unused \subseteq Groups
    /\ \A g \in DOMAIN setting : setting[g] \in Settings
    /\ DOMAIN table \subseteq Admins
    /\ \A t \in DOMAIN table :
          /\ DOMAIN table[t].lines \subseteq Groups \ unused
          /\ \A g \in DOMAIN table[t].lines : table[t].lines[g] \in Lines
    /\ \A t \in Admins : post[t].pc # "idle" => t \in DOMAIN table

\* A save changes the groups the administrator has changed and no other: not those the
\* filter hid, nor those SCIM has added since.  Those another tab has saved since are an
\* exception: the form is sent whole, and the later one wins.
OnlyTouchedAreSaved ==
    [][\A t \in DOMAIN table : post[t].pc # "idle" /\ post'[t].pc = "idle" /\ t \notin overtaken
          => \A g \in DOMAIN setting \cap DOMAIN setting' :
                setting'[g] # setting[g] => g \in table[t].touched]_vars
=============================================================================
