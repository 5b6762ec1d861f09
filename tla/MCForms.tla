------------------------------ MODULE MCForms ------------------------------
(***************************************************************************)
(* The forms in the browser for TLC, one after the other in one run: the    *)
(* vote form (VoteEditor), the settings of a poll (EditForm) and the table  *)
(* of groups (GroupSettings).  They share no state, so a behaviour has one  *)
(* of them open and leaves the others as they are.                          *)
(***************************************************************************)
EXTENDS VoteEditor, EditForm, TLC

CONSTANTS
    o1, o2, o3, none, t1, t2, ann, g1, g2,
    GroupIds, Aliases, MaxMoves, MaxPosts

VARIABLES
    open,
    setting, unused, table, post, overtaken, moves, posts

tableVars == <<setting, unused, table, post, overtaken, moves, posts>>

G == INSTANCE GroupSettings WITH Groups <- GroupIds, Admins <- Tabs

ClosedVote ==
    /\ rules = [mode |-> "YES_NO_MAYBE", maxYes |-> Unlimited,
                group |-> [o \in Options |-> NoGroup], cap |-> [g \in Groups |-> Unlimited]]
    /\ allowGuests = FALSE /\ maxGuests = Unlimited
    /\ votes = [o \in Options |-> "NO"] /\ guests = [o \in Options |-> 0]
    /\ typing = {} /\ stale = {}
ClosedEdit  == EditInit /\ row = NoRow
ClosedTable == G!Init /\ setting = << >>

FormsInit ==
    \/ open = "vote"  /\ Init       /\ ClosedEdit /\ ClosedTable
    \/ open = "edit"  /\ ClosedVote /\ EditInit   /\ ClosedTable
    \/ open = "table" /\ ClosedVote /\ ClosedEdit /\ G!Init

FormsNext ==
    /\ UNCHANGED open
    /\ \/ open = "vote"  /\ Next     /\ UNCHANGED <<editVars, tableVars>>
       \/ open = "edit"  /\ EditNext /\ UNCHANGED <<vars, tableVars>>
       \/ open = "table" /\ G!Next   /\ UNCHANGED <<vars, editVars>>

FormsSpec == FormsInit /\ [][FormsNext]_<<open, vars, editVars, tableVars>>

Interchangeable == Permutations({t1, t2}) \cup Permutations({g1, g2})

\* Bounds: while both tabs are open, a page or a table has one change and two saves.  Dates
\* and boxes that are cleared come with one save less.  A tab may be closed, and the other
\* goes on alone.
Plain ==
    row.ends = NoTime /\ row.allowEdit
    /\ \A t \in DOMAIN page : page[t].date = Empty /\ page[t].hour = Empty /\ page[t].allowEdit
Small ==
    /\ saves <= (IF Plain THEN MaxSaves ELSE MaxSaves - 1) - (IF DOMAIN page = Tabs THEN 1 ELSE 0)
    /\ DOMAIN page = Tabs  => touches <= 1
    /\ DOMAIN table = Tabs => moves <= 1

-----------------------------------------------------------------------------
(* Properties of the parts together and of GroupSettings. *)

\* Every form and every row behind it is well typed.
TypesOK == TypeOK /\ EditTypeOK /\ G!TypeOK

\* GroupSettings: a save changes the groups that were changed and no other.
OnlyTouchedAreSaved == G!OnlyTouchedAreSaved
=============================================================================
