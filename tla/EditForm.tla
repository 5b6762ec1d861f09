------------------------------ MODULE EditForm ------------------------------
(***************************************************************************)
(* The settings of a poll between the row and the owner's browser: the      *)
(* Alpine components pollEditor and dateHourPicker of static/js/            *)
(* polls-edit.js, as the template polls/edit.html drives them, the form the *)
(* browser makes of the page, and the routes new and edit with create_poll, *)
(* update_poll and set_poll_audience behind them.                           *)
(*                                                                         *)
(* The page repeats the rules of the server: a menu of statuses, a checkbox *)
(* that follows the visibility, a button that is off while the server would *)
(* refuse.  It may be open in several tabs, and is older than the row when  *)
(* another tab, the closing task or SCIM was faster.  Users and groups are  *)
(* alike here (People); so are the two pickers of a date, of which the one   *)
(* of ends_at is modelled, and the two boxes that PollForm takes for checked *)
(* if they are not sent (allow_edit_responses and auto_delete), of which     *)
(* allow_edit_responses is.  Of the options it matters whether there are any *)
(* (module OptionSync has the rest), of the other fields that they may be   *)
(* refused (Return).  Names that other modules use as well begin with Edit, *)
(* so that a module can extend this one and VoteEditor.                     *)
(***************************************************************************)
EXTENDS Integers

CONSTANTS
    Tabs,
    People,       \* users and groups that may be invited
    Dates,        \* what the date input may hold
    ChangeDays,   \* those on which the clocks of app_timezone go from 02 to 03
    MaxTouches,   \* bound: changes made to pages
    MaxSaves      \* bound: forms sent

VARIABLES
    row,          \* of polls, and whether it has options
    audience,     \* poll_users and poll_groups
    people,       \* those whose account or group exists
    page,         \* what each open tab shows
    request,      \* per tab: where its POST is, the form, the row it loaded
    excuses,      \* history: what the audience of the row may be wrong for
    touches, saves

editVars == <<row, audience, people, page, request, excuses, touches, saves>>

Empty        == ""                  \* of an input
Hours        == {"00", "02", "03", "10"}        \* of the twenty-four
NoTime       == <<Empty, Empty>>    \* ends_at IS NULL
Skipped      == ChangeDays \X {"02"}
Times        == Dates \X Hours
Instants     == Times \ Skipped     \* the column's, named as to_local renders them
PollStatuses == {"DRAFT", "ACTIVE", "CLOSED"}
New          == "new"               \* originalStatus: null

Row == [status : PollStatuses, visibility : {"PUBLIC", "PRIVATE"}, mandatory : BOOLEAN,
        allowEdit : BOOLEAN, options : BOOLEAN, ends : Instants \cup {NoTime}]
NoRow == [status |-> New, visibility |-> "PUBLIC", mandatory |-> FALSE,
          allowEdit |-> TRUE, options |-> FALSE, ends |-> NoTime]

\* What the rules ask of a poll with this audience.
Sound(poll, invited) ==
    /\ poll.mandatory => poll.visibility = "PRIVATE"
    /\ poll.status = "ACTIVE" => poll.options /\ (poll.visibility = "PRIVATE" => invited # {})

NoForm == [status |-> "ACTIVE", visibility |-> "PUBLIC", mandatory |-> FALSE,
           allowEdit |-> TRUE, options |-> FALSE, ends |-> NoTime, invited |-> {}]
Idle   == [pc |-> "idle", form |-> NoForm, loaded |-> NoRow, disturbed |-> FALSE]

EditInit ==
    /\ row \in Row \cup {NoRow}
    /\ audience \in SUBSET People
    /\ row = NoRow => audience = {}
    /\ Sound(row, audience)
    /\ people = People
    /\ page = << >>
    /\ request = [t \in Tabs |-> Idle]
    /\ excuses = {}
    /\ touches = 0 /\ saves = 0

-----------------------------------------------------------------------------
(* The page. *)

\* Mutant: the checkbox stays as it was.
SettleNot(p) == p

\* x-effect, after every change and when the page comes up.
Settle(p) == IF p.visibility = "PUBLIC" THEN [p EXCEPT !.mandatory = FALSE] ELSE p

\* dateHourPicker(initial): the two inputs are read off the string.  The page of a new
\* poll has allow_edit_responses checked, whatever it is made from.
Rendered(original, settings, invited) ==
    Settle([original |-> original, status |-> settings.status,
            visibility |-> settings.visibility, mandatory |-> settings.mandatory,
            allowEdit |-> original = New \/ settings.allowEdit,
            options |-> settings.options, invited |-> invited,
            date |-> settings.ends[1], hour |-> settings.ends[2]])

\* GET new: form_data is empty, so the template's defaults show.
RenderedNew == Rendered(New, [NoRow EXCEPT !.status = "ACTIVE"], {})

\* GET edit: _poll_to_form_data.
RenderedRow == Rendered(row.status, row, audience)

\* A POST that is not accepted: the page is made from request.form, its chips from the
\* ids that exist, its menu from the row as loaded.
RenderedForm(original, form) == Rendered(original, form, form.invited \cap people)

\* combined()
Combined(p) ==
    IF p.date = Empty THEN NoTime ELSE <<p.date, IF p.hour = Empty THEN "00" ELSE p.hour>>

\* Mutant: a status may only be left.
StatusAllowedForward(from, target) ==
    \/ from = New /\ target \in {"DRAFT", "ACTIVE"}
    \/ from = "DRAFT" /\ target = "ACTIVE"
    \/ from = "ACTIVE" /\ target = "CLOSED"

\* statusAllowed(target)
StatusAllowed(from, target) ==
    \/ from \in {New, "DRAFT"} /\ target \in {"DRAFT", "ACTIVE"}
    \/ from = "ACTIVE" /\ target \in {"ACTIVE", "CLOSED"}
    \/ from = "CLOSED" /\ target = "CLOSED"

\* saveBlocked()
SaveBlocked(p) ==
    /\ p.status = "ACTIVE"
    /\ ~p.options \/ (p.visibility = "PRIVATE" /\ p.invited = {})

\* A change to the page of t, while no form of its is under way.
Touch(t, after) ==
    /\ request[t].pc = "idle"
    /\ touches < MaxTouches
    /\ page' = [page EXCEPT ![t] = Settle(after)]
    /\ touches' = touches + 1
    /\ UNCHANGED <<row, audience, people, request, excuses, saves>>

SetStatus(t, status) ==
    /\ StatusAllowed(page[t].original, status) /\ status # page[t].status
    /\ Touch(t, [page[t] EXCEPT !.status = status])

SetVisibility(t, visibility) ==
    /\ visibility # page[t].visibility
    /\ Touch(t, [page[t] EXCEPT !.visibility = visibility])

\* The checkbox is disabled for a PUBLIC poll.
ToggleMandatory(t) ==
    /\ page[t].visibility # "PUBLIC"
    /\ Touch(t, [page[t] EXCEPT !.mandatory = ~@])

ToggleAllowEdit(t) == Touch(t, [page[t] EXCEPT !.allowEdit = ~@])

\* addUser, addGroup: from the results of a search.
Invite(t, p) ==
    /\ p \in people \ page[t].invited
    /\ Touch(t, [page[t] EXCEPT !.invited = @ \cup {p}])

\* removeUser, removeGroup
Disinvite(t, p) ==
    /\ p \in page[t].invited
    /\ Touch(t, [page[t] EXCEPT !.invited = @ \ {p}])

\* options-count-changed: the first option was added or the last one removed.
CountOptions(t) == Touch(t, [page[t] EXCEPT !.options = ~@])

\* The date input, with the $watch of init().
PickDate(t, d) ==
    /\ d # page[t].date
    /\ Touch(t, [page[t] EXCEPT !.date = d,
                                !.hour = IF page[t].date = Empty /\ @ = Empty THEN "10" ELSE @])

PickHour(t, h) ==
    /\ h # page[t].hour
    /\ Touch(t, [page[t] EXCEPT !.hour = h])

\* clear()
ClearDate(t) ==
    /\ page[t].date # Empty \/ page[t].hour # Empty
    /\ Touch(t, [page[t] EXCEPT !.date = Empty, !.hour = Empty])

\* What the select of the status sends: nothing if the option that is chosen is disabled,
\* and both PollForm and the template take ACTIVE then.
Disabled(p)   == ~StatusAllowed(p.original, p.status)
SentStatus(p) == IF Disabled(p) THEN "ACTIVE" ELSE p.status

\* The form the browser makes of the page.  A box that is not checked is not sent.
Form(p) == [status |-> SentStatus(p), visibility |-> p.visibility, mandatory |-> p.mandatory,
            allowEdit |-> p.allowEdit, options |-> p.options, ends |-> Combined(p),
            invited |-> p.invited]

-----------------------------------------------------------------------------
(* The requests. *)

OpenNew(t) ==
    /\ row = NoRow /\ t \notin DOMAIN page
    /\ \A u \in DOMAIN page : page[u].original # New     \* a second poll is another row
    /\ page' = [u \in DOMAIN page \cup {t} |-> IF u = t THEN RenderedNew ELSE page[u]]
    /\ UNCHANGED <<row, audience, people, request, excuses, touches, saves>>

\* A new tab; what an open one shows is no input of the server.
OpenEdit(t) ==
    /\ row # NoRow /\ t \notin DOMAIN page
    /\ page' = [u \in DOMAIN page \cup {t} |-> IF u = t THEN RenderedRow ELSE page[u]]
    /\ UNCHANGED <<row, audience, people, request, excuses, touches, saves>>

\* Save, and the row the request loads; the page stands still until it is answered.
Submit(t) ==
    /\ request[t].pc = "idle"
    /\ ~SaveBlocked(page[t])
    /\ saves < MaxSaves
    /\ saves' = saves + 1
    /\ request' = [request EXCEPT ![t] =
          [pc |-> "loaded", form |-> Form(page[t]), disturbed |-> FALSE,
           loaded |-> IF page[t].original = New THEN NoRow ELSE row]]
    /\ UNCHANGED <<row, audience, people, page, excuses, touches>>

AllowedTransitions ==
    [new |-> {"DRAFT", "ACTIVE"}, DRAFT |-> {"DRAFT", "ACTIVE"},
     ACTIVE |-> {"ACTIVE", "CLOSED"}, CLOSED |-> {"CLOSED"}]

Restricted(poll) == poll.status = "ACTIVE" /\ (poll.mandatory \/ poll.visibility = "PRIVATE")

\* Mutant: nobody has to be invited.
ObjectionsButAudience(form, loaded) ==
    {o \in {"mandatory", "status", "options"} :
        \/ o = "mandatory" /\ form.visibility = "PUBLIC" /\ form.mandatory
        \/ o = "status" /\ form.status \notin AllowedTransitions[loaded.status]
        \/ o = "options" /\ form.status = "ACTIVE" /\ ~form.options}

\* PollForm, then create_poll or update_poll before they change anything.
Objections(form, loaded) ==
    {o \in {"mandatory", "status", "options", "audience"} :
        \/ o = "mandatory" /\ form.visibility = "PUBLIC" /\ form.mandatory
        \/ o = "status" /\ form.status \notin AllowedTransitions[loaded.status]
        \/ o = "options" /\ form.status = "ACTIVE" /\ ~form.options
        \/ o = "audience" /\ Restricted(form) /\ form.invited = {}}

Ended(t)      == [request EXCEPT ![t] = Idle]
InFlight      == {t \in Tabs : request[t].pc # "idle"}
Interfere(rs, others) ==
    [u \in Tabs |-> IF u \in others THEN [rs[u] EXCEPT !.disturbed = TRUE] ELSE rs[u]]

\* The form is not accepted: it is objected to, another field is invalid, or votes would
\* be lost and the owner has to confirm.  The page comes back.
Return(t) ==
    LET r == request[t]
    IN  /\ r.pc = "loaded"
        /\ page' = [page EXCEPT ![t] = RenderedForm(r.loaded.status, r.form)]
        /\ request' = Ended(t)
        /\ UNCHANGED <<row, audience, people, excuses, touches, saves>>

\* to_utc: an hour that the clocks skip is taken as the one they go on with.
ToUtc(time) == IF time \in Skipped THEN <<time[1], "03">> ELSE time

\* PollForm.model_validate: allow_edit_responses is True if it is sent and by default.
Parsed(form) == [form EXCEPT !.allowEdit = TRUE, !.ends = ToUtc(@)]

\* The UPDATE has the columns that differ from the row as loaded.
WriteBack(current, loaded, mine) == IF mine = loaded THEN current ELSE mine

\* The first commit of create_poll or update_poll: row and options.
Commit(t) ==
    LET form   == Parsed(request[t].form)
        loaded == request[t].loaded
    IN  /\ request[t].pc = "loaded"
        /\ Objections(form, loaded) = {}
        /\ row' = [status     |-> WriteBack(row.status, loaded.status, form.status),
                   visibility |-> WriteBack(row.visibility, loaded.visibility, form.visibility),
                   mandatory  |-> WriteBack(row.mandatory, loaded.mandatory, form.mandatory),
                   allowEdit  |-> WriteBack(row.allowEdit, loaded.allowEdit, form.allowEdit),
                   options    |-> form.options,
                   ends       |-> WriteBack(row.ends, loaded.ends, form.ends)]
        /\ request' = Interfere([request EXCEPT ![t].pc = "committed"], InFlight \ {t})
        /\ excuses' = IF InFlight = {t} THEN excuses ELSE excuses \cup {"overlap"}
        /\ UNCHANGED <<audience, people, page, touches, saves>>

\* db.refresh; a new poll to which nobody was invited is done then.
Refresh(t) ==
    LET r == request[t]
    IN  /\ r.pc = "committed"
        /\ request' = [request EXCEPT
              ![t].pc = IF page[t].original = New /\ r.form.invited = {}
                        THEN "written" ELSE "refreshed",
              ![t].loaded = row]
        /\ UNCHANGED <<row, audience, people, page, excuses, touches, saves>>

\* set_poll_audience
Refused(t) == Restricted(request[t].loaded) /\ request[t].form.invited = {}

\* Mutant: the new people are added to the old.
WriteAudienceOnTop(t) ==
    LET r     == request[t]
        found == r.form.invited \cap people
    IN  /\ r.pc = "refreshed" /\ ~Refused(t)
        /\ audience' = audience \cup found
        /\ request' = Interfere([request EXCEPT ![t].pc = "written"], InFlight \ {t})
        /\ excuses' = IF found # r.form.invited THEN excuses \cup {"unknown"}
                      ELSE IF r.disturbed \/ InFlight # {t} THEN excuses ELSE {}
        /\ UNCHANGED <<row, people, page, touches, saves>>

\* The second commit.  Ids of nobody are dropped.  A save that nothing interfered with
\* leaves no excuse.
WriteAudience(t) ==
    LET r     == request[t]
        found == r.form.invited \cap people
    IN  /\ r.pc = "refreshed" /\ ~Refused(t)
        /\ audience' = found
        /\ request' = Interfere([request EXCEPT ![t].pc = "written"], InFlight \ {t})
        /\ excuses' = IF found # r.form.invited THEN excuses \cup {"unknown"}
                      ELSE IF r.disturbed \/ InFlight # {t} THEN excuses ELSE {}
        /\ UNCHANGED <<row, people, page, touches, saves>>

\* The rules have changed between the commits: an error, with the row committed.
RefuseAudience(t) ==
    LET r == request[t]
    IN  /\ r.pc = "refreshed" /\ Refused(t)
        /\ page' = [page EXCEPT ![t] = RenderedForm(r.loaded.status, r.form)]
        /\ request' = Ended(t)
        /\ UNCHANGED <<row, audience, people, excuses, touches, saves>>

\* The redirect, and the page it leads to.
Answer(t) ==
    /\ request[t].pc = "written"
    /\ page' = [page EXCEPT ![t] = RenderedRow]
    /\ request' = Ended(t)
    /\ UNCHANGED <<row, audience, people, excuses, touches, saves>>

-----------------------------------------------------------------------------
(* The environment. *)

\* The owner closes the tab, or the request dies and leaves an error page.
Lose(t) ==
    /\ page' = [u \in DOMAIN page \ {t} |-> page[u]]
    /\ request' = Ended(t)
    /\ excuses' = IF request[t].pc \in {"committed", "refreshed"}
                  THEN excuses \cup {"interrupted"} ELSE excuses
    /\ UNCHANGED <<row, audience, people, touches, saves>>

\* close_due_polls
CloseDue ==
    /\ row.status = "ACTIVE" /\ row.ends # NoTime
    /\ row' = [row EXCEPT !.status = "CLOSED"]
    /\ request' = Interfere(request, InFlight)
    /\ UNCHANGED <<audience, people, page, excuses, touches, saves>>

\* An account or a group is deleted, and leaves the audience (ON DELETE CASCADE).
Delete(p) ==
    /\ p \in people
    /\ people' = people \ {p}
    /\ audience' = audience \ {p}
    /\ excuses' = IF p \in audience THEN excuses \cup {"removed"} ELSE excuses
    /\ request' = Interfere(request, InFlight)
    /\ UNCHANGED <<row, page, touches, saves>>

Change(t) ==
    \/ \E status \in PollStatuses : SetStatus(t, status)
    \/ \E visibility \in {"PUBLIC", "PRIVATE"} : SetVisibility(t, visibility)
    \/ ToggleMandatory(t) \/ ToggleAllowEdit(t)
    \/ \E p \in People : Invite(t, p) \/ Disinvite(t, p)
    \/ CountOptions(t)
    \/ \E d \in Dates \cup {Empty} : PickDate(t, d)
    \/ \E h \in Hours \cup {Empty} : PickHour(t, h)
    \/ ClearDate(t)

Save(t) ==
    \/ Submit(t) \/ Return(t) \/ Commit(t) \/ Refresh(t)
    \/ WriteAudience(t) \/ RefuseAudience(t) \/ Answer(t)

EditNext ==
    \/ \E t \in Tabs : OpenNew(t) \/ OpenEdit(t)
    \/ \E t \in DOMAIN page : Change(t) \/ Save(t) \/ Lose(t)
    \/ CloseDue
    \/ \E p \in People : Delete(p)

EditSpec == EditInit /\ [][EditNext]_editVars

-----------------------------------------------------------------------------
(* Properties. *)

Page == [original : PollStatuses \cup {New}, status : PollStatuses,
         visibility : {"PUBLIC", "PRIVATE"}, mandatory : BOOLEAN, allowEdit : BOOLEAN,
         options : BOOLEAN, invited : SUBSET People, date : Dates \cup {Empty}, hour : Hours \cup {Empty}]

SentForm == [status : PollStatuses, visibility : {"PUBLIC", "PRIVATE"}, mandatory : BOOLEAN,
             allowEdit : BOOLEAN, options : BOOLEAN, ends : Times \cup {NoTime}, invited : SUBSET People]

Request == [pc : {"idle", "loaded", "committed", "refreshed", "written"},
            form : SentForm, loaded : Row \cup {NoRow}, disturbed : BOOLEAN]

EditTypeOK ==
    /\ row \in Row \cup {NoRow}
    /\ audience \subseteq people /\ people \subseteq People
    /\ DOMAIN page \subseteq Tabs
    /\ \A t \in DOMAIN page : page[t] \in Page
    /\ request \in [Tabs -> Request]
    /\ InFlight \subseteq DOMAIN page
    /\ excuses \subseteq {"overlap", "unknown", "removed", "interrupted"}

\* An open poll has options, somebody to answer it if it is private, and makes nobody
\* answer it if it is public: unless two saves overlapped or one died half done, or those
\* invited are gone, and again after the next save that nothing interferes with.
OpenPollsAreSound ==
    excuses = {} /\ (\A t \in Tabs : request[t].pc \notin {"committed", "refreshed"})
        => Sound(row, audience)

\* A form the page lets through is not objected to, but for the status if the row has
\* moved on since the page was made, and unless the menu shows a status it has disabled.
GateSuffices ==
    \A t \in Tabs : request[t].pc = "loaded" /\ ~Disabled(page[t])
        => Objections(request[t].form, request[t].loaded)
              \subseteq IF page[t].original = request[t].loaded.status THEN {} ELSE {"status"}

\* A page that shows the poll as a draft does not open it, however old the page is.
NotOpenedUnseen ==
    [][\A t \in Tabs : request[t].pc = "loaded" /\ request'[t].pc = "committed"
          /\ row.status \in {New, "DRAFT"} /\ row'.status = "ACTIVE" => page[t].status = "ACTIVE"]_editVars

\* What comes back is what was shown, accepted or not, unless somebody else changed the
\* poll or those invited in between: an hour without a date, people who are gone and a
\* status the menu has disabled aside.  An hour that the clocks skip comes back as another.
\* A box the owner clears may come back checked, for PollForm takes one that is not sent for
\* checked, and so does the page of a new poll; one that is checked never comes back cleared.
Shown(p)   == [Form(p) EXCEPT !.status = p.status]
Same(p, q) ==
    /\ \A field \in {"status", "visibility", "mandatory", "options"} :
          Form(p)[field] = Shown(q)[field]
    /\ q.invited = p.invited \cap people
    /\ Combined(q) = Combined(p) \/ Combined(p) \in Skipped
    /\ p.allowEdit => q.allowEdit
RoundTrip ==
    [][\A t \in Tabs : request[t].pc # "idle" /\ request'[t].pc = "idle" /\ t \in DOMAIN page'
          /\ ~request[t].disturbed => Same(page[t], page'[t])]_editVars
=============================================================================
