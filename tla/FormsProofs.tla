---------------------------- MODULE FormsProofs ----------------------------
(***************************************************************************)
(* Theorems about the forms in the browser: the settings of a poll          *)
(* (EditForm), for any sets of tabs, people and dates; the vote form        *)
(* (VoteEditor), for any options, groups and caps; the table of groups      *)
(* (GroupSettings); and the three together, as MCForms has them.            *)
(***************************************************************************)
EXTENDS MCForms, FiniteSetTheorems, TLAPS

(***************************************************************************)
(* Types.                                                                  *)
(***************************************************************************)

\* Settings that a page can be made from: of a row, of a form, or of no row.
Settings(s) ==
    /\ s.status \in PollStatuses /\ s.visibility \in {"PUBLIC", "PRIVATE"}
    /\ s.mandatory \in BOOLEAN /\ s.allowEdit \in BOOLEAN /\ s.options \in BOOLEAN
    /\ s.ends \in Times \cup {NoTime}

\* The page changes the checkbox at most.
LEMMA SettleType ==
    ASSUME NEW p \in Page
    PROVE  /\ Settle(p) \in Page
           /\ Settle(p).original = p.original /\ Settle(p).status = p.status
           /\ Settle(p).visibility = p.visibility /\ Settle(p).options = p.options
           /\ Settle(p).invited = p.invited
           /\ Settle(p).date = p.date /\ Settle(p).hour = p.hour
           /\ Settle(p).allowEdit = p.allowEdit
           /\ Settle(p).mandatory = (p.mandatory /\ p.visibility = "PRIVATE")
BY DEF Settle, Page

\* Both inputs are read off a date that is stored.
LEMMA EndsType ==
    ASSUME NEW e \in Times \cup {NoTime}
    PROVE  /\ e[1] \in Dates \cup {Empty} /\ e[2] \in Hours \cup {Empty}
           /\ e[1] # Empty => e[2] # Empty
           /\ e = <<e[1], e[2]>>
<1>1. CASE e = NoTime
  BY <1>1 DEF NoTime
<1>2. CASE e \in Times
  <2>1. PICK d \in Dates, h \in Hours : e = <<d, h>>
    BY <1>2 DEF Times
  <2>2. h # Empty
    BY DEF Hours, Empty
  <2>3. QED
    BY <2>1, <2>2
<1>3. QED
  BY <1>1, <1>2

LEMMA RenderedType ==
    ASSUME NEW original \in PollStatuses \cup {New}, NEW s, Settings(s),
           NEW invited \in SUBSET People
    PROVE  /\ Rendered(original, s, invited) \in Page
           /\ Rendered(original, s, invited).original = original
           /\ Rendered(original, s, invited).status = s.status
           /\ Rendered(original, s, invited).visibility = s.visibility
           /\ Rendered(original, s, invited).options = s.options
           /\ Rendered(original, s, invited).invited = invited
           /\ Rendered(original, s, invited).date = s.ends[1]
           /\ Rendered(original, s, invited).hour = s.ends[2]
           /\ Rendered(original, s, invited).allowEdit = (original = New \/ s.allowEdit)
           /\ Rendered(original, s, invited).mandatory = (s.mandatory /\ s.visibility = "PRIVATE")
<1> DEFINE p == [original |-> original, status |-> s.status,
                 visibility |-> s.visibility, mandatory |-> s.mandatory,
                 allowEdit |-> original = New \/ s.allowEdit,
                 options |-> s.options, invited |-> invited,
                 date |-> s.ends[1], hour |-> s.ends[2]]
<1>1. s.ends[1] \in Dates \cup {Empty} /\ s.ends[2] \in Hours \cup {Empty}
  BY EndsType DEF Settings
<1>2. p \in Page
  BY <1>1 DEF Page, Settings
<1>3. Rendered(original, s, invited) = Settle(p)
  BY DEF Rendered
<1> HIDE DEF p
<1>4. /\ p.original = original /\ p.status = s.status /\ p.visibility = s.visibility
      /\ p.mandatory = s.mandatory /\ p.options = s.options /\ p.invited = invited
      /\ p.date = s.ends[1] /\ p.hour = s.ends[2]
      /\ p.allowEdit = (original = New \/ s.allowEdit)
  BY DEF p
<1>5. QED
  BY <1>2, <1>3, <1>4, SettleType

\* No page shows a public poll with the checkbox on.
LEMMA RenderedOff ==
    ASSUME NEW original, NEW s, NEW invited
    PROVE  Rendered(original, s, invited).visibility = "PUBLIC"
               => Rendered(original, s, invited).mandatory = FALSE
<1> DEFINE p == [original |-> original, status |-> s.status,
                 visibility |-> s.visibility, mandatory |-> s.mandatory,
                 allowEdit |-> original = New \/ s.allowEdit,
                 options |-> s.options, invited |-> invited,
                 date |-> s.ends[1], hour |-> s.ends[2]]
<1>1. Rendered(original, s, invited) = Settle(p)
  BY DEF Rendered
<1>2. Settle(p).visibility = "PUBLIC" => Settle(p).mandatory = FALSE
  BY DEF Settle
<1>3. QED
  BY <1>1, <1>2

LEMMA CombinedType ==
    ASSUME NEW p \in Page
    PROVE  Combined(p) \in Times \cup {NoTime}
<1>1. CASE p.date = Empty
  BY <1>1 DEF Combined
<1>2. CASE p.date # Empty
  <2>1. p.date \in Dates
    BY <1>2 DEF Page
  <2>2. (IF p.hour = Empty THEN "00" ELSE p.hour) \in Hours
    BY DEF Page, Hours
  <2>3. QED
    BY <1>2, <2>1, <2>2 DEF Combined, Times
<1>3. QED
  BY <1>1, <1>2

\* What a form says, field by field.
LEMMA FormType ==
    ASSUME NEW p \in Page
    PROVE  /\ Form(p) \in SentForm
           /\ Settings(Form(p))
           /\ Form(p).status = SentStatus(p) /\ Form(p).visibility = p.visibility
           /\ Form(p).mandatory = p.mandatory /\ Form(p).options = p.options
           /\ Form(p).ends = Combined(p) /\ Form(p).invited = p.invited
           /\ Form(p).allowEdit = p.allowEdit
<1>1. SentStatus(p) \in PollStatuses
  BY DEF SentStatus, Page, PollStatuses
<1>2. Combined(p) \in Times \cup {NoTime}
  BY CombinedType
<1>3. QED
  BY <1>1, <1>2 DEF Form, SentForm, Settings, Page

\* A row, and also NoRow, is made of settings; the statuses tell the two apart.
LEMMA RowSettings ==
    /\ \A r \in Row : /\ Settings(r) /\ r.status # New /\ r # NoRow
                      /\ r = [status |-> r.status, visibility |-> r.visibility,
                              mandatory |-> r.mandatory, allowEdit |-> r.allowEdit,
                              options |-> r.options, ends |-> r.ends]
    /\ NoRow.status = New
    /\ NoForm \in SentForm
    /\ \A f \in SentForm : Settings(f) /\ f.invited \in SUBSET People
BY DEF Row, Instants, NoRow, New, Settings, PollStatuses, SentForm, NoForm, NoTime

\* An hour that the clocks skip is taken as the next one, every other as it is.
LEMMA ToUtcType ==
    ASSUME NEW e \in Times \cup {NoTime}
    PROVE  /\ ToUtc(e) \in Instants \cup {NoTime}
           /\ ToUtc(e) = e \/ (e \in Skipped /\ ToUtc(e)[1] = e[1])
<1>1. CASE e \in Skipped
  <2>1. PICK d \in ChangeDays : e = <<d, "02">>
    BY <1>1 DEF Skipped
  <2>2. ToUtc(e) = <<d, "03">> /\ <<d, "03">> \notin Skipped
    BY <1>1, <2>1 DEF ToUtc, Skipped
  <2>3. d \in Dates /\ "03" \in Hours
    <3>1. e # NoTime
      BY <2>1 DEF NoTime, Empty
    <3>2. QED
      BY <2>1, <3>1 DEF Times, Hours
  <2>4. <<d, "03">> \in Times
    BY <2>3 DEF Times
  <2>5. QED
    BY <1>1, <2>1, <2>2, <2>4 DEF Instants
<1>2. CASE e \notin Skipped
  BY <1>2 DEF ToUtc, Instants
<1>3. QED
  BY <1>1, <1>2

\* What the server makes of a form: the time as it is stored, the box checked, and the rest
\* as it was sent, so that the rules say of it what they say of the form.
LEMMA ParsedType ==
    ASSUME NEW form \in SentForm
    PROVE  /\ Parsed(form).status = form.status /\ Parsed(form).visibility = form.visibility
           /\ Parsed(form).mandatory = form.mandatory /\ Parsed(form).options = form.options
           /\ Parsed(form).invited = form.invited
           /\ Parsed(form).allowEdit = TRUE /\ Parsed(form).ends = ToUtc(form.ends)
           /\ Parsed(form).ends \in Instants \cup {NoTime}
           /\ \A loaded : Objections(Parsed(form), loaded) = Objections(form, loaded)
<1>1. /\ Parsed(form).status = form.status /\ Parsed(form).visibility = form.visibility
      /\ Parsed(form).mandatory = form.mandatory /\ Parsed(form).options = form.options
      /\ Parsed(form).invited = form.invited
      /\ Parsed(form).allowEdit = TRUE /\ Parsed(form).ends = ToUtc(form.ends)
  BY DEF Parsed, SentForm
<1>2. form.ends \in Times \cup {NoTime}
  BY DEF SentForm
<1>3. Parsed(form).ends \in Instants \cup {NoTime}
  BY <1>1, <1>2, ToUtcType
<1>4. ASSUME NEW loaded PROVE Objections(Parsed(form), loaded) = Objections(form, loaded)
  BY <1>1 DEF Objections, Restricted
<1>5. QED
  BY <1>1, <1>3, <1>4

LEMMA RenderedRowType ==
    ASSUME EditTypeOK, row # NoRow
    PROVE  RenderedRow \in Page
BY RowSettings, RenderedType DEF RenderedRow, EditTypeOK, Row

LEMMA RenderedRowIs ==
    ASSUME EditTypeOK, row # NoRow
    PROVE  /\ row.status \in PollStatuses
           /\ RenderedRow.original = row.status /\ RenderedRow.status = row.status
           /\ RenderedRow.visibility = "PUBLIC" => RenderedRow.mandatory = FALSE
<1>1. Settings(row) /\ audience \in SUBSET People
  BY RowSettings DEF EditTypeOK
<1>2. row.status \in PollStatuses
  BY <1>1 DEF Settings
<1>3. RenderedRow = Rendered(row.status, row, audience)
  BY DEF RenderedRow
<1>4. RenderedRow.original = row.status /\ RenderedRow.status = row.status
  BY <1>1, <1>2, <1>3, RenderedType
<1>5. RenderedRow.visibility = "PUBLIC" => RenderedRow.mandatory = FALSE
  BY <1>3, RenderedOff
<1>6. QED
  BY <1>2, <1>4, <1>5

LEMMA RenderedNewType == RenderedNew \in Page
<1>1. Settings([NoRow EXCEPT !.status = "ACTIVE"])
  BY DEF NoRow, Settings, PollStatuses, NoTime
<1>2. QED
  BY <1>1, RenderedType DEF RenderedNew

\* One tab has another page, a new page or none.
LEMMA PageType ==
    ASSUME EditTypeOK, NEW t \in Tabs, NEW p \in Page,
           \/ t \in DOMAIN page /\ page' = [page EXCEPT ![t] = p]
           \/ page' = [u \in DOMAIN page \cup {t} |-> IF u = t THEN p ELSE page[u]]
    PROVE  /\ DOMAIN page' = DOMAIN page \cup {t}
           /\ DOMAIN page' \subseteq Tabs
           /\ page'[t] = p
           /\ \A u \in DOMAIN page : u # t => page'[u] = page[u]
           /\ \A u \in DOMAIN page' : page'[u] \in Page
BY DEF EditTypeOK

\* A request ends.
LEMMA EndedType ==
    ASSUME EditTypeOK, NEW t \in Tabs, request' = Ended(t)
    PROVE  /\ request' \in [Tabs -> Request]
           /\ request'[t] = Idle /\ Idle.pc = "idle"
           /\ \A u \in Tabs : u # t => request'[u] = request[u]
           /\ InFlight' = InFlight \ {t}
<1>1. Idle \in Request
  BY RowSettings DEF Idle, Request
<1>2. /\ request'[t] = Idle /\ Idle.pc = "idle"
      /\ \A u \in Tabs : u # t => request'[u] = request[u]
  BY DEF Ended, EditTypeOK, Idle
<1>3. QED
  BY <1>1, <1>2 DEF Ended, EditTypeOK, InFlight

\* A request goes on, with or without another row in hand.
LEMMA GoesOnType ==
    ASSUME EditTypeOK, NEW t \in Tabs, request[t].pc # "idle",
           NEW pc \in {"loaded", "committed", "refreshed", "written"},
           NEW loaded \in Row \cup {NoRow},
           request' = [request EXCEPT ![t].pc = pc, ![t].loaded = loaded]
    PROVE  /\ request' \in [Tabs -> Request]
           /\ InFlight' = InFlight
           /\ request'[t].pc = pc /\ request'[t].loaded = loaded
           /\ request'[t].form = request[t].form
           /\ request'[t].disturbed = request[t].disturbed
           /\ \A u \in Tabs : u # t => request'[u] = request[u]
<1> DEFINE r == [request[t] EXCEPT !.pc = pc, !.loaded = loaded]
<1>1. request' = [request EXCEPT ![t] = r]
  BY DEF EditTypeOK
<1>2. r \in Request /\ r.pc = pc /\ r.loaded = loaded /\ r.form = request[t].form
      /\ r.disturbed = request[t].disturbed
  BY DEF EditTypeOK, Request
<1> HIDE DEF r
<1>3. QED
  BY <1>1, <1>2 DEF EditTypeOK, InFlight

\* Others have changed the poll or its people: those in flight learn nothing of it.
LEMMA InterfereType ==
    ASSUME EditTypeOK, NEW rs \in [Tabs -> Request], NEW others \in SUBSET Tabs,
           request' = Interfere(rs, others)
    PROVE  /\ request' \in [Tabs -> Request]
           /\ \A u \in Tabs : /\ request'[u].pc = rs[u].pc
                              /\ request'[u].form = rs[u].form
                              /\ request'[u].loaded = rs[u].loaded
                              /\ u \in others => request'[u].disturbed = TRUE
                              /\ u \notin others => request'[u] = rs[u]
<1>1. \A u \in Tabs : request'[u] = IF u \in others THEN [rs[u] EXCEPT !.disturbed = TRUE] ELSE rs[u]
  BY DEF Interfere
<1>2. \A u \in Tabs : rs[u] \in Request /\ [rs[u] EXCEPT !.disturbed = TRUE] \in Request
  BY DEF Request
<1>3. \A u \in Tabs : /\ request'[u].pc = rs[u].pc
                      /\ request'[u].form = rs[u].form
                      /\ request'[u].loaded = rs[u].loaded
                      /\ u \in others => request'[u].disturbed = TRUE
                      /\ u \notin others => request'[u] = rs[u]
  BY <1>1, <1>2 DEF Request
<1>4. request' \in [Tabs -> Request]
  BY <1>2 DEF Interfere
<1>5. ASSUME NEW u \in Tabs
      PROVE  /\ request'[u].pc = rs[u].pc
             /\ request'[u].form = rs[u].form
             /\ request'[u].loaded = rs[u].loaded
             /\ u \in others => request'[u].disturbed = TRUE
             /\ u \notin others => request'[u] = rs[u]
  BY <1>3
<1>6. QED
  BY <1>4, <1>5

\* The two steps that write: the request goes on, the others are disturbed.
LEMMA WritesType ==
    ASSUME EditTypeOK, NEW t \in Tabs, request[t].pc # "idle",
           NEW pc \in {"loaded", "committed", "refreshed", "written"},
           request' = Interfere([request EXCEPT ![t].pc = pc], InFlight \ {t})
    PROVE  /\ request' \in [Tabs -> Request]
           /\ InFlight' = InFlight
           /\ request'[t].pc = pc
           /\ request'[t].disturbed = request[t].disturbed
           /\ \A u \in Tabs : /\ u # t => request'[u].pc = request[u].pc
                              /\ request'[u].form = request[u].form
                              /\ request'[u].loaded = request[u].loaded
                              /\ u # t /\ request[u].pc # "idle" => request'[u].disturbed = TRUE
<1> DEFINE rs == [request EXCEPT ![t].pc = pc]
<1>1. /\ rs \in [Tabs -> Request]
      /\ rs[t].pc = pc /\ rs[t].form = request[t].form
      /\ rs[t].loaded = request[t].loaded /\ rs[t].disturbed = request[t].disturbed
      /\ \A u \in Tabs : u # t => rs[u] = request[u]
  BY DEF EditTypeOK, Request
<1>2. InFlight \ {t} \in SUBSET Tabs
  BY DEF InFlight
<1>3. request' = Interfere(rs, InFlight \ {t})
  OBVIOUS
<1> HIDE DEF rs
<1>4. /\ request' \in [Tabs -> Request]
      /\ \A u \in Tabs : /\ request'[u].pc = rs[u].pc
                         /\ request'[u].form = rs[u].form
                         /\ request'[u].loaded = rs[u].loaded
                         /\ u \in InFlight \ {t} => request'[u].disturbed = TRUE
                         /\ u \notin InFlight \ {t} => request'[u] = rs[u]
  BY <1>1, <1>2, <1>3, InterfereType
<1>5. InFlight' = InFlight
  <2>1. \A u \in Tabs : request'[u].pc # "idle" <=> request[u].pc # "idle"
    BY <1>1, <1>4
  <2>2. QED
    BY <2>1 DEF InFlight
<1>6. request'[t].disturbed = request[t].disturbed
  BY <1>1, <1>4
<1>7. \A u \in Tabs : u # t /\ request[u].pc # "idle" => request'[u].disturbed = TRUE
  BY <1>4 DEF InFlight
<1>8. ASSUME NEW u \in Tabs
      PROVE  /\ u # t => request'[u].pc = request[u].pc
             /\ request'[u].form = request[u].form
             /\ request'[u].loaded = request[u].loaded
  BY <1>1, <1>4
<1>9. request'[t].pc = pc /\ request' \in [Tabs -> Request]
  BY <1>1, <1>4
<1>10. QED
  BY <1>5, <1>6, <1>7, <1>8, <1>9

\* The task and SCIM disturb all requests.
LEMMA DisturbAll ==
    ASSUME EditTypeOK, request' = Interfere(request, InFlight)
    PROVE  /\ request' \in [Tabs -> Request] /\ InFlight' = InFlight
           /\ \A u \in Tabs : /\ request'[u].pc = request[u].pc
                              /\ request'[u].form = request[u].form
                              /\ request'[u].loaded = request[u].loaded
                              /\ request[u].pc # "idle" => request'[u].disturbed = TRUE
<1>1. request \in [Tabs -> Request] /\ InFlight \in SUBSET Tabs
  BY DEF EditTypeOK, InFlight
<1>2. /\ request' \in [Tabs -> Request]
      /\ \A u \in Tabs : /\ request'[u].pc = request[u].pc
                         /\ request'[u].form = request[u].form
                         /\ request'[u].loaded = request[u].loaded
                         /\ u \in InFlight => request'[u].disturbed = TRUE
  BY <1>1, InterfereType
<1>3. InFlight' = InFlight
  BY <1>2 DEF InFlight
<1>4. \A u \in Tabs : request[u].pc # "idle" => u \in InFlight
  BY DEF InFlight
<1>5. QED
  BY <1>2, <1>3, <1>4

\* A change leaves a page on which the checkbox follows the visibility and the status is
\* the one before or one the menu offers.
LEMMA ChangeType ==
    ASSUME EditTypeOK, NEW t \in DOMAIN page, Change(t)
    PROVE  /\ request[t].pc = "idle"
           /\ UNCHANGED <<row, audience, people, request, excuses, saves>>
           /\ \E p \in Page :
                 /\ page' = [page EXCEPT ![t] = p]
                 /\ p.original = page[t].original
                 /\ p.visibility = "PUBLIC" => p.mandatory = FALSE
                 /\ p.status = page[t].status \/ StatusAllowed(p.original, p.status)
<1> DEFINE Changed(p) == /\ p \in Page /\ p.original = page[t].original
                         /\ p.status = page[t].status \/ StatusAllowed(p.original, p.status)
<1>1. page[t] \in Page
  BY DEF EditTypeOK
<1>2. ASSUME NEW p, Changed(p), Touch(t, p)
      PROVE  /\ request[t].pc = "idle"
             /\ UNCHANGED <<row, audience, people, request, excuses, saves>>
             /\ \E q \in Page :
                   /\ page' = [page EXCEPT ![t] = q]
                   /\ q.original = page[t].original
                   /\ q.visibility = "PUBLIC" => q.mandatory = FALSE
                   /\ q.status = page[t].status \/ StatusAllowed(q.original, q.status)
  <2>1. /\ Settle(p) \in Page /\ Settle(p).original = page[t].original
        /\ Settle(p).visibility = "PUBLIC" => Settle(p).mandatory = FALSE
        /\ Settle(p).status = page[t].status \/ StatusAllowed(Settle(p).original, Settle(p).status)
    BY <1>2, SettleType
  <2>2. /\ request[t].pc = "idle" /\ page' = [page EXCEPT ![t] = Settle(p)]
        /\ UNCHANGED <<row, audience, people, request, excuses, saves>>
    BY <1>2 DEF Touch
  <2>3. QED
    BY <2>1, <2>2
<1>3. ASSUME NEW status \in PollStatuses, SetStatus(t, status)
      PROVE  \E p : Changed(p) /\ Touch(t, p)
  <2>1. Changed([page[t] EXCEPT !.status = status])
    BY <1>1, <1>3 DEF SetStatus, Page
  <2>2. QED
    BY <1>3, <2>1 DEF SetStatus
<1>4. ASSUME NEW v \in {"PUBLIC", "PRIVATE"}, SetVisibility(t, v)
      PROVE  \E p : Changed(p) /\ Touch(t, p)
  <2>1. Changed([page[t] EXCEPT !.visibility = v])
    BY <1>1 DEF Page
  <2>2. QED
    BY <1>4, <2>1 DEF SetVisibility
<1>5. ASSUME ToggleMandatory(t)
      PROVE  \E p : Changed(p) /\ Touch(t, p)
  <2>1. Changed([page[t] EXCEPT !.mandatory = ~@])
    BY <1>1 DEF Page
  <2>2. QED
    BY <1>5, <2>1 DEF ToggleMandatory
<1>6. ASSUME NEW q \in People, Invite(t, q) \/ Disinvite(t, q)
      PROVE  \E p : Changed(p) /\ Touch(t, p)
  <2>1. /\ Changed([page[t] EXCEPT !.invited = @ \cup {q}])
        /\ Changed([page[t] EXCEPT !.invited = @ \ {q}])
    BY <1>1 DEF Page
  <2>2. QED
    BY <1>6, <2>1 DEF Invite, Disinvite
<1>7. ASSUME CountOptions(t)
      PROVE  \E p : Changed(p) /\ Touch(t, p)
  <2>1. Changed([page[t] EXCEPT !.options = ~@])
    BY <1>1 DEF Page
  <2>2. QED
    BY <1>7, <2>1 DEF CountOptions
<1>8. ASSUME NEW d \in Dates \cup {Empty}, PickDate(t, d)
      PROVE  \E p : Changed(p) /\ Touch(t, p)
  <2>1. Changed([page[t] EXCEPT !.date = d,
                    !.hour = IF page[t].date = Empty /\ @ = Empty THEN "10" ELSE @])
    BY <1>1 DEF Page, Hours
  <2>2. QED
    BY <1>8, <2>1 DEF PickDate
<1>9. ASSUME NEW h \in Hours \cup {Empty}, PickHour(t, h)
      PROVE  \E p : Changed(p) /\ Touch(t, p)
  <2>1. Changed([page[t] EXCEPT !.hour = h])
    BY <1>1 DEF Page
  <2>2. QED
    BY <1>9, <2>1 DEF PickHour
<1>10. ASSUME ClearDate(t)
       PROVE  \E p : Changed(p) /\ Touch(t, p)
  <2>1. Changed([page[t] EXCEPT !.date = Empty, !.hour = Empty])
    BY <1>1 DEF Page
  <2>2. QED
    BY <1>10, <2>1 DEF ClearDate
<1>11. ASSUME ToggleAllowEdit(t)
       PROVE  \E p : Changed(p) /\ Touch(t, p)
  <2>1. Changed([page[t] EXCEPT !.allowEdit = ~@])
    BY <1>1 DEF Page
  <2>2. QED
    BY <1>11, <2>1 DEF ToggleAllowEdit
<1> HIDE DEF Changed
<1>12. QED
  BY <1>2, <1>3, <1>4, <1>5, <1>6, <1>7, <1>8, <1>9, <1>10, <1>11 DEF Change

\* While there is no row nobody has seen one.
Known ==
    row = NoRow =>
        /\ audience = {}
        /\ \A t \in DOMAIN page : page[t].original = New
        /\ \A t \in Tabs : request[t].pc \in {"idle", "loaded"} /\ request[t].loaded = NoRow

LEMMA WriteBackIn ==
    ASSUME NEW S, NEW current \in S, NEW mine \in S, NEW loaded
    PROVE  WriteBack(current, loaded, mine) \in S
BY DEF WriteBack

\* The row after the first commit is a row.
LEMMA CommitType ==
    ASSUME EditTypeOK, Known, NEW t \in Tabs, Commit(t)
    PROVE  /\ row' \in Row
           /\ row'.status = WriteBack(row.status, request[t].loaded.status, request[t].form.status)
<1> DEFINE form == Parsed(request[t].form)
           loaded == request[t].loaded
<1>1. request[t].form \in SentForm /\ loaded \in Row \cup {NoRow}
  BY DEF EditTypeOK, Request
<1>2. /\ form.status = request[t].form.status /\ form.status \in PollStatuses
      /\ form.visibility \in {"PUBLIC", "PRIVATE"} /\ form.mandatory \in BOOLEAN
      /\ form.allowEdit \in BOOLEAN /\ form.options \in BOOLEAN
      /\ form.ends \in Instants \cup {NoTime}
  BY <1>1, ParsedType DEF SentForm
<1>3. row' = [status     |-> WriteBack(row.status, loaded.status, form.status),
              visibility |-> WriteBack(row.visibility, loaded.visibility, form.visibility),
              mandatory  |-> WriteBack(row.mandatory, loaded.mandatory, form.mandatory),
              allowEdit  |-> WriteBack(row.allowEdit, loaded.allowEdit, form.allowEdit),
              options    |-> form.options,
              ends       |-> WriteBack(row.ends, loaded.ends, form.ends)]
  BY DEF Commit
<1> HIDE DEF form
<1>4. WriteBack(row.status, loaded.status, form.status) \in PollStatuses
  <2>1. CASE row = NoRow
    <3>1. loaded.status = New /\ form.status # New
      BY <1>1, <1>2, <2>1, RowSettings DEF Known, Commit, PollStatuses, New
    <3>2. QED
      BY <1>2, <3>1 DEF WriteBack
  <2>2. CASE row # NoRow
    BY <1>2, <2>2, RowSettings DEF WriteBack, Settings, EditTypeOK
  <2>3. QED
    BY <2>1, <2>2
<1>5. /\ row.visibility \in {"PUBLIC", "PRIVATE"} /\ row.mandatory \in BOOLEAN
      /\ row.allowEdit \in BOOLEAN /\ row.ends \in Instants \cup {NoTime}
  <2>1. CASE row \in Row
    BY <2>1 DEF Row
  <2>2. CASE row = NoRow
    BY <2>2 DEF NoRow
  <2>3. QED
    BY <2>1, <2>2 DEF EditTypeOK
<1>6. /\ WriteBack(row.visibility, loaded.visibility, form.visibility) \in {"PUBLIC", "PRIVATE"}
      /\ WriteBack(row.mandatory, loaded.mandatory, form.mandatory) \in BOOLEAN
      /\ WriteBack(row.allowEdit, loaded.allowEdit, form.allowEdit) \in BOOLEAN
      /\ WriteBack(row.ends, loaded.ends, form.ends) \in Instants \cup {NoTime}
  BY <1>2, <1>5, WriteBackIn
<1>7. row' \in Row
  BY <1>2, <1>3, <1>4, <1>6 DEF Row
<1>8. QED
  BY <1>2, <1>3, <1>7

\* A page that comes back, whatever the reason, is a page.
LEMMA ReturnedType ==
    ASSUME EditTypeOK, NEW t \in Tabs, NEW original \in PollStatuses \cup {New}
    PROVE  /\ RenderedForm(original, request[t].form) \in Page
           /\ RenderedForm(original, request[t].form).original = original
           /\ RenderedForm(original, request[t].form).status = request[t].form.status
<1>1. /\ Settings(request[t].form) /\ request[t].form.invited \cap people \in SUBSET People
  BY RowSettings DEF EditTypeOK, Request
<1>2. QED
  BY <1>1, RenderedType DEF RenderedForm

\* Every step keeps the types, and Known with them.
LEMMA EditTypeStep == EditTypeOK /\ Known /\ [EditNext]_editVars => EditTypeOK' /\ Known'
<1> SUFFICES ASSUME EditTypeOK, Known, [EditNext]_editVars PROVE EditTypeOK' /\ Known'
  OBVIOUS
<1>0. \A t \in DOMAIN page : t \in Tabs
  BY DEF EditTypeOK
<1>1. ASSUME NEW t \in Tabs, OpenNew(t) PROVE EditTypeOK' /\ Known'
  <2>1. /\ page' = [u \in DOMAIN page \cup {t} |-> IF u = t THEN RenderedNew ELSE page[u]]
        /\ UNCHANGED <<row, audience, people, request, excuses>>
    BY <1>1 DEF OpenNew
  <2>2. RenderedNew \in Page /\ RenderedNew.original = New
    <3>1. Settings([NoRow EXCEPT !.status = "ACTIVE"])
      BY DEF NoRow, Settings, PollStatuses, NoTime
    <3>2. QED
      BY <3>1, RenderedNewType, RenderedType DEF RenderedNew
  <2>3. /\ DOMAIN page' = DOMAIN page \cup {t} /\ DOMAIN page' \subseteq Tabs /\ page'[t] = RenderedNew
        /\ \A u \in DOMAIN page : u # t => page'[u] = page[u]
        /\ \A u \in DOMAIN page' : page'[u] \in Page
    BY <2>1, <2>2, PageType
  <2>4. EditTypeOK'
    BY <2>1, <2>3 DEF EditTypeOK, InFlight
  <2>5. Known'
    BY <2>1, <2>2, <2>3 DEF Known
  <2>6. QED
    BY <2>4, <2>5
<1>2. ASSUME NEW t \in Tabs, OpenEdit(t) PROVE EditTypeOK' /\ Known'
  <2>1. /\ page' = [u \in DOMAIN page \cup {t} |-> IF u = t THEN RenderedRow ELSE page[u]]
        /\ UNCHANGED <<row, audience, people, request, excuses>> /\ row # NoRow
    BY <1>2 DEF OpenEdit
  <2>2. /\ DOMAIN page' = DOMAIN page \cup {t} /\ DOMAIN page' \subseteq Tabs
        /\ \A u \in DOMAIN page' : page'[u] \in Page
    BY <2>1, RenderedRowType, PageType
  <2>3. QED
    BY <2>1, <2>2 DEF EditTypeOK, InFlight, Known
<1>3. ASSUME NEW t \in DOMAIN page, Change(t) PROVE EditTypeOK' /\ Known'
  <2>1. /\ UNCHANGED <<row, audience, people, request, excuses>>
        /\ \E p \in Page : page' = [page EXCEPT ![t] = p] /\ p.original = page[t].original
    BY <1>3, ChangeType
  <2>2. PICK p \in Page : page' = [page EXCEPT ![t] = p] /\ p.original = page[t].original
    BY <2>1
  <2>3. /\ DOMAIN page' = DOMAIN page /\ page'[t] = p
        /\ \A u \in DOMAIN page : u # t => page'[u] = page[u]
        /\ \A u \in DOMAIN page' : page'[u] \in Page
    BY <1>0, <2>2, PageType
  <2>4. QED
    BY <2>1, <2>2, <2>3 DEF EditTypeOK, InFlight, Known
<1>4. ASSUME NEW t \in DOMAIN page, Submit(t) PROVE EditTypeOK' /\ Known'
  <2> DEFINE loaded == IF page[t].original = New THEN NoRow ELSE row
             r == [pc |-> "loaded", form |-> Form(page[t]), disturbed |-> FALSE, loaded |-> loaded]
  <2>1. r \in Request /\ r.pc = "loaded" /\ r.loaded = loaded
    BY FormType DEF EditTypeOK, Request
  <2>2. request' = [request EXCEPT ![t] = r] /\ UNCHANGED <<row, audience, people, page, excuses>>
    BY <1>4 DEF Submit
  <2>3. row = NoRow => loaded = NoRow
    OBVIOUS
  <2> HIDE DEF r, loaded
  <2>4. QED
    BY <1>0, <2>1, <2>2, <2>3 DEF EditTypeOK, InFlight, Known
<1>5. ASSUME NEW t \in DOMAIN page, Return(t) \/ RefuseAudience(t) PROVE EditTypeOK' /\ Known'
  <2>1. /\ page' = [page EXCEPT ![t] = RenderedForm(request[t].loaded.status, request[t].form)]
        /\ request' = Ended(t) /\ UNCHANGED <<row, audience, people, excuses>>
    BY <1>5 DEF Return, RefuseAudience
  <2>2. request[t].loaded.status \in PollStatuses \cup {New}
    BY <1>0, RowSettings DEF EditTypeOK, Request, Settings
  <2>3. /\ RenderedForm(request[t].loaded.status, request[t].form) \in Page
        /\ RenderedForm(request[t].loaded.status, request[t].form).original = request[t].loaded.status
    BY <1>0, <2>2, ReturnedType
  <2>4. /\ DOMAIN page' = DOMAIN page /\ page'[t].original = request[t].loaded.status
        /\ \A u \in DOMAIN page : u # t => page'[u] = page[u]
        /\ \A u \in DOMAIN page' : page'[u] \in Page
    BY <1>0, <2>1, <2>3, PageType
  <2>5. /\ request' \in [Tabs -> Request] /\ InFlight' \subseteq InFlight
        /\ request'[t] = Idle /\ \A u \in Tabs : u # t => request'[u] = request[u]
    BY <1>0, <2>1, EndedType
  <2>6. EditTypeOK'
    BY <2>1, <2>4, <2>5 DEF EditTypeOK
  <2>7. Known'
    BY <1>0, <2>1, <2>4, <2>5, RowSettings DEF Known, Idle
  <2>8. QED
    BY <2>6, <2>7
<1>6. ASSUME NEW t \in DOMAIN page, Commit(t) PROVE EditTypeOK' /\ Known'
  <2>1. /\ row' \in Row /\ row' # NoRow
    BY <1>0, <1>6, CommitType, RowSettings
  <2>2. request[t].pc # "idle" /\ UNCHANGED <<audience, people, page>>
        /\ request' = Interfere([request EXCEPT ![t].pc = "committed"], InFlight \ {t})
    BY <1>6 DEF Commit
  <2>3. request' \in [Tabs -> Request] /\ InFlight' = InFlight
    BY <1>0, <2>2, WritesType
  <2>4. excuses' \subseteq {"overlap", "unknown", "removed", "interrupted"}
    BY <1>6 DEF Commit, EditTypeOK
  <2>5. QED
    BY <2>1, <2>2, <2>3, <2>4 DEF EditTypeOK, Known
<1>7. ASSUME NEW t \in DOMAIN page, Refresh(t) PROVE EditTypeOK' /\ Known'
  <2>1. PICK pc \in {"written", "refreshed"} :
           request' = [request EXCEPT ![t].pc = pc, ![t].loaded = row]
    BY <1>7 DEF Refresh
  <2>2. request[t].pc = "committed" /\ UNCHANGED <<row, audience, people, page, excuses>>
    BY <1>7 DEF Refresh
  <2>3. request' \in [Tabs -> Request] /\ InFlight' = InFlight
    BY <1>0, <2>1, <2>2, GoesOnType DEF EditTypeOK
  <2>4. row # NoRow
    BY <1>0, <2>2 DEF Known
  <2>5. QED
    BY <2>2, <2>3, <2>4 DEF EditTypeOK, Known
<1>8. ASSUME NEW t \in DOMAIN page, WriteAudience(t) PROVE EditTypeOK' /\ Known'
  <2>1. /\ request[t].pc = "refreshed" /\ UNCHANGED <<row, people, page>>
        /\ request' = Interfere([request EXCEPT ![t].pc = "written"], InFlight \ {t})
        /\ audience' \subseteq people
    BY <1>8 DEF WriteAudience
  <2>2. request' \in [Tabs -> Request] /\ InFlight' = InFlight
    BY <1>0, <2>1, WritesType
  <2>3. excuses' \subseteq {"overlap", "unknown", "removed", "interrupted"}
    BY <1>8 DEF WriteAudience, EditTypeOK
  <2>4. row # NoRow
    BY <1>0, <2>1 DEF Known
  <2>5. QED
    BY <2>1, <2>2, <2>3, <2>4 DEF EditTypeOK, Known
<1>9. ASSUME NEW t \in DOMAIN page, Answer(t) PROVE EditTypeOK' /\ Known'
  <2>1. /\ request[t].pc = "written" /\ page' = [page EXCEPT ![t] = RenderedRow]
        /\ request' = Ended(t) /\ UNCHANGED <<row, audience, people, excuses>>
    BY <1>9 DEF Answer
  <2>2. row # NoRow
    BY <1>0, <2>1 DEF Known
  <2>3. DOMAIN page' = DOMAIN page /\ \A u \in DOMAIN page' : page'[u] \in Page
    BY <1>0, <2>1, <2>2, RenderedRowType, PageType
  <2>4. request' \in [Tabs -> Request] /\ InFlight' \subseteq InFlight
    BY <1>0, <2>1, EndedType
  <2>5. QED
    BY <2>1, <2>2, <2>3, <2>4 DEF EditTypeOK, Known
<1>10. ASSUME NEW t \in DOMAIN page, Lose(t) PROVE EditTypeOK' /\ Known'
  <2>1. /\ page' = [u \in DOMAIN page \ {t} |-> page[u]]
        /\ request' = Ended(t) /\ UNCHANGED <<row, audience, people>>
        /\ excuses' \subseteq {"overlap", "unknown", "removed", "interrupted"}
    BY <1>10 DEF Lose, EditTypeOK
  <2>2. /\ request' \in [Tabs -> Request] /\ InFlight' = InFlight \ {t}
        /\ request'[t] = Idle /\ \A u \in Tabs : u # t => request'[u] = request[u]
    BY <1>0, <2>1, EndedType
  <2>3. EditTypeOK'
    BY <2>1, <2>2 DEF EditTypeOK
  <2>4. Known'
    BY <1>0, <2>1, <2>2 DEF Known, Idle
  <2>5. QED
    BY <2>3, <2>4
<1>11. CASE CloseDue
  <2>1. /\ row.status = "ACTIVE" /\ row' = [row EXCEPT !.status = "CLOSED"]
        /\ request' = Interfere(request, InFlight) /\ UNCHANGED <<audience, people, page, excuses>>
    BY <1>11 DEF CloseDue
  <2>2. row \in Row
    BY <2>1 DEF EditTypeOK, NoRow, New
  <2>3. row' \in Row /\ row' # NoRow
    BY <2>1, <2>2, RowSettings DEF Row, PollStatuses
  <2>4. /\ request' \in [Tabs -> Request] /\ InFlight' = InFlight
        /\ \A u \in Tabs : request'[u].pc = request[u].pc /\ request'[u].loaded = request[u].loaded
    BY <2>1, DisturbAll
  <2>5. QED
    BY <2>1, <2>3, <2>4 DEF EditTypeOK, Known
<1>12. ASSUME NEW q \in People, Delete(q) PROVE EditTypeOK' /\ Known'
  <2>1. /\ people' = people \ {q} /\ audience' = audience \ {q}
        /\ request' = Interfere(request, InFlight) /\ UNCHANGED <<row, page>>
        /\ excuses' \subseteq {"overlap", "unknown", "removed", "interrupted"}
    BY <1>12 DEF Delete, EditTypeOK
  <2>2. /\ request' \in [Tabs -> Request] /\ InFlight' = InFlight
        /\ \A u \in Tabs : request'[u].pc = request[u].pc /\ request'[u].loaded = request[u].loaded
    BY <2>1, DisturbAll
  <2>3. EditTypeOK'
    BY <2>1, <2>2 DEF EditTypeOK
  <2>4. Known'
    BY <2>1, <2>2 DEF Known
  <2>5. QED
    BY <2>3, <2>4
<1>13. CASE UNCHANGED editVars
  BY <1>13 DEF editVars, EditTypeOK, Known, InFlight
<1>14. QED
  BY <1>1, <1>2, <1>3, <1>4, <1>5, <1>6, <1>7, <1>8, <1>9, <1>10, <1>11, <1>12, <1>13
     DEF EditNext, Save

\* Rows, pages, forms and requests are well typed in every reachable state, for any number
\* of tabs and people.
THEOREM EditTypeCorrect == EditSpec => []EditTypeOK
<1>1. EditInit => EditTypeOK /\ Known
  <2> SUFFICES ASSUME EditInit PROVE EditTypeOK /\ Known
    OBVIOUS
  <2>1. Idle \in Request
    BY RowSettings DEF Idle, Request
  <2>2. \A t \in Tabs : request[t] = Idle
    BY DEF EditInit
  <2>3. QED
    BY <2>1, <2>2 DEF EditInit, EditTypeOK, Known, InFlight, Idle
<1>2. EditTypeOK /\ Known /\ [EditNext]_editVars => EditTypeOK' /\ Known'
  BY EditTypeStep
<1>3. QED
  BY <1>1, <1>2, PTL DEF EditSpec

-----------------------------------------------------------------------------
(* The invariant. *)

Opened == {"ACTIVE", "CLOSED"}

\* What a page knows of the row behind it: the one page of a new poll stands for no row,
\* and what was open when a page was made has not become a draft.
PageInv ==
    /\ \A t \in DOMAIN page :
          /\ page[t].visibility = "PUBLIC" => page[t].mandatory = FALSE
          /\ page[t].status = "CLOSED" => page[t].original \in Opened
          /\ page[t].original \in Opened => row.status \in Opened
          /\ page[t].original = New /\ request[t].pc \in {"idle", "loaded"} => row = NoRow
    /\ \A t, u \in DOMAIN page : page[t].original = New /\ page[u].original = New => t = u

\* The same of a request: it carries the page's form, and its row is between the page's
\* and the one in the database.
Carries(t) ==
    /\ request[t].form = Form(page[t])
    /\ request[t].pc = "loaded" =>
          ~SaveBlocked(page[t]) /\ (request[t].loaded = NoRow <=> page[t].original = New)
    /\ request[t].pc = "refreshed" => request[t].loaded # NoRow
    /\ page[t].original \in Opened => request[t].loaded.status \in Opened
    /\ request[t].loaded.status \in Opened => row.status \in Opened
RequestInv == \A t \in Tabs : request[t].pc # "idle" => Carries(t)

\* A request nobody has disturbed finds what it has loaded, and leaves what it was sent.
AsSent(form) == [status |-> form.status, visibility |-> form.visibility,
                 mandatory |-> form.mandatory, allowEdit |-> TRUE,
                 options |-> form.options, ends |-> ToUtc(form.ends)]
Finds(t) ==
    /\ row = IF request[t].pc = "loaded" THEN request[t].loaded ELSE AsSent(request[t].form)
    /\ request[t].pc \in {"loaded", "committed"} /\ page[t].original = New => audience = {}
    /\ request[t].pc = "written" => audience = request[t].form.invited \cap people
SyncInv == \A t \in Tabs : request[t].pc # "idle" /\ request[t].disturbed = FALSE => Finds(t)

EditInv == EditTypeOK /\ Known /\ PageInv /\ RequestInv /\ SyncInv

\* A tab without a request may show another page: the requests do not mind.
LEMMA OtherPage ==
    ASSUME EditInv, NEW t \in Tabs, request[t].pc = "idle",
           \A u \in DOMAIN page : u # t => page'[u] = page[u],
           UNCHANGED <<row, audience, people, request>>
    PROVE  RequestInv' /\ SyncInv'
<1>1. \A u \in Tabs : request[u].pc # "idle" => u \in DOMAIN page /\ u # t
  BY DEF EditInv, EditTypeOK, InFlight
<1>2. \A u \in Tabs : request[u].pc # "idle" => page'[u] = page[u]
  BY <1>1
<1>3. RequestInv'
  BY <1>2 DEF EditInv, RequestInv, Carries, Form, SentStatus, Disabled, Combined, SaveBlocked
<1>4. SyncInv'
  BY <1>2 DEF EditInv, SyncInv, Finds, AsSent
<1>5. QED
  BY <1>3, <1>4

\* The end of a request does not mind the others either.
LEMMA OtherRequests ==
    ASSUME EditInv, NEW t \in Tabs, request' = Ended(t),
           \A u \in DOMAIN page : u # t => page'[u] = page[u],
           UNCHANGED <<row, audience, people>>
    PROVE  RequestInv' /\ SyncInv'
<1>1. \A u \in Tabs : request'[u].pc # "idle" => u # t /\ request'[u] = request[u]
  BY EndedType DEF EditInv
<1>2. \A u \in Tabs : request'[u].pc # "idle" => page'[u] = page[u]
  BY <1>1 DEF EditInv, EditTypeOK, InFlight
<1>3. RequestInv'
  BY <1>1, <1>2 DEF EditInv, RequestInv, Carries, Form, SentStatus, Disabled, Combined, SaveBlocked
<1>4. SyncInv'
  BY <1>1, <1>2 DEF EditInv, SyncInv, Finds, AsSent
<1>5. QED
  BY <1>3, <1>4

\* Nor does a request mind that another one goes on, as long as the row stays open if it was.
LEMMA StillCarries ==
    ASSUME NEW u \in Tabs, Carries(u), page' = page,
           request'[u].pc = request[u].pc, request'[u].form = request[u].form,
           request'[u].loaded = request[u].loaded,
           row.status \in Opened => row'.status \in Opened
    PROVE  Carries(u)'
BY DEF Carries, Form, SentStatus, Disabled, Combined, SaveBlocked

\* A commit moves the status along the allowed transitions, from whatever row it has loaded.
LEMMA CommitForward ==
    ASSUME EditInv, NEW t \in Tabs, Commit(t)
    PROVE  /\ row'.status = WriteBack(row.status, request[t].loaded.status, request[t].form.status)
           /\ row.status \in Opened => row'.status \in Opened
           /\ request[t].loaded.status \in Opened => row'.status \in Opened
<1>1. row'.status = WriteBack(row.status, request[t].loaded.status, request[t].form.status)
  BY CommitType DEF EditInv
<1>2. /\ request[t].pc = "loaded"
      /\ request[t].form.status \in AllowedTransitions[request[t].loaded.status]
  <2>1. request[t].pc = "loaded" /\ Objections(Parsed(request[t].form), request[t].loaded) = {}
    BY DEF Commit
  <2>2. request[t].form \in SentForm
    BY DEF EditInv, EditTypeOK, Request
  <2>3. Objections(request[t].form, request[t].loaded) = {}
    BY <2>1, <2>2, ParsedType
  <2>4. QED
    BY <2>1, <2>3 DEF Objections
<1>3. request[t].loaded \in Row \/ request[t].loaded = NoRow
  BY DEF EditInv, EditTypeOK, Request
<1>4. CASE request[t].loaded.status \in Opened
  BY <1>1, <1>2, <1>4 DEF EditInv, RequestInv, Carries, AllowedTransitions, Opened, WriteBack
<1>5. CASE request[t].loaded.status = "DRAFT"
  BY <1>1, <1>2, <1>5 DEF AllowedTransitions, Opened, WriteBack
<1>6. CASE request[t].loaded = NoRow
  <2>1. row = NoRow
    BY <1>2, <1>6 DEF EditInv, RequestInv, Carries, PageInv, EditTypeOK, InFlight
  <2>2. row.status = New
    BY <2>1 DEF NoRow
  <2>3. request[t].loaded.status = New
    BY <1>6 DEF NoRow
  <2>4. QED
    BY <1>1, <2>2, <2>3 DEF Opened, New
<1>7. QED
  BY <1>3, <1>4, <1>5, <1>6 DEF Row, PollStatuses, Opened

\* Every step keeps the invariant.
LEMMA EditInvStep == EditInv /\ [EditNext]_editVars => EditInv'
<1> SUFFICES ASSUME EditInv, [EditNext]_editVars PROVE EditInv'
  OBVIOUS
<1>0. /\ EditTypeOK /\ Known /\ PageInv /\ RequestInv /\ SyncInv
      /\ EditTypeOK' /\ Known'
      /\ \A t \in DOMAIN page : t \in Tabs
      /\ \A t \in Tabs : request[t].pc # "idle" => t \in DOMAIN page
  BY EditTypeStep DEF EditInv, EditTypeOK, InFlight
<1> SUFFICES PageInv' /\ RequestInv' /\ SyncInv'
  BY <1>0 DEF EditInv
<1>1. ASSUME NEW t \in Tabs, OpenNew(t) PROVE PageInv' /\ RequestInv' /\ SyncInv'
  <2>1. /\ page' = [u \in DOMAIN page \cup {t} |-> IF u = t THEN RenderedNew ELSE page[u]]
        /\ row = NoRow /\ t \notin DOMAIN page
        /\ \A u \in DOMAIN page : page[u].original # New
        /\ UNCHANGED <<row, audience, people, request>>
    BY <1>1 DEF OpenNew
  <2>2. DOMAIN page' = {t} /\ page'[t] = RenderedNew
    BY <1>0, <2>1 DEF Known
  <2>3. RenderedNew.original = New /\ RenderedNew.status = "ACTIVE" /\ RenderedNew.mandatory = FALSE
    BY DEF RenderedNew, Rendered, Settle, NoRow
  <2>4. PageInv'
    BY <2>1, <2>2, <2>3 DEF PageInv, Opened, New
  <2>5. request[t].pc = "idle"
    BY <1>0, <2>1
  <2>6. QED
    BY <2>1, <2>4, <2>5, OtherPage
<1>2. ASSUME NEW t \in Tabs, OpenEdit(t) PROVE PageInv' /\ RequestInv' /\ SyncInv'
  <2>1. /\ page' = [u \in DOMAIN page \cup {t} |-> IF u = t THEN RenderedRow ELSE page[u]]
        /\ row # NoRow /\ t \notin DOMAIN page
        /\ UNCHANGED <<row, audience, people, request>>
    BY <1>2 DEF OpenEdit
  <2>2. row \in Row /\ Settings(row) /\ audience \in SUBSET People
    BY <1>0, <2>1, RowSettings DEF EditTypeOK
  <2>3. /\ RenderedRow.original = row.status /\ RenderedRow.status = row.status
        /\ RenderedRow.visibility = "PUBLIC" => RenderedRow.mandatory = FALSE
        /\ row.status \in PollStatuses
    BY <1>0, <2>1, RenderedRowIs
  <2>4. /\ DOMAIN page' = DOMAIN page \cup {t} /\ page'[t] = RenderedRow
        /\ \A u \in DOMAIN page : u # t => page'[u] = page[u]
    BY <2>1
  <2>5. PageInv'
    BY <1>0, <2>1, <2>3, <2>4 DEF PageInv, Opened, New, PollStatuses
  <2>6. request[t].pc = "idle"
    BY <1>0, <2>1
  <2>7. QED
    BY <2>1, <2>4, <2>5, <2>6, OtherPage
<1>3. ASSUME NEW t \in DOMAIN page, Change(t) PROVE PageInv' /\ RequestInv' /\ SyncInv'
  <2>1. request[t].pc = "idle" /\ UNCHANGED <<row, audience, people, request>>
    BY <1>0, <1>3, ChangeType
  <2>2. PICK p \in Page :
           /\ page' = [page EXCEPT ![t] = p]
           /\ p.original = page[t].original
           /\ p.visibility = "PUBLIC" => p.mandatory = FALSE
           /\ p.status = page[t].status \/ StatusAllowed(p.original, p.status)
    BY <1>0, <1>3, ChangeType
  <2>3. p.status = "CLOSED" => p.original \in Opened
    BY <1>0, <2>2 DEF PageInv, StatusAllowed, Opened, New
  <2>4. /\ DOMAIN page' = DOMAIN page /\ page'[t] = p
        /\ \A u \in DOMAIN page : u # t => page'[u] = page[u]
    BY <2>2
  <2>5. PageInv'
    BY <1>0, <2>1, <2>2, <2>3, <2>4 DEF PageInv
  <2>6. QED
    BY <1>0, <2>1, <2>4, <2>5, OtherPage
<1>4. ASSUME NEW t \in DOMAIN page, Submit(t) PROVE PageInv' /\ RequestInv' /\ SyncInv'
  <2> DEFINE loaded == IF page[t].original = New THEN NoRow ELSE row
             r == [pc |-> "loaded", form |-> Form(page[t]), disturbed |-> FALSE, loaded |-> loaded]
  <2>1. /\ request[t].pc = "idle" /\ ~SaveBlocked(page[t]) /\ request' = [request EXCEPT ![t] = r]
        /\ UNCHANGED <<row, audience, people, page>>
    BY <1>4 DEF Submit
  <2>2. r.pc = "loaded" /\ r.form = Form(page[t]) /\ r.loaded = loaded
    OBVIOUS
  <2>3. loaded = row /\ (loaded = NoRow <=> page[t].original = New)
    BY <1>0, <2>1 DEF PageInv, Known
  <2> HIDE DEF loaded, r
  <2>4. request'[t] = r /\ \A u \in Tabs : u # t => request'[u] = request[u]
    BY <1>0, <2>1 DEF EditTypeOK
  <2>5. PageInv'
    BY <1>0, <2>1, <2>2, <2>4 DEF PageInv
  <2>6. RequestInv'
    BY <1>0, <2>1, <2>2, <2>3, <2>4 DEF RequestInv, Carries, PageInv, Form, SentStatus, Disabled, Combined, SaveBlocked
  <2>7. audience = {} \/ row # NoRow
    BY <1>0 DEF Known
  <2>8. SyncInv'
    BY <1>0, <2>1, <2>2, <2>3, <2>4, <2>7 DEF SyncInv, Finds, AsSent
  <2>9. QED
    BY <2>5, <2>6, <2>8
<1>5. ASSUME NEW t \in DOMAIN page, Return(t) \/ RefuseAudience(t)
      PROVE  PageInv' /\ RequestInv' /\ SyncInv'
  <2> DEFINE q == RenderedForm(request[t].loaded.status, request[t].form)
  <2>1. /\ page' = [page EXCEPT ![t] = q]
        /\ request[t].pc \in {"loaded", "refreshed"}
        /\ request' = Ended(t) /\ UNCHANGED <<row, audience, people>>
    BY <1>5 DEF Return, RefuseAudience
  <2>2. /\ request[t].form = Form(page[t]) /\ request[t].loaded \in Row \cup {NoRow}
        /\ Settings(request[t].form) /\ request[t].form.invited \cap people \in SUBSET People
    BY <1>0, <2>1, RowSettings DEF EditTypeOK, Request, RequestInv, Carries
  <2>3. /\ q.original = request[t].loaded.status /\ q.status = request[t].form.status
        /\ q.visibility = "PUBLIC" => q.mandatory = FALSE
    <3>1. request[t].loaded.status \in PollStatuses \cup {New}
      BY <2>2, RowSettings DEF Settings
    <3>2. q.original = request[t].loaded.status /\ q.status = request[t].form.status
      BY <2>2, <3>1, RenderedType DEF RenderedForm
    <3>3. q.visibility = "PUBLIC" => q.mandatory = FALSE
      BY RenderedOff DEF RenderedForm
    <3>4. QED
      BY <3>2, <3>3
  <2>4. q.original = New => page[t].original = New /\ row = NoRow
    BY <1>0, <2>1, <2>2, <2>3, RowSettings DEF RequestInv, Carries, PageInv
  <2>5. q.status = "CLOSED" => q.original \in Opened
    <3>1. page[t] \in Page
      BY <1>0 DEF EditTypeOK
    <3>2. q.status = "CLOSED" => page[t].status = "CLOSED"
      BY <2>2, <2>3, <3>1, FormType DEF SentStatus
    <3>3. QED
      BY <1>0, <2>1, <2>3, <3>2 DEF PageInv, RequestInv, Carries
  <2>6. q.original \in Opened => row.status \in Opened
    BY <1>0, <2>1, <2>3 DEF RequestInv, Carries
  <2> HIDE DEF q
  <2>7. /\ DOMAIN page' = DOMAIN page /\ page'[t] = q
        /\ \A u \in DOMAIN page : u # t => page'[u] = page[u]
        /\ \A u \in Tabs : u # t => request'[u] = request[u]
    BY <1>0, <2>1, EndedType
  <2>8. PageInv'
    BY <1>0, <2>1, <2>3, <2>4, <2>5, <2>6, <2>7 DEF PageInv
  <2>9. QED
    BY <1>0, <2>1, <2>7, <2>8, OtherRequests
<1>6. ASSUME NEW t \in DOMAIN page, Commit(t) PROVE PageInv' /\ RequestInv' /\ SyncInv'
  <2>1. /\ request[t].pc = "loaded" /\ UNCHANGED <<audience, people, page>>
        /\ request' = Interfere([request EXCEPT ![t].pc = "committed"], InFlight \ {t})
    BY <1>6 DEF Commit
  <2>2. /\ request'[t].pc = "committed" /\ request'[t].disturbed = request[t].disturbed
        /\ \A u \in Tabs : /\ u # t => request'[u].pc = request[u].pc
                           /\ request'[u].form = request[u].form
                           /\ request'[u].loaded = request[u].loaded
                           /\ u # t /\ request[u].pc # "idle" => request'[u].disturbed = TRUE
    BY <1>0, <2>1, WritesType
  <2>3. /\ row.status \in Opened => row'.status \in Opened
        /\ request[t].loaded.status \in Opened => row'.status \in Opened
    BY <1>0, <1>6, CommitForward
  <2>4. \A u \in DOMAIN page : page[u].original = New => request'[u].pc \notin {"idle", "loaded"}
    BY <1>0, <2>1, <2>2 DEF PageInv, Known
  <2>5. PageInv'
    BY <1>0, <2>1, <2>3, <2>4 DEF PageInv
  <2>6. RequestInv'
    <3>1. Carries(t)'
      BY <1>0, <2>1, <2>2, <2>3 DEF RequestInv, Carries, Form, SentStatus, Disabled, Combined, SaveBlocked
    <3>2. ASSUME NEW u \in Tabs, u # t, request'[u].pc # "idle" PROVE Carries(u)'
      BY <1>0, <2>1, <2>2, <2>3, <3>2, StillCarries DEF RequestInv
    <3>3. QED
      BY <3>1, <3>2 DEF RequestInv
  <2>7. request[t].disturbed = FALSE => row' = AsSent(request[t].form)
    <3>1. SUFFICES ASSUME request[t].disturbed = FALSE PROVE row' = AsSent(request[t].form)
      OBVIOUS
    <3>2. row = request[t].loaded /\ request[t].form \in SentForm
      BY <1>0, <2>1, <3>1 DEF SyncInv, Finds, EditTypeOK, Request
    <3> DEFINE form == Parsed(request[t].form)
    <3>3. row' = [status     |-> WriteBack(row.status, row.status, form.status),
                  visibility |-> WriteBack(row.visibility, row.visibility, form.visibility),
                  mandatory  |-> WriteBack(row.mandatory, row.mandatory, form.mandatory),
                  allowEdit  |-> WriteBack(row.allowEdit, row.allowEdit, form.allowEdit),
                  options    |-> form.options,
                  ends       |-> WriteBack(row.ends, row.ends, form.ends)]
      BY <1>6, <3>2 DEF Commit
    <3>4. \A current, mine : WriteBack(current, current, mine) = mine
      BY DEF WriteBack
    <3> HIDE DEF form
    <3>5. row' = [status |-> form.status, visibility |-> form.visibility,
                  mandatory |-> form.mandatory, allowEdit |-> form.allowEdit,
                  options |-> form.options, ends |-> form.ends]
      BY <3>3, <3>4
    <3>6. QED
      BY <3>2, <3>5, ParsedType DEF AsSent, form
  <2>8. SyncInv'
    <3>1. request'[t].disturbed = FALSE => Finds(t)'
      BY <1>0, <2>1, <2>2, <2>7 DEF SyncInv, Finds, AsSent
    <3>2. \A u \in Tabs : u # t /\ request'[u].pc # "idle" => request'[u].disturbed = TRUE
      BY <2>2
    <3>3. QED
      BY <3>1, <3>2 DEF SyncInv
  <2>9. QED
    BY <2>5, <2>6, <2>8
<1>7. ASSUME NEW t \in DOMAIN page, Refresh(t) PROVE PageInv' /\ RequestInv' /\ SyncInv'
  <2>1. PICK pc \in {"written", "refreshed"} :
           /\ request' = [request EXCEPT ![t].pc = pc, ![t].loaded = row]
           /\ pc = "written" => page[t].original = New /\ request[t].form.invited = {}
    BY <1>7 DEF Refresh
  <2>2. request[t].pc = "committed" /\ UNCHANGED <<row, audience, people, page>>
    BY <1>7 DEF Refresh
  <2>3. /\ request'[t].pc = pc /\ request'[t].loaded = row
        /\ request'[t].form = request[t].form
        /\ request'[t].disturbed = request[t].disturbed
        /\ \A u \in Tabs : u # t => request'[u] = request[u]
    BY <1>0, <2>1, <2>2, GoesOnType DEF EditTypeOK
  <2>4. row # NoRow
    BY <1>0, <2>2 DEF Known
  <2>5. PageInv'
    BY <1>0, <2>2, <2>3 DEF PageInv
  <2>6. RequestInv'
    BY <1>0, <2>2, <2>3, <2>4 DEF RequestInv, Carries, PageInv, Form, SentStatus, Disabled, Combined, SaveBlocked
  <2>7. SyncInv'
    BY <1>0, <2>1, <2>2, <2>3 DEF SyncInv, Finds, AsSent
  <2>8. QED
    BY <2>5, <2>6, <2>7
<1>8. ASSUME NEW t \in DOMAIN page, WriteAudience(t) PROVE PageInv' /\ RequestInv' /\ SyncInv'
  <2>1. /\ request[t].pc = "refreshed" /\ UNCHANGED <<row, people, page>>
        /\ request' = Interfere([request EXCEPT ![t].pc = "written"], InFlight \ {t})
        /\ audience' = request[t].form.invited \cap people
    BY <1>8 DEF WriteAudience
  <2>2. /\ request'[t].pc = "written" /\ request'[t].disturbed = request[t].disturbed
        /\ \A u \in Tabs : /\ u # t => request'[u].pc = request[u].pc
                           /\ request'[u].form = request[u].form
                           /\ request'[u].loaded = request[u].loaded
                           /\ u # t /\ request[u].pc # "idle" => request'[u].disturbed = TRUE
    BY <1>0, <2>1, WritesType
  <2>3. PageInv'
    BY <1>0, <2>1, <2>2 DEF PageInv
  <2>4. RequestInv'
    <3>1. Carries(t)'
      <4>1. /\ t \in Tabs /\ Carries(t)
            /\ request'[t].pc = "written" /\ request'[t].form = request[t].form
            /\ request'[t].loaded = request[t].loaded /\ UNCHANGED <<row, page>>
        BY <1>0, <2>1, <2>2 DEF RequestInv
      <4>2. QED
        BY <4>1 DEF Carries, Form, SentStatus, Disabled, Combined, SaveBlocked
    <3>2. ASSUME NEW u \in Tabs, u # t, request'[u].pc # "idle" PROVE Carries(u)'
      BY <1>0, <2>1, <2>2, <3>2, StillCarries DEF RequestInv
    <3>3. QED
      BY <3>1, <3>2 DEF RequestInv
  <2>5. SyncInv'
    <3>1. request'[t].disturbed = FALSE => Finds(t)'
      BY <1>0, <2>1, <2>2 DEF SyncInv, Finds, AsSent
    <3>2. \A u \in Tabs : u # t /\ request'[u].pc # "idle" => request'[u].disturbed = TRUE
      BY <2>2
    <3>3. QED
      BY <3>1, <3>2 DEF SyncInv
  <2>6. QED
    BY <2>3, <2>4, <2>5
<1>9. ASSUME NEW t \in DOMAIN page, Answer(t) PROVE PageInv' /\ RequestInv' /\ SyncInv'
  <2>1. /\ request[t].pc = "written" /\ page' = [page EXCEPT ![t] = RenderedRow]
        /\ request' = Ended(t) /\ UNCHANGED <<row, audience, people>>
    BY <1>9 DEF Answer
  <2>2. row # NoRow
    BY <1>0, <2>1 DEF Known
  <2>3. row \in Row /\ Settings(row) /\ audience \in SUBSET People
    BY <1>0, <2>2, RowSettings DEF EditTypeOK
  <2>4. /\ RenderedRow.original = row.status /\ RenderedRow.status = row.status
        /\ RenderedRow.visibility = "PUBLIC" => RenderedRow.mandatory = FALSE
        /\ row.status \in PollStatuses
    BY <1>0, <2>2, RenderedRowIs
  <2>5. /\ DOMAIN page' = DOMAIN page /\ page'[t] = RenderedRow
        /\ \A u \in DOMAIN page : u # t => page'[u] = page[u]
        /\ \A u \in Tabs : u # t => request'[u] = request[u]
    BY <1>0, <2>1, EndedType
  <2>6. PageInv'
    BY <1>0, <2>1, <2>4, <2>5 DEF PageInv, Opened, New, PollStatuses
  <2>7. QED
    BY <1>0, <2>1, <2>5, <2>6, OtherRequests
<1>10. ASSUME NEW t \in DOMAIN page, Lose(t) PROVE PageInv' /\ RequestInv' /\ SyncInv'
  <2>1. /\ page' = [u \in DOMAIN page \ {t} |-> page[u]]
        /\ request' = Ended(t) /\ UNCHANGED <<row, audience, people>>
    BY <1>10 DEF Lose
  <2>2. /\ DOMAIN page' = DOMAIN page \ {t}
        /\ \A u \in DOMAIN page : u # t => page'[u] = page[u] /\ request'[u] = request[u]
    BY <1>0, <2>1, EndedType
  <2>3. PageInv'
    BY <1>0, <2>1, <2>2 DEF PageInv
  <2>4. QED
    BY <1>0, <2>1, <2>2, <2>3, OtherRequests
<1>11. CASE CloseDue
  <2>1. /\ row.status = "ACTIVE" /\ row' = [row EXCEPT !.status = "CLOSED"]
        /\ request' = Interfere(request, InFlight) /\ UNCHANGED <<audience, people, page>>
    BY <1>11 DEF CloseDue
  <2>2. row # NoRow /\ row'.status = "CLOSED"
    BY <1>0, <2>1 DEF EditTypeOK, Row, NoRow, New
  <2>3. \A u \in Tabs : /\ request'[u].pc = request[u].pc
                        /\ request'[u].form = request[u].form
                        /\ request'[u].loaded = request[u].loaded
                        /\ request[u].pc # "idle" => request'[u].disturbed = TRUE
    BY <1>0, <2>1, DisturbAll
  <2>4. PageInv'
    BY <1>0, <2>1, <2>2, <2>3 DEF PageInv, Opened
  <2>5. RequestInv'
    BY <1>0, <2>1, <2>2, <2>3 DEF RequestInv, Carries, Opened, Form, SentStatus, Disabled, Combined, SaveBlocked
  <2>6. SyncInv'
    BY <2>3 DEF SyncInv
  <2>7. QED
    BY <2>4, <2>5, <2>6
<1>12. ASSUME NEW q \in People, Delete(q) PROVE PageInv' /\ RequestInv' /\ SyncInv'
  <2>1. request' = Interfere(request, InFlight) /\ UNCHANGED <<row, page>>
    BY <1>12 DEF Delete
  <2>2. \A u \in Tabs : /\ request'[u].pc = request[u].pc
                        /\ request'[u].form = request[u].form
                        /\ request'[u].loaded = request[u].loaded
                        /\ request[u].pc # "idle" => request'[u].disturbed = TRUE
    BY <1>0, <2>1, DisturbAll
  <2>3. PageInv'
    BY <1>0, <2>1, <2>2 DEF PageInv
  <2>4. RequestInv'
    BY <1>0, <2>1, <2>2 DEF RequestInv, Carries, Form, SentStatus, Disabled, Combined, SaveBlocked
  <2>5. SyncInv'
    BY <2>2 DEF SyncInv
  <2>6. QED
    BY <2>3, <2>4, <2>5
<1>13. CASE UNCHANGED editVars
  BY <1>0, <1>13 DEF editVars, PageInv, RequestInv, Carries, SyncInv, Finds, Form, SentStatus, Disabled, Combined, SaveBlocked, AsSent
<1>14. QED
  BY <1>1, <1>2, <1>3, <1>4, <1>5, <1>6, <1>7, <1>8, <1>9, <1>10, <1>11, <1>12, <1>13
     DEF EditNext, Save

LEMMA EditInvInit == EditInit => EditInv
<1> SUFFICES ASSUME EditInit PROVE EditInv
  OBVIOUS
<1>1. Idle \in Request /\ Idle.pc = "idle" /\ Idle.loaded = NoRow
  BY RowSettings DEF Idle, Request
<1>2. page = << >> /\ \A t \in Tabs : request[t] = Idle
  BY DEF EditInit
<1>3. EditTypeOK /\ Known
  BY <1>1, <1>2 DEF EditInit, EditTypeOK, Known, InFlight
<1>4. PageInv /\ RequestInv /\ SyncInv
  BY <1>1, <1>2 DEF PageInv, RequestInv, SyncInv
<1>5. QED
  BY <1>3, <1>4 DEF EditInv

LEMMA EditInvHolds == EditSpec => []EditInv
BY EditInvInit, EditInvStep, PTL DEF EditSpec

-----------------------------------------------------------------------------
(* What follows from it. *)

LEMMA GateOfInv == EditInv => GateSuffices
<1> SUFFICES ASSUME EditInv, NEW t \in Tabs, request[t].pc = "loaded", ~Disabled(page[t])
             PROVE  Objections(request[t].form, request[t].loaded)
                       \subseteq IF page[t].original = request[t].loaded.status THEN {} ELSE {"status"}
  BY DEF GateSuffices
<1> DEFINE p == page[t]
           form == request[t].form
<1>1. /\ p \in Page /\ form = Form(p) /\ ~SaveBlocked(p)
      /\ p.visibility = "PUBLIC" => p.mandatory = FALSE
      /\ p.original \in PollStatuses \cup {New}
  BY DEF EditInv, EditTypeOK, InFlight, RequestInv, Carries, PageInv, Page
<1>2. /\ form.status = p.status /\ form.visibility = p.visibility
      /\ form.mandatory = p.mandatory /\ form.options = p.options /\ form.invited = p.invited
      /\ p.visibility \in {"PUBLIC", "PRIVATE"}
  BY <1>1, FormType DEF SentStatus, Page
<1>3. StatusAllowed(p.original, p.status)
  BY DEF Disabled
<1> HIDE DEF p, form
<1>4. ~(form.visibility = "PUBLIC" /\ form.mandatory)
  BY <1>1, <1>2
<1>5. ~(form.status = "ACTIVE" /\ ~form.options)
  BY <1>1, <1>2 DEF SaveBlocked
<1>6. ~(Restricted(form) /\ form.invited = {})
  BY <1>1, <1>2 DEF SaveBlocked, Restricted
<1>7. p.original = request[t].loaded.status
         => form.status \in AllowedTransitions[request[t].loaded.status]
  BY <1>1, <1>2, <1>3 DEF StatusAllowed, AllowedTransitions, PollStatuses, New
<1>8. Objections(form, request[t].loaded)
         \subseteq IF p.original = request[t].loaded.status THEN {} ELSE {"status"}
  BY <1>4, <1>5, <1>6, <1>7 DEF Objections
<1>9. QED
  BY <1>8 DEF p, form

\* No form that the page lets through is objected to, but for a status that has moved on.
THEOREM GateSufficesHolds == EditSpec => []GateSuffices
BY EditInvHolds, GateOfInv, PTL

\* Only a step of its own tab moves a request.
LEMMA OwnStep ==
    ASSUME EditTypeOK, [EditNext]_editVars, NEW t \in Tabs, request'[t].pc # request[t].pc
    PROVE  t \in DOMAIN page /\ (Save(t) \/ Lose(t))
<1>1. ASSUME NEW u \in Tabs, OpenNew(u) \/ OpenEdit(u) PROVE FALSE
  BY <1>1 DEF OpenNew, OpenEdit
<1>2. ASSUME NEW u \in DOMAIN page, Change(u) PROVE FALSE
  BY <1>2, ChangeType
<1>3. ASSUME NEW u \in DOMAIN page, Save(u) \/ Lose(u), u # t PROVE FALSE
  <2>1. u \in Tabs
    BY DEF EditTypeOK
  <2>2. CASE Submit(u)
    BY <1>3, <2>1, <2>2 DEF Submit, EditTypeOK
  <2>3. CASE Return(u) \/ RefuseAudience(u) \/ Answer(u) \/ Lose(u)
    <3>1. request' = Ended(u)
      BY <2>3 DEF Return, RefuseAudience, Answer, Lose
    <3>2. QED
      BY <1>3, <2>1, <3>1, EndedType
  <2>4. CASE Commit(u)
    <3>1. /\ request[u].pc # "idle"
          /\ request' = Interfere([request EXCEPT ![u].pc = "committed"], InFlight \ {u})
      BY <2>4 DEF Commit
    <3>2. QED
      BY <1>3, <2>1, <3>1, WritesType
  <2>5. CASE Refresh(u)
    BY <1>3, <2>1, <2>5 DEF Refresh, EditTypeOK
  <2>6. CASE WriteAudience(u)
    <3>1. /\ request[u].pc # "idle"
          /\ request' = Interfere([request EXCEPT ![u].pc = "written"], InFlight \ {u})
      BY <2>6 DEF WriteAudience
    <3>2. QED
      BY <1>3, <2>1, <3>1, WritesType
  <2>7. QED
    BY <1>3, <2>2, <2>3, <2>4, <2>5, <2>6 DEF Save
<1>4. CASE CloseDue \/ \E p \in People : Delete(p)
  <2>1. request' = Interfere(request, InFlight)
    BY <1>4 DEF CloseDue, Delete
  <2>2. QED
    BY <2>1, DisturbAll
<1>5. CASE UNCHANGED editVars
  BY <1>5 DEF editVars
<1>6. QED
  BY <1>1, <1>2, <1>3, <1>4, <1>5 DEF EditNext

LEMMA OpensSeen ==
    ASSUME EditInv, [EditNext]_editVars, NEW t \in Tabs,
           request[t].pc = "loaded", request'[t].pc = "committed",
           row.status \in {New, "DRAFT"}, row'.status = "ACTIVE"
    PROVE  page[t].status = "ACTIVE"
<1>1. t \in DOMAIN page /\ Commit(t)
  <2>1. t \in DOMAIN page /\ (Save(t) \/ Lose(t)) /\ EditTypeOK
    BY OwnStep DEF EditInv
  <2>2. CASE Return(t) \/ RefuseAudience(t) \/ Answer(t) \/ Lose(t)
    <3>1. request' = Ended(t)
      BY <2>2 DEF Return, RefuseAudience, Answer, Lose
    <3>2. QED
      BY <2>1, <3>1, EndedType
  <2>3. ~Submit(t) /\ ~Refresh(t) /\ ~WriteAudience(t)
    BY DEF Submit, Refresh, WriteAudience
  <2>4. QED
    BY <2>1, <2>2, <2>3 DEF Save
<1>2. request[t].form.status = "ACTIVE"
  <2>1. row'.status = WriteBack(row.status, request[t].loaded.status, request[t].form.status)
    BY <1>1, CommitForward
  <2>2. QED
    BY <2>1 DEF WriteBack, New
<1>3. /\ page[t] \in Page /\ SentStatus(page[t]) = "ACTIVE"
      /\ page[t].original \notin Opened
      /\ page[t].status = "CLOSED" => page[t].original \in Opened
  <2>1. page[t] \in Page /\ request[t].form = Form(page[t])
    BY <1>1 DEF EditInv, EditTypeOK, RequestInv, Carries
  <2>2. SentStatus(page[t]) = "ACTIVE"
    BY <1>2, <2>1, FormType
  <2>3. row.status \notin Opened
    BY DEF Opened, New
  <2>4. QED
    BY <1>1, <2>1, <2>2, <2>3 DEF EditInv, PageInv
<1>4. page[t].original \in {New, "DRAFT"} /\ page[t].status \in {"DRAFT", "ACTIVE"}
  BY <1>3 DEF Page, PollStatuses, Opened
<1>5. ~Disabled(page[t])
  BY <1>4 DEF Disabled, StatusAllowed
<1>6. QED
  BY <1>3, <1>5 DEF SentStatus

\* No page opens a poll that it shows as a draft.
THEOREM NotOpenedUnseenHolds == EditSpec => NotOpenedUnseen
<1>1. EditInv /\ [EditNext]_editVars =>
         [\A t \in Tabs : request[t].pc = "loaded" /\ request'[t].pc = "committed"
              /\ row.status \in {New, "DRAFT"} /\ row'.status = "ACTIVE" => page[t].status = "ACTIVE"]_editVars
  BY OpensSeen
<1>2. QED
  BY <1>1, EditInvHolds, PTL DEF EditSpec, NotOpenedUnseen

\* What a page shows if it is made from a form, as it was sent or as it was stored.
Says(s, p) ==
    /\ Settings(s)
    /\ s.status = SentStatus(p) /\ s.visibility = p.visibility /\ s.mandatory = p.mandatory
    /\ s.options = p.options
    /\ s.ends = Combined(p) \/ Combined(p) \in Skipped
    /\ s.ends[1] = Empty => s.ends = NoTime
    /\ p.allowEdit => s.allowEdit

LEMMA CombinedEmpty ==
    ASSUME NEW p
    PROVE  Combined(p)[1] = Empty => Combined(p) = NoTime
BY DEF Combined

\* Such a page shows what the page of the form showed.
LEMMA ShownAgain ==
    ASSUME NEW p \in Page, p.visibility = "PUBLIC" => p.mandatory = FALSE,
           NEW original \in PollStatuses \cup {New}, NEW s, Says(s, p)
    PROVE  Same(p, Rendered(original, s, p.invited \cap people))
<1> DEFINE q == Rendered(original, s, p.invited \cap people)
<1>1. Settings(s) /\ p.invited \cap people \in SUBSET People
  BY DEF Settings, Page, Says
<1>2. /\ q.status = s.status /\ q.visibility = s.visibility /\ q.options = s.options
      /\ q.invited = p.invited \cap people
      /\ q.date = s.ends[1] /\ q.hour = s.ends[2]
      /\ q.allowEdit = (original = New \/ s.allowEdit)
      /\ q.mandatory = (s.mandatory /\ s.visibility = "PRIVATE")
  BY <1>1, RenderedType
<1> HIDE DEF q
<1>3. q.mandatory = p.mandatory
  BY <1>2 DEF Page, Says
<1>4. Combined(q) = s.ends
  <2>1. /\ s.ends[1] # Empty => s.ends[2] # Empty
        /\ s.ends = <<s.ends[1], s.ends[2]>>
    BY <1>1, EndsType DEF Settings
  <2>2. CASE s.ends[1] = Empty
    BY <1>2, <2>2 DEF Combined, Says
  <2>3. CASE s.ends[1] # Empty
    BY <1>2, <2>1, <2>3 DEF Combined
  <2>4. QED
    BY <2>2, <2>3
<1>5. \A field \in {"status", "visibility", "mandatory", "options"} : Form(p)[field] = Shown(q)[field]
  <2>1. /\ Form(p).status = SentStatus(p) /\ Form(p).visibility = p.visibility
        /\ Form(p).mandatory = p.mandatory /\ Form(p).options = p.options
    BY FormType
  <2>2. /\ Shown(q).status = q.status /\ Shown(q).visibility = q.visibility
        /\ Shown(q).mandatory = q.mandatory /\ Shown(q).options = q.options
    BY DEF Shown, Form
  <2>3. QED
    BY <1>2, <1>3, <2>1, <2>2 DEF Says
<1>6. p.allowEdit => q.allowEdit
  BY <1>2 DEF Says
<1>7. Combined(q) = Combined(p) \/ Combined(p) \in Skipped
  BY <1>4 DEF Says
<1>8. QED
  BY <1>2, <1>5, <1>6, <1>7 DEF Same, q

LEMMA ComesBack ==
    ASSUME EditInv, [EditNext]_editVars, NEW t \in Tabs,
           request[t].pc # "idle", request'[t].pc = "idle", t \in DOMAIN page',
           request[t].disturbed = FALSE
    PROVE  Same(page[t], page'[t])
<1>1. t \in DOMAIN page /\ (Return(t) \/ RefuseAudience(t) \/ Answer(t))
  <2>1. t \in DOMAIN page /\ (Save(t) \/ Lose(t)) /\ EditTypeOK
    BY OwnStep DEF EditInv
  <2>2. ~Lose(t)
    BY DEF Lose
  <2>3. ~Submit(t)
    BY DEF Submit
  <2>4. ~Commit(t)
    <3>1. SUFFICES ASSUME Commit(t) PROVE FALSE
      OBVIOUS
    <3>2. request' = Interfere([request EXCEPT ![t].pc = "committed"], InFlight \ {t})
      BY <3>1 DEF Commit
    <3>3. QED
      BY <2>1, <3>2, WritesType
  <2>5. ~WriteAudience(t)
    <3>1. SUFFICES ASSUME WriteAudience(t) PROVE FALSE
      OBVIOUS
    <3>2. request' = Interfere([request EXCEPT ![t].pc = "written"], InFlight \ {t})
      BY <3>1 DEF WriteAudience
    <3>3. QED
      BY <2>1, <3>2, WritesType
  <2>6. ~Refresh(t)
    BY <2>1 DEF Refresh, EditTypeOK, Request
  <2>7. QED
    BY <2>1, <2>2, <2>3, <2>4, <2>5, <2>6 DEF Save
<1>2. /\ page[t] \in Page /\ request[t].form = Form(page[t])
      /\ page[t].visibility = "PUBLIC" => page[t].mandatory = FALSE
  BY <1>1 DEF EditInv, EditTypeOK, RequestInv, Carries, PageInv
<1>3. CASE Return(t) \/ RefuseAudience(t)
  <2>1. page'[t] = RenderedForm(request[t].loaded.status, request[t].form)
    BY <1>1, <1>3 DEF Return, RefuseAudience
  <2>2. request[t].loaded.status \in PollStatuses \cup {New}
    BY RowSettings DEF EditInv, EditTypeOK, Request, Settings
  <2>3. Says(Form(page[t]), page[t])
    BY <1>2, FormType, CombinedEmpty DEF Says
  <2>4. Form(page[t]).invited = page[t].invited
    BY <1>2, FormType
  <2>5. QED
    BY <1>2, <2>1, <2>2, <2>3, <2>4, ShownAgain DEF RenderedForm
<1>4. CASE Answer(t)
  <2>1. request[t].pc = "written" /\ page'[t] = RenderedRow
    BY <1>1, <1>4 DEF Answer
  <2>2. row = AsSent(Form(page[t])) /\ audience = Form(page[t]).invited \cap people
    BY <1>2, <2>1 DEF EditInv, SyncInv, Finds
  <2>3. /\ Form(page[t]) \in SentForm /\ Settings(Form(page[t]))
        /\ Form(page[t]).status = SentStatus(page[t])
        /\ Form(page[t]).visibility = page[t].visibility
        /\ Form(page[t]).mandatory = page[t].mandatory
        /\ Form(page[t]).options = page[t].options
        /\ Form(page[t]).ends = Combined(page[t])
        /\ Form(page[t]).invited = page[t].invited
    BY <1>2, FormType
  <2>4. /\ ToUtc(Combined(page[t])) \in Instants \cup {NoTime}
        /\ ToUtc(Combined(page[t])) = Combined(page[t]) \/ Combined(page[t]) \in Skipped
        /\ ToUtc(Combined(page[t]))[1] = Combined(page[t])[1]
        /\ NoTime \notin Skipped
    BY <1>2, CombinedType, ToUtcType DEF Skipped, NoTime, Empty
  <2>5. ToUtc(Combined(page[t]))[1] = Empty => ToUtc(Combined(page[t])) = NoTime
    BY <2>4, CombinedEmpty DEF ToUtc
  <2>6. Says(row, page[t])
    BY <2>2, <2>3, <2>4, <2>5 DEF Says, AsSent, Settings, Instants
  <2>7. row.status \in PollStatuses \cup {New}
    BY <2>6 DEF Says, Settings
  <2>8. QED
    BY <1>2, <2>1, <2>2, <2>3, <2>6, <2>7, ShownAgain DEF RenderedRow
<1>5. QED
  BY <1>1, <1>3, <1>4

\* The page after a save that nobody disturbed shows what was sent.
THEOREM RoundTripHolds == EditSpec => RoundTrip
<1>1. EditInv /\ [EditNext]_editVars =>
         [\A t \in Tabs : request[t].pc # "idle" /\ request'[t].pc = "idle" /\ t \in DOMAIN page'
              /\ ~request[t].disturbed => Same(page[t], page'[t])]_editVars
  <2>1. SUFFICES ASSUME EditInv, [EditNext]_editVars, NEW t \in Tabs,
                        request[t].pc # "idle", request'[t].pc = "idle", t \in DOMAIN page',
                        ~request[t].disturbed
                 PROVE  Same(page[t], page'[t])
    OBVIOUS
  <2>2. request[t].disturbed = FALSE
    BY <2>1 DEF EditInv, EditTypeOK, Request
  <2>3. QED
    BY <2>1, <2>2, ComesBack
<1>2. QED
  BY <1>1, EditInvHolds, PTL DEF EditSpec, RoundTrip

-----------------------------------------------------------------------------
(* Open polls are sound. *)

\* Between the two commits.
Midway(t) == request[t].pc \in {"committed", "refreshed"}

\* A form that the server takes is sound with the people it invites.
FormGood(form) ==
    /\ form.mandatory => form.visibility = "PRIVATE"
    /\ form.status = "ACTIVE" => form.options
    /\ Restricted(form) => form.invited # {}

\* The row is as a request loaded it, unless the task has closed the poll since.
CloseTo(loaded) ==
    \/ row = loaded
    \/ loaded.status = "ACTIVE" /\ row = [loaded EXCEPT !.status = "CLOSED"]

\* The same of the row that a request has committed.
RowSays(form) ==
    /\ row.visibility = form.visibility /\ row.mandatory = form.mandatory /\ row.options = form.options
    /\ row.status = form.status \/ row.status = "CLOSED"

\* Whatever no save overlapped and nothing broke is as some form that was taken says: at
\* once, or when the request that is midway has written its audience.
SoundInv ==
    /\ \A t \in Tabs : Midway(t) => FormGood(request[t].form)
    /\ excuses = {} =>
        /\ \A t \in Tabs : request[t].pc = "loaded" => CloseTo(request[t].loaded)
        /\ \A t \in Tabs : Midway(t) => RowSays(request[t].form)
        /\ \A t \in Tabs : request[t].pc = "refreshed" => ~Refused(t)
        /\ (\A t \in Tabs : ~Midway(t)) => Sound(row, audience)

\* A step that commits nothing, and leaves every request that stays as it was.
LEMMA NothingWritten ==
    ASSUME SoundInv, UNCHANGED <<row, audience, excuses>>,
           \A u \in Tabs : \/ request'[u] = request[u]
                           \/ ~Midway(u) /\ request'[u].pc = "idle"
                           \/ ~Midway(u) /\ request'[u].pc = "loaded" /\ request'[u].loaded = row
    PROVE  SoundInv'
<1>1. \A u \in Tabs : Midway(u)' => Midway(u) /\ request'[u] = request[u]
  BY DEF Midway
<1>2. \A u \in Tabs : Midway(u) => Midway(u)'
  BY DEF Midway
<1>3. ASSUME excuses' = {}, NEW u \in Tabs, request'[u].pc = "loaded"
      PROVE  CloseTo(request[u].loaded)'
  <2>1. request'[u] = request[u] \/ request'[u].loaded = row
    BY <1>3
  <2>2. CASE request'[u] = request[u]
    BY <1>3, <2>2 DEF SoundInv, CloseTo
  <2>3. CASE request'[u].loaded = row
    BY <2>3 DEF CloseTo
  <2>4. QED
    BY <2>1, <2>2, <2>3
<1>4. ASSUME excuses' = {}, NEW u \in Tabs
      PROVE  /\ Midway(u)' => RowSays(request[u].form)'
             /\ request'[u].pc = "refreshed" => ~Refused(u)'
  BY <1>1, <1>4 DEF SoundInv, RowSays, Refused, Midway
<1>5. excuses' = {} /\ (\A u \in Tabs : ~Midway(u)') => Sound(row, audience)'
  BY <1>2 DEF SoundInv
<1>6. \A u \in Tabs : Midway(u)' => FormGood(request[u].form)'
  BY <1>1 DEF SoundInv, FormGood, Restricted
<1>7. QED
  BY <1>3, <1>4, <1>5, <1>6 DEF SoundInv

\* A row that says what a form says is sound with the people the form invites, and with
\* anybody if the form needs nobody.
LEMMA GoodIsSound ==
    ASSUME NEW form \in SentForm, FormGood(form), RowSays(form), NEW invited,
           form.invited # {} => invited # {}
    PROVE  Sound(row, invited)
BY DEF FormGood, RowSays, Sound, Restricted, SentForm

\* The commit of the row: what the form objects to not at all, the row says.
LEMMA CommitSays ==
    ASSUME EditInv, NEW t \in Tabs, Commit(t)
    PROVE  /\ FormGood(request[t].form)
           /\ CloseTo(request[t].loaded) => RowSays(request[t].form)'
<1> DEFINE form == request[t].form
           loaded == request[t].loaded
<1>1. /\ form \in SentForm /\ loaded \in Row \cup {NoRow} /\ row \in Row \cup {NoRow}
      /\ request' \in [Tabs -> Request] /\ request'[t].form = form
  <2>1. /\ request' = Interfere([request EXCEPT ![t].pc = "committed"], InFlight \ {t})
        /\ request[t].pc # "idle"
    BY DEF Commit
  <2>2. QED
    BY <2>1, WritesType DEF EditInv, EditTypeOK, Request
<1>2. Objections(form, loaded) = {}
  <2>1. Objections(Parsed(form), loaded) = {}
    BY DEF Commit
  <2>2. QED
    BY <1>1, <2>1, ParsedType
<1>3. /\ row'.status = WriteBack(row.status, loaded.status, form.status)
      /\ row'.visibility = WriteBack(row.visibility, loaded.visibility, form.visibility)
      /\ row'.mandatory = WriteBack(row.mandatory, loaded.mandatory, form.mandatory)
      /\ row'.options = form.options
  <2>1. /\ row'.status = WriteBack(row.status, loaded.status, Parsed(form).status)
        /\ row'.visibility = WriteBack(row.visibility, loaded.visibility, Parsed(form).visibility)
        /\ row'.mandatory = WriteBack(row.mandatory, loaded.mandatory, Parsed(form).mandatory)
        /\ row'.options = Parsed(form).options
    BY DEF Commit
  <2>2. QED
    BY <1>1, <2>1, ParsedType
<1> HIDE DEF form, loaded
<1>4. /\ ~(form.visibility = "PUBLIC" /\ form.mandatory)
      /\ form.status \in AllowedTransitions[loaded.status]
      /\ ~(form.status = "ACTIVE" /\ ~form.options)
      /\ ~(Restricted(form) /\ form.invited = {})
  BY <1>2 DEF Objections
<1>5. FormGood(form)
  BY <1>1, <1>4 DEF FormGood, SentForm
<1>6. ASSUME CloseTo(loaded) PROVE RowSays(form)'
  <2>1. /\ row.visibility = loaded.visibility /\ row.mandatory = loaded.mandatory
        /\ row.status = loaded.status \/ (loaded.status = "ACTIVE" /\ row.status = "CLOSED")
    BY <1>1, <1>6 DEF CloseTo, Row, NoRow
  <2>2. /\ row'.visibility = form.visibility /\ row'.mandatory = form.mandatory
        /\ row'.options = form.options
    BY <1>3, <2>1 DEF WriteBack
  <2>3. row'.status = form.status \/ row'.status = "CLOSED"
    BY <1>3, <2>1 DEF WriteBack
  <2>4. request'[t].form = form
    BY <1>1
  <2>5. QED
    BY <2>2, <2>3, <2>4 DEF RowSays, form
<1>7. QED
  BY <1>5, <1>6 DEF form, loaded

LEMMA SoundCommit ==
    ASSUME EditInv, SoundInv, NEW t \in Tabs, Commit(t)
    PROVE  SoundInv'
<1>1. /\ request[t].pc = "loaded"
      /\ request' = Interfere([request EXCEPT ![t].pc = "committed"], InFlight \ {t})
      /\ excuses' = IF InFlight = {t} THEN excuses ELSE excuses \cup {"overlap"}
  BY DEF Commit
<1>2. /\ request'[t].pc = "committed"
      /\ \A u \in Tabs : /\ u # t => request'[u].pc = request[u].pc
                         /\ request'[u].form = request[u].form
                         /\ request'[u].loaded = request[u].loaded
  BY <1>1, WritesType DEF EditInv
<1>3. FormGood(request[t].form) /\ (CloseTo(request[t].loaded) => RowSays(request[t].form)')
  BY CommitSays
<1>4. \A u \in Tabs : Midway(u)' => FormGood(request'[u].form)
  BY <1>2, <1>3 DEF SoundInv, Midway
<1>5. ASSUME excuses' = {}
      PROVE  /\ \A u \in Tabs : u # t => request'[u].pc = "idle"
             /\ RowSays(request[t].form)' /\ request'[t].form = request[t].form
  <2>1. InFlight = {t} /\ excuses = {}
    BY <1>1, <1>5
  <2>2. \A u \in Tabs : u # t => request'[u].pc = "idle"
    BY <1>2, <2>1 DEF InFlight
  <2>3. RowSays(request[t].form)'
    BY <1>1, <1>3, <2>1 DEF SoundInv
  <2>4. QED
    BY <1>2, <2>2, <2>3
<1>6. \A u \in Tabs : Midway(u)' => FormGood(request[u].form)'
  BY <1>4 DEF FormGood, Restricted
<1>7. ASSUME excuses' = {}, NEW u \in Tabs, Midway(u)' PROVE RowSays(request[u].form)'
  BY <1>5, <1>7 DEF Midway
<1>8. QED
  BY <1>2, <1>5, <1>6, <1>7 DEF SoundInv, Midway

LEMMA SoundRefresh ==
    ASSUME EditInv, SoundInv, NEW t \in Tabs, Refresh(t)
    PROVE  SoundInv'
<1>1. /\ request[t].pc = "committed" /\ UNCHANGED <<row, audience, people, page, excuses>>
      /\ row \in Row \cup {NoRow} /\ request[t].form \in SentForm
  BY DEF Refresh, EditInv, EditTypeOK, Request
<1>2. PICK pc \in {"written", "refreshed"} :
         /\ request' = [request EXCEPT ![t].pc = pc, ![t].loaded = row]
         /\ pc = "written" => request[t].form.invited = {}
  BY DEF Refresh
<1>3. /\ request'[t].pc = pc /\ request'[t].loaded = row
      /\ request'[t].form = request[t].form
      /\ \A u \in Tabs : u # t => request'[u] = request[u]
  BY <1>1, <1>2, GoesOnType DEF EditInv
<1>4. FormGood(request[t].form) /\ (excuses = {} => RowSays(request[t].form))
  BY <1>1 DEF SoundInv, Midway
<1>5. \A u \in Tabs : /\ Midway(u)' => Midway(u)
                      /\ u # t => (Midway(u)' <=> Midway(u))
                      /\ request'[u].form = request[u].form
  BY <1>1, <1>3 DEF Midway
<1>6. \A u \in Tabs : Midway(u)' => FormGood(request[u].form)'
  BY <1>5 DEF SoundInv, FormGood, Restricted
<1>7. ASSUME excuses' = {}, NEW u \in Tabs, Midway(u)' PROVE RowSays(request[u].form)'
  BY <1>1, <1>5, <1>7 DEF SoundInv, RowSays
<1>8. ASSUME excuses' = {}, NEW u \in Tabs, request'[u].pc = "loaded" PROVE CloseTo(request[u].loaded)'
  <2>1. u # t
    BY <1>3, <1>8
  <2>2. QED
    BY <1>1, <1>3, <1>8, <2>1 DEF SoundInv, CloseTo
<1>9. ASSUME excuses' = {}, NEW u \in Tabs, request'[u].pc = "refreshed" PROVE ~Refused(u)'
  <2>1. CASE u = t
    BY <1>1, <1>3, <1>4, <1>9, <2>1 DEF Refused, Restricted, FormGood, RowSays
  <2>2. CASE u # t
    BY <1>1, <1>3, <1>9, <2>2 DEF SoundInv, Refused
  <2>3. QED
    BY <2>1, <2>2
<1>10. ASSUME excuses' = {}, \A u \in Tabs : ~Midway(u)' PROVE Sound(row, audience)'
  <2>1. pc = "written"
    BY <1>3, <1>10 DEF Midway
  <2>2. Sound(row, audience)
    BY <1>1, <1>2, <1>4, <1>10, <2>1, GoodIsSound
  <2>3. QED
    BY <1>1, <2>2
<1>11. QED
  BY <1>6, <1>7, <1>8, <1>9, <1>10 DEF SoundInv

LEMMA SoundWrite ==
    ASSUME EditInv, SoundInv, NEW t \in Tabs, WriteAudience(t)
    PROVE  SoundInv'
<1> DEFINE found == request[t].form.invited \cap people
<1>1. /\ request[t].pc = "refreshed" /\ UNCHANGED <<row, people, page>> /\ audience' = found
      /\ request' = Interfere([request EXCEPT ![t].pc = "written"], InFlight \ {t})
      /\ excuses' = IF found # request[t].form.invited THEN excuses \cup {"unknown"}
                    ELSE IF request[t].disturbed \/ InFlight # {t} THEN excuses ELSE {}
      /\ request[t].form \in SentForm /\ request[t].disturbed \in BOOLEAN
  BY DEF WriteAudience, EditInv, EditTypeOK, Request
<1>2. /\ request'[t].pc = "written"
      /\ \A u \in Tabs : /\ u # t => request'[u].pc = request[u].pc
                         /\ request'[u].form = request[u].form
                         /\ request'[u].loaded = request[u].loaded
  BY <1>1, WritesType DEF EditInv
<1>3. \A u \in Tabs : Midway(u)' => Midway(u) /\ u # t
  BY <1>2 DEF Midway
<1>4. \A u \in Tabs : Midway(u)' => FormGood(request[u].form)'
  BY <1>2, <1>3 DEF SoundInv, FormGood, Restricted
<1>5. ASSUME excuses' = {}
      PROVE  /\ Sound(row, audience)'
             /\ excuses = {} \/ \A u \in Tabs : u # t => request'[u].pc = "idle"
  <2>1. found = request[t].form.invited
    BY <1>1, <1>5
  <2>2. FormGood(request[t].form)
    BY <1>1 DEF SoundInv, Midway
  <2>3. CASE request[t].disturbed \/ InFlight # {t}
    <3>1. excuses = {}
      BY <1>1, <1>5, <2>1, <2>3
    <3>2. RowSays(request[t].form)
      BY <1>1, <3>1 DEF SoundInv, Midway
    <3>3. Sound(row, found)
      BY <1>1, <2>1, <2>2, <3>2, GoodIsSound
    <3>4. QED
      BY <1>1, <3>1, <3>3
  <2>4. CASE ~request[t].disturbed /\ InFlight = {t}
    <3>1. row = AsSent(request[t].form)
      BY <1>1, <2>4 DEF EditInv, SyncInv, Finds
    <3>2. RowSays(request[t].form)
      BY <3>1 DEF RowSays, AsSent
    <3>3. Sound(row, found)
      BY <1>1, <2>1, <2>2, <3>2, GoodIsSound
    <3>4. \A u \in Tabs : u # t => request[u].pc = "idle"
      BY <2>4 DEF InFlight
    <3>5. \A u \in Tabs : u # t => request'[u].pc = "idle"
      BY <1>2, <3>4
    <3>6. QED
      BY <1>1, <3>3, <3>5
  <2>5. QED
    BY <2>3, <2>4
<1>6. ASSUME excuses' = {}, NEW u \in Tabs
      PROVE  /\ request'[u].pc = "loaded" => CloseTo(request[u].loaded)'
             /\ Midway(u)' => RowSays(request[u].form)'
             /\ request'[u].pc = "refreshed" => ~Refused(u)'
  <2>1. CASE u = t \/ request'[u].pc = "idle"
    BY <1>2, <2>1 DEF Midway
  <2>2. CASE u # t /\ request'[u].pc # "idle"
    <3>1. excuses = {} /\ request'[u].pc = request[u].pc /\ row' = row
          /\ request'[u].form = request[u].form /\ request'[u].loaded = request[u].loaded
      BY <1>1, <1>2, <1>5, <1>6, <2>2
    <3>2. QED
      BY <3>1 DEF SoundInv, CloseTo, RowSays, Refused, Midway
  <2>3. QED
    BY <2>1, <2>2
<1>7. QED
  BY <1>4, <1>5, <1>6 DEF SoundInv

\* The task and SCIM: an open poll may be closed, and people may go.
LEMMA SoundAround ==
    ASSUME EditInv, SoundInv, CloseDue \/ \E q \in People : Delete(q)
    PROVE  SoundInv'
<1>1. request' = Interfere(request, InFlight)
  BY DEF CloseDue, Delete
<1>2. \A u \in Tabs : /\ request'[u].pc = request[u].pc
                      /\ request'[u].form = request[u].form
                      /\ request'[u].loaded = request[u].loaded
  BY <1>1, DisturbAll DEF EditInv
<1>3. \A u \in Tabs : Midway(u)' => FormGood(request[u].form)'
  BY <1>2 DEF SoundInv, Midway, FormGood, Restricted
<1>4. \A u \in Tabs : Midway(u)' <=> Midway(u)
  BY <1>2 DEF Midway
<1>5. ASSUME excuses' = {}, NEW u \in Tabs, request'[u].pc = "refreshed" PROVE ~Refused(u)'
  BY <1>2, <1>5 DEF SoundInv, Refused, CloseDue, Delete
<1>6. CASE CloseDue
  <2>1. /\ row.status = "ACTIVE" /\ row' = [row EXCEPT !.status = "CLOSED"]
        /\ UNCHANGED <<audience, excuses>>
    BY <1>6 DEF CloseDue
  <2>2. row \in Row
    BY <2>1 DEF EditInv, EditTypeOK, NoRow, New
  <2>3. /\ row'.status = "CLOSED" /\ row'.visibility = row.visibility
        /\ row'.mandatory = row.mandatory /\ row'.options = row.options
    BY <2>1, <2>2 DEF Row
  <2>4. ASSUME excuses' = {}, NEW u \in Tabs, request'[u].pc = "loaded" PROVE CloseTo(request[u].loaded)'
    <3>1. CloseTo(request[u].loaded)
      BY <1>2, <2>1, <2>4 DEF SoundInv
    <3>2. request[u].loaded \in Row \cup {NoRow}
      BY DEF EditInv, EditTypeOK, Request
    <3>3. row = request[u].loaded
      BY <2>1, <3>1, <3>2 DEF CloseTo, Row, NoRow
    <3>4. request'[u].loaded = row
      BY <1>2, <3>3
    <3>5. QED
      BY <2>1, <3>4 DEF CloseTo
  <2>5. ASSUME excuses' = {}, NEW u \in Tabs, Midway(u)' PROVE RowSays(request[u].form)'
    BY <1>2, <1>4, <2>1, <2>3, <2>5 DEF SoundInv, RowSays
  <2>6. ASSUME excuses' = {}, \A u \in Tabs : ~Midway(u)' PROVE Sound(row, audience)'
    BY <1>4, <2>1, <2>3, <2>6 DEF SoundInv, Sound
  <2>7. QED
    BY <1>3, <1>5, <2>4, <2>5, <2>6 DEF SoundInv
<1>7. ASSUME NEW q \in People, Delete(q) PROVE SoundInv'
  <2>1. /\ row' = row /\ audience' = audience \ {q}
        /\ excuses' = IF q \in audience THEN excuses \cup {"removed"} ELSE excuses
    BY <1>7 DEF Delete
  <2>2. excuses' = {} => excuses = {} /\ audience' = audience
    BY <2>1
  <2>3. ASSUME excuses' = {}, NEW u \in Tabs
        PROVE  /\ request'[u].pc = "loaded" => CloseTo(request[u].loaded)'
               /\ Midway(u)' => RowSays(request[u].form)'
    BY <1>2, <1>4, <2>1, <2>2, <2>3 DEF SoundInv, CloseTo, RowSays
  <2>4. ASSUME excuses' = {}, \A u \in Tabs : ~Midway(u)' PROVE Sound(row, audience)'
    BY <1>4, <2>1, <2>2, <2>4 DEF SoundInv
  <2>5. QED
    BY <1>3, <1>5, <2>3, <2>4 DEF SoundInv
<1>8. QED
  BY <1>6, <1>7

\* A request that ends midway leaves an excuse, and no other is refused without one.
LEMMA SoundEnd ==
    ASSUME EditInv, SoundInv, NEW t \in Tabs, Return(t) \/ RefuseAudience(t) \/ Answer(t) \/ Lose(t)
    PROVE  SoundInv'
<1>1. request' = Ended(t) /\ UNCHANGED <<row, audience>>
  BY DEF Return, RefuseAudience, Answer, Lose
<1>2. request'[t].pc = "idle" /\ \A u \in Tabs : u # t => request'[u] = request[u]
  BY <1>1, EndedType DEF EditInv
<1>3. CASE Midway(t)
  <2>1. RefuseAudience(t) \/ Lose(t)
    BY <1>3 DEF Return, Answer, Midway
  <2>2. excuses' # {}
    <3>1. CASE RefuseAudience(t)
      BY <3>1 DEF RefuseAudience, SoundInv
    <3>2. CASE Lose(t)
      BY <1>3, <3>2 DEF Lose, Midway
    <3>3. QED
      BY <2>1, <3>1, <3>2
  <2>3. \A u \in Tabs : Midway(u)' => FormGood(request[u].form)'
    BY <1>2 DEF SoundInv, Midway, FormGood, Restricted
  <2>4. QED
    BY <2>2, <2>3 DEF SoundInv
<1>4. CASE ~Midway(t)
  <2>1. excuses' = excuses
    BY <1>4 DEF Return, RefuseAudience, Answer, Lose, Midway
  <2>2. QED
    BY <1>1, <1>2, <1>4, <2>1, NothingWritten
<1>5. QED
  BY <1>3, <1>4

LEMMA SoundStep ==
    ASSUME EditInv, SoundInv, [EditNext]_editVars
    PROVE  SoundInv'
<1>0. \A t \in DOMAIN page : t \in Tabs
  BY DEF EditInv, EditTypeOK
<1>1. ASSUME NEW t \in Tabs, OpenNew(t) \/ OpenEdit(t) PROVE SoundInv'
  BY <1>1, NothingWritten DEF OpenNew, OpenEdit
<1>2. ASSUME NEW t \in DOMAIN page, Change(t) PROVE SoundInv'
  BY <1>2, ChangeType, NothingWritten DEF EditInv
<1>3. ASSUME NEW t \in DOMAIN page, Submit(t) PROVE SoundInv'
  <2> DEFINE loaded == IF page[t].original = New THEN NoRow ELSE row
             r == [pc |-> "loaded", form |-> Form(page[t]), disturbed |-> FALSE, loaded |-> loaded]
  <2>1. /\ request[t].pc = "idle" /\ request' = [request EXCEPT ![t] = r]
        /\ UNCHANGED <<row, audience, excuses>>
    BY <1>3 DEF Submit
  <2>2. r.pc = "loaded" /\ r.loaded = loaded
    OBVIOUS
  <2>3. loaded = row
    BY <1>0, <2>1 DEF EditInv, PageInv
  <2> HIDE DEF loaded, r
  <2>4. request'[t] = r /\ \A u \in Tabs : u # t => request'[u] = request[u]
    BY <1>0, <2>1 DEF EditInv, EditTypeOK
  <2>5. ~Midway(t)
    BY <2>1 DEF Midway
  <2>6. QED
    BY <2>1, <2>2, <2>3, <2>4, <2>5, NothingWritten
<1>4. ASSUME NEW t \in DOMAIN page, Save(t) \/ Lose(t) PROVE SoundInv'
  BY <1>0, <1>3, <1>4, SoundCommit, SoundRefresh, SoundWrite, SoundEnd DEF Save
<1>5. CASE CloseDue \/ \E q \in People : Delete(q)
  BY <1>5, SoundAround
<1>6. CASE UNCHANGED editVars
  BY <1>6, NothingWritten DEF editVars
<1>7. QED
  BY <1>1, <1>2, <1>4, <1>5, <1>6 DEF EditNext

\* An open poll has options and, if it is private, somebody to answer it, and makes nobody
\* answer it if it is public, unless something happened that leaves an excuse: the form that
\* was taken says so of itself, the row says what the form said, and the audience is the form's.
THEOREM OpenPollsAreSoundHolds == EditSpec => []OpenPollsAreSound
<1>1. EditInit => SoundInv
  <2>1. SUFFICES ASSUME EditInit PROVE SoundInv
    OBVIOUS
  <2>2. \A t \in Tabs : request[t].pc = "idle"
    BY <2>1 DEF EditInit, Idle
  <2>3. Sound(row, audience)
    BY <2>1 DEF EditInit
  <2>4. QED
    BY <2>2, <2>3 DEF SoundInv, Midway
<1>2. EditInv /\ SoundInv /\ [EditNext]_editVars => SoundInv'
  BY SoundStep
<1>3. SoundInv => OpenPollsAreSound
  BY DEF SoundInv, OpenPollsAreSound, Midway
<1>4. QED
  BY <1>1, <1>2, <1>3, EditInvHolds, PTL DEF EditSpec

-----------------------------------------------------------------------------
(* The vote form: it never walks a voter from a ballot the server accepts    *)
(* into one it refuses.                                                     *)

USE BallotAssumption, EditorAssumption

\* Clicks, numbers typed and numbers clamped keep the form well-formed.
LEMMA VoteTypeStep == TypeOK /\ [Next]_vars => TypeOK'
<1> SUFFICES ASSUME TypeOK, [Next]_vars PROVE TypeOK'
  OBVIOUS
<1>1. ASSUME NEW o \in Options, NEW status \in Statuses, Click(o, status) PROVE TypeOK'
  BY <1>1 DEF TypeOK, settings, Click, Set, VotesAfter, GuestsAfter, Statuses
<1>2. ASSUME NEW o \in Options, NEW n \in -1 .. MaxTyped, Type(o, n) PROVE TypeOK'
  BY <1>2 DEF TypeOK, settings, Type
<1>3. ASSUME NEW o \in Options, ClampGuests(o) PROVE TypeOK'
  <2>1. maxGuests \in Int /\ guests[o] \in Int
    BY DEF TypeOK, Unlimited
  <2>2. guests' \in [Options -> Int]
    BY <1>3, <2>1 DEF TypeOK, ClampGuests
  <2>3. QED
    BY <1>3, <2>2 DEF TypeOK, settings, ClampGuests
<1>4. CASE UNCHANGED vars
  BY <1>4 DEF TypeOK, settings, vars
<1>5. QED
  BY <1>1, <1>2, <1>3, <1>4 DEF Next

\* The form starts well-formed.
LEMMA VoteTypeInit == Init => TypeOK
<1> SUFFICES ASSUME Init PROVE TypeOK
  OBVIOUS
<1>1. rules \in Rules
  <2>1. 0 .. MaxChoices \subseteq Nat
    OBVIOUS
  <2>2. /\ rules.mode \in Modes /\ rules.maxYes \in Nat
        /\ rules.group \in [Options -> Groups \cup {NoGroup}]
        /\ rules.cap \in [Groups -> Nat]
        /\ rules = [mode |-> rules.mode, maxYes |-> rules.maxYes,
                    group |-> rules.group, cap |-> rules.cap]
    BY <2>1 DEF Init
  <2>3. QED
    BY <2>2 DEF Rules
<1>2. 0 .. MaxTyped \subseteq Int
  OBVIOUS
<1>3. QED
  BY <1>1, <1>2 DEF Init, TypeOK

\* The form is well-formed at all times.
THEOREM VoteTypeCorrect == Spec => []TypeOK
BY VoteTypeInit, VoteTypeStep, PTL DEF Spec

\* The sets of options the limits count are finite.
LEMMA Countable ==
    ASSUME NEW b \in [Options -> Statuses], NEW r \in Rules
    PROVE  /\ IsFiniteSet(Yes(b)) /\ Cardinality(Yes(b)) \in Nat
           /\ \A g \in Groups : IsFiniteSet(YesIn(r, b, g)) /\ Cardinality(YesIn(r, b, g)) \in Nat
<1>1. Yes(b) \subseteq Options
  BY DEF Yes, Voted
<1>2. \A g \in Groups : YesIn(r, b, g) \subseteq Options
  BY <1>1 DEF YesIn
<1>3. QED
  BY <1>1, <1>2, FS_Subset, FS_CardinalityType

\* A ballot with no more YES, and no MAYBE where none is allowed, is accepted if the
\* larger one is.
LEMMA FewerYes ==
    ASSUME NEW r \in Rules, NEW b \in [Options -> Statuses], NEW c \in [Options -> Statuses],
           Accepts(r, b), Yes(c) \subseteq Yes(b),
           r.mode # "YES_NO_MAYBE" => Voted(c, "MAYBE") = {}
    PROVE  Accepts(r, c)
<1>1. Cardinality(Yes(c)) <= Cardinality(Yes(b))
  BY Countable, FS_Subset
<1>2. \A g \in Groups : Cardinality(YesIn(r, c, g)) <= Cardinality(YesIn(r, b, g))
  <2> TAKE g \in Groups
  <2>1. YesIn(r, c, g) \subseteq YesIn(r, b, g)
    BY DEF YesIn
  <2>2. QED
    BY <2>1, Countable, FS_Subset
<1>3. ModeAccepts(r, c)
  BY <1>1, Countable DEF Accepts, ModeAccepts, Rules, Unlimited
<1>4. GroupsAccept(r, c)
  <2> SUFFICES ASSUME NEW g \in Groups, r.cap[g] # Unlimited
               PROVE  Cardinality(YesIn(r, c, g)) <= r.cap[g]
    BY DEF GroupsAccept
  <2>1. Cardinality(YesIn(r, b, g)) <= r.cap[g] /\ r.cap[g] \in Nat
    BY DEF Accepts, GroupsAccept, Rules
  <2>2. QED
    BY <1>2, <2>1, Countable
<1>5. QED
  BY <1>3, <1>4 DEF Accepts

\* One YES is within every limit.
LEMMA SingleYes ==
    ASSUME NEW r \in Rules, NEW b \in [Options -> Statuses], NEW o \in Options,
           r.mode = "SINGLE_CHOICE", Yes(b) \subseteq {o}, Voted(b, "MAYBE") = {}
    PROVE  Accepts(r, b)
<1>1. Cardinality({o}) = 1 /\ IsFiniteSet({o})
  BY FS_Singleton
<1>2. Cardinality(Yes(b)) <= 1
  BY <1>1, FS_Subset
<1>3. \A g \in Groups : Cardinality(YesIn(r, b, g)) <= 1
  BY <1>1, FS_Subset DEF YesIn
<1>4. \A g \in Groups : r.cap[g] # Unlimited => r.cap[g] >= 1
  BY DEF Rules, Unlimited
<1>5. GroupsAccept(r, b)
  <2> SUFFICES ASSUME NEW g \in Groups, r.cap[g] # Unlimited
               PROVE  Cardinality(YesIn(r, b, g)) <= r.cap[g]
    BY DEF GroupsAccept
  <2>1. r.cap[g] \in Nat
    BY DEF Rules
  <2>2. QED
    BY <1>3, <1>4, <2>1, Countable
<1>6. QED
  BY <1>2, <1>5 DEF Accepts, ModeAccepts

\* A YES that the buttons let through, in a poll with several, stays within its limits.
LEMMA MoreYes ==
    ASSUME TypeOK, Acceptable, NEW o \in Options, rules.mode # "SINGLE_CHOICE",
           CanSelect(o), GetsThrough(o, "YES"), votes' = VotesAfter(o, "YES"), rules' = rules
    PROVE  Acceptable'
<1>1. rules \in Rules /\ votes \in [Options -> Statuses] /\ votes' \in [Options -> Statuses]
  BY DEF TypeOK, VotesAfter, Statuses
<1>2. votes' = [votes EXCEPT ![o] = "YES"]
  BY <1>1 DEF VotesAfter, Exclusive
<1>3. Voted(votes', "MAYBE") \subseteq Voted(votes, "MAYBE")
  BY <1>1, <1>2 DEF Voted
<1>4. CASE votes[o] = "YES"
  <2>1. votes' = votes
    BY <1>1, <1>2, <1>4
  <2>2. QED
    BY <2>1 DEF Acceptable
<1>5. CASE votes[o] # "YES"
  <2>1. Yes(votes') = Yes(votes) \cup {o} /\ o \notin Yes(votes)
    BY <1>1, <1>2, <1>5 DEF Yes, Voted
  <2>2. Cardinality(Yes(votes')) = Cardinality(Yes(votes)) + 1
    BY <1>1, <2>1, Countable, FS_AddElement
  <2>3. ModeAccepts(rules, votes')
    <3>1. rules.mode = "MULTI_CHOICE" /\ rules.maxYes # Unlimited
             => Cardinality(Yes(votes)) < rules.maxYes
      BY <1>5 DEF CanSelect
    <3>2. rules.maxYes \in Nat /\ Cardinality(Yes(votes)) \in Nat
      BY <1>1, Countable DEF Rules
    <3>3. QED
      BY <1>3, <2>2, <3>1, <3>2 DEF Acceptable, Accepts, ModeAccepts
  <2>4. ASSUME NEW g \in Groups, rules.cap[g] # Unlimited
        PROVE  Cardinality(YesIn(rules, votes', g)) <= rules.cap[g]
    <3>1. /\ rules.cap[g] \in Nat /\ Cardinality(YesIn(rules, votes, g)) \in Nat
          /\ IsFiniteSet(YesIn(rules, votes, g))
      BY <1>1, Countable DEF Rules
    <3>2. Cardinality(YesIn(rules, votes, g)) <= rules.cap[g]
      BY <2>4 DEF Acceptable, Accepts, GroupsAccept
    <3>3. CASE rules.group[o] # g
      <4>1. YesIn(rules, votes', g) = YesIn(rules, votes, g)
        BY <2>1, <3>3 DEF YesIn
      <4>2. QED
        BY <3>2, <4>1
    <3>4. CASE rules.group[o] = g
      <4>1. Cardinality(YesIn(rules, votes, g)) < rules.cap[g]
        BY <1>5, <2>4, <3>4, BallotAssumption DEF CanSelect, CanSelectGroup
      <4>2. YesIn(rules, votes', g) = YesIn(rules, votes, g) \cup {o}
        BY <2>1, <3>4 DEF YesIn
      <4>3. o \notin YesIn(rules, votes, g)
        BY <2>1 DEF YesIn
      <4>4. Cardinality(YesIn(rules, votes', g)) = Cardinality(YesIn(rules, votes, g)) + 1
        BY <3>1, <4>2, <4>3, FS_AddElement
      <4>5. QED
        BY <3>1, <4>1, <4>4
    <3>5. QED
      BY <3>3, <3>4
  <2>5. QED
    BY <2>3, <2>4 DEF Acceptable, Accepts, GroupsAccept
<1>6. QED
  BY <1>4, <1>5

\* Every click keeps an acceptable ballot acceptable.
LEMMA ClickKeeps ==
    ASSUME TypeOK, Acceptable, NEW o \in Options, NEW status \in Statuses, Click(o, status)
    PROVE  Acceptable'
<1>1. /\ rules \in Rules /\ votes \in [Options -> Statuses] /\ rules' = rules
      /\ votes' = VotesAfter(o, status) /\ votes' \in [Options -> Statuses]
  BY DEF TypeOK, settings, Click, Set, VotesAfter, Statuses
<1>2. CASE status # "YES"
  <2>1. Yes(votes') \subseteq Yes(votes)
    BY <1>1, <1>2 DEF Yes, Voted, VotesAfter, Exclusive
  <2>2. rules.mode # "YES_NO_MAYBE" => Voted(votes', "MAYBE") = {}
    <3>1. rules.mode # "YES_NO_MAYBE" => status = "NO"
      BY <1>2 DEF Click, Modes
    <3>2. rules.mode # "YES_NO_MAYBE" => Voted(votes, "MAYBE") = {}
      BY DEF Acceptable, Accepts, ModeAccepts
    <3>3. QED
      BY <1>1, <3>1, <3>2 DEF Voted, VotesAfter, Exclusive
  <2>3. QED
    BY <1>1, <2>1, <2>2, FewerYes DEF Acceptable
<1>3. CASE status = "YES" /\ rules.mode = "SINGLE_CHOICE"
  <2>1. Yes(votes') \subseteq {o} /\ Voted(votes', "MAYBE") = {}
    BY <1>1, <1>3 DEF Yes, Voted, VotesAfter, Exclusive
  <2>2. QED
    BY <1>1, <1>3, <2>1, SingleYes DEF Acceptable
<1>4. CASE status = "YES" /\ rules.mode # "SINGLE_CHOICE"
  BY <1>1, <1>4, MoreYes DEF Click, Set
<1>5. QED
  BY <1>2, <1>3, <1>4

\* The browser never walks a voter out of what the server accepts.
THEOREM StaysAcceptableHolds == Spec => StaysAcceptable
<1>1. TypeOK /\ [Next]_vars => [Acceptable => Acceptable']_vars
  <2> SUFFICES ASSUME TypeOK, Acceptable, Next PROVE Acceptable'
    OBVIOUS
  <2>1. CASE \E o \in Options, status \in Statuses : Click(o, status)
    BY <2>1, ClickKeeps
  <2>2. CASE \E o \in Options : (\E n \in -1 .. MaxTyped : Type(o, n)) \/ ClampGuests(o)
    BY <2>2 DEF Type, ClampGuests, settings, Acceptable
  <2>3. QED
    BY <2>1, <2>2 DEF Next
<1>2. QED
  BY <1>1, VoteTypeCorrect, PTL DEF Spec, StaysAcceptable

-----------------------------------------------------------------------------
(* Guests. *)

\* GuestsAsShown forgets the number of an option without a YES, which a click could
\* bring back: there is none.
GuestInv ==
    /\ \A o \in Options : votes[o] # "YES" => guests[o] = 0
    /\ ~allowGuests => typing = {}
    /\ \A o \in Options \ (typing \cup stale) : guests[o] >= 0 /\ ~Outdated(guests[o])

\* What is stored and is not outdated is within the rules.
LEMMA GuestInit == Init => GuestInv
<1> SUFFICES ASSUME Init PROVE GuestInv
  OBVIOUS
<1>1. \A o \in Options : guests[o] \in 0 .. MaxTyped
  BY DEF Init
<1>2. \A o \in Options : guests[o] >= 0
  BY <1>1
<1>3. QED
  BY <1>2 DEF Init, GuestInv

\* A number is typed where there is a YES, clamped when it is done, and cleared when
\* the YES is taken back.
LEMMA GuestStep == TypeOK /\ GuestInv /\ [Next]_vars => GuestInv'
<1> SUFFICES ASSUME TypeOK, GuestInv, [Next]_vars PROVE GuestInv'
  OBVIOUS
<1>0. maxGuests \in Nat /\ \A o \in Options : guests[o] \in Int
  BY DEF TypeOK, Unlimited
<1>1. ASSUME NEW o \in Options, NEW status \in Statuses, Click(o, status) PROVE GuestInv'
  <2>1. /\ allowGuests' = allowGuests /\ maxGuests' = maxGuests
        /\ typing' = {p \in typing : guests'[p] # 0}
        /\ stale' = {p \in stale : guests'[p] # 0}
        /\ \A p \in Options :
              /\ votes'[p] = IF p = o THEN status
                            ELSE IF Exclusive(status) THEN "NO" ELSE votes[p]
              /\ guests'[p] = IF Exclusive(status) \/ (p = o /\ status # "YES") THEN 0
                             ELSE guests[p]
    BY <1>1 DEF Click, Set, VotesAfter, GuestsAfter, settings
  <2>2. QED
    BY <1>0, <2>1 DEF GuestInv, Outdated
<1>2. ASSUME NEW o \in Options, NEW n \in -1 .. MaxTyped, Type(o, n) PROVE GuestInv'
  BY <1>2 DEF TypeOK, Type, GuestInv, Outdated, settings
<1>3. ASSUME NEW o \in Options, ClampGuests(o) PROVE GuestInv'
  <2>1. /\ allowGuests' = allowGuests /\ maxGuests' = maxGuests /\ votes' = votes
        /\ typing' = typing \ {o} /\ stale' = stale /\ o \in typing
        /\ \A p \in Options \ {o} : guests'[p] = guests[p]
        /\ guests'[o] = IF guests[o] < 0 THEN 0
                        ELSE IF maxGuests # Unlimited /\ guests[o] > maxGuests
                        THEN maxGuests ELSE guests[o]
    BY <1>3 DEF TypeOK, ClampGuests, settings
  <2>2. allowGuests
    BY <2>1 DEF GuestInv
  <2>3. QED
    BY <1>0, <2>1, <2>2 DEF GuestInv, Outdated, Unlimited
<1>4. CASE UNCHANGED vars
  BY <1>4 DEF GuestInv, Outdated, settings, vars
<1>5. QED
  BY <1>1, <1>2, <1>3, <1>4 DEF Next

\* The guests a voter is done with are those that the server stores, whatever was stored
\* before, but for the numbers the rules have ceased to allow and that the voter leaves alone.
THEOREM GuestsAsShownHolds == Spec => []GuestsAsShown
<1>1. TypeOK /\ GuestInv => GuestsAsShown
  BY DEF TypeOK, GuestInv, Outdated, GuestsAsShown, SentGuests, StoredGuests, Unlimited
<1>2. QED
  BY <1>1, GuestInit, GuestStep, VoteTypeInit, VoteTypeStep, PTL DEF Spec

(***************************************************************************)
(* The table of groups.                                                    *)
(***************************************************************************)

\* What a table or a form has of some groups.
Listings == UNION {[known -> G!Lines] : known \in SUBSET GroupIds}

LEMMA ListingIs ==
    ASSUME NEW known \in SUBSET GroupIds, NEW f \in [known -> G!Lines]
    PROVE  f \in Listings
BY DEF Listings

LEMMA ListingHas ==
    ASSUME NEW f \in Listings
    PROVE  DOMAIN f \subseteq GroupIds /\ f \in [DOMAIN f -> G!Lines]
<1>1. PICK known \in SUBSET GroupIds : f \in [known -> G!Lines]
  BY DEF Listings
<1>2. QED
  BY <1>1

GroupTables == [lines : Listings, made : Listings, filter : G!Filters,
                touched : SUBSET GroupIds]

\* Records and functions behind G!TypeOK, and what a form that passed says.
GroupTypes ==
    /\ G!TypeOK
    /\ \A t \in DOMAIN table : table[t] \in GroupTables
    /\ table = [t \in DOMAIN table |-> table[t]]
    /\ post \in [Tabs -> [pc : {"idle", "loaded", "checked"}, loaded : Listings]]
    /\ \A t \in Tabs : post[t].pc # "idle" =>
          \A g \in DOMAIN post[t].loaded :
             /\ g \in GroupIds \ unused
             /\ G!Submitted(t, g).name # G!NoName

LEMMA EmptyListing == << >> \in Listings
<1>1. << >> \in [{} -> G!Lines]
  OBVIOUS
<1>2. QED
  BY <1>1, ListingIs

LEMMA GroupInit == G!Init => GroupTypes
<1> SUFFICES ASSUME G!Init PROVE GroupTypes
  OBVIOUS
<1>1. PICK known \in SUBSET GroupIds :
        setting \in [known -> G!Settings] /\ unused = GroupIds \ known
  BY DEF G!Init
<1>2. /\ table = << >> /\ DOMAIN table = {} /\ table = [t \in DOMAIN table |-> table[t]]
      /\ post = [t \in Tabs |-> G!Quiet]
  BY DEF G!Init
<1>3. G!Quiet \in [pc : {"idle", "loaded", "checked"}, loaded : Listings] /\ G!Quiet.pc = "idle"
  BY EmptyListing DEF G!Quiet
<1>4. QED
  BY <1>1, <1>2, <1>3 DEF GroupTypes, G!TypeOK

\* What a form says of a group is a line.
LEMMA SubmittedType ==
    ASSUME GroupTypes, NEW t \in DOMAIN table, NEW g
    PROVE  G!Submitted(t, g) \in G!Lines
BY ListingHas DEF GroupTypes, GroupTables, G!Submitted, G!Lines

\* A group that is saved has a name.
LEMMA SavedType ==
    ASSUME GroupTypes, NEW t \in DOMAIN table, post[t].pc # "idle", NEW g \in DOMAIN setting
    PROVE  G!Saved(t, g) \in G!Settings
<1>1. t \in Tabs /\ setting[g] \in G!Settings
  BY DEF GroupTypes, G!TypeOK
<1>2. CASE g \notin DOMAIN post[t].loaded
  BY <1>1, <1>2 DEF G!Saved
<1>3. CASE g \in DOMAIN post[t].loaded
  <2>1. G!Submitted(t, g) \in G!Lines /\ G!Submitted(t, g).name # G!NoName
    BY <1>1, <1>3, SubmittedType DEF GroupTypes
  <2>2. G!Submitted(t, g).name \in Aliases /\ G!Submitted(t, g).hidden \in BOOLEAN
    BY <2>1 DEF G!Lines
  <2>3. QED
    BY <1>1, <1>3, <2>2 DEF G!Saved, G!WriteBack, G!Settings
<1>4. QED
  BY <1>2, <1>3

\* A change to one table, with no form of that tab under way.
LEMMA MoveTypes ==
    ASSUME GroupTypes, NEW t \in DOMAIN table, NEW after \in GroupTables, G!Move(t, after),
           DOMAIN after.lines \subseteq GroupIds \ unused
    PROVE  GroupTypes'
<1>1. /\ post[t].pc = "idle" /\ table' = [table EXCEPT ![t] = after]
      /\ UNCHANGED <<setting, unused, post>>
  BY DEF G!Move
<1>2. /\ DOMAIN table' = DOMAIN table /\ table'[t] = after
      /\ table' = [u \in DOMAIN table' |-> table'[u]]
      /\ \A u \in DOMAIN table : u # t => table'[u] = table[u]
  BY <1>1 DEF GroupTypes
<1>3. ASSUME NEW u \in Tabs, post'[u].pc # "idle", NEW g
      PROVE  post[u].pc # "idle" /\ G!Submitted(u, g)' = G!Submitted(u, g)
  BY <1>1, <1>2, <1>3 DEF G!Submitted, GroupTypes, G!TypeOK
<1>4. \A g \in DOMAIN after.lines : after.lines[g] \in G!Lines
  BY ListingHas DEF GroupTables
<1>5. G!TypeOK'
  BY <1>1, <1>2, <1>4 DEF GroupTypes, G!TypeOK
<1>6. \A u \in DOMAIN table' : table'[u] \in GroupTables
  BY <1>2 DEF GroupTypes
<1>7. ASSUME NEW u \in Tabs, post'[u].pc # "idle", NEW g \in DOMAIN post'[u].loaded
      PROVE  g \in GroupIds \ unused' /\ G!Submitted(u, g)'.name # G!NoName
  BY <1>1, <1>3, <1>7 DEF GroupTypes
<1>8. QED
  BY <1>1, <1>2, <1>5, <1>6, <1>7 DEF GroupTypes

\* A change to the groups there are, by SCIM.
LEMMA ScimTypes ==
    ASSUME GroupTypes, UNCHANGED <<table, post>>, unused' \subseteq unused,
           DOMAIN setting' \subseteq GroupIds \ unused',
           \A g \in DOMAIN setting' : setting'[g] \in G!Settings
    PROVE  GroupTypes'
<1>1. G!TypeOK'
  BY DEF GroupTypes, G!TypeOK
<1>2. \A t, g : G!Submitted(t, g)' = G!Submitted(t, g)
  BY DEF G!Submitted
<1>3. QED
  BY <1>1, <1>2 DEF GroupTypes

\* The tables of the other tabs and their forms stay as they are.
LEMMA OneTable ==
    ASSUME GroupTypes, NEW t \in Tabs,
           table' = [u \in DOMAIN table' |-> table'[u]],
           DOMAIN table' \subseteq DOMAIN table \cup {t},
           DOMAIN table \subseteq DOMAIN table' \cup {t},
           \A u \in DOMAIN table' : u # t => table'[u] = table[u],
           t \in DOMAIN table' => /\ table'[t] \in GroupTables
                                  /\ DOMAIN table'[t].lines \subseteq GroupIds \ unused,
           post' = [post EXCEPT ![t] = post'[t]],
           post'[t] \in [pc : {"idle", "loaded", "checked"}, loaded : Listings],
           post'[t].pc # "idle" =>
              /\ t \in DOMAIN table'
              /\ \A g \in DOMAIN post'[t].loaded :
                    /\ g \in GroupIds \ unused
                    /\ G!Submitted(t, g)'.name # G!NoName,
           unused' = unused, DOMAIN setting' = DOMAIN setting,
           \A g \in DOMAIN setting : setting'[g] \in G!Settings
    PROVE  GroupTypes'
<1>1. \A u \in Tabs : u # t => post'[u] = post[u]
  BY DEF GroupTypes
<1>2. post' \in [Tabs -> [pc : {"idle", "loaded", "checked"}, loaded : Listings]]
  BY DEF GroupTypes
<1>3. \A u \in DOMAIN table' : table'[u] \in GroupTables
  BY DEF GroupTypes
<1>4. ASSUME NEW u \in DOMAIN table'
      PROVE  DOMAIN table'[u].lines \subseteq GroupIds \ unused
  BY DEF GroupTypes, G!TypeOK
<1>5. \A u \in DOMAIN table' : \A g \in DOMAIN table'[u].lines : table'[u].lines[g] \in G!Lines
  BY <1>3, ListingHas DEF GroupTables
<1>6. \A u \in Tabs : post'[u].pc # "idle" => u \in DOMAIN table'
  BY <1>1 DEF GroupTypes, G!TypeOK
<1>7. G!TypeOK'
  BY <1>4, <1>5, <1>6 DEF GroupTypes, G!TypeOK
<1>8. ASSUME NEW u \in Tabs, post'[u].pc # "idle", NEW g \in DOMAIN post'[u].loaded
      PROVE  g \in GroupIds \ unused' /\ G!Submitted(u, g)'.name # G!NoName
  <2>1. CASE u = t
    BY <1>8, <2>1
  <2>2. CASE u # t
    <3>1. post'[u] = post[u] /\ table'[u] = table[u]
      BY <1>1, <1>6, <1>8, <2>2
    <3>2. G!Submitted(u, g)' = G!Submitted(u, g)
      BY <3>1 DEF G!Submitted
    <3>3. QED
      BY <1>8, <3>1, <3>2 DEF GroupTypes
  <2>3. QED
    BY <2>1, <2>2
<1>9. QED
  BY <1>2, <1>3, <1>7, <1>8 DEF GroupTypes

\* The groups as a page shows them.
LEMMA RowsListed ==
    ASSUME GroupTypes
    PROVE  /\ setting \in [DOMAIN setting -> G!Lines] => setting \in Listings
           /\ \A g \in DOMAIN setting : setting[g] \in G!Lines
<1>1. \A g \in DOMAIN setting : setting[g] \in G!Lines
  BY DEF GroupTypes, G!TypeOK, G!Settings, G!Lines
<1>2. DOMAIN setting \in SUBSET GroupIds
  BY DEF GroupTypes, G!TypeOK
<1>3. QED
  BY <1>1, <1>2, ListingIs

\* The settings are a function: a step makes them with one.
SettingIsListed == setting \in [DOMAIN setting -> G!Lines]

LEMMA ListedInit == G!Init => SettingIsListed
BY DEF G!Init, SettingIsListed, G!Settings, G!Lines

LEMMA TableIs ==
    ASSUME NEW lines \in Listings, NEW filter \in G!Filters
    PROVE  /\ G!Table(lines, filter) \in GroupTables
           /\ G!Table(lines, filter).lines = lines
           /\ G!Table(lines, filter).touched = {}
           /\ G!Table(lines, filter).filter = filter
BY DEF G!Table, GroupTables

LEMMA OpenTypes ==
    ASSUME GroupTypes, SettingIsListed, NEW t \in Tabs, G!Open(t)
    PROVE  GroupTypes' /\ SettingIsListed'
<1>1. /\ t \notin DOMAIN table
      /\ table' = [u \in DOMAIN table \cup {t} |->
                     IF u = t THEN G!Table(setting, "all") ELSE table[u]]
      /\ UNCHANGED <<setting, unused, post>>
  BY DEF G!Open
<1>2. setting \in Listings /\ "all" \in G!Filters
  BY RowsListed DEF SettingIsListed, G!Filters
<1>3. post'[t].pc = "idle" /\ post'[t] \in [pc : {"idle", "loaded", "checked"}, loaded : Listings]
      /\ post' = [post EXCEPT ![t] = post'[t]]
  BY <1>1 DEF GroupTypes, G!TypeOK
<1>4. /\ DOMAIN table' = DOMAIN table \cup {t}
      /\ table' = [u \in DOMAIN table' |-> table'[u]]
      /\ table'[t] = G!Table(setting, "all")
      /\ \A u \in DOMAIN table' : u # t => table'[u] = table[u]
  BY <1>1
<1>5. table'[t] \in GroupTables /\ DOMAIN table'[t].lines \subseteq GroupIds \ unused
  BY <1>2, <1>4, TableIs DEF GroupTypes, G!TypeOK
<1>6. \A g \in DOMAIN setting : setting'[g] \in G!Settings
  BY <1>1 DEF GroupTypes, G!TypeOK
<1>7. GroupTypes'
  BY <1>1, <1>3, <1>4, <1>5, <1>6, OneTable
<1>8. QED
  BY <1>1, <1>7 DEF SettingIsListed

LEMMA PostTypes ==
    ASSUME GroupTypes, SettingIsListed, NEW t \in DOMAIN table, G!Post(t)
    PROVE  GroupTypes' /\ SettingIsListed'
<1> DEFINE known == DOMAIN setting
<1>0. t \in Tabs /\ table[t] \in GroupTables /\ known \in SUBSET GroupIds
      /\ known \subseteq GroupIds \ unused
  BY DEF GroupTypes, G!TypeOK
<1>1. post[t].pc = "idle" /\ UNCHANGED <<setting, unused>>
  BY DEF G!Post
<1>2. setting \in Listings
  BY RowsListed DEF SettingIsListed
<1>3. \A g \in DOMAIN setting : setting'[g] \in G!Settings
  BY <1>1 DEF GroupTypes, G!TypeOK
<1>4. CASE G!Errors(t, known) = {}
  <2>1. post' = [post EXCEPT ![t] = [pc |-> "loaded", loaded |-> setting]] /\ UNCHANGED table
    BY <1>4 DEF G!Post
  <2>2. post'[t] = [pc |-> "loaded", loaded |-> setting]
    BY <1>0, <2>1 DEF GroupTypes
  <2>3. \A g \in known : G!Submitted(t, g)'.name # G!NoName
    BY <1>4, <2>1 DEF G!Errors, G!Submitted
  <2>4. /\ table' = [u \in DOMAIN table' |-> table'[u]]
        /\ table'[t] \in GroupTables /\ DOMAIN table'[t].lines \subseteq GroupIds \ unused
    BY <2>1 DEF GroupTypes, G!TypeOK
  <2>5. /\ post'[t].pc # "idle" /\ post'[t].loaded = setting
        /\ post'[t] \in [pc : {"idle", "loaded", "checked"}, loaded : Listings]
    BY <1>2, <2>2
  <2>6. post' = [post EXCEPT ![t] = post'[t]]
    BY <2>1, <2>2
  <2>7. /\ t \in DOMAIN table'
        /\ \A g \in DOMAIN post'[t].loaded :
              g \in GroupIds \ unused /\ G!Submitted(t, g)'.name # G!NoName
    BY <1>0, <2>1, <2>3, <2>5
  <2>8. GroupTypes'
    BY <1>0, <1>1, <1>3, <2>1, <2>4, <2>5, <2>6, <2>7, OneTable
  <2>9. QED
    BY <1>1, <2>8 DEF SettingIsListed
<1>5. CASE G!Errors(t, known) # {}
  <2> DEFINE again == G!Table([g \in known |-> G!Submitted(t, g)], table[t].filter)
  <2>1. table' = [table EXCEPT ![t] = [again EXCEPT !.touched = table[t].touched \cap known]]
        /\ UNCHANGED post
    BY <1>5 DEF G!Post
  <2>2. [g \in known |-> G!Submitted(t, g)] \in Listings
    BY <1>0, SubmittedType, ListingIs
  <2>3. table[t].filter \in G!Filters /\ table[t].touched \cap known \in SUBSET GroupIds
    BY <1>0 DEF GroupTables
  <2>4. again \in GroupTables /\ DOMAIN again.lines = known
    BY <2>2, <2>3, TableIs
  <2> HIDE DEF again
  <2>5. /\ [again EXCEPT !.touched = table[t].touched \cap known] \in GroupTables
        /\ [again EXCEPT !.touched = table[t].touched \cap known].lines = again.lines
    BY <2>3, <2>4 DEF GroupTables
  <2>6. /\ DOMAIN table' = DOMAIN table
        /\ table'[t] = [again EXCEPT !.touched = table[t].touched \cap known]
        /\ table' = [u \in DOMAIN table' |-> table'[u]]
        /\ \A u \in DOMAIN table' : u # t => table'[u] = table[u]
    BY <2>1 DEF GroupTypes
  <2>7. /\ table'[t] \in GroupTables /\ DOMAIN table'[t].lines \subseteq GroupIds \ unused
        /\ post'[t].pc = "idle" /\ post'[t] \in [pc : {"idle", "loaded", "checked"}, loaded : Listings]
        /\ post' = [post EXCEPT ![t] = post'[t]]
    BY <1>0, <1>1, <2>1, <2>4, <2>5, <2>6 DEF GroupTypes
  <2>8. GroupTypes'
    BY <1>0, <1>1, <1>3, <2>6, <2>7, OneTable
  <2>9. QED
    BY <1>1, <2>8 DEF SettingIsListed
<1>6. QED
  BY <1>4, <1>5

LEMMA CheckTypes ==
    ASSUME GroupTypes, SettingIsListed, NEW t \in DOMAIN table, G!Check(t)
    PROVE  GroupTypes' /\ SettingIsListed'
<1>1. /\ post[t].pc = "loaded" /\ post' = [post EXCEPT ![t].pc = "checked"]
      /\ UNCHANGED <<setting, unused, table>>
  BY DEF G!Check
<1>2. /\ post' \in [Tabs -> [pc : {"idle", "loaded", "checked"}, loaded : Listings]]
      /\ \A u \in Tabs : /\ post'[u].pc # "idle" => post[u].pc # "idle"
                         /\ post'[u].loaded = post[u].loaded
  BY <1>1 DEF GroupTypes
<1>3. \A u, g : G!Submitted(u, g)' = G!Submitted(u, g)
  BY <1>1 DEF G!Submitted
<1>4. G!TypeOK'
  BY <1>1, <1>2 DEF GroupTypes, G!TypeOK
<1>5. QED
  BY <1>1, <1>2, <1>3, <1>4 DEF GroupTypes, SettingIsListed

LEMMA CommitTypes ==
    ASSUME GroupTypes, SettingIsListed, NEW t \in DOMAIN table, G!Commit(t)
    PROVE  GroupTypes' /\ SettingIsListed'
<1>0. t \in Tabs /\ table[t] \in GroupTables /\ DOMAIN setting \in SUBSET GroupIds
      /\ DOMAIN setting \subseteq GroupIds \ unused
  BY DEF GroupTypes, G!TypeOK
<1>1. /\ post[t].pc # "idle" /\ setting' = [g \in DOMAIN setting |-> G!Saved(t, g)]
      /\ post' = [post EXCEPT ![t] = G!Quiet]
      /\ table' = [table EXCEPT ![t] = G!Table(setting', table[t].filter)]
      /\ UNCHANGED unused
  BY DEF G!Commit
<1>2. \A g \in DOMAIN setting : setting'[g] \in G!Settings
  BY <1>1, SavedType
<1>3. DOMAIN setting' = DOMAIN setting /\ setting' \in [DOMAIN setting -> G!Lines]
  BY <1>1, <1>2 DEF G!Settings, G!Lines
<1>4. setting' \in Listings /\ table[t].filter \in G!Filters
  BY <1>0, <1>3, ListingIs DEF GroupTables
<1>5. /\ DOMAIN table' = DOMAIN table
      /\ table'[t] = G!Table(setting', table[t].filter)
      /\ table' = [u \in DOMAIN table' |-> table'[u]]
      /\ \A u \in DOMAIN table' : u # t => table'[u] = table[u]
  BY <1>1 DEF GroupTypes
<1>6. table'[t] \in GroupTables /\ DOMAIN table'[t].lines \subseteq GroupIds \ unused
  BY <1>0, <1>3, <1>4, <1>5, TableIs
<1>7. post'[t] = G!Quiet /\ post' = [post EXCEPT ![t] = post'[t]]
      /\ G!Quiet \in [pc : {"idle", "loaded", "checked"}, loaded : Listings] /\ G!Quiet.pc = "idle"
  BY <1>0, <1>1, EmptyListing DEF GroupTypes, G!Quiet
<1>8. GroupTypes'
  BY <1>0, <1>1, <1>2, <1>3, <1>5, <1>6, <1>7, OneTable
<1>9. QED
  BY <1>3, <1>8 DEF SettingIsListed

LEMMA LoseTypes ==
    ASSUME GroupTypes, SettingIsListed, NEW t \in DOMAIN table, G!Lose(t)
    PROVE  GroupTypes' /\ SettingIsListed'
<1>0. t \in Tabs
  BY DEF GroupTypes, G!TypeOK
<1>1. /\ post' = [post EXCEPT ![t] = G!Quiet]
      /\ table' = [u \in DOMAIN table \ {t} |-> table[u]]
      /\ UNCHANGED <<setting, unused>>
  BY DEF G!Lose
<1>2. /\ DOMAIN table' = DOMAIN table \ {t}
      /\ table' = [u \in DOMAIN table' |-> table'[u]]
      /\ \A u \in DOMAIN table' : u # t => table'[u] = table[u]
  BY <1>1
<1>3. post'[t] = G!Quiet /\ post' = [post EXCEPT ![t] = post'[t]]
      /\ G!Quiet \in [pc : {"idle", "loaded", "checked"}, loaded : Listings] /\ G!Quiet.pc = "idle"
  BY <1>0, <1>1, EmptyListing DEF GroupTypes, G!Quiet
<1>4. \A g \in DOMAIN setting : setting'[g] \in G!Settings
  BY <1>1 DEF GroupTypes, G!TypeOK
<1>5. GroupTypes'
  BY <1>0, <1>1, <1>2, <1>3, <1>4, OneTable
<1>6. QED
  BY <1>1, <1>5 DEF SettingIsListed

LEMMA GroupStep ==
    GroupTypes /\ SettingIsListed /\ [G!Next]_tableVars => GroupTypes' /\ SettingIsListed'
<1> SUFFICES ASSUME GroupTypes, SettingIsListed, [G!Next]_tableVars
             PROVE  GroupTypes' /\ SettingIsListed'
  OBVIOUS
<1>0. DOMAIN table \subseteq Tabs
  BY DEF GroupTypes, G!TypeOK
<1>1. ASSUME NEW t \in Tabs, G!Open(t) PROVE GroupTypes' /\ SettingIsListed'
  BY <1>1, OpenTypes
<1>2. ASSUME NEW t \in DOMAIN table, NEW f \in G!Filters, G!Filter(t, f)
      PROVE  GroupTypes' /\ SettingIsListed'
  <2>1. G!Move(t, [table[t] EXCEPT !.filter = f]) /\ UNCHANGED setting
    BY <1>2 DEF G!Filter, G!Move
  <2>2. [table[t] EXCEPT !.filter = f] \in GroupTables
        /\ [table[t] EXCEPT !.filter = f].lines = table[t].lines
    BY DEF GroupTypes, GroupTables
  <2>3. DOMAIN table[t].lines \subseteq GroupIds \ unused
    BY DEF GroupTypes, G!TypeOK
  <2>4. GroupTypes'
    BY <2>1, <2>2, <2>3, MoveTypes
  <2>5. QED
    BY <2>1, <2>4 DEF SettingIsListed
<1>3. ASSUME NEW t \in DOMAIN table, NEW g \in GroupIds, NEW line \in G!Lines,
             G!Fill(t, g, line)
      PROVE  GroupTypes' /\ SettingIsListed'
  <2> DEFINE lines == [table[t].lines EXCEPT ![g] = line]
             after == [table[t] EXCEPT !.lines[g] = line, !.touched = @ \cup {g}]
  <2>1. G!Move(t, after) /\ UNCHANGED setting /\ g \in DOMAIN table[t].lines
    BY <1>3 DEF G!Fill, G!Move
  <2>2. DOMAIN table[t].lines \subseteq GroupIds \ unused
        /\ table[t].lines \in [DOMAIN table[t].lines -> G!Lines]
    BY ListingHas DEF GroupTypes, G!TypeOK, GroupTables
  <2>3. lines \in [DOMAIN table[t].lines -> G!Lines] /\ DOMAIN lines = DOMAIN table[t].lines
        /\ lines \in Listings
    BY <2>2, ListingIs
  <2>4. after \in GroupTables /\ after.lines = lines
    BY <2>3 DEF GroupTypes, GroupTables
  <2> HIDE DEF after, lines
  <2>5. GroupTypes'
    BY <2>1, <2>2, <2>3, <2>4, MoveTypes
  <2>6. QED
    BY <2>1, <2>5 DEF SettingIsListed
<1>4. ASSUME NEW t \in DOMAIN table, G!Post(t) PROVE GroupTypes' /\ SettingIsListed'
  BY <1>4, PostTypes
<1>5. ASSUME NEW t \in DOMAIN table, G!Commit(t) PROVE GroupTypes' /\ SettingIsListed'
  BY <1>5, CommitTypes
<1>6. ASSUME NEW t \in DOMAIN table, G!Lose(t) PROVE GroupTypes' /\ SettingIsListed'
  BY <1>6, LoseTypes
<1>7. ASSUME NEW g \in GroupIds, NEW name \in Aliases, G!Create(g, name)
      PROVE  GroupTypes' /\ SettingIsListed'
  <2>1. /\ unused' = unused \ {g} /\ UNCHANGED <<table, post>>
        /\ setting' = [h \in DOMAIN setting \cup {g} |->
                         IF h = g THEN [name |-> name, hidden |-> FALSE] ELSE setting[h]]
    BY <1>7 DEF G!Create
  <2>2. DOMAIN setting' \subseteq GroupIds \ unused' /\ unused' \subseteq unused
        /\ \A h \in DOMAIN setting' : setting'[h] \in G!Settings
    BY <2>1 DEF GroupTypes, G!TypeOK, G!Settings
  <2>3. SettingIsListed'
    BY <2>1, <2>2 DEF SettingIsListed, G!Settings, G!Lines
  <2>4. QED
    BY <2>1, <2>2, <2>3, ScimTypes
<1>8. ASSUME NEW g \in DOMAIN setting, G!Delete(g)
      PROVE  GroupTypes' /\ SettingIsListed'
  <2>1. /\ UNCHANGED <<unused, table, post>>
        /\ setting' = [h \in DOMAIN setting \ {g} |-> setting[h]]
    BY <1>8 DEF G!Delete
  <2>2. DOMAIN setting' \subseteq GroupIds \ unused' /\ unused' \subseteq unused
        /\ \A h \in DOMAIN setting' : setting'[h] \in G!Settings
    BY <2>1 DEF GroupTypes, G!TypeOK
  <2>3. SettingIsListed'
    BY <2>1, <2>2 DEF SettingIsListed, G!Settings, G!Lines
  <2>4. QED
    BY <2>1, <2>2, <2>3, ScimTypes
<1>10. ASSUME NEW t \in DOMAIN table, G!Check(t) PROVE GroupTypes' /\ SettingIsListed'
  BY <1>10, CheckTypes
<1>9. CASE UNCHANGED tableVars
  <2>1. UNCHANGED <<setting, unused, table, post>>
    BY <1>9 DEF tableVars
  <2>2. \A g \in DOMAIN setting' : setting'[g] \in G!Settings
        /\ DOMAIN setting' \subseteq GroupIds \ unused'
    BY <2>1 DEF GroupTypes, G!TypeOK
  <2>3. QED
    BY <2>1, <2>2, ScimTypes DEF SettingIsListed, GroupTypes, G!TypeOK
<1>11. QED
  BY <1>1, <1>2, <1>3, <1>4, <1>5, <1>6, <1>7, <1>8, <1>9, <1>10 DEF G!Next

\* A line nobody touched says what the group has, unless a form with an error came back:
\* then it may lack the name of a group that is new, and cannot be saved.
UntouchedAgree ==
    \A t \in DOMAIN table \ overtaken :
       \A g \in DOMAIN table[t].lines \cap DOMAIN setting :
          g \notin table[t].touched =>
             table[t].lines[g] = setting[g] \/ table[t].lines[g].name = G!NoName

LEMMA AgreeInit == G!Init => UntouchedAgree
BY DEF G!Init, UntouchedAgree

LEMMA AgreeStep ==
    GroupTypes /\ SettingIsListed /\ UntouchedAgree /\ [G!Next]_tableVars => UntouchedAgree'
<1> SUFFICES ASSUME GroupTypes, SettingIsListed, UntouchedAgree, [G!Next]_tableVars
             PROVE  UntouchedAgree'
  OBVIOUS
<1> DEFINE AgreesAt(t) == \A g \in DOMAIN table[t].lines \cap DOMAIN setting :
                            g \notin table[t].touched =>
                               table[t].lines[g] = setting[g] \/ table[t].lines[g].name = G!NoName
<1>0. /\ DOMAIN table \subseteq Tabs /\ \A t \in DOMAIN table : table[t] \in GroupTables
      /\ \A t \in DOMAIN table : DOMAIN table[t].lines \subseteq GroupIds \ unused
  BY DEF GroupTypes, G!TypeOK
<1>1. ASSUME NEW t \in Tabs, G!Open(t) PROVE UntouchedAgree'
  <2>1. /\ t \notin DOMAIN table
        /\ table' = [u \in DOMAIN table \cup {t} |->
                       IF u = t THEN G!Table(setting, "all") ELSE table[u]]
        /\ overtaken' = overtaken \ {t} /\ UNCHANGED setting
    BY <1>1 DEF G!Open
  <2>2. table'[t].lines = setting
    BY <2>1 DEF G!Table
  <2>3. \A u \in DOMAIN table' \ overtaken' : u # t =>
           u \in DOMAIN table \ overtaken /\ table'[u] = table[u]
    BY <2>1
  <2>4. QED
    BY <2>1, <2>2, <2>3 DEF UntouchedAgree
<1>2. ASSUME NEW t \in DOMAIN table, NEW f \in G!Filters, G!Filter(t, f)
      PROVE  UntouchedAgree'
  <2>1. /\ table' = [table EXCEPT ![t] = [table[t] EXCEPT !.filter = f]]
        /\ UNCHANGED <<setting, overtaken>>
    BY <1>2 DEF G!Filter, G!Move
  <2>2. /\ DOMAIN table' = DOMAIN table
        /\ \A u \in DOMAIN table : /\ table'[u].lines = table[u].lines
                                   /\ table'[u].touched = table[u].touched
    BY <1>0, <2>1 DEF GroupTables
  <2>3. QED
    BY <2>1, <2>2 DEF UntouchedAgree
<1>3. ASSUME NEW t \in DOMAIN table, NEW g \in GroupIds, NEW line \in G!Lines,
             G!Fill(t, g, line)
      PROVE  UntouchedAgree'
  <2> DEFINE after == [table[t] EXCEPT !.lines[g] = line, !.touched = @ \cup {g}]
  <2>1. /\ table' = [table EXCEPT ![t] = after]
        /\ UNCHANGED <<setting, overtaken>> /\ g \in DOMAIN table[t].lines
    BY <1>3 DEF G!Fill, G!Move
  <2>2. /\ after.lines = [table[t].lines EXCEPT ![g] = line]
        /\ after.touched = table[t].touched \cup {g}
    BY <1>0 DEF GroupTables
  <2> HIDE DEF after
  <2>3. /\ DOMAIN table' = DOMAIN table /\ table'[t] = after
        /\ \A u \in DOMAIN table : u # t => table'[u] = table[u]
    BY <2>1
  <2>4. DOMAIN after.lines = DOMAIN table[t].lines
        /\ \A h \in DOMAIN after.lines : h # g => after.lines[h] = table[t].lines[h]
    BY <2>2
  <2>5. ASSUME NEW u \in DOMAIN table' \ overtaken',
               NEW h \in DOMAIN table'[u].lines \cap DOMAIN setting', h \notin table'[u].touched
        PROVE  table'[u].lines[h] = setting'[h] \/ table'[u].lines[h].name = G!NoName
    BY <2>1, <2>2, <2>3, <2>4, <2>5 DEF UntouchedAgree
  <2>6. QED
    BY <2>5 DEF UntouchedAgree
<1>4. ASSUME NEW t \in DOMAIN table, G!Post(t) PROVE UntouchedAgree'
  <2> DEFINE known == DOMAIN setting
             again == G!Table([g \in known |-> G!Submitted(t, g)], table[t].filter)
  <2>1. UNCHANGED <<setting, overtaken>>
    BY <1>4 DEF G!Post
  <2>2. CASE table' = table
    BY <2>1, <2>2 DEF UntouchedAgree
  <2>3. CASE table' = [table EXCEPT ![t] =
                         [again EXCEPT !.touched = table[t].touched \cap known]]
    <3>1. /\ [again EXCEPT !.touched = table[t].touched \cap known].lines
               = [g \in known |-> G!Submitted(t, g)]
          /\ [again EXCEPT !.touched = table[t].touched \cap known].touched
               = table[t].touched \cap known
      BY DEF G!Table
    <3>2. /\ DOMAIN table' = DOMAIN table
          /\ \A u \in DOMAIN table : u # t => table'[u] = table[u]
          /\ table'[t] = [again EXCEPT !.touched = table[t].touched \cap known]
      BY <2>3
    <3>3. /\ table'[t].lines = [g \in known |-> G!Submitted(t, g)]
          /\ table'[t].touched = table[t].touched \cap known
      BY <3>1, <3>2
    <3>4. \A g \in known : \/ g \in DOMAIN table[t].lines
                              /\ G!Submitted(t, g) = table[t].lines[g]
                           \/ G!Submitted(t, g).name = G!NoName
      BY DEF G!Submitted
    <3>5. ASSUME NEW u \in DOMAIN table' \ overtaken',
                 NEW h \in DOMAIN table'[u].lines \cap DOMAIN setting', h \notin table'[u].touched
          PROVE  table'[u].lines[h] = setting'[h] \/ table'[u].lines[h].name = G!NoName
      <4>1. CASE u # t
        BY <2>1, <3>2, <3>5, <4>1 DEF UntouchedAgree
      <4>2. CASE u = t
        <5>1. h \in known /\ h \notin table[t].touched /\ t \in DOMAIN table \ overtaken
              /\ table'[u].lines[h] = G!Submitted(t, h)
          BY <2>1, <3>2, <3>3, <3>5, <4>2
        <5>2. QED
          BY <2>1, <3>4, <5>1 DEF UntouchedAgree
      <4>3. QED
        BY <4>1, <4>2
    <3>6. QED
      BY <3>5 DEF UntouchedAgree
  <2>4. QED
    BY <1>4, <2>2, <2>3 DEF G!Post
<1>5. ASSUME NEW t \in DOMAIN table, G!Commit(t) PROVE UntouchedAgree'
  <2>1. /\ table' = [table EXCEPT ![t] = G!Table(setting', table[t].filter)]
        /\ overtaken' = DOMAIN table \ {t}
    BY <1>5 DEF G!Commit
  <2>2. DOMAIN table' \ overtaken' = {t} /\ table'[t].lines = setting'
    BY <2>1 DEF G!Table
  <2>3. QED
    BY <2>2 DEF UntouchedAgree
<1>6. ASSUME NEW t \in DOMAIN table, G!Lose(t) PROVE UntouchedAgree'
  BY <1>6 DEF G!Lose, UntouchedAgree
<1>7. ASSUME NEW g \in GroupIds, NEW name \in Aliases, G!Create(g, name)
      PROVE  UntouchedAgree'
  <2>1. /\ g \in unused /\ UNCHANGED <<table, overtaken>>
        /\ setting' = [h \in DOMAIN setting \cup {g} |->
                         IF h = g THEN [name |-> name, hidden |-> FALSE] ELSE setting[h]]
    BY <1>7 DEF G!Create
  <2>2. \A t \in DOMAIN table : \A h \in DOMAIN table[t].lines \cap DOMAIN setting' :
           h \in DOMAIN setting /\ setting'[h] = setting[h]
    BY <1>0, <2>1
  <2>3. ASSUME NEW t \in DOMAIN table' \ overtaken',
               NEW h \in DOMAIN table'[t].lines \cap DOMAIN setting', h \notin table'[t].touched
        PROVE  table'[t].lines[h] = setting'[h] \/ table'[t].lines[h].name = G!NoName
    <3>1. t \in DOMAIN table \ overtaken /\ h \notin table[t].touched
          /\ h \in DOMAIN table[t].lines \cap DOMAIN setting /\ setting'[h] = setting[h]
      BY <2>1, <2>2, <2>3
    <3>2. QED
      BY <2>1, <3>1 DEF UntouchedAgree
  <2>4. QED
    BY <2>3 DEF UntouchedAgree
<1>8. ASSUME NEW g \in DOMAIN setting, G!Delete(g) PROVE UntouchedAgree'
  BY <1>8 DEF G!Delete, UntouchedAgree
<1>10. ASSUME NEW t \in DOMAIN table, G!Check(t) PROVE UntouchedAgree'
  BY <1>10 DEF G!Check, UntouchedAgree
<1>9. CASE UNCHANGED tableVars
  BY <1>9 DEF tableVars, UntouchedAgree
<1>11. QED
  BY <1>1, <1>2, <1>3, <1>4, <1>5, <1>6, <1>7, <1>8, <1>9, <1>10 DEF G!Next

\* A form that passed lists what it saves: what it lacks has no name.
LEMMA SavesTouched ==
    GroupTypes /\ SettingIsListed /\ UntouchedAgree /\ [G!Next]_tableVars =>
       \A t \in DOMAIN table : post[t].pc # "idle" /\ post'[t].pc = "idle" /\ t \notin overtaken
          => \A g \in DOMAIN setting \cap DOMAIN setting' :
                setting'[g] # setting[g] => g \in table[t].touched
<1> SUFFICES ASSUME GroupTypes, SettingIsListed, UntouchedAgree, [G!Next]_tableVars,
                    NEW t \in DOMAIN table, post[t].pc # "idle", post'[t].pc = "idle",
                    t \notin overtaken,
                    NEW g \in DOMAIN setting \cap DOMAIN setting', setting'[g] # setting[g]
             PROVE  g \in table[t].touched
  OBVIOUS
<1>0. t \in Tabs /\ DOMAIN table \subseteq Tabs /\ post' # post
  BY DEF GroupTypes, G!TypeOK
<1>1. ASSUME NEW u \in DOMAIN table, G!Commit(u) PROVE g \in table[t].touched
  <2>1. /\ setting' = [h \in DOMAIN setting |-> G!Saved(u, h)]
        /\ post' = [post EXCEPT ![u] = G!Quiet]
    BY <1>1 DEF G!Commit
  <2>2. u = t
    BY <1>0, <2>1 DEF GroupTypes
  <2>3. G!Saved(t, g) # setting[g]
    BY <2>1, <2>2
  <2>4. g \in DOMAIN post[t].loaded /\ G!Submitted(t, g).name # G!NoName
    BY <1>0, <2>3 DEF G!Saved, GroupTypes
  <2>5. g \in DOMAIN table[t].lines /\ G!Submitted(t, g) = table[t].lines[g]
    BY <2>4 DEF G!Submitted
  <2>6. CASE g \notin table[t].touched
    <3>1. G!Submitted(t, g) = setting[g]
      BY <2>4, <2>5, <2>6 DEF UntouchedAgree
    <3>2. setting[g] = [name |-> setting[g].name, hidden |-> setting[g].hidden]
      BY DEF GroupTypes, G!TypeOK, G!Settings
    <3>3. G!Saved(t, g) = setting[g]
      BY <2>4, <3>1, <3>2 DEF G!Saved, G!WriteBack
    <3>4. QED
      BY <2>3, <3>3
  <2>7. QED
    BY <2>6
<1>2. ASSUME NEW u \in DOMAIN table, G!Post(u) PROVE setting' = setting
  BY <1>2 DEF G!Post
<1>3. ASSUME NEW u \in DOMAIN table, G!Lose(u) \/ G!Check(u) PROVE setting' = setting
  BY <1>3 DEF G!Lose, G!Check
<1>4. QED
  BY <1>0, <1>1, <1>2, <1>3
     DEF G!Next, G!Open, G!Filter, G!Fill, G!Move, G!Create, G!Delete, tableVars

GroupInv == GroupTypes /\ SettingIsListed /\ UntouchedAgree

LEMMA GroupInvInit == G!Init => GroupInv
BY GroupInit, ListedInit, AgreeInit DEF GroupInv

LEMMA GroupInvStep == GroupInv /\ [G!Next]_tableVars => GroupInv'
BY GroupStep, AgreeStep DEF GroupInv

LEMMA GroupInvHolds == G!Spec => []GroupInv
<1>1. [G!Next]_(G!vars) => [G!Next]_tableVars
  BY DEF G!vars, tableVars
<1>2. QED
  BY <1>1, GroupInvInit, GroupInvStep, PTL DEF G!Spec

\* Tables, forms and groups are well typed: a group never loses its name, and a tab whose
\* form is under way is open.
THEOREM GroupTypeCorrect == G!Spec => []G!TypeOK
<1>1. GroupInv => G!TypeOK
  BY DEF GroupInv, GroupTypes
<1>2. QED
  BY <1>1, GroupInvHolds, PTL

\* A save of the table changes no group that was not changed in it.
THEOREM OnlyTouchedAreSavedHolds == G!Spec => G!OnlyTouchedAreSaved
<1> DEFINE Touching ==
      \A t \in DOMAIN table : post[t].pc # "idle" /\ post'[t].pc = "idle" /\ t \notin overtaken
          => \A g \in DOMAIN setting \cap DOMAIN setting' :
                setting'[g] # setting[g] => g \in table[t].touched
<1>1. GroupInv /\ [G!Next]_(G!vars) => [Touching]_(G!vars)
  BY SavesTouched DEF GroupInv, G!vars, tableVars
<1>2. QED
  BY <1>1, GroupInvHolds, PTL DEF G!Spec, G!OnlyTouchedAreSaved

-----------------------------------------------------------------------------
(* The three together. *)

\* The vote form that is not open is in a state it starts from.
LEMMA ClosedVoteIsInitial == ClosedVote => Init
<1> SUFFICES ASSUME ClosedVote PROVE Init
  OBVIOUS
<1>1. /\ "YES_NO_MAYBE" \in Modes /\ Unlimited \in 0 .. MaxChoices /\ "NO" \in Statuses
      /\ 0 \in 0 .. MaxTyped
  BY DEF Modes, Unlimited, Statuses
<1>2. \A o \in Options : guests[o] = 0 /\ ~Outdated(guests[o])
  BY DEF ClosedVote, Outdated
<1>3. stale = {o \in Options : Outdated(guests[o])}
  BY <1>2 DEF ClosedVote
<1>4. rules \in [mode : Modes, maxYes : 0 .. MaxChoices, group : [Options -> Groups \cup {NoGroup}],
                 cap : [Groups -> 0 .. MaxChoices]]
  BY <1>1 DEF ClosedVote
<1>5. QED
  BY <1>1, <1>3, <1>4 DEF ClosedVote, Init

\* A behaviour of the run is one of each form, so what is proved of a form alone holds
\* where the three are checked together.
THEOREM FormsAreParts == FormsSpec => Spec /\ EditSpec /\ G!Spec
<1>1. FormsInit => Init /\ EditInit /\ G!Init
  BY ClosedVoteIsInitial DEF FormsInit, ClosedEdit, ClosedTable
<1>2. [FormsNext]_<<open, vars, editVars, tableVars>> =>
         [Next]_vars /\ [EditNext]_editVars /\ [G!Next]_(G!vars)
  BY DEF FormsNext, tableVars, G!vars
<1>3. QED
  BY <1>1, <1>2, PTL DEF FormsSpec, Spec, EditSpec, G!Spec

\* Every form and every row behind it is well typed, whichever form is open.
THEOREM TypesCorrect == FormsSpec => []TypesOK
BY FormsAreParts, VoteTypeCorrect, EditTypeCorrect, GroupTypeCorrect, PTL DEF TypesOK

\* The save of a table, in the run.
THEOREM TablesSaveTouched == FormsSpec => OnlyTouchedAreSaved
<1>1. OnlyTouchedAreSaved <=> G!OnlyTouchedAreSaved
  BY DEF OnlyTouchedAreSaved
<1>2. QED
  BY <1>1, FormsAreParts, OnlyTouchedAreSavedHolds, PTL
=============================================================================
