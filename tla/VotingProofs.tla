---------------------------- MODULE VotingProofs ----------------------------
(***************************************************************************)
(* Theorems about Voting, for any voters, requests, labels and forms.  The  *)
(* properties speak of what is stored; the invariant adds what the requests *)
(* under way hold, since that is what they will store.                      *)
(***************************************************************************)
EXTENDS Voting, FiniteSetTheorems, FunctionTheorems, TLAPS

-----------------------------------------------------------------------------
(* The invariant. *)

Ballot == UNION {[shown -> Marks] : shown \in SUBSET Options}

VoteRequest ==
    [pc : {"voting", "checked"}, voter : Voters, votes : Ballot, mode : Modes, maxYes : Nat,
     version : Nat, first : BOOLEAN, mayEdit : BOOLEAN]
WithdrawRequest == [pc : {"withdrawing"}, voter : Voters, first : {FALSE}, mayEdit : {TRUE}]
AddRequest      == [pc : {"adding"}, label : Labels]
EditRequest     ==
    [pc : {"editing"}, form : Form, confirmed : BOOLEAN, loaded : Row,
     seen : SUBSET (Voters \X Options)]
ClearRequest    == [pc : {"clearing"}, voters : SUBSET Voters]
Request == {Idle} \cup VoteRequest \cup WithdrawRequest \cup AddRequest \cup EditRequest
           \cup ClearRequest

\* The ids with a label are numbered from 1 on, so the next number is a new id.
Numbered == \A l \in Labels : \E n \in 0 .. Copies :
                {o \in spent : Label(o) = l} = {l} \X (1 .. n)

\* A vote was let in rightly; and as long as no form was saved since, the rules it was
\* let in by are those of the poll, and those it was checked by too.
VoteInv(q, rules, latest) ==
    /\ q.first \/ q.mayEdit
    /\ q.version <= latest
    /\ q.version = latest =>
          /\ q.mode = rules.mode /\ q.maxYes = rules.maxYes
          /\ q.pc = "checked" => Accepts(rules, q.votes)

\* The owner's form finds the row as it loaded it, except that the poll may have been
\* closed; and unless confirmed it spares every vote it has seen.
EditInv(q, row, latest, theirs) ==
    /\ latest < MaxEdits
    /\ q.loaded.mode = row.mode /\ q.loaded.maxYes = row.maxYes
    /\ q.loaded.allowEdit = row.allowEdit /\ q.loaded.allowCustom = row.allowCustom
    /\ q.confirmed = FALSE => \A vote \in q.seen :
          vote[2] \in theirs \/ Label(vote[2]) \in DOMAIN q.form.listing

RequestInv ==
    /\ req \in [Requests -> Request]
    /\ \A r \in Requests :
          /\ req[r].pc \in {"voting", "checked"} => VoteInv(req[r], CurrentRules, version)
          /\ At(r, "editing") => EditInv(req[r], poll, version, custom)
    /\ \A r, s \in Requests : At(r, "editing") /\ At(s, "editing") => r = s

\* A stored ballot keeps the rules it was let in by, as long as no form was saved since.
BallotInv(b, rules, existing, latest) ==
    /\ b \in [votes : Ballot, version : Nat]
    /\ DOMAIN b.votes \subseteq existing
    /\ b.version <= latest
    /\ b.version = latest => Accepts(rules, b.votes)

StoredInv ==
    /\ DOMAIN ballots \subseteq Voters
    /\ \A v \in DOMAIN ballots : BallotInv(ballots[v], CurrentRules, Existing, version)

\* TypeOK but for the ballots.
FormInv ==
    /\ poll \in Row /\ window \in {"before", "open", "over"}
    /\ spent \subseteq Options /\ Existing \subseteq spent /\ custom \subseteq Existing
    /\ \A o \in Existing : option[o] \in Groups \cup {NoGroup}
    /\ \A o, p \in Regular : Label(o) = Label(p) => o = p
    /\ cap \in [Groups -> Nat] /\ version \in 0 .. MaxEdits

IInv == FormInv /\ Numbered /\ StoredInv /\ RequestInv

-----------------------------------------------------------------------------
(* Ids. *)

\* There are n ids with a label if they are numbered up to n.
LEMMA CountCopies ==
    ASSUME NEW l, NEW n \in Nat
    PROVE  Cardinality({l} \X (1 .. n)) = n
<1> DEFINE f == [i \in 1 .. n |-> <<l, i>>]
<1>1. f \in Bijection(1 .. n, {l} \X (1 .. n))
  <2>1. f \in [1 .. n -> {l} \X (1 .. n)]
    OBVIOUS
  <2>2. \A i, j \in 1 .. n : f[i] = f[j] => i = j
    OBVIOUS
  <2>3. \A p \in {l} \X (1 .. n) : \E i \in 1 .. n : f[i] = p
    OBVIOUS
  <2>4. QED
    BY <2>1, <2>2, <2>3, Fun_IsBij
<1>2. ExistsBijection(1 .. n, {l} \X (1 .. n))
  BY <1>1 DEF ExistsBijection
<1>3. QED
  BY <1>2, FS_CountingElements

\* NextCopy is the first number that no id has.
LEMMA NextCopyIs ==
    ASSUME VotingAssumption, NEW l \in Labels, NEW n \in 0 .. Copies,
           {o \in spent : Label(o) = l} = {l} \X (1 .. n)
    PROVE  NextCopy(l) = <<l, n + 1>>
<1>1. n \in Nat
  BY DEF VotingAssumption
<1>2. Cardinality({o \in spent : Label(o) = l}) = n
  BY <1>1, CountCopies
<1>3. QED
  BY <1>1, <1>2 DEF NextCopy

LEMMA NextCopyNew ==
    ASSUME VotingAssumption, Numbered, NEW l \in Labels
    PROVE  NextCopy(l) \notin spent /\ Label(NextCopy(l)) = l
<1>1. PICK n \in 0 .. Copies : {o \in spent : Label(o) = l} = {l} \X (1 .. n)
  BY DEF Numbered
<1>2. NextCopy(l) = <<l, n + 1>>
  BY <1>1, NextCopyIs
<1>3. <<l, n + 1>> \notin {l} \X (1 .. n)
  BY DEF VotingAssumption
<1>4. QED
  BY <1>1, <1>2, <1>3 DEF Label

\* It is used for at most one option per label, and the numbers stay without gaps.
LEMMA NumberedAfter ==
    ASSUME VotingAssumption, Numbered, NEW labels \in SUBSET Labels,
           {NextCopy(l) : l \in labels} \subseteq Options,
           spent' = spent \cup {NextCopy(l) : l \in labels}
    PROVE  Numbered'
<1> SUFFICES ASSUME NEW l \in Labels
             PROVE  \E n \in 0 .. Copies : {o \in spent' : Label(o) = l} = {l} \X (1 .. n)
  BY DEF Numbered
<1>1. PICK n \in 0 .. Copies : {o \in spent : Label(o) = l} = {l} \X (1 .. n)
  BY DEF Numbered
<1>2. \A k \in labels : Label(NextCopy(k)) = k
  BY NextCopyNew
<1>3. CASE l \notin labels
  BY <1>1, <1>2, <1>3
<1>4. CASE l \in labels
  <2>1. NextCopy(l) = <<l, n + 1>>
    BY <1>1, NextCopyIs
  <2>2. n + 1 \in 0 .. Copies
    BY <1>4, <2>1 DEF Options, VotingAssumption
  <2>3. {o \in spent' : Label(o) = l} = ({l} \X (1 .. n)) \cup {<<l, n + 1>>}
    BY <1>1, <1>2, <1>4, <2>1
  <2>4. ({l} \X (1 .. n)) \cup {<<l, n + 1>>} = {l} \X (1 .. (n + 1))
    BY <2>2
  <2>5. QED
    BY <2>2, <2>3, <2>4
<1>5. QED
  BY <1>3, <1>4

-----------------------------------------------------------------------------
(* Values. *)

\* Fewer votes are a ballot still.
LEMMA FilteredBallot ==
    ASSUME NEW votes \in Ballot, NEW existing
    PROVE  /\ Filtered(votes, existing) \in Ballot
           /\ DOMAIN Filtered(votes, existing) = DOMAIN votes \cap existing
           /\ \A o \in DOMAIN Filtered(votes, existing) : Filtered(votes, existing)[o] \in Marks
<1>1. PICK shown \in SUBSET Options : votes \in [shown -> Marks]
  BY DEF Ballot
<1>2. Filtered(votes, existing) \in [shown \cap existing -> Marks]
  BY <1>1 DEF Filtered
<1>3. shown \cap existing \in SUBSET Options /\ DOMAIN votes = shown
  BY <1>1
<1>4. QED
  BY <1>2, <1>3 DEF Ballot

\* A ballot of what there was is a ballot.
LEMMA CastBallot ==
    ASSUME FormInv
    PROVE  Cast \subseteq Ballot
BY DEF FormInv, Cast, Ballot

\* A row has the fields of a row.
LEMMA RowFields ==
    ASSUME NEW row \in Row
    PROVE  /\ row.status \in PollStatuses /\ row.mode \in Modes /\ row.maxYes \in Nat
           /\ row.allowEdit \in BOOLEAN /\ row.allowCustom \in BOOLEAN
           /\ row.mode # "MULTI_CHOICE" => row.maxYes = Unlimited
           /\ row = [status |-> row.status, mode |-> row.mode, maxYes |-> row.maxYes,
                     allowEdit |-> row.allowEdit, allowCustom |-> row.allowCustom]
           /\ DOMAIN row = {"status", "mode", "maxYes", "allowEdit", "allowCustom"}
BY DEF Row

\* A new status makes another row.
LEMMA RowWithStatus ==
    ASSUME NEW row \in Row, NEW status \in PollStatuses
    PROVE  [row EXCEPT !.status = status] \in Row
BY RowFields DEF Row

\* The row that is saved is the form's, but perhaps for the status.
LEMMA WriteBackIs ==
    ASSUME NEW loaded \in Row, NEW row \in Row, poll \in Row,
           loaded.mode = poll.mode, loaded.maxYes = poll.maxYes,
           loaded.allowEdit = poll.allowEdit, loaded.allowCustom = poll.allowCustom
    PROVE  WriteBack(loaded, row) \in Row
<1> DEFINE after == WriteBack(loaded, row)
<1>1. DOMAIN after = {"status", "mode", "maxYes", "allowEdit", "allowCustom"}
  BY RowFields DEF WriteBack
<1>2. /\ after.mode = row.mode /\ after.maxYes = row.maxYes
      /\ after.allowEdit = row.allowEdit /\ after.allowCustom = row.allowCustom
      /\ after.status \in {row.status, poll.status}
  BY RowFields DEF WriteBack
<1>3. after = [f \in DOMAIN after |-> after[f]]
  BY DEF WriteBack
<1>4. after = [row EXCEPT !.status = after.status]
  BY <1>1, <1>2, <1>3, RowFields
<1>5. QED
  BY <1>2, <1>4, RowFields, RowWithStatus

\* The invariant implies the properties about what is stored.
LEMMA Stored ==
    ASSUME VotingAssumption, IInv
    PROVE  TypeOK /\ BallotWithinLimits
<1>1. version \in Nat
  BY DEF VotingAssumption, IInv, FormInv
<1>2. ASSUME NEW v \in DOMAIN ballots
      PROVE  /\ DOMAIN ballots[v].votes \subseteq Existing
             /\ \A o \in DOMAIN ballots[v].votes : ballots[v].votes[o] \in Marks
             /\ ballots[v].version \in 0 .. version
             /\ ballots[v].version = version => Accepts(CurrentRules, ballots[v].votes)
  <2>1. BallotInv(ballots[v], CurrentRules, Existing, version)
    BY DEF IInv, StoredInv
  <2>2. ballots[v].votes \in Ballot /\ ballots[v].version \in Nat
    BY <2>1 DEF BallotInv
  <2>3. \A o \in DOMAIN ballots[v].votes : ballots[v].votes[o] \in Marks
    BY <2>2 DEF Ballot
  <2>4. QED
    BY <1>1, <2>1, <2>2, <2>3 DEF BallotInv
<1>3. TypeOK
  BY <1>2 DEF IInv, FormInv, StoredInv, TypeOK
<1>4. QED
  BY <1>2, <1>3 DEF BallotWithinLimits

-----------------------------------------------------------------------------
(* Requests. *)

\* A step that leaves the rules, the row and the form alone changes no request but its own.
LEMMA RequestStep ==
    ASSUME RequestInv, CurrentRules' = CurrentRules, version' = version,
           poll'.mode = poll.mode, poll'.maxYes = poll.maxYes,
           poll'.allowEdit = poll.allowEdit, poll'.allowCustom = poll.allowCustom,
           custom \subseteq custom',
           NEW r \in Requests, NEW q \in Request, req' = [req EXCEPT ![r] = q],
           q.pc \in {"voting", "checked"} => VoteInv(q, CurrentRules, version),
           q.pc = "editing" => /\ EditInv(q, poll, version, custom)
                               /\ \A s \in Requests \ {r} : ~At(s, "editing")
    PROVE  RequestInv'
<1>1. req' \in [Requests -> Request] /\ req'[r] = q
      /\ \A s \in Requests \ {r} : req'[s] = req[s]
  BY DEF RequestInv
<1>2. ASSUME NEW s \in Requests, req'[s].pc \in {"voting", "checked"}
      PROVE  VoteInv(req'[s], CurrentRules', version')
  <2>1. VoteInv(req'[s], CurrentRules, version)
    BY <1>1, <1>2 DEF RequestInv
  <2>2. QED
    BY <2>1
<1>3. ASSUME NEW s \in Requests, req'[s].pc = "editing"
      PROVE  EditInv(req'[s], poll', version', custom')
  <2>1. EditInv(req'[s], poll, version, custom)
    BY <1>1, <1>3 DEF RequestInv, At
  <2>2. QED
    BY <2>1 DEF EditInv
<1>4. ASSUME NEW s \in Requests, NEW t \in Requests,
             req'[s].pc = "editing", req'[t].pc = "editing"
      PROVE  s = t
  BY <1>1, <1>4 DEF RequestInv, At
<1>5. QED
  BY <1>1, <1>2, <1>3, <1>4 DEF RequestInv, At

\* A request that ends leaves nothing behind.
LEMMA IdleRequest ==
    Idle \in Request /\ Idle.pc = "idle"
BY DEF Idle, Request

\* A request is told by where it is.
LEMMA KindOf ==
    ASSUME NEW q \in Request
    PROVE  /\ q.pc \in {"voting", "checked"} => q \in VoteRequest
           /\ q.pc = "withdrawing" => q \in WithdrawRequest
           /\ q.pc = "adding" => q \in AddRequest
           /\ q.pc = "editing" => q \in EditRequest
           /\ q.pc = "clearing" => q \in ClearRequest
<1>1. q \in VoteRequest => q.pc \in {"voting", "checked"}
  BY DEF VoteRequest
<1>2. q \in WithdrawRequest => q.pc = "withdrawing"
  BY DEF WithdrawRequest
<1>3. q \in AddRequest => q.pc = "adding"
  BY DEF AddRequest
<1>4. q \in EditRequest => q.pc = "editing"
  BY DEF EditRequest
<1>5. q \in ClearRequest => q.pc = "clearing"
  BY DEF ClearRequest
<1>6. q = Idle => q.pc = "idle"
  BY IdleRequest
<1>7. QED
  BY <1>1, <1>2, <1>3, <1>4, <1>5, <1>6 DEF Request

\* What a step does that only moves a request on.
LEMMA QuietStep ==
    ASSUME IInv, UNCHANGED <<settings, option, custom, spent, ballots>>,
           NEW r \in Requests, NEW q \in Request, req' = [req EXCEPT ![r] = q],
           q.pc \in {"voting", "checked"} => VoteInv(q, CurrentRules, version),
           q.pc = "editing" => /\ EditInv(q, poll, version, custom)
                               /\ \A s \in Requests \ {r} : ~At(s, "editing")
    PROVE  IInv'
<1>1. /\ poll' = poll /\ window' = window /\ cap' = cap /\ version' = version
      /\ option' = option /\ custom' = custom /\ spent' = spent /\ ballots' = ballots
  BY DEF settings
<1>2. CurrentRules' = CurrentRules
  BY <1>1 DEF CurrentRules, Existing
<1>3. RequestInv'
  BY <1>1, <1>2, RequestStep DEF IInv
<1>4. FormInv'
  BY <1>1 DEF IInv, FormInv, Existing, Regular
<1>5. Numbered'
  BY <1>1 DEF IInv, Numbered
<1>6. StoredInv'
  BY <1>1, <1>2 DEF IInv, StoredInv, Existing
<1>7. QED
  BY <1>3, <1>4, <1>5, <1>6 DEF IInv

\* What a step does that ends a request and stores or deletes ballots.
LEMMA BallotStep ==
    ASSUME IInv, UNCHANGED <<settings, option, custom, spent>>,
           NEW r \in Requests, End(r), DOMAIN ballots' \subseteq Voters,
           \A v \in DOMAIN ballots' :
              \/ v \in DOMAIN ballots /\ ballots'[v] = ballots[v]
              \/ BallotInv(ballots'[v], CurrentRules, Existing, version)
    PROVE  IInv'
<1>1. /\ poll' = poll /\ window' = window /\ cap' = cap /\ version' = version
      /\ option' = option /\ custom' = custom /\ spent' = spent
  BY DEF settings
<1>2. CurrentRules' = CurrentRules /\ Existing' = Existing
  BY <1>1 DEF CurrentRules, Existing
<1>3. RequestInv'
  BY <1>1, <1>2, RequestStep, IdleRequest DEF IInv, End
<1>4. FormInv'
  BY <1>1 DEF IInv, FormInv, Existing, Regular
<1>5. Numbered'
  BY <1>1 DEF IInv, Numbered
<1>6. \A v \in DOMAIN ballots' : BallotInv(ballots'[v], CurrentRules, Existing, version)
  BY DEF IInv, StoredInv
<1>7. StoredInv'
  BY <1>1, <1>2, <1>6 DEF StoredInv
<1>8. QED
  BY <1>3, <1>4, <1>5, <1>7 DEF IInv

-----------------------------------------------------------------------------
(* The invariant holds at first and after every step. *)

LEMMA InvInit == VotingAssumption /\ Init => IInv
<1> SUFFICES ASSUME VotingAssumption, Init PROVE IInv
  OBVIOUS
<1>1. PICK form \in Form :
        /\ poll = form.row /\ cap = form.cap
        /\ spent = {<<l, 1>> : l \in DOMAIN form.listing}
        /\ option = [o \in spent |-> form.listing[Label(o)]]
  BY DEF Init
<1>2. form.row \in Row /\ form.cap \in [Groups -> Nat]
  BY DEF VotingAssumption
<1>3. PICK listed \in SUBSET Labels : form.listing \in [listed -> Groups \cup {NoGroup}]
  BY DEF VotingAssumption, Listings
<1>4. 1 \in 1 .. Copies /\ MaxEdits \in Nat
  BY DEF VotingAssumption
<1>5. spent = listed \X {1}
  BY <1>1, <1>3
<1>6. FormInv
  <2>1. spent \subseteq Options
    BY <1>4, <1>5 DEF Options
  <2>2. Existing = spent /\ Regular = spent /\ custom = {}
    BY <1>1 DEF Init, Existing, Regular
  <2>3. \A o \in Existing : option[o] \in Groups \cup {NoGroup}
    BY <1>1, <1>3, <1>5, <2>2 DEF Label
  <2>4. \A o, p \in Regular : Label(o) = Label(p) => o = p
    BY <1>5, <2>2 DEF Label
  <2>5. window \in {"before", "open", "over"} /\ version \in 0 .. MaxEdits
    BY <1>4 DEF Init
  <2>6. QED
    BY <1>1, <1>2, <2>1, <2>2, <2>3, <2>4, <2>5 DEF FormInv
<1>7. Numbered
  <2> SUFFICES ASSUME NEW l \in Labels
               PROVE  \E n \in 0 .. Copies : {o \in spent : Label(o) = l} = {l} \X (1 .. n)
    BY DEF Numbered
  <2>1. CASE l \in listed
    <3>1. {o \in spent : Label(o) = l} = {l} \X (1 .. 1)
      BY <1>5, <2>1 DEF Label
    <3>2. QED
      BY <1>4, <3>1
  <2>2. CASE l \notin listed
    <3>1. {o \in spent : Label(o) = l} = {l} \X (1 .. 0)
      BY <1>5, <2>2 DEF Label
    <3>2. QED
      BY <1>4, <3>1
  <2>3. QED
    BY <2>1, <2>2
<1>8. StoredInv
  BY DEF Init, StoredInv
<1>9. RequestInv
  BY IdleRequest DEF Init, RequestInv, At
<1>10. QED
  BY <1>6, <1>7, <1>8, <1>9 DEF IInv

LEMMA VoteLoadStep ==
    ASSUME VotingAssumption, IInv, NEW r \in Requests, NEW v \in Voters, NEW votes \in Cast,
           VoteLoad(r, v, votes)
    PROVE  IInv'
<1> DEFINE q == [pc |-> "voting", voter |-> v, votes |-> votes, mode |-> poll.mode,
                 maxYes |-> poll.maxYes, version |-> version,
                 first |-> ~HasResponse(v), mayEdit |-> CanEdit]
<1>1. req' = [req EXCEPT ![r] = q]
  BY DEF VoteLoad, Begin
<1>2. version \in Nat /\ poll \in Row /\ votes \in Ballot
  BY CastBallot DEF VotingAssumption, IInv, FormInv
<1>3. (~HasResponse(v)) \in BOOLEAN /\ CanEdit \in BOOLEAN
  BY <1>2, RowFields DEF HasResponse, CanEdit, Open
<1>4. q \in VoteRequest
  BY <1>2, <1>3, RowFields DEF VoteRequest
<1>5. VoteInv(q, CurrentRules, version)
  <2>1. q.first \/ q.mayEdit
    BY DEF VoteLoad, Allowed
  <2>2. q.pc = "voting" /\ q.version = version /\ q.mode = poll.mode /\ q.maxYes = poll.maxYes
    OBVIOUS
  <2>3. CurrentRules.mode = poll.mode /\ CurrentRules.maxYes = poll.maxYes
    BY DEF CurrentRules
  <2>4. QED
    BY <1>2, <2>1, <2>2, <2>3 DEF VoteInv
<1>6. QED
  BY <1>1, <1>4, <1>5, QuietStep DEF VoteLoad, Request

LEMMA VoteCheckStep ==
    ASSUME VotingAssumption, IInv, NEW r \in Requests, VoteCheck(r)
    PROVE  IInv'
<1> DEFINE votes == Filtered(req[r].votes, Existing)
           q == [req[r] EXCEPT !.pc = "checked", !.votes = votes]
<1>1. req[r] \in Request /\ req[r].pc = "voting" /\ VoteInv(req[r], CurrentRules, version)
  BY DEF IInv, RequestInv, VoteCheck, At
<1>2. req[r] \in VoteRequest
  BY <1>1, KindOf
<1>3. votes \in Ballot
  BY <1>2, FilteredBallot DEF VoteRequest
<1>4. q \in VoteRequest
  BY <1>2, <1>3 DEF VoteRequest
<1>5. req' = [req EXCEPT ![r] = q]
  BY DEF VoteCheck
<1>6. /\ q.first = req[r].first /\ q.mayEdit = req[r].mayEdit /\ q.version = req[r].version
      /\ q.mode = req[r].mode /\ q.maxYes = req[r].maxYes
      /\ q.pc = "checked" /\ q.votes = votes
  BY <1>2 DEF VoteRequest
<1>7. ASSUME q.version = version PROVE Accepts(CurrentRules, votes)
  <2>1. LoadedRules(r) = CurrentRules
    BY <1>1, <1>6, <1>7 DEF VoteInv, LoadedRules, CurrentRules
  <2>2. QED
    BY <2>1 DEF VoteCheck
<1>8. VoteInv(q, CurrentRules, version)
  BY <1>1, <1>6, <1>7 DEF VoteInv
<1>9. QED
  BY <1>4, <1>5, <1>6, <1>8, QuietStep DEF VoteCheck, Request

LEMMA VoteCommitStep ==
    ASSUME VotingAssumption, IInv, NEW r \in Requests, VoteCommit(r)
    PROVE  IInv'
<1>1. req[r] \in Request /\ req[r].pc = "checked" /\ VoteInv(req[r], CurrentRules, version)
  BY DEF IInv, RequestInv, VoteCommit, At
<1>2. req[r] \in VoteRequest
  BY <1>1, KindOf
<1>3. /\ req[r].voter \in Voters /\ req[r].votes \in Ballot /\ req[r].version \in Nat
  BY <1>2 DEF VoteRequest
<1>4. BallotInv([votes |-> req[r].votes, version |-> req[r].version],
                CurrentRules, Existing, version)
  BY <1>1, <1>3 DEF VoteInv, BallotInv, VoteCommit
<1>5. /\ DOMAIN ballots' = DOMAIN ballots \cup {req[r].voter}
      /\ \A v \in DOMAIN ballots' :
            ballots'[v] = IF v = req[r].voter
                          THEN [votes |-> req[r].votes, version |-> req[r].version]
                          ELSE ballots[v]
  BY DEF VoteCommit
<1>6. DOMAIN ballots' \subseteq Voters
  BY <1>3, <1>5 DEF IInv, StoredInv
<1>7. QED
  BY <1>4, <1>5, <1>6, BallotStep DEF VoteCommit

LEMMA WithdrawLoadStep ==
    ASSUME VotingAssumption, IInv, NEW r \in Requests, NEW v \in Voters, WithdrawLoad(r, v)
    PROVE  IInv'
<1> DEFINE q == [pc |-> "withdrawing", voter |-> v, first |-> FALSE, mayEdit |-> CanEdit]
<1>1. req' = [req EXCEPT ![r] = q]
  BY DEF WithdrawLoad, Begin
<1>2. poll \in Row
  BY DEF IInv, FormInv
<1>3. CanEdit = TRUE
  BY <1>2, RowFields DEF WithdrawLoad, CanEdit, Open
<1>4. q \in WithdrawRequest
  BY <1>3 DEF WithdrawRequest
<1>5. QED
  BY <1>1, <1>4, QuietStep DEF WithdrawLoad, Request

\* Withdrawing and clearing only take ballots away.
LEMMA WithoutStep ==
    ASSUME IInv, NEW r \in Requests, NEW voters, ballots' = Without(voters), End(r),
           UNCHANGED <<settings, option, custom, spent>>
    PROVE  IInv'
<1>1. DOMAIN ballots' \subseteq DOMAIN ballots
      /\ \A v \in DOMAIN ballots' : ballots'[v] = ballots[v]
  BY DEF Without
<1>2. DOMAIN ballots' \subseteq Voters
  BY <1>1 DEF IInv, StoredInv
<1>3. QED
  BY <1>1, <1>2, BallotStep

LEMMA AddLoadStep ==
    ASSUME VotingAssumption, IInv, NEW r \in Requests, NEW l \in Labels, AddLoad(r, l)
    PROVE  IInv'
<1> DEFINE q == [pc |-> "adding", label |-> l]
<1>1. req' = [req EXCEPT ![r] = q]
  BY DEF AddLoad, Begin
<1>2. q \in AddRequest
  BY DEF AddRequest
<1>3. QED
  BY <1>1, <1>2, QuietStep DEF AddLoad, Request

\* A new option of a voter's has a new id and no group, so no rule changes.
LEMMA AddCommitStep ==
    ASSUME VotingAssumption, IInv, NEW r \in Requests, AddCommit(r)
    PROVE  IInv'
<1> DEFINE l == req[r].label
           o == NextCopy(l)
<1>1. l \in Labels
  BY KindOf DEF IInv, RequestInv, AddCommit, At, AddRequest
<1>2. /\ o \in Options /\ o \notin spent /\ Label(o) = l
      /\ custom' = custom \cup {o} /\ spent' = spent \cup {o}
      /\ option' = [p \in Existing \cup {o} |-> IF p = o THEN NoGroup ELSE option[p]]
      /\ poll' = poll /\ window' = window /\ cap' = cap /\ version' = version
      /\ ballots' = ballots
  BY <1>1, NextCopyNew DEF IInv, AddCommit, settings
<1>3. /\ Existing' = Existing \cup {o} /\ Regular' = Regular /\ o \notin Existing
      /\ \A p \in Existing : option'[p] = option[p]
      /\ option'[o] = NoGroup
  BY <1>2 DEF IInv, FormInv, Existing, Regular
<1>4. CurrentRules' = CurrentRules
  BY <1>2, <1>3 DEF CurrentRules
<1>5. RequestInv'
  BY <1>2, <1>4, RequestStep, IdleRequest DEF IInv, AddCommit, End
<1>6. FormInv'
  <2>1. \A p \in Existing' : option'[p] \in Groups \cup {NoGroup}
    BY <1>3 DEF IInv, FormInv
  <2>2. spent' \subseteq Options /\ Existing' \subseteq spent' /\ custom' \subseteq Existing'
    BY <1>2, <1>3 DEF IInv, FormInv
  <2>3. \A p, t \in Regular' : Label(p) = Label(t) => p = t
    BY <1>3 DEF IInv, FormInv
  <2>4. QED
    BY <1>2, <2>1, <2>2, <2>3 DEF IInv, FormInv
<1>7. Numbered'
  <2>1. {NextCopy(k) : k \in {l}} = {o}
    OBVIOUS
  <2>2. /\ {l} \in SUBSET Labels
        /\ {NextCopy(k) : k \in {l}} \subseteq Options
        /\ spent' = spent \cup {NextCopy(k) : k \in {l}}
    BY <1>1, <1>2, <2>1
  <2>3. QED
    BY <2>2, NumberedAfter DEF IInv
<1>8. StoredInv'
  <2>1. \A v \in DOMAIN ballots : BallotInv(ballots[v], CurrentRules, Existing', version)
    BY <1>3 DEF IInv, StoredInv, BallotInv
  <2>2. QED
    BY <1>2, <1>4, <2>1 DEF IInv, StoredInv
<1>9. QED
  BY <1>5, <1>6, <1>7, <1>8 DEF IInv

\* A form that needs no confirmation lists every option it has seen votes for, unless
\* a voter added it.
LEMMA EditLoadStep ==
    ASSUME VotingAssumption, IInv, NEW r \in Requests, NEW form \in Form,
           NEW confirmed \in BOOLEAN, EditLoad(r, form, confirmed)
    PROVE  IInv'
<1> DEFINE q == [pc |-> "editing", form |-> form, confirmed |-> confirmed,
                 loaded |-> poll, seen |-> Votes]
<1>1. req' = [req EXCEPT ![r] = q]
  BY DEF EditLoad, Begin
<1>2. poll \in Row /\ version < MaxEdits
  BY DEF IInv, FormInv, EditLoad
<1>3. Votes \in SUBSET (Voters \X Options)
  BY DEF IInv, FormInv, StoredInv, Votes
<1>4. q \in EditRequest
  BY <1>2, <1>3 DEF EditRequest
<1>5. ASSUME confirmed = FALSE, NEW vote \in Votes
      PROVE  vote[2] \in custom \/ Label(vote[2]) \in DOMAIN form.listing
  <2>1. vote[1] \in DOMAIN ballots /\ vote[2] \in Existing
    BY DEF Votes
  <2>2. ~Destructive(form)
    BY <1>5 DEF EditLoad
  <2>3. QED
    BY <2>1, <2>2 DEF Destructive, Regular
<1>6. EditInv(q, poll, version, custom)
  BY <1>2, <1>5 DEF EditInv
<1>7. \A s \in Requests : ~At(s, "editing")
  BY DEF EditLoad
<1>8. QED
  BY <1>1, <1>4, <1>6, <1>7, QuietStep DEF EditLoad, Request

LEMMA ClearLoadStep ==
    ASSUME VotingAssumption, IInv, NEW r \in Requests, ClearLoad(r)
    PROVE  IInv'
<1> DEFINE q == [pc |-> "clearing", voters |-> DOMAIN ballots]
<1>1. req' = [req EXCEPT ![r] = q]
  BY DEF ClearLoad, Begin
<1>2. q \in ClearRequest
  BY DEF ClearRequest, IInv, StoredInv
<1>3. QED
  BY <1>1, <1>2, QuietStep DEF ClearLoad, Request

LEMMA AbortStep ==
    ASSUME VotingAssumption, IInv, NEW r \in Requests, Abort(r)
    PROVE  IInv'
BY QuietStep, IdleRequest DEF Abort, End

\* Saving the form makes the rules anew: ballots and votes under way count as let in
\* under older ones, and no other form is under way.
LEMMA EditCommitStep ==
    ASSUME VotingAssumption, IInv, NEW r \in Requests, EditCommit(r)
    PROVE  IInv'
<1> DEFINE form    == req[r].form
           listing == form.listing
           listed  == DOMAIN listing
           kept    == {o \in Regular : Label(o) \in listed}
           labels  == listed \ {Label(o) : o \in kept}
           new     == {NextCopy(l) : l \in labels}
<1>1. req[r] \in EditRequest /\ EditInv(req[r], poll, version, custom)
  BY KindOf DEF IInv, RequestInv, EditCommit, At
<1>2. form \in Form /\ req[r].loaded \in Row
  BY <1>1 DEF EditRequest
<1>3. form.row \in Row /\ form.cap \in [Groups -> Nat] /\ MaxEdits \in Nat
  BY <1>2 DEF VotingAssumption
<1>4. listed \subseteq Labels /\ \A l \in listed : listing[l] \in Groups \cup {NoGroup}
  BY <1>2 DEF VotingAssumption, Listings
<1>5. /\ new \subseteq Options
      /\ poll' = WriteBack(req[r].loaded, form.row)
      /\ option' = [o \in kept \cup new \cup custom |->
                      IF o \in custom THEN option[o] ELSE listing[Label(o)]]
      /\ spent' = spent \cup new /\ cap' = form.cap
      /\ ballots' = KeepVotes(kept \cup custom)
      /\ version' = version + 1 /\ req' = [req EXCEPT ![r] = Idle]
      /\ window' = window /\ custom' = custom
  BY DEF EditCommit, End
<1>6. \A l \in labels : l \in listed /\ NextCopy(l) \notin spent /\ Label(NextCopy(l)) = l
  BY <1>4, NextCopyNew DEF IInv
<1>7. /\ Existing' = kept \cup new \cup custom /\ Regular' = kept \cup new
      /\ kept \subseteq Existing
  BY <1>5, <1>6 DEF IInv, FormInv, Existing, Regular
<1>8. version \in Nat /\ version' \in 0 .. MaxEdits
  BY <1>1, <1>3, <1>5 DEF IInv, FormInv, EditInv
<1>9. FormInv'
  <2>1. poll' \in Row
    BY <1>1, <1>2, <1>3, <1>5, WriteBackIs DEF IInv, FormInv, EditInv
  <2>2. spent' \subseteq Options /\ Existing' \subseteq spent' /\ custom' \subseteq Existing'
    BY <1>5, <1>7 DEF IInv, FormInv
  <2>3. \A o \in Existing' : option'[o] \in Groups \cup {NoGroup}
    <3>1. \A o \in custom : option'[o] \in Groups \cup {NoGroup}
      BY <1>5 DEF IInv, FormInv
    <3>2. \A o \in kept \cup new : Label(o) \in listed
      BY <1>6
    <3>3. QED
      BY <1>4, <1>5, <1>7, <3>1, <3>2
  <2>4. \A o, p \in Regular' : Label(o) = Label(p) => o = p
    <3>1. \A o, p \in kept : Label(o) = Label(p) => o = p
      BY DEF IInv, FormInv
    <3>2. \A o \in new : Label(o) \in labels /\ o = NextCopy(Label(o))
      BY <1>6
    <3>3. \A o \in kept : Label(o) \notin labels
      OBVIOUS
    <3>4. QED
      BY <1>7, <3>1, <3>2, <3>3
  <2>5. window' \in {"before", "open", "over"} /\ cap' \in [Groups -> Nat]
    BY <1>3, <1>5 DEF IInv, FormInv
  <2>6. QED
    BY <1>8, <2>1, <2>2, <2>3, <2>4, <2>5 DEF FormInv
<1>10. Numbered'
  <2>1. labels \in SUBSET Labels
    BY <1>4
  <2>2. QED
    BY <1>5, <2>1, NumberedAfter DEF IInv
<1>11. StoredInv'
  <2>1. DOMAIN ballots' = DOMAIN ballots
    BY <1>5 DEF KeepVotes
  <2>2. ASSUME NEW v \in DOMAIN ballots
        PROVE  BallotInv(ballots'[v], CurrentRules', Existing', version')
    <3>1. /\ ballots[v] \in [votes : Ballot, version : Nat] /\ ballots[v].version <= version
          /\ DOMAIN ballots[v].votes \subseteq Existing
      BY <2>2 DEF IInv, StoredInv, BallotInv
    <3>2. ballots'[v] = [ballots[v] EXCEPT !.votes = Filtered(ballots[v].votes, kept \cup custom)]
      BY <1>5, <2>2 DEF KeepVotes
    <3>3. Filtered(ballots[v].votes, kept \cup custom) \in Ballot
          /\ DOMAIN Filtered(ballots[v].votes, kept \cup custom) \subseteq kept \cup custom
      <4>1. ballots[v].votes \in Ballot
        BY <3>1
      <4>2. \A S : /\ Filtered(ballots[v].votes, S) \in Ballot
                  /\ DOMAIN Filtered(ballots[v].votes, S) \subseteq S
        BY <4>1, FilteredBallot
      <4>3. QED
        BY <4>2
    <3>4. /\ ballots'[v] \in [votes : Ballot, version : Nat]
          /\ ballots'[v].version = ballots[v].version
          /\ ballots'[v].votes = Filtered(ballots[v].votes, kept \cup custom)
      BY <3>1, <3>2, <3>3
    <3>5. ballots'[v].version < version'
      BY <1>5, <1>8, <3>1, <3>4
    <3>6. QED
      BY <1>7, <1>8, <3>3, <3>4, <3>5 DEF BallotInv
  <2>3. QED
    BY <2>1, <2>2 DEF IInv, StoredInv
<1>12. RequestInv'
  <2>1. req' \in [Requests -> Request] /\ req'[r].pc = "idle"
        /\ \A s \in Requests \ {r} : req'[s] = req[s] /\ req[s].pc # "editing"
    BY <1>5, IdleRequest DEF IInv, RequestInv, EditCommit, At
  <2>2. ASSUME NEW s \in Requests, req'[s].pc \in {"voting", "checked"}
        PROVE  VoteInv(req'[s], CurrentRules', version')
    <3>1. VoteInv(req[s], CurrentRules, version) /\ req[s] \in VoteRequest /\ req'[s] = req[s]
      BY <2>1, <2>2, KindOf DEF IInv, RequestInv
    <3>2. req[s].version \in Nat
      BY <3>1 DEF VoteRequest
    <3>3. QED
      BY <1>5, <1>8, <3>1, <3>2 DEF VoteInv
  <2>3. QED
    BY <2>1, <2>2 DEF RequestInv, At
<1>13. QED
  BY <1>9, <1>10, <1>11, <1>12 DEF IInv

\* A poll that is closed keeps its rules.
LEMMA CloseDueStep ==
    ASSUME VotingAssumption, IInv, CloseDue
    PROVE  IInv'
<1>1. /\ poll' = [poll EXCEPT !.status = "CLOSED"] /\ poll \in Row
      /\ window' = window /\ cap' = cap /\ version' = version /\ option' = option
      /\ custom' = custom /\ spent' = spent /\ ballots' = ballots /\ req' = req
  BY DEF CloseDue, IInv, FormInv
<1>2. poll' \in Row
  BY <1>1, RowWithStatus DEF PollStatuses
<1>3. /\ poll'.mode = poll.mode /\ poll'.maxYes = poll.maxYes
      /\ poll'.allowEdit = poll.allowEdit /\ poll'.allowCustom = poll.allowCustom
  BY <1>1, RowFields
<1>4. CurrentRules' = CurrentRules
  BY <1>1, <1>3 DEF CurrentRules, Existing
<1>5. FormInv'
  BY <1>1, <1>2 DEF IInv, FormInv, Existing, Regular
<1>6. Numbered'
  BY <1>1 DEF IInv, Numbered
<1>7. StoredInv'
  BY <1>1, <1>4 DEF IInv, StoredInv, Existing
<1>8. RequestInv'
  BY <1>1, <1>3, <1>4 DEF IInv, RequestInv, At, EditInv
<1>9. QED
  BY <1>5, <1>6, <1>7, <1>8 DEF IInv

\* Time passes, or nothing happens.
LEMMA OtherStep ==
    ASSUME VotingAssumption, IInv, Tick \/ UNCHANGED vars
    PROVE  IInv'
<1>1. /\ poll' = poll /\ cap' = cap /\ version' = version /\ option' = option
      /\ custom' = custom /\ spent' = spent /\ ballots' = ballots /\ req' = req
      /\ window' \in {"before", "open", "over"}
  BY DEF Tick, vars, IInv, FormInv
<1>2. CurrentRules' = CurrentRules
  BY <1>1 DEF CurrentRules, Existing
<1>3. FormInv'
  BY <1>1 DEF IInv, FormInv, Existing, Regular
<1>4. Numbered'
  BY <1>1 DEF IInv, Numbered
<1>5. StoredInv'
  BY <1>1, <1>2 DEF IInv, StoredInv, Existing
<1>6. RequestInv'
  BY <1>1, <1>2 DEF IInv, RequestInv, At, EditInv
<1>7. QED
  BY <1>3, <1>4, <1>5, <1>6 DEF IInv

LEMMA InvStep == VotingAssumption /\ IInv /\ [Next]_vars => IInv'
<1> SUFFICES ASSUME VotingAssumption, IInv, [Next]_vars PROVE IInv'
  OBVIOUS
<1>1. ASSUME NEW r \in Requests, NEW v \in Voters, NEW votes \in Cast, VoteLoad(r, v, votes)
      PROVE  IInv'
  BY <1>1, VoteLoadStep
<1>2. ASSUME NEW r \in Requests, NEW v \in Voters, WithdrawLoad(r, v) PROVE IInv'
  BY <1>2, WithdrawLoadStep
<1>3. ASSUME NEW r \in Requests, WithdrawCommit(r) PROVE IInv'
  BY <1>3, WithoutStep DEF WithdrawCommit
<1>4. ASSUME NEW r \in Requests, NEW l \in Labels, AddLoad(r, l) PROVE IInv'
  BY <1>4, AddLoadStep
<1>5. ASSUME NEW r \in Requests, NEW form \in Form, NEW confirmed \in BOOLEAN,
             EditLoad(r, form, confirmed)
      PROVE  IInv'
  BY <1>5, EditLoadStep
<1>6. ASSUME NEW r \in Requests, ClearCommit(r) PROVE IInv'
  BY <1>6, WithoutStep DEF ClearCommit
<1>7. ASSUME NEW r \in Requests,
             \/ VoteCheck(r) \/ VoteCommit(r) \/ AddCommit(r) \/ EditCommit(r)
             \/ ClearLoad(r) \/ Abort(r)
      PROVE  IInv'
  BY <1>7, VoteCheckStep, VoteCommitStep, AddCommitStep, EditCommitStep, ClearLoadStep, AbortStep
<1>8. QED
  BY <1>1, <1>2, <1>3, <1>4, <1>5, <1>6, <1>7, CloseDueStep, OtherStep DEF Next

LEMMA InvHolds == Spec => []IInv
BY InvInit, InvStep, VotingAssumption, PTL DEF Spec

\* Votes are only ever for options there are, labels of the owner's options are never
\* shared, and no id is handed out twice.
THEOREM TypeCorrect == Spec => []TypeOK
<1>1. IInv => TypeOK
  BY Stored, VotingAssumption
<1>2. QED
  BY <1>1, InvHolds, PTL

\* However requests, options and forms interleave, the ballots let in since the form was
\* last saved keep the limits.
THEOREM BallotWithinLimitsHolds == Spec => []BallotWithinLimits
<1>1. IInv => BallotWithinLimits
  BY Stored, VotingAssumption
<1>2. QED
  BY <1>1, InvHolds, PTL

-----------------------------------------------------------------------------
(* What a request does when it ends. *)

LEMMA Finished ==
    ASSUME IInv, Next, NEW r \in Requests, req[r].pc # "idle", req'[r] = Idle
    PROVE  \/ VoteCommit(r) \/ WithdrawCommit(r) \/ AddCommit(r) \/ EditCommit(r)
           \/ ClearCommit(r) \/ Abort(r)
<1>1. req \in [Requests -> Request] /\ req' # req
  BY IdleRequest DEF IInv, RequestInv
<1>2. ASSUME NEW s \in Requests, NEW q, Begin(s, q) PROVE FALSE
  BY <1>1, <1>2, IdleRequest DEF Begin
<1>3. ASSUME NEW s \in Requests, VoteCheck(s) PROVE FALSE
  <2>1. req[s] \in VoteRequest
    BY <1>1, <1>3, KindOf DEF VoteCheck, At
  <2>2. req'[s].pc = "checked" /\ \A t \in Requests \ {s} : req'[t] = req[t]
    BY <1>1, <1>3, <2>1 DEF VoteCheck, VoteRequest
  <2>3. QED
    BY <2>2, IdleRequest
<1>4. ASSUME NEW s \in Requests, End(s) PROVE s = r
  BY <1>1, <1>4, IdleRequest DEF End
<1>5. ASSUME NEW s \in Requests,
             \/ \E v \in Voters : (\E votes \in Cast : VoteLoad(s, v, votes)) \/ WithdrawLoad(s, v)
             \/ \E l \in Labels : AddLoad(s, l)
             \/ \E form \in Form, confirmed \in BOOLEAN : EditLoad(s, form, confirmed)
             \/ ClearLoad(s)
      PROVE  FALSE
  BY <1>2, <1>5 DEF VoteLoad, WithdrawLoad, AddLoad, EditLoad, ClearLoad
<1>6. ASSUME NEW s \in Requests,
             \/ VoteCommit(s) \/ WithdrawCommit(s) \/ AddCommit(s) \/ EditCommit(s)
             \/ ClearCommit(s) \/ Abort(s)
      PROVE  s = r
  BY <1>4, <1>6 DEF VoteCommit, WithdrawCommit, AddCommit, EditCommit, ClearCommit, Abort
<1>7. ~Tick /\ ~CloseDue
  BY <1>1 DEF Tick, CloseDue
<1>8. QED
  BY <1>3, <1>5, <1>6, <1>7 DEF Next

\* Only saving the form counts as an edit.
LEMMA Edits ==
    ASSUME Next, version' # version
    PROVE  \E r \in Requests : EditCommit(r)
BY DEF Next, VoteLoad, WithdrawLoad, VoteCheck, VoteCommit, WithdrawCommit, AddLoad, AddCommit,
       EditLoad, ClearLoad, ClearCommit, Abort, Tick, CloseDue, settings

\* The options that the form a request saves leaves to the poll.
Kept(r) == {o \in Regular : Label(o) \in DOMAIN req[r].form.listing}

LEMMA Edited ==
    ASSUME IInv, NEW r \in Requests, EditCommit(r)
    PROVE  /\ Kept(r) \cup custom \subseteq DOMAIN option'
           /\ \A o \in custom : option'[o] = option[o]
           /\ DOMAIN ballots' = DOMAIN ballots
           /\ \A v \in DOMAIN ballots :
                 DOMAIN ballots'[v].votes = DOMAIN ballots[v].votes \cap (Kept(r) \cup custom)
<1>1. ballots' = KeepVotes(Kept(r) \cup custom)
  BY DEF EditCommit, Kept
<1>2. ASSUME NEW v \in DOMAIN ballots
      PROVE  ballots'[v].votes = Filtered(ballots[v].votes, Kept(r) \cup custom)
  BY <1>1 DEF KeepVotes, IInv, StoredInv, BallotInv
<1>3. QED
  BY <1>1, <1>2 DEF EditCommit, Kept, KeepVotes, Filtered

\* However often a voter's requests overlap, a ballot that stands is replaced or withdrawn
\* only by a request of the voter's own that allow_edit_responses let in, or that found
\* no ballot when it came.
THEOREM FirstBallotStandsHolds == Spec => FirstBallotStands
<1>1. ASSUME IInv, Next, NEW r \in Requests, NEW v \in DOMAIN ballots,
             Finishes(r, {"checked", "withdrawing"}), ~Stands(v)
      PROVE  req[r].voter = v /\ (req[r].first \/ req[r].mayEdit)
  <2>1. \/ VoteCommit(r) \/ WithdrawCommit(r) \/ AddCommit(r) \/ EditCommit(r)
        \/ ClearCommit(r) \/ Abort(r)
    BY <1>1, Finished DEF Finishes
  <2>2. CASE VoteCommit(r)
    <3>1. v = req[r].voter
      BY <1>1, <2>2 DEF VoteCommit, Stands
    <3>2. VoteInv(req[r], CurrentRules, version)
      BY <1>1, <2>2 DEF IInv, RequestInv, VoteCommit, At
    <3>3. QED
      BY <3>1, <3>2 DEF VoteInv
  <2>3. CASE WithdrawCommit(r)
    <3>1. v = req[r].voter
      BY <1>1, <2>3 DEF WithdrawCommit, Without, Stands
    <3>2. req[r] \in WithdrawRequest
      BY <1>1, <2>3, KindOf DEF IInv, RequestInv, WithdrawCommit, At
    <3>3. QED
      BY <3>1, <3>2 DEF WithdrawRequest
  <2>4. CASE Abort(r)
    BY <1>1, <2>4 DEF Abort, Stands
  <2>5. QED
    BY <1>1, <2>1, <2>2, <2>3, <2>4
       DEF Finishes, AddCommit, EditCommit, ClearCommit, At
<1>2. IInv /\ [Next]_vars
         => [\A r \in Requests, v \in DOMAIN ballots :
               Finishes(r, {"checked", "withdrawing"}) /\ ~Stands(v)
                  => req[r].voter = v /\ (req[r].first \/ req[r].mayEdit)]_vars
  BY <1>1
<1>3. QED
  BY <1>2, InvHolds, PTL DEF Spec, FirstBallotStands

\* Votes that came in while the owner's form was under way may go with it, but none that
\* was there when the form was checked goes without a warning.
THEOREM SeenVotesAreWarnedHolds == Spec => SeenVotesAreWarned
<1>1. ASSUME IInv, Next, NEW r \in Requests, Finishes(r, {"editing"}), ~req[r].confirmed,
             NEW vote \in req[r].seen \cap Votes
      PROVE  vote \in Votes'
  <2>1. \/ VoteCommit(r) \/ WithdrawCommit(r) \/ AddCommit(r) \/ EditCommit(r)
        \/ ClearCommit(r) \/ Abort(r)
    BY <1>1, Finished DEF Finishes
  <2>2. vote \in (DOMAIN ballots) \X Existing /\ vote[2] \in DOMAIN ballots[vote[1]].votes
    BY <1>1 DEF Votes
  <2>3. CASE EditCommit(r)
    <3>1. req[r] \in EditRequest /\ EditInv(req[r], poll, version, custom)
      BY <1>1, KindOf DEF IInv, RequestInv, Finishes, At
    <3>2. req[r].confirmed = FALSE
      BY <1>1, <3>1 DEF EditRequest
    <3>3. vote[2] \in custom \/ Label(vote[2]) \in DOMAIN req[r].form.listing
      BY <1>1, <3>1, <3>2 DEF EditInv
    <3>4. vote[2] \in Kept(r) \cup custom
      BY <2>2, <3>3 DEF Kept, Regular
    <3>5. vote[2] \in DOMAIN ballots'[vote[1]].votes /\ vote[2] \in Existing'
      BY <1>1, <2>2, <2>3, <3>4, Edited DEF Existing
    <3>6. vote \in (DOMAIN ballots') \X Existing'
      BY <1>1, <2>2, <2>3, <3>5, Edited
    <3>7. QED
      BY <3>5, <3>6 DEF Votes
  <2>4. CASE Abort(r)
    BY <1>1, <2>4 DEF Abort, Votes, Existing
  <2>5. QED
    BY <1>1, <2>1, <2>3, <2>4
       DEF Finishes, VoteCommit, WithdrawCommit, AddCommit, ClearCommit, At
<1>2. IInv /\ [Next]_vars
         => [\A r \in Requests : Finishes(r, {"editing"}) /\ ~req[r].confirmed
               => \A vote \in req[r].seen \cap Votes : vote \in Votes']_vars
  BY <1>1
<1>3. QED
  BY <1>2, InvHolds, PTL DEF Spec, SeenVotesAreWarned

\* Options that voters added survive every form, with their votes.
THEOREM CustomKeptHolds == Spec => CustomKept
<1>1. ASSUME IInv, Next, version' # version
      PROVE  /\ \A o \in custom : o \in DOMAIN option' /\ option'[o] = option[o]
             /\ \A v \in DOMAIN ballots : \A o \in custom \cap DOMAIN ballots[v].votes :
                   o \in DOMAIN ballots'[v].votes
  <2>1. PICK r \in Requests : EditCommit(r)
    BY <1>1, Edits
  <2>2. QED
    BY <1>1, <2>1, Edited
<1>2. IInv /\ [Next]_vars
         => [version' # version =>
               /\ \A o \in custom : o \in DOMAIN option' /\ option'[o] = option[o]
               /\ \A v \in DOMAIN ballots : \A o \in custom \cap DOMAIN ballots[v].votes :
                     o \in DOMAIN ballots'[v].votes]_vars
  BY <1>1
<1>3. QED
  BY <1>2, InvHolds, PTL DEF Spec, CustomKept
=============================================================================
