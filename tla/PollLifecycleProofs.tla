------------------------ MODULE PollLifecycleProofs ------------------------
(***************************************************************************)
(* Theorems about PollLifecycle for any number of concurrent requests and   *)
(* threads, any retention and any bounds.                                   *)
(***************************************************************************)
EXTENDS PollLifecycle, TLAPS

\* What writing back a column leaves is one of the values involved.
LEMMA WriteBackCases ==
    ASSUME NEW current, NEW loaded, NEW mine
    PROVE  \/ mine = loaded /\ WriteBack(current, loaded, mine) = current
           \/ mine # loaded /\ WriteBack(current, loaded, mine) = mine
BY DEF WriteBack

LEMMA AutoDeleteAtType ==
    ASSUME LifecycleAssumption, TypeOK, NEW status, NEW enabled \in BOOLEAN
    PROVE  /\ AutoDeleteAt(status, enabled) \in Nat \cup {NoTime}
           /\ AutoDeleteAt(status, enabled) # NoTime =>
                 status = "CLOSED" /\ AutoDeleteAt(status, enabled) = now + Retention
BY DEF AutoDeleteAt, TypeOK, Time, NoTime, LifecycleAssumption

LEMMA NoRowType == NoRow \in Row
BY DEF NoRow, Row, Absent

LEMMA RecordClosingType ==
    ASSUME LifecycleAssumption, TypeOK, NEW status, RecordClosing(status)
    PROVE  closings' \in Nat /\ firstClosed' \in Time \cup {NoTime}
BY DEF RecordClosing, TypeOK, Time

\* The shape of what the requests hold, the part of TypeOK an edit changes.
EditType ==
    /\ edit \in [Editors -> [pc : {"idle", "loaded", "committed"}, loaded : Row]]
    /\ \A e \in Editors : edit[e].pc = "loaded" => edit[e].loaded.status \in Live

LEMMA TypeStep ==
    ASSUME LifecycleAssumption, TypeOK, [Next]_vars
    PROVE  TypeOK'
<1> USE LifecycleAssumption DEF LifecycleAssumption
<1>1. ASSUME NEW status \in Statuses, NEW endsAt \in Deadlines \cup {NoTime},
             NEW autoDelete \in BOOLEAN, CreatePoll(status, endsAt, autoDelete)
      PROVE  TypeOK'
  BY <1>1, AutoDeleteAtType DEF TypeOK, CreatePoll, Row, Live
<1>2. ASSUME NEW status \in Statuses, NEW endsAt \in Deadlines \cup {NoTime},
             NEW autoDelete \in BOOLEAN, NEW e \in Editors, NEW rewrite \in BOOLEAN,
             EditCommit(e, status, endsAt, autoDelete, rewrite)
      PROVE  TypeOK'
  <2>0. status \in Live
    <3>1. /\ edit[e].loaded.status \in Live
          /\ status \in AllowedTransitions[edit[e].loaded.status]
      BY <1>2 DEF TypeOK, EditCommit
    <3> QED
      BY <3>1 DEF AllowedTransitions, Live
  <2>1. poll' \in Row
    BY <1>2, <2>0, AutoDeleteAtType DEF TypeOK, EditCommit, Row, Live, WriteBack
  <2>2. EditType'
    BY <1>2, NoRowType DEF TypeOK, EditCommit, Row, NoRow, EditType
  <2>3. closings' \in Nat /\ firstClosed' \in Time \cup {NoTime}
    BY <1>2, RecordClosingType DEF EditCommit
  <2> QED
    BY <1>2, <2>1, <2>2, <2>3 DEF TypeOK, EditCommit, EditType
<1>3. ASSUME NEW e \in Editors, EditLoad(e) \/ EditReject(e) \/ EditFinish(e) \/ EditFail(e)
      PROVE  TypeOK'
  <2>1. EditType'
    BY <1>3, NoRowType
       DEF TypeOK, EditLoad, EditReject, EditFinish, EditFail, Stored, EditType
  <2>2. lost' \in BOOLEAN
    BY <1>3 DEF TypeOK, EditLoad, EditReject, EditFinish, EditFail
  <2>3. announced' \subseteq (Editors \cup Closers) \X Nat
    BY <1>3 DEF TypeOK, EditLoad, EditReject, EditFinish, EditFail
  <2> QED
    BY <1>3, <2>1, <2>2, <2>3 DEF TypeOK, EditLoad, EditReject, EditFinish, EditFail, EditType
<1>4. ASSUME DeletePoll \/ PurgeSelect \/ PurgeDelete \/ Tick
      PROVE  TypeOK'
  BY <1>4 DEF TypeOK, DeletePoll, PurgeSelect, PurgeDelete, Tick, Row, Time
<1>5. ASSUME NEW c \in Closers, CloseSelect(c) \/ CloseDispatch(c)
      PROVE  TypeOK'
  BY <1>5 DEF TypeOK, CloseSelect, CloseDispatch
<1>6. ASSUME NEW c \in Closers, CloseCommit(c)
      PROVE  TypeOK'
  <2>1. poll' \in Row
    BY <1>6, AutoDeleteAtType DEF TypeOK, CloseCommit, Row, Live
  <2>2. closings' \in Nat /\ firstClosed' \in Time \cup {NoTime}
    BY <1>6, RecordClosingType DEF CloseCommit
  <2> QED
    BY <1>6, <2>1, <2>2 DEF TypeOK, CloseCommit
<1>7. ASSUME Crash
      PROVE  TypeOK'
  <2>1. crashes' \in 0 .. MaxCrashes
    BY <1>7 DEF TypeOK, Crash
  <2>2. EditType'
    <3>1. ASSUME NEW e \in Editors, CrashEditor(e) PROVE EditType'
      BY <3>1, NoRowType DEF TypeOK, CrashEditor, EditType
    <3>2. ASSUME UNCHANGED edit PROVE EditType'
      BY <3>2 DEF TypeOK, EditType
    <3> QED
      BY <1>7, <3>1, <3>2 DEF Crash, CrashCloser, CrashPurger
  <2>3. /\ closer' \in [Closers -> [pc : {"idle", "locked", "committed"}, closing : Nat]]
        /\ lock' \in Closers \cup {NoOne}
        /\ purger' \in {"idle", "selected"}
    BY <1>7 DEF TypeOK, Crash, CrashEditor, CrashCloser, CrashPurger
  <2>4. lost' \in BOOLEAN
    BY <1>7 DEF Crash
  <2> QED
    BY <1>7, <2>1, <2>2, <2>3, <2>4 DEF TypeOK, Crash, EditType
<1>8. CASE UNCHANGED vars
  BY <1>8 DEF TypeOK, vars
<1> QED
  BY <1>1, <1>2, <1>3, <1>4, <1>5, <1>6, <1>7, <1>8
     DEF Next, OwnerStep, CloserStep, PurgerStep

LEMMA TypeInit == Init => TypeOK
<1> SUFFICES ASSUME Init PROVE TypeOK
  OBVIOUS
<1>1. lost \in BOOLEAN
  BY DEF Init
<1>2. EditType
  BY NoRowType DEF Init, EditType
<1>3. closer \in [Closers -> [pc : {"idle", "locked", "committed"}, closing : Nat]]
  BY DEF Init
<1> QED
  BY <1>1, <1>2, <1>3, LifecycleAssumption, NoRowType
     DEF LifecycleAssumption, Init, TypeOK, Time, EditType

\* Every variable keeps its type, whatever the bounds.
THEOREM TypeCorrect == Spec => []TypeOK
<1>1. Init => TypeOK
  BY TypeInit
<1>2. TypeOK /\ [Next]_vars => TypeOK'
  BY LifecycleAssumption, TypeStep
<1> QED
  BY <1>1, <1>2, PTL DEF Spec

-----------------------------------------------------------------------------
(* What a request in flight knows about the row. *)

\* A request that loaded the poll after it left DRAFT cannot find it a DRAFT again:
\* a loaded status other than DRAFT outlives every later change of the row.
LoadedInv ==
    \A e \in Editors :
       (edit[e].pc = "loaded" /\ edit[e].loaded.status \in {"ACTIVE", "CLOSED"})
          => poll.status \in {"ACTIVE", "CLOSED", Gone}

\* The row lock protects a poll that is still ACTIVE.
LockInv ==
    /\ \A c \in Closers : lock = c <=> closer[c].pc = "locked"
    /\ \A c \in Closers : closer[c].pc = "locked" => poll.status = "ACTIVE"

\* The status a commit leaves: the loaded status is written over only by one the
\* transitions allow from it.
LEMMA CommitStatus ==
    ASSUME LifecycleAssumption, TypeOK, LoadedInv,
           NEW e \in Editors, NEW status, NEW endsAt, NEW autoDelete, NEW rewrite,
           EditCommit(e, status, endsAt, autoDelete, rewrite)
    PROVE  /\ poll.status \in Live
           /\ poll'.status \in {poll.status, status}
           /\ poll'.status # poll.status =>
                 \/ edit[e].loaded.status = "DRAFT" /\ status = "ACTIVE"
                 \/ edit[e].loaded.status = "ACTIVE" /\ status = "CLOSED"
           /\ poll'.status \in Live
           /\ status \in Live
           /\ edit[e].loaded.status \in Live
           /\ edit[e].loaded.status = "CLOSED" => status = "CLOSED"
<1>1. /\ edit[e].loaded.status \in Live
      /\ edit[e].pc = "loaded"
      /\ poll.status \in Live
  BY DEF EditCommit, TypeOK, Stored
<1>2. poll'.status = WriteBack(poll.status, edit[e].loaded.status, status)
  BY DEF EditCommit
<1>3. status \in AllowedTransitions[edit[e].loaded.status]
  BY DEF EditCommit
<1>4. \/ edit[e].loaded.status = "DRAFT" /\ status \in {"DRAFT", "ACTIVE"}
      \/ edit[e].loaded.status = "ACTIVE" /\ status \in {"ACTIVE", "CLOSED"}
      \/ edit[e].loaded.status = "CLOSED" /\ status = "CLOSED"
  BY <1>1, <1>3 DEF AllowedTransitions, Live
<1> QED
  BY <1>1, <1>2, <1>4 DEF WriteBack, Live

FlowInv == TypeOK /\ LoadedInv /\ LockInv

LEMMA FlowStep ==
    ASSUME LifecycleAssumption, FlowInv, [Next]_vars
    PROVE  FlowInv'
<1> USE LifecycleAssumption DEF LifecycleAssumption, FlowInv
<1>0. TypeOK'
  BY TypeStep
<1>1. ASSUME NEW status \in Statuses, NEW endsAt, NEW autoDelete,
             CreatePoll(status, endsAt, autoDelete)
      PROVE  LoadedInv' /\ LockInv'
  BY <1>1 DEF TypeOK, CreatePoll, LoadedInv, LockInv, Live, Absent, Gone
<1>2. ASSUME NEW status, NEW endsAt, NEW autoDelete, NEW e \in Editors, NEW rewrite,
             EditCommit(e, status, endsAt, autoDelete, rewrite)
      PROVE  LoadedInv' /\ LockInv'
  <2>1. poll.status \in {"ACTIVE", "CLOSED", Gone} => poll'.status \in {"ACTIVE", "CLOSED", Gone}
    BY <1>2, CommitStatus DEF Live
  <2>2. \A f \in Editors : edit'[f].pc = "loaded" => edit'[f] = edit[f]
    BY <1>2 DEF EditCommit, TypeOK
  <2>3. LoadedInv'
    BY <2>1, <2>2 DEF LoadedInv
  <2>4. LockInv'
    BY <1>2 DEF EditCommit, LockInv, TypeOK
  <2> QED
    BY <2>3, <2>4
<1>3. ASSUME NEW e \in Editors, EditLoad(e)
      PROVE  LoadedInv' /\ LockInv'
  BY <1>3 DEF EditLoad, LoadedInv, LockInv, TypeOK, Stored, Live
<1>4. ASSUME NEW e \in Editors, EditReject(e) \/ EditFinish(e) \/ EditFail(e)
      PROVE  LoadedInv' /\ LockInv'
  BY <1>4 DEF EditReject, EditFinish, EditFail, LoadedInv, LockInv, TypeOK
<1>5. ASSUME DeletePoll \/ PurgeDelete
      PROVE  LoadedInv' /\ LockInv'
  BY <1>5 DEF DeletePoll, PurgeDelete, LoadedInv, LockInv, TypeOK, Row
<1>6. ASSUME NEW c \in Closers, CloseSelect(c)
      PROVE  LoadedInv' /\ LockInv'
  BY <1>6 DEF CloseSelect, LoadedInv, LockInv, TypeOK, Due
<1>7. ASSUME NEW c \in Closers, CloseCommit(c)
      PROVE  LoadedInv' /\ LockInv'
  <2>1. poll'.status = "CLOSED"
    BY <1>7 DEF CloseCommit, TypeOK, Row
  <2>2. LoadedInv'
    BY <1>7, <2>1 DEF CloseCommit, LoadedInv
  <2>3. LockInv'
    BY <1>7 DEF CloseCommit, LockInv, TypeOK
  <2> QED
    BY <2>2, <2>3
<1>8. ASSUME NEW c \in Closers, CloseDispatch(c)
      PROVE  LoadedInv' /\ LockInv'
  BY <1>8 DEF CloseDispatch, LoadedInv, LockInv, TypeOK
<1>9. ASSUME PurgeSelect \/ Tick
      PROVE  LoadedInv' /\ LockInv'
  BY <1>9 DEF PurgeSelect, Tick, LoadedInv, LockInv
<1>10. ASSUME Crash
       PROVE  LoadedInv' /\ LockInv'
  BY <1>10 DEF Crash, CrashEditor, CrashCloser, CrashPurger, LoadedInv, LockInv, TypeOK
<1>11. CASE UNCHANGED vars
  BY <1>0, <1>11 DEF LoadedInv, LockInv, vars
<1> QED
  BY <1>0, <1>1, <1>2, <1>3, <1>4, <1>5, <1>6, <1>7, <1>8, <1>9, <1>10, <1>11
     DEF Next, OwnerStep, CloserStep, PurgerStep

LEMMA FlowCorrect == Spec => []FlowInv
<1>1. Init => FlowInv
  BY TypeInit, LifecycleAssumption
     DEF LifecycleAssumption, Init, FlowInv, LoadedInv, LockInv
<1>2. FlowInv /\ [Next]_vars => FlowInv'
  BY LifecycleAssumption, FlowStep
<1> QED
  BY <1>1, <1>2, PTL DEF Spec

\* No interleaving of any number of requests and tasks brings a poll back to DRAFT
\* or brings a deleted poll back, although every request writes from a stale row.
THEOREM NeverBackHolds == Spec => NeverBack
<1> DEFINE Step == /\ poll'.status = "DRAFT" => poll.status \in {Absent, "DRAFT"}
                   /\ poll.status = Gone => poll'.status = Gone
<1>1. ASSUME FlowInv, [Next]_vars
      PROVE  Step
  <2> USE <1>1, LifecycleAssumption DEF FlowInv
  <2>1. ASSUME NEW status, NEW endsAt, NEW autoDelete,
               CreatePoll(status, endsAt, autoDelete)
        PROVE  Step
    BY <2>1 DEF CreatePoll, Absent, Gone
  <2>2. ASSUME NEW status, NEW endsAt, NEW autoDelete, NEW e \in Editors, NEW rewrite,
               EditCommit(e, status, endsAt, autoDelete, rewrite)
        PROVE  Step
    BY <2>2, CommitStatus DEF Live, Gone, LoadedInv
  <2>3. ASSUME NEW c \in Closers, CloseCommit(c)
        PROVE  Step
    BY <2>3 DEF CloseCommit, LockInv, TypeOK, Row, Gone
  <2>4. ASSUME DeletePoll \/ PurgeDelete
        PROVE  Step
    BY <2>4 DEF DeletePoll, PurgeDelete, TypeOK, Row, Gone
  <2>5. ASSUME poll' = poll
        PROVE  Step
    BY <2>5
  <2> QED
    BY <2>1, <2>2, <2>3, <2>4, <2>5
       DEF Next, OwnerStep, CloserStep, PurgerStep, EditLoad, EditReject, EditFinish, EditFail,
           CloseSelect, CloseDispatch, PurgeSelect, Crash, Tick, vars
<1> QED
  BY <1>1, FlowCorrect, PTL DEF Spec, NeverBack

\* Only a request that loaded the poll as a DRAFT, before its activation, can reopen
\* it after its closing.
THEOREM ReopenedOnlyByStaleDraftHolds == Spec => ReopenedOnlyByStaleDraft
<1> DEFINE Step == (poll.status = "CLOSED" /\ poll'.status \notin {"CLOSED", Gone}) =>
                   \E e \in Editors : /\ edit[e].pc = "loaded"
                                      /\ edit[e].loaded.status = "DRAFT"
                                      /\ edit'[e].pc = "committed"
<1>1. ASSUME FlowInv, [Next]_vars
      PROVE  Step
  <2> USE <1>1, LifecycleAssumption DEF FlowInv
  <2>1. ASSUME NEW status, NEW endsAt, NEW autoDelete,
               CreatePoll(status, endsAt, autoDelete)
        PROVE  Step
    BY <2>1 DEF CreatePoll, Absent
  <2>2. ASSUME NEW status, NEW endsAt, NEW autoDelete, NEW e \in Editors, NEW rewrite,
               EditCommit(e, status, endsAt, autoDelete, rewrite)
        PROVE  Step
    <3>1. edit[e].pc = "loaded" /\ edit'[e].pc = "committed"
      BY <2>2 DEF EditCommit, TypeOK
    <3> QED
      BY <2>2, <3>1, CommitStatus
  <2>3. ASSUME NEW c \in Closers, CloseCommit(c)
        PROVE  Step
    BY <2>3 DEF CloseCommit, TypeOK, Row
  <2>4. ASSUME DeletePoll \/ PurgeDelete
        PROVE  Step
    BY <2>4 DEF DeletePoll, PurgeDelete, TypeOK, Row
  <2>5. ASSUME poll' = poll
        PROVE  Step
    BY <2>5
  <2> QED
    BY <2>1, <2>2, <2>3, <2>4, <2>5
       DEF Next, OwnerStep, CloserStep, PurgerStep, EditLoad, EditReject, EditFinish, EditFail,
           CloseSelect, CloseDispatch, PurgeSelect, Crash, Tick, vars
<1> QED
  BY <1>1, FlowCorrect, PTL DEF Spec, ReopenedOnlyByStaleDraft

\* The status of a poll goes back in one case only, for any number of requests and
\* tasks: a stale DRAFT reopens a closed poll.
THEOREM StatusMovesHolds == Spec => StatusMoves
BY NeverBackHolds, ReopenedOnlyByStaleDraftHolds DEF StatusMoves

-----------------------------------------------------------------------------
(* Retention. *)

\* A time to delete is never set before the first closing plus the retention, and a
\* purge that has selected the poll did so no earlier.
RetentionInv ==
    /\ poll.status = "CLOSED" => firstClosed # NoTime
    /\ poll.deleteAt # NoTime => firstClosed # NoTime /\ firstClosed + Retention <= poll.deleteAt
    /\ firstClosed # NoTime => firstClosed <= now
    /\ \A e \in Editors :
          (edit[e].pc = "loaded" /\ edit[e].loaded.status = "CLOSED") => firstClosed # NoTime
    /\ purger = "selected" => firstClosed # NoTime /\ firstClosed + Retention <= now

LEMMA RetentionStep ==
    ASSUME LifecycleAssumption, FlowInv, RetentionInv, [Next]_vars
    PROVE  RetentionInv'
<1> USE LifecycleAssumption DEF LifecycleAssumption, FlowInv
<1>0. /\ TypeOK
      /\ now \in Nat /\ Retention \in Nat
      /\ firstClosed \in Nat \cup {NoTime} /\ poll.deleteAt \in Nat \cup {NoTime}
  BY DEF TypeOK, Time, Row
<1>1. ASSUME NEW status \in Statuses, NEW endsAt, NEW autoDelete \in BOOLEAN,
             CreatePoll(status, endsAt, autoDelete)
      PROVE  RetentionInv'
  BY <1>0, <1>1 DEF CreatePoll, RetentionInv, AutoDeleteAt
<1>2. ASSUME NEW status \in Statuses, NEW endsAt, NEW autoDelete \in BOOLEAN,
             NEW e \in Editors, NEW rewrite,
             EditCommit(e, status, endsAt, autoDelete, rewrite)
      PROVE  RetentionInv'
  <2> DEFINE mine == AutoDeleteAt(status, autoDelete)
  <2>1. \/ poll'.deleteAt = mine
        \/ poll'.deleteAt = WriteBack(poll.deleteAt, edit[e].loaded.deleteAt, mine)
    BY <1>2 DEF EditCommit
  <2>2. poll'.deleteAt = poll.deleteAt \/ poll'.deleteAt = mine
    BY <2>1 DEF WriteBack
  <2>3. RecordClosing(poll'.status)
    BY <1>2 DEF EditCommit
  <2>4. firstClosed # NoTime => firstClosed' = firstClosed
    BY <2>3 DEF RecordClosing
  <2>5. firstClosed' = firstClosed \/ firstClosed' = now
    BY <2>3 DEF RecordClosing
  <2>6. status = "CLOSED" => firstClosed' # NoTime
    <3>1. CASE edit[e].loaded.status = "CLOSED"
      <4>1. firstClosed # NoTime
        BY <1>2, <3>1 DEF RetentionInv, EditCommit
      <4> QED
        BY <4>1, <2>4
    <3>2. CASE edit[e].loaded.status # "CLOSED" /\ status = "CLOSED"
      <4>0. /\ edit[e].loaded.status \in Live
            /\ status \in AllowedTransitions[edit[e].loaded.status]
        BY <1>2 DEF EditCommit, TypeOK
      <4>1. edit[e].loaded.status = "ACTIVE"
        BY <3>2, <4>0 DEF AllowedTransitions, Live
      <4>2. poll'.status = "CLOSED"
        BY <1>2, <3>2, <4>1 DEF EditCommit, WriteBack
      <4>3. poll.status \in {"ACTIVE", "CLOSED"}
        BY <1>2, <4>1 DEF EditCommit, LoadedInv, Stored, Live, Gone
      <4>4. CASE poll.status = "ACTIVE"
        BY <1>0, <2>3, <4>2, <4>4 DEF RecordClosing, NoTime
      <4>5. CASE poll.status = "CLOSED"
        BY <4>5, <2>4 DEF RetentionInv
      <4> QED
        BY <4>3, <4>4, <4>5
    <3> QED
      BY <3>1, <3>2
  <2>7. poll'.status = "CLOSED" => firstClosed' # NoTime
    <3>1. poll'.status = poll.status \/ poll'.status = status
      BY <1>2, CommitStatus
    <3> QED
      BY <2>4, <2>6, <3>1 DEF RetentionInv
  <2>8. now' = now /\ purger' = purger
    BY <1>2 DEF EditCommit
  <2>9. firstClosed' # NoTime => firstClosed' <= now'
    BY <1>0, <2>5, <2>8 DEF RetentionInv
  <2>10. poll'.deleteAt # NoTime =>
            firstClosed' # NoTime /\ firstClosed' + Retention <= poll'.deleteAt
    <3>1. CASE poll'.deleteAt = mine
      BY <1>0, <2>5, <2>6, <2>8, <2>9, <3>1 DEF AutoDeleteAt, NoTime
    <3>2. CASE poll'.deleteAt = poll.deleteAt
      BY <2>4, <3>2 DEF RetentionInv
    <3> QED
      BY <2>2, <3>1, <3>2
  <2>11. \A f \in Editors : edit'[f].pc = "loaded" => edit'[f] = edit[f]
    BY <1>2 DEF EditCommit, TypeOK
  <2> QED
    BY <2>4, <2>7, <2>8, <2>9, <2>10, <2>11 DEF RetentionInv
<1>3. ASSUME NEW e \in Editors, EditLoad(e)
      PROVE  RetentionInv'
  BY <1>3 DEF EditLoad, RetentionInv, TypeOK
<1>4. ASSUME NEW e \in Editors, EditReject(e) \/ EditFinish(e) \/ EditFail(e)
      PROVE  RetentionInv'
  BY <1>4 DEF EditReject, EditFinish, EditFail, RetentionInv, TypeOK
<1>5. ASSUME DeletePoll \/ PurgeDelete
      PROVE  RetentionInv'
  BY <1>5 DEF DeletePoll, PurgeDelete, RetentionInv, TypeOK, Row, Gone
<1>6. ASSUME NEW c \in Closers, CloseSelect(c) \/ CloseDispatch(c)
      PROVE  RetentionInv'
  BY <1>6 DEF CloseSelect, CloseDispatch, RetentionInv
<1>7. ASSUME NEW c \in Closers, CloseCommit(c)
      PROVE  RetentionInv'
  <2>1. poll.status = "ACTIVE"
    BY <1>7 DEF CloseCommit, LockInv
  <2>2. /\ firstClosed' = IF firstClosed = NoTime THEN now ELSE firstClosed
        /\ now' = now /\ purger' = purger /\ edit' = edit
        /\ poll'.deleteAt = AutoDeleteAt("CLOSED", poll.autoDelete)
    BY <1>7, <2>1 DEF CloseCommit, RecordClosing, TypeOK, Row
  <2> QED
    BY <1>0, <2>2 DEF RetentionInv, AutoDeleteAt, NoTime
<1>8. ASSUME PurgeSelect
      PROVE  RetentionInv'
  BY <1>0, <1>8 DEF PurgeSelect, RetentionInv, Expired
<1>9. ASSUME Tick
      PROVE  RetentionInv'
  BY <1>0, <1>9 DEF Tick, RetentionInv, NoTime
<1>10. ASSUME Crash
       PROVE  RetentionInv'
  BY <1>10 DEF Crash, CrashEditor, CrashCloser, CrashPurger, RetentionInv, TypeOK
<1>11. CASE UNCHANGED vars
  BY <1>11 DEF RetentionInv, vars
<1> QED
  BY <1>1, <1>2, <1>3, <1>4, <1>5, <1>6, <1>7, <1>8, <1>9, <1>10, <1>11
     DEF Next, OwnerStep, CloserStep, PurgerStep

LEMMA RetentionCorrect == Spec => [](FlowInv /\ RetentionInv)
<1>1. Init => RetentionInv
  <2> SUFFICES ASSUME Init PROVE RetentionInv
    OBVIOUS
  <2>1. poll.status = Absent /\ poll.deleteAt = NoTime
    BY DEF Init, NoRow
  <2>2. \A e \in Editors : edit[e].pc = "idle"
    BY DEF Init
  <2> QED
    BY <2>1, <2>2 DEF Init, RetentionInv, Absent
<1>2. FlowInv /\ RetentionInv /\ [Next]_vars => RetentionInv'
  BY LifecycleAssumption, RetentionStep
<1> QED
  BY <1>1, <1>2, FlowCorrect, PTL DEF Spec

\* A purge deletes only polls whose first closing is at least the retention ago,
\* although its SELECT and its DELETE are separate and take no lock.
THEOREM NeverPurgedEarlyHolds == Spec => NeverPurgedEarly
<1> DEFINE Step == (poll.status # Gone /\ poll'.status = Gone /\ purger' # purger) =>
                   firstClosed # NoTime /\ firstClosed + Retention <= now
<1>1. ASSUME FlowInv, RetentionInv, [Next]_vars
      PROVE  Step
  <2>1. CASE purger = "selected"
    BY <1>1, <2>1 DEF RetentionInv
  <2>2. CASE purger # "selected"
    BY <1>1, <2>2 DEF Next, OwnerStep, CloserStep, PurgerStep, CreatePoll, EditLoad,
          EditCommit, EditReject, EditFinish, EditFail, DeletePoll, CloseSelect, CloseCommit,
          CloseDispatch, PurgeSelect, PurgeDelete, Crash, CrashEditor, CrashCloser,
          CrashPurger, Tick, vars
  <2> QED
    BY <2>1, <2>2
<1> QED
  BY <1>1, RetentionCorrect, PTL DEF Spec, NeverPurgedEarly

-----------------------------------------------------------------------------
(* The mails of a closing. *)

\* The closings that closers own or have announced are past ones, each is owned by
\* one closer, and an owner has not announced it yet.
CloserInv ==
    /\ \A c \in Closers : closer[c].pc = "committed" => closer[c].closing \in 1 .. closings
    /\ \A c \in Closers, n \in Nat : <<c, n>> \in announced => n <= closings
    /\ \A c, d \in Closers :
          closer[c].pc = "committed" => <<d, closer[c].closing>> \notin announced
    /\ OneCloserPerClosing

LEMMA CloserStepInv ==
    ASSUME LifecycleAssumption, FlowInv, CloserInv, [Next]_vars
    PROVE  CloserInv'
<1> USE LifecycleAssumption DEF LifecycleAssumption, FlowInv
<1>0. closings \in Nat /\ announced \subseteq (Editors \cup Closers) \X Nat
  BY DEF TypeOK
<1>1. ASSUME closings' \in Nat, closings' >= closings, closer' = closer,
             announced' = announced
      PROVE  CloserInv'
  BY <1>0, <1>1 DEF CloserInv, OneCloserPerClosing
<1>2. ASSUME NEW e \in Editors, NEW status, NEW endsAt, NEW autoDelete, NEW rewrite,
             EditCommit(e, status, endsAt, autoDelete, rewrite)
      PROVE  CloserInv'
  <2>1. closings' \in Nat /\ closings' >= closings
    BY <1>0, <1>2 DEF EditCommit, RecordClosing
  <2> QED
    BY <1>1, <1>2, <2>1 DEF EditCommit
<1>3. ASSUME NEW e \in Editors, EditFinish(e)
      PROVE  CloserInv'
  <2>1. \A c \in Closers, n \in Nat : <<c, n>> \in announced' <=> <<c, n>> \in announced
    BY <1>3 DEF EditFinish
  <2>2. closer' = closer /\ closings' = closings
    BY <1>3 DEF EditFinish
  <2> QED
    BY <1>0, <2>1, <2>2 DEF CloserInv, OneCloserPerClosing
<1>4. ASSUME NEW c \in Closers, CloseSelect(c)
      PROVE  CloserInv'
  <2>1. \A d \in Closers : closer'[d].pc = "committed" => closer'[d] = closer[d]
    BY <1>4 DEF CloseSelect, TypeOK
  <2>2. closings' = closings /\ announced' = announced
    BY <1>4 DEF CloseSelect
  <2> QED
    BY <1>0, <2>1, <2>2 DEF CloserInv, OneCloserPerClosing
<1>5. ASSUME NEW c \in Closers, CloseCommit(c)
      PROVE  CloserInv'
  <2>1. poll.status = "ACTIVE"
    BY <1>5 DEF CloseCommit, LockInv
  <2>2. closings' = closings + 1 /\ announced' = announced
    BY <1>5, <2>1 DEF CloseCommit, RecordClosing
  <2>3. closer'[c] = [pc |-> "committed", closing |-> closings + 1]
    BY <1>5, <2>2 DEF CloseCommit, TypeOK
  <2>4. \A d \in Closers \ {c} : closer'[d] = closer[d]
    BY <1>5 DEF CloseCommit, TypeOK
  <2>5. \A d \in Closers : <<d, closings + 1>> \notin announced
    BY <1>0 DEF CloserInv
  <2>6. \A d \in Closers : closer'[d].pc = "committed" => closer'[d].closing \in 1 .. closings'
    BY <1>0, <2>2, <2>3, <2>4 DEF CloserInv
  <2>7. \A d, f \in Closers :
           closer'[d].pc = "committed" => <<f, closer'[d].closing>> \notin announced'
    BY <1>0, <2>2, <2>3, <2>4, <2>5 DEF CloserInv
  <2>8. OneCloserPerClosing'
    <3>1. \A d \in Closers \ {c} : closer'[d].pc = "committed" => closer'[d].closing # closings + 1
      BY <1>0, <2>4 DEF CloserInv
    <3>2. \A d, f \in Closers :
             (d # f /\ closer'[d].pc = "committed" /\ closer'[f].pc = "committed")
                => closer'[d].closing # closer'[f].closing
      BY <2>3, <2>4, <3>1 DEF CloserInv, OneCloserPerClosing
    <3>3. \A d, f \in Closers, n \in 1 .. closings' :
             (<<d, n>> \in announced' /\ <<f, n>> \in announced') => d = f
      BY <1>0, <2>2 DEF CloserInv, OneCloserPerClosing
    <3> QED
      BY <3>2, <3>3 DEF OneCloserPerClosing
  <2>9. \A d \in Closers, n \in Nat : <<d, n>> \in announced' => n <= closings'
    BY <1>0, <2>2 DEF CloserInv
  <2> QED
    BY <2>6, <2>7, <2>8, <2>9 DEF CloserInv
<1>6. ASSUME NEW c \in Closers, CloseDispatch(c)
      PROVE  CloserInv'
  <2>1. \A d \in Closers : closer'[d].pc = "committed" => d # c /\ closer'[d] = closer[d]
    BY <1>6 DEF CloseDispatch, TypeOK
  <2>2. closer[c].pc = "committed" /\ closings' = closings
    BY <1>6 DEF CloseDispatch
  <2>3. \A d \in Closers, n \in Nat :
           <<d, n>> \in announced' => <<d, n>> \in announced \/ (d = c /\ n = closer[c].closing)
    BY <1>6 DEF CloseDispatch
  <2>4. /\ \A d \in Closers : <<d, closer[c].closing>> \notin announced
        /\ closer[c].closing \in 1 .. closings
    BY <2>2 DEF CloserInv
  <2>5. \A d \in Closers : closer'[d].pc = "committed" => closer'[d].closing \in 1 .. closings'
    BY <2>1, <2>2 DEF CloserInv
  <2>6. \A d \in Closers, n \in Nat : <<d, n>> \in announced' => n <= closings'
    BY <1>0, <2>2, <2>3, <2>4 DEF CloserInv
  <2>7. \A d, f \in Closers :
           closer'[d].pc = "committed" => <<f, closer'[d].closing>> \notin announced'
    BY <1>0, <2>1, <2>2, <2>3, <2>4 DEF CloserInv, OneCloserPerClosing
  <2>8. OneCloserPerClosing'
    BY <1>0, <2>1, <2>2, <2>3, <2>4 DEF CloserInv, OneCloserPerClosing
  <2> QED
    BY <2>5, <2>6, <2>7, <2>8 DEF CloserInv
<1>7. ASSUME Crash
      PROVE  CloserInv'
  <2>1. \A d \in Closers : closer'[d].pc = "committed" => closer'[d] = closer[d]
    BY <1>7 DEF Crash, CrashEditor, CrashCloser, CrashPurger, TypeOK
  <2>2. closings' = closings /\ announced' = announced
    BY <1>7 DEF Crash
  <2> QED
    BY <1>0, <2>1, <2>2 DEF CloserInv, OneCloserPerClosing
<1>8. ASSUME closings' = closings, closer' = closer, announced' = announced
      PROVE  CloserInv'
  BY <1>0, <1>1, <1>8
<1> QED
  BY <1>2, <1>3, <1>4, <1>5, <1>6, <1>7, <1>8
     DEF Next, OwnerStep, CloserStep, PurgerStep, CreatePoll, EditLoad, EditReject,
         EditFail, DeletePoll, PurgeSelect, PurgeDelete, Tick, vars

\* For any number of threads that run close_due_polls, a closing is owned by one of
\* them and its mails are enqueued by at most one of them.
THEOREM OneCloserPerClosingHolds == Spec => []OneCloserPerClosing
<1>1. Init => CloserInv
  BY DEF Init, CloserInv, OneCloserPerClosing
<1>2. FlowInv /\ CloserInv /\ [Next]_vars => CloserInv'
  BY LifecycleAssumption, CloserStepInv
<1>3. CloserInv => OneCloserPerClosing
  BY DEF CloserInv
<1> QED
  BY <1>1, <1>2, <1>3, FlowCorrect, PTL DEF Spec

\* A step that neither closes the poll nor makes an announcer forget it.
LEMMA StillAnnounced ==
    ASSUME ClosedIsAnnounced,
           poll'.status = "CLOSED" /\ ~lost' => poll.status = "CLOSED" /\ ~lost,
           closings' = closings, announced \subseteq announced',
           \A e \in Editors : edit[e].pc = "committed" => edit'[e] = edit[e],
           \A c \in Closers : closer[c].pc = "committed" => closer'[c] = closer[c]
    PROVE  ClosedIsAnnounced'
BY DEF ClosedIsAnnounced

LEMMA AnnouncedStep ==
    ASSUME LifecycleAssumption, FlowInv, ClosedIsAnnounced, [Next]_vars
    PROVE  ClosedIsAnnounced'
<1> USE LifecycleAssumption DEF FlowInv
<1>1. ASSUME NEW status \in Statuses, NEW endsAt, NEW autoDelete,
             CreatePoll(status, endsAt, autoDelete)
      PROVE  ClosedIsAnnounced'
  BY <1>1 DEF CreatePoll, ClosedIsAnnounced
<1>2. ASSUME NEW status, NEW endsAt, NEW autoDelete, NEW e \in Editors, NEW rewrite,
             EditCommit(e, status, endsAt, autoDelete, rewrite)
      PROVE  ClosedIsAnnounced'
  <2>1. edit'[e] = [pc |-> "committed", loaded |-> [NoRow EXCEPT !.status = edit[e].loaded.status]]
    BY <1>2 DEF EditCommit, TypeOK
  <2>2. edit'[e].pc = "committed" /\ edit'[e].loaded.status = edit[e].loaded.status
    BY <2>1 DEF NoRow
  <2>3. CASE poll'.status = "CLOSED" /\ poll.status # "CLOSED"
    <3>1. edit'[e].loaded.status # "CLOSED"
      BY <1>2, <2>2, <2>3, CommitStatus
    <3> QED
      BY <2>2, <3>1 DEF ClosedIsAnnounced
  <2>4. CASE poll.status = "CLOSED"
    BY <1>2, <2>4, StillAnnounced DEF EditCommit, RecordClosing, TypeOK
  <2>5. CASE poll'.status # "CLOSED"
    BY <2>5 DEF ClosedIsAnnounced
  <2> QED
    BY <2>3, <2>4, <2>5
<1>3. ASSUME NEW e \in Editors, EditLoad(e) \/ EditReject(e)
      PROVE  ClosedIsAnnounced'
  BY <1>3, StillAnnounced DEF EditLoad, EditReject, TypeOK
<1>4. ASSUME NEW e \in Editors, EditFinish(e)
      PROVE  ClosedIsAnnounced'
  <2>1. CASE edit[e].loaded.status # "CLOSED" /\ poll.status = "CLOSED"
    <3>1. <<e, closings'>> \in announced'
      BY <1>4, <2>1 DEF EditFinish
    <3> QED
      BY <3>1 DEF ClosedIsAnnounced
  <2>2. CASE poll.status # "CLOSED"
    BY <1>4, <2>2 DEF EditFinish, ClosedIsAnnounced
  <2>3. CASE edit[e].loaded.status = "CLOSED"
    BY <1>4, <2>3 DEF EditFinish, ClosedIsAnnounced, TypeOK
  <2> QED
    BY <2>1, <2>2, <2>3
<1>5. ASSUME DeletePoll \/ PurgeDelete
      PROVE  ClosedIsAnnounced'
  BY <1>5 DEF DeletePoll, PurgeDelete, ClosedIsAnnounced, TypeOK, Row, Gone
<1>6. ASSUME NEW c \in Closers, CloseSelect(c)
      PROVE  ClosedIsAnnounced'
  BY <1>6, StillAnnounced DEF CloseSelect, TypeOK
<1>7. ASSUME NEW c \in Closers, CloseCommit(c)
      PROVE  ClosedIsAnnounced'
  BY <1>7 DEF CloseCommit, ClosedIsAnnounced, TypeOK
<1>8. ASSUME NEW c \in Closers, CloseDispatch(c)
      PROVE  ClosedIsAnnounced'
  <2>1. CASE poll.status = "CLOSED" /\ closer[c].closing = closings
    <3>1. <<c, closings'>> \in announced'
      BY <1>8, <2>1 DEF CloseDispatch, Stored, Live
    <3> QED
      BY <3>1 DEF ClosedIsAnnounced
  <2>2. CASE poll.status # "CLOSED"
    BY <1>8, <2>2 DEF CloseDispatch, ClosedIsAnnounced
  <2>3. CASE closer[c].closing # closings
    BY <1>8, <2>3 DEF CloseDispatch, ClosedIsAnnounced, TypeOK
  <2> QED
    BY <2>1, <2>2, <2>3
<1>9. ASSUME PurgeSelect \/ Tick
      PROVE  ClosedIsAnnounced'
  BY <1>9 DEF PurgeSelect, Tick, ClosedIsAnnounced
<1>10. ASSUME Crash
       PROVE  ClosedIsAnnounced'
  BY <1>10 DEF Crash, ClosedIsAnnounced, TypeOK
<1>11. CASE UNCHANGED vars
  BY <1>11 DEF ClosedIsAnnounced, vars
<1>12. ASSUME NEW e \in Editors, EditFail(e)
       PROVE  ClosedIsAnnounced'
  BY <1>12 DEF EditFail, ClosedIsAnnounced
<1> QED
  BY <1>1, <1>2, <1>3, <1>4, <1>5, <1>6, <1>7, <1>8, <1>9, <1>10, <1>11, <1>12
     DEF Next, OwnerStep, CloserStep, PurgerStep

\* Unless a process dies, no closing goes unannounced: whoever closed the poll, and
\* whatever the others did in between, somebody enqueues its mails.
THEOREM ClosedIsAnnouncedHolds == Spec => []ClosedIsAnnounced
<1>1. Init => ClosedIsAnnounced
  <2> SUFFICES ASSUME Init PROVE ClosedIsAnnounced
    OBVIOUS
  <2>1. poll.status = Absent
    BY DEF Init, NoRow
  <2> QED
    BY <2>1 DEF ClosedIsAnnounced, Absent
<1>2. FlowInv /\ ClosedIsAnnounced /\ [Next]_vars => ClosedIsAnnounced'
  BY LifecycleAssumption, AnnouncedStep
<1> QED
  BY <1>1, <1>2, FlowCorrect, PTL DEF Spec

-----------------------------------------------------------------------------
(* One request of the owner at a time. *)

\* With a single editor, what it has loaded can be overtaken only by a closing or a
\* deletion, and a poll that is not CLOSED has no time to delete.
SerialInv ==
    /\ \A e \in Editors : edit[e].pc = "loaded" =>
          \/ poll.status = Gone
          \/ edit[e].loaded.status = poll.status
          \/ edit[e].loaded.status = "ACTIVE" /\ poll.status = "CLOSED"
    /\ poll.status \in {Absent, "DRAFT", "ACTIVE"} => poll.deleteAt = NoTime
    /\ \A e \in Editors : edit[e].pc = "loaded" => poll.status # Absent
    /\ purger = "selected" => poll.status # Absent

\* The abstract step that a commit of the single editor takes.
LEMMA SerialCommit ==
    ASSUME LifecycleAssumption, FlowInv, SerialInv,
           NEW e \in Editors, NEW status, NEW endsAt, NEW autoDelete, NEW rewrite,
           EditCommit(e, status, endsAt, autoDelete, rewrite)
    PROVE  /\ poll.status \in Live
           /\ \/ poll'.status = poll.status
              \/ poll.status = "DRAFT" /\ poll'.status = "ACTIVE"
              \/ poll.status = "ACTIVE" /\ poll'.status = "CLOSED"
           /\ poll'.status # "CLOSED" => poll'.deleteAt = NoTime
<1>1. /\ poll.status \in Live /\ poll'.status \in {poll.status, status}
      /\ poll'.status # poll.status =>
            \/ edit[e].loaded.status = "DRAFT" /\ status = "ACTIVE"
            \/ edit[e].loaded.status = "ACTIVE" /\ status = "CLOSED"
  BY CommitStatus DEF FlowInv
<1>2. edit[e].pc = "loaded" /\ poll.status # Gone
  BY <1>1 DEF EditCommit, Live, Gone
<1>3. \/ edit[e].loaded.status = poll.status
      \/ edit[e].loaded.status = "ACTIVE" /\ poll.status = "CLOSED"
  BY <1>2 DEF SerialInv
<1>4. \/ poll'.status = poll.status
      \/ poll.status = "DRAFT" /\ poll'.status = "ACTIVE"
      \/ poll.status = "ACTIVE" /\ poll'.status = "CLOSED"
  BY <1>1, <1>3
<1>5. ASSUME poll'.status # "CLOSED"
      PROVE  poll'.deleteAt = NoTime
  <2>1. poll.status \in {"DRAFT", "ACTIVE"}
    BY <1>1, <1>4, <1>5 DEF Live
  <2>2. poll'.status = WriteBack(poll.status, edit[e].loaded.status, status)
    BY DEF EditCommit
  <2>3. status # "CLOSED"
    BY <1>3, <1>5, <2>1, <2>2 DEF WriteBack
  <2>4. AutoDeleteAt(status, autoDelete) = NoTime
    BY <2>3 DEF AutoDeleteAt
  <2>5. poll'.deleteAt = WriteBack(poll.deleteAt, edit[e].loaded.deleteAt, NoTime)
    BY <2>4 DEF EditCommit
  <2> QED
    BY <2>1, <2>5 DEF WriteBack, SerialInv
<1> QED
  BY <1>1, <1>4, <1>5

LEMMA SerialStep ==
    ASSUME LifecycleAssumption, FlowInv, SerialInv, [Next]_vars,
           \A d, e \in Editors : d = e
    PROVE  /\ SerialInv'
           /\ [Promise!Next]_<<poll.status, poll.deleteAt # NoTime>>
<1> DEFINE Abstract == [Promise!Next]_<<poll.status, poll.deleteAt # NoTime>>
<1> USE LifecycleAssumption DEF FlowInv
<1>1. ASSUME NEW status \in Statuses, NEW endsAt, NEW autoDelete,
             CreatePoll(status, endsAt, autoDelete)
      PROVE  SerialInv' /\ Abstract
  <2>1. /\ poll.status = Absent /\ poll.deleteAt = NoTime
        /\ poll'.status \in {"DRAFT", "ACTIVE"} /\ poll'.deleteAt = NoTime
        /\ edit' = edit /\ purger' = purger
    BY <1>1 DEF CreatePoll, AutoDeleteAt, SerialInv
  <2>2. SerialInv'
    BY <2>1 DEF SerialInv, Absent
  <2>3. Abstract
    BY <2>1 DEF Promise!Next, Promise!Create, Absent
  <2> QED
    BY <2>2, <2>3
<1>2. ASSUME NEW e \in Editors, NEW status, NEW endsAt, NEW autoDelete, NEW rewrite,
             EditCommit(e, status, endsAt, autoDelete, rewrite)
      PROVE  SerialInv' /\ Abstract
  <2>1. \A d \in Editors : edit'[d].pc = "committed"
    BY <1>2 DEF EditCommit, TypeOK
  <2>2. SerialInv'
    BY <1>2, <2>1, SerialCommit DEF SerialInv, Live, Absent
  <2>3. poll.status # "CLOSED" => poll.deleteAt = NoTime
    BY <1>2, SerialCommit DEF SerialInv, Live
  <2>4. Abstract
    BY <1>2, <2>3, SerialCommit
       DEF Live, Promise!Next, Promise!Activate, Promise!Close, Promise!Rearm
  <2> QED
    BY <2>2, <2>4
<1>3. ASSUME NEW e \in Editors, EditLoad(e)
      PROVE  SerialInv' /\ Abstract
  <2>1. poll' = poll /\ purger' = purger /\ poll.status # Absent
    BY <1>3 DEF EditLoad, Stored, Live, Absent
  <2>2. \A d \in Editors : edit'[d].loaded = poll \/ edit'[d] = edit[d]
    BY <1>3 DEF EditLoad, TypeOK
  <2> QED
    BY <2>1, <2>2 DEF SerialInv
<1>4. ASSUME DeletePoll \/ PurgeDelete
      PROVE  SerialInv' /\ Abstract
  <2>1. /\ poll'.status = Gone /\ poll'.deleteAt = poll.deleteAt /\ edit' = edit
        /\ purger' \in {purger, "idle"}
    BY <1>4 DEF DeletePoll, PurgeDelete, TypeOK, Row
  <2>2. SerialInv'
    BY <2>1 DEF SerialInv, Gone, Absent
  <2>3. poll.status \in Live \cup {Gone}
    BY <1>4 DEF TypeOK, Row, DeletePoll, PurgeDelete, Stored, SerialInv
  <2> QED
    BY <2>1, <2>2, <2>3 DEF Live, Gone, Promise!Next, Promise!Delete
<1>5. ASSUME NEW c \in Closers, CloseCommit(c)
      PROVE  SerialInv' /\ Abstract
  <2>1. /\ poll.status = "ACTIVE" /\ poll'.status = "CLOSED"
        /\ edit' = edit /\ purger' = purger
    BY <1>5 DEF CloseCommit, LockInv, TypeOK, Row
  <2>2. SerialInv'
    BY <2>1 DEF SerialInv, Absent, Gone
  <2>3. Abstract
    BY <2>1 DEF Promise!Next, Promise!Close
  <2> QED
    BY <2>2, <2>3
<1>6. ASSUME poll' = poll, purger' = "selected" => poll.status # Absent,
             \A e \in Editors : edit'[e].pc = "loaded" => edit'[e] = edit[e]
      PROVE  SerialInv' /\ Abstract
  BY <1>6 DEF SerialInv
<1>7. ASSUME Crash
      PROVE  SerialInv' /\ Abstract
  <2>1. /\ \A e \in Editors : edit'[e].pc = "loaded" => edit'[e] = edit[e]
        /\ purger' = "selected" => purger = "selected"
    BY <1>7 DEF Crash, CrashEditor, CrashCloser, CrashPurger, TypeOK
  <2> QED
    BY <1>6, <1>7, <2>1 DEF Crash, SerialInv
<1>8. ASSUME NEW e \in Editors, EditReject(e) \/ EditFinish(e) \/ EditFail(e)
      PROVE  SerialInv' /\ Abstract
  <2>1. /\ \A d \in Editors : edit'[d].pc = "loaded" => edit'[d] = edit[d]
        /\ purger' = purger /\ poll' = poll
    BY <1>8 DEF EditReject, EditFinish, EditFail, TypeOK
  <2> QED
    BY <1>6, <2>1 DEF SerialInv
<1>9. ASSUME PurgeSelect
      PROVE  SerialInv' /\ Abstract
  BY <1>6, <1>9 DEF PurgeSelect, Expired, Stored, Live, Absent
<1>10. ASSUME poll' = poll, edit' = edit, purger' = purger
       PROVE  SerialInv' /\ Abstract
  BY <1>6, <1>10 DEF SerialInv
<1> QED
  BY <1>1, <1>2, <1>3, <1>4, <1>5, <1>7, <1>8, <1>9, <1>10
     DEF Next, OwnerStep, CloserStep, PurgerStep, CloseSelect, CloseDispatch,
         Tick, vars

\* If the owner never has two requests in flight at once, the row implements the
\* forward-only lifecycle, whatever the periodic tasks and the crashes do.
THEOREM SerialImplementsPromise ==
    ASSUME \A d, e \in Editors : d = e
    PROVE  Spec => ImplementsPromise
<1>1. Init => Promise!Init /\ SerialInv
  <2> SUFFICES ASSUME Init PROVE Promise!Init /\ SerialInv
    OBVIOUS
  <2>1. poll.status = Absent /\ poll.deleteAt = NoTime
    BY DEF Init, NoRow
  <2>2. \A e \in Editors : edit[e].pc = "idle"
    BY DEF Init
  <2> QED
    BY <2>1, <2>2 DEF Init, SerialInv, Promise!Init, Absent
<1>2. FlowInv /\ SerialInv /\ [Next]_vars =>
         /\ SerialInv'
         /\ [Promise!Next]_<<poll.status, poll.deleteAt # NoTime>>
  BY LifecycleAssumption, SerialStep
<1> QED
  BY <1>1, <1>2, FlowCorrect, PTL DEF Spec, ImplementsPromise, Promise!Spec
=============================================================================
