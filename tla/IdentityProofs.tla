--------------------------- MODULE IdentityProofs ---------------------------
(***************************************************************************)
(* Theorems about Identity, for any persons, requests and changes of the    *)
(* group.  FlagFollowsGroup is kept by SyncInv, which says what a sync      *)
(* under way still has to do; SomeoneLeft by ChargeInv, which says that an  *)
(* administrator about to demote another stays in charge himself;           *)
(* MembersAsAsked by ClearedInv and what Collapse makes of a PATCH.          *)
(***************************************************************************)
EXTENDS Identity, WellFoundedInduction, TLAPS

-----------------------------------------------------------------------------
(* The invariant. *)

Wants == [on : SUBSET Columns, off : SUBSET Columns]

Committing == [pc |-> "committed"]
Checked == [pc : {"checked"}, by : Persons, who : Persons, want : Wants]
Loaded == [pc : {"loaded"}, by : Persons \cup {"cli", "scim"}, who : Persons, want : Wants,
           seen : SUBSET Columns]
Missed == [pc : {"missed"}, who : Persons, active : BOOLEAN]
Login == [pc : {"met", "upserted", "claiming"}, who : Persons, claim : BOOLEAN]
Change == [pc : Writing, ops : Changes, id : Nat, name : Names, cleared : SUBSET Persons,
           alone : BOOLEAN]
Sync == [pc : {"found"}, id : Nat \cup {-1}, grant : {{}}, revoke : {{}}, alone : BOOLEAN]
        \cup [pc : {"granted"}, id : Nat \cup {-1}, grant : SUBSET Persons, revoke : {{}},
              alone : BOOLEAN]
        \cup [pc : {"revoked"}, id : Nat \cup {-1}, grant : SUBSET Persons,
              revoke : SUBSET Persons, alone : BOOLEAN]

Request == {Unused, Done, Committing}
           \cup Checked \cup Loaded \cup Missed \cup Login \cup Change \cup Sync

\* With what a request holds, of which TypeOK says nothing.
TypeInv ==
    /\ TypeOK
    /\ group \in [id : Nat, name : Names \cup {"absent"}]
    /\ req \in [Requests -> Request]

\* Nobody deletes a row that a sync has written.
LockInv == \A r \in Requests : LockedBy(r) \subseteq rows

\* What the group says of a sync that has found it, granted and revoked: whoever lacks
\* the flag is granted it, whoever has it in vain loses it, and nobody else is touched.
TargetId == IF group.name = "target" THEN group.id ELSE -1

Consistent(q) ==
    /\ q.id = TargetId
    /\ q.pc \in {"granted", "revoked"} => Target \ Supers \subseteq q.grant /\ q.grant \subseteq Target
    /\ q.pc = "revoked" => Supers \ Target \subseteq q.revoke /\ q.revoke \cap Target = {}

\* Every change of the group that was committed has begun its sync, and there is nothing
\* to excuse.
Settled == excuses = {} /\ \A r \in Requests : ~At(r, {"committed"})

\* A sync nobody interfered with is about to set the flags right, and so is the only one
\* there is when there is nothing to excuse; without any they are.
SyncInv ==
    configured =>
        /\ \A r \in Requests : At(r, Syncing) /\ req[r].alone => Consistent(req[r])
        /\ Settled =>
              /\ \A r \in Requests : At(r, Syncing) => Consistent(req[r]) /\ OtherSyncs(r) = {}
              /\ (\A r \in Requests : ~At(r, Syncing)) => Supers = Target

Demoting(r) == At(r, {"checked", "loaded"}) /\ req[r].by \in Persons /\ Demotion(req[r].want)

\* Nobody demotes himself, and whoever demotes another is still in charge when he does.
ChargeInv ==
    ~configured =>
        /\ \A r \in Requests : ~At(r, {"claiming"} \cup Syncing)
        /\ excuses \cap {"cli", "scim", "crossed"} = {} =>
              /\ InCharge # {}
              /\ \A r \in Requests : Demoting(r) => req[r].by \in InCharge \ {req[r].who}

-----------------------------------------------------------------------------
(* The operations of a PATCH. *)

\* There is a least number in every set of them.
LEMMA MinExists ==
    ASSUME NEW S \in SUBSET Nat, S # {}
    PROVE  \E z \in S : \A y \in S : z <= y
<1>1. PICK x \in S : \A y \in S : ~(<<y, x>> \in OpToRel(<, Nat))
  BY NatLessThanWellFounded, WFMin
<1>2. \A y \in S : <<y, x>> \in Nat \X Nat
  OBVIOUS
<1>3. \A y \in S : <<y, x>>[1] = y /\ <<y, x>>[2] = x
  OBVIOUS
<1>4. \A y \in S : ~(y < x)
  BY Zenon, <1>1, <1>2, <1>3 DEF OpToRel
<1>5. QED
  BY <1>4

\* And a greatest number in every set of them that has a bound: its least bound.
LEMMA MaxIs ==
    ASSUME NEW S \in SUBSET Nat, S # {}, NEW n \in Nat, \A y \in S : y <= n
    PROVE  Max(S) \in S
<1> DEFINE bounds == {k \in Nat : \A y \in S : y <= k}
<1>1. PICK m \in bounds : \A k \in bounds : m <= k
  <2>1. n \in bounds
    OBVIOUS
  <2>2. bounds # {} /\ bounds \in SUBSET Nat
    BY <2>1
  <2> HIDE DEF bounds
  <2>3. QED
    BY <2>2, MinExists
<1>2. m \in S
  <2>1. SUFFICES ASSUME m \notin S PROVE FALSE
    OBVIOUS
  <2>2. PICK y \in S : TRUE
    OBVIOUS
  <2>3. y <= m /\ y # m /\ y \in Nat /\ m \in Nat
    BY <1>1, <2>1
  <2>4. m - 1 \in bounds
    BY <1>1, <2>1, <2>3
  <2>5. QED
    BY <1>1, <2>3, <2>4
<1>3. \E x \in S : \A y \in S : x >= y
  BY <1>1, <1>2
<1>4. QED
  BY <1>3, Zenon DEF Max

\* The last operation of a kind is one of them.
LEMMA LastOfIs ==
    ASSUME NEW ops \in Changes, NEW kind, Has(ops, kind)
    PROVE  LastOf(ops, kind) \in Operation /\ LastOf(ops, kind).op = kind
<1>1. ops \in Seq(Operation)
  BY IdentityAssumption DEF IdentityAssumption
<1>2. Len(ops) \in Nat /\ DOMAIN ops = 1 .. Len(ops)
  BY <1>1
<1>3. Of(ops, kind) \in SUBSET Nat /\ Of(ops, kind) # {} /\ \A y \in Of(ops, kind) : y <= Len(ops)
  BY <1>2 DEF Of, Has
<1>4. Max(Of(ops, kind)) \in Of(ops, kind)
  BY <1>2, <1>3, MaxIs
<1>5. QED
  BY <1>1, <1>2, <1>4 DEF LastOf, Of

\* What a change asks for: at most one name.
LEMMA CollapseType ==
    ASSUME NEW ops \in Changes
    PROVE  /\ Collapse(ops).names \subseteq Names
           /\ DOMAIN Collapse(ops) = {"names", "replaces", "add", "remove"}
<1>1. ASSUME Has(ops, "rename") PROVE LastOf(ops, "rename").name \in Names
  BY <1>1, LastOfIs DEF Operation
<1>2. Collapse(ops).names = IF Has(ops, "rename") THEN {LastOf(ops, "rename").name} ELSE {}
  BY DEF Collapse
<1>3. QED
  BY <1>1, <1>2 DEF Collapse

-----------------------------------------------------------------------------
(* The requests. *)

LEMMA KindOf ==
    ASSUME NEW q \in Request
    PROVE  /\ q.pc = "checked" => q \in Checked
           /\ q.pc = "loaded" => q \in Loaded
           /\ q.pc = "missed" => q \in Missed
           /\ q.pc \in {"met", "upserted", "claiming"} => q \in Login
           /\ q.pc \in Writing => q \in Change
           /\ q.pc \in Syncing => q \in Sync
<1>1. CASE q \in {Unused, Done, Committing}
  BY <1>1 DEF Unused, Done, Committing, Writing, Syncing
<1>2. CASE q \in Checked
  BY <1>2 DEF Checked, Writing, Syncing
<1>3. CASE q \in Loaded
  BY <1>3 DEF Loaded, Writing, Syncing
<1>4. CASE q \in Missed
  BY <1>4 DEF Missed, Writing, Syncing
<1>5. CASE q \in Login
  BY <1>5 DEF Login, Writing, Syncing
<1>6. CASE q \in Change
  BY <1>6 DEF Change, Writing, Syncing
<1>7. CASE q \in Sync
  BY <1>7 DEF Sync, Writing, Syncing
<1>8. QED
  BY <1>1, <1>2, <1>3, <1>4, <1>5, <1>6, <1>7 DEF Request

\* What the program may ask of a user's columns.
LEMMA WantsType ==
    AdminWants \cup {Delete} \cup CliWants \cup ScimWants \subseteq Wants
BY DEF AdminWants, Delete, CliWants, ScimWants, Wants, Want, Columns

\* r is at x when its transaction ends.
EndsAs(r, x) == req' = Disturb([req EXCEPT ![r] = x], r)

\* What ends a transaction touches no other request, but for alone.
LEMMA DisturbIs ==
    ASSUME req \in [Requests -> Request], NEW r \in Requests, NEW x \in Request, EndsAs(r, x)
    PROVE  /\ req' \in [Requests -> Request]
           /\ req'[r] = x
           /\ \A q \in Requests \ {r} : /\ ~At(q, Writing \cup Syncing) => req'[q] = req[q]
                                        /\ At(q, Writing \cup Syncing) => req'[q] = [req[q] EXCEPT !.alone = FALSE]
<1>1. DOMAIN req' = Requests /\ req'[r] = x
  BY DEF EndsAs, Disturb
<1>2. \A q \in Requests \ {r} : /\ ~At(q, Writing \cup Syncing) => req'[q] = req[q]
                                /\ At(q, Writing \cup Syncing) => req'[q] = [req[q] EXCEPT !.alone = FALSE]
  BY DEF EndsAs, Disturb
<1>3. ASSUME NEW q \in Requests \ {r} PROVE req'[q] \in Request
  <2>1. CASE ~At(q, Writing \cup Syncing)
    BY <1>2, <2>1
  <2>2. CASE At(q, Writing)
    <3>1. req[q] \in Change
      BY <2>2, KindOf DEF At
    <3>2. req'[q] = [req[q] EXCEPT !.alone = FALSE]
      BY <1>2, <2>2 DEF At
    <3>3. req'[q] \in Change
      BY <3>1, <3>2 DEF Change
    <3>4. QED
      BY <3>3 DEF Request
  <2>3. CASE At(q, Syncing)
    <3>1. req[q] \in Sync
      BY <2>3, KindOf DEF At
    <3>2. req'[q] = [req[q] EXCEPT !.alone = FALSE]
      BY <1>2, <2>3 DEF At
    <3>3. req'[q] \in Sync
      BY <3>1, <3>2 DEF Sync
    <3>4. QED
      BY <3>3 DEF Request
  <2>4. QED
    BY <2>1, <2>2, <2>3 DEF At
<1>4. QED
  <2>1. \A q \in Requests : req'[q] \in Request
    BY <1>1, <1>3
  <2>2. req' = [q \in Requests |-> req'[q]]
    BY DEF EndsAs, Disturb
  <2>3. QED
    BY <1>1, <1>2, <2>1, <2>2

-----------------------------------------------------------------------------
(* Types. *)

LEMMA InitType == Init => TypeInv
<1>1. SUFFICES ASSUME Init PROVE TypeInv
  OBVIOUS
<1>2. req \in [Requests -> Request]
  BY <1>1 DEF Init, Request
<1>3. group \in [id : Nat, name : Names \cup {"absent"}]
  BY <1>1 DEF Init, Names
<1>4. PICK s \in SUBSET rows :
         cols = [p \in Persons |-> {c \in Columns : p \in rows /\ (c = "is_superuser" => p \in s)}]
  BY <1>1 DEF Init
<1>5. cols \in [Persons -> SUBSET Columns] /\ \A p \in Persons : cols[p] # {} => p \in rows
  BY <1>4
<1>6. group.name = "absent" => members = {}
  BY <1>1 DEF Init, Names
<1>7. QED
  BY <1>1, <1>2, <1>3, <1>5, <1>6 DEF Init, TypeInv, TypeOK

\* A request that only reads.
LEMMA ReadType ==
    ASSUME TypeInv, NEW r \in Requests, NEW x \in Request, req' = [req EXCEPT ![r] = x],
           UNCHANGED <<configured, users, groups>>,
           excuses' \subseteq excuses \cup {"two syncs", "no sync"}
    PROVE  TypeInv'
<1>1. /\ configured' = configured /\ rows' = rows /\ gone' = gone /\ cols' = cols
      /\ group' = group /\ members' = members
  BY DEF users, groups
<1>2. req' \in [Requests -> Request]
  BY DEF TypeInv
<1>3. QED
  BY <1>1, <1>2 DEF TypeInv, TypeOK

\* What the columns may become.
LEMMA ColsType ==
    ASSUME TypeInv, cols' \in [Persons -> SUBSET Columns], rows' \subseteq Persons,
           gone' \subseteq Persons \ rows', \A p \in Persons : cols'[p] # {} => p \in rows',
           req' \in [Requests -> Request], UNCHANGED <<configured, group>>,
           members' \subseteq members \cap rows',
           excuses' \subseteq {"by hand", "cli", "scim", "crossed", "claim", "two syncs", "no sync"}
    PROVE  TypeInv'
BY DEF TypeInv, TypeOK

LEMMA ReadStepType ==
    ASSUME TypeInv, NEW r \in Requests
    PROVE  /\ \A p, by \in Persons, w \in AdminWants \cup {Delete} : AdminCheck(r, by, p, w) => TypeInv'
           /\ AdminLoad(r) => TypeInv'
           /\ \A p \in Persons : \A w \in CliWants : Load(r, "cli", p, w) => TypeInv'
           /\ \A p \in Persons : \A w \in ScimWants : Load(r, "scim", p, w) => TypeInv'
           /\ \A p \in Persons, b \in BOOLEAN : ScimMiss(r, p, b) \/ LoginRead(r, p, b) => TypeInv'
           /\ ClaimLoad(r) => TypeInv'
<1> Done \in Request
  BY DEF Request
<1> cols \in [Persons -> SUBSET Columns]
  BY DEF TypeInv, TypeOK
<1>1. ASSUME NEW p \in Persons, NEW by \in Persons, NEW w \in AdminWants \cup {Delete},
             AdminCheck(r, by, p, w)
      PROVE  TypeInv'
  <2>1. [pc |-> "checked", by |-> by, who |-> p, want |-> w] \in Request
    BY WantsType DEF Request, Checked
  <2>2. QED
    BY <1>1, <2>1, ReadType DEF AdminCheck
<1>2. ASSUME AdminLoad(r) PROVE TypeInv'
  <2>1. CASE req[r].who \in rows
    <3> DEFINE x == [pc |-> "loaded", by |-> req[r].by, who |-> req[r].who,
                     want |-> req[r].want, seen |-> cols[req[r].who]]
    <3>1. req[r] \in Checked
      BY <1>2, KindOf DEF AdminLoad, At, TypeInv
    <3>2. x \in Request
      BY <3>1 DEF Checked, Loaded, Request
    <3>3. req' = [req EXCEPT ![r] = x] /\ UNCHANGED <<configured, users, groups, excuses>>
      BY <1>2, <2>1 DEF AdminLoad
    <3> HIDE DEF x
    <3>4. QED
      BY <3>2, <3>3, ReadType
  <2>2. CASE req[r].who \notin rows
    BY <1>2, <2>2, ReadType DEF AdminLoad, End
  <2>3. QED
    BY <2>1, <2>2
<1>3. ASSUME NEW by \in {"cli", "scim"}, NEW p \in Persons, NEW w \in CliWants \cup ScimWants,
             Load(r, by, p, w)
      PROVE  TypeInv'
  <2>1. [pc |-> "loaded", by |-> by, who |-> p, want |-> w, seen |-> cols[p]] \in Request
    BY WantsType DEF Request, Loaded
  <2>2. QED
    BY <1>3, <2>1, ReadType DEF Load
<1>4. ASSUME NEW p \in Persons, NEW b \in BOOLEAN, ScimMiss(r, p, b) PROVE TypeInv'
  <2>1. [pc |-> "missed", who |-> p, active |-> b] \in Request
    BY DEF Request, Missed
  <2>2. QED
    BY <1>4, <2>1, ReadType DEF ScimMiss
<1>5. ASSUME NEW p \in Persons, NEW b \in BOOLEAN, LoginRead(r, p, b) PROVE TypeInv'
  <2>1. [pc |-> "met", who |-> p, claim |-> b] \in Request
    BY DEF Request, Login
  <2>2. QED
    BY <1>5, <2>1, ReadType DEF LoginRead
<1>6. ASSUME ClaimLoad(r) PROVE TypeInv'
  <2>1. req[r] \in Login
    BY <1>6, KindOf DEF ClaimLoad, At, TypeInv
  <2>2. [req[r] EXCEPT !.pc = "claiming"] \in Request
    BY <2>1 DEF Login, Request
  <2>3. \/ req' = [req EXCEPT ![r] = [req[r] EXCEPT !.pc = "claiming"]]
        \/ req' = [req EXCEPT ![r] = Done]
    BY <1>6 DEF ClaimLoad, End
  <2>4. UNCHANGED <<configured, users, groups, excuses>>
    BY <1>6 DEF ClaimLoad
  <2>5. QED
    BY <2>2, <2>3, <2>4, ReadType
<1>7. QED
  BY <1>1, <1>2, <1>3, <1>4, <1>5, <1>6

\* What a request may be blamed for.
LEMMA BlameType ==
    ASSUME TypeInv, NEW r \in Requests, req[r] \in Loaded \cup Checked
    PROVE  Blame(r) \subseteq {"by hand", "cli", "scim", "crossed"}
BY DEF Blame, Loaded, Checked

LEMMA WriteType ==
    ASSUME TypeInv, NEW r \in Requests
    PROVE  /\ Commit(r) => TypeInv'
           /\ AdminDelete(r) => TypeInv'
           /\ ScimInsert(r) => TypeInv'
           /\ LoginUpsert(r) => TypeInv'
           /\ ClaimCommit(r) => TypeInv'
<1> Done \in Request
  BY DEF Request
<1>a. cols \in [Persons -> SUBSET Columns] /\ req \in [Requests -> Request]
  BY DEF TypeInv, TypeOK
<1>b. rows \subseteq Persons /\ gone \subseteq Persons \ rows /\ members \subseteq rows
      /\ \A p \in Persons : cols[p] # {} => p \in rows
  BY DEF TypeInv, TypeOK
<1>c. excuses \subseteq {"by hand", "cli", "scim", "crossed", "claim", "two syncs", "no sync"}
  BY DEF TypeInv, TypeOK
<1>1. ASSUME Commit(r) PROVE TypeInv'
  <2>1. req[r] \in Loaded
    BY <1>1, <1>a, KindOf DEF Commit, At
  <2>2. req[r].who \in rows /\ cols' = [cols EXCEPT ![req[r].who] = WriteBack(@, req[r])]
    BY <1>1 DEF Commit
  <2>3. req[r].who \in Persons /\ WriteBack(cols[req[r].who], req[r]) \in SUBSET Columns
    BY <1>a, <2>1 DEF WriteBack, Loaded, Wants
  <2>4. cols' \in [Persons -> SUBSET Columns] /\ \A p \in Persons : cols'[p] # {} => p \in rows
    BY <1>a, <1>b, <2>2, <2>3
  <2>5. req' \in [Requests -> Request]
    BY <1>1, <1>a, DisturbIs DEF Commit, EndsAs
  <2>6. UNCHANGED <<configured, rows, gone, group, members>>
    BY <1>1 DEF Commit, groups
  <2>7. excuses' \subseteq {"by hand", "cli", "scim", "crossed", "claim", "two syncs", "no sync"}
    BY <1>1, <1>c, <2>1, BlameType DEF Commit
  <2>8. QED
    BY <1>b, <2>4, <2>5, <2>6, <2>7, ColsType
<1>2. ASSUME AdminDelete(r) PROVE TypeInv'
  <2>1. req[r] \in Checked
    BY <1>2, <1>a, KindOf DEF AdminDelete, At
  <2> DEFINE p == req[r].who
  <2>2. /\ p \in rows /\ rows' = rows \ {p} /\ gone' = gone \cup {p}
        /\ cols' = [cols EXCEPT ![p] = {}] /\ members' = members \ {p}
        /\ req' = [req EXCEPT ![r] = Done] /\ UNCHANGED <<configured, group>>
    BY <1>2 DEF AdminDelete, End
  <2>3. excuses' \subseteq {"by hand", "cli", "scim", "crossed", "claim", "two syncs", "no sync"}
    BY <1>2, <1>c, <2>1, BlameType DEF AdminDelete
  <2> HIDE DEF p
  <2>4. cols' \in [Persons -> SUBSET Columns] /\ \A x \in Persons : cols'[x] # {} => x \in rows'
    BY <1>a, <1>b, <2>2
  <2>5. gone' \subseteq Persons \ rows' /\ rows' \subseteq Persons /\ members' \subseteq members \cap rows'
    BY <1>b, <2>2
  <2>6. req' \in [Requests -> Request]
    BY <1>a, <2>2
  <2>7. QED
    BY <2>2, <2>3, <2>4, <2>5, <2>6, ColsType
<1>3. ASSUME NEW p \in Persons, p \notin rows \cup gone, NEW c \in SUBSET Columns, Insert(p, c),
             NEW x \in Request, req' = [req EXCEPT ![r] = x],
             UNCHANGED <<configured, group, members, gone, excuses>>
      PROVE  TypeInv'
  <2>1. rows' = rows \cup {p} /\ cols' = [cols EXCEPT ![p] = c]
    BY <1>3 DEF Insert
  <2>2. cols' \in [Persons -> SUBSET Columns] /\ \A y \in Persons : cols'[y] # {} => y \in rows'
    BY <1>a, <1>b, <2>1
  <2>3. QED
    BY <1>3, <1>a, <1>b, <1>c, <2>1, <2>2, ColsType
<1>4. ASSUME ScimInsert(r) PROVE TypeInv'
  <2>1. req[r] \in Missed
    BY <1>4, <1>a, KindOf DEF ScimInsert, At
  <2>2. CASE req[r].who \in rows \cup gone
    BY <1>4, <2>2, ReadType DEF ScimInsert, End
  <2>3. CASE req[r].who \notin rows \cup gone
    <3> DEFINE c == IF req[r].active THEN {"is_active"} ELSE {}
    <3>1. req[r].who \in Persons /\ c \in SUBSET Columns
      BY <2>1 DEF Missed, Columns
    <3>2. Insert(req[r].who, c) /\ UNCHANGED <<configured, group, members, gone, excuses>>
          /\ req' = [req EXCEPT ![r] = Done]
      BY <1>4, <2>3 DEF ScimInsert, End, groups
    <3>3. QED
      BY <1>3, <2>3, <3>1, <3>2
  <2>4. QED
    BY <2>2, <2>3
<1>5. ASSUME LoginUpsert(r) PROVE TypeInv'
  <2>1. req[r] \in Login
    BY <1>5, <1>a, KindOf DEF LoginUpsert, At
  <2> DEFINE x == [req[r] EXCEPT !.pc = "upserted"]
  <2>2. x \in Request /\ req' = [req EXCEPT ![r] = x] /\ req[r].who \in Persons
    BY <1>5, <2>1 DEF LoginUpsert, Login, Request
  <2>3. UNCHANGED <<configured, group, members, gone, excuses>>
    BY <1>5 DEF LoginUpsert, groups, users
  <2> HIDE DEF x
  <2>4. CASE req[r].who \in rows
    BY <1>5, <2>2, <2>4, ReadType DEF LoginUpsert
  <2>5. CASE req[r].who \notin rows
    <3>1. Insert(req[r].who, {"is_active"}) /\ req[r].who \notin gone
      BY <1>5, <2>5 DEF LoginUpsert
    <3>2. {"is_active"} \in SUBSET Columns
      BY DEF Columns
    <3>3. QED
      BY <1>3, <2>2, <2>3, <2>5, <3>1, <3>2
  <2>6. QED
    BY <2>4, <2>5
<1>6. ASSUME ClaimCommit(r) PROVE TypeInv'
  <2>1. req[r] \in Login
    BY <1>6, <1>a, KindOf DEF ClaimCommit, At
  <2>2. /\ req[r].who \in rows
        /\ cols' = [cols EXCEPT ![req[r].who] = IF req[r].claim THEN @ \cup {"is_superuser"}
                                                ELSE @ \ {"is_superuser"}]
    BY <1>6 DEF ClaimCommit
  <2>3. cols' \in [Persons -> SUBSET Columns] /\ \A p \in Persons : cols'[p] # {} => p \in rows
    BY <1>a, <1>b, <2>2 DEF Columns
  <2>4. req' \in [Requests -> Request]
    BY <1>6, <1>a, DisturbIs DEF ClaimCommit, EndsAs
  <2>5. UNCHANGED <<configured, rows, gone, group, members>>
    BY <1>6 DEF ClaimCommit, groups
  <2>6. excuses' \subseteq {"by hand", "cli", "scim", "crossed", "claim", "two syncs", "no sync"}
    BY <1>6, <1>c DEF ClaimCommit
  <2>7. QED
    BY <1>b, <2>3, <2>4, <2>5, <2>6, ColsType
<1>7. QED
  BY <1>1, <1>2, <1>4, <1>5, <1>6

\* The name a change gives the group.
LEMMA RenameType ==
    ASSUME NEW q \in Change, Renames(q)
    PROVE  (CHOOSE n \in Collapse(q.ops).names : TRUE) \in Names
<1>1. q.ops \in Changes
  BY DEF Change
<1>2. Collapse(q.ops).names \subseteq Names
  BY <1>1, CollapseType
<1>3. PICK n \in Collapse(q.ops).names : TRUE
  BY DEF Renames
<1>4. QED
  BY <1>2, <1>3

\* A commit that changes the group, with the memberships there may be then.
LEMMA GroupType ==
    ASSUME TypeInv, NEW r \in Requests, req' = Disturb(Committed(r), r),
           UNCHANGED <<configured, users, excuses>>,
           group' \in [id : Nat, name : Names \cup {"absent"}],
           members' \subseteq rows, group'.name = "absent" => members' = {}
    PROVE  TypeInv'
<1>1. Committing \in Request /\ EndsAs(r, Committing)
  BY DEF Request, Committed, Committing, EndsAs
<1>2. req' \in [Requests -> Request]
  BY <1>1, DisturbIs DEF TypeInv
<1>3. QED
  BY <1>2 DEF TypeInv, TypeOK, users

LEMMA GroupStepType ==
    ASSUME TypeInv, NEW r \in Requests
    PROVE  /\ \A ops \in Changes : GroupOpen(r, ops) => TypeInv'
           /\ GroupReplace(r) => TypeInv'
           /\ GroupCommit(r) => TypeInv'
           /\ GroupDelete(r) => TypeInv'
           /\ \A n \in Names, ps \in SUBSET Persons : GroupCreate(r, n, ps) => TypeInv'
<1>a. group \in [id : Nat, name : Names \cup {"absent"}] /\ req \in [Requests -> Request]
  BY DEF TypeInv
<1>b. members \subseteq rows /\ rows \subseteq Persons
  BY DEF TypeInv, TypeOK
<1>1. ASSUME NEW ops \in Changes, GroupOpen(r, ops) PROVE TypeInv'
  <2> DEFINE x == [pc |-> "opened", ops |-> ops, id |-> group.id,
                   name |-> group.name, cleared |-> {}, alone |-> TRUE]
  <2>1. group.id \in Nat /\ group.name \in Names
    BY <1>1, <1>a DEF GroupOpen
  <2>2. x \in Request
    BY <2>1 DEF Request, Change, Writing
  <2>3. req' = [req EXCEPT ![r] = x] /\ UNCHANGED <<configured, users, groups, excuses>>
    BY <1>1 DEF GroupOpen
  <2> HIDE DEF x
  <2>4. QED
    BY <2>2, <2>3, ReadType
<1>2. ASSUME GroupReplace(r) PROVE TypeInv'
  <2>1. req[r] \in Change
    BY <1>2, <1>a, KindOf DEF GroupReplace, At, Writing
  <2>2. PICK cleared \in SUBSET Persons :
             req' = [req EXCEPT ![r].pc = "replaced", ![r].cleared = cleared]
    <3> DEFINE cleared == IF Collapse(req[r].ops).replaces THEN members ELSE {}
    <3>1. req' = [req EXCEPT ![r].pc = "replaced", ![r].cleared = cleared]
      BY <1>2 DEF GroupReplace
    <3>2. cleared \in SUBSET Persons
      BY <1>b
    <3> HIDE DEF cleared
    <3>3. QED
      BY <3>1, <3>2
  <2> DEFINE x == [req[r] EXCEPT !.pc = "replaced", !.cleared = cleared]
  <2>3. x \in Change
    BY <2>1 DEF Change, Writing
  <2>4. req' = [req EXCEPT ![r] = x]
    BY <1>a, <2>2
  <2>5. x \in Request /\ UNCHANGED <<configured, users, groups, excuses>>
    BY <1>2, <2>3 DEF Request, GroupReplace
  <2> HIDE DEF x
  <2>6. QED
    BY <2>4, <2>5, ReadType
<1>3. ASSUME GroupCommit(r) PROVE TypeInv'
  <2>1. req[r] \in Change
    BY <1>3, <1>a, KindOf DEF GroupCommit, At, Writing
  <2>2. members' \subseteq rows
    BY <1>3, <1>b DEF GroupCommit, Valid
  <2>3. group'.name # "absent" /\ group' \in [id : Nat, name : Names \cup {"absent"}]
    <3>1. CASE Renames(req[r])
      <4> DEFINE n == CHOOSE n \in Collapse(req[r].ops).names : TRUE
      <4>1. n \in Names
        BY <2>1, <3>1, RenameType
      <4>2. group' = [group EXCEPT !.name = n]
        BY <1>3, <3>1 DEF GroupCommit
      <4> HIDE DEF n
      <4>3. QED
        BY <1>a, <4>1, <4>2 DEF Names
    <3>2. CASE ~Renames(req[r])
      BY <1>3, <1>a, <3>2 DEF GroupCommit
    <3>3. QED
      BY <3>1, <3>2
  <2>4. req' = Disturb(Committed(r), r) /\ UNCHANGED <<configured, users, excuses>>
    BY <1>3 DEF GroupCommit
  <2>5. QED
    BY <2>2, <2>3, <2>4, GroupType
<1>4. ASSUME GroupDelete(r) PROVE TypeInv'
  <2>1. group' = [group EXCEPT !.name = "absent"] /\ members' = {}
    BY <1>4 DEF GroupDelete
  <2>2. group' \in [id : Nat, name : Names \cup {"absent"}]
    BY <1>a, <2>1
  <2>3. QED
    BY <1>4, <2>1, <2>2, GroupType DEF GroupDelete
<1>5. ASSUME NEW n \in Names, NEW ps \in SUBSET Persons, GroupCreate(r, n, ps) PROVE TypeInv'
  <2>1. group' = [id |-> group.id + 1, name |-> n] /\ members' = Valid(ps)
    BY <1>5 DEF GroupCreate
  <2>2. group' \in [id : Nat, name : Names \cup {"absent"}] /\ group'.name # "absent"
    BY <1>a, <2>1 DEF Names
  <2>3. members' \subseteq rows
    BY <2>1 DEF Valid
  <2>4. QED
    BY <1>5, <2>2, <2>3, GroupType DEF GroupCreate
<1>6. QED
  BY <1>1, <1>2, <1>3, <1>4, <1>5

LEMMA SyncStepType ==
    ASSUME TypeInv, LockInv, NEW r \in Requests
    PROVE  /\ SyncFind(r) => TypeInv'
           /\ SyncGrant(r) => TypeInv'
           /\ SyncRevoke(r) => TypeInv'
           /\ SyncCommit(r) => TypeInv'
           /\ Abort(r) => TypeInv'
<1> Done \in Request
  BY DEF Request
<1>a. /\ group \in [id : Nat, name : Names \cup {"absent"}] /\ req \in [Requests -> Request]
      /\ members \subseteq rows /\ rows \subseteq Persons /\ Supers \subseteq rows
  BY DEF TypeInv, TypeOK, Supers
<1>1. ASSUME SyncFind(r) PROVE TypeInv'
  <2>1. CASE configured
    <3> DEFINE i == IF group.name = "target" THEN group.id ELSE -1
               x == [pc |-> "found", id |-> i, grant |-> {}, revoke |-> {}, alone |-> TRUE]
    <3>1. x \in Request
      <4>1. i \in Nat \cup {-1}
        BY <1>a
      <4>2. QED
        BY <4>1 DEF Request, Sync, Syncing
    <3>2. req' = [req EXCEPT ![r] = x] /\ UNCHANGED <<configured, users, groups>>
          /\ excuses' \subseteq excuses \cup {"two syncs"}
      BY <1>1, <2>1 DEF SyncFind
    <3> HIDE DEF x
    <3>3. QED
      BY <3>1, <3>2, ReadType
  <2>2. CASE ~configured
    BY <1>1, <2>2, ReadType DEF SyncFind, End
  <2>3. QED
    BY <2>1, <2>2
<1>2. ASSUME SyncGrant(r) PROVE TypeInv'
  <2> DEFINE grant == (MembersOf(req[r]) \cap rows) \ Supers
             x == [req[r] EXCEPT !.pc = "granted", !.grant = grant]
  <2>1. req[r] \in Sync /\ req[r].pc = "found"
    BY <1>2, <1>a, KindOf DEF SyncGrant, At, Syncing
  <2>2. grant \in SUBSET Persons
    BY <1>a
  <2>3. req' = [req EXCEPT ![r].pc = "granted", ![r].grant = grant]
        /\ UNCHANGED <<configured, users, groups, excuses>>
    BY <1>2 DEF SyncGrant
  <2> HIDE DEF grant
  <2>4. x \in Request /\ req' = [req EXCEPT ![r] = x]
    BY <1>a, <2>1, <2>2, <2>3 DEF Sync, Syncing, Request
  <2> HIDE DEF x
  <2>5. QED
    BY <2>3, <2>4, ReadType
<1>3. ASSUME SyncRevoke(r) PROVE TypeInv'
  <2> DEFINE revoke == Revoked(req[r])
             x == [req[r] EXCEPT !.pc = "revoked", !.revoke = revoke]
  <2>1. req[r] \in Sync /\ req[r].pc = "granted"
    BY <1>3, <1>a, KindOf DEF SyncRevoke, At, Syncing
  <2>2. revoke \in SUBSET Persons
    BY <1>a, <2>1 DEF Revoked, Sync
  <2>3. req' = [req EXCEPT ![r].pc = "revoked", ![r].revoke = revoke]
        /\ UNCHANGED <<configured, users, groups, excuses>>
    BY <1>3 DEF SyncRevoke
  <2> HIDE DEF revoke
  <2>4. x \in Request /\ req' = [req EXCEPT ![r] = x]
    BY <1>a, <2>1, <2>2, <2>3 DEF Sync, Syncing, Request
  <2> HIDE DEF x
  <2>5. QED
    BY <2>3, <2>4, ReadType
<1>4. ASSUME SyncCommit(r) PROVE TypeInv'
  <2>1. req[r] \in Sync
    BY <1>4, <1>a, KindOf DEF SyncCommit, At, Syncing
  <2>2. cols \in [Persons -> SUBSET Columns] /\ \A p \in Persons : cols[p] # {} => p \in rows
    BY DEF TypeInv, TypeOK
  <2>3. req[r].grant \subseteq rows
    BY <1>4 DEF SyncCommit, At, LockInv, LockedBy
  <2>4. cols' = [p \in Persons |->
                   IF p \in req[r].revoke THEN cols[p] \ {"is_superuser"}
                   ELSE IF p \in req[r].grant THEN cols[p] \cup {"is_superuser"} ELSE cols[p]]
    BY <1>4 DEF SyncCommit
  <2>5. \A p \in Persons : cols'[p] \in SUBSET Columns /\ (cols'[p] # {} => p \in rows)
    BY <2>2, <2>3, <2>4 DEF Columns
  <2>6. cols' \in [Persons -> SUBSET Columns]
    BY <2>4, <2>5
  <2>7. req' \in [Requests -> Request]
    BY <1>4, <1>a, DisturbIs DEF SyncCommit, EndsAs
  <2>8. UNCHANGED <<configured, rows, gone, group, members>>
        /\ excuses' \subseteq {"by hand", "cli", "scim", "crossed", "claim", "two syncs", "no sync"}
    BY <1>4 DEF SyncCommit, groups, TypeInv, TypeOK
  <2>9. QED
    BY <1>a, <2>5, <2>6, <2>7, <2>8, ColsType DEF TypeInv, TypeOK
<1>5. ASSUME Abort(r) PROVE TypeInv'
  BY <1>5, ReadType DEF Abort, End
<1>6. QED
  BY <1>1, <1>2, <1>3, <1>4, <1>5

\* Every step keeps the types.
LEMMA TypeStep ==
    ASSUME TypeInv, LockInv, [Next]_vars
    PROVE  TypeInv'
<1>1. CASE UNCHANGED vars
  BY <1>1 DEF vars, users, groups, TypeInv, TypeOK
<1>2. ASSUME NEW r \in Requests, UserStep(r) PROVE TypeInv'
  BY <1>2, ReadStepType, WriteType DEF UserStep
<1>3. ASSUME NEW r \in Requests, GroupStep(r) PROVE TypeInv'
  BY <1>3, GroupStepType, SyncStepType DEF GroupStep
<1>4. ASSUME NEW r \in Requests, Abort(r) PROVE TypeInv'
  BY <1>4, SyncStepType
<1>5. QED
  BY <1>1, <1>2, <1>3, <1>4 DEF Next

-----------------------------------------------------------------------------
(* What a step of one request does to the others. *)

\* A request keeps what it holds, except that it may learn it is not alone.
Kept(q) ==
    \/ req'[q] = req[q]
    \/ At(q, Writing \cup Syncing) /\ req'[q] = [req[q] EXCEPT !.alone = FALSE]

LEMMA EndsIs ==
    ASSUME TypeInv, NEW r \in Requests, NEW x \in Request, EndsAs(r, x)
    PROVE  req'[r] = x /\ \A q \in Requests \ {r} : Kept(q)
<1>1. req \in [Requests -> Request]
  BY DEF TypeInv
<1>2. req'[r] = x /\ \A p \in Requests \ {r} :
          /\ ~At(p, Writing \cup Syncing) => req'[p] = req[p]
          /\ At(p, Writing \cup Syncing) => req'[p] = [req[p] EXCEPT !.alone = FALSE]
  BY <1>1, DisturbIs
<1>3. QED
  BY <1>2 DEF Kept

LEMMA OthersKeep ==
    ASSUME TypeInv, NEW r \in Requests, UserStep(r) \/ GroupStep(r) \/ Abort(r),
           NEW q \in Requests \ {r}
    PROVE  Kept(q)
<1>a. req \in [Requests -> Request] /\ Done \in Request /\ Committing \in Request
  BY DEF TypeInv, Request
<1>1. ASSUME NEW x \in Request, EndsAs(r, x) PROVE Kept(q)
  BY <1>1, EndsIs
<1>2. CASE Commit(r) \/ ClaimCommit(r) \/ SyncCommit(r)
  <2>1. EndsAs(r, Done)
    BY <1>2 DEF Commit, ClaimCommit, SyncCommit, EndsAs
  <2>2. QED
    BY <1>1, <1>a, <2>1
<1>3. CASE GroupCommit(r) \/ GroupDelete(r)
           \/ \E n \in Names, ps \in SUBSET Persons : GroupCreate(r, n, ps)
  <2>1. EndsAs(r, Committing)
    BY <1>3 DEF GroupCommit, GroupDelete, GroupCreate, Committed, Committing, EndsAs
  <2>2. QED
    BY <1>1, <1>a, <2>1
<1>4. CASE (\E p \in Persons : \E by \in Persons : \E w \in AdminWants \cup {Delete} :
               AdminCheck(r, by, p, w)) \/ AdminLoad(r) \/ AdminDelete(r)
  BY <1>4, <1>a DEF AdminCheck, AdminLoad, AdminDelete, End, Kept
<1>5. CASE \E p \in Persons : \/ \E w \in CliWants : Load(r, "cli", p, w)
                              \/ \E w \in ScimWants : Load(r, "scim", p, w)
                              \/ \E b \in BOOLEAN : ScimMiss(r, p, b) \/ LoginRead(r, p, b)
  BY <1>5, <1>a DEF Load, ScimMiss, LoginRead, Kept
<1>6. CASE ScimInsert(r) \/ LoginUpsert(r) \/ ClaimLoad(r)
  BY <1>6, <1>a DEF ScimInsert, LoginUpsert, ClaimLoad, End, Kept
<1>7. CASE (\E ops \in Changes : GroupOpen(r, ops)) \/ GroupReplace(r)
  BY <1>7, <1>a DEF GroupOpen, GroupReplace, Kept
<1>8. CASE SyncFind(r) \/ SyncGrant(r) \/ SyncRevoke(r) \/ Abort(r)
  BY <1>8, <1>a DEF SyncFind, SyncGrant, SyncRevoke, Abort, End, Kept
<1>9. QED
  BY <1>2, <1>3, <1>4, <1>5, <1>6, <1>7, <1>8 DEF UserStep, GroupStep

\* Where it is and what it has written are among what it keeps.
LEMMA KeptIs ==
    ASSUME TypeInv, NEW q \in Requests, Kept(q)
    PROVE  /\ req'[q].pc = req[q].pc
           /\ LockedBy(q)' = LockedBy(q)
           /\ At(q, Syncing) => /\ req'[q].id = req[q].id
                                /\ req'[q].grant = req[q].grant /\ req'[q].revoke = req[q].revoke
           /\ ~At(q, Writing \cup Syncing) => req'[q] = req[q]
           /\ req'[q] # req[q] => At(q, Writing \cup Syncing) /\ ~req'[q].alone
<1>1. CASE req'[q] = req[q]
  BY <1>1 DEF LockedBy, At
<1>2. CASE At(q, Writing) /\ req'[q] = [req[q] EXCEPT !.alone = FALSE]
  <2>1. req[q] \in Change
    BY <1>2, KindOf DEF At, TypeInv
  <2>2. req'[q].pc = req[q].pc /\ ~req'[q].alone
    BY <1>2, <2>1 DEF Change
  <2>3. QED
    BY <1>2, <2>2 DEF LockedBy, At, Writing, Syncing
<1>3. CASE At(q, Syncing) /\ req'[q] = [req[q] EXCEPT !.alone = FALSE]
  <2>1. req[q] \in Sync
    BY <1>3, KindOf DEF At, TypeInv
  <2>2. /\ req'[q].pc = req[q].pc /\ ~req'[q].alone /\ req'[q].id = req[q].id
        /\ req'[q].grant = req[q].grant /\ req'[q].revoke = req[q].revoke
    BY <1>3, <2>1 DEF Sync
  <2>3. QED
    BY <1>3, <2>2 DEF LockedBy, At, Writing, Syncing
<1>4. QED
  BY <1>1, <1>2, <1>3 DEF Kept, At

\* Only a deletion takes a row away, and not one that another has written.
LEMMA RowsStay ==
    ASSUME NEW r \in Requests, UserStep(r) \/ GroupStep(r) \/ Abort(r)
    PROVE  \/ rows \subseteq rows'
           \/ AdminDelete(r) /\ rows' = rows \ {req[r].who} /\ Free(r, req[r].who)
<1>1. CASE AdminDelete(r)
  BY <1>1 DEF AdminDelete
<1>2. CASE ScimInsert(r) \/ LoginUpsert(r)
  BY <1>2 DEF ScimInsert, LoginUpsert, Insert, users
<1>3. CASE Commit(r) \/ ClaimCommit(r) \/ SyncCommit(r)
  BY <1>3 DEF Commit, ClaimCommit, SyncCommit
<1>4. CASE UNCHANGED users
  BY <1>4 DEF users
<1>5. QED
  BY <1>1, <1>2, <1>3, <1>4 DEF UserStep, GroupStep, AdminCheck, AdminLoad, Load, ScimMiss,
     LoginRead, ClaimLoad, GroupOpen, GroupReplace, GroupCommit, GroupDelete, GroupCreate,
     SyncFind, SyncGrant, SyncRevoke, Abort

\* A request that asks for a user's row to be changed.
Asks(r) ==
    \/ \E p \in Persons : \E by \in Persons : \E w \in AdminWants \cup {Delete} :
          AdminCheck(r, by, p, w)
    \/ AdminLoad(r)
    \/ \E p \in Persons : \/ \E w \in CliWants : Load(r, "cli", p, w)
                          \/ \E w \in ScimWants : Load(r, "scim", p, w)

\* Where a request is after its own step.
LEMMA OwnPc ==
    ASSUME TypeInv, NEW r \in Requests, UserStep(r) \/ GroupStep(r) \/ Abort(r)
    PROVE  \/ req'[r].pc \in {"missed", "met", "upserted", "opened", "replaced", "committed", "done"}
           \/ Asks(r)
           \/ configured /\ ClaimLoad(r) /\ req'[r].pc = "claiming"
           \/ configured /\ SyncFind(r) /\ req'[r].pc = "found"
           \/ SyncGrant(r) \/ SyncRevoke(r)
<1>a. req \in [Requests -> Request] /\ Done \in Request /\ Committing \in Request
  BY DEF TypeInv, Request
<1>1. CASE Commit(r) \/ ClaimCommit(r) \/ SyncCommit(r)
  <2>1. EndsAs(r, Done)
    BY <1>1 DEF Commit, ClaimCommit, SyncCommit, EndsAs
  <2>2. req'[r] = Done
    BY <1>a, <2>1, EndsIs
  <2>3. QED
    BY <2>2 DEF Done
<1>2. CASE GroupCommit(r) \/ GroupDelete(r)
           \/ \E n \in Names, ps \in SUBSET Persons : GroupCreate(r, n, ps)
  <2>1. EndsAs(r, Committing)
    BY <1>2 DEF GroupCommit, GroupDelete, GroupCreate, Committed, Committing, EndsAs
  <2>2. req'[r] = Committing
    BY <1>a, <2>1, EndsIs
  <2>3. QED
    BY <2>2 DEF Committing
<1>3. CASE \E p \in Persons, b \in BOOLEAN : ScimMiss(r, p, b) \/ LoginRead(r, p, b)
  BY <1>a, <1>3 DEF ScimMiss, LoginRead
<1>4. CASE AdminDelete(r) \/ ScimInsert(r) \/ Abort(r)
  <2>1. req' = [req EXCEPT ![r] = Done]
    BY <1>4 DEF AdminDelete, ScimInsert, Abort, End
  <2>2. req'[r] = Done
    BY <1>a, <2>1
  <2>3. QED
    BY <2>2 DEF Done
<1>5. CASE LoginUpsert(r) \/ ClaimLoad(r)
  <2>1. req[r] \in Login
    BY <1>a, <1>5, KindOf DEF LoginUpsert, ClaimLoad, At
  <2>2. QED
    BY <1>a, <1>5, <2>1 DEF LoginUpsert, ClaimLoad, End, Done, Login
<1>6. CASE \E ops \in Changes : GroupOpen(r, ops)
  BY <1>a, <1>6 DEF GroupOpen
<1>7. CASE GroupReplace(r)
  <2>1. req[r] \in Change
    BY <1>a, <1>7, KindOf DEF GroupReplace, At, Writing
  <2>2. req'[r].pc = "replaced"
    BY <1>a, <1>7, <2>1 DEF GroupReplace, Change
  <2>3. QED
    BY <2>2
<1>8. CASE SyncFind(r) /\ configured
  <2> DEFINE i == IF group.name = "target" THEN group.id ELSE -1
             x == [pc |-> "found", id |-> i, grant |-> {}, revoke |-> {}, alone |-> TRUE]
  <2>1. req' = [req EXCEPT ![r] = x] /\ x.pc = "found"
    BY <1>8 DEF SyncFind
  <2> HIDE DEF x
  <2>2. QED
    BY <1>a, <1>8, <2>1
<1>9. CASE SyncFind(r) /\ ~configured
  BY <1>a, <1>9 DEF SyncFind, End, Done
<1>10. QED
  BY <1>1, <1>2, <1>3, <1>4, <1>5, <1>6, <1>7, <1>8, <1>9 DEF UserStep, GroupStep, Asks

\* A request for a user's row, after the step that makes it one.
LEMMA AsksIs ==
    ASSUME TypeInv, NEW r \in Requests, Asks(r)
    PROVE  /\ req'[r].pc \in {"checked", "loaded", "done"}
           /\ UNCHANGED <<configured, users, groups, excuses>>
           /\ Demoting(r)' => \/ req'[r].by \in InCharge \ {req'[r].who}
                             \/ /\ Demoting(r)
                                /\ req'[r].by = req[r].by /\ req'[r].who = req[r].who
<1>a. req \in [Requests -> Request]
  BY DEF TypeInv
<1>1. CASE AdminLoad(r)
  <2>1. CASE req[r].who \in rows
    <3>1. req'[r] = [pc |-> "loaded", by |-> req[r].by, who |-> req[r].who,
                     want |-> req[r].want, seen |-> cols[req[r].who]]
      BY <1>a, <1>1, <2>1 DEF AdminLoad
    <3>2. QED
      BY <1>1, <3>1 DEF Demoting, At, AdminLoad
  <2>2. CASE req[r].who \notin rows
    <3>1. req'[r].pc = "done"
      BY <1>a, <1>1, <2>2 DEF AdminLoad, End, Done
    <3>2. QED
      BY <1>1, <3>1 DEF Demoting, At, AdminLoad
  <2>3. QED
    BY <2>1, <2>2
<1>2. CASE \E p \in Persons : \E by \in Persons : \E w \in AdminWants \cup {Delete} :
             AdminCheck(r, by, p, w)
  <2>1. PICK p \in Persons, by \in Persons, w \in AdminWants \cup {Delete} :
             AdminCheck(r, by, p, w)
    BY <1>2
  <2>2. /\ req'[r].pc = "checked" /\ req'[r].by = by /\ req'[r].who = p /\ req'[r].want = w
        /\ by \in InCharge /\ (Demotion(w) => p # by)
        /\ UNCHANGED <<configured, users, groups, excuses>>
    BY <1>a, <2>1 DEF AdminCheck
  <2>3. QED
    BY <2>2 DEF Demoting
<1>3. CASE \E p \in Persons : \/ \E w \in CliWants : Load(r, "cli", p, w)
                              \/ \E w \in ScimWants : Load(r, "scim", p, w)
  <2>1. PICK p \in Persons, by \in {"cli", "scim"}, w \in CliWants \cup ScimWants : Load(r, by, p, w)
    BY <1>3
  <2>2. /\ req'[r].pc = "loaded" /\ req'[r].by \notin Persons
        /\ UNCHANGED <<configured, users, groups, excuses>>
    BY <1>a, <2>1, IdentityAssumption DEF Load, IdentityAssumption
  <2>3. QED
    BY <2>2 DEF Demoting
<1>4. QED
  BY <1>1, <1>2, <1>3 DEF Asks

\* What a request has written after its own step.
LEMMA OwnLocks ==
    ASSUME TypeInv, LockInv, NEW r \in Requests, UserStep(r) \/ GroupStep(r) \/ Abort(r)
    PROVE  LockedBy(r)' \subseteq rows /\ (AdminDelete(r) => LockedBy(r)' = {})
<1>a. /\ req \in [Requests -> Request] /\ Done \in Request /\ Committing \in Request
      /\ rows \subseteq Persons /\ members \subseteq rows /\ Supers \subseteq rows
  BY DEF TypeInv, TypeOK, Request, Supers
<1>b. ASSUME req'[r].pc \notin {"granted", "revoked"} PROVE LockedBy(r)' = {}
  BY <1>b DEF LockedBy, At
<1>1. CASE SyncGrant(r)
  <2>1. req[r] \in Sync /\ req[r].pc = "found"
    BY <1>1, <1>a, KindOf DEF SyncGrant, At, Syncing
  <2>2. req' = [req EXCEPT ![r].pc = "granted", ![r].grant = (MembersOf(req[r]) \cap rows) \ Supers]
    BY <1>1 DEF SyncGrant
  <2>3. req'[r].pc = "granted" /\ req'[r].grant \subseteq rows /\ req'[r].revoke = {}
    BY <1>a, <2>1, <2>2 DEF Sync
  <2>4. QED
    BY <1>1, <2>1, <2>3 DEF LockedBy, At, AdminDelete
<1>2. CASE SyncRevoke(r)
  <2>1. req[r] \in Sync /\ req[r].pc = "granted"
    BY <1>2, <1>a, KindOf DEF SyncRevoke, At, Syncing
  <2>2. req' = [req EXCEPT ![r].pc = "revoked", ![r].revoke = Revoked(req[r])]
    BY <1>2 DEF SyncRevoke
  <2>3. req[r].grant \subseteq rows
    BY <2>1 DEF LockInv, LockedBy, At
  <2>4. req'[r].grant \subseteq rows /\ req'[r].revoke \subseteq rows
    BY <1>a, <2>1, <2>2, <2>3 DEF Sync, Revoked
  <2>5. QED
    BY <1>2, <2>1, <2>4 DEF LockedBy, At, AdminDelete
<1>3. CASE ~SyncGrant(r) /\ ~SyncRevoke(r)
  <2>1. req'[r].pc \notin {"granted", "revoked"}
    BY <1>3, OwnPc, AsksIs
  <2>2. QED
    BY <1>b, <2>1
<1>4. QED
  BY <1>1, <1>2, <1>3

LEMMA LockStep ==
    ASSUME TypeInv, LockInv, NEW r \in Requests, UserStep(r) \/ GroupStep(r) \/ Abort(r)
    PROVE  LockInv'
<1>1. SUFFICES ASSUME NEW q \in Requests PROVE LockedBy(q)' \subseteq rows'
  BY DEF LockInv
<1>2. CASE q = r
  BY <1>2, RowsStay, OwnLocks
<1>3. CASE q # r
  <2>1. LockedBy(q)' = LockedBy(q) /\ LockedBy(q) \subseteq rows
    BY <1>3, OthersKeep, KeptIs DEF LockInv
  <2>2. CASE rows \subseteq rows'
    BY <2>1, <2>2
  <2>3. CASE rows' = rows \ {req[r].who} /\ Free(r, req[r].who)
    BY <1>3, <2>1, <2>3 DEF Free
  <2>4. QED
    BY <2>2, <2>3, RowsStay
<1>4. QED
  BY <1>2, <1>3

LEMMA TypeLockStep ==
    TypeInv /\ LockInv /\ [Next]_vars => (TypeInv /\ LockInv)'
<1>1. SUFFICES ASSUME TypeInv, LockInv, [Next]_vars PROVE (TypeInv /\ LockInv)'
  OBVIOUS
<1>2. CASE UNCHANGED vars
  BY <1>1, <1>2, TypeStep DEF vars, users, LockInv, LockedBy, At
<1>3. CASE Next
  BY <1>1, <1>3, TypeStep, LockStep DEF Next
<1>4. QED
  BY <1>1, <1>2, <1>3

LEMMA TypeLock == Spec => [](TypeInv /\ LockInv)
<1>1. Init => TypeInv /\ LockInv
  <2>1. Init => LockInv
    BY DEF Init, Unused, LockInv, LockedBy, At
  <2>2. QED
    BY <2>1, InitType
<1>2. QED
  BY <1>1, TypeLockStep, PTL DEF Spec

-----------------------------------------------------------------------------
(* Theorems. *)

\* A membership needs a user and a group, and only an id there is has columns.
THEOREM TypeCorrect == Spec => []TypeOK
<1>1. TypeInv => TypeOK
  BY DEF TypeInv
<1>2. QED
  BY <1>1, TypeLock, PTL

\* A row comes into being without is_superuser.
Joins == \E p \in Persons \ rows : \E c \in SUBSET {"is_active"} : Insert(p, c)

\* The steps that write users.
LEMMA UsersStep ==
    ASSUME TypeInv, NEW r \in Requests, UserStep(r) \/ GroupStep(r) \/ Abort(r)
    PROVE  \/ UNCHANGED users
           \/ (ScimInsert(r) \/ LoginUpsert(r)) /\ Joins
           \/ Commit(r) \/ AdminDelete(r) \/ ClaimCommit(r) \/ SyncCommit(r)
<1>1. CASE ScimInsert(r)
  <2>1. req[r] \in Missed
    BY <1>1, KindOf DEF ScimInsert, At, TypeInv
  <2>2. req[r].who \in Persons
    BY <2>1 DEF Missed
  <2>3. CASE req[r].who \in rows \cup gone
    BY <1>1, <2>3 DEF ScimInsert
  <2>4. CASE req[r].who \notin rows \cup gone
    <3>1. Insert(req[r].who, IF req[r].active THEN {"is_active"} ELSE {})
      BY <1>1, <2>4 DEF ScimInsert
    <3>2. QED
      BY <1>1, <2>2, <2>4, <3>1 DEF Joins
  <2>5. QED
    BY <2>3, <2>4
<1>2. CASE LoginUpsert(r)
  <2>1. req[r] \in Login
    BY <1>2, KindOf DEF LoginUpsert, At, TypeInv
  <2>2. req[r].who \in Persons
    BY <2>1 DEF Login
  <2>3. QED
    BY <1>2, <2>2 DEF LoginUpsert, Joins
<1>3. QED
  BY <1>1, <1>2 DEF UserStep, GroupStep, AdminCheck, AdminLoad, Load, ScimMiss, LoginRead,
     ClaimLoad, GroupOpen, GroupReplace, GroupCommit, GroupDelete, GroupCreate, SyncFind,
     SyncGrant, SyncRevoke, Abort

\* A deactivated account is reactivated only by a request that found it inactive and is
\* to activate it: every other write is to is_superuser, or to a row that was not there.
THEOREM DeactivationStands == Spec => DeactivationHolds
<1>1. ASSUME TypeInv, [Next]_vars, NEW p \in rows \ Active, p \in Active'
      PROVE  \E r \in Requests : /\ At(r, {"loaded"}) /\ req'[r] = Done
                                 /\ req[r].who = p /\ "is_active" \in req[r].want.on
                                 /\ "is_active" \notin req[r].seen
  <2>a. p \in Persons /\ "is_active" \notin cols[p] /\ "is_active" \in cols'[p]
        /\ cols \in [Persons -> SUBSET Columns]
    BY <1>1 DEF Active, TypeInv, TypeOK
  <2>1. cols' # cols
    BY <2>a
  <2>2. PICK r \in Requests : UserStep(r) \/ GroupStep(r) \/ Abort(r)
    BY <1>1, <2>1 DEF Next, vars, users
  <2>3. CASE Joins
    BY <1>1, <2>3, <2>a DEF Joins, Insert
  <2>4. CASE AdminDelete(r)
    <3>1. cols' = [cols EXCEPT ![req[r].who] = {}]
      BY <2>4 DEF AdminDelete
    <3>2. QED
      BY <2>a, <3>1
  <2>5. CASE ClaimCommit(r)
    <3>1. cols' = [cols EXCEPT ![req[r].who] = IF req[r].claim THEN @ \cup {"is_superuser"}
                                               ELSE @ \ {"is_superuser"}]
      BY <2>5 DEF ClaimCommit
    <3>2. QED
      BY <2>a, <3>1
  <2>6. CASE SyncCommit(r)
    <3>1. cols'[p] \in {cols[p], cols[p] \ {"is_superuser"}, cols[p] \cup {"is_superuser"}}
      BY <2>a, <2>6 DEF SyncCommit
    <3>2. QED
      BY <2>a, <3>1
  <2>7. CASE Commit(r)
    <3>1. cols' = [cols EXCEPT ![req[r].who] = WriteBack(@, req[r])]
      BY <2>7 DEF Commit
    <3>2. req[r].who = p /\ "is_active" \in WriteBack(cols[p], req[r])
      BY <2>a, <3>1
    <3>3. "is_active" \in req[r].want.on /\ "is_active" \notin req[r].seen
      BY <2>a, <3>2 DEF WriteBack
    <3>4. EndsAs(r, Done) /\ Done \in Request
      BY <2>7 DEF Commit, EndsAs, Request
    <3>5. req'[r] = Done
      BY <1>1, <3>4, EndsIs
    <3>6. QED
      BY <2>7, <3>2, <3>3, <3>5 DEF Commit
  <2>8. QED
    BY <1>1, <2>1, <2>2, <2>3, <2>4, <2>5, <2>6, <2>7, UsersStep DEF users
<1>2. TypeInv /\ [Next]_vars =>
        [\A p \in rows \ Active : p \in Active' =>
            \E r \in Requests : /\ At(r, {"loaded"}) /\ req'[r] = Done
                                /\ req[r].who = p /\ "is_active" \in req[r].want.on
                                /\ "is_active" \notin req[r].seen]_vars
  BY <1>1
<1>3. QED
  BY <1>2, TypeLock, PTL DEF Spec, DeactivationHolds

-----------------------------------------------------------------------------
(* Without SUPERUSER_GROUP. *)

\* The deployment does not change.
LEMMA SameConfiguration ==
    ASSUME NEW r \in Requests, UserStep(r) \/ GroupStep(r) \/ Abort(r)
    PROVE  configured' = configured
BY DEF UserStep, GroupStep, Abort, AdminCheck, AdminLoad, AdminDelete, Commit, Load, ScimMiss,
   LoginRead, ScimInsert, LoginUpsert, ClaimLoad, ClaimCommit, GroupOpen, GroupReplace,
   GroupCommit, GroupDelete, GroupCreate, SyncFind, SyncGrant, SyncRevoke, SyncCommit

\* What was to be excused stays so until a sync.
LEMMA ExcusesStay ==
    ASSUME NEW r \in Requests, UserStep(r) \/ GroupStep(r) \/ Abort(r)
    PROVE  excuses \subseteq excuses' \/ SyncCommit(r)
BY DEF UserStep, GroupStep, Abort, AdminCheck, AdminLoad, AdminDelete, Commit, Load, ScimMiss,
   LoginRead, ScimInsert, LoginUpsert, ClaimLoad, ClaimCommit, GroupOpen, GroupReplace,
   GroupCommit, GroupDelete, GroupCreate, SyncFind, SyncGrant, SyncRevoke

\* Nobody but the one a request writes is taken out of charge by it.
LEMMA OthersInCharge ==
    ASSUME TypeInv, NEW r \in Requests, Commit(r) \/ AdminDelete(r)
    PROVE  InCharge \ {req[r].who} \subseteq InCharge'
<1>1. cols \in [Persons -> SUBSET Columns] /\ rows \subseteq Persons
  BY DEF TypeInv, TypeOK
<1>2. \A p \in rows \ {req[r].who} : p \in rows' /\ cols'[p] = cols[p]
  BY <1>1 DEF Commit, AdminDelete
<1>3. QED
  BY <1>2 DEF InCharge, Active, Supers

\* Nor is anyone by a request that demotes nobody.
LEMMA OnlyDemotions ==
    ASSUME TypeInv, NEW r \in Requests, Commit(r), ~Demotion(req[r].want)
    PROVE  InCharge \subseteq InCharge'
<1>1. cols \in [Persons -> SUBSET Columns] /\ rows \subseteq Persons
  BY DEF TypeInv, TypeOK
<1>2. cols' = [cols EXCEPT ![req[r].who] = WriteBack(@, req[r])] /\ rows' = rows
  BY DEF Commit
<1>3. \A p \in rows : cols[p] \subseteq cols'[p]
  BY <1>1, <1>2 DEF WriteBack, Demotion
<1>4. QED
  BY <1>1, <1>2, <1>3 DEF InCharge, Active, Supers

\* Whoever demotes another stays in charge, and so does everyone else who is about to.
LEMMA DemotionKeeps ==
    ASSUME TypeInv, ChargeInv, NEW r \in Requests, Commit(r) \/ AdminDelete(r), ~configured,
           excuses' \cap {"cli", "scim", "crossed"} = {}
    PROVE  /\ InCharge' # {}
           /\ \A q \in Requests \ {r} : Demoting(q) => req[q].by \in InCharge'
<1>a. excuses \cap {"cli", "scim", "crossed"} = {}
  BY DEF Commit, AdminDelete
<1>b. InCharge # {} /\ \A q \in Requests : Demoting(q) => req[q].by \in InCharge \ {req[q].who}
  BY <1>a DEF ChargeInv
<1>c. req[r] \in Loaded \cup Checked /\ At(r, {"checked", "loaded"})
  BY KindOf DEF Commit, AdminDelete, At, TypeInv
<1>1. CASE Commit(r) /\ (~Demotion(req[r].want) \/ cols' = cols)
  <2>1. InCharge \subseteq InCharge'
    BY <1>1, OnlyDemotions DEF Commit, InCharge, Active, Supers
  <2>2. QED
    BY <1>b, <2>1
<1>2. CASE \/ AdminDelete(r)
           \/ Commit(r) /\ Demotion(req[r].want) /\ cols' # cols
  <2>1. Demotion(req[r].want)
    BY <1>2 DEF AdminDelete, Demotion, Delete, Want, Columns
  <2>2. Blame(r) \subseteq excuses'
    BY <1>2 DEF Commit, AdminDelete
  <2>3. req[r].by \in Persons
    BY <1>c, <2>1, <2>2 DEF Blame, Loaded, Checked
  <2>4. ~Crossed(r)
    BY <2>1, <2>2, <2>3 DEF Blame
  <2>5. Demoting(r)
    BY <1>c, <2>1, <2>3 DEF Demoting
  <2>6. req[r].by \in InCharge'
    BY <1>b, <2>5, OthersInCharge
  <2>7. ASSUME NEW q \in Requests \ {r}, Demoting(q) PROVE req[q].by \in InCharge'
    <3>1. req[q].by # req[r].who
      BY <2>4, <2>7 DEF Crossed, Demoting
    <3>2. QED
      BY <1>b, <2>7, <3>1, OthersInCharge
  <2>8. QED
    BY <2>6, <2>7
<1>3. QED
  BY <1>1, <1>2

LEMMA ChargeStep ==
    ASSUME TypeInv, ChargeInv, NEW r \in Requests, UserStep(r) \/ GroupStep(r) \/ Abort(r)
    PROVE  ChargeInv'
<1>1. SUFFICES ASSUME ~configured PROVE ChargeInv'
  BY SameConfiguration DEF ChargeInv
<1>2. \A q \in Requests : ~At(q, {"claiming"} \cup Syncing)
  BY <1>1 DEF ChargeInv
<1>3. ~SyncGrant(r) /\ ~SyncRevoke(r) /\ ~SyncCommit(r) /\ ~ClaimCommit(r)
  BY <1>2 DEF SyncGrant, SyncRevoke, SyncCommit, ClaimCommit, At, Syncing
<1>4. req'[r].pc \notin {"claiming"} \cup Syncing
  BY <1>1, <1>3, OwnPc, AsksIs DEF Syncing
<1>5. \A q \in Requests \ {r} : req'[q].pc = req[q].pc /\ (Demoting(q)' => req'[q] = req[q] /\ Demoting(q))
  <2>1. ASSUME NEW q \in Requests \ {r}
        PROVE  req'[q].pc = req[q].pc /\ (Demoting(q)' => req'[q] = req[q])
    <3>1. /\ req'[q].pc = req[q].pc
          /\ ~At(q, Writing \cup Syncing) => req'[q] = req[q]
      BY OthersKeep, KeptIs
    <3>2. QED
      BY <3>1 DEF Demoting, At, Writing, Syncing
  <2>2. QED
    BY <2>1 DEF Demoting, At
<1>6. \A q \in Requests : ~At(q, {"claiming"} \cup Syncing)'
  BY <1>2, <1>4, <1>5 DEF At
<1>7. ASSUME excuses' \cap {"cli", "scim", "crossed"} = {}
      PROVE  InCharge' # {} /\ \A q \in Requests : Demoting(q)' => req'[q].by \in InCharge' \ {req'[q].who}
  <2>1. excuses \cap {"cli", "scim", "crossed"} = {}
    BY <1>3, <1>7, ExcusesStay
  <2>2. InCharge # {} /\ \A q \in Requests : Demoting(q) => req[q].by \in InCharge \ {req[q].who}
    BY <1>1, <2>1 DEF ChargeInv
  <2>3. InCharge' # {} /\ \A q \in Requests \ {r} : Demoting(q) => req[q].by \in InCharge'
    <3>1. CASE UNCHANGED users
      <4>1. InCharge' = InCharge
        BY <3>1 DEF users, InCharge, Active, Supers
      <4>2. QED
        BY <2>2, <4>1
    <3>2. CASE Joins
      <4>1. cols \in [Persons -> SUBSET Columns] /\ rows \subseteq Persons
        BY DEF TypeInv, TypeOK
      <4>2. InCharge \subseteq InCharge'
        BY <3>2, <4>1 DEF Joins, Insert, InCharge, Active, Supers
      <4>3. QED
        BY <2>2, <4>2
    <3>3. CASE Commit(r) \/ AdminDelete(r)
      BY <1>1, <1>7, <3>3, DemotionKeeps
    <3>4. QED
      BY <1>3, <3>1, <3>2, <3>3, UsersStep
  <2>4. Demoting(r)' => req'[r].by \in InCharge' \ {req'[r].who}
    <3>1. CASE Asks(r)
      <4>1. InCharge' = InCharge
        BY <3>1, AsksIs DEF users, InCharge, Active, Supers
      <4>2. QED
        BY <2>2, <3>1, <4>1, AsksIs
    <3>2. CASE ~Asks(r)
      <4>1. req'[r].pc \notin {"checked", "loaded"}
        BY <1>3, <3>2, OwnPc
      <4>2. QED
        BY <4>1 DEF Demoting, At
    <3>3. QED
      BY <3>1, <3>2
  <2>5. QED
    BY <1>5, <2>2, <2>3, <2>4
<1>8. QED
  BY <1>6, <1>7 DEF ChargeInv

LEMMA InitCharge == Init => ChargeInv
<1>1. SUFFICES ASSUME Init, ~configured PROVE ChargeInv
  BY DEF ChargeInv
<1>2. \A r \in Requests : req[r].pc = "unused"
  BY <1>1 DEF Init, Unused
<1>3. PICK s \in SUBSET rows : s # {}
         /\ cols = [p \in Persons |-> {c \in Columns : p \in rows /\ (c = "is_superuser" => p \in s)}]
  BY <1>1 DEF Init
<1>4. rows \subseteq Persons
  BY <1>1 DEF Init
<1>5. \A p \in s : p \in InCharge
  BY <1>3, <1>4 DEF InCharge, Active, Supers, Columns
<1>6. InCharge # {}
  BY <1>3, <1>5
<1>7. QED
  BY <1>2, <1>6 DEF ChargeInv, Demoting, At, Syncing

\* Without SUPERUSER_GROUP the last one in charge is never lost to administrators, unless
\* one of them was demoted while demoting another: whoever demotes stays.
THEOREM SomeoneIsLeft == Spec => []SomeoneLeft
<1>1. TypeInv /\ ChargeInv /\ [Next]_vars => ChargeInv'
  <2>1. SUFFICES ASSUME TypeInv, ChargeInv, [Next]_vars PROVE ChargeInv'
    OBVIOUS
  <2>2. CASE UNCHANGED vars
    BY <2>1, <2>2 DEF vars, users, ChargeInv, InCharge, Active, Supers, Demoting, At
  <2>3. CASE Next
    BY <2>1, <2>3, ChargeStep DEF Next
  <2>4. QED
    BY <2>1, <2>2, <2>3
<1>2. ChargeInv => SomeoneLeft
  BY DEF ChargeInv, SomeoneLeft
<1>3. QED
  BY <1>1, <1>2, InitCharge, TypeLock, PTL DEF Spec

-----------------------------------------------------------------------------
(* With SUPERUSER_GROUP. *)

\* The flag drifts no further from the group.
NoDrift ==
    /\ TargetId' = TargetId /\ Target' \subseteq Target
    /\ Target' \ Supers' \subseteq Target \ Supers
    /\ Supers' \ Target' \subseteq Supers \ Target

\* Nobody leaves the group whose row another request has written.
LeaversFree(r) == \A q \in Requests \ {r} : (Target \ Target') \cap LockedBy(q) = {}

\* Then a sync under way is still about to set the flags right.
LEMMA OthersConsistent ==
    ASSUME TypeInv, NEW r \in Requests, UserStep(r) \/ GroupStep(r) \/ Abort(r),
           NEW q \in Requests \ {r}, At(q, Syncing)'
    PROVE  /\ At(q, Syncing)
           /\ req'[q].alone => req[q].alone
           /\ NoDrift /\ LeaversFree(r) /\ Consistent(req[q]) => Consistent(req[q])'
<1>1. Kept(q)
  BY OthersKeep
<1>2. req'[q].pc = req[q].pc /\ At(q, Syncing)
  BY <1>1, KeptIs DEF At
<1>3. req'[q].id = req[q].id /\ req'[q].grant = req[q].grant /\ req'[q].revoke = req[q].revoke
  BY <1>1, <1>2, KeptIs
<1>4. req'[q].alone => req[q].alone
  BY <1>1, KeptIs
<1>5. ASSUME NoDrift, LeaversFree(r), Consistent(req[q]) PROVE Consistent(req[q])'
  <2>1. CASE req[q].pc = "found"
    BY <1>2, <1>3, <1>5, <2>1 DEF Consistent, NoDrift
  <2>2. CASE req[q].pc \in {"granted", "revoked"}
    <3>1. (Target \ Target') \cap req[q].grant = {}
      BY <1>5, <2>2 DEF LeaversFree, LockedBy, At
    <3>2. QED
      BY <1>2, <1>3, <1>5, <2>2, <3>1 DEF Consistent, NoDrift
  <2>3. QED
    BY <1>2, <2>1, <2>2 DEF At, Syncing
<1>6. QED
  BY <1>2, <1>4, <1>5

\* What ends a transaction tells every sync that it is not alone.
LEMMA EndDisturbs ==
    ASSUME TypeInv, NEW r \in Requests, NEW x \in Request, EndsAs(r, x),
           NEW q \in Requests \ {r}, At(q, Syncing)
    PROVE  ~req'[q].alone
<1>1. req \in [Requests -> Request]
  BY DEF TypeInv
<1>2. req'[q] = [req[q] EXCEPT !.alone = FALSE]
  BY <1>1, DisturbIs DEF At
<1>3. req[q] \in Sync
  BY <1>1, KindOf DEF At
<1>4. QED
  BY <1>2, <1>3 DEF Sync

\* What a sync is told of: a flag set otherwise than the group says, or a change of the
\* group.
Alarm(r) ==
    /\ excuses' # {} \/ req'[r].pc = "committed"
    /\ \A q \in Requests \ {r} : At(q, Syncing) => ~req'[q].alone

\* Without either, no step but a sync's own moves the flags away from the group.
LEMMA DriftOf ==
    ASSUME TypeInv, configured, NEW r \in Requests, UserStep(r) \/ GroupStep(r) \/ Abort(r),
           ~SyncCommit(r)
    PROVE  (NoDrift /\ LeaversFree(r)) \/ Alarm(r)
<1>a. /\ cols \in [Persons -> SUBSET Columns] /\ rows \subseteq Persons /\ members \subseteq rows
      /\ Done \in Request /\ Committing \in Request
  BY DEF TypeInv, TypeOK, Request
<1>b. ASSUME Supers' = Supers, UNCHANGED groups PROVE NoDrift /\ LeaversFree(r)
  <2>1. TargetId' = TargetId /\ Target' = Target
    BY <1>b DEF groups, Target, TargetId
  <2>2. QED
    BY <1>b, <2>1 DEF NoDrift, LeaversFree
<1>1. CASE Commit(r)
  <2>1. EndsAs(r, Done) /\ UNCHANGED groups /\ rows' = rows
        /\ cols' = [cols EXCEPT ![req[r].who] = WriteBack(@, req[r])]
    BY <1>1 DEF Commit, EndsAs
  <2>2. CASE "is_superuser" \notin req[r].want.on \cup req[r].want.off
    <3>1. \A p \in rows : "is_superuser" \in cols'[p] <=> "is_superuser" \in cols[p]
      BY <1>a, <2>1, <2>2 DEF WriteBack
    <3>2. Supers' = Supers
      BY <2>1, <3>1 DEF Supers
    <3>3. QED
      BY <1>b, <2>1, <3>2
  <2>3. CASE cols' = cols
    BY <1>b, <2>1, <2>3 DEF Supers
  <2>4. CASE "is_superuser" \in req[r].want.on \cup req[r].want.off /\ cols' # cols
    <3>1. excuses' # {}
      BY <1>1, <2>4 DEF Commit, Blame
    <3>2. QED
      BY <1>a, <2>1, <3>1, EndDisturbs DEF Alarm
  <2>5. QED
    BY <2>2, <2>3, <2>4
<1>2. CASE AdminDelete(r)
  <2> DEFINE p == req[r].who
  <2>1. /\ rows' = rows \ {p} /\ cols' = [cols EXCEPT ![p] = {}]
        /\ members' = members \ {p} /\ group' = group /\ Free(r, p)
    BY <1>2 DEF AdminDelete
  <2> HIDE DEF p
  <2>2. TargetId' = TargetId /\ Target' = Target \ {p}
    BY <2>1 DEF Target, TargetId
  <2>3. Supers' = Supers \ {p}
    BY <1>a, <2>1 DEF Supers
  <2>4. LeaversFree(r)
    BY <2>1, <2>2 DEF LeaversFree, Free
  <2>5. QED
    BY <2>2, <2>3, <2>4 DEF NoDrift
<1>3. CASE ClaimCommit(r)
  <2> DEFINE p == req[r].who
  <2>1. /\ p \in rows /\ rows' = rows /\ UNCHANGED groups /\ EndsAs(r, Done)
        /\ cols' = [cols EXCEPT ![p] = IF req[r].claim THEN @ \cup {"is_superuser"}
                                       ELSE @ \ {"is_superuser"}]
    BY <1>3 DEF ClaimCommit, EndsAs
  <2>2. CASE req[r].claim # (p \in Target)
    <3>1. excuses' # {}
      BY <1>3, <2>2 DEF ClaimCommit
    <3>2. QED
      BY <1>a, <2>1, <3>1, EndDisturbs DEF Alarm
  <2>3. CASE req[r].claim = (p \in Target)
    <3>1. TargetId' = TargetId /\ Target' = Target
      BY <2>1 DEF groups, Target, TargetId
    <3>2. /\ p \in Target => Supers' = Supers \cup {p}
          /\ p \notin Target => Supers' = Supers \ {p}
      <4>1. CASE p \in Target
        <5>1. cols' = [cols EXCEPT ![p] = @ \cup {"is_superuser"}]
          BY <2>1, <2>3, <4>1
        <5>2. QED
          BY <1>a, <2>1, <4>1, <5>1 DEF Supers
      <4>2. CASE p \notin Target
        <5>1. cols' = [cols EXCEPT ![p] = @ \ {"is_superuser"}]
          BY <2>1, <2>3, <4>2
        <5>2. QED
          BY <1>a, <2>1, <4>2, <5>1 DEF Supers
      <4>3. QED
        BY <4>1, <4>2
    <3> HIDE DEF p
    <3>3. QED
      BY <3>1, <3>2 DEF NoDrift, LeaversFree
  <2>4. QED
    BY <2>2, <2>3
<1>4. CASE (ScimInsert(r) \/ LoginUpsert(r)) /\ Joins
  <2>1. UNCHANGED groups
    BY <1>4 DEF ScimInsert, LoginUpsert
  <2>2. Supers' = Supers
    BY <1>a, <1>4 DEF Joins, Insert, Supers
  <2>3. QED
    BY <1>b, <2>1, <2>2
<1>5. CASE UNCHANGED users /\ UNCHANGED groups
  BY <1>b, <1>5 DEF users, Supers
<1>6. CASE GroupCommit(r) \/ GroupDelete(r)
           \/ \E n \in Names, ps \in SUBSET Persons : GroupCreate(r, n, ps)
  <2>1. EndsAs(r, Committing)
    BY <1>6 DEF GroupCommit, GroupDelete, GroupCreate, Committed, Committing, EndsAs
  <2>2. req'[r].pc = "committed"
    BY <1>a, <2>1, EndsIs DEF Committing
  <2>3. QED
    BY <1>a, <2>1, <2>2, EndDisturbs DEF Alarm
<1>7. UNCHANGED groups \/ AdminDelete(r) \/ GroupCommit(r) \/ GroupDelete(r)
      \/ \E n \in Names, ps \in SUBSET Persons : GroupCreate(r, n, ps)
  BY DEF UserStep, GroupStep, Abort, AdminCheck, AdminLoad, Commit, Load, ScimMiss,
     LoginRead, ScimInsert, LoginUpsert, ClaimLoad, ClaimCommit, GroupOpen, GroupReplace,
     SyncFind, SyncGrant, SyncRevoke, SyncCommit
<1>8. QED
  BY <1>1, <1>2, <1>3, <1>4, <1>5, <1>6, <1>7, UsersStep

\* Nothing but its own steps, or what there is then to excuse, takes a sync further.
LEMMA PlainStep ==
    ASSUME TypeInv, configured, NEW r \in Requests, UserStep(r) \/ GroupStep(r) \/ Abort(r),
           ~SyncFind(r), ~SyncGrant(r), ~SyncRevoke(r), ~SyncCommit(r)
    PROVE  /\ ~At(r, Syncing)'
           /\ At(r, {"committed"} \cup Syncing) => excuses' # {}
           /\ excuses \subseteq excuses'
<1>1. ~At(r, Syncing)'
  BY OwnPc, AsksIs DEF At, Syncing
<1>2. CASE Abort(r)
  BY <1>1, <1>2, ExcusesStay DEF Abort
<1>3. CASE ~Abort(r)
  <2>1. ~At(r, {"committed"} \cup Syncing)
    BY <1>3 DEF UserStep, GroupStep, AdminCheck, AdminLoad, AdminDelete, Commit, Load, ScimMiss,
       LoginRead, ScimInsert, LoginUpsert, ClaimLoad, ClaimCommit, GroupOpen, GroupReplace,
       GroupCommit, GroupDelete, GroupCreate, At, Syncing
  <2>2. QED
    BY <1>1, <2>1, ExcusesStay
<1>4. QED
  BY <1>2, <1>3

LEMMA PlainSync ==
    ASSUME TypeInv, SyncInv, configured, NEW r \in Requests, UserStep(r) \/ GroupStep(r) \/ Abort(r),
           ~SyncFind(r), ~SyncGrant(r), ~SyncRevoke(r), ~SyncCommit(r)
    PROVE  SyncInv'
<1>1. ~At(r, Syncing)'
  BY PlainStep
<1>2. CASE Alarm(r)
  <2>1. ASSUME NEW q \in Requests, At(q, Syncing)' PROVE ~req'[q].alone
    BY <1>1, <1>2, <2>1, OthersConsistent DEF Alarm
  <2>2. ~Settled'
    BY <1>2 DEF Alarm, Settled, At
  <2>3. QED
    BY <2>1, <2>2 DEF SyncInv
<1>3. CASE NoDrift /\ LeaversFree(r)
  <2>1. ASSUME NEW q \in Requests, At(q, Syncing)', req'[q].alone PROVE Consistent(req[q])'
    <3>1. At(q, Syncing) /\ req[q].alone /\ (Consistent(req[q]) => Consistent(req[q])')
      BY <1>1, <1>3, <2>1, OthersConsistent
    <3>2. QED
      BY <3>1 DEF SyncInv
  <2>2. ASSUME Settled'
        PROVE  /\ \A q \in Requests : At(q, Syncing)' => Consistent(req[q])' /\ OtherSyncs(q)' = {}
               /\ (\A q \in Requests : ~At(q, Syncing)') => Supers' = Target'
    <3>1. ~At(r, {"committed"} \cup Syncing) /\ excuses = {}
      BY <2>2, PlainStep DEF Settled
    <3>2. \A q \in Requests \ {r} : req'[q].pc = req[q].pc
      BY OthersKeep, KeptIs
    <3>3. Settled
      BY <2>2, <3>1, <3>2 DEF Settled, At
    <3>4. ASSUME NEW q \in Requests, At(q, Syncing)'
          PROVE  Consistent(req[q])' /\ OtherSyncs(q)' = {}
      <4>1. At(q, Syncing) /\ (Consistent(req[q]) => Consistent(req[q])')
        BY <1>1, <1>3, <3>4, OthersConsistent
      <4>2. Consistent(req[q]) /\ OtherSyncs(q) = {}
        BY <3>3, <4>1 DEF SyncInv
      <4>3. OtherSyncs(q)' \subseteq OtherSyncs(q)
        BY <1>1, <3>2 DEF OtherSyncs, At
      <4>4. QED
        BY <4>1, <4>2, <4>3
    <3>5. ASSUME \A q \in Requests : ~At(q, Syncing)' PROVE Supers' = Target'
      <4>1. \A q \in Requests : ~At(q, Syncing)
        BY <3>1, <3>2, <3>5 DEF At
      <4>2. Supers = Target
        BY <3>3, <4>1 DEF SyncInv
      <4>3. QED
        BY <1>3, <4>2 DEF NoDrift
    <3>6. QED
      BY <3>4, <3>5
  <2>3. QED
    BY <2>1, <2>2 DEF SyncInv
<1>4. QED
  BY <1>2, <1>3, DriftOf

\* What reads leaves the group, the flags and the other syncs as they are.
LEMMA OthersAsTheyWere ==
    ASSUME TypeInv, NEW r \in Requests, UserStep(r) \/ GroupStep(r) \/ Abort(r),
           UNCHANGED <<users, groups>>
    PROVE  /\ TargetId' = TargetId /\ Target' = Target /\ Supers' = Supers
           /\ \A q \in Requests \ {r} :
                 /\ req'[q].pc = req[q].pc
                 /\ At(q, Syncing)' => /\ req'[q].alone => req[q].alone
                                       /\ Consistent(req[q]) => Consistent(req[q])'
<1>1. TargetId' = TargetId /\ Target' = Target /\ Supers' = Supers
  BY DEF users, groups, TargetId, Target, Supers
<1>2. NoDrift /\ LeaversFree(r)
  BY <1>1 DEF NoDrift, LeaversFree
<1>3. \A q \in Requests \ {r} : req'[q].pc = req[q].pc
  BY OthersKeep, KeptIs
<1>4. QED
  BY <1>1, <1>2, <1>3, OthersConsistent

\* A sync begins with the id of the group as it is.
LEMMA FindSync ==
    ASSUME TypeInv, SyncInv, configured, NEW r \in Requests, SyncFind(r)
    PROVE  SyncInv'
<1> DEFINE x == [pc |-> "found", id |-> TargetId, grant |-> {}, revoke |-> {}, alone |-> TRUE]
<1>1. /\ req' = [req EXCEPT ![r] = x] /\ UNCHANGED <<users, groups>>
      /\ excuses' = IF OtherSyncs(r) # {} THEN excuses \cup {"two syncs"} ELSE excuses
  BY DEF SyncFind, TargetId
<1>2. x.pc = "found" /\ x.id = TargetId
  OBVIOUS
<1> HIDE DEF x
<1>3. req'[r] = x
  BY <1>1 DEF TypeInv
<1>4. /\ TargetId' = TargetId /\ Target' = Target /\ Supers' = Supers
      /\ \A q \in Requests \ {r} :
            /\ req'[q].pc = req[q].pc
            /\ At(q, Syncing)' => /\ req'[q].alone => req[q].alone
                                  /\ Consistent(req[q]) => Consistent(req[q])'
  BY <1>1, OthersAsTheyWere DEF GroupStep
<1>5. Consistent(req[r])' /\ At(r, Syncing)'
  BY <1>2, <1>3, <1>4 DEF Consistent, At, Syncing
<1>6. ASSUME NEW q \in Requests, At(q, Syncing)', req'[q].alone PROVE Consistent(req[q])'
  <2>1. CASE q # r
    <3>1. At(q, Syncing) /\ req[q].alone
      BY <1>4, <1>6, <2>1 DEF At
    <3>2. QED
      BY <1>4, <1>6, <2>1, <3>1 DEF SyncInv
  <2>2. QED
    BY <1>5, <2>1
<1>7. ASSUME Settled', NEW q \in Requests, At(q, Syncing)'
      PROVE  Consistent(req[q])' /\ OtherSyncs(q)' = {}
  <2>1. OtherSyncs(r) = {}
    BY <1>1, <1>7 DEF Settled
  <2>2. q = r
    BY <1>4, <1>7, <2>1 DEF OtherSyncs, At
  <2>3. OtherSyncs(r)' = {}
    BY <1>4, <2>1 DEF OtherSyncs, At
  <2>4. QED
    BY <1>5, <2>2, <2>3
<1>8. QED
  BY <1>5, <1>6, <1>7 DEF SyncInv

\* A statement of a sync that does what the group says.
LEMMA StatementSync ==
    ASSUME TypeInv, SyncInv, configured, NEW r \in Requests, SyncGrant(r) \/ SyncRevoke(r),
           At(r, Syncing)', req'[r].alone = req[r].alone,
           Consistent(req[r]) => Consistent(req[r])'
    PROVE  SyncInv'
<1>1. UNCHANGED <<users, groups, excuses>> /\ At(r, Syncing)
  BY DEF SyncGrant, SyncRevoke, At, Syncing
<1>2. \A q \in Requests \ {r} :
          /\ req'[q].pc = req[q].pc
          /\ At(q, Syncing)' => /\ req'[q].alone => req[q].alone
                                /\ Consistent(req[q]) => Consistent(req[q])'
  BY <1>1, OthersAsTheyWere DEF GroupStep
<1>3. ASSUME NEW q \in Requests, At(q, Syncing)'
      PROVE  /\ At(q, Syncing) /\ OtherSyncs(q)' = OtherSyncs(q)
             /\ req'[q].alone => req[q].alone
             /\ Consistent(req[q]) => Consistent(req[q])'
  <2>1. At(q, Syncing) /\ \A p \in Requests : At(p, Syncing)' <=> At(p, Syncing)
    BY <1>1, <1>2, <1>3 DEF At
  <2>2. OtherSyncs(q)' = OtherSyncs(q)
    BY <2>1 DEF OtherSyncs
  <2>3. QED
    BY <1>2, <1>3, <2>1, <2>2
<1>4. Settled' => Settled
  BY <1>1, <1>2 DEF Settled, At, Syncing
<1>5. QED
  BY <1>1, <1>3, <1>4 DEF SyncInv

LEMMA GrantSync ==
    ASSUME TypeInv, SyncInv, configured, NEW r \in Requests, SyncGrant(r) \/ SyncRevoke(r)
    PROVE  SyncInv'
<1>a. /\ members \subseteq rows /\ group \in [id : Nat, name : Names \cup {"absent"}]
      /\ req \in [Requests -> Request] /\ (group.name = "absent" => members = {})
  BY DEF TypeInv, TypeOK
<1>b. TargetId' = TargetId /\ Target' = Target /\ Supers' = Supers
  BY OthersAsTheyWere DEF GroupStep, SyncGrant, SyncRevoke
<1>c. req[r].id = TargetId => MembersOf(req[r]) = Target
  BY <1>a DEF MembersOf, TargetId, Target
<1>1. CASE SyncGrant(r)
  <2>1. req[r] \in Sync /\ req[r].pc = "found"
    BY <1>a, <1>1, KindOf DEF SyncGrant, At, Syncing
  <2> DEFINE grant == (MembersOf(req[r]) \cap rows) \ Supers
  <2>2. req' = [req EXCEPT ![r].pc = "granted", ![r].grant = grant]
    BY <1>1 DEF SyncGrant
  <2> HIDE DEF grant
  <2>3. /\ req'[r].pc = "granted" /\ req'[r].grant = grant
        /\ req'[r].id = req[r].id /\ req'[r].alone = req[r].alone
    BY <1>a, <2>1, <2>2 DEF Sync
  <2>4. ASSUME Consistent(req[r]) PROVE Consistent(req[r])'
    <3>1. grant = Target \ Supers
      <4>1. Target \subseteq rows
        BY <1>a DEF Target
      <4>2. QED
        BY <1>c, <2>4, <4>1 DEF Consistent, grant
    <3>2. QED
      BY <1>b, <2>3, <2>4, <3>1 DEF Consistent
  <2>5. At(r, Syncing)'
    BY <2>3 DEF At, Syncing
  <2>6. QED
    BY <1>1, <2>3, <2>4, <2>5, StatementSync
<1>2. CASE SyncRevoke(r)
  <2>1. req[r] \in Sync /\ req[r].pc = "granted"
    BY <1>a, <1>2, KindOf DEF SyncRevoke, At, Syncing
  <2> DEFINE revoke == Revoked(req[r])
  <2>2. req' = [req EXCEPT ![r].pc = "revoked", ![r].revoke = revoke]
    BY <1>2 DEF SyncRevoke
  <2> HIDE DEF revoke
  <2>3. /\ req'[r].pc = "revoked" /\ req'[r].revoke = revoke /\ req'[r].grant = req[r].grant
        /\ req'[r].id = req[r].id /\ req'[r].alone = req[r].alone
    BY <1>a, <2>1, <2>2 DEF Sync
  <2>4. ASSUME Consistent(req[r]) PROVE Consistent(req[r])'
    <3>1. revoke = (Supers \cup req[r].grant) \ Target
      BY <1>c, <2>4 DEF Consistent, revoke, Revoked
    <3>2. QED
      BY <1>b, <2>1, <2>3, <2>4, <3>1 DEF Consistent
  <2>5. At(r, Syncing)'
    BY <2>3 DEF At, Syncing
  <2>6. QED
    BY <1>2, <2>3, <2>4, <2>5, StatementSync
<1>3. QED
  BY <1>1, <1>2

\* What a sync has granted and revoked sets the flags right.
LEMMA CommitSetsRight ==
    ASSUME TypeInv, NEW r \in Requests, SyncCommit(r), Consistent(req[r])
    PROVE  Supers' = Target'
<1>1. /\ members \subseteq rows /\ rows \subseteq Persons
      /\ Target \ Supers \subseteq req[r].grant /\ req[r].grant \subseteq Target
      /\ Supers \ Target \subseteq req[r].revoke /\ req[r].revoke \cap Target = {}
  BY DEF TypeInv, TypeOK, SyncCommit, At, Consistent
<1>2. rows' = rows /\ Target' = Target
  BY DEF SyncCommit, groups, Target
<1>3. cols' = [p \in Persons |->
                 IF p \in req[r].revoke THEN cols[p] \ {"is_superuser"}
                 ELSE IF p \in req[r].grant THEN cols[p] \cup {"is_superuser"} ELSE cols[p]]
  BY DEF SyncCommit
<1>4. ASSUME NEW p \in rows PROVE "is_superuser" \in cols'[p] <=> p \in Target
  <2>1. CASE p \in Target
    BY <1>1, <1>3, <2>1 DEF Supers
  <2>2. CASE p \notin Target
    BY <1>1, <1>3, <2>2 DEF Supers
  <2>3. QED
    BY <2>1, <2>2
<1>5. Target \subseteq rows
  BY <1>1 DEF Target
<1>6. QED
  BY <1>2, <1>4, <1>5 DEF Supers

LEMMA CommitSync ==
    ASSUME TypeInv, SyncInv, configured, NEW r \in Requests, SyncCommit(r)
    PROVE  SyncInv'
<1>a. Done \in Request /\ EndsAs(r, Done) /\ At(r, Syncing) /\ ~At(r, {"committed"})
  BY DEF Request, SyncCommit, EndsAs, At, Syncing
<1>1. req'[r] = Done /\ ~At(r, Syncing)'
  <2>1. req'[r] = Done
    BY <1>a, EndsIs
  <2>2. QED
    BY <2>1 DEF Done, At, Syncing
<1>2. \A q \in Requests \ {r} : req'[q].pc = req[q].pc
  BY OthersKeep, KeptIs DEF GroupStep
<1>3. ASSUME NEW q \in Requests, At(q, Syncing)' PROVE ~req'[q].alone
  <2>1. q # r /\ At(q, Syncing)
    BY <1>1, <1>2, <1>3 DEF At
  <2>2. QED
    BY <1>a, <2>1, EndDisturbs
<1>4. ASSUME Settled'
      PROVE  Consistent(req[r]) /\ OtherSyncs(r) = {}
  <2>1. CASE req[r].alone /\ OtherSyncs(r) = {}
    BY <1>a, <2>1 DEF SyncInv
  <2>2. CASE ~(req[r].alone /\ OtherSyncs(r) = {})
    <3>1. excuses = {}
      BY <1>4, <2>2 DEF SyncCommit, Settled
    <3>2. Settled
      BY <1>a, <1>2, <1>4, <3>1 DEF Settled, At
    <3>3. QED
      BY <1>a, <3>2 DEF SyncInv
  <2>3. QED
    BY <2>1, <2>2
<1>5. ASSUME Settled' PROVE Supers' = Target' /\ \A q \in Requests : ~At(q, Syncing)'
  <2>1. Supers' = Target'
    BY <1>4, <1>5, CommitSetsRight
  <2>2. \A q \in Requests : ~At(q, Syncing)'
    BY <1>1, <1>2, <1>4, <1>5 DEF OtherSyncs, At
  <2>3. QED
    BY <2>1, <2>2
<1>6. QED
  BY <1>3, <1>5 DEF SyncInv

LEMMA InitSync == Init => SyncInv
<1>1. SUFFICES ASSUME Init, configured PROVE SyncInv
  BY DEF SyncInv
<1>2. \A r \in Requests : ~At(r, Syncing)
  BY <1>1 DEF Init, Unused, At, Syncing
<1>3. PICK s \in SUBSET rows : s = Target
         /\ cols = [p \in Persons |-> {c \in Columns : p \in rows /\ (c = "is_superuser" => p \in s)}]
  BY <1>1 DEF Init
<1>4. rows \subseteq Persons
  BY <1>1 DEF Init
<1>5. Supers = Target
  BY <1>3, <1>4 DEF Supers, Columns
<1>6. QED
  BY <1>2, <1>5 DEF SyncInv

\* When nothing is under way the superusers are the group's members, unless something is
\* left to excuse: every change of the group is followed by a sync, and a sync keeps to
\* what the group says as long as nobody interferes.
THEOREM FlagFollows == Spec => []FlagFollowsGroup
<1>1. TypeInv /\ SyncInv /\ [Next]_vars => SyncInv'
  <2>1. SUFFICES ASSUME TypeInv, SyncInv, [Next]_vars PROVE SyncInv'
    OBVIOUS
  <2>2. CASE UNCHANGED vars
    BY <2>1, <2>2 DEF vars, users, groups, SyncInv, Settled, Consistent, OtherSyncs, Target,
       TargetId, Supers, At
  <2>3. CASE Next
    <3>1. PICK r \in Requests : UserStep(r) \/ GroupStep(r) \/ Abort(r)
      BY <2>3 DEF Next
    <3>2. CASE configured
      BY <2>1, <3>1, <3>2, PlainSync, FindSync, GrantSync, CommitSync
    <3>3. CASE ~configured
      BY <3>1, <3>3, SameConfiguration DEF SyncInv
    <3>4. QED
      BY <3>2, <3>3
  <2>4. QED
    BY <2>1, <2>2, <2>3
<1>2. SyncInv => FlagFollowsGroup
  BY DEF SyncInv, FlagFollowsGroup, Settled, Quiet, At, Syncing
<1>3. QED
  BY <1>1, <1>2, InitSync, TypeLock, PTL DEF Spec

-----------------------------------------------------------------------------
(* What a PATCH means. *)

\* The greatest is unlike any other at least as great as all.
LEMMA MaxGreatest ==
    ASSUME NEW S \in SUBSET Nat, NEW m \in S, \A y \in S : y <= m
    PROVE  Max(S) = m
<1>1. Max(S) \in S
  BY MaxIs
<1>2. \A y \in S : m >= y
  OBVIOUS
<1>3. \E x \in S : \A y \in S : x >= y
  BY <1>2
<1>4. \A y \in S : Max(S) >= y
  BY <1>3, Zenon DEF Max
<1>5. Max(S) >= m /\ m >= Max(S) /\ m \in Nat /\ Max(S) \in Nat
  BY <1>1, <1>2, <1>4
<1>6. QED
  BY <1>5

\* The operations of a kind among the first n, and what they name.
Upto(ops, kind, n) == {i \in Of(ops, kind) : i <= n}
Named(ops, kind, n) == UNION {ops[i].users : i \in Upto(ops, kind, n)}

LEMMA UptoEnds ==
    ASSUME NEW ops \in Seq(Operation), NEW kind
    PROVE  Upto(ops, kind, 0) = {} /\ Upto(ops, kind, Len(ops)) = Of(ops, kind)
<1>1. Len(ops) \in Nat /\ DOMAIN ops = 1 .. Len(ops)
  OBVIOUS
<1>2. QED
  BY <1>1 DEF Upto, Of

LEMMA UptoNext ==
    ASSUME NEW ops \in Seq(Operation), NEW kind, NEW n \in 1 .. Len(ops)
    PROVE  Upto(ops, kind, n) = Upto(ops, kind, n - 1) \cup (IF ops[n].op = kind THEN {n} ELSE {})
<1>1. Len(ops) \in Nat /\ DOMAIN ops = 1 .. Len(ops)
  OBVIOUS
<1>2. \A i \in 1 .. Len(ops) : i <= n <=> (i <= n - 1 \/ i = n)
  BY <1>1
<1>3. \A i : i \in Upto(ops, kind, n) <=> i \in 1 .. Len(ops) /\ ops[i].op = kind /\ i <= n
  BY <1>1 DEF Upto, Of
<1>4. \A i : i \in Upto(ops, kind, n - 1) <=> i \in 1 .. Len(ops) /\ ops[i].op = kind /\ i <= n - 1
  BY <1>1 DEF Upto, Of
<1>5. QED
  BY <1>2, <1>3, <1>4

LEMMA NamedEnds ==
    ASSUME NEW ops \in Seq(Operation), NEW kind
    PROVE  Named(ops, kind, 0) = {} /\ Named(ops, kind, Len(ops)) = UsersOf(ops, kind)
BY UptoEnds DEF Named, UsersOf

LEMMA NamedNext ==
    ASSUME NEW ops \in Seq(Operation), NEW kind, NEW n \in 1 .. Len(ops)
    PROVE  Named(ops, kind, n) =
               Named(ops, kind, n - 1) \cup (IF ops[n].op = kind THEN ops[n].users ELSE {})
<1>1. Upto(ops, kind, n) = Upto(ops, kind, n - 1) \cup (IF ops[n].op = kind THEN {n} ELSE {})
  BY UptoNext
<1>2. \A p : p \in Named(ops, kind, n) <=>
          \E i \in Upto(ops, kind, n - 1) \cup (IF ops[n].op = kind THEN {n} ELSE {}) : p \in ops[i].users
  BY <1>1, Zenon DEF Named
<1>3. \A p : p \in Named(ops, kind, n - 1) <=> \E i \in Upto(ops, kind, n - 1) : p \in ops[i].users
  BY Zenon DEF Named
<1>4. QED
  BY <1>2, <1>3

\* Who is in the group before anybody is added or removed: as it was, or as the last
\* replacement has it.
Base(ops, ps, n) ==
    IF Upto(ops, "replace", n) = {} THEN ps ELSE ops[Max(Upto(ops, "replace", n))].users

LEMMA BaseIs ==
    ASSUME NEW ops \in Seq(Operation), NEW ps
    PROVE  /\ Base(ops, ps, 0) = ps
           /\ Base(ops, ps, Len(ops)) =
                IF Has(ops, "replace") THEN LastOf(ops, "replace").users ELSE ps
           /\ \A n \in 1 .. Len(ops) :
                Base(ops, ps, n) = IF ops[n].op = "replace" THEN ops[n].users ELSE Base(ops, ps, n - 1)
<1>1. Base(ops, ps, 0) = ps
  BY UptoEnds DEF Base
<1>2. Base(ops, ps, Len(ops)) = IF Has(ops, "replace") THEN LastOf(ops, "replace").users ELSE ps
  BY UptoEnds DEF Base, Has, LastOf
<1>3. ASSUME NEW n \in 1 .. Len(ops), ops[n].op # "replace"
      PROVE  Base(ops, ps, n) = Base(ops, ps, n - 1)
  <2>1. Upto(ops, "replace", n) =
            Upto(ops, "replace", n - 1) \cup (IF ops[n].op = "replace" THEN {n} ELSE {})
    BY UptoNext
  <2>2. Upto(ops, "replace", n) = Upto(ops, "replace", n - 1)
    BY <1>3, <2>1
  <2>3. QED
    BY <2>2 DEF Base
<1>4. ASSUME NEW n \in 1 .. Len(ops), ops[n].op = "replace"
      PROVE  Base(ops, ps, n) = ops[n].users
  <2>1. n \in Upto(ops, "replace", n)
    BY <1>4, UptoNext
  <2>2. Upto(ops, "replace", n) \in SUBSET Nat /\ \A y \in Upto(ops, "replace", n) : y <= n
    BY DEF Upto, Of
  <2>3. Max(Upto(ops, "replace", n)) = n
    BY <2>1, <2>2, MaxGreatest
  <2>4. QED
    BY <2>1, <2>3 DEF Base
<1>5. QED
  BY <1>1, <1>2, <1>3, <1>4

\* The members after each operation, as Meaning has them.
Runs(f, ops, ps, m) ==
    /\ f = [n \in 0 .. m |-> f[n]]
    /\ f[0] = ps
    /\ \A n \in 1 .. m : f[n] = Effect(ops[n], f[n - 1])

LEMMA RunExists ==
    ASSUME NEW ops \in Seq(Operation), NEW ps
    PROVE  \E f : Runs(f, ops, ps, Len(ops))
<1> DEFINE Stuck == {m \in 0 .. Len(ops) : ~\E f : Runs(f, ops, ps, m)}
<1>1. SUFFICES ASSUME Stuck # {} PROVE FALSE
  <2>1. Len(ops) \in 0 .. Len(ops)
    OBVIOUS
  <2>2. QED
    BY <2>1
<1>2. PICK m \in Stuck : \A y \in Stuck : m <= y
  <2>1. Stuck \in SUBSET Nat
    OBVIOUS
  <2> HIDE DEF Stuck
  <2>2. QED
    BY <1>1, <2>1, MinExists
<1>3. m \in 0 .. Len(ops) /\ m \in Nat /\ Len(ops) \in Nat
  BY <1>2
<1>4. CASE m = 0
  <2>1. Runs([n \in 0 .. 0 |-> ps], ops, ps, 0)
    BY DEF Runs
  <2>2. QED
    BY <1>2, <1>4, <2>1
<1>5. CASE m # 0
  <2>1. m - 1 \in 0 .. Len(ops) /\ m - 1 \notin Stuck
    BY <1>2, <1>3, <1>5
  <2>2. PICK f : Runs(f, ops, ps, m - 1)
    BY <2>1
  <2>3. f[0] = ps /\ \A n \in 1 .. (m - 1) : f[n] = Effect(ops[n], f[n - 1])
    BY <2>2 DEF Runs
  <2> DEFINE g == [n \in 0 .. m |-> IF n = m THEN Effect(ops[m], f[m - 1]) ELSE f[n]]
  <2>4. g = [n \in 0 .. m |-> g[n]] /\ g[0] = ps
    BY <1>3, <1>5, <2>3
  <2>5. ASSUME NEW n \in 1 .. m PROVE g[n] = Effect(ops[n], g[n - 1])
    <3>1. n - 1 \in 0 .. m /\ n - 1 # m /\ n \in 0 .. m
      BY <1>3
    <3>2. g[n - 1] = f[n - 1]
      BY <3>1
    <3>3. CASE n = m
      BY <3>1, <3>2, <3>3
    <3>4. CASE n # m
      <4>1. n \in 1 .. (m - 1) /\ g[n] = f[n]
        BY <1>3, <3>1, <3>4
      <4>2. QED
        BY <2>3, <3>2, <4>1
    <3>5. QED
      BY <3>3, <3>4
  <2>6. Runs(g, ops, ps, m)
    <3> HIDE DEF g
    <3>1. QED
      BY <2>4, <2>5 DEF Runs
  <2>7. QED
    BY <1>2, <2>6
<1>6. QED
  BY <1>4, <1>5

LEMMA MeaningIs ==
    ASSUME NEW ops \in Seq(Operation), NEW ps
    PROVE  \E f : Runs(f, ops, ps, Len(ops)) /\ Meaning(ops, ps) = f[Len(ops)]
<1> DEFINE Def(h) == [n \in 0 .. Len(ops) |-> IF n = 0 THEN ps ELSE Effect(ops[n], h[n - 1])]
           after == CHOOSE h : h = Def(h)
<1>1. PICK f : Runs(f, ops, ps, Len(ops))
  BY RunExists
<1>2. Len(ops) \in Nat
  OBVIOUS
<1>3. f = Def(f)
  <2>1. \A n \in 0 .. Len(ops) : f[n] = IF n = 0 THEN ps ELSE Effect(ops[n], f[n - 1])
    BY <1>1, <1>2 DEF Runs
  <2>2. QED
    BY <1>1, <2>1 DEF Runs
<1>4. after = Def(after)
  <2> HIDE DEF Def
  <2>1. QED
    BY <1>3, Zenon
<1>5. Meaning(ops, ps) = after[Len(ops)]
  BY DEF Meaning
<1>6. Runs(after, ops, ps, Len(ops))
  <2> HIDE DEF after
  <2>1. \A n \in 0 .. Len(ops) : after[n] = IF n = 0 THEN ps ELSE Effect(ops[n], after[n - 1])
    BY <1>4
  <2>2. QED
    BY <1>2, <1>4, <2>1 DEF Runs
<1>7. QED
  BY <1>5, <1>6

\* Operations that are not tangled mean what Collapse makes of them.
LEMMA UntangledMeaning ==
    ASSUME NEW ops \in Seq(Operation), NEW ps, ~Tangled(ops)
    PROVE  Meaning(ops, ps) =
               ((IF Collapse(ops).replaces THEN {} ELSE ps) \cup Collapse(ops).add) \ Collapse(ops).remove
<1>1. PICK f : Runs(f, ops, ps, Len(ops)) /\ Meaning(ops, ps) = f[Len(ops)]
  BY MeaningIs
<1> DEFINE So(n) == (Base(ops, ps, n) \cup Named(ops, "add", n)) \ Named(ops, "remove", n)
           Off == {n \in 0 .. Len(ops) : f[n] # So(n)}
<1>2. Len(ops) \in Nat /\ DOMAIN ops = 1 .. Len(ops)
  OBVIOUS
<1>3. ASSUME Off # {} PROVE FALSE
  <2>1. PICK n \in Off : \A y \in Off : n <= y
    <3>1. Off \in SUBSET Nat
      OBVIOUS
    <3> HIDE DEF Off
    <3>2. QED
      BY <1>3, <3>1, MinExists
  <2>2. n \in 0 .. Len(ops) /\ f[n] # So(n)
    BY <2>1
  <2>3. So(0) = ps
    BY BaseIs, NamedEnds
  <2>4. n # 0
    BY <1>1, <2>2, <2>3 DEF Runs
  <2>5. n \in 1 .. Len(ops) /\ n - 1 \in 0 .. Len(ops) /\ n - 1 \notin Off
    BY <1>2, <2>1, <2>2, <2>4
  <2>6. f[n - 1] = So(n - 1)
    BY <2>5
  <2>7. f[n] = Effect(ops[n], So(n - 1))
    BY <1>1, <2>5, <2>6 DEF Runs
  <2>8. /\ Named(ops, "add", n) =
               Named(ops, "add", n - 1) \cup (IF ops[n].op = "add" THEN ops[n].users ELSE {})
        /\ Named(ops, "remove", n) =
               Named(ops, "remove", n - 1) \cup (IF ops[n].op = "remove" THEN ops[n].users ELSE {})
        /\ Base(ops, ps, n) = IF ops[n].op = "replace" THEN ops[n].users ELSE Base(ops, ps, n - 1)
    BY <2>5, BaseIs, NamedNext
  <2>9. CASE ops[n].op \notin {"replace", "add", "remove"}
    BY <2>2, <2>7, <2>8, <2>9 DEF Effect
  <2>10. CASE ops[n].op = "remove"
    BY <2>2, <2>7, <2>8, <2>10 DEF Effect
  <2>11. CASE ops[n].op = "add"
    <3>1. ASSUME NEW i \in Upto(ops, "remove", n), NEW p \in ops[i].users, p \in ops[n].users
          PROVE  FALSE
      <4>1. i \in DOMAIN ops /\ n \in DOMAIN ops /\ ops[i].op = "remove" /\ i < n
        BY <1>2, <2>5, <2>11 DEF Upto, Of
      <4>2. QED
        BY <2>11, <3>1, <4>1 DEF Tangled
    <3>2. \A p \in Named(ops, "remove", n) : p \notin ops[n].users
      BY <3>1 DEF Named
    <3>3. QED
      BY <2>2, <2>7, <2>8, <2>11, <3>2 DEF Effect
  <2>12. CASE ops[n].op = "replace"
    <3>1. ASSUME NEW kind \in {"add", "remove"}, NEW i \in Upto(ops, kind, n) PROVE FALSE
      <4>1. i \in DOMAIN ops /\ n \in DOMAIN ops /\ ops[i].op = kind /\ i < n
        BY <1>2, <2>5, <2>12 DEF Upto, Of
      <4>2. QED
        BY <2>12, <4>1 DEF Tangled
    <3>2. Named(ops, "add", n) = {} /\ Named(ops, "remove", n) = {}
      BY <3>1 DEF Named
    <3>3. QED
      BY <2>2, <2>7, <2>8, <2>12, <3>2 DEF Effect
  <2>13. QED
    BY <2>9, <2>10, <2>11, <2>12
<1>4. f[Len(ops)] = So(Len(ops))
  BY <1>2, <1>3
<1>5. So(Len(ops)) = ((IF Has(ops, "replace") THEN LastOf(ops, "replace").users ELSE ps)
                       \cup UsersOf(ops, "add")) \ UsersOf(ops, "remove")
  BY BaseIs, NamedEnds
<1>6. /\ Collapse(ops).replaces = Has(ops, "replace")
      /\ Collapse(ops).add = UsersOf(ops, "add")
                \cup (IF Has(ops, "replace") THEN LastOf(ops, "replace").users ELSE {})
      /\ Collapse(ops).remove = UsersOf(ops, "remove")
  BY DEF Collapse
<1>7. QED
  BY <1>1, <1>4, <1>5, <1>6

-----------------------------------------------------------------------------
(* The members a change replaces. *)

\* A change that nothing came in between of has deleted the memberships there are.
ClearedInv ==
    \A r \in Requests : At(r, {"replaced"}) /\ req[r].alone =>
        req[r].cleared = IF Collapse(req[r].ops).replaces THEN members ELSE {}

\* From where it has deleted them a change is committed or rolled back.
LEMMA FromReplaced ==
    ASSUME TypeInv, NEW r \in Requests, UserStep(r) \/ GroupStep(r) \/ Abort(r),
           At(r, {"replaced"})
    PROVE  GroupCommit(r) \/ req'[r].pc = "done"
<1>1. CASE Abort(r)
  BY <1>1 DEF Abort, End, Done, TypeInv
<1>2. CASE ~Abort(r)
  BY <1>2 DEF UserStep, GroupStep, At, AdminCheck, AdminLoad, AdminDelete, Commit, Load, ScimMiss,
     LoginRead, ScimInsert, LoginUpsert, ClaimLoad, ClaimCommit, GroupOpen, GroupReplace,
     GroupDelete, GroupCreate, SyncFind, SyncGrant, SyncRevoke, SyncCommit
<1>3. QED
  BY <1>1, <1>2

\* Only a deletion on behalf of an administrator changes the members and lets other
\* changes of the group believe they are alone.
LEMMA MembersStep ==
    ASSUME TypeInv, NEW r \in Requests, UserStep(r) \/ GroupStep(r) \/ Abort(r)
    PROVE  \/ members' = members
           \/ AdminDelete(r)
           \/ \A q \in Requests \ {r} : At(q, Writing) => ~req'[q].alone
<1>1. CASE GroupCommit(r) \/ GroupDelete(r)
           \/ \E n \in Names, ps \in SUBSET Persons : GroupCreate(r, n, ps)
  <2>1. EndsAs(r, Committing) /\ Committing \in Request /\ req \in [Requests -> Request]
    BY <1>1 DEF GroupCommit, GroupDelete, GroupCreate, Committed, Committing, EndsAs, Request, TypeInv
  <2>2. ASSUME NEW q \in Requests \ {r}, At(q, Writing) PROVE ~req'[q].alone
    <3>1. req'[q] = [req[q] EXCEPT !.alone = FALSE]
      BY <2>1, <2>2, DisturbIs DEF At
    <3>2. req[q] \in Change
      BY <2>1, <2>2, KindOf DEF At
    <3>3. QED
      BY <3>1, <3>2 DEF Change
  <2>3. QED
    BY <2>2
<1>2. CASE AdminDelete(r)
  BY <1>2
<1>3. QED
  BY <1>1, <1>2 DEF UserStep, GroupStep, groups, AdminCheck, AdminLoad, Commit, Load, ScimMiss,
     LoginRead, ScimInsert, LoginUpsert, ClaimLoad, ClaimCommit, GroupOpen, GroupReplace,
     SyncFind, SyncGrant, SyncRevoke, SyncCommit, Abort

LEMMA ToReplaced ==
    ASSUME TypeInv, NEW r \in Requests, UserStep(r) \/ GroupStep(r) \/ Abort(r),
           At(r, {"replaced"})'
    PROVE  GroupReplace(r)
<1>a. req \in [Requests -> Request] /\ Done \in Request /\ Committing \in Request
  BY DEF TypeInv, Request
<1>b. req'[r].pc = "replaced"
  BY DEF At
<1>1. CASE Commit(r) \/ ClaimCommit(r) \/ SyncCommit(r)
  <2>1. EndsAs(r, Done)
    BY <1>1 DEF Commit, ClaimCommit, SyncCommit, EndsAs
  <2>2. req'[r] = Done
    BY <1>a, <2>1, EndsIs
  <2>3. QED
    BY <1>b, <2>2 DEF Done
<1>2. CASE GroupCommit(r) \/ GroupDelete(r)
           \/ \E n \in Names, ps \in SUBSET Persons : GroupCreate(r, n, ps)
  <2>1. EndsAs(r, Committing)
    BY <1>2 DEF GroupCommit, GroupDelete, GroupCreate, Committed, Committing, EndsAs
  <2>2. req'[r] = Committing
    BY <1>a, <2>1, EndsIs
  <2>3. QED
    BY <1>b, <2>2 DEF Committing
<1>3. CASE \E p \in Persons, b \in BOOLEAN : ScimMiss(r, p, b) \/ LoginRead(r, p, b)
  BY <1>a, <1>b, <1>3 DEF ScimMiss, LoginRead
<1>4. CASE AdminDelete(r) \/ ScimInsert(r) \/ Abort(r)
  <2>1. req' = [req EXCEPT ![r] = Done]
    BY <1>4 DEF AdminDelete, ScimInsert, Abort, End
  <2>2. QED
    BY <1>a, <1>b, <2>1 DEF Done
<1>5. CASE LoginUpsert(r) \/ ClaimLoad(r)
  <2>1. req[r] \in Login
    BY <1>a, <1>5, KindOf DEF LoginUpsert, ClaimLoad, At
  <2>2. QED
    BY <1>a, <1>b, <1>5, <2>1 DEF LoginUpsert, ClaimLoad, End, Done, Login
<1>6. CASE \E ops \in Changes : GroupOpen(r, ops)
  BY <1>a, <1>b, <1>6 DEF GroupOpen
<1>7. CASE Asks(r)
  BY <1>b, <1>7, AsksIs
<1>8. CASE SyncFind(r)
  <2> DEFINE x == [pc |-> "found", id |-> IF group.name = "target" THEN group.id ELSE -1,
                   grant |-> {}, revoke |-> {}, alone |-> TRUE]
  <2>1. req' = [req EXCEPT ![r] = x] \/ req' = [req EXCEPT ![r] = Done]
    BY <1>8 DEF SyncFind, End
  <2>2. x.pc = "found"
    OBVIOUS
  <2> HIDE DEF x
  <2>3. QED
    BY <1>a, <1>b, <2>1, <2>2 DEF Done
<1>9. CASE SyncGrant(r) \/ SyncRevoke(r)
  <2>1. req[r] \in Sync
    BY <1>a, <1>9, KindOf DEF SyncGrant, SyncRevoke, At, Syncing
  <2>2. QED
    BY <1>a, <1>b, <1>9, <2>1 DEF SyncGrant, SyncRevoke, Sync
<1>10. QED
  BY <1>1, <1>2, <1>3, <1>4, <1>5, <1>6, <1>7, <1>8, <1>9 DEF UserStep, GroupStep, Asks

LEMMA ClearedStep ==
    ASSUME TypeInv, ClearedInv, NEW r \in Requests, UserStep(r) \/ GroupStep(r) \/ Abort(r)
    PROVE  ClearedInv'
<1>a. req \in [Requests -> Request]
  BY DEF TypeInv
<1>1. SUFFICES ASSUME NEW q \in Requests, At(q, {"replaced"})', req'[q].alone
               PROVE  req'[q].cleared = IF Collapse(req'[q].ops).replaces THEN members' ELSE {}
  BY DEF ClearedInv
<1>2. CASE q = r
  <2>1. GroupReplace(r)
    BY <1>1, <1>2, ToReplaced
  <2>2. req[r] \in Change
    BY <1>a, <2>1, KindOf DEF GroupReplace, At, Writing
  <2>3. /\ req' = [req EXCEPT ![r].pc = "replaced",
                              ![r].cleared = IF Collapse(req[r].ops).replaces THEN members ELSE {}]
        /\ members' = members
    BY <2>1 DEF GroupReplace, groups
  <2>4. /\ req'[r].cleared = IF Collapse(req[r].ops).replaces THEN members ELSE {}
        /\ req'[r].ops = req[r].ops
    BY <1>a, <2>2, <2>3 DEF Change
  <2>5. QED
    BY <1>2, <2>3, <2>4
<1>3. CASE q # r
  <2>1. Kept(q)
    BY <1>3, OthersKeep
  <2>2. req'[q] = req[q] /\ At(q, {"replaced"})
    BY <1>1, <2>1, KeptIs DEF At
  <2>3. req[q].cleared = IF Collapse(req[q].ops).replaces THEN members ELSE {}
    BY <1>1, <2>2 DEF ClearedInv
  <2>4. CASE members' = members
    BY <2>2, <2>3, <2>4
  <2>5. CASE AdminDelete(r)
    <3>1. req[r].who \notin req[q].cleared /\ members' = members \ {req[r].who}
      BY <2>2, <2>5 DEF AdminDelete
    <3>2. QED
      BY <2>2, <2>3, <3>1
  <2>6. CASE \A p \in Requests \ {r} : At(p, Writing) => ~req'[p].alone
    BY <1>1, <1>3, <2>2, <2>6 DEF At, Writing
  <2>7. QED
    BY <2>4, <2>5, <2>6, MembersStep
<1>4. QED
  BY <1>2, <1>3

LEMMA Cleared == Spec => []ClearedInv
<1>1. Init => ClearedInv
  BY DEF Init, Unused, ClearedInv, At
<1>2. TypeInv /\ ClearedInv /\ [Next]_vars => ClearedInv'
  <2>1. SUFFICES ASSUME TypeInv, ClearedInv, [Next]_vars PROVE ClearedInv'
    OBVIOUS
  <2>2. CASE UNCHANGED vars
    BY <2>1, <2>2 DEF vars, groups, ClearedInv, At
  <2>3. CASE Next
    BY <2>1, <2>3, ClearedStep DEF Next
  <2>4. QED
    BY <2>1, <2>2, <2>3
<1>3. QED
  BY <1>1, <1>2, TypeLock, PTL DEF Spec

\* One replacement, one addition and one removal have done what the operations of a PATCH
\* say in their order, when it commits.
THEOREM PatchesAreFaithful == Spec => MembersAsAsked
<1>1. ASSUME TypeInv, ClearedInv, [Next]_vars, NEW r \in Requests,
             At(r, {"replaced"}), req'[r].pc = "committed", req[r].alone, ~Tangled(req[r].ops)
      PROVE  members' = Meaning(req[r].ops, members) \cap rows
  <2> DEFINE asked == Collapse(req[r].ops)
  <2>1. req[r].pc = "replaced" /\ req' # req
    BY <1>1 DEF At
  <2>2. PICK q \in Requests : UserStep(q) \/ GroupStep(q) \/ Abort(q)
    BY <1>1, <2>1 DEF Next, vars
  <2>3. q = r
    <3>1. SUFFICES ASSUME q # r PROVE FALSE
      OBVIOUS
    <3>2. Kept(r)
      BY <1>1, <2>2, <3>1, OthersKeep
    <3>3. QED
      BY <1>1, <2>1, <3>2, KeptIs
  <2>4. GroupCommit(r)
    BY <1>1, <2>2, <2>3, FromReplaced
  <2>5. req[r].ops \in Seq(Operation)
    <3>1. req[r] \in Change
      BY <1>1, KindOf DEF At, Writing, TypeInv
    <3>2. QED
      BY <3>1, IdentityAssumption DEF Change, IdentityAssumption
  <2>6. Meaning(req[r].ops, members) =
            ((IF asked.replaces THEN {} ELSE members) \cup asked.add) \ asked.remove
    BY <1>1, <2>5, UntangledMeaning
  <2>7. members' = ((members \ req[r].cleared) \cup (asked.add \cap rows)) \ asked.remove
    BY <2>4 DEF GroupCommit, Valid
  <2>8. req[r].cleared = IF asked.replaces THEN members ELSE {}
    BY <1>1 DEF ClearedInv
  <2>9. members \subseteq rows
    BY <1>1 DEF TypeInv, TypeOK
  <2> HIDE DEF asked
  <2>10. QED
    BY <2>6, <2>7, <2>8, <2>9
<1>2. TypeInv /\ ClearedInv /\ [Next]_vars =>
        [\A r \in Requests :
            At(r, {"replaced"}) /\ req'[r].pc = "committed" /\ req[r].alone
                /\ ~Tangled(req[r].ops)
            => members' = Meaning(req[r].ops, members) \cap rows]_vars
  BY <1>1
<1>3. QED
  BY <1>2, TypeLock, Cleared, PTL DEF Spec, MembersAsAsked
=============================================================================
