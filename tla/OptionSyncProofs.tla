-------------------------- MODULE OptionSyncProofs --------------------------
(***************************************************************************)
(* Theorems about OptionSync, for any values, tabs and bounds: what the     *)
(* server makes of a page of options and what the browser gets back.        *)
(***************************************************************************)
EXTENDS OptionSync, FiniteSetTheorems, SequenceTheorems, WellFoundedInduction, TLAPS

(***************************************************************************)
(* Counting.                                                               *)
(***************************************************************************)

\* A part of a finite set that lacks something is smaller.
LEMMA Fewer ==
    ASSUME NEW S, IsFiniteSet(S), NEW T \in SUBSET S, NEW x \in S \ T
    PROVE  /\ IsFiniteSet(T) /\ Cardinality(T) \in Nat /\ Cardinality(S) \in Nat
           /\ Cardinality(T) < Cardinality(S)
<1>1. IsFiniteSet(T) /\ Cardinality(T) <= Cardinality(S) /\ Cardinality(S) # Cardinality(T)
  BY FS_Subset
<1>2. Cardinality(T) \in Nat /\ Cardinality(S) \in Nat
  BY <1>1, FS_CardinalityType
<1>3. QED
  BY <1>1, <1>2

\* A set of numbers has a least one.
LEMMA Least ==
    ASSUME NEW S \in SUBSET Nat, S # {}
    PROVE  \E n \in S : \A m \in S : n <= m
<1>1. PICK n \in S : \A m \in S : <<m, n>> \notin OpToRel(<, Nat)
  BY WFMin, NatLessThanWellFounded
<1>2. \A m \in S : ~(m < n)
  BY <1>1 DEF OpToRel
<1>3. QED
  BY <1>2

\* A finite set of integers has a greatest one: the one with the fewest above it.
LEMMA Greatest ==
    ASSUME NEW S \in SUBSET Int, IsFiniteSet(S), S # {}
    PROVE  \E m \in S : \A n \in S : n <= m
<1> DEFINE Above(m) == {n \in S : m < n}
           counts == {Cardinality(Above(m)) : m \in S}
<1>1. \A m \in S : IsFiniteSet(Above(m)) /\ Cardinality(Above(m)) \in Nat
  BY FS_Subset, FS_CardinalityType
<1>2. counts \in SUBSET Nat /\ counts # {}
  BY <1>1
<1>3. PICK c \in counts : \A d \in counts : c <= d
  BY <1>2, Least
<1>4. PICK m \in S : c = Cardinality(Above(m))
  OBVIOUS
<1>5. ASSUME NEW n \in S, m < n PROVE FALSE
  <2>1. n \in Int /\ m \in Int /\ \A x \in S : x \in Int /\ (n < x => m < x)
    BY <1>5
  <2>2. Above(n) \in SUBSET Above(m) /\ n \in Above(m) \ Above(n)
    <3>1. \A x : x \in Above(n) => x \in Above(m)
      BY <2>1
    <3>2. n \in Above(m) /\ n \notin Above(n)
      BY <1>5, <2>1
    <3> HIDE DEF Above
    <3>3. QED
      BY <3>1, <3>2
  <2>3. Cardinality(Above(n)) < Cardinality(Above(m))
    BY <1>1, <2>2, Fewer
  <2>4. Cardinality(Above(n)) \in counts
    OBVIOUS
  <2>5. Cardinality(Above(m)) <= Cardinality(Above(n))
    BY <1>3, <1>4, <2>4
  <2>6. Cardinality(Above(m)) \in Nat /\ Cardinality(Above(n)) \in Nat
    BY <1>1
  <2> HIDE DEF Above
  <2>7. QED
    BY <2>3, <2>5, <2>6
<1>6. QED
  BY <1>5

\* A one-to-one map into a set of the same size reaches all of it.
LEMMA Reaches ==
    ASSUME NEW S, NEW T, IsFiniteSet(T), Cardinality(S) = Cardinality(T),
           NEW f \in [S -> T], \A x, y \in S : f[x] = f[y] => x = y, NEW z \in T
    PROVE  \E x \in S : f[x] = z
<1>1. f \in Injection(S, T)
  BY DEF Injection, IsInjective
<1>2. f \in Surjection(S, T)
  BY <1>1, FS_Injection
<1>3. QED
  BY <1>2 DEF Surjection

\* The image of a finite set under a one-to-one map has its size.
LEMMA SameSize ==
    ASSUME NEW S, NEW T, IsFiniteSet(S), NEW f \in [S -> T],
           \A x, y \in S : f[x] = f[y] => x = y, \A z \in T : \E x \in S : f[x] = z
    PROVE  IsFiniteSet(T) /\ Cardinality(T) = Cardinality(S)
<1>1. f \in Bijection(S, T)
  BY DEF Bijection, Injection, Surjection, IsInjective
<1>2. QED
  BY <1>1, FS_Bijection DEF ExistsBijection

(***************************************************************************)
(* Rows and pages.                                                         *)
(***************************************************************************)

GroupKeys == {"id", "new"} \X Nat
Keys      == {"null", "id", "new"} \X Nat
Entry     == [label : Labels, key : Keys]

\* The rows: those of voters are in no group.
RowsGood ==
    /\ DOMAIN option \subseteq 1 .. nextId /\ nextId \in Nat
    /\ \A o \in DOMAIN option :
          option[o] \in [label : Labels, order : Nat, custom : BOOLEAN,
                         group : DOMAIN group \cup {Ungrouped}]
    /\ DOMAIN group \subseteq 1 .. nextGroupId /\ nextGroupId \in Nat
    /\ \A n \in DOMAIN group : group[n] \in 0 .. MaxCap
    /\ \A o, p \in Regular : option[o].order = option[p].order => o = p
    /\ \A o \in DOMAIN option : option[o].custom => option[o].group = Ungrouped

\* A page: the groups its options refer to are on it.
PageGood(p) ==
    /\ p.options \in Seq(Entry)
    /\ DOMAIN p.groups \subseteq GroupKeys /\ IsFiniteSet(DOMAIN p.groups)
    /\ \A key \in DOMAIN p.groups : p.groups[key] \in 0 .. MaxCap
    /\ Valid(p)

SyncInv ==
    /\ RowsGood /\ nextId <= MaxIds /\ nextGroupId <= MaxGroupIds
    /\ nextToken \in 0 .. MaxGroupIds
    /\ \A t \in DOMAIN page : PageGood(page[t])

(***************************************************************************)
(* The page made from the rows.                                            *)
(***************************************************************************)

LEMMA RegularFinite ==
    RowsGood => /\ Regular \in SUBSET Nat /\ IsFiniteSet(Regular)
                /\ Cardinality(Regular) \in Nat
<1> SUFFICES ASSUME RowsGood
             PROVE  /\ Regular \in SUBSET Nat /\ IsFiniteSet(Regular)
                    /\ Cardinality(Regular) \in Nat
  OBVIOUS
<1>1. IsFiniteSet(1 .. nextId)
  BY FS_Interval DEF RowsGood
<1>2. Regular \in SUBSET (1 .. nextId) /\ 1 .. nextId \subseteq Nat
  BY DEF RowsGood, Regular
<1>3. QED
  BY <1>1, <1>2, FS_Subset, FS_CardinalityType

Rank(o) == Cardinality({p \in Regular : Before(p, o)})

\* The rank of an option is its place in the sort order.
LEMMA Ranks ==
    RowsGood => /\ \A o \in Regular : Rank(o) \in 0 .. Cardinality(Regular) - 1
                /\ \A o, p \in Regular : Rank(o) = Rank(p) => o = p
<1> SUFFICES ASSUME RowsGood
             PROVE  /\ \A o \in Regular : Rank(o) \in 0 .. Cardinality(Regular) - 1
                    /\ \A o, p \in Regular : Rank(o) = Rank(p) => o = p
  OBVIOUS
<1> DEFINE Ahead(o) == {p \in Regular : Before(p, o)}
<1>0. \A o \in Regular : o \in Nat /\ option[o].order \in Nat
  BY RegularFinite DEF RowsGood, Regular
<1>1. \A o \in Regular : Ahead(o) \in SUBSET Regular /\ o \in Regular \ Ahead(o)
  BY <1>0 DEF Before
<1>2. \A o \in Regular : /\ IsFiniteSet(Ahead(o)) /\ Cardinality(Ahead(o)) \in Nat
                         /\ Cardinality(Ahead(o)) < Cardinality(Regular)
  BY <1>1, RegularFinite, Fewer
<1>3. \A o \in Regular : Rank(o) \in 0 .. Cardinality(Regular) - 1
  BY <1>2, RegularFinite DEF Rank
<1>4. ASSUME NEW o \in Regular, NEW p \in Regular, Before(p, o)
      PROVE  Rank(p) < Rank(o)
  <2>1. Ahead(p) \in SUBSET Ahead(o) /\ p \in Ahead(o) \ Ahead(p)
    BY <1>0, <1>4 DEF Before
  <2>2. QED
    BY <1>2, <2>1, Fewer DEF Rank
<1>5. \A o, p \in Regular : o # p => Before(o, p) \/ Before(p, o)
  BY <1>0 DEF Before
<1>6. \A o, p \in Regular : Rank(o) = Rank(p) => o = p
  BY <1>3, <1>4, <1>5, RegularFinite
<1>7. QED
  BY <1>3, <1>6

\* There is an option at every place of the page, and the page shows it.
LEMMA NthIs ==
    RowsGood => \A i \in 1 .. Cardinality(Regular) : Nth(i) \in Regular /\ Rank(Nth(i)) = i - 1
<1> SUFFICES ASSUME RowsGood, NEW i \in 1 .. Cardinality(Regular)
             PROVE  Nth(i) \in Regular /\ Rank(Nth(i)) = i - 1
  OBVIOUS
<1> DEFINE N == Cardinality(Regular)
           T == 0 .. N - 1
           f == [o \in Regular |-> Rank(o)]
<1>0. N \in Nat
  BY RegularFinite
<1>1. f \in [Regular -> T] /\ \A o, p \in Regular : f[o] = f[p] => o = p
  BY Ranks
<1>2. IsFiniteSet(T) /\ N = Cardinality(T)
  <2>1. N - 1 \in Int /\ 0 \in Int
    BY <1>0
  <2>2. IsFiniteSet(0 .. N - 1)
        /\ Cardinality(0 .. N - 1) = IF 0 > N - 1 THEN 0 ELSE N - 1 - 0 + 1
    BY <2>1, FS_Interval
  <2>3. QED
    BY <1>0, <2>2
<1>3. i - 1 \in T
  BY <1>0
<1> HIDE DEF f, T
<1>4. \A z \in T : \E x \in Regular : f[x] = z
  BY <1>1, <1>2, Reaches
<1>5. \E q \in Regular : Rank(q) = i - 1
  BY <1>3, <1>4 DEF f
<1>6. QED
  BY <1>5 DEF Nth, Rank

\* What a page made from the rows shows, and that it is well formed.
LEMMA RenderedIs ==
    /\ Rendered.options = [i \in 1 .. Cardinality(Regular) |->
                             [label |-> option[Nth(i)].label, key |-> KeyOf(Nth(i))]]
    /\ DOMAIN Rendered.groups = {Id(n) : n \in DOMAIN group}
    /\ \A n \in DOMAIN group : Rendered.groups[Id(n)] = group[n]
<1>1. \A n \in DOMAIN group : Id(n) \in {Id(m) : m \in DOMAIN group} /\ Id(n)[2] = n
  BY DEF Id
<1>2. QED
  BY <1>1 DEF Rendered

LEMMA RenderedGood == RowsGood => PageGood(Rendered)
<1> SUFFICES ASSUME RowsGood PROVE PageGood(Rendered)
  OBVIOUS
<1> DEFINE N == Cardinality(Regular)
           shown(i) == [label |-> option[Nth(i)].label, key |-> KeyOf(Nth(i))]
<1>0. N \in Nat
  BY RegularFinite
<1>1. \A o \in Regular : /\ option[o].label \in Labels
                         /\ option[o].group \in DOMAIN group \cup {Ungrouped}
  BY DEF RowsGood, Regular
<1>2. \A n \in DOMAIN group : n \in Nat
  BY DEF RowsGood
<1>3. \A o \in Regular : /\ KeyOf(o) \in {Id(n) : n \in DOMAIN group} \cup {NoKey}
                         /\ KeyOf(o) \in Keys
  BY <1>1, <1>2 DEF KeyOf, Id, NoKey, Keys
<1>4. \A i \in 1 .. N : shown(i) \in Entry /\ shown(i).key \in {Id(n) : n \in DOMAIN group} \cup {NoKey}
  BY <1>1, <1>3, NthIs DEF Entry
<1>5. Rendered.options = [i \in 1 .. N |-> shown(i)]
  BY RenderedIs
<1> HIDE DEF N, shown
<1>6. Rendered.options \in Seq(Entry)
  BY <1>0, <1>4, <1>5, IsASeq
<1>7. Valid(Rendered)
  BY <1>4, <1>5, RenderedIs DEF Valid
<1>8. DOMAIN Rendered.groups \subseteq GroupKeys
  BY <1>2, RenderedIs DEF GroupKeys, Id
<1>9. IsFiniteSet(DOMAIN Rendered.groups)
  <2>1. IsFiniteSet(DOMAIN group)
    <3>1. IsFiniteSet(1 .. nextGroupId)
      BY FS_Interval DEF RowsGood
    <3>2. QED
      BY <3>1, FS_Subset DEF RowsGood
  <2>2. IsFiniteSet({Id(n) : n \in DOMAIN group})
    <3> DEFINE ids == {Id(n) : n \in DOMAIN group}
               f == [n \in DOMAIN group |-> Id(n)]
    <3>1. f \in [DOMAIN group -> ids] /\ \A z \in ids : \E n \in DOMAIN group : f[n] = z
      OBVIOUS
    <3>2. f \in Surjection(DOMAIN group, ids)
      BY <3>1 DEF Surjection
    <3> HIDE DEF f, ids
    <3>3. IsFiniteSet(ids)
      BY <2>1, <3>2, FS_Surjection
    <3>4. QED
      BY <3>3 DEF ids
  <2>3. QED
    BY <2>2, RenderedIs
<1>10. \A key \in DOMAIN Rendered.groups : Rendered.groups[key] \in 0 .. MaxCap
  BY RenderedIs DEF RowsGood
<1>11. QED
  BY <1>6, <1>7, <1>8, <1>9, <1>10 DEF PageGood

(***************************************************************************)
(* The owner at a page.                                                    *)
(***************************************************************************)

LEMMA EntryOf ==
    ASSUME NEW p, PageGood(p)
    PROVE  /\ Len(p.options) \in Nat /\ DOMAIN p.options = 1 .. Len(p.options)
           /\ \A i \in DOMAIN p.options :
                 /\ p.options[i] \in Entry
                 /\ p.options[i].label \in Labels
                 /\ p.options[i].key \in DOMAIN p.groups \cup {NoKey}
<1>1. p.options \in Seq(Entry) /\ Valid(p)
  BY DEF PageGood
<1>2. /\ Len(p.options) \in Nat /\ DOMAIN p.options = 1 .. Len(p.options)
      /\ \A i \in 1 .. Len(p.options) : p.options[i] \in Entry
  BY <1>1, LenProperties, ElementOfSeq
<1>3. \A i \in DOMAIN p.options : p.options[i].label \in Labels
  BY <1>2 DEF Entry
<1>4. QED
  BY <1>1, <1>2, <1>3 DEF Valid

LEMMA KeysAre ==
    ASSUME NEW p, PageGood(p), NEW key \in DOMAIN p.groups \cup {NoKey}, NEW l \in Labels
    PROVE  [label |-> l, key |-> key] \in Entry
BY DEF PageGood, GroupKeys, NoKey, Keys, Entry

\* A change to one page leaves the rest as it is.
LEMMA ShownGood ==
    ASSUME SyncInv, NEW t \in DOMAIN page, NEW options, NEW groups,
           Shown(t, options, groups), UNCHANGED rows, nextToken' \in 0 .. MaxGroupIds,
           PageGood([options |-> options, groups |-> groups])
    PROVE  SyncInv'
<1>1. page' = [page EXCEPT ![t] = [options |-> options, groups |-> groups]]
      /\ UNCHANGED <<option, group, nextId, nextGroupId>>
  BY DEF Shown, rows
<1>2. RowsGood'
  BY <1>1 DEF SyncInv, RowsGood, Regular
<1>3. \A u \in DOMAIN page' : PageGood(page'[u])
  BY <1>1 DEF SyncInv
<1>4. \A u \in DOMAIN page' : PageGood(page[u])'
  BY <1>3 DEF PageGood, Valid
<1>5. QED
  BY <1>1, <1>2, <1>4 DEF SyncInv

LEMMA MadeGood ==
    ASSUME NEW p, PageGood(p), NEW options \in Seq(Entry),
           \A i \in 1 .. Len(options) : options[i].key \in DOMAIN p.groups \cup {NoKey}
    PROVE  PageGood([options |-> options, groups |-> p.groups])
<1>1. DOMAIN options = 1 .. Len(options)
  BY LenProperties
<1>2. QED
  BY <1>1 DEF PageGood, Valid

LEMMA EditStep ==
    ASSUME SyncInv, NEW t \in DOMAIN page, Edit(t)
    PROVE  SyncInv'
<1> DEFINE shown == page[t].options
           groups == page[t].groups
<1>0. /\ PageGood(page[t]) /\ shown \in Seq(Entry) /\ nextToken \in 0 .. MaxGroupIds
      /\ Len(shown) \in Nat /\ DOMAIN shown = 1 .. Len(shown)
      /\ \A i \in 1 .. Len(shown) : /\ shown[i] \in Entry /\ shown[i].label \in Labels
                                    /\ shown[i].key \in DOMAIN groups \cup {NoKey}
  <2>1. PageGood(page[t]) /\ nextToken \in 0 .. MaxGroupIds
    BY DEF SyncInv
  <2>2. QED
    BY <2>1, EntryOf DEF PageGood
<1>1. ASSUME NEW l \in Labels, AddOption(t, l) PROVE SyncInv'
  <2> DEFINE key == IF shown = << >> THEN NoKey ELSE shown[Len(shown)].key
             new == [label |-> l, key |-> key]
  <2>1. key \in DOMAIN groups \cup {NoKey}
    BY <1>0, EmptySeq
  <2>2. new \in Entry /\ new.key = key
    BY <1>0, <2>1, KeysAre
  <2>3. /\ Shown(t, Append(shown, new), groups) /\ UNCHANGED <<rows, nextToken>>
    BY <1>1 DEF AddOption
  <2> HIDE DEF new, key
  <2>4. /\ Append(shown, new) \in Seq(Entry)
        /\ \A i \in 1 .. Len(Append(shown, new)) :
              Append(shown, new)[i].key \in DOMAIN groups \cup {NoKey}
    BY <1>0, <2>1, <2>2, AppendProperties
  <2>5. PageGood([options |-> Append(shown, new), groups |-> groups])
    BY <1>0, <2>4, MadeGood
  <2>6. QED
    BY <1>0, <2>3, <2>5, ShownGood
<1>2. ASSUME NEW i \in DOMAIN shown, Remove(t, i) PROVE SyncInv'
  <2> DEFINE front == SubSeq(shown, 1, i - 1)
             back  == SubSeq(shown, i + 1, Len(shown))
  <2>1. /\ Shown(t, front \o back, groups) /\ UNCHANGED <<rows, nextToken>>
    BY <1>2 DEF Remove
  <2>2. /\ front \in Seq(Entry) /\ Len(front) = i - 1
        /\ \A j \in 1 .. i - 1 : front[j] = shown[j]
    <3>1. \A j \in 1 .. i - 1 : shown[j] \in Entry
      BY <1>0
    <3>2. QED
      BY <1>0, <3>1, SubSeqProperties
  <2>3. /\ back \in Seq(Entry) /\ Len(back) = Len(shown) - i
        /\ \A j \in 1 .. Len(shown) - i : back[j] = shown[i + j]
    <3>1. \A j \in i + 1 .. Len(shown) : shown[j] \in Entry
      BY <1>0
    <3>2. QED
      BY <1>0, <3>1, SubSeqProperties
  <2> HIDE DEF front, back
  <2>4. /\ front \o back \in Seq(Entry) /\ Len(front \o back) = Len(front) + Len(back)
        /\ \A j \in 1 .. Len(front) + Len(back) :
              (front \o back)[j] = IF j <= Len(front) THEN front[j] ELSE back[j - Len(front)]
    BY <2>2, <2>3, ConcatProperties
  <2>5. \A j \in 1 .. Len(front \o back) : (front \o back)[j].key \in DOMAIN groups \cup {NoKey}
    <3> TAKE j \in 1 .. Len(front \o back)
    <3>1. CASE j <= i - 1
      <4>1. (front \o back)[j] = shown[j] /\ j \in 1 .. Len(shown)
        BY <1>0, <2>2, <2>3, <2>4, <3>1
      <4>2. QED
        BY <1>0, <4>1
    <3>2. CASE j > i - 1
      <4> DEFINE k == j - (i - 1)
      <4>1. k \in 1 .. Len(shown) - i /\ i + k = j + 1 /\ j + 1 \in 1 .. Len(shown)
        BY <1>0, <2>2, <2>3, <2>4, <3>2
      <4>2. (front \o back)[j] = back[k]
        BY <1>0, <2>2, <2>3, <2>4, <3>2
      <4>3. (front \o back)[j] = shown[j + 1]
        BY <2>3, <4>1, <4>2
      <4>4. QED
        BY <1>0, <4>1, <4>3
    <3>3. QED
      BY <1>0, <3>1, <3>2, <2>2, <2>3, <2>4
  <2>6. PageGood([options |-> front \o back, groups |-> groups])
    BY <1>0, <2>4, <2>5, MadeGood
  <2>7. QED
    BY <1>0, <2>1, <2>6, ShownGood
<1>3. ASSUME NEW i \in DOMAIN shown, Drag(t, i) PROVE SyncInv'
  <2> DEFINE moved == [shown EXCEPT ![i] = shown[i + 1], ![i + 1] = shown[i]]
  <2>1. /\ Shown(t, moved, groups) /\ UNCHANGED <<rows, nextToken>>
        /\ i + 1 \in 1 .. Len(shown)
    BY <1>0, <1>3 DEF Drag
  <2>2. moved \in [1 .. Len(shown) -> Entry]
        /\ \A j \in 1 .. Len(shown) : moved[j] \in {shown[j], shown[i], shown[i + 1]}
    BY <1>0, <2>1, LenProperties
  <2> HIDE DEF moved
  <2>3. moved \in Seq(Entry) /\ Len(moved) = Len(shown)
    BY <1>0, <2>2, LenProperties
  <2>4. \A j \in 1 .. Len(moved) : moved[j].key \in DOMAIN groups \cup {NoKey}
    BY <1>0, <2>1, <2>2, <2>3
  <2>5. PageGood([options |-> moved, groups |-> groups])
    BY <1>0, <2>3, <2>4, MadeGood
  <2>6. QED
    BY <1>0, <2>1, <2>5, ShownGood
<1>4. ASSUME NEW i \in DOMAIN shown, NEW l \in Labels, NEW key \in DOMAIN groups \cup {NoKey},
             Change(t, i, l, key)
      PROVE  SyncInv'
  <2> DEFINE changed == [shown EXCEPT ![i] = [label |-> l, key |-> key]]
  <2>1. Shown(t, changed, groups) /\ UNCHANGED <<rows, nextToken>>
    BY <1>4 DEF Change
  <2>2. [label |-> l, key |-> key] \in Entry
    BY <1>0, KeysAre
  <2>3. /\ changed \in Seq(Entry) /\ Len(changed) = Len(shown)
        /\ \A j \in 1 .. Len(shown) :
              changed[j] = IF j = i THEN [label |-> l, key |-> key] ELSE shown[j]
    BY <1>0, <2>2, ExceptSeq
  <2> HIDE DEF changed
  <2>4. \A j \in 1 .. Len(changed) : changed[j].key \in DOMAIN groups \cup {NoKey}
    BY <1>0, <2>3
  <2>5. PageGood([options |-> changed, groups |-> groups])
    BY <1>0, <2>3, <2>4, MadeGood
  <2>6. QED
    BY <1>0, <2>1, <2>5, ShownGood
<1>5. ASSUME NEW max \in 0 .. MaxCap, AddGroup(t, max) PROVE SyncInv'
  <2> DEFINE token == Token(nextToken + 1)
             more == [key \in DOMAIN groups \cup {token} |-> IF key = token THEN max
                                                             ELSE groups[key]]
  <2>1. /\ Shown(t, shown, more) /\ UNCHANGED rows
        /\ nextToken < MaxGroupIds /\ nextToken' = nextToken + 1
    BY <1>5 DEF AddGroup
  <2>2. token \in GroupKeys /\ nextToken' \in 0 .. MaxGroupIds
    BY <1>0, <2>1, SyncAssumption DEF Token, GroupKeys
  <2>3. IsFiniteSet(DOMAIN groups \cup {token})
    BY <1>0, FS_AddElement DEF PageGood
  <2> HIDE DEF token
  <2>4. PageGood([options |-> shown, groups |-> more])
    <3>1. DOMAIN more \subseteq GroupKeys /\ IsFiniteSet(DOMAIN more)
      BY <1>0, <2>2, <2>3 DEF PageGood
    <3>2. \A key \in DOMAIN more : more[key] \in 0 .. MaxCap
      BY <1>0 DEF PageGood
    <3>3. \A j \in DOMAIN shown : shown[j].key \in DOMAIN more \cup {NoKey}
      BY <1>0
    <3> HIDE DEF more
    <3>4. QED
      BY <1>0, <3>1, <3>2, <3>3 DEF PageGood, Valid
  <2>5. QED
    BY <2>1, <2>2, <2>4, ShownGood
<1>6. ASSUME NEW max \in 0 .. MaxCap, NEW key \in DOMAIN groups, SetCap(t, key, max)
      PROVE  SyncInv'
  <2>1. Shown(t, shown, [groups EXCEPT ![key] = max]) /\ UNCHANGED <<rows, nextToken>>
    BY <1>6 DEF SetCap
  <2>2. PageGood([options |-> shown, groups |-> [groups EXCEPT ![key] = max]])
    BY <1>0 DEF PageGood, Valid
  <2>3. QED
    BY <1>0, <2>1, <2>2, ShownGood
<1>7. ASSUME NEW key \in DOMAIN groups, RemoveGroup(t, key) PROVE SyncInv'
  <2> DEFINE left == [i \in DOMAIN shown |-> IF shown[i].key = key
                                             THEN [shown[i] EXCEPT !.key = NoKey] ELSE shown[i]]
             rest == GroupsWithout(t, key)
  <2>1. Shown(t, left, rest) /\ UNCHANGED <<rows, nextToken>>
    BY <1>7 DEF RemoveGroup
  <2>2. /\ DOMAIN rest = DOMAIN groups \ {key}
        /\ \A k \in DOMAIN rest : rest[k] = groups[k]
    BY DEF GroupsWithout
  <2> HIDE DEF rest
  <2>3. /\ DOMAIN rest \subseteq GroupKeys /\ IsFiniteSet(DOMAIN rest)
        /\ \A k \in DOMAIN rest : rest[k] \in 0 .. MaxCap
    BY <1>0, <2>2, FS_RemoveElement DEF PageGood
  <2>4. \A j \in 1 .. Len(shown) : left[j] \in Entry /\ left[j].key \in DOMAIN rest \cup {NoKey}
    BY <1>0, <2>2 DEF Entry, NoKey, Keys
  <2>5. DOMAIN left = 1 .. Len(shown) /\ left \in [1 .. Len(shown) -> Entry]
    BY <1>0, <2>4
  <2> HIDE DEF left
  <2>6. left \in Seq(Entry)
    BY <1>0, <2>5
  <2>7. PageGood([options |-> left, groups |-> rest])
    BY <2>3, <2>4, <2>5, <2>6 DEF PageGood, Valid
  <2>8. QED
    BY <1>0, <2>1, <2>7, ShownGood
<1>8. QED
  BY <1>1, <1>2, <1>3, <1>4, <1>5, <1>6, <1>7 DEF Edit

(***************************************************************************)
(* The ids a save gives out.                                               *)
(***************************************************************************)

\* _apply_groups: every group of the form has a row of its own.
LEMMA GroupIds ==
    ASSUME RowsGood, NEW form, PageGood(form)
    PROVE  /\ IsFiniteSet(NewKeys(form)) /\ Cardinality(NewKeys(form)) \in Nat
           /\ GroupId(form, NoKey) = Ungrouped /\ NoKey \notin DOMAIN form.groups
           /\ \A key \in DOMAIN form.groups :
                 GroupId(form, key) \in 1 .. nextGroupId + Cardinality(NewKeys(form))
           /\ \A k, l \in DOMAIN form.groups : GroupId(form, k) = GroupId(form, l) => k = l
<1> DEFINE news == NewKeys(form)
           Ahead(key) == {k \in news : Earlier(k, key)}
           existing == {Id(n) : n \in DOMAIN group}
<1>0. /\ nextGroupId \in Nat /\ DOMAIN group \subseteq 1 .. nextGroupId
      /\ DOMAIN form.groups \subseteq GroupKeys
  BY DEF RowsGood, PageGood
<1>1. /\ NoKey \notin DOMAIN form.groups /\ GroupId(form, NoKey) = Ungrouped
      /\ \A key \in GroupKeys : key # NoKey
  BY <1>0 DEF GroupKeys, NoKey, GroupId
<1>2. news \in SUBSET (DOMAIN form.groups)
  BY DEF NewKeys
<1>3. IsFiniteSet(news) /\ Cardinality(news) \in Nat
  BY <1>2, FS_Subset, FS_CardinalityType DEF PageGood
<1>4. \A k \in GroupKeys : ~Earlier(k, k)
  BY DEF GroupKeys, Earlier
<1>5. \A k, l \in GroupKeys : k # l => Earlier(k, l) \/ Earlier(l, k)
  BY DEF GroupKeys, Earlier
<1>6. \A j, k, l \in GroupKeys : Earlier(j, k) /\ Earlier(k, l) => Earlier(j, l)
  BY DEF GroupKeys, Earlier
<1>7. \A key \in news : /\ Ahead(key) \in SUBSET news /\ key \in news \ Ahead(key)
  BY <1>0, <1>2, <1>4
<1>8. \A key \in news : /\ IsFiniteSet(Ahead(key)) /\ Cardinality(Ahead(key)) \in Nat
                        /\ Cardinality(Ahead(key)) < Cardinality(news)
  BY <1>3, <1>7, Fewer
<1>9. ASSUME NEW k \in news, NEW l \in news, Earlier(k, l)
      PROVE  Cardinality(Ahead(k)) < Cardinality(Ahead(l))
  <2>1. Ahead(k) \in SUBSET Ahead(l) /\ k \in Ahead(l) \ Ahead(k)
    <3>1. \A j \in news : Earlier(j, k) => Earlier(j, l)
      BY <1>0, <1>2, <1>6, <1>9
    <3>2. QED
      BY <1>7, <1>9, <3>1
  <2>2. QED
    BY <1>8, <2>1, Fewer
<1>10. \A key \in news : GroupId(form, key) = nextGroupId + 1 + Cardinality(Ahead(key))
  BY <1>0, <1>1, <1>2 DEF GroupId
<1>11. \A key \in DOMAIN form.groups \ news :
          /\ key \in existing /\ GroupId(form, key) = key[2]
  BY <1>0, <1>1 DEF GroupId, NewKeys
<1>12. \A key \in existing : key[2] \in 1 .. nextGroupId /\ key = Id(key[2])
  BY <1>0 DEF Id
<1> HIDE DEF Ahead, existing, news
<1>13. \A key \in news : /\ GroupId(form, key) > nextGroupId
                         /\ GroupId(form, key) \in 1 .. nextGroupId + Cardinality(news)
  BY <1>0, <1>3, <1>8, <1>10
<1>14. \A key \in DOMAIN form.groups \ news :
          GroupId(form, key) \in 1 .. nextGroupId /\ key = Id(GroupId(form, key))
  BY <1>11, <1>12
<1>15. \A key \in DOMAIN form.groups : GroupId(form, key) \in 1 .. nextGroupId + Cardinality(news)
  BY <1>0, <1>3, <1>13, <1>14
<1>16. \A k, l \in news : GroupId(form, k) = GroupId(form, l) => k = l
  <2>1. SUFFICES ASSUME NEW k \in news, NEW l \in news, GroupId(form, k) = GroupId(form, l),
                        k # l
                 PROVE  FALSE
    OBVIOUS
  <2>2. Cardinality(Ahead(k)) = Cardinality(Ahead(l))
    BY <1>0, <1>8, <1>10, <2>1
  <2>3. Earlier(k, l) \/ Earlier(l, k)
    BY <1>0, <1>2, <1>5, <2>1
  <2>4. QED
    BY <1>8, <1>9, <2>2, <2>3
<1>17. \A k, l \in DOMAIN form.groups : GroupId(form, k) = GroupId(form, l) => k = l
  BY <1>0, <1>13, <1>14, <1>16
<1>18. QED
  BY <1>1, <1>3, <1>15, <1>17 DEF news

\* _apply_options: every option of the form has a row of its own, one there is if it
\* matches and a new one if it does not.
LEMMA RowIds ==
    ASSUME RowsGood, NEW form, PageGood(form), NEW match \in Candidates
    PROVE  /\ Cardinality(Unmatched(form, match)) \in Nat
           /\ \A i \in DOMAIN form.options :
                 IF Matches(form, match, i)
                 THEN /\ RowOf(form, match, i) \in Regular
                      /\ option[RowOf(form, match, i)].label = form.options[i].label
                 ELSE RowOf(form, match, i)
                        \in nextId + 1 .. nextId + Cardinality(Unmatched(form, match))
           /\ \A i, j \in DOMAIN form.options :
                 RowOf(form, match, i) = RowOf(form, match, j) => i = j
<1> DEFINE places == DOMAIN form.options
           others == Unmatched(form, match)
           Upto(i) == {j \in others : j <= i}
           row(i) == RowOf(form, match, i)
<1>0. /\ nextId \in Nat /\ Regular \in SUBSET (1 .. nextId)
      /\ Len(form.options) \in Nat /\ places = 1 .. Len(form.options) /\ places \in SUBSET Nat
  BY EntryOf DEF RowsGood, Regular
<1>1. /\ others \in SUBSET places /\ IsFiniteSet(others) /\ Cardinality(others) \in Nat
  <2>1. IsFiniteSet(places)
    BY <1>0, FS_Interval
  <2>2. others \in SUBSET places
    BY DEF Unmatched
  <2>3. QED
    BY <2>1, <2>2, FS_Subset, FS_CardinalityType
<1>2. \A i \in places : /\ Upto(i) \in SUBSET others /\ IsFiniteSet(Upto(i))
                        /\ Cardinality(Upto(i)) \in 0 .. Cardinality(others)
  <2> TAKE i \in places
  <2>1. Upto(i) \in SUBSET others
    OBVIOUS
  <2>2. IsFiniteSet(Upto(i)) /\ Cardinality(Upto(i)) <= Cardinality(others)
    BY <1>1, <2>1, FS_Subset
  <2>3. QED
    BY <1>1, <2>1, <2>2, FS_CardinalityType
<1>3. ASSUME NEW i \in others, NEW j \in others, i < j
      PROVE  Cardinality(Upto(i)) < Cardinality(Upto(j))
  <2>1. i \in Nat /\ j \in Nat /\ others \in SUBSET Nat /\ j \in places
    BY <1>0, <1>1
  <2>2. Upto(i) \in SUBSET Upto(j) /\ j \in Upto(j) \ Upto(i)
    BY <1>3, <2>1
  <2>3. IsFiniteSet(Upto(j))
    BY <1>2, <2>1
  <2>4. QED
    BY <2>2, <2>3, Fewer
<1>4. \A i \in others : Cardinality(Upto(i)) > 0
  <2> TAKE i \in others
  <2>1. i \in places /\ i \in Nat
    BY <1>0, <1>1
  <2>2. IsFiniteSet(Upto(i)) /\ {} \in SUBSET Upto(i) /\ i \in Upto(i) \ {}
    BY <1>2, <2>1
  <2>3. Cardinality({}) < Cardinality(Upto(i)) /\ Cardinality({}) \in Nat
        /\ Cardinality(Upto(i)) \in Nat
    BY <2>2, Fewer
  <2>4. QED
    BY <2>3
<1>5. \A i \in places : i \in others <=> ~Matches(form, match, i)
  BY DEF Unmatched
<1>6. \A i \in others : row(i) = nextId + Cardinality(Upto(i))
  BY <1>1, <1>5 DEF RowOf
<1>7. \A i \in places \ others : /\ row(i) = match[form.options[i].label]
                                 /\ form.options[i].label \in DOMAIN match
                                 /\ First(form, i)
  BY <1>5 DEF RowOf, Matches
<1>8. \A l \in DOMAIN match : match[l] \in Regular /\ option[match[l]].label = l
  BY DEF Candidates
<1> HIDE DEF Upto, others, row
<1>9. \A i \in places \ others : row(i) \in Regular /\ option[row(i)].label = form.options[i].label
  BY <1>7, <1>8
<1>10. \A i \in others : row(i) \in nextId + 1 .. nextId + Cardinality(others) /\ row(i) > nextId
  BY <1>0, <1>1, <1>2, <1>4, <1>6
<1>11. \A i, j \in others : row(i) = row(j) => i = j
  <2>1. SUFFICES ASSUME NEW i \in others, NEW j \in others, row(i) = row(j), i # j
                 PROVE  FALSE
    OBVIOUS
  <2>2. Cardinality(Upto(i)) = Cardinality(Upto(j)) /\ Cardinality(Upto(i)) \in Nat
    BY <1>0, <1>1, <1>2, <1>6, <2>1
  <2>3. i \in Nat /\ j \in Nat
    BY <1>0, <1>1
  <2>4. i < j \/ j < i
    BY <2>1, <2>3
  <2>5. QED
    BY <1>3, <2>2, <2>4
<1>12. \A i, j \in places \ others : row(i) = row(j) => i = j
  <2>1. SUFFICES ASSUME NEW i \in places \ others, NEW j \in places \ others,
                        row(i) = row(j), i # j
                 PROVE  FALSE
    OBVIOUS
  <2>2. form.options[i].label = form.options[j].label
    BY <1>9, <2>1
  <2>3. First(form, i) /\ First(form, j) /\ i \in Nat /\ j \in Nat /\ i >= 1 /\ j >= 1
    BY <1>0, <1>7, <2>1
  <2>4. i \in 1 .. j - 1 \/ j \in 1 .. i - 1
    BY <2>1, <2>3
  <2>5. QED
    BY <2>2, <2>3, <2>4 DEF First
<1>13. \A i, j \in places : row(i) = row(j) => i = j
  BY <1>0, <1>9, <1>10, <1>11, <1>12
<1>14. QED
  BY <1>1, <1>5, <1>9, <1>10, <1>13 DEF others, row

(***************************************************************************)
(* A save.                                                                 *)
(***************************************************************************)

\* What the rows are after a save, in terms of the form.
LEMMA SavedRows ==
    ASSUME RowsGood, NEW form, PageGood(form), NEW match \in Candidates,
           ApplyOptions(form, match), ApplyGroups(form)
    PROVE  /\ Regular' = {RowOf(form, match, i) : i \in DOMAIN form.options}
           /\ \A i \in DOMAIN form.options :
                 option'[RowOf(form, match, i)] = RowAfter(form, match, i)
           /\ DOMAIN option' = Regular' \cup (DOMAIN option \ Regular)
           /\ \A o \in DOMAIN option \ Regular : option'[o] = option[o] /\ o \notin Regular'
           /\ DOMAIN group' = {GroupId(form, key) : key \in DOMAIN form.groups}
           /\ \A key \in DOMAIN form.groups : group'[GroupId(form, key)] = form.groups[key]
<1> DEFINE places == DOMAIN form.options
           row(i) == RowOf(form, match, i)
           kept == {row(i) : i \in places}
           voters == DOMAIN option \ Regular
<1>1. /\ DOMAIN option' = kept \cup voters
      /\ \A o \in kept \cup voters :
            option'[o] = IF o \in voters THEN option[o]
                         ELSE RowAfter(form, match, CHOOSE i \in places : row(i) = o)
  BY DEF ApplyOptions
<1>2. \A i \in places : row(i) \in Regular \/ row(i) > nextId
  BY RowIds DEF RowsGood
<1>3. \A o \in voters : o \notin Regular /\ ~(o > nextId)
  BY DEF RowsGood
<1>4. kept \cap voters = {}
  BY <1>2, <1>3
<1>5. ASSUME NEW i \in places PROVE option'[row(i)] = RowAfter(form, match, i)
  <2>1. row(i) \in kept /\ row(i) \notin voters
    BY <1>4
  <2>2. (CHOOSE j \in places : row(j) = row(i)) = i
    BY RowIds
  <2>3. QED
    BY <1>1, <2>1, <2>2
<1>6. \A o \in voters : option'[o] = option[o] /\ option'[o].custom
  BY <1>1 DEF Regular, RowsGood
<1>7. ASSUME NEW o \in kept PROVE ~option'[o].custom
  <2>1. PICK i \in places : o = row(i)
    OBVIOUS
  <2>2. option'[o] = RowAfter(form, match, i)
    BY <1>5, <2>1
  <2>3. RowAfter(form, match, i).custom = FALSE
    BY DEF RowAfter
  <2>4. QED
    BY <2>2, <2>3
<1> HIDE DEF kept, voters, row
<1>8. Regular' = kept
  BY <1>1, <1>4, <1>6, <1>7 DEF Regular
<1>9. /\ DOMAIN group' = {GroupId(form, key) : key \in DOMAIN form.groups}
      /\ \A n \in DOMAIN group' :
            group'[n] = form.groups[CHOOSE key \in DOMAIN form.groups : GroupId(form, key) = n]
  BY DEF ApplyGroups
<1>10. ASSUME NEW key \in DOMAIN form.groups
       PROVE  group'[GroupId(form, key)] = form.groups[key]
  <2>1. (CHOOSE k \in DOMAIN form.groups : GroupId(form, k) = GroupId(form, key)) = key
    BY GroupIds
  <2>2. GroupId(form, key) \in DOMAIN group'
    BY <1>9
  <2>3. QED
    BY <1>9, <2>1, <2>2
<1>11. QED
  BY <1>1, <1>4, <1>5, <1>6, <1>8, <1>9, <1>10 DEF kept, voters, row

\* The rows are well formed after it.
LEMMA SavedRowsGood ==
    ASSUME RowsGood, NEW form, PageGood(form), NEW match \in Candidates,
           ApplyOptions(form, match), ApplyGroups(form)
    PROVE  RowsGood'
<1> DEFINE places == DOMAIN form.options
           row(i) == RowOf(form, match, i)
           count == Cardinality(Unmatched(form, match))
           more == Cardinality(NewKeys(form))
<1>0. /\ nextId' = nextId + count /\ nextGroupId' = nextGroupId + more
      /\ nextId \in Nat /\ nextGroupId \in Nat /\ count \in Nat /\ more \in Nat
  BY RowIds, GroupIds DEF ApplyOptions, ApplyGroups, RowsGood
<1>1. /\ Regular' = {row(i) : i \in places}
      /\ \A i \in places : option'[row(i)] = RowAfter(form, match, i)
      /\ DOMAIN option' = Regular' \cup (DOMAIN option \ Regular)
      /\ \A o \in DOMAIN option \ Regular : option'[o] = option[o]
      /\ DOMAIN group' = {GroupId(form, key) : key \in DOMAIN form.groups}
      /\ \A key \in DOMAIN form.groups : group'[GroupId(form, key)] = form.groups[key]
  BY SavedRows
<1>2. /\ Regular \subseteq 1 .. nextId /\ DOMAIN option \subseteq 1 .. nextId
      /\ \A i \in places : row(i) \in Regular \/ row(i) \in nextId + 1 .. nextId + count
  BY RowIds DEF RowsGood, Regular
<1> HIDE DEF count, more
<1>3. DOMAIN option' \subseteq 1 .. nextId' /\ nextId' \in Nat
  <2>1. 1 .. nextId \subseteq 1 .. nextId' /\ nextId + 1 .. nextId + count \subseteq 1 .. nextId'
        /\ nextId' \in Nat
    BY <1>0
  <2>2. \A i \in places : row(i) \in 1 .. nextId'
    BY <1>2, <2>1
  <2> HIDE DEF row
  <2>3. QED
    BY <1>1, <1>2, <2>1, <2>2
<1>4. DOMAIN group' \subseteq 1 .. nextGroupId' /\ nextGroupId' \in Nat
  BY <1>0, <1>1, GroupIds DEF more
<1>5. \A n \in DOMAIN group' : group'[n] \in 0 .. MaxCap
  BY <1>1 DEF PageGood
<1>6. ASSUME NEW i \in places
      PROVE  /\ RowAfter(form, match, i)
                  \in [label : Labels, order : Nat, custom : BOOLEAN,
                       group : DOMAIN group' \cup {Ungrouped}]
             /\ RowAfter(form, match, i).order = i - 1
             /\ RowAfter(form, match, i).custom = FALSE
  <2>1. i \in Nat /\ i - 1 \in Nat /\ form.options[i].label \in Labels
        /\ form.options[i].key \in DOMAIN form.groups \cup {NoKey}
    BY EntryOf
  <2>2. GroupId(form, form.options[i].key) \in DOMAIN group' \cup {Ungrouped}
    BY <1>1, <2>1, GroupIds
  <2>3. QED
    BY <2>1, <2>2 DEF RowAfter
<1>7. \A o \in DOMAIN option \ Regular :
         /\ option[o].custom = TRUE /\ option[o].group = Ungrouped
         /\ option[o] \in [label : Labels, order : Nat, custom : BOOLEAN,
                           group : DOMAIN group' \cup {Ungrouped}]
  <2> TAKE o \in DOMAIN option \ Regular
  <2>1. option[o] \in [label : Labels, order : Nat, custom : BOOLEAN,
                       group : DOMAIN group \cup {Ungrouped}]
    BY DEF RowsGood
  <2>2. option[o].custom = TRUE /\ option[o].group = Ungrouped
    BY <2>1 DEF RowsGood, Regular
  <2>3. QED
    BY <2>1, <2>2
<1>8. \A o \in DOMAIN option' :
         /\ option'[o] \in [label : Labels, order : Nat, custom : BOOLEAN,
                            group : DOMAIN group' \cup {Ungrouped}]
         /\ option'[o].custom => option'[o].group = Ungrouped
  <2> TAKE o \in DOMAIN option'
  <2>1. CASE o \in Regular'
    <3>1. PICK i \in places : o = row(i)
      BY <1>1, <2>1
    <3>2. option'[o] = RowAfter(form, match, i)
      BY <1>1, <3>1
    <3>3. QED
      BY <1>6, <3>2
  <2>2. CASE o \in DOMAIN option \ Regular
    BY <1>1, <1>7, <2>2
  <2>3. QED
    BY <1>1, <2>1, <2>2
<1>9. \A o, p \in Regular' : option'[o].order = option'[p].order => o = p
  <2>1. SUFFICES ASSUME NEW i \in places, NEW j \in places,
                        option'[row(i)].order = option'[row(j)].order
                 PROVE  row(i) = row(j)
    BY <1>1
  <2>2. option'[row(i)].order = i - 1 /\ option'[row(j)].order = j - 1
    BY <1>1, <1>6
  <2>3. i \in Nat /\ j \in Nat
    BY EntryOf
  <2>4. i = j
    <3> HIDE DEF row
    <3>1. i - 1 = j - 1
      BY <2>1, <2>2
    <3>2. QED
      BY <2>3, <3>1
  <2>5. QED
    BY <2>4
<1>10. QED
  BY <1>3, <1>4, <1>5, <1>8, <1>9 DEF RowsGood

LEMMA SaveStep ==
    ASSUME SyncInv, NEW t \in DOMAIN page, Save(t)
    PROVE  SyncInv'
<1> DEFINE form == page[t]
<1>1. /\ RowsGood /\ PageGood(form)
      /\ \E match \in Candidates : ApplyOptions(form, match)
      /\ ApplyGroups(form) /\ nextId' <= MaxIds /\ nextGroupId' <= MaxGroupIds
      /\ page' = [page EXCEPT ![t] = Rendered'] /\ UNCHANGED nextToken
  BY DEF Save, SyncInv
<1>2. RowsGood'
  BY <1>1, SavedRowsGood
<1>3. PageGood(Rendered)'
  BY <1>2, RenderedGood, PTL
<1>4. \A u \in DOMAIN page' : page'[u] = Rendered' \/ (u \in DOMAIN page /\ page'[u] = page[u])
  BY <1>1
<1>5. ASSUME NEW u \in DOMAIN page' PROVE PageGood(page[u])'
  <2>1. CASE page'[u] = Rendered'
    BY <1>3, <2>1 DEF PageGood, Valid
  <2>2. CASE u \in DOMAIN page /\ page'[u] = page[u]
    BY <2>2 DEF SyncInv, PageGood, Valid
  <2>3. QED
    BY <1>4, <2>1, <2>2
<1>6. QED
  BY <1>1, <1>2, <1>5 DEF SyncInv

(***************************************************************************)
(* Type correctness and references.                                        *)
(***************************************************************************)

LEMMA SyncInit == Init => SyncInv
<1> SUFFICES ASSUME Init PROVE SyncInv
  OBVIOUS
<1>0. PICK n \in 1 .. MaxOptions : \E listing \in [1 .. n -> Labels] :
        /\ nextId = Len(listing)
        /\ option = [o \in 1 .. nextId |->
                       [label |-> listing[o], order |-> o - 1, group |-> Ungrouped,
                        custom |-> FALSE]]
  BY DEF Init
<1>1. PICK listing \in [1 .. n -> Labels] :
        /\ nextId = Len(listing)
        /\ option = [o \in 1 .. nextId |->
                       [label |-> listing[o], order |-> o - 1, group |-> Ungrouped,
                        custom |-> FALSE]]
  BY <1>0
<1>2. nextId = n /\ n \in Nat
  BY <1>1
<1>3. \A o \in 1 .. n : /\ option[o].label \in Labels /\ option[o].order = o - 1
                        /\ option[o].group = Ungrouped /\ option[o].custom = FALSE
                        /\ option[o] \in [label : Labels, order : Nat, custom : BOOLEAN,
                                          group : {Ungrouped}]
  BY <1>1, <1>2
<1>4. DOMAIN option = 1 .. n /\ Regular \subseteq 1 .. n
  BY <1>1, <1>2 DEF Regular
<1>5. \A o, p \in Regular : option[o].order = option[p].order => o = p
  <2>1. \A o \in Regular : option[o].order = o - 1 /\ o \in Nat
    BY <1>2, <1>3, <1>4
  <2>2. \A o, p \in Nat : o - 1 = p - 1 => o = p
    OBVIOUS
  <2>3. QED
    BY <2>1, <2>2
<1>6. group = << >> /\ DOMAIN group = {} /\ nextGroupId = 0 /\ nextToken = 0
      /\ page = << >> /\ DOMAIN page = {}
  BY DEF Init
<1>7. RowsGood
  BY <1>2, <1>3, <1>4, <1>5, <1>6 DEF RowsGood
<1>8. nextId <= MaxIds /\ nextGroupId <= MaxGroupIds /\ nextToken \in 0 .. MaxGroupIds
  BY <1>2, <1>6, SyncAssumption
<1>9. QED
  BY <1>6, <1>7, <1>8 DEF SyncInv

LEMMA AddStep ==
    ASSUME SyncInv, NEW l \in Labels, AddCustom(l)
    PROVE  SyncInv'
<1> DEFINE o == nextId + 1
           orders == {option[p].order : p \in DOMAIN option} \cup {-1}
           last == CHOOSE m \in orders : \A n \in orders : n <= m
           new == [label |-> l, custom |-> TRUE, group |-> Ungrouped, order |-> 1 + last]
<1>0. /\ RowsGood /\ nextId \in Nat /\ DOMAIN option \subseteq 1 .. nextId
      /\ \A p \in DOMAIN option :
            option[p] \in [label : Labels, order : Nat, custom : BOOLEAN,
                           group : DOMAIN group \cup {Ungrouped}]
  BY DEF SyncInv, RowsGood
<1>1. /\ option' = [p \in DOMAIN option \cup {o} |-> IF p = o THEN new ELSE option[p]]
      /\ nextId' = o /\ nextId < MaxIds /\ UNCHANGED <<group, nextGroupId, nextToken, page>>
  BY DEF AddCustom
<1>2. orders \in SUBSET Int /\ orders # {} /\ \A m \in orders : m >= -1
  BY <1>0
<1>3. IsFiniteSet(orders)
  <2> DEFINE f == [p \in DOMAIN option |-> option[p].order]
             image == {option[p].order : p \in DOMAIN option}
  <2>1. IsFiniteSet(DOMAIN option)
    <3>1. IsFiniteSet(1 .. nextId)
      BY <1>0, FS_Interval
    <3>2. QED
      BY <1>0, <3>1, FS_Subset
  <2>2. f \in Surjection(DOMAIN option, image)
    BY DEF Surjection
  <2> HIDE DEF f, image
  <2>3. IsFiniteSet(image)
    BY <2>1, <2>2, FS_Surjection
  <2>4. IsFiniteSet(image \cup {-1})
    BY <2>3, FS_AddElement
  <2>5. QED
    BY <2>4 DEF image
<1> HIDE DEF orders
<1>4. \E m \in orders : \A n \in orders : n <= m
  BY <1>2, <1>3, Greatest
<1>5. last \in orders
  BY <1>4
<1> HIDE DEF last
<1>6. 1 + last \in Nat
  BY <1>2, <1>5
<1>7. new \in [label : Labels, order : Nat, custom : BOOLEAN,
               group : DOMAIN group \cup {Ungrouped}]
      /\ new.custom = TRUE /\ new.group = Ungrouped
  BY <1>6
<1> HIDE DEF new
<1>8. o \notin DOMAIN option /\ o \in Nat /\ DOMAIN option' \subseteq 1 .. nextId'
  BY <1>0, <1>1
<1>9. DOMAIN option' = DOMAIN option \cup {o} /\ option'[o] = new
      /\ \A p \in DOMAIN option : option'[p] = option[p]
  BY <1>1, <1>8
<1>10. Regular' = Regular
  BY <1>7, <1>8, <1>9 DEF Regular
<1>11. RowsGood'
  <2>1. \A p \in DOMAIN option' :
           /\ option'[p] \in [label : Labels, order : Nat, custom : BOOLEAN,
                              group : DOMAIN group' \cup {Ungrouped}]
           /\ option'[p].custom => option'[p].group = Ungrouped
    BY <1>0, <1>1, <1>7, <1>9 DEF RowsGood
  <2>2. \A p, q \in Regular' : option'[p].order = option'[q].order => p = q
    BY <1>0, <1>9, <1>10 DEF RowsGood, Regular
  <2>3. QED
    BY <1>0, <1>1, <1>8, <2>1, <2>2 DEF RowsGood
<1>12. \A t \in DOMAIN page' : PageGood(page[t])'
  BY <1>1 DEF SyncInv, PageGood, Valid
<1>13. nextId' <= MaxIds
  BY <1>0, <1>1, SyncAssumption
<1>14. QED
  BY <1>1, <1>11, <1>12, <1>13 DEF SyncInv

LEMMA LoadStep ==
    ASSUME SyncInv, NEW t \in Tabs, Load(t)
    PROVE  SyncInv'
<1>1. /\ page' = [u \in DOMAIN page \cup {t} |-> IF u = t THEN Rendered ELSE page[u]]
      /\ UNCHANGED <<option, group, nextId, nextGroupId, nextToken>>
  BY DEF Load, rows
<1>2. RowsGood /\ PageGood(Rendered)
  BY RenderedGood DEF SyncInv
<1>3. RowsGood'
  BY <1>1, <1>2 DEF RowsGood, Regular
<1>4. \A u \in DOMAIN page' : PageGood(page'[u])
  BY <1>1, <1>2 DEF SyncInv
<1>5. \A u \in DOMAIN page' : PageGood(page[u])'
  BY <1>4 DEF PageGood, Valid
<1>6. QED
  BY <1>1, <1>3, <1>5 DEF SyncInv

LEMMA SyncStep == SyncInv /\ [Next]_vars => SyncInv'
<1> SUFFICES ASSUME SyncInv, [Next]_vars PROVE SyncInv'
  OBVIOUS
<1>1. ASSUME NEW t \in Tabs, Load(t) PROVE SyncInv'
  BY <1>1, LoadStep
<1>2. ASSUME NEW t \in DOMAIN page, Edit(t) PROVE SyncInv'
  BY <1>2, EditStep
<1>3. ASSUME NEW t \in DOMAIN page, Save(t) PROVE SyncInv'
  BY <1>3, SaveStep
<1>4. ASSUME NEW l \in Labels, AddCustom(l) PROVE SyncInv'
  BY <1>4, AddStep
<1>5. CASE UNCHANGED vars
  BY <1>5 DEF vars, SyncInv, RowsGood, Regular, PageGood, Valid
<1>6. QED
  BY <1>1, <1>2, <1>3, <1>4, <1>5 DEF Next

LEMMA SyncHolds == Spec => []SyncInv
BY SyncInit, SyncStep, PTL DEF Spec

\* The rows stay well formed, with one place per option, whatever is saved; ids stay
\* within what was handed out.
THEOREM TypeCorrect == Spec => []TypeOK
<1>1. SyncInv => TypeOK
  BY DEF SyncInv, RowsGood, TypeOK
<1>2. QED
  BY <1>1, SyncHolds, PTL

(***************************************************************************)
(* What a save keeps, and what the owner is warned of.                     *)
(***************************************************************************)

\* With a row per value, an option whose value is listed is taken by the first option
\* of the form that has it.
LEMMA KeptByTheFirst ==
    ASSUME RowsGood, NEW form, PageGood(form), NEW match \in Candidates, Distinct,
           NEW o \in Regular, option[o].label \in Listed(form)
    PROVE  \E i \in DOMAIN form.options : RowOf(form, match, i) = o
<1> DEFINE with == {i \in DOMAIN form.options : form.options[i].label = option[o].label}
<1>1. with \in SUBSET Nat /\ with # {} /\ DOMAIN form.options = 1 .. Len(form.options)
      /\ Len(form.options) \in Nat
  BY EntryOf DEF Listed
<1>2. PICK i \in with : \A j \in with : i <= j
  BY <1>1, Least
<1>3. ASSUME NEW j \in 1 .. i - 1 PROVE form.options[j].label # form.options[i].label
  <2>1. i \in 1 .. Len(form.options) /\ j \in Nat /\ i \in Nat /\ j < i
    BY <1>1, <1>2
  <2>2. j \in DOMAIN form.options /\ ~(i <= j)
    BY <1>1, <2>1
  <2>3. QED
    BY <1>2, <2>2
<1>4. First(form, i)
  BY <1>3 DEF First
<1>5. option[o].label \in DOMAIN match /\ form.options[i].label = option[o].label
  BY DEF Candidates
<1>6. RowOf(form, match, i) = match[option[o].label]
  BY <1>4, <1>5 DEF RowOf, Matches
<1>7. match[option[o].label] = o
  BY <1>5 DEF Candidates, Distinct
<1>8. QED
  BY <1>6, <1>7

\* An option is kept just if its value is listed.
LEMMA KeptIfListed ==
    ASSUME SyncInv, NEW t \in DOMAIN page, Save(t), Distinct, NEW o \in Regular
    PROVE  o \in DOMAIN option' <=> option[o].label \in Listed(page[t])
<1>1. RowsGood /\ PageGood(page[t]) /\ ApplyGroups(page[t])
  BY DEF SyncInv, Save
<1>2. PICK match \in Candidates : ApplyOptions(page[t], match)
  BY DEF Save
<1>3. /\ DOMAIN option' = Regular' \cup (DOMAIN option \ Regular)
      /\ Regular' = {RowOf(page[t], match, i) : i \in DOMAIN page[t].options}
  BY <1>1, <1>2, SavedRows
<1>4. ASSUME option[o].label \in Listed(page[t]) PROVE o \in DOMAIN option'
  BY <1>1, <1>3, <1>4, KeptByTheFirst
<1>5. ASSUME o \in DOMAIN option' PROVE option[o].label \in Listed(page[t])
  <2>1. PICK i \in DOMAIN page[t].options : o = RowOf(page[t], match, i)
    BY <1>3, <1>5
  <2>2. o <= nextId /\ o \in Nat /\ nextId \in Nat
    BY <1>1 DEF RowsGood, Regular
  <2>3. IF Matches(page[t], match, i) THEN option[o].label = page[t].options[i].label
        ELSE o > nextId
    BY <1>1, <2>1, <2>2, RowIds
  <2>4. option[o].label = page[t].options[i].label
    BY <2>2, <2>3
  <2>5. QED
    BY <2>4 DEF Listed
<1>6. QED
  BY <1>4, <1>5

\* As long as the values differ, an option that is still listed keeps its row, and with
\* it the votes, whatever else the form changes.
THEOREM ListedIsKeptHolds == Spec => ListedIsKept
<1> DEFINE Keeping == \A t \in DOMAIN page, o \in Regular :
          o \notin DOMAIN option' /\ option[o].label \in Listed(page[t]) /\ Distinct
             => ~Save(t)
<1>1. SyncInv => Keeping
  BY KeptIfListed
<1>2. QED
  BY <1>1, SyncHolds, PTL DEF ListedIsKept

\* As long as the values differ, the warning is given for the saves that delete an option
\* and for no other.
THEOREM DestructiveIsExactHolds == Spec => DestructiveIsExact
<1> DEFINE Exact == \A t \in DOMAIN page :
          (Destructive(page[t]) <=> Regular \subseteq DOMAIN option') /\ Distinct
             => ~Save(t)
<1>1. SyncInv => Exact
  BY KeptIfListed DEF Destructive
<1>2. QED
  BY <1>1, SyncHolds, PTL DEF DestructiveIsExact

(***************************************************************************)
(* What a save shows.                                                      *)
(***************************************************************************)

\* An option is shown at the place of its rank.
LEMMA ShownAtRank ==
    RowsGood => /\ DOMAIN Rendered.options = 1 .. Cardinality(Regular)
                /\ Len(Rendered.options) = Cardinality(Regular)
                /\ \A i \in 1 .. Cardinality(Regular), o \in Regular :
                      Rank(o) = i - 1 =>
                         Rendered.options[i] = [label |-> option[o].label, key |-> KeyOf(o)]
<1> SUFFICES ASSUME RowsGood
             PROVE  /\ DOMAIN Rendered.options = 1 .. Cardinality(Regular)
                    /\ Len(Rendered.options) = Cardinality(Regular)
                    /\ \A i \in 1 .. Cardinality(Regular), o \in Regular :
                          Rank(o) = i - 1 =>
                             Rendered.options[i] = [label |-> option[o].label, key |-> KeyOf(o)]
  OBVIOUS
<1>1. DOMAIN Rendered.options = 1 .. Cardinality(Regular)
      /\ Len(Rendered.options) = Cardinality(Regular)
  <2>1. DOMAIN Rendered.options = 1 .. Cardinality(Regular)
    BY RenderedIs
  <2>2. DOMAIN Rendered.options = 1 .. Len(Rendered.options) /\ Len(Rendered.options) \in Nat
    BY RenderedGood, EntryOf
  <2>3. QED
    BY <2>1, <2>2, RegularFinite
<1>2. ASSUME NEW i \in 1 .. Cardinality(Regular), NEW o \in Regular, Rank(o) = i - 1
      PROVE  Rendered.options[i] = [label |-> option[o].label, key |-> KeyOf(o)]
  <2>1. Nth(i) = o
    BY <1>2, NthIs, Ranks
  <2>2. QED
    BY <2>1, RenderedIs
<1>3. QED
  BY <1>1, <1>2

\* The rows a save leaves are in the order of the form.
LEMMA SavedRanks ==
    ASSUME RowsGood, NEW form, PageGood(form), NEW match \in Candidates,
           ApplyOptions(form, match), ApplyGroups(form)
    PROVE  /\ Cardinality(Regular') = Len(form.options)
           /\ \A i \in DOMAIN form.options : \A o \in Regular' :
                 o = RowOf(form, match, i) => Rank(o)' = i - 1
<1> DEFINE row(i) == RowOf(form, match, i)
           places == DOMAIN form.options
           n == Len(form.options)
<1>0. n \in Nat /\ places = 1 .. n
  BY EntryOf
<1>1. /\ Regular' = {row(i) : i \in places}
      /\ \A i \in places : option'[row(i)].order = i - 1
      /\ \A i, j \in places : row(i) = row(j) => i = j
  <2>1. /\ Regular' = {row(i) : i \in places}
        /\ \A i \in places : option'[row(i)] = RowAfter(form, match, i)
    BY SavedRows
  <2>2. \A i : RowAfter(form, match, i).order = i - 1
    BY DEF RowAfter
  <2>3. \A i, j \in places : row(i) = row(j) => i = j
    BY RowIds
  <2> HIDE DEF row, places
  <2>4. QED
    BY <2>1, <2>2, <2>3
<1> HIDE DEF row
\* The rows of an initial piece of the form are as many as it is long.
<1>2. ASSUME NEW m \in 0 .. n
      PROVE  Cardinality({row(j) : j \in 1 .. m}) = m
  <2> DEFINE S == 1 .. m
             T == {row(j) : j \in S}
             f == [j \in S |-> row(j)]
  <2>1. S \subseteq places /\ IsFiniteSet(S) /\ Cardinality(S) = m
    <3>1. m \in Nat /\ 1 \in Int
      BY <1>0
    <3>2. IsFiniteSet(1 .. m) /\ Cardinality(1 .. m) = IF 1 > m THEN 0 ELSE m - 1 + 1
      BY <3>1, FS_Interval
    <3>3. S \subseteq places
      BY <1>0, <3>1
    <3>4. QED
      BY <3>1, <3>2, <3>3
  <2>2. /\ f \in [S -> T] /\ \A x, y \in S : f[x] = f[y] => x = y
        /\ \A z \in T : \E x \in S : f[x] = z
    BY <1>1, <2>1
  <2> HIDE DEF S, T, f
  <2>3. Cardinality(T) = Cardinality(S)
    BY <2>1, <2>2, SameSize
  <2>4. QED
    BY <2>1, <2>3 DEF S, T
<1>3. Cardinality(Regular') = n
  <2>1. Regular' = {row(j) : j \in 1 .. n} /\ n \in 0 .. n
    BY <1>0, <1>1
  <2>2. QED
    BY <1>2, <2>1
<1>4. ASSUME NEW i \in places, NEW o \in Regular', o = row(i)
      PROVE  Rank(o)' = i - 1
  <2>1. i \in 1 .. n /\ i - 1 \in 0 .. n /\ i \in Nat
    BY <1>0
  <2>2. ASSUME NEW p \in Regular'
        PROVE  Before(p, o)' <=> p \in {row(j) : j \in 1 .. i - 1}
    <3>1. PICK j \in places : p = row(j)
      BY <1>1
    <3>2. option'[p].order = j - 1 /\ option'[o].order = i - 1 /\ j \in Nat
      BY <1>0, <1>1, <1>4, <3>1
    <3>3. j = i => p = o
      BY <1>4, <3>1
    <3>4. o \in Nat
      <4>1. RowsGood'
        BY SavedRowsGood
      <4>2. (Regular \in SUBSET Nat)'
        BY <4>1, RegularFinite, PTL
      <4>3. QED
        BY <4>2
    <3>5. Before(p, o)' <=> j < i
      BY <2>1, <3>2, <3>3, <3>4 DEF Before
    <3>6. p \in {row(k) : k \in 1 .. i - 1} <=> j \in 1 .. i - 1
      BY <1>0, <1>1, <2>1, <3>1
    <3>7. QED
      BY <1>0, <2>1, <3>5, <3>6
  <2>3. {p \in Regular' : Before(p, o)'} = {row(j) : j \in 1 .. i - 1}
    <3>1. {row(j) : j \in 1 .. i - 1} \subseteq Regular'
      BY <1>0, <1>1, <2>1
    <3>2. QED
      BY <2>2, <3>1
  <2>4. Rank(o)' = Cardinality({p \in Regular' : Before(p, o)'})
    BY DEF Rank
  <2>5. QED
    BY <1>2, <2>1, <2>3, <2>4
<1>5. QED
  BY <1>3, <1>4 DEF row

\* The page that comes back after a save shows the form that was sent.
LEMMA SavedShows ==
    ASSUME RowsGood, NEW form, PageGood(form), NEW match \in Candidates,
           ApplyOptions(form, match), ApplyGroups(form)
    PROVE  Same(form, Rendered')
<1> DEFINE places == DOMAIN form.options
           n == Len(form.options)
           shown == Rendered'
           map == [k \in DOMAIN form.groups |-> Id(GroupId(form, k))]
<1>1. n \in Nat /\ places = 1 .. n
  BY EntryOf
<1>2. RowsGood'
  BY SavedRowsGood
<1>3. (/\ DOMAIN Rendered.options = 1 .. Cardinality(Regular)
       /\ Len(Rendered.options) = Cardinality(Regular)
       /\ \A i \in 1 .. Cardinality(Regular), o \in Regular :
             Rank(o) = i - 1 =>
                Rendered.options[i] = [label |-> option[o].label, key |-> KeyOf(o)])'
  BY <1>2, ShownAtRank, PTL
<1>4. /\ DOMAIN shown.groups = {Id(m) : m \in DOMAIN group'}
      /\ \A m \in DOMAIN group' : shown.groups[Id(m)] = group'[m]
  <2>1. shown.groups = [key \in {Id(m) : m \in DOMAIN group'} |-> group'[key[2]]]
    BY DEF Rendered
  <2>2. \A m : Id(m)[2] = m
    BY DEF Id
  <2>3. QED
    BY <2>1, <2>2
<1>5. /\ Regular' = {RowOf(form, match, i) : i \in places}
      /\ \A i \in places : option'[RowOf(form, match, i)] = RowAfter(form, match, i)
      /\ DOMAIN group' = {GroupId(form, key) : key \in DOMAIN form.groups}
      /\ \A key \in DOMAIN form.groups : group'[GroupId(form, key)] = form.groups[key]
  BY SavedRows
<1>6. /\ Cardinality(Regular') = n
      /\ \A i \in places : \A o \in Regular' :
            o = RowOf(form, match, i) => Rank(o)' = i - 1
  BY SavedRanks
<1>7. /\ GroupId(form, NoKey) = Ungrouped /\ NoKey \notin DOMAIN form.groups
      /\ \A k \in DOMAIN form.groups : GroupId(form, k) \in Nat /\ GroupId(form, k) # Ungrouped
      /\ \A k, l \in DOMAIN form.groups : GroupId(form, k) = GroupId(form, l) => k = l
  <2>1. \A m \in 1 .. nextGroupId + Cardinality(NewKeys(form)) : m \in Nat /\ m # Ungrouped
    BY DEF Ungrouped
  <2>2. QED
    BY <2>1, GroupIds
<1>8. ASSUME NEW i \in places
      PROVE  /\ shown.options[i].label = form.options[i].label
             /\ shown.options[i].key = IF form.options[i].key = NoKey THEN NoKey
                                       ELSE map[form.options[i].key]
  <2>1. PICK o \in Regular' : o = RowOf(form, match, i)
    BY <1>5
  <2>2. Rank(o)' = i - 1 /\ i \in 1 .. Cardinality(Regular')
    BY <1>1, <1>6, <2>1
  <2>3. shown.options[i] = [label |-> option[o].label, key |-> KeyOf(o)]'
    BY <1>3, <2>2
  <2>4. /\ option'[o].label = form.options[i].label
        /\ option'[o].group = GroupId(form, form.options[i].key)
    <3>1. option'[o] = RowAfter(form, match, i)
      BY <1>5, <2>1
    <3>2. /\ RowAfter(form, match, i).label = form.options[i].label
          /\ RowAfter(form, match, i).group = GroupId(form, form.options[i].key)
      BY DEF RowAfter
    <3>3. QED
      BY <3>1, <3>2
  <2>5. form.options[i].key \in DOMAIN form.groups \cup {NoKey}
    BY EntryOf
  <2>6. KeyOf(o)' = IF form.options[i].key = NoKey THEN NoKey
                    ELSE map[form.options[i].key]
    BY <1>7, <2>4, <2>5 DEF KeyOf
  <2>7. QED
    BY <2>3, <2>4, <2>6
<1>9. DOMAIN shown.groups = {Id(GroupId(form, k)) : k \in DOMAIN form.groups}
  BY <1>4, <1>5
<1>10. \A k \in DOMAIN form.groups : shown.groups[map[k]] = form.groups[k]
  BY <1>4, <1>5
<1>11. \A m, l : Id(m) = Id(l) => m = l
  BY DEF Id
<1>12. /\ map \in [DOMAIN form.groups -> DOMAIN shown.groups]
       /\ \A k, l \in DOMAIN form.groups : map[k] = map[l] => k = l
       /\ \A z \in DOMAIN shown.groups : \E k \in DOMAIN form.groups : map[k] = z
  BY <1>7, <1>9, <1>11
<1>13. IsFiniteSet(DOMAIN form.groups)
  BY DEF PageGood
<1> HIDE DEF map, shown
<1>14. Cardinality(DOMAIN form.groups) = Cardinality(DOMAIN shown.groups)
  BY <1>12, <1>13, SameSize
<1>15. Len(form.options) = Len(shown.options)
  BY <1>3, <1>6 DEF shown
<1>16. DOMAIN map = DOMAIN form.groups
  BY <1>12
<1>17. Same(form, shown)
  BY <1>8, <1>10, <1>12, <1>14, <1>15, <1>16 DEF Same
<1>18. QED
  BY <1>17 DEF shown

\* The page that comes back shows what was sent: the same options in the same order and
\* the same groups, though they have got other ids.
THEOREM SaveIsFaithfulHolds == Spec => SaveIsFaithful
<1> DEFINE Faithful == \A t \in DOMAIN page :
                         page'[t] = Rendered' /\ Save(t) => Same(page[t], page'[t])
<1>1. SyncInv => Faithful
  <2>1. SUFFICES ASSUME SyncInv, NEW t \in DOMAIN page, Save(t), page'[t] = Rendered'
                 PROVE  Same(page[t], page'[t])
    OBVIOUS
  <2>2. RowsGood /\ PageGood(page[t]) /\ ApplyGroups(page[t])
    BY <2>1 DEF SyncInv, Save
  <2>3. PICK match \in Candidates : ApplyOptions(page[t], match)
    BY <2>1 DEF Save
  <2>4. Same(page[t], Rendered')
    BY <2>2, <2>3, SavedShows
  <2>5. QED
    BY <2>1, <2>4
<1>2. QED
  BY <1>1, SyncHolds, PTL DEF SaveIsFaithful
=============================================================================
