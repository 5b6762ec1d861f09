--------------------------- MODULE RemindersProofs ---------------------------
(***************************************************************************)
(* Theorems about Reminders, for any users, lead times and windows.  Two    *)
(* parts of the invariant stand beside TypeOK: OnceInv says what a key      *)
(* stands for while it lasts, RemindInv what a dispatch has left behind in  *)
(* a window nobody interfered with.                                         *)
(***************************************************************************)
EXTENDS Reminders, FiniteSetTheorems, WellFoundedInduction, TLAPS

-----------------------------------------------------------------------------
(* The invariant. *)

InFlight(c) == c.pc # "queued"

\* A call between its claim and its end has just taken the key, and has not sent a mail
\* for a deadline that is still ahead; nobody else has the key.  A mail sent leaves the
\* key until its deadline is over.
OnceInv ==
    /\ \A u \in Users, t \in Tiers, e \in Deadlines :
          mails[<<u, t, e>>] <= 1 /\ (mails[<<u, t, e>>] > 0 => e < key[<<u, t>>])
    /\ \A c \in tasks : InFlight(c) =>
          /\ key[<<c.user, c.tier>>] = now + Ttl(c.tier)
          /\ \A e \in Deadlines : mails[<<c.user, c.tier, e>>] > 0 => e <= now
    /\ \A c \in tasks : c.pc = "rendered" => now < c.says /\ c.says <= now + c.tier + Slack
    /\ \A c, d \in tasks :
          InFlight(c) /\ InFlight(d) /\ c.user = d.user /\ c.tier = d.tier => c = d

\* The poll is open, and nothing has interfered since before the window of t opened.
Calmly(t) ==
    /\ Open(poll, now)
    /\ calm < poll.ends_at - t
    /\ poll.starts_at <= poll.ends_at - t

\* The run that was due at k is through.
Through(k) == k \notin due /\ (run # Idle => run.at # k)

InWindow(t, k) == poll.ends_at - t <= k /\ k <= poll.ends_at - t + Window

Reminded(u, t) ==
    \/ mails[<<u, t, poll.ends_at>>] > 0
    \/ \E c \in tasks : c.user = u /\ c.tier = t
    \/ key[<<u, t>>] > poll.ends_at - t /\ key[<<u, t>>] - Ttl(t) < poll.ends_at - t

OnItsWay(u, t) ==
    \/ mails[<<u, t, poll.ends_at>>] > 0
    \/ \E c \in tasks : InFlight(c) /\ c.user = u /\ c.tier = t

\* Unless something has interfered at this very time: a run is executed when it is due,
\* for a tier whose window it is; a mail that was rendered tells of the deadline as it is.
Timely ==
    /\ due \subseteq {now}
    /\ run # Idle => run.at = now /\ run.tier \in SelectTier(poll.ends_at - now)
    /\ \A c \in tasks : c.pc = "rendered" => c.says = poll.ends_at

\* A run of the window that is through has reminded everyone there is to remind; and a
\* key claimed in the window was claimed for a mail about this deadline.
RemindInv ==
    /\ calm < now => Timely
    /\ \A t \in Tiers, k \in 0 .. now :
          Calmly(t) /\ InWindow(t, k) /\ k % Window = 0 /\ Through(k)
             => \A u \in NonResponders : Reminded(u, t)
    /\ \A t \in Tiers, u \in active :
          Calmly(t) /\ key[<<u, t>>] - Ttl(t) >= poll.ends_at - t => OnItsWay(u, t)

\* With the types of the functions, which TypeOK does not give in full.
TypeInv ==
    /\ TypeOK
    /\ key \in [Users \X Tiers -> Nat]
    /\ mails \in [Users \X Tiers \X Deadlines -> Nat]

IInv == TypeInv /\ OnceInv /\ RemindInv

-----------------------------------------------------------------------------
(* Numbers. *)

\* There is a least number in every set of them.
LEMMA MinIs ==
    ASSUME NEW S \in SUBSET Nat, S # {}
    PROVE  Min(S) \in S /\ \A y \in S : Min(S) <= y
<1>1. PICK x \in S : \A y \in S : ~(<<y, x>> \in OpToRel(<, Nat))
  BY NatLessThanWellFounded, WFMin
<1>2. \A y \in S : <<y, x>> \in Nat \X Nat
  OBVIOUS
<1>3. \A y \in S : <<y, x>>[1] = y /\ <<y, x>>[2] = x
  OBVIOUS
<1>4. \A y \in S : ~(y < x)
  BY Zenon, <1>1, <1>2, <1>3 DEF OpToRel
<1>5. \E z \in S : \A y \in S : z <= y
  BY <1>4
<1>6. QED
  BY <1>5, Zenon DEF Min

\* There is a greatest number in a finite one: a smallest set without would have one when
\* any of its members is taken out.
LEMMA MaxIs ==
    ASSUME NEW S \in SUBSET Nat, S # {}, IsFiniteSet(S)
    PROVE  Max(S) \in S /\ \A y \in S : y <= Max(S)
<1> DEFINE Without(T) == T # {} /\ IsFiniteSet(T) /\ \A x \in T : \E y \in T : ~(y <= x)
           sizes == {n \in Nat : \E T \in SUBSET Nat : Without(T) /\ Cardinality(T) = n}
<1>1. \A T \in SUBSET Nat : ~Without(T)
  <2> SUFFICES ASSUME sizes # {} PROVE FALSE
    <3>1. ASSUME NEW T \in SUBSET Nat, Without(T) PROVE sizes # {}
      <4>1. Cardinality(T) \in Nat
        BY <3>1, FS_CardinalityType
      <4>2. QED
        BY <3>1, <4>1
    <3>2. QED
      BY <3>1
  <2>1. Min(sizes) \in sizes /\ \A n \in sizes : Min(sizes) <= n
    BY MinIs
  <2>2. PICK T \in SUBSET Nat : Without(T) /\ Cardinality(T) = Min(sizes)
    BY <2>1
  <2>3. PICK x \in T : TRUE
    BY <2>2
  <2>4. /\ IsFiniteSet(T \ {x}) /\ Cardinality(T \ {x}) = Min(sizes) - 1
        /\ Cardinality(T \ {x}) \in Nat
    BY <2>2, <2>3, FS_RemoveElement, FS_CardinalityType
  <2>5. ~Without(T \ {x})
    <3>1. Min(sizes) \in Nat
      BY <2>1
    <3>2. SUFFICES ASSUME Without(T \ {x}) PROVE FALSE
      OBVIOUS
    <3>3. Cardinality(T \ {x}) \in sizes
      BY <2>4, <3>2
    <3>4. Min(sizes) <= Cardinality(T \ {x})
      BY <2>1, <3>3
    <3>5. QED
      BY <2>4, <3>1, <3>4
  <2>6. CASE T \ {x} = {}
    BY <2>2, <2>3, <2>6
  <2>7. CASE T \ {x} # {}
    <3>1. PICK m \in T \ {x} : \A y \in T \ {x} : y <= m
      BY <2>4, <2>5, <2>7
    <3>2. \E z \in T : \A y \in T : y <= z
      BY <2>3, <3>1
    <3>3. QED
      BY <2>2, <3>2
  <2>8. QED
    BY <2>6, <2>7
<1>2. \E x \in S : \A y \in S : y <= x
  BY <1>1
<1>3. \E x \in S : \A y \in S : x >= y
  BY <1>2
<1>4. Max(S) \in S /\ \A y \in S : Max(S) >= y
  BY <1>3, Zenon DEF Max
<1>5. QED
  BY <1>4

\* Every window has a multiple of its length.
LEMMA MultipleWithin ==
    ASSUME NEW W \in Nat \ {0}, NEW x \in Nat
    PROVE  \E k \in x .. (x + W) : k % W = 0
<1>1. x = W * (x \div W) + (x % W) /\ x % W \in 0 .. W - 1 /\ x \div W \in Int
  OBVIOUS
<1>2. (W * ((x \div W) + 1)) % W = 0
  BY <1>1
<1>3. QED
  BY <1>1, <1>2

-----------------------------------------------------------------------------
(* Values. *)

\* What the constants are.
LEMMA Numbers ==
    /\ Tiers \subseteq Nat \ {0} /\ Tiers # {} /\ IsFiniteSet(Tiers)
    /\ Window \in Nat \ {0} /\ Slack \in Nat /\ Day \in Nat /\ Slack < Day
    /\ \A t \in Tiers : Ttl(t) \in Nat /\ Ttl(t) > t + Slack
    /\ Retries \in Nat /\ MaxTime \in Nat /\ MaxEvents \in Nat
BY ReminderAssumption DEF Ttl

LEMMA RowFields ==
    ASSUME NEW row \in Rows
    PROVE  /\ row.ends_at \in Nat \cup {None} /\ row.starts_at \in Nat \cup {None}
           /\ row.ends_at \in Deadlines /\ row.ends_at \in Int /\ row.starts_at \in Int
<1>1. row \in [status : Statuses, is_mandatory : BOOLEAN,
               starts_at : Nat \cup {None}, ends_at : Nat \cup {None}]
  BY ReminderAssumption
<1>2. row.ends_at \in Nat \cup {None} /\ row.starts_at \in Nat \cup {None}
  BY <1>1
<1>3. QED
  BY <1>2 DEF Deadlines, None

\* A call in the queue, claimed, or rendered.
LEMMA CallFields ==
    ASSUME NEW c \in Call \cup Rendered
    PROVE  /\ c.user \in Users /\ c.tier \in Tiers /\ c.run \in 0 .. MaxTime
           /\ c.retries \in 0 .. Retries
           /\ c.pc \in {"queued", "claimed", "rendered"}
           /\ c.pc \in {"queued", "claimed"} => c \in Call
           /\ c.pc = "rendered" => c.says \in Deadlines \ {None} /\ c.says \in Nat
<1>1. CASE c \in Call
  BY <1>1 DEF Call
<1>2. CASE c \in Rendered
  <2>1. Deadlines \subseteq Nat \cup {None}
    BY RowFields DEF Deadlines
  <2>2. QED
    BY <1>2, <2>1 DEF Rendered
<1>3. QED
  BY <1>1, <1>2

\* No two lead times have a window in common.
LEMMA OneTier ==
    ASSUME NEW remaining \in Int, NEW a \in SelectTier(remaining), NEW b \in SelectTier(remaining)
    PROVE  a = b
<1>1. /\ a \in Tiers /\ b \in Tiers /\ a \in Nat /\ b \in Nat /\ Window \in Nat
      /\ a - Window <= remaining /\ remaining <= a
      /\ b - Window <= remaining /\ remaining <= b
  BY Numbers DEF SelectTier
<1>2. (a < b => a + Window < b) /\ (b < a => b + Window < a)
  BY <1>1, ReminderAssumption
<1>3. QED
  BY <1>1, <1>2

\* The calls that a dispatch pushes.
LEMMA CallsAre ==
    ASSUME TypeOK, run.pc = "selected", NEW who \in SUBSET Users
    PROVE  /\ Calls(who) \subseteq Call
           /\ \A c \in Calls(who) : c.pc = "queued" /\ c.user \in who /\ c.tier = run.tier
           /\ \A u \in who : \E c \in Calls(who) : c.user = u
<1>1. run.at \in 0 .. now /\ run.tier \in Tiers /\ now \in 0 .. MaxTime
  BY DEF TypeOK, Idle
<1>2. run.at \in 0 .. MaxTime /\ Retries \in 0 .. Retries
  BY <1>1, Numbers
<1> DEFINE call(u) == [user |-> u, tier |-> run.tier, run |-> run.at,
                       pc |-> "queued", retries |-> Retries]
<1>3. \A u \in who : /\ call(u) \in Call /\ call(u).user = u
                     /\ call(u).tier = run.tier /\ call(u).pc = "queued"
  BY <1>1, <1>2 DEF Call
<1>4. Calls(who) = {call(u) : u \in who}
  BY DEF Calls
<1> HIDE DEF call
<1>5. QED
  BY <1>3, <1>4

\* What the failure of a call leaves: the call in the queue, with one retry less, or nothing.
Again(c) == {[user |-> d.user, tier |-> d.tier, run |-> d.run, pc |-> "queued",
              retries |-> d.retries - 1] : d \in {d \in {c} : d.retries > 0}}

LEMMA AgainIs ==
    ASSUME NEW c \in Call \cup Rendered
    PROVE  Again(c) \subseteq Call /\ \A d \in Again(c) : d.pc = "queued"
<1>1. /\ c.user \in Users /\ c.tier \in Tiers /\ c.run \in 0 .. MaxTime
      /\ c.retries \in 0 .. Retries
  BY CallFields
<1>2. c.retries > 0 => c.retries - 1 \in 0 .. Retries
  BY <1>1, Numbers
<1>3. QED
  BY <1>1, <1>2 DEF Again, Call

\* What the steps of a call make of it.
Claimed(c) == [c EXCEPT !.pc = "claimed"]
Shown(c) == [user |-> c.user, tier |-> c.tier, run |-> c.run, pc |-> "rendered",
             retries |-> c.retries, says |-> poll.ends_at]

LEMMA ClaimedIs ==
    ASSUME NEW c \in Call
    PROVE  Claimed(c) \in Call /\ Claimed(c).pc = "claimed"
           /\ Claimed(c).user = c.user /\ Claimed(c).tier = c.tier
BY DEF Call, Claimed

LEMMA ShownIs ==
    ASSUME NEW c \in Call \cup Rendered, poll \in Rows, Open(poll, now)
    PROVE  Shown(c) \in Rendered /\ Shown(c).pc = "rendered"
           /\ Shown(c).user = c.user /\ Shown(c).tier = c.tier /\ Shown(c).says = poll.ends_at
<1>1. poll.ends_at \in Deadlines \ {None}
  BY RowFields DEF Open
<1>2. QED
  BY <1>1, CallFields DEF Shown, Rendered

-----------------------------------------------------------------------------
(* Steps.  What each of them does to the calls and the keys. *)

LEMMA ClaimDoes ==
    ASSUME TypeOK, NEW c \in tasks, Claim(c)
    PROVE  /\ c \in Call /\ c.pc = "queued"
           /\ UNCHANGED <<now, world, due, run, past>>
           /\ \/ /\ key[<<c.user, c.tier>>] > now
                 /\ tasks' = tasks \ {c} /\ key' = key
              \/ /\ ~(key[<<c.user, c.tier>>] > now)
                 /\ tasks' = (tasks \ {c}) \cup {Claimed(c)}
                 /\ key' = [key EXCEPT ![<<c.user, c.tier>>] = now + Ttl(c.tier)]
BY CallFields DEF TypeOK, Claim, Finish, Become, Claimed

LEMMA LoadDoes ==
    ASSUME TypeOK, NEW c \in tasks, Load(c)
    PROVE  /\ c \in Call /\ c.pc = "claimed"
           /\ UNCHANGED <<now, world, due, run, key, past>>
           /\ \/ Wanted(c) /\ tasks' = (tasks \ {c}) \cup {Shown(c)}
              \/ ~Wanted(c) /\ tasks' = tasks \ {c}
BY CallFields DEF TypeOK, Load, Finish, Shown

LEMMA FailDoes ==
    ASSUME TypeOK, NEW c \in tasks, Fail(c)
    PROVE  /\ tasks' = (tasks \ {c}) \cup Again(c)
           /\ mails' = mails \/ (c.pc = "rendered" /\ Deliver(c))
           /\ calm' = now /\ events < MaxEvents /\ events' = events + 1
           /\ UNCHANGED <<now, world, due, run, key>>
BY DEF Fail, Again, Interfere

\* One more mail of one kind.
LEMMA DeliverType ==
    ASSUME TypeInv, NEW c \in tasks, c.pc = "rendered", Deliver(c)
    PROVE  /\ mails' \in [Users \X Tiers \X Deadlines -> Nat]
           /\ \A u \in Users, t \in Tiers, e \in Deadlines :
                 mails'[<<u, t, e>>] = IF u = c.user /\ t = c.tier /\ e = c.says
                                       THEN mails[<<u, t, e>>] + 1 ELSE mails[<<u, t, e>>]
<1>1. c.user \in Users /\ c.tier \in Tiers /\ c.says \in Deadlines
  BY CallFields DEF TypeInv, TypeOK
<1>2. mails[<<c.user, c.tier, c.says>>] \in Nat
  BY <1>1 DEF TypeInv
<1>3. mails' = [mails EXCEPT ![<<c.user, c.tier, c.says>>] = mails[<<c.user, c.tier, c.says>>] + 1]
  BY DEF Deliver
<1>4. mails' \in [Users \X Tiers \X Deadlines -> Nat]
  BY <1>1, <1>2, <1>3 DEF TypeInv
<1>5. mails'[<<c.user, c.tier, c.says>>] = mails[<<c.user, c.tier, c.says>>] + 1
  BY <1>1, <1>3 DEF TypeInv
<1>6. \A u \in Users, t \in Tiers, e \in Deadlines :
        <<u, t, e>> # <<c.user, c.tier, c.says>> => mails'[<<u, t, e>>] = mails[<<u, t, e>>]
  BY <1>3 DEF TypeInv
<1>7. QED
  BY <1>4, <1>5, <1>6

LEMMA TypeInit == Init => TypeInv
<1> SUFFICES ASSUME Init PROVE TypeInv
  OBVIOUS
<1>1. key \in [Users \X Tiers -> {0}]
  BY DEF Init
<1>2. \A u \in Users, t \in Tiers : key[<<u, t>>] \in 0 .. (now + Ttl(t))
  BY <1>1, Numbers DEF Init
<1>3. TypeOK
  BY <1>2, Numbers DEF Init, TypeOK
<1>4. QED
  BY <1>1, <1>3 DEF Init, TypeInv

LEMMA TypeStep == TypeInv /\ [Next]_vars => TypeInv'
<1> SUFFICES ASSUME TypeInv, [Next]_vars PROVE TypeInv'
  OBVIOUS
<1> USE DEF TypeInv, TypeOK
<1>0. MaxTime \in Nat /\ MaxEvents \in Nat /\ now \in Nat /\ calm \in Nat /\ events \in Nat
  BY Numbers
<1>1. CASE DispatchSelect
  <2>1. due \in SUBSET Nat /\ due # {} /\ due \subseteq 0 .. now
    BY <1>0, <1>1 DEF DispatchSelect
  <2>2. Min(due) \in 0 .. now
    BY <2>1, MinIs
  <2>3. SelectTier(poll.ends_at - now) \subseteq Tiers
    BY DEF SelectTier
  <2>4. run' \in {Idle} \cup [pc : {"selected"}, at : 0 .. now, tier : Tiers]
    <3> DEFINE tiers == SelectTier(poll.ends_at - now)
    <3>1. tiers # {} => (CHOOSE t \in tiers : TRUE) \in Tiers
      BY <2>3
    <3>2. \/ run' = Idle
          \/ \E t \in Tiers : run' = [pc |-> "selected", at |-> Min(due), tier |-> t]
      BY <1>1, <3>1 DEF DispatchSelect
    <3>3. QED
      BY <2>2, <3>2
  <2>5. QED
    BY <1>1, <2>1, <2>4 DEF DispatchSelect, world, past
<1>2. CASE DispatchEnqueue
  <2>1. Calls(NonResponders) \subseteq Call
    BY <1>2, CallsAre DEF DispatchEnqueue, NonResponders
  <2>2. QED
    BY <1>2, <2>1 DEF DispatchEnqueue, world, past
<1>3. CASE DispatchCrash
  <2>1. PICK done \in SUBSET NonResponders : tasks' = tasks \cup Calls(done)
    BY <1>3 DEF DispatchCrash
  <2>2. done \in SUBSET Users
    BY <2>1 DEF NonResponders
  <2>3. Calls(done) \subseteq Call
    BY <1>3, <2>2, CallsAre DEF DispatchCrash
  <2>4. QED
    BY <1>0, <1>3, <2>1, <2>3 DEF DispatchCrash, Interfere, world
<1>4. ASSUME NEW c \in tasks, Claim(c) PROVE TypeInv'
  <2>1. c.user \in Users /\ c.tier \in Tiers /\ Ttl(c.tier) \in Nat /\ c \in Call
    BY <1>4, ClaimDoes, CallFields, Numbers
  <2>2. tasks' \subseteq Call \cup Rendered
    <3>1. Claimed(c) \in Call
      BY <2>1, ClaimedIs
    <3>2. tasks' \subseteq tasks \cup {Claimed(c)}
      BY <1>4, ClaimDoes
    <3>3. QED
      BY <3>1, <3>2
  <2>3. key' \in [Users \X Tiers -> Nat] /\ \A u \in Users, t \in Tiers : key'[<<u, t>>] \in 0 .. (now + Ttl(t))
    <3>1. now + Ttl(c.tier) \in Nat
      BY <1>0, <2>1
    <3>2. CASE key' = [key EXCEPT ![<<c.user, c.tier>>] = now + Ttl(c.tier)]
      <4>1. key' \in [Users \X Tiers -> Nat]
        BY <3>1, <3>2
      <4>2. \A u \in Users, t \in Tiers :
              key'[<<u, t>>] = IF u = c.user /\ t = c.tier THEN now + Ttl(c.tier)
                               ELSE key[<<u, t>>]
        BY <3>2
      <4>3. QED
        BY <3>1, <4>1, <4>2
    <3>3. QED
      BY <1>4, <3>2, ClaimDoes
  <2>4. QED
    BY <1>4, <2>2, <2>3, ClaimDoes DEF world, past
<1>5. ASSUME NEW c \in tasks, Load(c) PROVE TypeInv'
  <2>1. c \in Call /\ tasks' \subseteq Call \cup Rendered
    BY <1>5, LoadDoes, ShownIs DEF Wanted
  <2>2. QED
    BY <1>5, <2>1, LoadDoes DEF world, past
<1>6. ASSUME NEW c \in tasks, Send(c) PROVE TypeInv'
  BY <1>6, DeliverType DEF Send, Finish, world
<1>7. ASSUME NEW c \in tasks, Fail(c) PROVE TypeInv'
  <2>1. tasks' \subseteq Call \cup Rendered
    BY <1>7, FailDoes, AgainIs
  <2>2. /\ calm' = now /\ events' \in 0 .. MaxEvents /\ now' = now
        /\ due' = due /\ run' = run /\ key' = key
    BY <1>0, <1>7, FailDoes
  <2>3. mails' \in [Users \X Tiers \X Deadlines -> Nat]
    BY <1>7, FailDoes, DeliverType
  <2>4. QED
    BY <1>0, <1>7, <2>1, <2>2, <2>3, FailDoes DEF world
<1>8. ASSUME NEW r \in Rows, Edit(r) PROVE TypeInv'
  BY <1>0, <1>8 DEF Edit, Interfere, work
<1>9. ASSUME NEW u \in Users, Move(u) PROVE TypeInv'
  BY <1>0, <1>9 DEF Move, Interfere, work, SymDiff
<1>10. CASE Tick
  <2>1. now' = now + 1 /\ now' \in 0 .. MaxTime
    BY <1>0, <1>10 DEF Tick
  <2>2. \A u \in Users, t \in Tiers : key'[<<u, t>>] \in 0 .. (now' + Ttl(t))
    <3>1. key' = key /\ \A t \in Tiers : Ttl(t) \in Nat
      BY <1>10, Numbers DEF Tick
    <3>2. ASSUME NEW u \in Users, NEW t \in Tiers
          PROVE  key[<<u, t>>] \in 0 .. (now' + Ttl(t))
      <4>1. key[<<u, t>>] \in 0 .. (now + Ttl(t)) /\ Ttl(t) \in Nat
        BY <3>1
      <4>2. QED
        BY <1>0, <2>1, <4>1
    <3>3. QED
      BY <3>1, <3>2
  <2>3. due' \subseteq 0 .. now' /\ calm' \in 0 .. now'
    BY <1>0, <1>10, <2>1 DEF Tick
  <2>4. run' \in {Idle} \cup [pc : {"selected"}, at : 0 .. now', tier : Tiers]
    <3>1. 0 .. now \subseteq 0 .. now'
      BY <1>0, <2>1
    <3>2. QED
      BY <1>10, <3>1 DEF Tick
  <2>5. QED
    BY <1>10, <2>1, <2>2, <2>3, <2>4 DEF Tick, world
<1>11. CASE UNCHANGED vars
  BY <1>11 DEF vars, world, work, past
<1>12. QED
  BY <1>1, <1>2, <1>3, <1>4, <1>5, <1>6, <1>7, <1>8, <1>9, <1>10, <1>11 DEF Next

\* Times, keys and calls stay what they are.
THEOREM TypeCorrect == Spec => []TypeOK
<1>1. TypeInv => TypeOK
  BY DEF TypeInv
<1>2. QED
  BY <1>1, TypeInit, TypeStep, PTL DEF Spec

-----------------------------------------------------------------------------
(* Once per deadline. *)

\* Types that the arithmetic below needs.
LEMMA Times ==
    ASSUME TypeInv
    PROVE  /\ now \in Nat /\ calm \in Nat /\ calm <= now /\ poll \in Rows /\ poll.ends_at \in Int
           /\ poll.starts_at \in Int /\ Deadlines \subseteq Int
           /\ \A u \in Users, t \in Tiers : key[<<u, t>>] \in Nat /\ key[<<u, t>>] <= now + Ttl(t)
           /\ \A u \in Users, t \in Tiers, e \in Deadlines : mails[<<u, t, e>>] \in Nat
           /\ \A c \in tasks : c \in Call \cup Rendered
<1>1. MaxTime \in Nat /\ now \in 0 .. MaxTime /\ calm \in 0 .. now /\ poll \in Rows
  BY Numbers DEF TypeInv, TypeOK
<1>2. Deadlines \subseteq Int
  BY RowFields DEF Deadlines
<1>3. ASSUME NEW u \in Users, NEW t \in Tiers
      PROVE  key[<<u, t>>] \in Nat /\ key[<<u, t>>] <= now + Ttl(t)
  BY <1>1, Numbers DEF TypeInv, TypeOK
<1>4. QED
  BY <1>1, <1>2, <1>3, RowFields DEF TypeInv, TypeOK

LEMMA OnceInit == Init => OnceInv
BY Numbers, RowFields DEF Init, OnceInv, Deadlines, None

\* Nothing changes as long as no call takes a key, loads its rows or sends.
LEMMA FewerInFlight ==
    ASSUME OnceInv, now' = now, key' = key, mails' = mails,
           \A c \in tasks' : InFlight(c) => c \in tasks
    PROVE  OnceInv'
<1>1. \A c \in tasks' : c.pc = "rendered" => c \in tasks
  BY DEF InFlight
<1>2. QED
  BY <1>1 DEF OnceInv

\* A claim succeeds only when every deadline that a mail was sent for is over.
LEMMA ClaimOnce ==
    ASSUME TypeInv, OnceInv, NEW c \in tasks, Claim(c)
    PROVE  OnceInv'
<1>1. now' = now /\ mails' = mails /\ c \in Call /\ c.pc = "queued"
  BY ClaimDoes DEF TypeInv, past
<1>2. CASE tasks' = tasks \ {c} /\ key' = key
  BY <1>1, <1>2, FewerInFlight
<1>3. CASE /\ ~(key[<<c.user, c.tier>>] > now)
           /\ tasks' = (tasks \ {c}) \cup {Claimed(c)}
           /\ key' = [key EXCEPT ![<<c.user, c.tier>>] = now + Ttl(c.tier)]
  <2>1. c.user \in Users /\ c.tier \in Tiers /\ Ttl(c.tier) \in Nat /\ Ttl(c.tier) > 0
    <3>1. c.user \in Users /\ c.tier \in Tiers
      BY <1>1, CallFields
    <3>2. c.tier \in Nat /\ Slack \in Nat /\ Ttl(c.tier) \in Nat /\ Ttl(c.tier) > c.tier + Slack
      BY <3>1, Numbers
    <3>3. QED
      BY <3>1, <3>2
  <2>2. /\ Claimed(c).pc = "claimed" /\ Claimed(c).user = c.user /\ Claimed(c).tier = c.tier
    BY <1>1, ClaimedIs
  <2>3. \A u \in Users, t \in Tiers :
          key'[<<u, t>>] = IF u = c.user /\ t = c.tier THEN now + Ttl(c.tier)
                           ELSE key[<<u, t>>]
    BY <1>3, <2>1 DEF TypeInv
  <2>4. \A d \in tasks : ~(InFlight(d) /\ d.user = c.user /\ d.tier = c.tier)
    BY <1>3, <2>1, Times DEF OnceInv
  <2>5. \A e \in Deadlines : mails[<<c.user, c.tier, e>>] > 0 => e <= now
    BY <1>3, <2>1, Times DEF OnceInv
  <2>6. ASSUME NEW d \in tasks', InFlight(d)
        PROVE  d = Claimed(c) \/ (d \in tasks /\ (d.user # c.user \/ d.tier # c.tier))
    BY <1>3, <2>4, <2>6
  <2>7. ASSUME NEW u \in Users, NEW t \in Tiers, NEW e \in Deadlines
        PROVE  mails'[<<u, t, e>>] <= 1 /\ (mails'[<<u, t, e>>] > 0 => e < key'[<<u, t>>])
    BY <1>1, <2>1, <2>3, <2>5, Times DEF OnceInv
  <2>8. ASSUME NEW d \in tasks', InFlight(d)
        PROVE  /\ key'[<<d.user, d.tier>>] = now' + Ttl(d.tier)
               /\ \A e \in Deadlines : mails'[<<d.user, d.tier, e>>] > 0 => e <= now'
    <3>1. CASE d = Claimed(c)
      BY <1>1, <2>1, <2>2, <2>3, <2>5, <3>1
    <3>2. CASE d \in tasks /\ (d.user # c.user \/ d.tier # c.tier)
      <4>1. d.user \in Users /\ d.tier \in Tiers
        BY <3>2, Times, CallFields
      <4>2. QED
        BY <1>1, <2>3, <2>8, <3>2, <4>1 DEF OnceInv
    <3>3. QED
      BY <2>6, <2>8, <3>1, <3>2
  <2>9. \A d \in tasks' : d.pc = "rendered" => d \in tasks
    BY <1>3, <2>2
  <2>10. ASSUME NEW d \in tasks', NEW f \in tasks', InFlight(d), InFlight(f),
                d.user = f.user, d.tier = f.tier
         PROVE  d = f
    BY <2>2, <2>6, <2>10 DEF OnceInv
  <2>11. QED
    BY <1>1, <2>7, <2>8, <2>9, <2>10 DEF OnceInv
<1>4. QED
  BY <1>2, <1>3, ClaimDoes DEF TypeInv

\* What is loaded is a deadline ahead, and not so far that the key could be gone by then.
LEMMA LoadOnce ==
    ASSUME TypeInv, OnceInv, NEW c \in tasks, Load(c)
    PROVE  OnceInv'
<1>1. now' = now /\ mails' = mails /\ key' = key /\ c \in Call /\ c.pc = "claimed"
  BY LoadDoes DEF TypeInv, past
<1>2. CASE tasks' = tasks \ {c}
  BY <1>1, <1>2, FewerInFlight
<1>3. CASE Wanted(c) /\ tasks' = (tasks \ {c}) \cup {Shown(c)}
  <2>1. /\ Shown(c).pc = "rendered" /\ Shown(c).user = c.user /\ Shown(c).tier = c.tier
        /\ Shown(c).says = poll.ends_at
    BY <1>1, <1>3, ShownIs, Times DEF Wanted
  <2>2. c.tier \in Nat /\ Slack \in Nat
    BY <1>1, CallFields, Numbers
  <2>3. now < poll.ends_at /\ poll.ends_at <= now + c.tier + Slack
    BY <1>3, <2>2, Times DEF Wanted, Open
  <2>4. ASSUME NEW d \in tasks', InFlight(d)
        PROVE  /\ key'[<<d.user, d.tier>>] = now' + Ttl(d.tier)
               /\ \A e \in Deadlines : mails'[<<d.user, d.tier, e>>] > 0 => e <= now'
    BY <1>1, <1>3, <2>1, <2>4 DEF OnceInv, InFlight
  <2>5. ASSUME NEW d \in tasks', d.pc = "rendered"
        PROVE  now' < d.says /\ d.says <= now' + d.tier + Slack
    BY <1>1, <1>3, <2>1, <2>3, <2>5 DEF OnceInv
  <2>6. ASSUME NEW d \in tasks', NEW f \in tasks', InFlight(d), InFlight(f),
               d.user = f.user, d.tier = f.tier
        PROVE  d = f
    BY <1>1, <1>3, <2>1, <2>6 DEF OnceInv, InFlight
  <2>7. QED
    BY <1>1, <2>4, <2>5, <2>6 DEF OnceInv
<1>4. QED
  BY <1>2, <1>3, LoadDoes DEF TypeInv

\* The mail is the first about its deadline, and the key outlasts that.
LEMMA DeliverOnce ==
    ASSUME TypeInv, OnceInv, NEW c \in tasks, c.pc = "rendered", Deliver(c),
           now' = now, key' = key, \A d \in tasks' : InFlight(d) => d \in tasks \ {c}
    PROVE  OnceInv'
<1>1. /\ c.user \in Users /\ c.tier \in Tiers /\ c.says \in Deadlines /\ c.says \in Nat
      /\ c.tier \in Nat /\ Slack \in Nat /\ Ttl(c.tier) \in Nat /\ Ttl(c.tier) > c.tier + Slack
  BY CallFields, Times, Numbers
<1>2. /\ mails[<<c.user, c.tier, c.says>>] = 0
      /\ c.says < key[<<c.user, c.tier>>]
  BY <1>1, Times DEF OnceInv, InFlight
<1>3. \A u \in Users, t \in Tiers, e \in Deadlines :
        mails'[<<u, t, e>>] = IF u = c.user /\ t = c.tier /\ e = c.says
                              THEN mails[<<u, t, e>>] + 1 ELSE mails[<<u, t, e>>]
  BY DeliverType
<1>4. ASSUME NEW u \in Users, NEW t \in Tiers, NEW e \in Deadlines
      PROVE  mails'[<<u, t, e>>] <= 1 /\ (mails'[<<u, t, e>>] > 0 => e < key'[<<u, t>>])
  BY <1>1, <1>2, <1>3 DEF OnceInv
<1>5. ASSUME NEW d \in tasks', InFlight(d)
      PROVE  /\ key'[<<d.user, d.tier>>] = now' + Ttl(d.tier)
             /\ \A e \in Deadlines : mails'[<<d.user, d.tier, e>>] > 0 => e <= now'
  <2>1. d \in tasks /\ (d.user # c.user \/ d.tier # c.tier)
    BY <1>5 DEF OnceInv, InFlight
  <2>2. d.user \in Users /\ d.tier \in Tiers
    BY <2>1, Times, CallFields
  <2>3. QED
    BY <1>3, <1>5, <2>1, <2>2 DEF OnceInv
<1>6. \A d \in tasks' : d.pc = "rendered" => d \in tasks
  BY DEF InFlight
<1>7. QED
  BY <1>4, <1>5, <1>6 DEF OnceInv

LEMMA OnceStep == TypeInv /\ OnceInv /\ [Next]_vars => OnceInv'
<1> SUFFICES ASSUME TypeInv, OnceInv, [Next]_vars PROVE OnceInv'
  OBVIOUS
<1>1. CASE DispatchSelect
  BY <1>1, FewerInFlight DEF DispatchSelect, past
<1>2. CASE DispatchEnqueue \/ DispatchCrash
  <2>1. PICK who \in SUBSET NonResponders : tasks' = tasks \cup Calls(who)
    BY <1>2 DEF DispatchEnqueue, DispatchCrash
  <2>2. who \in SUBSET Users
    BY <2>1 DEF NonResponders, TypeInv, TypeOK
  <2>3. \A c \in Calls(who) : ~InFlight(c)
    BY <1>2, <2>2, CallsAre DEF DispatchEnqueue, DispatchCrash, InFlight, TypeInv
  <2>4. QED
    BY <1>2, <2>1, <2>3, FewerInFlight DEF DispatchEnqueue, DispatchCrash, past
<1>3. ASSUME NEW c \in tasks, Claim(c) PROVE OnceInv'
  BY <1>3, ClaimOnce
<1>4. ASSUME NEW c \in tasks, Load(c) PROVE OnceInv'
  BY <1>4, LoadOnce
<1>5. ASSUME NEW c \in tasks, Send(c) PROVE OnceInv'
  BY <1>5, DeliverOnce DEF Send, Finish
<1>6. ASSUME NEW c \in tasks, Fail(c) PROVE OnceInv'
  <2>1. /\ tasks' = (tasks \ {c}) \cup Again(c) /\ now' = now /\ key' = key
        /\ mails' = mails \/ (c.pc = "rendered" /\ Deliver(c))
    BY <1>6, FailDoes DEF TypeInv
  <2>2. \A d \in tasks' : InFlight(d) => d \in tasks \ {c}
    BY <2>1, AgainIs, Times DEF InFlight
  <2>3. QED
    BY <2>1, <2>2, FewerInFlight, DeliverOnce
<1>7. ASSUME NEW r \in Rows, Edit(r) PROVE OnceInv'
  BY <1>7, FewerInFlight DEF Edit, work
<1>8. ASSUME NEW u \in Users, Move(u) PROVE OnceInv'
  BY <1>8, FewerInFlight DEF Move, work
<1>9. CASE Tick
  BY <1>9 DEF Tick, OnceInv, InFlight
<1>10. CASE UNCHANGED vars
  BY <1>10, FewerInFlight DEF vars, work, past
<1>11. QED
  BY <1>1, <1>2, <1>3, <1>4, <1>5, <1>6, <1>7, <1>8, <1>9, <1>10 DEF Next

\* However runs overlap and calls are retried, and however the owner moves the deadline,
\* nobody is told of one deadline twice by one tier.
THEOREM OncePerDeadlineHolds == Spec => []OncePerDeadline
<1>1. OnceInv => OncePerDeadline
  BY DEF OnceInv, OncePerDeadline
<1>2. QED
  BY <1>1, TypeInit, TypeStep, OnceInit, OnceStep, PTL DEF Spec

-----------------------------------------------------------------------------
(* Nobody is left out. *)

\* In a window that is calm the tasks work in time: nothing interferes at this moment.
LEMMA CalmNow ==
    ASSUME TypeInv, RemindInv, NEW t \in Tiers, Calmly(t), NEW k \in 0 .. now,
           poll.ends_at - t <= k
    PROVE  calm < now /\ Timely /\ poll.ends_at - t <= now /\ t \in Nat
BY Times, Numbers DEF Calmly, RemindInv

\* When something interferes, no window is calm but those ahead.
LEMMA Interfered ==
    ASSUME TypeInv, TypeInv', now' = now, calm' = now
    PROVE  RemindInv'
<1>1. now \in Nat /\ poll'.ends_at \in Int
  <2>1. poll' \in Rows
    BY DEF TypeInv, TypeOK
  <2>2. QED
    BY <2>1, Times, RowFields
<1>2. ASSUME NEW t \in Tiers, Calmly(t)' PROVE now < poll'.ends_at - t
  BY <1>2 DEF Calmly
<1>3. ASSUME NEW t \in Tiers, Calmly(t)', NEW k \in 0 .. now' PROVE ~InWindow(t, k)'
  BY <1>1, <1>2, <1>3, Numbers DEF InWindow
<1>4. ASSUME NEW t \in Tiers, Calmly(t)', NEW u \in active'
      PROVE  ~(key'[<<u, t>>] - Ttl(t) >= poll'.ends_at - t)
  <2>1. u \in Users
    BY <1>4 DEF TypeInv, TypeOK
  <2>2. now < poll'.ends_at - t /\ t \in Nat /\ Ttl(t) \in Nat
    BY <1>2, <1>4, Numbers
  <2>3. key'[<<u, t>>] \in Nat /\ key'[<<u, t>>] <= now + Ttl(t)
    BY <1>1, <2>1, <2>2 DEF TypeInv, TypeOK
  <2>4. QED
    BY <1>1, <2>2, <2>3
<1>5. ~(calm' < now')
  BY <1>1
<1>6. QED
  BY <1>3, <1>4, <1>5 DEF RemindInv

LEMMA RemindInit == Init => RemindInv
<1> SUFFICES ASSUME Init PROVE RemindInv
  OBVIOUS
<1>1. calm = 0 /\ now = 0 /\ poll \in Rows /\ key = [p \in Users \X Tiers |-> 0]
      /\ active = Users
  BY DEF Init
<1>2. poll.ends_at \in Int /\ Tiers \subseteq Nat /\ \A t \in Tiers : Ttl(t) \in Nat
  BY <1>1, RowFields, Numbers
<1>3. QED
  BY <1>1, <1>2 DEF RemindInv, Calmly, InWindow

\* A step of a call keeps it all if it takes no reminder away and holds on to what is
\* on its way; the times, the rows and the runs stay.
LEMMA CallStep ==
    ASSUME TypeInv, RemindInv, UNCHANGED <<now, world, due, run, calm>>,
           calm < now => Timely',
           \A u \in active, t \in Tiers, k \in 0 .. now :
              Calmly(t) /\ poll.ends_at - t <= k /\ Reminded(u, t) => Reminded(u, t)',
           \A u \in active, t \in Tiers :
              Calmly(t) /\ key'[<<u, t>>] - Ttl(t) >= poll.ends_at - t => OnItsWay(u, t)'
    PROVE  RemindInv'
<1>1. /\ now' = now /\ due' = due /\ run' = run /\ calm' = calm
      /\ poll' = poll /\ audience' = audience /\ active' = active /\ responded' = responded
  BY DEF world
<1>2. \A t \in Tiers : Calmly(t)' <=> Calmly(t)
  BY <1>1 DEF Calmly, Open
<1>3. ASSUME NEW t \in Tiers, NEW k \in 0 .. now, Calmly(t), InWindow(t, k), k % Window = 0,
             Through(k), NEW u \in NonResponders
      PROVE  Reminded(u, t)'
  <2>1. u \in active /\ poll.ends_at - t <= k
    BY <1>3 DEF NonResponders, InWindow
  <2>2. Reminded(u, t)
    BY <1>3 DEF RemindInv
  <2>3. QED
    BY <1>3, <2>1, <2>2
<1>4. \A t \in Tiers, k \in 0 .. now' :
        (Calmly(t) /\ InWindow(t, k) /\ k % Window = 0 /\ Through(k))'
           => \A u \in NonResponders' : Reminded(u, t)'
  BY <1>1, <1>2, <1>3 DEF InWindow, Through, NonResponders
<1>5. QED
  BY <1>1, <1>2, <1>4 DEF RemindInv

\* A call that finds the key taken leaves its user to whoever took it.
LEMMA ClaimRemind ==
    ASSUME TypeInv, OnceInv, RemindInv, NEW c \in tasks, Claim(c)
    PROVE  RemindInv'
<1>1. /\ UNCHANGED <<now, world, due, run, past>> /\ c \in Call /\ c.pc = "queued"
  BY ClaimDoes DEF TypeInv
<1>2. /\ now' = now /\ poll' = poll /\ due' = due /\ run' = run /\ mails' = mails /\ calm' = calm
  BY <1>1 DEF world, past
<1>3. c.user \in Users /\ c.tier \in Tiers /\ Claimed(c).pc = "claimed"
      /\ Claimed(c).user = c.user /\ Claimed(c).tier = c.tier
  BY <1>1, CallFields, ClaimedIs
<1>4. CASE tasks' = tasks \ {c} /\ key' = key /\ key[<<c.user, c.tier>>] > now
  <2>1. ASSUME NEW u \in active, NEW t \in Tiers, OnItsWay(u, t)
        PROVE  OnItsWay(u, t)'
    BY <1>1, <1>2, <1>4, <2>1 DEF OnItsWay, InFlight
  <2>2. ASSUME NEW u \in active, NEW t \in Tiers, NEW k \in 0 .. now,
               Calmly(t), poll.ends_at - t <= k, Reminded(u, t)
        PROVE  Reminded(u, t)'
    <3>1. CASE u = c.user /\ t = c.tier
      <4>1. poll.ends_at - t <= now
        BY <2>2, CalmNow
      <4>2. /\ key[<<u, t>>] \in Nat /\ Ttl(t) \in Nat /\ poll.ends_at \in Int /\ t \in Nat
            /\ now \in Nat
        BY <1>3, <3>1, Times, Numbers
      <4>3. key[<<u, t>>] > poll.ends_at - t
        BY <1>4, <3>1, <4>1, <4>2
      <4>4. CASE key[<<u, t>>] - Ttl(t) < poll.ends_at - t
        BY <1>2, <1>4, <4>3, <4>4 DEF Reminded
      <4>5. CASE key[<<u, t>>] - Ttl(t) >= poll.ends_at - t
        <5>1. OnItsWay(u, t)
          BY <2>2, <4>5 DEF RemindInv
        <5>2. QED
          BY <2>1, <5>1 DEF OnItsWay, Reminded
      <4>6. QED
        BY <4>2, <4>4, <4>5
    <3>2. CASE ~(u = c.user /\ t = c.tier)
      BY <1>2, <1>4, <2>2, <3>2 DEF Reminded
    <3>3. QED
      BY <3>1, <3>2
  <2>3. \A u \in active, t \in Tiers :
          Calmly(t) /\ key'[<<u, t>>] - Ttl(t) >= poll.ends_at - t => OnItsWay(u, t)'
    BY <1>4, <2>1 DEF RemindInv
  <2>4. calm < now => Timely'
    BY <1>2, <1>4 DEF RemindInv, Timely, SelectTier
  <2>5. QED
    BY <1>1, <1>2, <2>2, <2>3, <2>4, CallStep
<1>5. CASE /\ tasks' = (tasks \ {c}) \cup {Claimed(c)}
           /\ key' = [key EXCEPT ![<<c.user, c.tier>>] = now + Ttl(c.tier)]
  <2>1. \A u \in Users, t \in Tiers :
          ~(u = c.user /\ t = c.tier) => key'[<<u, t>>] = key[<<u, t>>]
    BY <1>5 DEF TypeInv
  <2>2. OnItsWay(c.user, c.tier)'
    BY <1>3, <1>5 DEF OnItsWay, InFlight
  <2>3. ASSUME NEW u \in active, NEW t \in Tiers, ~(u = c.user /\ t = c.tier)
        PROVE  /\ key'[<<u, t>>] = key[<<u, t>>]
               /\ Reminded(u, t) => Reminded(u, t)'
               /\ OnItsWay(u, t) => OnItsWay(u, t)'
    <3>1. key'[<<u, t>>] = key[<<u, t>>]
      BY <2>1, <2>3 DEF TypeInv, TypeOK
    <3>2. QED
      BY <1>2, <1>5, <2>3, <3>1 DEF Reminded, OnItsWay
  <2>4. ASSUME NEW u \in active, NEW t \in Tiers, Reminded(u, t)
        PROVE  Reminded(u, t)'
    BY <2>2, <2>3, <2>4 DEF OnItsWay, Reminded
  <2>5. ASSUME NEW u \in active, NEW t \in Tiers,
               Calmly(t), key'[<<u, t>>] - Ttl(t) >= poll.ends_at - t
        PROVE  OnItsWay(u, t)'
    BY <2>2, <2>3, <2>5 DEF RemindInv
  <2>6. calm < now => Timely'
    BY <1>2, <1>3, <1>5 DEF RemindInv, Timely, SelectTier
  <2>7. QED
    BY <1>1, <1>2, <2>4, <2>5, <2>6, CallStep
<1>6. QED
  BY <1>4, <1>5, ClaimDoes DEF TypeInv

\* In a calm window the rows are what the tier wants them to be.
LEMMA LoadRemind ==
    ASSUME TypeInv, OnceInv, RemindInv, NEW c \in tasks, Load(c)
    PROVE  RemindInv'
<1>1. /\ UNCHANGED <<now, world, due, run, key, past>> /\ c \in Call /\ c.pc = "claimed"
  BY LoadDoes DEF TypeInv
<1>2. /\ now' = now /\ poll' = poll /\ due' = due /\ run' = run /\ mails' = mails
      /\ calm' = calm /\ key' = key
  BY <1>1 DEF world, past
<1>3. c.user \in Users /\ c.tier \in Tiers
  BY <1>1, CallFields
<1>4. ASSUME c.user \in active, Calmly(c.tier), poll.ends_at - c.tier <= now
      PROVE  Wanted(c)
  <2>1. poll.ends_at \in Int /\ now \in Nat /\ c.tier \in Nat /\ Slack \in Nat
    BY <1>3, Times, Numbers
  <2>2. QED
    BY <1>4, <2>1 DEF Calmly, Wanted
<1>5. ASSUME NEW u \in active, NEW t \in Tiers, Calmly(t), poll.ends_at - t <= now,
             NEW d \in tasks, d.user = u, d.tier = t
      PROVE  \E f \in tasks' : f.user = u /\ f.tier = t /\ (InFlight(d) => InFlight(f))
  <2>1. CASE d = c
    <3>1. Wanted(c)
      BY <1>4, <1>5, <2>1
    <3>2. Shown(c).user = c.user /\ Shown(c).tier = c.tier /\ Shown(c).pc = "rendered"
      BY <1>1, <3>1, ShownIs, Times DEF Wanted
    <3>3. Shown(c) \in tasks'
      BY <3>1, LoadDoes DEF TypeInv
    <3>4. QED
      BY <1>5, <2>1, <3>2, <3>3 DEF InFlight
  <2>2. CASE d # c
    <3>1. d \in tasks'
      BY <2>2, LoadDoes DEF TypeInv
    <3>2. QED
      BY <1>5, <3>1
  <2>3. QED
    BY <2>1, <2>2
<1>6. ASSUME NEW u \in active, NEW t \in Tiers, NEW k \in 0 .. now,
             Calmly(t), poll.ends_at - t <= k, Reminded(u, t)
      PROVE  Reminded(u, t)'
  <2>1. poll.ends_at - t <= now
    BY <1>6, CalmNow
  <2>2. QED
    BY <1>2, <1>5, <1>6, <2>1 DEF Reminded
<1>7. ASSUME NEW u \in active, NEW t \in Tiers,
             Calmly(t), key'[<<u, t>>] - Ttl(t) >= poll.ends_at - t
      PROVE  OnItsWay(u, t)'
  <2>1. OnItsWay(u, t)
    BY <1>2, <1>7 DEF RemindInv
  <2>2. poll.ends_at - t <= now
    <3>1. u \in Users
      BY DEF TypeInv, TypeOK
    <3>2. /\ key[<<u, t>>] \in Nat /\ key[<<u, t>>] <= now + Ttl(t) /\ Ttl(t) \in Nat
          /\ now \in Nat /\ poll.ends_at \in Int /\ t \in Nat
      BY <3>1, Times, Numbers
    <3>3. QED
      BY <1>2, <1>7, <3>2
  <2>3. QED
    BY <1>2, <1>5, <1>7, <2>1, <2>2 DEF OnItsWay
<1>8. calm < now => Timely'
  <2>1. ASSUME NEW d \in tasks', d.pc = "rendered", calm < now
        PROVE  d.says = poll.ends_at
    <3>1. CASE d \in tasks
      BY <2>1, <3>1 DEF RemindInv, Timely
    <3>2. CASE d \notin tasks
      <4>1. Wanted(c) /\ d = Shown(c)
        BY <3>2, LoadDoes DEF TypeInv
      <4>2. QED
        BY <1>1, <4>1, ShownIs, Times DEF Wanted
    <3>3. QED
      BY <3>1, <3>2
  <2>2. QED
    BY <1>2, <2>1 DEF RemindInv, Timely, SelectTier
<1>9. QED
  BY <1>1, <1>2, <1>6, <1>7, <1>8, CallStep DEF past

\* A mail that is sent in a calm window is about the deadline as it is.
LEMMA SendRemind ==
    ASSUME TypeInv, OnceInv, RemindInv, NEW c \in tasks, Send(c)
    PROVE  RemindInv'
<1>1. /\ UNCHANGED <<now, world, due, run, key, calm>> /\ c.pc = "rendered" /\ Deliver(c)
      /\ tasks' = tasks \ {c}
  BY DEF Send, Finish
<1>2. /\ now' = now /\ poll' = poll /\ due' = due /\ run' = run /\ calm' = calm /\ key' = key
  BY <1>1 DEF world
<1>3. /\ c.user \in Users /\ c.tier \in Tiers /\ c.says \in Deadlines
      /\ poll.ends_at \in Deadlines /\ active \subseteq Users
  BY <1>1, CallFields, Times, RowFields DEF TypeInv, TypeOK
<1>4. \A u \in Users, t \in Tiers, e \in Deadlines :
        mails'[<<u, t, e>>] = IF u = c.user /\ t = c.tier /\ e = c.says
                              THEN mails[<<u, t, e>>] + 1 ELSE mails[<<u, t, e>>]
  BY <1>1, DeliverType
<1>5. ASSUME NEW u \in active, NEW t \in Tiers, calm < now
      PROVE  /\ mails'[<<u, t, poll.ends_at>>] >= mails[<<u, t, poll.ends_at>>]
             /\ u = c.user /\ t = c.tier => mails'[<<u, t, poll.ends_at>>] > 0
  <2>1. c.says = poll.ends_at
    BY <1>1, <1>5 DEF RemindInv, Timely
  <2>2. mails[<<u, t, poll.ends_at>>] \in Nat
    BY <1>3, Times
  <2>3. QED
    BY <1>3, <1>4, <2>1, <2>2
<1>6. ASSUME NEW u \in active, NEW t \in Tiers, calm < now, OnItsWay(u, t)
      PROVE  OnItsWay(u, t)'
  <2>1. mails[<<u, t, poll.ends_at>>] \in Nat /\ mails'[<<u, t, poll.ends_at>>] \in Int
    BY <1>3, <1>4, Times
  <2>2. QED
    BY <1>1, <1>2, <1>5, <1>6, <2>1 DEF OnItsWay
<1>7. ASSUME NEW u \in active, NEW t \in Tiers, calm < now, Reminded(u, t)
      PROVE  Reminded(u, t)'
  <2>1. mails[<<u, t, poll.ends_at>>] \in Nat /\ mails'[<<u, t, poll.ends_at>>] \in Int
    BY <1>3, <1>4, Times
  <2>2. QED
    BY <1>1, <1>2, <1>5, <1>7, <2>1 DEF Reminded
<1>8. ASSUME NEW u \in active, NEW t \in Tiers,
             Calmly(t), key'[<<u, t>>] - Ttl(t) >= poll.ends_at - t
      PROVE  OnItsWay(u, t)'
  <2>1. OnItsWay(u, t)
    BY <1>2, <1>8 DEF RemindInv
  <2>2. /\ key[<<u, t>>] \in Nat /\ key[<<u, t>>] <= now + Ttl(t) /\ Ttl(t) \in Nat
        /\ now \in Nat /\ calm \in Nat /\ poll.ends_at \in Int /\ t \in Nat
    BY <1>3, Times, Numbers
  <2>3. calm < now
    BY <1>2, <1>8, <2>2 DEF Calmly
  <2>4. QED
    BY <1>6, <2>1, <2>3
<1>9. calm < now => Timely'
  BY <1>1, <1>2 DEF RemindInv, Timely, SelectTier
<1>10. ASSUME NEW u \in active, NEW t \in Tiers, NEW k \in 0 .. now,
              Calmly(t), poll.ends_at - t <= k, Reminded(u, t)
       PROVE  Reminded(u, t)'
  BY <1>7, <1>10, CalmNow
<1>11. QED
  BY <1>1, <1>8, <1>9, <1>10, CallStep

\* The run that is due now is through when it starts only if no tier has its window now.
LEMMA SelectRemind ==
    ASSUME TypeInv, RemindInv, DispatchSelect
    PROVE  RemindInv'
<1>1. /\ now' = now /\ poll' = poll /\ audience' = audience /\ active' = active
      /\ responded' = responded /\ tasks' = tasks /\ key' = key /\ mails' = mails /\ calm' = calm
      /\ due # {} /\ due' = due \ {Min(due)} /\ run.pc = "idle"
  BY DEF DispatchSelect, world, past
<1> DEFINE tiers == SelectTier(poll.ends_at - now)
<1>2. /\ now \in Nat /\ calm \in Nat /\ poll.ends_at \in Int /\ poll.starts_at \in Int
      /\ due \in SUBSET Nat
  BY Times DEF TypeInv, TypeOK
<1>3. run = Idle
  BY <1>1 DEF TypeInv, TypeOK
<1>4. Min(due) \in due
  BY <1>1, <1>2, MinIs
<1>5. run' = Idle \/ \E t \in tiers : run' = [pc |-> "selected", at |-> Min(due), tier |-> t]
  BY DEF DispatchSelect
<1>6. ASSUME calm < now
      PROVE  /\ due = {now} /\ Min(due) = now /\ due' = {}
             /\ run' # Idle => run'.at = now /\ run'.tier \in tiers
  <2>1. due = {now}
    BY <1>1, <1>6 DEF RemindInv, Timely
  <2>2. QED
    BY <1>1, <1>4, <1>5, <2>1 DEF Idle
<1>7. calm' < now' => Timely'
  BY <1>1, <1>6 DEF RemindInv, Timely, SelectTier
<1>8. ASSUME NEW t \in Tiers, NEW k \in 0 .. now, Calmly(t), InWindow(t, k), k % Window = 0,
             Through(k)', NEW u \in NonResponders
      PROVE  Reminded(u, t)'
  <2>1. calm < now /\ poll.ends_at - t <= now
    BY <1>8, CalmNow DEF InWindow
  <2>2. CASE k # now
    <3>1. Through(k)
      BY <1>3, <1>6, <2>1, <2>2 DEF Through
    <3>2. Reminded(u, t)
      BY <1>8, <3>1 DEF RemindInv
    <3>3. QED
      BY <1>1, <3>2 DEF Reminded
  <2>3. CASE k = now
    <3>1. t \in tiers
      <4>1. t \in Nat /\ Window \in Nat
        BY Numbers
      <4>2. QED
        BY <1>2, <1>8, <2>3, <4>1 DEF InWindow, SelectTier
    <3>2. Open(poll, now) /\ poll.ends_at <= now + Max(Tiers) + Window
      <4>1. Max(Tiers) \in Nat /\ t <= Max(Tiers) /\ t \in Nat /\ Window \in Nat
        BY Numbers, MaxIs
      <4>2. QED
        BY <1>2, <1>8, <2>1, <4>1 DEF Calmly
    <3>3. run' # Idle
      BY <3>1, <3>2 DEF DispatchSelect, Idle
    <3>4. QED
      BY <1>6, <1>8, <2>1, <2>3, <3>3 DEF Through
  <2>4. QED
    BY <2>2, <2>3
<1>9. \A t \in Tiers : Calmly(t)' <=> Calmly(t)
  BY <1>1 DEF Calmly, Open
<1>10. \A t \in Tiers, k \in 0 .. now' :
         (Calmly(t) /\ InWindow(t, k) /\ k % Window = 0 /\ Through(k))'
            => \A u \in NonResponders' : Reminded(u, t)'
  BY <1>1, <1>8, <1>9 DEF InWindow, NonResponders
<1>11. \A t \in Tiers, u \in active' :
         (Calmly(t) /\ key[<<u, t>>] - Ttl(t) >= poll.ends_at - t)' => OnItsWay(u, t)'
  BY <1>1, <1>9 DEF RemindInv, OnItsWay
<1>12. QED
  BY <1>7, <1>10, <1>11 DEF RemindInv

\* The run that is over has a call for everybody.
LEMMA EnqueueRemind ==
    ASSUME TypeInv, RemindInv, DispatchEnqueue
    PROVE  RemindInv'
<1>1. /\ now' = now /\ poll' = poll /\ audience' = audience /\ active' = active
      /\ responded' = responded /\ key' = key /\ mails' = mails /\ calm' = calm
      /\ due' = due /\ run.pc = "selected" /\ run' = Idle
      /\ tasks' = tasks \cup Calls(NonResponders)
  BY DEF DispatchEnqueue, world, past
<1>2. NonResponders \in SUBSET Users
  BY DEF TypeInv, TypeOK, NonResponders
<1>3. /\ \A c \in Calls(NonResponders) : c.pc = "queued"
      /\ \A u \in NonResponders : \E c \in Calls(NonResponders) : c.user = u /\ c.tier = run.tier
  BY <1>1, <1>2, CallsAre DEF TypeInv
<1>4. run # Idle
  BY <1>1 DEF Idle
<1>5. calm' < now' => Timely'
  BY <1>1, <1>3 DEF RemindInv, Timely, SelectTier
<1>6. ASSUME NEW t \in Tiers, NEW k \in 0 .. now, Calmly(t), InWindow(t, k), k % Window = 0,
             Through(k)', NEW u \in NonResponders
      PROVE  Reminded(u, t)'
  <2>1. CASE Through(k)
    <3>1. Reminded(u, t)
      BY <1>6, <2>1 DEF RemindInv
    <3>2. QED
      BY <1>1, <3>1 DEF Reminded
  <2>2. CASE ~Through(k)
    <3>1. run.at = k
      BY <1>1, <1>4, <1>6, <2>2 DEF Through
    <3>2. run.at = now /\ run.tier \in SelectTier(poll.ends_at - now)
      BY <1>4, <1>6, CalmNow DEF InWindow, Timely
    <3>3. t \in SelectTier(poll.ends_at - now)
      <4>1. t \in Nat /\ Window \in Nat /\ poll.ends_at \in Int /\ now \in Nat
        BY Numbers, Times
      <4>2. QED
        BY <1>6, <3>1, <3>2, <4>1 DEF InWindow, SelectTier
    <3>4. poll.ends_at - now \in Int
      BY Times
    <3>5. run.tier = t
      BY <3>2, <3>3, <3>4, OneTier
    <3>6. QED
      BY <1>1, <1>3, <3>5 DEF Reminded
  <2>3. QED
    BY <2>1, <2>2
<1>7. \A t \in Tiers : Calmly(t)' <=> Calmly(t)
  BY <1>1 DEF Calmly, Open
<1>8. \A t \in Tiers, k \in 0 .. now' :
        (Calmly(t) /\ InWindow(t, k) /\ k % Window = 0 /\ Through(k))'
           => \A u \in NonResponders' : Reminded(u, t)'
  BY <1>1, <1>6, <1>7 DEF InWindow, NonResponders
<1>9. \A t \in Tiers, u \in active' :
        (Calmly(t) /\ key[<<u, t>>] - Ttl(t) >= poll.ends_at - t)' => OnItsWay(u, t)'
  BY <1>1, <1>7 DEF RemindInv, OnItsWay
<1>10. QED
  BY <1>5, <1>8, <1>9 DEF RemindInv

\* Time goes on: a run that was late makes its window one that is not calm, and a run that
\* is due now is not through.
LEMMA TickRemind ==
    ASSUME TypeInv, OnceInv, RemindInv, Tick
    PROVE  RemindInv'
<1>1. /\ poll' = poll /\ audience' = audience /\ active' = active /\ responded' = responded
      /\ run' = run /\ tasks' = tasks /\ key' = key /\ mails' = mails
      /\ now' = now + 1 /\ \A c \in tasks : c.pc = "queued"
      /\ due' = IF now' % Window = 0 THEN due \cup {now'} ELSE due
      /\ calm' = IF due # {} \/ run # Idle THEN now' ELSE calm
  BY DEF Tick, world
<1>2. /\ now \in Nat /\ calm \in Nat /\ poll.ends_at \in Int /\ poll.starts_at \in Int
      /\ active \subseteq Users
  BY Times DEF TypeInv, TypeOK
<1>3. calm' < now' => Timely'
  BY <1>1, <1>2 DEF Timely
<1>4. ASSUME NEW t \in Tiers, Calmly(t)', poll.ends_at - t <= now
      PROVE  Calmly(t)
  <2>1. t \in Nat
    BY Numbers
  <2>2. QED
    BY <1>1, <1>2, <1>4, <2>1 DEF Calmly, Open
<1>5. ASSUME NEW t \in Tiers, NEW k \in 0 .. now',
             (Calmly(t) /\ InWindow(t, k) /\ k % Window = 0 /\ Through(k))',
             NEW u \in NonResponders'
      PROVE  Reminded(u, t)'
  <2>1. k # now'
    BY <1>1, <1>5 DEF Through
  <2>2. k \in 0 .. now /\ poll.ends_at - t <= k /\ InWindow(t, k) /\ k % Window = 0
    BY <1>1, <1>2, <1>5, <2>1 DEF InWindow
  <2>3. Calmly(t)
    <3>1. t \in Nat
      BY Numbers
    <3>2. poll.ends_at - t <= now
      BY <1>2, <2>2, <3>1
    <3>3. QED
      BY <1>4, <1>5, <3>2
  <2>4. Through(k)
    BY <1>1, <1>5 DEF Through
  <2>5. Reminded(u, t)
    BY <1>1, <1>5, <2>2, <2>3, <2>4 DEF RemindInv, NonResponders
  <2>6. QED
    BY <1>1, <2>5 DEF Reminded
<1>6. ASSUME NEW t \in Tiers, NEW u \in active',
             (Calmly(t) /\ key[<<u, t>>] - Ttl(t) >= poll.ends_at - t)'
      PROVE  OnItsWay(u, t)'
  <2>1. /\ key[<<u, t>>] \in Nat /\ key[<<u, t>>] <= now + Ttl(t) /\ Ttl(t) \in Nat
        /\ t \in Nat /\ u \in active
    BY <1>1, <1>2, <1>6, Times, Numbers
  <2>2. poll.ends_at - t <= now
    BY <1>1, <1>2, <1>6, <2>1
  <2>3. OnItsWay(u, t)
    BY <1>1, <1>4, <1>6, <2>1, <2>2 DEF RemindInv
  <2>4. QED
    BY <1>1, <2>3 DEF OnItsWay
<1>7. QED
  BY <1>3, <1>5, <1>6 DEF RemindInv

LEMMA RemindStep == TypeInv /\ OnceInv /\ RemindInv /\ [Next]_vars => RemindInv'
<1> SUFFICES ASSUME TypeInv, OnceInv, RemindInv, [Next]_vars PROVE RemindInv'
  OBVIOUS
<1>0. TypeInv'
  BY TypeStep
<1>1. CASE DispatchSelect
  BY <1>1, SelectRemind
<1>2. CASE DispatchEnqueue
  BY <1>2, EnqueueRemind
<1>3. CASE DispatchCrash
  BY <1>0, <1>3, Interfered DEF DispatchCrash, Interfere
<1>4. ASSUME NEW c \in tasks, Claim(c) PROVE RemindInv'
  BY <1>4, ClaimRemind
<1>5. ASSUME NEW c \in tasks, Load(c) PROVE RemindInv'
  BY <1>5, LoadRemind
<1>6. ASSUME NEW c \in tasks, Send(c) PROVE RemindInv'
  BY <1>6, SendRemind
<1>7. ASSUME NEW c \in tasks, Fail(c) PROVE RemindInv'
  BY <1>0, <1>7, Interfered DEF Fail, Interfere
<1>8. ASSUME NEW r \in Rows, Edit(r) PROVE RemindInv'
  BY <1>0, <1>8, Interfered DEF Edit, Interfere
<1>9. ASSUME NEW u \in Users, Move(u) PROVE RemindInv'
  BY <1>0, <1>9, Interfered DEF Move, Interfere
<1>10. CASE Tick
  BY <1>10, TickRemind
<1>11. CASE UNCHANGED vars
  BY <1>11 DEF vars, world, work, past, RemindInv, Timely, SelectTier, Calmly, Open, InWindow,
               Through, NonResponders, Reminded, OnItsWay
<1>12. QED
  BY <1>1, <1>2, <1>3, <1>4, <1>5, <1>6, <1>7, <1>8, <1>9, <1>10, <1>11 DEF Next

\* Every window has a run in it, so once it is over whoever has not voted was reminded,
\* for all lead times and windows that leave gaps between them.
THEOREM NobodyUnremindedHolds == Spec => []NobodyUnreminded
<1>1. TypeInv /\ RemindInv => NobodyUnreminded
  <2> SUFFICES ASSUME TypeInv, RemindInv, NEW t \in Tiers, Passed(t), NEW u \in NonResponders
               PROVE  Reminded(u, t)
    BY DEF NobodyUnreminded, Reminded
  <2>1. /\ now \in Nat /\ calm \in Nat /\ poll.ends_at \in Int /\ t \in Nat
        /\ Window \in Nat \ {0}
    BY Times, Numbers
  <2>2. /\ poll.ends_at - t \in Nat /\ (poll.ends_at - t) + Window <= now
        /\ Calmly(t) /\ run = Idle /\ due = {}
    BY <2>1 DEF Passed, Calmly
  <2>3. PICK k \in (poll.ends_at - t) .. ((poll.ends_at - t) + Window) : k % Window = 0
    BY <2>1, <2>2, MultipleWithin
  <2>4. k \in 0 .. now /\ InWindow(t, k) /\ Through(k)
    BY <2>1, <2>2, <2>3 DEF InWindow, Through
  <2>5. QED
    BY <2>2, <2>3, <2>4 DEF RemindInv
<1>2. QED
  BY <1>1, TypeInit, TypeStep, OnceInit, OnceStep, RemindInit, RemindStep, PTL DEF Spec
=============================================================================
