----------------------------- MODULE MCIdentity -----------------------------
(* Identity for TLC. *)
EXTENDS Identity, TLC

CONSTANTS a, b, r1, r2, r3

Rename(n) == [op |-> "rename", name |-> n]
Replace(s) == [op |-> "replace", users |-> s]
Give(s) == [op |-> "add", users |-> s]
Drop(s) == [op |-> "remove", users |-> s]

\* Requests that may overlap with others: three PUTs and two PATCHes.
Overlapping ==
    {<<Rename("target"), Replace({a})>>, <<Rename("target"), Replace({b})>>,
     <<Rename("other"), Replace({a, b})>>, <<Give({b}), Drop({a})>>, <<Drop({b})>>}

\* Every PATCH of up to two operations on one person each, on its own.
Single == {Rename("target"), Replace({})}
          \cup UNION {{Replace({p}), Give({p}), Drop({p})} : p \in {a, b}}
Patches == Overlapping \cup SeqOf(Single, 2)

Kind(r) ==
    CASE At(r, {"unused", "done"}) -> "none"
      [] At(r, {"checked"}) /\ req[r].want = Delete -> "delete"
      [] At(r, {"loaded"}) /\ req[r].by = "cli" -> "cli"
      [] At(r, {"checked", "loaded"}) -> "user"
      [] At(r, {"missed", "met", "upserted", "claiming"}) -> "login"
      [] At(r, Writing) /\ req[r].ops \notin Overlapping -> "alone"
      [] OTHER -> "group"

\* With SUPERUSER_GROUP the group, logins, deletions and the command line; without it,
\* everything but the group.
Small ==
    /\ \A r \in Requests : Kind(r) \in
        {"none", "delete", "cli", "login"} \cup IF configured THEN {"group", "alone"} ELSE {"user"}
    /\ (\E r \in Requests : Kind(r) = "alone")
        => Cardinality({r \in Requests : At(r, {"unused"})}) = Cardinality(Requests) - 1

Interchangeable == Permutations({r1, r2, r3})
=============================================================================
