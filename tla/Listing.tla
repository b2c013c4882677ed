------------------------------- MODULE Listing --------------------------------
(***************************************************************************)
(* Which rows a query by age selects: Store.recent behind ListRequests,    *)
(* the selection of PruneUnapproved, and selectRequest of the CLI, which   *)
(* looks for a prefix in a list.  The queries order by created_at, a text. *)
(*                                                                         *)
(* A row is a record of an id, the time it was created in quarters of a    *)
(* second, and its class: "pending" (WAITING_APPROVAL), "unapproved"       *)
(* (terminal, without an approvals row), or "other".                       *)
(***************************************************************************)
EXTENDS Naturals, FiniteSetsExt, Sequences

\* time.RFC3339Nano in UTC: fixed width up to the second, then a fraction without
\* its trailing zeros and without its dot when it is zero, then Z.  Characters are
\* numbers in their order: the dot, the digits from 1 on, Z.
Formatted(time) ==
    LET high == (time % 4) \div 2
        low == time % 2
        fraction == IF high = 0 /\ low = 0 THEN <<>>
                    ELSE IF low = 0 THEN <<0, 1 + high>>
                    ELSE <<0, 1 + high, 1 + low>>
    IN  <<time \div 4>> \o fraction \o <<9>>

\* The order of texts.
TextLess(a, b) ==
    \E i \in 1..Len(b) :
        /\ \A j \in 1..(i - 1) : j <= Len(a) /\ a[j] = b[j]
        /\ i > Len(a) \/ a[i] < b[i]

\* Mutant: the oldest come first.
FirstOfAscending(rows, n) ==
    {kept \in kSubset(IF Cardinality(rows) < n THEN Cardinality(rows) ELSE n, rows) :
        \A k \in kept, r \in rows \ kept :
            ~TextLess(Formatted(r.created), Formatted(k.created))}

\* ORDER BY created_at DESC, cut after n rows; equal texts come in any order.  The
\* set of possible answers.
FirstOf(rows, n) ==
    {kept \in kSubset(IF Cardinality(rows) < n THEN Cardinality(rows) ELSE n, rows) :
        \A k \in kept, r \in rows \ kept :
            ~TextLess(Formatted(k.created), Formatted(r.created))}

\* Store.RecentPending and Store.Recent; the sort of ListRequests orders the answer
\* the same way once more.
recent(rows, limit, history) ==
    FirstOf({r \in rows : history \/ r.class = "pending"}, limit)

\* PruneUnapproved: what it may select to delete.
PruneSelections(rows, olderThan, retain) ==
    LET unapproved == {r \in rows : r.class = "unapproved"}
    IN  {{r \in unapproved : r \notin kept \/ r.created < olderThan} :
            kept \in FirstOf(unapproved, retain)}

\* Mutant: the first row with the prefix is taken.
selectRequestFirst(listed, prefix) ==
    LET found == {r \in listed : r.id[1] = prefix}
    IN  IF found = {} THEN {} ELSE {CHOOSE r \in found : TRUE}

\* selectRequest of the CLI; empty when nothing matches or the prefix is ambiguous.
selectRequest(listed, prefix) ==
    LET found == {r \in listed : r.id[1] = prefix}
    IN  IF Cardinality(found) = 1 THEN found ELSE {}
===============================================================================
