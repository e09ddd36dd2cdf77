------------------------------ MODULE MCEvents ------------------------------
(***************************************************************************)
(* Small instances of Events for TLC, and the requests that clients send.  *)
(***************************************************************************)
EXTENDS Events, TLC

CONSTANTS m1, m2, e1, e2, i1

OneItem == i1 :> e1

\* A column that keeps one significant bit: of 3 it keeps 4.
OneBit(q) == IF q = 3 THEN 4 ELSE q

Interchangeable == Permutations(Containers)

\* A request of member m for an operation on event e, its body still empty.
Ask(op, m, e) ==
    [op |-> op, caller |-> m, event |-> e, item |-> i1, owner |-> m, quantity |-> 0,
     type |-> "absent", status |-> "absent"]

Creates(e) == {[Ask("create_event", m1, e) EXCEPT !.type = t] : t \in Types}
Retypes(e) == {[Ask("patch_event", m1, e) EXCEPT !.type = t] : t \in Types}
Closes(e) == {[Ask("patch_event", m1, e) EXCEPT !.status = s] : s \in {"upcoming", "completed"}}
Plans(e, amounts) ==
    {[Ask(op, m1, e) EXCEPT !.quantity = n] : op \in {"add_items", "patch_item"}, n \in amounts}
Drops(e) == {Ask(op, m1, e) : op \in {"delete_item", "delete_event"}}
Offers(e, members, amounts) ==
    {[Ask(op, m, e) EXCEPT !.quantity = n] :
        op \in {"create_pledge", "update_pledge"}, m \in members, n \in amounts}
Cancels(e, members) == {Ask("cancel_pledge", m, e) : m \in members}
Gifts(e, owners) == {[Ask("record_contribution", m1, e) EXCEPT !.owner = m] : m \in owners}
Refunds(e) == {Ask("delete_contribution", m1, e)}

\* Everything the function serves for one event, to which two members pledge,
\* and requests that name its item and its pledges with the id of another event.
AllRequests ==
    Creates(e1) \cup Retypes(e1) \cup Closes(e1) \cup Plans(e1, {2, 5}) \cup Drops(e1)
    \cup Offers(e1, {m1}, {1}) \cup Offers(e1, {m2}, {3, NaN}) \cup Cancels(e1, {m2})
    \cup Gifts(e1, {NoMember, m2}) \cup Refunds(e1)
    \cup {[Ask("create_event", m1, e2) EXCEPT !.type = "pledge"]} \cup Cancels(e2, {m2})
    \cup Gifts(e2, {m2})

\* An event that is no pledge event, contributions to it, and its deletion.
GeneralRequests ==
    Creates(e1) \cup Retypes(e1) \cup Gifts(e1, {NoMember}) \cup {Ask("delete_event", m1, e1)}
=============================================================================
