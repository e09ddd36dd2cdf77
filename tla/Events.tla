------------------------------- MODULE Events -------------------------------
(***************************************************************************)
(* The events function: event_service.py, run by several Lambda containers *)
(* over one PostgreSQL database.  Executives plan events, the items that   *)
(* an event needs and the contributions it got; members pledge items.      *)
(*                                                                         *)
(* Every handler reads, decides, and ends in one writing statement.  The   *)
(* transaction is READ COMMITTED, so each SELECT is a step of its own and  *)
(* what it saw may be stale at the next one; the writing statement and the *)
(* COMMIT of UnitOfWork.__exit__ are one step.  Nothing that a SELECT      *)
(* returns is used later than to choose the next step, so a request and a  *)
(* program counter are all that a container keeps.                         *)
(*                                                                         *)
(* No code deletes a pledge and (member_id, event_item_id) is UNIQUE: a    *)
(* pledge is named by the two, and its event is that of its item.  Ids are *)
(* opaque and never used twice; those of items are divided among events.   *)
(*                                                                         *)
(* A quantity is a number of JSON on its way in, a DECIMAL in its column   *)
(* and a float where the service compares it.  Here it is NaN, which all   *)
(* three know, or a multiple of a unit that is small enough for all of     *)
(* them; a conversion may be off by Ulp.                                   *)
(***************************************************************************)
EXTENDS Integers, FiniteSets, Functions

CONSTANTS
    Containers,     \* the warm containers of the events function
    Members,        \* members.id
    NoMember,       \* stands for "no pledge_id" in a contribution
    Executives,     \* the members with the role executive or admin
    Events,         \* events.id
    Items,          \* event_items.id
    EventOf,        \* the event that an item is added to
    Contributions,  \* event_contributions.id
    Requests,       \* the requests that clients send
    NoRequest,      \* stands for "no request"
    NaN,            \* the quantity that is not a number
    Ulp,            \* by how much a conversion of a quantity is off at most
    InColumn(_)     \* what a column keeps of the quantity in a body

Types == {"pledge", "contribution", "general"}
ExecutiveOps ==
    {"create_event", "patch_event", "delete_event", "add_items", "patch_item", "delete_item",
     "record_contribution", "delete_contribution"}
MemberOps == {"create_pledge", "update_pledge", "cancel_pledge"}

Quantity == Int \cup {NaN}

\* The operation, the member who calls it, the ids in the path and the body,
\* and the fields of the body; a pledge is named by "owner" and "item".
Request ==
    [op : ExecutiveOps \cup MemberOps, caller : Members, event : Events, item : Items,
     owner : Members \cup {NoMember}, quantity : Quantity,
     type : Types \cup {"absent"}, status : {"upcoming", "completed", "absent"}]

ASSUME EventsAssumption ==
    /\ NoMember \notin Members /\ Executives \subseteq Members
    /\ EventOf \in [Items -> Events]
    /\ Requests \subseteq Request /\ NoRequest \notin Request
    /\ IsFiniteSet(Members)

\* PostgreSQL keeps 15 digits of a float that is stored in a DECIMAL column:
\* something near it, of the same sign.
ASSUME QuantityAssumption ==
    /\ NaN \notin Int /\ Ulp \in Nat
    /\ \A r \in Requests :
         \/ r.quantity = NaN /\ InColumn(r.quantity) = NaN
         \/ /\ r.quantity \in Int
            /\ InColumn(r.quantity) \in (r.quantity - Ulp) .. (r.quantity + Ulp)
            /\ r.quantity < 0 => InColumn(r.quantity) < 0

VARIABLES
    type,           \* events.type
    status,         \* events.status, "none" before and "deleted" after its row
    item,           \* whether the row of an item is there
    needed,         \* event_items.quantity_needed
    standing,       \* pledges.status, "none" while there is no row
    quantity,       \* pledges.quantity
    contributions,  \* the rows of event_contributions
    pc,             \* where the handler of each container stands
    req,            \* the request it serves
    raced           \* history: the kinds of conflict that met at an event

eventVars == <<type, status>>
itemVars == <<item, needed>>
pledgeVars == <<standing, quantity>>
tables == <<eventVars, itemVars, pledgeVars, contributions>>
vars == <<tables, pc, req, raced>>

Pledges == Members \X Items

----------------------------------------------------------------------------
(* What the SELECTs of the repositories return.                            *)

ItemsOf(e) == {i \in Items : EventOf[i] = e /\ item[i] = "there"}

\* pledges with any status, and those with status pledged.
PledgesOf(i) == {m \in Members : standing[<<m, i>>] # "none"}
ActivePledges(i) == {m \in Members : standing[<<m, i>>] = "pledged"}

\* Mutant: only pledges are looked for.
HasPledges(e) == \E i \in Items : EventOf[i] = e /\ PledgesOf(i) # {}

HasItemsOrPledges(e) ==
    ItemsOf(e) # {} \/ \E i \in Items : EventOf[i] = e /\ PledgesOf(i) # {}

HasContributions(e) == \E x \in contributions : x.event = e

HasContribution(m, i) == \E x \in contributions : x.owner = m /\ x.item = i

\* The statement of get_quantity_remaining without the pledge of member m
\* (NoMember: with all): DECIMAL arithmetic is exact, but NaN with NaN in it.
Remaining(i, m) ==
    needed[i] - SumFunctionOnSet([k \in Members |-> quantity[<<k, i>>]], ActivePledges(i) \ {m})

RemainingIsNaN(i, m) ==
    needed[i] = NaN \/ \E k \in ActivePledges(i) \ {m} : quantity[<<k, i>>] = NaN

\* What float() may make of a DECIMAL.
AsFloat(x) == {y \in (x - Ulp) .. (x + Ulp) : x <= 0 => y <= 0}

\* get_quantity_remaining.  The row of the item may be gone: then it is 0.
QuantityRemaining(i, m) ==
    IF item[i] # "there" THEN {0}
    ELSE IF RemainingIsNaN(i, m) THEN {NaN}
    ELSE AsFloat(Remaining(i, m))

\* x > y in Python: false with NaN on either side.
Above(x, y) == x # NaN /\ y # NaN /\ x > y

----------------------------------------------------------------------------
(* The conflicts: the pairs of operations whose checks do not see each     *)
(* other's write.  The history notes each pair that was served at a time.  *)

Conflict(r, s) ==
    {kind \in {"quantity", "paid", "type", "status"} :
        \/ /\ kind = "quantity" /\ r.item = s.item
           /\ \/ {r.op, s.op} \subseteq {"create_pledge", "update_pledge"}
              \/ {r.op, s.op} = {"create_pledge", "patch_item"}
        \/ /\ kind = "paid" /\ {r.op, s.op} = {"cancel_pledge", "record_contribution"}
           /\ r.item = s.item /\ r.owner = s.owner
        \/ /\ kind = "type" /\ {r.op, s.op} = {"patch_event", "add_items"}
           /\ \E q \in {r, s} : q.op = "patch_event" /\ q.type # "absent"
        \/ /\ kind = "status"
           /\ \E q \in {r, s} : q.op = "patch_event" /\ q.status # "absent"}

Meet(c, r) ==
    raced' = [raced EXCEPT ![r.event] = @ \cup UNION {Conflict(r, req[d]) :
                 d \in {x \in Containers \ {c} : pc[x] # "idle" /\ req[x].event = r.event}}]

Goto(c, stage) == pc' = [pc EXCEPT ![c] = stage]

\* The handler is done with its request.
Return(c) == Goto(c, "idle") /\ req' = [req EXCEPT ![c] = NoRequest]

\* A response or an exception before anything was written.
Refuse(c) == Return(c) /\ UNCHANGED <<tables, raced>>

\* A SELECT that lets the handler go on.
Proceed(c, stage) == Goto(c, stage) /\ UNCHANGED <<tables, req, raced>>

----------------------------------------------------------------------------
\* The stage after get_by_id has returned the event.
FirstStage(r) ==
    CASE r.op = "patch_event" ->
            IF r.type \in {"absent", type[r.event]} THEN "write" ELSE "rows"
      [] r.op \in {"patch_item", "delete_item", "create_pledge"} -> "item"
      [] r.op \in {"update_pledge", "cancel_pledge"} -> "pledge"
      [] r.op = "record_contribution" -> IF r.owner = NoMember THEN "write" ELSE "pledge"
      [] r.op = "delete_event" ->
            [pledge |-> "rows", contribution |-> "contributions", general |-> "write"]
                [type[r.event]]
      [] r.op = "add_items" -> "write"

\* The refusals that look at the event, and at fields of the body: a quantity
\* of 0 counts as missing in three handlers.
Acceptable(r) ==
    /\ status[r.event] = "upcoming"
    /\ r.op \in {"add_items", "create_pledge"} => type[r.event] = "pledge"
    /\ r.op \in {"add_items", "create_pledge", "update_pledge"} => r.quantity # 0

Authorised(r) == r.op \in ExecutiveOps => r.caller \in Executives

\* A request reaches an idle container, the member is found and the event read:
\* the first statement that other requests can disturb.  Refused requests
\* (403, 404, 422) leave everything as it is.
Receive(c) ==
    /\ pc[c] = "idle"
    /\ \E r \in Requests :
         /\ r.op \notin {"create_event", "delete_contribution"}
         /\ Authorised(r) /\ Acceptable(r)
         /\ req' = [req EXCEPT ![c] = r]
         /\ Goto(c, FirstStage(r))
         /\ Meet(c, r)
    /\ UNCHANGED tables

\* patch_event and delete_event: has_items_or_pledges.
ReadRows(c) ==
    LET r == req[c] IN
    /\ pc[c] = "rows"
    /\ \/ HasItemsOrPledges(r.event) /\ Refuse(c)
       \/ ~HasItemsOrPledges(r.event) /\ r.op = "patch_event" /\ Proceed(c, "write")
       \/ ~HasItemsOrPledges(r.event) /\ r.op = "delete_event" /\ Proceed(c, "contributions")

\* delete_event: has_contributions.
ReadContributions(c) ==
    /\ pc[c] = "contributions"
    /\ \/ HasContributions(req[c].event) /\ Refuse(c)
       \/ ~HasContributions(req[c].event) /\ Proceed(c, "write")

\* get_item_by_id: the item has to be there, and of the event of the path.
ReadItem(c) ==
    LET r == req[c] IN
    /\ pc[c] = "item"
    /\ \/ r.item \notin ItemsOf(r.event) /\ Refuse(c)
       \/ /\ r.item \in ItemsOf(r.event)
          /\ Proceed(c, IF r.op = "create_pledge" THEN "existing" ELSE "active")

\* patch_item and delete_item: item_has_active_pledges.
ReadActive(c) ==
    /\ pc[c] = "active"
    /\ \/ ActivePledges(req[c].item) # {} /\ Refuse(c)
       \/ ActivePledges(req[c].item) = {} /\ Proceed(c, "write")

\* create_pledge: get_existing, whatever the status of the pledge.
ReadExisting(c) ==
    LET r == req[c] IN
    /\ pc[c] = "existing"
    /\ \/ r.caller \in PledgesOf(r.item) /\ Refuse(c)
       \/ r.caller \notin PledgesOf(r.item) /\ Proceed(c, "remaining")

\* Mutant: the event of the path and that of the pledge are not compared.
ReadPledgeOfAnyEvent(c) ==
    LET r == req[c] IN
    /\ pc[c] = "pledge"
    /\ \/ (r.owner \notin ActivePledges(r.item) \/ (r.op \in MemberOps /\ r.owner # r.caller))
          /\ Refuse(c)
       \/ /\ r.owner \in ActivePledges(r.item)
          /\ r.op \in MemberOps => r.owner = r.caller
          /\ Proceed(c, CASE r.op = "update_pledge" -> "remaining"
                          [] r.op = "cancel_pledge" -> "paid"
                          [] r.op = "record_contribution" -> "write")

\* Mutant: a contribution is recorded against a pledge whatever its status.
ReadPledgeAnyStatus(c) ==
    LET r == req[c]
        refused == \/ EventOf[r.item] # r.event
                   \/ r.owner \notin PledgesOf(r.item)
                   \/ r.op \in MemberOps /\ r.owner # r.caller
                   \/ r.op \in MemberOps /\ r.owner \notin ActivePledges(r.item) IN
    /\ pc[c] = "pledge"
    /\ \/ refused /\ Refuse(c)
       \/ /\ ~refused
          /\ Proceed(c, CASE r.op = "update_pledge" -> "remaining"
                          [] r.op = "cancel_pledge" -> "paid"
                          [] r.op = "record_contribution" -> "write")

\* The pledge has to be there, of the event of the path, not cancelled and, for
\* update_pledge and cancel_pledge, the caller's own.
ReadPledge(c) ==
    LET r == req[c]
        refused == \/ EventOf[r.item] # r.event
                   \/ r.owner \notin ActivePledges(r.item)
                   \/ r.op \in MemberOps /\ r.owner # r.caller IN
    /\ pc[c] = "pledge"
    /\ \/ refused /\ Refuse(c)
       \/ /\ ~refused
          /\ Proceed(c, CASE r.op = "update_pledge" -> "remaining"
                          [] r.op = "cancel_pledge" -> "paid"
                          [] r.op = "record_contribution" -> "write")

\* The pledge that the member of a request has of its item already.
OwnPledge(r) == IF r.op = "update_pledge" THEN r.caller ELSE NoMember

\* Mutant: create_pledge asks whether anything is left, not how much.
ReadRemainingAny(c) ==
    LET r == req[c] IN
    /\ pc[c] = "remaining"
    /\ \E left \in QuantityRemaining(r.item, OwnPledge(r)) :
         LET refused == Above(r.quantity, left) /\ (r.op = "create_pledge" => ~Above(left, 0)) IN
         \/ refused /\ Refuse(c)
         \/ ~refused /\ Proceed(c, "write")

\* get_quantity_remaining; update_pledge leaves the caller's own pledge out.
\* Neither test refuses a quantity that is NaN, or any if NaN is left.
ReadRemaining(c) ==
    LET r == req[c] IN
    /\ pc[c] = "remaining"
    /\ \E left \in QuantityRemaining(r.item, OwnPledge(r)) :
         LET none == r.op = "create_pledge" /\ left # NaN /\ left <= 0
             refused == none \/ Above(r.quantity, left) IN
         \/ refused /\ Refuse(c)
         \/ ~refused /\ Proceed(c, "write")

\* cancel_pledge: has_contribution.
ReadPaid(c) ==
    LET r == req[c] IN
    /\ pc[c] = "paid"
    /\ \/ HasContribution(r.owner, r.item) /\ Refuse(c)
       \/ ~HasContribution(r.owner, r.item) /\ Proceed(c, "write")

----------------------------------------------------------------------------
(* The writing statements, each with the COMMIT.  An UPDATE of a row that  *)
(* is gone writes nothing and the handler raises (Abort); an INSERT or a   *)
(* DELETE that a foreign key or the UNIQUE constraint forbids raises too.  *)

Writes(c, op) == pc[c] = "write" /\ req[c].op = op /\ Return(c) /\ UNCHANGED raced

\* create_event is one statement: authorised, it inserts the row.
CreateEvent(c) ==
    /\ pc[c] = "idle"
    /\ \E r \in Requests :
         /\ r.op = "create_event" /\ Authorised(r) /\ r.type \in Types
         /\ status[r.event] = "none"
         /\ status' = [status EXCEPT ![r.event] = "upcoming"]
         /\ type' = [type EXCEPT ![r.event] = r.type]
    /\ UNCHANGED <<itemVars, pledgeVars, contributions, pc, req, raced>>

PatchEvent(c) ==
    LET r == req[c] IN
    /\ Writes(c, "patch_event")
    /\ status[r.event] # "deleted"
    /\ type' = [type EXCEPT ![r.event] = IF r.type = "absent" THEN @ ELSE r.type]
    /\ status' = [status EXCEPT ![r.event] = IF r.status = "absent" THEN @ ELSE r.status]
    /\ UNCHANGED <<itemVars, pledgeVars, contributions>>

\* Mutant: the tables refer to events without a foreign key.
DeleteEventWithoutForeignKeys(c) ==
    LET e == req[c].event IN
    /\ Writes(c, "delete_event")
    /\ status' = [status EXCEPT ![e] = "deleted"]
    /\ UNCHANGED <<type, itemVars, pledgeVars, contributions>>

\* Items, pledges and contributions refer to their event.
DeleteEvent(c) ==
    LET e == req[c].event IN
    /\ Writes(c, "delete_event")
    /\ ~HasItemsOrPledges(e) /\ ~HasContributions(e)
    /\ status' = [status EXCEPT ![e] = "deleted"]
    /\ UNCHANGED <<type, itemVars, pledgeVars, contributions>>

\* All items of the body or, if the event is gone, none.
AddItems(c) ==
    LET r == req[c] IN
    /\ Writes(c, "add_items")
    /\ status[r.event] # "deleted"
    /\ \E new \in SUBSET {i \in Items : EventOf[i] = r.event /\ item[i] = "none"} :
         /\ new # {}
         /\ item' = [i \in Items |-> IF i \in new THEN "there" ELSE item[i]]
         /\ needed' = [i \in Items |-> IF i \in new THEN InColumn(r.quantity) ELSE needed[i]]
    /\ UNCHANGED <<eventVars, pledgeVars, contributions>>

\* A patch that names no quantity changes nothing that is kept here.
PatchItem(c) ==
    LET r == req[c] IN
    /\ Writes(c, "patch_item")
    /\ item[r.item] = "there"
    /\ needed' = [needed EXCEPT ![r.item] = InColumn(r.quantity)]
    /\ UNCHANGED <<eventVars, item, pledgeVars, contributions>>

\* Pledges refer to their item, cancelled ones too.
DeleteItem(c) ==
    LET i == req[c].item IN
    /\ Writes(c, "delete_item")
    /\ PledgesOf(i) = {}
    /\ item' = [item EXCEPT ![i] = "deleted"]
    /\ UNCHANGED <<eventVars, needed, pledgeVars, contributions>>

\* The item has to be there still, and the pair of member and item be new.
CreatePledge(c) ==
    LET r == req[c] IN
    /\ Writes(c, "create_pledge")
    /\ item[r.item] = "there" /\ r.caller \notin PledgesOf(r.item)
    /\ standing' = [standing EXCEPT ![<<r.caller, r.item>>] = "pledged"]
    /\ quantity' = [quantity EXCEPT ![<<r.caller, r.item>>] = InColumn(r.quantity)]
    /\ UNCHANGED <<eventVars, itemVars, contributions>>

\* update_quantity leaves the status alone.
UpdatePledge(c) ==
    LET r == req[c] IN
    /\ Writes(c, "update_pledge")
    /\ quantity' = [quantity EXCEPT ![<<r.owner, r.item>>] = InColumn(r.quantity)]
    /\ UNCHANGED <<eventVars, itemVars, standing, contributions>>

\* Mutant: the status is written as a word that no query looks for.
CancelPledgeMisspelt(c) ==
    LET r == req[c] IN
    /\ Writes(c, "cancel_pledge")
    /\ standing' = [standing EXCEPT ![<<r.owner, r.item>>] = "canceled"]
    /\ UNCHANGED <<eventVars, itemVars, quantity, contributions>>

CancelPledge(c) ==
    LET r == req[c] IN
    /\ Writes(c, "cancel_pledge")
    /\ standing' = [standing EXCEPT ![<<r.owner, r.item>>] = "cancelled"]
    /\ UNCHANGED <<eventVars, itemVars, quantity, contributions>>

RecordContribution(c) ==
    LET r == req[c] IN
    /\ Writes(c, "record_contribution")
    /\ status[r.event] # "deleted"
    /\ \E id \in Contributions :
         /\ \A x \in contributions : x.id # id
         /\ contributions' = contributions \cup
              {[id |-> id, event |-> r.event, owner |-> r.owner, item |-> r.item]}
    /\ UNCHANGED <<eventVars, itemVars, pledgeVars>>

\* delete_contribution looks at no event.  Its SELECT only tells 404 from 204:
\* the DELETE of a row that is gone does nothing.
DeleteContribution(c) ==
    /\ pc[c] = "idle"
    /\ \E r \in Requests : r.op = "delete_contribution" /\ Authorised(r)
    /\ \E x \in contributions : contributions' = contributions \ {x}
    /\ UNCHANGED <<eventVars, itemVars, pledgeVars, pc, req, raced>>

\* A statement or the COMMIT raises, a constraint forbids the write, or the
\* container is killed: nothing was written.
Abort(c) == pc[c] # "idle" /\ Refuse(c)

----------------------------------------------------------------------------
Init ==
    /\ type = [e \in Events |-> "general"]
    /\ status = [e \in Events |-> "none"]
    /\ item = [i \in Items |-> "none"]
    /\ needed = [i \in Items |-> 0]
    /\ standing = [p \in Pledges |-> "none"]
    /\ quantity = [p \in Pledges |-> 0]
    /\ contributions = {}
    /\ pc = [c \in Containers |-> "idle"]
    /\ req = [c \in Containers |-> NoRequest]
    /\ raced = [e \in Events |-> {}]

Read(c) ==
    \/ ReadRows(c) \/ ReadContributions(c) \/ ReadItem(c) \/ ReadActive(c)
    \/ ReadExisting(c) \/ ReadPledge(c) \/ ReadRemaining(c) \/ ReadPaid(c)

Write(c) ==
    \/ CreateEvent(c) \/ PatchEvent(c) \/ DeleteEvent(c)
    \/ AddItems(c) \/ PatchItem(c) \/ DeleteItem(c)
    \/ CreatePledge(c) \/ UpdatePledge(c) \/ CancelPledge(c)
    \/ RecordContribution(c) \/ DeleteContribution(c)

Next == \E c \in Containers : Receive(c) \/ Read(c) \/ Write(c) \/ Abort(c)

Spec == Init /\ [][Next]_vars

----------------------------------------------------------------------------
Stages ==
    {"idle", "rows", "contributions", "item", "active", "existing", "pledge", "remaining", "paid",
     "write"}

TypeOK ==
    /\ type \in [Events -> Types]
    /\ status \in [Events -> {"none", "upcoming", "completed", "deleted"}]
    /\ item \in [Items -> {"none", "there", "deleted"}]
    /\ needed \in [Items -> Quantity]
    /\ standing \in [Pledges -> {"none", "pledged", "cancelled"}]
    /\ quantity \in [Pledges -> Quantity]
    /\ contributions \subseteq [id : Contributions, event : Events,
                                owner : Members \cup {NoMember}, item : Items]
    /\ pc \in [Containers -> Stages]
    /\ req \in [Containers -> Request \cup {NoRequest}]
    /\ raced \in [Events -> SUBSET {"quantity", "paid", "type", "status"}]

\* The active pledges of an item add up to no more than it needs and what two
\* conversions are off, unless two of create_pledge and update_pledge met at it,
\* a create_pledge met a patch_item, or a quantity is NaN or below zero.  The
\* errors do not add up: neither the number of pledges nor the order of the
\* other requests, nor how they meet, makes the excess larger.
PledgedWithinNeeded ==
    \A i \in Items :
        /\ item[i] = "there" /\ needed[i] \in Nat
        /\ "quantity" \notin raced[EventOf[i]]
        /\ \A m \in Members : quantity[<<m, i>>] \in Nat
        => Remaining(i, NoMember) >= -2 * Ulp

\* Items exist for pledge events only, although the type of an event can be
\* patched, unless a patch of the type met add_items.
ItemsOnPledgeEvents ==
    \A e \in Events : ItemsOf(e) # {} /\ "type" \notin raced[e] => type[e] = "pledge"

\* A pledge that a contribution was recorded against is not cancelled, unless
\* cancel_pledge met record_contribution at it.
PaidPledgeStands ==
    \A x \in contributions :
        x.owner # NoMember /\ "paid" \notin raced[x.event] => standing[<<x.owner, x.item>>] = "pledged"

\* Whatever requests meet: the checks of delete_event and delete_item go stale,
\* but no row is left that refers to a row that is gone.
NoOrphans ==
    /\ \A e \in Events : ItemsOf(e) # {} \/ HasContributions(e) =>
           status[e] \in {"upcoming", "completed"}
    /\ \A i \in Items : PledgesOf(i) # {} => item[i] = "there"
    /\ \A x \in contributions : x.owner # NoMember =>
           x.event = EventOf[x.item] /\ x.owner \in PledgesOf(x.item)

\* Once an event is completed its row, its items and its pledges stay as they
\* are and it gets no more contributions, unless a patch of the status met
\* another request.  (delete_contribution looks at no status.)
CompletedIsFinal ==
    [][\A e \in Events :
         status[e] = "completed" /\ "status" \notin raced'[e] =>
             /\ status'[e] = "completed" /\ type'[e] = type[e]
             /\ \A i \in Items : EventOf[i] = e =>
                  /\ item'[i] = item[i] /\ needed'[i] = needed[i]
                  /\ \A m \in Members : /\ standing'[<<m, i>>] = standing[<<m, i>>]
                                        /\ quantity'[<<m, i>>] = quantity[<<m, i>>]
             /\ \A x \in contributions' : x.event = e => x \in contributions]_vars

\* test/test_events.py:282: general events can be deleted even if they have
\* items, pledges or contributions.
GeneralEventDeletable ==
    \A c \in Containers :
        pc[c] = "write" /\ req[c].op = "delete_event" /\ status[req[c].event] = "upcoming"
          /\ type[req[c].event] = "general" =>
        ~HasItemsOrPledges(req[c].event) /\ ~HasContributions(req[c].event)
=============================================================================
