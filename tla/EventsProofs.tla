---------------------------- MODULE EventsProofs ----------------------------
(***************************************************************************)
(* Theorems about Events, for every number of containers, members, events, *)
(* items and contributions and every set of requests.                      *)
(***************************************************************************)
EXTENDS Events, SumProofs

----------------------------------------------------------------------------
(* The inductive invariant.                                                *)

\* The operations whose handler can stand at a stage.
Sensible(r, stage) ==
    \/ stage = "rows" /\ r.op \in {"patch_event", "delete_event"}
    \/ stage = "contributions" /\ r.op = "delete_event"
    \/ stage = "item" /\ r.op \in {"patch_item", "delete_item", "create_pledge"}
    \/ stage = "active" /\ r.op \in {"patch_item", "delete_item"}
    \/ stage = "existing" /\ r.op = "create_pledge"
    \/ stage = "pledge" /\ r.op \in {"update_pledge", "cancel_pledge", "record_contribution"}
    \/ stage = "remaining" /\ r.op \in {"create_pledge", "update_pledge"}
    \/ stage = "paid" /\ r.op = "cancel_pledge"
    \/ stage = "write"

\* The handlers that have found their item, and those that have found their
\* pledge.
ItemFound(r, stage) ==
    /\ r.op \in {"patch_item", "delete_item", "create_pledge"}
    /\ stage \in {"active", "existing", "remaining", "write"}

PledgeFound(r, stage) ==
    \/ r.op \in {"update_pledge", "cancel_pledge"} /\ stage \in {"remaining", "paid", "write"}
    \/ r.op = "record_contribution" /\ r.owner # NoMember /\ stage = "write"

\* What a handler found is still of the event of its path: an item that was
\* there is not added again, and a pledge that was there is there for good.
Found(r, stage) ==
    /\ ItemFound(r, stage) => EventOf[r.item] = r.event /\ item[r.item] # "none"
    /\ PledgeFound(r, stage) =>
         /\ EventOf[r.item] = r.event
         /\ r.owner \in Members /\ standing[<<r.owner, r.item>>] # "none"
         /\ r.op = "update_pledge" => r.owner = r.caller

Serves(c) ==
    pc[c] # "idle" =>
        /\ req[c] \in Request \cap Requests
        /\ Sensible(req[c], pc[c]) /\ Found(req[c], pc[c])
        /\ status[req[c].event] # "none"

PatchesStatus(r) == r.op = "patch_event" /\ r.status # "absent"

\* A patch of a status that is served beside another request is on record.
MeetingsNoted ==
    \A c, d \in Containers :
        c # d /\ pc[c] # "idle" /\ pc[d] # "idle" /\ req[c].event = req[d].event
          /\ PatchesStatus(req[c]) => "status" \in raced[req[c].event]

\* Nobody is at work on an event that was completed while nobody else was.
CompletedIsQuiet ==
    \A c \in Containers :
        pc[c] # "idle" /\ status[req[c].event] = "completed" => "status" \in raced[req[c].event]

IInv ==
    /\ TypeOK
    /\ \A c \in Containers : Serves(c)
    /\ NoOrphans
    /\ MeetingsNoted
    /\ CompletedIsQuiet

\* A column keeps a quantity of its own kind, near the one in the body.
LEMMA ColumnType ==
    ASSUME NEW r \in Requests
    PROVE  /\ InColumn(r.quantity) \in Quantity
           /\ InColumn(r.quantity) \in Nat =>
                /\ r.quantity \in Nat
                /\ InColumn(r.quantity) <= r.quantity + Ulp
  BY QuantityAssumption DEF Quantity

\* Before the first request the invariant holds.
LEMMA InitIInv == Init => IInv
<1> SUFFICES ASSUME Init PROVE IInv
  OBVIOUS
<1>1. TypeOK
  BY DEF Init, TypeOK, Types, Stages, Quantity
<1>2. NoOrphans
  BY EventsAssumption DEF Init, NoOrphans, ItemsOf, HasContributions, PledgesOf, Pledges
<1>3. QED
  BY <1>1, <1>2 DEF Init, IInv, Serves, MeetingsNoted, CompletedIsQuiet

----------------------------------------------------------------------------
(* The steps of a handler that write nothing.                              *)

\* A handler goes on to its next step without touching the tables.
LEMMA ProceedIInv ==
    ASSUME IInv, NEW c \in Containers, pc[c] # "idle", NEW stage \in Stages \ {"idle"},
           Proceed(c, stage), Sensible(req[c], stage), Found(req[c], stage)
    PROVE  IInv'
<1>1. /\ pc' = [pc EXCEPT ![c] = stage]
      /\ UNCHANGED <<type, status, item, needed, standing, quantity, contributions, req, raced>>
  BY DEF Proceed, Goto, tables, eventVars, itemVars, pledgeVars
<1>2. TypeOK'
  BY <1>1 DEF IInv, TypeOK, Stages
<1>3. \A d \in Containers : Serves(d)'
  BY <1>1 DEF IInv, TypeOK, Serves, Found, ItemFound, PledgeFound, Sensible
<1>4. NoOrphans'
  BY <1>1 DEF IInv, NoOrphans, ItemsOf, HasContributions, PledgesOf
<1>5. MeetingsNoted' /\ CompletedIsQuiet'
  BY <1>1 DEF IInv, TypeOK, MeetingsNoted, CompletedIsQuiet, PatchesStatus
<1>6. QED BY <1>2, <1>3, <1>4, <1>5 DEF IInv

\* A handler answers without having written anything.
LEMMA RefuseIInv ==
    ASSUME IInv, NEW c \in Containers, Refuse(c) PROVE IInv'
<1>1. /\ pc' = [pc EXCEPT ![c] = "idle"] /\ req' = [req EXCEPT ![c] = NoRequest]
      /\ UNCHANGED <<type, status, item, needed, standing, quantity, contributions, raced>>
  BY DEF Refuse, Return, Goto, tables, eventVars, itemVars, pledgeVars
<1>2. TypeOK'
  BY <1>1 DEF IInv, TypeOK, Stages
<1>3. \A d \in Containers : Serves(d)'
  BY <1>1 DEF IInv, TypeOK, Serves, Found, ItemFound, PledgeFound, Sensible
<1>4. NoOrphans'
  BY <1>1 DEF IInv, NoOrphans, ItemsOf, HasContributions, PledgesOf
<1>5. MeetingsNoted' /\ CompletedIsQuiet'
  BY <1>1 DEF IInv, TypeOK, MeetingsNoted, CompletedIsQuiet, PatchesStatus
<1>6. QED BY <1>2, <1>3, <1>4, <1>5 DEF IInv

----------------------------------------------------------------------------
(* The steps that write.                                                   *)

\* Whatever a handler writes: pledges and events do not vanish, and it is only
\* a patch of the status that completes an event.
LEMMA WriteIInv ==
    ASSUME IInv, NEW c \in Containers, pc[c] = "write", Return(c), UNCHANGED raced,
           TypeOK', NoOrphans',
           \A m \in Members, i \in Items :
              standing[<<m, i>>] # "none" => standing'[<<m, i>>] # "none",
           \A i \in Items : item[i] # "none" => item'[i] # "none",
           \A e \in Events : status[e] # "none" => status'[e] # "none",
           \A e \in Events : status'[e] = "completed" =>
              status[e] = "completed" \/ (e = req[c].event /\ PatchesStatus(req[c]))
    PROVE  IInv'
<1>1. /\ \A d \in Containers : pc'[d] = IF d = c THEN "idle" ELSE pc[d]
      /\ \A d \in Containers : req'[d] = IF d = c THEN NoRequest ELSE req[d]
  BY DEF Return, Goto, IInv, TypeOK
<1>2. \A d \in Containers : Serves(d)'
  BY <1>1 DEF IInv, Serves, Found, ItemFound, PledgeFound, Sensible, Request
<1>3. MeetingsNoted'
  BY <1>1 DEF IInv, MeetingsNoted, PatchesStatus
<1>4. CompletedIsQuiet'
  <2> SUFFICES ASSUME NEW d \in Containers, pc'[d] # "idle", status'[req'[d].event] = "completed"
               PROVE  "status" \in raced[req'[d].event]
    BY DEF CompletedIsQuiet
  <2>1. d # c /\ pc[d] # "idle" /\ req'[d] = req[d] /\ req[d].event \in Events
    BY <1>1 DEF IInv, Serves, Request
  <2>2. CASE status[req[d].event] = "completed"
    BY <2>1, <2>2 DEF IInv, CompletedIsQuiet
  <2>3. CASE req[d].event = req[c].event /\ PatchesStatus(req[c])
    BY <2>1, <2>3 DEF IInv, MeetingsNoted
  <2>4. QED BY <2>1, <2>2, <2>3
<1>5. QED BY <1>2, <1>3, <1>4 DEF IInv

\* An UPDATE of an event completes it only if no other request is at work on it.
LEMMA PatchEventIInv ==
    ASSUME IInv, NEW c \in Containers, PatchEvent(c) PROVE IInv'
<1> DEFINE r == req[c]
<1>1. /\ pc[c] = "write" /\ r.op = "patch_event" /\ Return(c) /\ UNCHANGED raced
      /\ status[r.event] # "deleted"
      /\ type' = [type EXCEPT ![r.event] = IF r.type = "absent" THEN @ ELSE r.type]
      /\ status' = [status EXCEPT ![r.event] = IF r.status = "absent" THEN @ ELSE r.status]
      /\ UNCHANGED <<item, needed, standing, quantity, contributions>>
  BY DEF PatchEvent, Writes, itemVars, pledgeVars
<1>2. /\ r \in Request /\ r.event \in Events /\ status[r.event] \in {"upcoming", "completed"}
      /\ r.type \in Types \cup {"absent"} /\ r.status \in {"upcoming", "completed", "absent"}
  BY <1>1 DEF IInv, Serves, TypeOK, Request
<1> HIDE DEF r
<1>3. status' \in [Events -> {"none", "upcoming", "completed", "deleted"}]
      /\ type' \in [Events -> Types]
  BY <1>1, <1>2 DEF IInv, TypeOK
<1>4. TypeOK'
  BY <1>1, <1>3 DEF IInv, TypeOK, Return, Goto, Stages
<1>5. /\ \A e \in Events : status[e] # "none" => status'[e] # "none"
      /\ \A e \in Events : status[e] \in {"upcoming", "completed"} =>
            status'[e] \in {"upcoming", "completed"}
      /\ \A e \in Events : status'[e] = "completed" =>
            status[e] = "completed" \/ (e = r.event /\ PatchesStatus(r))
  BY <1>1, <1>2 DEF IInv, TypeOK, PatchesStatus
<1>6. NoOrphans'
  BY <1>1, <1>5 DEF IInv, NoOrphans, ItemsOf, HasContributions, PledgesOf
<1>7. QED
  BY <1>1, <1>4, <1>5, <1>6, WriteIInv DEF r

\* The DELETE of an event raises if anything refers to it.
LEMMA DeleteEventIInv ==
    ASSUME IInv, NEW c \in Containers, DeleteEvent(c) PROVE IInv'
<1> DEFINE e == req[c].event
<1>1. /\ pc[c] = "write" /\ Return(c) /\ UNCHANGED raced
      /\ ItemsOf(e) = {} /\ ~HasContributions(e)
      /\ status' = [status EXCEPT ![e] = "deleted"]
      /\ UNCHANGED <<type, item, needed, standing, quantity, contributions>>
  BY DEF DeleteEvent, Writes, itemVars, pledgeVars, HasItemsOrPledges
<1> HIDE DEF e
<1>2. TypeOK'
  BY <1>1 DEF IInv, TypeOK, Return, Goto, Stages
<1>3. \A f \in Events : status'[f] = IF f = e THEN "deleted" ELSE status[f]
  BY <1>1 DEF IInv, TypeOK
<1>4. NoOrphans'
  BY <1>1, <1>3 DEF IInv, NoOrphans, ItemsOf, HasContributions, PledgesOf
<1>5. QED
  BY <1>1, <1>2, <1>3, <1>4, WriteIInv

\* An INSERT of items raises if the event is gone.
LEMMA AddItemsIInv ==
    ASSUME IInv, NEW c \in Containers, AddItems(c) PROVE IInv'
<1> DEFINE r == req[c]
<1>1. PICK new \in SUBSET {i \in Items : EventOf[i] = r.event /\ item[i] = "none"} :
         /\ item' = [i \in Items |-> IF i \in new THEN "there" ELSE item[i]]
         /\ needed' = [i \in Items |-> IF i \in new THEN InColumn(r.quantity) ELSE needed[i]]
  BY DEF AddItems
<1>2. /\ pc[c] = "write" /\ Return(c) /\ UNCHANGED raced
      /\ UNCHANGED <<type, status, standing, quantity, contributions>>
      /\ status[r.event] # "deleted"
  BY DEF AddItems, Writes, eventVars, pledgeVars
<1>3. r \in Request /\ r.event \in Events /\ InColumn(r.quantity) \in Quantity
      /\ status[r.event] \in {"upcoming", "completed"}
  BY <1>2, ColumnType DEF IInv, Serves, TypeOK, Request
<1> HIDE DEF r
<1>4. TypeOK'
  BY <1>1, <1>2, <1>3 DEF IInv, TypeOK, Return, Goto, Stages
<1>5. NoOrphans'
  <2>1. \A i \in Items : item'[i] = "there" => item[i] = "there" \/ EventOf[i] = r.event
    BY <1>1
  <2>2. \A i \in Items : item[i] = "there" => item'[i] = "there"
    BY <1>1
  <2>3. QED
    BY <1>2, <1>3, <2>1, <2>2 DEF IInv, NoOrphans, ItemsOf, HasContributions, PledgesOf
<1>6. \A i \in Items : item[i] # "none" => item'[i] # "none"
  BY <1>1
<1>7. QED
  BY <1>2, <1>4, <1>5, <1>6, WriteIInv

\* An UPDATE of an item leaves all references alone.
LEMMA PatchItemIInv ==
    ASSUME IInv, NEW c \in Containers, PatchItem(c) PROVE IInv'
<1>1. /\ pc[c] = "write" /\ Return(c) /\ UNCHANGED raced
      /\ needed' = [needed EXCEPT ![req[c].item] = InColumn(req[c].quantity)]
      /\ UNCHANGED <<type, status, item, standing, quantity, contributions>>
  BY DEF PatchItem, Writes, eventVars, pledgeVars
<1>2. InColumn(req[c].quantity) \in Quantity
  BY <1>1, ColumnType DEF IInv, Serves
<1>3. TypeOK'
  BY <1>1, <1>2 DEF IInv, TypeOK, Return, Goto, Stages
<1>4. NoOrphans'
  BY <1>1 DEF IInv, NoOrphans, ItemsOf, HasContributions, PledgesOf
<1>5. QED
  BY <1>1, <1>3, <1>4, WriteIInv

\* The DELETE of an item raises if a pledge refers to it.
LEMMA DeleteItemIInv ==
    ASSUME IInv, NEW c \in Containers, DeleteItem(c) PROVE IInv'
<1> DEFINE i == req[c].item
<1>1. /\ pc[c] = "write" /\ Return(c) /\ UNCHANGED raced
      /\ PledgesOf(i) = {} /\ item' = [item EXCEPT ![i] = "deleted"]
      /\ UNCHANGED <<type, status, needed, standing, quantity, contributions>>
  BY DEF DeleteItem, Writes, eventVars, pledgeVars
<1> HIDE DEF i
<1>2. TypeOK'
  BY <1>1 DEF IInv, TypeOK, Return, Goto, Stages
<1>3. \A j \in Items : item'[j] = IF j = i THEN "deleted" ELSE item[j]
  BY <1>1 DEF IInv, TypeOK
<1>4. NoOrphans'
  <2>1. \A e \in Events : ItemsOf(e)' \subseteq ItemsOf(e)
    BY <1>3 DEF ItemsOf
  <2>2. \A j \in Items : PledgesOf(j)' = PledgesOf(j)
    BY <1>1 DEF PledgesOf
  <2>3. \A e \in Events : HasContributions(e)' <=> HasContributions(e)
    BY <1>1 DEF HasContributions
  <2>4. QED
    BY <1>1, <1>3, <2>1, <2>2, <2>3 DEF IInv, NoOrphans, TypeOK
<1>5. QED
  BY <1>1, <1>2, <1>4, WriteIInv

\* An INSERT of a pledge raises if the item is gone.
LEMMA CreatePledgeIInv ==
    ASSUME IInv, NEW c \in Containers, CreatePledge(c) PROVE IInv'
<1> DEFINE r == req[c]
           p == <<r.caller, r.item>>
<1>1. /\ pc[c] = "write" /\ r.op = "create_pledge" /\ Return(c) /\ UNCHANGED raced
      /\ item[r.item] = "there"
      /\ standing' = [standing EXCEPT ![p] = "pledged"]
      /\ quantity' = [quantity EXCEPT ![p] = InColumn(r.quantity)]
      /\ UNCHANGED <<type, status, item, needed, contributions>>
  BY DEF CreatePledge, Writes, eventVars, itemVars
<1>2. /\ r.caller \in Members /\ r.item \in Items /\ p \in Pledges
      /\ InColumn(r.quantity) \in Quantity
  BY <1>1, ColumnType DEF IInv, Serves, Request, Pledges
<1> HIDE DEF r, p
<1>3. TypeOK'
  BY <1>1, <1>2 DEF IInv, TypeOK, Return, Goto, Stages
<1>4. \A m \in Members, i \in Items :
         standing'[<<m, i>>] = IF <<m, i>> = p THEN "pledged" ELSE standing[<<m, i>>]
  BY <1>1 DEF IInv, TypeOK, Pledges
<1>5. \A i \in Items : PledgesOf(i)' \subseteq IF i = r.item THEN Members ELSE PledgesOf(i)
  BY <1>4 DEF PledgesOf, p
<1>6. \A i \in Items : PledgesOf(i) \subseteq PledgesOf(i)'
  BY <1>4 DEF PledgesOf
<1>7. \A e \in Events : ItemsOf(e)' = ItemsOf(e) /\ (HasContributions(e)' <=> HasContributions(e))
  BY <1>1 DEF ItemsOf, HasContributions
<1>8. NoOrphans'
  BY <1>1, <1>5, <1>6, <1>7 DEF IInv, NoOrphans, TypeOK
<1>9. QED
  BY <1>1, <1>3, <1>4, <1>8, WriteIInv

\* An UPDATE of the quantity of a pledge leaves all references alone.
LEMMA UpdatePledgeIInv ==
    ASSUME IInv, NEW c \in Containers, UpdatePledge(c) PROVE IInv'
<1> DEFINE r == req[c]
<1>1. /\ pc[c] = "write" /\ Return(c) /\ UNCHANGED raced
      /\ quantity' = [quantity EXCEPT ![<<r.owner, r.item>>] = InColumn(r.quantity)]
      /\ UNCHANGED <<type, status, item, needed, standing, contributions>>
  BY DEF UpdatePledge, Writes, eventVars, itemVars
<1>2. InColumn(r.quantity) \in Quantity
  BY <1>1, ColumnType DEF IInv, Serves
<1> HIDE DEF r
<1>3. TypeOK'
  BY <1>1, <1>2 DEF IInv, TypeOK, Return, Goto, Stages
<1>4. NoOrphans'
  BY <1>1 DEF IInv, NoOrphans, ItemsOf, HasContributions, PledgesOf
<1>5. QED
  BY <1>1, <1>3, <1>4, WriteIInv

\* A cancelled pledge stays where it is.
LEMMA CancelPledgeIInv ==
    ASSUME IInv, NEW c \in Containers, CancelPledge(c) PROVE IInv'
<1> DEFINE r == req[c]
           p == <<r.owner, r.item>>
<1>1. /\ pc[c] = "write" /\ r.op = "cancel_pledge" /\ Return(c) /\ UNCHANGED raced
      /\ standing' = [standing EXCEPT ![p] = "cancelled"]
      /\ UNCHANGED <<type, status, item, needed, quantity, contributions>>
  BY DEF CancelPledge, Writes, eventVars, itemVars
<1>2. standing[p] # "none"
  BY <1>1 DEF IInv, Serves, Found, PledgeFound
<1> HIDE DEF r, p
<1>3. TypeOK'
  BY <1>1 DEF IInv, TypeOK, Return, Goto, Stages
<1>4. \A m \in Members, i \in Items :
         standing'[<<m, i>>] = IF <<m, i>> = p THEN "cancelled" ELSE standing[<<m, i>>]
  BY <1>1 DEF IInv, TypeOK, Pledges
<1>5. \A i \in Items : PledgesOf(i)' = PledgesOf(i)
  BY <1>2, <1>4 DEF PledgesOf
<1>6. \A e \in Events : ItemsOf(e)' = ItemsOf(e) /\ (HasContributions(e)' <=> HasContributions(e))
  BY <1>1 DEF ItemsOf, HasContributions
<1>7. NoOrphans'
  BY <1>1, <1>5, <1>6 DEF IInv, NoOrphans, TypeOK
<1>8. QED
  BY <1>1, <1>3, <1>4, <1>7, WriteIInv

\* An INSERT of a contribution raises if what it refers to is gone.
LEMMA RecordContributionIInv ==
    ASSUME IInv, NEW c \in Containers, RecordContribution(c) PROVE IInv'
<1> DEFINE r == req[c]
<1>1. /\ pc[c] = "write" /\ r.op = "record_contribution" /\ Return(c) /\ UNCHANGED raced
      /\ status[r.event] # "deleted"
      /\ UNCHANGED <<type, status, item, needed, standing, quantity>>
  BY DEF RecordContribution, Writes, eventVars, itemVars, pledgeVars
<1>2. PICK id \in Contributions : contributions' = contributions \cup
         {[id |-> id, event |-> r.event, owner |-> r.owner, item |-> r.item]}
  BY DEF RecordContribution
<1>3. /\ r.event \in Events /\ r.owner \in Members \cup {NoMember} /\ r.item \in Items
      /\ status[r.event] \in {"upcoming", "completed"}
  BY <1>1 DEF IInv, Serves, Request, TypeOK
<1>4. r.owner # NoMember =>
         EventOf[r.item] = r.event /\ r.owner \in Members /\ standing[<<r.owner, r.item>>] # "none"
  BY <1>1 DEF IInv, Serves, Found, PledgeFound
<1> HIDE DEF r
<1>5. TypeOK'
  BY <1>1, <1>2, <1>3 DEF IInv, TypeOK, Return, Goto, Stages
<1>6. /\ \A e \in Events : ItemsOf(e)' = ItemsOf(e)
      /\ \A i \in Items : PledgesOf(i)' = PledgesOf(i)
      /\ \A e \in Events : HasContributions(e)' => HasContributions(e) \/ e = r.event
  BY <1>1, <1>2 DEF ItemsOf, PledgesOf, HasContributions
<1>7. r.owner # NoMember => r.owner \in PledgesOf(r.item)
  BY <1>4 DEF PledgesOf
<1>8. NoOrphans'
  BY <1>1, <1>2, <1>3, <1>4, <1>6, <1>7 DEF IInv, NoOrphans, TypeOK
<1>9. QED
  BY <1>1, <1>5, <1>8, WriteIInv

\* A new event has nothing that refers to it.
LEMMA CreateEventIInv ==
    ASSUME IInv, NEW c \in Containers, CreateEvent(c) PROVE IInv'
<1>1. PICK r \in Requests :
         /\ r.type \in Types /\ status[r.event] = "none"
         /\ status' = [status EXCEPT ![r.event] = "upcoming"]
         /\ type' = [type EXCEPT ![r.event] = r.type]
  BY DEF CreateEvent
<1>2. UNCHANGED <<item, needed, standing, quantity, contributions, pc, req, raced>>
  BY DEF CreateEvent, itemVars, pledgeVars
<1>3. TypeOK'
  BY <1>1, <1>2 DEF IInv, TypeOK, Stages
<1>4. \A e \in Events : status'[e] = IF e = r.event THEN "upcoming" ELSE status[e]
  BY <1>1 DEF IInv, TypeOK
<1>5. \A d \in Containers : Serves(d)'
  BY <1>2, <1>4 DEF IInv, Serves, Found, ItemFound, PledgeFound, Sensible, Request
<1>6. NoOrphans'
  BY <1>1, <1>2, <1>4 DEF IInv, NoOrphans, ItemsOf, HasContributions, PledgesOf
<1>7. MeetingsNoted'
  BY <1>2 DEF IInv, MeetingsNoted, PatchesStatus
<1>8. CompletedIsQuiet'
  BY <1>2, <1>4 DEF IInv, CompletedIsQuiet, Serves, Request
<1>9. QED BY <1>3, <1>5, <1>6, <1>7, <1>8 DEF IInv

\* The DELETE of a contribution leaves nothing behind.
LEMMA DeleteContributionIInv ==
    ASSUME IInv, NEW c \in Containers, DeleteContribution(c) PROVE IInv'
<1>1. /\ contributions' \subseteq contributions
      /\ UNCHANGED <<type, status, item, needed, standing, quantity, pc, req, raced>>
  BY DEF DeleteContribution, eventVars, itemVars, pledgeVars
<1>2. TypeOK'
  BY <1>1 DEF IInv, TypeOK, Stages
<1>3. \A d \in Containers : Serves(d)'
  BY <1>1 DEF IInv, Serves, Found, ItemFound, PledgeFound, Sensible
<1>4. NoOrphans'
  BY <1>1 DEF IInv, NoOrphans, ItemsOf, HasContributions, PledgesOf
<1>5. MeetingsNoted' /\ CompletedIsQuiet'
  BY <1>1 DEF IInv, MeetingsNoted, CompletedIsQuiet, PatchesStatus
<1>6. QED BY <1>2, <1>3, <1>4, <1>5 DEF IInv

----------------------------------------------------------------------------
(* A request arrives.                                                      *)

\* A patch of a status is a conflict with every request for its event.
LEMMA StatusConflict ==
    ASSUME NEW r, NEW s, PatchesStatus(r) \/ PatchesStatus(s)
    PROVE  "status" \in Conflict(r, s)
  BY DEF Conflict, PatchesStatus

\* A handler reads the event; the requests that it meets are noted.
LEMMA ReceiveIInv ==
    ASSUME IInv, NEW c \in Containers, Receive(c) PROVE IInv'
<1>1. PICK r \in Requests :
         /\ r.op \notin {"create_event", "delete_contribution"} /\ Acceptable(r)
         /\ req' = [req EXCEPT ![c] = r] /\ Goto(c, FirstStage(r)) /\ Meet(c, r)
  BY DEF Receive
<1>2. /\ pc[c] = "idle"
      /\ UNCHANGED <<type, status, item, needed, standing, quantity, contributions>>
  BY DEF Receive, tables, eventVars, itemVars, pledgeVars
<1>3. r \in Request /\ r.event \in Events /\ status[r.event] = "upcoming"
  BY <1>1, EventsAssumption DEF Acceptable, Request
<1>4. FirstStage(r) \in Stages \ {"idle"} /\ Sensible(r, FirstStage(r)) /\ Found(r, FirstStage(r))
  <2>1. r.op \in (ExecutiveOps \cup MemberOps) \ {"create_event", "delete_contribution"}
    BY <1>1, <1>3 DEF Request
  <2>2. type[r.event] \in Types
    BY <1>3 DEF IInv, TypeOK
  <2>3. CASE r.op = "patch_event"
    BY <2>3 DEF FirstStage, Stages, Sensible, Found, ItemFound, PledgeFound
  <2>4. CASE r.op \in {"patch_item", "delete_item", "create_pledge"}
    BY <2>4 DEF FirstStage, Stages, Sensible, Found, ItemFound, PledgeFound
  <2>5. CASE r.op \in {"update_pledge", "cancel_pledge"}
    BY <2>5 DEF FirstStage, Stages, Sensible, Found, ItemFound, PledgeFound
  <2>6. CASE r.op = "record_contribution"
    BY <2>6 DEF FirstStage, Stages, Sensible, Found, ItemFound, PledgeFound
  <2>7. CASE r.op = "delete_event"
    BY <2>2, <2>7 DEF FirstStage, Stages, Sensible, Found, ItemFound, PledgeFound, Types
  <2>8. CASE r.op = "add_items"
    BY <2>8 DEF FirstStage, Stages, Sensible, Found, ItemFound, PledgeFound
  <2>9. QED
    BY <2>1, <2>3, <2>4, <2>5, <2>6, <2>7, <2>8 DEF ExecutiveOps, MemberOps
<1>5. /\ \A d \in Containers : pc'[d] = IF d = c THEN FirstStage(r) ELSE pc[d]
      /\ \A d \in Containers : req'[d] = IF d = c THEN r ELSE req[d]
  BY <1>1 DEF Goto, IInv, TypeOK
<1> DEFINE met == UNION {Conflict(r, req[d]) :
                     d \in {x \in Containers \ {c} : pc[x] # "idle" /\ req[x].event = r.event}}
<1>6. raced' = [raced EXCEPT ![r.event] = @ \cup met]
  BY <1>1 DEF Meet
<1>7. met \subseteq {"quantity", "paid", "type", "status"}
  BY DEF Conflict
<1>8. \A d \in Containers \ {c} :
         pc[d] # "idle" /\ req[d].event = r.event /\ (PatchesStatus(r) \/ PatchesStatus(req[d]))
           => "status" \in met
  BY StatusConflict
<1> HIDE DEF met
<1>9. /\ \A e \in Events : raced[e] \subseteq raced'[e]
      /\ met \subseteq raced'[r.event]
      /\ raced' \in [Events -> SUBSET {"quantity", "paid", "type", "status"}]
  BY <1>3, <1>6, <1>7 DEF IInv, TypeOK
<1>10. TypeOK'
  BY <1>1, <1>2, <1>3, <1>4, <1>9 DEF IInv, TypeOK, Goto
<1>11. \A d \in Containers : Serves(d)'
  BY <1>2, <1>3, <1>4, <1>5 DEF IInv, Serves, Found
<1>12. NoOrphans'
  BY <1>2 DEF IInv, NoOrphans, ItemsOf, HasContributions, PledgesOf
<1>13. MeetingsNoted'
  <2> SUFFICES ASSUME NEW a \in Containers, NEW b \in Containers, a # b,
                      pc'[a] # "idle", pc'[b] # "idle", req'[a].event = req'[b].event,
                      PatchesStatus(req'[a])
               PROVE  "status" \in raced'[req'[a].event]
    BY DEF MeetingsNoted, PatchesStatus
  <2>1. CASE a = c
    BY <2>1, <1>5, <1>8, <1>9
  <2>2. CASE b = c
    BY <2>2, <1>5, <1>8, <1>9
  <2>3. CASE a # c /\ b # c
    BY <2>3, <1>5, <1>9 DEF IInv, MeetingsNoted, Serves, Request
  <2>4. QED BY <2>1, <2>2, <2>3
<1>14. CompletedIsQuiet'
  BY <1>2, <1>3, <1>5, <1>9 DEF IInv, CompletedIsQuiet, Serves, Request
<1>15. QED BY <1>10, <1>11, <1>12, <1>13, <1>14 DEF IInv

----------------------------------------------------------------------------
(* The SELECTs.                                                            *)

\* patch_event and delete_event look for rows of the event, then go on or answer.
LEMMA ReadRowsIInv ==
    ASSUME IInv, NEW c \in Containers, ReadRows(c) PROVE IInv'
<1>1. CASE Refuse(c)
  BY <1>1, RefuseIInv
<1>2. CASE req[c].op = "patch_event" /\ Proceed(c, "write")
  <2>1. Found(req[c], "write")
    BY <1>2 DEF Found, ItemFound, PledgeFound
  <2>2. QED
    BY <1>2, <2>1, ProceedIInv DEF ReadRows, Stages, Sensible
<1>3. CASE req[c].op = "delete_event" /\ Proceed(c, "contributions")
  <2>1. Found(req[c], "contributions")
    BY <1>3 DEF Found, ItemFound, PledgeFound
  <2>2. QED
    BY <1>3, <2>1, ProceedIInv DEF ReadRows, Stages, Sensible
<1>4. QED
  BY <1>1, <1>2, <1>3 DEF ReadRows

\* delete_event looks for contributions, then writes or answers.
LEMMA ReadContributionsIInv ==
    ASSUME IInv, NEW c \in Containers, ReadContributions(c) PROVE IInv'
<1>1. CASE Refuse(c)
  BY <1>1, RefuseIInv
<1>2. CASE Proceed(c, "write")
  <2>1. pc[c] = "contributions" /\ req[c].op = "delete_event"
    BY DEF ReadContributions, IInv, Serves, Sensible
  <2>2. Found(req[c], "write")
    BY <2>1 DEF Found, ItemFound, PledgeFound
  <2>3. QED
    BY <1>2, <2>1, <2>2, ProceedIInv DEF Stages, Sensible
<1>3. QED
  BY <1>1, <1>2 DEF ReadContributions

\* The handlers of an item find the item of the event or answer 404.
LEMMA ReadItemIInv ==
    ASSUME IInv, NEW c \in Containers, ReadItem(c) PROVE IInv'
<1> DEFINE stage == IF req[c].op = "create_pledge" THEN "existing" ELSE "active"
<1>1. CASE Refuse(c)
  BY <1>1, RefuseIInv
<1>2. CASE req[c].item \in ItemsOf(req[c].event) /\ Proceed(c, stage)
  <2>1. pc[c] = "item" /\ req[c].op \in {"patch_item", "delete_item", "create_pledge"}
    BY DEF ReadItem, IInv, Serves, Sensible
  <2>2. Sensible(req[c], stage) /\ Found(req[c], stage)
    BY <1>2, <2>1 DEF Sensible, Found, ItemFound, PledgeFound, ItemsOf
  <2>3. QED
    BY <1>2, <2>1, <2>2, ProceedIInv DEF Stages
<1>3. QED
  BY <1>1, <1>2 DEF ReadItem

\* delete_item looks for active pledges, then writes or answers.
LEMMA ReadActiveIInv ==
    ASSUME IInv, NEW c \in Containers, ReadActive(c) PROVE IInv'
<1>1. CASE Refuse(c)
  BY <1>1, RefuseIInv
<1>2. CASE Proceed(c, "write")
  <2>1. pc[c] = "active" /\ req[c].op \in {"patch_item", "delete_item"}
    BY DEF ReadActive, IInv, Serves, Sensible
  <2>2. Found(req[c], "write")
    BY <2>1 DEF IInv, Serves, Found, ItemFound, PledgeFound
  <2>3. QED
    BY <1>2, <2>1, <2>2, ProceedIInv DEF Stages, Sensible
<1>3. QED
  BY <1>1, <1>2 DEF ReadActive

\* create_pledge looks for a pledge of the member, then goes on or answers.
LEMMA ReadExistingIInv ==
    ASSUME IInv, NEW c \in Containers, ReadExisting(c) PROVE IInv'
<1>1. CASE Refuse(c)
  BY <1>1, RefuseIInv
<1>2. CASE Proceed(c, "remaining")
  <2>1. pc[c] = "existing" /\ req[c].op = "create_pledge"
    BY DEF ReadExisting, IInv, Serves, Sensible
  <2>2. Found(req[c], "remaining")
    BY <2>1 DEF IInv, Serves, Found, ItemFound, PledgeFound
  <2>3. QED
    BY <1>2, <2>1, <2>2, ProceedIInv DEF Stages, Sensible
<1>3. QED
  BY <1>1, <1>2 DEF ReadExisting

\* The pledge handlers find the pledge of the event or answer 404.
LEMMA ReadPledgeIInv ==
    ASSUME IInv, NEW c \in Containers, ReadPledge(c) PROVE IInv'
<1> DEFINE stage == CASE req[c].op = "update_pledge" -> "remaining"
                      [] req[c].op = "cancel_pledge" -> "paid"
                      [] req[c].op = "record_contribution" -> "write"
<1>1. CASE Refuse(c)
  BY <1>1, RefuseIInv
<1>2. CASE /\ EventOf[req[c].item] = req[c].event /\ req[c].owner \in ActivePledges(req[c].item)
           /\ req[c].op \in MemberOps => req[c].owner = req[c].caller
           /\ Proceed(c, stage)
  <2>1. pc[c] = "pledge" /\ req[c].op \in {"update_pledge", "cancel_pledge", "record_contribution"}
    BY DEF ReadPledge, IInv, Serves, Sensible
  <2>2. stage \in {"remaining", "paid", "write"} /\ Sensible(req[c], stage)
    BY <2>1 DEF Sensible
  <2>3. Found(req[c], stage)
    BY <1>2, <2>1 DEF Found, ItemFound, ActivePledges, MemberOps
  <2>4. QED
    BY <1>2, <2>1, <2>2, <2>3, ProceedIInv DEF Stages
<1>3. QED
  BY <1>1, <1>2 DEF ReadPledge

\* create_pledge and update_pledge read what remains, then write or answer.
LEMMA ReadRemainingIInv ==
    ASSUME IInv, NEW c \in Containers, ReadRemaining(c) PROVE IInv'
<1>1. CASE Refuse(c)
  BY <1>1, RefuseIInv
<1>2. CASE Proceed(c, "write")
  <2>1. pc[c] = "remaining" /\ req[c].op \in {"create_pledge", "update_pledge"}
    BY DEF ReadRemaining, IInv, Serves, Sensible
  <2>2. Found(req[c], "write")
    BY <2>1 DEF IInv, Serves, Found, ItemFound, PledgeFound
  <2>3. QED
    BY <1>2, <2>1, <2>2, ProceedIInv DEF Stages, Sensible
<1>3. QED
  BY <1>1, <1>2 DEF ReadRemaining

\* cancel_pledge looks for contributions, then writes or answers.
LEMMA ReadPaidIInv ==
    ASSUME IInv, NEW c \in Containers, ReadPaid(c) PROVE IInv'
<1>1. CASE Refuse(c)
  BY <1>1, RefuseIInv
<1>2. CASE Proceed(c, "write")
  <2>1. pc[c] = "paid" /\ req[c].op = "cancel_pledge"
    BY DEF ReadPaid, IInv, Serves, Sensible
  <2>2. Found(req[c], "write")
    BY <2>1 DEF IInv, Serves, Found, ItemFound, PledgeFound
  <2>3. QED
    BY <1>2, <2>1, <2>2, ProceedIInv DEF Stages, Sensible
<1>3. QED
  BY <1>1, <1>2 DEF ReadPaid

----------------------------------------------------------------------------
(* The theorems.                                                           *)

\* A step that changes nothing keeps the invariant.
LEMMA StutterIInv == IInv /\ UNCHANGED vars => IInv'
<1> SUFFICES ASSUME IInv, UNCHANGED vars PROVE IInv'
  OBVIOUS
<1>1. UNCHANGED <<type, status, item, needed, standing, quantity, contributions, pc, req, raced>>
  BY DEF vars, tables, eventVars, itemVars, pledgeVars
<1>2. TypeOK' /\ NoOrphans'
  BY <1>1 DEF IInv, TypeOK, Stages, NoOrphans, ItemsOf, HasContributions, PledgesOf
<1>3. \A d \in Containers : Serves(d)'
  BY <1>1 DEF IInv, Serves, Found, ItemFound, PledgeFound, Sensible
<1>4. MeetingsNoted' /\ CompletedIsQuiet'
  BY <1>1 DEF IInv, MeetingsNoted, CompletedIsQuiet, PatchesStatus
<1>5. QED BY <1>2, <1>3, <1>4 DEF IInv

\* One step per action.
LEMMA NextIInv == IInv /\ [Next]_vars => IInv'
<1> SUFFICES ASSUME IInv, Next PROVE IInv'
  BY StutterIInv
<1>1. PICK c \in Containers : Receive(c) \/ Read(c) \/ Write(c) \/ Abort(c)
  BY DEF Next
<1>2. CASE Receive(c)
  BY <1>2, ReceiveIInv
<1>3. CASE Read(c)
  BY <1>3, ReadRowsIInv, ReadContributionsIInv, ReadItemIInv, ReadActiveIInv, ReadExistingIInv,
     ReadPledgeIInv, ReadRemainingIInv, ReadPaidIInv DEF Read
<1>4. CASE Write(c)
  BY <1>4, CreateEventIInv, PatchEventIInv, DeleteEventIInv, AddItemsIInv, PatchItemIInv,
     DeleteItemIInv, CreatePledgeIInv, UpdatePledgeIInv, CancelPledgeIInv,
     RecordContributionIInv, DeleteContributionIInv DEF Write
<1>5. CASE Abort(c)
  BY <1>5, RefuseIInv DEF Abort
<1>6. QED BY <1>1, <1>2, <1>3, <1>4, <1>5

\* The invariant holds in every reachable state.
THEOREM InvariantHolds == Spec => []IInv
  BY InitIInv, NextIInv, PTL DEF Spec

\* Every reachable state of event_service.py over its database has its types.
THEOREM TypeCorrect == Spec => []TypeOK
<1>1. IInv => TypeOK
  BY DEF IInv
<1>2. QED BY <1>1, InvariantHolds, PTL

\* delete_event and delete_item decide on SELECTs that may be stale when they
\* write, and still no item, pledge or contribution outlives what it refers to:
\* for any number of containers the foreign keys of V3 see to it.
THEOREM NoOrphansHolds == Spec => []NoOrphans
<1>1. IInv => NoOrphans
  BY DEF IInv
<1>2. QED BY <1>1, InvariantHolds, PTL

----------------------------------------------------------------------------
(* Completed events.                                                       *)

\* What CompletedIsFinal asks of a step.
Untouched(e) ==
    /\ status'[e] = status[e] /\ type'[e] = type[e]
    /\ \A i \in Items : EventOf[i] = e =>
         /\ item'[i] = item[i] /\ needed'[i] = needed[i]
         /\ \A m \in Members : /\ standing'[<<m, i>>] = standing[<<m, i>>]
                               /\ quantity'[<<m, i>>] = quantity[<<m, i>>]
    /\ \A x \in contributions' : x.event = e => x \in contributions

\* A step that leaves the tables alone touches no event.
LEMMA UnchangedTablesTouchNothing ==
    ASSUME UNCHANGED tables, NEW e PROVE Untouched(e)
  BY DEF tables, eventVars, itemVars, pledgeVars, Untouched

\* Each writing handler changes rows of the event of its path only.
LEMMA WritesOwnEvent ==
    ASSUME IInv, NEW c \in Containers, pc[c] = "write", Write(c),
           NEW e \in Events, e # req[c].event
    PROVE  Untouched(e)
<1> DEFINE r == req[c]
<1>1. r \in Request /\ r.event \in Events /\ r.item \in Items
  BY DEF IInv, Serves, Request
<1>2. r.op \in {"patch_item", "delete_item", "create_pledge", "update_pledge", "cancel_pledge"}
           => EventOf[r.item] = r.event
  BY DEF IInv, Serves, Found, ItemFound, PledgeFound
<1>3. CASE PatchEvent(c)
  BY <1>1, <1>3 DEF PatchEvent, itemVars, pledgeVars, Untouched, IInv, TypeOK
<1>4. CASE DeleteEvent(c)
  BY <1>1, <1>4 DEF DeleteEvent, itemVars, pledgeVars, Untouched, IInv, TypeOK
<1>5. CASE AddItems(c)
  BY <1>1, <1>5 DEF AddItems, eventVars, pledgeVars, Untouched
<1>6. CASE PatchItem(c)
  BY <1>1, <1>2, <1>6 DEF PatchItem, Writes, eventVars, pledgeVars, Untouched, IInv, TypeOK
<1>7. CASE DeleteItem(c)
  BY <1>1, <1>2, <1>7 DEF DeleteItem, Writes, eventVars, pledgeVars, Untouched, IInv, TypeOK
<1>8. CASE CreatePledge(c)
  <2>1. /\ EventOf[r.item] = r.event
        /\ standing' = [standing EXCEPT ![<<r.caller, r.item>>] = "pledged"]
        /\ quantity' = [quantity EXCEPT ![<<r.caller, r.item>>] = InColumn(r.quantity)]
        /\ UNCHANGED <<type, status, item, needed, contributions>>
    BY <1>2, <1>8 DEF CreatePledge, Writes, eventVars, itemVars
  <2>2. QED
    BY <1>1, <2>1 DEF Untouched, IInv, TypeOK, Pledges
<1>9. CASE UpdatePledge(c)
  <2>1. /\ EventOf[r.item] = r.event
        /\ quantity' = [quantity EXCEPT ![<<r.owner, r.item>>] = InColumn(r.quantity)]
        /\ UNCHANGED <<type, status, item, needed, standing, contributions>>
    BY <1>2, <1>9 DEF UpdatePledge, Writes, eventVars, itemVars
  <2>2. QED
    BY <1>1, <2>1 DEF Untouched, IInv, TypeOK, Pledges
<1>10. CASE CancelPledge(c)
  <2>1. /\ EventOf[r.item] = r.event
        /\ standing' = [standing EXCEPT ![<<r.owner, r.item>>] = "cancelled"]
        /\ UNCHANGED <<type, status, item, needed, quantity, contributions>>
    BY <1>2, <1>10 DEF CancelPledge, Writes, eventVars, itemVars
  <2>2. QED
    BY <1>1, <2>1 DEF Untouched, IInv, TypeOK, Pledges
<1>11. CASE RecordContribution(c)
  BY <1>11 DEF RecordContribution, eventVars, itemVars, pledgeVars, Untouched
<1>12. QED
  BY <1>3, <1>4, <1>5, <1>6, <1>7, <1>8, <1>9, <1>10, <1>11 DEF Write, CreateEvent, DeleteContribution

\* create_event makes a row of its own, and delete_contribution adds nothing.
LEMMA SingleStatementsTouchNothing ==
    ASSUME IInv, NEW c \in Containers, CreateEvent(c) \/ DeleteContribution(c),
           NEW e \in Events, status[e] = "completed"
    PROVE  Untouched(e)
<1>1. CASE CreateEvent(c)
  <2>1. PICK r \in Requests :
           /\ status[r.event] = "none"
           /\ status' = [status EXCEPT ![r.event] = "upcoming"]
           /\ type' = [type EXCEPT ![r.event] = r.type]
    BY <1>1 DEF CreateEvent
  <2>2. QED
    BY <1>1, <2>1 DEF CreateEvent, itemVars, pledgeVars, Untouched, IInv, TypeOK
<1>2. CASE DeleteContribution(c)
  BY <1>2 DEF DeleteContribution, eventVars, itemVars, pledgeVars, Untouched
<1>3. QED BY <1>1, <1>2

\* No step touches a completed event, unless the status met another request.
LEMMA NextLeavesCompleted ==
    ASSUME IInv, Next, NEW e \in Events, status[e] = "completed", "status" \notin raced'[e]
    PROVE  Untouched(e)
<1>1. PICK c \in Containers : Receive(c) \/ Read(c) \/ Write(c) \/ Abort(c)
  BY DEF Next
<1>2. CASE Receive(c) \/ Read(c) \/ Abort(c)
  <2>1. UNCHANGED tables
    BY <1>2 DEF Receive, Read, Abort, ReadRows, ReadContributions, ReadItem, ReadActive,
       ReadExisting, ReadPledge, ReadRemaining, ReadPaid, Refuse, Proceed
  <2>2. QED BY <2>1, UnchangedTablesTouchNothing
<1>3. CASE Write(c)
  <2>1. CASE CreateEvent(c) \/ DeleteContribution(c)
    BY <2>1, SingleStatementsTouchNothing
  <2>2. CASE ~(CreateEvent(c) \/ DeleteContribution(c))
    <3>1. pc[c] = "write" /\ raced' = raced
      BY <1>3, <2>2 DEF Write, PatchEvent, DeleteEvent, AddItems, PatchItem, DeleteItem,
         CreatePledge, UpdatePledge, CancelPledge, RecordContribution, Writes
    <3>2. e # req[c].event
      BY <3>1 DEF IInv, CompletedIsQuiet
    <3>3. QED BY <1>3, <3>1, <3>2, WritesOwnEvent
  <2>3. QED BY <2>1, <2>2
<1>4. QED BY <1>1, <1>2, <1>3

\* For any number of containers: a completed event is not written any more,
\* neither by what its requests read before it was completed, nor by the
\* requests for other events, unless a patch of the status met another request.
THEOREM CompletedIsFinalHolds == Spec => CompletedIsFinal
<1> DEFINE Step == \A e \in Events :
              status[e] = "completed" /\ "status" \notin raced'[e] =>
                  /\ status'[e] = "completed" /\ type'[e] = type[e]
                  /\ \A i \in Items : EventOf[i] = e =>
                       /\ item'[i] = item[i] /\ needed'[i] = needed[i]
                       /\ \A m \in Members : /\ standing'[<<m, i>>] = standing[<<m, i>>]
                                             /\ quantity'[<<m, i>>] = quantity[<<m, i>>]
                  /\ \A x \in contributions' : x.event = e => x \in contributions
<1>1. IInv /\ Next => Step
  BY NextLeavesCompleted DEF Untouched
<1>2. IInv /\ [Next]_vars => [Step]_vars
  BY <1>1
<1>3. QED
  BY <1>2, InvariantHolds, PTL DEF Spec, CompletedIsFinal

----------------------------------------------------------------------------
(* What the checks of the handlers are for, while no conflict is noted.    *)

\* Whichever two requests are served for an event at a time, their conflicts are
\* on record.
Met ==
    \A c, d \in Containers :
        c # d /\ pc[c] # "idle" /\ pc[d] # "idle" /\ req[c].event = req[d].event =>
            Conflict(req[c], req[d]) \subseteq raced[req[c].event]

\* What a handler has found before it writes still holds, or a conflict is noted.
Decided(c) ==
    pc[c] = "write" =>
        /\ req[c].op = "record_contribution" /\ req[c].owner # NoMember =>
               standing[<<req[c].owner, req[c].item>>] = "pledged" \/ "paid" \in raced[req[c].event]
        /\ req[c].op = "cancel_pledge" =>
               ~HasContribution(req[c].owner, req[c].item) \/ "paid" \in raced[req[c].event]
        /\ req[c].op = "add_items" =>
               type[req[c].event] = "pledge" \/ "type" \in raced[req[c].event]
        /\ req[c].op = "patch_event" /\ req[c].type \notin {"absent", "pledge"} =>
               ItemsOf(req[c].event) = {} \/ "type" \in raced[req[c].event]

Undisturbed ==
    /\ IInv
    /\ Met
    /\ \A c \in Containers : Decided(c)
    /\ ItemsOnPledgeEvents
    /\ PaidPledgeStands

\* It does not matter which of two requests came first.
LEMMA ConflictSymmetric == ASSUME NEW r, NEW s PROVE Conflict(r, s) = Conflict(s, r)
  BY DEF Conflict

\* But for the arrival of a request the requests stay or are done.
LEMMA RequestsStay ==
    ASSUME IInv, NEW c \in Containers, Read(c) \/ Write(c) \/ Abort(c)
    PROVE  /\ raced' = raced
           /\ \A d \in Containers : pc'[d] # "idle" => pc[d] # "idle" /\ req'[d] = req[d]
           /\ \A d \in Containers : d # c => pc'[d] = pc[d]
<1>1. CASE Read(c)
  BY <1>1 DEF Read, ReadRows, ReadContributions, ReadItem, ReadActive, ReadExisting, ReadPledge,
     ReadRemaining, ReadPaid, Refuse, Proceed, Return, Goto, IInv, TypeOK
<1>2. CASE Write(c)
  BY <1>2 DEF Write, CreateEvent, PatchEvent, DeleteEvent, AddItems, PatchItem, DeleteItem,
     CreatePledge, UpdatePledge, CancelPledge, RecordContribution, DeleteContribution, Writes,
     Return, Goto, IInv, TypeOK
<1>3. CASE Abort(c)
  BY <1>3 DEF Abort, Refuse, Return, Goto, IInv, TypeOK
<1>4. QED BY <1>1, <1>2, <1>3

\* A request that arrives meets those that are there.
LEMMA MetReceive ==
    ASSUME IInv, Met, NEW c \in Containers, Receive(c)
    PROVE  Met' /\ \A e \in Events : raced[e] \subseteq raced'[e]
<1>1. PICK r \in Requests : req' = [req EXCEPT ![c] = r] /\ Goto(c, FirstStage(r)) /\ Meet(c, r)
  BY DEF Receive
<1>2. r.event \in Events
  BY EventsAssumption DEF Request
<1>3. /\ \A d \in Containers : d # c => pc'[d] = pc[d] /\ req'[d] = req[d]
      /\ req'[c] = r
  BY <1>1 DEF Goto, IInv, TypeOK
<1> DEFINE others == {x \in Containers \ {c} : pc[x] # "idle" /\ req[x].event = r.event}
           met == UNION {Conflict(r, req[d]) : d \in others}
<1>4. raced' = [raced EXCEPT ![r.event] = @ \cup met]
  BY <1>1 DEF Meet
<1>5. \A d \in others : Conflict(r, req[d]) \subseteq met
  OBVIOUS
<1> HIDE DEF met
<1>6. (\A e \in Events : raced[e] \subseteq raced'[e]) /\ met \subseteq raced'[r.event]
  BY <1>2, <1>4 DEF IInv, TypeOK
<1>7. ASSUME NEW a \in Containers, NEW b \in Containers, a # b,
             pc'[a] # "idle", pc'[b] # "idle", req'[a].event = req'[b].event
      PROVE  Conflict(req'[a], req'[b]) \subseteq raced'[req'[a].event]
  <2>1. CASE a = c
    BY <1>3, <1>5, <1>6, <1>7, <2>1
  <2>2. CASE b = c
    BY <1>3, <1>5, <1>6, <1>7, <2>2, ConflictSymmetric
  <2>3. CASE a # c /\ b # c
    BY <1>3, <1>6, <1>7, <2>3 DEF Met, IInv, Serves, Request
  <2>4. QED BY <2>1, <2>2, <2>3
<1>8. Met'
  <2>1. \A r1, r2 : Conflict(r1, r2)' = Conflict(r1, r2)
    BY DEF Conflict
  <2>2. QED BY <1>7, <2>1 DEF Met
<1>9. QED BY <1>6, <1>8

\* A step that leaves the tables alone, after which nobody but c is newly about
\* to write.
LEMMA UndisturbedByReading ==
    ASSUME Undisturbed, IInv', Met', NEW c \in Containers, UNCHANGED tables,
           \A e \in Events : raced[e] \subseteq raced'[e],
           \A d \in Containers : d # c /\ pc'[d] = "write" => pc[d] = "write" /\ req'[d] = req[d],
           Decided(c)'
    PROVE  Undisturbed'
<1>1. UNCHANGED <<type, status, item, standing, contributions>>
  BY DEF tables, eventVars, itemVars, pledgeVars
<1>2. ItemsOnPledgeEvents' /\ PaidPledgeStands'
  BY <1>1 DEF Undisturbed, IInv, TypeOK, ItemsOnPledgeEvents, PaidPledgeStands, ItemsOf
<1>3. \A d \in Containers : d # c => Decided(d)'
  BY <1>1 DEF Undisturbed, IInv, Serves, Request, Decided, HasContribution, ItemsOf
<1>4. QED BY <1>2, <1>3 DEF Undisturbed

\* A handler that starts with its write has found what it needs in the event.
LEMMA ReceiveDecided ==
    ASSUME Undisturbed, NEW c \in Containers, Receive(c) PROVE Decided(c)'
<1>1. PICK r \in Requests :
        /\ Acceptable(r) /\ req' = [req EXCEPT ![c] = r] /\ Goto(c, FirstStage(r))
  BY DEF Receive
<1>2. r.event \in Events
  BY EventsAssumption DEF Request
<1>3. /\ req'[c] = r /\ pc'[c] = FirstStage(r)
      /\ UNCHANGED <<type, item>>
      /\ raced[r.event] \subseteq raced'[r.event]
  BY <1>1, <1>2, MetReceive DEF Receive, Goto, Undisturbed, IInv, TypeOK, tables, eventVars, itemVars
<1>4. (r.op = "record_contribution" /\ r.owner # NoMember) \/ r.op = "cancel_pledge" =>
        FirstStage(r) # "write"
  BY DEF FirstStage
<1>5. r.op = "add_items" => type[r.event] = "pledge"
  BY <1>1 DEF Acceptable
<1>6. r.op = "patch_event" /\ FirstStage(r) = "write" /\ r.type \notin {"absent", "pledge"} =>
        type[r.event] # "pledge"
  BY DEF FirstStage
<1>7. r.op = "patch_event" /\ FirstStage(r) = "write" /\ r.type \notin {"absent", "pledge"} =>
        ItemsOf(r.event) = {} \/ "type" \in raced[r.event]
  BY <1>2, <1>6 DEF Undisturbed, ItemsOnPledgeEvents
<1>8. QED BY <1>3, <1>4, <1>5, <1>7 DEF Decided, ItemsOf

\* A SELECT or an answer: who goes on to its write has just found what it needs.
LEMMA ReadDecided ==
    ASSUME IInv, NEW c \in Containers, Read(c) \/ Abort(c) PROVE Decided(c)' /\ UNCHANGED tables
<1>1. CASE Refuse(c)
  BY <1>1 DEF Refuse, Return, Goto, Decided, IInv, TypeOK
<1>2. CASE ~Refuse(c)
  <2>1. PICK stage : Proceed(c, stage)
    BY <1>2 DEF Read, Abort, ReadRows, ReadContributions, ReadItem, ReadActive, ReadExisting,
       ReadPledge, ReadRemaining, ReadPaid
  <2>2. /\ pc'[c] = stage /\ req' = req
        /\ UNCHANGED <<type, item, standing, contributions, raced, tables>>
    BY <2>1 DEF Proceed, Goto, tables, eventVars, itemVars, pledgeVars, IInv, TypeOK, Read, Abort,
       ReadRows, ReadContributions, ReadItem, ReadActive, ReadExisting, ReadPledge, ReadRemaining,
       ReadPaid, Refuse
  <2>3. Serves(c)
    BY DEF IInv
  <2>4. CASE ReadRows(c)
    BY <1>2, <2>2, <2>4 DEF ReadRows, Decided, HasItemsOrPledges, ItemsOf
  <2>5. CASE ReadContributions(c) \/ ReadActive(c) \/ ReadRemaining(c)
    BY <2>2, <2>3, <2>5 DEF ReadContributions, ReadActive, ReadRemaining, Decided, Serves, Sensible
  <2>6. CASE ReadItem(c) \/ ReadExisting(c)
    <3>1. stage # "write"
      BY <1>2, <2>2, <2>6 DEF ReadItem, ReadExisting, Proceed, Goto, IInv, TypeOK
    <3>2. QED BY <2>2, <3>1 DEF Decided
  <2>7. CASE ReadPledge(c)
    <3>1. /\ req[c].op \in {"update_pledge", "cancel_pledge", "record_contribution"}
          /\ req[c].owner \in ActivePledges(req[c].item)
          /\ req[c].op = "cancel_pledge" => stage = "paid"
      BY <1>2, <2>2, <2>3, <2>7 DEF ReadPledge, Serves, Sensible, Proceed, Goto, IInv, TypeOK
    <3>2. QED BY <2>2, <3>1 DEF Decided, ActivePledges
  <2>8. CASE ReadPaid(c)
    BY <1>2, <2>2, <2>3, <2>8 DEF ReadPaid, Decided, HasContribution, Serves, Sensible
  <2>9. QED
    BY <1>2, <2>4, <2>5, <2>6, <2>7, <2>8 DEF Read, Abort
<1>3. QED BY <1>1, <1>2 DEF Refuse

----------------------------------------------------------------------------
(* The steps that write.                                                   *)

\* A write after which the rows in question are what they were, or a conflict
\* with who goes by them is noted.
LEMMA UndisturbedByWriting ==
    ASSUME Undisturbed, IInv', Met', NEW c \in Containers, Write(c),
           ItemsOnPledgeEvents', PaidPledgeStands',
           \A d \in Containers : d # c /\ pc[d] = "write" => Decided(d)'
    PROVE  Undisturbed'
<1>1. \A d \in Containers : d # c /\ pc[d] # "write" => Decided(d)'
  BY RequestsStay DEF Decided, Undisturbed
<1>2. Decided(c)'
  <2>1. CASE pc'[c] = "write"
    <3>1. CreateEvent(c) \/ DeleteContribution(c)
      BY <2>1 DEF Write, PatchEvent, DeleteEvent, AddItems, PatchItem, DeleteItem, CreatePledge,
         UpdatePledge, CancelPledge, RecordContribution, Writes, Return, Goto, Undisturbed, IInv,
         TypeOK
    <3>2. pc' = pc
      BY <3>1 DEF CreateEvent, DeleteContribution
    <3>3. FALSE
      BY <2>1, <3>1, <3>2 DEF CreateEvent, DeleteContribution
    <3>4. QED BY <3>3
  <2>2. CASE pc'[c] # "write"
    BY <2>2 DEF Decided
  <2>3. QED BY <2>1, <2>2
<1>3. QED BY <1>1, <1>2 DEF Undisturbed

\* Who goes by the type or the pledge that c writes has met c.
LEMMA MetAtTheRow ==
    ASSUME Undisturbed, NEW c \in Containers, NEW d \in Containers, c # d,
           pc[c] # "idle", pc[d] # "idle", req[c].event = req[d].event
    PROVE  /\ req[c].op = "patch_event" /\ req[c].type # "absent" /\ req[d].op = "add_items" =>
                  "type" \in raced[req[d].event]
           /\ req[d].op = "patch_event" /\ req[d].type # "absent" /\ req[c].op = "add_items" =>
                  "type" \in raced[req[d].event]
           /\ /\ {req[c].op, req[d].op} = {"cancel_pledge", "record_contribution"}
              /\ req[c].owner = req[d].owner /\ req[c].item = req[d].item
              => "paid" \in raced[req[d].event]
<1>1. Conflict(req[c], req[d]) \subseteq raced[req[d].event]
  BY DEF Undisturbed, Met
<1>2. QED BY <1>1 DEF Conflict

\* The type is patched: of an event without items, or to what it takes.
LEMMA UndisturbedPatchEvent ==
    ASSUME Undisturbed, IInv', Met', NEW c \in Containers, PatchEvent(c) PROVE Undisturbed'
<1>1. PICK r : r = req[c]
  OBVIOUS
<1>2. /\ pc[c] = "write" /\ r.op = "patch_event" /\ Write(c)
      /\ type' = [type EXCEPT ![r.event] = IF r.type = "absent" THEN @ ELSE r.type]
      /\ UNCHANGED <<item, standing, contributions, raced>>
  BY <1>1 DEF PatchEvent, Writes, Write, itemVars, pledgeVars
<1>3. /\ r.event \in Events /\ Decided(c)
      /\ \A d \in Containers : d # c => req'[d] = req[d] /\ pc'[d] = pc[d]
  BY <1>1, <1>2 DEF Undisturbed, IInv, Serves, Request, PatchEvent, Writes, Return, Goto, TypeOK
<1>4. /\ r.type = "absent" => type' = type
      /\ r.type # "absent" => type'[r.event] = r.type
      /\ \A e \in Events : e # r.event => type'[e] = type[e]
      /\ \A e : ItemsOf(e)' = ItemsOf(e)
  BY <1>2, <1>3 DEF Undisturbed, IInv, TypeOK, ItemsOf
<1>5. r.type \notin {"absent", "pledge"} => ItemsOf(r.event) = {} \/ "type" \in raced[r.event]
  BY <1>1, <1>2, <1>3 DEF Decided
<1>6. ItemsOnPledgeEvents'
  BY <1>2, <1>3, <1>4, <1>5 DEF Undisturbed, ItemsOnPledgeEvents
<1>7. PaidPledgeStands'
  BY <1>2 DEF Undisturbed, PaidPledgeStands
<1>8. ASSUME NEW d \in Containers, d # c, pc[d] = "write" PROVE Decided(d)'
  <2>1. req[d].event \in Events
    BY <1>8 DEF Undisturbed, IInv, Serves, Request
  <2>2. req[d].op = "add_items" => type'[req[d].event] = "pledge" \/ "type" \in raced[req[d].event]
    BY <1>1, <1>2, <1>4, <1>8, <2>1, MetAtTheRow DEF Undisturbed, Decided
  <2>3. QED
    BY <1>2, <1>3, <1>8, <2>2 DEF Undisturbed, Decided, HasContribution, ItemsOf
<1>9. QED BY <1>2, <1>6, <1>7, <1>8, UndisturbedByWriting

\* Items are added: to a pledge event, unless its type was patched meanwhile.
LEMMA UndisturbedAddItems ==
    ASSUME Undisturbed, IInv', Met', NEW c \in Containers, AddItems(c) PROVE Undisturbed'
<1>1. PICK r : r = req[c]
  OBVIOUS
<1>2. /\ pc[c] = "write" /\ r.op = "add_items" /\ Write(c)
      /\ UNCHANGED <<type, standing, contributions, raced>>
      /\ \A i \in Items : item'[i] = "there" => item[i] = "there" \/ EventOf[i] = r.event
  BY <1>1 DEF AddItems, Writes, Write, eventVars, pledgeVars
<1>3. /\ r.event \in Events
      /\ type[r.event] = "pledge" \/ "type" \in raced[r.event]
      /\ \A d \in Containers : d # c => req'[d] = req[d] /\ pc'[d] = pc[d]
  <2>1. r.event \in Events /\ (type[r.event] = "pledge" \/ "type" \in raced[r.event])
    BY <1>1, <1>2 DEF Undisturbed, Decided, IInv, Serves, Request
  <2>2. Return(c) /\ req \in [Containers -> Request \cup {NoRequest}] /\ pc \in [Containers -> Stages]
    BY DEF AddItems, Writes, Undisturbed, IInv, TypeOK
  <2>3. QED BY <2>1, <2>2 DEF Return, Goto
<1>4. \A e \in Events : e # r.event => ItemsOf(e)' \subseteq ItemsOf(e)
  BY <1>2 DEF ItemsOf
<1>5. ItemsOnPledgeEvents'
  BY <1>2, <1>3, <1>4 DEF Undisturbed, ItemsOnPledgeEvents
<1>6. PaidPledgeStands'
  BY <1>2 DEF Undisturbed, PaidPledgeStands
<1>7. ASSUME NEW d \in Containers, d # c, pc[d] = "write" PROVE Decided(d)'
  <2>1. PICK q : q = req[d]
    OBVIOUS
  <2>2. q.event \in Events /\ req'[d] = q
    BY <1>3, <1>7, <2>1 DEF Undisturbed, IInv, Serves, Request
  <2>3. q.op = "patch_event" /\ q.type \notin {"absent", "pledge"} =>
          ItemsOf(q.event)' = {} \/ "type" \in raced[q.event]
    <3>1. CASE q.event = r.event
      BY <1>1, <1>2, <1>7, <2>1, <3>1, MetAtTheRow
    <3>2. CASE q.event # r.event
      BY <1>4, <1>7, <2>1, <2>2, <3>2 DEF Undisturbed, Decided
    <3>3. QED BY <3>1, <3>2
  <2>4. QED
    BY <1>2, <1>7, <2>1, <2>2, <2>3 DEF Undisturbed, Decided, HasContribution, ItemsOf
<1>8. QED BY <1>2, <1>5, <1>6, <1>7, UndisturbedByWriting

\* A pledge is cancelled: nothing was paid against it, unless it was meanwhile.
LEMMA UndisturbedCancelPledge ==
    ASSUME Undisturbed, IInv', Met', NEW c \in Containers, CancelPledge(c) PROVE Undisturbed'
<1>1. PICK r : r = req[c]
  OBVIOUS
<1>2. /\ pc[c] = "write" /\ r.op = "cancel_pledge" /\ Write(c)
      /\ standing' = [standing EXCEPT ![<<r.owner, r.item>>] = "cancelled"]
      /\ UNCHANGED <<type, item, contributions, raced>>
  BY <1>1 DEF CancelPledge, Writes, Write, eventVars, itemVars
<1>3. /\ EventOf[r.item] = r.event /\ r.owner \in Members
      /\ ~HasContribution(r.owner, r.item) \/ "paid" \in raced[r.event]
      /\ \A d \in Containers : d # c => req'[d] = req[d] /\ pc'[d] = pc[d]
  BY <1>1, <1>2 DEF Undisturbed, Decided, IInv, Serves, Found, PledgeFound, CancelPledge, Writes,
     Return, Goto, TypeOK
<1>4. \A m \in Members, i \in Items :
         <<m, i>> # <<r.owner, r.item>> => standing'[<<m, i>>] = standing[<<m, i>>]
  BY <1>2 DEF Undisturbed, IInv, TypeOK, Pledges
<1>5. ItemsOnPledgeEvents'
  BY <1>2 DEF Undisturbed, ItemsOnPledgeEvents, ItemsOf
<1>6. PaidPledgeStands'
  <2> SUFFICES ASSUME NEW x \in contributions, x.owner # NoMember, "paid" \notin raced[x.event]
               PROVE  standing'[<<x.owner, x.item>>] = "pledged"
    BY <1>2 DEF PaidPledgeStands
  <2>1. x.owner \in Members /\ x.item \in Items /\ x.event = EventOf[x.item]
    BY DEF Undisturbed, IInv, TypeOK, NoOrphans
  <2>2. <<x.owner, x.item>> # <<r.owner, r.item>>
    BY <1>3, <2>1 DEF HasContribution
  <2>3. QED BY <1>4, <2>1, <2>2 DEF Undisturbed, PaidPledgeStands
<1>7. ASSUME NEW d \in Containers, d # c, pc[d] = "write" PROVE Decided(d)'
  <2>1. PICK q : q = req[d]
    OBVIOUS
  <2>2. req'[d] = q
    BY <1>3, <1>7, <2>1
  <2>3. q.op = "record_contribution" /\ q.owner # NoMember =>
          standing'[<<q.owner, q.item>>] = "pledged" \/ "paid" \in raced[q.event]
    <3> SUFFICES ASSUME q.op = "record_contribution", q.owner # NoMember
                 PROVE  standing'[<<q.owner, q.item>>] = "pledged" \/ "paid" \in raced[q.event]
      OBVIOUS
    <3>1. EventOf[q.item] = q.event /\ q.owner \in Members /\ q.item \in Items
      BY <1>7, <2>1 DEF Undisturbed, IInv, Serves, Found, PledgeFound, Request
    <3>2. CASE q.owner = r.owner /\ q.item = r.item
      BY <1>1, <1>2, <1>3, <1>7, <2>1, <3>1, <3>2, MetAtTheRow
    <3>3. CASE ~(q.owner = r.owner /\ q.item = r.item)
      BY <1>4, <1>7, <2>1, <3>1, <3>3 DEF Undisturbed, Decided
    <3>4. QED BY <3>2, <3>3
  <2>4. QED
    BY <1>2, <1>7, <2>1, <2>2, <2>3 DEF Undisturbed, Decided, HasContribution, ItemsOf
<1>8. QED BY <1>2, <1>5, <1>6, <1>7, UndisturbedByWriting

\* A contribution is recorded: its pledge stands, unless it was cancelled meanwhile.
LEMMA UndisturbedRecordContribution ==
    ASSUME Undisturbed, IInv', Met', NEW c \in Containers, RecordContribution(c)
    PROVE  Undisturbed'
<1>1. PICK r : r = req[c]
  OBVIOUS
<1>2. /\ pc[c] = "write" /\ r.op = "record_contribution" /\ Write(c)
      /\ UNCHANGED <<type, item, standing, raced>>
  BY <1>1 DEF RecordContribution, Writes, Write, itemVars, pledgeVars, eventVars
<1>3. PICK id \in Contributions : contributions' = contributions \cup
         {[id |-> id, event |-> r.event, owner |-> r.owner, item |-> r.item]}
  BY <1>1 DEF RecordContribution
<1>4. /\ r.owner # NoMember =>
           /\ EventOf[r.item] = r.event
           /\ standing[<<r.owner, r.item>>] = "pledged" \/ "paid" \in raced[r.event]
      /\ \A d \in Containers : d # c => req'[d] = req[d] /\ pc'[d] = pc[d]
  BY <1>1, <1>2 DEF Undisturbed, Decided, IInv, Serves, Found, PledgeFound, RecordContribution,
     Writes, Return, Goto, TypeOK
<1>5. ItemsOnPledgeEvents'
  BY <1>2 DEF Undisturbed, ItemsOnPledgeEvents, ItemsOf
<1>6. PaidPledgeStands'
  BY <1>2, <1>3, <1>4 DEF Undisturbed, PaidPledgeStands
<1>7. ASSUME NEW d \in Containers, d # c, pc[d] = "write" PROVE Decided(d)'
  <2>1. PICK q : q = req[d]
    OBVIOUS
  <2>2. req'[d] = q
    BY <1>4, <1>7, <2>1
  <2>3. q.op = "cancel_pledge" => ~HasContribution(q.owner, q.item)' \/ "paid" \in raced[q.event]
    <3> SUFFICES ASSUME q.op = "cancel_pledge"
                 PROVE  ~HasContribution(q.owner, q.item)' \/ "paid" \in raced[q.event]
      OBVIOUS
    <3>1. EventOf[q.item] = q.event /\ q.owner \in Members
      BY <1>7, <2>1 DEF Undisturbed, IInv, Serves, Found, PledgeFound
    <3>2. CASE q.owner = r.owner /\ q.item = r.item
      BY <1>1, <1>2, <1>4, <1>7, <2>1, <3>1, <3>2, MetAtTheRow, EventsAssumption
    <3>3. CASE ~(q.owner = r.owner /\ q.item = r.item)
      <4>1. HasContribution(q.owner, q.item)' => HasContribution(q.owner, q.item)
        BY <1>3, <3>3 DEF HasContribution
      <4>2. QED BY <1>7, <2>1, <4>1 DEF Undisturbed, Decided
    <3>4. QED BY <3>2, <3>3
  <2>4. QED
    BY <1>2, <1>7, <2>1, <2>2, <2>3 DEF Undisturbed, Decided, HasContribution, ItemsOf
<1>8. QED BY <1>2, <1>5, <1>6, <1>7, UndisturbedByWriting

\* The other writes take items and contributions away, or make pledges stand.
LEMMA UndisturbedOtherWrites ==
    ASSUME Undisturbed, IInv', Met', NEW c \in Containers, Write(c),
           \/ DeleteEvent(c) \/ PatchItem(c) \/ DeleteItem(c)
           \/ CreatePledge(c) \/ UpdatePledge(c) \/ DeleteContribution(c)
    PROVE  Undisturbed'
<1>1. /\ UNCHANGED <<type, raced>>
      /\ contributions' \subseteq contributions
      /\ \A i \in Items : item'[i] = "there" => item[i] = "there"
      /\ \A d \in Containers : d # c => req'[d] = req[d] /\ pc'[d] = pc[d]
  BY DEF DeleteEvent, PatchItem, DeleteItem, CreatePledge, UpdatePledge, DeleteContribution, Writes,
     Return, Goto, eventVars, itemVars, pledgeVars, Undisturbed, IInv, TypeOK
<1>2. \A m, i : standing[<<m, i>>] = "pledged" => standing'[<<m, i>>] = "pledged"
  <2>1. CASE CreatePledge(c)
    <3>1. /\ standing' = [standing EXCEPT ![<<req[c].caller, req[c].item>>] = "pledged"]
          /\ standing \in [Pledges -> {"none", "pledged", "cancelled"}]
          /\ <<req[c].caller, req[c].item>> \in Pledges
      BY <2>1 DEF CreatePledge, Writes, Undisturbed, IInv, TypeOK, Serves, Request, Pledges
    <3>2. QED BY <3>1
  <2>2. CASE ~CreatePledge(c)
    BY <2>2 DEF DeleteEvent, PatchItem, DeleteItem, UpdatePledge, DeleteContribution, itemVars,
       pledgeVars
  <2>3. QED BY <2>1, <2>2
<1>3. \A e \in Events : ItemsOf(e)' \subseteq ItemsOf(e)
  BY <1>1 DEF ItemsOf
<1>4. ItemsOnPledgeEvents' /\ PaidPledgeStands'
  BY <1>1, <1>2, <1>3 DEF Undisturbed, ItemsOnPledgeEvents, PaidPledgeStands
<1>5. ASSUME NEW d \in Containers, d # c, pc[d] = "write" PROVE Decided(d)'
  <2>1. PICK q : q = req[d]
    OBVIOUS
  <2>2. req'[d] = q /\ q.event \in Events
    BY <1>1, <1>5, <2>1 DEF Undisturbed, IInv, Serves, Request
  <2>3. /\ ItemsOf(q.event)' \subseteq ItemsOf(q.event)
        /\ HasContribution(q.owner, q.item)' => HasContribution(q.owner, q.item)
    BY <1>1, <1>3, <2>2 DEF HasContribution
  <2>4. Decided(d)
    BY DEF Undisturbed
  <2>5. QED
    BY <1>1, <1>2, <1>5, <2>1, <2>2, <2>3, <2>4 DEF Decided, HasContribution, ItemsOf
<1>6. QED BY <1>4, <1>5, UndisturbedByWriting

\* A new event has no items, and nobody is at work on it.
LEMMA UndisturbedCreateEvent ==
    ASSUME Undisturbed, IInv', Met', NEW c \in Containers, CreateEvent(c) PROVE Undisturbed'
<1>1. PICK r \in Requests :
         status[r.event] = "none" /\ type' = [type EXCEPT ![r.event] = r.type]
  BY DEF CreateEvent
<1>2. UNCHANGED <<item, standing, contributions, pc, req, raced>> /\ Write(c)
  BY DEF CreateEvent, Write, itemVars, pledgeVars
<1>3. /\ r.event \in Events /\ ItemsOf(r.event) = {}
      /\ \A e \in Events : e # r.event => type'[e] = type[e]
      /\ \A e : ItemsOf(e)' = ItemsOf(e)
  BY <1>1, <1>2, EventsAssumption DEF Undisturbed, IInv, TypeOK, NoOrphans, ItemsOf, Request
<1>4. ItemsOnPledgeEvents' /\ PaidPledgeStands'
  BY <1>2, <1>3 DEF Undisturbed, ItemsOnPledgeEvents, PaidPledgeStands
<1>5. ASSUME NEW d \in Containers, d # c, pc[d] = "write" PROVE Decided(d)'
  <2>1. type'[req[d].event] = type[req[d].event]
    BY <1>1, <1>3, <1>5 DEF Undisturbed, IInv, Serves, Request
  <2>2. QED
    BY <1>2, <1>5, <2>1 DEF Undisturbed, Decided, HasContribution, ItemsOf
<1>6. QED BY <1>2, <1>4, <1>5, UndisturbedByWriting

\* One step per action.
LEMMA UndisturbedStep == Undisturbed /\ [Next]_vars => Undisturbed'
<1> SUFFICES ASSUME Undisturbed, [Next]_vars PROVE Undisturbed'
  OBVIOUS
<1>1. IInv /\ IInv'
  BY NextIInv DEF Undisturbed
<1>2. CASE UNCHANGED vars
  <2>1. UNCHANGED <<type, status, item, needed, standing, quantity, contributions, pc, req, raced>>
    BY <1>2 DEF vars, tables, eventVars, itemVars, pledgeVars
  <2>2. Met' /\ ItemsOnPledgeEvents' /\ PaidPledgeStands'
    BY <2>1 DEF Undisturbed, Met, Conflict, ItemsOnPledgeEvents, PaidPledgeStands, ItemsOf
  <2>3. \A d \in Containers : Decided(d)'
    BY <2>1 DEF Undisturbed, Decided, HasContribution, ItemsOf
  <2>4. QED BY <1>1, <2>2, <2>3 DEF Undisturbed
<1>3. ASSUME NEW c \in Containers, Receive(c) PROVE Undisturbed'
  <2>1. Met' /\ \A e \in Events : raced[e] \subseteq raced'[e]
    BY <1>1, <1>3, MetReceive DEF Undisturbed
  <2>2. UNCHANGED tables /\ \A d \in Containers : d # c => pc'[d] = pc[d] /\ req'[d] = req[d]
    BY <1>1, <1>3 DEF Receive, Goto, IInv, TypeOK
  <2>3. Decided(c)'
    BY <1>3, ReceiveDecided
  <2>4. QED BY <1>1, <2>1, <2>2, <2>3, UndisturbedByReading
<1>4. ASSUME NEW c \in Containers, Read(c) \/ Write(c) \/ Abort(c) PROVE Undisturbed'
  <2>1. /\ raced' = raced
        /\ \A d \in Containers : pc'[d] # "idle" => pc[d] # "idle" /\ req'[d] = req[d]
        /\ \A d \in Containers : d # c => pc'[d] = pc[d]
    BY <1>1, <1>4, RequestsStay
  <2>2. Met'
    <3>1. \A r1, r2 : Conflict(r1, r2)' = Conflict(r1, r2)
      BY DEF Conflict
    <3>2. QED BY <2>1, <3>1 DEF Undisturbed, Met
  <2>3. CASE Read(c) \/ Abort(c)
    <3>1. Decided(c)' /\ UNCHANGED tables
      BY <1>1, <2>3, ReadDecided
    <3>2. QED BY <1>1, <2>1, <2>2, <3>1, UndisturbedByReading
  <2>4. CASE Write(c)
    BY <1>1, <2>2, <2>4, UndisturbedCreateEvent, UndisturbedPatchEvent, UndisturbedAddItems,
       UndisturbedCancelPledge, UndisturbedRecordContribution, UndisturbedOtherWrites DEF Write
  <2>5. QED BY <1>4, <2>3, <2>4
<1>5. QED BY <1>2, <1>3, <1>4 DEF Next

\* What the handlers go by holds in every behaviour, but for the noted conflicts.
LEMMA UndisturbedHolds == Spec => []Undisturbed
<1>1. Init => Undisturbed
  <2> SUFFICES ASSUME Init PROVE Undisturbed
    OBVIOUS
  <2>1. Met /\ (\A c \in Containers : Decided(c)) /\ ItemsOnPledgeEvents /\ PaidPledgeStands
    BY DEF Init, Met, Decided, ItemsOnPledgeEvents, PaidPledgeStands, ItemsOf
  <2>2. QED BY <2>1, InitIInv DEF Undisturbed
<1>2. QED BY <1>1, UndisturbedStep, PTL DEF Spec

\* add_items and patch_event look at the type and at the items before they write:
\* for any number of requests, only if the two met can an event of another type
\* have items.
THEOREM ItemsOnPledgeEventsHolds == Spec => []ItemsOnPledgeEvents
<1>1. Undisturbed => ItemsOnPledgeEvents
  BY DEF Undisturbed
<1>2. QED BY <1>1, UndisturbedHolds, PTL

\* A pledge with a contribution stands, unless cancel_pledge and
\* record_contribution met at it.
THEOREM PaidPledgeStandsHolds == Spec => []PaidPledgeStands
<1>1. Undisturbed => PaidPledgeStands
  BY DEF Undisturbed
<1>2. QED BY <1>1, UndisturbedHolds, PTL

----------------------------------------------------------------------------
(* What is pledged of an item.                                             *)

\* What is left of n when the members in A have taken their shares w.
Left(n, w, A) == n - SumFunctionOnSet(w, A)

\* Shares that are whole numbers leave a whole number.
LEMMA LeftType ==
    ASSUME NEW n \in Int, NEW w, NEW A, IsFiniteSet(A), \A x \in A : w[x] \in Int
    PROVE  Left(n, w, A) \in Int
  BY SumType DEF Left

\* Nobody takes anything.
LEMMA LeftAll == ASSUME NEW n \in Int, NEW w PROVE Left(n, w, {}) = n
<1>1. SumFunctionOnSet(w, {}) = 0
  BY SumEmpty
<1>2. QED BY <1>1 DEF Left

Whole(w, A) == IsFiniteSet(A) /\ \A x \in A : w[x] \in Int

Without(A, y) == A \ {y}

\* Somebody gives a share back.
LEMMA LeftWithout ==
    ASSUME NEW n \in Int, NEW w, NEW A, Whole(w, A), NEW y \in A
    PROVE  Left(n, w, Without(A, y)) = Left(n, w, A) + w[y]
<1>1. IsFiniteSet(A) /\ \A x \in A : w[x] \in Int
  BY DEF Whole
<1>2. SumFunctionOnSet(w, Without(A, y)) = SumFunctionOnSet(w, A) - w[y]
  BY <1>1, SumRemove DEF Without
<1>3. SumFunctionOnSet(w, A) \in Int /\ w[y] \in Int
  BY <1>1, SumType
<1>4. QED BY <1>2, <1>3 DEF Left

\* Only the shares of the members in A count.
LEMMA LeftSame ==
    ASSUME NEW n, NEW w, NEW v, NEW A, IsFiniteSet(A), \A x \in A : w[x] \in Int /\ v[x] = w[x]
    PROVE  Left(n, v, A) = Left(n, w, A)
  BY SumCongruent DEF Left

Shares(i) == [k \in Members |-> quantity[<<k, i>>]]

\* The members with active pledges, and their shares of an item.
LEMMA SharesTaken ==
    ASSUME NEW i \in Items, NEW A \in SUBSET Members,
           \A x \in A : quantity[<<x, i>>] \in Nat
    PROVE  IsFiniteSet(A) /\ \A x \in A : Shares(i)[x] \in Nat
<1>1. IsFiniteSet(A)
  BY EventsAssumption, FS_Subset
<1>2. QED BY <1>1 DEF Shares

\* What a handler that is about to write has found of the item of its request
\* still holds, or a conflict over the quantities is noted: patch_item, that
\* there are no active pledges; create_pledge and update_pledge, that there is
\* enough left for the quantity, give or take what the column and float() are
\* off.  A quantity that is NaN or below zero, its own or beside it, promises
\* nothing, nor does a pledge that the UNIQUE constraint forbids.
UnsoundBeside(m, i) == \E k \in Members \ {m} : quantity[<<k, i>>] \notin Nat

Enough(r, m) == InColumn(r.quantity) <= Remaining(r.item, m) + 2 * Ulp

Sound(r) == needed[r.item] \in Nat /\ InColumn(r.quantity) \in Nat

Affords(r) ==
    \/ "quantity" \in raced[r.event]
    \/ /\ r.op = "patch_item" => ActivePledges(r.item) = {}
       /\ r.op = "create_pledge" /\ Sound(r) =>
            \/ r.caller \in PledgesOf(r.item) \/ UnsoundBeside(r.caller, r.item)
            \/ Enough(r, NoMember)
       /\ r.op = "update_pledge" /\ Sound(r) =>
            \/ ActivePledges(r.item) = {} \/ UnsoundBeside(r.owner, r.item)
            \/ Enough(r, r.owner)

\* What PledgedWithinNeeded says of an item.
Within(i) ==
    /\ item[i] = "there" /\ needed[i] \in Nat
    /\ "quantity" \notin raced[EventOf[i]]
    /\ \A m \in Members : quantity[<<m, i>>] \in Nat
    => Remaining(i, NoMember) >= -2 * Ulp

Affordable ==
    /\ \A c \in Containers : pc[c] = "write" => Affords(req[c])
    /\ \A i \in Items : Within(i)

\* The row of an item and those of its pledges stay as they are.
SameRows(i) ==
    /\ needed'[i] = needed[i]
    /\ \A m \in Members : standing'[<<m, i>>] = standing[<<m, i>>]
                          /\ quantity'[<<m, i>>] = quantity[<<m, i>>]

\* Where the rows are the same the same is pledged and the same remains.
LEMMA SameRemaining ==
    ASSUME NEW i, SameRows(i)
    PROVE  /\ PledgesOf(i)' = PledgesOf(i) /\ ActivePledges(i)' = ActivePledges(i)
           /\ \A m : Remaining(i, m)' = Remaining(i, m)
           /\ \A m : UnsoundBeside(m, i)' <=> UnsoundBeside(m, i)
<1>1. PledgesOf(i)' = PledgesOf(i) /\ ActivePledges(i)' = ActivePledges(i)
  BY DEF SameRows, PledgesOf, ActivePledges
<1>2. [k \in Members |-> quantity'[<<k, i>>]] = [k \in Members |-> quantity[<<k, i>>]]
  BY DEF SameRows
<1>3. \A m : Remaining(i, m)' = Remaining(i, m)
  BY <1>1, <1>2 DEF SameRows, Remaining
<1>4. \A m : UnsoundBeside(m, i)' <=> UnsoundBeside(m, i)
  BY DEF SameRows, UnsoundBeside
<1>5. QED BY <1>1, <1>3, <1>4

\* A step of container c that changes rows of the items in changed only: who is
\* about to write to one of these, c itself, and these items are to be looked at.
LEMMA AffordableFrame ==
    ASSUME Undisturbed, Affordable, NEW c \in Containers, NEW changed \in SUBSET Items,
           \A e \in Events : raced[e] \subseteq raced'[e],
           \A d \in Containers : d # c /\ pc'[d] = "write" => pc[d] = "write" /\ req'[d] = req[d],
           \A i \in Items \ changed : SameRows(i) /\ (item'[i] = "there" => item[i] = "there"),
           \A d \in Containers :
              pc'[d] = "write" /\ (d = c \/ req[d].item \in changed) => Affords(req[d])',
           \A i \in changed : Within(i)'
    PROVE  Affordable'
<1>1. ASSUME NEW d \in Containers, d # c, pc'[d] = "write", req[d].item \notin changed
      PROVE  Affords(req[d])'
  <2>1. PICK q : q = req[d]
    OBVIOUS
  <2>2. q.event \in Events /\ q.item \in Items /\ req'[d] = q /\ Affords(q)
    BY <1>1, <2>1 DEF Undisturbed, IInv, Serves, Request, Affordable
  <2>3. /\ PledgesOf(q.item)' = PledgesOf(q.item) /\ ActivePledges(q.item)' = ActivePledges(q.item)
        /\ \A m : Remaining(q.item, m)' = Remaining(q.item, m)
        /\ \A m : UnsoundBeside(m, q.item)' <=> UnsoundBeside(m, q.item)
        /\ needed'[q.item] = needed[q.item]
    BY <1>1, <2>1, <2>2, SameRemaining DEF SameRows
  <2>4. Affords(q)'
    BY <2>2, <2>3 DEF Affords, Enough, Sound
  <2>5. QED BY <2>2, <2>4
<1>2. ASSUME NEW i \in Items \ changed PROVE Within(i)'
  <2>1. /\ needed'[i] = needed[i] /\ (item'[i] = "there" => item[i] = "there")
        /\ \A m \in Members : quantity'[<<m, i>>] = quantity[<<m, i>>]
        /\ Remaining(i, NoMember)' = Remaining(i, NoMember)
    BY <1>2, SameRemaining DEF SameRows
  <2>2. raced[EventOf[i]] \subseteq raced'[EventOf[i]]
    BY EventsAssumption
  <2>3. Within(i)
    BY DEF Affordable
  <2>4. QED BY <2>1, <2>2, <2>3 DEF Within
<1>3. QED BY <1>1, <1>2 DEF Affordable

\* Whoever is about to write to the same item has met c, if one of the two
\* pledges and the other pledges too, or one creates a pledge and the other
\* patches the item.
LEMMA MetAtTheItem ==
    ASSUME Undisturbed, NEW c \in Containers, NEW d \in Containers, c # d,
           pc[c] = "write", pc[d] = "write", req[c].item = req[d].item,
           \/ {req[c].op, req[d].op} \subseteq {"create_pledge", "update_pledge"}
           \/ {req[c].op, req[d].op} = {"create_pledge", "patch_item"}
    PROVE  "quantity" \in raced[req[d].event]
<1>1. req[c].event = EventOf[req[c].item] /\ req[d].event = EventOf[req[d].item]
  BY DEF Undisturbed, IInv, Serves, Found, ItemFound, PledgeFound
<1>2. Conflict(req[c], req[d]) \subseteq raced[req[d].event]
  BY <1>1 DEF Undisturbed, Met
<1>3. QED BY <1>2 DEF Conflict

\* A pledge is created: of no more than remains, unless the quantity that
\* remains has changed meanwhile.
LEMMA AffordableCreatePledge ==
    ASSUME Undisturbed, Affordable, NEW c \in Containers, CreatePledge(c) PROVE Affordable'
<1>1. PICK r, i, k, x : r = req[c] /\ i = r.item /\ k = r.caller /\ x = InColumn(r.quantity)
  OBVIOUS
<1> DEFINE A == ActivePledges(i)
           w == [m \in Members |-> quantity[<<m, i>>]]
           v == [m \in Members |-> quantity'[<<m, i>>]]
<1>2. /\ pc[c] = "write" /\ r.op = "create_pledge" /\ Return(c) /\ UNCHANGED raced
      /\ k \notin PledgesOf(i)
      /\ standing' = [standing EXCEPT ![<<k, i>>] = "pledged"]
      /\ quantity' = [quantity EXCEPT ![<<k, i>>] = x]
      /\ UNCHANGED <<item, needed>>
  BY <1>1 DEF CreatePledge, Writes, eventVars, itemVars
<1>3. /\ r \in Request /\ i \in Items /\ k \in Members
      /\ r.event = EventOf[i] /\ Affords(r)
  BY <1>1, <1>2 DEF Undisturbed, IInv, Serves, Found, ItemFound, Request, Affordable
<1>4. /\ \A d \in Containers : pc'[d] = IF d = c THEN "idle" ELSE pc[d]
      /\ \A d \in Containers : d # c => req'[d] = req[d]
  BY <1>2 DEF Return, Goto, Undisturbed, IInv, TypeOK
<1>5. \A m \in Members, j \in Items :
        /\ standing'[<<m, j>>] = IF m = k /\ j = i THEN "pledged" ELSE standing[<<m, j>>]
        /\ quantity'[<<m, j>>] = IF m = k /\ j = i THEN x ELSE quantity[<<m, j>>]
  BY <1>2 DEF Undisturbed, IInv, TypeOK, Pledges
<1>6. \A j \in Items \ {i} : SameRows(j) /\ (item'[j] = "there" => item[j] = "there")
  BY <1>2, <1>5 DEF SameRows
<1>7. ASSUME NEW d \in Containers, pc'[d] = "write", d = c \/ req[d].item = i
      PROVE  Affords(req[d])'
  <2>1. d # c /\ pc[d] = "write" /\ req'[d] = req[d]
    BY <1>4, <1>7
  <2>2. req[d].op \in {"create_pledge", "update_pledge", "patch_item"} =>
          "quantity" \in raced[req[d].event]
    BY <1>1, <1>2, <1>7, <2>1, MetAtTheItem
  <2>3. QED BY <1>2, <2>1, <2>2 DEF Affords
<1>8. Within(i)'
  <2> SUFFICES ASSUME "quantity" \notin raced[EventOf[i]], needed[i] \in Nat,
                      \A m \in Members : v[m] \in Nat
               PROVE  Remaining(i, NoMember)' >= -2 * Ulp
    BY <1>2 DEF Within
  <2>1. A \in SUBSET Members /\ k \notin A /\ A \ {NoMember} = A
    BY <1>2, EventsAssumption DEF ActivePledges, PledgesOf
  <2>2. \A m \in Members \ {k} : quantity[<<m, i>>] = v[m]
    BY <1>3, <1>5
  <2>3. IsFiniteSet(A) /\ \A m \in A : w[m] \in Nat
    BY <1>3, <2>1, <2>2, SharesTaken DEF Shares
  <2>4. /\ IsFiniteSet(A \cup {k}) /\ \A m \in A : v[m] = w[m]
        /\ v[k] = x /\ x \in Nat
    BY <1>3, <1>5, <2>1, <2>2, <2>3, FS_AddElement
  <2>5. ~UnsoundBeside(k, i)
    BY <2>2 DEF UnsoundBeside
  <2>6. x <= Left(needed[i], w, A) + 2 * Ulp
    BY <1>1, <1>2, <1>3, <2>1, <2>4, <2>5 DEF Affords, Enough, Sound, Remaining, Left
  <2>7. ActivePledges(i)' = A \cup {k} /\ NoMember \notin A \cup {k}
    BY <1>3, <1>5, <2>1, EventsAssumption DEF ActivePledges
  <2>8. Remaining(i, NoMember)' = Left(needed[i], v, A \cup {k})
    BY <1>2, <2>7 DEF Remaining, Left
  <2>9. (A \cup {k}) \ {k} = A
    BY <2>1
  <2> HIDE DEF A, w, v
  <2>10. Left(needed[i], v, A) = Left(needed[i], v, A \cup {k}) + x
    <3>1. PICK n, u, B : n = needed[i] /\ u = v /\ B = A \cup {k}
      OBVIOUS
    <3>2. Whole(u, B) /\ k \in B /\ n \in Int
      BY <2>3, <2>4, <3>1 DEF Whole
    <3>3. Left(n, u, Without(B, k)) = Left(n, u, B) + u[k]
      BY <3>2, LeftWithout
    <3>4. Without(B, k) = A
      BY <2>9, <3>1 DEF Without
    <3>5. QED BY <2>4, <3>1, <3>3, <3>4
  <2>11. Left(needed[i], v, A) = Left(needed[i], w, A)
    BY <2>3, <2>4, LeftSame
  <2>12. Left(needed[i], w, A) \in Int /\ Left(needed[i], v, A \cup {k}) \in Int
    BY <2>3, <2>4, LeftType
  <2>13. QED BY <2>4, <2>6, <2>8, <2>10, <2>11, <2>12, QuantityAssumption
<1>9. QED
  <2>1. /\ {i} \in SUBSET Items
        /\ \A e \in Events : raced[e] \subseteq raced'[e]
        /\ \A d \in Containers : d # c /\ pc'[d] = "write" => pc[d] = "write" /\ req'[d] = req[d]
    BY <1>2, <1>3, <1>4
  <2>2. /\ \A d \in Containers :
             pc'[d] = "write" /\ (d = c \/ req[d].item \in {i}) => Affords(req[d])'
        /\ \A j \in {i} : Within(j)'
    BY <1>7, <1>8
  <2>3. QED BY <1>6, <2>1, <2>2, AffordableFrame

\* The quantity of a pledge is updated: to no more than remains without it,
\* unless that has changed meanwhile.
LEMMA AffordableUpdatePledge ==
    ASSUME Undisturbed, Affordable, NEW c \in Containers, UpdatePledge(c) PROVE Affordable'
<1>1. PICK r, i, k, x : r = req[c] /\ i = r.item /\ k = r.owner /\ x = InColumn(r.quantity)
  OBVIOUS
<1> DEFINE A == ActivePledges(i)
           w == [m \in Members |-> quantity[<<m, i>>]]
           v == [m \in Members |-> quantity'[<<m, i>>]]
<1>2. /\ pc[c] = "write" /\ r.op = "update_pledge" /\ Return(c) /\ UNCHANGED raced
      /\ quantity' = [quantity EXCEPT ![<<k, i>>] = x]
      /\ UNCHANGED <<item, needed, standing>>
  BY <1>1 DEF UpdatePledge, Writes, eventVars, itemVars
<1>3. /\ r \in Request /\ i \in Items /\ k \in Members
      /\ r.event = EventOf[i] /\ Affords(r)
  BY <1>1, <1>2 DEF Undisturbed, IInv, Serves, Found, PledgeFound, Request, Affordable
<1>4. /\ \A d \in Containers : pc'[d] = IF d = c THEN "idle" ELSE pc[d]
      /\ \A d \in Containers : d # c => req'[d] = req[d]
  BY <1>2 DEF Return, Goto, Undisturbed, IInv, TypeOK
<1>5. \A m \in Members, j \in Items :
        /\ quantity'[<<m, j>>] = IF m = k /\ j = i THEN x ELSE quantity[<<m, j>>]
  BY <1>2 DEF Undisturbed, IInv, TypeOK, Pledges
<1>6. \A j \in Items \ {i} : SameRows(j) /\ (item'[j] = "there" => item[j] = "there")
  BY <1>2, <1>5 DEF SameRows
<1>7. ASSUME NEW d \in Containers, pc'[d] = "write", d = c \/ req[d].item = i
      PROVE  Affords(req[d])'
  <2>1. d # c /\ pc[d] = "write" /\ req'[d] = req[d]
    BY <1>4, <1>7
  <2>2. req[d].op \in {"create_pledge", "update_pledge"} => "quantity" \in raced[req[d].event]
    BY <1>1, <1>2, <1>7, <2>1, MetAtTheItem
  <2>3. Affords(req[d]) /\ ActivePledges(req[d].item)' = ActivePledges(req[d].item)
    BY <1>2, <2>1 DEF Affordable, ActivePledges
  <2>4. QED BY <1>2, <2>1, <2>2, <2>3 DEF Affords
<1>8. Within(i)'
  <2> SUFFICES ASSUME "quantity" \notin raced[EventOf[i]], needed[i] \in Nat,
                      \A m \in Members : v[m] \in Nat
               PROVE  Remaining(i, NoMember)' >= -2 * Ulp
    BY <1>2 DEF Within
  <2>1. A \in SUBSET Members /\ A \ {k} \in SUBSET Members /\ A \ {NoMember} = A
    BY EventsAssumption DEF ActivePledges
  <2>2. \A m \in Members \ {k} : quantity[<<m, i>>] = v[m]
    BY <1>3, <1>5
  <2>3. IsFiniteSet(A) /\ IsFiniteSet(A \ {k}) /\ \A m \in A \ {k} : w[m] \in Nat
    BY <1>3, <2>1, <2>2, SharesTaken, EventsAssumption, FS_Subset DEF Shares
  <2>4. /\ \A m \in A : v[m] \in Nat
        /\ \A m \in A \ {k} : v[m] = w[m]
        /\ v[k] = x /\ x \in Nat
    BY <1>3, <1>5, <2>1
  <2>5. ~UnsoundBeside(k, i)
    BY <2>2 DEF UnsoundBeside
  <2>6. A = {} \/ x <= Left(needed[i], w, A \ {k}) + 2 * Ulp
    BY <1>1, <1>2, <1>3, <2>4, <2>5 DEF Affords, Enough, Sound, Remaining, Left
  <2>7. Remaining(i, NoMember)' = Left(needed[i], v, A)
    BY <1>2, <2>1 DEF Remaining, Left, ActivePledges
  <2> HIDE DEF A, w, v
  <2>8. Left(needed[i], v, A \ {k}) = Left(needed[i], w, A \ {k})
    BY <2>3, <2>4, LeftSame
  <2>9. Left(needed[i], v, A) \in Int /\ Left(needed[i], v, A \ {k}) \in Int
    BY <2>3, <2>4, LeftType
  <2>10. CASE A = {}
    BY <2>7, <2>10, LeftAll, QuantityAssumption
  <2>11. CASE k \in A
    <3>1. PICK n, u, B : n = needed[i] /\ u = v /\ B = A
      OBVIOUS
    <3>2. Left(n, u, Without(B, k)) = Left(n, u, B) + u[k]
      <4>1. k \in B /\ n \in Int /\ Whole(u, B)
        BY <2>3, <2>4, <2>11, <3>1 DEF Whole
      <4>2. QED BY <4>1, LeftWithout
    <3>3. Left(needed[i], v, A \ {k}) = Left(needed[i], v, A) + x
      BY <2>4, <3>1, <3>2 DEF Without
    <3>4. QED BY <2>4, <2>6, <2>7, <2>8, <2>9, <2>11, <3>3, QuantityAssumption
  <2>12. CASE A # {} /\ k \notin A
    <3>1. A \ {k} = A
      BY <2>12
    <3>2. x <= Left(needed[i], v, A) + 2 * Ulp
      BY <2>6, <2>8, <2>12, <3>1, Zenon
    <3>3. QED BY <2>4, <2>7, <2>9, <3>2, QuantityAssumption
  <2>13. QED BY <2>10, <2>11, <2>12
<1>9. QED
  <2>1. /\ {i} \in SUBSET Items
        /\ \A e \in Events : raced[e] \subseteq raced'[e]
        /\ \A d \in Containers : d # c /\ pc'[d] = "write" => pc[d] = "write" /\ req'[d] = req[d]
    BY <1>2, <1>3, <1>4
  <2>2. /\ \A d \in Containers :
             pc'[d] = "write" /\ (d = c \/ req[d].item \in {i}) => Affords(req[d])'
        /\ \A j \in {i} : Within(j)'
    BY <1>7, <1>8
  <2>3. QED BY <1>6, <2>1, <2>2, AffordableFrame

\* A pledge is cancelled: more remains.
LEMMA AffordableCancelPledge ==
    ASSUME Undisturbed, Affordable, NEW c \in Containers, CancelPledge(c) PROVE Affordable'
<1>1. PICK r, i, k : r = req[c] /\ i = r.item /\ k = r.owner
  OBVIOUS
<1> DEFINE A == ActivePledges(i)
           w == [m \in Members |-> quantity[<<m, i>>]]
<1>2. /\ pc[c] = "write" /\ r.op = "cancel_pledge" /\ Return(c) /\ UNCHANGED raced
      /\ standing' = [standing EXCEPT ![<<k, i>>] = "cancelled"]
      /\ UNCHANGED <<item, needed, quantity>>
  BY <1>1 DEF CancelPledge, Writes, eventVars, itemVars
<1>3. /\ r \in Request /\ i \in Items /\ k \in Members
      /\ standing[<<k, i>>] # "none"
  BY <1>1, <1>2 DEF Undisturbed, IInv, Serves, Found, PledgeFound, Request
<1>4. /\ \A d \in Containers : pc'[d] = IF d = c THEN "idle" ELSE pc[d]
      /\ \A d \in Containers : d # c => req'[d] = req[d]
  BY <1>2 DEF Return, Goto, Undisturbed, IInv, TypeOK
<1>5. \A m \in Members, j \in Items :
        standing'[<<m, j>>] = IF m = k /\ j = i THEN "cancelled" ELSE standing[<<m, j>>]
  BY <1>2 DEF Undisturbed, IInv, TypeOK, Pledges
<1>6. \A j \in Items \ {i} : SameRows(j) /\ (item'[j] = "there" => item[j] = "there")
  BY <1>2, <1>5 DEF SameRows
<1>7. /\ ActivePledges(i)' = A \ {k} /\ PledgesOf(i)' = PledgesOf(i)
      /\ \A m : UnsoundBeside(m, i)' <=> UnsoundBeside(m, i)
  BY <1>2, <1>3, <1>5 DEF ActivePledges, PledgesOf, UnsoundBeside
<1>8. ASSUME NEW m, needed[i] \in Nat, \A l \in A \ {m} : quantity[<<l, i>>] \in Nat
      PROVE  /\ Remaining(i, m) \in Int /\ Remaining(i, m)' \in Int
             /\ Remaining(i, m)' >= Remaining(i, m)
  <2>1. /\ Remaining(i, m) = Left(needed[i], w, A \ {m})
        /\ Remaining(i, m)' = Left(needed[i], w, (A \ {m}) \ {k})
    <3>1. (A \ {k}) \ {m} = (A \ {m}) \ {k}
      OBVIOUS
    <3>2. [l \in Members |-> quantity'[<<l, i>>]] = w
      BY <1>2
    <3>3. Remaining(i, m)' = needed[i] - SumFunctionOnSet(w, (A \ {k}) \ {m})
      BY <1>2, <1>7, <3>2 DEF Remaining
    <3>4. QED BY <3>1, <3>3 DEF Remaining, Left
  <2>2. A \ {m} \in SUBSET Members /\ (A \ {m}) \ {k} \in SUBSET Members
    BY DEF ActivePledges
  <2>3. IsFiniteSet(A \ {m}) /\ \A l \in A \ {m} : w[l] \in Nat
    BY <1>3, <1>8, <2>2, SharesTaken DEF Shares
  <2>4. IsFiniteSet((A \ {m}) \ {k})
    BY <2>2, EventsAssumption, FS_Subset
  <2> HIDE DEF A, w
  <2>5. Left(needed[i], w, A \ {m}) \in Int /\ Left(needed[i], w, (A \ {m}) \ {k}) \in Int
    BY <1>8, <2>3, <2>4, LeftType
  <2>6. CASE k \in A \ {m}
    <3>1. PICK n, u, B : n = needed[i] /\ u = w /\ B = A \ {m}
      OBVIOUS
    <3>2. Left(n, u, Without(B, k)) = Left(n, u, B) + u[k]
      <4>1. k \in B /\ n \in Int
        BY <1>8, <2>6, <3>1
      <4>2. Whole(u, B)
        BY <2>3, <3>1 DEF Whole
      <4>3. QED BY <4>1, <4>2, LeftWithout
    <3>3. w[k] \in Nat
      BY <2>3, <2>6
    <3>4. QED BY <2>1, <2>5, <3>1, <3>2, <3>3 DEF Without
  <2>7. CASE k \notin A \ {m}
    <3>1. (A \ {m}) \ {k} = A \ {m}
      BY <2>7
    <3>2. QED BY <2>1, <2>5, <3>1
  <2>8. QED BY <2>6, <2>7
<1>9. ASSUME NEW d \in Containers, d # c, pc[d] = "write", req[d].item = i
      PROVE  Affords(req[d])'
  <2>1. PICK q, x : q = req[d] /\ x = InColumn(q.quantity)
    OBVIOUS
  <2>2. /\ Affords(q) /\ q.item = i /\ req'[d] = q
        /\ q.caller \in Members /\ q.owner \in Members \cup {NoMember}
    BY <1>4, <1>9, <2>1 DEF Undisturbed, IInv, Serves, Request, Affordable
  <2>3. CASE "quantity" \in raced[q.event]
    BY <1>2, <2>1, <2>2, <2>3 DEF Affords
  <2>4. CASE "quantity" \notin raced[q.event]
    <3>1. q.op = "patch_item" => ActivePledges(i)' = {}
      BY <1>7, <2>2, <2>4 DEF Affords
    <3>2. ASSUME q.op = "create_pledge", Sound(q), q.caller \notin PledgesOf(i),
                 ~UnsoundBeside(q.caller, i)
          PROVE  x <= Remaining(i, NoMember)' + 2 * Ulp
      <4>1. \A l \in A \ {NoMember} : quantity[<<l, i>>] \in Nat
        BY <3>2 DEF UnsoundBeside, ActivePledges, PledgesOf
      <4>2. needed[i] \in Nat /\ x \in Nat
        BY <2>1, <2>2, <3>2 DEF Sound
      <4>3. x <= Remaining(i, NoMember) + 2 * Ulp
        BY <2>1, <2>2, <2>4, <3>2 DEF Affords, Enough
      <4>4. QED BY <1>8, <4>1, <4>2, <4>3, QuantityAssumption
    <3>3. ASSUME q.op = "update_pledge", Sound(q), ActivePledges(i) # {},
                 ~UnsoundBeside(q.owner, i)
          PROVE  x <= Remaining(i, q.owner)' + 2 * Ulp
      <4>1. \A l \in A \ {q.owner} : quantity[<<l, i>>] \in Nat
        BY <3>3 DEF UnsoundBeside, ActivePledges
      <4>2. needed[i] \in Nat /\ x \in Nat
        BY <2>1, <2>2, <3>3 DEF Sound
      <4>3. x <= Remaining(i, q.owner) + 2 * Ulp
        BY <2>1, <2>2, <2>4, <3>3 DEF Affords, Enough
      <4>4. /\ Remaining(i, q.owner) \in Int /\ Remaining(i, q.owner)' \in Int
            /\ Remaining(i, q.owner)' >= Remaining(i, q.owner)
        BY <1>8, <4>1, <4>2
      <4>5. QED BY <4>2, <4>3, <4>4, QuantityAssumption
    <3>4. Sound(q)' <=> Sound(q)
      BY <1>2 DEF Sound
    <3>5. Affords(q)'
      BY <1>7, <2>1, <2>2, <3>1, <3>2, <3>3, <3>4 DEF Affords, Enough
    <3>6. QED BY <2>2, <3>5
  <2>5. QED BY <2>3, <2>4
<1>10. Within(i)'
  <2> SUFFICES ASSUME item[i] = "there", needed[i] \in Nat, "quantity" \notin raced[EventOf[i]],
                      \A m \in Members : quantity[<<m, i>>] \in Nat
               PROVE  Remaining(i, NoMember)' >= -2 * Ulp
    BY <1>2 DEF Within
  <2>1. Remaining(i, NoMember) >= -2 * Ulp
    BY <1>3 DEF Affordable, Within
  <2>2. \A l \in A \ {NoMember} : quantity[<<l, i>>] \in Nat
    BY DEF ActivePledges
  <2>3. QED BY <1>8, <2>1, <2>2, QuantityAssumption
<1>11. QED
  <2>1. /\ {i} \in SUBSET Items
        /\ \A e \in Events : raced[e] \subseteq raced'[e]
        /\ \A d \in Containers : d # c /\ pc'[d] = "write" => pc[d] = "write" /\ req'[d] = req[d]
    BY <1>2, <1>3, <1>4
  <2>2. /\ \A d \in Containers :
             pc'[d] = "write" /\ (d = c \/ req[d].item \in {i}) => Affords(req[d])'
        /\ \A j \in {i} : Within(j)'
    BY <1>4, <1>9, <1>10
  <2>3. QED BY <1>6, <2>1, <2>2, AffordableFrame

\* The quantity of an item is patched: it has no pledges, unless one was
\* created meanwhile.
LEMMA AffordablePatchItem ==
    ASSUME Undisturbed, Affordable, NEW c \in Containers, PatchItem(c) PROVE Affordable'
<1>1. PICK r, i : r = req[c] /\ i = r.item
  OBVIOUS
<1>2. /\ pc[c] = "write" /\ r.op = "patch_item" /\ Return(c) /\ UNCHANGED raced
      /\ needed' = [needed EXCEPT ![i] = InColumn(r.quantity)]
      /\ UNCHANGED <<item, standing, quantity>>
  BY <1>1 DEF PatchItem, Writes, pledgeVars
<1>3. r \in Request /\ i \in Items /\ r.event = EventOf[i] /\ Affords(r)
  BY <1>1, <1>2 DEF Undisturbed, IInv, Serves, Found, ItemFound, Request, Affordable
<1>4. /\ \A d \in Containers : pc'[d] = IF d = c THEN "idle" ELSE pc[d]
      /\ \A d \in Containers : d # c => req'[d] = req[d]
  BY <1>2 DEF Return, Goto, Undisturbed, IInv, TypeOK
<1>5. \A j \in Items \ {i} : SameRows(j) /\ (item'[j] = "there" => item[j] = "there")
  BY <1>2 DEF SameRows, Undisturbed, IInv, TypeOK
<1>6. "quantity" \in raced[EventOf[i]] \/ ActivePledges(i)' = {}
  BY <1>1, <1>2, <1>3 DEF Affords, ActivePledges
<1>7. ASSUME NEW d \in Containers, d # c, pc[d] = "write", req[d].item = i
      PROVE  Affords(req[d])'
  <2>1. req[d].op = "create_pledge" => "quantity" \in raced[req[d].event]
    BY <1>1, <1>2, <1>7, MetAtTheItem
  <2>2. req[d].op = "update_pledge" => req[d].event = EventOf[i]
    BY <1>7 DEF Undisturbed, IInv, Serves, Found, PledgeFound
  <2>3. Affords(req[d]) /\ ActivePledges(i)' = ActivePledges(i) /\ req'[d] = req[d]
    BY <1>2, <1>4, <1>7 DEF Affordable, ActivePledges
  <2>4. CASE "quantity" \in raced[req[d].event]
    BY <1>2, <2>3, <2>4 DEF Affords
  <2>5. CASE "quantity" \notin raced[req[d].event]
    BY <1>2, <1>6, <1>7, <2>1, <2>2, <2>3, <2>5 DEF Affords
  <2>6. QED BY <2>4, <2>5
<1>8. Within(i)'
  <2> SUFFICES ASSUME needed'[i] \in Nat, "quantity" \notin raced[EventOf[i]]
               PROVE  Remaining(i, NoMember)' >= -2 * Ulp
    BY <1>2 DEF Within
  <2>1. ActivePledges(i)' = {}
    BY <1>6
  <2>2. Remaining(i, NoMember)' = Left(needed'[i], [k \in Members |-> quantity'[<<k, i>>]], {})
    BY <2>1 DEF Remaining, Left
  <2>3. QED BY <2>2, LeftAll, QuantityAssumption
<1>9. QED
  <2>1. /\ {i} \in SUBSET Items
        /\ \A e \in Events : raced[e] \subseteq raced'[e]
        /\ \A d \in Containers : d # c /\ pc'[d] = "write" => pc[d] = "write" /\ req'[d] = req[d]
    BY <1>2, <1>3, <1>4
  <2>2. /\ \A d \in Containers :
             pc'[d] = "write" /\ (d = c \/ req[d].item \in {i}) => Affords(req[d])'
        /\ \A j \in {i} : Within(j)'
    BY <1>4, <1>7, <1>8
  <2>3. QED BY <1>5, <2>1, <2>2, AffordableFrame

\* Items are added: nobody has pledged them and no handler has found them.
LEMMA AffordableAddItems ==
    ASSUME Undisturbed, Affordable, NEW c \in Containers, AddItems(c) PROVE Affordable'
<1>1. PICK r : r = req[c]
  OBVIOUS
<1>2. PICK new \in SUBSET {i \in Items : EventOf[i] = r.event /\ item[i] = "none"} :
         /\ item' = [i \in Items |-> IF i \in new THEN "there" ELSE item[i]]
         /\ needed' = [i \in Items |-> IF i \in new THEN InColumn(r.quantity) ELSE needed[i]]
  BY <1>1 DEF AddItems
<1>3. /\ pc[c] = "write" /\ Return(c) /\ UNCHANGED <<raced, standing, quantity>>
  BY DEF AddItems, Writes, pledgeVars
<1>4. /\ \A d \in Containers : pc'[d] = IF d = c THEN "idle" ELSE pc[d]
      /\ \A d \in Containers : d # c => req'[d] = req[d]
  BY <1>3 DEF Return, Goto, Undisturbed, IInv, TypeOK
<1>5. \A j \in Items \ new : SameRows(j) /\ (item'[j] = "there" => item[j] = "there")
  BY <1>2, <1>3 DEF SameRows
<1>6. ASSUME NEW d \in Containers, d # c, pc[d] = "write", req[d].item \in new
      PROVE  Affords(req[d])'
  <2>1. req'[d] = req[d] /\ item[req[d].item] = "none"
    BY <1>2, <1>4, <1>6
  <2>2. \A m \in Members : standing[<<m, req[d].item>>] = "none"
    BY <1>6, <2>1 DEF Undisturbed, IInv, NoOrphans, PledgesOf
  <2>3. req[d].op \notin {"patch_item", "create_pledge", "update_pledge"}
    BY <1>6, <2>1, <2>2 DEF Undisturbed, IInv, Serves, Found, ItemFound, PledgeFound
  <2>4. QED BY <2>1, <2>3 DEF Affords
<1>7. ASSUME NEW i \in new PROVE Within(i)'
  <2>1. i \in Items /\ PledgesOf(i) = {}
    BY <1>2 DEF Undisturbed, IInv, NoOrphans
  <2>2. ActivePledges(i)' = {}
    BY <1>3, <2>1 DEF ActivePledges, PledgesOf
  <2>3. Remaining(i, NoMember)' = Left(needed'[i], [k \in Members |-> quantity'[<<k, i>>]], {})
    BY <2>2 DEF Remaining, Left
  <2>4. QED BY <2>3, LeftAll, QuantityAssumption DEF Within
<1>8. QED
  <2>1. /\ new \in SUBSET Items
        /\ \A e \in Events : raced[e] \subseteq raced'[e]
        /\ \A d \in Containers : d # c /\ pc'[d] = "write" => pc[d] = "write" /\ req'[d] = req[d]
    BY <1>2, <1>3, <1>4
  <2>2. \A d \in Containers :
          pc'[d] = "write" /\ (d = c \/ req[d].item \in new) => Affords(req[d])'
    BY <1>4, <1>6
  <2>3. QED BY <1>5, <1>7, <2>1, <2>2, AffordableFrame

\* The steps that leave the rows of items and pledges as they are, or take an
\* item away.
LEMMA AffordableByOthers ==
    ASSUME Undisturbed, Affordable, NEW c \in Containers,
           UNCHANGED <<needed, standing, quantity>>,
           \A i \in Items : item'[i] = "there" => item[i] = "there",
           \A e \in Events : raced[e] \subseteq raced'[e],
           \A d \in Containers : d # c /\ pc'[d] = "write" => pc[d] = "write" /\ req'[d] = req[d],
           pc'[c] = "write" => Affords(req[c])'
    PROVE  Affordable'
<1>1. \A i \in Items : SameRows(i)
  BY DEF SameRows
<1>2. PICK changed \in SUBSET Items : changed = {}
  OBVIOUS
<1>3. \A i \in Items \ changed : SameRows(i) /\ (item'[i] = "there" => item[i] = "there")
  BY <1>1
<1>4. /\ \A d \in Containers :
           pc'[d] = "write" /\ (d = c \/ req[d].item \in changed) => Affords(req[d])'
      /\ \A i \in changed : Within(i)'
  BY <1>2
<1>5. QED BY <1>3, <1>4, AffordableFrame

\* What remains of an item is a whole number where its pledges are.
LEMMA RemainingType ==
    ASSUME NEW i \in Items, NEW m, needed[i] \in Nat,
           \A l \in ActivePledges(i) \ {m} : quantity[<<l, i>>] \in Nat
    PROVE  Remaining(i, m) \in Int /\ ~RemainingIsNaN(i, m)
<1>1. ActivePledges(i) \ {m} \in SUBSET Members
  BY DEF ActivePledges
<1> DEFINE A == ActivePledges(i) \ {m}
<1>2. IsFiniteSet(A) /\ \A l \in A : Shares(i)[l] \in Nat
  BY <1>1, SharesTaken
<1>3. Left(needed[i], Shares(i), A) \in Int
  BY <1>2, LeftType
<1>4. NaN \notin Nat
  BY QuantityAssumption
<1>5. QED BY <1>3, <1>4 DEF Left, Remaining, Shares, RemainingIsNaN

\* A quantity that float() lets pass is about as much as what remains.
LEMMA PassedIsEnough ==
    ASSUME NEW r \in Requests, NEW x \in Int, NEW left \in AsFloat(x), ~Above(r.quantity, left),
           InColumn(r.quantity) \in Nat
    PROVE  InColumn(r.quantity) <= x + 2 * Ulp
<1>1. left \in Int /\ left <= x + Ulp /\ left # NaN
  BY QuantityAssumption DEF AsFloat
<1>2. /\ r.quantity \in Nat /\ r.quantity # NaN
      /\ InColumn(r.quantity) <= r.quantity + Ulp
  BY ColumnType, QuantityAssumption
<1>3. r.quantity <= left
  BY <1>1, <1>2 DEF Above
<1>4. QED BY <1>1, <1>2, <1>3, QuantityAssumption

\* A SELECT or an answer: who goes on to its write has just found enough left.
LEMMA ReadAffords ==
    ASSUME IInv, NEW c \in Containers, Read(c) \/ Abort(c), pc'[c] = "write" PROVE Affords(req[c])'
<1>1. ~Refuse(c)
  BY DEF Refuse, Return, Goto, IInv, TypeOK
<1>2. Proceed(c, "write")
  <2>1. PICK stage : Proceed(c, stage)
    BY <1>1 DEF Read, Abort, ReadRows, ReadContributions, ReadItem, ReadActive, ReadExisting,
       ReadPledge, ReadRemaining, ReadPaid
  <2>2. stage = "write"
    BY <2>1 DEF Proceed, Goto, IInv, TypeOK
  <2>3. QED BY <2>1, <2>2
<1>3. PICK r, i : r = req[c] /\ i = r.item
  OBVIOUS
<1>4. /\ UNCHANGED <<needed, standing, quantity, raced, req>>
      /\ ActivePledges(i)' = ActivePledges(i) /\ PledgesOf(i)' = PledgesOf(i)
      /\ \A m : Remaining(i, m)' = Remaining(i, m)
      /\ \A m : UnsoundBeside(m, i)' <=> UnsoundBeside(m, i)
  <2>1. UNCHANGED <<needed, standing, quantity, raced, req>>
    BY <1>2 DEF Proceed, tables, itemVars, pledgeVars
  <2>2. SameRows(i)
    BY <2>1 DEF SameRows
  <2>3. QED BY <2>1, <2>2, SameRemaining
<1>5. r \in Request \cap Requests /\ Sensible(r, pc[c]) /\ Found(r, pc[c])
  BY <1>1, <1>3 DEF IInv, Serves, Read, Abort, ReadRows, ReadContributions, ReadItem, ReadActive,
     ReadExisting, ReadPledge, ReadRemaining, ReadPaid
<1>6. CASE ReadActive(c)
  <2>1. r.op \in {"patch_item", "delete_item"} /\ ActivePledges(i) = {}
    BY <1>1, <1>3, <1>5, <1>6 DEF ReadActive, Sensible
  <2>2. QED BY <1>3, <1>4, <2>1 DEF Affords
<1>7. CASE ReadRemaining(c)
  <2>1. PICK m : m = OwnPledge(r)
    OBVIOUS
  <2>2. PICK left \in QuantityRemaining(i, m) :
          /\ ~Above(r.quantity, left)
          /\ ~(r.op = "create_pledge" /\ left # NaN /\ left <= 0)
    BY <1>1, <1>3, <1>7, <2>1 DEF ReadRemaining
  <2>3. pc[c] = "remaining" /\ r.op \in {"create_pledge", "update_pledge"} /\ i \in Items
    BY <1>3, <1>5, <1>7 DEF ReadRemaining, Sensible, Request
  <2>4. item[i] = "there"
    <3>1. CASE r.op = "create_pledge"
      <4>1. 0 # NaN
        BY QuantityAssumption
      <4>2. QED BY <2>2, <3>1, <4>1 DEF QuantityRemaining
    <3>2. CASE r.op = "update_pledge"
      BY <1>3, <1>5, <2>3, <3>2 DEF Found, PledgeFound, IInv, NoOrphans, PledgesOf
    <3>3. QED BY <2>3, <3>1, <3>2
  <2>5. ASSUME Sound(r), \A l \in ActivePledges(i) \ {m} : quantity[<<l, i>>] \in Nat
        PROVE  Enough(r, m)
    <3>1. needed[i] \in Nat /\ InColumn(r.quantity) \in Nat
      BY <1>3, <2>5 DEF Sound
    <3>2. Remaining(i, m) \in Int /\ ~RemainingIsNaN(i, m)
      BY <2>3, <2>5, <3>1, RemainingType
    <3>3. left \in AsFloat(Remaining(i, m))
      BY <2>4, <3>2 DEF QuantityRemaining
    <3>4. QED BY <1>3, <1>5, <2>2, <3>1, <3>2, <3>3, PassedIsEnough DEF Enough
  <2>6. CASE r.op = "create_pledge"
    <3>1. m = NoMember
      BY <2>1, <2>6 DEF OwnPledge
    <3>2. Sound(r) /\ r.caller \notin PledgesOf(i) /\ ~UnsoundBeside(r.caller, i)
            => Enough(r, NoMember)
      BY <2>5, <3>1 DEF UnsoundBeside, ActivePledges, PledgesOf
    <3>3. QED BY <1>3, <1>4, <2>6, <3>2 DEF Affords, Enough, Sound
  <2>7. CASE r.op = "update_pledge"
    <3>1. m = r.owner
      BY <1>5, <2>1, <2>3, <2>7 DEF OwnPledge, Found, PledgeFound
    <3>2. Sound(r) /\ ~UnsoundBeside(r.owner, i) => Enough(r, r.owner)
      BY <2>5, <3>1 DEF UnsoundBeside, ActivePledges
    <3>3. QED BY <1>3, <1>4, <2>7, <3>2 DEF Affords, Enough, Sound
  <2>8. QED BY <2>3, <2>6, <2>7
<1>8. CASE ~(ReadActive(c) \/ ReadRemaining(c))
  <2>1. r.op \notin {"patch_item", "create_pledge", "update_pledge"}
    BY <1>1, <1>2, <1>3, <1>5, <1>8 DEF Read, Abort, ReadRows, ReadContributions, ReadItem,
       ReadExisting, ReadPledge, ReadPaid, Sensible, Proceed, Goto, IInv, TypeOK
  <2>2. QED BY <1>3, <1>4, <2>1 DEF Affords
<1>9. QED BY <1>6, <1>7, <1>8

\* One step per action.
LEMMA AffordableStep == Undisturbed /\ Affordable /\ [Next]_vars => Affordable'
<1> SUFFICES ASSUME Undisturbed, Affordable, [Next]_vars PROVE Affordable'
  OBVIOUS
<1>1. IInv /\ TypeOK' /\ Met
  BY NextIInv DEF Undisturbed, IInv
<1>2. CASE UNCHANGED vars
  <2>1. UNCHANGED <<item, needed, standing, quantity, pc, req, raced>>
    BY <1>2 DEF vars, tables, itemVars, pledgeVars
  <2>2. \A i : /\ Remaining(i, NoMember)' = Remaining(i, NoMember)
               /\ ActivePledges(i)' = ActivePledges(i) /\ PledgesOf(i)' = PledgesOf(i)
               /\ \A m : Remaining(i, m)' = Remaining(i, m)
               /\ \A m : UnsoundBeside(m, i)' <=> UnsoundBeside(m, i)
    BY <2>1, SameRemaining DEF SameRows
  <2>3. \A i \in Items : Within(i)'
    BY <2>1, <2>2 DEF Affordable, Within
  <2>4. \A d \in Containers : pc'[d] = "write" => Affords(req[d])'
    BY <2>1, <2>2 DEF Affordable, Affords, Enough, Sound
  <2>5. QED BY <2>3, <2>4 DEF Affordable
<1>3. ASSUME NEW c \in Containers, Receive(c) PROVE Affordable'
  <2>1. /\ UNCHANGED <<item, needed, standing, quantity>>
        /\ \A e \in Events : raced[e] \subseteq raced'[e]
        /\ \A d \in Containers : d # c => pc'[d] = pc[d] /\ req'[d] = req[d]
    <3>1. \A e \in Events : raced[e] \subseteq raced'[e]
      BY <1>1, <1>3, MetReceive
    <3>2. UNCHANGED <<item, needed, standing, quantity>>
      BY <1>3 DEF Receive, tables, itemVars, pledgeVars
    <3>3. \A d \in Containers : d # c => pc'[d] = pc[d] /\ req'[d] = req[d]
      BY <1>1, <1>3 DEF Receive, Goto, IInv, TypeOK
    <3>4. QED BY <3>1, <3>2, <3>3
  <2>2. pc'[c] = "write" => Affords(req[c])'
    <3>1. PICK r \in Requests : req' = [req EXCEPT ![c] = r] /\ Goto(c, FirstStage(r))
      BY <1>3 DEF Receive
    <3>2. req'[c] = r /\ pc'[c] = FirstStage(r)
      BY <1>1, <3>1 DEF Goto, IInv, TypeOK
    <3>3. r.op \in {"patch_item", "create_pledge", "update_pledge"} => FirstStage(r) # "write"
      BY DEF FirstStage
    <3>4. QED BY <3>2, <3>3 DEF Affords
  <2>3. QED BY <2>1, <2>2, AffordableByOthers
<1>4. ASSUME NEW c \in Containers, Read(c) \/ Abort(c) PROVE Affordable'
  <2>1. UNCHANGED <<item, needed, standing, quantity>>
    BY <1>1, <1>4, ReadDecided DEF tables, itemVars, pledgeVars
  <2>2. /\ raced' = raced
        /\ \A d \in Containers : pc'[d] # "idle" => pc[d] # "idle" /\ req'[d] = req[d]
        /\ \A d \in Containers : d # c => pc'[d] = pc[d]
    BY <1>1, <1>4, RequestsStay
  <2>3. pc'[c] = "write" => Affords(req[c])'
    BY <1>1, <1>4, ReadAffords
  <2>4. QED BY <2>1, <2>2, <2>3, AffordableByOthers
<1>5. ASSUME NEW c \in Containers, Write(c) PROVE Affordable'
  <2>1. CASE AddItems(c) \/ PatchItem(c) \/ CreatePledge(c) \/ UpdatePledge(c) \/ CancelPledge(c)
    BY <1>1, <2>1, AffordableAddItems, AffordablePatchItem, AffordableCreatePledge,
       AffordableUpdatePledge, AffordableCancelPledge
  <2>2. CASE \/ CreateEvent(c) \/ PatchEvent(c) \/ DeleteEvent(c) \/ DeleteItem(c)
             \/ RecordContribution(c) \/ DeleteContribution(c)
    <3>1. /\ UNCHANGED <<needed, standing, quantity>>
          /\ \A i \in Items : item'[i] = "there" => item[i] = "there"
      BY <1>1, <2>2 DEF CreateEvent, PatchEvent, DeleteEvent, DeleteItem, RecordContribution,
         DeleteContribution, itemVars, pledgeVars, IInv, TypeOK
    <3>2. /\ raced' = raced
          /\ \A d \in Containers : pc'[d] # "idle" => pc[d] # "idle" /\ req'[d] = req[d]
          /\ \A d \in Containers : d # c => pc'[d] = pc[d]
      BY <1>1, <1>5, RequestsStay
    <3>3. pc'[c] # "write"
      BY <1>1, <2>2 DEF CreateEvent, PatchEvent, DeleteEvent, DeleteItem, RecordContribution,
         DeleteContribution, Writes, Return, Goto, IInv, TypeOK
    <3>4. QED BY <3>1, <3>2, <3>3, AffordableByOthers
  <2>3. QED BY <1>5, <2>1, <2>2 DEF Write
<1>6. QED BY <1>2, <1>3, <1>4, <1>5 DEF Next

\* Pledges never add up to more than an item needs and the error of two
\* conversions, whatever the number of containers, members and items: only if two
\* of create_pledge and update_pledge met at the item, or a create_pledge met a
\* patch_item, or a quantity is NaN or below zero, was there less left for a
\* pledge, by more than this, than get_quantity_remaining said.
THEOREM PledgedWithinNeededHolds == Spec => []PledgedWithinNeeded
<1>1. Init => Affordable
  <2> SUFFICES ASSUME Init PROVE Affordable
    OBVIOUS
  <2>1. \A c \in Containers : pc[c] # "write"
    BY DEF Init
  <2>2. \A i \in Items : item[i] # "there"
    BY DEF Init
  <2>3. QED BY <2>1, <2>2 DEF Affordable, Within
<1>2. Undisturbed /\ Affordable /\ [Next]_vars => Affordable'
  BY AffordableStep
<1>3. Affordable => PledgedWithinNeeded
  BY DEF Affordable, Within, PledgedWithinNeeded
<1>4. QED BY <1>1, <1>2, <1>3, UndisturbedHolds, PTL DEF Spec

----------------------------------------------------------------------------
(* What the conflicts come to: requests that are served one after the      *)
(* other meet none.                                                        *)

OneAtATime == \A c, d \in Containers : c = d

NothingRaced == \A e \in Events : raced[e] = {}

\* No step of a request that has the events for itself notes a conflict.
LEMMA AloneStep == OneAtATime /\ TypeOK /\ NothingRaced /\ [Next]_vars => NothingRaced'
<1> SUFFICES ASSUME OneAtATime, TypeOK, NothingRaced, [Next]_vars PROVE NothingRaced'
  OBVIOUS
<1>1. ASSUME UNCHANGED raced PROVE NothingRaced'
  BY <1>1 DEF NothingRaced
<1>2. ASSUME NEW c \in Containers, Receive(c) PROVE NothingRaced'
  <2>1. PICK r \in Requests : Meet(c, r)
    BY <1>2 DEF Receive
  <2>2. {x \in Containers \ {c} : pc[x] # "idle" /\ req[x].event = r.event} = {}
    BY DEF OneAtATime
  <2>3. UNION {Conflict(r, req[d]) :
                 d \in {x \in Containers \ {c} : pc[x] # "idle" /\ req[x].event = r.event}} = {}
    BY <2>2
  <2>4. raced' = [raced EXCEPT ![r.event] = @ \cup {}]
    BY <2>1, <2>3 DEF Meet
  <2>5. raced' = raced
    BY <2>4 DEF TypeOK
  <2>6. QED BY <1>1, <2>5
<1>3. ASSUME NEW c \in Containers, Read(c) PROVE NothingRaced'
  BY <1>1, <1>3
     DEF Read, ReadRows, ReadContributions, ReadItem, ReadActive, ReadExisting, ReadPledge,
         ReadRemaining, ReadPaid, Proceed, Refuse
<1>4. ASSUME NEW c \in Containers, Write(c) PROVE NothingRaced'
  BY <1>1, <1>4
     DEF Write, CreateEvent, PatchEvent, DeleteEvent, AddItems, PatchItem, DeleteItem,
         CreatePledge, UpdatePledge, CancelPledge, RecordContribution, DeleteContribution, Writes
<1>5. QED BY <1>1, <1>2, <1>3, <1>4 DEF Next, Abort, Refuse, vars

\* What the checks of the handlers promise of requests that are served one after
\* the other, in any order: no item on an event of another type and no pledge
\* cancelled that was paid for, without exception, and none beyond what is needed
\* as far as numbers go, which no lock would change: quantities that are NaN or
\* below zero make the check void, and rounding lets through what it may be off.
THEOREM ChecksHoldAlone ==
    ASSUME OneAtATime
    PROVE  Spec => [](/\ \A e \in Events : ItemsOf(e) # {} => type[e] = "pledge"
                      /\ \A x \in contributions :
                            x.owner # NoMember => standing[<<x.owner, x.item>>] = "pledged"
                      /\ \A i \in Items :
                            /\ item[i] = "there" /\ needed[i] \in Nat
                            /\ \A m \in Members : quantity[<<m, i>>] \in Nat
                            => Remaining(i, NoMember) >= -2 * Ulp)
<1> DEFINE Promise ==
             /\ \A e \in Events : ItemsOf(e) # {} => type[e] = "pledge"
             /\ \A x \in contributions :
                   x.owner # NoMember => standing[<<x.owner, x.item>>] = "pledged"
             /\ \A i \in Items :
                   /\ item[i] = "there" /\ needed[i] \in Nat
                   /\ \A m \in Members : quantity[<<m, i>>] \in Nat
                   => Remaining(i, NoMember) >= -2 * Ulp
<1>1. Init => NothingRaced
  BY DEF Init, NothingRaced
<1>2. TypeOK /\ NothingRaced /\ [Next]_vars => NothingRaced'
  BY AloneStep
<1>3. TypeOK /\ NothingRaced /\ ItemsOnPledgeEvents /\ PaidPledgeStands /\ PledgedWithinNeeded
        => Promise
  <2> SUFFICES ASSUME TypeOK, NothingRaced, ItemsOnPledgeEvents, PaidPledgeStands,
                      PledgedWithinNeeded
               PROVE  Promise
    OBVIOUS
  <2>1. \A e \in Events : ItemsOf(e) # {} => type[e] = "pledge"
    BY DEF NothingRaced, ItemsOnPledgeEvents
  <2>2. \A x \in contributions :
          x.owner # NoMember => standing[<<x.owner, x.item>>] = "pledged"
    BY DEF NothingRaced, PaidPledgeStands, TypeOK
  <2>3. \A i \in Items : "quantity" \notin raced[EventOf[i]]
    BY EventsAssumption DEF NothingRaced
  <2>4. QED BY <2>1, <2>2, <2>3 DEF PledgedWithinNeeded
<1>4. QED
  BY <1>1, <1>2, <1>3, TypeCorrect, ItemsOnPledgeEventsHolds, PaidPledgeStandsHolds,
     PledgedWithinNeededHolds, PTL DEF Spec
=============================================================================
