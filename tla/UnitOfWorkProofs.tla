-------------------------- MODULE UnitOfWorkProofs --------------------------
(***************************************************************************)
(* Theorems about UnitOfWork, for every number of containers, requests,    *)
(* statements of a request, and accidents.                                 *)
(***************************************************************************)
EXTENDS UnitOfWork, TLAPS

-----------------------------------------------------------------------------
(* The inductive invariant. *)

\* A container serves a request that nobody has answered and no other serves.
Serves ==
    \A c \in Containers :
        /\ req[c] = NoRequest <=> pc[c] = "idle"
        /\ req[c] # NoRequest =>
              reply[req[c]] = "none" /\ \A d \in Containers : req[d] = req[c] => d = c

\* What the transaction of a container holds, by the step of its handler: the
\* rows of the statements done, if the connection is still good.
Transaction(c) ==
    /\ link[c] # "open" => work[c] = {}
    /\ link[c] = "aborted" => pc[c] = "rollback"
    /\ pc[c] \in {"read", "write", "commit"} => link[c] \in {"open", "stale"}
    /\ pc[c] \in {"idle", "enter", "read", "reopen", "respond"} => work[c] = {}
    /\ pc[c] \in {"enter", "read"} => done[c] = 0
    /\ pc[c] = "write" => done[c] < Statements
    /\ pc[c] \in {"commit", "respond"} => done[c] \in {0, Statements}
    /\ pc[c] \in {"write", "commit"} /\ link[c] = "open" =>
          work[c] = {req[c]} \X (1 .. done[c])

Carried(r) == Writes(r) \subseteq store
Nothing(r) == Writes(r) \cap store = {}

\* The committed rows are those of whole requests, and an unanswered request
\* has some only if its handler is about to answer; that answer is truthful.
Whole ==
    \A r \in Requests :
        /\ Carried(r) \/ Nothing(r)
        /\ \/ reply[r] # "none"
           \/ Nothing(r)
           \/ \E c \in Containers : req[c] = r /\ pc[c] \in {"reopen", "respond"}
        /\ \A c \in Containers : req[c] = r /\ pc[c] = "respond" =>
              IF done[c] = Statements THEN Carried(r) ELSE Nothing(r)

\* The errors that a container has not answered yet: the request that is being
\* given up, and the next one if the server has dropped the connection.
Owed(c) == (IF pc[c] \in {"rollback", "reopen"} THEN 1 ELSE 0)
         + (IF link[c] = "stale" THEN 1 ELSE 0)

Accounted ==
    \A c \in Containers : params[c] # "partial" => errors[c] + Owed(c) <= accidents[c]

IInv ==
    /\ TypeOK
    /\ Serves
    /\ \A c \in Containers : Transaction(c)
    /\ Whole
    /\ Accounted

-----------------------------------------------------------------------------
(* The initial state, and the steps, one lemma for each part. *)

\* The set of rows of a handler that has written nothing is empty.
LEMMA NothingDone == \A r : {r} \X (1 .. 0) = {}
OBVIOUS

\* Writing the next statement extends the rows by one.
LEMMA OneMore ==
    ASSUME NEW r, NEW n \in Nat
    PROVE  ({r} \X (1 .. n)) \cup {<<r, n + 1>>} = {r} \X (1 .. (n + 1))
<1>1. (1 .. n) \cup {n + 1} = 1 .. (n + 1)
  OBVIOUS
<1>2. QED BY <1>1

\* Before the first request every part of the invariant holds.
LEMMA InitHolds == Init => IInv
BY NoRequestAssumption, StatementsAssumption
   DEF Init, IInv, TypeOK, Links, Steps, Rows, Parts, Serves, Transaction, Whole,
       Nothing, Carried, Writes,
       Accounted, Owed

\* An answer keeps the types.
LEMMA FinishType ==
    ASSUME TypeOK, NEW c \in Containers, NEW answer \in {"ok", "refused", "error"},
           Finish(c, answer)
    PROVE  /\ reply' \in [Requests -> {"none", "ok", "refused", "error"}]
           /\ errors' \in [Containers -> Nat]
           /\ req' \in [Containers -> Requests \cup {NoRequest}]
           /\ pc' \in [Containers -> Steps]
<1>1. reply' \in [Requests -> {"none", "ok", "refused", "error"}]
  BY DEF TypeOK, Finish
<1>2. errors' \in [Containers -> Nat]
  <2>1. errors' = [errors EXCEPT ![c] = @ + 1] \/ errors' = [errors EXCEPT ![c] = @]
    BY DEF Finish
  <2>2. QED BY <2>1 DEF TypeOK
<1>3. req' \in [Containers -> Requests \cup {NoRequest}]
  BY DEF TypeOK, Finish
<1>4. pc' \in [Containers -> Steps]
  BY DEF TypeOK, Finish, Goto, Steps
<1>5. QED BY <1>1, <1>2, <1>3, <1>4

\* So does an attempt to open a connection.
LEMMA OpenConnectionType ==
    ASSUME TypeOK, NEW c \in Containers,
           OpenConnection(c, TRUE) \/ OpenConnection(c, FALSE)
    PROVE  /\ params' \in [Containers -> {"none", "partial", "full"}]
           /\ link' \in [Containers -> Links]
           /\ accidents' \in [Containers -> Nat]
<1>1. PICK p \in Preloaded(c) : params' = [params EXCEPT ![c] = p]
  BY DEF OpenConnection
<1>2. params[c] \in {"none", "partial", "full"}
  BY DEF TypeOK
<1>3. p \in {"none", "partial", "full"}
  BY <1>1, <1>2 DEF Preloaded
<1>4. params' \in [Containers -> {"none", "partial", "full"}]
  BY <1>1, <1>3 DEF TypeOK
<1>5. link' = link \/ link' = [link EXCEPT ![c] = "open"]
  BY DEF OpenConnection
<1>6. accidents' = accidents \/ accidents' = [accidents EXCEPT ![c] = @ + 1]
  BY DEF OpenConnection, Accident
<1>7. QED BY <1>4, <1>5, <1>6 DEF TypeOK, Links

\* The bound of done rests on Transaction, that of work on Serves.
LEMMA TypeStep ==
    ASSUME TypeOK, Serves, \A c \in Containers : Transaction(c), [Next]_vars
    PROVE  TypeOK'
<1>1. CASE UNCHANGED vars
  BY <1>1 DEF vars, TypeOK, Links, Steps
<1>2. ASSUME NEW c \in Containers, NEW r \in Requests, Receive(c, r) PROVE TypeOK'
  BY <1>2, StatementsAssumption DEF Receive, Goto, TypeOK, Links, Steps
<1>3. ASSUME NEW c \in Containers, GetConnection(c) PROVE TypeOK'
  <2>1. CASE NeedsConnection(c)
    <3>1. OpenConnection(c, TRUE) \/ OpenConnection(c, FALSE)
      BY <1>3, <2>1 DEF GetConnection
    <3>2. /\ params' \in [Containers -> {"none", "partial", "full"}]
          /\ link' \in [Containers -> Links]
          /\ accidents' \in [Containers -> Nat]
      BY <3>1, OpenConnectionType
    <3>3. CASE Finish(c, "error")
      BY <1>3, <3>2, <3>3, FinishType DEF GetConnection, TypeOK
    <3>4. CASE Goto(c, "read") /\ UNCHANGED <<req, errors, reply>>
      BY <1>3, <3>2, <3>4 DEF GetConnection, Goto, TypeOK, Steps
    <3>5. QED BY <1>3, <2>1, <3>3, <3>4 DEF GetConnection
  <2>2. CASE ~NeedsConnection(c)
    BY <1>3, <2>2 DEF GetConnection, Goto, TypeOK, Steps
  <2>3. QED
    BY <2>1, <2>2
<1>4. ASSUME NEW c \in Containers, Read(c) PROVE TypeOK'
  BY <1>4 DEF Read, Goto, TypeOK, Links, Steps
<1>5. ASSUME NEW c \in Containers, Write(c) PROVE TypeOK'
  <2>1. done[c] + 1 \in 1 .. Statements
    BY <1>5, StatementsAssumption DEF Write, TypeOK, Transaction
  <2>2. <<req[c], done[c] + 1>> \in Rows
    BY <1>5, <2>1, NoRequestAssumption DEF Write, TypeOK, Serves, Rows, Parts
  <2>3. work' \in [Containers -> SUBSET Rows]
    BY <1>5, <2>2 DEF Write, TypeOK
  <2>4. done' \in [Containers -> 0 .. Statements]
    BY <1>5, <2>1, StatementsAssumption DEF Write, TypeOK
  <2>5. QED
    BY <1>5, <2>3, <2>4 DEF Write, Goto, TypeOK, Steps
<1>6. ASSUME NEW c \in Containers, Raise(c) PROVE TypeOK'
  BY <1>6 DEF Raise, Accident, Goto, TypeOK, Links, Steps
<1>7. ASSUME NEW c \in Containers, Rollback(c) PROVE TypeOK'
  <2>1. link' \in [Containers -> Links] /\ work' \in [Containers -> SUBSET Rows]
    BY <1>7 DEF Rollback, TypeOK, Links
  <2>2. QED
    BY <1>7, <2>1, FinishType DEF Rollback, TypeOK
<1>8. ASSUME NEW c \in Containers, Commit(c) PROVE TypeOK'
  BY <1>8 DEF Commit, Goto, TypeOK, Links, Steps
<1>9. ASSUME NEW c \in Containers, CommitRaises(c) PROVE TypeOK'
  <2>1. store' \subseteq Rows /\ work' \in [Containers -> SUBSET Rows]
    <3>1. work[c] \subseteq Rows /\ store \subseteq Rows
      BY DEF TypeOK
    <3>2. store' \in {store, store \cup work[c]}
      BY <1>9 DEF CommitRaises
    <3>3. work' = [work EXCEPT ![c] = {}]
      BY <1>9 DEF CommitRaises
    <3>4. QED BY <3>1, <3>2, <3>3 DEF TypeOK
  <2>2. link' \in [Containers -> Links] /\ accidents' \in [Containers -> Nat]
    BY <1>9 DEF CommitRaises, Accident, TypeOK, Links
  <2>3. QED
    BY <1>9, <2>1, <2>2 DEF CommitRaises, Goto, TypeOK, Steps
<1>10. ASSUME NEW c \in Containers, Reopen(c) PROVE TypeOK'
  <2>1. OpenConnection(c, TRUE) \/ OpenConnection(c, FALSE)
    BY <1>10 DEF Reopen
  <2>2. QED
    BY <1>10, <2>1, OpenConnectionType, FinishType DEF Reopen, TypeOK
<1>11. ASSUME NEW c \in Containers, Respond(c) PROVE TypeOK'
  BY <1>11, FinishType DEF Respond, TypeOK
<1>12. ASSUME NEW c \in Containers, Drop(c) PROVE TypeOK'
  BY <1>12 DEF Drop, Accident, TypeOK, Links, Steps
<1>13. ASSUME NEW c \in Containers, Kill(c) PROVE TypeOK'
  BY <1>13 DEF Kill, Goto, TypeOK, Links, Steps
<1>14. QED
  BY <1>1, <1>2, <1>3, <1>4, <1>5, <1>6, <1>7, <1>8, <1>9, <1>10, <1>11, <1>12, <1>13
     DEF Next, Handle

\* A request is taken by one container and leaves it when it is answered.
LEMMA ServesStep ==
    ASSUME TypeOK, Serves, [Next]_vars
    PROVE  Serves'
<1>1. CASE UNCHANGED vars
  BY <1>1 DEF vars, TypeOK, Serves
<1>2. ASSUME NEW c \in Containers, NEW r \in Requests, Receive(c, r) PROVE Serves'
  BY <1>2, NoRequestAssumption DEF Receive, Goto, TypeOK, Serves
<1>3. ASSUME NEW c \in Containers, GetConnection(c) PROVE Serves'
  BY <1>3, NoRequestAssumption
     DEF GetConnection, NeedsConnection, OpenConnection, Preloaded,
         Accident, Finish, Goto, TypeOK, Serves
<1>4. ASSUME NEW c \in Containers, Read(c) PROVE Serves'
  BY <1>4, NoRequestAssumption DEF Read, Goto, TypeOK, Serves
<1>5. ASSUME NEW c \in Containers, Write(c) PROVE Serves'
  BY <1>5, NoRequestAssumption DEF Write, Goto, TypeOK, Serves
<1>6. ASSUME NEW c \in Containers, Raise(c) PROVE Serves'
  BY <1>6, NoRequestAssumption DEF Raise, Accident, Goto, TypeOK, Serves
<1>7. ASSUME NEW c \in Containers, Rollback(c) PROVE Serves'
  BY <1>7, NoRequestAssumption DEF Rollback, Finish, Goto, TypeOK, Serves
<1>8. ASSUME NEW c \in Containers, Commit(c) PROVE Serves'
  BY <1>8, NoRequestAssumption DEF Commit, Goto, TypeOK, Serves
<1>9. ASSUME NEW c \in Containers, CommitRaises(c) PROVE Serves'
  BY <1>9, NoRequestAssumption DEF CommitRaises, Accident, Goto, TypeOK, Serves
<1>10. ASSUME NEW c \in Containers, Reopen(c) PROVE Serves'
  BY <1>10, NoRequestAssumption
     DEF Reopen, OpenConnection, Preloaded, Accident, Finish, Goto, TypeOK,
         Serves
<1>11. ASSUME NEW c \in Containers, Respond(c) PROVE Serves'
  BY <1>11, NoRequestAssumption DEF Respond, Finish, Goto, TypeOK, Serves
<1>12. ASSUME NEW c \in Containers, Drop(c) PROVE Serves'
  BY <1>12, NoRequestAssumption DEF Drop, Accident, TypeOK, Serves
<1>13. ASSUME NEW c \in Containers, Kill(c) PROVE Serves'
  BY <1>13, NoRequestAssumption DEF Kill, Goto, TypeOK, Serves
<1>14. QED
  BY <1>1, <1>2, <1>3, <1>4, <1>5, <1>6, <1>7, <1>8, <1>9, <1>10, <1>11, <1>12, <1>13
     DEF Next, Handle

\* What is in the transaction of a container is its own doing.
LEMMA TransactionStep ==
    ASSUME TypeOK, Serves, \A c \in Containers : Transaction(c), [Next]_vars
    PROVE  \A d \in Containers : Transaction(d)'
<1>1. CASE UNCHANGED vars
  BY <1>1 DEF vars, TypeOK, Links, Transaction
<1>2. ASSUME NEW c \in Containers, NEW r \in Requests, Receive(c, r)
      PROVE  \A d \in Containers : Transaction(d)'
  BY <1>2, StatementsAssumption DEF Receive, Goto, TypeOK, Links, Transaction
<1>3. ASSUME NEW c \in Containers, GetConnection(c)
      PROVE \A d \in Containers : Transaction(d)'
  BY <1>3, StatementsAssumption
     DEF GetConnection, NeedsConnection, OpenConnection, Preloaded,
         Accident, Finish, Goto, TypeOK, Links, Transaction
<1>4. ASSUME NEW c \in Containers, Read(c)
      PROVE \A d \in Containers : Transaction(d)'
  BY <1>4, StatementsAssumption, NothingDone
     DEF Read, Goto, TypeOK, Links, Transaction
<1>5. ASSUME NEW c \in Containers, Write(c)
      PROVE \A d \in Containers : Transaction(d)'
  <2>1. link[c] = "open" => work'[c] = {req'[c]} \X (1 .. done'[c])
    BY <1>5, OneMore, StatementsAssumption DEF Write, TypeOK, Transaction
  <2>2. QED
    BY <1>5, <2>1, StatementsAssumption DEF Write, Goto, TypeOK, Transaction
<1>6. ASSUME NEW c \in Containers, Raise(c)
      PROVE \A d \in Containers : Transaction(d)'
  BY <1>6, StatementsAssumption
     DEF Raise, Accident, Goto, TypeOK, Links, Transaction
<1>7. ASSUME NEW c \in Containers, Rollback(c)
      PROVE \A d \in Containers : Transaction(d)'
  BY <1>7, StatementsAssumption
     DEF Rollback, Finish, Goto, TypeOK, Links, Transaction
<1>8. ASSUME NEW c \in Containers, Commit(c)
      PROVE \A d \in Containers : Transaction(d)'
  BY <1>8, StatementsAssumption DEF Commit, Goto, TypeOK, Links, Transaction
<1>9. ASSUME NEW c \in Containers, CommitRaises(c)
      PROVE \A d \in Containers : Transaction(d)'
  BY <1>9, StatementsAssumption
     DEF CommitRaises, Accident, Goto, TypeOK, Links, Transaction
<1>10. ASSUME NEW c \in Containers, Reopen(c)
      PROVE \A d \in Containers : Transaction(d)'
  BY <1>10, StatementsAssumption
     DEF Reopen, OpenConnection, Preloaded, Accident, Finish, Goto, TypeOK,
         Links, Transaction
<1>11. ASSUME NEW c \in Containers, Respond(c)
      PROVE \A d \in Containers : Transaction(d)'
  BY <1>11, StatementsAssumption
     DEF Respond, Finish, Goto, TypeOK, Links, Transaction
<1>12. ASSUME NEW c \in Containers, Drop(c)
      PROVE \A d \in Containers : Transaction(d)'
  BY <1>12, StatementsAssumption DEF Drop, Accident, TypeOK, Links, Transaction
<1>13. ASSUME NEW c \in Containers, Kill(c)
      PROVE \A d \in Containers : Transaction(d)'
  BY <1>13, StatementsAssumption DEF Kill, Goto, TypeOK, Links, Transaction
<1>14. QED
  BY <1>1, <1>2, <1>3, <1>4, <1>5, <1>6, <1>7, <1>8, <1>9, <1>10, <1>11, <1>12, <1>13
     DEF Next, Handle

\* What a COMMIT adds: all rows of the request, or none.
LEMMA WorkIsWhole ==
    ASSUME TypeOK, NEW c \in Containers, Transaction(c), pc[c] = "commit"
    PROVE  \/ done[c] = 0 /\ work[c] = {}
           \/ done[c] = Statements /\ link[c] = "open" /\ work[c] = Writes(req[c])
           \/ link[c] = "stale" /\ work[c] = {}
BY NothingDone DEF Transaction, Writes, Parts

\* No two requests have a row in common.
LEMMA WritesDiffer == \A r, q : r # q => Writes(r) \cap Writes(q) = {}
BY DEF Writes

\* Every request has a row.
LEMMA WritesSomething == \A r : Writes(r) # {}
<1> TAKE r
<1>1. <<r, 1>> \in Writes(r)
  BY StatementsAssumption DEF Writes, Parts
<1>2. QED BY <1>1

\* Only a COMMIT adds rows, and those of one request.
LEMMA WholeStep ==
    ASSUME TypeOK, Serves, \A c \in Containers : Transaction(c), Whole, [Next]_vars
    PROVE  Whole'
<1>1. CASE UNCHANGED vars
  BY <1>1 DEF vars, Whole, Carried, Nothing, Writes
<1>2. ASSUME NEW c \in Containers, NEW r \in Requests, Receive(c, r) PROVE Whole'
  <2>1. \A q : (Carried(q)' <=> Carried(q)) /\ (Nothing(q)' <=> Nothing(q))
    BY <1>2 DEF Receive, Carried, Nothing, Writes
  <2>2. QED
    BY <1>2, <2>1, NoRequestAssumption DEF Receive, Goto, TypeOK, Serves, Whole
<1>3. ASSUME NEW c \in Containers, GetConnection(c) PROVE Whole'
  <2>1. \A q : (Carried(q)' <=> Carried(q)) /\ (Nothing(q)' <=> Nothing(q))
    BY <1>3 DEF GetConnection, Carried, Nothing, Writes
  <2>2. QED
    BY <1>3, <2>1
       DEF GetConnection, NeedsConnection, OpenConnection, Preloaded,
           Accident, Finish, Goto, TypeOK, Serves, Whole
<1>4. ASSUME NEW c \in Containers, Read(c) PROVE Whole'
  <2>1. \A q : (Carried(q)' <=> Carried(q)) /\ (Nothing(q)' <=> Nothing(q))
    BY <1>4 DEF Read, Carried, Nothing, Writes
  <2>2. QED
    BY <1>4, <2>1 DEF Read, Goto, TypeOK, Serves, Whole
<1>5. ASSUME NEW c \in Containers, Write(c) PROVE Whole'
  <2>1. \A q : (Carried(q)' <=> Carried(q)) /\ (Nothing(q)' <=> Nothing(q))
    BY <1>5 DEF Write, Carried, Nothing, Writes
  <2>2. QED
    BY <1>5, <2>1 DEF Write, Goto, TypeOK, Serves, Whole
<1>6. ASSUME NEW c \in Containers, Raise(c) PROVE Whole'
  <2>1. \A q : (Carried(q)' <=> Carried(q)) /\ (Nothing(q)' <=> Nothing(q))
    BY <1>6 DEF Raise, Carried, Nothing, Writes
  <2>2. QED
    BY <1>6, <2>1 DEF Raise, Accident, Goto, TypeOK, Serves, Whole
<1>7. ASSUME NEW c \in Containers, Rollback(c) PROVE Whole'
  <2>1. \A q : (Carried(q)' <=> Carried(q)) /\ (Nothing(q)' <=> Nothing(q))
    BY <1>7 DEF Rollback, Carried, Nothing, Writes
  <2>2. QED
    BY <1>7, <2>1 DEF Rollback, Finish, Goto, TypeOK, Serves, Whole
<1>8. ASSUME NEW c \in Containers, Commit(c) PROVE Whole'
  <2>1. req[c] \in Requests /\ pc[c] = "commit"
    BY <1>8 DEF Commit, TypeOK, Serves
  <2>2. \A r : r # req[c] => (Carried(r)' <=> Carried(r)) /\ (Nothing(r)' <=> Nothing(r))
    BY <1>8, WorkIsWhole, WritesDiffer DEF Commit, Carried, Nothing
  <2>3. Nothing(req[c])
    BY <2>1 DEF TypeOK, Serves, Whole
  <2>4. IF done[c] = Statements THEN Carried(req[c])' ELSE Nothing(req[c])'
    BY <1>8, <2>1, <2>3, WorkIsWhole, StatementsAssumption DEF Commit, Carried, Nothing, Writes
  <2>5. QED
    BY <1>8, <2>1, <2>2, <2>4 DEF Commit, Goto, TypeOK, Serves, Whole
<1>9. ASSUME NEW c \in Containers, CommitRaises(c) PROVE Whole'
  <2>1. req[c] \in Requests /\ pc[c] = "commit"
    BY <1>9 DEF CommitRaises, TypeOK, Serves
  <2>2. store' = store \/ store' = store \cup work[c]
    BY <1>9 DEF CommitRaises
  <2>3. \A r : r # req[c] => (Carried(r)' <=> Carried(r)) /\ (Nothing(r)' <=> Nothing(r))
    <3>1. \A r : r # req[c] => Writes(r) \cap work[c] = {}
      BY <2>1, WorkIsWhole, WritesDiffer
    <3>2. \A r : Writes(r)' = Writes(r)
      BY DEF Writes
    <3>3. QED BY <2>2, <3>1, <3>2 DEF Carried, Nothing
  <2>4. Nothing(req[c])
    BY <2>1 DEF TypeOK, Serves, Whole
  <2>5. Carried(req[c])' \/ Nothing(req[c])'
    <3>1. work[c] = {} \/ work[c] = Writes(req[c])
      BY <2>1, WorkIsWhole
    <3>2. req' = req /\ Writes(req[c])' = Writes(req'[c])
      BY <1>9 DEF CommitRaises, Writes
    <3>3. QED BY <2>2, <2>4, <3>1, <3>2 DEF Carried, Nothing
  <2>6. QED
    BY <1>9, <2>1, <2>3, <2>5 DEF CommitRaises, Goto, TypeOK, Serves, Whole
<1>10. ASSUME NEW c \in Containers, Reopen(c) PROVE Whole'
  <2>1. \A q : (Carried(q)' <=> Carried(q)) /\ (Nothing(q)' <=> Nothing(q))
    BY <1>10 DEF Reopen, Carried, Nothing, Writes
  <2>2. QED
    BY <1>10, <2>1
       DEF Reopen, OpenConnection, Preloaded, Accident, Finish, Goto, TypeOK,
           Serves, Whole
<1>11. ASSUME NEW c \in Containers, Respond(c) PROVE Whole'
  <2>1. \A q : (Carried(q)' <=> Carried(q)) /\ (Nothing(q)' <=> Nothing(q))
    BY <1>11 DEF Respond, Carried, Nothing, Writes
  <2>2. QED
    BY <1>11, <2>1 DEF Respond, Finish, Goto, TypeOK, Serves, Whole, Transaction
<1>12. ASSUME NEW c \in Containers, Drop(c) PROVE Whole'
  <2>1. \A q : (Carried(q)' <=> Carried(q)) /\ (Nothing(q)' <=> Nothing(q))
    BY <1>12 DEF Drop, Carried, Nothing, Writes
  <2>2. QED
    BY <1>12, <2>1 DEF Drop, Accident, TypeOK, Serves, Whole
<1>13. ASSUME NEW c \in Containers, Kill(c) PROVE Whole'
  <2>1. \A q : (Carried(q)' <=> Carried(q)) /\ (Nothing(q)' <=> Nothing(q))
    BY <1>13 DEF Kill, Carried, Nothing, Writes
  <2>2. QED
    BY <1>13, <2>1 DEF Kill, Goto, TypeOK, Serves, Whole
<1>14. QED
  BY <1>1, <1>2, <1>3, <1>4, <1>5, <1>6, <1>7, <1>8, <1>9, <1>10, <1>11, <1>12, <1>13
     DEF Next, Handle

\* An error is answered for an accident that was counted before.
LEMMA AccountedStep ==
    ASSUME TypeOK, \A c \in Containers : Transaction(c), Accounted, [Next]_vars
    PROVE  Accounted'
<1>1. CASE UNCHANGED vars
  BY <1>1 DEF vars, TypeOK, Transaction, Accounted, Owed
<1>2. ASSUME NEW c \in Containers, NEW r \in Requests, Receive(c, r) PROVE Accounted'
  BY <1>2 DEF Receive, Goto, TypeOK, Transaction, Accounted, Owed
<1>3. ASSUME NEW c \in Containers, GetConnection(c) PROVE Accounted'
  BY <1>3
     DEF GetConnection, NeedsConnection, OpenConnection, Preloaded,
         Accident, Finish, Goto, TypeOK, Transaction, Accounted, Owed
<1>4. ASSUME NEW c \in Containers, Read(c) PROVE Accounted'
  BY <1>4 DEF Read, Goto, TypeOK, Transaction, Accounted, Owed
<1>5. ASSUME NEW c \in Containers, Write(c) PROVE Accounted'
  BY <1>5 DEF Write, Goto, TypeOK, Transaction, Accounted, Owed
<1>6. ASSUME NEW c \in Containers, Raise(c) PROVE Accounted'
  BY <1>6 DEF Raise, Accident, Goto, TypeOK, Transaction, Accounted, Owed
<1>7. ASSUME NEW c \in Containers, Rollback(c) PROVE Accounted'
  BY <1>7 DEF Rollback, Finish, Goto, TypeOK, Transaction, Accounted, Owed
<1>8. ASSUME NEW c \in Containers, Commit(c) PROVE Accounted'
  BY <1>8 DEF Commit, Goto, TypeOK, Transaction, Accounted, Owed
<1>9. ASSUME NEW c \in Containers, CommitRaises(c) PROVE Accounted'
  BY <1>9 DEF CommitRaises, Accident, Goto, TypeOK, Transaction, Accounted, Owed
<1>10. ASSUME NEW c \in Containers, Reopen(c) PROVE Accounted'
  BY <1>10
     DEF Reopen, OpenConnection, Preloaded, Accident, Finish, Goto, TypeOK,
         Transaction, Accounted, Owed
<1>11. ASSUME NEW c \in Containers, Respond(c) PROVE Accounted'
  BY <1>11 DEF Respond, Finish, Goto, TypeOK, Transaction, Accounted, Owed
<1>12. ASSUME NEW c \in Containers, Drop(c) PROVE Accounted'
  BY <1>12 DEF Drop, Accident, TypeOK, Transaction, Accounted, Owed
<1>13. ASSUME NEW c \in Containers, Kill(c) PROVE Accounted'
  BY <1>13 DEF Kill, Goto, TypeOK, Transaction, Accounted, Owed
<1>14. QED
  BY <1>1, <1>2, <1>3, <1>4, <1>5, <1>6, <1>7, <1>8, <1>9, <1>10, <1>11, <1>12, <1>13
     DEF Next, Handle

-----------------------------------------------------------------------------
(* The theorems. *)

\* Every step keeps the invariant.
LEMMA StepHolds == IInv /\ [Next]_vars => IInv'
BY TypeStep, ServesStep, TransactionStep, WholeStep, AccountedStep DEF IInv

\* The invariant holds in every reachable state.
THEOREM InvariantHolds == Spec => []IInv
<1>1. QED BY InitHolds, StepHolds, PTL DEF Spec

\* For any number of containers, requests, statements and accidents, every
\* variable keeps its type.
THEOREM TypeCorrect == Spec => []TypeOK
<1>1. IInv => TypeOK
  BY DEF IInv
<1>2. QED BY <1>1, InvariantHolds, PTL

\* For any number of them: no request finds anything of an earlier one in the
\* transaction of the connection that they share.
THEOREM NoLeftoversHolds == Spec => []NoLeftovers
<1>1. IInv => NoLeftovers
  BY DEF IInv, Transaction, NoLeftovers
<1>2. QED BY <1>1, InvariantHolds, PTL

\* For any number of them: a container whose parameters were not cached
\* incompletely answers at most one request with an error for each accident.
THEOREM OneErrorPerAccidentHolds == Spec => []OneErrorPerAccident
<1>1. IInv => OneErrorPerAccident
  BY DEF IInv, TypeOK, Accounted, Owed, OneErrorPerAccident
<1>2. QED BY <1>1, InvariantHolds, PTL

\* A handler answers: so does AtomicRequests.
LEMMA AnswerIsAtomic ==
    ASSUME IInv, NEW c \in Containers, store' = store, req[c] \in Requests,
           \/ reply' = [reply EXCEPT ![req[c]] = "error"]
           \/ reply' = [reply EXCEPT ![req[c]] = "ok"] /\ Carried(req[c])
           \/ reply' = [reply EXCEPT ![req[c]] = "refused"] /\ Nothing(req[c])
    PROVE  Atomic!Next
<1>1. reply[req[c]] = "none"
  BY NoRequestAssumption DEF IInv, Serves
<1>2. Nothing(req[c]) => ~Carried(req[c])
  BY WritesSomething DEF Nothing, Carried
<1>3. Atomic!Answer(req[c])
  BY <1>1, <1>2 DEF Atomic!Answer, Atomic!Carried, Atomic!Writes, Carried, Writes
<1>4. QED BY <1>3 DEF Atomic!Next

\* A COMMIT that PostgreSQL carries out: so does AtomicRequests, or nothing
\* changes.
LEMMA CommitIsAtomic ==
    ASSUME IInv, NEW c \in Containers, pc[c] = "commit",
           reply' = reply, store' = store \cup work[c]
    PROVE  Atomic!Next \/ UNCHANGED <<store, reply>>
<1>1. req[c] \in Requests /\ reply[req[c]] = "none"
  BY DEF IInv, TypeOK, Serves
<1>2. Nothing(req[c])
  BY <1>1 DEF IInv, TypeOK, Serves, Whole
<1>3. CASE work[c] = {}
  BY <1>3
<1>4. CASE work[c] = Writes(req[c])
  <2>1. ~Carried(req[c])
    BY <1>2, WritesSomething DEF Nothing, Carried
  <2>2. Atomic!CarryOut(req[c])
    BY <1>1, <1>4, <2>1
       DEF Atomic!CarryOut, Atomic!Carried, Atomic!Writes, Carried, Writes
  <2>3. QED BY <1>1, <2>2 DEF Atomic!Next
<1>5. QED BY <1>3, <1>4, WorkIsWhole DEF IInv

\* Every step of the handlers is one of AtomicRequests, or changes neither what is
\* stored nor what is answered.
LEMMA NextIsAtomic == IInv /\ [Next]_vars => [Atomic!Next]_(Atomic!vars)
<1> SUFFICES ASSUME IInv, [Next]_vars PROVE Atomic!Next \/ UNCHANGED <<store, reply>>
  BY DEF Atomic!vars
<1>1. CASE UNCHANGED vars
  BY <1>1 DEF vars
<1>2. ASSUME NEW c \in Containers, NEW r \in Requests, Receive(c, r)
      PROVE  UNCHANGED <<store, reply>>
  BY <1>2 DEF Receive
<1>3. ASSUME NEW c \in Containers, Read(c) \/ Write(c) \/ Raise(c) \/ Drop(c)
      PROVE  UNCHANGED <<store, reply>>
  BY <1>3 DEF Read, Write, Raise, Drop
<1>4. ASSUME NEW c \in Containers, pc[c] # "idle" PROVE req[c] \in Requests
  BY <1>4 DEF IInv, TypeOK, Serves
<1>5. ASSUME NEW c \in Containers, GetConnection(c)
      PROVE  Atomic!Next \/ UNCHANGED <<store, reply>>
  BY <1>4, <1>5, AnswerIsAtomic DEF GetConnection, Finish
<1>6. ASSUME NEW c \in Containers, Rollback(c) \/ Reopen(c) \/ Kill(c)
      PROVE  Atomic!Next
  BY <1>4, <1>6, AnswerIsAtomic DEF Rollback, Reopen, Kill, Finish
<1>7. ASSUME NEW c \in Containers, Commit(c)
      PROVE  Atomic!Next \/ UNCHANGED <<store, reply>>
  BY <1>7, CommitIsAtomic DEF Commit
<1>8. ASSUME NEW c \in Containers, CommitRaises(c)
      PROVE  Atomic!Next \/ UNCHANGED <<store, reply>>
  BY <1>8, CommitIsAtomic DEF CommitRaises
<1>9. ASSUME NEW c \in Containers, Respond(c) PROVE Atomic!Next
  <2>1. IF done[c] = Statements THEN Carried(req[c]) ELSE Nothing(req[c])
    BY <1>4, <1>9 DEF Respond, IInv, Whole
  <2>2. QED BY <1>4, <1>9, <2>1, AnswerIsAtomic DEF Respond, Finish
<1>10. QED
  BY <1>1, <1>2, <1>3, <1>5, <1>6, <1>7, <1>8, <1>9 DEF Next, Handle

\* The handlers implement AtomicRequests, for any number of containers,
\* requests, statements and accidents: every step of theirs is one of its
\* steps, or leaves what is stored and answered as it is.
THEOREM IsAtomicHolds == Spec => IsAtomic
<1>1. Init => Atomic!Init
  BY DEF Init, Atomic!Init
<1>2. QED
  BY <1>1, InvariantHolds, NextIsAtomic, PTL DEF Spec, IsAtomic, Atomic!Spec
=============================================================================
