----------------------------- MODULE UnitOfWork -----------------------------
(***************************************************************************)
(* shared/db.py and shared/uow/base.py, with the handler around them: a    *)
(* container serves one request at a time over the one connection that it  *)
(* keeps between requests.  "with UnitOfWork()" takes the connection, or   *)
(* opens it, and ends the transaction: COMMIT when the block returns,      *)
(* ROLLBACK when it raises.  Servers drop connections, statements and      *)
(* COMMITs fail, parameters are missing and containers are killed.         *)
(*                                                                         *)
(* A request is what members.py does: it reads, and either refuses or runs *)
(* its writing statements, 1 .. Statements; what they write is of no       *)
(* interest here, and a row stands for a statement of a request.           *)
(***************************************************************************)
EXTENDS Naturals

CONSTANTS
    Containers,    \* the Lambda execution environments
    Requests,      \* the requests that clients send, each once
    NoRequest,     \* what an idle container serves
    Statements,    \* the number of writing statements of a request
    MaxAccidents   \* bound: accidents in the life of a container

ASSUME NoRequestAssumption == NoRequest \notin Requests
ASSUME StatementsAssumption == Statements \in Nat \ {0}
ASSUME MaxAccidentsAssumption == MaxAccidents \in Nat

VARIABLES
    params,     \* _cached_params: "none" (empty), "partial" or "full"
    link,       \* _connection, see Links
    work,       \* the rows of the transaction open on the connection
    pc,         \* where the handler of each container is
    req,        \* the request it serves
    done,       \* the writing statements it has run
    accidents,  \* history: what went wrong in the life of the container
    errors,     \* history: the requests it answered with 500 so far
    store,      \* the rows that are committed
    reply       \* the answer each client got

vars == <<params, link, work, pc, req, done, accidents, errors, store, reply>>

\* "none": no connection yet; "aborted": a statement failed and PostgreSQL
\* takes no other until ROLLBACK; "stale": the server is gone and the client
\* does not know; "closed": conn.closed is true.
Links == {"none", "open", "aborted", "stale", "closed"}

Steps == {"idle", "enter", "read", "write", "commit", "rollback", "reopen",
          "respond"}

Parts == 1 .. Statements
Rows == Requests \X Parts
Writes(r) == {r} \X Parts

-----------------------------------------------------------------------------
\* Every exception, and every dropped connection, is an accident.
Accident(c) ==
    /\ accidents[c] < MaxAccidents
    /\ accidents' = [accidents EXCEPT ![c] = @ + 1]

Goto(c, step) == pc' = [pc EXCEPT ![c] = step]

Finish(c, answer) ==
    /\ reply' = [reply EXCEPT ![req[c]] = answer]
    /\ errors' = [errors EXCEPT ![c] = IF answer = "error" THEN @ + 1 ELSE @]
    /\ req' = [req EXCEPT ![c] = NoRequest]
    /\ Goto(c, "idle")

Receive(c, r) ==
    /\ pc[c] = "idle"
    /\ reply[r] = "none" /\ \A d \in Containers : req[d] # r
    /\ req' = [req EXCEPT ![c] = r]
    /\ done' = [done EXCEPT ![c] = 0]
    /\ Goto(c, "enter")
    /\ UNCHANGED <<params, link, work, accidents, errors, store, reply>>

\* preload_params fetches the parameters unless some are cached.  The service
\* may not answer ("none"), and it leaves out those that do not exist
\* ("partial"): they are never asked for again.
Preloaded(c) == IF params[c] = "none" THEN {"none", "partial", "full"}
                                      ELSE {params[c]}

\* _open_connection(preload_params()): params[...] raises KeyError if one is
\* missing, and psycopg.connect may raise.  On an exception _connection keeps
\* its value.  To find the cache still partial is no new accident.
OpenConnection(c, opened) ==
    \E p \in Preloaded(c) :
        /\ opened => p = "full"
        /\ params' = [params EXCEPT ![c] = p]
        /\ link' = IF opened THEN [link EXCEPT ![c] = "open"] ELSE link
        /\ IF opened \/ params[c] = "partial" THEN UNCHANGED accidents
                                              ELSE Accident(c)

\* Mutant: the connection is not asked whether it is closed.
NeedsFirstConnection(c) == link[c] = "none"

NeedsConnection(c) == link[c] \in {"none", "closed"}

\* get_connection, called by __enter__: an exception is raised before the
\* block is entered, so __exit__ does not run.
GetConnection(c) ==
    /\ pc[c] = "enter"
    /\ \/ /\ ~NeedsConnection(c)
          /\ Goto(c, "read")
          /\ UNCHANGED <<params, link, req, accidents, errors, reply>>
       \/ /\ NeedsConnection(c)
          /\ OpenConnection(c, TRUE)
          /\ Goto(c, "read")
          /\ UNCHANGED <<req, errors, reply>>
       \/ /\ NeedsConnection(c)
          /\ OpenConnection(c, FALSE)
          /\ Finish(c, "error")
    /\ UNCHANGED <<work, done, store>>

\* A statement on a connection that the server has dropped raises, and from
\* then on conn.closed is true (and every statement raises); one that PostgreSQL
\* refuses aborts the transaction; the code around it may raise too and leaves
\* the transaction as it is.
Raise(c) ==
    /\ pc[c] \in {"read", "write"}
    /\ \/ /\ link[c] = "stale"
          /\ link' = [link EXCEPT ![c] = "closed"]
          /\ UNCHANGED <<work, accidents>>
       \/ /\ link[c] \in {"aborted", "closed"}
          /\ UNCHANGED <<link, work, accidents>>
       \/ /\ link[c] = "open"
          /\ link' = [link EXCEPT ![c] = "aborted"]
          /\ work' = [work EXCEPT ![c] = {}]
          /\ Accident(c)
       \/ /\ link[c] = "open"
          /\ Accident(c)
          /\ UNCHANGED <<link, work>>
    /\ Goto(c, "rollback")
    /\ UNCHANGED <<params, req, done, errors, store, reply>>

\* The handler reads the caller and the rows its checks need, and goes on to
\* write or returns 403, 404 or 422; a return commits as well.
Read(c) ==
    /\ pc[c] = "read" /\ link[c] = "open"
    /\ Goto(c, "write") \/ Goto(c, "commit")
    /\ UNCHANGED <<params, link, work, req, done, accidents, errors, store, reply>>

\* Mutant: the loop over the statements runs once more.
WriteOnceMore(c) ==
    /\ pc[c] = "write" /\ link[c] = "open"
    /\ work' = [work EXCEPT ![c] = @ \cup {<<req[c], done[c] + 1>>}]
    /\ done' = [done EXCEPT ![c] = @ + 1]
    /\ Goto(c, IF done[c] = Statements THEN "commit" ELSE "write")
    /\ UNCHANGED <<params, link, req, accidents, errors, store, reply>>

\* Mutant: the connection is in autocommit mode.
WriteAutocommit(c) ==
    /\ pc[c] = "write" /\ link[c] = "open"
    /\ store' = store \cup {<<req[c], done[c] + 1>>}
    /\ done' = [done EXCEPT ![c] = @ + 1]
    /\ Goto(c, IF done[c] + 1 = Statements THEN "commit" ELSE "write")
    /\ UNCHANGED <<params, link, work, req, accidents, errors, reply>>

Write(c) ==
    /\ pc[c] = "write" /\ link[c] = "open"
    /\ work' = [work EXCEPT ![c] = @ \cup {<<req[c], done[c] + 1>>}]
    /\ done' = [done EXCEPT ![c] = @ + 1]
    /\ Goto(c, IF done[c] + 1 = Statements THEN "commit" ELSE "write")
    /\ UNCHANGED <<params, link, req, accidents, errors, store, reply>>

\* Mutant: the exception leaves the block without a ROLLBACK.
RollbackForgotten(c) ==
    /\ pc[c] = "rollback"
    /\ Finish(c, "error")
    /\ UNCHANGED <<params, link, work, done, accidents, store>>

\* __exit__ after an exception.  rollback() raises if the server is gone; the
\* exception is swallowed, and the connection is closed from then on.  The
\* first exception goes on to the handler, which answers 500.
Rollback(c) ==
    /\ pc[c] = "rollback"
    /\ link' = [link EXCEPT ![c] = CASE @ = "stale"   -> "closed"
                                     [] @ = "aborted" -> "open"
                                     [] OTHER         -> @]
    /\ work' = [work EXCEPT ![c] = {}]
    /\ Finish(c, "error")
    /\ UNCHANGED <<params, done, accidents, store>>

\* __exit__ after a return.
Commit(c) ==
    /\ pc[c] = "commit" /\ link[c] = "open"
    /\ store' = store \cup work[c]
    /\ work' = [work EXCEPT ![c] = {}]
    /\ Goto(c, "respond")
    /\ UNCHANGED <<params, link, req, done, accidents, errors, reply>>

\* commit() raises: PostgreSQL refuses the COMMIT, or the connection is lost
\* before or after PostgreSQL has carried it out.
CommitRaises(c) ==
    /\ pc[c] = "commit"
    /\ \/ /\ link[c] = "stale"
          /\ link' = [link EXCEPT ![c] = "closed"]
          /\ UNCHANGED <<store, accidents>>
       \/ /\ link[c] = "open"
          /\ Accident(c)
          /\ \/ UNCHANGED <<link, store>>
             \/ /\ link' = [link EXCEPT ![c] = "closed"]
                /\ store' \in {store, store \cup work[c]}
    /\ work' = [work EXCEPT ![c] = {}]
    /\ Goto(c, "reopen")
    /\ UNCHANGED <<params, req, done, errors, reply>>

\* The except clause of __exit__: db._connection is replaced whatever state it
\* is in, and either the exception of commit() or that of the opening goes on
\* to the handler.
Reopen(c) ==
    /\ pc[c] = "reopen"
    /\ \E opened \in BOOLEAN : OpenConnection(c, opened)
    /\ Finish(c, "error")
    /\ UNCHANGED <<work, done, store>>

Respond(c) ==
    /\ pc[c] = "respond"
    /\ Finish(c, IF done[c] = Statements THEN "ok" ELSE "refused")
    /\ UNCHANGED <<params, link, work, done, accidents, store>>

-----------------------------------------------------------------------------
\* The server drops the connection and rolls its transaction back.
Drop(c) ==
    /\ link[c] \in {"open", "aborted"}
    /\ Accident(c)
    /\ link' = [link EXCEPT ![c] = "stale"]
    /\ work' = [work EXCEPT ![c] = {}]
    /\ UNCHANGED <<params, pc, req, done, errors, store, reply>>

\* The container is killed (the timeout of Lambda, or out of memory) while it
\* serves a request; another takes its place, with empty caches.  (A kill after
\* PostgreSQL has the COMMIT is Commit or CommitRaises, then Kill.)
Kill(c) ==
    /\ pc[c] # "idle"
    /\ reply' = [reply EXCEPT ![req[c]] = "error"]
    /\ req' = [req EXCEPT ![c] = NoRequest]
    /\ Goto(c, "idle")
    /\ params' = [params EXCEPT ![c] = "none"]
    /\ link' = [link EXCEPT ![c] = "none"]
    /\ work' = [work EXCEPT ![c] = {}]
    /\ accidents' = [accidents EXCEPT ![c] = 0]
    /\ errors' = [errors EXCEPT ![c] = 0]
    /\ UNCHANGED <<done, store>>

Init ==
    /\ params = [c \in Containers |-> "none"]
    /\ link = [c \in Containers |-> "none"]
    /\ work = [c \in Containers |-> {}]
    /\ pc = [c \in Containers |-> "idle"]
    /\ req = [c \in Containers |-> NoRequest]
    /\ done = [c \in Containers |-> 0]
    /\ accidents = [c \in Containers |-> 0]
    /\ errors = [c \in Containers |-> 0]
    /\ store = {}
    /\ reply = [r \in Requests |-> "none"]

Handle(c) ==
    \/ GetConnection(c) \/ Read(c) \/ Write(c) \/ Raise(c) \/ Rollback(c)
    \/ Commit(c) \/ CommitRaises(c) \/ Reopen(c) \/ Respond(c)

Next ==
    \E c \in Containers :
        \/ \E r \in Requests : Receive(c, r)
        \/ Handle(c)
        \/ Drop(c) \/ Kill(c)

Spec == Init /\ [][Next]_vars

-----------------------------------------------------------------------------
\* Every variable keeps its type.
TypeOK ==
    /\ params \in [Containers -> {"none", "partial", "full"}]
    /\ link \in [Containers -> Links]
    /\ work \in [Containers -> SUBSET Rows]
    /\ pc \in [Containers -> Steps]
    /\ req \in [Containers -> Requests \cup {NoRequest}]
    /\ done \in [Containers -> 0 .. Statements]
    /\ accidents \in [Containers -> Nat]
    /\ errors \in [Containers -> Nat]
    /\ store \subseteq Rows
    /\ reply \in [Requests -> {"none", "ok", "refused", "error"}]

\* A request begins on a connection without a transaction: nothing of an
\* earlier request is left in it, written or failed, whatever happened to that
\* one.  (The connection is shared by the requests of a container, and
\* __exit__ is all that separates them.)
NoLeftovers ==
    \A c \in Containers : pc[c] \in {"idle", "enter"} =>
                              work[c] = {} /\ link[c] # "aborted"

\* A connection that is lost, a COMMIT that fails or a parameter service that
\* does not answer costs a container one request, not the ones after it
\* (get_connection replaces a closed connection, __exit__ one that did not
\* commit) - unless the parameters were cached before they were complete.
OneErrorPerAccident ==
    \A c \in Containers : params[c] # "partial" => errors[c] <= accidents[c]

\* The handlers keep the promise of AtomicRequests: a request is carried out
\* wholly or not at all, before its answer, and is refused or "ok" truthfully.
Atomic == INSTANCE AtomicRequests WITH
    Requests <- Requests, Parts <- Parts, store <- store, reply <- reply
IsAtomic == Atomic!Spec
=============================================================================
