--------------------------- MODULE AtomicRequests ---------------------------
(***************************************************************************)
(* What a handler is promised by "with UnitOfWork": the statements of a    *)
(* request are carried out together or not at all, and never after its     *)
(* answer; the answer is "ok" only if they were.  An answer "error" says   *)
(* nothing, and a request that is refused has written nothing.             *)
(***************************************************************************)
CONSTANTS
    Requests,  \* the requests that clients send, each once
    Parts      \* the writing statements of a request

VARIABLES
    store,     \* the statements that are committed
    reply      \* the answer each client got

vars == <<store, reply>>

Writes(r) == {r} \X Parts

Carried(r) == Writes(r) \subseteq store

CarryOut(r) ==
    /\ reply[r] = "none" /\ ~Carried(r)
    /\ store' = store \cup Writes(r)
    /\ UNCHANGED reply

Answer(r) ==
    /\ reply[r] = "none"
    /\ \/ Carried(r) /\ reply' = [reply EXCEPT ![r] = "ok"]
       \/ ~Carried(r) /\ reply' = [reply EXCEPT ![r] = "refused"]
       \/ reply' = [reply EXCEPT ![r] = "error"]
    /\ UNCHANGED store

Init == store = {} /\ reply = [r \in Requests |-> "none"]

Next == \E r \in Requests : CarryOut(r) \/ Answer(r)

Spec == Init /\ [][Next]_vars
=============================================================================
