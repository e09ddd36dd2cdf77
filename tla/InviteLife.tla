------------------------------ MODULE InviteLife ------------------------------
(***************************************************************************)
(* The life of an invite, as the functions that share the table invites    *)
(* see it of each other: stored once, looked at by validate_invite, marked *)
(* expired by one that found it pending, and used by register.  It never   *)
(* becomes pending again and its row is never deleted.                     *)
(*                                                                         *)
(* Invites and Registration each implement this, one with the sending and  *)
(* the validation in detail and one with the registration, so each may     *)
(* take the other as it is described here.                                 *)
(***************************************************************************)
CONSTANT Codes    \* invites.activation_code

VARIABLES
    status,       \* invites.status, "none" while there is no row
    reading       \* the invites that a validate_invite has found overdue

vars == <<status, reading>>

Store(k) ==
    /\ status[k] = "none"
    /\ status' = [status EXCEPT ![k] = "pending"]
    /\ UNCHANGED reading

Look(k) ==
    /\ status[k] = "pending"
    /\ reading' = reading \cup {k}
    /\ UNCHANGED status

\* Marks the invite, whatever it has become; another validate_invite may still
\* be about to do the same.
Expire(k) ==
    /\ k \in reading
    /\ status' = [status EXCEPT ![k] = "expired"]
    /\ reading' \in {reading, reading \ {k}}

\* A validate_invite that does not get to its mark.
GiveUp(k) ==
    /\ k \in reading
    /\ reading' = reading \ {k}
    /\ UNCHANGED status

Use(k) ==
    /\ status[k] # "none"
    /\ status' = [status EXCEPT ![k] = "used"]
    /\ UNCHANGED reading

Init == status = [k \in Codes |-> "none"] /\ reading = {}

Next == \E k \in Codes : Store(k) \/ Look(k) \/ Expire(k) \/ GiveUp(k) \/ Use(k)

Spec == Init /\ [][Next]_vars
=============================================================================
