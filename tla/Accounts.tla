------------------------------ MODULE Accounts ------------------------------
(***************************************************************************)
(* What the treasurer is promised of an invoice: it is an account on which *)
(* payments are accepted as far as something is outstanding, and taken     *)
(* back as far as something was paid, and whose status says at any moment  *)
(* what the balance comes to.  Rows, totals read earlier and the two rules *)
(* for the status are no part of it.                                       *)
(*                                                                         *)
(* An account may be excused, for good; nothing is promised of it then,    *)
(* but that what happens to it leaves the other accounts alone.            *)
(***************************************************************************)
EXTENDS Integers

CONSTANTS
    Invoices,    \* invoices.id
    AmountDue    \* invoices.amount_due

VARIABLES
    balance,     \* what is paid of each invoice
    status,      \* invoices.status
    excused      \* the invoices of which nothing is promised any more

vars == <<balance, status, excused>>

StatusOf(i, b) == IF b >= AmountDue[i] THEN "paid" ELSE IF b > 0 THEN "partial" ELSE "unpaid"

\* The balance of i becomes b, and its status what that comes to.
Book(i, b) ==
    /\ balance' = [balance EXCEPT ![i] = b]
    /\ status' = [status EXCEPT ![i] = StatusOf(i, b)]
    /\ UNCHANGED excused

\* There is nothing to accept of an invoice that is paid.
Accept(i) ==
    /\ i \notin excused
    /\ \E a \in 1 .. (AmountDue[i] - balance[i]) : Book(i, balance[i] + a)

TakeBack(i) ==
    /\ i \notin excused
    /\ \E a \in 1 .. balance[i] : Book(i, balance[i] - a)

Excuse(i) ==
    /\ excused' = excused \cup {i}
    /\ \A j \in Invoices \ {i} : balance'[j] = balance[j] /\ status'[j] = status[j]

Init ==
    /\ balance = [i \in Invoices |-> 0]
    /\ status = [i \in Invoices |-> StatusOf(i, 0)]
    /\ excused = {}

Next == \E i \in Invoices : Accept(i) \/ TakeBack(i) \/ Excuse(i)

Spec == Init /\ [][Next]_vars
=============================================================================
