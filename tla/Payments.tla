------------------------------ MODULE Payments ------------------------------
(***************************************************************************)
(* The invoice ledger of the payments function: record_payment and         *)
(* delete_payment of payment_service.py, run by several Lambda containers  *)
(* over one PostgreSQL database.                                           *)
(*                                                                         *)
(* A container serves one request at a time, in one transaction of         *)
(* isolation level READ COMMITTED: every SELECT is a step of its own and   *)
(* reads what is committed at that moment, together with the transaction's *)
(* own writes.  The writes that end a handler and the COMMIT of            *)
(* UnitOfWork.__exit__ are one step, because nobody sees them before.      *)
(* Every return leaves the with block, so a refused request commits too:   *)
(* it has written nothing.                                                 *)
(*                                                                         *)
(* Money is counted in half cents, so that a request can name an amount    *)
(* that the column payments.amount DECIMAL(10,2) has to round.             *)
(***************************************************************************)
EXTENDS Integers, FiniteSets, Functions

CONSTANTS
    Containers,  \* the warm containers of the payments function
    Invoices,    \* invoices.id
    NoInvoice,   \* stands for "no invoice": an unknown id, or none read yet
    PaymentIds,  \* payments.id, each given to one row at most
    NoPayment,   \* stands for "no payment id"
    Amounts,     \* "amount" of a body: the text "0" passes for one, the number does not
    AmountDue    \* invoices.amount_due, which no code updates; the fees are positive

ASSUME PaymentsAssumption ==
    /\ IsFiniteSet(Containers)
    /\ NoInvoice \notin Invoices
    /\ NoPayment \notin PaymentIds
    /\ Amounts \subseteq Int
    /\ AmountDue \in [Invoices -> Nat]
    /\ \A i \in Invoices : AmountDue[i] > 0 /\ AmountDue[i] % 2 = 0

VARIABLES
    payments,    \* the committed rows of table payments
    status,      \* invoices.status
    issued,      \* ids given so far, those of deleted rows included
    pc,          \* where the handler of each container stands
    req,         \* its request and its local variables
    overlapped,  \* history: invoices that two requests, not both deletes of one
                 \*   payment, worked on at a time
    negative,    \* history: invoices that got a payment below zero
    odd          \* history: invoices that got a payment of nothing or a rounded one

vars == <<payments, status, issued, pc, req, overlapped, negative, odd>>

tables == <<payments, status, issued>>
history == <<overlapped, negative, odd>>

----------------------------------------------------------------------------
\* get_total_by_invoice: the SUM(amount) of the committed rows of each invoice.
paid ==
    [i \in Invoices |->
        SumFunctionOnSet([r \in payments |-> r.amount], {r \in payments : r.invoice = i})]

\* INSERT into a DECIMAL(10,2) column: the half cent rounds away from zero.
Stored(a) == IF a >= 0 THEN 2 * ((a + 1) \div 2) ELSE -(2 * ((1 - a) \div 2))

\* Mutant: an invoice paid to the penny stays partial.
StatusAboveDue(i, total) == IF total > AmountDue[i] THEN "paid" ELSE "partial"

\* Mutant: the label of the status is written in the place of its code.
StatusLabel(i, total) == IF total >= AmountDue[i] THEN "paid" ELSE "Partially Paid"

\* The status each handler writes, from the total it has in hand.
StatusAfterRecord(i, total) == IF total >= AmountDue[i] THEN "paid" ELSE "partial"

StatusAfterDelete(i, total) ==
    CASE total >= AmountDue[i]              -> "paid"
      [] total < AmountDue[i] /\ total > 0  -> "partial"
      [] total < AmountDue[i] /\ total <= 0 -> "unpaid"

----------------------------------------------------------------------------
\* A request and the local variables of its handler: "total" is total_paid,
\* "row" says whether this transaction's DELETE holds the row of "payment".
Callers == {"member", "executive"}

Row == [id : PaymentIds, invoice : Invoices, amount : Int]

Request ==
    [op : {"none", "record", "delete"}, caller : Callers,
     invoice : Invoices \cup {NoInvoice}, payment : PaymentIds \cup {NoPayment},
     amount : Int, total : Int, row : {"free", "held"}]

NoRequest ==
    [op |-> "none", caller |-> "member", invoice |-> NoInvoice, payment |-> NoPayment,
     amount |-> 0, total |-> 0, row |-> "free"]

\* The handler of c has read invoice i, or a payment of it, and is not done.
Busy(c, i) ==
    /\ pc[c] \in {"total", "write", "delete", "recount", "settle"}
    /\ req[c].invoice = i

\* A payment is deleted twice.
Twins(c, d) ==
    req[c].op = "delete" /\ req[d].op = "delete" /\ req[c].payment = req[d].payment

\* c starts to work on invoice i: an overlap, if another request does, but for
\* one that deletes the same payment.
Touch(c, i) ==
    /\ overlapped' = IF \E d \in Containers \ {c} : Busy(d, i) /\ ~Twins(c, d)
                     THEN overlapped \cup {i} ELSE overlapped
    /\ UNCHANGED <<negative, odd>>

Goto(c, stage) == pc' = [pc EXCEPT ![c] = stage]

\* The handler is done with the request: a response, or an exception.
Return(c) == Goto(c, "idle") /\ req' = [req EXCEPT ![c] = NoRequest]

\* A return before anything was written.
Refuse(c) == Return(c) /\ UNCHANGED <<tables, history>>

----------------------------------------------------------------------------
\* PaymentIds bounds how many payments are ever recorded: no request comes in
\* that would find no id left.
IdLeft ==
    Cardinality({d \in Containers : req[d].op = "record"}) < Cardinality(PaymentIds \ issued)

\* A request reaches an idle container; an executive stands for an admin
\* too, a member for a caller that is no member at all.
Receive(c) ==
    /\ pc[c] = "idle"
    /\ \E caller \in Callers :
         \/ IdLeft /\ \E i \in Invoices \cup {NoInvoice}, a \in Amounts :
              req' = [req EXCEPT ![c] = [NoRequest EXCEPT !.op = "record", !.caller = caller,
                                                          !.invoice = i, !.amount = a]]
         \/ \E id \in PaymentIds :
              req' = [req EXCEPT ![c] = [NoRequest EXCEPT !.op = "delete", !.caller = caller,
                                                          !.payment = id]]
    /\ Goto(c, "authorise")
    /\ UNCHANGED <<tables, history>>

\* get_by_cognito_sub and _require_executive: 403 unless the caller is one.
Authorise(c) ==
    /\ pc[c] = "authorise"
    /\ \/ req[c].caller = "member" /\ Refuse(c)
       \/ req[c].caller = "executive" /\ Goto(c, "lookup") /\ UNCHANGED <<tables, history, req>>

\* Mutant: the status of the invoice is not looked at.
LookupInvoiceAnyStatus(c) ==
    LET i == req[c].invoice IN
    /\ pc[c] = "lookup" /\ req[c].op = "record"
    /\ \/ Refuse(c)
       \/ /\ i # NoInvoice
          /\ Goto(c, "total")
          /\ Touch(c, i)
          /\ UNCHANGED <<tables, req>>

\* record_payment reads the invoice: 404 if there is none, 422 if its status
\* is paid, and 422 if a field of the body is missing, whatever the invoice.
LookupInvoice(c) ==
    LET i == req[c].invoice IN
    /\ pc[c] = "lookup" /\ req[c].op = "record"
    /\ \/ Refuse(c)
       \/ /\ i # NoInvoice /\ status[i] # "paid"
          /\ Goto(c, "total")
          /\ Touch(c, i)
          /\ UNCHANGED <<tables, req>>

\* Mutant: the amount is compared with what is due, not with what is left.
ReadTotalAgainstDue(c) ==
    LET i == req[c].invoice IN
    /\ pc[c] = "total"
    /\ \/ req[c].amount > AmountDue[i] /\ Refuse(c)
       \/ /\ req[c].amount <= AmountDue[i]
          /\ req' = [req EXCEPT ![c].total = paid[i]]
          /\ Goto(c, "write")
          /\ UNCHANGED <<tables, history>>

\* get_total_by_invoice, and 422 if the amount exceeds what is outstanding.
ReadTotal(c) ==
    LET i == req[c].invoice IN
    /\ pc[c] = "total"
    /\ \/ req[c].amount > AmountDue[i] - paid[i] /\ Refuse(c)
       \/ /\ req[c].amount <= AmountDue[i] - paid[i]
          /\ req' = [req EXCEPT ![c].total = paid[i]]
          /\ Goto(c, "write")
          /\ UNCHANGED <<tables, history>>

\* INSERT the payment, UPDATE the status from the total read before and the
\* amount of the body (not the amount stored), COMMIT.  If the connection
\* breaks in COMMIT, either this step was taken or Abort was; the response is
\* 500 in both cases.
WritePayment(c) ==
    LET i == req[c].invoice
        a == req[c].amount IN
    /\ pc[c] = "write"
    /\ \E id \in PaymentIds \ issued :
         /\ payments' = payments \cup {[id |-> id, invoice |-> i, amount |-> Stored(a)]}
         /\ issued' = issued \cup {id}
    /\ status' = [status EXCEPT ![i] = StatusAfterRecord(i, req[c].total + a)]
    /\ negative' = IF a < 0 THEN negative \cup {i} ELSE negative
    /\ odd' = IF a = 0 \/ Stored(a) # a THEN odd \cup {i} ELSE odd
    /\ UNCHANGED overlapped
    /\ Return(c)

\* Mutant: the payment is read with a shared row lock, to be upgraded by the
\* DELETE.
LookupPaymentForShare(c) ==
    /\ pc[c] = "lookup" /\ req[c].op = "delete"
    /\ \/ (\A r \in payments : r.id # req[c].payment) /\ Refuse(c)
       \/ \E r \in payments :
            /\ r.id = req[c].payment
            /\ req' = [req EXCEPT ![c].invoice = r.invoice, ![c].row = "held"]
            /\ Goto(c, "delete")
            /\ Touch(c, r.invoice)
            /\ UNCHANGED tables

\* delete_payment reads the payment: 404 if there is none.
LookupPayment(c) ==
    /\ pc[c] = "lookup" /\ req[c].op = "delete"
    /\ \/ (\A r \in payments : r.id # req[c].payment) /\ Refuse(c)
       \/ \E r \in payments :
            /\ r.id = req[c].payment
            /\ req' = [req EXCEPT ![c].invoice = r.invoice]
            /\ Goto(c, "delete")
            /\ Touch(c, r.invoice)
            /\ UNCHANGED tables

\* The DELETE waits while another transaction has deleted the row and is not
\* done, and deletes nothing if that transaction then commits.
RowLocked(c) == \E d \in Containers \ {c} : req[d].row = "held" /\ req[d].payment = req[c].payment

DeleteRow(c) ==
    /\ pc[c] = "delete"
    /\ ~RowLocked(c)
    /\ \/ /\ \A r \in payments : r.id # req[c].payment
          /\ UNCHANGED req
       \/ \E r \in payments :
            /\ r.id = req[c].payment
            /\ req' = [req EXCEPT ![c].row = "held", ![c].amount = r.amount]
    /\ Goto(c, "recount")
    /\ UNCHANGED <<tables, history>>

\* Mutant: the total is summed before the DELETE.
RecountBeforeDelete(c) ==
    /\ pc[c] = "recount"
    /\ req' = [req EXCEPT ![c].total = paid[req[c].invoice]]
    /\ Goto(c, "settle")
    /\ UNCHANGED <<tables, history>>

\* get_total_by_invoice sees the committed rows but for the one this
\* transaction has deleted ("amount" is 0 if it deleted none).
Recount(c) ==
    /\ pc[c] = "recount"
    /\ req' = [req EXCEPT ![c].total = paid[req[c].invoice] - req[c].amount]
    /\ Goto(c, "settle")
    /\ UNCHANGED <<tables, history>>

\* UPDATE the status from that total, COMMIT (the DELETE takes effect).
WriteDelete(c) ==
    LET i == req[c].invoice IN
    /\ pc[c] = "settle"
    /\ payments' = IF req[c].row = "held" THEN {r \in payments : r.id # req[c].payment}
                                    ELSE payments
    /\ status' = [status EXCEPT ![i] = StatusAfterDelete(i, req[c].total)]
    /\ UNCHANGED <<issued, history>>
    /\ Return(c)

\* An exception, a COMMIT that fails, the 30 s timeout of the function or a
\* crash of the container: the transaction is rolled back.
Abort(c) == pc[c] # "idle" /\ Refuse(c)

----------------------------------------------------------------------------
Init ==
    /\ payments = {} /\ issued = {}
    /\ status = [i \in Invoices |-> "unpaid"]
    /\ pc = [c \in Containers |-> "idle"]
    /\ req = [c \in Containers |-> NoRequest]
    /\ overlapped = {} /\ negative = {} /\ odd = {}

\* The steps of a handler that serves a request.
Handle(c) ==
    \/ Authorise(c)
    \/ LookupInvoice(c) \/ ReadTotal(c) \/ WritePayment(c)
    \/ LookupPayment(c) \/ DeleteRow(c) \/ Recount(c) \/ WriteDelete(c)

Next == \E c \in Containers : Receive(c) \/ Handle(c) \/ Abort(c)

Spec == Init /\ [][Next]_vars

\* A handler goes on until it returns: every statement it sends is answered.
\* A DELETE that waits for a row is granted it in the order of the waiters.
FairSpec ==
    /\ Spec
    /\ \A c \in Containers : WF_vars(Handle(c)) /\ SF_vars(DeleteRow(c))

----------------------------------------------------------------------------
Stages == {"idle", "authorise", "lookup", "total", "write", "delete", "recount", "settle"}

TypeOK ==
    /\ payments \subseteq Row
    /\ issued \subseteq PaymentIds
    /\ status \in [Invoices -> {"unpaid", "partial", "paid"}]
    /\ pc \in [Containers -> Stages]
    /\ req \in [Containers -> Request]
    /\ overlapped \subseteq Invoices
    /\ negative \subseteq Invoices
    /\ odd \subseteq Invoices

\* "A payment cannot exceed the outstanding balance": the payments of an
\* invoice never add up to more than is due, as long as no two requests worked
\* on it at a time, but to delete one payment twice, and none of its payments
\* was below zero.  It takes the check of record_payment against a total that
\* was read before, and every delete in between, to keep it.
NoOverpayment ==
    \A i \in Invoices \ (overlapped \cup negative) : paid[i] <= AmountDue[i]

\* The status that record_payment or delete_payment left on an invoice is the
\* one its committed payments call for, also after two deletes of one payment,
\* unless other requests overlapped on it or it got a payment of zero, below
\* zero or with a fraction of a cent.
StatusAgrees ==
    \A i \in Invoices \ (overlapped \cup negative \cup odd) :
        status[i] = StatusAfterDelete(i, paid[i])

\* Whatever overlaps: the check of each request against the total it read
\* bounds the race.  N containers can record N times what is due, not more.
OverpaymentBounded ==
    \A i \in Invoices \ negative : paid[i] <= Cardinality(Containers) * AmountDue[i]

\* With the amounts left aside, what the treasurer goes by: while no requests
\* overlapped and no amount was odd, an invoice has the status paid exactly if
\* its payments cover what is due.
PaidIffCovered ==
    \A i \in Invoices \ (overlapped \cup negative \cup odd) :
        (status[i] = "paid") <=> (paid[i] >= AmountDue[i])

\* "A payment cannot be recorded against a fully paid invoice": once the
\* status is paid no row is added, but for requests that overlap.
PaidTakesNoPayment ==
    [][\A i \in Invoices :
         status[i] = "paid" /\ i \notin overlapped' =>
             \A r \in payments' : r.invoice = i => r \in payments]_vars

\* Each invoice is the account the treasurer is promised, in every step of the
\* handlers: record_payment accepts what is outstanding at that moment, not
\* only when it looked; delete_payment takes back what was paid; and the status
\* follows in the same step; of two deletes of one payment the second takes
\* nothing back.  Excused is an invoice on which other requests overlapped, or
\* that got a payment of zero, below zero or with a fraction of a cent.
Excused == overlapped \cup negative \cup odd

Account == INSTANCE Accounts WITH balance <- paid, excused <- Excused

KeepsAccounts == Account!Spec

\* No handler waits for ever: the row lock of a DELETE is always released,
\* and handlers never wait for one another in a circle.
EveryRequestReturns == \A c \in Containers : pc[c] # "idle" ~> pc[c] = "idle"
=============================================================================
