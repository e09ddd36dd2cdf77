--------------------------- MODULE PaymentsProofs ---------------------------
(***************************************************************************)
(* Theorems about Payments, for every number of containers, invoices and   *)
(* payments, every amount and every amount due.                            *)
(***************************************************************************)
EXTENDS Payments, SumProofs

----------------------------------------------------------------------------
(* Arithmetic of the column DECIMAL(10,2).                                 *)

\* What the column stores is a whole number of cents; it is not below zero if
\* the amount is not, and rounding never lifts an amount above a whole number
\* of cents it did not exceed.
LEMMA StoredFacts ==
    ASSUME NEW a \in Int
    PROVE  /\ Stored(a) \in Int
           /\ Stored(a) % 2 = 0
           /\ a >= 0 => Stored(a) >= 0
           /\ \A n \in Int : n % 2 = 0 /\ a <= n => Stored(a) <= n
<1>1. CASE a >= 0
  <2> DEFINE h == (a + 1) \div 2
  <2>1. h \in Int /\ (a + 1 = 2 * h \/ a + 1 = 2 * h + 1)
    BY <1>1
  <2>2. Stored(a) = 2 * h
    BY <1>1 DEF Stored
  <2>3. QED BY <1>1, <2>1, <2>2
<1>2. CASE a < 0
  <2> DEFINE h == (1 - a) \div 2
  <2>1. h \in Int /\ (1 - a = 2 * h \/ 1 - a = 2 * h + 1)
    BY <1>2
  <2>2. Stored(a) = -(2 * h)
    BY <1>2 DEF Stored
  <2>3. QED BY <1>2, <2>1, <2>2
<1>3. QED BY <1>1, <1>2

----------------------------------------------------------------------------
(* Type correctness.                                                       *)

\* A handler that has read its invoice, or a payment of it, works on an
\* invoice that exists.
BusyOnInvoice ==
    \A c \in Containers :
        pc[c] \in {"total", "write", "delete", "recount", "settle"} => req[c].invoice \in Invoices

Typed == TypeOK /\ BusyOnInvoice /\ IsFiniteSet(payments)

Amount(rows) == [r \in rows |-> r.amount]
RowsOf(rows, i) == {r \in rows : r.invoice = i}

\* What is paid of an invoice is the sum over its rows, a number.
LEMMA PaidType ==
    ASSUME Typed
    PROVE  /\ paid \in [Invoices -> Int]
           /\ \A i \in Invoices : paid[i] = SumFunctionOnSet(Amount(payments), RowsOf(payments, i))
<1>1. \A i \in Invoices : paid[i] = SumFunctionOnSet(Amount(payments), RowsOf(payments, i))
  BY DEF paid, Amount, RowsOf
<1>2. ASSUME NEW i \in Invoices PROVE paid[i] \in Int
  <2>1. /\ IsFiniteSet(RowsOf(payments, i))
        /\ \A r \in RowsOf(payments, i) : Amount(payments)[r] \in Int
    BY FS_Subset DEF RowsOf, Amount, Typed, TypeOK, Row
  <2>2. QED BY <1>1, <2>1, SumType
<1>3. DOMAIN paid = Invoices /\ paid = [i \in Invoices |-> paid[i]]
  BY DEF paid
<1>4. QED BY <1>1, <1>2, <1>3

PaidInt == paid \in [Invoices -> Int]

\* It is one after a step, too.
LEMMA PaidTypeNext == Typed' => PaidInt'
<1>1. Typed => PaidInt
  BY PaidType DEF PaidInt
<1>2. QED BY <1>1, PTL

\* As long as the rows stay, so does what is paid.
LEMMA PaidSame == ASSUME payments' = payments PROVE paid' = paid
BY DEF paid

\* What an idle container serves has the type of a request.
LEMMA NoRequestType == NoRequest \in Request
BY DEF NoRequest, Request, Callers

\* The requests that Receive makes are requests.
LEMMA RecordRequestType ==
    ASSUME NEW q \in Request, NEW caller \in Callers, NEW i \in Invoices \cup {NoInvoice},
           NEW a \in Int
    PROVE  [q EXCEPT !.op = "record", !.caller = caller, !.invoice = i, !.amount = a] \in Request
BY DEF Request, Callers

\* A request to delete a payment has the type of a request.
LEMMA DeleteRequestType ==
    ASSUME NEW q \in Request, NEW caller \in Callers, NEW id \in PaymentIds
    PROVE  [q EXCEPT !.op = "delete", !.caller = caller, !.payment = id] \in Request
BY DEF Request, Callers

\* What Receive leaves in the fields the invariants speak of.
LEMMA ReceivedRequest ==
    ASSUME req \in [Containers -> Request], NEW c \in Containers, Receive(c)
    PROVE  /\ req'[c].row = "free"
           /\ req'[c].op = "delete" => req'[c].amount = 0
           /\ \A d \in Containers \ {c} : req'[d] = req[d]
<1>1. \A caller \in Callers, i \in Invoices \cup {NoInvoice}, a \in Amounts :
        LET q == [NoRequest EXCEPT !.op = "record", !.caller = caller, !.invoice = i, !.amount = a]
        IN  q.row = "free" /\ q.op = "record"
  BY DEF NoRequest
<1>2. \A caller \in Callers, id \in PaymentIds :
        LET q == [NoRequest EXCEPT !.op = "delete", !.caller = caller, !.payment = id]
        IN  q.row = "free" /\ q.amount = 0
  BY DEF NoRequest
<1>3. \/ \E caller \in Callers, i \in Invoices \cup {NoInvoice}, a \in Amounts :
            req' = [req EXCEPT ![c] = [NoRequest EXCEPT !.op = "record", !.caller = caller,
                                                        !.invoice = i, !.amount = a]]
      \/ \E caller \in Callers, id \in PaymentIds :
            req' = [req EXCEPT ![c] = [NoRequest EXCEPT !.op = "delete", !.caller = caller,
                                                        !.payment = id]]
  BY Zenon DEF Receive
<1>4. PICK q : req' = [req EXCEPT ![c] = q] /\ q.row = "free" /\ (q.op = "delete" => q.amount = 0)
  <2>1. ASSUME NEW caller \in Callers, NEW i \in Invoices \cup {NoInvoice}, NEW a \in Amounts,
               req' = [req EXCEPT ![c] = [NoRequest EXCEPT !.op = "record", !.caller = caller,
                                                           !.invoice = i, !.amount = a]]
        PROVE  \E q : /\ req' = [req EXCEPT ![c] = q] /\ q.row = "free"
                      /\ q.op = "delete" => q.amount = 0
    <3> DEFINE q == [NoRequest EXCEPT !.op = "record", !.caller = caller, !.invoice = i, !.amount = a]
    <3>1. q.row = "free" /\ q.op = "record"
      BY <1>1
    <3>2. req' = [req EXCEPT ![c] = q]
      BY <2>1
    <3> HIDE DEF q
    <3>3. QED BY <3>1, <3>2
  <2>2. ASSUME NEW caller \in Callers, NEW id \in PaymentIds,
               req' = [req EXCEPT ![c] = [NoRequest EXCEPT !.op = "delete", !.caller = caller,
                                                           !.payment = id]]
        PROVE  \E q : /\ req' = [req EXCEPT ![c] = q] /\ q.row = "free"
                      /\ q.op = "delete" => q.amount = 0
    <3> DEFINE q == [NoRequest EXCEPT !.op = "delete", !.caller = caller, !.payment = id]
    <3>1. q.row = "free" /\ q.amount = 0
      BY <1>2
    <3>2. req' = [req EXCEPT ![c] = q]
      BY <2>2
    <3> HIDE DEF q
    <3>3. QED BY <3>1, <3>2
  <2>3. QED BY <1>3, <2>1, <2>2
<1>5. QED BY <1>4

\* Before the first request every variable has its type.
LEMMA TypedInit == Init => Typed
BY NoRequestType, FS_EmptySet DEF Init, Typed, TypeOK, BusyOnInvoice, Stages

\* Every step keeps the types.
LEMMA TypedStep == Typed /\ [Next]_vars => Typed'
<1> SUFFICES ASSUME Typed, [Next]_vars PROVE Typed'
  OBVIOUS
<1> USE PaymentsAssumption, NoRequestType DEF Typed, TypeOK, BusyOnInvoice
<1>1. ASSUME NEW c \in Containers, Refuse(c) PROVE Typed'
  BY <1>1 DEF Refuse, Return, Goto, Stages, tables, history
<1>2. ASSUME NEW c \in Containers, Receive(c) PROVE Typed'
  <2>1. req' \in [Containers -> Request]
    <3>1. PICK q \in Request : req' = [req EXCEPT ![c] = q]
      <4>1. ASSUME NEW caller \in Callers, NEW i \in Invoices \cup {NoInvoice}, NEW a \in Amounts
            PROVE  [NoRequest EXCEPT !.op = "record", !.caller = caller, !.invoice = i,
                                     !.amount = a] \in Request
        BY RecordRequestType
      <4>2. ASSUME NEW caller \in Callers, NEW id \in PaymentIds
            PROVE  [NoRequest EXCEPT !.op = "delete", !.caller = caller, !.payment = id] \in Request
        BY DeleteRequestType
      <4>3. QED BY <1>2, <4>1, <4>2 DEF Receive
    <3>2. QED BY <3>1
  <2>2. QED
    BY <1>2, <2>1 DEF Receive, Goto, Stages, tables, history
<1>3. ASSUME NEW c \in Containers, Authorise(c) PROVE Typed'
  BY <1>1, <1>3 DEF Authorise, Goto, Stages, tables, history
<1>4. ASSUME NEW c \in Containers, LookupInvoice(c) PROVE Typed'
  <2>1. CASE Refuse(c)
    BY <1>1, <2>1
  <2>2. CASE ~Refuse(c)
    <3>1. req[c].invoice \in Invoices
      BY <1>4, <2>2 DEF LookupInvoice, Request
    <3>2. QED
      BY <1>4, <2>2, <3>1 DEF LookupInvoice, Touch, Goto, Stages, tables
  <2>3. QED BY <2>1, <2>2
<1>5. ASSUME NEW c \in Containers, ReadTotal(c) PROVE Typed'
  <2>1. CASE Refuse(c)
    BY <1>1, <2>1
  <2>2. CASE ~Refuse(c)
    <3>1. req' = [req EXCEPT ![c].total = paid[req[c].invoice]] /\ paid[req[c].invoice] \in Int
      BY <1>5, <2>2, PaidType DEF ReadTotal
    <3>2. req' \in [Containers -> Request] /\ \A d \in Containers : req'[d].invoice = req[d].invoice
      BY <3>1 DEF Request
    <3>3. QED
      BY <1>5, <2>2, <3>2 DEF ReadTotal, Goto, Stages, tables, history
  <2>3. QED BY <2>1, <2>2
<1>6. ASSUME NEW c \in Containers, WritePayment(c) PROVE Typed'
  <2> DEFINE i == req[c].invoice
             a == req[c].amount
  <2>1. i \in Invoices /\ a \in Int /\ Stored(a) \in Int
    BY <1>6, StoredFacts DEF WritePayment, Request
  <2>2. PICK id \in PaymentIds \ issued :
          /\ payments' = payments \cup {[id |-> id, invoice |-> i, amount |-> Stored(a)]}
          /\ issued' = issued \cup {id}
    BY <1>6 DEF WritePayment
  <2>3. payments' \subseteq Row /\ issued' \subseteq PaymentIds
    BY <2>1, <2>2 DEF Row
  <2>4. IsFiniteSet(payments')
    BY <2>2, FS_AddElement
  <2>5. status' \in [Invoices -> {"unpaid", "partial", "paid"}]
    BY <1>6, <2>1 DEF WritePayment, StatusAfterRecord
  <2>6. QED
    BY <1>6, <2>1, <2>3, <2>4, <2>5 DEF WritePayment, Return, Goto, Stages
<1>7. ASSUME NEW c \in Containers, LookupPayment(c) PROVE Typed'
  <2>1. CASE Refuse(c)
    BY <1>1, <2>1
  <2>2. CASE ~Refuse(c)
    <3>1. PICK r \in payments :
            /\ req' = [req EXCEPT ![c].invoice = r.invoice]
            /\ Goto(c, "delete") /\ Touch(c, r.invoice) /\ UNCHANGED tables
      BY <1>7, <2>2 DEF LookupPayment
    <3>2. r.invoice \in Invoices
      BY DEF Row
    <3>3. req' \in [Containers -> Request] /\ req'[c].invoice \in Invoices
          /\ \A d \in Containers \ {c} : req'[d] = req[d]
      BY <3>1, <3>2 DEF Request
    <3>4. QED
      BY <3>1, <3>2, <3>3 DEF Goto, Touch, Stages, tables
  <2>3. QED BY <2>1, <2>2
<1>8. ASSUME NEW c \in Containers, DeleteRow(c) PROVE Typed'
  <2>1. req' \in [Containers -> Request] /\ \A d \in Containers : req'[d].invoice = req[d].invoice
    <3>1. CASE UNCHANGED req
      BY <3>1
    <3>2. CASE ~UNCHANGED req
      <4>1. PICK r \in payments : req' = [req EXCEPT ![c].row = "held", ![c].amount = r.amount]
        BY <1>8, <3>2 DEF DeleteRow
      <4>2. r.amount \in Int
        BY DEF Row
      <4>3. QED BY <4>1, <4>2 DEF Request
    <3>3. QED BY <3>1, <3>2
  <2>2. QED
    BY <1>8, <2>1 DEF DeleteRow, Goto, Stages, tables, history
<1>9. ASSUME NEW c \in Containers, Recount(c) PROVE Typed'
  <2>1. req[c].invoice \in Invoices /\ req[c].amount \in Int /\ paid \in [Invoices -> Int]
    BY <1>9, PaidType DEF Recount, Request
  <2>2. req' \in [Containers -> Request] /\ \A d \in Containers : req'[d].invoice = req[d].invoice
    BY <1>9, <2>1 DEF Recount, Request
  <2>3. QED
    BY <1>9, <2>2 DEF Recount, Goto, Stages, tables, history
<1>10. ASSUME NEW c \in Containers, WriteDelete(c) PROVE Typed'
  <2>1. req[c].invoice \in Invoices /\ req[c].amount \in Int /\ req[c].total \in Int
    BY <1>10 DEF WriteDelete, Request
  <2>2. StatusAfterDelete(req[c].invoice, req[c].total) \in {"unpaid", "partial", "paid"}
    BY <2>1 DEF StatusAfterDelete
  <2>3. payments' \subseteq payments /\ IsFiniteSet(payments')
    BY <1>10, FS_Subset DEF WriteDelete
  <2>4. QED
    BY <1>10, <2>1, <2>2, <2>3 DEF WriteDelete, Return, Goto, Stages, history
<1>11. CASE UNCHANGED vars
  BY <1>11 DEF vars
<1>12. QED
  BY <1>1, <1>2, <1>3, <1>4, <1>5, <1>6, <1>7, <1>8, <1>9, <1>10, <1>11
     DEF Next, Handle, Abort

\* Every variable keeps its type, whatever the requests and however they
\* interleave.
THEOREM TypeCorrect == Spec => []TypeOK
<1>1. Typed => TypeOK
  BY DEF Typed
<1>2. QED BY <1>1, TypedInit, TypedStep, PTL DEF Spec

----------------------------------------------------------------------------
(* Two requests that work on an invoice at a time have left their mark,    *)
(* unless both delete the same payment.                                    *)

Exclusive ==
    \A c, d \in Containers, i \in Invoices :
        c # d /\ Busy(c, i) /\ Busy(d, i) /\ ~Twins(c, d) => i \in overlapped

\* Every step keeps it on record which requests overlapped.
LEMMA ExclusiveStep == Typed /\ Exclusive /\ [Next]_vars => Exclusive'
<1> SUFFICES ASSUME Typed, Exclusive, [Next]_vars PROVE Exclusive'
  OBVIOUS
<1> USE DEF Typed, TypeOK, BusyOnInvoice, Exclusive, Busy, Twins
<1>1. ASSUME NEW c \in Containers, Refuse(c) PROVE Exclusive'
  BY <1>1 DEF Refuse, Return, Goto, tables, history
<1>2. ASSUME NEW c \in Containers, Receive(c) PROVE Exclusive'
  <2>1. pc' = [pc EXCEPT ![c] = "authorise"] /\ overlapped' = overlapped
        /\ \A d \in Containers \ {c} : req'[d] = req[d]
    BY <1>2 DEF Receive, Goto, history
  <2>2. QED BY <2>1
<1>3. ASSUME NEW c \in Containers, Authorise(c) PROVE Exclusive'
  BY <1>1, <1>3 DEF Authorise, Goto, tables, history
<1>4. ASSUME NEW c \in Containers, LookupInvoice(c) PROVE Exclusive'
  BY <1>1, <1>4 DEF LookupInvoice, Touch, Goto, tables
<1>5. ASSUME NEW c \in Containers, ReadTotal(c) PROVE Exclusive'
  <2>1. CASE ~Refuse(c)
    <3>1. \A d \in Containers : /\ req'[d].invoice = req[d].invoice
                                 /\ req'[d].op = req[d].op /\ req'[d].payment = req[d].payment
      BY <1>5, <2>1 DEF ReadTotal, Request
    <3>2. QED BY <1>5, <2>1, <3>1 DEF ReadTotal, Goto, history
  <2>2. QED BY <1>1, <2>1
<1>6. ASSUME NEW c \in Containers, WritePayment(c) PROVE Exclusive'
  BY <1>6 DEF WritePayment, Return, Goto
<1>7. ASSUME NEW c \in Containers, LookupPayment(c) PROVE Exclusive'
  <2>1. CASE ~Refuse(c)
    <3>1. PICK r \in payments :
            /\ req' = [req EXCEPT ![c].invoice = r.invoice]
            /\ Goto(c, "delete") /\ Touch(c, r.invoice)
      BY <1>7, <2>1 DEF LookupPayment
    <3>2. /\ req'[c].invoice = r.invoice /\ \A d \in Containers \ {c} : req'[d] = req[d]
          /\ req'[c].op = req[c].op /\ req'[c].payment = req[c].payment
      BY <3>1 DEF Request
    <3>3. QED BY <3>1, <3>2 DEF Goto, Touch
  <2>2. QED BY <1>1, <2>1
<1>8. ASSUME NEW c \in Containers, DeleteRow(c) PROVE Exclusive'
  <2>1. \A d \in Containers : /\ req'[d].invoice = req[d].invoice
                               /\ req'[d].op = req[d].op /\ req'[d].payment = req[d].payment
    BY <1>8 DEF DeleteRow, Request
  <2>2. QED BY <1>8, <2>1 DEF DeleteRow, Goto, history
<1>9. ASSUME NEW c \in Containers, Recount(c) PROVE Exclusive'
  <2>1. \A d \in Containers : /\ req'[d].invoice = req[d].invoice
                               /\ req'[d].op = req[d].op /\ req'[d].payment = req[d].payment
    BY <1>9 DEF Recount, Request
  <2>2. QED BY <1>9, <2>1 DEF Recount, Goto, history
<1>10. ASSUME NEW c \in Containers, WriteDelete(c) PROVE Exclusive'
  BY <1>10 DEF WriteDelete, Return, Goto, history
<1>11. CASE UNCHANGED vars
  BY <1>11 DEF vars
<1>12. QED
  BY <1>1, <1>2, <1>3, <1>4, <1>5, <1>6, <1>7, <1>8, <1>9, <1>10, <1>11
     DEF Next, Handle, Abort

----------------------------------------------------------------------------
(* The rows of the table, and the row a delete is about.                   *)

RowsWhole ==
    /\ \A r \in payments :
         /\ r.id \in issued
         /\ r.amount % 2 = 0
         /\ r.invoice \notin negative => r.amount >= 0
    /\ \A r, s \in payments : r.id = s.id => r = s

\* The payment to delete was issued and belongs to the invoice that was read
\* with it; "amount" is what the DELETE takes off the invoice.
DeleteTargets ==
    \A c \in Containers :
        /\ pc[c] \in {"authorise", "lookup", "delete"} /\ req[c].op = "delete" => req[c].amount = 0
        /\ pc[c] \in {"delete", "recount", "settle"} =>
              /\ req[c].op = "delete"
              /\ req[c].payment \in issued
              /\ \A r \in payments : r.id = req[c].payment => r.invoice = req[c].invoice
              /\ req[c].amount % 2 = 0
              /\ req[c].invoice \notin negative => req[c].amount >= 0

RowsInv == RowsWhole /\ DeleteTargets

\* Every step keeps the rows of payments apart.
LEMMA RowsStep == Typed /\ RowsInv /\ [Next]_vars => RowsInv'
<1> SUFFICES ASSUME Typed, RowsInv, [Next]_vars PROVE RowsInv'
  OBVIOUS
<1> USE DEF Typed, TypeOK, BusyOnInvoice, RowsInv, RowsWhole, DeleteTargets
<1>1. ASSUME NEW c \in Containers, Refuse(c) PROVE RowsInv'
  BY <1>1 DEF Refuse, Return, Goto, tables, history
<1>2. ASSUME NEW c \in Containers, Receive(c) PROVE RowsInv'
  <2>1. pc' = [pc EXCEPT ![c] = "authorise"] /\ UNCHANGED <<tables, history>>
    BY <1>2 DEF Receive, Goto
  <2>2. /\ req'[c].op = "delete" => req'[c].amount = 0
        /\ \A d \in Containers \ {c} : req'[d] = req[d]
    BY <1>2, ReceivedRequest
  <2>3. UNCHANGED <<payments, issued, negative>> /\ pc'[c] = "authorise"
        /\ \A d \in Containers \ {c} : pc'[d] = pc[d]
    BY <2>1 DEF tables, history
  <2>4. RowsWhole'
    BY <2>3
  <2>5. DeleteTargets'
    BY <2>2, <2>3
  <2>6. QED BY <2>4, <2>5
<1>3. ASSUME NEW c \in Containers, Authorise(c) PROVE RowsInv'
  BY <1>1, <1>3 DEF Authorise, Goto, tables, history
<1>4. ASSUME NEW c \in Containers, LookupInvoice(c) PROVE RowsInv'
  <2>1. CASE ~Refuse(c)
    <3>1. pc' = [pc EXCEPT ![c] = "total"] /\ UNCHANGED <<tables, req, negative>>
      BY <1>4, <2>1 DEF LookupInvoice, Touch, Goto
    <3>2. QED BY <3>1 DEF tables
  <2>2. QED BY <1>1, <2>1
<1>5. ASSUME NEW c \in Containers, ReadTotal(c) PROVE RowsInv'
  <2>1. CASE ~Refuse(c)
    <3>1. /\ \A d \in Containers \ {c} : req'[d] = req[d]
          /\ pc' = [pc EXCEPT ![c] = "write"]
          /\ UNCHANGED <<tables, history>>
      BY <1>5, <2>1 DEF ReadTotal, Goto
    <3>2. QED BY <3>1 DEF tables, history
  <2>2. QED BY <1>1, <2>1
<1>6. ASSUME NEW c \in Containers, WritePayment(c) PROVE RowsInv'
  <2> DEFINE i == req[c].invoice
             a == req[c].amount
  <2>1. /\ a \in Int /\ Stored(a) \in Int /\ Stored(a) % 2 = 0
        /\ a >= 0 => Stored(a) >= 0
    BY StoredFacts DEF Request
  <2>2. PICK id \in PaymentIds \ issued :
          /\ payments' = payments \cup {[id |-> id, invoice |-> i, amount |-> Stored(a)]}
          /\ issued' = issued \cup {id}
    BY <1>6 DEF WritePayment
  <2>3. negative \subseteq negative' /\ (a < 0 => i \in negative')
    BY <1>6 DEF WritePayment
  <2>4. RowsWhole'
    BY <2>1, <2>2, <2>3
  <2>5. /\ pc' = [pc EXCEPT ![c] = "idle"]
        /\ \A d \in Containers \ {c} : req'[d] = req[d]
    BY <1>6 DEF WritePayment, Return, Goto
  <2>6. DeleteTargets'
    BY <2>2, <2>3, <2>5
  <2>7. QED BY <2>4, <2>6
<1>7. ASSUME NEW c \in Containers, LookupPayment(c) PROVE RowsInv'
  <2>1. CASE ~Refuse(c)
    <3>1. PICK r \in payments :
            /\ r.id = req[c].payment
            /\ req' = [req EXCEPT ![c].invoice = r.invoice]
            /\ Goto(c, "delete") /\ Touch(c, r.invoice) /\ UNCHANGED tables
      BY <1>7, <2>1 DEF LookupPayment
    <3>2. /\ \A d \in Containers \ {c} : req'[d] = req[d]
          /\ req'[c].invoice = r.invoice /\ req'[c].payment = r.id
          /\ req'[c].op = "delete" /\ req'[c].amount = 0
      BY <1>7, <3>1 DEF LookupPayment, Request
    <3>3. \A s \in payments : s.id = r.id => s = r
      BY <3>1
    <3>4. QED BY <3>1, <3>2, <3>3 DEF Goto, Touch, tables
  <2>2. QED BY <1>1, <2>1
<1>8. ASSUME NEW c \in Containers, DeleteRow(c) PROVE RowsInv'
  <2>1. CASE UNCHANGED req
    BY <1>8, <2>1 DEF DeleteRow, Goto, tables, history
  <2>2. CASE ~UNCHANGED req
    <3>1. PICK r \in payments :
            /\ r.id = req[c].payment
            /\ req' = [req EXCEPT ![c].row = "held", ![c].amount = r.amount]
      BY <1>8, <2>2 DEF DeleteRow
    <3>2. /\ \A d \in Containers \ {c} : req'[d] = req[d]
          /\ req'[c].invoice = req[c].invoice /\ req'[c].payment = req[c].payment
          /\ req'[c].op = req[c].op /\ req'[c].amount = r.amount
      BY <3>1 DEF Request
    <3>3. /\ pc[c] = "delete" /\ pc' = [pc EXCEPT ![c] = "recount"]
          /\ UNCHANGED <<payments, issued, negative>>
      BY <1>8 DEF DeleteRow, Goto, tables, history
    <3>4. /\ req[c].op = "delete" /\ req[c].payment \in issued
          /\ r.invoice = req[c].invoice /\ r.amount % 2 = 0
          /\ r.invoice \notin negative => r.amount >= 0
      BY <3>1, <3>3
    <3>5. QED BY <3>2, <3>3, <3>4
  <2>3. QED BY <2>1, <2>2
<1>9. ASSUME NEW c \in Containers, Recount(c) PROVE RowsInv'
  <2>1. /\ \A d \in Containers \ {c} : req'[d] = req[d]
        /\ req'[c].invoice = req[c].invoice /\ req'[c].payment = req[c].payment
        /\ req'[c].op = req[c].op /\ req'[c].amount = req[c].amount
    BY <1>9 DEF Recount, Request
  <2>2. QED BY <1>9, <2>1 DEF Recount, Goto, tables, history
<1>10. ASSUME NEW c \in Containers, WriteDelete(c) PROVE RowsInv'
  BY <1>10 DEF WriteDelete, Return, Goto, history
<1>11. CASE UNCHANGED vars
  BY <1>11 DEF vars
<1>12. QED
  BY <1>1, <1>2, <1>3, <1>4, <1>5, <1>6, <1>7, <1>8, <1>9, <1>10, <1>11
     DEF Next, Handle, Abort

----------------------------------------------------------------------------
(* Who holds a row.                                                        *)

\* A row whose DELETE took effect stands until its transaction is done, and no
\* other transaction holds it; a DELETE that found no row takes nothing off
\* the invoice, and its row never comes back.
RowsHeld ==
    /\ \A c \in Containers :
         /\ pc[c] \notin {"recount", "settle"} => req[c].row = "free"
         /\ pc[c] \in {"recount", "settle"} /\ req[c].row = "free" =>
               req[c].amount = 0 /\ \A r \in payments : r.id # req[c].payment
         /\ pc[c] \in {"total", "write"} => req[c].op = "record"
         /\ req[c].row = "held" =>
               \E r \in payments : r.id = req[c].payment /\ r.amount = req[c].amount
    /\ \A c, d \in Containers :
         c # d /\ req[c].row = "held" /\ req[d].row = "held" => req[c].payment # req[d].payment

\* A step of a handler that holds no row, before or after, writes no table and
\* leaves the other handlers alone.
LEMMA HeldFrame ==
    ASSUME RowsHeld, NEW c \in Containers, payments' = payments,
           \A d \in Containers \ {c} : req'[d] = req[d] /\ pc'[d] = pc[d],
           req'[c].row = "free", pc'[c] \notin {"recount", "settle"},
           pc'[c] \in {"total", "write"} => req'[c].op = "record"
    PROVE  RowsHeld'
BY DEF RowsHeld

\* Every step keeps it.
LEMMA HeldStep == Typed /\ RowsInv /\ RowsHeld /\ [Next]_vars => RowsHeld'
<1> SUFFICES ASSUME Typed, RowsInv, RowsHeld, [Next]_vars PROVE RowsHeld'
  OBVIOUS
<1>0. TypeOK
  BY DEF Typed
<1>a. NoRequest.row = "free"
  BY DEF NoRequest
<1>1. ASSUME NEW c \in Containers, Refuse(c) PROVE RowsHeld'
  <2>1. /\ \A d \in Containers \ {c} : req'[d] = req[d] /\ pc'[d] = pc[d]
        /\ req'[c] = NoRequest /\ pc'[c] = "idle" /\ payments' = payments
    BY <1>0, <1>1 DEF Refuse, Return, Goto, tables, TypeOK
  <2>2. QED BY <1>a, <2>1, HeldFrame
<1>2. ASSUME NEW c \in Containers, Receive(c) PROVE RowsHeld'
  <2>1. /\ \A d \in Containers \ {c} : req'[d] = req[d] /\ pc'[d] = pc[d]
        /\ req'[c].row = "free" /\ pc'[c] = "authorise" /\ payments' = payments
    <3>1. pc' = [pc EXCEPT ![c] = "authorise"] /\ payments' = payments
      BY <1>2 DEF Receive, Goto, tables
    <3>2. QED BY <1>0, <1>2, <3>1, ReceivedRequest DEF TypeOK
  <2>2. QED BY <2>1, HeldFrame
<1>3. ASSUME NEW c \in Containers, Authorise(c) PROVE RowsHeld'
  <2>1. CASE ~Refuse(c)
    <3>1. /\ pc[c] = "authorise" /\ pc' = [pc EXCEPT ![c] = "lookup"]
          /\ req' = req /\ payments' = payments
      BY <1>3, <2>1 DEF Authorise, Goto, tables
    <3>2. req[c].row = "free"
      BY <3>1 DEF RowsHeld
    <3>3. QED BY <1>0, <3>1, <3>2, HeldFrame DEF TypeOK
  <2>2. QED BY <1>1, <2>1
<1>4. ASSUME NEW c \in Containers, LookupInvoice(c) PROVE RowsHeld'
  <2>1. CASE ~Refuse(c)
    <3>1. /\ pc[c] = "lookup" /\ pc' = [pc EXCEPT ![c] = "total"] /\ req[c].op = "record"
          /\ req' = req /\ payments' = payments
      BY <1>4, <2>1 DEF LookupInvoice, Goto, tables
    <3>2. req[c].row = "free"
      BY <3>1 DEF RowsHeld
    <3>3. QED BY <1>0, <3>1, <3>2, HeldFrame DEF TypeOK
  <2>2. QED BY <1>1, <2>1
<1>5. ASSUME NEW c \in Containers, ReadTotal(c) PROVE RowsHeld'
  <2>1. CASE ~Refuse(c)
    <3>1. /\ pc[c] = "total" /\ pc' = [pc EXCEPT ![c] = "write"]
          /\ req' = [req EXCEPT ![c].total = paid[req[c].invoice]] /\ payments' = payments
      BY <1>5, <2>1 DEF ReadTotal, Goto, tables
    <3>2. req[c].row = "free" /\ req[c].op = "record"
      BY <3>1 DEF RowsHeld
    <3>3. /\ \A d \in Containers \ {c} : req'[d] = req[d] /\ pc'[d] = pc[d]
          /\ req'[c].row = "free" /\ req'[c].op = "record" /\ pc'[c] = "write"
      BY <1>0, <3>1, <3>2 DEF TypeOK, Request
    <3>4. QED BY <3>1, <3>3, HeldFrame
  <2>2. QED BY <1>1, <2>1
<1>6. ASSUME NEW c \in Containers, WritePayment(c) PROVE RowsHeld'
  <2> DEFINE r(id) == [id |-> id, invoice |-> req[c].invoice, amount |-> Stored(req[c].amount)]
  <2>0. PICK id \in PaymentIds \ issued : payments' = payments \cup {r(id)}
    BY <1>6 DEF WritePayment
  <2>1. r(id).id = id /\ id \notin issued
    OBVIOUS
  <2> HIDE DEF r
  <2>2. \A d \in Containers : pc[d] \in {"recount", "settle"} => req[d].payment # r(id).id
    BY <2>1 DEF RowsInv, DeleteTargets
  <2>3. /\ \A d \in Containers \ {c} : req'[d] = req[d] /\ pc'[d] = pc[d]
        /\ req'[c].row = "free" /\ pc'[c] = "idle"
    BY <1>0, <1>a, <1>6 DEF WritePayment, Return, Goto, TypeOK
  <2>4. QED BY <2>0, <2>2, <2>3 DEF RowsHeld
<1>7. ASSUME NEW c \in Containers, LookupPayment(c) PROVE RowsHeld'
  <2>1. CASE ~Refuse(c)
    <3>1. PICK r \in payments : req' = [req EXCEPT ![c].invoice = r.invoice]
      BY <1>7, <2>1 DEF LookupPayment
    <3>2. /\ pc[c] = "lookup" /\ pc' = [pc EXCEPT ![c] = "delete"] /\ payments' = payments
      BY <1>7, <2>1 DEF LookupPayment, Goto, tables
    <3>3. req[c].row = "free"
      BY <3>2 DEF RowsHeld
    <3>4. /\ \A d \in Containers \ {c} : req'[d] = req[d] /\ pc'[d] = pc[d]
          /\ req'[c].row = "free" /\ pc'[c] = "delete"
      BY <1>0, <3>1, <3>2, <3>3 DEF TypeOK, Request
    <3>5. QED BY <3>2, <3>4, HeldFrame
  <2>2. QED BY <1>1, <2>1
<1>8. ASSUME NEW c \in Containers, DeleteRow(c) PROVE RowsHeld'
  <2>1. /\ pc[c] = "delete" /\ ~RowLocked(c) /\ payments' = payments
        /\ \A d \in Containers \ {c} : req'[d] = req[d] /\ pc'[d] = pc[d]
        /\ pc'[c] = "recount"
    BY <1>0, <1>8 DEF DeleteRow, Goto, tables, TypeOK
  <2>2. req[c].row = "free" /\ req[c].amount = 0
    BY <2>1 DEF RowsHeld, RowsInv, DeleteTargets
  <2>4. CASE UNCHANGED req /\ \A r \in payments : r.id # req[c].payment
    BY <2>1, <2>2, <2>4 DEF RowsHeld
  <2>5. CASE \E r \in payments :
               /\ r.id = req[c].payment
               /\ req' = [req EXCEPT ![c].row = "held", ![c].amount = r.amount]
    <3>1. PICK r \in payments :
            /\ r.id = req[c].payment
            /\ req' = [req EXCEPT ![c].row = "held", ![c].amount = r.amount]
      BY <2>5
    <3>2. req'[c].row = "held" /\ req'[c].amount = r.amount /\ req'[c].payment = req[c].payment
      BY <1>0, <3>1 DEF TypeOK, Request
    <3>3. \A d \in Containers \ {c} : req[d].row = "held" => req[d].payment # req[c].payment
      BY <2>1 DEF RowLocked
    <3>4. \A d \in Containers :
            /\ pc'[d] \notin {"recount", "settle"} => req'[d].row = "free"
            /\ pc'[d] \in {"recount", "settle"} /\ req'[d].row = "free" =>
                  req'[d].amount = 0 /\ \A s \in payments' : s.id # req'[d].payment
            /\ pc'[d] \in {"total", "write"} => req'[d].op = "record"
      BY <2>1, <3>2 DEF RowsHeld
    <3>5. ASSUME NEW d \in Containers, req'[d].row = "held"
          PROVE  \E s \in payments' : s.id = req'[d].payment /\ s.amount = req'[d].amount
      <4>1. CASE d = c
        BY <2>1, <3>1, <3>2, <4>1
      <4>2. CASE d # c
        BY <2>1, <3>5, <4>2 DEF RowsHeld
      <4>3. QED BY <4>1, <4>2
    <3>6. ASSUME NEW d \in Containers, NEW e \in Containers, d # e,
                 req'[d].row = "held", req'[e].row = "held"
          PROVE  req'[d].payment # req'[e].payment
      <4>1. CASE d = c
        BY <2>1, <3>2, <3>3, <3>6, <4>1
      <4>2. CASE e = c
        BY <2>1, <3>2, <3>3, <3>6, <4>2
      <4>3. CASE d # c /\ e # c
        BY <2>1, <3>6, <4>3 DEF RowsHeld
      <4>4. QED BY <4>1, <4>2, <4>3
    <3>7. QED BY <3>4, <3>5, <3>6 DEF RowsHeld
  <2>6. QED BY <1>8, <2>4, <2>5 DEF DeleteRow
<1>9. ASSUME NEW c \in Containers, Recount(c) PROVE RowsHeld'
  <2>1. /\ pc[c] = "recount" /\ payments' = payments
        /\ \A d \in Containers \ {c} : req'[d] = req[d] /\ pc'[d] = pc[d]
        /\ pc'[c] = "settle"
    BY <1>0, <1>9 DEF Recount, Goto, tables, TypeOK
  <2>2. /\ req'[c].row = req[c].row /\ req'[c].amount = req[c].amount
        /\ req'[c].payment = req[c].payment
    BY <1>0, <1>9 DEF Recount, TypeOK, Request
  <2>3. QED BY <2>1, <2>2 DEF RowsHeld
<1>10. ASSUME NEW c \in Containers, WriteDelete(c) PROVE RowsHeld'
  <2>1. /\ \A d \in Containers \ {c} : req'[d] = req[d] /\ pc'[d] = pc[d]
        /\ req'[c].row = "free" /\ pc'[c] = "idle"
    BY <1>0, <1>a, <1>10 DEF WriteDelete, Return, Goto, TypeOK
  <2>2. \/ payments' = payments
        \/ req[c].row = "held" /\ payments' = {r \in payments : r.id # req[c].payment}
    BY <1>10 DEF WriteDelete
  <2>3. QED BY <2>1, <2>2 DEF RowsHeld
<1>11. CASE UNCHANGED vars
  BY <1>11 DEF vars, RowsHeld
<1>12. QED
  BY <1>1, <1>2, <1>3, <1>4, <1>5, <1>6, <1>7, <1>8, <1>9, <1>10, <1>11
     DEF Next, Handle, Abort

----------------------------------------------------------------------------
(* What is paid of an invoice, as its rows come and go.                    *)

\* One row more.
LEMMA SumOfRowsAdd ==
    ASSUME NEW rows, IsFiniteSet(rows), \A s \in rows : s.amount \in Int,
           NEW r, r \notin rows, r.amount \in Int, NEW i
    PROVE  SumFunctionOnSet(Amount(rows \cup {r}), RowsOf(rows \cup {r}, i))
             = SumFunctionOnSet(Amount(rows), RowsOf(rows, i))
               + IF r.invoice = i THEN r.amount ELSE 0
<1> DEFINE w == Amount(rows)
           v == Amount(rows \cup {r})
           S == RowsOf(rows, i)
           T == RowsOf(rows \cup {r}, i)
<1>1. IsFiniteSet(S) /\ r \notin S
  BY FS_Subset DEF RowsOf
<1>2. /\ \A s \in S : w[s] \in Int /\ v[s] = w[s]
      /\ v[r] = r.amount
  BY DEF Amount, RowsOf
<1>3. T = IF r.invoice = i THEN S \cup {r} ELSE S
  BY DEF RowsOf
<1> HIDE DEF w, v, S, T
<1>4. SumFunctionOnSet(v, S) = SumFunctionOnSet(w, S)
  BY <1>1, <1>2, SumCongruent
<1>5. SumFunctionOnSet(w, S) \in Int
  BY <1>1, <1>2, SumType
<1>6. SumFunctionOnSet(v, S \cup {r}) = SumFunctionOnSet(v, S) + v[r]
  BY <1>1, <1>2, SumAdd
<1>7. SumFunctionOnSet(v, T) = SumFunctionOnSet(w, S) + IF r.invoice = i THEN r.amount ELSE 0
  <2>1. CASE r.invoice = i
    BY <1>2, <1>3, <1>4, <1>6, <2>1
  <2>2. CASE r.invoice # i
    BY <1>3, <1>4, <1>5, <2>2
  <2>3. QED BY <2>1, <2>2
<1>8. QED BY <1>7 DEF w, v, S, T

\* A payment that is recorded adds to its invoice what the column stores.
LEMMA PaidAfterWrite ==
    ASSUME Typed, RowsInv, NEW c \in Containers, WritePayment(c)
    PROVE  paid' = [paid EXCEPT ![req[c].invoice] = @ + Stored(req[c].amount)]
<1> DEFINE i == req[c].invoice
           a == req[c].amount
<1>1. /\ i \in Invoices /\ a \in Int /\ Stored(a) \in Int
      /\ IsFiniteSet(payments) /\ \A r \in payments : r.amount \in Int
  BY StoredFacts DEF WritePayment, Typed, BusyOnInvoice, TypeOK, Request, Row
<1>2. PICK id \in PaymentIds \ issued :
        payments' = payments \cup {[id |-> id, invoice |-> i, amount |-> Stored(a)]}
  BY DEF WritePayment
<1> DEFINE r == [id |-> id, invoice |-> i, amount |-> Stored(a)]
<1>3. r \notin payments /\ r.amount = Stored(a) /\ r.invoice = i
  BY DEF RowsInv, RowsWhole
<1>4. payments' = payments \cup {r}
  BY <1>2
<1> HIDE DEF r
<1>5. ASSUME NEW j \in Invoices
      PROVE  paid'[j] = IF j = i THEN paid[j] + Stored(a) ELSE paid[j]
  <2>1. /\ paid[j] = SumFunctionOnSet(Amount(payments), RowsOf(payments, j))
        /\ paid[j] \in Int
    BY PaidType
  <2>2. SumFunctionOnSet(Amount(payments \cup {r}), RowsOf(payments \cup {r}, j))
          = paid[j] + IF r.invoice = j THEN r.amount ELSE 0
    BY <1>1, <1>3, <2>1, SumOfRowsAdd
  <2>3. paid'[j] = SumFunctionOnSet(Amount(payments'), RowsOf(payments', j))
    BY DEF paid, Amount, RowsOf
  <2>4. QED BY <1>1, <1>3, <1>4, <2>1, <2>2, <2>3
<1>6. DOMAIN paid = Invoices /\ paid' = [j \in Invoices |-> paid'[j]]
  BY DEF paid
<1>7. QED BY <1>1, <1>5, <1>6, PaidType

\* A payment that is deleted takes off its invoice what was stored: once,
\* however many handlers delete it.
LEMMA PaidAfterDelete ==
    ASSUME Typed, RowsInv, RowsHeld, NEW c \in Containers, WriteDelete(c)
    PROVE  paid' = [paid EXCEPT ![req[c].invoice] = @ - req[c].amount]
<1> DEFINE i == req[c].invoice
           a == req[c].amount
<1>1. /\ i \in Invoices /\ a \in Int /\ pc[c] = "settle" /\ req[c].row \in {"free", "held"}
      /\ IsFiniteSet(payments) /\ \A r \in payments : r.amount \in Int
  BY DEF WriteDelete, Typed, BusyOnInvoice, TypeOK, Request, Row
<1>2. CASE req[c].row = "free"
  <2>1. a = 0 /\ payments' = payments
    BY <1>1, <1>2 DEF RowsHeld, WriteDelete
  <2>2. QED BY <1>1, <2>1, PaidSame, PaidType
<1>3. CASE req[c].row = "held"
  <2>1. PICK r \in payments : r.id = req[c].payment /\ r.amount = a
    BY <1>3 DEF RowsHeld
  <2>2. r.invoice = i /\ \A s \in payments : s.id = r.id => s = r
    BY <1>1, <2>1 DEF RowsInv, RowsWhole, DeleteTargets
  <2>3. /\ payments = payments' \cup {r} /\ r \notin payments' /\ r.amount \in Int
        /\ payments' \subseteq payments
    BY <1>1, <1>3, <2>1, <2>2 DEF WriteDelete
  <2>4. IsFiniteSet(payments') /\ \A s \in payments' : s.amount \in Int
    BY <1>1, <2>3, FS_Subset
  <2>5. ASSUME NEW j \in Invoices
        PROVE  paid'[j] = IF j = i THEN paid[j] - a ELSE paid[j]
    <3>1. /\ paid[j] = SumFunctionOnSet(Amount(payments), RowsOf(payments, j))
          /\ paid[j] \in Int
      BY PaidType
    <3>2. SumFunctionOnSet(Amount(payments' \cup {r}), RowsOf(payments' \cup {r}, j))
            = SumFunctionOnSet(Amount(payments'), RowsOf(payments', j))
              + IF r.invoice = j THEN r.amount ELSE 0
      BY <2>3, <2>4, SumOfRowsAdd
    <3>3. SumFunctionOnSet(Amount(payments'), RowsOf(payments', j)) \in Int
      <4>1. /\ IsFiniteSet(RowsOf(payments', j))
            /\ \A s \in RowsOf(payments', j) : Amount(payments')[s] \in Int
        BY <2>4, FS_Subset DEF RowsOf, Amount
      <4>2. QED BY <4>1, SumType
    <3>4. paid[j] = SumFunctionOnSet(Amount(payments'), RowsOf(payments', j))
                    + IF r.invoice = j THEN r.amount ELSE 0
      BY <2>3, <3>1, <3>2
    <3>5. paid'[j] = SumFunctionOnSet(Amount(payments'), RowsOf(payments', j))
      BY DEF paid, Amount, RowsOf
    <3>6. QED BY <1>1, <2>1, <2>2, <3>1, <3>3, <3>4, <3>5
  <2>6. DOMAIN paid = Invoices /\ paid' = [j \in Invoices |-> paid'[j]]
    BY DEF paid
  <2>7. QED BY <1>1, <2>5, <2>6, PaidType
<1>4. QED BY <1>1, <1>2, <1>3

\* As long as no payment was below zero, no total is.
LEMMA PaidNonNegative ==
    ASSUME Typed, RowsInv, NEW i \in Invoices \ negative
    PROVE  paid[i] >= 0
<1>1. /\ IsFiniteSet(RowsOf(payments, i))
      /\ \A r \in RowsOf(payments, i) :
           Amount(payments)[r] \in Int /\ Amount(payments)[r] >= 0
  BY FS_Subset DEF RowsOf, Amount, RowsInv, RowsWhole, Typed, TypeOK, Row
<1>2. SumFunctionOnSet(Amount(payments), RowsOf(payments, i)) >= 0
  BY <1>1, SumNonNegative
<1>3. QED BY <1>2, PaidType

----------------------------------------------------------------------------
(* The ledger: what a handler has read still holds when it writes, unless  *)
(* another request worked on the invoice meanwhile.                        *)

ReadsHold ==
    \A c \in Containers :
        req[c].invoice \notin overlapped =>
            /\ pc[c] \in {"total", "write"} => status[req[c].invoice] # "paid"
            /\ pc[c] = "write" =>
                  /\ req[c].total = paid[req[c].invoice]
                  /\ req[c].amount <= AmountDue[req[c].invoice] - paid[req[c].invoice]
            /\ pc[c] = "settle" => req[c].total = paid[req[c].invoice] - req[c].amount

PaidWhole == \A i \in Invoices : paid[i] % 2 = 0

Ledger == ReadsHold /\ PaidWhole /\ NoOverpayment /\ StatusAgrees

IInv == Typed /\ Exclusive /\ RowsInv /\ RowsHeld /\ Ledger

\* A step that writes no table and moves no history back, and that keeps what
\* the other handlers have read, keeps the ledger if it keeps c's own reads.
LEMMA LedgerFrame ==
    ASSUME IInv, NEW c \in Containers, UNCHANGED <<payments, status, negative, odd>>,
           overlapped \subseteq overlapped',
           \A d \in Containers \ {c} : req'[d] = req[d] /\ pc'[d] = pc[d],
           req'[c].invoice \notin overlapped' =>
               /\ pc'[c] \in {"total", "write"} => status[req'[c].invoice] # "paid"
               /\ pc'[c] = "write" =>
                     /\ req'[c].total = paid[req'[c].invoice]
                     /\ req'[c].amount <= AmountDue[req'[c].invoice] - paid[req'[c].invoice]
               /\ pc'[c] = "settle" => req'[c].total = paid[req'[c].invoice] - req'[c].amount
    PROVE  Ledger'
<1>1. paid' = paid
  BY PaidSame
<1>2. ReadsHold'
  BY <1>1 DEF IInv, Ledger, ReadsHold
<1>3. PaidWhole'
  BY <1>1 DEF IInv, Ledger, PaidWhole
<1>4. NoOverpayment'
  BY <1>1 DEF IInv, Ledger, NoOverpayment
<1>5. StatusAgrees'
  BY <1>1 DEF IInv, Ledger, StatusAgrees, StatusAfterDelete
<1>6. QED BY <1>2, <1>3, <1>4, <1>5 DEF Ledger

\* A handler that writes invoice i alone keeps the reads of the others.
LEMMA OthersReadsHold ==
    ASSUME IInv, NEW c \in Containers, NEW i \in Invoices, Busy(c, i),
           overlapped' = overlapped,
           \A j \in Invoices \ {i} : paid'[j] = paid[j] /\ status'[j] = status[j],
           \A d \in Containers \ {c} : req'[d] = req[d] /\ pc'[d] = pc[d],
           \A d \in Containers \ {c} : Twins(c, d) /\ pc[d] = "settle" => paid' = paid,
           pc'[c] = "idle"
    PROVE  ReadsHold'
<1> SUFFICES ASSUME NEW d \in Containers, req'[d].invoice \notin overlapped',
                    pc'[d] \in {"total", "write", "settle"}
             PROVE  /\ d # c /\ req'[d] = req[d] /\ pc'[d] = pc[d]
                    /\ \/ req[d].invoice \in Invoices \ {i}
                       \/ pc[d] = "settle" /\ paid' = paid
  BY DEF IInv, Ledger, ReadsHold
<1>1. d # c /\ req'[d] = req[d] /\ pc'[d] = pc[d]
  OBVIOUS
<1>2. req[d].invoice \in Invoices
  BY <1>1 DEF IInv, Typed, BusyOnInvoice
<1>3. CASE req[d].invoice = i
  <2>1. Busy(d, i) /\ i \notin overlapped
    BY <1>1, <1>3 DEF Busy
  <2>2. Twins(c, d)
    BY <1>1, <2>1 DEF IInv, Exclusive
  <2>3. pc[d] = "settle"
    BY <1>1, <2>2 DEF Twins, IInv, RowsHeld
  <2>4. QED BY <1>1, <2>2, <2>3
<1>4. QED BY <1>1, <1>2, <1>3

\* Of two handlers that delete one payment, one waits while the other holds the
\* row; when both have come past it there is no row to take off.
LEMMA DeletedOnce ==
    ASSUME IInv, NEW c \in Containers, WriteDelete(c),
           NEW d \in Containers \ {c}, Twins(c, d), pc[d] = "settle"
    PROVE  paid' = paid
<1>1. pc[c] = "settle" /\ req[c].payment = req[d].payment
      /\ req[c].row \in {"free", "held"} /\ req[d].row \in {"free", "held"}
  BY DEF WriteDelete, Twins, IInv, Typed, TypeOK, Request
<1>2. req[c].row # "held"
  BY <1>1 DEF IInv, RowsHeld
<1>3. payments' = payments
  BY <1>2 DEF WriteDelete
<1>4. QED BY <1>3, PaidSame

\* Every step keeps total and status in agreement, where they must agree.
LEMMA LedgerStep == IInv /\ [Next]_vars => Ledger'
<1> SUFFICES ASSUME IInv, [Next]_vars PROVE Ledger'
  OBVIOUS
<1>0. TypeOK /\ BusyOnInvoice /\ paid \in [Invoices -> Int]
  BY PaidType DEF IInv, Typed
<1>1. ASSUME NEW c \in Containers, Refuse(c) PROVE Ledger'
  BY <1>0, <1>1, LedgerFrame DEF Refuse, Return, Goto, tables, history, TypeOK
<1>2. ASSUME NEW c \in Containers, Receive(c) PROVE Ledger'
  BY <1>0, <1>2, LedgerFrame DEF Receive, Goto, tables, history, TypeOK
<1>3. ASSUME NEW c \in Containers, Authorise(c) PROVE Ledger'
  BY <1>0, <1>1, <1>3, LedgerFrame DEF Authorise, Goto, tables, history, TypeOK
<1>4. ASSUME NEW c \in Containers, LookupInvoice(c) PROVE Ledger'
  BY <1>0, <1>1, <1>4, LedgerFrame DEF LookupInvoice, Goto, Touch, tables, history, TypeOK
<1>5. ASSUME NEW c \in Containers, ReadTotal(c) PROVE Ledger'
  <2>1. CASE ~Refuse(c)
    <3>1. /\ req[c].amount <= AmountDue[req[c].invoice] - paid[req[c].invoice]
          /\ pc[c] = "total" /\ pc' = [pc EXCEPT ![c] = "write"]
          /\ UNCHANGED <<tables, history>>
      BY <1>5, <2>1 DEF ReadTotal, Goto
    <3>2. /\ \A d \in Containers \ {c} : req'[d] = req[d]
          /\ req'[c].invoice = req[c].invoice /\ req'[c].amount = req[c].amount
          /\ req'[c].total = paid[req[c].invoice]
      BY <1>0, <1>5, <2>1 DEF ReadTotal, TypeOK, Request
    <3>3. req[c].invoice \notin overlapped => status[req[c].invoice] # "paid"
      BY <3>1 DEF IInv, Ledger, ReadsHold
    <3>4. payments' = payments /\ paid' = paid
      BY <3>1, PaidSame DEF tables
    <3>5. QED
      BY <1>0, <3>1, <3>2, <3>3, <3>4, LedgerFrame DEF tables, history, TypeOK
  <2>2. QED BY <1>1, <2>1
<1>6. ASSUME NEW c \in Containers, WritePayment(c) PROVE Ledger'
  <2> DEFINE i == req[c].invoice
             a == req[c].amount
  <2>1. /\ i \in Invoices /\ a \in Int /\ Busy(c, i) /\ req[c].total \in Int
        /\ paid[i] \in Int /\ paid[i] % 2 = 0
    BY <1>0, <1>6
       DEF WritePayment, Busy, BusyOnInvoice, TypeOK, Request, IInv, Ledger, PaidWhole
  <2>2. AmountDue[i] \in Int /\ AmountDue[i] % 2 = 0
    BY <2>1, PaymentsAssumption
  <2>3. /\ paid' = [paid EXCEPT ![i] = @ + Stored(a)]
        /\ status' = [status EXCEPT ![i] = StatusAfterRecord(i, req[c].total + a)]
        /\ negative \subseteq negative' /\ odd \subseteq odd' /\ overlapped' = overlapped
        /\ (a < 0 => i \in negative') /\ (a = 0 \/ Stored(a) # a => i \in odd')
    BY <1>6, PaidAfterWrite DEF WritePayment, IInv
  <2>4. /\ Stored(a) \in Int /\ Stored(a) % 2 = 0
        /\ a <= AmountDue[i] - paid[i] => Stored(a) <= AmountDue[i] - paid[i]
    <3>1. (AmountDue[i] - paid[i]) \in Int /\ (AmountDue[i] - paid[i]) % 2 = 0
      BY <2>1, <2>2
    <3>2. QED BY <2>1, <3>1, StoredFacts
  <2>5. i \notin overlapped => req[c].total = paid[i] /\ a <= AmountDue[i] - paid[i]
    BY <1>6 DEF WritePayment, IInv, Ledger, ReadsHold
  <2>6. ReadsHold'
    <3>1. \A d \in Containers : ~Twins(c, d)
      BY <1>6 DEF WritePayment, Twins, IInv, RowsHeld
    <3>2. /\ \A d \in Containers \ {c} : req'[d] = req[d] /\ pc'[d] = pc[d]
          /\ pc'[c] = "idle"
          /\ \A j \in Invoices \ {i} : paid'[j] = paid[j] /\ status'[j] = status[j]
      BY <1>0, <1>6, <2>1, <2>3 DEF WritePayment, Return, Goto, TypeOK
    <3>3. QED BY <2>1, <2>3, <3>1, <3>2, OthersReadsHold
  <2>7. PaidWhole'
    BY <1>0, <2>1, <2>3, <2>4 DEF PaidWhole, TypeOK, IInv, Ledger
  <2>8. NoOverpayment'
    BY <1>0, <2>1, <2>2, <2>3, <2>4, <2>5 DEF NoOverpayment, TypeOK, IInv, Ledger
  <2>9. StatusAgrees'
    <3> SUFFICES ASSUME NEW j \in Invoices \ (overlapped \cup negative' \cup odd')
                 PROVE  status'[j] = StatusAfterDelete(j, paid'[j])
      BY <2>3 DEF StatusAgrees, StatusAfterDelete
    <3>1. CASE j # i
      BY <1>0, <2>1, <2>3, <3>1 DEF StatusAgrees, StatusAfterDelete, TypeOK, IInv, Ledger
    <3>2. CASE j = i
      <4>1. req[c].total = paid[i] /\ Stored(a) = a /\ a >= 0
        BY <2>1, <2>3, <2>5, <3>2
      <4>2. a # 0
        BY <2>3, <3>2
      <4>3. paid[i] >= 0
        BY <2>1, <2>3, <3>2, PaidNonNegative DEF IInv
      <4>4. paid'[i] = paid[i] + a /\ status'[i] = StatusAfterRecord(i, paid[i] + a)
        BY <1>0, <2>1, <2>3, <4>1 DEF TypeOK
      <4>5. paid[i] + a > 0 /\ (paid[i] + a) \in Int
        BY <2>1, <4>1, <4>2, <4>3
      <4>6. StatusAfterRecord(i, paid[i] + a) = StatusAfterDelete(i, paid[i] + a)
        BY <2>2, <4>5 DEF StatusAfterRecord, StatusAfterDelete
      <4>7. QED BY <3>2, <4>4, <4>6
    <3>3. QED BY <3>1, <3>2
  <2>10. QED BY <2>6, <2>7, <2>8, <2>9 DEF Ledger
<1>7. ASSUME NEW c \in Containers, LookupPayment(c) PROVE Ledger'
  <2>1. CASE ~Refuse(c)
    <3>1. /\ pc' = [pc EXCEPT ![c] = "delete"] /\ overlapped \subseteq overlapped'
          /\ \A d \in Containers \ {c} : req'[d] = req[d]
          /\ UNCHANGED <<tables, negative, odd>>
      BY <1>0, <1>7, <2>1 DEF LookupPayment, Touch, Goto, TypeOK
    <3>2. QED BY <1>0, <3>1, LedgerFrame DEF tables, TypeOK
  <2>2. QED BY <1>1, <2>1
<1>8. ASSUME NEW c \in Containers, DeleteRow(c) PROVE Ledger'
  <2>1. /\ pc' = [pc EXCEPT ![c] = "recount"]
        /\ \A d \in Containers \ {c} : req'[d] = req[d]
        /\ UNCHANGED <<tables, history>>
    BY <1>0, <1>8 DEF DeleteRow, Goto, TypeOK
  <2>2. QED BY <1>0, <2>1, LedgerFrame DEF tables, history, TypeOK
<1>9. ASSUME NEW c \in Containers, Recount(c) PROVE Ledger'
  <2>1. /\ pc' = [pc EXCEPT ![c] = "settle"]
        /\ \A d \in Containers \ {c} : req'[d] = req[d]
        /\ UNCHANGED <<tables, history>>
    BY <1>0, <1>9 DEF Recount, Goto, TypeOK
  <2>2. /\ req'[c].invoice = req[c].invoice /\ req'[c].amount = req[c].amount
        /\ req'[c].total = paid[req[c].invoice] - req[c].amount
    BY <1>0, <1>9 DEF Recount, TypeOK, Request
  <2>3. payments' = payments /\ paid' = paid
    BY <2>1, PaidSame DEF tables
  <2>4. QED BY <1>0, <2>1, <2>2, <2>3, LedgerFrame DEF tables, history, TypeOK
<1>10. ASSUME NEW c \in Containers, WriteDelete(c) PROVE Ledger'
  <2> DEFINE i == req[c].invoice
             a == req[c].amount
  <2>1. /\ i \in Invoices /\ a \in Int /\ Busy(c, i) /\ req[c].total \in Int
        /\ paid[i] \in Int /\ paid[i] % 2 = 0
    BY <1>0, <1>10
       DEF WriteDelete, Busy, BusyOnInvoice, TypeOK, Request, IInv, Ledger, PaidWhole
  <2>2. AmountDue[i] \in Int
    BY <2>1, PaymentsAssumption
  <2>3. /\ paid' = [paid EXCEPT ![i] = @ - a]
        /\ status' = [status EXCEPT ![i] = StatusAfterDelete(i, req[c].total)]
        /\ UNCHANGED history
    BY <1>10, PaidAfterDelete DEF WriteDelete, IInv
  <2>4. a % 2 = 0 /\ (i \notin negative => a >= 0)
    BY <1>10 DEF WriteDelete, IInv, RowsInv, DeleteTargets
  <2>5. i \notin overlapped => req[c].total = paid[i] - a
    BY <1>10 DEF WriteDelete, IInv, Ledger, ReadsHold
  <2>6. ReadsHold'
    <3>1. /\ \A d \in Containers \ {c} : req'[d] = req[d] /\ pc'[d] = pc[d]
          /\ pc'[c] = "idle" /\ overlapped' = overlapped
          /\ \A j \in Invoices \ {i} : paid'[j] = paid[j] /\ status'[j] = status[j]
      BY <1>0, <1>10, <2>1, <2>3 DEF WriteDelete, Return, Goto, TypeOK, history
    <3>2. QED BY <1>10, <2>1, <3>1, DeletedOnce, OthersReadsHold
  <2>7. PaidWhole'
    BY <1>0, <2>1, <2>3, <2>4 DEF PaidWhole, TypeOK, IInv, Ledger
  <2>8. NoOverpayment'
    BY <1>0, <2>1, <2>2, <2>3, <2>4 DEF NoOverpayment, TypeOK, IInv, Ledger, history
  <2>9. StatusAgrees'
    <3>1. ASSUME NEW j \in Invoices \ (overlapped \cup negative \cup odd)
          PROVE  status'[j] = StatusAfterDelete(j, paid'[j])
      <4>1. CASE j # i
        BY <1>0, <2>1, <2>3, <4>1 DEF StatusAgrees, StatusAfterDelete, TypeOK, IInv, Ledger
      <4>2. CASE j = i
        BY <1>0, <2>1, <2>3, <2>5, <4>2 DEF TypeOK
      <4>3. QED BY <4>1, <4>2
    <3>2. QED BY <2>3, <3>1 DEF StatusAgrees, StatusAfterDelete, history
  <2>10. QED BY <2>6, <2>7, <2>8, <2>9 DEF Ledger
<1>11. CASE UNCHANGED vars
  <2>1. paid' = paid
    BY <1>11, PaidSame DEF vars
  <2>2. QED
    BY <1>11, <2>1 DEF vars, IInv, Ledger, ReadsHold, PaidWhole, NoOverpayment, StatusAgrees,
                       StatusAfterDelete
<1>12. QED
  BY <1>1, <1>2, <1>3, <1>4, <1>5, <1>6, <1>7, <1>8, <1>9, <1>10, <1>11
     DEF Next, Handle, Abort

\* Before the first request nothing is paid.
LEMMA PaidFromNothing == Init => \A i \in Invoices : paid[i] = 0
<1> SUFFICES ASSUME Init, NEW i \in Invoices PROVE paid[i] = 0
  OBVIOUS
<1>1. RowsOf(payments, i) = {} /\ paid[i] = SumFunctionOnSet(Amount(payments), RowsOf(payments, i))
  BY TypedInit, PaidType DEF Init, RowsOf
<1>2. QED BY <1>1, SumEmpty

\* Before the first request the invariant holds.
LEMMA IInvInit == Init => IInv
<1> SUFFICES ASSUME Init PROVE IInv
  OBVIOUS
<1>1. Exclusive /\ RowsInv
  BY DEF Init, Exclusive, Busy, RowsInv, RowsWhole, DeleteTargets, NoRequest
<1>2. RowsHeld
  BY DEF Init, RowsHeld, NoRequest
<1>3. \A i \in Invoices : paid[i] = 0
  BY PaidFromNothing
<1>4. ReadsHold /\ PaidWhole
  BY <1>3 DEF Init, ReadsHold, PaidWhole
<1>5. NoOverpayment /\ StatusAgrees
  BY <1>3, PaymentsAssumption DEF Init, NoOverpayment, StatusAgrees, StatusAfterDelete
<1>6. QED BY <1>1, <1>2, <1>4, <1>5, TypedInit DEF IInv, Ledger

\* Every step keeps the invariant.
LEMMA IInvStep == IInv /\ [Next]_vars => IInv'
BY TypedStep, ExclusiveStep, RowsStep, HeldStep, LedgerStep DEF IInv

\* The invariant holds in every reachable state.
LEMMA IInvHolds == Spec => []IInv
BY IInvInit, IInvStep, PTL DEF Spec

----------------------------------------------------------------------------
(* The race: what the handlers that have read the total can still add.     *)

\* What each container is about to add to invoice i.
InFlight(i) ==
    [c \in Containers |->
        IF pc[c] = "write" /\ req[c].invoice = i /\ req[c].amount > 0 THEN Stored(req[c].amount)
                                                                      ELSE 0]

\* One handler adds at most what was left when it read the total, so at most
\* what is due; together with what is paid, all of them stay within N times.
BoundedAt(i) ==
    /\ \A c \in Containers : InFlight(i)[c] <= AmountDue[i]
    /\ paid[i] + SumFunctionOnSet(InFlight(i), Containers) <= Cardinality(Containers) * AmountDue[i]

RaceBounded == \A i \in Invoices \ negative : BoundedAt(i)

\* What a container adds is never below zero.
LEMMA InFlightType ==
    ASSUME TypeOK, NEW i
    PROVE  \A c \in Containers : InFlight(i)[c] \in Int /\ InFlight(i)[c] >= 0
BY StoredFacts DEF InFlight, TypeOK, Request

\* One handler goes on: only its own share changes.
LEMMA InFlightChange ==
    ASSUME TypeOK, TypeOK', NEW c \in Containers, NEW i,
           \A d \in Containers \ {c} : req'[d] = req[d] /\ pc'[d] = pc[d]
    PROVE  /\ \A d \in Containers \ {c} : InFlight(i)'[d] = InFlight(i)[d]
           /\ SumFunctionOnSet(InFlight(i)', Containers)
                = SumFunctionOnSet(InFlight(i), Containers) - InFlight(i)[c] + InFlight(i)'[c]
<1> DEFINE w == InFlight(i)
           v == InFlight(i)'
<1>1. \A d \in Containers \ {c} : v[d] = w[d]
  BY DEF InFlight
<1>2. \A d \in Containers : w[d] \in Int
  BY InFlightType
<1>3. \A d \in Containers : v[d] \in Int
  BY StoredFacts DEF InFlight, TypeOK, Request
<1> HIDE DEF w, v
<1>4. SumFunctionOnSet(v, Containers) = SumFunctionOnSet(w, Containers) - w[c] + v[c]
  BY <1>1, <1>2, <1>3, SumUpdate, PaymentsAssumption
<1>5. QED BY <1>1, <1>4 DEF w, v

\* The bound is a number.
LEMMA LimitType ==
    ASSUME NEW i \in Invoices
    PROVE  AmountDue[i] \in Int /\ Cardinality(Containers) * AmountDue[i] \in Int
BY PaymentsAssumption, FS_CardinalityType

\* A step that adds no more than c was about to add.
LEMMA RaceFrame ==
    ASSUME Typed, Typed', NEW c \in Containers, NEW i \in Invoices, BoundedAt(i),
           \A d \in Containers \ {c} : req'[d] = req[d] /\ pc'[d] = pc[d],
           InFlight(i)'[c] <= AmountDue[i],
           paid'[i] + InFlight(i)'[c] <= paid[i] + InFlight(i)[c]
    PROVE  BoundedAt(i)'
<1> DEFINE w == InFlight(i)
           v == InFlight(i)'
           N == Cardinality(Containers) * AmountDue[i]
<1>1. /\ \A d \in Containers \ {c} : v[d] = w[d]
      /\ SumFunctionOnSet(v, Containers) = SumFunctionOnSet(w, Containers) - w[c] + v[c]
  BY InFlightChange DEF Typed
<1>2. /\ \A d \in Containers : w[d] \in Int
      /\ w[c] \in Int /\ v[c] \in Int /\ paid[i] \in Int /\ paid'[i] \in Int
  BY InFlightType, StoredFacts, PaidType, PaidTypeNext DEF InFlight, Typed, TypeOK, Request, PaidInt
<1>3. /\ \A d \in Containers : w[d] <= AmountDue[i]
      /\ paid[i] + SumFunctionOnSet(w, Containers) <= N
  BY DEF BoundedAt
<1>4. v[c] <= AmountDue[i] /\ paid'[i] + v[c] <= paid[i] + w[c]
  OBVIOUS
<1>5. N \in Int
  BY LimitType
<1> HIDE DEF w, v, N
<1>6. SumFunctionOnSet(w, Containers) \in Int
  BY <1>2, SumType, PaymentsAssumption
<1>7. paid'[i] + SumFunctionOnSet(v, Containers) <= N
  BY <1>1, <1>2, <1>3, <1>4, <1>5, <1>6
<1>8. \A d \in Containers : v[d] <= AmountDue[i]
  BY <1>1, <1>3, <1>4
<1>9. QED BY <1>7, <1>8 DEF BoundedAt, v, N

\* c reads the total and may add what is left: together with the others, each
\* of which adds at most what is due, N times what is due.
LEMMA RaceJoin ==
    ASSUME Typed, Typed', NEW c \in Containers, NEW i \in Invoices, BoundedAt(i),
           \A d \in Containers \ {c} : req'[d] = req[d] /\ pc'[d] = pc[d],
           paid'[i] = paid[i], paid[i] >= 0,
           InFlight(i)'[c] <= AmountDue[i] - paid[i]
    PROVE  BoundedAt(i)'
<1> DEFINE v == InFlight(i)'
           u == [d \in Containers |-> IF d = c THEN v[c] + paid[i] ELSE v[d]]
           N == Cardinality(Containers) * AmountDue[i]
<1>1. \A d \in Containers \ {c} : v[d] = InFlight(i)[d]
  BY InFlightChange DEF Typed
<1>2. \A d \in Containers : v[d] \in Int
  BY StoredFacts DEF InFlight, Typed, TypeOK, Request
<1>3. paid[i] \in Int /\ AmountDue[i] \in Int /\ N \in Int
  BY LimitType, PaidType
<1>4. v[c] <= AmountDue[i] - paid[i] /\ v[c] \in Int
  BY <1>2
<1>5. \A d \in Containers : v[d] <= AmountDue[i]
  BY <1>1, <1>3, <1>4 DEF BoundedAt
<1> HIDE DEF v
<1>6. \A d \in Containers : u[d] \in Int /\ u[d] <= AmountDue[i]
  BY <1>2, <1>3, <1>4, <1>5
<1>7. u[c] = v[c] + paid[i] /\ \A d \in Containers \ {c} : u[d] = v[d]
  OBVIOUS
<1> HIDE DEF u
<1>8. SumFunctionOnSet(u, Containers) <= N
  BY <1>3, <1>6, SumBounded, PaymentsAssumption
<1>9. SumFunctionOnSet(u, Containers) = SumFunctionOnSet(v, Containers) - v[c] + u[c]
  BY <1>2, <1>6, <1>7, SumUpdate, PaymentsAssumption
<1>10. SumFunctionOnSet(v, Containers) \in Int
  BY <1>2, SumType, PaymentsAssumption
<1> HIDE DEF N
<1>11. paid[i] + SumFunctionOnSet(v, Containers) <= N
  BY <1>3, <1>4, <1>7, <1>8, <1>9, <1>10
<1>12. QED BY <1>5, <1>11 DEF BoundedAt, v, N

\* Every step stays within the bound.
LEMMA RaceStep == IInv /\ IInv' /\ RaceBounded /\ [Next]_vars => RaceBounded'
<1> SUFFICES ASSUME IInv, IInv', RaceBounded, [Next]_vars, NEW i \in Invoices, i \notin negative'
             PROVE  BoundedAt(i)'
  BY DEF RaceBounded
<1>0. /\ Typed /\ Typed' /\ TypeOK /\ TypeOK'
      /\ paid \in [Invoices -> Int] /\ paid' \in [Invoices -> Int]
      /\ AmountDue[i] \in Int /\ AmountDue[i] > 0
      /\ payments' = payments => paid' = paid
  BY PaymentsAssumption, PaidType, PaidTypeNext, PaidSame DEF IInv, Typed, PaidInt
<1>1. i \notin negative /\ BoundedAt(i)
  BY DEF RaceBounded, Next, Handle, Receive, Authorise, LookupInvoice, ReadTotal, WritePayment,
         LookupPayment, Touch, DeleteRow, Recount, WriteDelete, Abort, Refuse, history, vars
<1>2. ASSUME NEW c \in Containers, paid'[i] <= paid[i], pc'[c] # "write",
             \A d \in Containers \ {c} : req'[d] = req[d] /\ pc'[d] = pc[d]
      PROVE  BoundedAt(i)'
  <2>1. InFlight(i)'[c] = 0
    BY <1>2 DEF InFlight
  <2>2. InFlight(i)[c] \in Int /\ InFlight(i)[c] >= 0
    BY <1>0, InFlightType
  <2>3. paid'[i] \in Int
    BY <1>0 DEF TypeOK
  <2>4. InFlight(i)'[c] <= AmountDue[i] /\ paid'[i] + InFlight(i)'[c] <= paid[i] + InFlight(i)[c]
    BY <1>0, <1>2, <2>1, <2>2, <2>3
  <2>5. QED BY <1>0, <1>1, <1>2, <2>4, RaceFrame
<1>3. ASSUME NEW c \in Containers, ReadTotal(c), ~Refuse(c) PROVE BoundedAt(i)'
  <2> DEFINE a == req[c].amount
  <2>1. /\ pc[c] = "total" /\ pc'[c] = "write" /\ paid' = paid
        /\ \A d \in Containers \ {c} : req'[d] = req[d] /\ pc'[d] = pc[d]
        /\ req'[c].invoice = req[c].invoice /\ req'[c].amount = a
        /\ a \in Int /\ a <= AmountDue[req[c].invoice] - paid[req[c].invoice]
    BY <1>0, <1>3 DEF ReadTotal, Goto, tables, TypeOK, Request
  <2>2. CASE req[c].invoice = i /\ a > 0
    <3>1. paid[i] % 2 = 0 /\ AmountDue[i] % 2 = 0
      BY PaymentsAssumption DEF IInv, Ledger, PaidWhole
    <3>2. (AmountDue[i] - paid[i]) \in Int /\ (AmountDue[i] - paid[i]) % 2 = 0
      BY <1>0, <3>1
    <3>3. Stored(a) <= AmountDue[i] - paid[i]
      BY <2>1, <2>2, <3>2, StoredFacts
    <3>4. InFlight(i)'[c] = Stored(a)
      BY <2>1, <2>2 DEF InFlight
    <3>5. paid[i] >= 0
      BY <1>1, PaidNonNegative DEF IInv
    <3>6. paid'[i] = paid[i] /\ InFlight(i)'[c] <= AmountDue[i] - paid[i]
      BY <2>1, <3>3, <3>4
    <3>7. QED BY <1>0, <1>1, <2>1, <3>5, <3>6, RaceJoin
  <2>3. CASE ~(req[c].invoice = i /\ a > 0)
    <3>1. InFlight(i)'[c] = 0 /\ InFlight(i)[c] = 0
      BY <2>1, <2>3 DEF InFlight
    <3>2. paid'[i] = paid[i]
      BY <2>1
    <3>3. InFlight(i)'[c] <= AmountDue[i] /\ paid'[i] + InFlight(i)'[c] <= paid[i] + InFlight(i)[c]
      BY <1>0, <3>1, <3>2
    <3>4. QED BY <1>0, <1>1, <2>1, <3>3, RaceFrame
  <2>4. QED BY <2>2, <2>3
<1>4. ASSUME NEW c \in Containers, WritePayment(c) PROVE BoundedAt(i)'
  <2> DEFINE a == req[c].amount
  <2>1. /\ pc[c] = "write" /\ pc'[c] = "idle" /\ a \in Int /\ Stored(a) \in Int
        /\ \A d \in Containers \ {c} : req'[d] = req[d] /\ pc'[d] = pc[d]
        /\ paid'[i] = IF req[c].invoice = i THEN paid[i] + Stored(a) ELSE paid[i]
        /\ req[c].invoice = i => a >= 0
    <3>1. paid' = [paid EXCEPT ![req[c].invoice] = @ + Stored(a)] /\ req[c].invoice \in Invoices
      BY <1>4, PaidAfterWrite DEF WritePayment, IInv, Typed, BusyOnInvoice
    <3>2. QED
      BY <1>0, <1>4, <3>1, StoredFacts DEF WritePayment, Return, Goto, TypeOK, Request
  <2>2. Stored(0) = 0
    BY DEF Stored
  <2>3. CASE req[c].invoice # i
    BY <1>0, <1>2, <2>1, <2>3
  <2>4. CASE req[c].invoice = i
    <3>1. InFlight(i)[c] = Stored(a) /\ InFlight(i)'[c] = 0
      <4>1. a > 0 \/ a = 0
        BY <2>1, <2>4
      <4>2. QED BY <2>1, <2>2, <2>4, <4>1 DEF InFlight
    <3>2. InFlight(i)'[c] <= AmountDue[i] /\ paid'[i] + InFlight(i)'[c] <= paid[i] + InFlight(i)[c]
      BY <1>0, <2>1, <2>4, <3>1
    <3>3. QED BY <1>0, <1>1, <2>1, <3>2, RaceFrame
  <2>5. QED BY <2>3, <2>4
<1>5. ASSUME NEW c \in Containers, WriteDelete(c) PROVE BoundedAt(i)'
  <2>1. /\ pc'[c] = "idle" /\ req[c].amount \in Int
        /\ \A d \in Containers \ {c} : req'[d] = req[d] /\ pc'[d] = pc[d]
        /\ paid'[i] = IF req[c].invoice = i THEN paid[i] - req[c].amount ELSE paid[i]
    <3>1. /\ paid' = [paid EXCEPT ![req[c].invoice] = @ - req[c].amount]
          /\ req[c].invoice \in Invoices
      BY <1>5, PaidAfterDelete DEF WriteDelete, IInv, Typed, BusyOnInvoice
    <3>2. QED BY <1>0, <1>5, <3>1 DEF WriteDelete, Return, Goto, TypeOK, Request
  <2>2. req[c].invoice = i => req[c].amount >= 0
    BY <1>1, <1>5 DEF WriteDelete, IInv, RowsInv, DeleteTargets
  <2>3. paid'[i] <= paid[i]
    BY <1>0, <2>1, <2>2
  <2>4. QED BY <1>2, <2>1, <2>3
<1>6. ASSUME NEW c \in Containers, Refuse(c) PROVE BoundedAt(i)'
  BY <1>0, <1>2, <1>6 DEF Refuse, Return, Goto, tables, TypeOK
<1>7. ASSUME NEW c \in Containers, Receive(c) PROVE BoundedAt(i)'
  <2>1. pc' = [pc EXCEPT ![c] = "authorise"] /\ paid' = paid
        /\ \A d \in Containers \ {c} : req'[d] = req[d]
    BY <1>0, <1>7, ReceivedRequest DEF Receive, Goto, tables, TypeOK
  <2>2. QED BY <1>0, <1>2, <2>1 DEF TypeOK
<1>8. ASSUME NEW c \in Containers, Authorise(c) \/ LookupInvoice(c), ~Refuse(c) PROVE BoundedAt(i)'
  BY <1>0, <1>2, <1>8 DEF Authorise, LookupInvoice, Goto, tables, TypeOK
<1>9. ASSUME NEW c \in Containers, LookupPayment(c) \/ DeleteRow(c) \/ Recount(c), ~Refuse(c)
      PROVE  BoundedAt(i)'
  <2>1. /\ pc' \in {[pc EXCEPT ![c] = "delete"], [pc EXCEPT ![c] = "recount"],
                     [pc EXCEPT ![c] = "settle"]}
        /\ paid' = paid /\ \A d \in Containers \ {c} : req'[d] = req[d]
    BY <1>0, <1>9 DEF LookupPayment, DeleteRow, Recount, Goto, tables, TypeOK
  <2>2. QED BY <1>0, <1>2, <2>1 DEF TypeOK
<1>10. CASE UNCHANGED vars
  BY <1>0, <1>1, <1>10 DEF vars, BoundedAt, InFlight
<1>11. QED
  BY <1>3, <1>4, <1>5, <1>6, <1>7, <1>8, <1>9, <1>10 DEF Next, Handle, Abort

\* Before the first request nothing is paid and nothing on the way.
LEMMA RaceInit == Init => RaceBounded
<1> SUFFICES ASSUME Init, NEW i \in Invoices PROVE BoundedAt(i)
  BY DEF RaceBounded
<1>1. \A c \in Containers : InFlight(i)[c] = 0
  BY DEF Init, InFlight
<1>2. AmountDue[i] \in Int /\ AmountDue[i] > 0 /\ paid[i] = 0
  BY PaymentsAssumption, PaidFromNothing
<1>3. SumFunctionOnSet(InFlight(i), Containers) <= Cardinality(Containers) * 0
  BY <1>1, SumBounded, PaymentsAssumption
<1>4. Cardinality(Containers) \in Nat
  BY PaymentsAssumption, FS_CardinalityType
<1>5. SumFunctionOnSet(InFlight(i), Containers) \in Int
  BY <1>1, SumType, PaymentsAssumption
<1>6. Cardinality(Containers) * AmountDue[i] >= 0 /\ Cardinality(Containers) * 0 = 0
  BY <1>2, <1>4
<1>7. paid[i] + SumFunctionOnSet(InFlight(i), Containers) <= Cardinality(Containers) * AmountDue[i]
  BY <1>2, <1>3, <1>5, <1>6, LimitType
<1>8. QED BY <1>1, <1>2, <1>7 DEF BoundedAt

----------------------------------------------------------------------------
(* The accounts: every step is one of the abstract ledger, or changes      *)
(* nothing that it knows of.                                               *)

PaidFromZero == \A i \in Invoices \ negative : paid[i] >= 0

\* What is paid of an invoice is not below zero.
LEMMA BalanceFromZero == IInv => PaidFromZero
BY PaidNonNegative DEF IInv, PaidFromZero

\* Nor is it after a step.
LEMMA BalanceFromZeroNext == IInv' => PaidFromZero'
BY BalanceFromZero, PTL

\* The handlers' rules for the status agree with the account's.
LEMMA StatusRules ==
    ASSUME NEW i \in Invoices, NEW n \in Int
    PROVE  /\ Account!StatusOf(i, n) = StatusAfterDelete(i, n)
           /\ n > 0 => Account!StatusOf(i, n) = StatusAfterRecord(i, n)
<1>1. AmountDue[i] \in Int /\ AmountDue[i] > 0
  BY PaymentsAssumption
<1>2. QED BY <1>1 DEF Account!StatusOf, StatusAfterDelete, StatusAfterRecord

\* A payment is accepted by the account, or its invoice is excused.
LEMMA WriteAccepts ==
    ASSUME IInv, NEW c \in Containers, WritePayment(c)
    PROVE  \E i \in Invoices : Account!Accept(i) \/ Account!Excuse(i)
<1> DEFINE i == req[c].invoice
           a == req[c].amount
<1>1. /\ i \in Invoices /\ a \in Int /\ req[c].total \in Int
      /\ paid \in [Invoices -> Int] /\ status \in [Invoices -> {"unpaid", "partial", "paid"}]
  BY PaidType DEF WritePayment, IInv, Typed, TypeOK, BusyOnInvoice, Request
<1>2. /\ paid' = [paid EXCEPT ![i] = @ + Stored(a)]
      /\ status' = [status EXCEPT ![i] = StatusAfterRecord(i, req[c].total + a)]
      /\ overlapped' = overlapped
      /\ negative' = IF a < 0 THEN negative \cup {i} ELSE negative
      /\ odd' = IF a = 0 \/ Stored(a) # a THEN odd \cup {i} ELSE odd
  BY PaidAfterWrite DEF WritePayment, IInv
<1>3. CASE i \in Excused'
  <2>1. Excused' = Excused \cup {i}
    BY <1>2, <1>3 DEF Excused
  <2>2. \A j \in Invoices \ {i} : paid'[j] = paid[j] /\ status'[j] = status[j]
    BY <1>1, <1>2
  <2>3. QED BY <1>1, <2>1, <2>2 DEF Account!Excuse
<1>4. CASE i \notin Excused'
  <2>1. /\ Excused' = Excused /\ i \notin overlapped \cup negative
        /\ Stored(a) = a /\ a > 0
    BY <1>1, <1>2, <1>4 DEF Excused
  <2>2. req[c].total = paid[i] /\ a <= AmountDue[i] - paid[i]
    BY <2>1 DEF WritePayment, IInv, Ledger, ReadsHold
  <2>3. paid[i] >= 0 /\ paid[i] \in Int /\ AmountDue[i] \in Int
    BY <1>1, <2>1, BalanceFromZero, PaymentsAssumption DEF PaidFromZero
  <2>4. a \in 1 .. (AmountDue[i] - paid[i]) /\ (paid[i] + a) \in Int /\ paid[i] + a > 0
    BY <1>1, <2>1, <2>2, <2>3
  <2>5. Account!StatusOf(i, paid[i] + a) = StatusAfterRecord(i, paid[i] + a)
    BY <1>1, <2>4, StatusRules
  <2>6. Account!Book(i, paid[i] + a)
    <3>1. paid' = [paid EXCEPT ![i] = paid[i] + a]
      BY <1>1, <1>2, <2>1
    <3>2. status' = [status EXCEPT ![i] = Account!StatusOf(i, paid[i] + a)]
      BY <1>2, <2>2, <2>5
    <3>3. QED BY <2>1, <3>1, <3>2 DEF Account!Book
  <2>7. i \notin Excused
    BY <1>4, <2>1
  <2>8. QED BY <1>1, <2>4, <2>6, <2>7 DEF Account!Accept
<1>5. QED BY <1>3, <1>4

\* A payment that is deleted is taken back, one that was gone already changes
\* nothing, or the invoice is excused.
LEMMA DeleteTakesBack ==
    ASSUME IInv, IInv', NEW c \in Containers, WriteDelete(c)
    PROVE  \/ \E i \in Invoices : Account!TakeBack(i) \/ Account!Excuse(i)
           \/ UNCHANGED <<paid, status, Excused>>
<1> DEFINE i == req[c].invoice
           a == req[c].amount
<1>1. /\ i \in Invoices /\ a \in Int /\ req[c].total \in Int
      /\ paid \in [Invoices -> Int] /\ status \in [Invoices -> {"unpaid", "partial", "paid"}]
  BY PaidType DEF WriteDelete, IInv, Typed, TypeOK, BusyOnInvoice, Request
<1>2. /\ paid' = [paid EXCEPT ![i] = @ - a]
      /\ status' = [status EXCEPT ![i] = StatusAfterDelete(i, req[c].total)]
      /\ negative' = negative /\ Excused' = Excused
  BY PaidAfterDelete DEF WriteDelete, history, Excused, IInv
<1>3. CASE i \in Excused
  <2>1. \A j \in Invoices \ {i} : paid'[j] = paid[j] /\ status'[j] = status[j]
    BY <1>1, <1>2
  <2>2. Excused' = Excused \cup {i}
    BY <1>2, <1>3
  <2>3. QED BY <1>1, <2>1, <2>2 DEF Account!Excuse
<1>4. CASE i \notin Excused
  <2>1. i \notin overlapped /\ i \notin negative
    BY <1>4 DEF Excused
  <2>2. req[c].total = paid[i] - a /\ a >= 0
    BY <2>1 DEF WriteDelete, IInv, Ledger, ReadsHold, RowsInv, DeleteTargets
  <2>3. paid'[i] >= 0 /\ paid'[i] = paid[i] - a /\ paid[i] \in Int
    BY <1>1, <1>2, <2>1, BalanceFromZeroNext DEF PaidFromZero
  <2>4. CASE a = 0
    <3>1. status[i] = StatusAfterDelete(i, paid[i])
      BY <1>1, <1>4 DEF Excused, IInv, Ledger, StatusAgrees
    <3>2. paid[i] - a = paid[i]
      BY <2>3, <2>4
    <3>3. paid' = paid /\ status' = status
      BY <1>1, <1>2, <2>2, <3>1, <3>2
    <3>4. QED BY <1>2, <3>3
  <2>5. CASE a # 0
    <3>1. a \in 1 .. paid[i]
      BY <1>1, <2>2, <2>3, <2>5
    <3>2. Account!StatusOf(i, paid[i] - a) = StatusAfterDelete(i, paid[i] - a)
      BY <1>1, <2>3, StatusRules
    <3>3. Account!Book(i, paid[i] - a)
      BY <1>1, <1>2, <2>2, <3>2 DEF Account!Book
    <3>4. QED BY <1>1, <1>4, <3>1, <3>3 DEF Account!TakeBack
  <2>6. QED BY <2>4, <2>5
<1>5. QED BY <1>3, <1>4

\* A request that comes to an invoice excuses it if another one is there.
LEMMA TouchExcuses ==
    ASSUME NEW c \in Containers, NEW i \in Invoices, Touch(c, i), UNCHANGED tables
    PROVE  Account!Excuse(i) \/ UNCHANGED <<paid, status, Excused>>
<1>1. UNCHANGED <<paid, status>> /\ Excused' \in {Excused, Excused \cup {i}}
  BY PaidSame DEF Touch, tables, Excused
<1>2. QED BY <1>1 DEF Account!Excuse

\* Every step of the handlers is a step of the accounts, or none.
LEMMA AccountStep ==
    ASSUME IInv, IInv', [Next]_vars
    PROVE  Account!Next \/ UNCHANGED <<paid, status, Excused>>
<1> USE DEF Account!Next
<1>1. ASSUME NEW c \in Containers, WritePayment(c) PROVE Account!Next
  BY <1>1, WriteAccepts
<1>2. ASSUME NEW c \in Containers, WriteDelete(c)
      PROVE  Account!Next \/ UNCHANGED <<paid, status, Excused>>
  BY <1>2, DeleteTakesBack
<1>3. ASSUME UNCHANGED <<tables, history>> PROVE UNCHANGED <<paid, status, Excused>>
  BY <1>3, PaidSame DEF tables, history, Excused
<1>4. ASSUME NEW c \in Containers, LookupInvoice(c)
      PROVE  Account!Next \/ UNCHANGED <<paid, status, Excused>>
  <2>1. CASE Refuse(c)
    BY <1>3, <2>1 DEF Refuse
  <2>2. CASE ~Refuse(c)
    <3>1. req[c].invoice \in Invoices /\ Touch(c, req[c].invoice) /\ UNCHANGED tables
      BY <1>4, <2>2 DEF LookupInvoice, IInv, Typed, TypeOK, Request
    <3>2. QED BY <3>1, TouchExcuses
  <2>3. QED BY <2>1, <2>2
<1>5. ASSUME NEW c \in Containers, LookupPayment(c)
      PROVE  Account!Next \/ UNCHANGED <<paid, status, Excused>>
  <2>1. CASE Refuse(c)
    BY <1>3, <2>1 DEF Refuse
  <2>2. CASE ~Refuse(c)
    <3>1. PICK r \in payments : Touch(c, r.invoice) /\ UNCHANGED tables
      BY <1>5, <2>2 DEF LookupPayment
    <3>2. r.invoice \in Invoices
      BY DEF IInv, Typed, TypeOK, Row
    <3>3. QED BY <3>1, <3>2, TouchExcuses
  <2>3. QED BY <2>1, <2>2
<1>6. ASSUME NEW c \in Containers,
             Receive(c) \/ Authorise(c) \/ ReadTotal(c) \/ DeleteRow(c) \/ Recount(c) \/ Abort(c)
      PROVE  UNCHANGED <<paid, status, Excused>>
  BY <1>3, <1>6 DEF Receive, Authorise, ReadTotal, DeleteRow, Recount, Abort, Refuse
<1>7. CASE UNCHANGED vars
  BY <1>3, <1>7 DEF vars, tables, history
<1>8. QED BY <1>1, <1>2, <1>4, <1>5, <1>6, <1>7 DEF Next, Handle

----------------------------------------------------------------------------
(* The theorems.                                                           *)

\* The payments of an invoice never exceed what is due, unless two requests
\* worked on it at a time or one of its payments was below zero: the race is
\* the only way past the check of record_payment, rounding is none.
THEOREM NoOverpaymentHolds == Spec => []NoOverpayment
<1>1. IInv => NoOverpayment
  BY DEF IInv, Ledger
<1>2. QED BY <1>1, IInvHolds, PTL

\* After every sequence of payments and deletes that neither overlap nor are
\* below zero nor have a fraction of a cent, the status that the two handlers
\* left, each from its own rule, is the one the rows call for.
THEOREM StatusAgreesHolds == Spec => []StatusAgrees
<1>1. IInv => StatusAgrees
  BY DEF IInv, Ledger
<1>2. QED BY <1>1, IInvHolds, PTL

\* However many requests race, an invoice without payments below zero never
\* holds more than the number of containers times what is due.
THEOREM OverpaymentBoundedHolds == Spec => []OverpaymentBounded
<1>1. IInv /\ RaceBounded => OverpaymentBounded
  <2> SUFFICES ASSUME IInv, RaceBounded, NEW i \in Invoices \ negative
               PROVE  paid[i] <= Cardinality(Containers) * AmountDue[i]
    BY DEF OverpaymentBounded
  <2>1. TypeOK /\ paid[i] \in Int
    BY PaidType DEF IInv, Typed
  <2> DEFINE onTheWay == SumFunctionOnSet(InFlight(i), Containers)
  <2>2. onTheWay \in Int /\ onTheWay >= 0
    BY <2>1, InFlightType, SumType, SumNonNegative, PaymentsAssumption
  <2>3. paid[i] + onTheWay <= Cardinality(Containers) * AmountDue[i]
    BY DEF RaceBounded, BoundedAt
  <2> HIDE DEF onTheWay
  <2>4. QED BY <2>1, <2>2, <2>3, LimitType
<1>2. QED BY <1>1, IInvHolds, IInvStep, RaceInit, RaceStep, PTL DEF Spec

\* Nobody waits in a circle: the transaction that holds the row a DELETE waits
\* for waits for nothing itself.  This is the safety part of the claim that
\* every request returns; that the holder goes on is the fairness assumed.
THEOREM NoCircularWait ==
    Spec => [](\A c, d \in Containers :
                 pc[c] = "delete" /\ RowLocked(c) /\ req[d].row = "held"
                   => pc[d] \in {"recount", "settle"} /\ d # c)
<1>1. IInv => \A c, d \in Containers :
                 pc[c] = "delete" /\ RowLocked(c) /\ req[d].row = "held"
                   => pc[d] \in {"recount", "settle"} /\ d # c
  BY DEF IInv, RowsHeld
<1>2. QED BY <1>1, IInvHolds, PTL

\* Under the same conditions, and without fractions of a cent, the status paid
\* says exactly that the payments cover the amount due, after every sequence
\* of payments and deletes.
THEOREM PaidIffCoveredHolds == Spec => []PaidIffCovered
<1>1. IInv => PaidIffCovered
  <2> SUFFICES ASSUME IInv, NEW i \in Invoices \ (overlapped \cup negative \cup odd)
               PROVE  (status[i] = "paid") <=> (paid[i] >= AmountDue[i])
    BY DEF PaidIffCovered
  <2>1. status[i] = StatusAfterDelete(i, paid[i]) /\ paid[i] \in Int /\ AmountDue[i] \in Int
    BY PaymentsAssumption, PaidType DEF IInv, Ledger, StatusAgrees
  <2>2. QED BY <2>1 DEF StatusAfterDelete
<1>2. QED BY <1>1, IInvHolds, PTL

\* A fully paid invoice takes no payment, but from a request that overlapped
\* with the one that paid it.
THEOREM PaidTakesNoPaymentHolds == Spec => PaidTakesNoPayment
<1> DEFINE Closed ==
      \A i \in Invoices :
         status[i] = "paid" /\ i \notin overlapped' =>
             \A r \in payments' : r.invoice = i => r \in payments
<1>1. IInv /\ [Next]_vars => [Closed]_vars
  <2> SUFFICES ASSUME IInv, [Next]_vars PROVE Closed
    OBVIOUS
  <2>1. CASE payments' \subseteq payments
    BY <2>1
  <2>2. ASSUME NEW c \in Containers, WritePayment(c) PROVE Closed
    <3>1. /\ overlapped' = overlapped
          /\ \A r \in payments' \ payments : r.invoice = req[c].invoice
      BY <2>2 DEF WritePayment
    <3>2. req[c].invoice \notin overlapped => status[req[c].invoice] # "paid"
      BY <2>2 DEF WritePayment, IInv, Ledger, ReadsHold
    <3>3. QED BY <3>1, <3>2
  <2>3. QED
    BY <2>1, <2>2
       DEF Next, Handle, Receive, Authorise, LookupInvoice, ReadTotal, LookupPayment, DeleteRow,
           Recount, WriteDelete, Abort, Refuse, tables, vars
<1>2. QED BY <1>1, IInvHolds, PTL DEF Spec, PaidTakesNoPayment

\* The handlers, with their rows, their reads and their two rules for the
\* status, implement the account of each invoice: an interleaving can break
\* the promise only by making requests overlap.
THEOREM KeepsAccountsHolds == Spec => KeepsAccounts
<1>1. Init => Account!Init
  <2> SUFFICES ASSUME Init PROVE Account!Init
    OBVIOUS
  <2>1. \A i \in Invoices : Account!StatusOf(i, 0) = "unpaid"
    BY PaymentsAssumption DEF Account!StatusOf
  <2>2. paid = [i \in Invoices |-> 0]
    BY PaidFromNothing DEF paid
  <2>3. QED BY <2>1, <2>2 DEF Init, Account!Init, Excused
<1>2. IInv /\ IInv' /\ [Next]_vars => [Account!Next]_(Account!vars)
  BY AccountStep DEF Account!vars
<1>3. QED BY <1>1, <1>2, IInvHolds, PTL DEF Spec, KeepsAccounts, Account!Spec

----------------------------------------------------------------------------
(* One request at a time.                                                  *)

OneAtATime == \A c, d \in Containers : c = d

NoneOverlapped == overlapped = {}

\* Requests that are served one after the other never overlap on an invoice.
LEMMA AloneStep == OneAtATime /\ NoneOverlapped /\ [Next]_vars => NoneOverlapped'
<1> SUFFICES ASSUME OneAtATime, NoneOverlapped, [Next]_vars PROVE NoneOverlapped'
  OBVIOUS
<1>1. ASSUME NEW c \in Containers, NEW i, Touch(c, i) PROVE NoneOverlapped'
  BY <1>1 DEF OneAtATime, NoneOverlapped, Touch
<1>2. ASSUME UNCHANGED overlapped PROVE NoneOverlapped'
  BY <1>2 DEF NoneOverlapped
<1>3. ASSUME NEW c \in Containers, LookupInvoice(c) \/ LookupPayment(c) PROVE NoneOverlapped'
  BY <1>1, <1>2, <1>3 DEF LookupInvoice, LookupPayment, Refuse, history
<1>4. QED
  BY <1>2, <1>3
     DEF Next, Handle, Receive, Authorise, ReadTotal, WritePayment, DeleteRow, Recount,
         WriteDelete, Abort, Refuse, history, vars

\* The race is the whole cause of the overpayments that the documents exclude:
\* of requests that are served one after the other none lifts an invoice above
\* what is due, whatever was recorded, refused, deleted or aborted before,
\* as long as no amount is below zero.
THEOREM NeverOverpaidAlone ==
    ASSUME OneAtATime
    PROVE  Spec => [](\A i \in Invoices \ negative : paid[i] <= AmountDue[i])
<1>1. Init => NoneOverlapped
  BY DEF Init, NoneOverlapped
<1>2. NoneOverlapped /\ [Next]_vars => NoneOverlapped'
  BY AloneStep
<1>3. NoneOverlapped /\ NoOverpayment => \A i \in Invoices \ negative : paid[i] <= AmountDue[i]
  BY DEF NoneOverlapped, NoOverpayment
<1>4. QED BY <1>1, <1>2, <1>3, NoOverpaymentHolds, PTL DEF Spec
=============================================================================
