\* Whole amounts, two containers: what a race alone can do.
SPECIFICATION Spec
CONSTANTS
    Containers = {c1, c2}
    i1 = i1
    i2 = i2
    Invoices = {i1}
    NoInvoice = NoInvoice
    PaymentIds = {p1, p2, p3}
    NoPayment = NoPayment
    Amounts <- PlainAmounts
    AmountDue <- SmallDue
SYMMETRY Interchangeable
INVARIANT NeverOverpaid
