SPECIFICATION Spec
CONSTANTS
    Containers = {c1, c2}
    i1 = i1
    i2 = i2
    Invoices = {i1, i2}
    NoInvoice = NoInvoice
    PaymentIds = {p1, p2, p3}
    NoPayment = NoPayment
    Amounts <- AllAmounts
    AmountDue <- TwoDue
SYMMETRY Interchangeable
INVARIANT TypeOK
INVARIANT NoOverpayment
INVARIANT StatusAgrees
INVARIANT OverpaymentBounded
PROPERTY PaidTakesNoPayment
PROPERTY KeepsAccounts
