SPECIFICATION FairSpec
CONSTANTS
    Containers = {c1, c2, c3}
    i1 = i1
    i2 = i2
    Invoices = {i1}
    NoInvoice = NoInvoice
    PaymentIds = {p1, p2}
    NoPayment = NoPayment
    Amounts <- OneAmount
    AmountDue <- SmallDue
PROPERTY EveryRequestReturns
