----------------------------- MODULE MCPayments -----------------------------
(***************************************************************************)
(* Small instances of Payments for TLC.                                    *)
(***************************************************************************)
EXTENDS Payments, TLC

CONSTANTS i1, i2

\* Two cents are due: half cents from -2 to 5 reach every branch.
SmallDue == i1 :> 4
TwoDue == i1 :> 4 @@ i2 :> 2

\* A payment below zero, one of nothing, amounts that are rounded up (1, 3) and
\* not (2, 4).
AllAmounts == {-2, 0, 1, 2, 3, 4}
PlainAmounts == {0, 2, 4}
OneAmount == {2}

Interchangeable == Permutations(Containers) \cup Permutations(PaymentIds)

\* docs/NIB_Membership_Payments_API_Spec_v2.md:54: a payment cannot exceed the
\* outstanding balance, whatever other request is served at the time.
NeverOverpaid == \A i \in Invoices : paid[i] <= AmountDue[i]
=============================================================================
