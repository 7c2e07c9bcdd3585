--------------------------- MODULE MCStripeWebhooks ---------------------------
EXTENDS StripeWebhooks, TLC

CONSTANTS c1, v1

OnePayer == [p \in Payments |-> v1]

\* Two refunds of a payment: cumulative amounts of 1 and 2.
TwoUnits == [p \in Payments |-> 2]

Symmetric == Permutations(Handlers)
===============================================================================
