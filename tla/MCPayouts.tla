------------------------------ MODULE MCPayouts ------------------------------
EXTENDS Payouts, TLC

Symmetric == Permutations(Runs) \cup Permutations(Payments) \cup Permutations(Publishers)
===============================================================================
