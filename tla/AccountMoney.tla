----------------------------- MODULE AccountMoney -----------------------------
(***************************************************************************)
(* What the Stripe webhook promises of an advertiser's account, without    *)
(* events, deliveries or transactions: a payment for the account is        *)
(* credited once, in full; what Stripe takes back of it, by a refund or by *)
(* a dispute, is debited from the same account, never twice and never more *)
(* than was taken; nothing else moves the balance.                         *)
(***************************************************************************)
EXTENDS Integers

CONSTANTS Payments, Advertisers, Payer, Amount, Sources

VARIABLES
    topups,     \* the payments that are for an advertiser's account
    paid,       \* the payments that went through
    taken,      \* taken[s]: what Stripe took back through s so far
    credited,   \* credited[p]: what the ledger credited for p
    reversed,   \* reversed[s]: what the ledger debited for s
    balance     \* balance[v]: the advertiser's balance in the ledger

vars == <<topups, paid, taken, credited, reversed, balance>>

Init ==
    /\ topups \subseteq Payments
    /\ paid = {}
    /\ taken = [s \in Sources |-> 0]
    /\ credited = [p \in Payments |-> 0]
    /\ reversed = [s \in Sources |-> 0]
    /\ balance = [v \in Advertisers |-> 0]

Pay(p) ==
    /\ paid' = paid \cup {p}
    /\ UNCHANGED <<topups, taken, credited, reversed, balance>>

Take(s, amount) ==
    /\ taken[s] < amount
    /\ taken' = [taken EXCEPT ![s] = amount]
    /\ UNCHANGED <<topups, paid, credited, reversed, balance>>

Credit(p) ==
    /\ p \in paid
    /\ credited[p] = 0
    /\ credited' = [credited EXCEPT ![p] = Amount[p]]
    /\ balance' = [balance EXCEPT ![Payer[p]] = @ + Amount[p]]
    /\ UNCHANGED <<topups, paid, taken, reversed>>

\* Sources are pairs of a kind and a payment.
Reverse(s, amount) ==
    /\ s[2] \in topups
    /\ reversed[s] < amount /\ amount <= taken[s]
    /\ reversed' = [reversed EXCEPT ![s] = amount]
    /\ balance' = [balance EXCEPT ![Payer[s[2]]] = @ - (amount - reversed[s])]
    /\ UNCHANGED <<topups, paid, taken, credited>>

Next ==
    \/ \E p \in Payments : Pay(p)
    \/ \E p \in topups : Credit(p)
    \/ \E s \in Sources : \E amount \in 1..Amount[s[2]] : Take(s, amount) \/ Reverse(s, amount)

Spec == Init /\ [][Next]_vars
===============================================================================
