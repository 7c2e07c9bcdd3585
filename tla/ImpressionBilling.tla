-------------------------- MODULE ImpressionBilling --------------------------
(***************************************************************************)
(* What redemption promises, without requests, locks, clocks or rates:     *)
(* every token names who pays whom and how much; a token is either billed, *)
(* once, exactly as it says and within the payer's balance and the ad's    *)
(* budget, or held, once, moving nothing.                                  *)
(***************************************************************************)
EXTENDS Economics

CONSTANTS Publishers, Advertisers, Ads, AdvertiserOf, MaxCpm, Budget, Tokens, Amounts, None

VARIABLES
    terms,      \* terms[t]: the publisher, the ad and the charge t was issued for
    outcome,    \* outcome[t]: "none" until t is redeemed, then "valid" or "sivt"
    balance, escrow, platform,
    spent

vars == <<terms, outcome, balance, escrow, platform, spent>>

Terms == [publisher: Publishers, ad: Ads, charge: Nat]

Init ==
    /\ terms = [t \in Tokens |-> None]
    /\ outcome = [t \in Tokens |-> "none"]
    /\ balance = [v \in Advertisers |-> 0]
    /\ escrow = [p \in Publishers |-> 0]
    /\ platform = 0
    /\ spent = [a \in Ads |-> 0]

\* A charge lies between that of the floor and that of the ad's own bid.
Issue(t, p, a) ==
    /\ terms[t] = None
    /\ \E charge \in ImpressionCharge(MinBidCpm)..ImpressionCharge(MaxCpm[a]) :
          terms' = [terms EXCEPT ![t] = [publisher |-> p, ad |-> a, charge |-> charge]]
    /\ UNCHANGED <<outcome, balance, escrow, platform, spent>>

Bill(t, roundUp) ==
    LET payer == AdvertiserOf[terms[t].ad]
        charge == terms[t].charge
    IN
    /\ terms[t] # None
    /\ outcome[t] = "none"
    /\ charge <= balance[payer]
    /\ spent[terms[t].ad] + charge <= Budget[terms[t].ad]
    /\ outcome' = [outcome EXCEPT ![t] = "valid"]
    /\ balance' = [balance EXCEPT ![payer] = @ - charge]
    /\ escrow' = [escrow EXCEPT ![terms[t].publisher] = @ + PublisherAccrual(charge, roundUp)]
    /\ platform' = platform + PlatformFee(charge, roundUp)
    /\ spent' = [spent EXCEPT ![terms[t].ad] = @ + charge]
    /\ UNCHANGED terms

Hold(t) ==
    /\ terms[t] # None
    /\ outcome[t] = "none"
    /\ outcome' = [outcome EXCEPT ![t] = "sivt"]
    /\ UNCHANGED <<terms, balance, escrow, platform, spent>>

\* Stripe adds to a balance, or takes back from it without regard to what is left.
Fund(v, amount) ==
    /\ \/ balance' = [balance EXCEPT ![v] = @ + amount]
       \/ balance' = [balance EXCEPT ![v] = @ - amount]
    /\ UNCHANGED <<terms, outcome, escrow, platform, spent>>

Next ==
    \/ \E t \in Tokens, p \in Publishers, a \in Ads : Issue(t, p, a)
    \/ \E t \in Tokens, roundUp \in BOOLEAN : Bill(t, roundUp)
    \/ \E t \in Tokens : Hold(t)
    \/ \E v \in Advertisers, amount \in Amounts : Fund(v, amount)

Spec == Init /\ [][Next]_vars
===============================================================================
