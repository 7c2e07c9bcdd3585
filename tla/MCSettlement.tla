----------------------------- MODULE MCSettlement -----------------------------
(***************************************************************************)
(* Small instances of Settlement.  Prices are real ones scaled down: a     *)
(* floor of 1000 (charge 1) and an increment of 10, so that the ads below  *)
(* clear at charges 1 and 2 and an odd charge leaves a rest to split.      *)
(***************************************************************************)
EXTENDS SettlementRefinement, TLC

CONSTANTS p1, p2, d1, d2, v1, a1, a2, big

\* One device per publisher: only the advertiser lock serializes them.
OwnerApart == d1 :> p1 @@ d2 :> p2
\* Two devices of one publisher: the publisher lock serializes them.
OwnerShared == d1 :> p1 @@ d2 :> p1

OneAdvertiser == [a \in Ads |-> v1]

MoneyCpm    == a1 :> 3000 @@ a2 :> 2000
MoneyBudget == a1 :> 4 @@ a2 :> 2
NoCaps      == [a \in Ads |-> NoCap]

FloorCpm    == [a \in Ads |-> 1000]
AmpleBudget == [a \in Ads |-> 9]
DayCaps     == [a \in Ads |-> 1]

SymmetricTokens == Permutations(Tokens) \cup Permutations(Workers)
===============================================================================
