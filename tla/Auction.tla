------------------------------- MODULE Auction -------------------------------
(***************************************************************************)
(* What is sold out of the campaigns: the auction a begin request runs, in *)
(* three reads of tables that the rest of the system changes meanwhile,    *)
(* the token it issues, the redemption that bills it, and the click.  The  *)
(* daily cap of a bid, which no route sets, is left to Settlement.         *)
(***************************************************************************)
EXTENDS Campaigns

CONSTANTS
    Begins          \* what handles begin requests, and keeps the token of the last one

VARIABLES
    spent,      \* spent[f]: sum of chargeMillicents of the ad's impressions
    begin,      \* each begin request: where it is and the bids still in the running
    token,      \* the token it was answered with
    redeemed,   \* the tokens of these that have an impression
    clicked     \* the tokens of these that have a click

auctionVars == <<spent, begin, token, redeemed, clicked>>
vars == <<campaignVars, auctionVars>>

Token == [ad: Forms, charge: Nat]

ASSUME TokenAssumption == None \notin Token

Serving == {f \in Forms : ad[f] # None /\ ad[f].status = "active"
                                       /\ ad[f].moderation = "approved"}
Charge(f)  == ImpressionCharge(MaxCpm[f])
Solvent(f) == balance[ad[f].account] >= Charge(f)
InBudget(f) == spent[f] + Charge(f) <= Budget[f]

(***************************************************************************)
(* POST /api/impression/begin and runAuction.                              *)
(***************************************************************************)
Advance(b, label, ads) == begin' = [begin EXCEPT ![b] = [at |-> label, ads |-> ads]]

\* The token of the request before is out of sight; it may be used or expire.
Forget(b) ==
    /\ token' = [token EXCEPT ![b] = None]
    /\ redeemed' = redeemed \ {b}
    /\ clicked' = clicked \ {b}

\* Mutant: the join of the bids and the ads without the moderation of the ad.
SelectActiveBids(b) ==
    /\ begin[b].at = "idle"
    /\ Advance(b, "balances", {f \in Forms : ad[f] # None /\ ad[f].status = "active"})
    /\ Forget(b)
    /\ UNCHANGED <<campaignVars, spent>>

\* The active bids on approved ads.
SelectCandidates(b) ==
    /\ begin[b].at = "idle"
    /\ Advance(b, "balances", Serving)
    /\ Forget(b)
    /\ UNCHANGED <<campaignVars, spent>>

\* Mutant: an account without ledger entries passes for a funded one.
SumSomeBalances(b) ==
    /\ begin[b].at = "balances"
    /\ Advance(b, "spend", {f \in begin[b].ads : Solvent(f) \/ balance[ad[f].account] = 0})
    /\ UNCHANGED <<campaignVars, spent, token, redeemed, clicked>>

\* The balances of their accounts, each of which must cover the bid's own maximum.
SumBalances(b) ==
    /\ begin[b].at = "balances"
    /\ Advance(b, "spend", {f \in begin[b].ads : Solvent(f)})
    /\ UNCHANGED <<campaignVars, spent, token, redeemed, clicked>>

\* The highest other bid, or the floor.
SecondPrices(eligible, winner) ==
    LET others == {MaxCpm[g] : g \in eligible \ {winner}} IN
    IF others = {} THEN {MinBidCpm}
    ELSE {cpm \in others : \A other \in others : other <= cpm}

\* The spend of each ad; of the bids whose budget has room for their maximum any may
\* win, the weights only say how often.  No bid wins: the answer is empty.
PickWinner(b) ==
    LET eligible == {f \in begin[b].ads : InBudget(f)} IN
    /\ begin[b].at = "spend"
    /\ Advance(b, "idle", {})
    /\ IF eligible = {}
       THEN UNCHANGED token
       ELSE \E winner \in eligible : \E second \in SecondPrices(eligible, winner) :
              token' = [token EXCEPT ![b] =
                [ad |-> winner,
                 charge |-> ImpressionCharge(ClearingCpm(MaxCpm[winner], second))]]
    /\ UNCHANGED <<campaignVars, spent, redeemed, clicked>>

(***************************************************************************)
(* POST /api/impression/redeem as the campaign sees it (Settlement has the *)
(* locks and the gates that are about publishers), and GET /r/<token>.     *)
(***************************************************************************)
Redeem(b) ==
    LET f == token[b].ad
        total == spent[f] + token[b].charge
    IN
    /\ token[b] # None
    /\ b \notin redeemed
    /\ token[b].charge <= balance[ad[f].account]
    /\ total <= Budget[f]
    /\ redeemed' = redeemed \cup {b}
    /\ spent' = [spent EXCEPT ![f] = total]
    /\ balance' = [balance EXCEPT ![ad[f].account] = @ - token[b].charge]
    /\ ad' = IF Budget[f] - total < ImpressionCharge(MinBidCpm)
             THEN [ad EXCEPT ![f].status = "depleted"] ELSE ad
    /\ UNCHANGED <<account, paid, forms, queue, begin, token, clicked>>

\* The click counts once per token, and only while the ad is approved.
Click(b) ==
    /\ token[b] # None
    /\ ad[token[b].ad].moderation = "approved"
    /\ clicked' = clicked \cup {b}
    /\ UNCHANGED <<campaignVars, spent, begin, token, redeemed>>

(***************************************************************************)
(* The specification.                                                      *)
(***************************************************************************)
Init ==
    /\ CampaignInit
    /\ spent = [f \in Forms |-> 0]
    /\ begin = [b \in Begins |-> [at |-> "idle", ads |-> {}]]
    /\ token = [b \in Begins |-> None]
    /\ redeemed = {} /\ clicked = {}

Next ==
    \/ CampaignNext /\ UNCHANGED auctionVars
    \/ \E b \in Begins : \/ SelectCandidates(b) \/ SumBalances(b) \/ PickWinner(b)
                         \/ Redeem(b) \/ Click(b)

Spec == Init /\ [][Next]_vars

(***************************************************************************)
(* Properties.                                                             *)
(***************************************************************************)

\* Every variable has its type.
TypeOK ==
    /\ CampaignTypeOK
    /\ spent \in [Forms -> Nat]
    /\ begin \in [Begins -> [at: {"idle", "balances", "spend"}, ads: SUBSET Forms]]
    /\ token \in [Begins -> Token \cup {None}]
    /\ redeemed \subseteq Begins /\ clicked \subseteq Begins

\* Whatever happens between the reads of an auction, what it sells has been decided
\* on by a moderator and its charge was paid for by the user who placed it
\* (admin/moderation/page.tsx:72, "Nothing serves while pending"; market/route.ts:28,
\* "An unfunded bid never wins an auction").
SoldWasReviewedAndPaid ==
    \A b \in Begins : token[b] # None =>
        /\ ad[token[b].ad].moderation # "pending"
        /\ token[b].charge <= paid[UserOf[token[b].ad]]
===============================================================================
