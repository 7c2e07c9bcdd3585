------------------------------ MODULE Economics ------------------------------
(***************************************************************************)
(* The pure rules of the system: what an impression costs, how a charge is *)
(* split, the second price of the auction, the dwell the server credits    *)
(* and the classification of a redemption.  Money is in integer millicents *)
(* and time in integer units, as in packages/contracts/src/config.ts.      *)
(***************************************************************************)
EXTENDS Integers

CONSTANTS
    ShareBps,          \* publisherShareBps: the publisher's share, in basis points
    MinBidCpm,         \* minBidCpmMillicents: the floor of the auction
    GspIncrement,      \* gspIncrementMillicents
    Skew,              \* DWELL_CLOCK_SKEW_SECONDS
    MaxPerSurface,     \* maxRedemptionsPerHourPerSurface (hard ceiling)
    MaxPerPublisher,   \* maxRedemptionsPerHourPerPublisher (hard ceiling)
    SoftPerSurface,    \* softRedemptionsPerHourPerSurface
    SoftPerPublisher,  \* softRedemptionsPerHourPerPublisher
    SivtThreshold      \* sivtHoldCountThreshold

ASSUME ShareAssumption ==
    ShareBps \in 0..10000

ASSUME PriceAssumption ==
    MinBidCpm \in Nat /\ GspIncrement \in Nat

ASSUME RateAssumption ==
    /\ Skew \in Nat
    /\ MaxPerSurface \in Nat /\ MaxPerPublisher \in Nat
    /\ SoftPerSurface \in Nat /\ SoftPerPublisher \in Nat
    /\ SivtThreshold \in Nat

Lesser(a, b)  == IF a <= b THEN a ELSE b
Greater(a, b) == IF a >= b THEN a ELSE b

(***************************************************************************)
(* Prices.                                                                 *)
(***************************************************************************)

\* Math.round(cpm / 1000): halves round up.
ImpressionCharge(cpm) == (cpm + 500) \div 1000

\* The publisher's part of a charge; roundUp gives it the indivisible rest.
PublisherAccrual(charge, roundUp) ==
    IF roundUp THEN (charge * ShareBps + 9999) \div 10000
               ELSE (charge * ShareBps) \div 10000

\* Mutant: both sides computed from the share.
PlatformShare(charge, roundUp) == PublisherAccrual(charge, roundUp)

PlatformFee(charge, roundUp) == charge - PublisherAccrual(charge, roundUp)

\* Mutant: the second price is not capped by the winner's bid.
UncappedClearingCpm(maxCpm, second) == Greater(MinBidCpm, second + GspIncrement)

\* What the winner of the auction pays: one increment over the second price,
\* never under the floor and never over its own bid.
ClearingCpm(maxCpm, second) ==
    Lesser(maxCpm, Greater(MinBidCpm, second + GspIncrement))

(***************************************************************************)
(* Dwell.  The client's claim is capped by the time that really elapsed    *)
(* since the token was signed, plus an allowance for the round trip.       *)
(***************************************************************************)
\* Mutant: the client's claim is trusted.
ClaimedDwell(issuedAt, now, claimed) == Greater(0, claimed)

EffectiveDwell(issuedAt, now, claimed) ==
    Greater(0, Lesser(claimed, (now - issuedAt) + Skew))

(***************************************************************************)
(* Validation.  The hard ceilings refuse; the classifier only decides      *)
(* between billing and recording without billing.                          *)
(***************************************************************************)
OverCeiling(deviceRecent, publisherRecent) ==
    \/ deviceRecent >= MaxPerSurface
    \/ publisherRecent >= MaxPerPublisher

\* Mutant: the bands start one redemption late.
ClassifyLate(deviceRecent, publisherRecent, recentSivt, dwell, minDwell) ==
    IF \/ deviceRecent > SoftPerSurface
       \/ publisherRecent > SoftPerPublisher
       \/ recentSivt > SivtThreshold
       \/ dwell < minDwell
    THEN "sivt" ELSE "valid"

Classify(deviceRecent, publisherRecent, recentSivt, dwell, minDwell) ==
    IF \/ deviceRecent >= SoftPerSurface
       \/ publisherRecent >= SoftPerPublisher
       \/ recentSivt >= SivtThreshold
       \/ dwell < minDwell
    THEN "sivt" ELSE "valid"
===============================================================================
