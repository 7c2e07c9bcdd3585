------------------------------ MODULE Settlement ------------------------------
(***************************************************************************)
(* The redemption of impression tokens: the only path that records and     *)
(* bills an impression.  Requests run concurrently; each runs a database   *)
(* transaction at READ COMMITTED that takes three locks in a fixed order   *)
(* (publisher, device, advertiser), reads the counts and the balance under *)
(* them, and writes the impression and its ledger entries at its commit.   *)
(*                                                                         *)
(* Sums over the ledger and over the impressions table are kept as running *)
(* totals (balance, escrow, platform, spent); SumsMatchRows compares them  *)
(* with the sums themselves.                                               *)
(***************************************************************************)
EXTENDS Economics, FiniteSets, FiniteSetsExt

CONSTANTS
    Publishers, Devices, Surfaces, Advertisers, Ads,
    Owner,          \* Owner[d]: the publisher a device was registered for
    AdvertiserOf,   \* AdvertiserOf[a]: the advertiser of an ad
    MaxCpm,         \* bids.maxCpmMillicents of the ad's bid
    Budget,         \* bids.budgetMillicents
    DailyCap,       \* bids.dailyCapMillicents
    NoCap,          \* a NULL daily cap
    Tokens,         \* the nonces of the impression tokens
    Workers,        \* requests the web tier handles at once
    None,           \* absence of a token, a row or a request
    MinDwell, JitterMax, TokenTtl,
    Hour, Day, SivtWindow,       \* the trailing windows
    FraudIncrement,              \* fraudScoreIncrementOnSivt
    Claims,         \* display times a client may report
    Amounts,        \* amounts of a top-up or of a reversal
    MaxMoved,       \* bound: money topped up, and money reversed, per advertiser
    MaxClock        \* bound: the clock

ASSUME EntityAssumption ==
    /\ Owner \in [Devices -> Publishers]
    /\ AdvertiserOf \in [Ads -> Advertisers]
    /\ IsFiniteSet(Tokens) /\ IsFiniteSet(Publishers)

\* The bids route refuses a bid under the floor and a budget under the minimum
\* top-up, which is far above the charge of the highest bid it accepts.
ASSUME BidAssumption ==
    /\ MaxCpm \in [Ads -> Nat] /\ \A a \in Ads : MaxCpm[a] >= MinBidCpm
    /\ Budget \in [Ads -> Nat] /\ \A a \in Ads : ImpressionCharge(MaxCpm[a]) <= Budget[a]
    /\ DailyCap \in [Ads -> Nat \cup {NoCap}] /\ NoCap \notin Nat

ASSUME TimeAssumption ==
    /\ MinDwell \in Nat /\ JitterMax \in Nat /\ TokenTtl \in Nat
    /\ Hour \in Nat /\ Day \in Nat /\ SivtWindow \in Nat
    /\ MaxClock \in Nat

ASSUME AmountAssumption ==
    FraudIncrement \in Nat /\ Claims \subseteq Nat /\ Amounts \subseteq Nat /\ MaxMoved \in Nat

\* The payload of an impression token, a row of the impressions table, and what
\* the transaction of a redemption knows.
Token == [dev: Devices, ad: Ads, surface: Surfaces,
          charge: Nat, minDwell: Nat, issuedAt: Nat, expiresAt: Nat]

Row == [validation: {"valid", "sivt"}, charge: Nat, at: Nat]

Request == [tok: Tokens, now: Nat, at: Nat, dwell: Nat, bill: BOOLEAN]

ASSUME NoneAssumption ==
    /\ None \notin Token
    /\ None \notin Row
    /\ None \notin Request

VARIABLES
    clock,      \* the clock the web servers and the database share
    token,      \* token[t]: the payload signed into t
    row,        \* row[t]: the impressions row of nonce t
    balance,    \* balance of each advertiser in the ledger
    escrow,     \* escrow of each publisher in the ledger
    platform,   \* platform_revenue in the ledger
    funded,     \* credited to each advertiser by top-ups
    reversed,   \* debited from each advertiser by refunds and disputes
    spent,      \* adSpentMillicents of each ad
    bidStatus,  \* bids.status of each ad's bid
    fraudScore, \* publishers.fraudScore
    pc,         \* where each request is
    req         \* what the transaction of each request knows

money == <<balance, escrow, platform, funded, reversed>>
bids  == <<spent, bidStatus>>
vars  == <<clock, token, row, money, bids, fraudScore, pc, req>>

PubOf(t) == Owner[token[t].dev]
AdvOf(t) == AdvertiserOf[token[t].ad]

(***************************************************************************)
(* Locks.  Each is held from the step that takes it to the end of the      *)
(* transaction, so the program counters say who holds which.               *)
(***************************************************************************)
HoldsPublisher  == {"publisher", "device", "advertiser", "checked"}
HoldsDevice     == {"device", "advertiser", "checked"}
HoldsAdvertiser == {"advertiser", "checked"}

PublisherLockFree(p) ==
    \A w \in Workers : pc[w] \in HoldsPublisher => PubOf(req[w].tok) # p
DeviceLockFree(d) ==
    \A w \in Workers : pc[w] \in HoldsDevice => token[req[w].tok].dev # d
AdvertiserLockFree(v) ==
    \A w \in Workers : pc[w] \in HoldsAdvertiser => AdvOf(req[w].tok) # v

(***************************************************************************)
(* Counts over the impressions table.                                      *)
(***************************************************************************)
Recorded == {t \in Tokens : row[t] # None}

DeviceRows(d, s)  == {t \in Recorded : token[t].dev = d /\ token[t].surface = s}
PublisherRows(p)  == {t \in Recorded : PubOf(t) = p}
\* Mutant: gt for gte.
SinceStrictly(rows, time) == {t \in rows : row[t].at > time}

Since(rows, time) == {t \in rows : row[t].at >= time}
Sivt(rows)        == {t \in rows : row[t].validation # "valid"}

Charges(rows)     == SumFunction([t \in rows |-> row[t].charge])

AdRows(a)         == {t \in Recorded : token[t].ad = a}
AdvertiserRows(v) == {t \in Recorded : AdvOf(t) = v}

SpentSince(a, time) == Charges(Since(AdRows(a), time))

(***************************************************************************)
(* POST /api/impression/begin.  The auction reads bids, balances and spend *)
(* in separate statements under no lock, so relative to the transactions   *)
(* here its answer is any bid of the market, cleared against any other bid *)
(* or against the floor.                                                   *)
(***************************************************************************)
SecondPrices(a) == {MinBidCpm} \cup {MaxCpm[b] : b \in Ads \ {a}}

Begin(t, d, s) ==
    /\ token[t] = None
    /\ \E a \in Ads, jitter \in 0..JitterMax : \E second \in SecondPrices(a) :
          token' = [token EXCEPT ![t] =
              [dev |-> d, ad |-> a, surface |-> s,
               charge    |-> ImpressionCharge(ClearingCpm(MaxCpm[a], second)),
               minDwell  |-> MinDwell + jitter,
               issuedAt  |-> clock,
               expiresAt |-> clock + TokenTtl]]
    /\ UNCHANGED <<clock, row, money, bids, fraudScore, pc, req>>

(***************************************************************************)
(* POST /api/impression/redeem.                                            *)
(***************************************************************************)
Goto(w, label) == pc' = [pc EXCEPT ![w] = label]

\* Mutant: the transaction is forgotten with its locks still held.
FinishKeepingLocks(w) ==
    /\ pc' = pc
    /\ req' = [req EXCEPT ![w] = None]

Finish(w) ==
    /\ pc'  = [pc EXCEPT ![w] = "idle"]
    /\ req' = [req EXCEPT ![w] = None]

\* The request arrives from the token's own device: expiry, and the dwell gate
\* at the server's own time.
Dwell(t, claimed) == EffectiveDwell(token[t].issuedAt, clock, claimed)

Arrive(w, t, claimed) ==
    /\ pc[w] = "idle"
    /\ token[t] # None
    /\ clock <= token[t].expiresAt
    /\ Dwell(t, claimed) >= token[t].minDwell
    /\ Goto(w, "arrived")
    /\ req' = [req EXCEPT ![w] = [tok |-> t, now |-> clock, at |-> clock,
                                 dwell |-> Dwell(t, claimed), bill |-> FALSE]]
    /\ UNCHANGED <<clock, token, row, money, bids, fraudScore>>

\* expired or dwell_unmet: denied before any transaction.
Deny(t, claimed) ==
    /\ token[t] # None
    /\ clock > token[t].expiresAt \/ Dwell(t, claimed) < token[t].minDwell
    /\ UNCHANGED vars

\* The transaction starts; redeemedAt defaults to the start of the transaction.
BeginTransaction(w) ==
    /\ pc[w] = "arrived"
    /\ Goto(w, "begun")
    /\ req' = [req EXCEPT ![w].at = clock]
    /\ UNCHANGED <<clock, token, row, money, bids, fraudScore>>

LockPublisher(w) ==
    /\ pc[w] = "begun"
    /\ PublisherLockFree(PubOf(req[w].tok))
    /\ Goto(w, "publisher")
    /\ UNCHANGED <<clock, token, row, money, bids, fraudScore, req>>

LockDevice(w) ==
    /\ pc[w] = "publisher"
    /\ DeviceLockFree(token[req[w].tok].dev)
    /\ Goto(w, "device")
    /\ UNCHANGED <<clock, token, row, money, bids, fraudScore, req>>

\* Mutant: the advertiser is not locked for update.
NoAdvertiserLock(w) ==
    /\ pc[w] = "device"
    /\ Goto(w, "advertiser")
    /\ UNCHANGED <<clock, token, row, money, bids, fraudScore, req>>

LockAdvertiser(w) ==
    /\ pc[w] = "device"
    /\ AdvertiserLockFree(AdvOf(req[w].tok))
    /\ Goto(w, "advertiser")
    /\ UNCHANGED <<clock, token, row, money, bids, fraudScore, req>>

DeviceRecent(r)    == Cardinality(Since(DeviceRows(token[r.tok].dev, token[r.tok].surface), r.now - Hour))
PublisherRecent(r) == Cardinality(Since(PublisherRows(PubOf(r.tok)), r.now - Hour))
\* Mutant: the hold window of the rate counts.
RecentSivtOfHour(r) == Cardinality(Since(Sivt(PublisherRows(PubOf(r.tok))), r.now - Hour))

RecentSivt(r)      == Cardinality(Since(Sivt(PublisherRows(PubOf(r.tok))), r.now - SivtWindow))

Verdict(r) ==
    Classify(DeviceRecent(r), PublisherRecent(r), RecentSivt(r), r.dwell, token[r.tok].minDwell)

Affordable(r) ==
    balance[AdvOf(r.tok)] >= token[r.tok].charge

\* Mutant: refuse only what is already over.
BudgetNotReached(r) == LET a == token[r.tok].ad IN spent[a] < Budget[a]

WithinBudget(r) ==
    LET a == token[r.tok].ad IN spent[a] + token[r.tok].charge <= Budget[a]

\* Mutant: the same for the daily cap.
DailyCapNotReached(r) ==
    LET a == token[r.tok].ad IN
    DailyCap[a] # NoCap => SpentSince(a, r.now - Day) < DailyCap[a] + 1

WithinDailyCap(r) ==
    LET a == token[r.tok].ad IN
    DailyCap[a] # NoCap => SpentSince(a, r.now - Day) + token[r.tok].charge <= DailyCap[a]

\* Ceilings, classification and, for a redemption to bill, the three money gates.
Check(w) ==
    LET r == req[w] IN
    /\ pc[w] = "advertiser"
    /\ ~OverCeiling(DeviceRecent(r), PublisherRecent(r))
    /\ Verdict(r) = "valid" => Affordable(r) /\ WithinBudget(r) /\ WithinDailyCap(r)
    /\ Goto(w, "checked")
    /\ req' = [req EXCEPT ![w].bill = (Verdict(r) = "valid")]
    /\ UNCHANGED <<clock, token, row, money, bids, fraudScore>>

\* Mutant: a refusal returns without ending the transaction.
RefuseAndHang(w) == pc[w] = "advertiser" /\ ~Affordable(req[w]) /\ UNCHANGED vars

\* The same gates refusing: rate_exceeded, insufficient_balance,
\* budget_exhausted or daily_cap_reached.  The transaction writes nothing.
Refuse(w) ==
    LET r == req[w] IN
    /\ pc[w] = "advertiser"
    /\ \/ OverCeiling(DeviceRecent(r), PublisherRecent(r))
       \/ Verdict(r) = "valid" /\ ~(Affordable(r) /\ WithinBudget(r) /\ WithinDailyCap(r))
    /\ Finish(w)
    /\ UNCHANGED <<clock, token, row, money, bids, fraudScore>>

InsertRow(t, validation, charge, at) ==
    row' = [row EXCEPT ![t] = [validation |-> validation, charge |-> charge, at |-> at]]

\* settleImpression: debit the advertiser, split the charge between the
\* publisher's escrow and the platform; the id of the row decides the rounding.
Settle(v, p, charge) ==
    \E roundUp \in BOOLEAN :
        /\ balance'  = [balance EXCEPT ![v] = @ - charge]
        /\ escrow'   = [escrow EXCEPT ![p] = @ + PublisherAccrual(charge, roundUp)]
        /\ platform' = platform + PlatformFee(charge, roundUp)
        /\ UNCHANGED <<funded, reversed>>

\* Mutant: the spend read before the settlement.
RetireOnStaleSpend(a, spentAfter) ==
    bidStatus' = IF Budget[a] - spent[a] < ImpressionCharge(MinBidCpm)
                 THEN [bidStatus EXCEPT ![a] = "depleted"] ELSE bidStatus

\* Mutant: once the rest of its budget cannot pay its own maximum.
RetireAtMaximum(a, spentAfter) ==
    bidStatus' = IF Budget[a] - spentAfter < ImpressionCharge(MaxCpm[a])
                 THEN [bidStatus EXCEPT ![a] = "depleted"] ELSE bidStatus

\* The bid retires once the rest of its budget cannot pay the floor price.
Retire(a, spentAfter) ==
    bidStatus' = IF Budget[a] - spentAfter < ImpressionCharge(MinBidCpm)
                 THEN [bidStatus EXCEPT ![a] = "depleted"] ELSE bidStatus

\* The nonce is already in the table: the insert is a no-op, the answer a denial.
Replay(w) ==
    /\ pc[w] = "checked"
    /\ row[req[w].tok] # None
    /\ Finish(w)
    /\ UNCHANGED <<clock, token, row, money, bids, fraudScore>>

\* A suspicious redemption is recorded, and bills nothing.
CommitHeld(w) ==
    LET t == req[w].tok IN
    /\ pc[w] = "checked"
    /\ row[t] = None
    /\ ~req[w].bill
    /\ InsertRow(t, "sivt", 0, req[w].at)
    /\ fraudScore' = [fraudScore EXCEPT ![PubOf(t)] = @ + FraudIncrement]
    /\ Finish(w)
    /\ UNCHANGED <<clock, token, money, bids>>

\* A redemption to bill is recorded and settled in one commit.  settleImpression
\* reads the balance again; if it refused, the throw would roll the insert back.
CommitBilled(w) ==
    LET t == req[w].tok
        a == token[t].ad
    IN
    /\ pc[w] = "checked"
    /\ row[t] = None
    /\ req[w].bill
    /\ IF Affordable(req[w])
       THEN /\ InsertRow(t, "valid", token[t].charge, req[w].at)
            /\ Settle(AdvOf(t), PubOf(t), token[t].charge)
            /\ spent' = [spent EXCEPT ![a] = @ + token[t].charge]
            /\ Retire(a, spent[a] + token[t].charge)
       ELSE UNCHANGED <<row, money, bids>>
    /\ Finish(w)
    /\ UNCHANGED <<clock, token, fraudScore>>

\* The server or its connection dies: the database rolls back and unlocks.
Crash(w) ==
    /\ pc[w] # "idle"
    /\ Finish(w)
    /\ UNCHANGED <<clock, token, row, money, bids, fraudScore>>

(***************************************************************************)
(* The Stripe webhook moves the same balances, under the advertiser lock.  *)
(***************************************************************************)
TopUp(v, amount) ==
    /\ AdvertiserLockFree(v)
    /\ funded[v] + amount <= MaxMoved
    /\ funded'  = [funded EXCEPT ![v] = @ + amount]
    /\ balance' = [balance EXCEPT ![v] = @ + amount]
    /\ UNCHANGED <<clock, token, row, escrow, platform, reversed, bids, fraudScore, pc, req>>

\* A refund or a dispute is not clamped: the balance may become negative.
Reverse(v, amount) ==
    /\ AdvertiserLockFree(v)
    /\ reversed[v] + amount <= MaxMoved
    /\ reversed' = [reversed EXCEPT ![v] = @ + amount]
    /\ balance'  = [balance EXCEPT ![v] = @ - amount]
    /\ UNCHANGED <<clock, token, row, escrow, platform, funded, bids, fraudScore, pc, req>>

Tick ==
    /\ clock < MaxClock
    /\ clock' = clock + 1
    /\ UNCHANGED <<token, row, money, bids, fraudScore, pc, req>>

(***************************************************************************)
(* The specification.                                                      *)
(***************************************************************************)
Init ==
    /\ clock = 0
    /\ token = [t \in Tokens |-> None]
    /\ row = [t \in Tokens |-> None]
    /\ balance = [v \in Advertisers |-> 0]
    /\ escrow = [p \in Publishers |-> 0]
    /\ platform = 0
    /\ funded = [v \in Advertisers |-> 0]
    /\ reversed = [v \in Advertisers |-> 0]
    /\ spent = [a \in Ads |-> 0]
    /\ bidStatus = [a \in Ads |-> "active"]
    /\ fraudScore = [p \in Publishers |-> 0]
    /\ pc = [w \in Workers |-> "idle"]
    /\ req = [w \in Workers |-> None]

Redeem(w) ==
    \/ BeginTransaction(w)
    \/ LockPublisher(w) \/ LockDevice(w) \/ LockAdvertiser(w)
    \/ Check(w) \/ Refuse(w)
    \/ Replay(w) \/ CommitHeld(w) \/ CommitBilled(w)

Next ==
    \/ Tick
    \/ \E t \in Tokens, d \in Devices, s \in Surfaces : Begin(t, d, s)
    \/ \E w \in Workers, t \in Tokens, c \in Claims : Arrive(w, t, c)
    \/ \E t \in Tokens, c \in Claims : Deny(t, c)
    \/ \E w \in Workers : Redeem(w) \/ Crash(w)
    \/ \E v \in Advertisers, m \in Amounts : TopUp(v, m) \/ Reverse(v, m)

Spec == Init /\ [][Next]_vars

\* A request keeps running and a lock request is granted in turn: Postgres queues
\* both its advisory locks and its row locks first come, first served.
FairSpec ==
    /\ Spec
    /\ \A w \in Workers : SF_vars(Redeem(w))

(***************************************************************************)
(* Properties.                                                             *)
(***************************************************************************)

\* Every variable has its type; a request in flight knows its token.
TypeOK ==
    /\ clock \in Nat
    /\ token \in [Tokens -> Token \cup {None}]
    /\ row \in [Tokens -> Row \cup {None}]
    /\ balance \in [Advertisers -> Int]
    /\ escrow \in [Publishers -> Nat]
    /\ platform \in Nat
    /\ funded \in [Advertisers -> Nat]
    /\ reversed \in [Advertisers -> Nat]
    /\ spent \in [Ads -> Nat]
    /\ bidStatus \in [Ads -> {"active", "depleted"}]
    /\ fraudScore \in [Publishers -> Nat]
    /\ pc \in [Workers -> {"idle", "arrived", "begun"} \cup HoldsPublisher]
    /\ req \in [Workers -> Request \cup {None}]
    /\ \A w \in Workers : pc[w] # "idle" => req[w] # None /\ token[req[w].tok] # None
    /\ \A t \in Tokens : row[t] # None => token[t] # None

\* Concurrent redemptions of one ad never take its spend over the budget of its
\* bid, whichever publishers and devices they come from (redeem, gate 4: the spend
\* is summed under the advertiser lock).
BudgetNeverExceeded == \A a \in Ads : spent[a] <= Budget[a]

\* The balance checked under the advertiser lock still covers the charge when the
\* settlement is posted: the throw of the redeem route is never taken.
SettlementNeverThrows ==
    \A w \in Workers :
        pc[w] = "checked" /\ req[w].bill => Affordable(req[w])

\* Two requests that hold a lock of the same kind hold different locks.
LocksExclusive ==
    \A w1, w2 \in Workers : w1 # w2 =>
        /\ pc[w1] \in HoldsPublisher /\ pc[w2] \in HoldsPublisher =>
              PubOf(req[w1].tok) # PubOf(req[w2].tok)
        /\ pc[w1] \in HoldsAdvertiser /\ pc[w2] \in HoldsAdvertiser =>
              AdvOf(req[w1].tok) # AdvOf(req[w2].tok)

\* A request is stamped no earlier than the time its windows are measured from.
StampedAfterArrival ==
    \A w \in Workers : pc[w] # "idle" => req[w].now <= req[w].at /\ req[w].at <= clock

\* Everything a request read under its locks still holds when it commits: nobody
\* else recorded an impression of its publisher, moved its advertiser's balance or
\* spent its ad's budget meanwhile (redeem/route.ts:67-77).
ChecksStayTrue ==
    \A w \in Workers : pc[w] = "checked" =>
        /\ ~OverCeiling(DeviceRecent(req[w]), PublisherRecent(req[w]))
        /\ req[w].bill => /\ Verdict(req[w]) = "valid"
                          /\ Affordable(req[w])
                          /\ WithinBudget(req[w])
                          /\ WithinDailyCap(req[w])

\* In any closed window of one hour of redeemedAt, a publisher has at most
\* MaxPerPublisher rows and a device at most MaxPerSurface rows per surface,
\* although requests read the counts at one time and are stamped at another.
InWindow(rows, start, length) ==
    {t \in rows : row[t].at >= start /\ row[t].at <= start + length}

CeilingHolds ==
    \A start \in 0..clock :
        /\ \A p \in Publishers :
              Cardinality(InWindow(PublisherRows(p), start, Hour)) <= MaxPerPublisher
        /\ \A d \in Devices, s \in Surfaces :
              Cardinality(InWindow(DeviceRows(d, s), start, Hour)) <= MaxPerSurface

\* In any such window at most SoftPerPublisher of a publisher's rows, and
\* SoftPerSurface of a device's rows on a surface, are billed: fanning out over
\* devices, or firing tokens together, does not get past the soft band.
Billed(rows) == {t \in rows : row[t].validation = "valid"}

BilledWithinSoftBand ==
    \A start \in 0..clock :
        /\ \A p \in Publishers :
              Cardinality(InWindow(Billed(PublisherRows(p)), start, Hour)) <= SoftPerPublisher
        /\ \A d \in Devices, s \in Surfaces :
              Cardinality(InWindow(Billed(DeviceRows(d, s)), start, Hour)) <= SoftPerSurface

\* An impression is billed only while its publisher has fewer than SivtThreshold
\* held rows in the window that ends when it is stamped.
FlaggedPublisherIsHeld ==
    [][\A t \in Tokens :
          row[t] = None /\ row'[t] # None /\ row'[t].validation = "valid" =>
            Cardinality(Since(Sivt(PublisherRows(PubOf(t))), row'[t].at - SivtWindow))
              < SivtThreshold]_vars

\* Every recorded impression had a token that really lived for the dwell it asks for,
\* less the allowance for the clocks, whatever the client claims and however long the
\* request waits between the gate and its row (dwell.ts:32-40, redeem gate 2).
DwellIsReal ==
    \A t \in Tokens : row[t] # None =>
        token[t].issuedAt + token[t].minDwell <= row[t].at + Skew

\* What an ad is billed in any closed day stays within the daily cap of its bid.
DailyCapHolds ==
    \A a \in Ads, start \in 0..clock :
        DailyCap[a] # NoCap => Charges(InWindow(AdRows(a), start, Day)) <= DailyCap[a]

\* The ledger is the impressions table and Stripe, and nothing else: each balance
\* is what came in less what the recorded impressions charged, each charge is
\* wholly with the publishers and the platform, and fraudScore counts held rows.
SumsMatchRows ==
    /\ \A v \in Advertisers :
          balance[v] = funded[v] - reversed[v] - Charges(AdvertiserRows(v))
    /\ \A a \in Ads : spent[a] = Charges(AdRows(a))
    /\ SumFunction(escrow) + platform = Charges(Recorded)
    /\ \A p \in Publishers :
          fraudScore[p] = FraudIncrement * Cardinality(Sivt(PublisherRows(p)))

\* A bid is depleted exactly when what its budget has left cannot pay the floor.
DepletedWhenSpent ==
    \A a \in Ads :
        bidStatus[a] = "depleted" <=> Budget[a] - spent[a] < ImpressionCharge(MinBidCpm)

\* A depleted bid is final.  The tokens that were sold before it retired are still out
\* and are redeemed in any order, and no request asks for the status of the bid; that
\* none of them is billed rests on the price of every one of them being at least what
\* the bid retires for want of (engine.ts:144-150, redeem/route.ts:207-216).
NothingBilledOnDepleted ==
    [][\A a \in Ads : bidStatus[a] = "depleted" =>
          bidStatus'[a] = "depleted" /\ spent'[a] = spent[a]]_vars

\* redeem/route.ts:207-209: a depleted campaign stops competing "instead of
\* lingering as a perpetual no-win candidate".  The auction (engine.ts:131) lets a
\* bid win only if its budget can still pay the charge of its own maximum.
NoPerpetualNoWinCandidate ==
    \A a \in Ads :
        bidStatus[a] = "active" => spent[a] + ImpressionCharge(MaxCpm[a]) <= Budget[a]

\* Every redemption in flight ends: the three locks, always taken in the same
\* order, never leave requests waiting on each other.
RequestsEnd == \A w \in Workers : pc[w] # "idle" ~> pc[w] = "idle"
===============================================================================
