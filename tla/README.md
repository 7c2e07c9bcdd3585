# earnd: formal models and proofs

earnd sells one line of a developer's shell prompt. Advertisers top up a balance and
bid per thousand impressions; the prompt of a publisher (a developer) shows the winning
line; every confirmed display is billed to the advertiser and split with the publisher,
who is paid out through Stripe Connect. This directory holds TLA+ models of that
system, the TLC runs that check them on small instances, and proofs that TLAPS checks
for instances of any size.

## 1. Inventory

| Component | Code | State | Operations |
|---|---|---|---|
| Contracts | `packages/contracts/src/config.ts`, `api.ts` | none | charge, accrual, the constants of the economics |
| Auction | `apps/web/src/auction/engine.ts` | reads bids, ads, ledger, impressions | `runAuction` |
| Impression tokens | `lib/tokens.ts`, `api/impression/begin` | none on the server: the payload is signed into the token | sign, verify |
| Redemption | `api/impression/redeem`, `lib/dwell.ts`, `lib/antifraud.ts` | `impressions`, `bids.status`, `publishers.fraudScore` | redeem (the only operation that bills) |
| Ledger | `db/ledger.ts`, `db/payouts.ts` | `ledger_entries` (double entry, append only) | top-up, settlement, reversal, payout debit |
| Stripe webhook | `api/webhooks/stripe` | `processed_webhook_events`, ledger, `payout_accounts` | top-up, refund, dispute, account update |
| Payout runs | `api/payouts/run`, `db/payouts.ts` | `payouts`, ledger, `payout_accounts` | reserve, transfer |
| Connect onboarding | `api/connect`, `lib/connect.ts` | `payout_accounts` | create account, poll status |
| Campaigns | `api/bids`, `api/checkout`, `api/advertiser/ads`, `api/moderation` | `campaigns`, `ads`, `bids`, `advertisers` | place a bid, moderate, check out |
| Devices | `api/devices/register`, `lib/deviceAuth.ts`, `lib/ed25519.ts` | `publishers`, `devices` | register, verify a signed request |
| Rate limiter | `lib/ratelimit.ts`, `middleware.ts` | `rate_limits` | fixed-window count |
| Public pages and market data | `api/market`, `api/publisher/[id]`, `app/**` | none | read only |
| Clicks | `app/r/[token]` | `clicks` | record a click, redirect |
| Client: session | `client/internal/core/session.go`, `offline.go`, `api.go`, tick locks | session, creative, online flag, lock file | tick, register, begin, heartbeat, redeem |
| Client: update | `client/internal/core/update.go`, `config/update.go` | `updates.json`, managed clone, lock file | throttle, self-update |
| Client: identity | `client/internal/auth/device.go`, `cmd/earnd/main.go` | key file, identity file | create key, register, reset |
| Client: rendering and install | `client/internal/render`, `client/shell`, `install.sh` | the prompt, rc files | draw, install |

How they interact. The shell hook of the client draws the cached creative and spawns
a detached tick; a tick holds a file lock, probes the server, registers the device if
need be, and advances one impression: begin (auction, signed token), wait for the
dwell, redeem. The web tier is stateless: requests meet only in Postgres, through
transactions at READ COMMITTED, two advisory locks and two row locks. Stripe calls the
webhook (duplicated, reordered, retried after a 500); payout runs and the Connect
routes call Stripe (whose answers may be lost or stale).

What is hard, and what correctness means:

* Redemption. Requests of many devices race for one publisher's rate ceilings, one
  advertiser's balance and one ad's budget; a token may be redeemed twice at once; the
  time a request measures its windows from is not the time its row is stamped with. A
  token must be billed at most once, on its own terms, within balance, budget, daily
  cap and soft band, and the ledger must balance.
* Payouts. Runs overlap, crash between the reservation and the transfer, and lose
  answers; the same escrow must not be reserved twice, escrow inside the clawback
  window not at all, and each row be transferred exactly once.
* Stripe webhook. Events come twice, late and out of order; a payment must be credited
  once and its reversals must converge to what Stripe took back.
* Connect status. Three writers (webhook, poll, payout run) race with different notions
  of what is newest.
* Publisher hold. A hold must decay.
* Client. Ticks of several shells race for one session; answers are lost; the machine
  goes offline; updates and identities are created by concurrent processes.

## 2. Plan

Modules, the most important behaviour first; all of them are described in section 3.

1. `Economics` (pure rules), `Settlement` (redemption), `ImpressionBilling` (what it
   promises) with the refinement, and their proofs. **Done.**
2. `Payouts` and its proofs, now also of the sums of its rows. **Done**; left: that every
   pending row is sent in the end.
3. `StripeWebhooks`: events duplicated, reordered and retried, against `AccountMoney`.
   **Done.**
4. `ConnectStatus`: the cached KYC flag and its three writers. **Done.**
5. `PublisherHold`: the decaying SIVT hold. **Done.**
6. `ClientSession`: ticks, the session file, the creative cache, and its proofs. **Done**;
   left: what a prompt draws, and that only drawn impressions are recorded.
7. `Registration` (key, identity, the registration route and its rate limit, the check of
   a signed request) and `ClientUpdate` (throttle, self-update, notice), with the proofs of
   both. **Done.**
8. `Campaigns` (bids, checkout, moderation) and `Auction`, which extends it with what is
   sold, redeemed and clicked, and `CampaignsProofs`. **Done.**
9. Left: `LockOrder`, the advisory locks keyed on 32-bit hashes, where two ids may share
   a lock; `MoneyFlow`, top-ups, settlement, reversals and payouts together: where escrow
   goes when the advertiser's payment is reversed.

The runs are one per question, and few: a property that belongs to a component is
checked in that component's run.

## 3. Modules

### Economics

Pure operators: the charge of a CPM (`Math.round`, halves up), the accrual of the
publisher and the platform fee, the clearing price of the generalized second-price
auction, the dwell the server credits and the classification of a redemption. Money is
in integer millicents and time in integer units, as in the code (milliseconds there; a
unit here is whatever the instance says). `Settlement`, `PublisherHold` and
`ClientSession` extend it, so the runs evaluate these rules inside the transactions that
use them; the first part of `SettlementProofs` proves, for all prices, that the clearing
price lies between floor and bid, pays an increment over the second bid where that fits,
never falls when competition grows, and that the split of a charge is exact.

### Settlement, ImpressionBilling, SettlementRefinement

`Settlement` is `POST /api/impression/begin` and `/redeem` over the tables they use.

* State. `token[t]` is the payload signed into the token with nonce t; `row[t]` the
  impressions row of that nonce (its unique index is the function); `balance`,
  `escrow`, `platform` the sums of the ledger; `spent` the sum `adSpentMillicents`;
  `pc` and `req` the position of each request in flight and what its transaction
  knows. The sums are kept as running totals, and `SumsMatchRows` compares them with
  the rows.
* Actions. `Begin` issues a token for any ad of the market, cleared against any other
  bid or the floor: the auction reads its four inputs in separate statements under no
  lock, so relative to the redemptions it may see anything. `Arrive` is everything
  before the transaction (expiry, dwell, `now`), `BeginTransaction` the statement that
  fixes Postgres's `now()` and so `redeemedAt`, then one action per lock in the code's
  order, `Check` and `Refuse` the counts and gates read under the locks, and
  `CommitBilled`, `CommitHeld` or `Replay` the insert and what follows it. `CommitBilled`
  keeps the second balance check of `settleImpression` and its throw (rollback).
  `Crash` ends a request anywhere. `TopUp` and `Reverse` are the transactions of the
  webhook that move the same balances, under the same lock.
* A lock is held from the action that takes it to the end of the transaction, so the
  program counters say who holds what. The reads under the locks are one action:
  everything they read is written only by a holder of one of those locks. That this is
  so is `ChecksStayTrue`, which is proved, not assumed.

`ImpressionBilling` is the promise without requests, locks, clocks and rates: each
token is billed once exactly as it says, within balance and budget, or held once,
moving nothing. `SettlementRefinement` maps the one to the other; `ImplementsBilling`
is checked by TLC and proved.

The sources of a bid's daily cap: no route writes `bids.dailyCapMillicents`, only an
operator; the model takes any value.

### Payouts

`POST /api/payouts/run`, any number of runs at once. `accrued[p][t]` is the escrow
credited to p before t; a run takes its cutoff and its list of accounts at its start,
confirms each account at Stripe, reserves matured escrow under the publisher's row lock
(the row and its debit in one commit), then sends every pending row, its own or not.
Stripe is modelled as the code uses it: a key it remembers answers with the transfer
already made, one it does not makes a transfer to an account that can receive it. Stripe
forgets a key after `KeyLife` (external: a day or more), and the platform ends a run after
`maxDuration` (`InTime`: a run past it can only crash; where the platform does not enforce
that export, nothing bounds a run). Keys do expire in the run. `overdue` is history: the
rows that were still pending when their key was so old that a run starting then could
outlast it. Calls may fail before or after they take effect; runs may crash anywhere. The
cached KYC flag changes at any time (`ConnectStatus` says how).

### StripeWebhooks, AccountMoney

`POST /api/webhooks/stripe` for the events that move money. `payment` and `taken` are the
truth at Stripe, `emitted` the events it has to deliver, each any number of times and in
any order (an event stays in `emitted` and `Deliver` may take it whenever a handler is
free), `acked` those it had a 200 for. A handler resolves the advertiser, inserts the
event id (an uncommitted insert of the same id makes the other wait), takes the
advertiser's lock, reads what was reversed so far and commits entries and event id
together. `Fail` ends a handler anywhere: lookup or database failure, crash, lost answer.
A refund event carries the cumulative amount refunded, a dispute its own amount; the code
debits the difference to what that source has already reversed. `topups` says which
payments carry `kind = balance_topup`; the others are recorded and move nothing.

`AccountMoney` is the same account without events, deliveries or transactions: a paid
top-up is credited once in full, what Stripe took back is debited once, never more than
was taken. `ImplementsAccount` is the refinement.

### ConnectStatus

The row of one publisher in `payout_accounts`. `Onboard`, `CreateAccount`,
`InsertAccount` are `POST /api/connect` with its unique index; `Poll` and `WritePoll` the
dashboard's `GET`; `List`, `Confirm`, `WriteConfirmed` the part of the payout run that
only clears the flag; `HandleEvent` the `account.updated` branch of the webhook. Each
request asks Stripe in one action and writes in a later one, so answers are written late
and out of order. Stripe has two notions of an account that is ready: the poll and the
payout run ask for the transfers capability (`active`), the webhook reports the older
`payouts_enabled` (`payable`); they change apart, and an event reports `payable` whatever it
was that changed. `applied`, `source` and `asOf` are history: which events found the row,
who wrote the flag last, and when what it says was true.

### PublisherHold

The rows of one publisher in the trailing window, by age, without end: `Redeem` is one
redemption with the classification of `Economics`, `Elapse` the passing of a slot. It
leaves out requests and locks, which `Settlement` has: `FlaggedPublisherIsHeld` and the
ceilings there say that each redemption sees the counts of all before it. `habit` is what
the publisher does: busy, calm (always under the soft band), or away. Its one question,
whether a hold decays, is answered no (section 7).

### ClientSession

The client of one device. `Prompt` spawns a tick; ticks of several shells race for the
file lock (`AcquireTickLock`, not waited for), probe the server, and advance the session:
`LoadStale`, `LoadEarly` and `LoadDue` are the branches of `tickSession`; `Redeem`,
`RedeemAnswered` and `RedeemLost` the call, its answer and its retries; `Begin`,
`SaveCreative` and `SaveSession` the rotation, one action per file. The server is the
part of begin and redeem the client can tell apart: when the token was signed, and
whether its redeem was recorded, denied, expired or too early. The clock counts fractions
of a second because the client truncates to whole seconds and the server does not.
`Crash` kills a tick between two writes.

### Campaigns, Auction

`Campaigns` is how an ad, its account and its money come to be. A form is one submission
of the bid page: `FindAccount`, `InsertAccount`, `ClaimAccount` and `CommitBid` are the
statements of the transaction of `POST /api/bids`, each of which sees what was committed
when it starts (READ COMMITTED). What a transaction wrote is applied by `CommitBid`;
until then its program counter is the lock on the unique e-mail or on the row, and others
wait for it. An e-mail may have an account row from before there was a sign-in, which
`CampaignInit` chooses. `OpenCheckout` to `CreateSession` are `POST /api/checkout` with the
Stripe customer it creates and saves, `Pay` and `Refund` what the webhook makes of the
payment (`StripeWebhooks` has the details), `Fail` a statement that fails or a user who
leaves, anywhere. `LoadQueue` and `Decide` are the moderation page, which shows what was
pending when it loaded, and the route, which takes a decision on any ad.

`Auction` extends it. `SelectCandidates`, `SumBalances` and `PickWinner` are the three
reads of `runAuction`, with everything of `Campaigns`, redemptions and refunds between
them; the token it ends in can be redeemed (`Redeem`, the gates about the campaign) and
clicked (`Click`). The check of the daily cap (`engine.ts:132-137`) is left out, as no
route sets that cap; `Settlement` has it where it binds, in the redemption.

`Settlement` takes the auction for any ad at any lawful price; here it is the other way
round: the auction is in full, and a redemption is one step.

### Registration

The key file and the identity file of one install, and the registration route. Ticks hold
the tick lock; `earnd register`, which the installer and with it every self-update runs,
does not. The key file is written in place, so it is `Corrupt` between `TruncateKey` and
`FillKey`; the identity goes through a temporary file that all processes share. On the
server, `Hit` is the upsert of the fixed-window limiter, `SelectDevice`,
`InsertPublisher` and `InsertDevice` the statements of the route, which are not in one
transaction. A registered tick signs what it asks for (`SignedRequest`), and the server
compares the key of the signature with the device the identity names (`Authentic`);
`refused` remembers whether it ever turned one away. Answers are lost (`Lose`), come too late (`TimeOut`), and processes are
killed (`Kill`). Keys and ids are random in the code: `FreshKey` is one that is used
nowhere. `overlap` is history: whether a command ran together with another process before
there was an identity.

### ClientUpdate

`Check`, `Stamp`, `Spawn` are the throttle of a tick, `TakeLock` to `Record` the process
`SelfUpdate`, with the clone, the comparison of origin/main with the commit embedded in
the running binary, and the installer (`Capture`, `Build`); `ReadNotice` and `CountDown`
are the prompt, which counts the notice down in the same file under no lock. A time stamp
is kept as its age, so that time needs no bound. `Abandon` kills a self-update, or its
installer by the five minutes it is given; what the installer started runs on as an
`orphan`. Prompts, ticks and self-updates each read the whole of updates.json and write it
back later, whatever was written meanwhile. `since` and `overwritten` are history: how long
ago the last update was spawned, and whether, since the last stamp, somebody has put an
older one back (`PutBack`).

## 4. Runs

`MC*` modules give the constants their values; all configurations check for deadlock.

| Run | Instance | What it shows |
|---|---|---|
| `settlement_money` | 2 publishers, 1 advertiser with 2 ads, 3 tokens, 2 requests at once; clock stopped | billing within balance and budget, the locks, the ledger, the retired bid and the tokens it had sold, the refinement |
| `settlement_rates` | 1 publisher with 2 devices, 3 tokens, 2 requests, clock to 3 | hourly ceilings, soft bands, dwell, hold |
| `settlement_ends` | 2 publishers, 1 ad with a daily cap, 2 tokens, clock to 2, fairness | daily cap; every request ends |
| `settlement_lingering` | as `settlement_money` | finding: a bid that is active and can never win |
| `payouts` | 1 publisher, 2 runs, 2 rows, clock to 5; a key lives 2, a run 1 | reserved once and after the hold, transferred once while a key can be relied on |
| `webhook_events` | 1 payment of 2 units, 2 handlers | exactly-once credit, reversals that converge, acknowledgements, the refinement |
| `connect_status` | 2 accounts, 2 requests, 2 changes, fairness | one account for good; the flag and its writers; a revoked account is seen in the end |
| `publisher_hold_decays` | window of 3 slots, band 2, ceiling 3, fairness | finding: a hold that renews itself |
| `client_session` | 2 ticks, 3 tokens, 1 crash, clock to 5 half seconds | lock, rotation, dwell on two clocks, the cache |
| `campaigns` | 2 users, 3 forms, 1 moderation page, 1 auction | one account per user, and what is sold |
| `registration` | 2 ticks, 1 command, 2 requests, 1 fault, fairness | one row per key, an identity that can sign, registration in the end |
| `client_update` | 2 self-updates, 1 prompt, 2 commits, 1 fault, fairness | the newest commit in the end, never backwards, the throttle |

Why these bounds reach the interesting cases:

* Two requests are what it takes for one to commit between another's read and write, and
  every lock is held by one request at a time; three tokens let two be billed before a
  third meets a limit of two. In `settlement_money` the charges are 1 and 2: the second
  ad's budget of 2 is met exactly and missed by one, the first's, 4, is more than the 3
  that are topped up, so that the balance is what stops it, and the odd charge leaves a
  rest to split. A token can be left of an ad whose budget the other two have used up. It
  has one device per publisher, so only the advertiser's lock stands between
  two requests; `settlement_rates` has one publisher with two devices, so its lock does
  too. The proofs cover every mixture of the two. Ceilings are 2 and bands 1, the
  smallest where ceiling, band and neither differ.
* A limit that an instance is not about is set so high (9) that it is never met.
* `settlement_rates` runs the clock to 3 with an hour of 1 and a hold window of 2: rows
  leave each window while the run goes on, and a request may be counted in one window
  and stamped in the other. In `settlement_ends` the day is 1, so it changes twice.
* In `payouts` money accrues three units at a time with two to the cent and a threshold
  of one cent, so a unit stays behind; the hold of one unit is crossed by the clock, which
  then goes on far enough for a key to be made, to outlive the longest run, and to be
  forgotten with its row still pending: the plain `transfers[i] <= 1` is violated there.
* In `webhook_events` one payment of two units has two refunds (cumulative 1 and 2) and
  a dispute; more than two handlers add waiting, not order, for one payment.
* `connect_status` lets two onboardings each create an account, and the account change
  twice, in one second or in two: the capability is given and taken, or one event reports
  something else after it was taken.
* In `client_session` a second is two units, so the client's truncation can be half a
  second wrong in either direction, once per reading.
* `campaigns` has one user with two forms, which is what it takes for two first bids to
  race, for two customers and for two bids on one balance, and another user whose bid
  competes. Charges are 1 and 2, budgets 3 and 1.
* `registration` has a limit of 1 per window, so the second hit is refused and the third
  may open a new window; two requests can be between the select and the insert at once.
* `client_update` has two commits to follow, so that one can be pushed while another is
  built, an interval of two slots and a notice of two prompts, so that a written-back
  state can be told from a new one. A stamp is put back over a newer one by the prompt and
  by a self-update, and the tick then does find an update due early.

Bounds on counters are constants named `Max...` in each module: `MaxClock`, `MaxMoved`
(money moved by top-ups and reversals), `MaxAccrued`, `MaxChanges`, `MaxCrashes`,
`MaxFaults`, `LastCommit`.

## 5. Fairness

* `Settlement` (`RequestsEnd`): strong fairness of `Redeem(w)`, the steps of one request
  inside its transaction. Postgres queues waiters of a lock, so a request that is
  enabled again and again gets its turn; the locks are transaction-scoped, so a holder
  that dies gives them up. Requests may crash at any time, and nothing is assumed about
  new ones.
* `ConnectStatus` (`RevocationIsSeen`): strong fairness of `List`, `Confirm` and
  `WriteConfirmed`, and weak of a request's end. The payout job is meant for a cron
  (`README.md:74`, `payouts/run/route.ts:24`), lists the enabled accounts each time, and not
  every one of its calls fails; the fairness of `List` is strong because a slot for a request
  is now free and now taken. Nothing is assumed of the dashboard, which polls once when
  Stripe returns to it (`?onboarding=done`), nor of deliveries. An account changes
  `MaxChanges` times at most, so events that set the flag again come to an end; while they
  come for ever the flag may be set between any two runs, each of which confirms at Stripe
  before it pays.
* `PublisherHold`: weak fairness of `Elapse`: time passes.
* `Registration` (`GetsRegistered`): weak fairness of the steps of ticks, of requests on
  the server, of time and of `Lose`; strong fairness of `Deliver`. Every prompt spawns a
  tick; a tick and a request that run do end, by their timeouts if not otherwise; of
  answers that are on their way again and again one arrives. A command may hang for ever,
  and nothing is assumed of it.
* `ClientUpdate` (`CatchesUp`): weak fairness of ticks, time and the steps of a
  self-update, strong fairness of a spawn that succeeds, of `Fetch` and of `Build`: an
  installation that is never once online, or cannot build at all, need not catch up.

## 6. Theorems

`tlapm` checks every proof, for all sets of tokens, requests, publishers, ads, for all
prices, windows and limits, and from the assumptions named in the modules only
(`PriceAssumption`, `BidAssumption`, `TimeAssumption` and their kin: constants are
numbers, `None` is no member, owners and advertisers are functions). Where a theorem is
about a sum or a count, the set summed over is finite (`Tokens`, `Publishers`,
`Payments`, and the processes and requests of `Registration`; `ConservesMoney` alone also
asks that the advertisers are finitely many, as its hypothesis). Two assumptions say more:
`SkewAssumption`, that the server's allowance covers what a client rounds to whole seconds
(one second, `dwell.ts`), and of `PayoutAssumption` the part that a run's `maxDuration` (300
seconds) is no longer than Stripe keeps a key.

Sums are where a proof would need induction over the rows. The library has it only in
a form the provers cannot use, so the proofs count instead: a sum of naturals is
the number of pairs of a row and a millicent of it (`SumIsUnits`), and what is true of
the cardinality of a finite set, when a row is added or changes, is true of the sum
(`SumExtends`, `SumUpdates`, `SumShrinks`). The theorems about sums of money rest on
these; `SettlementProofs` and `PayoutsProofs`, which have no module in common, each
state the ones they use.

* `SettlementProofs`. It begins with the pure rules: `ClearingWithinBid`, `SplitIsExact`
  and the lemmas about sums. `TypeCorrect` is proved alone, as it is inductive. For safety the
  inductive invariant is `Inv`: `TypeOK`, `LocksExclusive` (no two requests hold one
  lock), `StampedAfterArrival` (a transaction starts after `now` was taken),
  `ChecksStayTrue` and `BudgetNeverExceeded`. The budget alone is not inductive: the
  commit adds a charge that was compared with the budget in an earlier step. What closes
  the gap is `ChecksStayTrue`, that the counts and sums a request read under its locks
  are still those of the tables, and that needs the locks to be exclusive: whoever
  writes a row of that publisher or advertiser holds the lock. From `Inv` follow
  `ReadsAreCurrent`, `BudgetsHold`, `NeverThrows` (the throw after `settleImpression` is
  dead code) and `RefinesBilling`, by one lemma per action of the refinement.
  The next part adds what the rates need: `CeilingsHold` and `SoftBandHolds`,
  although a request counts the rows since `now - 1h` and the row is stamped at the start
  of the transaction, which is not before; `FlaggedHeld`; and `DwellsAreReal`, from the
  invariant that a request past `Arrive` has a token that lived for its dwell.
  The last part is about the sums. `LedgerMatchesRows`: every billed row adds its charge
  to one side of the ledger and the two parts of its split to the other.
  `DepletedExactly`: the settlement that retires a bid reads the sum it has just changed,
  under the advertiser's lock, so the sum at the commit is the one it decides on.
  `DepletedForGood`: a token costs at least the floor (`PricesFromFloor`, from
  `ClearingWithinBid`), a depleted bid has less than that left, and a commit spends what was
  compared with the budget, so no token sold earlier is billed on it. Were the bid retired
  on its own maximum, which would mend the first finding of section 7, this would fail.
  `DailyCapsHold` from `DaysBounded`, the cap in every interval of a day's length: the
  day summed by a request begins no later than the one any later row's stamp ends,
  because a stamp is never before the `now` its request reads the spend at.
  `ConservesMoney` goes beyond what the runs check: what was topped up, summed over all
  advertisers, is what was taken back or is left, the escrow and the platform's share.
  `Left` is the balance without its reversals, because the balance itself does go below
  zero when a refund comes after the money was spent; `Left` does not, so no advertiser is
  ever charged for more than was topped up for it.
* `PayoutsProofs`. `PayoutTypeCorrect`; `OnlyMaturedIsPaid` from `EscrowInv` (credits
  before t grow with t, cutoffs are behind the hold, the publisher's lock is exclusive
  and what was read under it current); `OneTransfer`, for any life of a key that is
  longer than a run, has an invariant of its own (`KeyInv`): Stripe's memory of a row is as
  old as its first transfer; a pending row whose key is about to expire is `overdue`, and so
  is every row a run still has to send whose key was about to expire when the run started.
  A run that sends a row of another kind ends before the key does, so Stripe still knows
  it. `DebitsMatchRows` from
  `DebitInv`: an account's debits are the sum of its rows, each a whole number of cents
  over the threshold; nothing is sent that has no row, and a row says "in_transit" only
  when a transfer was made, also after crashes and lost answers. The four together give
  `StripePaysOnlyMatured`, from one end of the book to the other: all that was ever
  transferred to a publisher is at most the escrow that has cleared the hold, an overdue row
  counted once. `RowsAreForGood` is the part of "a failed row is sent by a
  later run" that is not liveness: nothing ever happens to a row but that it is marked as
  sent, and no debit is taken back.
* `ClientSessionProofs`: `ClientTypeCorrect`, `NeverRedeemsTooEarly`, `DrawsWhatItBills`,
  `DropsOnlySettled` and `AnsweredIsDecided` (a token counts as answered only when the
  server has decided that very token). The invariant (`ClientInv`) has two strands. One is the file lock:
  from the load of the session to its rotation one tick alone writes the files, so the
  token it redeems is still the session's, and it rotates only when that token is done
  (`RotatesDone`). The other is the two clocks: a token is signed in or before the second
  its session counts from (`SavedAfterIssue`), so a claim in whole seconds exceeds the
  server's exact time by less than one (`ClaimIsElapsed`). A crash between the two files
  is what `DrawsWhatItBills` excepts. `AnsweredIsDecided` has an invariant of its own, that
  the token of an answer on its way has an outcome.
* `CampaignsProofs`. Its theorems about accounts, types and sales come from one inductive invariant. For the
  accounts it says that a row's user is its e-mail's, that one insert per e-mail is under
  way, and which row each submission relies on at each of its statements; for the sales,
  that no account holds more than its user paid, that a bid an auction still has in the
  running was decided on, and after the second read was paid for. `CampaignTypeCorrect`
  needs it too: the ad a decision or a redemption works on has to exist. `BudgetsAreKept` is about the tokens
  that were sold before and are redeemed later, in any order: each costs at least the
  floor and at most the bid (`PricesInRange`), so the redemption that no longer leaves the
  floor retires the ad, and none after it is billed (`DepletedIsSpent`); `DepletedIsFinal`
  says that there is no way back, neither by a moderator nor by a later auction.
* `StripeWebhooksProofs`: `WebhookTypeCorrect`, `ReversalsConverge`, `AcknowledgementsHold`,
  `RefinesAccount` and `LedgerNeverRunsAhead`, for any payments, amounts and number of handlers. The invariant
  says that the locks are exclusive (two handlers never hold one event's row, or one
  advertiser's), that events are true of what Stripe took, that what a handler has
  resolved and read still holds while it has its locks (`Knows`), and that the credits are
  exactly those of the processed checkouts. Its point is the reversal: between the read of
  what is already reversed and the commit nobody else may reverse for that source, because
  a source has one advertiser and the handler holds it. `RefinesAccount` maps each commit
  to a step of `AccountMoney` and everything else to a stutter. `LedgerNeverRunsAhead` is
  the converse of `AcknowledgementsHold`: nothing is credited that was not paid, and
  nothing reversed that Stripe did not take back.
* `ConnectStatusProofs`: `ConnectTypeCorrect`, `OnboardingIsRaceSafe`, `NewestEventCounts`.
  The invariant adds that the account of the row and every account about to be inserted
  exist, that a request past the lookup finds a row, and that no applied event is newer
  than the row's time.
* `ClientUpdateProofs`: `UpdateTypeCorrect`, `UpdatesGoForward`, `FailuresAreThrottled`,
  `OneSelfUpdateWorks`. A
  self-update that was not given up holds the lock and builds origin/main, and no commit
  that is installed or being built is ahead of origin/main (`NothingAhead`,
  `BuildsOrigin`). For the throttle (`OneStamp`): when a tick has read the file, no stamp
  that anybody else holds in memory is younger than the one it will write; so after it has
  written, whoever writes back a stamp writes an older one, or the same, and the file has
  the stamp of the last spawn until one of them puts an older one back.
* `RegistrationProofs`: `RegistrationTypeCorrect`, `AnswersAreTrue`, `InstallsCanSign`,
  `InstallsKeepIdentity`. A
  process waits for one request, and that request keeps the key it was posted with
  (`Awaited`), so what is saved is a row of the server (`SavedIsRow`); one key has one row
  because the unique index turns a second insert away. For `InstallsCanSign` the invariant
  says who may work on the files while nothing has overlapped (`Alone`: while there is no
  identity one process at most is active; ticks are held apart by the lock, `LockHeld`) and
  what that process holds (`HoldsFiles`: the key it posts is the one on disk, the key it
  signs with is the identity's). That an unused key and an unused publisher exist is the
  pigeonhole on the finitely many processes, requests and rows. `InstallsKeepIdentity` is
  the action property that follows: once there is an identity no process is left that
  would write either file, so an install keeps its key, its publisher and its earnings.

So every safety and action property of a passing run is a theorem, and nine theorems
state what no run does: `ConservesMoney`, `StripePaysOnlyMatured`, `RowsAreForGood`,
`BudgetsAreKept`, `DepletedIsFinal`, `InstallsKeepIdentity`, `LedgerNeverRunsAhead`,
`OneSelfUpdateWorks` and `AnsweredIsDecided`. Checked by TLC only:
everything under fairness (`RequestsEnd`, `RevocationIsSeen`, `GetsRegistered`, `CatchesUp`),
as liveness and `ENABLED` are out of the prover's reach, and the two properties of
section 7, which TLC refutes.

## 7. Findings

Two claims of the repository have a run that refutes them.

1. `settlement_lingering`: redeem retires a bid when its budget no longer pays the floor,
   the auction drops it when its budget no longer pays the bid's own maximum. A bid
   between the two is "active" and can never win, which the comment at
   `redeem/route.ts:207-209` says cannot be.
2. `publisher_hold_decays`: rows that are held only because the publisher is flagged count
   towards the flag, so at any lawful rate that reaches the threshold per window the hold
   renews itself (`config.ts:75-79`: "it decays").

Met while modelling, and kept in mind by the properties as they are stated:

* "A retry of the same row always dedupes at Stripe" (`payouts/run/route.ts:30-33`) holds
  while Stripe remembers the key; nothing bounds how late a pending row is retried. A row
  whose transfer was made and whose answer was lost, and which no run comes to before the
  key is forgotten, is transferred again: the run `payouts` reaches that, and
  `TransferredOnce` excepts the rows that were pending that late (`overdue`), and no others.
* Poll and payout run write the Connect flag and not its time, so an event older than
  they are flips it back, which `db/schema.ts:272-274` says cannot be.
  `FlagFollowsEvents` is about the events among themselves.
* A poll that asked before the capability was given, and answers after, leaves the flag
  cleared, and so does a payout run. Nothing sets it again but another load of the page or
  another event; the publisher is not paid meanwhile. `RevocationIsSeen` is the direction in
  which the payout job does repair the flag.
* "At most once per updateInterval" (`update.go:39`) fails without a common lock: a prompt
  that counts the notice down, or a self-update that sets it, may write back the state it
  read before the last stamp, and the next tick finds an update due again at once. The run
  `client_update` reaches that; `FailingUpdateCannotSpin` says that nothing else leads
  there, a failing update in particular.
* `earnd register` takes no lock. Run while a tick is writing the key file, it reads half
  a file, takes it for corrupt and writes a key of its own; the install may be registered
  with the key that is overwritten, and then its signatures fail for good.
  `IdentityCanSign` is stated for installs whose registration overlapped with nothing.
* A first clone that is killed by its timeout leaves a `.git` without the branch's remote
  ref (`update.go:92`): it is taken for a clone from then on, and every later update fails
  at rev-parse. `CatchesUp` excepts it.
* An installer that runs on after its self-update gave it up (`update.go:146`) may put an
  older binary over a newer one. `NeverBackwards` excepts it.
* The moderation route writes a decision whatever the ad's state is, so of two pages the
  later decision stands, and nobody is told.
* The market calls a bid funded when its balance is above zero, the auction asks for the
  charge of the bid's own maximum: the board may show a bid that cannot win. Of accounts
  with equal bids, the board of eight shows those the database happens to return first.
* Two checkouts of one account may each create a Stripe customer; the row keeps one.

## 8. What is not modelled

* The weighted pick of the auction: any eligible bid may win. `Settlement` leaves out its
  reads too, and takes any ad of the market at any price the rules allow.
* Cryptography: a token cannot be forged, and a request is who it says it is; a signature
  is the comparison of two keys.
* The audit score of a publisher, which redeem writes and nothing reads back.
* The validation of forms and of click URLs, and what the market route and the publisher's
  figures compute for display: the board, price series, bands, sums. They read and change
  nothing, and no document says more of the board than that it shows the top bids.
* The webhook's branch for a paid top-up session without an advertiser or an amount
  (`webhooks/stripe/route.ts:141-144`), which answers 200 and records nothing: the checkout
  route, the only one that marks a session as a top-up, always names the advertiser
  (`checkout/route.ts:80`), and `StripeWebhooks` takes it from there. Money that comes back
  when a dispute is won: the webhook has no handler for it, and neither has the model.
* The tick lock of platforms without `flock`, which may be stolen; partial writes of files
  that the code renames into place; the lengths of the calls inside one tick, and so the
  110 seconds a session may take; what the terminal shows.
* The rc file, the shims and the rest of the installer, which a self-update does not see.
* The composition of top-ups, settlement, reversals and payouts: a payment that is taken
  back after it was spent leaves a negative balance, and nothing claws escrow back.
* That a pending payout row is sent in the end: liveness over two overlapping runs, with
  crashes and forgotten keys, is too slow to check, and over one run it says little.
* Advisory locks of different ids that share a 32-bit hash: they make requests wait, and
  may in principle make two of them wait for each other.
* The web interface, sign-in, schema and seed, rendering: presentation, input and output.
