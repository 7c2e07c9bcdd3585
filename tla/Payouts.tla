------------------------------- MODULE Payouts -------------------------------
(***************************************************************************)
(* POST /api/payouts/run: settle matured publisher escrow by Stripe        *)
(* transfers.  Runs may overlap (a schedule and an operator), crash, and   *)
(* lose the answers of Stripe.  A run first turns matured escrow into      *)
(* pending payout rows, each debited under the publisher's row lock, and   *)
(* then sends every pending row, its own or a former run's.                *)
(***************************************************************************)
EXTENDS Integers, FiniteSets, FiniteSetsExt

CONSTANTS
    Publishers,   \* those with a connected account
    Runs,         \* runs in progress at once
    Payments,     \* ids of payout rows (the intents)
    None,
    Hold,         \* escrowHoldDays
    Threshold,    \* payoutThresholdMillicents
    Cent,         \* MILLICENTS_PER_CENT
    KeyLife,      \* how long Stripe remembers an idempotency key (external)
    MaxDuration,  \* maxDuration: the platform ends a longer run
    Accruals,     \* amounts an impression accrues
    MaxAccrued,   \* bound: what a publisher accrues in all
    MaxClock      \* bound: the clock

ASSUME PayoutAssumption ==
    /\ Hold \in Nat /\ Threshold \in Nat /\ Cent \in Nat \ {0} /\ KeyLife \in Nat
    /\ Accruals \subseteq Nat /\ MaxAccrued \in Nat /\ MaxClock \in Nat
    /\ MaxDuration \in 0..KeyLife
    /\ IsFiniteSet(Payments)

Payment == [publisher: Publishers, amount: Nat, status: {"pending", "in_transit"}]

\* What a run knows: the cutoff it computed at its start, the accounts it has yet to
\* settle, the publisher in hand, what had matured, the pending rows it has yet to
\* send and the row in hand.
Run == [cutoff: Int, accounts: SUBSET Publishers, publisher: Publishers \cup {None},
        matured: Nat, pending: SUBSET Payments, payment: Payments \cup {None}]

ASSUME NoneAssumption ==
    None \notin Payment /\ None \notin Run /\ None \notin Publishers /\ None \notin Payments
      /\ None \notin Nat

VARIABLES
    clock,
    accrued,   \* accrued[p][t]: escrow credits of p posted before time t
    debits,    \* debits[p]: escrow debits of p
    enabled,   \* payoutAccounts.payoutsEnabled, the cached flag
    active,    \* the transfers capability of the account at Stripe
    payment,   \* the payouts table
    transfers, \* transfers[i]: how often Stripe moved the money of row i
    keyAt,     \* keyAt[i]: when Stripe made the transfer it remembers by the key payout:i
    overdue,   \* history: rows that were pending too near the end of their key's life
    pc, run

books == <<accrued, debits, payment>>
kyc   == <<enabled, active>>
stripe == <<transfers, keyAt, overdue>>
vars  == <<clock, books, kyc, stripe, pc, run>>

Times == 0..(MaxClock + 1)

\* sumEscrow(credit, maturedBefore): strictly older than the cutoff.
CreditsBefore(p, cutoff) == IF cutoff \in Times THEN accrued[p][cutoff] ELSE 0

\* Mutant: the maturity of the credits is not looked at.
MaturedAtOnce(p, cutoff) == accrued[p][clock + 1] - debits[p]

\* maturedEscrowMillicents
Matured(p, cutoff) ==
    IF CreditsBefore(p, cutoff) >= debits[p] THEN CreditsBefore(p, cutoff) - debits[p] ELSE 0

Goto(r, label) == pc' = [pc EXCEPT ![r] = label]

(***************************************************************************)
(* Phase 1: intents.                                                       *)
(***************************************************************************)
NewRun == [cutoff |-> clock - Hold, accounts |-> {p \in Publishers : enabled[p]},
           publisher |-> None, matured |-> 0, pending |-> {}, payment |-> None]

Start(r) ==
    /\ pc[r] = "idle"
    /\ Goto(r, "intents")
    /\ run' = [run EXCEPT ![r] = NewRun]
    /\ UNCHANGED <<clock, books, kyc, stripe>>

\* The live check of one account.  Its failure skips the account.
Skip(r, p) ==
    run' = [run EXCEPT ![r].accounts = @ \ {p}]

Confirm(r, p) ==
    /\ pc[r] = "intents"
    /\ p \in run[r].accounts
    /\ Goto(r, IF active[p] THEN "confirmed" ELSE "inactive")
    /\ run' = [run EXCEPT ![r].accounts = @ \ {p}, ![r].publisher = p]
    /\ UNCHANGED <<clock, books, kyc, stripe>>

ConfirmFails(r, p) ==
    /\ pc[r] = "intents"
    /\ p \in run[r].accounts
    /\ Skip(r, p)
    /\ UNCHANGED <<clock, books, kyc, stripe, pc>>

\* Mutant: the failed account stays in hand.
ReleaseHalfway(r) ==
    /\ Goto(r, "confirmed")
    /\ run' = [run EXCEPT ![r].publisher = None, ![r].matured = 0]

\* Back to the loop over the accounts.
Release(r) ==
    /\ Goto(r, "intents")
    /\ run' = [run EXCEPT ![r].publisher = None, ![r].matured = 0]

\* The capability is gone: the cached flag is cleared.
ClearFlag(r) ==
    /\ pc[r] = "inactive"
    /\ enabled' = [enabled EXCEPT ![run[r].publisher] = FALSE]
    /\ Release(r)
    /\ UNCHANGED <<clock, books, active, stripe>>

HoldsLock == {"locked", "read"}

LockFree(p) == \A r \in Runs : pc[r] \in HoldsLock => run[r].publisher # p

\* Mutant: escrow is read without the row lock.
NoLock(r) ==
    /\ pc[r] = "confirmed"
    /\ Goto(r, "locked")
    /\ UNCHANGED <<clock, books, kyc, stripe, run>>

LockPublisher(r) ==
    /\ pc[r] = "confirmed"
    /\ LockFree(run[r].publisher)
    /\ Goto(r, "locked")
    /\ UNCHANGED <<clock, books, kyc, stripe, run>>

ReadMatured(r) ==
    /\ pc[r] = "locked"
    /\ Goto(r, "read")
    /\ run' = [run EXCEPT ![r].matured = Matured(run[r].publisher, run[r].cutoff)]
    /\ UNCHANGED <<clock, books, kyc, stripe>>

WholeCents(amount) == (amount \div Cent) * Cent

TooLittle(r) ==
    /\ pc[r] = "read"
    /\ run[r].matured < Threshold \/ WholeCents(run[r].matured) = 0
    /\ Release(r)
    /\ UNCHANGED <<clock, books, kyc, stripe>>

\* Mutant: the sub-cent rest is debited with the whole cents.
DebitEverything(r, i) ==
    LET p == run[r].publisher IN
    /\ pc[r] = "read"
    /\ ~(run[r].matured < Threshold \/ WholeCents(run[r].matured) = 0)
    /\ payment[i] = None
    /\ payment' = [payment EXCEPT ![i] =
          [publisher |-> p, amount |-> WholeCents(run[r].matured), status |-> "pending"]]
    /\ debits' = [debits EXCEPT ![p] = @ + run[r].matured]
    /\ Release(r)
    /\ UNCHANGED <<clock, accrued, kyc, stripe>>

\* The row and its escrow debit, in one commit.
Reserve(r, i) ==
    LET p == run[r].publisher
        amount == WholeCents(run[r].matured)
    IN
    /\ pc[r] = "read"
    /\ ~(run[r].matured < Threshold \/ amount = 0)
    /\ payment[i] = None
    /\ payment' = [payment EXCEPT ![i] =
          [publisher |-> p, amount |-> amount, status |-> "pending"]]
    /\ debits' = [debits EXCEPT ![p] = @ + amount]
    /\ Release(r)
    /\ UNCHANGED <<clock, accrued, kyc, stripe>>

\* The transaction fails; the loop goes on with the next account.
ReserveFails(r) ==
    /\ pc[r] \in {"inactive", "confirmed"} \cup HoldsLock
    /\ Release(r)
    /\ UNCHANGED <<clock, books, kyc, stripe>>

(***************************************************************************)
(* Phase 2: transfers.                                                     *)
(***************************************************************************)
PendingRows == {i \in Payments : payment[i] # None /\ payment[i].status = "pending"}

SelectPending(r) ==
    /\ pc[r] = "intents"
    /\ run[r].accounts = {}
    /\ Goto(r, "sending")
    /\ run' = [run EXCEPT ![r].pending = PendingRows]
    /\ UNCHANGED <<clock, books, kyc, stripe>>

\* Mutant: a fresh key for every attempt.
CreateTransferAfresh(i) ==
    /\ active[payment[i].publisher]
    /\ transfers' = [transfers EXCEPT ![i] = @ + 1]
    /\ keyAt' = [keyAt EXCEPT ![i] = clock]
    /\ UNCHANGED overdue

\* Stripe, as the code uses it: a key it remembers answers with the transfer it
\* already made; a key it does not makes one, to an account that can receive it.
Remembered(i) == keyAt[i] # None /\ clock - keyAt[i] <= KeyLife

CreateTransfer(i) ==
    \/ /\ Remembered(i)
       /\ UNCHANGED stripe
    \/ /\ ~Remembered(i)
       /\ active[payment[i].publisher]
       /\ transfers' = [transfers EXCEPT ![i] = @ + 1]
       /\ keyAt' = [keyAt EXCEPT ![i] = clock]
       /\ UNCHANGED overdue

Send(r, i) ==
    /\ pc[r] = "sending"
    /\ i \in run[r].pending
    /\ CreateTransfer(i)
    /\ Goto(r, "sent")
    /\ run' = [run EXCEPT ![r].pending = @ \ {i}, ![r].payment = i]
    /\ UNCHANGED <<clock, books, kyc>>

\* Mutant: the row is marked whatever Stripe answered.
MarkAnyway(r, i) ==
    /\ pc[r] = "sending"
    /\ i \in run[r].pending
    /\ payment' = [payment EXCEPT ![i].status = "in_transit"]
    /\ run' = [run EXCEPT ![r].pending = @ \ {i}]
    /\ UNCHANGED <<clock, accrued, debits, kyc, stripe, pc>>

\* Stripe refuses, or cannot be reached: the row stays pending.
SendFails(r, i) ==
    /\ pc[r] = "sending"
    /\ i \in run[r].pending
    /\ run' = [run EXCEPT ![r].pending = @ \ {i}]
    /\ UNCHANGED <<clock, books, kyc, stripe, pc>>

Record(r) ==
    LET i == run[r].payment IN
    /\ pc[r] = "sent"
    /\ payment' = [payment EXCEPT ![i].status = "in_transit"]
    /\ Goto(r, "sending")
    /\ run' = [run EXCEPT ![r].payment = None]
    /\ UNCHANGED <<clock, accrued, debits, kyc, stripe>>

\* The answer is lost, or the database is: the money moved and the row is pending.
RecordFails(r) ==
    /\ pc[r] = "sent"
    /\ Goto(r, "sending")
    /\ run' = [run EXCEPT ![r].payment = None]
    /\ UNCHANGED <<clock, books, kyc, stripe>>

End(r) ==
    /\ pc[r] = "sending" /\ run[r].pending = {}
    /\ Goto(r, "idle")
    /\ run' = [run EXCEPT ![r] = None]
    /\ UNCHANGED <<clock, books, kyc, stripe>>

\* The process dies anywhere; the database rolls back and unlocks.
Crash(r) ==
    /\ pc[r] # "idle"
    /\ Goto(r, "idle")
    /\ run' = [run EXCEPT ![r] = None]
    /\ UNCHANGED <<clock, books, kyc, stripe>>

(***************************************************************************)
(* The rest of the system.                                                 *)
(***************************************************************************)

\* A billed impression credits escrow (Settlement).
Accrue(p, amount) ==
    /\ accrued[p][MaxClock + 1] + amount <= MaxAccrued
    /\ accrued' = [accrued EXCEPT ![p] =
          [t \in Times |-> IF t > clock THEN accrued[p][t] + amount ELSE accrued[p][t]]]
    /\ UNCHANGED <<clock, debits, payment, kyc, stripe, pc, run>>

\* Stripe grants or revokes the capability (external).
ChangeCapability(p) ==
    /\ active' = [active EXCEPT ![p] = ~@]
    /\ UNCHANGED <<clock, books, enabled, stripe, pc, run>>

\* GET /api/connect and the account.updated webhook write what Stripe answered, or
\* said, some time ago (ConnectStatus).
Refresh(p) ==
    /\ enabled' = [enabled EXCEPT ![p] = ~@]
    /\ UNCHANGED <<clock, books, active, stripe, pc, run>>

\* The key of row i will be forgotten before a run that starts now has to end.
Expiring(i, now) == keyAt[i] # None /\ now - keyAt[i] > KeyLife - MaxDuration

Tick ==
    /\ clock < MaxClock
    /\ clock' = clock + 1
    /\ overdue' = overdue \cup {i \in PendingRows : Expiring(i, clock')}
    /\ UNCHANGED <<books, kyc, transfers, keyAt, pc, run>>

Init ==
    /\ clock = 0
    /\ accrued = [p \in Publishers |-> [t \in Times |-> 0]]
    /\ debits = [p \in Publishers |-> 0]
    /\ enabled = [p \in Publishers |-> FALSE]
    /\ active = [p \in Publishers |-> FALSE]
    /\ payment = [i \in Payments |-> None]
    /\ transfers = [i \in Payments |-> 0]
    /\ keyAt = [i \in Payments |-> None]
    /\ overdue = {}
    /\ pc = [r \in Runs |-> "idle"]
    /\ run = [r \in Runs |-> None]

StartedAt(r) == run[r].cutoff + Hold

\* Mutant: a run goes on for ever.
NoLimit(r) == TRUE

\* A run that reaches the limit can only die.
InTime(r) == clock - StartedAt(r) <= MaxDuration

Step(r) ==
    /\ pc[r] # "idle" /\ InTime(r)
    /\ \/ \E p \in Publishers : Confirm(r, p) \/ ConfirmFails(r, p)
       \/ ClearFlag(r)
       \/ LockPublisher(r) \/ ReadMatured(r) \/ TooLittle(r) \/ ReserveFails(r)
       \/ \E i \in Payments : Reserve(r, i)
       \/ SelectPending(r)
       \/ \E i \in Payments : Send(r, i) \/ SendFails(r, i)
       \/ Record(r) \/ RecordFails(r) \/ End(r)

Next ==
    \/ Tick
    \/ \E r \in Runs : Start(r) \/ Step(r) \/ Crash(r)
    \/ \E p \in Publishers : ChangeCapability(p) \/ Refresh(p)
    \/ \E p \in Publishers, amount \in Accruals : Accrue(p, amount)

Spec == Init /\ [][Next]_vars

(***************************************************************************)
(* Properties.                                                             *)
(***************************************************************************)

\* Every variable has its type; a run in flight knows what it is about.
TypeOK ==
    /\ clock \in 0..MaxClock
    /\ accrued \in [Publishers -> [Times -> Nat]]
    /\ debits \in [Publishers -> Nat]
    /\ enabled \in [Publishers -> BOOLEAN]
    /\ active \in [Publishers -> BOOLEAN]
    /\ payment \in [Payments -> Payment \cup {None}]
    /\ transfers \in [Payments -> Nat]
    /\ keyAt \in [Payments -> Nat \cup {None}]
    /\ overdue \in SUBSET Payments
    /\ pc \in [Runs -> {"idle", "intents", "inactive", "confirmed", "locked", "read", "sending", "sent"}]
    /\ run \in [Runs -> Run \cup {None}]
    /\ \A r \in Runs :
        /\ pc[r] # "idle" => run[r] # None
        /\ pc[r] \in {"inactive", "confirmed"} \cup HoldsLock => run[r].publisher # None
        /\ pc[r] = "sent" => run[r].payment # None
        /\ run[r] # None => \A i \in run[r].pending \cup ({run[r].payment} \ {None}) : payment[i] # None

\* What was ever debited for payouts had already cleared the hold: overlapping
\* runs, each with a cutoff of its own, never reserve the same escrow twice, nor
\* escrow that is still inside the clawback window (payouts.ts:38-52).
PaidOnlyMatured == \A p \in Publishers : debits[p] <= CreditsBefore(p, clock - Hold)

\* Money moves at most once per payout row, however often the row is retried after a
\* crash or a lost answer (payouts/run/route.ts:30-33), unless the row was still
\* pending when a run could already outlast its key: the code bounds neither how long
\* a row stays pending nor when the next run comes, but it does bound a run.
TransferredOnce == \A i \in Payments \ overdue : transfers[i] <= 1

RowsOf(p) == {i \in Payments : payment[i] # None /\ payment[i].publisher = p}

\* The debits of a publisher are its payout rows, each a whole number of cents that
\* clears the threshold less the rest; Stripe moved no money that is not debited, and
\* a row leaves "pending" only once its money moved, so that the dashboard never
\* reports a payout that Stripe did not make.
DebitsAreRows ==
    /\ \A p \in Publishers : debits[p] = SumFunction([i \in RowsOf(p) |-> payment[i].amount])
    /\ \A i \in Payments :
          /\ transfers[i] > 0 => payment[i] # None
          /\ payment[i] # None => /\ payment[i].amount % Cent = 0
                                  /\ payment[i].amount + Cent > Threshold
          /\ payment[i] # None /\ payment[i].status = "in_transit" => transfers[i] > 0
===============================================================================
