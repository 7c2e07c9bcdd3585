---------------------------- MODULE StripeWebhooks ----------------------------
(***************************************************************************)
(* POST /api/webhooks/stripe, the only path that credits an advertiser,    *)
(* for the events that move money: checkout sessions, refunds, disputes.   *)
(* (account.updated is in ConnectStatus.)  Stripe delivers an event any    *)
(* number of times, in any order, and again until it sees a 200.  Several  *)
(* deliveries are handled at once, each in a transaction of its own, and   *)
(* any of them may die or fail, or its answer be lost.                     *)
(***************************************************************************)
EXTENDS Integers, FiniteSets

CONSTANTS
    Payments,       \* payments of the Stripe account: intents with their charges
    Advertisers,
    Payer,          \* Payer[p]: metadata.advertiserId
    Amount,         \* Amount[p]: what was paid
    Handlers,       \* requests the web tier handles at once
    None            \* no job, or no advertiser

\* The rows of reversals are keyed on a charge or on a dispute.
RefTypes == {"stripe_charge", "stripe_dispute"}
Sources  == RefTypes \X Payments

\* The record stands for event.id: two events with the same content are one.
\* A checkout event carries payment_status, a refund the cumulative amount.
EventsOf(p) ==
    [type: {"checkout"}, payment: {p}, amount: {Amount[p]}, paid: BOOLEAN]
      \cup [type: RefTypes, payment: {p}, amount: 1..Amount[p], paid: {TRUE}]
Events == UNION {EventsOf(p) : p \in Payments}

Job == [event: Events, payer: Advertisers \cup {None}, already: Nat]

ASSUME PaymentAssumption ==
    /\ Payer \in [Payments -> Advertisers]
    /\ Amount \in [Payments -> Nat \ {0}]
    /\ None \notin Advertisers /\ None \notin Job

VARIABLES
    topups,     \* payments marked kind = balance_topup by the checkout route
    payment,    \* payment[p] at Stripe
    taken,      \* taken[s]: refunded (cumulative) or disputed at Stripe
    emitted,    \* the events Stripe has to deliver
    acked,      \* the events it had a 200 for
    processed,  \* processed_webhook_events
    credited,   \* sum of the top-up entries of a payment
    reversed,   \* reversedForSourceMillicents
    balance,    \* advertiserBalanceMillicents, less what impressions cost
    pc, job     \* where each handler is and what it knows

stripe == <<topups, payment, taken, emitted>>
ledger == <<credited, reversed, balance>>
vars   == <<stripe, acked, processed, ledger, pc, job>>

(***************************************************************************)
(* Stripe.                                                                 *)
(***************************************************************************)
Emit(type, p, amount, paid) ==
    emitted' = emitted \cup {[type |-> type, payment |-> p, amount |-> amount, paid |-> paid]}

\* A checkout session completes; a card has paid then, other methods pay later.
Complete(p, paid) ==
    /\ payment[p] = "open"
    /\ payment' = [payment EXCEPT ![p] = IF paid THEN "paid" ELSE "processing"]
    /\ IF p \in topups THEN Emit("checkout", p, Amount[p], paid) ELSE UNCHANGED emitted
    /\ UNCHANGED <<topups, taken, acked, processed, ledger, pc, job>>

AsyncPaymentSucceeds(p) ==
    /\ payment[p] = "processing"
    /\ payment' = [payment EXCEPT ![p] = "paid"]
    /\ IF p \in topups THEN Emit("checkout", p, Amount[p], TRUE) ELSE UNCHANGED emitted
    /\ UNCHANGED <<topups, taken, acked, processed, ledger, pc, job>>

\* Refunds are partial and add up; a charge has at most one dispute here.
TakeBack(refType, p, amount) ==
    /\ payment[p] = "paid"
    /\ taken[<<refType, p>>] < amount
    /\ refType = "stripe_dispute" => taken[<<refType, p>>] = 0
    /\ taken' = [taken EXCEPT ![<<refType, p>>] = amount]
    /\ Emit(refType, p, amount, TRUE)
    /\ UNCHANGED <<topups, payment, acked, processed, ledger, pc, job>>

(***************************************************************************)
(* The handler.                                                            *)
(***************************************************************************)
Goto(h, label) == pc' = [pc EXCEPT ![h] = label]
SourceOf(e)    == <<e.type, e.payment>>

Deliver(h, e) ==
    /\ pc[h] = "idle"
    /\ e \in emitted
    /\ Goto(h, "received")
    /\ job' = [job EXCEPT ![h] = [event |-> e, payer |-> None, already |-> 0]]
    /\ UNCHANGED <<stripe, acked, processed, ledger>>

\* A session that is not paid yet is answered and not recorded.
Unpaid(h) ==
    /\ pc[h] = "received"
    /\ ~job[h].event.paid
    /\ Goto(h, "answer")
    /\ UNCHANGED <<stripe, acked, processed, ledger, job>>

\* Mutant: whatever advertiser the intent names, top-up or not.
AnyAdvertiser(p) == Payer[p]

\* topupAdvertiserFromPaymentIntent: only a tracked top-up has an advertiser.
TopupAdvertiser(p) == IF p \in topups THEN Payer[p] ELSE None

\* The advertiser is in the session, or Stripe is asked for the payment intent.
Resolve(h) ==
    /\ pc[h] = "received"
    /\ job[h].event.paid
    /\ Goto(h, "resolved")
    /\ job' = [job EXCEPT ![h].payer = TopupAdvertiser(job[h].event.payment)]
    /\ UNCHANGED <<stripe, acked, processed, ledger>>

\* The inserted event id is held until the transaction ends: another insert of it waits.
HoldsEvent      == {"recorded", "locked", "read"}
HoldsAdvertiser == {"locked", "read"}

EventFree(e)          == \A h \in Handlers : pc[h] \in HoldsEvent => job[h].event # e
AdvertiserLockFree(v) == \A h \in Handlers : pc[h] \in HoldsAdvertiser => job[h].payer # v

\* Mutant: a plain insert that does not look for the event.
InsertAgain(h) ==
    /\ pc[h] = "resolved"
    /\ Goto(h, "recorded")
    /\ UNCHANGED <<stripe, acked, processed, ledger, job>>

\* INSERT ... ON CONFLICT DO NOTHING: a committed event ends the transaction.
InsertEvent(h) ==
    /\ pc[h] = "resolved"
    /\ EventFree(job[h].event)
    /\ Goto(h, IF job[h].event \in processed THEN "answer" ELSE "recorded")
    /\ UNCHANGED <<stripe, acked, processed, ledger, job>>

Commit(h) ==
    /\ processed' = processed \cup {job[h].event}
    /\ Goto(h, "answer")

\* Not one of our top-ups: recorded, so that Stripe stops asking.
CommitUnattributable(h) ==
    /\ pc[h] = "recorded"
    /\ job[h].payer = None
    /\ Commit(h)
    /\ UNCHANGED <<stripe, acked, ledger, job>>

\* Mutant: the advertiser is not locked.
NoAdvertiserLock(h) ==
    /\ pc[h] = "recorded"
    /\ job[h].payer # None
    /\ Goto(h, "locked")
    /\ UNCHANGED <<stripe, acked, processed, ledger, job>>

\* Mutant: an intent without an advertiser is not told apart.
LockNobody(h) ==
    /\ pc[h] = "recorded"
    /\ AdvertiserLockFree(job[h].payer)
    /\ Goto(h, "locked")
    /\ UNCHANGED <<stripe, acked, processed, ledger, job>>

LockAdvertiser(h) ==
    /\ pc[h] = "recorded"
    /\ job[h].payer # None
    /\ AdvertiserLockFree(job[h].payer)
    /\ Goto(h, "locked")
    /\ UNCHANGED <<stripe, acked, processed, ledger, job>>

CommitCredit(h) ==
    LET e == job[h].event IN
    /\ pc[h] = "locked"
    /\ e.type = "checkout"
    /\ credited' = [credited EXCEPT ![e.payment] = @ + e.amount]
    /\ balance' = [balance EXCEPT ![job[h].payer] = @ + e.amount]
    /\ Commit(h)
    /\ UNCHANGED <<stripe, acked, reversed, job>>

ReadReversed(h) ==
    /\ pc[h] = "locked"
    /\ job[h].event.type # "checkout"
    /\ Goto(h, "read")
    /\ job' = [job EXCEPT ![h].already = reversed[SourceOf(job[h].event)]]
    /\ UNCHANGED <<stripe, acked, processed, ledger>>

\* Mutant: the cumulative amount taken for the amount of this refund.
ReverseInFull(h) ==
    LET e == job[h].event IN
    /\ pc[h] = "read"
    /\ reversed' = [reversed EXCEPT ![SourceOf(e)] = @ + e.amount]
    /\ balance' = [balance EXCEPT ![job[h].payer] = @ - e.amount]
    /\ Commit(h)
    /\ UNCHANGED <<stripe, acked, credited, job>>

\* Only what this source has not reversed yet; the balance may become negative.
CommitReversal(h) ==
    LET e     == job[h].event
        delta == e.amount - job[h].already
    IN
    /\ pc[h] = "read"
    /\ IF delta <= 0 THEN UNCHANGED <<reversed, balance>>
       ELSE /\ reversed' = [reversed EXCEPT ![SourceOf(e)] = @ + delta]
            /\ balance' = [balance EXCEPT ![job[h].payer] = @ - delta]
    /\ Commit(h)
    /\ UNCHANGED <<stripe, acked, credited, job>>

Finish(h) ==
    /\ Goto(h, "idle")
    /\ job' = [job EXCEPT ![h] = None]

Answer(h) ==
    /\ pc[h] = "answer"
    /\ acked' = acked \cup {job[h].event}
    /\ Finish(h)
    /\ UNCHANGED <<stripe, processed, ledger>>

\* Mutant: a lookup that failed is taken for "not a top-up" and answered 200.
SwallowLookupFailure(h) ==
    /\ pc[h] # "idle"
    /\ acked' = IF pc[h] = "received" THEN acked \cup {job[h].event} ELSE acked
    /\ Finish(h)
    /\ UNCHANGED <<stripe, processed, ledger>>

\* The lookup or the database fails, the server dies, or the answer is lost: the
\* transaction, if any, is rolled back and Stripe sees no 200.
Fail(h) ==
    /\ pc[h] # "idle"
    /\ Finish(h)
    /\ UNCHANGED <<stripe, acked, processed, ledger>>

(***************************************************************************)
(* The specification.                                                      *)
(***************************************************************************)
Init ==
    /\ topups \in SUBSET Payments
    /\ payment = [p \in Payments |-> "open"]
    /\ taken = [s \in Sources |-> 0]
    /\ emitted = {} /\ acked = {} /\ processed = {}
    /\ credited = [p \in Payments |-> 0]
    /\ reversed = [s \in Sources |-> 0]
    /\ balance = [v \in Advertisers |-> 0]
    /\ pc = [h \in Handlers |-> "idle"]
    /\ job = [h \in Handlers |-> None]

Handle(h) ==
    \/ Unpaid(h) \/ Resolve(h) \/ InsertEvent(h)
    \/ CommitUnattributable(h)
    \/ LockAdvertiser(h) \/ CommitCredit(h) \/ ReadReversed(h) \/ CommitReversal(h)
    \/ Answer(h)

Next ==
    \/ \E p \in Payments, paid \in BOOLEAN : Complete(p, paid)
    \/ \E p \in Payments : AsyncPaymentSucceeds(p)
    \/ \E t \in RefTypes, p \in Payments : \E amount \in 1..Amount[p] : TakeBack(t, p, amount)
    \/ \E h \in Handlers, e \in emitted : Deliver(h, e)
    \/ \E h \in Handlers : Handle(h) \/ Fail(h)

Spec == Init /\ [][Next]_vars

(***************************************************************************)
(* Properties.                                                             *)
(***************************************************************************)

\* Every variable has its type; a handler at work knows its event, and has an
\* advertiser once it holds that advertiser's lock.
TypeOK ==
    /\ topups \subseteq Payments
    /\ payment \in [Payments -> {"open", "processing", "paid"}]
    /\ taken \in [Sources -> Nat]
    /\ emitted \subseteq Events /\ acked \subseteq Events /\ processed \subseteq Events
    /\ credited \in [Payments -> Nat]
    /\ reversed \in [Sources -> Nat]
    /\ balance \in [Advertisers -> Int]
    /\ pc \in [Handlers -> {"idle", "received", "resolved", "answer"} \cup HoldsEvent]
    /\ job \in [Handlers -> Job \cup {None}]
    /\ \A h \in Handlers : pc[h] # "idle" => job[h] # None
    /\ \A h \in Handlers : pc[h] \in HoldsAdvertiser => job[h].payer # None

\* What the ledger reversed for a charge or a dispute is the largest cumulative
\* amount among the events processed for it, in whatever order they came, two of
\* them at once included; of a payment that is no top-up nothing is reversed
\* (clawback and topupAdvertiserFromPaymentIntent).
AmountsProcessed(s) == {0} \cup {e.amount : e \in {x \in processed : SourceOf(x) = s}}

ReversalsReconcile ==
    \A s \in Sources :
        IF s[2] \in topups
        THEN /\ reversed[s] \in AmountsProcessed(s)
             /\ \A amount \in AmountsProcessed(s) : amount <= reversed[s]
        ELSE reversed[s] = 0

\* Stripe is told 200 only for what the ledger has: an event whose handling failed
\* half-way is never taken as done (route.ts:50-52, 187-189).
Applied(e) ==
    \/ ~e.paid
    \/ e.payment \notin topups
    \/ e.type = "checkout" /\ credited[e.payment] = e.amount
    \/ e.type # "checkout" /\ reversed[SourceOf(e)] >= e.amount

AcknowledgedIsApplied == \A e \in acked : Applied(e)

\* The handlers together do what AccountMoney promises.
Account == INSTANCE AccountMoney WITH paid <- {p \in Payments : payment[p] = "paid"}

ImplementsAccount == Account!Spec
===============================================================================
