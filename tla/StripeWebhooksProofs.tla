------------------------- MODULE StripeWebhooksProofs -------------------------
(***************************************************************************)
(* Proofs about StripeWebhooks, for any payments, amounts and handlers.    *)
(***************************************************************************)
EXTENDS StripeWebhooks, TLAPS

(***************************************************************************)
(* The inductive invariant: the locks are exclusive, what Stripe emits is  *)
(* true of what it took, what a handler knows is still so while it holds   *)
(* its locks, and the ledger has exactly what was processed.               *)
(***************************************************************************)
LocksExclusive ==
    \A h, g \in Handlers :
        /\ pc[h] \in HoldsEvent /\ pc[g] \in HoldsEvent /\ job[h].event = job[g].event => h = g
        /\ pc[h] \in HoldsAdvertiser /\ pc[g] \in HoldsAdvertiser
              /\ job[h].payer = job[g].payer => h = g

EmittedIsTrue ==
    \A e \in emitted :
        /\ e.type = "checkout" => e.payment \in topups
        /\ e.paid => payment[e.payment] = "paid"
        /\ e.type # "checkout" => e.amount <= taken[SourceOf(e)]

Working == {"resolved"} \cup HoldsEvent

Knows(h) ==
    /\ pc[h] # "idle" => job[h].event \in emitted
    /\ pc[h] \in Working => /\ job[h].event.paid
                            /\ job[h].payer = TopupAdvertiser(job[h].event.payment)
    /\ pc[h] \in HoldsEvent => job[h].event \notin processed
    /\ pc[h] = "read" => /\ job[h].event.type # "checkout"
                         /\ job[h].already = reversed[SourceOf(job[h].event)]
    /\ pc[h] = "answer" => Applied(job[h].event)

CheckoutOf(p) == [type |-> "checkout", payment |-> p, amount |-> Amount[p], paid |-> TRUE]

CreditsAreProcessed ==
    \A p \in Payments : credited[p] = IF CheckoutOf(p) \in processed THEN Amount[p] ELSE 0

ProcessedWasEmitted == \A e \in processed : e \in emitted /\ e.paid

Inv ==
    /\ TypeOK /\ LocksExclusive /\ EmittedIsTrue
    /\ \A h \in Handlers : Knows(h)
    /\ CreditsAreProcessed /\ ProcessedWasEmitted
    /\ ReversalsReconcile /\ AcknowledgedIsApplied

LEMMA EventShape ==
    ASSUME NEW e \in Events
    PROVE  /\ e.payment \in Payments /\ e.amount \in Nat \ {0} /\ e.paid \in BOOLEAN
           /\ e.type \in {"checkout"} \cup RefTypes
           /\ e.type = "checkout" => e.amount = Amount[e.payment]
           /\ e.type = "checkout" /\ e.paid => e = CheckoutOf(e.payment)
           /\ e.type # "checkout" => /\ e.paid /\ SourceOf(e) \in Sources
                                     /\ e.amount \in 1..Amount[e.payment]
<1>1. PICK p \in Payments : e \in EventsOf(p)
  BY DEF Events
<1>2. Amount[p] \in Nat \ {0}
  BY PaymentAssumption
<1>3. CASE e \in [type: {"checkout"}, payment: {p}, amount: {Amount[p]}, paid: BOOLEAN]
  <2>1. /\ e.type = "checkout" /\ e.payment = p /\ e.amount = Amount[p]
        /\ e.paid \in BOOLEAN
    BY <1>3
  <2>2. e.paid => e.paid = TRUE
    BY <2>1
  <2>3. e.paid => e = CheckoutOf(p)
    BY <1>3, <2>1, <2>2 DEF CheckoutOf
  <2>. QED BY <1>2, <2>1, <2>3
<1>4. CASE e \in [type: RefTypes, payment: {p}, amount: 1..Amount[p], paid: {TRUE}]
  <2>1. /\ e.type \in RefTypes /\ e.payment = p /\ e.amount \in 1..Amount[p]
        /\ e.paid = TRUE
    BY <1>4
  <2>2. e.type # "checkout" /\ SourceOf(e) \in Sources
    BY <2>1 DEF RefTypes, Sources, SourceOf
  <2>3. e.paid /\ e.paid \in BOOLEAN
    BY <2>1, Zenon
  <2>4. e.amount \in Nat \ {0} /\ e.amount \in 1..Amount[e.payment]
    BY <1>2, <2>1
  <2>5. e.type \in {"checkout"} \cup RefTypes /\ e.payment \in Payments
    BY <2>1
  <2>. QED BY <2>2, <2>3, <2>4, <2>5, Zenon
<1>. QED BY <1>1, <1>3, <1>4 DEF EventsOf

LEMMA CheckoutIsEvent ==
    ASSUME NEW p \in Payments, NEW paid \in BOOLEAN
    PROVE  [type |-> "checkout", payment |-> p, amount |-> Amount[p], paid |-> paid] \in Events
<1>1. [type |-> "checkout", payment |-> p, amount |-> Amount[p], paid |-> paid]
        \in [type: {"checkout"}, payment: {p}, amount: {Amount[p]}, paid: BOOLEAN]
  BY Zenon
<1>2. [type |-> "checkout", payment |-> p, amount |-> Amount[p], paid |-> paid] \in EventsOf(p)
  BY <1>1 DEF EventsOf
<1>. QED BY <1>2 DEF Events

LEMMA ReversalIsEvent ==
    ASSUME NEW p \in Payments, NEW t \in RefTypes, NEW n \in 1..Amount[p]
    PROVE  [type |-> t, payment |-> p, amount |-> n, paid |-> TRUE] \in Events
<1>1. [type |-> t, payment |-> p, amount |-> n, paid |-> TRUE] \in EventsOf(p)
  BY DEF EventsOf
<1>. QED BY <1>1 DEF Events

LEMMA JobOf ==
    ASSUME TypeOK, NEW h \in Handlers, pc[h] # "idle"
    PROVE  /\ job[h] \in Job /\ job[h].event \in Events
           /\ job[h].payer \in Advertisers \cup {None} /\ job[h].already \in Nat
           /\ pc[h] \in HoldsAdvertiser => job[h].payer \in Advertisers
  BY DEF TypeOK, Job

LEMMA InitInv == Init => Inv
<1>. SUFFICES ASSUME Init PROVE Inv
  OBVIOUS
<1>1. TypeOK
  BY DEF Init, TypeOK, HoldsEvent, HoldsAdvertiser
<1>2. ReversalsReconcile
  BY DEF Init, ReversalsReconcile, AmountsProcessed
<1>. QED BY <1>1, <1>2
     DEF Init, Inv, LocksExclusive, EmittedIsTrue, Knows, Working, HoldsEvent, HoldsAdvertiser,
         CreditsAreProcessed, ProcessedWasEmitted, AcknowledgedIsApplied

(***************************************************************************)
(* Types.                                                                  *)
(***************************************************************************)
LEMMA StripeTypeOK ==
    ASSUME Inv, NEW p \in Payments,
           \/ \E paid \in BOOLEAN : Complete(p, paid)
           \/ AsyncPaymentSucceeds(p)
           \/ \E t \in RefTypes : \E amount \in 1..Amount[p] : TakeBack(t, p, amount)
    PROVE  TypeOK'
<1>. USE DEF ledger
<1>1. TypeOK /\ Amount[p] \in Nat \ {0}
  BY PaymentAssumption DEF Inv
<1>2. ASSUME NEW paid \in BOOLEAN, Complete(p, paid) PROVE TypeOK'
  <2>1. emitted' \subseteq Events
    BY <1>1, <1>2, CheckoutIsEvent DEF Complete, Emit, TypeOK
  <2>. QED BY <1>1, <1>2, <2>1 DEF Complete, TypeOK
<1>3. CASE AsyncPaymentSucceeds(p)
  <2>1. emitted' \subseteq Events
    BY <1>1, <1>3, CheckoutIsEvent DEF AsyncPaymentSucceeds, Emit, TypeOK
  <2>. QED BY <1>1, <1>3, <2>1 DEF AsyncPaymentSucceeds, TypeOK
<1>4. ASSUME NEW t \in RefTypes, NEW amount \in 1..Amount[p], TakeBack(t, p, amount)
      PROVE  TypeOK'
  <2>1. emitted' \subseteq Events
    BY <1>1, <1>4, ReversalIsEvent DEF TakeBack, Emit, TypeOK
  <2>2. taken' \in [Sources -> Nat]
    <3>1. amount \in Nat /\ <<t, p>> \in Sources
      BY <1>1 DEF Sources
    <3>. QED BY <1>1, <1>4, <3>1 DEF TakeBack, TypeOK
  <2>. QED BY <1>1, <1>4, <2>1, <2>2 DEF TakeBack, TypeOK
<1>. QED BY <1>2, <1>3, <1>4

LEMMA HandlerTypeOK ==
    ASSUME Inv, NEW h \in Handlers,
           (\E e \in emitted : Deliver(h, e)) \/ Handle(h) \/ Fail(h)
    PROVE  TypeOK'
<1>. USE DEF ledger, stripe, Goto, HoldsEvent, HoldsAdvertiser
<1>1. TypeOK
  BY DEF Inv
<1>2. ASSUME NEW e \in emitted, Deliver(h, e) PROVE TypeOK'
  <2>1. [event |-> e, payer |-> None, already |-> 0] \in Job
    BY <1>1 DEF Job, TypeOK
  <2>2. job' \in [Handlers -> Job \cup {None}]
    BY <1>1, <1>2, <2>1 DEF Deliver, TypeOK
  <2>3. job'[h] # None
    BY <1>1, <1>2, <2>1, PaymentAssumption DEF Deliver, TypeOK
  <2>. QED BY <1>1, <1>2, <2>2, <2>3 DEF Deliver, TypeOK
<1>3. CASE Unpaid(h) \/ InsertEvent(h) \/ LockAdvertiser(h)
  BY <1>1, <1>3 DEF Unpaid, InsertEvent, LockAdvertiser, TypeOK
<1>4. CASE Resolve(h)
  <2>1. job[h] \in Job /\ job[h].event.payment \in Payments
    BY <1>1, <1>4, JobOf, EventShape DEF Resolve
  <2>2. TopupAdvertiser(job[h].event.payment) \in Advertisers \cup {None}
    BY <2>1, PaymentAssumption DEF TopupAdvertiser
  <2>3. [job[h] EXCEPT !.payer = TopupAdvertiser(job[h].event.payment)] \in Job
    BY <2>1, <2>2 DEF Job
  <2>4. job' \in [Handlers -> Job \cup {None}] /\ job'[h] # None
    BY <1>1, <1>4, <2>3, PaymentAssumption DEF Resolve, TypeOK
  <2>. QED BY <1>1, <1>4, <2>4 DEF Resolve, TypeOK
<1>5. CASE CommitUnattributable(h)
  BY <1>1, <1>5, JobOf DEF CommitUnattributable, Commit, TypeOK
<1>6. CASE CommitCredit(h)
  <2>1. /\ job[h].event \in Events /\ job[h].event.payment \in Payments
        /\ job[h].event.amount \in Nat /\ job[h].payer \in Advertisers
    BY <1>1, <1>6, JobOf, EventShape DEF CommitCredit
  <2>2. credited' \in [Payments -> Nat] /\ balance' \in [Advertisers -> Int]
    BY <1>1, <1>6, <2>1 DEF CommitCredit, TypeOK
  <2>. QED BY <1>1, <1>6, <2>1, <2>2 DEF CommitCredit, Commit, TypeOK
<1>7. CASE ReadReversed(h)
  <2>1. job[h] \in Job /\ SourceOf(job[h].event) \in Sources
    BY <1>1, <1>7, JobOf, EventShape DEF ReadReversed
  <2>2. reversed[SourceOf(job[h].event)] \in Nat
    BY <1>1, <2>1 DEF TypeOK
  <2>3. [job[h] EXCEPT !.already = reversed[SourceOf(job[h].event)]] \in Job
    BY <2>1, <2>2 DEF Job
  <2>4. job' \in [Handlers -> Job \cup {None}] /\ job'[h] # None
        /\ job'[h].payer = job[h].payer
    BY <1>1, <1>7, <2>1, <2>3, PaymentAssumption DEF ReadReversed, TypeOK, Job
  <2>. QED BY <1>1, <1>7, <2>4 DEF ReadReversed, TypeOK
<1>8. CASE CommitReversal(h)
  <2>1. /\ job[h].event \in Events /\ SourceOf(job[h].event) \in Sources
        /\ job[h].event.amount \in Nat /\ job[h].payer \in Advertisers /\ job[h].already \in Nat
    BY <1>1, <1>8, JobOf, EventShape DEF CommitReversal, Inv, Knows
  <2>2. reversed' \in [Sources -> Nat] /\ balance' \in [Advertisers -> Int]
    BY <1>1, <1>8, <2>1 DEF CommitReversal, TypeOK
  <2>. QED BY <1>1, <1>8, <2>1, <2>2 DEF CommitReversal, Commit, TypeOK
<1>9. CASE Answer(h)
  BY <1>1, <1>9, JobOf DEF Answer, Finish, TypeOK
<1>10. CASE Fail(h)
  BY <1>1, <1>10 DEF Fail, Finish, TypeOK
<1>. QED BY <1>2, <1>3, <1>4, <1>5, <1>6, <1>7, <1>8, <1>9, <1>10 DEF Handle

(***************************************************************************)
(* Safety.                                                                 *)
(***************************************************************************)
Safe ==
    /\ LocksExclusive /\ EmittedIsTrue /\ \A h \in Handlers : Knows(h)
    /\ CreditsAreProcessed /\ ProcessedWasEmitted
    /\ ReversalsReconcile /\ AcknowledgedIsApplied

\* Stripe goes on, nothing in the web tier does.
LEMMA StripeStep ==
    ASSUME Inv, NEW p \in Payments,
           \/ \E paid \in BOOLEAN : Complete(p, paid)
           \/ AsyncPaymentSucceeds(p)
           \/ \E t \in RefTypes : \E amount \in 1..Amount[p] : TakeBack(t, p, amount)
    PROVE  Safe'
<1>1. TypeOK /\ Amount[p] \in Nat \ {0}
  BY PaymentAssumption DEF Inv
<1>2. topups' = topups /\ emitted \subseteq emitted'
      /\ UNCHANGED <<acked, processed, credited, reversed, balance, pc, job>>
  BY DEF Complete, AsyncPaymentSucceeds, TakeBack, Emit, ledger
<1>3. EmittedIsTrue'
  <2>1. \A e \in emitted : e.payment \in Payments /\ (e.type # "checkout" => SourceOf(e) \in Sources /\ e.amount \in Nat)
    BY <1>1, EventShape DEF TypeOK
  <2>2. ASSUME NEW paid \in BOOLEAN, Complete(p, paid) PROVE EmittedIsTrue'
    <3>1. ASSUME NEW e \in emitted PROVE e.paid => payment'[e.payment] = "paid"
      BY <1>1, <2>1, <2>2 DEF Complete, Inv, EmittedIsTrue, TypeOK
    <3>2. paid => payment'[p] = "paid"
      BY <1>1, <2>2 DEF Complete, TypeOK
    <3>3. ASSUME NEW e \in emitted'
          PROVE  /\ e.type = "checkout" => e.payment \in topups'
                 /\ e.paid => payment'[e.payment] = "paid"
                 /\ e.type # "checkout" => e.amount <= taken'[SourceOf(e)]
      <4>1. CASE e \in emitted
        BY <1>2, <2>2, <3>1, <3>2, <4>1 DEF Complete, Inv, EmittedIsTrue
      <4>2. CASE e \notin emitted
        <5>1. e = [type |-> "checkout", payment |-> p, amount |-> Amount[p], paid |-> paid]
          BY <2>2, <3>1, <3>2, <4>2 DEF Complete, Emit
        <5>2. e.type = "checkout" /\ e.payment = p /\ e.amount = Amount[p]
              /\ SourceOf(e) = <<"checkout", p>>
          BY <5>1 DEF SourceOf
        <5>. QED BY <1>2, <2>2, <3>1, <3>2, <4>2, <5>1, <5>2 DEF Complete
      <4>. QED BY <4>1, <4>2
    <3>. QED BY <3>3 DEF EmittedIsTrue
  <2>3. CASE AsyncPaymentSucceeds(p)
    <3>1. ASSUME NEW e \in emitted PROVE e.paid => payment'[e.payment] = "paid"
      BY <1>1, <2>1, <2>3 DEF AsyncPaymentSucceeds, Inv, EmittedIsTrue, TypeOK
    <3>2. payment'[p] = "paid"
      BY <1>1, <2>3 DEF AsyncPaymentSucceeds, TypeOK
    <3>3. ASSUME NEW e \in emitted'
          PROVE  /\ e.type = "checkout" => e.payment \in topups'
                 /\ e.paid => payment'[e.payment] = "paid"
                 /\ e.type # "checkout" => e.amount <= taken'[SourceOf(e)]
      <4>1. CASE e \in emitted
        BY <1>2, <2>3, <3>1, <3>2, <4>1 DEF AsyncPaymentSucceeds, Inv, EmittedIsTrue
      <4>2. CASE e \notin emitted
        <5>1. e = [type |-> "checkout", payment |-> p, amount |-> Amount[p], paid |-> TRUE]
          BY <2>3, <3>1, <3>2, <4>2 DEF AsyncPaymentSucceeds, Emit
        <5>2. e.type = "checkout" /\ e.payment = p /\ e.amount = Amount[p]
              /\ SourceOf(e) = <<"checkout", p>>
          BY <5>1 DEF SourceOf
        <5>. QED BY <1>2, <2>3, <3>1, <3>2, <4>2, <5>1, <5>2 DEF AsyncPaymentSucceeds
      <4>. QED BY <4>1, <4>2
    <3>. QED BY <3>3 DEF EmittedIsTrue
  <2>4. ASSUME NEW t \in RefTypes, NEW amount \in 1..Amount[p], TakeBack(t, p, amount)
        PROVE  EmittedIsTrue'
    <3>1. <<t, p>> \in Sources /\ amount \in Nat /\ payment[p] = "paid" /\ t # "checkout"
      BY <1>1, <2>4 DEF Sources, TakeBack, RefTypes
    <3>2. taken'[<<t, p>>] = amount /\ \A s \in Sources : taken[s] <= taken'[s]
      BY <1>1, <2>4, <3>1 DEF TakeBack, TypeOK
    <3>3. ASSUME NEW e \in emitted, e.type # "checkout" PROVE e.amount <= taken'[SourceOf(e)]
      <4>1. taken[SourceOf(e)] \in Nat /\ taken'[SourceOf(e)] \in Nat
        BY <1>1, <2>1, <2>4, <3>1, <3>3 DEF TakeBack, TypeOK
      <4>. QED BY <2>1, <3>2, <3>3, <4>1 DEF Inv, EmittedIsTrue
    <3>4. ASSUME NEW e \in emitted'
          PROVE  /\ e.type = "checkout" => e.payment \in topups'
                 /\ e.paid => payment'[e.payment] = "paid"
                 /\ e.type # "checkout" => e.amount <= taken'[SourceOf(e)]
      <4>1. CASE e \in emitted
        BY <1>2, <2>4, <3>1, <3>2, <3>3, <4>1 DEF TakeBack, Inv, EmittedIsTrue
      <4>2. CASE e \notin emitted
        <5>1. e = [type |-> t, payment |-> p, amount |-> amount, paid |-> TRUE]
          BY <2>4, <3>1, <3>2, <3>3, <4>2 DEF TakeBack, Emit
        <5>2. e.type = t /\ e.payment = p /\ e.amount = amount
              /\ SourceOf(e) = <<t, p>>
          BY <5>1 DEF SourceOf
        <5>. QED BY <1>2, <2>4, <3>1, <3>2, <3>3, <4>2, <5>1, <5>2 DEF TakeBack
      <4>. QED BY <4>1, <4>2
    <3>. QED BY <3>4 DEF EmittedIsTrue
  <2>. QED BY <2>2, <2>3, <2>4
<1>4. ASSUME NEW h \in Handlers PROVE Knows(h)'
  BY <1>2 DEF Inv, Knows, Applied, TopupAdvertiser
<1>. QED BY <1>2, <1>3, <1>4
     DEF Inv, Safe, LocksExclusive, CreditsAreProcessed, ProcessedWasEmitted, ReversalsReconcile,
         AmountsProcessed, AcknowledgedIsApplied, Applied

\* Steps of a handler that leave the ledger alone.
LEMMA QuietStep ==
    ASSUME Inv, NEW h \in Handlers, UNCHANGED <<stripe, processed, ledger>>,
           pc' = [pc EXCEPT ![h] = pc'[h]],
           \A g \in Handlers \ {h} : job'[g] = job[g],
           LocksExclusive', Knows(h)', AcknowledgedIsApplied'
    PROVE  Safe'
<1>1. UNCHANGED <<topups, payment, taken, emitted, processed, credited, reversed, balance>>
  BY DEF stripe, ledger
<1>2. ASSUME NEW g \in Handlers PROVE Knows(g)'
  <2>1. CASE g # h
    BY <1>1, <2>1 DEF Inv, TypeOK, Knows, Applied, TopupAdvertiser
  <2>. QED BY <2>1
<1>. QED BY <1>1, <1>2
     DEF Inv, Safe, EmittedIsTrue, CreditsAreProcessed, ProcessedWasEmitted, ReversalsReconcile,
         AmountsProcessed

LEMMA LocksOf ==
    ASSUME Inv, NEW h \in Handlers,
           pc' = [pc EXCEPT ![h] = pc'[h]],
           \A g \in Handlers \ {h} : job'[g] = job[g],
           pc'[h] \in HoldsEvent => /\ job'[h].event = job[h].event
                                    /\ pc[h] \in HoldsEvent \/ EventFree(job[h].event),
           pc'[h] \in HoldsAdvertiser => /\ job'[h].payer = job[h].payer
                                         /\ pc[h] \in HoldsAdvertiser \/ AdvertiserLockFree(job[h].payer)
    PROVE  LocksExclusive'
<1>1. \A g \in Handlers \ {h} : pc'[g] = pc[g]
  BY DEF Inv, TypeOK
<1>2. ASSUME NEW f \in Handlers, NEW g \in Handlers, f # g
      PROVE  /\ ~(pc'[f] \in HoldsEvent /\ pc'[g] \in HoldsEvent /\ job'[f].event = job'[g].event)
             /\ ~(pc'[f] \in HoldsAdvertiser /\ pc'[g] \in HoldsAdvertiser
                    /\ job'[f].payer = job'[g].payer)
  <2>1. CASE f # h /\ g # h
    BY <1>1, <1>2, <2>1 DEF Inv, LocksExclusive
  <2>2. CASE f = h
    BY <1>1, <1>2, <2>2 DEF Inv, LocksExclusive, EventFree, AdvertiserLockFree
  <2>3. CASE g = h
    BY <1>1, <1>2, <2>3 DEF Inv, LocksExclusive, EventFree, AdvertiserLockFree
  <2>. QED BY <2>1, <2>2, <2>3
<1>. QED BY <1>2 DEF LocksExclusive

LEMMA QuietSteps ==
    ASSUME Inv, NEW h \in Handlers,
           \/ \E e \in emitted : Deliver(h, e)
           \/ Unpaid(h) \/ Resolve(h) \/ InsertEvent(h) \/ LockAdvertiser(h) \/ ReadReversed(h)
           \/ Answer(h) \/ Fail(h)
    PROVE  Safe'
<1>. USE DEF Goto, HoldsEvent, HoldsAdvertiser, Working
<1>1. /\ TypeOK /\ pc[h] \in {"idle", "received", "resolved", "answer"} \cup HoldsEvent /\ Knows(h)
      /\ AcknowledgedIsApplied
  BY DEF Inv, TypeOK
<1>2. ASSUME UNCHANGED <<stripe, ledger>>, NEW e \in Events, Applied(e) PROVE Applied(e)'
  BY <1>2 DEF Applied, stripe, ledger
<1>3. ASSUME UNCHANGED <<stripe, acked, ledger>> PROVE AcknowledgedIsApplied'
  BY <1>1, <1>3 DEF AcknowledgedIsApplied, Applied, stripe, ledger
<1>4. ASSUME NEW e \in emitted, Deliver(h, e) PROVE Safe'
  <2>1. pc'[h] = "received" /\ job'[h].event = e
    BY <1>1, <1>4 DEF Deliver, TypeOK
  <2>2. LocksExclusive'
    BY <1>1, <1>4, <2>1, LocksOf DEF Deliver, TypeOK
  <2>3. Knows(h)'
    BY <1>4, <2>1 DEF Deliver, Knows, stripe
  <2>. QED BY <1>1, <1>3, <1>4, <2>1, <2>2, <2>3, QuietStep DEF Deliver, TypeOK
<1>5. CASE Unpaid(h)
  <2>1. pc'[h] = "answer" /\ job' = job
    BY <1>1, <1>5 DEF Unpaid, TypeOK
  <2>2. LocksExclusive'
    BY <1>1, <1>5, <2>1, LocksOf DEF Unpaid, TypeOK
  <2>3. Knows(h)'
    BY <1>1, <1>5, <2>1 DEF Unpaid, Knows, stripe, Applied
  <2>. QED BY <1>1, <1>3, <1>5, <2>1, <2>2, <2>3, QuietStep DEF Unpaid, TypeOK
<1>6. CASE Resolve(h)
  <2>1. job[h] \in Job
    BY <1>1, <1>6, JobOf DEF Resolve
  <2>2. /\ pc'[h] = "resolved" /\ job'[h].event = job[h].event
        /\ job'[h].payer = TopupAdvertiser(job[h].event.payment)
        /\ \A g \in Handlers \ {h} : job'[g] = job[g]
    BY <1>1, <1>6, <2>1 DEF Resolve, TypeOK, Job
  <2>3. LocksExclusive'
    BY <1>1, <1>6, <2>2, LocksOf DEF Resolve, TypeOK
  <2>4. Knows(h)'
    BY <1>1, <1>6, <2>2 DEF Resolve, Knows, stripe, TopupAdvertiser
  <2>. QED BY <1>1, <1>3, <1>6, <2>2, <2>3, <2>4, QuietStep DEF Resolve, TypeOK
<1>7. CASE InsertEvent(h)
  <2>1. job' = job /\ pc'[h] = IF job[h].event \in processed THEN "answer" ELSE "recorded"
    BY <1>1, <1>7 DEF InsertEvent, TypeOK
  <2>2. LocksExclusive'
    BY <1>1, <1>7, <2>1, LocksOf DEF InsertEvent, TypeOK
  <2>3. job[h].event \in processed => Applied(job[h].event)
    <3>1. job[h].event \in Events
      BY <1>1, <1>7, JobOf DEF InsertEvent
    <3>. SUFFICES ASSUME job[h].event \in processed, job[h].event.payment \in topups
                  PROVE  Applied(job[h].event)
      BY DEF Applied
    <3>2. CASE job[h].event.type = "checkout"
      BY <1>1, <1>7, <3>1, <3>2, EventShape
         DEF InsertEvent, Inv, Knows, CreditsAreProcessed, Applied
    <3>3. CASE job[h].event.type # "checkout"
      <4>1. /\ SourceOf(job[h].event) \in Sources
            /\ SourceOf(job[h].event)[2] = job[h].event.payment
        BY <3>1, <3>3, EventShape DEF SourceOf
      <4>2. job[h].event.amount \in AmountsProcessed(SourceOf(job[h].event))
        BY DEF AmountsProcessed
      <4>3. job[h].event.amount <= reversed[SourceOf(job[h].event)]
        BY <4>1, <4>2 DEF Inv, ReversalsReconcile
      <4>4. job[h].event.amount \in Nat /\ reversed[SourceOf(job[h].event)] \in Nat
        BY <1>1, <3>1, <4>1, EventShape DEF TypeOK
      <4>. QED BY <3>3, <4>3, <4>4 DEF Applied
    <3>. QED BY <3>2, <3>3
  <2>4. Knows(h)'
    BY <1>1, <1>7, <2>1, <2>3 DEF InsertEvent, Knows, stripe, ledger, TopupAdvertiser, Applied
  <2>. QED BY <1>1, <1>3, <1>7, <2>1, <2>2, <2>4, QuietStep DEF InsertEvent, TypeOK
<1>8. CASE LockAdvertiser(h)
  <2>1. job' = job /\ pc'[h] = "locked"
    BY <1>1, <1>8 DEF LockAdvertiser, TypeOK
  <2>2. LocksExclusive'
    BY <1>1, <1>8, <2>1, LocksOf DEF LockAdvertiser, TypeOK
  <2>3. Knows(h)'
    BY <1>1, <1>8, <2>1 DEF LockAdvertiser, Knows, stripe, TopupAdvertiser
  <2>. QED BY <1>1, <1>3, <1>8, <2>1, <2>2, <2>3, QuietStep DEF LockAdvertiser, TypeOK
<1>9. CASE ReadReversed(h)
  <2>1. job[h] \in Job
    BY <1>1, <1>9, JobOf DEF ReadReversed
  <2>2. /\ pc'[h] = "read" /\ job'[h].event = job[h].event /\ job'[h].payer = job[h].payer
        /\ job'[h].already = reversed[SourceOf(job[h].event)]
        /\ \A g \in Handlers \ {h} : job'[g] = job[g]
    BY <1>1, <1>9, <2>1 DEF ReadReversed, TypeOK, Job
  <2>3. LocksExclusive'
    BY <1>1, <1>9, <2>2, LocksOf DEF ReadReversed, TypeOK
  <2>4. Knows(h)'
    BY <1>1, <1>9, <2>2 DEF ReadReversed, Knows, stripe, ledger, TopupAdvertiser, SourceOf
  <2>. QED BY <1>1, <1>3, <1>9, <2>2, <2>3, <2>4, QuietStep DEF ReadReversed, TypeOK
<1>10. CASE Answer(h) \/ Fail(h)
  <2>1. pc'[h] = "idle" /\ \A g \in Handlers \ {h} : job'[g] = job[g]
    BY <1>1, <1>10 DEF Answer, Fail, Finish, TypeOK
  <2>2. LocksExclusive'
    BY <1>1, <1>10, <2>1, LocksOf DEF Answer, Fail, Finish, TypeOK
  <2>3. Knows(h)'
    BY <2>1 DEF Knows
  <2>4. AcknowledgedIsApplied'
    <3>1. CASE Answer(h)
      <4>1. Applied(job[h].event) /\ UNCHANGED <<topups, credited, reversed>>
        BY <1>1, <3>1 DEF Answer, Knows, stripe, ledger
      <4>. QED BY <1>1, <3>1, <4>1 DEF Answer, AcknowledgedIsApplied, Applied
    <3>2. CASE Fail(h)
      BY <1>3, <3>2 DEF Fail
    <3>. QED BY <1>10, <3>1, <3>2
  <2>. QED BY <1>1, <1>10, <2>1, <2>2, <2>3, <2>4, QuietStep DEF Answer, Fail, Finish, TypeOK
<1>. QED BY <1>4, <1>5, <1>6, <1>7, <1>8, <1>9, <1>10

\* The commits: credits of a payment that had none, reversals that grow.
LedgerGrows ==
    /\ \A p \in Payments : credited'[p] = credited[p] \/ credited[p] = 0
    /\ \A x \in Sources : reversed[x] <= reversed'[x]

LEMMA AppliedStays ==
    ASSUME TypeOK, TypeOK', LedgerGrows, topups' = topups, NEW e \in Events, Applied(e)
    PROVE  Applied(e)'
<1>1. /\ e.payment \in Payments /\ e.amount \in Nat \ {0}
      /\ e.type # "checkout" => SourceOf(e) \in Sources
  BY EventShape
<1>2. \A x \in Sources : reversed[x] \in Nat /\ reversed'[x] \in Nat
  BY DEF TypeOK
<1>3. CASE e.type = "checkout"
  BY <1>1, <1>3 DEF LedgerGrows, Applied
<1>4. CASE e.type # "checkout"
  BY <1>1, <1>2, <1>4 DEF LedgerGrows, Applied
<1>. QED BY <1>3, <1>4

LEMMA CommitStep ==
    ASSUME Inv, TypeOK', NEW h \in Handlers, pc[h] \in HoldsEvent, Commit(h),
           UNCHANGED <<stripe, acked, job>>, LedgerGrows,
           \A x \in Sources : x # SourceOf(job[h].event) => reversed'[x] = reversed[x],
           pc[h] \notin HoldsAdvertiser => reversed' = reversed,
           CreditsAreProcessed', ReversalsReconcile', Applied(job[h].event)'
    PROVE  Safe'
<1>. DEFINE e == job[h].event
<1>1. /\ TypeOK /\ Knows(h) /\ e \in emitted /\ e \in Events /\ e.paid
      /\ UNCHANGED <<topups, payment, taken, emitted>>
  BY JobOf DEF Inv, Knows, Working, HoldsEvent, stripe
<1>2. /\ processed' = processed \cup {e} /\ pc'[h] = "answer"
      /\ \A g \in Handlers \ {h} : pc'[g] = pc[g]
      /\ pc' = [pc EXCEPT ![h] = pc'[h]]
  BY <1>1 DEF Commit, Goto, TypeOK
<1>3. LocksExclusive'
  BY <1>2, LocksOf DEF HoldsEvent, HoldsAdvertiser
<1>4. ASSUME NEW g \in Handlers PROVE Knows(g)'
  <2>1. CASE g = h
    BY <1>1, <1>2, <2>1 DEF Knows, Working, HoldsEvent
  <2>2. CASE g # h
    <3>1. Knows(g) /\ pc'[g] = pc[g] /\ job' = job
      BY <1>2, <2>2 DEF Inv
    <3>2. pc[g] \in HoldsEvent => job[g].event # e
      BY <2>2 DEF Inv, LocksExclusive
    <3>3. pc[g] = "answer" => Applied(job[g].event)'
      BY <1>1, <3>1, JobOf, AppliedStays DEF Knows
    <3>4. pc[g] = "read" => reversed'[SourceOf(job[g].event)] = reversed[SourceOf(job[g].event)]
      <4>1. SUFFICES ASSUME pc[g] = "read", reversed' # reversed,
                            SourceOf(job[g].event) = SourceOf(e)
                     PROVE  FALSE
        <5>1. pc[g] = "read" => SourceOf(job[g].event) \in Sources
          BY <1>1, <3>1, JobOf, EventShape DEF Knows
        <5>. QED BY <5>1
      <4>2. pc[h] \in HoldsAdvertiser
        BY <4>1
      <4>3. job[g].payer = job[h].payer
        BY <1>1, <3>1, <4>1 DEF Knows, Working, HoldsEvent, SourceOf
      <4>. QED BY <2>2, <4>1, <4>2, <4>3 DEF Inv, LocksExclusive, HoldsAdvertiser
    <3>. QED BY <1>1, <1>2, <3>1, <3>2, <3>3, <3>4 DEF Knows, TopupAdvertiser
  <2>. QED BY <2>1, <2>2
<1>5. AcknowledgedIsApplied'
  BY <1>1, AppliedStays DEF Inv, AcknowledgedIsApplied, TypeOK
<1>6. ProcessedWasEmitted'
  BY <1>1, <1>2 DEF Inv, ProcessedWasEmitted
<1>7. EmittedIsTrue'
  BY <1>1 DEF Inv, EmittedIsTrue, SourceOf
<1>. QED BY <1>3, <1>4, <1>5, <1>6, <1>7 DEF Safe

\* What was processed for a source, after one more event.
LEMMA AmountsAfter ==
    ASSUME NEW h \in Handlers, Commit(h), NEW x
    PROVE  AmountsProcessed(x)' = IF SourceOf(job[h].event) = x
                                  THEN AmountsProcessed(x) \cup {job[h].event.amount}
                                  ELSE AmountsProcessed(x)
<1>1. processed' = processed \cup {job[h].event}
  BY DEF Commit
<1>. QED BY <1>1 DEF AmountsProcessed, SourceOf

LEMMA CommitSteps ==
    ASSUME Inv, TypeOK', NEW h \in Handlers,
           CommitUnattributable(h) \/ CommitCredit(h) \/ CommitReversal(h)
    PROVE  Safe'
<1>. DEFINE e == job[h].event
<1>. USE DEF HoldsEvent, HoldsAdvertiser, Working
<1>1. /\ TypeOK /\ Knows(h) /\ e \in emitted /\ e \in Events /\ e.paid
      /\ job[h].payer = TopupAdvertiser(e.payment) /\ e \notin processed
      /\ e.payment \in Payments /\ e.amount \in Nat \ {0}
      /\ \A x \in Sources : reversed[x] \in Nat
      /\ topups' = topups /\ processed' = processed \cup {e}
  <2>1. pc[h] \in HoldsEvent /\ Commit(h) /\ topups' = topups
    BY DEF CommitUnattributable, CommitCredit, CommitReversal, stripe
  <2>. QED BY <2>1, JobOf, EventShape DEF Inv, Knows, TypeOK, Commit
<1>2. job[h].payer # None => e.payment \in topups
  BY <1>1 DEF TopupAdvertiser
<1>3. \A x \in Sources : x[1] # "checkout"
  BY DEF Sources, RefTypes
<1>4. CASE CommitUnattributable(h)
  <2>1. e.payment \notin topups
    BY <1>1, <1>4, PaymentAssumption DEF CommitUnattributable, TopupAdvertiser
  <2>2. e.type # "checkout"
    BY <1>1, <2>1 DEF Inv, EmittedIsTrue
  <2>3. UNCHANGED <<credited, reversed>> /\ Commit(h) /\ pc[h] = "recorded"
        /\ UNCHANGED <<stripe, acked, job>>
    BY <1>4 DEF CommitUnattributable, ledger
  <2>4. CreditsAreProcessed'
    BY <1>1, <2>2, <2>3 DEF Inv, CreditsAreProcessed, CheckoutOf
  <2>5. ReversalsReconcile'
    <3>1. ASSUME NEW x \in Sources, x[2] \in topups PROVE AmountsProcessed(x)' = AmountsProcessed(x)
      BY <2>1, <2>3, <3>1, AmountsAfter DEF SourceOf
    <3>. QED BY <1>1, <2>3, <3>1 DEF Inv, ReversalsReconcile
  <2>6. Applied(e)'
    BY <1>1, <2>1, <2>3 DEF Applied
  <2>7. LedgerGrows
    BY <1>1, <2>3 DEF LedgerGrows
  <2>. QED BY <2>3, <2>4, <2>5, <2>6, <2>7, CommitStep
<1>5. CASE CommitCredit(h)
  <2>1. /\ e.type = "checkout" /\ e = CheckoutOf(e.payment) /\ e.amount = Amount[e.payment]
        /\ Commit(h) /\ pc[h] = "locked" /\ UNCHANGED <<stripe, acked, job>> /\ reversed' = reversed
    BY <1>1, <1>5, EventShape DEF CommitCredit
  <2>2. credited[e.payment] = 0
    BY <1>1, <2>1 DEF Inv, CreditsAreProcessed
  <2>3. credited'[e.payment] = Amount[e.payment]
        /\ \A p \in Payments \ {e.payment} : credited'[p] = credited[p]
    BY <1>1, <1>5, <2>1, <2>2 DEF CommitCredit, TypeOK
  <2>4. CreditsAreProcessed'
    <3>1. ASSUME NEW p \in Payments, p # e.payment
          PROVE  CheckoutOf(p) \in processed' <=> CheckoutOf(p) \in processed
      <4>1. CheckoutOf(p) # e
        BY <2>1, <3>1 DEF CheckoutOf
      <4>. QED BY <1>1, <4>1
    <3>2. CheckoutOf(e.payment) \in processed'
      BY <1>1, <2>1
    <3>3. ASSUME NEW p \in Payments
          PROVE  credited'[p] = IF CheckoutOf(p) \in processed' THEN Amount[p] ELSE 0
      <4>1. CASE p = e.payment
        BY <2>3, <3>2, <4>1
      <4>2. CASE p # e.payment
        BY <2>3, <3>1, <4>2 DEF Inv, CreditsAreProcessed
      <4>. QED BY <4>1, <4>2
    <3>. QED BY <3>3 DEF CreditsAreProcessed, CheckoutOf
  <2>5. ReversalsReconcile'
    <3>1. ASSUME NEW x \in Sources PROVE AmountsProcessed(x)' = AmountsProcessed(x)
      BY <1>3, <2>1, AmountsAfter DEF SourceOf
    <3>. QED BY <1>1, <2>1, <3>1 DEF Inv, ReversalsReconcile
  <2>6. Applied(e)'
    BY <2>1, <2>3 DEF Applied
  <2>7. LedgerGrows
    BY <1>1, <2>1, <2>2, <2>3 DEF LedgerGrows
  <2>. QED BY <2>1, <2>4, <2>5, <2>6, <2>7, CommitStep
<1>6. CASE CommitReversal(h)
  <2>. DEFINE s == SourceOf(e)
  <2>1. /\ e.type # "checkout" /\ job[h].already = reversed[s] /\ s \in Sources
        /\ s[2] = e.payment /\ e.payment \in topups
        /\ Commit(h) /\ pc[h] = "read" /\ UNCHANGED <<stripe, acked, job>> /\ credited' = credited
    BY <1>1, <1>2, <1>6, JobOf, EventShape DEF CommitReversal, Knows, TypeOK, SourceOf
  <2>2. /\ reversed'[s] = IF reversed[s] < e.amount THEN e.amount ELSE reversed[s]
        /\ \A x \in Sources \ {s} : reversed'[x] = reversed[x]
    <3>1. CASE e.amount - job[h].already <= 0
      BY <1>1, <1>6, <2>1, <3>1 DEF CommitReversal
    <3>2. CASE ~(e.amount - job[h].already <= 0)
      <4>1. reversed' = [reversed EXCEPT ![s] = @ + (e.amount - job[h].already)]
        BY <1>6, <3>2 DEF CommitReversal
      <4>. QED BY <1>1, <2>1, <3>2, <4>1 DEF TypeOK
    <3>. QED BY <3>1, <3>2
  <2>3. CreditsAreProcessed'
    <3>1. \A p \in Payments : CheckoutOf(p) # e
      BY <2>1 DEF CheckoutOf
    <3>2. \A p \in Payments : CheckoutOf(p) \in processed' <=> CheckoutOf(p) \in processed
      BY <1>1, <3>1
    <3>. QED BY <2>1, <3>2 DEF Inv, CreditsAreProcessed, CheckoutOf
  <2>4. ReversalsReconcile'
    <3>1. ASSUME NEW x \in Sources, x # s
          PROVE  AmountsProcessed(x)' = AmountsProcessed(x) /\ reversed'[x] = reversed[x]
      BY <2>1, <2>2, <3>1, AmountsAfter
    <3>2. AmountsProcessed(s)' = AmountsProcessed(s) \cup {e.amount}
      BY <2>1, AmountsAfter
    <3>3. /\ reversed[s] \in AmountsProcessed(s) /\ reversed[s] \in Nat
          /\ \A n \in AmountsProcessed(s) : n <= reversed[s] /\ n \in Nat
      <4>1. AmountsProcessed(s) \subseteq Nat
        BY <1>1, EventShape DEF AmountsProcessed, TypeOK
      <4>. QED BY <1>1, <2>1, <4>1 DEF Inv, ReversalsReconcile
    <3>4. /\ reversed'[s] \in AmountsProcessed(s)'
          /\ \A n \in AmountsProcessed(s)' : n <= reversed'[s]
      BY <1>1, <2>2, <3>2, <3>3
    <3>. QED BY <1>1, <2>1, <3>1, <3>4 DEF Inv, ReversalsReconcile
  <2>5. Applied(e)'
    <3>1. reversed'[s] >= e.amount
      BY <1>1, <2>1, <2>2
    <3>. QED BY <2>1, <3>1 DEF Applied, SourceOf
  <2>6. LedgerGrows
    BY <1>1, <2>1, <2>2 DEF LedgerGrows
  <2>. QED BY <2>1, <2>2, <2>3, <2>4, <2>5, <2>6, CommitStep
<1>. QED BY <1>4, <1>5, <1>6

(***************************************************************************)
(* Theorems.                                                               *)
(***************************************************************************)
LEMMA InvStep == Inv /\ [Next]_vars => Inv'
<1>. SUFFICES ASSUME Inv, [Next]_vars PROVE Inv'
  OBVIOUS
<1>1. ASSUME NEW p \in Payments, NEW paid \in BOOLEAN, Complete(p, paid) PROVE TypeOK' /\ Safe'
  BY <1>1, StripeTypeOK, StripeStep
<1>2. ASSUME NEW p \in Payments, AsyncPaymentSucceeds(p) PROVE TypeOK' /\ Safe'
  BY <1>2, StripeTypeOK, StripeStep
<1>3. ASSUME NEW t \in RefTypes, NEW p \in Payments, NEW amount \in 1..Amount[p],
             TakeBack(t, p, amount)
      PROVE  TypeOK' /\ Safe'
  BY <1>3, StripeTypeOK, StripeStep
<1>4. ASSUME NEW h \in Handlers, NEW e \in emitted, Deliver(h, e) PROVE TypeOK' /\ Safe'
  BY <1>4, HandlerTypeOK, QuietSteps
<1>5. ASSUME NEW h \in Handlers, Handle(h) PROVE TypeOK' /\ Safe'
  <2>1. TypeOK'
    BY <1>5, HandlerTypeOK
  <2>. QED BY <1>5, <2>1, QuietSteps, CommitSteps DEF Handle
<1>6. ASSUME NEW h \in Handlers, Fail(h) PROVE TypeOK' /\ Safe'
  BY <1>6, HandlerTypeOK, QuietSteps
<1>7. TypeOK' /\ Safe'
  <2>1. CASE Next
    BY <1>1, <1>2, <1>3, <1>4, <1>5, <1>6, <2>1 DEF Next
  <2>2. CASE UNCHANGED vars
    BY <2>2 DEF vars, stripe, ledger, Inv, TypeOK, Safe, LocksExclusive, EmittedIsTrue, Knows,
                TopupAdvertiser, Applied, CreditsAreProcessed, ProcessedWasEmitted,
                ReversalsReconcile, AmountsProcessed, AcknowledgedIsApplied
  <2>. QED BY <2>1, <2>2
<1>. QED BY <1>7 DEF Inv, Safe

LEMMA InvHolds == Spec => []Inv
  BY InitInv, InvStep, PTL DEF Spec

\* Every variable has its type, and a handler that holds a lock has an advertiser.
THEOREM WebhookTypeCorrect == Spec => []TypeOK
<1>1. Inv => TypeOK
  BY DEF Inv
<1>. QED BY <1>1, InvHolds, PTL

\* Cumulative refunds and disputes converge, in whatever order and however often their
\* events are delivered (clawback, route.ts:211-262).
THEOREM ReversalsConverge == Spec => []ReversalsReconcile
<1>1. Inv => ReversalsReconcile
  BY DEF Inv
<1>. QED BY <1>1, InvHolds, PTL

\* What Stripe was told 200 for is in the ledger.
THEOREM AcknowledgementsHold == Spec => []AcknowledgedIsApplied
<1>1. Inv => AcknowledgedIsApplied
  BY DEF Inv
<1>. QED BY <1>1, InvHolds, PTL

(***************************************************************************)
(* The refinement.                                                         *)
(***************************************************************************)
LEMMA InitRefines == Init => Account!Init
  BY DEF Init, Account!Init

LEMMA StepRefines == Inv /\ Inv' /\ [Next]_vars => [Account!Next]_(Account!vars)
<1>. SUFFICES ASSUME Inv, Inv', [Next]_vars PROVE [Account!Next]_(Account!vars)
  OBVIOUS
<1>. DEFINE went == {p \in Payments : payment[p] = "paid"}
<1>1. TypeOK
  BY DEF Inv
<1>2. ASSUME UNCHANGED <<topups, payment, taken, credited, reversed, balance>>
      PROVE  UNCHANGED Account!vars
  BY <1>2 DEF Account!vars
<1>3. ASSUME NEW p \in Payments,
             payment' = [payment EXCEPT ![p] = "paid"],
             UNCHANGED <<topups, taken, credited, reversed, balance>>
      PROVE  Account!Pay(p)
  BY <1>1, <1>3 DEF Account!Pay, TypeOK
<1>4. ASSUME NEW p \in Payments, NEW paid \in BOOLEAN, Complete(p, paid)
      PROVE  [Account!Next]_(Account!vars)
  <2>1. CASE paid
    BY <1>3, <1>4, <2>1 DEF Complete, ledger, Account!Next
  <2>2. CASE ~paid
    <3>1. went' = went
      BY <1>1, <1>4, <2>2 DEF Complete, TypeOK
    <3>. QED BY <1>4, <3>1 DEF Complete, ledger, Account!vars
  <2>. QED BY <2>1, <2>2
<1>5. ASSUME NEW p \in Payments, AsyncPaymentSucceeds(p) PROVE [Account!Next]_(Account!vars)
  BY <1>3, <1>5 DEF AsyncPaymentSucceeds, ledger, Account!Next
<1>6. ASSUME NEW t \in RefTypes, NEW p \in Payments, NEW amount \in 1..Amount[p],
             TakeBack(t, p, amount)
      PROVE  [Account!Next]_(Account!vars)
  <2>1. <<t, p>> \in Sources /\ <<t, p>>[2] = p
    BY DEF Sources
  <2>2. Account!Take(<<t, p>>, amount)
    BY <1>6 DEF TakeBack, ledger, Account!Take
  <2>. QED BY <2>1, <2>2 DEF Account!Next
<1>7. ASSUME NEW h \in Handlers, CommitCredit(h) PROVE [Account!Next]_(Account!vars)
  <2>. DEFINE e == job[h].event
  <2>1. /\ e.type = "checkout" /\ e = CheckoutOf(e.payment) /\ e.amount = Amount[e.payment]
        /\ e.payment \in Payments /\ e.amount \in Nat /\ e.amount # 0
        /\ e \notin processed /\ payment[e.payment] = "paid"
        /\ job[h].payer = TopupAdvertiser(e.payment) /\ job[h].payer # None
    BY <1>1, <1>7, JobOf, EventShape
       DEF CommitCredit, Inv, Knows, Working, HoldsEvent, HoldsAdvertiser, EmittedIsTrue,
           TypeOK
  <2>2. e.payment \in topups /\ job[h].payer = Payer[e.payment]
    BY <2>1 DEF TopupAdvertiser
  <2>3. credited[e.payment] = 0
    BY <2>1 DEF Inv, CreditsAreProcessed
  <2>4. credited' = [credited EXCEPT ![e.payment] = Amount[e.payment]]
    <3>1. credited' = [credited EXCEPT ![e.payment] = @ + e.amount]
      BY <1>7 DEF CommitCredit
    <3>2. credited[e.payment] + e.amount = Amount[e.payment]
      BY <2>1, <2>3
    <3>. QED BY <3>1, <3>2
  <2>5. Account!Credit(e.payment)
    BY <1>7, <2>1, <2>2, <2>3, <2>4 DEF CommitCredit, stripe, Account!Credit
  <2>. QED BY <2>2, <2>5 DEF Account!Next
<1>8. ASSUME NEW h \in Handlers, CommitReversal(h) PROVE [Account!Next]_(Account!vars)
  <2>. DEFINE e == job[h].event
              s == SourceOf(e)
  <2>1. /\ e.type # "checkout" /\ e.amount \in 1..Amount[e.payment] /\ e.payment \in Payments
        /\ s \in Sources /\ s[2] = e.payment /\ e.amount <= taken[s]
        /\ job[h].already = reversed[s] /\ reversed[s] \in Nat /\ Amount[e.payment] \in Nat
        /\ job[h].payer = TopupAdvertiser(e.payment) /\ job[h].payer # None
    <3>1. pc[h] = "read" /\ pc[h] \in HoldsAdvertiser /\ pc[h] \in Working /\ pc[h] # "idle"
      BY <1>8 DEF CommitReversal, HoldsAdvertiser, HoldsEvent, Working
    <3>2. /\ e.type # "checkout" /\ e \in emitted
          /\ job[h].already = reversed[s] /\ job[h].payer = TopupAdvertiser(e.payment)
      BY <1>1, <3>1 DEF Inv, Knows
    <3>3. e \in Events /\ job[h].payer # None
      BY <1>1, <3>1, JobOf DEF Inv, TypeOK
    <3>4. e.amount \in 1..Amount[e.payment] /\ e.payment \in Payments /\ s \in Sources
      BY <3>2, <3>3, EventShape
    <3>5. e.amount <= taken[s]
      BY <1>1, <3>2 DEF Inv, EmittedIsTrue
    <3>6. reversed[s] \in Nat /\ Amount[e.payment] \in Nat
      BY <1>1, <3>4, PaymentAssumption DEF Inv, TypeOK
    <3>7. s[2] = e.payment
      BY DEF SourceOf
    <3>. HIDE DEF e, s
    <3>. QED BY <3>2, <3>3, <3>4, <3>5, <3>6, <3>7
  <2>2. e.payment \in topups /\ job[h].payer = Payer[e.payment]
    BY <2>1 DEF TopupAdvertiser
  <2>3. CASE e.amount - job[h].already <= 0
    BY <1>2, <1>8, <2>3 DEF CommitReversal, stripe
  <2>4. CASE ~(e.amount - job[h].already <= 0)
    <3>1. reversed[s] < e.amount
      BY <2>1, <2>4
    <3>2. reversed' = [reversed EXCEPT ![s] = e.amount]
      <4>1. reversed' = [reversed EXCEPT ![s] = @ + (e.amount - job[h].already)]
        BY <1>8, <2>4 DEF CommitReversal
      <4>2. reversed[s] + (e.amount - job[h].already) = e.amount
        BY <2>1
      <4>. QED BY <4>1, <4>2
    <3>3. balance' = [balance EXCEPT ![Payer[s[2]]] = @ - (e.amount - reversed[s])]
      BY <1>8, <2>1, <2>2, <2>4 DEF CommitReversal
    <3>4. Account!Reverse(s, e.amount)
      BY <1>8, <2>1, <2>2, <3>1, <3>2, <3>3 DEF CommitReversal, stripe, Account!Reverse
    <3>. QED BY <2>1, <3>4 DEF Account!Next
  <2>. QED BY <2>3, <2>4
<1>9. ASSUME NEW h \in Handlers,
             \/ \E e \in emitted : Deliver(h, e)
             \/ Unpaid(h) \/ Resolve(h) \/ InsertEvent(h) \/ CommitUnattributable(h)
             \/ LockAdvertiser(h) \/ ReadReversed(h) \/ Answer(h) \/ Fail(h)
      PROVE  UNCHANGED Account!vars
  BY <1>2, <1>9 DEF Deliver, Unpaid, Resolve, InsertEvent, CommitUnattributable, LockAdvertiser,
                    ReadReversed, Answer, Fail, stripe, ledger
<1>10. CASE UNCHANGED vars
  BY <1>2, <1>10 DEF vars, stripe, ledger
<1>. QED BY <1>4, <1>5, <1>6, <1>7, <1>8, <1>9, <1>10 DEF Next, Handle

\* The handlers of the webhook, with everything that may happen to them, do to an
\* account what AccountMoney promises: each payment credited once and in full, what
\* Stripe took back debited once.
THEOREM RefinesAccount == Spec => ImplementsAccount
<1>1. ImplementsAccount <=> Account!Init /\ [][Account!Next]_(Account!vars)
  BY DEF ImplementsAccount, Account!Spec
<1>. QED BY <1>1, InitRefines, StepRefines, InvHolds, PTL DEF Spec

(***************************************************************************)
(* The ledger never runs ahead of Stripe.                                  *)
(***************************************************************************)

\* A payment has a credit only when it was paid and is a top-up, and the credit is all
\* of what was paid, once (creditTopup, route.ts:135-166); of a source no more is reversed
\* than Stripe took back, whatever was delivered twice or overtaken (clawback).
LedgerFollowsStripe ==
    /\ \A p \in Payments : credited[p] # 0 =>
          /\ credited[p] = Amount[p]
          /\ payment[p] = "paid" /\ p \in topups
    /\ \A s \in Sources : reversed[s] <= taken[s]

THEOREM LedgerNeverRunsAhead == Spec => []LedgerFollowsStripe
<1>1. Inv => LedgerFollowsStripe
  <2>. SUFFICES ASSUME Inv PROVE LedgerFollowsStripe
    OBVIOUS
  <2>1. ASSUME NEW p \in Payments, credited[p] # 0
        PROVE  credited[p] = Amount[p] /\ payment[p] = "paid" /\ p \in topups
    <3>1. CheckoutOf(p) \in processed /\ credited[p] = Amount[p]
      BY <2>1 DEF Inv, CreditsAreProcessed
    <3>2. CheckoutOf(p) \in emitted
      BY <3>1 DEF Inv, ProcessedWasEmitted
    <3>3. /\ CheckoutOf(p).type = "checkout" /\ CheckoutOf(p).payment = p
          /\ CheckoutOf(p).paid
      BY Zenon DEF CheckoutOf
    <3>. QED BY <3>1, <3>2, <3>3 DEF Inv, EmittedIsTrue
  <2>2. ASSUME NEW s \in Sources PROVE reversed[s] <= taken[s]
    <3>1. reversed[s] = 0 \/ reversed[s] \in AmountsProcessed(s)
      BY DEF Inv, ReversalsReconcile
    <3>2. taken[s] \in Nat
      BY DEF Inv, TypeOK
    <3>3. ASSUME NEW e \in processed, SourceOf(e) = s PROVE e.amount <= taken[s]
      <4>1. e \in emitted
        BY DEF Inv, ProcessedWasEmitted
      <4>2. e.type # "checkout"
        BY <3>3 DEF Sources, RefTypes, SourceOf
      <4>. QED BY <3>3, <4>1, <4>2 DEF Inv, EmittedIsTrue
    <3>4. CASE reversed[s] = 0
      BY <3>2, <3>4
    <3>5. CASE reversed[s] \in AmountsProcessed(s)
      BY <3>2, <3>3, <3>5 DEF AmountsProcessed
    <3>. QED BY <3>1, <3>4, <3>5
  <2>. QED BY <2>1, <2>2 DEF LedgerFollowsStripe
<1>. QED BY <1>1, InvHolds, PTL
===============================================================================
