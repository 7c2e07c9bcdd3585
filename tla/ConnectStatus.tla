---------------------------- MODULE ConnectStatus ----------------------------
(***************************************************************************)
(* The payout account of one publisher: the row that names its Stripe      *)
(* account and caches whether money can be sent there.  The onboarding     *)
(* route creates it; the dashboard's poll, the payout run and the webhook  *)
(* write the flag, each with what Stripe said at a time of its own.        *)
(***************************************************************************)
EXTENDS Integers, FiniteSets

CONSTANTS
    Accounts,       \* accounts Stripe may create
    Requests,       \* requests handled at once
    None,
    MaxChanges,     \* bound: changes of an account at Stripe
    MaxClock        \* bound: the clock, in seconds, as in event.created

ASSUME ConnectAssumption ==
    /\ None \notin Accounts /\ None \notin Nat /\ None \notin BOOLEAN
    /\ MaxChanges \in Nat /\ MaxClock \in Nat

VARIABLES
    clock,
    active,     \* active[a]: None before a exists, then whether money can be sent to it
    payable,    \* payable[a]: the older payouts_enabled of a, which events report
    changes,    \* how often an account changed
    events,     \* account.updated events Stripe may deliver
    account,    \* payout_accounts.stripeAccountId, None while there is no row
    enabled,    \* payoutsEnabled
    updatedAt,  \* payoutsEnabledUpdatedAt, None while it is null
    processed,  \* processed_webhook_events
    applied,    \* the processed events that found the row
    source,     \* who wrote the flag last
    asOf,       \* when what the flag says was true at Stripe
    pc, req     \* where each request is; its account, what it was told and when

stripe == <<active, payable, changes, events>>
row    == <<account, enabled, updatedAt>>
marks  == <<applied, source, asOf>>
vars   == <<clock, stripe, row, processed, marks, pc, req>>

Event   == [account: Accounts, created: Nat, enabled: BOOLEAN]
Request == [account: Accounts \cup {None}, told: BOOLEAN, at: Nat]
NoRequest == [account |-> None, told |-> FALSE, at |-> 0]

Goto(r, label) == pc' = [pc EXCEPT ![r] = label]
Finish(r) == Goto(r, "idle") /\ req' = [req EXCEPT ![r] = NoRequest]

(***************************************************************************)
(* Stripe.                                                                 *)
(***************************************************************************)

\* An account.updated event reports payouts_enabled, to the second, whatever it was
\* that changed.
Report(a, enabledNow) ==
    /\ active[a] # None
    /\ changes < MaxChanges
    /\ changes' = changes + 1
    /\ events' = events \cup {[account |-> a, created |-> clock, enabled |-> enabledNow]}
    /\ UNCHANGED <<clock, row, processed, marks, pc, req>>

\* KYC passes, or the transfers capability is taken away.
ChangeCapability(a) ==
    /\ Report(a, payable[a])
    /\ active' = [active EXCEPT ![a] = ~@]
    /\ UNCHANGED payable

ChangePayouts(a) ==
    /\ Report(a, ~payable[a])
    /\ payable' = [payable EXCEPT ![a] = ~@]
    /\ UNCHANGED active

(***************************************************************************)
(* POST /api/connect: onboarding.                                          *)
(***************************************************************************)
Onboard(r) ==
    /\ pc[r] = "idle"
    /\ IF account = None
       THEN Goto(r, "create") /\ UNCHANGED req
       ELSE /\ Goto(r, "linked")
            /\ req' = [req EXCEPT ![r].account = account]
    /\ UNCHANGED <<clock, stripe, row, processed, marks>>

CreateAccount(r) ==
    /\ pc[r] = "create"
    /\ \E a \in Accounts :
          /\ active[a] = None
          /\ active' = [active EXCEPT ![a] = FALSE]
          /\ req' = [req EXCEPT ![r].account = a]
    /\ Goto(r, "insert")
    /\ UNCHANGED <<clock, payable, changes, events, row, processed, marks>>

\* Mutant: the loser of the race keeps the account it created.
InsertOrKeep(r) ==
    /\ pc[r] = "insert"
    /\ account' = IF account = None THEN req[r].account ELSE account
    /\ Goto(r, "linked")
    /\ UNCHANGED <<clock, stripe, enabled, updatedAt, processed, marks, req>>

\* The unique index lets one row in; who comes second takes the account of that row.
InsertAccount(r) ==
    /\ pc[r] = "insert"
    /\ account' = IF account = None THEN req[r].account ELSE account
    /\ req' = [req EXCEPT ![r].account = account']
    /\ Goto(r, "linked")
    /\ UNCHANGED <<clock, stripe, enabled, updatedAt, processed, marks>>

SendLink(r) ==
    /\ pc[r] = "linked"
    /\ Finish(r)
    /\ UNCHANGED <<clock, stripe, row, processed, marks>>

(***************************************************************************)
(* GET /api/connect, the dashboard's poll, and the same question asked by  *)
(* the payout run, which only ever clears the flag.                        *)
(***************************************************************************)
Fetch(r, label) ==
    /\ Goto(r, label)
    /\ req' = [req EXCEPT ![r] = [account |-> account, told |-> active[account], at |-> clock]]
    /\ UNCHANGED <<clock, stripe, row, processed, marks>>

Poll(r) ==
    /\ pc[r] = "idle"
    /\ account # None
    /\ Fetch(r, "poll")

\* The run lists the enabled accounts first, and comes to this one later.
List(r) ==
    /\ pc[r] = "idle"
    /\ enabled
    /\ Goto(r, "listed")
    /\ UNCHANGED <<clock, stripe, row, processed, marks, req>>

Confirm(r) ==
    /\ pc[r] = "listed"
    /\ Fetch(r, "confirm")

WriteFlag(value, writer, time) ==
    /\ enabled' = value
    /\ source' = writer
    /\ asOf' = time

\* The poll writes what it was told, and no time.
WritePoll(r) ==
    /\ pc[r] = "poll"
    /\ WriteFlag(req[r].told, "poll", req[r].at)
    /\ Finish(r)
    /\ UNCHANGED <<clock, stripe, account, updatedAt, processed, applied>>

\* Mutant: the run skips the account and leaves its flag.
SkipOnly(r) ==
    /\ pc[r] = "confirm"
    /\ Finish(r)
    /\ UNCHANGED <<clock, stripe, row, processed, marks>>

WriteConfirmed(r) ==
    /\ pc[r] = "confirm"
    /\ IF req[r].told THEN UNCHANGED <<enabled, source, asOf>>
       ELSE WriteFlag(FALSE, "run", req[r].at)
    /\ Finish(r)
    /\ UNCHANGED <<clock, stripe, account, updatedAt, processed, applied>>

\* Stripe does not answer, or the request dies.
Fail(r) ==
    /\ pc[r] # "idle"
    /\ Finish(r)
    /\ UNCHANGED <<clock, stripe, row, processed, marks>>

(***************************************************************************)
(* The webhook, one transaction: an event is recorded once, and applied if *)
(* the row is there and no newer event was.                                *)
(***************************************************************************)
\* Mutant: an event applies whatever came before it.
AnyEvent(e) == e.account = account

\* Mutant: the row is not looked up by its account.
NewerOfAnyAccount(e) == updatedAt = None \/ updatedAt < e.created

Newer(e) == e.account = account /\ (updatedAt = None \/ updatedAt < e.created)

HandleEvent(e) ==
    /\ e \in events \ processed
    /\ processed' = processed \cup {e}
    /\ applied' = IF e.account = account THEN applied \cup {e} ELSE applied
    /\ IF Newer(e)
       THEN /\ WriteFlag(e.enabled, "event", e.created)
            /\ updatedAt' = e.created
       ELSE UNCHANGED <<enabled, updatedAt, source, asOf>>
    /\ UNCHANGED <<clock, stripe, account, pc, req>>

\* A repeated event id changes nothing.
HandleDuplicate(e) ==
    /\ e \in processed
    /\ UNCHANGED vars

Wait ==
    /\ clock < MaxClock
    /\ clock' = clock + 1
    /\ UNCHANGED <<stripe, row, processed, marks, pc, req>>

(***************************************************************************)
(* The specification.                                                      *)
(***************************************************************************)
Init ==
    /\ clock = 0
    /\ active = [a \in Accounts |-> None]
    /\ payable = [a \in Accounts |-> FALSE]
    /\ changes = 0
    /\ events = {}
    /\ account = None /\ enabled = FALSE /\ updatedAt = None
    /\ processed = {} /\ applied = {}
    /\ source = "none" /\ asOf = 0
    /\ pc = [r \in Requests |-> "idle"]
    /\ req = [r \in Requests |-> NoRequest]

Answer(r) ==
    \/ CreateAccount(r) \/ InsertAccount(r) \/ SendLink(r)
    \/ WritePoll(r) \/ Confirm(r) \/ WriteConfirmed(r)

Next ==
    \/ \E a \in Accounts : ChangeCapability(a) \/ ChangePayouts(a)
    \/ \E r \in Requests : Onboard(r) \/ Poll(r) \/ List(r) \/ Answer(r) \/ Fail(r)
    \/ \E e \in events : HandleEvent(e) \/ HandleDuplicate(e)
    \/ Wait

Spec == Init /\ [][Next]_vars

\* The payout job runs again and again, and not every one of its calls fails; a request
\* ends.  Nothing is assumed of the dashboard or of deliveries.
FairSpec ==
    /\ Spec
    /\ \A r \in Requests :
          /\ SF_vars(List(r)) /\ SF_vars(Confirm(r)) /\ SF_vars(WriteConfirmed(r))
          /\ WF_vars(Answer(r) \/ Fail(r))

(***************************************************************************)
(* Properties.                                                             *)
(***************************************************************************)

\* Every variable has its type; there is a flag only with an account.
TypeOK ==
    /\ clock \in 0..MaxClock
    /\ active \in [Accounts -> BOOLEAN \cup {None}]
    /\ payable \in [Accounts -> BOOLEAN]
    /\ changes \in 0..MaxChanges
    /\ events \subseteq Event /\ processed \subseteq events /\ applied \subseteq processed
    /\ account \in Accounts \cup {None}
    /\ enabled \in BOOLEAN
    /\ updatedAt \in Nat \cup {None}
    /\ source \in {"none", "poll", "run", "event"}
    /\ asOf \in 0..clock
    /\ pc \in [Requests -> {"idle", "create", "insert", "linked", "poll", "listed", "confirm"}]
    /\ req \in [Requests -> Request]
    /\ account = None => ~enabled /\ updatedAt = None

\* However many onboardings race, a publisher is sent to one account, that of the
\* row, and the row never changes it (api/connect, "Race-safe").
OneAccount ==
    /\ \A r \in Requests : pc[r] = "linked" => req[r].account = account
    /\ account # None => active[account] # None

\* While events alone write the flag, it says what the newest of those that reached
\* the row said, in whatever order they came and however often (the webhook's "newer
\* than the last one applied").  Of two events of the same second, the first counts.
FlagFollowsEvents ==
    source = "event" =>
        /\ updatedAt = asOf
        /\ \A e \in applied : e.created <= updatedAt
        /\ [account |-> account, created |-> updatedAt, enabled |-> enabled] \in applied

\* Once money cannot be sent to the account any more, the flag says so and goes on to,
\* although events that report something else, and polls that asked before, may still set
\* it: the payout job asks itself and clears it (payouts/run/route.ts:51-62).
RevocationIsSeen ==
    \A a \in Accounts : (<>[](account = a /\ active[a] = FALSE)) => <>[](~enabled)
===============================================================================
