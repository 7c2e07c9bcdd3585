-------------------------- MODULE ConnectStatusProofs --------------------------
(***************************************************************************)
(* Proofs about ConnectStatus, for any accounts, requests and bounds.      *)
(***************************************************************************)
EXTENDS ConnectStatus, TLAPS

(***************************************************************************)
(* The inductive invariant: the row's account and every account a request  *)
(* is about to insert exist at Stripe, a request past the lookup works on  *)
(* a row that is there, what was heard or reported lies in the past, and   *)
(* no event that reached the row is newer than the row's time.             *)
(***************************************************************************)
WorksOnRow == {"linked", "poll", "listed", "confirm"}

AccountsExist ==
    /\ account # None => active[account] # None
    /\ \A r \in Requests : pc[r] = "insert" =>
          /\ req[r].account # None
          /\ active[req[r].account] # None

RowIsThere ==
    \A r \in Requests :
        /\ pc[r] \in WorksOnRow => account # None
        /\ pc[r] = "linked" => req[r].account = account

InThePast ==
    /\ \A e \in events : e.created <= clock
    /\ \A r \in Requests : req[r].at <= clock

AppliedIsNotNewer ==
    \A e \in applied : updatedAt # None /\ e.created <= updatedAt

Inv ==
    /\ TypeOK /\ AccountsExist /\ RowIsThere /\ InThePast
    /\ AppliedIsNotNewer /\ FlagFollowsEvents

LEMMA InitInv == Init => Inv
<1>. SUFFICES ASSUME Init PROVE Inv
  OBVIOUS
<1>. USE ConnectAssumption DEF Init
<1>1. NoRequest \in Request /\ NoRequest.account = None /\ NoRequest.at = 0
  BY DEF NoRequest, Request
<1>2. /\ active \in [Accounts -> BOOLEAN \cup {None}] /\ payable \in [Accounts -> BOOLEAN]
      /\ req \in [Requests -> Request]
      /\ pc \in [Requests -> {"idle", "create", "insert", "linked", "poll", "listed",
                              "confirm"}]
  BY <1>1
<1>3. enabled \in BOOLEAN /\ (account = None => ~enabled)
  OBVIOUS
<1>4. TypeOK
  BY <1>2, <1>3 DEF TypeOK
<1>5. AccountsExist /\ RowIsThere /\ AppliedIsNotNewer /\ FlagFollowsEvents
  BY DEF AccountsExist, RowIsThere, WorksOnRow, AppliedIsNotNewer, FlagFollowsEvents
<1>6. InThePast
  BY <1>1 DEF InThePast
<1>. QED BY <1>4, <1>5, <1>6 DEF Inv

(***************************************************************************)
(* The facts a step starts from.                                           *)
(***************************************************************************)
LEMMA NoAccountIsNone == \A a \in Accounts : a # None
  BY ConnectAssumption

\* A request that ends leaves nothing behind that could be wrong.
LEMMA FinishStep ==
    ASSUME Inv, NEW r \in Requests, Finish(r), UNCHANGED <<clock, stripe>>,
           account' = account
    PROVE  /\ pc' \in [Requests -> {"idle", "create", "insert", "linked", "poll", "listed",
                                    "confirm"}]
           /\ req' \in [Requests -> Request]
           /\ AccountsExist' /\ RowIsThere' /\ InThePast'
<1>. USE DEF Inv, Finish, Goto, stripe
<1>1. /\ pc' \in [Requests -> {"idle", "create", "insert", "linked", "poll", "listed",
                               "confirm"}]
      /\ req' \in [Requests -> Request]
  BY ConnectAssumption DEF TypeOK, NoRequest, Request
<1>2. AccountsExist'
  BY DEF AccountsExist, TypeOK
<1>3. RowIsThere'
  BY DEF RowIsThere, TypeOK, WorksOnRow
<1>4. InThePast'
  BY DEF InThePast, TypeOK, NoRequest
<1>. QED BY <1>1, <1>2, <1>3, <1>4

\* Steps that leave the row, its marks and the events alone.
LEMMA RowStays ==
    ASSUME Inv, UNCHANGED <<row, processed, marks>>
    PROVE  AppliedIsNotNewer' /\ FlagFollowsEvents'
  BY DEF Inv, AppliedIsNotNewer, FlagFollowsEvents, row, marks

(***************************************************************************)
(* One lemma per group of actions.                                         *)
(***************************************************************************)
\* What both changes of an account at Stripe have in common.
LEMMA ReportStep ==
    ASSUME Inv, NEW a \in Accounts, NEW on \in BOOLEAN, Report(a, on),
           active' \in [Accounts -> BOOLEAN \cup {None}], payable' \in [Accounts -> BOOLEAN],
           \A b \in Accounts : active[b] # None => active'[b] # None
    PROVE  Inv'
<1>. USE ConnectAssumption DEF Inv, Report, row, marks
<1>1. clock \in Nat
  BY DEF TypeOK
<1>2. [account |-> a, created |-> clock, enabled |-> on] \in Event
  BY <1>1 DEF Event
<1>3. TypeOK'
  BY <1>2 DEF TypeOK
<1>4. AccountsExist'
  BY DEF AccountsExist, TypeOK, Request
<1>5. RowIsThere' /\ InThePast'
  BY <1>1 DEF RowIsThere, InThePast, TypeOK
<1>. QED BY <1>3, <1>4, <1>5, RowStays

LEMMA ChangeCapabilityStep ==
    ASSUME Inv, NEW a \in Accounts, ChangeCapability(a)
    PROVE  Inv'
<1>1. Report(a, payable[a]) /\ active' = [active EXCEPT ![a] = ~@] /\ payable' = payable
  BY DEF ChangeCapability
<1>2. /\ payable \in [Accounts -> BOOLEAN] /\ active \in [Accounts -> BOOLEAN \cup {None}]
      /\ active[a] \in BOOLEAN
  BY <1>1 DEF Inv, TypeOK, Report
<1>3. (~active[a]) \in BOOLEAN /\ (~active[a]) # None
  <2>1. (~active[a]) \in BOOLEAN
    OBVIOUS
  <2>. QED BY <2>1, ConnectAssumption
<1>4. /\ active' \in [Accounts -> BOOLEAN \cup {None}]
      /\ \A b \in Accounts : active[b] # None => active'[b] # None
  BY <1>1, <1>2, <1>3
<1>5. payable[a] \in BOOLEAN /\ payable' \in [Accounts -> BOOLEAN]
  BY <1>1, <1>2
<1>. QED BY <1>1, <1>4, <1>5, ReportStep

LEMMA ChangePayoutsStep ==
    ASSUME Inv, NEW a \in Accounts, ChangePayouts(a)
    PROVE  Inv'
<1>1. Report(a, ~payable[a]) /\ payable' = [payable EXCEPT ![a] = ~@] /\ active' = active
  BY DEF ChangePayouts
<1>2. payable \in [Accounts -> BOOLEAN] /\ active \in [Accounts -> BOOLEAN \cup {None}]
  BY DEF Inv, TypeOK
<1>3. (~payable[a]) \in BOOLEAN /\ payable' \in [Accounts -> BOOLEAN]
  BY <1>1, <1>2
<1>. QED BY <1>1, <1>2, <1>3, ReportStep

LEMMA OnboardStep ==
    ASSUME Inv, NEW r \in Requests, Onboard(r)
    PROVE  Inv'
<1>. USE ConnectAssumption DEF Inv, Onboard, Goto, row, marks, stripe
<1>1. TypeOK'
  BY DEF TypeOK, Request
<1>2. AccountsExist'
  BY DEF AccountsExist, TypeOK, Request
<1>3. RowIsThere'
  BY DEF RowIsThere, TypeOK, WorksOnRow, Request
<1>4. InThePast'
  BY DEF InThePast, TypeOK, Request
<1>. QED BY <1>1, <1>2, <1>3, <1>4, RowStays

LEMMA CreateAccountStep ==
    ASSUME Inv, NEW r \in Requests, CreateAccount(r)
    PROVE  Inv'
<1>. USE ConnectAssumption DEF Inv, CreateAccount, Goto, row, marks
<1>1. PICK a \in Accounts : /\ active[a] = None
                            /\ active' = [active EXCEPT ![a] = FALSE]
                            /\ req' = [req EXCEPT ![r].account = a]
  OBVIOUS
<1>2. active' \in [Accounts -> BOOLEAN \cup {None}] /\ req' \in [Requests -> Request]
  BY <1>1 DEF TypeOK, Request
<1>3. TypeOK'
  BY <1>2 DEF TypeOK
<1>4. active'[a] # None /\ \A b \in Accounts : active[b] # None => active'[b] # None
  <2>1. active'[a] = FALSE /\ \A b \in Accounts \ {a} : active'[b] = active[b]
    BY <1>1 DEF TypeOK
  <2>2. FALSE # None
    <3>1. FALSE \in BOOLEAN
      OBVIOUS
    <3>. QED BY <3>1
  <2>. QED BY <2>1, <2>2
<1>5. AccountsExist'
  <2>1. /\ req'[r].account = a /\ a # None
        /\ \A q \in Requests \ {r} : req'[q] = req[q] /\ pc'[q] = pc[q]
    BY <1>1 DEF TypeOK, Request
  <2>2. account # None => active'[account] # None
    BY <1>4 DEF AccountsExist, TypeOK
  <2>3. ASSUME NEW q \in Requests, pc'[q] = "insert"
        PROVE  req'[q].account # None /\ active'[req'[q].account] # None
    <3>1. CASE q = r
      BY <1>4, <2>1, <3>1
    <3>2. CASE q # r
      <4>1. req[q].account # None /\ active[req[q].account] # None
        BY <2>1, <2>3, <3>2 DEF AccountsExist
      <4>2. req[q].account \in Accounts
        BY <4>1 DEF TypeOK, Request
      <4>. QED BY <1>4, <2>1, <3>2, <4>1, <4>2
    <3>. QED BY <3>1, <3>2
  <2>4. account' = account
    OBVIOUS
  <2>. QED BY <2>2, <2>3, <2>4 DEF AccountsExist
<1>6. RowIsThere' /\ InThePast'
  BY <1>1 DEF RowIsThere, InThePast, TypeOK, WorksOnRow, Request
<1>. QED BY <1>3, <1>5, <1>6, RowStays

LEMMA InsertAccountStep ==
    ASSUME Inv, NEW r \in Requests, InsertAccount(r)
    PROVE  Inv'
<1>. USE ConnectAssumption DEF Inv, InsertAccount, Goto, marks, stripe
<1>1. account' \in Accounts /\ active[account'] # None /\ (account # None => account' = account)
  BY DEF AccountsExist, TypeOK, Request
<1>2. req' \in [Requests -> Request]
  BY <1>1 DEF TypeOK, Request
<1>3. TypeOK'
  BY <1>1, <1>2 DEF TypeOK
<1>4. AccountsExist'
  BY <1>1 DEF AccountsExist, TypeOK, Request
<1>5. RowIsThere'
  BY <1>1 DEF RowIsThere, TypeOK, WorksOnRow, Request
<1>6. InThePast'
  BY DEF InThePast, TypeOK, Request
<1>7. applied # {} => account' = account
  <2>1. applied # {} => account # None
    BY DEF AppliedIsNotNewer, TypeOK
  <2>. QED BY <1>1, <2>1
<1>8. AppliedIsNotNewer' /\ FlagFollowsEvents'
  BY <1>7 DEF AppliedIsNotNewer, FlagFollowsEvents
<1>. QED BY <1>3, <1>4, <1>5, <1>6, <1>8

\* A request that goes on with what Stripe, or nobody, told it.
LEMMA FetchStep ==
    ASSUME Inv, NEW r \in Requests, NEW label \in {"poll", "confirm"},
           Fetch(r, label), account # None
    PROVE  Inv'
<1>. USE ConnectAssumption DEF Inv, Fetch, Goto, row, marks, stripe
<1>1. active[account] \in BOOLEAN /\ clock \in Nat
  BY DEF TypeOK, AccountsExist
<1>2. [account |-> account, told |-> active[account], at |-> clock] \in Request
  BY <1>1 DEF TypeOK, Request
<1>3. TypeOK'
  BY <1>2 DEF TypeOK
<1>4. AccountsExist'
  BY DEF AccountsExist, TypeOK
<1>5. RowIsThere'
  BY DEF RowIsThere, TypeOK, WorksOnRow
<1>6. InThePast'
  BY <1>1 DEF InThePast, TypeOK
<1>. QED BY <1>3, <1>4, <1>5, <1>6, RowStays

LEMMA ListStep ==
    ASSUME Inv, NEW r \in Requests, List(r)
    PROVE  Inv'
<1>. USE DEF Inv, List, Goto, row, marks, stripe
<1>1. account # None
  BY DEF TypeOK
<1>2. TypeOK'
  BY DEF TypeOK
<1>3. AccountsExist' /\ InThePast'
  BY DEF AccountsExist, InThePast, TypeOK
<1>4. RowIsThere'
  BY <1>1 DEF RowIsThere, TypeOK, WorksOnRow
<1>. QED BY <1>2, <1>3, <1>4, RowStays

\* A request that ends, whether or not it wrote the flag.
LEMMA EndStep ==
    ASSUME Inv, NEW r \in Requests, WritePoll(r) \/ WriteConfirmed(r) \/ SendLink(r) \/ Fail(r)
    PROVE  Inv'
<1>. USE DEF Inv
<1>1. /\ Finish(r) /\ UNCHANGED <<clock, stripe, account, updatedAt, processed, applied>>
      /\ \/ UNCHANGED <<enabled, source, asOf>>
         \/ /\ account # None
            /\ enabled' \in BOOLEAN /\ source' \in {"poll", "run"} /\ asOf' = req[r].at
  <2>1. CASE WritePoll(r)
    BY <2>1 DEF WritePoll, WriteFlag, TypeOK, Request, RowIsThere, WorksOnRow
  <2>2. CASE WriteConfirmed(r)
    BY <2>2 DEF WriteConfirmed, WriteFlag, TypeOK, RowIsThere, WorksOnRow
  <2>3. CASE SendLink(r) \/ Fail(r)
    BY <2>3 DEF SendLink, Fail, row, marks
  <2>. QED BY <2>1, <2>2, <2>3
<1>2. /\ pc' \in [Requests -> {"idle", "create", "insert", "linked", "poll", "listed", "confirm"}]
      /\ req' \in [Requests -> Request]
      /\ AccountsExist' /\ RowIsThere' /\ InThePast'
  BY <1>1, FinishStep
<1>3. req[r].at \in 0..clock
  BY DEF TypeOK, Request, InThePast
<1>4. enabled' \in BOOLEAN /\ source' \in {"none", "poll", "run", "event"} /\ asOf' \in 0..clock
  BY <1>1, <1>3 DEF TypeOK
<1>5. account' = None => ~enabled'
  BY <1>1 DEF TypeOK
<1>6. TypeOK'
  BY <1>1, <1>2, <1>4, <1>5 DEF TypeOK, stripe
<1>7. AppliedIsNotNewer' /\ FlagFollowsEvents'
  BY <1>1 DEF AppliedIsNotNewer, FlagFollowsEvents
<1>. QED BY <1>2, <1>6, <1>7

LEMMA HandleEventStep ==
    ASSUME Inv, NEW e \in events, HandleEvent(e)
    PROVE  Inv'
<1>. USE ConnectAssumption DEF Inv, HandleEvent, stripe
<1>1. /\ e \in Event /\ e.account \in Accounts /\ e.created \in Nat /\ e.enabled \in BOOLEAN
      /\ e = [account |-> e.account, created |-> e.created, enabled |-> e.enabled]
      /\ e.created \in 0..clock
  BY DEF TypeOK, Event, InThePast
<1>2. AccountsExist' /\ RowIsThere' /\ InThePast'
  BY DEF AccountsExist, RowIsThere, InThePast
<1>3. CASE Newer(e)
  <2>1. /\ account = e.account /\ account # None /\ applied' = applied \cup {e}
        /\ enabled' = e.enabled /\ source' = "event" /\ asOf' = e.created
        /\ updatedAt' = e.created
    BY <1>1, <1>3 DEF Newer, WriteFlag
  <2>2. TypeOK'
    BY <1>1, <2>1 DEF TypeOK
  <2>3. AppliedIsNotNewer'
    <3>1. \A f \in applied : f.created <= e.created
      <4>1. SUFFICES ASSUME NEW f \in applied PROVE f.created <= e.created
        OBVIOUS
      <4>2. f.created \in Nat /\ updatedAt # None /\ f.created <= updatedAt
        BY DEF TypeOK, Event, AppliedIsNotNewer
      <4>3. updatedAt \in Nat /\ updatedAt < e.created
        BY <1>3, <4>2 DEF Newer, TypeOK
      <4>. QED BY <1>1, <4>2, <4>3
    <3>2. e.created # None
      BY <2>2, <1>1, <2>1
    <3>. QED BY <1>1, <2>1, <3>1, <3>2 DEF AppliedIsNotNewer
  <2>4. FlagFollowsEvents'
    BY <1>1, <2>1, <2>3 DEF FlagFollowsEvents, AppliedIsNotNewer
  <2>. QED BY <1>2, <2>2, <2>3, <2>4
<1>4. CASE ~Newer(e)
  <2>1. UNCHANGED <<enabled, updatedAt, source, asOf>>
    BY <1>4
  <2>2. TypeOK'
    BY <2>1 DEF TypeOK
  <2>3. AppliedIsNotNewer'
    <3>1. e.account = account => updatedAt # None /\ e.created <= updatedAt
      BY <1>1, <1>4 DEF Newer, TypeOK
    <3>. QED BY <2>1, <3>1 DEF AppliedIsNotNewer
  <2>4. FlagFollowsEvents'
    BY <2>1, <2>3 DEF FlagFollowsEvents, AppliedIsNotNewer
  <2>. QED BY <1>2, <2>2, <2>3, <2>4
<1>. QED BY <1>3, <1>4

LEMMA WaitStep ==
    ASSUME Inv, Wait
    PROVE  Inv'
<1>. USE ConnectAssumption DEF Inv, Wait, stripe, row, marks
<1>1. TypeOK'
  BY DEF TypeOK
<1>2. AccountsExist' /\ RowIsThere'
  BY DEF AccountsExist, RowIsThere
<1>3. InThePast'
  BY DEF InThePast, TypeOK, Event, Request
<1>. QED BY <1>1, <1>2, <1>3, RowStays

LEMMA InvStep == Inv /\ [Next]_vars => Inv'
<1>. SUFFICES ASSUME Inv, [Next]_vars PROVE Inv'
  OBVIOUS
<1>1. ASSUME NEW a \in Accounts, ChangeCapability(a) PROVE Inv'
  BY <1>1, ChangeCapabilityStep
<1>12. ASSUME NEW a \in Accounts, ChangePayouts(a) PROVE Inv'
  BY <1>12, ChangePayoutsStep
<1>2. ASSUME NEW r \in Requests, Onboard(r) PROVE Inv'
  BY <1>2, OnboardStep
<1>3. ASSUME NEW r \in Requests, Poll(r) PROVE Inv'
  BY <1>3, FetchStep DEF Poll
<1>4. ASSUME NEW r \in Requests, List(r) PROVE Inv'
  BY <1>4, ListStep
<1>5. ASSUME NEW r \in Requests, CreateAccount(r) PROVE Inv'
  BY <1>5, CreateAccountStep
<1>6. ASSUME NEW r \in Requests, InsertAccount(r) PROVE Inv'
  BY <1>6, InsertAccountStep
<1>7. ASSUME NEW r \in Requests, Confirm(r) PROVE Inv'
  <2>1. account # None
    BY <1>7 DEF Confirm, Inv, RowIsThere, WorksOnRow
  <2>. QED BY <1>7, <2>1, FetchStep DEF Confirm
<1>8. ASSUME NEW r \in Requests,
             WritePoll(r) \/ WriteConfirmed(r) \/ SendLink(r) \/ Fail(r)
      PROVE  Inv'
  BY <1>8, EndStep
<1>9. ASSUME NEW e \in events, HandleEvent(e) PROVE Inv'
  BY <1>9, HandleEventStep
<1>10. CASE Wait
  BY <1>10, WaitStep
<1>11. CASE UNCHANGED vars
  BY <1>11 DEF Inv, TypeOK, AccountsExist, RowIsThere, InThePast, AppliedIsNotNewer,
               FlagFollowsEvents, vars, stripe, row, marks
<1>. QED BY <1>1, <1>2, <1>3, <1>4, <1>5, <1>6, <1>7, <1>8, <1>9, <1>10, <1>11, <1>12
            DEF Next, Answer, HandleDuplicate

LEMMA InvHolds == Spec => []Inv
  BY InitInv, InvStep, PTL DEF Spec

(***************************************************************************)
(* The theorems.                                                           *)
(***************************************************************************)

\* Every variable has its type; the flag and its time are set only with an account.
THEOREM ConnectTypeCorrect == Spec => []TypeOK
<1>1. Inv => TypeOK
  BY DEF Inv
<1>. QED BY <1>1, InvHolds, PTL

\* However many onboardings race, every link that is sent is to the account of the
\* row, and that account exists (api/connect/route.ts, the unique index).
THEOREM OnboardingIsRaceSafe == Spec => []OneAccount
<1>1. Inv => OneAccount
  BY DEF Inv, OneAccount, RowIsThere, AccountsExist
<1>. QED BY <1>1, InvHolds, PTL

\* A flag that an event wrote last says what the newest event of the row said, in
\* whatever order and however often events came (the webhook's account.updated).
THEOREM NewestEventCounts == Spec => []FlagFollowsEvents
<1>1. Inv => FlagFollowsEvents
  BY DEF Inv
<1>. QED BY <1>1, InvHolds, PTL
===============================================================================
