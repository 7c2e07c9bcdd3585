------------------------------ MODULE Campaigns ------------------------------
(***************************************************************************)
(* How a campaign comes to be: the bid form creates an advertiser account, *)
(* an ad and a bid in one transaction, the checkout takes the money for    *)
(* them and a moderator lets the ad in.  A form stands for one submission  *)
(* of the bid page and names what it creates: the account, the Stripe      *)
(* customer, the ad with its campaign and bid, the checkout session.  A    *)
(* user stands for an e-mail as well, and for the account row that e-mail  *)
(* may have had before there was a sign-in.                                *)
(***************************************************************************)
EXTENDS Economics

CONSTANTS
    Users,
    Forms,          \* submissions of the bid page
    UserOf,         \* UserOf[f]: who is signed in
    MaxCpm,         \* MaxCpm[f]: maxCpmMillicents of the bid
    Budget,         \* Budget[f]: budgetMillicents of the bid, and the top-up
    Moderators,     \* open moderation pages
    None

ASSUME CampaignAssumption ==
    /\ UserOf \in [Forms -> Users]
    /\ MaxCpm \in [Forms -> Nat] /\ Budget \in [Forms -> Nat]
    /\ \A f \in Forms : MinBidCpm <= MaxCpm[f]
    /\ Forms \cap Users = {}
    /\ None \notin Forms \cup Users

VARIABLES
    account,    \* advertisers: the committed rows
    ad,         \* ads and bids: the committed rows
    balance,    \* the advertiser_balance ledger, by account
    paid,       \* paid[u]: what u has paid at Stripe
    pc,         \* where each form is
    chosen,     \* the advertiserId its transaction, then its page, works with
    customer,   \* the customerId its checkout works with
    queue       \* what each moderation page shows

forms == <<pc, chosen, customer>>
money == <<balance, paid>>
campaignVars == <<account, ad, money, forms, queue>>

Rows    == Forms \cup Users
Account == [email: Users, user: Users \cup {None}, customer: Forms \cup {None}]
Ad      == [account: Rows, moderation: {"pending", "approved", "rejected"},
            status: {"active", "depleted"}]

ASSUME RecordAssumption == None \notin Account \cup Ad

Goto(f, label) == pc' = [pc EXCEPT ![f] = label]

RowsOf(u)      == {r \in Rows : account[r] # None /\ account[r].user = u}
RowsByEmail(u) == {r \in Rows : account[r] # None /\ account[r].email = u}
NewAccount(u)  == [email |-> u, user |-> u, customer |-> None]

(***************************************************************************)
(* POST /api/bids, one transaction at READ COMMITTED: each statement sees  *)
(* the rows committed when it starts, and what a transaction wrote is seen *)
(* by others when it commits.  Until then an insert makes another insert   *)
(* of its e-mail wait, and an update another update of its row.            *)
(***************************************************************************)

\* The select by session user.
FindAccount(f) ==
    /\ pc[f] = "new"
    /\ IF RowsOf(UserOf[f]) = {}
       THEN Goto(f, "insert") /\ UNCHANGED chosen
       ELSE /\ Goto(f, "found")
            /\ \E r \in RowsOf(UserOf[f]) : chosen' = [chosen EXCEPT ![f] = r]
    /\ UNCHANGED <<account, ad, money, customer, queue>>

\* Mutant: no unique index on the e-mail.
InsertAnyway(f) ==
    /\ pc[f] = "insert"
    /\ Goto(f, "inserted")
    /\ chosen' = [chosen EXCEPT ![f] = f]
    /\ UNCHANGED <<account, ad, money, customer, queue>>

\* The insert: it waits for another one of its e-mail, and gives way to a row that
\* is there already.
InsertAccount(f) ==
    /\ pc[f] = "insert"
    /\ \A g \in Forms : pc[g] = "inserted" => UserOf[g] # UserOf[f]
    /\ IF RowsByEmail(UserOf[f]) = {}
       THEN /\ Goto(f, "inserted")
            /\ chosen' = [chosen EXCEPT ![f] = f]
       ELSE Goto(f, "claim") /\ UNCHANGED chosen
    /\ UNCHANGED <<account, ad, money, customer, queue>>

\* Mutant: the row of the e-mail is used as it is, and never stamped.
UseRowOfEmail(f) ==
    /\ pc[f] = "claim"
    /\ Goto(f, "found")
    /\ \E r \in RowsByEmail(UserOf[f]) : chosen' = [chosen EXCEPT ![f] = r]
    /\ UNCHANGED <<account, ad, money, customer, queue>>

\* Mutant: the row is stamped, and not read back.
ClaimWithoutId(f) ==
    /\ pc[f] = "claim"
    /\ \A g \in Forms : pc[g] = "claimed" => UserOf[g] # UserOf[f]
    /\ Goto(f, "claimed")
    /\ UNCHANGED <<account, ad, money, chosen, customer, queue>>

\* The update by e-mail, and the select by user that follows it.
ClaimAccount(f) ==
    /\ pc[f] = "claim"
    /\ \A g \in Forms : pc[g] = "claimed" => UserOf[g] # UserOf[f]
    /\ Goto(f, "claimed")
    /\ \E r \in RowsByEmail(UserOf[f]) \cup RowsOf(UserOf[f]) :
          chosen' = [chosen EXCEPT ![f] = r]
    /\ UNCHANGED <<account, ad, money, customer, queue>>

\* What the transaction did to the accounts.
Accounts(f) ==
    LET u == UserOf[f] IN
    CASE pc[f] = "found"    -> account
      [] pc[f] = "inserted" -> [account EXCEPT ![f] = NewAccount(u)]
      [] pc[f] = "claimed"  -> [r \in Rows |-> IF r \in RowsByEmail(u)
                                               THEN [account[r] EXCEPT !.user = u]
                                               ELSE account[r]]

\* The campaign, the ad and the bid are inserted, and all of it is committed.
CommitBid(f) ==
    /\ pc[f] \in {"found", "inserted", "claimed"}
    /\ account' = Accounts(f)
    /\ ad' = [ad EXCEPT ![f] = [account |-> chosen[f], moderation |-> "pending",
                                status |-> "active"]]
    /\ Goto(f, "checkout")
    /\ UNCHANGED <<money, chosen, customer, queue>>

(***************************************************************************)
(* POST /api/checkout, and the payment.                                    *)
(***************************************************************************)

\* The row is read, its owner checked, and its Stripe customer taken if it has one.
OpenCheckout(f) ==
    LET row == account[chosen[f]] IN
    /\ pc[f] = "checkout"
    /\ row # None /\ row.user = UserOf[f]
    /\ customer' = [customer EXCEPT ![f] = row.customer]
    /\ Goto(f, IF row.customer = None THEN "customer" ELSE "session")
    /\ UNCHANGED <<account, ad, money, chosen, queue>>

\* Two checkouts may each create a customer; the row keeps the last.
CreateCustomer(f) ==
    /\ pc[f] = "customer"
    /\ customer' = [customer EXCEPT ![f] = f]
    /\ Goto(f, "save")
    /\ UNCHANGED <<account, ad, money, chosen, queue>>

SaveCustomer(f) ==
    /\ pc[f] = "save"
    /\ \A g \in Forms : pc[g] = "claimed" => chosen[g] # chosen[f]
    /\ account' = [account EXCEPT ![chosen[f]].customer = customer[f]]
    /\ Goto(f, "session")
    /\ UNCHANGED <<ad, money, chosen, customer, queue>>

\* The session carries the advertiser's id as metadata, and the browser goes there.
CreateSession(f) ==
    /\ pc[f] = "session"
    /\ Goto(f, "paying")
    /\ UNCHANGED <<account, ad, money, chosen, customer, queue>>

\* The user pays, and the webhook credits the advertiser the session names.
Pay(f) ==
    /\ pc[f] = "paying"
    /\ paid' = [paid EXCEPT ![UserOf[f]] = @ + Budget[f]]
    /\ balance' = [balance EXCEPT ![chosen[f]] = @ + Budget[f]]
    /\ Goto(f, "paid")
    /\ UNCHANGED <<account, ad, chosen, customer, queue>>

\* The payment is refunded: the balance may become negative.
Refund(f) ==
    /\ pc[f] = "paid"
    /\ balance' = [balance EXCEPT ![chosen[f]] = @ - Budget[f]]
    /\ Goto(f, "refunded")
    /\ UNCHANGED <<account, ad, paid, chosen, customer, queue>>

\* A statement or a call fails, an answer is lost, the user cancels: the open
\* transaction is rolled back, and what is committed stays.
Fail(f) ==
    /\ pc[f] \notin {"paid", "refunded", "failed"}
    /\ Goto(f, "failed")
    /\ UNCHANGED <<account, ad, money, chosen, customer, queue>>

(***************************************************************************)
(* Moderation.  A page shows the ads that were pending when it loaded, and *)
(* the route takes a decision about any ad.                                *)
(***************************************************************************)
Pending == {f \in Forms : ad[f] # None /\ ad[f].moderation = "pending"}

LoadQueue(m) ==
    /\ queue' = [queue EXCEPT ![m] = Pending]
    /\ UNCHANGED <<account, ad, money, forms>>

Decide(m, f, decision) ==
    /\ f \in queue[m]
    /\ ad' = [ad EXCEPT ![f].moderation = decision]
    /\ queue' = [queue EXCEPT ![m] = @ \ {f}]
    /\ UNCHANGED <<account, money, forms>>

(***************************************************************************)
(* The specification of this half.  An e-mail may already have a row that  *)
(* no user owns.                                                           *)
(***************************************************************************)
CampaignInit ==
    /\ \E old \in SUBSET Users :
          account = [r \in Rows |-> IF r \in old
                                    THEN [email |-> r, user |-> None, customer |-> None]
                                    ELSE None]
    /\ ad = [f \in Forms |-> None]
    /\ balance = [r \in Rows |-> 0]
    /\ paid = [u \in Users |-> 0]
    /\ pc = [f \in Forms |-> "new"]
    /\ chosen = [f \in Forms |-> None]
    /\ customer = [f \in Forms |-> None]
    /\ queue = [m \in Moderators |-> {}]

Bid(f) ==
    FindAccount(f) \/ InsertAccount(f) \/ ClaimAccount(f) \/ CommitBid(f)

Checkout(f) ==
    OpenCheckout(f) \/ CreateCustomer(f) \/ SaveCustomer(f) \/ CreateSession(f)

CampaignNext ==
    \/ \E f \in Forms : Bid(f) \/ Checkout(f) \/ Pay(f) \/ Refund(f) \/ Fail(f)
    \/ \E m \in Moderators : LoadQueue(m)
    \/ \E m \in Moderators, f \in Forms, decision \in {"approved", "rejected"} :
          Decide(m, f, decision)

(***************************************************************************)
(* Properties.                                                             *)
(***************************************************************************)
Labels == {"new", "insert", "claim", "found", "inserted", "claimed", "checkout",
           "customer", "save", "session", "paying", "paid", "refunded", "failed"}

CampaignTypeOK ==
    /\ account \in [Rows -> Account \cup {None}]
    /\ ad \in [Forms -> Ad \cup {None}]
    /\ balance \in [Rows -> Int] /\ paid \in [Users -> Nat]
    /\ pc \in [Forms -> Labels]
    /\ chosen \in [Forms -> Rows \cup {None}]
    /\ customer \in [Forms -> Forms \cup {None}]
    /\ queue \in [Moderators -> SUBSET Forms]

\* However many first bids of a user are sent at once, and whatever row its e-mail
\* had before: all of its bids are on one account, and it owns that account, so the
\* checkout that follows a bid is never refused (db/schema.ts:74-76, "so two
\* first-time bids can't split a balance across two advertiser rows").
BidsAreFundable ==
    \A f \in Forms : ad[f] # None =>
        /\ account[ad[f].account] # None
        /\ RowsOf(UserOf[f]) = {ad[f].account}
===============================================================================
