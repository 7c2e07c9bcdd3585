--------------------------- MODULE CampaignsProofs ---------------------------
(***************************************************************************)
(* Proofs about Campaigns and Auction, for any users, submissions of the   *)
(* bid page, moderators, auctions and prices.                              *)
(***************************************************************************)
EXTENDS Auction, TLAPS

LEMMA ChargeIsNat ==
  ASSUME NEW cpm \in Nat
  PROVE  ImpressionCharge(cpm) \in Nat
  BY DEF ImpressionCharge

LEMMA ChargeIsMonotone ==
  ASSUME NEW a \in Nat, NEW b \in Nat, a <= b
  PROVE  ImpressionCharge(a) <= ImpressionCharge(b)
  BY DEF ImpressionCharge

(***************************************************************************)
(* The inductive invariant.  An account is found by its user and created   *)
(* by its e-mail, so what has to be carried along is that the two agree,   *)
(* that nothing else can be inserted for an e-mail that is being inserted, *)
(* and which account each submission relies on.                            *)
(***************************************************************************)
Placing == {"new", "insert", "claim", "found", "inserted", "claimed"}
Settled == {"found", "checkout", "customer", "save", "session", "paying", "paid", "refunded"}

OneRow ==
    \A r, s \in Rows :
        account[r] # None /\ account[s] # None /\ account[r].email = account[s].email => r = s

OwnedByEmail ==
    \A r \in Rows : account[r] # None =>
        /\ account[r].user \in {None, account[r].email}
        /\ r \in Forms => account[r].email = UserOf[r]

OneInsert ==
    \A f, g \in Forms :
        pc[f] = "inserted" /\ pc[g] = "inserted" /\ UserOf[f] = UserOf[g] => f = g

\* What the transaction or the page of f relies on.
Relies(f) ==
    /\ pc[f] = "inserted" => chosen[f] = f /\ RowsByEmail(UserOf[f]) = {}
    /\ pc[f] = "claim" => RowsByEmail(UserOf[f]) # {}
    /\ pc[f] = "claimed" => chosen[f] \in RowsByEmail(UserOf[f])
    /\ pc[f] \in Settled => RowsOf(UserOf[f]) = {chosen[f]}
    /\ pc[f] \in Placing => ad[f] = None
    /\ ad[f] # None => RowsOf(UserOf[f]) = {ad[f].account}

AccountsInv == OneRow /\ OwnedByEmail /\ OneInsert /\ \A f \in Forms : Relies(f)

\* No account has more than its user paid.
BalanceIsPaid ==
    \A r \in Rows : IF account[r] = None THEN balance[r] = 0
                                         ELSE balance[r] <= paid[account[r].email]

\* What an auction still has in the running, and what it has sold.
InTheRunning(b) ==
    \A f \in begin[b].ads :
        /\ ad[f] # None /\ ad[f].moderation # "pending"
        /\ begin[b].at = "spend" => Charge(f) <= paid[UserOf[f]]

Sold(b) ==
    token[b] # None =>
        /\ ad[token[b].ad] # None /\ ad[token[b].ad].moderation # "pending"
        /\ token[b].charge <= paid[UserOf[token[b].ad]]

SalesInv ==
    /\ BalanceIsPaid
    /\ \A m \in Moderators : \A f \in queue[m] : ad[f] # None
    /\ \A b \in Begins : InTheRunning(b) /\ Sold(b)

Inv == TypeOK /\ AccountsInv /\ SalesInv

(***************************************************************************)
(* Rows and what is found of them.                                         *)
(***************************************************************************)
LEMMA RowIsAccount ==
    ASSUME TypeOK, NEW r \in Rows, account[r] # None
    PROVE  account[r] \in Account
  BY DEF TypeOK, CampaignTypeOK

LEMMA FoundByUser ==
    ASSUME TypeOK, OneRow, OwnedByEmail, NEW u \in Users, NEW r \in RowsOf(u)
    PROVE  r \in RowsByEmail(u) /\ RowsOf(u) = {r} /\ RowsByEmail(u) = {r}
<1>1. u # None
  BY CampaignAssumption
<1>. QED BY <1>1 DEF RowsOf, RowsByEmail, OneRow, OwnedByEmail

LEMMA FoundByEmail ==
    ASSUME OneRow, NEW u \in Users, NEW r \in RowsByEmail(u)
    PROVE  RowsByEmail(u) = {r}
  BY DEF RowsByEmail, OneRow

LEMMA InitAccounts == Init => AccountsInv /\ SalesInv
<1>. SUFFICES ASSUME Init PROVE AccountsInv /\ SalesInv
  OBVIOUS
<1>. USE DEF Init, CampaignInit
<1>1. PICK old \in SUBSET Users :
          account = [r \in Rows |-> IF r \in old
                                    THEN [email |-> r, user |-> None, customer |-> None]
                                    ELSE None]
  OBVIOUS
<1>2. OneRow
  BY <1>1, CampaignAssumption DEF OneRow, Rows
<1>3. OwnedByEmail /\ OneInsert
  BY <1>1, CampaignAssumption DEF OwnedByEmail, OneInsert
<1>4. \A f \in Forms : Relies(f)
  BY DEF Relies, Settled
<1>5. BalanceIsPaid
  BY <1>1, CampaignAssumption DEF BalanceIsPaid, Rows
<1>. QED BY <1>2, <1>3, <1>4, <1>5 DEF AccountsInv, SalesInv, InTheRunning, Sold

(***************************************************************************)
(* Accounts.                                                               *)
(***************************************************************************)

\* A step that leaves the rows alone and moves one form or none keeps the accounts,
\* when that form relies on what it finds.
LEMMA SameRows ==
    ASSUME Inv, account' = account, OneInsert', \A f \in Forms : Relies(f)'
    PROVE  AccountsInv'
  BY DEF Inv, AccountsInv, OneRow, OwnedByEmail

\* The rows are those there were, with the owners they had.
RowsKept ==
    \A r \in Rows :
        /\ account'[r] # None <=> account[r] # None
        /\ account[r] # None => /\ account'[r].email = account[r].email
                                /\ account'[r].user = account[r].user

\* The ads are those there were, on the accounts they were on, and none of them goes
\* back to be moderated.
AdsKept ==
    \A f \in Forms :
        /\ ad'[f] # None <=> ad[f] # None
        /\ ad[f] # None => /\ ad'[f].account = ad[f].account
                           /\ ad[f].moderation # "pending" => ad'[f].moderation # "pending"

\* Forms go on after their bid, or fail.
FormsGoOn ==
    \A f \in Forms :
        \/ pc'[f] \in {pc[f], "failed"}
        \/ pc[f] \in Settled \ {"found"} /\ pc'[f] \in Settled \ {"found"}

LEMMA SameFound ==
    ASSUME RowsKept, NEW u
    PROVE  RowsOf(u)' = RowsOf(u) /\ RowsByEmail(u)' = RowsByEmail(u)
  BY DEF RowsKept, RowsOf, RowsByEmail

LEMMA KeepAccounts ==
    ASSUME Inv, RowsKept, AdsKept, FormsGoOn, chosen' = chosen
    PROVE  AccountsInv'
<1>1. OneRow' /\ OwnedByEmail'
  BY DEF Inv, AccountsInv, OneRow, OwnedByEmail, RowsKept
<1>2. OneInsert'
  BY DEF Inv, AccountsInv, OneInsert, FormsGoOn, Settled
<1>3. ASSUME NEW f \in Forms PROVE Relies(f)'
  <2>1. Relies(f)
    BY DEF Inv, AccountsInv
  <2>2. RowsOf(UserOf[f])' = RowsOf(UserOf[f]) /\ RowsByEmail(UserOf[f])' = RowsByEmail(UserOf[f])
    BY SameFound
  <2>3. CASE pc'[f] = pc[f]
    BY <2>1, <2>2, <2>3 DEF Relies, AdsKept
  <2>4. CASE pc'[f] # pc[f]
    <3>1. pc'[f] \notin Placing /\ (pc'[f] \in Settled => pc[f] \in Settled)
      BY <2>4 DEF FormsGoOn, Settled, Placing
    <3>. QED BY <2>1, <2>2, <3>1 DEF Relies, AdsKept, Placing
  <2>. QED BY <2>3, <2>4
<1>. QED BY <1>1, <1>2, <1>3 DEF AccountsInv

LEMMA FindStep ==
    ASSUME Inv, NEW f \in Forms, FindAccount(f) PROVE AccountsInv'
<1>. USE DEF FindAccount, Goto
<1>1. OneInsert'
  BY DEF Inv, AccountsInv, OneInsert, TypeOK, CampaignTypeOK
<1>2. ASSUME NEW g \in Forms PROVE Relies(g)'
  <2>1. Relies(g) /\ UserOf[f] \in Users
    BY CampaignAssumption DEF Inv, AccountsInv
  <2>2. RowsOf(UserOf[g])' = RowsOf(UserOf[g]) /\ RowsByEmail(UserOf[g])' = RowsByEmail(UserOf[g])
    BY DEF RowsOf, RowsByEmail
  <2>3. CASE g # f
    BY <2>1, <2>2, <2>3 DEF Relies, Inv, TypeOK, CampaignTypeOK
  <2>4. CASE g = f /\ RowsOf(UserOf[f]) = {}
    BY <2>1, <2>2, <2>4 DEF Relies, Inv, TypeOK, CampaignTypeOK, Placing, Settled
  <2>5. CASE g = f /\ RowsOf(UserOf[f]) # {}
    <3>1. PICK r \in RowsOf(UserOf[f]) : chosen' = [chosen EXCEPT ![f] = r] /\ pc' = [pc EXCEPT ![f] = "found"]
      BY <2>5
    <3>2. RowsOf(UserOf[f]) = {r}
      BY <2>1, FoundByUser DEF Inv, AccountsInv
    <3>. QED BY <2>1, <2>2, <2>5, <3>1, <3>2 DEF Relies, Inv, TypeOK, CampaignTypeOK, Placing, Settled
  <2>. QED BY <2>3, <2>4, <2>5
<1>. QED BY <1>1, <1>2, SameRows

LEMMA InsertStep ==
    ASSUME Inv, NEW f \in Forms, InsertAccount(f) PROVE AccountsInv'
<1>. USE DEF InsertAccount, Goto
<1>1. OneInsert'
  BY DEF Inv, AccountsInv, OneInsert, TypeOK, CampaignTypeOK
<1>2. ASSUME NEW g \in Forms PROVE Relies(g)'
  <2>1. Relies(g)
    BY DEF Inv, AccountsInv
  <2>2. RowsOf(UserOf[g])' = RowsOf(UserOf[g]) /\ RowsByEmail(UserOf[g])' = RowsByEmail(UserOf[g])
    BY DEF RowsOf, RowsByEmail
  <2>3. CASE g # f
    BY <2>1, <2>2, <2>3 DEF Relies, Inv, TypeOK, CampaignTypeOK
  <2>4. CASE g = f
    BY <2>1, <2>2, <2>4 DEF Relies, Inv, TypeOK, CampaignTypeOK, Placing, Settled
  <2>. QED BY <2>3, <2>4
<1>. QED BY <1>1, <1>2, SameRows

LEMMA ClaimStep ==
    ASSUME Inv, NEW f \in Forms, ClaimAccount(f) PROVE AccountsInv'
<1>. USE DEF ClaimAccount, Goto
<1>1. OneInsert'
  BY DEF Inv, AccountsInv, OneInsert, TypeOK, CampaignTypeOK
<1>2. ASSUME NEW g \in Forms PROVE Relies(g)'
  <2>1. Relies(g) /\ UserOf[f] \in Users
    BY CampaignAssumption DEF Inv, AccountsInv
  <2>2. RowsOf(UserOf[g])' = RowsOf(UserOf[g]) /\ RowsByEmail(UserOf[g])' = RowsByEmail(UserOf[g])
    BY DEF RowsOf, RowsByEmail
  <2>3. CASE g # f
    BY <2>1, <2>2, <2>3 DEF Relies, Inv, TypeOK, CampaignTypeOK
  <2>4. CASE g = f
    <3>1. PICK r \in RowsByEmail(UserOf[f]) \cup RowsOf(UserOf[f]) : chosen' = [chosen EXCEPT ![f] = r]
      OBVIOUS
    <3>2. r \in RowsByEmail(UserOf[f])
      BY <2>1, FoundByUser DEF Inv, AccountsInv
    <3>. QED BY <2>1, <2>2, <2>4, <3>1, <3>2 DEF Relies, Inv, TypeOK, CampaignTypeOK, Placing, Settled
  <2>. QED BY <2>3, <2>4
<1>. QED BY <1>1, <1>2, SameRows

\* The commit: a new row, rows stamped with their user, or rows left alone.
LEMMA CommitFound ==
    ASSUME Inv, NEW f \in Forms, CommitBid(f)
    PROVE  /\ chosen[f] \in RowsByEmail(UserOf[f])'
           /\ RowsOf(UserOf[f])' = {chosen[f]}
           /\ \A r \in Rows :
                 IF account[r] = None
                 THEN \/ account'[r] = None
                      \/ r = f /\ pc[f] = "inserted" /\ account'[r] = NewAccount(UserOf[f])
                 ELSE /\ account'[r] # None /\ account'[r].email = account[r].email
                      /\ \/ account'[r].user = account[r].user
                         \/ /\ pc[f] = "claimed" /\ account[r].email = UserOf[f]
                            /\ account'[r].user = UserOf[f]
<1>. DEFINE u == UserOf[f]
<1>1. u \in Users /\ u # None /\ f \in Rows /\ Relies(f) /\ TypeOK /\ OneRow /\ OwnedByEmail
  BY CampaignAssumption DEF Inv, AccountsInv, Rows
<1>2. CASE pc[f] = "found"
  <2>1. account' = account
    BY <1>2 DEF CommitBid, Accounts
  <2>2. RowsOf(u) = {chosen[f]}
    BY <1>1, <1>2 DEF Relies, Settled
  <2>3. chosen[f] \in RowsByEmail(u)
    BY <1>1, <2>2, FoundByUser
  <2>4. RowsOf(u)' = RowsOf(u) /\ RowsByEmail(u)' = RowsByEmail(u)
    BY <2>1 DEF RowsOf, RowsByEmail
  <2>. QED BY <2>1, <2>2, <2>3, <2>4
<1>3. CASE pc[f] = "inserted"
  <2>1. account' = [account EXCEPT ![f] = NewAccount(u)] /\ chosen[f] = f /\ RowsByEmail(u) = {}
    BY <1>1, <1>3 DEF CommitBid, Accounts, Relies
  <2>2. account[f] = None
    BY <1>1, <2>1 DEF OwnedByEmail, RowsByEmail
  <2>3. NewAccount(u) \in Account /\ NewAccount(u) # None /\ NewAccount(u).email = u /\ NewAccount(u).user = u
    BY <1>1, RecordAssumption DEF NewAccount, Account
  <2>4. account' \in [Rows -> Account \cup {None}] /\ account'[f] = NewAccount(u)
        /\ \A r \in Rows \ {f} : account'[r] = account[r]
    BY <1>1, <2>1, <2>3 DEF TypeOK, CampaignTypeOK
  <2>5. RowsOf(u) = {}
    BY <1>1, <2>1, FoundByUser
  <2>6. RowsOf(u)' = {f} /\ f \in RowsByEmail(u)'
    BY <1>1, <2>3, <2>4, <2>5 DEF RowsOf, RowsByEmail
  <2>7. ASSUME NEW r \in Rows, account[r] = None
        PROVE  account'[r] = None \/ (r = f /\ account'[r] = NewAccount(u))
    BY <2>4, <2>7
  <2>8. ASSUME NEW r \in Rows, account[r] # None
        PROVE  account'[r] = account[r]
    BY <2>2, <2>4, <2>8
  <2>. QED BY <1>3, <2>1, <2>6, <2>7, <2>8
<1>4. CASE pc[f] = "claimed"
  <2>1. /\ account' = [r \in Rows |-> IF r \in RowsByEmail(u)
                                      THEN [account[r] EXCEPT !.user = u] ELSE account[r]]
        /\ chosen[f] \in RowsByEmail(u)
    BY <1>1, <1>4 DEF CommitBid, Accounts, Relies
  <2>2. RowsByEmail(u) = {chosen[f]} /\ chosen[f] \in Rows
    BY <1>1, <2>1, FoundByEmail DEF RowsByEmail
  <2>3. ASSUME NEW r \in RowsByEmail(u)
        PROVE  /\ account[r] # None /\ account'[r] # None
               /\ account'[r].email = u /\ account[r].email = u /\ account'[r].user = u
    <3>1. r \in Rows /\ account[r] # None /\ account[r].email = u /\ account[r] \in Account
      BY <1>1, RowIsAccount DEF RowsByEmail
    <3>2. account'[r] = [account[r] EXCEPT !.user = u]
      BY <2>1, <3>1
    <3>3. [account[r] EXCEPT !.user = u] \in Account
      BY <1>1, <3>1 DEF Account
    <3>. QED BY <3>1, <3>2, <3>3, RecordAssumption DEF Account
  <2>4. \A r \in Rows : r \notin RowsByEmail(u) => account'[r] = account[r]
    BY <2>1
  <2>5. \A r \in Rows : r \notin RowsByEmail(u) => r \notin RowsOf(u)
    BY <1>1, FoundByUser
  <2>6. RowsOf(u)' = {chosen[f]} /\ chosen[f] \in RowsByEmail(u)'
    BY <2>2, <2>3, <2>4, <2>5 DEF RowsOf, RowsByEmail
  <2>7. ASSUME NEW r \in Rows, account[r] = None
        PROVE  account'[r] = None
    BY <2>3, <2>4, <2>7
  <2>8. ASSUME NEW r \in Rows, account[r] # None
        PROVE  /\ account'[r] # None /\ account'[r].email = account[r].email
               /\ \/ account'[r].user = account[r].user
                  \/ account[r].email = u /\ account'[r].user = u
    BY <2>3, <2>4, <2>8
  <2>. QED BY <1>4, <2>6, <2>7, <2>8
<1>. QED BY <1>2, <1>3, <1>4 DEF CommitBid

LEMMA CommitOthers ==
    ASSUME Inv, NEW f \in Forms, CommitBid(f), NEW v \in Users, v # UserOf[f]
    PROVE  RowsOf(v)' = RowsOf(v) /\ RowsByEmail(v)' = RowsByEmail(v)
<1>1. \A r \in Rows : NewAccount(UserOf[f]).user # v /\ NewAccount(UserOf[f]).email # v
  BY DEF NewAccount
<1>2. OwnedByEmail /\ v # None
  BY CampaignAssumption DEF Inv, AccountsInv
<1>3. ASSUME NEW r \in Rows
      PROVE  /\ r \in RowsOf(v)' <=> r \in RowsOf(v)
             /\ r \in RowsByEmail(v)' <=> r \in RowsByEmail(v)
  <2>1. CASE account[r] = None
    BY <1>1, <2>1, CommitFound DEF RowsOf, RowsByEmail
  <2>2. CASE account[r] # None
    BY <1>2, <2>2, CommitFound DEF RowsOf, RowsByEmail, OwnedByEmail
  <2>. QED BY <2>1, <2>2
<1>. QED BY <1>3 DEF RowsOf, RowsByEmail

LEMMA CommitStep ==
    ASSUME Inv, NEW f \in Forms, CommitBid(f) PROVE AccountsInv'
<1>. DEFINE u == UserOf[f]
<1>1. /\ u \in Users /\ u # None /\ TypeOK /\ OneRow /\ OwnedByEmail /\ OneInsert
      /\ \A g \in Forms : Relies(g)
  BY CampaignAssumption DEF Inv, AccountsInv
<1>2. /\ pc[f] \in {"found", "inserted", "claimed"}
      /\ pc' = [pc EXCEPT ![f] = "checkout"] /\ chosen' = chosen
      /\ ad' = [ad EXCEPT ![f] = [account |-> chosen[f], moderation |-> "pending",
                                  status |-> "active"]]
  BY DEF CommitBid, Goto
<1>3. RowsByEmail(u) = {} <=> pc[f] = "inserted"
  BY <1>1, <1>2, FoundByUser DEF Relies, Settled
<1>4. NewAccount(u).email = u /\ NewAccount(u).user = u
  BY DEF NewAccount
<1>5. OneRow'
  <2>1. ASSUME NEW r \in Rows, account'[r] # None
        PROVE  \/ account[r] # None /\ account'[r].email = account[r].email
               \/ r = f /\ account'[r].email = u /\ RowsByEmail(u) = {}
    BY <1>3, <1>4, <2>1, CommitFound
  <2>2. ASSUME NEW r \in Rows, NEW s \in Rows, account'[r] # None, account'[s] # None,
               account'[r].email = account'[s].email
        PROVE  r = s
    BY <1>1, <2>1, <2>2 DEF OneRow, RowsByEmail
  <2>. QED BY <2>2 DEF OneRow
<1>6. OwnedByEmail'
  <2>1. ASSUME NEW r \in Rows, account'[r] # None
        PROVE  /\ account'[r].user \in {None, account'[r].email}
               /\ r \in Forms => account'[r].email = UserOf[r]
    <3>1. CASE account[r] = None
      BY <1>4, <2>1, <3>1, CommitFound
    <3>2. CASE account[r] # None
      BY <1>1, <3>2, CommitFound DEF OwnedByEmail
    <3>. QED BY <3>1, <3>2
  <2>. QED BY <2>1 DEF OwnedByEmail
<1>7. OneInsert'
  BY <1>1, <1>2 DEF OneInsert, TypeOK, CampaignTypeOK
<1>8. ASSUME NEW g \in Forms PROVE Relies(g)'
  <2>1. CASE g = f
    <3>1. pc'[f] = "checkout" /\ ad'[f].account = chosen[f]
      BY <1>1, <1>2 DEF TypeOK, CampaignTypeOK
    <3>2. RowsOf(u)' = {chosen[f]}
      BY CommitFound
    <3>. QED BY <1>2, <2>1, <3>1, <3>2 DEF Relies, Placing, Settled
  <2>2. CASE g # f /\ UserOf[g] # u
    <3>1. RowsOf(UserOf[g])' = RowsOf(UserOf[g]) /\ RowsByEmail(UserOf[g])' = RowsByEmail(UserOf[g])
      BY <2>2, CommitOthers, CampaignAssumption
    <3>2. pc'[g] = pc[g] /\ ad'[g] = ad[g]
      BY <1>1, <1>2, <2>2 DEF TypeOK, CampaignTypeOK
    <3>. QED BY <1>1, <1>2, <3>1, <3>2 DEF Relies
  <2>3. CASE g # f /\ UserOf[g] = u
    <3>1. pc'[g] = pc[g] /\ ad'[g] = ad[g] /\ Relies(g)
      BY <1>1, <1>2, <2>3 DEF TypeOK, CampaignTypeOK
    <3>2. pc[g] # "inserted"
      BY <1>1, <1>2, <1>3, <2>3, <3>1 DEF OneInsert, Relies
    <3>3. ASSUME NEW r \in RowsByEmail(u) PROVE r \in RowsByEmail(u)'
      BY CommitFound DEF RowsByEmail
    <3>4. ASSUME NEW r, RowsOf(u) = {r} PROVE RowsOf(u)' = {r}
      <4>1. r \in Rows /\ account[r] # None /\ account[r].user = u
        BY <3>4 DEF RowsOf
      <4>2. account'[r] # None /\ account'[r].user = u
        BY <4>1, CommitFound
      <4>3. r \in RowsOf(u)'
        BY <4>1, <4>2 DEF RowsOf
      <4>. QED BY <4>3, CommitFound
    <3>5. chosen[f] \in RowsByEmail(u)'
      BY CommitFound
    <3>. QED BY <1>2, <2>3, <3>1, <3>2, <3>3, <3>4, <3>5 DEF Relies
  <2>. QED BY <2>1, <2>2, <2>3
<1>. QED BY <1>5, <1>6, <1>7, <1>8 DEF AccountsInv

(***************************************************************************)
(* Sales.                                                                  *)
(***************************************************************************)

\* Balances that do not grow, payments that do not shrink.
MoneyKept ==
    /\ \A r \in Rows : IF account[r] = None THEN balance'[r] = balance[r]
                                            ELSE balance'[r] <= balance[r]
    /\ paid' = paid

LEMMA KeepSales ==
    ASSUME Inv, TypeOK', RowsKept, AdsKept, MoneyKept, begin' = begin,
           \A b \in Begins : token'[b] \in {token[b], None},
           \A m \in Moderators : \A f \in queue'[m] : ad[f] # None
    PROVE  SalesInv'
<1>1. TypeOK /\ BalanceIsPaid /\ \A b \in Begins : InTheRunning(b) /\ Sold(b)
  BY DEF Inv, SalesInv
<1>2. BalanceIsPaid'
  <2>1. ASSUME NEW r \in Rows, account[r] = None PROVE account'[r] = None /\ balance'[r] = 0
    BY <1>1, <2>1 DEF BalanceIsPaid, RowsKept, MoneyKept
  <2>2. ASSUME NEW r \in Rows, account[r] # None
        PROVE  account'[r] # None /\ balance'[r] <= paid'[account'[r].email]
    <3>1. account[r].email \in Users
      BY <1>1, <2>2, RowIsAccount DEF Account
    <3>2. balance'[r] \in Int /\ balance[r] \in Int /\ paid[account[r].email] \in Nat
      BY <1>1, <3>1 DEF TypeOK, CampaignTypeOK
    <3>. QED BY <1>1, <2>2, <3>2 DEF BalanceIsPaid, RowsKept, MoneyKept
  <2>. QED BY <2>1, <2>2 DEF BalanceIsPaid
<1>3. \A m \in Moderators : \A f \in queue'[m] : ad'[f] # None
  BY DEF TypeOK, CampaignTypeOK, AdsKept
<1>4. ASSUME NEW b \in Begins PROVE InTheRunning(b)'
  <2>1. \A f \in begin[b].ads : f \in Forms
    BY <1>1 DEF TypeOK
  <2>. QED BY <1>1, <2>1 DEF InTheRunning, AdsKept, MoneyKept, Charge
<1>5. ASSUME NEW b \in Begins PROVE Sold(b)'
  <2>1. token[b] # None => token[b].ad \in Forms
    BY <1>1 DEF TypeOK, Token
  <2>. QED BY <1>1, <2>1 DEF Sold, AdsKept, MoneyKept
<1>. QED BY <1>2, <1>3, <1>4, <1>5 DEF SalesInv

\* Whoever owns the account of an ad has paid for its balance.
LEMMA BalanceOfAd ==
    ASSUME Inv, NEW f \in Forms, ad[f] # None
    PROVE  /\ ad[f].account \in Rows /\ account[ad[f].account] # None
           /\ account[ad[f].account].email = UserOf[f]
           /\ balance[ad[f].account] <= paid[UserOf[f]]
<1>1. TypeOK /\ OneRow /\ OwnedByEmail /\ BalanceIsPaid /\ Relies(f) /\ UserOf[f] \in Users
  BY CampaignAssumption DEF Inv, AccountsInv, SalesInv
<1>2. ad[f].account \in RowsOf(UserOf[f])
  BY <1>1 DEF Relies
<1>3. ad[f].account \in RowsByEmail(UserOf[f])
  BY <1>1, <1>2, FoundByUser
<1>. QED BY <1>1, <1>3 DEF RowsByEmail, BalanceIsPaid

\* The second price is a price, and the charge is within the bid's own.
LEMMA SecondIsCpm ==
    ASSUME NEW eligible \in SUBSET Forms, NEW winner,
           NEW second \in SecondPrices(eligible, winner)
    PROVE  second \in Nat
  BY CampaignAssumption, PriceAssumption DEF SecondPrices

LEMMA ChargeWithinBid ==
    ASSUME NEW f \in Forms, NEW second \in Nat
    PROVE  /\ ImpressionCharge(ClearingCpm(MaxCpm[f], second)) \in Nat
           /\ ImpressionCharge(ClearingCpm(MaxCpm[f], second)) <= Charge(f)
<1>1. ClearingCpm(MaxCpm[f], second) \in Nat /\ ClearingCpm(MaxCpm[f], second) <= MaxCpm[f]
  BY CampaignAssumption, PriceAssumption DEF ClearingCpm, Lesser, Greater
<1>. QED BY <1>1, CampaignAssumption DEF ImpressionCharge, Charge

(***************************************************************************)
(* Types.                                                                  *)
(***************************************************************************)
LEMMA ChosenRow ==
    ASSUME Inv, NEW f \in Forms, pc[f] \in Settled
    PROVE  /\ chosen[f] \in Rows /\ account[chosen[f]] # None
           /\ account[chosen[f]] \in Account
           /\ account[chosen[f]].email = UserOf[f] /\ account[chosen[f]].user = UserOf[f]
<1>1. TypeOK /\ OneRow /\ OwnedByEmail /\ Relies(f) /\ UserOf[f] \in Users
  BY CampaignAssumption DEF Inv, AccountsInv
<1>2. chosen[f] \in RowsOf(UserOf[f])
  BY <1>1 DEF Relies
<1>3. chosen[f] \in RowsByEmail(UserOf[f])
  BY <1>1, <1>2, FoundByUser
<1>. QED BY <1>1, <1>2, <1>3, RowIsAccount DEF RowsOf, RowsByEmail

LEMMA InitTypeOK == Init => TypeOK
  BY CampaignAssumption DEF Init, CampaignInit, TypeOK, CampaignTypeOK, Rows, Account, Labels

LEMMA CommitTypeOK ==
    ASSUME Inv, NEW f \in Forms, CommitBid(f), UNCHANGED auctionVars PROVE TypeOK'
<1>1. TypeOK /\ UserOf[f] \in Users
  BY CampaignAssumption DEF Inv
<1>2. chosen[f] \in Rows
  BY CommitFound DEF RowsByEmail
<1>3. [account |-> chosen[f], moderation |-> "pending", status |-> "active"] \in Ad
  BY <1>2 DEF Ad
<1>4. Accounts(f) \in [Rows -> Account \cup {None}]
  <2>1. CASE pc[f] = "found"
    BY <1>1, <2>1 DEF Accounts, TypeOK, CampaignTypeOK
  <2>2. CASE pc[f] = "inserted"
    <3>1. NewAccount(UserOf[f]) \in Account
      BY <1>1 DEF NewAccount, Account
    <3>2. Accounts(f) = [account EXCEPT ![f] = NewAccount(UserOf[f])]
      BY <2>2 DEF Accounts
    <3>. QED BY <1>1, <3>1, <3>2 DEF TypeOK, CampaignTypeOK
  <2>3. CASE pc[f] = "claimed"
    <3>1. Accounts(f) = [r \in Rows |-> IF r \in RowsByEmail(UserOf[f])
                                        THEN [account[r] EXCEPT !.user = UserOf[f]]
                                        ELSE account[r]]
      BY <2>3 DEF Accounts
    <3>2. ASSUME NEW r \in RowsByEmail(UserOf[f])
          PROVE  [account[r] EXCEPT !.user = UserOf[f]] \in Account
      <4>1. account[r] \in Account
        BY <1>1, RowIsAccount DEF RowsByEmail
      <4>. QED BY <1>1, <4>1 DEF Account
    <3>3. \A r \in Rows : account[r] \in Account \cup {None}
      BY <1>1 DEF TypeOK, CampaignTypeOK
    <3>. QED BY <3>1, <3>2, <3>3
  <2>. QED BY <2>1, <2>2, <2>3 DEF CommitBid
<1>5. pc' \in [Forms -> Labels]
  BY <1>1 DEF CommitBid, Goto, Labels, TypeOK, CampaignTypeOK
<1>6. ad' \in [Forms -> Ad \cup {None}]
  BY <1>1, <1>3 DEF CommitBid, TypeOK, CampaignTypeOK
<1>. QED BY <1>1, <1>4, <1>5, <1>6 DEF CommitBid, TypeOK, CampaignTypeOK, money, auctionVars

LEMMA CheckoutTypeOK ==
    ASSUME Inv, NEW f \in Forms, Checkout(f), UNCHANGED auctionVars PROVE TypeOK'
<1>. USE DEF Goto, Labels, TypeOK, CampaignTypeOK, money, auctionVars
<1>1. TypeOK
  BY DEF Inv
<1>2. CASE OpenCheckout(f)
  <2>1. account[chosen[f]].customer \in Forms \cup {None}
    BY <1>2, ChosenRow DEF OpenCheckout, Settled, Account
  <2>. QED BY <1>1, <1>2, <2>1 DEF OpenCheckout
<1>3. CASE CreateCustomer(f)
  BY <1>1, <1>3 DEF CreateCustomer
<1>4. CASE SaveCustomer(f)
  <2>1. chosen[f] \in Rows /\ account[chosen[f]] \in Account /\ customer[f] \in Forms \cup {None}
    BY <1>1, <1>4, ChosenRow DEF SaveCustomer, Settled
  <2>2. [account[chosen[f]] EXCEPT !.customer = customer[f]] \in Account
    BY <2>1 DEF Account
  <2>3. account' \in [Rows -> Account \cup {None}]
    BY <1>1, <1>4, <2>1, <2>2 DEF SaveCustomer
  <2>4. pc' \in [Forms -> Labels]
    BY <1>1, <1>4 DEF SaveCustomer
  <2>. QED BY <1>1, <1>4, <2>3, <2>4 DEF SaveCustomer
<1>5. CASE CreateSession(f)
  BY <1>1, <1>5 DEF CreateSession
<1>. QED BY <1>2, <1>3, <1>4, <1>5 DEF Checkout

LEMMA CampaignStepTypeOK ==
    ASSUME Inv, CampaignNext, UNCHANGED auctionVars PROVE TypeOK'
<1>. USE DEF Goto, Labels, TypeOK, CampaignTypeOK, money, forms, auctionVars
<1>1. TypeOK
  BY DEF Inv
<1>2. ASSUME NEW f \in Forms, Bid(f) PROVE TypeOK'
  <2>1. CASE FindAccount(f)
    BY <1>1, <2>1 DEF FindAccount, RowsOf
  <2>2. CASE InsertAccount(f)
    <3>1. pc' \in [Forms -> Labels]
      BY <1>1, <2>2 DEF InsertAccount
    <3>2. chosen' \in [Forms -> Rows \cup {None}]
      BY <1>1, <2>2 DEF InsertAccount, Rows
    <3>. QED BY <1>1, <2>2, <3>1, <3>2 DEF InsertAccount
  <2>3. CASE ClaimAccount(f)
    BY <1>1, <2>3 DEF ClaimAccount, RowsOf, RowsByEmail
  <2>4. CASE CommitBid(f)
    BY <2>4, CommitTypeOK
  <2>. QED BY <1>2, <2>1, <2>2, <2>3, <2>4 DEF Bid
<1>3. ASSUME NEW f \in Forms, Checkout(f) PROVE TypeOK'
  BY <1>3, CheckoutTypeOK
<1>4. ASSUME NEW f \in Forms, Pay(f) \/ Refund(f) PROVE TypeOK'
  <2>1. chosen[f] \in Rows /\ UserOf[f] \in Users /\ Budget[f] \in Nat
    BY <1>4, ChosenRow, CampaignAssumption DEF Pay, Refund, Settled
  <2>2. balance' \in [Rows -> Int] /\ paid' \in [Users -> Nat]
    BY <1>1, <1>4, <2>1 DEF Pay, Refund
  <2>. QED BY <1>1, <1>4, <2>2 DEF Pay, Refund
<1>5. ASSUME NEW f \in Forms, Fail(f) PROVE TypeOK'
  BY <1>1, <1>5 DEF Fail
<1>6. ASSUME NEW m \in Moderators, LoadQueue(m) PROVE TypeOK'
  BY <1>1, <1>6 DEF LoadQueue, Pending
<1>7. ASSUME NEW m \in Moderators, NEW f \in Forms,
             NEW decision \in {"approved", "rejected"}, Decide(m, f, decision)
      PROVE  TypeOK'
  <2>1. ad[f] \in Ad
    BY <1>1, <1>7 DEF Inv, SalesInv, Decide
  <2>2. [ad[f] EXCEPT !.moderation = decision] \in Ad
    BY <2>1 DEF Ad
  <2>3. ad' \in [Forms -> Ad \cup {None}] /\ queue' \in [Moderators -> SUBSET Forms]
    BY <1>1, <1>7, <2>2 DEF Decide
  <2>. QED BY <1>1, <1>7, <2>3 DEF Decide
<1>. QED BY <1>2, <1>3, <1>4, <1>5, <1>6, <1>7 DEF CampaignNext

LEMMA TokenOfSale ==
    ASSUME TypeOK, NEW b \in Begins, token[b] # None
    PROVE  token[b].ad \in Forms /\ token[b].charge \in Nat
  BY DEF TypeOK, Token

LEMMA PickTypeOK ==
    ASSUME Inv, NEW b \in Begins, PickWinner(b) PROVE TypeOK'
<1>. DEFINE eligible == {f \in begin[b].ads : InBudget(f)}
<1>1. TypeOK /\ eligible \in SUBSET Forms
  BY DEF Inv, TypeOK
<1>2. begin' \in [Begins -> [at: {"idle", "balances", "spend"}, ads: SUBSET Forms]]
  BY <1>1 DEF PickWinner, Advance, TypeOK
<1>3. token' \in [Begins -> Token \cup {None}]
  <2>1. CASE eligible = {}
    BY <1>1, <2>1 DEF PickWinner, TypeOK
  <2>2. CASE eligible # {}
    <3>1. PICK winner \in eligible : \E second \in SecondPrices(eligible, winner) :
              token' = [token EXCEPT ![b] =
                [ad |-> winner,
                 charge |-> ImpressionCharge(ClearingCpm(MaxCpm[winner], second))]]
      BY <2>2 DEF PickWinner
    <3>2. PICK second \in SecondPrices(eligible, winner) :
              token' = [token EXCEPT ![b] =
                [ad |-> winner,
                 charge |-> ImpressionCharge(ClearingCpm(MaxCpm[winner], second))]]
      BY <3>1
    <3>3. winner \in Forms /\ ImpressionCharge(ClearingCpm(MaxCpm[winner], second)) \in Nat
      BY <1>1, SecondIsCpm, ChargeWithinBid
    <3>. QED BY <1>1, <3>2, <3>3 DEF TypeOK, Token
  <2>. QED BY <2>1, <2>2
<1>. QED BY <1>1, <1>2, <1>3 DEF PickWinner, TypeOK, CampaignTypeOK, campaignVars, money, forms

LEMMA AuctionStepTypeOK ==
    ASSUME Inv, NEW b \in Begins,
           SelectCandidates(b) \/ SumBalances(b) \/ PickWinner(b) \/ Redeem(b) \/ Click(b)
    PROVE  TypeOK'
<1>. USE DEF TypeOK, CampaignTypeOK, campaignVars, money, forms, Advance
<1>1. TypeOK
  BY DEF Inv
<1>2. CASE SelectCandidates(b)
  BY <1>1, <1>2 DEF SelectCandidates, Forget, Serving
<1>3. CASE SumBalances(b)
  BY <1>1, <1>3 DEF SumBalances
<1>4. CASE PickWinner(b)
  BY <1>4, PickTypeOK
<1>5. CASE Redeem(b)
  <2>. DEFINE f == token[b].ad
  <2>1. token[b] # None /\ f \in Forms /\ token[b].charge \in Nat /\ ad[f] # None
    BY <1>1, <1>5, TokenOfSale DEF Redeem, Inv, SalesInv, Sold
  <2>2. ad[f] \in Ad /\ ad[f].account \in Rows
    BY <1>1, <2>1, BalanceOfAd
  <2>3. [ad[f] EXCEPT !.status = "depleted"] \in Ad
    BY <2>2 DEF Ad
  <2>4. spent' \in [Forms -> Nat]
    BY <1>1, <1>5, <2>1 DEF Redeem
  <2>5. balance' \in [Rows -> Int]
    <3>1. balance' = [balance EXCEPT ![ad[f].account] = @ - token[b].charge]
      BY <1>5 DEF Redeem
    <3>2. balance \in [Rows -> Int] /\ \A n \in Int : n - token[b].charge \in Int
      BY <1>1, <2>1
    <3>. QED BY <2>2, <3>1, <3>2
  <2>6. ad' \in [Forms -> Ad \cup {None}]
    BY <1>1, <1>5, <2>1, <2>3 DEF Redeem
  <2>. QED BY <1>1, <1>5, <2>4, <2>5, <2>6 DEF Redeem
<1>6. CASE Click(b)
  BY <1>1, <1>6 DEF Click
<1>. QED BY <1>2, <1>3, <1>4, <1>5, <1>6

(***************************************************************************)
(* Steps.                                                                  *)
(***************************************************************************)
LEMMA SaveKeepsRows ==
    ASSUME Inv, NEW f \in Forms, SaveCustomer(f) PROVE RowsKept
<1>1. chosen[f] \in Rows /\ account[chosen[f]] \in Account /\ customer[f] \in Forms \cup {None}
      /\ account[chosen[f]] # None /\ TypeOK
  BY ChosenRow DEF SaveCustomer, Settled, Inv, TypeOK, CampaignTypeOK
<1>. DEFINE saved == [account[chosen[f]] EXCEPT !.customer = customer[f]]
<1>2. saved \in Account /\ saved.email = account[chosen[f]].email
                        /\ saved.user = account[chosen[f]].user
  BY <1>1 DEF Account
<1>3. saved # None
  BY <1>2, RecordAssumption
<1>4. account'[chosen[f]] = saved /\ \A r \in Rows \ {chosen[f]} : account'[r] = account[r]
  BY <1>1 DEF SaveCustomer, TypeOK, CampaignTypeOK
<1>. QED BY <1>1, <1>2, <1>3, <1>4 DEF RowsKept

LEMMA SameKept ==
    /\ account' = account => RowsKept
    /\ ad' = ad => AdsKept
  BY DEF RowsKept, AdsKept

LEMMA DecideKeepsAds ==
    ASSUME Inv, NEW m \in Moderators, NEW f \in Forms,
           NEW decision \in {"approved", "rejected"}, Decide(m, f, decision)
    PROVE  AdsKept
<1>1. TypeOK /\ ad[f] # None /\ ad[f] \in Ad
  BY DEF Inv, SalesInv, Decide, TypeOK, CampaignTypeOK
<1>. DEFINE decided == [ad[f] EXCEPT !.moderation = decision]
<1>2. decided \in Ad /\ decided # None
  BY <1>1, RecordAssumption DEF Ad
<1>3. decided.account = ad[f].account /\ decided.moderation # "pending"
  BY <1>1 DEF Ad
<1>4. ad'[f] = decided /\ \A g \in Forms \ {f} : ad'[g] = ad[g]
  BY <1>1 DEF Decide, TypeOK, CampaignTypeOK
<1>. QED BY <1>1, <1>2, <1>3, <1>4 DEF AdsKept

LEMMA RedeemKeeps ==
    ASSUME Inv, NEW b \in Begins, Redeem(b)
    PROVE  AdsKept /\ MoneyKept
<1>. DEFINE f == token[b].ad
<1>1. /\ TypeOK /\ f \in Forms /\ token[b].charge \in Nat
      /\ ad[f] # None /\ ad[f] \in Ad
  BY TokenOfSale DEF Redeem, Inv, SalesInv, Sold, TypeOK, CampaignTypeOK
<1>2. ad[f].account \in Rows /\ account[ad[f].account] # None
  BY <1>1, BalanceOfAd
<1>3. AdsKept
  <2>. DEFINE depleted == [ad[f] EXCEPT !.status = "depleted"]
  <2>1. depleted \in Ad /\ depleted # None
    BY <1>1, RecordAssumption DEF Ad
  <2>2. depleted.account = ad[f].account /\ depleted.moderation = ad[f].moderation
    BY <1>1 DEF Ad
  <2>3. CASE ad' = ad
    BY <2>3, SameKept
  <2>4. CASE ad' = [ad EXCEPT ![f].status = "depleted"]
    <3>1. ad \in [Forms -> Ad \cup {None}]
      BY <1>1 DEF TypeOK, CampaignTypeOK
    <3>. HIDE DEF f
    <3>2. f \in Forms
      BY <1>1
    <3>3. ad'[f] = depleted
      BY <2>4, <3>1, <3>2
    <3>4. \A g \in Forms \ {f} : ad'[g] = ad[g]
      BY <2>4, <3>1, <3>2
    <3>. QED BY <1>1, <2>1, <2>2, <3>3, <3>4 DEF AdsKept
  <2>. QED BY <2>3, <2>4 DEF Redeem
<1>4. MoneyKept
  <2>1. /\ balance' = [balance EXCEPT ![ad[f].account] = @ - token[b].charge] /\ paid' = paid
        /\ token[b].charge <= balance[ad[f].account]
        /\ account' = account
    BY DEF Redeem
  <2>2. balance \in [Rows -> Int]
    BY <1>1 DEF TypeOK, CampaignTypeOK
  <2>3. balance'[ad[f].account] <= balance[ad[f].account]
    BY <1>1, <1>2, <2>1, <2>2
  <2>4. \A r \in Rows \ {ad[f].account} : balance'[r] = balance[r]
    BY <2>1, <2>2
  <2>5. \A r \in Rows : balance[r] \in Int
    BY <2>2
  <2>6. ASSUME NEW r \in Rows
        PROVE  IF account[r] = None THEN balance'[r] = balance[r] ELSE balance'[r] <= balance[r]
    <3>1. CASE r = ad[f].account
      BY <1>2, <2>3, <3>1
    <3>2. CASE r # ad[f].account
      BY <2>4, <2>5, <3>2
    <3>. QED BY <3>1, <3>2
  <2>7. paid' = paid
    BY <2>1
  <2>. QED BY <2>6, <2>7 DEF MoneyKept
<1>. QED BY <1>3, <1>4

\* Checkouts, payments, failures, moderators and auctions leave the accounts alone.
LEMMA AccountsStep ==
    ASSUME Inv, [Next]_vars PROVE AccountsInv'
<1>. USE DEF Goto, money, forms, campaignVars
<1>1. TypeOK
  BY DEF Inv
<1>2. ASSUME NEW f \in Forms, Bid(f) PROVE AccountsInv'
  BY <1>2, FindStep, InsertStep, ClaimStep, CommitStep DEF Bid
<1>3. ASSUME NEW f \in Forms, Checkout(f) \/ Pay(f) \/ Refund(f) \/ Fail(f) PROVE AccountsInv'
  <2>1. chosen' = chosen /\ ad' = ad
    BY <1>3 DEF Checkout, OpenCheckout, CreateCustomer, SaveCustomer, CreateSession, Pay, Refund, Fail
  <2>2. FormsGoOn
    BY <1>1, <1>3 DEF FormsGoOn, Settled, Checkout, OpenCheckout, CreateCustomer, SaveCustomer,
                      CreateSession, Pay, Refund, Fail, TypeOK, CampaignTypeOK
  <2>3. RowsKept
    BY <1>3, SaveKeepsRows, SameKept
       DEF Checkout, OpenCheckout, CreateCustomer, CreateSession, Pay, Refund, Fail
  <2>. QED BY <2>1, <2>2, <2>3, SameKept, KeepAccounts
<1>4. ASSUME NEW m \in Moderators, LoadQueue(m) PROVE AccountsInv'
  BY <1>4, SameKept, KeepAccounts DEF LoadQueue, FormsGoOn
<1>5. ASSUME NEW m \in Moderators, NEW f \in Forms,
             NEW decision \in {"approved", "rejected"}, Decide(m, f, decision)
      PROVE  AccountsInv'
  BY <1>5, DecideKeepsAds, SameKept, KeepAccounts DEF Decide, FormsGoOn
<1>6. ASSUME NEW b \in Begins, SelectCandidates(b) \/ SumBalances(b) \/ PickWinner(b) \/ Click(b)
      PROVE  AccountsInv'
  BY <1>6, SameKept, KeepAccounts
     DEF SelectCandidates, SumBalances, PickWinner, Click, FormsGoOn
<1>7. ASSUME NEW b \in Begins, Redeem(b) PROVE AccountsInv'
  BY <1>7, RedeemKeeps, SameKept, KeepAccounts DEF Redeem, FormsGoOn
<1>8. CASE UNCHANGED vars
  BY <1>8, SameKept, KeepAccounts DEF vars, FormsGoOn
<1>. QED BY <1>2, <1>3, <1>4, <1>5, <1>6, <1>7, <1>8 DEF Next, CampaignNext

LEMMA TypeStep ==
    ASSUME Inv, [Next]_vars PROVE TypeOK'
<1>1. CASE CampaignNext /\ UNCHANGED auctionVars
  BY <1>1, CampaignStepTypeOK
<1>2. ASSUME NEW b \in Begins,
             SelectCandidates(b) \/ SumBalances(b) \/ PickWinner(b) \/ Redeem(b) \/ Click(b)
      PROVE  TypeOK'
  BY <1>2, AuctionStepTypeOK
<1>3. CASE UNCHANGED vars
  BY <1>3 DEF Inv, TypeOK, CampaignTypeOK, vars, campaignVars, auctionVars, money, forms
<1>. QED BY <1>1, <1>2, <1>3 DEF Next

LEMMA CommitSales ==
    ASSUME Inv, NEW f \in Forms, CommitBid(f), UNCHANGED auctionVars, TypeOK' PROVE SalesInv'
<1>1. /\ TypeOK /\ BalanceIsPaid /\ ad[f] = None /\ f \in Rows
      /\ ad' = [ad EXCEPT ![f] = [account |-> chosen[f], moderation |-> "pending",
                                  status |-> "active"]]
      /\ balance' = balance /\ paid' = paid /\ queue' = queue
      /\ begin' = begin /\ token' = token
  BY DEF Inv, SalesInv, AccountsInv, Relies, Placing, CommitBid, money, auctionVars, Rows
<1>2. \A g \in Forms : ad[g] # None => ad'[g] = ad[g]
  BY <1>1 DEF TypeOK, CampaignTypeOK
<1>3. BalanceIsPaid'
  <2>1. ASSUME NEW r \in Rows, account[r] = None
        PROVE  IF account'[r] = None THEN balance'[r] = 0
                                     ELSE balance'[r] <= paid'[account'[r].email]
    <3>1. balance'[r] = 0
      BY <1>1, <2>1 DEF BalanceIsPaid
    <3>2. account'[r] # None => account'[r].email \in Users
      BY RowIsAccount DEF TypeOK, CampaignTypeOK, Account
    <3>. QED BY <1>1, <3>1, <3>2 DEF TypeOK, CampaignTypeOK
  <2>2. ASSUME NEW r \in Rows, account[r] # None
        PROVE  account'[r] # None /\ balance'[r] <= paid'[account'[r].email]
    BY <1>1, <2>2, CommitFound DEF BalanceIsPaid
  <2>. QED BY <2>1, <2>2 DEF BalanceIsPaid
<1>4. \A m \in Moderators : \A g \in queue'[m] : ad'[g] # None
  BY <1>1, <1>2 DEF Inv, SalesInv, TypeOK, CampaignTypeOK
<1>5. ASSUME NEW b \in Begins PROVE InTheRunning(b)' /\ Sold(b)'
  <2>1. InTheRunning(b) /\ Sold(b) /\ begin[b].ads \subseteq Forms
    BY <1>1 DEF Inv, SalesInv, TypeOK
  <2>2. InTheRunning(b)'
    BY <1>1, <1>2, <2>1 DEF InTheRunning, Charge
  <2>3. Sold(b)'
    BY <1>1, <1>2, <2>1, TokenOfSale DEF Sold
  <2>. QED BY <2>2, <2>3
<1>. QED BY <1>3, <1>4, <1>5 DEF SalesInv

LEMMA PaySales ==
    ASSUME Inv, NEW f \in Forms, Pay(f), UNCHANGED auctionVars PROVE SalesInv'
<1>. DEFINE u == UserOf[f]
<1>1. /\ TypeOK /\ BalanceIsPaid /\ u \in Users /\ Budget[f] \in Nat
      /\ chosen[f] \in Rows /\ account[chosen[f]] # None /\ account[chosen[f]].email = u
      /\ account' = account /\ ad' = ad /\ queue' = queue /\ begin' = begin /\ token' = token
  BY ChosenRow, CampaignAssumption DEF Inv, SalesInv, Pay, Settled, auctionVars
<1>2. \A v \in Users : paid[v] \in Nat /\ paid'[v] \in Nat /\ paid[v] <= paid'[v]
  BY <1>1 DEF Pay, TypeOK, CampaignTypeOK
<1>3. BalanceIsPaid'
  <2>1. ASSUME NEW r \in Rows, account[r] = None PROVE balance'[r] = 0
    BY <1>1, <2>1 DEF Pay, BalanceIsPaid, TypeOK, CampaignTypeOK
  <2>2. ASSUME NEW r \in Rows, account[r] # None
        PROVE  balance'[r] <= paid'[account[r].email]
    <3>1. account[r].email \in Users
      BY <1>1, <2>2, RowIsAccount DEF Account
    <3>2. balance[r] <= paid[account[r].email] /\ balance[r] \in Int
      BY <1>1, <2>2 DEF BalanceIsPaid, TypeOK, CampaignTypeOK
    <3>3. CASE r = chosen[f]
      BY <1>1, <3>2, <3>3 DEF Pay, TypeOK, CampaignTypeOK
    <3>4. CASE r # chosen[f]
      <4>1. balance'[r] = balance[r]
        BY <1>1, <3>4 DEF Pay, TypeOK, CampaignTypeOK
      <4>. QED BY <1>2, <3>1, <3>2, <4>1
    <3>. QED BY <3>3, <3>4
  <2>. QED BY <1>1, <2>1, <2>2 DEF BalanceIsPaid
<1>4. ASSUME NEW b \in Begins PROVE InTheRunning(b)' /\ Sold(b)'
  <2>1. InTheRunning(b) /\ Sold(b) /\ begin[b].ads \subseteq Forms
    BY <1>1 DEF Inv, SalesInv, TypeOK
  <2>2. \A g \in Forms : Charge(g) \in Nat /\ UserOf[g] \in Users
    BY CampaignAssumption, ChargeIsNat DEF Charge
  <2>3. InTheRunning(b)'
    BY <1>1, <1>2, <2>1, <2>2 DEF InTheRunning, Charge
  <2>4. Sold(b)'
    BY <1>1, <1>2, <2>1, <2>2, TokenOfSale DEF Sold
  <2>. QED BY <2>3, <2>4
<1>. QED BY <1>1, <1>3, <1>4 DEF SalesInv, Inv

\* The reads of an auction: each bid still in the running had been decided on, and
\* after the second read its maximum was paid for.
LEMMA SelectSales ==
    ASSUME Inv, NEW b \in Begins, SelectCandidates(b) PROVE SalesInv'
<1>1. TypeOK /\ UNCHANGED campaignVars
      /\ begin' = [begin EXCEPT ![b] = [at |-> "balances", ads |-> Serving]]
      /\ token' = [token EXCEPT ![b] = None]
  BY DEF Inv, SelectCandidates, Advance, Forget
<1>2. ASSUME NEW c \in Begins PROVE InTheRunning(c)' /\ Sold(c)'
  <2>1. InTheRunning(c) /\ Sold(c)
    BY DEF Inv, SalesInv
  <2>2. CASE c = b
    <3>1. begin'[c] = [at |-> "balances", ads |-> Serving] /\ token'[c] = None
      BY <1>1, <2>2 DEF TypeOK
    <3>. QED BY <1>1, <3>1 DEF InTheRunning, Sold, Serving, campaignVars
  <2>3. CASE c # b
    BY <1>1, <2>1, <2>3 DEF InTheRunning, Sold, Charge, TypeOK, campaignVars, money
  <2>. QED BY <2>2, <2>3
<1>. QED BY <1>1, <1>2 DEF Inv, SalesInv, BalanceIsPaid, campaignVars, money

LEMMA SumSales ==
    ASSUME Inv, NEW b \in Begins, SumBalances(b) PROVE SalesInv'
<1>. DEFINE solvent == {f \in begin[b].ads : Solvent(f)}
<1>1. TypeOK /\ UNCHANGED campaignVars /\ token' = token
      /\ begin' = [begin EXCEPT ![b] = [at |-> "spend", ads |-> solvent]]
  BY DEF Inv, SumBalances, Advance
<1>2. ASSUME NEW f \in solvent
      PROVE  ad[f] # None /\ ad[f].moderation # "pending" /\ Charge(f) <= paid[UserOf[f]]
  <2>1. f \in Forms /\ ad[f] # None /\ ad[f].moderation # "pending" /\ Solvent(f)
    BY <1>1 DEF Inv, SalesInv, InTheRunning, TypeOK
  <2>2. balance[ad[f].account] <= paid[UserOf[f]] /\ ad[f].account \in Rows
    BY <2>1, BalanceOfAd
  <2>3. balance[ad[f].account] \in Int /\ paid[UserOf[f]] \in Int /\ Charge(f) \in Int
    BY <1>1, <2>1, <2>2, CampaignAssumption, ChargeIsNat DEF TypeOK, CampaignTypeOK, Charge
  <2>. QED BY <2>1, <2>2, <2>3 DEF Solvent
<1>3. ASSUME NEW c \in Begins PROVE InTheRunning(c)' /\ Sold(c)'
  <2>1. InTheRunning(c) /\ Sold(c)
    BY DEF Inv, SalesInv
  <2>2. CASE c = b
    <3>1. begin'[c].ads = solvent
      BY <1>1, <2>2 DEF TypeOK
    <3>2. InTheRunning(c)'
      BY <1>1, <1>2, <3>1 DEF InTheRunning, Charge, campaignVars, money
    <3>. QED BY <1>1, <2>1, <3>2 DEF Sold, campaignVars, money
  <2>3. CASE c # b
    BY <1>1, <2>1, <2>3 DEF InTheRunning, Sold, Charge, TypeOK, campaignVars, money
  <2>. QED BY <2>2, <2>3
<1>. QED BY <1>1, <1>3 DEF Inv, SalesInv, BalanceIsPaid, campaignVars, money

LEMMA PickSales ==
    ASSUME Inv, NEW b \in Begins, PickWinner(b) PROVE SalesInv'
<1>. DEFINE eligible == {f \in begin[b].ads : InBudget(f)}
<1>1. TypeOK /\ UNCHANGED campaignVars /\ begin[b].at = "spend" /\ eligible \in SUBSET Forms
      /\ begin' = [begin EXCEPT ![b] = [at |-> "idle", ads |-> {}]]
  BY DEF Inv, PickWinner, Advance, TypeOK
<1>2. ASSUME NEW c \in Begins PROVE Sold(c)'
  <2>1. Sold(c)
    BY DEF Inv, SalesInv
  <2>2. CASE token'[c] = token[c]
    BY <1>1, <2>1, <2>2 DEF Sold, campaignVars, money
  <2>3. CASE token'[c] # token[c]
    <3>1. eligible # {}
      BY <2>3 DEF PickWinner
    <3>2. PICK winner \in eligible : \E second \in SecondPrices(eligible, winner) :
              token' = [token EXCEPT ![b] =
                [ad |-> winner,
                 charge |-> ImpressionCharge(ClearingCpm(MaxCpm[winner], second))]]
      BY <3>1 DEF PickWinner
    <3>3. PICK second \in SecondPrices(eligible, winner) :
              token' = [token EXCEPT ![b] =
                [ad |-> winner,
                 charge |-> ImpressionCharge(ClearingCpm(MaxCpm[winner], second))]]
      BY <3>2
    <3>4. /\ token'[c].ad = winner
          /\ token'[c].charge = ImpressionCharge(ClearingCpm(MaxCpm[winner], second))
      BY <1>1, <2>3, <3>3 DEF TypeOK
    <3>5. winner \in Forms /\ token'[c].charge \in Nat /\ token'[c].charge <= Charge(winner)
      BY <1>1, <3>4, SecondIsCpm, ChargeWithinBid
    <3>6. ad[winner] # None /\ ad[winner].moderation # "pending"
          /\ Charge(winner) <= paid[UserOf[winner]]
      BY <1>1 DEF Inv, SalesInv, InTheRunning
    <3>7. Charge(winner) \in Nat /\ paid[UserOf[winner]] \in Nat
      BY <1>1, <3>5, CampaignAssumption, ChargeIsNat DEF TypeOK, CampaignTypeOK, Charge
    <3>8. token'[c].charge <= paid[UserOf[winner]]
      BY <3>5, <3>6, <3>7
    <3>. QED BY <1>1, <3>4, <3>6, <3>8 DEF Sold, campaignVars, money
  <2>. QED BY <2>2, <2>3
<1>3. ASSUME NEW c \in Begins PROVE InTheRunning(c)'
  BY <1>1 DEF Inv, SalesInv, InTheRunning, Charge, TypeOK, campaignVars, money
<1>. QED BY <1>1, <1>2, <1>3 DEF Inv, SalesInv, BalanceIsPaid, campaignVars, money

LEMMA SalesStep ==
    ASSUME Inv, [Next]_vars PROVE SalesInv'
<1>. USE DEF money, forms, campaignVars, auctionVars
<1>1. TypeOK /\ TypeOK' /\ \A m \in Moderators : \A f \in queue[m] : ad[f] # None
  BY TypeStep DEF Inv, SalesInv
<1>2. ASSUME balance' = balance, paid' = paid PROVE MoneyKept
  BY <1>1, <1>2 DEF MoneyKept, TypeOK, CampaignTypeOK
<1>3. ASSUME NEW f \in Forms, Bid(f), UNCHANGED auctionVars PROVE SalesInv'
  <2>1. CASE CommitBid(f)
    BY <1>1, <1>3, <2>1, CommitSales
  <2>2. CASE FindAccount(f) \/ InsertAccount(f) \/ ClaimAccount(f)
    BY <1>1, <1>2, <1>3, <2>2, SameKept, KeepSales DEF FindAccount, InsertAccount, ClaimAccount
  <2>. QED BY <1>3, <2>1, <2>2 DEF Bid
<1>4. ASSUME NEW f \in Forms, Checkout(f), UNCHANGED auctionVars PROVE SalesInv'
  <2>1. RowsKept
    BY <1>4, SaveKeepsRows, SameKept DEF Checkout, OpenCheckout, CreateCustomer, CreateSession
  <2>2. ad' = ad /\ balance' = balance /\ paid' = paid /\ queue' = queue
    BY <1>4 DEF Checkout, OpenCheckout, CreateCustomer, SaveCustomer, CreateSession
  <2>. QED BY <1>1, <1>2, <1>4, <2>1, <2>2, SameKept, KeepSales
<1>5. ASSUME NEW f \in Forms, Pay(f), UNCHANGED auctionVars PROVE SalesInv'
  BY <1>5, PaySales
<1>6. ASSUME NEW f \in Forms, Refund(f), UNCHANGED auctionVars PROVE SalesInv'
  <2>1. chosen[f] \in Rows /\ account[chosen[f]] # None /\ Budget[f] \in Nat
    BY <1>6, ChosenRow, CampaignAssumption DEF Refund, Settled
  <2>2. MoneyKept
    BY <1>1, <1>6, <2>1 DEF Refund, MoneyKept, TypeOK, CampaignTypeOK
  <2>. QED BY <1>1, <1>6, <2>2, SameKept, KeepSales DEF Refund
<1>7. ASSUME NEW f \in Forms, Fail(f), UNCHANGED auctionVars PROVE SalesInv'
  BY <1>1, <1>2, <1>7, SameKept, KeepSales DEF Fail
<1>8. ASSUME NEW m \in Moderators, LoadQueue(m), UNCHANGED auctionVars PROVE SalesInv'
  <2>1. \A n \in Moderators : \A f \in queue'[n] : ad[f] # None
    BY <1>1, <1>8 DEF LoadQueue, Pending, TypeOK, CampaignTypeOK
  <2>. QED BY <1>1, <1>2, <1>8, <2>1, SameKept, KeepSales DEF LoadQueue
<1>9. ASSUME NEW m \in Moderators, NEW f \in Forms, NEW decision \in {"approved", "rejected"},
             Decide(m, f, decision), UNCHANGED auctionVars
      PROVE  SalesInv'
  <2>1. \A n \in Moderators : \A g \in queue'[n] : ad[g] # None
    BY <1>1, <1>9 DEF Decide, TypeOK, CampaignTypeOK
  <2>. QED BY <1>1, <1>2, <1>9, <2>1, DecideKeepsAds, SameKept, KeepSales DEF Decide
<1>10. ASSUME NEW b \in Begins, Redeem(b) PROVE SalesInv'
  BY <1>1, <1>10, RedeemKeeps, SameKept, KeepSales DEF Redeem
<1>11. ASSUME NEW b \in Begins, Click(b) PROVE SalesInv'
  BY <1>1, <1>2, <1>11, SameKept, KeepSales DEF Click
<1>12. CASE UNCHANGED vars
  BY <1>1, <1>2, <1>12, SameKept, KeepSales DEF vars
<1>. QED BY <1>3, <1>4, <1>5, <1>6, <1>7, <1>8, <1>9, <1>10, <1>11, <1>12,
            SelectSales, SumSales, PickSales DEF Next, CampaignNext

(***************************************************************************)
(* Theorems.                                                               *)
(***************************************************************************)
LEMMA InvHolds == Spec => []Inv
<1>1. Init => Inv
  BY InitTypeOK, InitAccounts DEF Inv
<1>2. Inv /\ [Next]_vars => Inv'
  BY TypeStep, AccountsStep, SalesStep DEF Inv
<1>. QED BY <1>1, <1>2, PTL DEF Spec

\* Every variable has its type, the charge of every token being a natural number:
\* the ad a redemption, a click or a decision works on exists.
THEOREM CampaignTypeCorrect == Spec => []TypeOK
<1>1. Inv => TypeOK
  BY DEF Inv
<1>. QED BY <1>1, InvHolds, PTL

\* The find-or-create of the bid route: all the bids of a user are on one account,
\* and it owns it (bids/route.ts:71-120).
THEOREM BidsCanBeFunded == Spec => []BidsAreFundable
<1>1. Inv => BidsAreFundable
  BY BalanceOfAd DEF Inv, AccountsInv, Relies, BidsAreFundable
<1>. QED BY <1>1, InvHolds, PTL

\* The three reads of the auction: what it sells was decided on and paid for, however
\* bids, decisions, payments and refunds fall between them (engine.ts:52-163).
THEOREM SalesAreCovered == Spec => []SoldWasReviewedAndPaid
<1>1. Inv => SoldWasReviewedAndPaid
  BY DEF Inv, SalesInv, Sold, SoldWasReviewedAndPaid
<1>. QED BY <1>1, InvHolds, PTL

(***************************************************************************)
(* Prices and budgets.  A bid may win while its budget has room for its    *)
(* maximum, but the tokens it won are redeemed later, in any order: that   *)
(* they never overspend it, and are worth nothing once it is depleted,     *)
(* rests on what a token may cost.                                         *)
(***************************************************************************)
FloorCharge == ImpressionCharge(MinBidCpm)

PricesInRange ==
    \A b \in Begins : token[b] # None =>
        FloorCharge <= token[b].charge /\ token[b].charge <= Charge(token[b].ad)

BudgetsKept == \A f \in Forms : spent[f] <= Budget[f]

DepletedIsSpent ==
    \A f \in Forms :
        ad[f] # None /\ ad[f].status = "depleted" => Budget[f] - spent[f] < FloorCharge

PricesInv == PricesInRange /\ BudgetsKept /\ DepletedIsSpent

LEMMA FloorIsNat == FloorCharge \in Nat
  BY PriceAssumption, ChargeIsNat DEF FloorCharge

\* The clearing price is neither under the floor nor over the bid.
LEMMA ClearingInRange ==
    ASSUME NEW f \in Forms, NEW second \in Nat
    PROVE  /\ FloorCharge <= ImpressionCharge(ClearingCpm(MaxCpm[f], second))
           /\ ImpressionCharge(ClearingCpm(MaxCpm[f], second)) <= Charge(f)
<1>1. MinBidCpm \in Nat /\ MaxCpm[f] \in Nat /\ MinBidCpm <= MaxCpm[f] /\ GspIncrement \in Nat
  BY CampaignAssumption, PriceAssumption
<1>2. ClearingCpm(MaxCpm[f], second) \in Nat /\ MinBidCpm <= ClearingCpm(MaxCpm[f], second)
  BY <1>1 DEF ClearingCpm, Lesser, Greater
<1>3. FloorCharge <= ImpressionCharge(ClearingCpm(MaxCpm[f], second))
  BY <1>1, <1>2, ChargeIsMonotone DEF FloorCharge
<1>. QED BY <1>3, ChargeWithinBid

\* What a step may do to the ads: those that are there stay on their accounts and are
\* not moderated anew, a depleted one stays depleted, and a new one is active.
AdsGoOn ==
    \A f \in Forms :
        /\ ad[f] # None => /\ ad'[f] # None
                           /\ ad'[f].account = ad[f].account
                           /\ ad[f].moderation # "pending" => ad'[f].moderation # "pending"
                           /\ ad[f].status = "depleted" => ad'[f].status = "depleted"
        /\ ad[f] = None /\ ad'[f] # None => ad'[f].status = "active"

\* The steps that deplete no ad.
NoneDepleted ==
    \A f \in Forms :
        ad'[f] # None /\ ad'[f].status = "depleted" => ad[f] # None /\ ad[f].status = "depleted"

LEMMA SameAdsGoOn == ad' = ad => AdsGoOn /\ NoneDepleted
  BY DEF AdsGoOn, NoneDepleted

LEMMA CommitAdsGoOn ==
    ASSUME Inv, NEW f \in Forms, CommitBid(f) PROVE AdsGoOn /\ NoneDepleted
<1>. DEFINE new == [account |-> chosen[f], moderation |-> "pending", status |-> "active"]
<1>1. ad[f] = None
  BY DEF Inv, AccountsInv, Relies, CommitBid, Placing
<1>2. ad \in [Forms -> Ad \cup {None}] /\ new.status = "active"
  BY DEF Inv, TypeOK, CampaignTypeOK
<1>3. ad'[f] = new /\ \A g \in Forms \ {f} : ad'[g] = ad[g]
  BY <1>2 DEF CommitBid
<1>. HIDE DEF new
<1>. QED BY <1>1, <1>2, <1>3 DEF AdsGoOn, NoneDepleted

LEMMA DecideAdsGoOn ==
    ASSUME Inv, NEW m \in Moderators, NEW f \in Forms,
           NEW decision \in {"approved", "rejected"}, Decide(m, f, decision)
    PROVE  AdsGoOn /\ NoneDepleted
<1>1. AdsKept
  BY DecideKeepsAds
<1>2. ad \in [Forms -> Ad \cup {None}] /\ ad' = [ad EXCEPT ![f].moderation = decision] /\ ad[f] # None
  BY DEF Inv, SalesInv, TypeOK, CampaignTypeOK, Decide
<1>3. \A g \in Forms : ad[g] # None => ad'[g].status = ad[g].status
  BY <1>2 DEF Ad
<1>. QED BY <1>1, <1>3 DEF AdsKept, AdsGoOn, NoneDepleted

\* The campaigns, without the auction.
LEMMA CampaignAdsGoOn ==
    ASSUME Inv, CampaignNext PROVE AdsGoOn /\ NoneDepleted
<1>1. ASSUME NEW f \in Forms, Bid(f) PROVE AdsGoOn /\ NoneDepleted
  BY <1>1, CommitAdsGoOn, SameAdsGoOn DEF Bid, FindAccount, InsertAccount, ClaimAccount
<1>2. ASSUME NEW f \in Forms, Checkout(f) \/ Pay(f) \/ Refund(f) \/ Fail(f)
      PROVE  AdsGoOn /\ NoneDepleted
  BY <1>2, SameAdsGoOn DEF Checkout, OpenCheckout, CreateCustomer, SaveCustomer, CreateSession,
                           Pay, Refund, Fail
<1>3. ASSUME NEW m \in Moderators, LoadQueue(m) PROVE AdsGoOn /\ NoneDepleted
  BY <1>3, SameAdsGoOn DEF LoadQueue
<1>. QED BY <1>1, <1>2, <1>3, DecideAdsGoOn DEF CampaignNext

\* A redemption of a token costs at least the floor, so it never bills a depleted ad;
\* it depletes the ad exactly when what is left of the budget is less than the floor.
LEMMA RedeemSpends ==
    ASSUME Inv, PricesInv, NEW b \in Begins, Redeem(b)
    PROVE  LET f == token[b].ad IN
           /\ f \in Forms /\ ad[f] # None /\ ad[f].status = "active"
           /\ spent'[f] = spent[f] + token[b].charge /\ spent'[f] <= Budget[f]
           /\ \A g \in Forms \ {f} : spent'[g] = spent[g] /\ ad'[g] = ad[g]
           /\ ad'[f] # None /\ ad'[f].account = ad[f].account
           /\ ad'[f].moderation = ad[f].moderation
           /\ ad'[f].status = "depleted" => Budget[f] - spent'[f] < FloorCharge
<1>. DEFINE f == token[b].ad
            c == token[b].charge
            depleted == [ad[f] EXCEPT !.status = "depleted"]
<1>1. f \in Forms /\ c \in Nat /\ ad[f] # None /\ ad[f] \in Ad /\ TypeOK
  BY TokenOfSale DEF Redeem, Inv, SalesInv, Sold, TypeOK, CampaignTypeOK
<1>2. spent \in [Forms -> Nat] /\ ad \in [Forms -> Ad \cup {None}] /\ Budget[f] \in Nat
  BY <1>1, CampaignAssumption DEF TypeOK, CampaignTypeOK
<1>3. /\ spent' = [spent EXCEPT ![f] = spent[f] + c] /\ spent[f] + c <= Budget[f]
      /\ ad' = IF Budget[f] - (spent[f] + c) < FloorCharge
               THEN [ad EXCEPT ![f].status = "depleted"] ELSE ad
  BY DEF Redeem, FloorCharge
<1>4. FloorCharge <= c
  BY DEF PricesInv, PricesInRange, Redeem
<1>5. depleted.account = ad[f].account /\ depleted.moderation = ad[f].moderation
      /\ depleted # None /\ depleted.status = "depleted"
  <2>1. depleted \in Ad
    BY <1>1 DEF Ad
  <2>. QED BY <1>1, <2>1, RecordAssumption DEF Ad
<1>. HIDE DEF f, c, depleted
<1>6. spent'[f] = spent[f] + c /\ \A g \in Forms \ {f} : spent'[g] = spent[g]
  BY <1>1, <1>2, <1>3
<1>7. ad[f].status = "active"
  <2>1. ASSUME ad[f].status = "depleted" PROVE FALSE
    <3>1. Budget[f] - spent[f] < FloorCharge
      BY <1>1, <2>1 DEF PricesInv, DepletedIsSpent
    <3>. QED BY <1>1, <1>2, <1>3, <1>4, <3>1, FloorIsNat
  <2>. QED BY <1>1, <2>1 DEF Ad
<1>8. ad' = ad \/ ad' = [ad EXCEPT ![f] = depleted]
  BY <1>3 DEF depleted
<1>9. /\ \A g \in Forms \ {f} : ad'[g] = ad[g]
      /\ ad'[f] # None /\ ad'[f].account = ad[f].account /\ ad'[f].moderation = ad[f].moderation
  BY <1>1, <1>2, <1>5, <1>8
<1>10. ad'[f].status = "depleted" => Budget[f] - spent'[f] < FloorCharge
  BY <1>3, <1>6, <1>7
<1>11. spent'[f] <= Budget[f]
  BY <1>3, <1>6
<1>. QED BY <1>1, <1>6, <1>7, <1>9, <1>10, <1>11 DEF f, c

LEMMA RedeemAdsGoOn ==
    ASSUME Inv, PricesInv, NEW b \in Begins, Redeem(b) PROVE AdsGoOn
<1>. DEFINE f == token[b].ad
<1>1. /\ f \in Forms /\ ad[f] # None /\ ad[f].status = "active"
      /\ \A g \in Forms \ {f} : ad'[g] = ad[g]
      /\ ad'[f] # None /\ ad'[f].account = ad[f].account /\ ad'[f].moderation = ad[f].moderation
  BY RedeemSpends
<1>. HIDE DEF f
<1>. QED BY <1>1 DEF AdsGoOn

LEMMA RedeemPrices ==
    ASSUME Inv, PricesInv, NEW b \in Begins, Redeem(b) PROVE PricesInv'
<1>. DEFINE f == token[b].ad
<1>1. /\ f \in Forms /\ spent'[f] <= Budget[f] /\ ad[f] # None
      /\ \A g \in Forms \ {f} : spent'[g] = spent[g] /\ ad'[g] = ad[g]
      /\ ad'[f].status = "depleted" => Budget[f] - spent'[f] < FloorCharge
  BY RedeemSpends
<1>2. token' = token
  BY DEF Redeem
<1>. HIDE DEF f
<1>3. BudgetsKept' /\ DepletedIsSpent'
  BY <1>1 DEF PricesInv, BudgetsKept, DepletedIsSpent
<1>4. PricesInRange'
  BY <1>2 DEF PricesInv, PricesInRange, Charge
<1>. QED BY <1>3, <1>4 DEF PricesInv

\* The steps that sell nothing new, bill nothing and deplete nothing.
LEMMA PricesFrame ==
    ASSUME PricesInv, NoneDepleted, spent' = spent,
           \A b \in Begins : token'[b] \in {token[b], None}
    PROVE  PricesInv'
<1>1. PricesInRange'
  BY DEF PricesInv, PricesInRange, Charge
<1>2. BudgetsKept' /\ DepletedIsSpent'
  BY DEF PricesInv, BudgetsKept, DepletedIsSpent, NoneDepleted
<1>. QED BY <1>1, <1>2 DEF PricesInv

LEMMA PickPrices ==
    ASSUME Inv, PricesInv, NEW b \in Begins, PickWinner(b) PROVE PricesInv'
<1>. DEFINE eligible == {f \in begin[b].ads : InBudget(f)}
<1>1. /\ TypeOK /\ ad' = ad /\ spent' = spent /\ eligible \in SUBSET Forms
  BY DEF Inv, PickWinner, TypeOK, campaignVars
<1>2. CASE token' = token
  BY <1>1, <1>2, SameAdsGoOn, PricesFrame
<1>3. CASE token' # token
  <2>0. PICK winner \in eligible : \E second \in SecondPrices(eligible, winner) :
            token' = [token EXCEPT ![b] =
              [ad |-> winner,
               charge |-> ImpressionCharge(ClearingCpm(MaxCpm[winner], second))]]
    BY <1>3 DEF PickWinner
  <2>1. PICK second \in SecondPrices(eligible, winner) :
            token' = [token EXCEPT ![b] =
              [ad |-> winner,
               charge |-> ImpressionCharge(ClearingCpm(MaxCpm[winner], second))]]
    BY <2>0
  <2>2. winner \in Forms /\ second \in Nat
    BY <1>1, SecondIsCpm
  <2>. DEFINE c == ImpressionCharge(ClearingCpm(MaxCpm[winner], second))
              new == [ad |-> winner, charge |-> c]
  <2>3. FloorCharge <= new.charge /\ new.charge <= Charge(new.ad)
    BY <2>2, ClearingInRange
  <2>4. token'[b] = new /\ \A d \in Begins \ {b} : token'[d] = token[d]
    BY <1>1, <2>1 DEF TypeOK
  <2>. HIDE DEF new
  <2>5. PricesInRange'
    BY <2>3, <2>4 DEF PricesInv, PricesInRange, Charge
  <2>6. BudgetsKept' /\ DepletedIsSpent'
    BY <1>1 DEF PricesInv, BudgetsKept, DepletedIsSpent
  <2>. QED BY <2>5, <2>6 DEF PricesInv
<1>. QED BY <1>2, <1>3

LEMMA PricesStep ==
    ASSUME Inv, PricesInv, [Next]_vars PROVE PricesInv' /\ AdsGoOn
<1>1. CASE CampaignNext /\ UNCHANGED auctionVars
  BY <1>1, CampaignAdsGoOn, PricesFrame DEF auctionVars
<1>2. ASSUME NEW b \in Begins, SelectCandidates(b) PROVE PricesInv' /\ AdsGoOn
  <2>1. ad' = ad /\ spent' = spent /\ \A c \in Begins : token'[c] \in {token[c], None}
    BY <1>2 DEF SelectCandidates, Forget, campaignVars, Inv, TypeOK
  <2>. QED BY <2>1, SameAdsGoOn, PricesFrame
<1>3. ASSUME NEW b \in Begins, SumBalances(b) \/ Click(b) PROVE PricesInv' /\ AdsGoOn
  <2>1. ad' = ad /\ spent' = spent /\ token' = token
    BY <1>3 DEF SumBalances, Click, campaignVars
  <2>. QED BY <2>1, SameAdsGoOn, PricesFrame
<1>4. ASSUME NEW b \in Begins, PickWinner(b) PROVE PricesInv' /\ AdsGoOn
  BY <1>4, PickPrices, SameAdsGoOn DEF PickWinner, campaignVars
<1>5. ASSUME NEW b \in Begins, Redeem(b) PROVE PricesInv' /\ AdsGoOn
  BY <1>5, RedeemPrices, RedeemAdsGoOn
<1>6. CASE UNCHANGED vars
  BY <1>6, SameAdsGoOn, PricesFrame DEF vars, campaignVars, auctionVars
<1>. QED BY <1>1, <1>2, <1>3, <1>4, <1>5, <1>6 DEF Next

LEMMA PricesHold == Spec => [](Inv /\ PricesInv)
<1>1. Init => PricesInv
  BY CampaignAssumption
     DEF Init, CampaignInit, PricesInv, PricesInRange, BudgetsKept, DepletedIsSpent
<1>2. Inv /\ PricesInv /\ [Next]_vars => PricesInv'
  BY PricesStep
<1>. QED BY <1>1, <1>2, InvHolds, PTL DEF Spec

\* What is sold costs between the floor and the winner's own maximum, and however many
\* tokens of an ad are out, they never spend more than its budget (engine.ts:98-163,
\* redeem/route.ts:126-143).
THEOREM BudgetsAreKept == Spec => [](PricesInRange /\ BudgetsKept)
<1>1. Inv /\ PricesInv => PricesInRange /\ BudgetsKept
  BY DEF PricesInv
<1>. QED BY <1>1, PricesHold, PTL

\* An ad never changes its account and never goes back to be moderated, and a depleted
\* one is final: it stays depleted, and the tokens sold before are never billed on it
\* (redeem/route.ts:207-214).
AdsAreFinal ==
    [][\A f \in Forms : ad[f] # None =>
          /\ ad'[f] # None /\ ad'[f].account = ad[f].account
          /\ ad[f].moderation # "pending" => ad'[f].moderation # "pending"
          /\ ad[f].status = "depleted" => ad'[f].status = "depleted" /\ spent'[f] = spent[f]]_vars

THEOREM DepletedIsFinal == Spec => AdsAreFinal
<1>. DEFINE Final ==
       \A f \in Forms : ad[f] # None =>
          /\ ad'[f] # None /\ ad'[f].account = ad[f].account
          /\ ad[f].moderation # "pending" => ad'[f].moderation # "pending"
          /\ ad[f].status = "depleted" => ad'[f].status = "depleted" /\ spent'[f] = spent[f]
<1>1. Inv /\ PricesInv /\ [Next]_vars => [Final]_vars
  <2>. SUFFICES ASSUME Inv, PricesInv, [Next]_vars PROVE Final
    OBVIOUS
  <2>1. AdsGoOn
    BY PricesStep
  <2>2. ASSUME NEW f \in Forms, ad[f] # None, ad[f].status = "depleted"
        PROVE  spent'[f] = spent[f]
    <3>1. ASSUME NEW b \in Begins, Redeem(b) PROVE spent'[f] = spent[f]
      <4>1. /\ ad[token[b].ad].status = "active"
            /\ \A g \in Forms \ {token[b].ad} : spent'[g] = spent[g]
        BY <3>1, RedeemSpends
      <4>. QED BY <2>2, <4>1
    <3>2. CASE spent' = spent
      BY <3>2
    <3>. QED BY <3>1, <3>2 DEF Next, SelectCandidates, SumBalances, PickWinner, Click,
                               auctionVars, vars
  <2>. QED BY <2>1, <2>2 DEF AdsGoOn
<1>. QED BY <1>1, PricesHold, PTL DEF Spec, AdsAreFinal
===============================================================================
