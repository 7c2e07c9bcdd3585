--------------------------- MODULE SettlementProofs ---------------------------
(***************************************************************************)
(* What holds of Settlement for every set of tokens, requests, publishers, *)
(* devices, advertisers and ads, every budget, rate and window.            *)
(***************************************************************************)
EXTENDS SettlementRefinement, FiniteSetTheorems, TLAPS

(***************************************************************************)
(* Prices and shares.                                                      *)
(***************************************************************************)
LEMMA ChargeIsNat ==
  ASSUME NEW cpm \in Nat
  PROVE  ImpressionCharge(cpm) \in Nat
  BY DEF ImpressionCharge

LEMMA ChargeIsMonotone ==
  ASSUME NEW a \in Nat, NEW b \in Nat, a <= b
  PROVE  ImpressionCharge(a) <= ImpressionCharge(b)
  BY DEF ImpressionCharge

LEMMA ClearingIsNat ==
  ASSUME NEW maxCpm \in Nat, NEW second \in Nat
  PROVE  ClearingCpm(maxCpm, second) \in Nat
  BY PriceAssumption DEF ClearingCpm, Lesser, Greater

\* What the winner of the auction pays (engine.ts:144-150): at least the floor, at
\* most its bid, one increment over the second price while its bid allows it, never
\* less for more competition; and its charge is at most that of its bid, which is what
\* the auction compared with the balance and the budget.
THEOREM ClearingWithinBid ==
  ASSUME NEW maxCpm \in Nat, NEW second \in Nat, maxCpm >= MinBidCpm
  PROVE  LET price == ClearingCpm(maxCpm, second) IN
         /\ price >= MinBidCpm
         /\ price <= maxCpm
         /\ second + GspIncrement <= maxCpm => second + GspIncrement <= price
         /\ \A more \in Nat : more >= second => ClearingCpm(maxCpm, more) >= price
         /\ ImpressionCharge(price) <= ImpressionCharge(maxCpm)
<1>1. ClearingCpm(maxCpm, second) \in MinBidCpm..maxCpm
  BY PriceAssumption DEF ClearingCpm, Lesser, Greater
<1>2. second + GspIncrement <= maxCpm =>
        second + GspIncrement <= ClearingCpm(maxCpm, second)
  BY PriceAssumption DEF ClearingCpm, Lesser, Greater
<1>3. ASSUME NEW more \in Nat, more >= second
      PROVE  ClearingCpm(maxCpm, more) >= ClearingCpm(maxCpm, second)
  BY <1>3, PriceAssumption DEF ClearingCpm, Lesser, Greater
<1>4. ImpressionCharge(ClearingCpm(maxCpm, second)) <= ImpressionCharge(maxCpm)
  BY <1>1, ClearingIsNat, ChargeIsMonotone, PriceAssumption
<1>. QED
  BY <1>1, <1>2, <1>3, <1>4, PriceAssumption

\* The split of a charge never leaves either side negative and loses nothing, and its
\* two roundings differ by at most the one indivisible millicent
\* (publisherAccrualMillicents and settleImpression).
THEOREM SplitIsExact ==
  ASSUME NEW charge \in Nat, NEW roundUp \in BOOLEAN
  PROVE  /\ PublisherAccrual(charge, roundUp) \in 0..charge
         /\ PlatformFee(charge, roundUp) \in 0..charge
         /\ PublisherAccrual(charge, roundUp) + PlatformFee(charge, roundUp) = charge
         /\ PublisherAccrual(charge, TRUE) - PublisherAccrual(charge, FALSE) \in {0, 1}
<1>. DEFINE exact == charge * ShareBps
            down  == exact \div 10000
            up    == (exact + 9999) \div 10000
<1>1. exact \in Nat /\ exact <= charge * 10000
  <2>1. \A a \in Nat : a * ShareBps \in Nat
    BY ShareAssumption
  <2>2. \A a, b \in Nat : b <= 10000 => a * b <= a * 10000
    OBVIOUS
  <2>. QED BY <2>1, <2>2, ShareAssumption
<1>2. PublisherAccrual(charge, roundUp) = up \/ PublisherAccrual(charge, roundUp) = down
  BY DEF PublisherAccrual
<1>3. PublisherAccrual(charge, TRUE) - PublisherAccrual(charge, FALSE) = up - down
  BY DEF PublisherAccrual
<1>. HIDE DEF exact
<1>4. down \in 0..charge /\ up \in 0..charge /\ up - down \in {0, 1}
  BY <1>1
<1>. HIDE DEF down, up
<1>5. PublisherAccrual(charge, roundUp) \in 0..charge
  BY <1>2, <1>4
<1>6. /\ PlatformFee(charge, roundUp) \in 0..charge
      /\ PublisherAccrual(charge, roundUp) + PlatformFee(charge, roundUp) = charge
  BY <1>5 DEF PlatformFee
<1>7. PublisherAccrual(charge, TRUE) - PublisherAccrual(charge, FALSE) \in {0, 1}
  BY <1>3, <1>4
<1>. QED
  BY <1>5, <1>6, <1>7

(***************************************************************************)
(* Sums of money over a finite set, by counting the units they add up: two *)
(* disjoint sets of units have as many units as both together, which needs *)
(* no induction over the set that is summed.                               *)
(***************************************************************************)
\* The units of the sum of f over S: one for every x in S and every number below f[x].
Units(f, S) == {u \in S \X Nat : u[2] < f[u[1]]}

LEMMA UnitsOfOne ==
  ASSUME NEW f, NEW x, f[x] \in Nat
  PROVE  IsFiniteSet(Units(f, {x})) /\ Cardinality(Units(f, {x})) = f[x]
<1>. DEFINE T == 0..(f[x] - 1)
<1>1. Units(f, {x}) = {x} \X T
  BY DEF Units
<1>2. IsFiniteSet(T) /\ Cardinality(T) = f[x]
  <2>. DEFINE top == f[x] - 1
  <2>1. 0 \in Int /\ top \in Int /\ (0 > top <=> f[x] = 0) /\ top - 0 + 1 = f[x]
    OBVIOUS
  <2>. HIDE DEF top
  <2>2. /\ IsFiniteSet(0..top)
        /\ Cardinality(0..top) = IF 0 > top THEN 0 ELSE top - 0 + 1
    BY <2>1, FS_Interval
  <2>. QED
    BY <2>1, <2>2 DEF top
<1>3. IsFiniteSet({x}) /\ Cardinality({x}) = 1
  BY FS_Singleton
<1>4. IsFiniteSet({x} \X T) /\ Cardinality({x} \X T) = Cardinality({x}) * Cardinality(T)
  BY <1>2, <1>3, FS_Product
<1>. HIDE DEF T
<1>5. Cardinality({x} \X T) = 1 * f[x]
  BY <1>2, <1>3, <1>4
<1>6. 1 * f[x] = f[x]
  OBVIOUS
<1>. QED
  BY <1>1, <1>4, <1>5, <1>6

LEMMA UnitsFinite ==
  ASSUME NEW f, NEW S, IsFiniteSet(S), \A x \in S : f[x] \in Nat
  PROVE  IsFiniteSet(Units(f, S)) /\ Cardinality(Units(f, S)) \in Nat
<1>. DEFINE g == [x \in S |-> Units(f, {x})]
            R == {g[x] : x \in S}
<1>1. g \in Surjection(S, R)
  BY DEF Surjection
<1>2. IsFiniteSet(R)
  BY <1>1, FS_Surjection
<1>3. \A T \in R : IsFiniteSet(T)
  <2>1. ASSUME NEW x \in S PROVE IsFiniteSet(Units(f, {x}))
    BY UnitsOfOne
  <2>. QED
    BY <2>1
<1>4. IsFiniteSet(UNION R)
  BY <1>2, <1>3, FS_UNION
<1>5. Units(f, S) \in SUBSET UNION R
  <2>1. ASSUME NEW u \in Units(f, S) PROVE u \in UNION R
    <3>1. u[1] \in S /\ u \in Units(f, {u[1]}) /\ Units(f, {u[1]}) = g[u[1]]
      BY DEF Units
    <3>2. g[u[1]] \in R
      BY <3>1
    <3>. QED
      BY <3>1, <3>2
  <2>. QED
    BY <2>1
<1>. QED
  BY <1>4, <1>5, FS_Subset, FS_CardinalityType

LEMMA UnitsAdd ==
  ASSUME NEW f, NEW S, NEW x, IsFiniteSet(S), \A y \in S \cup {x} : f[y] \in Nat, x \notin S
  PROVE  Cardinality(Units(f, S \cup {x})) = Cardinality(Units(f, S)) + f[x]
<1>1. Units(f, S \cup {x}) = Units(f, S) \cup Units(f, {x})
  BY DEF Units
<1>2. Units(f, S) \cap Units(f, {x}) = {}
  BY DEF Units
<1>3. Cardinality({}) = 0
  BY FS_EmptySet
<1>4. IsFiniteSet(Units(f, S)) /\ Cardinality(Units(f, S)) \in Nat
  BY UnitsFinite
<1>5. IsFiniteSet(Units(f, {x})) /\ Cardinality(Units(f, {x})) = f[x]
  BY UnitsOfOne
<1>6. Cardinality(Units(f, S) \cup Units(f, {x}))
        = Cardinality(Units(f, S)) + Cardinality(Units(f, {x})) - Cardinality(Units(f, S) \cap Units(f, {x}))
  BY <1>4, <1>5, FS_Union
<1>7. Cardinality(Units(f, S) \cap Units(f, {x})) = 0
  BY <1>2, <1>3
<1>8. Cardinality(Units(f, S) \cup Units(f, {x})) = Cardinality(Units(f, S)) + f[x]
  BY <1>4, <1>5, <1>6, <1>7
<1>. QED
  BY <1>1, <1>8

\* The community modules' sum, a fold in no stated order, counts these units.  The
\* smallest set on which it did not would be non-empty, and right without the element
\* the fold takes first.
LEMMA SumIsUnits ==
  ASSUME NEW f, NEW S, IsFiniteSet(S), \A x \in S : f[x] \in Nat
  PROVE  SumFunctionOnSet(f, S) = Cardinality(Units(f, S))
<1>. DEFINE c(s) == CHOOSE x \in s : TRUE
            good(g) == g = [s \in SUBSET S |-> IF s = {} THEN 0 ELSE f[c(s)] + g[s \ {c(s)}]]
            u == [s \in SUBSET S |-> Cardinality(Units(f, s))]
            iter == CHOOSE g : good(g)
<1>1. SumFunctionOnSet(f, S) = iter[S]
  BY DEF SumFunctionOnSet, FoldFunctionOnSet, MapThenFoldSet
<1>2. ASSUME NEW s \in SUBSET S, s # {}
      PROVE  /\ c(s) \in s /\ s \ {c(s)} \in SUBSET S
             /\ Cardinality(Units(f, s)) = f[c(s)] + Cardinality(Units(f, s \ {c(s)}))
  <2>1. c(s) \in s
    BY <1>2
  <2>. HIDE DEF c
  <2>. DEFINE x == c(s)
              r == s \ {x}
  <2>2. x \in s /\ s = r \cup {x} /\ x \notin r /\ IsFiniteSet(r)
    BY <2>1, FS_Subset
  <2>3. \A y \in r \cup {x} : f[y] \in Nat
    BY <2>2
  <2>. HIDE DEF x, r
  <2>4. Cardinality(Units(f, r \cup {x})) = Cardinality(Units(f, r)) + f[x]
    BY <2>2, <2>3, UnitsAdd
  <2>5. Cardinality(Units(f, r)) \in Nat /\ f[x] \in Nat
    BY <2>2, <2>3, UnitsFinite
  <2>6. r \in SUBSET S
    BY DEF r
  <2>7. Cardinality(Units(f, s)) = f[x] + Cardinality(Units(f, r))
    BY <2>2, <2>4, <2>5
  <2>. QED
    BY <2>2, <2>6, <2>7 DEF x, r
<1>3. Cardinality(Units(f, {})) = 0
  BY FS_EmptySet DEF Units
<1>. HIDE DEF c
<1>4. good(u)
  <2>1. ASSUME NEW s \in SUBSET S
        PROVE  u[s] = IF s = {} THEN 0 ELSE f[c(s)] + u[s \ {c(s)}]
    BY <1>2, <1>3
  <2>. QED
    BY <2>1
<1>5. good(iter)
  BY <1>4
<1>. HIDE DEF iter
<1>6. ASSUME NEW s \in SUBSET S
      PROVE  iter[s] = IF s = {} THEN 0 ELSE f[c(s)] + iter[s \ {c(s)}]
  BY <1>5
<1>7. \A s \in SUBSET S : iter[s] = Cardinality(Units(f, s))
  <2>. DEFINE Bad == {s \in SUBSET S : iter[s] # Cardinality(Units(f, s))}
  <2>. SUFFICES ASSUME Bad # {} PROVE FALSE
    OBVIOUS
  <2>1. Bad \subseteq FiniteSubsetsOf(S)
    BY FS_FiniteSubsetsOfFinite
  <2>2. PICK s \in Bad : \A r \in Bad : ~(<<r, s>> \in StrictSubsetOrdering(S))
    BY <2>1, FS_StrictSubsetOrderingWellFounded, WFMin
  <2>3. s # {}
    BY <1>3, <1>6
  <2>4. c(s) \in s /\ s \ {c(s)} \in SUBSET S
    BY <1>2, <2>3
  <2>5. <<s \ {c(s)}, s>> \in StrictSubsetOrdering(S)
    BY <2>4, FS_Subset DEF StrictSubsetOrdering, FiniteSubsetsOf
  <2>6. iter[s \ {c(s)}] = Cardinality(Units(f, s \ {c(s)}))
    BY <2>2, <2>4, <2>5
  <2>. QED
    BY <1>2, <1>6, <2>3, <2>4, <2>6
<1>. QED
  BY <1>1, <1>7

LEMMA SumOfFunction ==
  ASSUME NEW S, IsFiniteSet(S), NEW f \in [S -> Nat]
  PROVE  /\ SumFunction(f) = Cardinality(Units(f, S))
         /\ SumFunction(f) \in Nat
<1>1. SumFunction(f) = SumFunctionOnSet(f, S)
  BY DEF SumFunction
<1>. QED
  BY <1>1, SumIsUnits, UnitsFinite

LEMMA SumOfNothing ==
  ASSUME NEW f \in [{} -> Nat]
  PROVE  SumFunction(f) = 0
<1>1. Units(f, {}) = {}
  BY DEF Units
<1>. QED
  BY <1>1, FS_EmptySet, SumOfFunction

LEMMA SumOfZeros ==
  ASSUME NEW S, IsFiniteSet(S)
  PROVE  SumFunction([x \in S |-> 0]) = 0
<1>. DEFINE zero == [x \in S |-> 0]
<1>1. zero \in [S -> Nat] /\ Units(zero, S) = {}
  BY DEF Units
<1>. QED
  BY <1>1, SumOfFunction, FS_EmptySet

\* A sum with one element more.
LEMMA SumExtends ==
  ASSUME NEW S, IsFiniteSet(S), NEW x, x \notin S,
         NEW f \in [S -> Nat], NEW g \in [S \cup {x} -> Nat], \A y \in S : g[y] = f[y]
  PROVE  SumFunction(g) = SumFunction(f) + g[x]
<1>1. Units(g, S) = Units(f, S)
  BY DEF Units
<1>2. IsFiniteSet(S \cup {x})
  BY FS_AddElement
<1>3. SumFunction(g) = Cardinality(Units(g, S \cup {x}))
  BY <1>2, SumOfFunction
<1>4. SumFunction(f) = Cardinality(Units(f, S))
  BY SumOfFunction
<1>5. Cardinality(Units(g, S \cup {x})) = Cardinality(Units(g, S)) + g[x]
  BY UnitsAdd
<1>. QED
  BY <1>1, <1>3, <1>4, <1>5

\* A sum in which one value changed.
LEMMA SumUpdates ==
  ASSUME NEW S, IsFiniteSet(S), NEW x \in S,
         NEW f \in [S -> Nat], NEW g \in [S -> Nat], \A y \in S \ {x} : g[y] = f[y]
  PROVE  SumFunction(g) = SumFunction(f) - f[x] + g[x]
<1>. DEFINE R == S \ {x}
            rest == [y \in R |-> f[y]]
<1>1. IsFiniteSet(R) /\ x \notin R /\ R \cup {x} = S
  BY FS_RemoveElement
<1>2. rest \in [R -> Nat] /\ \A y \in R : rest[y] = f[y] /\ rest[y] = g[y]
  OBVIOUS
<1>3. f \in [R \cup {x} -> Nat] /\ g \in [R \cup {x} -> Nat]
  BY <1>1
<1>. HIDE DEF R, rest
<1>4. SumFunction(f) = SumFunction(rest) + f[x]
  BY <1>1, <1>2, <1>3, SumExtends
<1>5. SumFunction(g) = SumFunction(rest) + g[x]
  BY <1>1, <1>2, <1>3, SumExtends
<1>6. SumFunction(rest) \in Nat /\ f[x] \in Nat /\ g[x] \in Nat
  BY <1>1, <1>2, SumOfFunction
<1>. QED
  BY <1>4, <1>5, <1>6

\* A sum over fewer elements is no greater.
LEMMA SumShrinks ==
  ASSUME NEW S, IsFiniteSet(S), NEW T \in SUBSET S,
         NEW f \in [S -> Nat], NEW g \in [T -> Nat], \A y \in T : g[y] = f[y]
  PROVE  SumFunction(g) <= SumFunction(f)
<1>1. IsFiniteSet(T)
  BY FS_Subset
<1>2. Units(g, T) \in SUBSET Units(f, S)
  BY DEF Units
<1>3. IsFiniteSet(Units(f, S))
  BY UnitsFinite
<1>4. Cardinality(Units(g, T)) <= Cardinality(Units(f, S))
  BY <1>2, <1>3, FS_Subset
<1>5. SumFunction(g) = Cardinality(Units(g, T))
  BY <1>1, SumOfFunction
<1>6. SumFunction(f) = Cardinality(Units(f, S))
  BY SumOfFunction
<1>. QED
  BY <1>4, <1>5, <1>6

(***************************************************************************)
(* Type correctness.                                                       *)
(***************************************************************************)
LEMMA InitTypeOK == Init => TypeOK
  BY DEF Init, TypeOK, HoldsPublisher

\* A token's payload has its type, whatever bid the auction picks.
LEMMA BeginTypeOK ==
  ASSUME NEW t \in Tokens, NEW d \in Devices, NEW s \in Surfaces, TypeOK, Begin(t, d, s)
  PROVE  TypeOK'
<1>1. PICK a \in Ads, jitter \in 0..JitterMax : \E second \in SecondPrices(a) :
        token' = [token EXCEPT ![t] =
              [dev |-> d, ad |-> a, surface |-> s,
               charge    |-> ImpressionCharge(ClearingCpm(MaxCpm[a], second)),
               minDwell  |-> MinDwell + jitter,
               issuedAt  |-> clock,
               expiresAt |-> clock + TokenTtl]]
  BY DEF Begin
<1>2. PICK second \in SecondPrices(a) :
        token' = [token EXCEPT ![t] =
              [dev |-> d, ad |-> a, surface |-> s,
               charge    |-> ImpressionCharge(ClearingCpm(MaxCpm[a], second)),
               minDwell  |-> MinDwell + jitter,
               issuedAt  |-> clock,
               expiresAt |-> clock + TokenTtl]]
  BY <1>1
<1>3. MaxCpm[a] \in Nat /\ second \in Nat
  BY BidAssumption, PriceAssumption DEF SecondPrices
<1>4. ImpressionCharge(ClearingCpm(MaxCpm[a], second)) \in Nat
  BY <1>3, ChargeIsNat, ClearingIsNat
<1>5. token'[t] \in Token /\ \A u \in Tokens \ {t} : token'[u] = token[u]
  BY <1>2, <1>4, TimeAssumption DEF TypeOK, Token
<1>6. token' \in [Tokens -> Token \cup {None}]
  BY <1>2, <1>5 DEF TypeOK
<1>7. token'[t] # None
  BY <1>5, NoneAssumption
<1>. QED
  BY <1>5, <1>6, <1>7 DEF TypeOK, Begin, money, bids

LEMMA ArriveTypeOK ==
  ASSUME NEW w \in Workers, NEW t \in Tokens, NEW c \in Claims, TypeOK, Arrive(w, t, c)
  PROVE  TypeOK'
<1>1. token[t] \in Token /\ c \in Nat
  BY AmountAssumption DEF Arrive, TypeOK
<1>2. Dwell(t, c) \in Nat
  BY <1>1, RateAssumption DEF Dwell, EffectiveDwell, Greater, Lesser, TypeOK, Token
<1>3. req'[w] \in Request
  BY <1>2 DEF Arrive, TypeOK, Request
<1>4. req' \in [Workers -> Request \cup {None}]
  BY <1>3 DEF Arrive, TypeOK
<1>. QED
  BY <1>3, <1>4, NoneAssumption DEF Arrive, Goto, TypeOK, HoldsPublisher, money, bids, Request

\* The steps that only move a request on.
LEMMA ProgressTypeOK ==
  ASSUME NEW w \in Workers, TypeOK,
         \/ BeginTransaction(w)
         \/ LockPublisher(w) \/ LockDevice(w) \/ LockAdvertiser(w)
         \/ Check(w)
  PROVE  TypeOK'
<1>1. req[w] \in Request /\ req[w] # None
  BY DEF TypeOK, BeginTransaction, LockPublisher, LockDevice, LockAdvertiser, Check
<1>2. CASE BeginTransaction(w)
  <2>1. req'[w] \in Request
    BY <1>1, <1>2 DEF BeginTransaction, TypeOK, Request
  <2>. QED
    BY <1>1, <1>2, <2>1, NoneAssumption
       DEF BeginTransaction, Goto, TypeOK, HoldsPublisher, money, bids, Request
<1>3. CASE LockPublisher(w) \/ LockDevice(w) \/ LockAdvertiser(w)
  BY <1>3 DEF LockPublisher, LockDevice, LockAdvertiser, Goto, TypeOK, HoldsPublisher, money, bids
<1>4. CASE Check(w)
  <2>1. req'[w] \in Request /\ req'[w].tok = req[w].tok
    BY <1>1, <1>4 DEF Check, TypeOK, Request
  <2>. QED
    BY <1>1, <1>4, <2>1, NoneAssumption
       DEF Check, Goto, TypeOK, HoldsPublisher, money, bids
<1>. QED
  BY <1>2, <1>3, <1>4

\* What a commit finds, and the row it inserts.
LEMMA CommitReads ==
  ASSUME TypeOK, NEW w \in Workers, CommitHeld(w) \/ CommitBilled(w)
  PROVE  /\ pc[w] = "checked" /\ req[w] \in Request /\ token' = token
         /\ req[w].tok \in Tokens /\ row[req[w].tok] = None
         /\ token[req[w].tok] \in Token /\ token[req[w].tok].charge \in Nat
         /\ req[w].at \in Nat /\ req[w].now \in Nat
<1>1. /\ pc[w] = "checked" /\ row[req[w].tok] = None /\ token' = token
  BY DEF CommitHeld, CommitBilled
<1>2. req[w] \in Request /\ token[req[w].tok] # None
  BY <1>1 DEF TypeOK
<1>3. token[req[w].tok] \in Token
  BY <1>2 DEF TypeOK, Request
<1>. QED
  BY <1>1, <1>2, <1>3 DEF Request, Token

LEMMA RowInserted ==
  ASSUME TypeOK, NEW t \in Tokens, NEW v \in {"valid", "sivt"}, NEW c \in Nat, NEW at \in Nat,
         InsertRow(t, v, c, at)
  PROVE  /\ row' \in [Tokens -> Row \cup {None}]
         /\ row'[t] \in Row
         /\ row'[t].validation = v /\ row'[t].charge = c /\ row'[t].at = at
         /\ \A u \in Tokens \ {t} : row'[u] = row[u]
<1>. DEFINE x == [validation |-> v, charge |-> c, at |-> at]
<1>1. x \in Row /\ x.validation = v /\ x.charge = c /\ x.at = at
  BY DEF Row
<1>2. row' = [row EXCEPT ![t] = x] /\ row \in [Tokens -> Row \cup {None}]
  BY DEF InsertRow, TypeOK
<1>. HIDE DEF x
<1>. QED
  BY <1>1, <1>2

LEMMA HeldInserts ==
  ASSUME TypeOK, NEW w \in Workers, CommitHeld(w)
  PROVE  LET t == req[w].tok IN
         /\ row' \in [Tokens -> Row \cup {None}]
         /\ row'[t] \in Row
         /\ row'[t].validation = "sivt" /\ row'[t].charge = 0 /\ row'[t].at = req[w].at
         /\ \A u \in Tokens \ {t} : row'[u] = row[u]
<1>1. InsertRow(req[w].tok, "sivt", 0, req[w].at)
  BY DEF CommitHeld
<1>. QED
  BY <1>1, CommitReads, RowInserted

LEMMA BilledInserts ==
  ASSUME TypeOK, NEW w \in Workers, CommitBilled(w), row' # row \/ Affordable(req[w])
  PROVE  LET t == req[w].tok IN
         /\ row' \in [Tokens -> Row \cup {None}]
         /\ row'[t] \in Row
         /\ row'[t].validation = "valid" /\ row'[t].charge = token[t].charge
         /\ row'[t].at = req[w].at /\ req[w].bill
         /\ \A u \in Tokens \ {t} : row'[u] = row[u]
<1>1. InsertRow(req[w].tok, "valid", token[req[w].tok].charge, req[w].at) /\ req[w].bill
  BY DEF CommitBilled
<1>. QED
  BY <1>1, CommitReads, RowInserted

\* The steps that end a transaction without writing.
LEMMA FinishTypeOK ==
  ASSUME NEW w \in Workers, TypeOK,
         Refuse(w) \/ Replay(w) \/ Crash(w)
  PROVE  TypeOK'
  BY DEF Refuse, Replay, Crash, Finish, TypeOK, money, bids

LEMMA CommitHeldTypeOK ==
  ASSUME NEW w \in Workers, TypeOK, CommitHeld(w)
  PROVE  TypeOK'
<1>. DEFINE t == req[w].tok
<1>1. req[w] \in Request /\ t \in Tokens /\ token[t] \in Token
  BY DEF CommitHeld, TypeOK, Request
<1>2. PubOf(t) \in Publishers
  BY <1>1, EntityAssumption DEF PubOf, Token
<1>3. row'[t] \in Row /\ row' \in [Tokens -> Row \cup {None}]
  BY HeldInserts
<1>4. fraudScore' \in [Publishers -> Nat]
  BY <1>2, AmountAssumption DEF CommitHeld, TypeOK
<1>5. \A u \in Tokens : row'[u] # None => token[u] # None
  BY <1>1 DEF CommitHeld, InsertRow, TypeOK
<1>. QED
  BY <1>3, <1>4, <1>5 DEF CommitHeld, Finish, TypeOK, money, bids

LEMMA CommitBilledTypeOK ==
  ASSUME NEW w \in Workers, TypeOK, CommitBilled(w)
  PROVE  TypeOK'
<1>. DEFINE t == req[w].tok
            c == token[t].charge
<1>1. req[w] \in Request /\ t \in Tokens /\ token[t] \in Token /\ c \in Nat
  BY DEF CommitBilled, TypeOK, Request, Token
<1>2. PubOf(t) \in Publishers /\ AdvOf(t) \in Advertisers /\ token[t].ad \in Ads
  BY <1>1, EntityAssumption DEF PubOf, AdvOf, Token
<1>3. CASE Affordable(req[w])
  <2>1. row'[t] \in Row /\ row' \in [Tokens -> Row \cup {None}]
    BY <1>3, BilledInserts
  <2>2. \A u \in Tokens : row'[u] # None => token[u] # None
    BY <1>1, <1>3 DEF CommitBilled, InsertRow, TypeOK
  <2>3. PICK roundUp \in BOOLEAN :
          /\ balance'  = [balance EXCEPT ![AdvOf(t)] = @ - c]
          /\ escrow'   = [escrow EXCEPT ![PubOf(t)] = @ + PublisherAccrual(c, roundUp)]
          /\ platform' = platform + PlatformFee(c, roundUp)
    BY <1>3 DEF CommitBilled, Settle
  <2>4. PublisherAccrual(c, roundUp) \in Nat /\ PlatformFee(c, roundUp) \in Nat
    <3>1. PublisherAccrual(c, roundUp) \in 0..c /\ PlatformFee(c, roundUp) \in 0..c
      BY <1>1, SplitIsExact
    <3>. QED
      BY <1>1, <3>1
  <2>5. /\ balance' \in [Advertisers -> Int]
        /\ escrow' \in [Publishers -> Nat]
        /\ platform' \in Nat
    BY <1>1, <1>2, <2>3, <2>4 DEF TypeOK
  <2>6. spent' \in [Ads -> Nat] /\ bidStatus' \in [Ads -> {"active", "depleted"}]
    <3>1. /\ spent' = [spent EXCEPT ![token[t].ad] = @ + c]
          /\ \/ bidStatus' = [bidStatus EXCEPT ![token[t].ad] = "depleted"]
             \/ bidStatus' = bidStatus
      BY <1>3 DEF CommitBilled, Retire
    <3>2. spent \in [Ads -> Nat] /\ bidStatus \in [Ads -> {"active", "depleted"}]
      BY DEF TypeOK
    <3>3. spent[token[t].ad] + c \in Nat
      BY <1>1, <1>2, <3>2
    <3>4. spent' \in [Ads -> Nat]
      BY <1>2, <3>1, <3>2, <3>3
    <3>5. bidStatus' \in [Ads -> {"active", "depleted"}]
      BY <3>1, <3>2
    <3>. QED
      BY <3>4, <3>5
  <2>7. /\ funded' = funded /\ reversed' = reversed /\ clock' = clock /\ token' = token
        /\ fraudScore' = fraudScore /\ Finish(w)
    BY <1>3 DEF CommitBilled, Settle
  <2>. QED
    BY <2>1, <2>2, <2>5, <2>6, <2>7 DEF Finish, TypeOK
<1>4. CASE ~Affordable(req[w])
  BY <1>4 DEF CommitBilled, Finish, TypeOK, money, bids
<1>. QED
  BY <1>3, <1>4

LEMMA StripeTypeOK ==
  ASSUME NEW v \in Advertisers, NEW m \in Amounts, TypeOK, TopUp(v, m) \/ Reverse(v, m)
  PROVE  TypeOK'
  BY AmountAssumption DEF TopUp, Reverse, TypeOK, bids

\* Every step keeps the types.
LEMMA NextTypeOK ==
  ASSUME TypeOK, [Next]_vars
  PROVE  TypeOK'
<1>1. CASE UNCHANGED vars
  BY <1>1 DEF vars, money, bids, TypeOK
<1>2. CASE Tick
  BY <1>2 DEF Tick, money, bids, TypeOK
<1>3. CASE \E t \in Tokens, d \in Devices, s \in Surfaces : Begin(t, d, s)
  BY <1>3, BeginTypeOK
<1>4. CASE \E w \in Workers, t \in Tokens, c \in Claims : Arrive(w, t, c)
  BY <1>4, ArriveTypeOK
<1>5. CASE \E t \in Tokens, c \in Claims : Deny(t, c)
  BY <1>1, <1>5 DEF Deny
<1>6. CASE \E w \in Workers : Redeem(w) \/ Crash(w)
  BY <1>6, ProgressTypeOK, FinishTypeOK, CommitHeldTypeOK, CommitBilledTypeOK DEF Redeem
<1>7. CASE \E v \in Advertisers, m \in Amounts : TopUp(v, m) \/ Reverse(v, m)
  BY <1>7, StripeTypeOK
<1>. QED
  BY <1>1, <1>2, <1>3, <1>4, <1>5, <1>6, <1>7 DEF Next

\* Every variable of the redemption keeps its type.
THEOREM TypeCorrect == Spec => []TypeOK
<1>1. Init => TypeOK
  BY InitTypeOK
<1>2. TypeOK /\ [Next]_vars => TypeOK'
  BY NextTypeOK
<1>. QED
  BY <1>1, <1>2, PTL DEF Spec

(***************************************************************************)
(* Locks and clocks.  A request that reached "publisher" keeps its token,  *)
(* and tokens never change once issued, so the locks it holds stay its.    *)
(***************************************************************************)

\* What every step does to a request other than its own, and to issued tokens.
TokensKept == \A t \in Tokens : token[t] # None => token'[t] = token[t]

LEMMA NextKeepsTokens ==
  ASSUME TypeOK, [Next]_vars
  PROVE  TokensKept
<1>1. CASE \E t \in Tokens, d \in Devices, s \in Surfaces : Begin(t, d, s)
  BY <1>1 DEF Begin, TokensKept, TypeOK
<1>2. CASE UNCHANGED token
  BY <1>2 DEF TokensKept
<1>. QED
  BY <1>1, <1>2
     DEF Next, vars, Tick, Arrive, Deny, Redeem, BeginTransaction, LockPublisher, LockDevice,
         LockAdvertiser, Check, Refuse, Replay, CommitHeld, CommitBilled, Crash, TopUp, Reverse

LEMMA SameTokenSameLocks ==
  ASSUME TokensKept, NEW t \in Tokens, token[t] # None
  PROVE  PubOf(t)' = PubOf(t) /\ AdvOf(t)' = AdvOf(t)
  BY DEF TokensKept, PubOf, AdvOf

\* One step moves at most one request.
Moves(w) == \A u \in Workers \ {w} : pc'[u] = pc[u] /\ req'[u] = req[u]
Still    == pc' = pc /\ req' = req

LEMMA NextMovesOne ==
  ASSUME TypeOK, [Next]_vars
  PROVE  \/ pc' = pc /\ req' = req
         \/ \E w \in Workers : \A u \in Workers \ {w} : pc'[u] = pc[u] /\ req'[u] = req[u]
<1>1. ASSUME NEW w \in Workers, Finish(w) PROVE Moves(w)
  BY <1>1 DEF Finish, Moves, TypeOK
<1>2. ASSUME NEW w \in Workers, Redeem(w) \/ Crash(w) PROVE Moves(w)
  <2>1. CASE Finish(w)
    BY <1>1, <2>1
  <2>2. CASE BeginTransaction(w) \/ LockPublisher(w) \/ LockDevice(w) \/ LockAdvertiser(w)
    BY <2>2 DEF BeginTransaction, LockPublisher, LockDevice, LockAdvertiser, Goto, Moves, TypeOK
  <2>3. CASE Check(w)
    BY <2>3 DEF Check, Goto, Moves, TypeOK
  <2>. QED
    BY <1>2, <2>1, <2>2, <2>3 DEF Redeem, Crash, Refuse, Replay, CommitHeld, CommitBilled
<1>3. ASSUME NEW w \in Workers, NEW t \in Tokens, NEW c \in Claims, Arrive(w, t, c)
      PROVE  Moves(w)
  BY <1>3 DEF Arrive, Goto, Moves, TypeOK
<1>4. ASSUME NEW t \in Tokens, NEW d \in Devices, NEW s \in Surfaces, Begin(t, d, s) PROVE Still
  BY <1>4 DEF Begin, Still
<1>5. ASSUME Tick \/ UNCHANGED vars PROVE Still
  BY <1>5 DEF Tick, vars, Still
<1>6. ASSUME NEW t \in Tokens, NEW c \in Claims, Deny(t, c) PROVE Still
  BY <1>6 DEF Deny, vars, Still
<1>7. ASSUME NEW v \in Advertisers, NEW m \in Amounts, TopUp(v, m) \/ Reverse(v, m) PROVE Still
  BY <1>7 DEF TopUp, Reverse, Still
<1>8. Still \/ \E w \in Workers : Moves(w)
  <2>1. CASE Next
    BY <1>2, <1>3, <1>4, <1>5, <1>6, <1>7, <2>1 DEF Next
  <2>. QED
    BY <1>5, <2>1 DEF vars
<1>. QED
  BY <1>8 DEF Moves, Still

\* A step of one request keeps the locks apart, if what it takes was free.
LEMMA LocksFrame ==
  ASSUME LocksExclusive, token' = token, NEW w \in Workers,
         \A u \in Workers \ {w} : pc'[u] = pc[u] /\ req'[u] = req[u],
         pc'[w] \in HoldsPublisher =>
            /\ req'[w].tok = req[w].tok
            /\ pc[w] \in HoldsPublisher \/ PublisherLockFree(PubOf(req[w].tok)),
         pc'[w] \in HoldsAdvertiser =>
            /\ req'[w].tok = req[w].tok
            /\ pc[w] \in HoldsAdvertiser \/ AdvertiserLockFree(AdvOf(req[w].tok))
  PROVE  LocksExclusive'
<1>1. \A u \in Workers : req'[u].tok = req[u].tok =>
        PubOf(req[u].tok)' = PubOf(req[u].tok) /\ AdvOf(req[u].tok)' = AdvOf(req[u].tok)
  BY DEF PubOf, AdvOf
<1>2. ASSUME NEW u \in Workers \ {w}, pc'[w] \in HoldsPublisher, pc'[u] \in HoldsPublisher
      PROVE  PubOf(req[w].tok)' # PubOf(req[u].tok)'
  BY <1>1, <1>2 DEF LocksExclusive, PublisherLockFree
<1>3. ASSUME NEW u \in Workers \ {w}, pc'[w] \in HoldsAdvertiser, pc'[u] \in HoldsAdvertiser
      PROVE  AdvOf(req[w].tok)' # AdvOf(req[u].tok)'
  BY <1>1, <1>3 DEF LocksExclusive, AdvertiserLockFree
<1>4. ASSUME NEW u \in Workers \ {w}, NEW v \in Workers \ {w}, u # v
      PROVE  /\ pc'[u] \in HoldsPublisher /\ pc'[v] \in HoldsPublisher =>
                   PubOf(req[u].tok)' # PubOf(req[v].tok)'
             /\ pc'[u] \in HoldsAdvertiser /\ pc'[v] \in HoldsAdvertiser =>
                   AdvOf(req[u].tok)' # AdvOf(req[v].tok)'
  BY <1>1, <1>4 DEF LocksExclusive
<1>. QED
  BY <1>2, <1>3, <1>4 DEF LocksExclusive

LEMMA LocksStep ==
  ASSUME TypeOK, LocksExclusive, [Next]_vars
  PROVE  LocksExclusive'
<1>. DEFINE InFlight(w) == pc[w] # "idle" /\ req[w].tok \in Tokens /\ token[req[w].tok] # None
<1>1. TokensKept
  BY NextKeepsTokens
<1>2. \A w \in Workers : pc[w] # "idle" => InFlight(w)
  BY DEF TypeOK, Request
<1>3. ASSUME NEW w \in Workers, LockPublisher(w)
      PROVE  LocksExclusive'
  <2>1. /\ token' = token /\ req' = req /\ pc'[w] = "publisher"
        /\ \A u \in Workers \ {w} : pc'[u] = pc[u]
        /\ PublisherLockFree(PubOf(req[w].tok))
    BY <1>3 DEF LockPublisher, Goto, TypeOK
  <2>2. pc'[w] \notin HoldsAdvertiser
    BY <2>1 DEF HoldsAdvertiser
  <2>. QED
    BY <2>1, <2>2, LocksFrame
<1>4. ASSUME NEW w \in Workers, LockDevice(w)
      PROVE  LocksExclusive'
  <2>1. /\ token' = token /\ req' = req /\ pc[w] = "publisher" /\ pc'[w] = "device"
        /\ \A u \in Workers \ {w} : pc'[u] = pc[u]
    BY <1>4 DEF LockDevice, Goto, TypeOK
  <2>2. pc[w] \in HoldsPublisher /\ pc'[w] \notin HoldsAdvertiser
    BY <2>1 DEF HoldsPublisher, HoldsAdvertiser
  <2>. QED
    BY <2>1, <2>2, LocksFrame
<1>5. ASSUME NEW w \in Workers, LockAdvertiser(w)
      PROVE  LocksExclusive'
  <2>1. /\ token' = token /\ req' = req /\ pc[w] = "device"
        /\ \A u \in Workers \ {w} : pc'[u] = pc[u]
        /\ AdvertiserLockFree(AdvOf(req[w].tok))
    BY <1>5 DEF LockAdvertiser, Goto, TypeOK
  <2>2. pc[w] \in HoldsPublisher
    BY <2>1 DEF HoldsPublisher
  <2>. QED
    BY <2>1, <2>2, LocksFrame
<1>6. ASSUME NEW w \in Workers, Check(w)
      PROVE  LocksExclusive'
  <2>1. req'[w].tok = req[w].tok
    BY <1>6 DEF Check, TypeOK, Request
  <2>2. /\ token' = token /\ pc[w] = "advertiser"
        /\ \A u \in Workers \ {w} : pc'[u] = pc[u] /\ req'[u] = req[u]
    BY <1>6 DEF Check, Goto, TypeOK
  <2>3. pc[w] \in HoldsPublisher /\ pc[w] \in HoldsAdvertiser
    BY <2>2 DEF HoldsPublisher, HoldsAdvertiser
  <2>. QED
    BY <2>1, <2>2, <2>3, LocksFrame
<1>7. ASSUME NEW w \in Workers,
             \/ BeginTransaction(w) \/ Refuse(w) \/ Replay(w) \/ CommitHeld(w)
             \/ CommitBilled(w) \/ Crash(w)
      PROVE  LocksExclusive'
  <2>1. /\ token' = token
        /\ pc'[w] \in {"idle", "begun"}
        /\ \A u \in Workers \ {w} : pc'[u] = pc[u] /\ req'[u] = req[u]
    BY <1>7 DEF BeginTransaction, Refuse, Replay, CommitHeld, CommitBilled, Crash,
       Goto, Finish, TypeOK
  <2>2. pc'[w] \notin HoldsPublisher /\ pc'[w] \notin HoldsAdvertiser
    BY <2>1 DEF HoldsPublisher, HoldsAdvertiser
  <2>. QED
    BY <2>1, <2>2, LocksFrame
<1>8. ASSUME NEW w \in Workers, NEW t \in Tokens, NEW c \in Claims, Arrive(w, t, c)
      PROVE  LocksExclusive'
  <2>1. /\ token' = token /\ pc'[w] = "arrived"
        /\ \A u \in Workers \ {w} : pc'[u] = pc[u] /\ req'[u] = req[u]
    BY <1>8 DEF Arrive, Goto, TypeOK
  <2>2. pc'[w] \notin HoldsPublisher /\ pc'[w] \notin HoldsAdvertiser
    BY <2>1 DEF HoldsPublisher, HoldsAdvertiser
  <2>. QED
    BY <2>1, <2>2, LocksFrame
<1>9. CASE pc' = pc /\ req' = req
  <2>1. ASSUME NEW w \in Workers, pc[w] # "idle"
        PROVE  PubOf(req[w].tok)' = PubOf(req[w].tok) /\ AdvOf(req[w].tok)' = AdvOf(req[w].tok)
    BY <1>1, <1>2, <1>9, <2>1 DEF TokensKept, PubOf, AdvOf
  <2>. QED
    BY <1>9, <2>1 DEF LocksExclusive, HoldsPublisher, HoldsAdvertiser
<1>. QED
  BY <1>3, <1>4, <1>5, <1>6, <1>7, <1>8, <1>9
     DEF Next, Redeem, vars, Tick, Begin, Deny, TopUp, Reverse

LEMMA TimesStep ==
  ASSUME TypeOK, StampedAfterArrival, [Next]_vars
  PROVE  StampedAfterArrival'
<1>1. ASSUME NEW w \in Workers, NEW t \in Tokens, NEW c \in Claims, Arrive(w, t, c)
      PROVE  StampedAfterArrival'
  BY <1>1 DEF Arrive, Goto, StampedAfterArrival, TypeOK
<1>2. ASSUME NEW w \in Workers, BeginTransaction(w) \/ Check(w)
      PROVE  StampedAfterArrival'
  <2>1. /\ req[w] \in Request /\ pc[w] # "idle" /\ clock' = clock
        /\ req'[w].now = req[w].now /\ req'[w].at \in {req[w].at, clock}
        /\ \A u \in Workers \ {w} : pc'[u] = pc[u] /\ req'[u] = req[u]
    BY <1>2 DEF BeginTransaction, Check, Goto, TypeOK, Request
  <2>2. req[w].now <= clock
    BY <2>1 DEF StampedAfterArrival, TypeOK, Request
  <2>. QED
    BY <2>1, <2>2 DEF StampedAfterArrival, TypeOK, Request
<1>3. ASSUME NEW w \in Workers, LockPublisher(w) \/ LockDevice(w) \/ LockAdvertiser(w)
      PROVE  StampedAfterArrival'
  BY <1>3 DEF LockPublisher, LockDevice, LockAdvertiser, Goto, StampedAfterArrival, TypeOK
<1>4. ASSUME NEW w \in Workers,
             Refuse(w) \/ Replay(w) \/ CommitHeld(w) \/ CommitBilled(w) \/ Crash(w)
      PROVE  StampedAfterArrival'
  <2>1. Finish(w) /\ clock' = clock
    BY <1>4 DEF Refuse, Replay, CommitHeld, CommitBilled, Crash
  <2>2. pc'[w] = "idle" /\ \A u \in Workers \ {w} : pc'[u] = pc[u] /\ req'[u] = req[u]
    BY <2>1 DEF Finish, TypeOK
  <2>. QED
    BY <2>1, <2>2 DEF StampedAfterArrival
<1>5. CASE pc' = pc /\ req' = req /\ clock' \in {clock, clock + 1}
  BY <1>5 DEF StampedAfterArrival, TypeOK, Request
<1>. QED
  BY <1>1, <1>2, <1>3, <1>4, <1>5
     DEF Next, Redeem, vars, Tick, Begin, Deny, TopUp, Reverse

(***************************************************************************)
(* What is read under the locks stays true.                                *)
(***************************************************************************)

\* The counts a request reads only depend on the recorded impressions of its
\* publisher: a device has one publisher.
LEMMA CountsFrame ==
  ASSUME TypeOK, TokensKept, NEW r \in Request, token[r.tok] # None,
         \A u \in Tokens : row'[u] # row[u] =>
            token[u] # None /\ PubOf(u) # PubOf(r.tok),
         \A u \in Tokens : row'[u] # None => token[u] # None
  PROVE  /\ DeviceRecent(r)' = DeviceRecent(r)
         /\ PublisherRecent(r)' = PublisherRecent(r)
         /\ RecentSivt(r)' = RecentSivt(r)
<1>. DEFINE p == PubOf(r.tok)
            d == token[r.tok].dev
            s == token[r.tok].surface
<1>1. r.tok \in Tokens /\ PubOf(r.tok)' = p /\ token'[r.tok] = token[r.tok]
  BY SameTokenSameLocks DEF Request, TokensKept
<1>2. \A u \in Tokens : token[u] # None =>
         /\ token'[u] = token[u]
         /\ PubOf(u)' = PubOf(u)
         /\ token[u].dev = d => PubOf(u) = p
  BY DEF TokensKept, PubOf
<1>3. \A u \in Tokens : row[u] # None => token[u] # None
  BY DEF TypeOK
<1>4. PublisherRows(p)' = PublisherRows(p) /\ \A u \in PublisherRows(p) : row'[u] = row[u]
  <2>1. \A u \in Tokens : u \in PublisherRows(p)' <=> u \in PublisherRows(p)
    BY <1>1, <1>2, <1>3 DEF PublisherRows, Recorded
  <2>2. \A u \in PublisherRows(p) : row'[u] = row[u]
    BY <1>2, <1>3 DEF PublisherRows, Recorded
  <2>. QED
    BY <2>1, <2>2, <1>1 DEF PublisherRows, Recorded
<1>5. DeviceRows(d, s)' = DeviceRows(d, s) /\ \A u \in DeviceRows(d, s) : row'[u] = row[u]
  <2>1. \A u \in Tokens : u \in DeviceRows(d, s)' <=> u \in DeviceRows(d, s)
    BY <1>1, <1>2, <1>3 DEF DeviceRows, Recorded
  <2>2. \A u \in DeviceRows(d, s) : row'[u] = row[u]
    BY <1>2, <1>3 DEF DeviceRows, Recorded
  <2>. QED
    BY <2>1, <2>2, <1>1 DEF DeviceRows, Recorded
<1>6. Since(DeviceRows(d, s), r.now - Hour)' = Since(DeviceRows(d, s), r.now - Hour)
  BY <1>5 DEF Since
<1>7. Since(PublisherRows(p), r.now - Hour)' = Since(PublisherRows(p), r.now - Hour)
  BY <1>4 DEF Since
<1>8. Since(Sivt(PublisherRows(p)), r.now - SivtWindow)'
        = Since(Sivt(PublisherRows(p)), r.now - SivtWindow)
  BY <1>4 DEF Since, Sivt
<1>9. DeviceRecent(r)' = DeviceRecent(r)
  BY <1>1, <1>6 DEF DeviceRecent
<1>10. PublisherRecent(r)' = PublisherRecent(r)
  BY <1>1, <1>7 DEF PublisherRecent
<1>11. RecentSivt(r)' = RecentSivt(r)
  BY <1>1, <1>8 DEF RecentSivt
<1>. QED
  BY <1>9, <1>10, <1>11

\* The counts do not depend on whether the request bills.
LEMMA CountsIgnoreBill ==
  ASSUME NEW r \in Request, NEW q \in Request,
         r.tok = q.tok, r.now = q.now, r.dwell = q.dwell
  PROVE  /\ DeviceRecent(r) = DeviceRecent(q) /\ PublisherRecent(r) = PublisherRecent(q)
         /\ RecentSivt(r) = RecentSivt(q) /\ Verdict(r) = Verdict(q)
         /\ Affordable(r) = Affordable(q) /\ WithinBudget(r) = WithinBudget(q)
         /\ WithinDailyCap(r) = WithinDailyCap(q)
  BY DEF DeviceRecent, PublisherRecent, RecentSivt, Verdict, Affordable, WithinBudget,
     WithinDailyCap

\* The reads of one request, as one formula.
ReadsHold(r) ==
    /\ ~OverCeiling(DeviceRecent(r), PublisherRecent(r))
    /\ r.bill => /\ Verdict(r) = "valid"
                 /\ Affordable(r)
                 /\ WithinBudget(r)
                 /\ WithinDailyCap(r)

LEMMA ReadsFrame ==
  ASSUME TypeOK, TokensKept, NEW r \in Request, token[r.tok] # None, ReadsHold(r),
         \A u \in Tokens : row'[u] # row[u] =>
            token[u] # None /\ PubOf(u) # PubOf(r.tok) /\ AdvOf(u) # AdvOf(r.tok),
         \A u \in Tokens : row'[u] # None => token[u] # None,
         balance'[AdvOf(r.tok)] = balance[AdvOf(r.tok)],
         spent'[token[r.tok].ad] = spent[token[r.tok].ad]
  PROVE  ReadsHold(r)'
<1>1. r.tok \in Tokens /\ token'[r.tok] = token[r.tok] /\ AdvOf(r.tok)' = AdvOf(r.tok)
  BY SameTokenSameLocks DEF Request, TokensKept
<1>2. /\ DeviceRecent(r)' = DeviceRecent(r)
      /\ PublisherRecent(r)' = PublisherRecent(r)
      /\ RecentSivt(r)' = RecentSivt(r)
  BY CountsFrame
<1>3. Verdict(r)' = Verdict(r)
  BY <1>1, <1>2 DEF Verdict
<1>4. Affordable(r)' = Affordable(r)
  BY <1>1 DEF Affordable
<1>5. WithinBudget(r)' = WithinBudget(r)
  BY <1>1 DEF WithinBudget
<1>6. OverCeiling(DeviceRecent(r), PublisherRecent(r))' = OverCeiling(DeviceRecent(r), PublisherRecent(r))
  BY <1>2 DEF OverCeiling
<1>7. WithinDailyCap(r)' = WithinDailyCap(r)
  <2>. DEFINE a == token[r.tok].ad
  <2>1. AdRows(a)' = AdRows(a) /\ \A u \in AdRows(a) : row'[u] = row[u]
    <3>1. \A u \in Tokens : row[u] # None => token[u] # None
      BY DEF TypeOK
    <3>2. \A u \in Tokens : token[u] # None =>
             token'[u] = token[u] /\ (token[u].ad = a => AdvOf(u) = AdvOf(r.tok))
      BY DEF TokensKept, AdvOf
    <3>3. \A u \in Tokens : u \in AdRows(a)' <=> u \in AdRows(a)
      BY <1>1, <3>1, <3>2 DEF AdRows, Recorded
    <3>4. \A u \in AdRows(a) : row'[u] = row[u]
      BY <3>1, <3>2 DEF AdRows, Recorded
    <3>. QED
      BY <1>1, <3>3, <3>4 DEF AdRows, Recorded
  <2>2. Since(AdRows(a), r.now - Day)' = Since(AdRows(a), r.now - Day)
    BY <2>1 DEF Since
  <2>3. SpentSince(a, r.now - Day)' = SpentSince(a, r.now - Day)
    BY <2>1, <2>2 DEF SpentSince, Charges, Since
  <2>. QED
    BY <1>1, <2>3 DEF WithinDailyCap
<1>. QED
  BY <1>3, <1>4, <1>5, <1>6, <1>7 DEF ReadsHold

\* A request that is checked before and after a step, by another's step.
LEMMA OtherKeepsReads ==
  ASSUME TypeOK, TypeOK', LocksExclusive, ChecksStayTrue, [Next]_vars,
         NEW w \in Workers, pc[w] = "checked", req'[w] = req[w], pc'[w] = pc[w]
  PROVE  ReadsHold(req[w])'
<1>1. PICK r \in Request : r = req[w]
  BY DEF TypeOK
<1>2. /\ TokensKept /\ r.tok \in Tokens /\ token[r.tok] # None /\ ReadsHold(r)
      /\ token[r.tok] \in Token
  BY <1>1, NextKeepsTokens DEF TypeOK, ChecksStayTrue, ReadsHold, Request
<1>3. \A u \in Tokens : row'[u] # None => token'[u] # None
  BY DEF TypeOK
<1>4. PubOf(r.tok) \in Publishers /\ AdvOf(r.tok) \in Advertisers /\ token[r.tok].ad \in Ads
  BY <1>2, EntityAssumption DEF PubOf, AdvOf, Token
<1>5. ASSUME NEW u \in Workers, CommitHeld(u) \/ CommitBilled(u)
      PROVE  /\ \A t \in Tokens : row'[t] # row[t] =>
                   token[t] # None /\ PubOf(t) # PubOf(r.tok) /\ AdvOf(t) # AdvOf(r.tok)
             /\ balance'[AdvOf(r.tok)] = balance[AdvOf(r.tok)]
             /\ spent'[token[r.tok].ad] = spent[token[r.tok].ad]
             /\ token' = token
  <2>1. u # w /\ pc[u] = "checked"
    BY <1>5 DEF CommitHeld, CommitBilled, Finish, TypeOK
  <2>2. PubOf(req[u].tok) # PubOf(r.tok) /\ AdvOf(req[u].tok) # AdvOf(r.tok)
    BY <1>1, <2>1 DEF LocksExclusive, HoldsPublisher, HoldsAdvertiser
  <2>3. /\ req[u].tok \in Tokens /\ token[req[u].tok] # None /\ token[req[u].tok] \in Token
    BY <2>1 DEF TypeOK, Request
  <2>4. token[req[u].tok].ad # token[r.tok].ad
    BY <2>2 DEF AdvOf
  <2>5. CASE CommitHeld(u)
    BY <2>2, <2>3, <2>5 DEF CommitHeld, InsertRow, money, bids, TypeOK
  <2>6. CASE CommitBilled(u)
    <3>1. CASE Affordable(req[u])
      <4>1. \A t \in Tokens : row'[t] # row[t] => t = req[u].tok
        BY <2>3, <2>6, <3>1 DEF CommitBilled, InsertRow, TypeOK
      <4>2. balance'[AdvOf(r.tok)] = balance[AdvOf(r.tok)]
        BY <1>4, <2>2, <2>6, <3>1 DEF CommitBilled, Settle, TypeOK
      <4>3. spent'[token[r.tok].ad] = spent[token[r.tok].ad] /\ token' = token
        BY <1>4, <2>4, <2>6, <3>1 DEF CommitBilled, TypeOK
      <4>. QED
        BY <4>1, <4>2, <4>3, <2>2, <2>3
    <3>2. CASE ~Affordable(req[u])
      BY <2>6, <3>2 DEF CommitBilled, money, bids
    <3>. QED
      BY <3>1, <3>2
  <2>. QED
    BY <1>5, <2>5, <2>6
<1>6. ASSUME NEW v \in Advertisers, NEW m \in Amounts, TopUp(v, m) \/ Reverse(v, m)
      PROVE  row' = row /\ token' = token /\ spent' = spent
             /\ balance'[AdvOf(r.tok)] = balance[AdvOf(r.tok)]
  <2>1. v # AdvOf(r.tok)
    BY <1>1, <1>6 DEF TopUp, Reverse, AdvertiserLockFree, HoldsAdvertiser
  <2>. QED
    BY <1>4, <1>6, <2>1 DEF TopUp, Reverse, bids, TypeOK
<1>7. CASE row' = row /\ balance' = balance /\ spent' = spent
  <2>1. \A u \in Tokens : row'[u] # None => token[u] # None
    BY <1>7 DEF TypeOK
  <2>2. ReadsHold(r)'
    BY <1>2, <1>7, <2>1, ReadsFrame
  <2>. QED
    BY <1>1, <2>2
<1>8. CASE \E u \in Workers : CommitHeld(u) \/ CommitBilled(u)
  <2>1. ReadsHold(r)'
    BY <1>2, <1>3, <1>5, <1>8, ReadsFrame
  <2>. QED
    BY <1>1, <2>1
<1>9. CASE \E v \in Advertisers, m \in Amounts : TopUp(v, m) \/ Reverse(v, m)
  <2>1. ReadsHold(r)'
    BY <1>2, <1>3, <1>6, <1>9, ReadsFrame
  <2>. QED
    BY <1>1, <2>1
<1>. QED
  BY <1>7, <1>8, <1>9
     DEF Next, Redeem, vars, money, bids, Tick, Begin, Arrive, Deny, BeginTransaction,
         LockPublisher, LockDevice, LockAdvertiser, Check, Refuse, Replay, Crash

\* The check itself establishes what it read.
LEMMA CheckReads ==
  ASSUME TypeOK, NEW w \in Workers, Check(w)
  PROVE  ReadsHold(req[w])'
<1>1. PICK q \in Request : q = req[w]
  BY DEF TypeOK, Check
<1>2. PICK r \in Request : r = req'[w]
  BY <1>1 DEF Check, TypeOK, Request
<1>3. /\ r.tok = q.tok /\ r.now = q.now /\ r.dwell = q.dwell
      /\ r.bill = (Verdict(q) = "valid")
  BY <1>1, <1>2 DEF Check, TypeOK, Request
<1>4. /\ ~OverCeiling(DeviceRecent(q), PublisherRecent(q))
      /\ Verdict(q) = "valid" => Affordable(q) /\ WithinBudget(q) /\ WithinDailyCap(q)
  BY <1>1 DEF Check
<1>5. ReadsHold(r)
  BY <1>3, <1>4, CountsIgnoreBill DEF ReadsHold
<1>6. token' = token /\ row' = row /\ balance' = balance /\ spent' = spent
  BY DEF Check, money, bids
<1>7. ReadsHold(r)'
  BY <1>5, <1>6 DEF ReadsHold, OverCeiling, DeviceRecent, PublisherRecent, RecentSivt, Verdict,
     Affordable, WithinBudget, WithinDailyCap, SpentSince, Charges, AdRows, DeviceRows,
     PublisherRows, Sivt, Since, Recorded, PubOf, AdvOf
<1>. QED
  BY <1>2, <1>7

LEMMA ChecksStep ==
  ASSUME TypeOK, TypeOK', LocksExclusive, ChecksStayTrue, [Next]_vars
  PROVE  ChecksStayTrue'
<1>. SUFFICES ASSUME NEW w \in Workers, pc'[w] = "checked"
              PROVE  ReadsHold(req[w])'
  BY DEF ChecksStayTrue, ReadsHold
<1>1. CASE Check(w)
  BY <1>1, CheckReads
<1>2. CASE ~Check(w)
  <2>1. ASSUME NEW u \in Workers, Check(u)
        PROVE  pc[w] = "checked" /\ pc'[w] = pc[w] /\ req'[w] = req[w]
    <3>1. u # w
      BY <1>2, <2>1
    <3>. QED
      BY <2>1, <3>1 DEF Check, Goto, TypeOK
  <2>2. ASSUME NEW u \in Workers, Redeem(u) \/ Crash(u), ~Check(u)
        PROVE  pc[w] = "checked" /\ pc'[w] = pc[w] /\ req'[w] = req[w]
    <3>1. CASE BeginTransaction(u) \/ LockPublisher(u) \/ LockDevice(u) \/ LockAdvertiser(u)
      BY <3>1 DEF BeginTransaction, LockPublisher, LockDevice, LockAdvertiser, Goto, TypeOK
    <3>2. CASE Finish(u)
      BY <3>2 DEF Finish, TypeOK
    <3>. QED
      BY <2>2, <3>1, <3>2 DEF Redeem, Refuse, Replay, CommitHeld, CommitBilled, Crash
  <2>3. ASSUME NEW u \in Workers, NEW t \in Tokens, NEW c \in Claims, Arrive(u, t, c)
        PROVE  pc[w] = "checked" /\ pc'[w] = pc[w] /\ req'[w] = req[w]
    BY <2>3 DEF Arrive, Goto, TypeOK
  <2>4. CASE \E u \in Workers : Redeem(u) \/ Crash(u)
    BY <2>1, <2>2, <2>4, OtherKeepsReads
  <2>5. CASE \E u \in Workers, t \in Tokens, c \in Claims : Arrive(u, t, c)
    BY <2>3, <2>5, OtherKeepsReads
  <2>6. CASE pc' = pc /\ req' = req
    BY <2>6, OtherKeepsReads
  <2>. QED
    BY <2>4, <2>5, <2>6 DEF Next, vars, Tick, Begin, Deny, TopUp, Reverse
<1>. QED
  BY <1>1, <1>2

(***************************************************************************)
(* Budgets.                                                                *)
(***************************************************************************)
LEMMA BudgetStep ==
  ASSUME TypeOK, ChecksStayTrue, BudgetNeverExceeded, [Next]_vars
  PROVE  BudgetNeverExceeded'
<1>1. ASSUME NEW w \in Workers, CommitBilled(w)
      PROVE  BudgetNeverExceeded'
  <2>1. CASE Affordable(req[w])
    <3>1. WithinBudget(req[w])
      BY <1>1 DEF CommitBilled, ChecksStayTrue
    <3>2. req[w] \in Request /\ token[req[w].tok] \in Token
      BY <1>1 DEF CommitBilled, TypeOK, Request
    <3>. QED
      BY <1>1, <2>1, <3>1, <3>2 DEF CommitBilled, WithinBudget, BudgetNeverExceeded, TypeOK, Token
  <2>2. CASE ~Affordable(req[w])
    BY <1>1, <2>2 DEF CommitBilled, bids, BudgetNeverExceeded
  <2>. QED
    BY <2>1, <2>2
<1>2. CASE spent' = spent
  BY <1>2 DEF BudgetNeverExceeded
<1>. QED
  BY <1>1, <1>2
     DEF Next, Redeem, vars, bids, Tick, Begin, Arrive, Deny, BeginTransaction, LockPublisher,
         LockDevice, LockAdvertiser, Check, Refuse, Replay, CommitHeld, Crash, TopUp, Reverse

(***************************************************************************)
(* The inductive invariant of the money part.  BudgetNeverExceeded alone   *)
(* is not inductive: that a commit fits the budget is what the check read, *)
(* that the check still holds is that nobody else held its locks, and that *)
(* nobody else did is that the locks exclude.                              *)
(***************************************************************************)
Inv ==
    /\ TypeOK
    /\ LocksExclusive
    /\ StampedAfterArrival
    /\ ChecksStayTrue
    /\ BudgetNeverExceeded

LEMMA InitInv == Init => Inv
<1>. SUFFICES ASSUME Init PROVE Inv
  OBVIOUS
<1>1. TypeOK
  BY InitTypeOK
<1>2. BudgetNeverExceeded
  BY BidAssumption DEF Init, BudgetNeverExceeded
<1>3. LocksExclusive /\ StampedAfterArrival /\ ChecksStayTrue
  BY DEF Init, LocksExclusive, StampedAfterArrival, ChecksStayTrue, HoldsPublisher, HoldsAdvertiser
<1>. QED
  BY <1>1, <1>2, <1>3 DEF Inv

LEMMA StepInv == Inv /\ [Next]_vars => Inv'
  BY NextTypeOK, LocksStep, TimesStep, ChecksStep, BudgetStep DEF Inv

THEOREM InvHolds == Spec => []Inv
  BY InitInv, StepInv, PTL DEF Spec

\* What was read under the locks holds until the commit, for any number of
\* concurrent requests.
THEOREM ReadsAreCurrent == Spec => []ChecksStayTrue
<1>1. Inv => ChecksStayTrue
  BY DEF Inv
<1>. QED
  BY <1>1, InvHolds, PTL

\* No interleaving of redemptions takes an ad's spend over its budget.
THEOREM BudgetsHold == Spec => []BudgetNeverExceeded
<1>1. Inv => BudgetNeverExceeded
  BY DEF Inv
<1>. QED
  BY <1>1, InvHolds, PTL

\* The defensive throw of the redeem route is unreachable.
THEOREM NeverThrows == Spec => []SettlementNeverThrows
<1>1. Inv => SettlementNeverThrows
  BY DEF Inv, ChecksStayTrue, SettlementNeverThrows
<1>. QED
  BY <1>1, InvHolds, PTL

(***************************************************************************)
(* Refinement: the concurrent redemption implements ImpressionBilling.     *)
(***************************************************************************)
LEMMA InitRefines == Init => Billing!Init
  BY DEF Init, Billing!Init, TermsOf, OutcomeOf

\* Issuing a token: its charge lies between the floor's and its bid's.
LEMMA BeginRefines ==
  ASSUME TypeOK, NEW t \in Tokens, NEW d \in Devices, NEW s \in Surfaces, Begin(t, d, s)
  PROVE  \E p \in Publishers, a \in Ads : Billing!Issue(t, p, a)
<1>1. PICK a \in Ads, jitter \in 0..JitterMax : \E second \in SecondPrices(a) :
        token' = [token EXCEPT ![t] =
              [dev |-> d, ad |-> a, surface |-> s,
               charge    |-> ImpressionCharge(ClearingCpm(MaxCpm[a], second)),
               minDwell  |-> MinDwell + jitter,
               issuedAt  |-> clock,
               expiresAt |-> clock + TokenTtl]]
  BY DEF Begin
<1>2. PICK second \in SecondPrices(a) :
        token' = [token EXCEPT ![t] =
              [dev |-> d, ad |-> a, surface |-> s,
               charge    |-> ImpressionCharge(ClearingCpm(MaxCpm[a], second)),
               minDwell  |-> MinDwell + jitter,
               issuedAt  |-> clock,
               expiresAt |-> clock + TokenTtl]]
  BY <1>1
<1>. DEFINE cpm == ClearingCpm(MaxCpm[a], second)
            charge == ImpressionCharge(cpm)
            p == Owner[d]
<1>3. MaxCpm[a] \in Nat /\ MaxCpm[a] >= MinBidCpm /\ second \in Nat /\ MinBidCpm \in Nat
  BY BidAssumption, PriceAssumption DEF SecondPrices
<1>4. cpm \in Nat /\ MinBidCpm <= cpm /\ cpm <= MaxCpm[a]
  BY <1>3, ClearingIsNat, ClearingWithinBid
<1>5. charge \in ImpressionCharge(MinBidCpm)..ImpressionCharge(MaxCpm[a])
  <2>1. charge \in Nat /\ ImpressionCharge(MinBidCpm) \in Nat /\ ImpressionCharge(MaxCpm[a]) \in Nat
    BY <1>3, <1>4, ChargeIsNat
  <2>2. ImpressionCharge(MinBidCpm) <= charge /\ charge <= ImpressionCharge(MaxCpm[a])
    BY <1>3, <1>4, ChargeIsMonotone
  <2>. QED
    BY <2>1, <2>2
<1>6. p \in Publishers
  BY EntityAssumption
<1>7. /\ token[t] = None
      /\ token'[t] # None
      /\ token'[t].dev = d /\ token'[t].ad = a /\ token'[t].charge = charge
      /\ \A u \in Tokens \ {t} : token'[u] = token[u]
  <2>1. token' \in [Tokens -> Token \cup {None}] /\ token'[t] \in Token
    BY <1>2, BeginTypeOK, <1>4, ChargeIsNat, TimeAssumption DEF TypeOK, Token
  <2>2. token[t] = None
    BY DEF Begin
  <2>. QED
    BY <1>2, <2>1, <2>2, NoneAssumption DEF TypeOK
<1>8. [u \in Tokens |-> TermsOf(u)]'
        = [[u \in Tokens |-> TermsOf(u)] EXCEPT ![t] = [publisher |-> p, ad |-> a, charge |-> charge]]
  BY <1>7 DEF TermsOf, PubOf
<1>9. [u \in Tokens |-> TermsOf(u)][t] = None
  BY <1>7 DEF TermsOf
<1>10. [u \in Tokens |-> OutcomeOf(u)]' = [u \in Tokens |-> OutcomeOf(u)]
  BY DEF Begin, OutcomeOf
<1>11. balance' = balance /\ escrow' = escrow /\ platform' = platform /\ spent' = spent
  BY DEF Begin, money, bids
<1>12. Billing!ImpressionCharge(MinBidCpm)..Billing!ImpressionCharge(MaxCpm[a])
        = ImpressionCharge(MinBidCpm)..ImpressionCharge(MaxCpm[a])
  BY DEF Billing!ImpressionCharge, ImpressionCharge
<1>. QED
  BY <1>5, <1>6, <1>8, <1>9, <1>10, <1>11, <1>12 DEF Billing!Issue

\* Issued tokens keep their terms.
LEMMA SameTokenSameTerms ==
  ASSUME token' = token
  PROVE  [t \in Tokens |-> TermsOf(t)]' = [t \in Tokens |-> TermsOf(t)]
  BY DEF TermsOf, PubOf

LEMMA TermsAreNotNone ==
  ASSUME NEW t \in Tokens, token[t] \in Token
  PROVE  TermsOf(t) # None
<1>1. token[t] # None /\ PubOf(t) \in Publishers
  BY EntityAssumption, NoneAssumption DEF PubOf, Token
<1>2. TermsOf(t) \in Billing!Terms
  BY <1>1 DEF TermsOf, Billing!Terms, Token
<1>. QED
  BY <1>2, TermsAssumption

LEMMA CommitHeldRefines ==
  ASSUME TypeOK, NEW w \in Workers, CommitHeld(w)
  PROVE  \E t \in Tokens : Billing!Hold(t)
<1>. DEFINE t == req[w].tok
<1>1. t \in Tokens /\ token[t] # None /\ row[t] = None
  BY DEF CommitHeld, TypeOK, Request
<1>2. row'[t] # None /\ row'[t].validation = "sivt" /\ \A u \in Tokens \ {t} : row'[u] = row[u]
  <2>1. row'[t] \in Row
    BY <1>1 DEF CommitHeld, InsertRow, TypeOK, Row, Request
  <2>. QED
    BY <1>1, <2>1, NoneAssumption DEF CommitHeld, InsertRow, TypeOK
<1>3. [u \in Tokens |-> OutcomeOf(u)]' = [[u \in Tokens |-> OutcomeOf(u)] EXCEPT ![t] = "sivt"]
  BY <1>2 DEF OutcomeOf
<1>4. [u \in Tokens |-> OutcomeOf(u)][t] = "none"
  BY <1>1 DEF OutcomeOf
<1>5. [u \in Tokens |-> TermsOf(u)][t] # None
  BY <1>1, TermsAreNotNone DEF TypeOK
<1>6. [u \in Tokens |-> TermsOf(u)]' = [u \in Tokens |-> TermsOf(u)]
  BY SameTokenSameTerms DEF CommitHeld
<1>7. balance' = balance /\ escrow' = escrow /\ platform' = platform /\ spent' = spent
  BY DEF CommitHeld, money, bids
<1>. QED
  BY <1>1, <1>3, <1>4, <1>5, <1>6, <1>7 DEF Billing!Hold

LEMMA CommitBilledRefines ==
  ASSUME TypeOK, ChecksStayTrue, NEW w \in Workers, CommitBilled(w)
  PROVE  \E t \in Tokens, roundUp \in BOOLEAN : Billing!Bill(t, roundUp)
<1>. DEFINE t == req[w].tok
            a == token[t].ad
            c == token[t].charge
            T == [u \in Tokens |-> TermsOf(u)]
            O == [u \in Tokens |-> OutcomeOf(u)]
<1>1. /\ t \in Tokens /\ token[t] # None /\ token[t] \in Token /\ row[t] = None
      /\ pc[w] = "checked" /\ req[w].bill /\ req[w] \in Request
  BY DEF CommitBilled, TypeOK, Request
<1>2. Affordable(req[w]) /\ WithinBudget(req[w])
  BY <1>1 DEF ChecksStayTrue
<1>3. PICK roundUp \in BOOLEAN :
        /\ balance'  = [balance EXCEPT ![AdvOf(t)] = @ - c]
        /\ escrow'   = [escrow EXCEPT ![PubOf(t)] = @ + PublisherAccrual(c, roundUp)]
        /\ platform' = platform + PlatformFee(c, roundUp)
  BY <1>2 DEF CommitBilled, Settle
<1>4. spent' = [spent EXCEPT ![a] = @ + c] /\ token' = token
  BY <1>2 DEF CommitBilled
<1>5. row'[t] # None /\ row'[t].validation = "valid" /\ \A u \in Tokens \ {t} : row'[u] = row[u]
  <2>1. row' = [row EXCEPT ![t] = [validation |-> "valid", charge |-> c, at |-> req[w].at]]
    BY <1>2 DEF CommitBilled, InsertRow
  <2>2. row'[t] \in Row
    BY <1>1, <2>1 DEF TypeOK, Row, Request, Token
  <2>. QED
    BY <1>1, <2>1, <2>2, NoneAssumption DEF TypeOK
<1>6. O' = [O EXCEPT ![t] = "valid"] /\ O[t] = "none"
  BY <1>1, <1>5 DEF OutcomeOf
<1>7. T' = T
  BY <1>4, SameTokenSameTerms
<1>8. T[t] # None /\ T[t].publisher = PubOf(t) /\ T[t].ad = a /\ T[t].charge = c
  BY <1>1, TermsAreNotNone DEF TermsOf
<1>9. c <= balance[AdvOf(t)] /\ spent[a] + c <= Budget[a]
  <2>1. balance[AdvOf(t)] \in Int /\ c \in Nat
    BY <1>1, EntityAssumption DEF TypeOK, Token, AdvOf
  <2>. QED
    BY <1>2, <2>1 DEF Affordable, WithinBudget
<1>10. /\ Billing!PublisherAccrual(c, roundUp) = PublisherAccrual(c, roundUp)
       /\ Billing!PlatformFee(c, roundUp) = PlatformFee(c, roundUp)
  BY DEF Billing!PublisherAccrual, PublisherAccrual, Billing!PlatformFee, PlatformFee
<1>11. Billing!Bill(t, roundUp)
  BY <1>3, <1>4, <1>6, <1>7, <1>8, <1>9, <1>10 DEF Billing!Bill, AdvOf
<1>. QED
  BY <1>1, <1>11

LEMMA StripeRefines ==
  ASSUME NEW v \in Advertisers, NEW m \in Amounts, TopUp(v, m) \/ Reverse(v, m)
  PROVE  Billing!Fund(v, m)
<1>1. [u \in Tokens |-> OutcomeOf(u)]' = [u \in Tokens |-> OutcomeOf(u)]
  BY DEF TopUp, Reverse, OutcomeOf
<1>2. [u \in Tokens |-> TermsOf(u)]' = [u \in Tokens |-> TermsOf(u)]
  BY SameTokenSameTerms DEF TopUp, Reverse
<1>. QED
  BY <1>1, <1>2 DEF TopUp, Reverse, bids, Billing!Fund

\* Every other step leaves what the abstract specification sees.
LEMMA OthersStutter ==
  ASSUME token' = token, row' = row, money' = money, bids' = bids
  PROVE  UNCHANGED Billing!vars
<1>1. [u \in Tokens |-> OutcomeOf(u)]' = [u \in Tokens |-> OutcomeOf(u)]
  BY DEF OutcomeOf
<1>. QED
  BY <1>1, SameTokenSameTerms DEF money, bids, Billing!vars

LEMMA StepRefines ==
  ASSUME Inv, [Next]_vars
  PROVE  [Billing!Next]_Billing!vars
<1>1. CASE \E t \in Tokens, d \in Devices, s \in Surfaces : Begin(t, d, s)
  BY <1>1, BeginRefines DEF Inv, Billing!Next
<1>2. CASE \E w \in Workers : CommitHeld(w)
  BY <1>2, CommitHeldRefines DEF Inv, Billing!Next
<1>3. CASE \E w \in Workers : CommitBilled(w)
  BY <1>3, CommitBilledRefines DEF Inv, Billing!Next
<1>4. CASE \E v \in Advertisers, m \in Amounts : TopUp(v, m) \/ Reverse(v, m)
  BY <1>4, StripeRefines DEF Billing!Next
<1>5. CASE token' = token /\ row' = row /\ money' = money /\ bids' = bids
  BY <1>5, OthersStutter
<1>. QED
  BY <1>1, <1>2, <1>3, <1>4, <1>5
     DEF Next, Redeem, vars, Tick, Arrive, Deny, BeginTransaction, LockPublisher, LockDevice,
         LockAdvertiser, Check, Refuse, Replay, Crash

\* The concurrent redemption, with its crashes, retries and replays, bills each
\* token at most once, on its own terms and within balance and budget.
THEOREM RefinesBilling == Spec => ImplementsBilling
<1>1. Init => Billing!Init
  BY InitRefines
<1>2. Inv /\ [Next]_vars => [Billing!Next]_Billing!vars
  BY StepRefines
<1>. QED
  BY <1>1, <1>2, InvHolds, PTL DEF Spec, ImplementsBilling, Billing!Spec

(***************************************************************************)
(* The rate bounds, for every window, ceiling and number of concurrent     *)
(* requests.  A window that ends no earlier than a new row's stamp starts  *)
(* no earlier than the window the request counted, because a request is    *)
(* stamped after it arrived; so its rows were all counted.                 *)
(***************************************************************************)
\* A set of fewer than m tokens has at most m after one more.
LEMMA OneMore ==
  ASSUME NEW S \in SUBSET Tokens, NEW W, NEW t \in Tokens, NEW m \in Nat,
         Cardinality(S) < m, W \subseteq S \cup {t}
  PROVE  Cardinality(W) <= m
<1>1. IsFiniteSet(S) /\ Cardinality(S) \in Nat
  BY EntityAssumption, FS_Subset, FS_CardinalityType
<1>2. IsFiniteSet(S \cup {t}) /\ Cardinality(S \cup {t}) <= Cardinality(S) + 1
  BY <1>1, FS_AddElement
<1>3. W \in SUBSET (S \cup {t})
  OBVIOUS
<1>4. IsFiniteSet(W) /\ Cardinality(W) <= Cardinality(S \cup {t})
  BY <1>2, <1>3, FS_Subset
<1>5. Cardinality(W) \in Nat /\ Cardinality(S \cup {t}) \in Nat
  BY <1>2, <1>4, FS_CardinalityType
<1>. QED
  BY <1>1, <1>2, <1>4, <1>5

LEMMA NoneCounted ==
  ASSUME NEW m \in Nat
  PROVE  Cardinality({}) <= m
  BY FS_EmptySet

(***************************************************************************)
(* The windows, for every start.                                           *)
(***************************************************************************)
PublisherWindow(p, start)  == InWindow(PublisherRows(p), start, Hour)
DeviceWindow(d, s, start)  == InWindow(DeviceRows(d, s), start, Hour)
BilledPublisherWindow(p, start) == InWindow(Billed(PublisherRows(p)), start, Hour)
BilledDeviceWindow(d, s, start) == InWindow(Billed(DeviceRows(d, s)), start, Hour)

WindowsBounded ==
    \A start \in Nat :
        /\ \A p \in Publishers :
              /\ Cardinality(PublisherWindow(p, start)) <= MaxPerPublisher
              /\ Cardinality(BilledPublisherWindow(p, start)) <= SoftPerPublisher
        /\ \A d \in Devices, s \in Surfaces :
              /\ Cardinality(DeviceWindow(d, s, start)) <= MaxPerSurface
              /\ Cardinality(BilledDeviceWindow(d, s, start)) <= SoftPerSurface

\* A step that records nothing leaves every window as it is.
LEMMA WindowsFrame ==
  ASSUME TypeOK, TokensKept, row' = row, WindowsBounded
  PROVE  WindowsBounded'
<1>1. \A u \in Tokens : row[u] # None => token'[u] = token[u] /\ PubOf(u)' = PubOf(u)
  BY DEF TypeOK, TokensKept, PubOf
<1>2. ASSUME NEW p \in Publishers PROVE PublisherRows(p)' = PublisherRows(p)
  BY <1>1 DEF PublisherRows, Recorded
<1>3. ASSUME NEW d \in Devices, NEW s \in Surfaces PROVE DeviceRows(d, s)' = DeviceRows(d, s)
  BY <1>1 DEF DeviceRows, Recorded
<1>4. ASSUME NEW start \in Nat, NEW p \in Publishers
      PROVE  /\ PublisherWindow(p, start)' = PublisherWindow(p, start)
             /\ BilledPublisherWindow(p, start)' = BilledPublisherWindow(p, start)
  BY <1>2 DEF PublisherWindow, BilledPublisherWindow, InWindow, Billed
<1>5. ASSUME NEW start \in Nat, NEW d \in Devices, NEW s \in Surfaces
      PROVE  /\ DeviceWindow(d, s, start)' = DeviceWindow(d, s, start)
             /\ BilledDeviceWindow(d, s, start)' = BilledDeviceWindow(d, s, start)
  BY <1>3 DEF DeviceWindow, BilledDeviceWindow, InWindow, Billed
<1>. QED
  BY <1>4, <1>5 DEF WindowsBounded

\* A commit inserts one row t.  A window without t keeps its rows; one with t has
\* only t and rows that the request counted.
LEMMA WindowsInsert ==
  ASSUME TypeOK, TypeOK', WindowsBounded, NEW r \in Request, NEW t \in Tokens, t = r.tok,
         token[t] # None, row[t] = None, token' = token,
         \A u \in Tokens \ {t} : row'[u] = row[u],
         row'[t] \in Row, row'[t].at = r.at, r.now <= r.at,
         ~OverCeiling(DeviceRecent(r), PublisherRecent(r)),
         row'[t].validation = "valid" =>
            DeviceRecent(r) < SoftPerSurface /\ PublisherRecent(r) < SoftPerPublisher
  PROVE  WindowsBounded'
<1>. DEFINE pubCounted == Since(PublisherRows(PubOf(t)), r.now - Hour)
            devCounted == Since(DeviceRows(token[t].dev, token[t].surface), r.now - Hour)
            from == r.now - Hour
<1>0. Recorded' = Recorded \cup {t} /\ t \notin Recorded
  BY NoneAssumption DEF Recorded
<1>1. \A u \in Recorded : row'[u] = row[u] /\ row[u] \in Row
  BY <1>0 DEF Recorded, TypeOK
<1>2. /\ pubCounted \in SUBSET Tokens /\ devCounted \in SUBSET Tokens
      /\ Cardinality(pubCounted) \in Nat /\ Cardinality(devCounted) \in Nat
  <2>1. pubCounted \in SUBSET Tokens /\ devCounted \in SUBSET Tokens
    BY DEF Since, PublisherRows, DeviceRows, Recorded
  <2>. QED
    BY <2>1, EntityAssumption, FS_Subset, FS_CardinalityType
<1>3. /\ Cardinality(pubCounted) < MaxPerPublisher
      /\ Cardinality(devCounted) < MaxPerSurface
      /\ row'[t].validation = "valid" =>
            Cardinality(devCounted) < SoftPerSurface /\ Cardinality(pubCounted) < SoftPerPublisher
  BY <1>2, RateAssumption DEF OverCeiling, DeviceRecent, PublisherRecent
<1>4. r.now \in Nat /\ r.at \in Nat /\ Hour \in Nat
  BY TimeAssumption DEF Request
<1>5. ASSUME NEW start \in Nat, NEW u \in Recorded, row'[u].at >= start, r.at <= start + Hour
      PROVE  row[u].at >= from
  BY <1>1, <1>4, <1>5 DEF Row
<1>6. ASSUME NEW start \in Nat, NEW p \in Publishers
      PROVE  /\ Cardinality(PublisherWindow(p, start)') <= MaxPerPublisher
             /\ Cardinality(BilledPublisherWindow(p, start)') <= SoftPerPublisher
  <2>1. PublisherRows(p)' = IF PubOf(t) = p THEN PublisherRows(p) \cup {t} ELSE PublisherRows(p)
    BY <1>0 DEF PublisherRows, PubOf
  <2>2. PublisherRows(p) \subseteq Recorded
    BY DEF PublisherRows
  <2>3. CASE t \in PublisherWindow(p, start)'
    <3>1. PubOf(t) = p /\ r.at <= start + Hour
      BY <1>0, <2>1, <2>2, <2>3 DEF PublisherWindow, InWindow
    <3>2. PublisherWindow(p, start)' \subseteq pubCounted \cup {t}
      BY <1>1, <1>5, <2>1, <2>2, <3>1 DEF PublisherWindow, InWindow, Since
    <3>3. BilledPublisherWindow(p, start)' \subseteq PublisherWindow(p, start)'
      BY DEF PublisherWindow, BilledPublisherWindow, InWindow, Billed
    <3>4. CASE row'[t].validation = "valid"
      BY <1>2, <1>3, <3>2, <3>3, <3>4, OneMore, RateAssumption
    <3>5. CASE row'[t].validation # "valid"
      <4>1. BilledPublisherWindow(p, start)' = BilledPublisherWindow(p, start)
        BY <1>0, <1>1, <2>1, <2>2, <3>5 DEF BilledPublisherWindow, InWindow, Billed
      <4>. QED
        BY <1>2, <1>3, <3>2, <4>1, OneMore, RateAssumption DEF WindowsBounded
    <3>. QED
      BY <3>4, <3>5
  <2>4. CASE t \notin PublisherWindow(p, start)'
    <3>1. PublisherWindow(p, start)' = PublisherWindow(p, start)
      BY <1>0, <1>1, <2>1, <2>2, <2>4 DEF PublisherWindow, InWindow
    <3>2. BilledPublisherWindow(p, start)' = BilledPublisherWindow(p, start)
      BY <1>0, <1>1, <2>1, <2>2, <2>4 DEF PublisherWindow, BilledPublisherWindow, InWindow, Billed
    <3>. QED
      BY <3>1, <3>2 DEF WindowsBounded
  <2>. QED
    BY <2>3, <2>4
<1>7. ASSUME NEW start \in Nat, NEW d \in Devices, NEW s \in Surfaces
      PROVE  /\ Cardinality(DeviceWindow(d, s, start)') <= MaxPerSurface
             /\ Cardinality(BilledDeviceWindow(d, s, start)') <= SoftPerSurface
  <2>1. DeviceRows(d, s)' = IF token[t].dev = d /\ token[t].surface = s
                            THEN DeviceRows(d, s) \cup {t} ELSE DeviceRows(d, s)
    BY <1>0 DEF DeviceRows
  <2>2. DeviceRows(d, s) \subseteq Recorded
    BY DEF DeviceRows
  <2>3. CASE t \in DeviceWindow(d, s, start)'
    <3>1. token[t].dev = d /\ token[t].surface = s /\ r.at <= start + Hour
      BY <1>0, <2>1, <2>2, <2>3 DEF DeviceWindow, InWindow
    <3>2. DeviceWindow(d, s, start)' \subseteq devCounted \cup {t}
      BY <1>1, <1>5, <2>1, <2>2, <3>1 DEF DeviceWindow, InWindow, Since
    <3>3. BilledDeviceWindow(d, s, start)' \subseteq DeviceWindow(d, s, start)'
      BY DEF DeviceWindow, BilledDeviceWindow, InWindow, Billed
    <3>4. CASE row'[t].validation = "valid"
      BY <1>2, <1>3, <3>2, <3>3, <3>4, OneMore, RateAssumption
    <3>5. CASE row'[t].validation # "valid"
      <4>1. BilledDeviceWindow(d, s, start)' = BilledDeviceWindow(d, s, start)
        BY <1>0, <1>1, <2>1, <2>2, <3>5 DEF BilledDeviceWindow, InWindow, Billed
      <4>. QED
        BY <1>2, <1>3, <3>2, <4>1, OneMore, RateAssumption DEF WindowsBounded
    <3>. QED
      BY <3>4, <3>5
  <2>4. CASE t \notin DeviceWindow(d, s, start)'
    <3>1. DeviceWindow(d, s, start)' = DeviceWindow(d, s, start)
      BY <1>0, <1>1, <2>1, <2>2, <2>4 DEF DeviceWindow, InWindow
    <3>2. BilledDeviceWindow(d, s, start)' = BilledDeviceWindow(d, s, start)
      BY <1>0, <1>1, <2>1, <2>2, <2>4 DEF DeviceWindow, BilledDeviceWindow, InWindow, Billed
    <3>. QED
      BY <3>1, <3>2 DEF WindowsBounded
  <2>. QED
    BY <2>3, <2>4
<1>. QED
  BY <1>6, <1>7 DEF WindowsBounded

\* A verdict of "valid" was given below both soft bands and the SIVT threshold.
LEMMA ValidVerdict ==
  ASSUME NEW r \in Request, Verdict(r) = "valid"
  PROVE  /\ ~(DeviceRecent(r) >= SoftPerSurface)
         /\ ~(PublisherRecent(r) >= SoftPerPublisher)
         /\ ~(RecentSivt(r) >= SivtThreshold)
  BY DEF Verdict, Classify

\* The counts are natural numbers.
LEMMA CountsAreNat ==
  ASSUME NEW r
  PROVE  DeviceRecent(r) \in Nat /\ PublisherRecent(r) \in Nat /\ RecentSivt(r) \in Nat
<1>1. \A S \in SUBSET Tokens : Cardinality(S) \in Nat
  BY EntityAssumption, FS_Subset, FS_CardinalityType
<1>. QED
  BY <1>1 DEF DeviceRecent, PublisherRecent, RecentSivt, Since, Sivt, DeviceRows, PublisherRows,
     Recorded

LEMMA WindowsStep ==
  ASSUME Inv, Inv', WindowsBounded, [Next]_vars
  PROVE  WindowsBounded'
<1>1. ASSUME NEW w \in Workers, CommitHeld(w) \/ CommitBilled(w), row' # row
      PROVE  WindowsBounded'
  <2>1. PICK r \in Request : r = req[w]
    BY <1>1 DEF Inv, TypeOK, CommitHeld, CommitBilled
  <2>. DEFINE t == r.tok
  <2>2. /\ pc[w] = "checked" /\ t \in Tokens /\ token[t] # None /\ token[t] \in Token
        /\ row[t] = None /\ token' = token /\ r.now <= r.at
    BY <1>1, <2>1 DEF Inv, TypeOK, CommitHeld, CommitBilled, Request, StampedAfterArrival
  <2>3. /\ ~OverCeiling(DeviceRecent(r), PublisherRecent(r))
        /\ r.bill => Verdict(r) = "valid"
    BY <2>1, <2>2 DEF Inv, ChecksStayTrue
  <2>4. /\ \A u \in Tokens \ {t} : row'[u] = row[u]
        /\ row'[t] \in Row /\ row'[t].at = r.at
        /\ row'[t].validation = "valid" => r.bill
    <3>1. CASE CommitHeld(w)
      BY <2>1, <3>1, HeldInserts DEF Inv
    <3>2. CASE CommitBilled(w)
      BY <1>1, <2>1, <3>2, BilledInserts DEF Inv
    <3>. QED
      BY <1>1, <3>1, <3>2
  <2>5. row'[t].validation = "valid" =>
          DeviceRecent(r) < SoftPerSurface /\ PublisherRecent(r) < SoftPerPublisher
    BY <2>3, <2>4, ValidVerdict, CountsAreNat, RateAssumption
  <2>. QED
    BY <2>2, <2>3, <2>4, <2>5, WindowsInsert DEF Inv
<1>2. CASE row' = row
  BY <1>2, WindowsFrame, NextKeepsTokens DEF Inv
<1>. QED
  BY <1>1, <1>2
     DEF Next, Redeem, vars, Tick, Begin, Arrive, Deny, BeginTransaction, LockPublisher,
         LockDevice, LockAdvertiser, Check, Refuse, Replay, Crash, TopUp, Reverse

LEMMA InitWindows == Init => WindowsBounded
<1>. SUFFICES ASSUME Init PROVE WindowsBounded
  OBVIOUS
<1>1. Recorded = {}
  BY DEF Init, Recorded
<1>2. ASSUME NEW start \in Nat, NEW p \in Publishers
      PROVE  PublisherWindow(p, start) = {} /\ BilledPublisherWindow(p, start) = {}
  BY <1>1 DEF PublisherWindow, BilledPublisherWindow, InWindow, Billed, PublisherRows
<1>3. ASSUME NEW start \in Nat, NEW d \in Devices, NEW s \in Surfaces
      PROVE  DeviceWindow(d, s, start) = {} /\ BilledDeviceWindow(d, s, start) = {}
  BY <1>1 DEF DeviceWindow, BilledDeviceWindow, InWindow, Billed, DeviceRows
<1>. QED
  BY <1>2, <1>3, NoneCounted, RateAssumption DEF WindowsBounded

THEOREM WindowsHold == Spec => []WindowsBounded
  BY InitWindows, WindowsStep, InvHolds, PTL DEF Spec

\* In every hour a publisher and each surface of a device stay within the hard
\* ceilings, for any number of tokens redeemed at once.
THEOREM CeilingsHold == Spec => []CeilingHolds
<1>1. Inv /\ WindowsBounded => CeilingHolds
  BY DEF Inv, TypeOK, WindowsBounded, CeilingHolds, PublisherWindow, DeviceWindow
<1>. QED
  BY <1>1, InvHolds, WindowsHold, PTL

\* In every hour at most the soft band is billed.
THEOREM SoftBandHolds == Spec => []BilledWithinSoftBand
<1>1. Inv /\ WindowsBounded => BilledWithinSoftBand
  BY DEF Inv, TypeOK, WindowsBounded, BilledWithinSoftBand, BilledPublisherWindow,
     BilledDeviceWindow
<1>. QED
  BY <1>1, InvHolds, WindowsHold, PTL

\* Nothing is billed to a publisher with SivtThreshold held rows in its window.
LEMMA FlaggedStep ==
  ASSUME Inv, [Next]_vars, NEW t \in Tokens,
         row[t] = None, row'[t] # None, row'[t].validation = "valid"
  PROVE  Cardinality(Since(Sivt(PublisherRows(PubOf(t))), row'[t].at - SivtWindow)) < SivtThreshold
<1>1. PICK w \in Workers : CommitBilled(w) \/ CommitHeld(w)
  BY DEF Next, Redeem, vars, Tick, Begin, Arrive, Deny, BeginTransaction, LockPublisher,
         LockDevice, LockAdvertiser, Check, Refuse, Replay, Crash, TopUp, Reverse
<1>2. PICK r \in Request : r = req[w]
  BY <1>1 DEF Inv, TypeOK, CommitHeld, CommitBilled
<1>3. pc[w] = "checked" /\ r.tok \in Tokens /\ r.now <= r.at /\ r.now \in Nat /\ r.at \in Nat
  BY <1>1, <1>2 DEF CommitBilled, CommitHeld, Inv, StampedAfterArrival, Request
<1>4. t = r.tok /\ r.bill /\ row'[t].at = r.at
  <2>1. /\ r.tok \in Tokens /\ row[r.tok] = None /\ TypeOK
        /\ row' # row /\ t \in Tokens
    BY <1>1, <1>2, CommitReads DEF Inv
  <2>2. CASE CommitHeld(w)
    BY <1>2, <2>1, <2>2, HeldInserts
  <2>3. CASE CommitBilled(w)
    BY <1>2, <2>1, <2>3, BilledInserts
  <2>. QED
    BY <1>1, <2>2, <2>3
<1>5. RecentSivt(r) < SivtThreshold
  BY <1>2, <1>3, <1>4, ValidVerdict, CountsAreNat, RateAssumption DEF Inv, ChecksStayTrue
<1>. DEFINE S == Sivt(PublisherRows(PubOf(t)))
<1>6. Since(S, r.at - SivtWindow) \in SUBSET Since(S, r.now - SivtWindow)
  <2>1. \A u \in S : row[u].at \in Nat
    BY DEF Sivt, PublisherRows, Recorded, Inv, TypeOK, Row
  <2>. QED
    BY <1>3, <2>1, TimeAssumption DEF Since
<1>7. Since(S, r.now - SivtWindow) \in SUBSET Tokens
  BY DEF Since, Sivt, PublisherRows, Recorded
<1>8. IsFiniteSet(Since(S, r.now - SivtWindow))
  BY <1>7, EntityAssumption, FS_Subset
<1>9. Cardinality(Since(S, r.at - SivtWindow)) <= Cardinality(Since(S, r.now - SivtWindow))
  BY <1>6, <1>8, FS_Subset
<1>10. Cardinality(Since(S, r.at - SivtWindow)) \in Nat
  BY <1>6, <1>8, FS_Subset, FS_CardinalityType
<1>. QED
  BY <1>4, <1>5, <1>9, <1>10, CountsAreNat, RateAssumption DEF RecentSivt

THEOREM FlaggedHeld == Spec => FlaggedPublisherIsHeld
<1>1. Inv /\ [Next]_vars =>
        [\A t \in Tokens :
          row[t] = None /\ row'[t] # None /\ row'[t].validation = "valid" =>
            Cardinality(Since(Sivt(PublisherRows(PubOf(t))), row'[t].at - SivtWindow))
              < SivtThreshold]_vars
  BY FlaggedStep
<1>. QED
  BY <1>1, InvHolds, PTL DEF Spec, FlaggedPublisherIsHeld

(***************************************************************************)
(* The dwell.  The gate compares the time the request arrived with the     *)
(* time the token was signed; the row is stamped later.                    *)
(***************************************************************************)
Lived(t, time) == token[t].issuedAt + token[t].minDwell <= time + Skew

DwellsPassed ==
    /\ \A t \in Tokens : token[t] # None => token[t].issuedAt <= clock
    /\ \A w \in Workers : pc[w] # "idle" => Lived(req[w].tok, req[w].now)
    /\ \A t \in Tokens : row[t] # None => Lived(t, row[t].at)

\* Whatever the client claims, the gate lets no token through before its dwell.
LEMMA GateIsReal ==
  ASSUME NEW issuedAt \in Nat, NEW now \in Nat, NEW claimed \in Int, NEW minDwell \in Nat,
         issuedAt <= now, EffectiveDwell(issuedAt, now, claimed) >= minDwell
  PROVE  issuedAt + minDwell <= now + Skew
  BY RateAssumption DEF EffectiveDwell, Greater, Lesser

LEMMA DwellsStep ==
  ASSUME Inv, Inv', DwellsPassed, [Next]_vars
  PROVE  DwellsPassed'
<1>1. TokensKept /\ clock \in Nat /\ clock' \in Nat /\ clock <= clock'
  <2>1. TokensKept /\ clock \in Nat
    BY NextKeepsTokens DEF Inv, TypeOK
  <2>2. clock' = clock \/ clock' = clock + 1
    BY DEF Next, Redeem, vars, Tick, Begin, Arrive, Deny, BeginTransaction, LockPublisher,
       LockDevice, LockAdvertiser, Check, Refuse, Replay, CommitHeld, CommitBilled, Crash,
       TopUp, Reverse
  <2>. QED
    BY <2>1, <2>2
<1>2. \A t \in Tokens : token'[t] # None => token'[t].issuedAt <= clock'
  <2>1. CASE token' = token
    <3>1. \A t \in Tokens : token[t] # None => token[t].issuedAt \in Nat
      BY DEF Inv, TypeOK, Token
    <3>. QED
      BY <1>1, <2>1, <3>1 DEF DwellsPassed
  <2>2. ASSUME NEW t \in Tokens, NEW d \in Devices, NEW s \in Surfaces, Begin(t, d, s)
        PROVE  \A u \in Tokens : token'[u] # None => token'[u].issuedAt <= clock'
    <3>1. clock' = clock /\ token'[t].issuedAt = clock
          /\ \A u \in Tokens \ {t} : token'[u] = token[u]
      BY <2>2 DEF Begin, Inv, TypeOK
    <3>. QED
      BY <1>1, <3>1 DEF DwellsPassed
  <2>. QED
    BY <2>1, <2>2
       DEF Next, Redeem, vars, Tick, Arrive, Deny, BeginTransaction, LockPublisher,
           LockDevice, LockAdvertiser, Check, Refuse, Replay, CommitHeld, CommitBilled, Crash,
           TopUp, Reverse
<1>3. \A t \in Tokens, time \in Nat : token[t] # None /\ Lived(t, time) => Lived(t, time)'
  BY <1>1 DEF TokensKept, Lived
<1>4. ASSUME NEW w \in Workers, pc'[w] # "idle"
      PROVE  Lived(req[w].tok, req[w].now)'
  <2>1. ASSUME NEW t \in Tokens, NEW c \in Claims, Arrive(w, t, c)
        PROVE  Lived(req[w].tok, req[w].now)'
    <3>1. /\ token[t] # None /\ token[t] \in Token /\ token' = token
          /\ EffectiveDwell(token[t].issuedAt, clock, c) >= token[t].minDwell
          /\ req'[w].tok = t /\ req'[w].now = clock
      BY <2>1 DEF Arrive, Dwell, Inv, TypeOK
    <3>2. token[t].issuedAt \in Nat /\ token[t].minDwell \in Nat /\ token[t].issuedAt <= clock
          /\ c \in Int
      BY <3>1, AmountAssumption DEF Token, DwellsPassed
    <3>3. token[t].issuedAt + token[t].minDwell <= clock + Skew
      BY <1>1, <3>1, <3>2, GateIsReal
    <3>. QED
      BY <3>1, <3>3 DEF Lived
  <2>2. CASE ~ \E t \in Tokens, c \in Claims : Arrive(w, t, c)
    <3>1. pc[w] # "idle" /\ req'[w].tok = req[w].tok /\ req'[w].now = req[w].now
      <4>1. ASSUME NEW u \in Workers, BeginTransaction(u) \/ Check(u)
            PROVE  pc[w] # "idle" /\ req'[w].tok = req[w].tok /\ req'[w].now = req[w].now
        <5>1. /\ pc[u] # "idle" /\ req[u] \in Request
              /\ pc'[w] = pc[w] \/ u = w
              /\ req'[w] = req[w] \/ u = w
          BY <4>1 DEF BeginTransaction, Check, Goto, Inv, TypeOK
        <5>2. req'[u].tok = req[u].tok /\ req'[u].now = req[u].now
          BY <4>1, <5>1 DEF BeginTransaction, Check, Inv, TypeOK, Request
        <5>. QED
          BY <1>4, <5>1, <5>2
      <4>2. ASSUME NEW u \in Workers, LockPublisher(u) \/ LockDevice(u) \/ LockAdvertiser(u)
            PROVE  pc[w] # "idle" /\ req'[w].tok = req[w].tok /\ req'[w].now = req[w].now
        BY <1>4, <4>2 DEF LockPublisher, LockDevice, LockAdvertiser, Goto, Inv, TypeOK
      <4>3. ASSUME NEW u \in Workers,
                   Refuse(u) \/ Replay(u) \/ CommitHeld(u) \/ CommitBilled(u) \/ Crash(u)
            PROVE  pc[w] # "idle" /\ req'[w].tok = req[w].tok /\ req'[w].now = req[w].now
        BY <1>4, <4>3 DEF Refuse, Replay, CommitHeld, CommitBilled, Crash, Finish, Inv, TypeOK
      <4>4. ASSUME NEW u \in Workers, NEW t \in Tokens, NEW c \in Claims, Arrive(u, t, c)
            PROVE  pc[w] # "idle" /\ req'[w].tok = req[w].tok /\ req'[w].now = req[w].now
        BY <1>4, <2>2, <4>4 DEF Arrive, Goto, Inv, TypeOK
      <4>5. CASE pc' = pc /\ req' = req
        BY <1>4, <4>5
      <4>. QED
        BY <4>1, <4>2, <4>3, <4>4, <4>5
           DEF Next, Redeem, vars, Tick, Begin, Deny, TopUp, Reverse
    <3>2. req[w].tok \in Tokens /\ req[w].now \in Nat /\ token[req[w].tok] # None
      BY <3>1 DEF Inv, TypeOK, Request
    <3>3. Lived(req[w].tok, req[w].now)
      BY <3>1 DEF DwellsPassed
    <3>. QED
      BY <1>1, <3>1, <3>2, <3>3 DEF Lived, TokensKept
  <2>. QED
    BY <2>1, <2>2
<1>5. ASSUME NEW t \in Tokens, row'[t] # None
      PROVE  Lived(t, row[t].at)'
  <2>1. CASE row'[t] = row[t]
    <3>1. token[t] # None /\ row[t].at \in Nat /\ Lived(t, row[t].at)
      BY <1>5, <2>1 DEF DwellsPassed, Inv, TypeOK, Row
    <3>. QED
      BY <1>1, <2>1, <3>1 DEF Lived, TokensKept
  <2>2. ASSUME NEW w \in Workers, CommitHeld(w) \/ CommitBilled(w), row'[t] # row[t]
        PROVE  Lived(t, row[t].at)'
    <3>1. PICK r \in Request : r = req[w]
      BY <2>2 DEF Inv, TypeOK, CommitHeld, CommitBilled
    <3>2. /\ pc[w] # "idle" /\ t = r.tok /\ row'[t].at = r.at /\ token' = token
          /\ r.now <= r.at /\ r.now \in Nat /\ r.at \in Nat
      <4>1. /\ pc[w] = "checked" /\ token' = token /\ r.now \in Nat /\ r.at \in Nat
            /\ r.tok \in Tokens /\ TypeOK
        BY <2>2, <3>1, CommitReads DEF Inv
      <4>2. /\ \A u \in Tokens \ {r.tok} : row'[u] = row[u]
            /\ row'[r.tok].at = r.at
        BY <2>2, <3>1, <4>1, HeldInserts, BilledInserts
      <4>3. r.now <= r.at
        BY <3>1, <4>1 DEF Inv, StampedAfterArrival
      <4>. QED
        BY <2>2, <4>1, <4>2, <4>3
    <3>3. Lived(t, r.now) /\ token[t] \in Token
      BY <3>1, <3>2 DEF DwellsPassed, Inv, TypeOK
    <3>. QED
      BY <3>2, <3>3, RateAssumption DEF Lived, Token
  <2>. QED
    BY <2>1, <2>2
       DEF Next, Redeem, vars, Tick, Begin, Arrive, Deny, BeginTransaction, LockPublisher,
           LockDevice, LockAdvertiser, Check, Refuse, Replay, Crash, TopUp, Reverse
<1>. QED
  BY <1>2, <1>4, <1>5 DEF DwellsPassed, Lived

\* No impression is recorded of a token that did not live for its dwell.
THEOREM DwellsAreReal == Spec => []DwellIsReal
<1>1. Init => DwellsPassed
  BY DEF Init, DwellsPassed
<1>2. DwellsPassed => DwellIsReal
  BY DEF DwellsPassed, DwellIsReal, Lived
<1>. QED
  BY <1>1, <1>2, DwellsStep, InvHolds, PTL DEF Spec

(***************************************************************************)
(* The bid's status.                                                       *)
(***************************************************************************)
LEMMA InitDepleted == Init => DepletedWhenSpent
<1>. SUFFICES ASSUME Init, NEW a \in Ads
              PROVE  bidStatus[a] # "depleted" /\ ~(Budget[a] - spent[a] < ImpressionCharge(MinBidCpm))
  BY DEF DepletedWhenSpent
<1>1. MaxCpm[a] \in Nat /\ MinBidCpm \in Nat /\ MinBidCpm <= MaxCpm[a] /\ Budget[a] \in Nat
  BY BidAssumption, PriceAssumption
<1>2. /\ ImpressionCharge(MinBidCpm) \in Nat /\ ImpressionCharge(MaxCpm[a]) \in Nat
      /\ ImpressionCharge(MinBidCpm) <= ImpressionCharge(MaxCpm[a])
  BY <1>1, ChargeIsNat, ChargeIsMonotone
<1>3. ImpressionCharge(MaxCpm[a]) <= Budget[a]
  BY BidAssumption
<1>4. bidStatus[a] = "active" /\ spent[a] = 0
  BY DEF Init
<1>. QED
  BY <1>1, <1>2, <1>3, <1>4

LEMMA DepletedStep ==
  ASSUME TypeOK, DepletedWhenSpent, [Next]_vars
  PROVE  DepletedWhenSpent'
<1>1. ASSUME NEW w \in Workers, CommitBilled(w), Affordable(req[w])
      PROVE  DepletedWhenSpent'
  <2>. DEFINE a == token[req[w].tok].ad
              c == token[req[w].tok].charge
              floor == ImpressionCharge(MinBidCpm)
  <2>1. a \in Ads /\ c \in Nat /\ floor \in Nat /\ spent[a] \in Nat /\ Budget[a] \in Nat
    <3>1. token[req[w].tok] \in Token
      BY <1>1 DEF CommitBilled, TypeOK, Request
    <3>. QED
      BY <3>1, ChargeIsNat, PriceAssumption, BidAssumption DEF TypeOK, Token
  <2>2. /\ spent' = [spent EXCEPT ![a] = @ + c]
        /\ bidStatus' = IF Budget[a] - (spent[a] + c) < floor
                        THEN [bidStatus EXCEPT ![a] = "depleted"] ELSE bidStatus
    BY <1>1 DEF CommitBilled, Retire
  <2>. HIDE DEF a, c, floor
  <2>3. ASSUME NEW b \in Ads
        PROVE  bidStatus'[b] = "depleted" <=> Budget[b] - spent'[b] < floor
    <3>1. bidStatus[b] = "depleted" <=> Budget[b] - spent[b] < floor
      BY DEF DepletedWhenSpent, floor
    <3>2. CASE b # a
      <4>1. bidStatus'[b] = bidStatus[b] /\ spent'[b] = spent[b]
        BY <2>1, <2>2, <3>2 DEF TypeOK
      <4>. QED
        BY <3>1, <4>1
    <3>3. CASE b = a
      <4>1. spent'[a] = spent[a] + c
        BY <2>1, <2>2 DEF TypeOK
      <4>2. CASE Budget[a] - (spent[a] + c) < floor
        <5>1. bidStatus'[a] = "depleted"
          BY <2>1, <2>2, <4>2 DEF TypeOK
        <5>. QED
          BY <3>3, <4>1, <4>2, <5>1
      <4>3. CASE ~(Budget[a] - (spent[a] + c) < floor)
        <5>1. bidStatus'[a] = bidStatus[a]
          BY <2>2, <4>3
        <5>2. ~(Budget[a] - spent[a] < floor)
          BY <2>1, <4>3
        <5>. QED
          BY <3>1, <3>3, <4>1, <4>3, <5>1, <5>2
      <4>. QED
        BY <4>2, <4>3
    <3>. QED
      BY <3>2, <3>3
  <2>. QED
    BY <2>3 DEF DepletedWhenSpent, floor
<1>2. CASE spent' = spent /\ bidStatus' = bidStatus
  BY <1>2 DEF DepletedWhenSpent
<1>. QED
  BY <1>1, <1>2
     DEF Next, Redeem, vars, bids, Tick, Begin, Arrive, Deny, BeginTransaction, LockPublisher,
         LockDevice, LockAdvertiser, Check, Refuse, Replay, CommitHeld, CommitBilled, Crash,
         TopUp, Reverse

\* A bid is retired by the impression that takes its budget below the floor, never
\* earlier, never later, and never comes back.
THEOREM DepletedExactly == Spec => []DepletedWhenSpent
<1>1. Inv /\ DepletedWhenSpent /\ [Next]_vars => DepletedWhenSpent'
  BY DepletedStep DEF Inv
<1>. QED
  BY <1>1, InitDepleted, InvHolds, PTL DEF Spec

\* No token costs less than the floor.
PricesFromFloor ==
    \A t \in Tokens : token[t] # None => token[t].charge >= ImpressionCharge(MinBidCpm)

LEMMA PricesStep ==
  ASSUME TypeOK, PricesFromFloor, [Next]_vars
  PROVE  PricesFromFloor'
<1>1. ASSUME NEW t \in Tokens, NEW d \in Devices, NEW s \in Surfaces, Begin(t, d, s)
      PROVE  PricesFromFloor'
  <2>1. PICK a \in Ads : \E second \in SecondPrices(a) :
          /\ token'[t].charge = ImpressionCharge(ClearingCpm(MaxCpm[a], second))
          /\ \A u \in Tokens \ {t} : token'[u] = token[u]
    BY <1>1 DEF Begin, TypeOK
  <2>2. PICK second \in SecondPrices(a) :
          /\ token'[t].charge = ImpressionCharge(ClearingCpm(MaxCpm[a], second))
          /\ \A u \in Tokens \ {t} : token'[u] = token[u]
    BY <2>1
  <2>3. MaxCpm[a] \in Nat /\ MaxCpm[a] >= MinBidCpm /\ MinBidCpm \in Nat /\ second \in Nat
    BY BidAssumption, PriceAssumption DEF SecondPrices
  <2>4. /\ ClearingCpm(MaxCpm[a], second) \in Nat
        /\ MinBidCpm <= ClearingCpm(MaxCpm[a], second)
    BY <2>3, ClearingIsNat, ClearingWithinBid
  <2>5. ImpressionCharge(MinBidCpm) <= token'[t].charge
    BY <2>2, <2>3, <2>4, ChargeIsMonotone
  <2>6. ImpressionCharge(MinBidCpm) \in Nat /\ token'[t].charge \in Nat
    BY <2>2, <2>3, <2>4, ChargeIsNat
  <2>. QED
    BY <2>2, <2>5, <2>6 DEF PricesFromFloor
<1>2. CASE token' = token
  BY <1>2 DEF PricesFromFloor
<1>. QED
  BY <1>1, <1>2
     DEF Next, Redeem, vars, Tick, Arrive, Deny, BeginTransaction, LockPublisher, LockDevice,
         LockAdvertiser, Check, Refuse, Replay, CommitHeld, CommitBilled, Crash, TopUp, Reverse

LEMMA NothingBilledStep ==
  ASSUME Inv, PricesFromFloor, DepletedWhenSpent, [Next]_vars,
         NEW a \in Ads, bidStatus[a] = "depleted"
  PROVE  bidStatus'[a] = "depleted" /\ spent'[a] = spent[a]
<1>1. ASSUME NEW w \in Workers, CommitBilled(w), Affordable(req[w])
      PROVE  bidStatus'[a] = "depleted" /\ spent'[a] = spent[a]
  <2>. DEFINE b == token[req[w].tok].ad
              c == token[req[w].tok].charge
              floor == ImpressionCharge(MinBidCpm)
  <2>1. b \in Ads /\ c \in Nat /\ floor \in Nat /\ c >= floor
    <3>1. req[w].tok \in Tokens /\ token[req[w].tok] \in Token
      BY <1>1 DEF CommitBilled, Inv, TypeOK, Request
    <3>. QED
      BY <3>1, ChargeIsNat, PriceAssumption, NoneAssumption DEF Token, PricesFromFloor
  <2>2. spent[b] + c <= Budget[b]
    BY <1>1 DEF CommitBilled, Inv, ChecksStayTrue, WithinBudget
  <2>3. Budget[a] - spent[a] < floor /\ Budget[a] \in Nat /\ spent[a] \in Nat
    BY BidAssumption DEF DepletedWhenSpent, Inv, TypeOK
  <2>4. a # b
    BY <2>1, <2>2, <2>3
  <2>5. /\ spent' = [spent EXCEPT ![b] = @ + c]
        /\ \/ bidStatus' = [bidStatus EXCEPT ![b] = "depleted"]
           \/ bidStatus' = bidStatus
    BY <1>1 DEF CommitBilled, Retire
  <2>. HIDE DEF b, c, floor
  <2>. QED
    BY <2>1, <2>4, <2>5 DEF Inv, TypeOK
<1>2. CASE spent' = spent /\ bidStatus' = bidStatus
  BY <1>2
<1>. QED
  BY <1>1, <1>2
     DEF Next, Redeem, vars, bids, Tick, Begin, Arrive, Deny, BeginTransaction, LockPublisher,
         LockDevice, LockAdvertiser, Check, Refuse, Replay, CommitHeld, CommitBilled, Crash,
         TopUp, Reverse

\* A depleted bid stays depleted, and the tokens sold before are never billed on it,
\* whatever the order in which they come (redeem/route.ts:207-216): the auction sold
\* each for the floor price at least, and the budget has less left.
THEOREM DepletedForGood == Spec => NothingBilledOnDepleted
<1>1. Init => PricesFromFloor
  BY DEF Init, PricesFromFloor
<1>2. Inv /\ PricesFromFloor /\ [Next]_vars => PricesFromFloor'
  BY PricesStep DEF Inv
<1>3. Inv /\ PricesFromFloor /\ DepletedWhenSpent /\ [Next]_vars =>
        [\A a \in Ads : bidStatus[a] = "depleted" =>
            bidStatus'[a] = "depleted" /\ spent'[a] = spent[a]]_vars
  BY NothingBilledStep
<1>. QED
  BY <1>1, <1>2, <1>3, InvHolds, DepletedExactly, PTL DEF Spec, NothingBilledOnDepleted

(***************************************************************************)
(* The ledger is the impressions table.                                    *)
(***************************************************************************)

\* The charges of the rows S of a table r.
ChargesOf(r, S) == SumFunction([u \in S |-> r[u].charge])

\* Inserting row t adds its charge to every sum over rows that takes t in.
LEMMA ChargeAdded ==
  ASSUME NEW r \in [Tokens -> Row \cup {None}], NEW q \in [Tokens -> Row \cup {None}],
         NEW S \in SUBSET Tokens, \A u \in S : r[u] # None,
         NEW t \in Tokens, r[t] = None, q[t] # None, \A u \in Tokens \ {t} : q[u] = r[u]
  PROVE  /\ ChargesOf(q, S \cup {t}) = ChargesOf(r, S) + q[t].charge
         /\ ChargesOf(q, S) = ChargesOf(r, S)
<1>. DEFINE before == [u \in S |-> r[u].charge]
            after  == [u \in S \cup {t} |-> q[u].charge]
<1>1. IsFiniteSet(S) /\ t \notin S
  BY EntityAssumption, FS_Subset
<1>2. \A u \in S : q[u] = r[u] /\ r[u].charge \in Nat
  BY <1>1 DEF Row
<1>3. q[t].charge \in Nat
  BY DEF Row
<1>4. before \in [S -> Nat] /\ after \in [S \cup {t} -> Nat] /\ \A u \in S : after[u] = before[u]
  BY <1>1, <1>2, <1>3
<1>5. after[t] = q[t].charge
  OBVIOUS
<1>6. [u \in S |-> q[u].charge] = before
  BY <1>2
<1>. HIDE DEF before, after
<1>7. SumFunction(after) = SumFunction(before) + after[t]
  BY <1>1, <1>4, SumExtends
<1>. QED
  BY <1>5, <1>6, <1>7 DEF before, after, ChargesOf

LEMMA RowAdded ==
  ASSUME TypeOK, TypeOK', NEW t \in Tokens, row[t] = None,
         row'[t] \in Row, \A u \in Tokens \ {t} : row'[u] = row[u]
  PROVE  \A S \in SUBSET Recorded :
            /\ SumFunction([u \in S \cup {t} |-> row'[u].charge])
                 = SumFunction([u \in S |-> row[u].charge]) + row'[t].charge
            /\ SumFunction([u \in S |-> row'[u].charge]) = SumFunction([u \in S |-> row[u].charge])
<1>1. row \in [Tokens -> Row \cup {None}] /\ row' \in [Tokens -> Row \cup {None}]
  BY DEF TypeOK
<1>2. row'[t] # None
  BY NoneAssumption
<1>3. ASSUME NEW S \in SUBSET Recorded
      PROVE  /\ ChargesOf(row', S \cup {t}) = ChargesOf(row, S) + row'[t].charge
             /\ ChargesOf(row', S) = ChargesOf(row, S)
  <2>1. S \in SUBSET Tokens /\ \A u \in S : row[u] # None
    BY DEF Recorded
  <2>. QED
    BY <1>1, <1>2, <2>1, ChargeAdded
<1>. QED
  BY <1>3 DEF ChargesOf

LEMMA ChargesAreNat ==
  ASSUME TypeOK, NEW S \in SUBSET Recorded
  PROVE  IsFiniteSet(S) /\ [u \in S |-> row[u].charge] \in [S -> Nat] /\ Charges(S) \in Nat
<1>1. IsFiniteSet(S)
  BY EntityAssumption, FS_Subset DEF Recorded
<1>2. [u \in S |-> row[u].charge] \in [S -> Nat]
  BY DEF TypeOK, Row, Recorded
<1>. QED
  BY <1>1, <1>2, SumOfFunction DEF Charges

\* A step that records nothing leaves the sums over the rows as they are.
LEMMA SameRows ==
  ASSUME TypeOK, TokensKept, row' = row
  PROVE  /\ Charges(Recorded)' = Charges(Recorded)
         /\ \A v \in Advertisers : Charges(AdvertiserRows(v))' = Charges(AdvertiserRows(v))
         /\ \A a \in Ads : /\ AdRows(a)' = AdRows(a)
                           /\ Charges(AdRows(a))' = Charges(AdRows(a))
         /\ \A p \in Publishers :
               Cardinality(Sivt(PublisherRows(p)))' = Cardinality(Sivt(PublisherRows(p)))
<1>1. Recorded' = Recorded /\ \A u \in Recorded : token'[u] = token[u] /\ u \in Tokens
  BY DEF Recorded, TypeOK, TokensKept
<1>2. \A v \in Advertisers : AdvertiserRows(v)' = AdvertiserRows(v)
  BY <1>1 DEF AdvertiserRows, AdvOf
<1>3. \A a \in Ads : AdRows(a)' = AdRows(a)
  BY <1>1 DEF AdRows
<1>4. \A p \in Publishers : PublisherRows(p)' = PublisherRows(p)
  BY <1>1 DEF PublisherRows, PubOf
<1>. QED
  BY <1>1, <1>2, <1>3, <1>4 DEF Charges, Sivt

\* One new row adds its charge to the sums of its advertiser and of its ad.
LEMMA NewRow ==
  ASSUME TypeOK, TypeOK', token' = token, NEW t \in Tokens, row[t] = None,
         row'[t] \in Row, \A u \in Tokens \ {t} : row'[u] = row[u]
  PROVE  /\ Charges(Recorded)' = Charges(Recorded) + row'[t].charge
         /\ \A v \in Advertisers : Charges(AdvertiserRows(v))' =
               IF AdvOf(t) = v THEN Charges(AdvertiserRows(v)) + row'[t].charge
                               ELSE Charges(AdvertiserRows(v))
         /\ \A a \in Ads : Charges(AdRows(a))' =
               IF token[t].ad = a THEN Charges(AdRows(a)) + row'[t].charge
                                  ELSE Charges(AdRows(a))
         /\ \A p \in Publishers : Cardinality(Sivt(PublisherRows(p)))' =
               IF PubOf(t) = p /\ row'[t].validation # "valid"
               THEN Cardinality(Sivt(PublisherRows(p))) + 1
               ELSE Cardinality(Sivt(PublisherRows(p)))
<1>1. row'[t] # None /\ Recorded' = Recorded \cup {t} /\ t \notin Recorded
      /\ \A u \in Recorded : u \in Tokens \ {t} /\ row[u] # None
  BY NoneAssumption DEF Recorded
<1>3. Charges(Recorded)' = Charges(Recorded) + row'[t].charge
  BY <1>1, RowAdded DEF Charges
<1>4. ASSUME NEW v \in Advertisers
      PROVE  Charges(AdvertiserRows(v))' =
               IF AdvOf(t) = v THEN Charges(AdvertiserRows(v)) + row'[t].charge
                               ELSE Charges(AdvertiserRows(v))
  <2>1. AdvertiserRows(v)' = IF AdvOf(t) = v THEN AdvertiserRows(v) \cup {t} ELSE AdvertiserRows(v)
    BY <1>1 DEF AdvertiserRows, AdvOf
  <2>2. AdvertiserRows(v) \in SUBSET Recorded
    BY DEF AdvertiserRows
  <2>. QED
    BY <2>1, <2>2, RowAdded DEF Charges
<1>5. ASSUME NEW a \in Ads
      PROVE  Charges(AdRows(a))' =
               IF token[t].ad = a THEN Charges(AdRows(a)) + row'[t].charge
                                  ELSE Charges(AdRows(a))
  <2>1. AdRows(a)' = IF token[t].ad = a THEN AdRows(a) \cup {t} ELSE AdRows(a)
    BY <1>1 DEF AdRows
  <2>2. AdRows(a) \in SUBSET Recorded
    BY DEF AdRows
  <2>. QED
    BY <2>1, <2>2, RowAdded DEF Charges
<1>6. ASSUME NEW p \in Publishers
      PROVE  Cardinality(Sivt(PublisherRows(p)))' =
               IF PubOf(t) = p /\ row'[t].validation # "valid"
               THEN Cardinality(Sivt(PublisherRows(p))) + 1
               ELSE Cardinality(Sivt(PublisherRows(p)))
  <2>. DEFINE S == Sivt(PublisherRows(p))
  <2>1. S' = IF PubOf(t) = p /\ row'[t].validation # "valid" THEN S \cup {t} ELSE S
    BY <1>1 DEF Sivt, PublisherRows, PubOf
  <2>2. S \in SUBSET Tokens /\ t \notin S
    BY <1>1 DEF Sivt, PublisherRows
  <2>3. IsFiniteSet(S)
    BY <2>2, EntityAssumption, FS_Subset
  <2>4. Cardinality(S \cup {t}) = Cardinality(S) + 1
    BY <2>2, <2>3, FS_AddElement
  <2>. QED
    BY <2>1, <2>4
<1>. QED
  BY <1>3, <1>4, <1>5, <1>6

LEMMA InitSums == Init => SumsMatchRows
<1>. SUFFICES ASSUME Init PROVE SumsMatchRows
  OBVIOUS
<1>1. Recorded = {}
  BY DEF Init, Recorded
<1>2. Charges({}) = 0
  <2>1. [u \in {} |-> row[u].charge] \in [{} -> Nat]
    OBVIOUS
  <2>. QED
    BY <2>1, SumOfNothing DEF Charges
<1>3. SumFunction(escrow) = 0
  BY EntityAssumption, SumOfZeros DEF Init
<1>4. /\ \A v \in Advertisers : AdvertiserRows(v) = {}
      /\ \A a \in Ads : AdRows(a) = {}
      /\ \A p \in Publishers : Sivt(PublisherRows(p)) = {}
  BY <1>1 DEF AdvertiserRows, AdRows, Sivt, PublisherRows
<1>5. \A p \in Publishers : fraudScore[p] = FraudIncrement * Cardinality({})
  <2>1. FraudIncrement * 0 = 0
    BY AmountAssumption
  <2>. QED
    BY <2>1, FS_EmptySet DEF Init
<1>6. \A v \in Advertisers : balance[v] = funded[v] - reversed[v] - Charges(AdvertiserRows(v))
  BY <1>2, <1>4 DEF Init
<1>7. \A a \in Ads : spent[a] = Charges(AdRows(a))
  BY <1>2, <1>4 DEF Init
<1>8. SumFunction(escrow) + platform = Charges(Recorded)
  BY <1>1, <1>2, <1>3 DEF Init
<1>9. \A p \in Publishers : fraudScore[p] = FraudIncrement * Cardinality(Sivt(PublisherRows(p)))
  BY <1>4, <1>5
<1>. QED
  BY <1>6, <1>7, <1>8, <1>9 DEF SumsMatchRows

\* What a settlement credits in all is the charge, whichever way it is rounded.
LEMMA SettleCreditsCharge ==
  ASSUME TypeOK, NEW v \in Advertisers, NEW p \in Publishers, NEW c \in Nat, Settle(v, p, c)
  PROVE  SumFunction(escrow') + platform' = SumFunction(escrow) + platform + c
<1>1. PICK roundUp \in BOOLEAN :
        /\ escrow'   = [escrow EXCEPT ![p] = @ + PublisherAccrual(c, roundUp)]
        /\ platform' = platform + PlatformFee(c, roundUp)
  BY DEF Settle
<1>. DEFINE share == PublisherAccrual(c, roundUp)
            fee   == PlatformFee(c, roundUp)
<1>2. share \in Nat /\ fee \in Nat /\ share + fee = c
  <2>1. share \in 0..c /\ fee \in 0..c /\ share + fee = c
    BY SplitIsExact
  <2>. QED
    BY <2>1
<1>. HIDE DEF share, fee
<1>3. /\ escrow \in [Publishers -> Nat] /\ escrow' \in [Publishers -> Nat]
      /\ escrow'[p] = escrow[p] + share
      /\ \A q \in Publishers \ {p} : escrow'[q] = escrow[q]
      /\ platform' = platform + fee /\ platform \in Nat /\ escrow[p] \in Nat
  BY <1>1, <1>2 DEF TypeOK, share, fee
<1>4. SumFunction(escrow') = SumFunction(escrow) - escrow[p] + escrow'[p]
  BY <1>3, EntityAssumption, SumUpdates
<1>5. SumFunction(escrow) \in Nat
  BY <1>3, EntityAssumption, SumOfFunction
<1>. QED
  BY <1>2, <1>3, <1>4, <1>5

LEMMA SumsStep ==
  ASSUME TypeOK, TypeOK', SumsMatchRows, [Next]_vars
  PROVE  SumsMatchRows'
<1>. USE EntityAssumption
<1>1. CASE row' = row
  <2>1. TokensKept
    BY NextKeepsTokens
  <2>2. spent' = spent /\ escrow' = escrow /\ platform' = platform /\ fraudScore' = fraudScore
    <3>1. ASSUME NEW w \in Workers, CommitHeld(w) \/ (CommitBilled(w) /\ Affordable(req[w]))
          PROVE  FALSE
      <4>1. req[w] \in Request /\ row[req[w].tok] = None /\ token[req[w].tok] \in Token
        BY <3>1 DEF CommitHeld, CommitBilled, TypeOK, Request
      <4>2. row'[req[w].tok] \in Row
        BY <3>1, HeldInserts, BilledInserts
      <4>. QED
        BY <1>1, <4>1, <4>2, NoneAssumption
    <3>. QED
      BY <3>1
         DEF Next, Redeem, vars, money, bids, Tick, Begin, Arrive, Deny, BeginTransaction,
             LockPublisher, LockDevice, LockAdvertiser, Check, Refuse, Replay, CommitBilled,
             Crash, TopUp, Reverse
  <2>3. \A v \in Advertisers :
           balance'[v] - funded'[v] + reversed'[v] = balance[v] - funded[v] + reversed[v]
    <3>1. ASSUME NEW u \in Advertisers, NEW m \in Amounts, TopUp(u, m) \/ Reverse(u, m),
                 NEW v \in Advertisers
          PROVE  balance'[v] - funded'[v] + reversed'[v] = balance[v] - funded[v] + reversed[v]
      BY <3>1, AmountAssumption DEF TopUp, Reverse, TypeOK
    <3>2. CASE balance' = balance /\ funded' = funded /\ reversed' = reversed
      BY <3>2
    <3>3. ASSUME NEW w \in Workers, CommitBilled(w)
          PROVE  balance' = balance /\ funded' = funded /\ reversed' = reversed
      <4>1. req[w] \in Request /\ row[req[w].tok] = None /\ token[req[w].tok] \in Token
        BY <3>3, CommitReads
      <4>2. CASE Affordable(req[w])
        <5>1. row'[req[w].tok] \in Row
          BY <3>3, <4>2, BilledInserts
        <5>. QED
          BY <1>1, <4>1, <5>1, NoneAssumption
      <4>. QED
        BY <3>3, <4>2 DEF CommitBilled, money
    <3>. QED
      BY <3>1, <3>2, <3>3
         DEF Next, Redeem, vars, money, Tick, Begin, Arrive, Deny, BeginTransaction,
             LockPublisher, LockDevice, LockAdvertiser, Check, Refuse, Replay, CommitHeld, Crash
  <2>4. ASSUME NEW v \in Advertisers
        PROVE  balance'[v] = funded'[v] - reversed'[v] - Charges(AdvertiserRows(v))'
    <3>1. balance[v] = funded[v] - reversed[v] - Charges(AdvertiserRows(v))
      BY DEF SumsMatchRows
    <3>2. Charges(AdvertiserRows(v))' = Charges(AdvertiserRows(v))
      BY <1>1, <2>1, SameRows
    <3>3. Charges(AdvertiserRows(v)) \in Nat
      BY ChargesAreNat DEF AdvertiserRows
    <3>4. /\ balance[v] \in Int /\ funded[v] \in Nat /\ reversed[v] \in Nat
          /\ balance'[v] \in Int /\ funded'[v] \in Nat /\ reversed'[v] \in Nat
      BY DEF TypeOK
    <3>5. balance'[v] - funded'[v] + reversed'[v] = balance[v] - funded[v] + reversed[v]
      BY <2>3
    <3>. QED
      BY <3>1, <3>2, <3>3, <3>4, <3>5
  <2>. QED
    BY <1>1, <2>1, <2>2, <2>4, SameRows DEF SumsMatchRows
<1>2. ASSUME NEW w \in Workers, CommitHeld(w)
      PROVE  SumsMatchRows'
  <2>. DEFINE t == req[w].tok
  <2>1. t \in Tokens /\ row[t] = None /\ token[t] \in Token /\ token' = token
    BY <1>2 DEF CommitHeld, TypeOK, Request
  <2>2. /\ row'[t] \in Row /\ row'[t].charge = 0 /\ row'[t].validation # "valid"
        /\ \A u \in Tokens \ {t} : row'[u] = row[u]
    BY <1>2, HeldInserts
  <2>3. PubOf(t) \in Publishers
    BY <2>1 DEF PubOf, Token
  <2>4. /\ balance' = balance /\ escrow' = escrow /\ platform' = platform
        /\ funded' = funded /\ reversed' = reversed /\ spent' = spent
        /\ fraudScore' = [fraudScore EXCEPT ![PubOf(t)] = @ + FraudIncrement]
    BY <1>2 DEF CommitHeld, money, bids
  <2>. HIDE DEF t
  <2>5. /\ Charges(Recorded)' = Charges(Recorded)
        /\ \A v \in Advertisers : Charges(AdvertiserRows(v))' = Charges(AdvertiserRows(v))
        /\ \A a \in Ads : Charges(AdRows(a))' = Charges(AdRows(a))
    <3>1. /\ Charges(Recorded) \in Nat
          /\ \A v \in Advertisers : Charges(AdvertiserRows(v)) \in Nat
          /\ \A a \in Ads : Charges(AdRows(a)) \in Nat
      BY ChargesAreNat DEF AdvertiserRows, AdRows
    <3>. QED
      BY <2>1, <2>2, <3>1, NewRow
  <2>6. ASSUME NEW p \in Publishers
        PROVE  fraudScore'[p] = FraudIncrement * Cardinality(Sivt(PublisherRows(p)))'
    <3>. DEFINE n == Cardinality(Sivt(PublisherRows(p)))
    <3>1. n \in Nat
      <4>1. Sivt(PublisherRows(p)) \in SUBSET Tokens
        BY DEF Sivt, PublisherRows, Recorded
      <4>. QED
        BY <4>1, FS_Subset, FS_CardinalityType
    <3>2. n' = IF PubOf(t) = p THEN n + 1 ELSE n
      BY <2>1, <2>2, NewRow
    <3>3. fraudScore'[p] = IF PubOf(t) = p THEN fraudScore[p] + FraudIncrement ELSE fraudScore[p]
      BY <2>3, <2>4 DEF TypeOK
    <3>4. fraudScore[p] = FraudIncrement * n
      BY DEF SumsMatchRows
    <3>. HIDE DEF n
    <3>5. FraudIncrement * (n + 1) = FraudIncrement * n + FraudIncrement
      BY <3>1, AmountAssumption
    <3>6. fraudScore'[p] = FraudIncrement * n'
      BY <3>2, <3>3, <3>4, <3>5
    <3>. QED
      BY <3>6 DEF n
  <2>. QED
    BY <2>4, <2>5, <2>6 DEF SumsMatchRows
<1>3. ASSUME NEW w \in Workers, CommitBilled(w), Affordable(req[w])
      PROVE  SumsMatchRows'
  <2>. DEFINE t == req[w].tok
              c == token[t].charge
              a == token[t].ad
  <2>1. t \in Tokens /\ row[t] = None /\ token[t] \in Token /\ token' = token /\ c \in Nat
    BY <1>3, CommitReads
  <2>2. /\ row'[t] \in Row /\ row'[t].charge = c /\ row'[t].validation = "valid"
        /\ \A u \in Tokens \ {t} : row'[u] = row[u]
    BY <1>3, BilledInserts
  <2>3. PubOf(t) \in Publishers /\ AdvOf(t) \in Advertisers /\ a \in Ads
    BY <2>1 DEF PubOf, AdvOf, Token
  <2>4. /\ Settle(AdvOf(t), PubOf(t), c)
        /\ spent' = [spent EXCEPT ![a] = @ + c]
        /\ fraudScore' = fraudScore
    BY <1>3 DEF CommitBilled
  <2>. HIDE DEF t, c, a
  <2>5. /\ balance' = [balance EXCEPT ![AdvOf(t)] = @ - c]
        /\ funded' = funded /\ reversed' = reversed
    BY <2>4 DEF Settle
  <2>6. ASSUME NEW v \in Advertisers
        PROVE  balance'[v] = funded'[v] - reversed'[v] - Charges(AdvertiserRows(v))'
    <3>1. balance[v] = funded[v] - reversed[v] - Charges(AdvertiserRows(v))
      BY DEF SumsMatchRows
    <3>2. Charges(AdvertiserRows(v))' = IF AdvOf(t) = v THEN Charges(AdvertiserRows(v)) + c
                                        ELSE Charges(AdvertiserRows(v))
      BY <2>1, <2>2, NewRow
    <3>3. Charges(AdvertiserRows(v)) \in Nat
      BY ChargesAreNat DEF AdvertiserRows
    <3>4. balance'[v] = IF AdvOf(t) = v THEN balance[v] - c ELSE balance[v]
      BY <2>3, <2>5 DEF TypeOK
    <3>5. balance[v] \in Int /\ funded[v] \in Nat /\ reversed[v] \in Nat
      BY DEF TypeOK
    <3>. QED
      BY <2>1, <2>5, <3>1, <3>2, <3>3, <3>4, <3>5
  <2>7. ASSUME NEW b \in Ads
        PROVE  spent'[b] = Charges(AdRows(b))'
    <3>1. spent[b] = Charges(AdRows(b))
      BY DEF SumsMatchRows
    <3>2. Charges(AdRows(b))' = IF a = b THEN Charges(AdRows(b)) + c ELSE Charges(AdRows(b))
      BY <2>1, <2>2, NewRow DEF a
    <3>3. spent'[b] = IF a = b THEN spent[b] + c ELSE spent[b]
      BY <2>3, <2>4 DEF TypeOK
    <3>. QED
      BY <3>1, <3>2, <3>3
  <2>8. SumFunction(escrow') + platform' = Charges(Recorded)'
    <3>1. SumFunction(escrow) + platform = Charges(Recorded)
      BY DEF SumsMatchRows
    <3>2. SumFunction(escrow') + platform' = SumFunction(escrow) + platform + c
      BY <2>1, <2>3, <2>4, SettleCreditsCharge
    <3>3. Charges(Recorded)' = Charges(Recorded) + c
      BY <2>1, <2>2, NewRow
    <3>. QED
      BY <3>1, <3>2, <3>3
  <2>9. ASSUME NEW p \in Publishers
        PROVE  fraudScore'[p] = FraudIncrement * Cardinality(Sivt(PublisherRows(p)))'
    <3>1. Cardinality(Sivt(PublisherRows(p)))' = Cardinality(Sivt(PublisherRows(p)))
      BY <2>1, <2>2, NewRow
    <3>. QED
      BY <2>4, <3>1 DEF SumsMatchRows
  <2>. QED
    BY <2>6, <2>7, <2>8, <2>9 DEF SumsMatchRows
<1>. QED
  BY <1>1, <1>2, <1>3
     DEF Next, Redeem, vars, Tick, Begin, Arrive, Deny, BeginTransaction, LockPublisher,
         LockDevice, LockAdvertiser, Check, Refuse, Replay, CommitBilled, Crash, TopUp, Reverse

\* The running totals of the ledger are the impressions and what Stripe moved, to the
\* last millicent, for every number of publishers, advertisers and concurrent requests.
THEOREM LedgerMatchesRows == Spec => []SumsMatchRows
<1>1. Inv /\ Inv' /\ SumsMatchRows /\ [Next]_vars => SumsMatchRows'
  BY SumsStep DEF Inv
<1>. QED
  BY <1>1, InitSums, InvHolds, PTL DEF Spec

(***************************************************************************)
(* The daily cap, for every day, along the argument of the rate bounds:    *)
(* the day that ends no earlier than a row's stamp starts no earlier than  *)
(* the day its request summed.                                             *)
(***************************************************************************)
DayWindow(a, start) == InWindow(AdRows(a), start, Day)

DaysBounded ==
    \A a \in Ads, start \in Nat :
        DailyCap[a] # NoCap => Charges(DayWindow(a, start)) <= DailyCap[a]

LEMMA InitDays == Init => DaysBounded
<1>. SUFFICES ASSUME Init, NEW a \in Ads, NEW start \in Nat, DailyCap[a] # NoCap
              PROVE  Charges(DayWindow(a, start)) <= DailyCap[a]
  BY DEF DaysBounded
<1>1. DayWindow(a, start) = {}
  BY DEF Init, DayWindow, InWindow, AdRows, Recorded
<1>2. [u \in {} |-> row[u].charge] \in [{} -> Nat]
  OBVIOUS
<1>3. Charges({}) = 0
  BY <1>2, SumOfNothing DEF Charges
<1>4. DailyCap[a] \in Nat
  BY BidAssumption
<1>. QED
  BY <1>1, <1>3, <1>4

\* A step that records nothing leaves every day as it is.
LEMMA DaysFrame ==
  ASSUME TypeOK, TokensKept, row' = row, DaysBounded
  PROVE  DaysBounded'
<1>1. ASSUME NEW a \in Ads, NEW start \in Nat
      PROVE  DayWindow(a, start)' = DayWindow(a, start)
  BY SameRows DEF DayWindow, InWindow
<1>. QED
  BY <1>1 DEF DaysBounded, Charges

\* A commit inserts row t, of ad a: a day without t keeps its sum, and one with t has t
\* and rows that the request summed.
LEMMA DaysInsert ==
  ASSUME TypeOK, TypeOK', DaysBounded, NEW r \in Request, NEW t \in Tokens, t = r.tok,
         token[t] \in Token, row[t] = None, token' = token,
         \A u \in Tokens \ {t} : row'[u] = row[u],
         row'[t] \in Row, row'[t].at = r.at, r.now <= r.at,
         \/ row'[t].charge = 0
         \/ row'[t].charge = token[t].charge /\ WithinDailyCap(r)
  PROVE  DaysBounded'
<1>. SUFFICES ASSUME NEW a \in Ads, NEW start \in Nat, DailyCap[a] # NoCap
              PROVE  Charges(DayWindow(a, start))' <= DailyCap[a]
  BY DEF DaysBounded
<1>. DEFINE W == DayWindow(a, start)
            c == row'[t].charge
<1>1. /\ W \in SUBSET Recorded /\ W \in SUBSET Tokens /\ t \notin W
      /\ \A u \in W : row[u] # None /\ row'[u] = row[u]
      /\ row'[t] # None /\ Recorded' = Recorded \cup {t}
  BY NoneAssumption DEF DayWindow, InWindow, AdRows, Recorded
<1>2. DailyCap[a] \in Nat /\ c \in Nat /\ Charges(W) \in Nat /\ Charges(W) <= DailyCap[a]
  BY <1>1, BidAssumption, ChargesAreNat DEF DaysBounded, Row
<1>3. /\ SumFunction([u \in W \cup {t} |-> row'[u].charge]) = Charges(W) + c
      /\ SumFunction([u \in W |-> row'[u].charge]) = Charges(W)
  BY <1>1, RowAdded DEF Charges
<1>4. W' = W \/ (W' = W \cup {t} /\ token[t].ad = a /\ r.at <= start + Day)
  <2>1. AdRows(a)' = IF token[t].ad = a THEN AdRows(a) \cup {t} ELSE AdRows(a)
    BY <1>1 DEF AdRows
  <2>2. AdRows(a) \subseteq Recorded /\ t \notin Recorded
    BY DEF AdRows, Recorded
  <2>3. \A u \in Recorded : row'[u] = row[u]
    BY <2>2 DEF Recorded
  <2>. QED
    BY <2>1, <2>2, <2>3 DEF DayWindow, InWindow
<1>5. CASE W' = W
  BY <1>2, <1>3, <1>5 DEF Charges
<1>6. CASE W' = W \cup {t} /\ token[t].ad = a /\ r.at <= start + Day
  <2>1. Charges(W)' = Charges(W) + c
    BY <1>3, <1>6 DEF Charges
  <2>2. CASE c = 0
    BY <1>2, <2>1, <2>2
  <2>3. CASE c = token[t].charge /\ WithinDailyCap(r)
    <3>. DEFINE counted == Since(AdRows(a), r.now - Day)
    <3>1. Charges(counted) + c <= DailyCap[a]
      BY <1>6, <2>3 DEF WithinDailyCap, SpentSince
    <3>2. W \in SUBSET counted /\ counted \in SUBSET Recorded
      <4>1. r.now \in Nat /\ r.at \in Nat /\ Day \in Nat
        BY TimeAssumption DEF Request
      <4>2. \A u \in Recorded : row[u].at \in Nat
        BY DEF TypeOK, Row, Recorded
      <4>. QED
        BY <1>6, <4>1, <4>2 DEF DayWindow, InWindow, Since, AdRows
    <3>3. Charges(W) <= Charges(counted) /\ Charges(counted) \in Nat
      <4>. DEFINE f == [u \in counted |-> row[u].charge]
                  g == [u \in W |-> row[u].charge]
      <4>1. IsFiniteSet(counted) /\ f \in [counted -> Nat] /\ Charges(counted) \in Nat
        BY <3>2, ChargesAreNat
      <4>2. g \in [W -> Nat] /\ \A u \in W : g[u] = f[u]
        BY <1>1, <3>2, ChargesAreNat
      <4>. HIDE DEF f, g, W, counted
      <4>3. SumFunction(g) <= SumFunction(f)
        BY <3>2, <4>1, <4>2, SumShrinks
      <4>. QED
        BY <4>1, <4>3 DEF f, g, Charges
    <3>. QED
      BY <1>2, <2>1, <3>1, <3>3
  <2>. QED
    BY <2>2, <2>3
<1>. QED
  BY <1>4, <1>5, <1>6

LEMMA DaysStep ==
  ASSUME Inv, Inv', DaysBounded, [Next]_vars
  PROVE  DaysBounded'
<1>1. ASSUME NEW w \in Workers, CommitHeld(w) \/ CommitBilled(w), row' # row
      PROVE  DaysBounded'
  <2>1. PICK r \in Request : r = req[w]
    BY <1>1 DEF Inv, TypeOK, CommitHeld, CommitBilled
  <2>. DEFINE t == r.tok
  <2>2. /\ pc[w] = "checked" /\ t \in Tokens /\ token[t] \in Token
        /\ row[t] = None /\ token' = token /\ r.now <= r.at
    BY <1>1, <2>1 DEF Inv, TypeOK, CommitHeld, CommitBilled, Request, StampedAfterArrival
  <2>3. r.bill => WithinDailyCap(r)
    BY <2>1, <2>2 DEF Inv, ChecksStayTrue
  <2>4. CASE CommitHeld(w)
    <3>1. /\ \A u \in Tokens \ {t} : row'[u] = row[u]
          /\ row'[t] \in Row /\ row'[t].at = r.at /\ row'[t].charge = 0
      BY <2>1, <2>4, HeldInserts DEF Inv
    <3>. QED
      BY <2>2, <3>1, DaysInsert DEF Inv
  <2>5. CASE CommitBilled(w)
    <3>1. /\ \A u \in Tokens \ {t} : row'[u] = row[u]
          /\ row'[t] \in Row /\ row'[t].at = r.at /\ row'[t].charge = token[t].charge /\ r.bill
      BY <1>1, <2>1, <2>5, BilledInserts DEF Inv
    <3>. QED
      BY <2>2, <2>3, <3>1, DaysInsert DEF Inv
  <2>. QED
    BY <1>1, <2>4, <2>5
<1>2. CASE row' = row
  BY <1>2, DaysFrame, NextKeepsTokens DEF Inv
<1>. QED
  BY <1>1, <1>2
     DEF Next, Redeem, vars, Tick, Begin, Arrive, Deny, BeginTransaction, LockPublisher,
         LockDevice, LockAdvertiser, Check, Refuse, Replay, Crash, TopUp, Reverse

\* In no day is an ad billed more than its daily cap, although the sum is taken at one
\* time and the impression stamped at another.
THEOREM DailyCapsHold == Spec => []DailyCapHolds
<1>1. Inv /\ DaysBounded => DailyCapHolds
  BY DEF Inv, TypeOK, DaysBounded, DailyCapHolds, DayWindow
<1>. QED
  BY <1>1, InitDays, DaysStep, InvHolds, PTL DEF Spec

(***************************************************************************)
(* Conservation of money.  What an advertiser still has, together with     *)
(* what Stripe took back from it, is what is left of its top-ups after the *)
(* charges: it never goes below nothing, although the balance alone does,  *)
(* when a refund comes after the money was spent.  Over all accounts no    *)
(* millicent appears or is lost.                                           *)
(***************************************************************************)
Left == [v \in Advertisers |-> balance[v] + reversed[v]]

NothingOverdrawn == \A v \in Advertisers : Left[v] \in Nat

Conserved == SumFunction(funded) = SumFunction(Left) + SumFunction(escrow) + platform

\* No advertiser is charged for more than was ever topped up for it, and publishers and
\* platform together are credited no more than advertisers paid in.
MoneyIsConserved ==
    /\ \A v \in Advertisers : Charges(AdvertiserRows(v)) <= funded[v]
    /\ SumFunction(escrow) + platform <= SumFunction(funded)

\* A step that settles nothing and that no Stripe event is.
LEMMA MoneyFrame ==
  ASSUME UNCHANGED money, NothingOverdrawn, Conserved
  PROVE  NothingOverdrawn' /\ Conserved'
<1>1. Left' = Left
  BY DEF money, Left
<1>. QED
  BY <1>1 DEF money, NothingOverdrawn, Conserved

\* One account of a ledger of natural numbers moves.
LEMMA OneAccountMoves ==
  ASSUME NEW S, IsFiniteSet(S), NEW v \in S, NEW m \in Int,
         NEW f \in [S -> Nat], NEW g \in [S -> Nat],
         g[v] = f[v] + m, \A u \in S \ {v} : g[u] = f[u]
  PROVE  SumFunction(g) = SumFunction(f) + m
<1>1. SumFunction(g) = SumFunction(f) - f[v] + g[v]
  BY SumUpdates
<1>2. SumFunction(f) \in Nat /\ f[v] \in Nat
  BY SumOfFunction
<1>. QED
  BY <1>1, <1>2

LEMMA TopUpConserves ==
  ASSUME IsFiniteSet(Advertisers), TypeOK, NothingOverdrawn, Conserved,
         NEW v \in Advertisers, NEW m \in Amounts, TopUp(v, m)
  PROVE  NothingOverdrawn' /\ Conserved'
<1>1. m \in Nat /\ m \in Int
  BY AmountAssumption
<1>2. /\ balance' = [balance EXCEPT ![v] = @ + m] /\ reversed' = reversed
      /\ funded' = [funded EXCEPT ![v] = @ + m]
      /\ escrow' = escrow /\ platform' = platform
  BY DEF TopUp
<1>3. /\ funded \in [Advertisers -> Nat] /\ balance \in [Advertisers -> Int]
      /\ reversed \in [Advertisers -> Nat] /\ Left \in [Advertisers -> Nat]
  BY DEF TypeOK, NothingOverdrawn, Left
<1>4. /\ funded' \in [Advertisers -> Nat] /\ funded'[v] = funded[v] + m
      /\ \A u \in Advertisers \ {v} : funded'[u] = funded[u]
  BY <1>1, <1>2, <1>3
<1>5. /\ Left'[v] = Left[v] + m
      /\ \A u \in Advertisers \ {v} : Left'[u] = Left[u]
  BY <1>1, <1>2, <1>3 DEF Left
<1>6. Left' \in [Advertisers -> Nat]
  <2>1. \A u \in Advertisers : Left'[u] \in Nat
    BY <1>1, <1>3, <1>5
  <2>. QED
    BY <2>1 DEF Left
<1>7. SumFunction(funded') = SumFunction(funded) + m
  BY <1>1, <1>3, <1>4, OneAccountMoves
<1>8. SumFunction(Left') = SumFunction(Left) + m
  BY <1>1, <1>3, <1>5, <1>6, OneAccountMoves
<1>9. SumFunction(Left) \in Nat /\ SumFunction(escrow) \in Nat /\ platform \in Nat
  BY <1>3, EntityAssumption, SumOfFunction DEF TypeOK
<1>. QED
  BY <1>1, <1>2, <1>6, <1>7, <1>8, <1>9 DEF NothingOverdrawn, Conserved

LEMMA ReverseConserves ==
  ASSUME TypeOK, NothingOverdrawn, Conserved,
         NEW v \in Advertisers, NEW m \in Amounts, Reverse(v, m)
  PROVE  NothingOverdrawn' /\ Conserved'
<1>1. m \in Nat
  BY AmountAssumption
<1>2. /\ balance' = [balance EXCEPT ![v] = @ - m] /\ reversed' = [reversed EXCEPT ![v] = @ + m]
      /\ funded' = funded /\ escrow' = escrow /\ platform' = platform
  BY DEF Reverse
<1>3. balance \in [Advertisers -> Int] /\ reversed \in [Advertisers -> Nat]
  BY DEF TypeOK
<1>4. \A u \in Advertisers : balance'[u] + reversed'[u] = balance[u] + reversed[u]
  BY <1>1, <1>2, <1>3
<1>5. Left' = Left
  BY <1>4 DEF Left
<1>. QED
  BY <1>2, <1>5 DEF NothingOverdrawn, Conserved

\* A settlement takes the charge from an account that has it, and credits all of it.
LEMMA SettleConserves ==
  ASSUME IsFiniteSet(Advertisers), TypeOK, TypeOK', NothingOverdrawn, Conserved,
         NEW w \in Workers, CommitBilled(w), Affordable(req[w])
  PROVE  NothingOverdrawn' /\ Conserved'
<1>. DEFINE t == req[w].tok
            c == token[t].charge
            v == AdvOf(t)
            p == PubOf(t)
<1>1. t \in Tokens /\ token[t] \in Token /\ c \in Nat
  BY CommitReads
<1>2. v \in Advertisers /\ p \in Publishers
  BY <1>1, EntityAssumption DEF PubOf, AdvOf, Token
<1>3. Settle(v, p, c) /\ balance[v] >= c
  BY DEF CommitBilled, Affordable
<1>. HIDE DEF t, c, v, p
<1>4. balance' = [balance EXCEPT ![v] = @ - c] /\ reversed' = reversed /\ funded' = funded
  BY <1>3 DEF Settle
<1>5. /\ balance \in [Advertisers -> Int] /\ reversed \in [Advertisers -> Nat]
      /\ Left \in [Advertisers -> Nat]
  BY DEF TypeOK, NothingOverdrawn, Left
<1>6. /\ Left'[v] = Left[v] + (-c)
      /\ \A u \in Advertisers \ {v} : Left'[u] = Left[u]
  BY <1>1, <1>2, <1>4, <1>5 DEF Left
<1>7. Left'[v] = balance[v] - c + reversed[v]
  BY <1>1, <1>2, <1>4, <1>5 DEF Left
<1>8. Left' \in [Advertisers -> Nat]
  <2>1. balance[v] \in Int /\ reversed[v] \in Nat /\ -c \in Int
    BY <1>1, <1>2, <1>5
  <2>2. Left'[v] \in Nat
    BY <1>1, <1>3, <1>7, <2>1
  <2>3. \A u \in Advertisers : Left'[u] \in Nat
    BY <1>5, <1>6, <2>2
  <2>. QED
    BY <2>3 DEF Left
<1>9. SumFunction(Left') = SumFunction(Left) + (-c)
  <2>1. -c \in Int
    BY <1>1
  <2>. QED
    BY <1>2, <1>5, <1>6, <1>8, <2>1, OneAccountMoves
<1>10. SumFunction(escrow') + platform' = SumFunction(escrow) + platform + c
  BY <1>1, <1>2, <1>3, SettleCreditsCharge
<1>11. /\ SumFunction(Left) \in Nat /\ SumFunction(escrow) \in Nat /\ platform \in Nat
       /\ SumFunction(escrow') \in Nat /\ platform' \in Nat
  BY <1>5, EntityAssumption, SumOfFunction DEF TypeOK
<1>. QED
  BY <1>1, <1>4, <1>8, <1>9, <1>10, <1>11 DEF NothingOverdrawn, Conserved

LEMMA ConservedStep ==
  ASSUME IsFiniteSet(Advertisers), TypeOK, TypeOK', NothingOverdrawn, Conserved, [Next]_vars
  PROVE  NothingOverdrawn' /\ Conserved'
<1>1. ASSUME NEW v \in Advertisers, NEW m \in Amounts, TopUp(v, m) \/ Reverse(v, m)
      PROVE  NothingOverdrawn' /\ Conserved'
  BY <1>1, TopUpConserves, ReverseConserves
<1>2. ASSUME NEW w \in Workers, CommitBilled(w)
      PROVE  NothingOverdrawn' /\ Conserved'
  <2>1. CASE Affordable(req[w])
    BY <1>2, <2>1, SettleConserves
  <2>2. CASE ~Affordable(req[w])
    BY <1>2, <2>2, MoneyFrame DEF CommitBilled
  <2>. QED
    BY <2>1, <2>2
<1>3. CASE UNCHANGED money
  BY <1>3, MoneyFrame
<1>. QED
  BY <1>1, <1>2, <1>3
     DEF Next, Redeem, vars, Tick, Begin, Arrive, Deny, BeginTransaction, LockPublisher,
         LockDevice, LockAdvertiser, Check, Refuse, Replay, CommitHeld, Crash

\* Whatever is redeemed, topped up and refunded meanwhile: what advertisers paid in is
\* what they have left, or were given back, and what publishers and platform were
\* credited (db/ledger.ts, settleImpression).  It needs the check of the balance under
\* the advertiser lock, and a split that loses nothing to rounding.
THEOREM ConservesMoney ==
  ASSUME IsFiniteSet(Advertisers)
  PROVE  Spec => [](Conserved /\ MoneyIsConserved)
<1>1. Init => NothingOverdrawn /\ Conserved
  <2>. SUFFICES ASSUME Init
                PROVE  NothingOverdrawn /\ Conserved
    OBVIOUS
  <2>1. Left = funded /\ platform = 0
    BY DEF Init, Left
  <2>2. escrow = [p \in Publishers |-> 0] /\ funded = [v \in Advertisers |-> 0]
    BY DEF Init
  <2>3. SumFunction(escrow) = 0
    BY <2>2, EntityAssumption, SumOfZeros
  <2>4. SumFunction(funded) \in Nat
    BY <2>2, SumOfFunction
  <2>. QED
    BY <2>1, <2>2, <2>3, <2>4 DEF NothingOverdrawn, Conserved
<1>2. Inv /\ Inv' /\ NothingOverdrawn /\ Conserved /\ [Next]_vars => NothingOverdrawn' /\ Conserved'
  BY ConservedStep DEF Inv
<1>3. Inv /\ SumsMatchRows /\ NothingOverdrawn /\ Conserved => Conserved /\ MoneyIsConserved
  <2>. SUFFICES ASSUME TypeOK, SumsMatchRows, NothingOverdrawn, Conserved
                PROVE  MoneyIsConserved
    BY DEF Inv
  <2>1. ASSUME NEW v \in Advertisers
        PROVE  Charges(AdvertiserRows(v)) <= funded[v]
    <3>1. balance[v] = funded[v] - reversed[v] - Charges(AdvertiserRows(v))
      BY DEF SumsMatchRows
    <3>2. balance[v] + reversed[v] \in Nat
      BY DEF NothingOverdrawn, Left
    <3>3. /\ balance[v] \in Int /\ funded[v] \in Nat /\ reversed[v] \in Nat
          /\ Charges(AdvertiserRows(v)) \in Nat
      BY ChargesAreNat DEF TypeOK, AdvertiserRows
    <3>. QED
      BY <3>1, <3>2, <3>3
  <2>2. SumFunction(escrow) + platform <= SumFunction(funded)
    <3>1. Left \in [Advertisers -> Nat]
      BY DEF NothingOverdrawn, Left
    <3>2. SumFunction(Left) \in Nat /\ SumFunction(escrow) \in Nat /\ platform \in Nat
      BY <3>1, EntityAssumption, SumOfFunction DEF TypeOK
    <3>. QED
      BY <3>2 DEF Conserved
  <2>. QED
    BY <2>1, <2>2 DEF MoneyIsConserved
<1>. QED
  BY <1>1, <1>2, <1>3, InvHolds, LedgerMatchesRows, PTL DEF Spec
===============================================================================
