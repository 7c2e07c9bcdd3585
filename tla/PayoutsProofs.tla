---------------------------- MODULE PayoutsProofs ----------------------------
(***************************************************************************)
(* Proofs about Payouts, for any publishers, runs and amounts.             *)
(***************************************************************************)
EXTENDS Payouts, FiniteSetTheorems, TLAPS

(***************************************************************************)
(* Sums of money over a finite set, by counting the units they add up: two *)
(* disjoint sets of units have as many units as both together, which needs *)
(* no induction over the set that is summed.                               *)
(***************************************************************************)
\* The units of the sum of f over S: one for every x in S and every number below f[x].
Units(f, S) == {u \in S \X Nat : u[2] < f[u[1]]}

LEMMA UnitsOfOne ==
  ASSUME NEW f, NEW x, f[x] \in Nat
  PROVE  IsFiniteSet(Units(f, {x})) /\ Cardinality(Units(f, {x})) = f[x]
<1>. DEFINE T == 0..(f[x] - 1)
<1>1. Units(f, {x}) = {x} \X T
  BY DEF Units
<1>2. IsFiniteSet(T) /\ Cardinality(T) = f[x]
  <2>. DEFINE top == f[x] - 1
  <2>1. 0 \in Int /\ top \in Int /\ (0 > top <=> f[x] = 0) /\ top - 0 + 1 = f[x]
    OBVIOUS
  <2>. HIDE DEF top
  <2>2. /\ IsFiniteSet(0..top)
        /\ Cardinality(0..top) = IF 0 > top THEN 0 ELSE top - 0 + 1
    BY <2>1, FS_Interval
  <2>. QED
    BY <2>1, <2>2 DEF top
<1>3. IsFiniteSet({x}) /\ Cardinality({x}) = 1
  BY FS_Singleton
<1>4. IsFiniteSet({x} \X T) /\ Cardinality({x} \X T) = Cardinality({x}) * Cardinality(T)
  BY <1>2, <1>3, FS_Product
<1>. HIDE DEF T
<1>5. Cardinality({x} \X T) = 1 * f[x]
  BY <1>2, <1>3, <1>4
<1>6. 1 * f[x] = f[x]
  OBVIOUS
<1>. QED
  BY <1>1, <1>4, <1>5, <1>6

LEMMA UnitsFinite ==
  ASSUME NEW f, NEW S, IsFiniteSet(S), \A x \in S : f[x] \in Nat
  PROVE  IsFiniteSet(Units(f, S)) /\ Cardinality(Units(f, S)) \in Nat
<1>. DEFINE g == [x \in S |-> Units(f, {x})]
            R == {g[x] : x \in S}
<1>1. g \in Surjection(S, R)
  BY DEF Surjection
<1>2. IsFiniteSet(R)
  BY <1>1, FS_Surjection
<1>3. \A T \in R : IsFiniteSet(T)
  <2>1. ASSUME NEW x \in S PROVE IsFiniteSet(Units(f, {x}))
    BY UnitsOfOne
  <2>. QED
    BY <2>1
<1>4. IsFiniteSet(UNION R)
  BY <1>2, <1>3, FS_UNION
<1>5. Units(f, S) \in SUBSET UNION R
  <2>1. ASSUME NEW u \in Units(f, S) PROVE u \in UNION R
    <3>1. u[1] \in S /\ u \in Units(f, {u[1]}) /\ Units(f, {u[1]}) = g[u[1]]
      BY DEF Units
    <3>2. g[u[1]] \in R
      BY <3>1
    <3>. QED
      BY <3>1, <3>2
  <2>. QED
    BY <2>1
<1>. QED
  BY <1>4, <1>5, FS_Subset, FS_CardinalityType

LEMMA UnitsAdd ==
  ASSUME NEW f, NEW S, NEW x, IsFiniteSet(S), \A y \in S \cup {x} : f[y] \in Nat, x \notin S
  PROVE  Cardinality(Units(f, S \cup {x})) = Cardinality(Units(f, S)) + f[x]
<1>1. Units(f, S \cup {x}) = Units(f, S) \cup Units(f, {x})
  BY DEF Units
<1>2. Units(f, S) \cap Units(f, {x}) = {}
  BY DEF Units
<1>3. Cardinality({}) = 0
  BY FS_EmptySet
<1>4. IsFiniteSet(Units(f, S)) /\ Cardinality(Units(f, S)) \in Nat
  BY UnitsFinite
<1>5. IsFiniteSet(Units(f, {x})) /\ Cardinality(Units(f, {x})) = f[x]
  BY UnitsOfOne
<1>6. Cardinality(Units(f, S) \cup Units(f, {x}))
        = Cardinality(Units(f, S)) + Cardinality(Units(f, {x})) - Cardinality(Units(f, S) \cap Units(f, {x}))
  BY <1>4, <1>5, FS_Union
<1>7. Cardinality(Units(f, S) \cap Units(f, {x})) = 0
  BY <1>2, <1>3
<1>8. Cardinality(Units(f, S) \cup Units(f, {x})) = Cardinality(Units(f, S)) + f[x]
  BY <1>4, <1>5, <1>6, <1>7
<1>. QED
  BY <1>1, <1>8

\* The community modules' sum, a fold in no stated order, counts these units.  The
\* smallest set on which it did not would be non-empty, and right without the element
\* the fold takes first.
LEMMA SumIsUnits ==
  ASSUME NEW f, NEW S, IsFiniteSet(S), \A x \in S : f[x] \in Nat
  PROVE  SumFunctionOnSet(f, S) = Cardinality(Units(f, S))
<1>. DEFINE c(s) == CHOOSE x \in s : TRUE
            good(g) == g = [s \in SUBSET S |-> IF s = {} THEN 0 ELSE f[c(s)] + g[s \ {c(s)}]]
            u == [s \in SUBSET S |-> Cardinality(Units(f, s))]
            iter == CHOOSE g : good(g)
<1>1. SumFunctionOnSet(f, S) = iter[S]
  BY DEF SumFunctionOnSet, FoldFunctionOnSet, MapThenFoldSet
<1>2. ASSUME NEW s \in SUBSET S, s # {}
      PROVE  /\ c(s) \in s /\ s \ {c(s)} \in SUBSET S
             /\ Cardinality(Units(f, s)) = f[c(s)] + Cardinality(Units(f, s \ {c(s)}))
  <2>1. c(s) \in s
    BY <1>2
  <2>. HIDE DEF c
  <2>. DEFINE x == c(s)
              r == s \ {x}
  <2>2. x \in s /\ s = r \cup {x} /\ x \notin r /\ IsFiniteSet(r)
    BY <2>1, FS_Subset
  <2>3. \A y \in r \cup {x} : f[y] \in Nat
    BY <2>2
  <2>. HIDE DEF x, r
  <2>4. Cardinality(Units(f, r \cup {x})) = Cardinality(Units(f, r)) + f[x]
    BY <2>2, <2>3, UnitsAdd
  <2>5. Cardinality(Units(f, r)) \in Nat /\ f[x] \in Nat
    BY <2>2, <2>3, UnitsFinite
  <2>6. r \in SUBSET S
    BY DEF r
  <2>7. Cardinality(Units(f, s)) = f[x] + Cardinality(Units(f, r))
    BY <2>2, <2>4, <2>5
  <2>. QED
    BY <2>2, <2>6, <2>7 DEF x, r
<1>3. Cardinality(Units(f, {})) = 0
  BY FS_EmptySet DEF Units
<1>. HIDE DEF c
<1>4. good(u)
  <2>1. ASSUME NEW s \in SUBSET S
        PROVE  u[s] = IF s = {} THEN 0 ELSE f[c(s)] + u[s \ {c(s)}]
    BY <1>2, <1>3
  <2>. QED
    BY <2>1
<1>5. good(iter)
  BY <1>4
<1>. HIDE DEF iter
<1>6. ASSUME NEW s \in SUBSET S
      PROVE  iter[s] = IF s = {} THEN 0 ELSE f[c(s)] + iter[s \ {c(s)}]
  BY <1>5
<1>7. \A s \in SUBSET S : iter[s] = Cardinality(Units(f, s))
  <2>. DEFINE Bad == {s \in SUBSET S : iter[s] # Cardinality(Units(f, s))}
  <2>. SUFFICES ASSUME Bad # {} PROVE FALSE
    OBVIOUS
  <2>1. Bad \subseteq FiniteSubsetsOf(S)
    BY FS_FiniteSubsetsOfFinite
  <2>2. PICK s \in Bad : \A r \in Bad : ~(<<r, s>> \in StrictSubsetOrdering(S))
    BY <2>1, FS_StrictSubsetOrderingWellFounded, WFMin
  <2>3. s # {}
    BY <1>3, <1>6
  <2>4. c(s) \in s /\ s \ {c(s)} \in SUBSET S
    BY <1>2, <2>3
  <2>5. <<s \ {c(s)}, s>> \in StrictSubsetOrdering(S)
    BY <2>4, FS_Subset DEF StrictSubsetOrdering, FiniteSubsetsOf
  <2>6. iter[s \ {c(s)}] = Cardinality(Units(f, s \ {c(s)}))
    BY <2>2, <2>4, <2>5
  <2>. QED
    BY <1>2, <1>6, <2>3, <2>4, <2>6
<1>. QED
  BY <1>1, <1>7

LEMMA SumOfFunction ==
  ASSUME NEW S, IsFiniteSet(S), NEW f \in [S -> Nat]
  PROVE  /\ SumFunction(f) = Cardinality(Units(f, S))
         /\ SumFunction(f) \in Nat
<1>1. SumFunction(f) = SumFunctionOnSet(f, S)
  BY DEF SumFunction
<1>. QED
  BY <1>1, SumIsUnits, UnitsFinite

LEMMA SumOfNothing ==
  ASSUME NEW f \in [{} -> Nat]
  PROVE  SumFunction(f) = 0
<1>1. Units(f, {}) = {}
  BY DEF Units
<1>. QED
  BY <1>1, FS_EmptySet, SumOfFunction

\* A sum with one element more.
LEMMA SumExtends ==
  ASSUME NEW S, IsFiniteSet(S), NEW x, x \notin S,
         NEW f \in [S -> Nat], NEW g \in [S \cup {x} -> Nat], \A y \in S : g[y] = f[y]
  PROVE  SumFunction(g) = SumFunction(f) + g[x]
<1>1. Units(g, S) = Units(f, S)
  BY DEF Units
<1>2. IsFiniteSet(S \cup {x})
  BY FS_AddElement
<1>3. SumFunction(g) = Cardinality(Units(g, S \cup {x}))
  BY <1>2, SumOfFunction
<1>4. SumFunction(f) = Cardinality(Units(f, S))
  BY SumOfFunction
<1>5. Cardinality(Units(g, S \cup {x})) = Cardinality(Units(g, S)) + g[x]
  BY UnitsAdd
<1>. QED
  BY <1>1, <1>3, <1>4, <1>5

USE DEF Times

Labels == {"idle", "intents", "inactive", "confirmed", "locked", "read", "sending", "sent"}

LEMMA WholeCentsBounds ==
    ASSUME NEW n \in Nat PROVE WholeCents(n) \in Nat /\ WholeCents(n) <= n
<1>. DEFINE q == n \div Cent
<1>1. q \in Nat /\ Cent \in Nat /\ Cent > 0
  BY PayoutAssumption
<1>2. q * Cent <= n
  BY PayoutAssumption
<1>3. q * Cent \in Nat
  BY <1>1
<1>. QED BY <1>2, <1>3 DEF WholeCents

LEMMA MaturedIsNat ==
    ASSUME TypeOK, NEW p \in Publishers, NEW c \in Int
    PROVE  /\ CreditsBefore(p, c) \in Nat
           /\ Matured(p, c) \in Nat
           /\ Matured(p, c) > 0 => Matured(p, c) + debits[p] = CreditsBefore(p, c)
<1>1. CreditsBefore(p, c) \in Nat
  BY PayoutAssumption DEF TypeOK, CreditsBefore
<1>2. debits[p] \in Nat
  BY DEF TypeOK
<1>. QED BY <1>1, <1>2 DEF Matured

(***************************************************************************)
(* Types.                                                                  *)
(***************************************************************************)

\* A step that changes only the knowledge and the label of one run, and rows of the
\* tables, keeps the types.
LEMMA RunTypeOK ==
    ASSUME TypeOK, NEW r \in Runs,
           run'[r] \in Run, run' = [run EXCEPT ![r] = run'[r]],
           pc' = [pc EXCEPT ![r] = pc'[r]],
           pc'[r] \in Labels,
           pc'[r] \in {"inactive", "confirmed"} \cup HoldsLock => run'[r].publisher # None,
           pc'[r] = "sent" => run'[r].payment # None,
           run'[r].pending \subseteq {i \in Payments : payment[i] # None},
           run'[r].payment = None \/ payment[run'[r].payment] # None,
           \A i \in Payments : payment[i] # None => payment'[i] # None,
           clock' = clock, accrued' = accrued, active' = active, overdue' = overdue,
           debits' \in [Publishers -> Nat], enabled' \in [Publishers -> BOOLEAN],
           payment' \in [Payments -> Payment \cup {None}],
           transfers' \in [Payments -> Nat], keyAt' \in [Payments -> Nat \cup {None}]
    PROVE  TypeOK'
<1>. DEFINE x == run'[r]
            label == pc'[r]
<1>. USE NoneAssumption DEF TypeOK, HoldsLock
<1>1. run' \in [Runs -> Run \cup {None}] /\ run'[r] = x /\ x # None
  OBVIOUS
<1>2. pc'[r] = label /\ pc' \in [Runs -> Labels]
  <2>1. pc \in [Runs -> Labels]
    BY DEF Labels
  <2>. QED BY <2>1
<1>3. \A q \in Runs : q # r => run'[q] = run[q] /\ pc'[q] = pc[q]
  OBVIOUS
<1>4. x.pending \in SUBSET Payments /\ x.payment \in Payments \cup {None}
  BY DEF Run
<1>5. ASSUME NEW q \in Runs, run'[q] # None,
             NEW i \in run'[q].pending \cup ({run'[q].payment} \ {None})
      PROVE  payment'[i] # None
  <2>1. CASE q = r
    BY <1>1, <1>4, <1>5, <2>1
  <2>2. CASE q # r
    <3>1. run[q] \in Run
      BY <1>3, <1>5, <2>2
    <3>2. run[q].pending \in SUBSET Payments /\ run[q].payment \in Payments \cup {None}
      BY <3>1 DEF Run
    <3>. QED BY <1>3, <1>5, <2>2, <3>2
  <2>. QED BY <2>1, <2>2
<1>6. \A q \in Runs :
        /\ pc'[q] # "idle" => run'[q] # None
        /\ pc'[q] \in {"inactive", "confirmed"} \cup HoldsLock => run'[q].publisher # None
        /\ pc'[q] = "sent" => run'[q].payment # None
  BY <1>1, <1>2, <1>3
<1>7. /\ clock' \in 0..MaxClock
      /\ accrued' \in [Publishers -> [Times -> Nat]]
      /\ active' \in [Publishers -> BOOLEAN]
      /\ overdue' \in SUBSET Payments
  OBVIOUS
<1>. QED BY <1>1, <1>2, <1>5, <1>6, <1>7 DEF Labels

\* So does every step of a run.
LEMMA StepTypeOK ==
    ASSUME TypeOK, NEW r \in Runs, Step(r) PROVE TypeOK'
<1>. USE PayoutAssumption, NoneAssumption
<1>. DEFINE R == run[r]
            known == {i \in Payments : payment[i] # None}
<1>0. /\ pc[r] # "idle" => /\ R \in Run /\ R.pending \subseteq known
                           /\ R.payment = None \/ payment[R.payment] # None
      /\ run \in [Runs -> Run \cup {None}]
      /\ pc \in [Runs -> Labels]
  BY DEF TypeOK, Run, Labels
<1>. DEFINE tables == /\ debits \in [Publishers -> Nat] /\ enabled \in [Publishers -> BOOLEAN]
                      /\ payment \in [Payments -> Payment \cup {None}]
                      /\ transfers \in [Payments -> Nat]
                      /\ keyAt \in [Payments -> Nat \cup {None}]
<1>t. tables
  BY DEF TypeOK
<1>1. ASSUME NEW p \in Publishers, Confirm(r, p) PROVE TypeOK'
  <2>1. R \in Run /\ pc[r] # "idle"
    BY <1>0, <1>1 DEF Confirm
  <2>. DEFINE x == [R EXCEPT !.accounts = R.accounts \ {p}, !.publisher = p]
  <2>2. x \in Run /\ x.pending = R.pending /\ x.payment = R.payment /\ x.publisher = p
    BY <1>1, <2>1 DEF Confirm, Run
  <2>3. run' = [run EXCEPT ![r] = x]
    BY <1>1, <2>1 DEF Confirm
  <2>. HIDE DEF x
  <2>4. run'[r] = x /\ run' = [run EXCEPT ![r] = run'[r]]
    BY <1>0, <2>3
  <2>5. pc'[r] = (IF active[p] THEN "confirmed" ELSE "inactive") /\ pc' = [pc EXCEPT ![r] = pc'[r]]
    BY <1>0, <1>1 DEF Confirm, Goto
  <2>6. /\ clock' = clock /\ accrued' = accrued /\ active' = active /\ overdue' = overdue
        /\ tables'
        /\ \A j \in Payments : payment[j] # None => payment'[j] # None
    BY <1>t, <1>1 DEF Confirm, books, kyc, stripe
  <2>8. /\ pc'[r] \in Labels
        /\ pc'[r] \in {"inactive", "confirmed"} \cup HoldsLock => run'[r].publisher # None
        /\ pc'[r] = "sent" => run'[r].payment # None
    BY <1>0, <1>1, <2>1, <2>2, <2>4, <2>5 DEF Labels, HoldsLock, Confirm
  <2>9. /\ run'[r] \in Run
        /\ run'[r].pending \subseteq known
        /\ run'[r].payment = None \/ payment[run'[r].payment] # None
    BY <1>0, <1>1, <2>1, <2>2, <2>4 DEF Confirm
  <2>. QED BY <1>0, <2>4, <2>5, <2>6, <2>8, <2>9, RunTypeOK
<1>2. ASSUME NEW p \in Publishers, ConfirmFails(r, p) PROVE TypeOK'
  <2>1. R \in Run /\ pc[r] # "idle"
    BY <1>0, <1>2 DEF ConfirmFails
  <2>. DEFINE x == [R EXCEPT !.accounts = R.accounts \ {p}]
  <2>2. x \in Run /\ x.pending = R.pending /\ x.payment = R.payment
    BY <1>2, <2>1 DEF ConfirmFails, Run
  <2>3. run' = [run EXCEPT ![r] = x]
    BY <1>2, <2>1 DEF ConfirmFails, Skip
  <2>. HIDE DEF x
  <2>4. run'[r] = x /\ run' = [run EXCEPT ![r] = run'[r]]
    BY <1>0, <2>3
  <2>5. pc'[r] = "intents" /\ pc' = [pc EXCEPT ![r] = pc'[r]]
    BY <1>0, <1>2 DEF ConfirmFails, Goto, Skip
  <2>6. /\ clock' = clock /\ accrued' = accrued /\ active' = active /\ overdue' = overdue
        /\ tables'
        /\ \A j \in Payments : payment[j] # None => payment'[j] # None
    BY <1>t, <1>2 DEF ConfirmFails, books, kyc, stripe
  <2>8. /\ pc'[r] \in Labels
        /\ pc'[r] \in {"inactive", "confirmed"} \cup HoldsLock => run'[r].publisher # None
        /\ pc'[r] = "sent" => run'[r].payment # None
    BY <1>0, <1>2, <2>1, <2>2, <2>4, <2>5 DEF Labels, HoldsLock, ConfirmFails
  <2>9. /\ run'[r] \in Run
        /\ run'[r].pending \subseteq known
        /\ run'[r].payment = None \/ payment[run'[r].payment] # None
    BY <1>0, <1>2, <2>1, <2>2, <2>4 DEF ConfirmFails
  <2>. QED BY <1>0, <2>4, <2>5, <2>6, <2>8, <2>9, RunTypeOK
<1>3. CASE ClearFlag(r)
  <2>1. R \in Run /\ pc[r] # "idle"
    BY <1>0, <1>3 DEF ClearFlag
  <2>. DEFINE x == [R EXCEPT !.publisher = None, !.matured = 0]
  <2>2. x \in Run /\ x.pending = R.pending /\ x.payment = R.payment
    BY <1>3, <2>1 DEF ClearFlag, Run
  <2>3. run' = [run EXCEPT ![r] = x]
    BY <1>3, <2>1 DEF ClearFlag, Release
  <2>. HIDE DEF x
  <2>4. run'[r] = x /\ run' = [run EXCEPT ![r] = run'[r]]
    BY <1>0, <2>3
  <2>5. pc'[r] = "intents" /\ pc' = [pc EXCEPT ![r] = pc'[r]]
    BY <1>0, <1>3 DEF ClearFlag, Goto, Release
  <2>6. /\ clock' = clock /\ accrued' = accrued /\ active' = active /\ overdue' = overdue
        /\ tables'
        /\ \A j \in Payments : payment[j] # None => payment'[j] # None
    BY <1>t, <1>3 DEF ClearFlag, books, kyc, stripe
  <2>8. /\ pc'[r] \in Labels
        /\ pc'[r] \in {"inactive", "confirmed"} \cup HoldsLock => run'[r].publisher # None
        /\ pc'[r] = "sent" => run'[r].payment # None
    BY <1>0, <1>3, <2>1, <2>2, <2>4, <2>5 DEF Labels, HoldsLock, ClearFlag
  <2>9. /\ run'[r] \in Run
        /\ run'[r].pending \subseteq known
        /\ run'[r].payment = None \/ payment[run'[r].payment] # None
    BY <1>0, <1>3, <2>1, <2>2, <2>4 DEF ClearFlag
  <2>. QED BY <1>0, <2>4, <2>5, <2>6, <2>8, <2>9, RunTypeOK
<1>4. CASE LockPublisher(r)
  BY <1>4 DEF LockPublisher, Goto, TypeOK, HoldsLock, books, kyc, stripe
<1>5. CASE ReadMatured(r)
  <2>1. R \in Run /\ pc[r] # "idle" /\ R.publisher \in Publishers /\ R.cutoff \in Int
    BY <1>0, <1>5 DEF ReadMatured, TypeOK, HoldsLock, Run
  <2>. DEFINE m == Matured(R.publisher, R.cutoff)
              x == [R EXCEPT !.matured = m]
  <2>m. m \in Nat
    BY <2>1, MaturedIsNat
  <2>3. run' = [run EXCEPT ![r] = x]
    BY <1>5, <2>1 DEF ReadMatured
  <2>. HIDE DEF m
  <2>2. x \in Run /\ x.publisher = R.publisher /\ x.pending = R.pending /\ x.payment = R.payment
    BY <2>1, <2>m DEF Run
  <2>. HIDE DEF x
  <2>4. run'[r] = x /\ run' = [run EXCEPT ![r] = run'[r]]
    BY <1>0, <2>3
  <2>5. pc'[r] = "read" /\ pc' = [pc EXCEPT ![r] = pc'[r]]
    BY <1>0, <1>5 DEF ReadMatured, Goto
  <2>6. /\ clock' = clock /\ accrued' = accrued /\ active' = active /\ overdue' = overdue
        /\ tables'
        /\ \A j \in Payments : payment[j] # None => payment'[j] # None
    BY <1>t, <1>5 DEF ReadMatured, books, kyc, stripe
  <2>. QED BY <1>0, <1>5, <2>1, <2>2, <2>4, <2>5, <2>6, RunTypeOK, NoneAssumption DEF Labels, HoldsLock, ReadMatured
<1>6. CASE TooLittle(r)
  <2>1. R \in Run /\ pc[r] # "idle"
    BY <1>0, <1>6 DEF TooLittle
  <2>. DEFINE x == [R EXCEPT !.publisher = None, !.matured = 0]
  <2>2. x \in Run /\ x.pending = R.pending /\ x.payment = R.payment
    BY <1>6, <2>1 DEF TooLittle, Run
  <2>3. run' = [run EXCEPT ![r] = x]
    BY <1>6, <2>1 DEF TooLittle, Release
  <2>. HIDE DEF x
  <2>4. run'[r] = x /\ run' = [run EXCEPT ![r] = run'[r]]
    BY <1>0, <2>3
  <2>5. pc'[r] = "intents" /\ pc' = [pc EXCEPT ![r] = pc'[r]]
    BY <1>0, <1>6 DEF TooLittle, Goto, Release
  <2>6. /\ clock' = clock /\ accrued' = accrued /\ active' = active /\ overdue' = overdue
        /\ tables'
        /\ \A j \in Payments : payment[j] # None => payment'[j] # None
    BY <1>t, <1>6 DEF TooLittle, books, kyc, stripe
  <2>8. /\ pc'[r] \in Labels
        /\ pc'[r] \in {"inactive", "confirmed"} \cup HoldsLock => run'[r].publisher # None
        /\ pc'[r] = "sent" => run'[r].payment # None
    BY <1>0, <1>6, <2>1, <2>2, <2>4, <2>5 DEF Labels, HoldsLock, TooLittle
  <2>9. /\ run'[r] \in Run
        /\ run'[r].pending \subseteq known
        /\ run'[r].payment = None \/ payment[run'[r].payment] # None
    BY <1>0, <1>6, <2>1, <2>2, <2>4 DEF TooLittle
  <2>. QED BY <1>0, <2>4, <2>5, <2>6, <2>8, <2>9, RunTypeOK
<1>7. CASE ReserveFails(r)
  <2>1. R \in Run /\ pc[r] # "idle"
    BY <1>0, <1>7 DEF ReserveFails, HoldsLock
  <2>. DEFINE x == [R EXCEPT !.publisher = None, !.matured = 0]
  <2>2. x \in Run /\ x.pending = R.pending /\ x.payment = R.payment
    BY <1>7, <2>1 DEF ReserveFails, Run
  <2>3. run' = [run EXCEPT ![r] = x]
    BY <1>7, <2>1 DEF ReserveFails, Release
  <2>. HIDE DEF x
  <2>4. run'[r] = x /\ run' = [run EXCEPT ![r] = run'[r]]
    BY <1>0, <2>3
  <2>5. pc'[r] = "intents" /\ pc' = [pc EXCEPT ![r] = pc'[r]]
    BY <1>0, <1>7 DEF ReserveFails, Goto, Release
  <2>6. /\ clock' = clock /\ accrued' = accrued /\ active' = active /\ overdue' = overdue
        /\ tables'
        /\ \A j \in Payments : payment[j] # None => payment'[j] # None
    BY <1>t, <1>7 DEF ReserveFails, books, kyc, stripe
  <2>8. /\ pc'[r] \in Labels
        /\ pc'[r] \in {"inactive", "confirmed"} \cup HoldsLock => run'[r].publisher # None
        /\ pc'[r] = "sent" => run'[r].payment # None
    BY <1>0, <1>7, <2>1, <2>2, <2>4, <2>5 DEF Labels, HoldsLock, ReserveFails
  <2>9. /\ run'[r] \in Run
        /\ run'[r].pending \subseteq known
        /\ run'[r].payment = None \/ payment[run'[r].payment] # None
    BY <1>0, <1>7, <2>1, <2>2, <2>4 DEF ReserveFails
  <2>. QED BY <1>0, <2>4, <2>5, <2>6, <2>8, <2>9, RunTypeOK
<1>8. ASSUME NEW i \in Payments, Reserve(r, i) PROVE TypeOK'
  <2>1. R \in Run /\ pc[r] # "idle" /\ R.publisher \in Publishers /\ R.matured \in Nat
    BY <1>0, <1>8 DEF Reserve, TypeOK, HoldsLock, Run
  <2>. DEFINE x == [R EXCEPT !.publisher = None, !.matured = 0]
  <2>2. x \in Run /\ x.pending = R.pending /\ x.payment = R.payment
    BY <1>8, <2>1 DEF Reserve, Run
  <2>3. run' = [run EXCEPT ![r] = x]
    BY <1>8, <2>1 DEF Reserve, Release
  <2>. HIDE DEF x
  <2>4. run'[r] = x /\ run' = [run EXCEPT ![r] = run'[r]]
    BY <1>0, <2>3
  <2>5. pc'[r] = "intents" /\ pc' = [pc EXCEPT ![r] = pc'[r]]
    BY <1>0, <1>8 DEF Reserve, Goto, Release
  <2>. DEFINE amount == WholeCents(R.matured)
              new == [publisher |-> R.publisher, amount |-> amount, status |-> "pending"]
  <2>7. amount \in Nat
    BY <2>1, WholeCentsBounds
  <2>10. payment' = [payment EXCEPT ![i] = new] /\ debits' = [debits EXCEPT ![R.publisher] = @ + amount]
    BY <1>8 DEF Reserve
  <2>. HIDE DEF amount
  <2>11. new \in Payment
    BY <2>1, <2>7 DEF Payment
  <2>. HIDE DEF new
  <2>6. /\ clock' = clock /\ accrued' = accrued /\ active' = active /\ overdue' = overdue
        /\ tables'
        /\ \A j \in Payments : payment[j] # None => payment'[j] # None
    BY <1>t, <1>8, <2>1, <2>7, <2>10, <2>11 DEF Reserve, books, kyc, stripe
  <2>8. /\ pc'[r] \in Labels
        /\ pc'[r] \in {"inactive", "confirmed"} \cup HoldsLock => run'[r].publisher # None
        /\ pc'[r] = "sent" => run'[r].payment # None
    BY <1>0, <1>8, <2>1, <2>2, <2>4, <2>5 DEF Labels, HoldsLock, Reserve
  <2>9. /\ run'[r] \in Run
        /\ run'[r].pending \subseteq known
        /\ run'[r].payment = None \/ payment[run'[r].payment] # None
    BY <1>0, <1>8, <2>1, <2>2, <2>4 DEF Reserve
  <2>. QED BY <1>0, <2>4, <2>5, <2>6, <2>8, <2>9, RunTypeOK
<1>9. CASE SelectPending(r)
  <2>1. R \in Run /\ pc[r] # "idle"
    BY <1>0, <1>9 DEF SelectPending
  <2>. DEFINE x == [R EXCEPT !.pending = PendingRows]
  <2>2. x \in Run /\ x.pending \subseteq known /\ x.payment = R.payment
    BY <1>9, <2>1 DEF SelectPending, Run, PendingRows
  <2>3. run' = [run EXCEPT ![r] = x]
    BY <1>9, <2>1 DEF SelectPending
  <2>. HIDE DEF x
  <2>4. run'[r] = x /\ run' = [run EXCEPT ![r] = run'[r]]
    BY <1>0, <2>3
  <2>5. pc'[r] = "sending" /\ pc' = [pc EXCEPT ![r] = pc'[r]]
    BY <1>0, <1>9 DEF SelectPending, Goto
  <2>6. /\ clock' = clock /\ accrued' = accrued /\ active' = active /\ overdue' = overdue
        /\ tables'
        /\ \A j \in Payments : payment[j] # None => payment'[j] # None
    BY <1>t, <1>9 DEF SelectPending, books, kyc, stripe
  <2>8. /\ pc'[r] \in Labels
        /\ pc'[r] \in {"inactive", "confirmed"} \cup HoldsLock => run'[r].publisher # None
        /\ pc'[r] = "sent" => run'[r].payment # None
    BY <1>0, <1>9, <2>1, <2>2, <2>4, <2>5 DEF Labels, HoldsLock, SelectPending
  <2>9. /\ run'[r] \in Run
        /\ run'[r].pending \subseteq known
        /\ run'[r].payment = None \/ payment[run'[r].payment] # None
    BY <1>0, <1>9, <2>1, <2>2, <2>4 DEF SelectPending
  <2>. QED BY <1>0, <2>4, <2>5, <2>6, <2>8, <2>9, RunTypeOK
<1>10. ASSUME NEW i \in Payments, Send(r, i) PROVE TypeOK'
  <2>1. R \in Run /\ pc[r] # "idle" /\ i \in R.pending
    BY <1>0, <1>10 DEF Send
  <2>. DEFINE x == [R EXCEPT !.pending = R.pending \ {i}, !.payment = i]
  <2>2. x \in Run /\ x.pending \subseteq R.pending /\ x.payment = i
    BY <1>10, <2>1 DEF Send, Run
  <2>3. run' = [run EXCEPT ![r] = x]
    BY <1>10, <2>1 DEF Send
  <2>. HIDE DEF x
  <2>4. run'[r] = x /\ run' = [run EXCEPT ![r] = run'[r]]
    BY <1>0, <2>3
  <2>5. pc'[r] = "sent" /\ pc' = [pc EXCEPT ![r] = pc'[r]]
    BY <1>0, <1>10 DEF Send, Goto
  <2>7. /\ transfers' \in [Payments -> Nat] /\ keyAt' \in [Payments -> Nat \cup {None}]
        /\ overdue' = overdue
    <3>1. clock \in Nat
      BY DEF TypeOK
    <3>2. CreateTransfer(i)
      BY <1>10 DEF Send
    <3>3. CASE UNCHANGED stripe
      BY <1>t, <3>3 DEF stripe
    <3>4. CASE /\ transfers' = [transfers EXCEPT ![i] = @ + 1]
               /\ keyAt' = [keyAt EXCEPT ![i] = clock]
               /\ UNCHANGED overdue
      BY <1>t, <3>1, <3>4
    <3>. QED BY <3>2, <3>3, <3>4 DEF CreateTransfer
  <2>6. /\ clock' = clock /\ accrued' = accrued /\ active' = active /\ overdue' = overdue
        /\ tables'
        /\ \A j \in Payments : payment[j] # None => payment'[j] # None
    BY <1>t, <1>10, <2>7 DEF Send, books, kyc, stripe
  <2>8. /\ pc'[r] \in Labels
        /\ pc'[r] \in {"inactive", "confirmed"} \cup HoldsLock => run'[r].publisher # None
        /\ pc'[r] = "sent" => run'[r].payment # None
    BY <1>0, <1>10, <2>1, <2>2, <2>4, <2>5 DEF Labels, HoldsLock, Send
  <2>9. /\ run'[r] \in Run
        /\ run'[r].pending \subseteq known
        /\ run'[r].payment = None \/ payment[run'[r].payment] # None
    BY <1>0, <1>10, <2>1, <2>2, <2>4 DEF Send
  <2>. QED BY <1>0, <2>4, <2>5, <2>6, <2>8, <2>9, RunTypeOK
<1>11. ASSUME NEW i \in Payments, SendFails(r, i) PROVE TypeOK'
  <2>1. R \in Run /\ pc[r] # "idle"
    BY <1>0, <1>11 DEF SendFails
  <2>. DEFINE x == [R EXCEPT !.pending = R.pending \ {i}]
  <2>2. x \in Run /\ x.pending \subseteq R.pending /\ x.payment = R.payment
    BY <1>11, <2>1 DEF SendFails, Run
  <2>3. run' = [run EXCEPT ![r] = x]
    BY <1>11, <2>1 DEF SendFails
  <2>. HIDE DEF x
  <2>4. run'[r] = x /\ run' = [run EXCEPT ![r] = run'[r]]
    BY <1>0, <2>3
  <2>5. pc'[r] = "sending" /\ pc' = [pc EXCEPT ![r] = pc'[r]]
    BY <1>0, <1>11 DEF SendFails, Goto
  <2>6. /\ clock' = clock /\ accrued' = accrued /\ active' = active /\ overdue' = overdue
        /\ tables'
        /\ \A j \in Payments : payment[j] # None => payment'[j] # None
    BY <1>t, <1>11 DEF SendFails, books, kyc, stripe
  <2>8. /\ pc'[r] \in Labels
        /\ pc'[r] \in {"inactive", "confirmed"} \cup HoldsLock => run'[r].publisher # None
        /\ pc'[r] = "sent" => run'[r].payment # None
    BY <1>0, <1>11, <2>1, <2>2, <2>4, <2>5 DEF Labels, HoldsLock, SendFails
  <2>9. /\ run'[r] \in Run
        /\ run'[r].pending \subseteq known
        /\ run'[r].payment = None \/ payment[run'[r].payment] # None
    BY <1>0, <1>11, <2>1, <2>2, <2>4 DEF SendFails
  <2>. QED BY <1>0, <2>4, <2>5, <2>6, <2>8, <2>9, RunTypeOK
<1>12. CASE Record(r)
  <2>1. R \in Run /\ pc[r] # "idle" /\ R.payment \in Payments /\ payment[R.payment] \in Payment
    BY <1>0, <1>12 DEF Record, TypeOK, Run
  <2>. DEFINE x == [R EXCEPT !.payment = None]
  <2>2. x \in Run /\ x.pending = R.pending /\ x.payment = None
    BY <1>12, <2>1 DEF Record, Run
  <2>3. run' = [run EXCEPT ![r] = x]
    BY <1>12, <2>1 DEF Record
  <2>. HIDE DEF x
  <2>4. run'[r] = x /\ run' = [run EXCEPT ![r] = run'[r]]
    BY <1>0, <2>3
  <2>5. pc'[r] = "sending" /\ pc' = [pc EXCEPT ![r] = pc'[r]]
    BY <1>0, <1>12 DEF Record, Goto
  <2>. DEFINE i == R.payment
  <2>7. payment'[i] \in Payment /\ payment' = [payment EXCEPT ![i] = payment'[i]]
    BY <1>12, <1>t, <2>1 DEF Record, Payment
  <2>6. /\ clock' = clock /\ accrued' = accrued /\ active' = active /\ overdue' = overdue
        /\ tables'
        /\ \A j \in Payments : payment[j] # None => payment'[j] # None
    BY <1>t, <1>12, <2>1, <2>7 DEF Record, books, kyc, stripe
  <2>8. /\ pc'[r] \in Labels
        /\ pc'[r] \in {"inactive", "confirmed"} \cup HoldsLock => run'[r].publisher # None
        /\ pc'[r] = "sent" => run'[r].payment # None
    BY <1>0, <1>12, <2>1, <2>2, <2>4, <2>5 DEF Labels, HoldsLock, Record
  <2>9. /\ run'[r] \in Run
        /\ run'[r].pending \subseteq known
        /\ run'[r].payment = None \/ payment[run'[r].payment] # None
    BY <1>0, <1>12, <2>1, <2>2, <2>4 DEF Record
  <2>. QED BY <1>0, <2>4, <2>5, <2>6, <2>8, <2>9, RunTypeOK
<1>13. CASE RecordFails(r)
  <2>1. R \in Run /\ pc[r] # "idle"
    BY <1>0, <1>13 DEF RecordFails
  <2>. DEFINE x == [R EXCEPT !.payment = None]
  <2>2. x \in Run /\ x.pending = R.pending /\ x.payment = None
    BY <1>13, <2>1 DEF RecordFails, Run
  <2>3. run' = [run EXCEPT ![r] = x]
    BY <1>13, <2>1 DEF RecordFails
  <2>. HIDE DEF x
  <2>4. run'[r] = x /\ run' = [run EXCEPT ![r] = run'[r]]
    BY <1>0, <2>3
  <2>5. pc'[r] = "sending" /\ pc' = [pc EXCEPT ![r] = pc'[r]]
    BY <1>0, <1>13 DEF RecordFails, Goto
  <2>6. /\ clock' = clock /\ accrued' = accrued /\ active' = active /\ overdue' = overdue
        /\ tables'
        /\ \A j \in Payments : payment[j] # None => payment'[j] # None
    BY <1>t, <1>13 DEF RecordFails, books, kyc, stripe
  <2>8. /\ pc'[r] \in Labels
        /\ pc'[r] \in {"inactive", "confirmed"} \cup HoldsLock => run'[r].publisher # None
        /\ pc'[r] = "sent" => run'[r].payment # None
    BY <1>0, <1>13, <2>1, <2>2, <2>4, <2>5 DEF Labels, HoldsLock, RecordFails
  <2>9. /\ run'[r] \in Run
        /\ run'[r].pending \subseteq known
        /\ run'[r].payment = None \/ payment[run'[r].payment] # None
    BY <1>0, <1>13, <2>1, <2>2, <2>4 DEF RecordFails
  <2>. QED BY <1>0, <2>4, <2>5, <2>6, <2>8, <2>9, RunTypeOK
<1>14. CASE End(r)
  BY <1>14 DEF End, Goto, TypeOK, HoldsLock, books, kyc, stripe
<1>. QED BY <1>1, <1>2, <1>3, <1>4, <1>5, <1>6, <1>7, <1>8, <1>9, <1>10, <1>11,
            <1>12, <1>13, <1>14 DEF Step

\* Every reachable state is well typed.
THEOREM PayoutTypeCorrect == Spec => []TypeOK
<1>. USE PayoutAssumption, NoneAssumption
<1>1. Init => TypeOK
  BY DEF Init, TypeOK, HoldsLock
<1>2. TypeOK /\ [Next]_vars => TypeOK'
  <2>. SUFFICES ASSUME TypeOK, [Next]_vars PROVE TypeOK'
    OBVIOUS
  <2>. USE DEF TypeOK, HoldsLock
  <2>1. CASE Tick
    <3>1. overdue' \in SUBSET Payments
      BY <2>1 DEF Tick, PendingRows
    <3>. QED BY <2>1, <3>1 DEF Tick, books, kyc
  <2>2. ASSUME NEW r \in Runs, Start(r) PROVE TypeOK'
    <3>1. NewRun \in Run /\ NewRun.pending = {} /\ NewRun.payment = None
      BY DEF NewRun, Run
    <3>. QED BY <2>2, <3>1 DEF Start, Goto, books, kyc, stripe
  <2>3. ASSUME NEW r \in Runs, Crash(r) PROVE TypeOK'
    BY <2>3 DEF Crash, Goto, books, kyc, stripe
  <2>4. ASSUME NEW p \in Publishers, ChangeCapability(p) PROVE TypeOK'
    BY <2>4 DEF ChangeCapability, books, stripe
  <2>5. ASSUME NEW p \in Publishers, Refresh(p) PROVE TypeOK'
    BY <2>5 DEF Refresh, books, stripe
  <2>6. ASSUME NEW p \in Publishers, NEW amount \in Accruals, Accrue(p, amount) PROVE TypeOK'
    <3>1. amount \in Nat
      OBVIOUS
    <3>2. [t \in Times |-> IF t > clock THEN accrued[p][t] + amount ELSE accrued[p][t]]
            \in [Times -> Nat]
      BY <3>1
    <3>3. accrued' \in [Publishers -> [Times -> Nat]]
      BY <2>6, <3>2 DEF Accrue
    <3>. QED BY <2>6, <3>3 DEF Accrue, kyc, stripe
  <2>7. ASSUME NEW r \in Runs, Step(r) PROVE TypeOK'
    BY <2>7, StepTypeOK
  <2>8. CASE UNCHANGED vars
    BY <2>8 DEF vars, books, kyc, stripe
  <2>. QED BY <2>1, <2>2, <2>3, <2>4, <2>5, <2>6, <2>7, <2>8 DEF Next
<1>. QED BY <1>1, <1>2, PTL DEF Spec
(***************************************************************************)
(* Escrow is reserved once, and only after the hold.                       *)
(*                                                                         *)
(* What a run has read under the publisher's lock stays true until it      *)
(* reserves: the credits before its cutoff are frozen, because the cutoff  *)
(* lies behind the clock, and only the holder of the lock posts a debit.   *)
(***************************************************************************)
CreditsGrowWithTime ==
    \A p \in Publishers : \A s, t \in Times : s <= t => accrued[p][s] <= accrued[p][t]

CutoffsBehindHold == \A r \in Runs : run[r] # None => run[r].cutoff <= clock - Hold

PublisherLockExclusive ==
    \A r, q \in Runs :
        r # q /\ pc[r] \in HoldsLock /\ pc[q] \in HoldsLock => run[r].publisher # run[q].publisher

ReadIsCurrent ==
    \A r \in Runs :
        pc[r] = "read" => run[r].matured = Matured(run[r].publisher, run[r].cutoff)

EscrowInv == /\ TypeOK
             /\ CreditsGrowWithTime
             /\ CutoffsBehindHold
             /\ PublisherLockExclusive
             /\ ReadIsCurrent
             /\ PaidOnlyMatured

\* A step that leaves the books alone, and every run that is under a lock.
Quiet == /\ clock' = clock /\ accrued' = accrued /\ debits' = debits
         /\ \A q \in Runs : run'[q] # None => run[q] # None /\ run'[q].cutoff = run[q].cutoff
         /\ \A q \in Runs : pc'[q] \in HoldsLock => pc'[q] = pc[q] /\ run'[q] = run[q]

LEMMA QuietKeepsEscrowInv == EscrowInv /\ TypeOK' /\ Quiet => EscrowInv'
<1>. SUFFICES ASSUME EscrowInv, TypeOK', Quiet PROVE EscrowInv'
  OBVIOUS
<1>1. CreditsGrowWithTime' /\ CutoffsBehindHold'
  BY DEF EscrowInv, Quiet, CreditsGrowWithTime, CutoffsBehindHold
<1>2. PublisherLockExclusive'
  BY DEF EscrowInv, Quiet, PublisherLockExclusive
<1>3. ReadIsCurrent'
  BY DEF EscrowInv, Quiet, ReadIsCurrent, Matured, CreditsBefore, HoldsLock
<1>4. PaidOnlyMatured'
  BY DEF EscrowInv, Quiet, PaidOnlyMatured, CreditsBefore
<1>. QED BY <1>1, <1>2, <1>3, <1>4 DEF EscrowInv

\* Most steps of a run are quiet.
LEMMA StepIsQuiet ==
    ASSUME TypeOK, NEW r \in Runs, Step(r),
           ~LockPublisher(r), ~ReadMatured(r), \A i \in Payments : ~Reserve(r, i)
    PROVE  Quiet
<1>. DEFINE R == run[r]
<1>0. pc[r] # "idle" => R \in Run /\ R # None
  BY NoneAssumption DEF TypeOK
<1>t. run \in [Runs -> Run \cup {None}] /\ pc \in [Runs -> Labels]
  BY DEF TypeOK, Labels
<1>. DEFINE Moves(x) == run' = [run EXCEPT ![r] = x] /\ x.cutoff = R.cutoff
<1>1. ASSUME NEW x, Moves(x), pc[r] # "idle", pc'[r] \notin HoldsLock,
             \A q \in Runs \ {r} : pc'[q] = pc[q],
             clock' = clock, accrued' = accrued, debits' = debits
      PROVE  Quiet
  BY <1>0, <1>1, <1>t DEF Quiet
<1>2. ASSUME NEW p \in Publishers, Confirm(r, p) PROVE Quiet
  <2>. DEFINE x == [R EXCEPT !.accounts = R.accounts \ {p}, !.publisher = p]
  <2>1. R \in Run /\ pc[r] # "idle"
    BY <1>0, <1>2 DEF Confirm
  <2>2. x.cutoff = R.cutoff /\ run' = [run EXCEPT ![r] = x]
    BY <1>2, <2>1 DEF Confirm, Run
  <2>. HIDE DEF x
  <2>. QED BY <1>1, <1>2, <1>t, <2>1, <2>2 DEF Confirm, Goto, HoldsLock, books, kyc, stripe
<1>3. ASSUME NEW p \in Publishers, ConfirmFails(r, p) PROVE Quiet
  <2>. DEFINE x == [R EXCEPT !.accounts = R.accounts \ {p}]
  <2>1. R \in Run /\ pc[r] # "idle"
    BY <1>0, <1>3 DEF ConfirmFails
  <2>2. x.cutoff = R.cutoff /\ run' = [run EXCEPT ![r] = x]
    BY <1>3, <2>1 DEF ConfirmFails, Skip, Run
  <2>. HIDE DEF x
  <2>. QED BY <1>1, <1>3, <1>t, <2>1, <2>2 DEF ConfirmFails, HoldsLock, books, kyc, stripe
<1>4. CASE ClearFlag(r) \/ TooLittle(r) \/ ReserveFails(r)
  <2>. DEFINE x == [R EXCEPT !.publisher = None, !.matured = 0]
  <2>1. R \in Run /\ pc[r] # "idle"
    BY <1>0, <1>4 DEF ClearFlag, TooLittle, ReserveFails, HoldsLock
  <2>2. x.cutoff = R.cutoff /\ run' = [run EXCEPT ![r] = x]
    BY <1>4, <2>1 DEF ClearFlag, TooLittle, ReserveFails, Release, Run
  <2>. HIDE DEF x
  <2>3. pc' = [pc EXCEPT ![r] = "intents"] /\ clock' = clock /\ accrued' = accrued /\ debits' = debits
    BY <1>4 DEF ClearFlag, TooLittle, ReserveFails, Release, Goto, books
  <2>. QED BY <1>1, <1>t, <2>1, <2>2, <2>3 DEF HoldsLock
<1>5. CASE SelectPending(r)
  <2>. DEFINE x == [R EXCEPT !.pending = PendingRows]
  <2>1. R \in Run /\ pc[r] # "idle"
    BY <1>0, <1>5 DEF SelectPending
  <2>2. x.cutoff = R.cutoff /\ run' = [run EXCEPT ![r] = x]
    BY <1>5, <2>1 DEF SelectPending, Run
  <2>. HIDE DEF x
  <2>. QED BY <1>1, <1>5, <1>t, <2>1, <2>2 DEF SelectPending, Goto, HoldsLock, books, kyc, stripe
<1>6. ASSUME NEW i \in Payments, Send(r, i) PROVE Quiet
  <2>. DEFINE x == [R EXCEPT !.pending = R.pending \ {i}, !.payment = i]
  <2>1. R \in Run /\ pc[r] # "idle"
    BY <1>0, <1>6 DEF Send
  <2>2. x.cutoff = R.cutoff /\ run' = [run EXCEPT ![r] = x]
    BY <1>6, <2>1 DEF Send, Run
  <2>. HIDE DEF x
  <2>. QED BY <1>1, <1>6, <1>t, <2>1, <2>2 DEF Send, Goto, HoldsLock, books, kyc, stripe
<1>7. ASSUME NEW i \in Payments, SendFails(r, i) PROVE Quiet
  <2>. DEFINE x == [R EXCEPT !.pending = R.pending \ {i}]
  <2>1. R \in Run /\ pc[r] # "idle"
    BY <1>0, <1>7 DEF SendFails
  <2>2. x.cutoff = R.cutoff /\ run' = [run EXCEPT ![r] = x]
    BY <1>7, <2>1 DEF SendFails, Run
  <2>. HIDE DEF x
  <2>. QED BY <1>1, <1>7, <1>t, <2>1, <2>2 DEF SendFails, HoldsLock, books, kyc, stripe
<1>8. CASE Record(r) \/ RecordFails(r)
  <2>. DEFINE x == [R EXCEPT !.payment = None]
  <2>1. R \in Run /\ pc[r] # "idle"
    BY <1>0, <1>8 DEF Record, RecordFails
  <2>2. x.cutoff = R.cutoff /\ run' = [run EXCEPT ![r] = x]
    BY <1>8, <2>1 DEF Record, RecordFails, Run
  <2>. HIDE DEF x
  <2>3. pc' = [pc EXCEPT ![r] = "sending"] /\ clock' = clock /\ accrued' = accrued /\ debits' = debits
    BY <1>8 DEF Record, RecordFails, Goto, books
  <2>. QED BY <1>1, <1>t, <2>1, <2>2, <2>3 DEF HoldsLock
<1>9. CASE End(r)
  BY <1>9, <1>t DEF End, Goto, Quiet, HoldsLock, books
<1>. QED BY <1>2, <1>3, <1>4, <1>5, <1>6, <1>7, <1>8, <1>9 DEF Step

LEMMA ReserveKeepsEscrowInv ==
    ASSUME EscrowInv, TypeOK', NEW r \in Runs, NEW i \in Payments, Reserve(r, i)
    PROVE  EscrowInv'
<1>. DEFINE R == run[r]
            p == R.publisher
            amount == WholeCents(R.matured)
            x == [R EXCEPT !.publisher = None, !.matured = 0]
<1>1. R \in Run /\ R # None /\ p \in Publishers /\ R.matured \in Nat /\ R.cutoff \in Int
  BY NoneAssumption DEF Reserve, EscrowInv, TypeOK, Run, HoldsLock
<1>2. x.cutoff = R.cutoff /\ run' = [run EXCEPT ![r] = x] /\ pc' = [pc EXCEPT ![r] = "intents"]
  BY <1>1 DEF Reserve, Release, Goto, Run
<1>3. /\ debits' = [debits EXCEPT ![p] = @ + amount] /\ amount # 0 /\ pc[r] = "read"
      /\ clock' = clock /\ accrued' = accrued
  BY DEF Reserve
<1>4. amount \in Nat /\ amount <= R.matured
  BY <1>1, WholeCentsBounds
<1>. HIDE DEF amount, x
<1>5. R.matured = Matured(p, R.cutoff) /\ R.cutoff <= clock - Hold
  BY <1>1, <1>3 DEF EscrowInv, ReadIsCurrent, CutoffsBehindHold
<1>6. debits[p] + amount <= CreditsBefore(p, R.cutoff)
  <2>1. debits[p] \in Nat
    BY <1>1 DEF EscrowInv, TypeOK
  <2>2. R.matured + debits[p] = CreditsBefore(p, R.cutoff) /\ CreditsBefore(p, R.cutoff) \in Nat
    BY <1>1, <1>3, <1>4, <1>5, MaturedIsNat DEF EscrowInv
  <2>. QED BY <1>1, <1>4, <2>1, <2>2
<1>7. CreditsBefore(p, R.cutoff) <= CreditsBefore(p, clock - Hold)
  <2>0. clock \in 0..MaxClock /\ Hold \in Nat /\ MaxClock \in Nat /\ accrued[p] \in [Times -> Nat]
    BY <1>1, PayoutAssumption DEF EscrowInv, TypeOK
  <2>1. CASE R.cutoff \in Times
    <3>1. clock - Hold \in Times
      BY <1>1, <1>5, <2>0, <2>1
    <3>. QED BY <1>1, <1>5, <2>1, <3>1 DEF EscrowInv, CreditsGrowWithTime, CreditsBefore
  <2>2. CASE R.cutoff \notin Times
    BY <2>0, <2>2 DEF CreditsBefore
  <2>. QED BY <2>1, <2>2
<1>8. PaidOnlyMatured'
  <2>. SUFFICES ASSUME NEW q \in Publishers PROVE debits'[q] <= CreditsBefore(q, clock - Hold)
    BY <1>3 DEF PaidOnlyMatured, CreditsBefore
  <2>1. CASE q = p
    <3>1. /\ debits'[p] = debits[p] + amount /\ debits[p] \in Nat
          /\ CreditsBefore(p, R.cutoff) \in Nat
      BY <1>1, <1>3, MaturedIsNat DEF EscrowInv, TypeOK
    <3>2. clock - Hold \in Int
      BY PayoutAssumption DEF EscrowInv, TypeOK
    <3>3. CreditsBefore(p, clock - Hold) \in Nat
      BY <1>1, <3>2, MaturedIsNat DEF EscrowInv
    <3>. QED BY <1>4, <1>6, <1>7, <2>1, <3>1, <3>3
  <2>2. CASE q # p
    BY <1>1, <1>3, <2>2 DEF EscrowInv, TypeOK, PaidOnlyMatured
  <2>. QED BY <2>1, <2>2
<1>t. run \in [Runs -> Run \cup {None}] /\ pc \in [Runs -> Labels]
  BY DEF EscrowInv, TypeOK, Labels
<1>9. CreditsGrowWithTime' /\ CutoffsBehindHold'
  BY <1>1, <1>2, <1>3, <1>t DEF EscrowInv, CreditsGrowWithTime, CutoffsBehindHold
<1>10. PublisherLockExclusive'
  BY <1>2, <1>t DEF EscrowInv, PublisherLockExclusive, HoldsLock
<1>11. ReadIsCurrent'
  <2>. SUFFICES ASSUME NEW q \in Runs, pc'[q] = "read"
                PROVE  (run[q].matured = Matured(run[q].publisher, run[q].cutoff))'
    BY DEF ReadIsCurrent
  <2>1. q # r /\ pc[q] = "read" /\ run'[q] = run[q]
    BY <1>2, <1>t
  <2>2. run[q].publisher # p
    BY <1>3, <2>1 DEF EscrowInv, PublisherLockExclusive, HoldsLock
  <2>3. run[q].matured = Matured(run[q].publisher, run[q].cutoff)
    BY <2>1 DEF EscrowInv, ReadIsCurrent
  <2>4. debits'[run[q].publisher] = debits[run[q].publisher]
    BY <1>3, <2>2 DEF EscrowInv, TypeOK
  <2>. QED BY <1>3, <2>1, <2>3, <2>4 DEF Matured, CreditsBefore
<1>. QED BY <1>8, <1>9, <1>10, <1>11 DEF EscrowInv

LEMMA AccrueKeepsEscrowInv ==
    ASSUME EscrowInv, TypeOK', NEW p \in Publishers, NEW amount \in Accruals, Accrue(p, amount)
    PROVE  EscrowInv'
<1>0. /\ amount \in Nat /\ Hold \in Nat /\ MaxClock \in Nat /\ clock \in 0..MaxClock
      /\ accrued \in [Publishers -> [Times -> Nat]]
  BY PayoutAssumption DEF EscrowInv, TypeOK
<1>1. \A q \in Publishers, t \in Times :
        accrued'[q][t] = IF q = p /\ t > clock THEN accrued[q][t] + amount ELSE accrued[q][t]
  BY <1>0 DEF Accrue
<1>2. /\ UNCHANGED <<clock, debits, pc, run>>
  BY DEF Accrue
<1>3. \A q \in Publishers, c \in Int : c <= clock => CreditsBefore(q, c)' = CreditsBefore(q, c)
  BY <1>0, <1>1 DEF CreditsBefore
<1>4. CreditsGrowWithTime'
  <2>. SUFFICES ASSUME NEW q \in Publishers, NEW s \in Times, NEW t \in Times, s <= t
                PROVE  accrued'[q][s] <= accrued'[q][t]
    BY DEF CreditsGrowWithTime
  <2>1. accrued[q][s] <= accrued[q][t] /\ accrued[q][s] \in Nat /\ accrued[q][t] \in Nat
    BY <1>0 DEF EscrowInv, CreditsGrowWithTime
  <2>2. /\ accrued'[q][s] = IF q = p /\ s > clock THEN accrued[q][s] + amount ELSE accrued[q][s]
        /\ accrued'[q][t] = IF q = p /\ t > clock THEN accrued[q][t] + amount ELSE accrued[q][t]
    BY <1>1
  <2>3. s > clock => t > clock
    BY <1>0
  <2>. QED BY <1>0, <2>1, <2>2, <2>3
<1>5. CutoffsBehindHold' /\ PublisherLockExclusive'
  BY <1>2 DEF EscrowInv, CutoffsBehindHold, PublisherLockExclusive
<1>6. PaidOnlyMatured'
  <2>1. clock - Hold \in Int /\ clock - Hold <= clock
    BY <1>0
  <2>2. \A q \in Publishers : CreditsBefore(q, clock - Hold)' = CreditsBefore(q, clock - Hold)
    BY <1>2, <1>3, <2>1 DEF CreditsBefore
  <2>. QED BY <1>2, <2>2 DEF EscrowInv, PaidOnlyMatured
<1>7. ReadIsCurrent'
  <2>. SUFFICES ASSUME NEW q \in Runs, pc[q] = "read"
                PROVE  run[q].matured = Matured(run[q].publisher, run[q].cutoff)'
    BY <1>2 DEF ReadIsCurrent, Matured, CreditsBefore
  <2>1. run[q] \in Run /\ run[q] # None /\ run[q].publisher \in Publishers /\ run[q].cutoff \in Int
    BY NoneAssumption DEF EscrowInv, TypeOK, Run, HoldsLock
  <2>2. run[q].cutoff <= clock
    BY <1>0, <2>1 DEF EscrowInv, CutoffsBehindHold
  <2>3. CreditsBefore(run[q].publisher, run[q].cutoff)' = CreditsBefore(run[q].publisher, run[q].cutoff)
    BY <1>2, <1>3, <2>1, <2>2 DEF CreditsBefore
  <2>. QED BY <1>2, <2>3 DEF EscrowInv, ReadIsCurrent, Matured
<1>. QED BY <1>4, <1>5, <1>6, <1>7 DEF EscrowInv

LEMMA TickKeepsEscrowInv == EscrowInv /\ TypeOK' /\ Tick => EscrowInv'
<1>. SUFFICES ASSUME EscrowInv, TypeOK', Tick PROVE EscrowInv'
  OBVIOUS
<1>0. /\ Hold \in Nat /\ MaxClock \in Nat /\ clock \in 0..MaxClock /\ clock' = clock + 1
      /\ clock' \in 0..MaxClock
      /\ accrued \in [Publishers -> [Times -> Nat]] /\ debits \in [Publishers -> Nat]
      /\ UNCHANGED <<accrued, debits, pc, run>>
  BY PayoutAssumption DEF EscrowInv, TypeOK, Tick, books
<1>1. CreditsGrowWithTime' /\ PublisherLockExclusive' /\ ReadIsCurrent'
  BY <1>0 DEF EscrowInv, CreditsGrowWithTime, PublisherLockExclusive, ReadIsCurrent, Matured,
              CreditsBefore
<1>2. CutoffsBehindHold'
  <2>. SUFFICES ASSUME NEW r \in Runs, run[r] # None PROVE run[r].cutoff <= clock + 1 - Hold
    BY <1>0 DEF CutoffsBehindHold
  <2>1. run[r].cutoff \in Int /\ run[r].cutoff <= clock - Hold
    BY DEF EscrowInv, TypeOK, Run, CutoffsBehindHold
  <2>. QED BY <1>0, <2>1
<1>3. PaidOnlyMatured'
  <2>. SUFFICES ASSUME NEW p \in Publishers
                PROVE  debits[p] <= CreditsBefore(p, clock + 1 - Hold)
    BY <1>0 DEF PaidOnlyMatured, CreditsBefore
  <2>1. debits[p] <= CreditsBefore(p, clock - Hold)
    BY DEF EscrowInv, PaidOnlyMatured
  <2>2. CASE clock - Hold \in Times
    <3>1. clock + 1 - Hold \in Times /\ clock - Hold <= clock + 1 - Hold
      BY <1>0, <2>2
    <3>2. accrued[p][clock - Hold] <= accrued[p][clock + 1 - Hold]
      BY <2>2, <3>1 DEF EscrowInv, CreditsGrowWithTime
    <3>3. /\ accrued[p][clock - Hold] \in Nat /\ accrued[p][clock + 1 - Hold] \in Nat
          /\ debits[p] \in Nat
      BY <1>0, <2>2, <3>1
    <3>. QED BY <2>1, <2>2, <3>1, <3>2, <3>3 DEF CreditsBefore
  <2>3. CASE clock - Hold \notin Times
    <3>1. debits[p] \in Nat /\ debits[p] <= 0
      BY <1>0, <2>1, <2>3 DEF CreditsBefore
    <3>2. clock + 1 - Hold \in Times => accrued[p][clock + 1 - Hold] \in Nat
      BY <1>0
    <3>. QED BY <3>1, <3>2 DEF CreditsBefore
  <2>. QED BY <2>2, <2>3
<1>. QED BY <1>1, <1>2, <1>3 DEF EscrowInv

\* Overlapping runs never reserve the same escrow twice, nor any inside the hold.
THEOREM OnlyMaturedIsPaid == Spec => []PaidOnlyMatured
<1>1. Init => EscrowInv
  <2>. SUFFICES ASSUME Init PROVE EscrowInv
    OBVIOUS
  <2>1. TypeOK
    BY PayoutAssumption DEF Init, TypeOK, HoldsLock
  <2>2. \A p \in Publishers, t \in Times : accrued[p][t] = 0
    BY DEF Init
  <2>3. CreditsGrowWithTime
    BY <2>2 DEF CreditsGrowWithTime
  <2>4. CutoffsBehindHold /\ PublisherLockExclusive /\ ReadIsCurrent
    BY DEF Init, CutoffsBehindHold, PublisherLockExclusive, ReadIsCurrent, HoldsLock
  <2>5. PaidOnlyMatured
    BY <2>2 DEF Init, PaidOnlyMatured, CreditsBefore
  <2>. QED BY <2>1, <2>3, <2>4, <2>5 DEF EscrowInv
<1>2. EscrowInv /\ TypeOK' /\ [Next]_vars => EscrowInv'
  <2>. SUFFICES ASSUME EscrowInv, TypeOK', [Next]_vars PROVE EscrowInv'
    OBVIOUS
  <2>t. TypeOK /\ run \in [Runs -> Run \cup {None}] /\ pc \in [Runs -> Labels]
    BY DEF EscrowInv, TypeOK, Labels
  <2>1. CASE Tick
    BY <2>1, TickKeepsEscrowInv
  <2>2. ASSUME NEW r \in Runs, Start(r) PROVE EscrowInv'
    <3>1. NewRun \in Run /\ NewRun.cutoff = clock - Hold
      BY PayoutAssumption, <2>t DEF NewRun, Run, TypeOK
    <3>2. /\ run' = [run EXCEPT ![r] = NewRun] /\ pc' = [pc EXCEPT ![r] = "intents"]
          /\ UNCHANGED <<clock, accrued, debits>>
      BY <2>2 DEF Start, Goto, books
    <3>. HIDE DEF NewRun
    <3>a. clock - Hold \in Int
      BY PayoutAssumption, <2>t DEF TypeOK
    <3>3. CutoffsBehindHold'
      <4>. SUFFICES ASSUME NEW q \in Runs, run'[q] # None PROVE run'[q].cutoff <= clock - Hold
        BY <3>2 DEF CutoffsBehindHold
      <4>1. CASE q = r
        BY <2>t, <3>1, <3>2, <3>a, <4>1
      <4>2. CASE q # r
        BY <2>t, <3>2, <4>2 DEF EscrowInv, CutoffsBehindHold
      <4>. QED BY <4>1, <4>2
    <3>4. PublisherLockExclusive'
      BY <2>t, <3>2 DEF EscrowInv, PublisherLockExclusive, HoldsLock
    <3>5. ReadIsCurrent'
      BY <2>t, <3>2 DEF EscrowInv, ReadIsCurrent, Matured, CreditsBefore
    <3>6. CreditsGrowWithTime' /\ PaidOnlyMatured'
      BY <3>2 DEF EscrowInv, CreditsGrowWithTime, PaidOnlyMatured, CreditsBefore
    <3>. QED BY <3>3, <3>4, <3>5, <3>6 DEF EscrowInv
  <2>3. ASSUME NEW r \in Runs, Crash(r) PROVE EscrowInv'
    <3>1. Quiet
      BY <2>3, <2>t DEF Crash, Goto, Quiet, HoldsLock, books
    <3>. QED BY <3>1, QuietKeepsEscrowInv
  <2>4. ASSUME NEW p \in Publishers, ChangeCapability(p) \/ Refresh(p) PROVE EscrowInv'
    <3>1. Quiet
      BY <2>4 DEF ChangeCapability, Refresh, Quiet, books
    <3>. QED BY <3>1, QuietKeepsEscrowInv
  <2>5. ASSUME NEW p \in Publishers, NEW amount \in Accruals, Accrue(p, amount) PROVE EscrowInv'
    BY <2>5, AccrueKeepsEscrowInv
  <2>6. ASSUME NEW r \in Runs, LockPublisher(r) PROVE EscrowInv'
    <3>1. /\ pc[r] = "confirmed" /\ LockFree(run[r].publisher) /\ pc' = [pc EXCEPT ![r] = "locked"]
          /\ UNCHANGED <<clock, accrued, debits, run>>
      BY <2>6 DEF LockPublisher, Goto, books
    <3>2. PublisherLockExclusive'
      BY <2>t, <3>1 DEF EscrowInv, PublisherLockExclusive, LockFree
    <3>3. CutoffsBehindHold' /\ ReadIsCurrent' /\ CreditsGrowWithTime' /\ PaidOnlyMatured'
      BY <2>t, <3>1 DEF EscrowInv, CutoffsBehindHold, ReadIsCurrent, CreditsGrowWithTime,
                        PaidOnlyMatured, Matured, CreditsBefore
    <3>. QED BY <3>2, <3>3 DEF EscrowInv
  <2>7. ASSUME NEW r \in Runs, ReadMatured(r) PROVE EscrowInv'
    <3>. DEFINE R == run[r]
                m == Matured(R.publisher, R.cutoff)
                x == [R EXCEPT !.matured = m]
    <3>1. R \in Run /\ R # None
      BY <2>7, <2>t, NoneAssumption DEF ReadMatured, TypeOK
    <3>2. /\ pc[r] = "locked" /\ pc' = [pc EXCEPT ![r] = "read"] /\ run' = [run EXCEPT ![r] = x]
          /\ UNCHANGED <<clock, accrued, debits>>
      BY <2>7 DEF ReadMatured, Goto, books
    <3>3. \A p \in Publishers, c \in Int : Matured(p, c)' = Matured(p, c)
      BY <3>2 DEF Matured, CreditsBefore
    <3>. HIDE DEF m
    <3>4. x.publisher = R.publisher /\ x.cutoff = R.cutoff /\ x.matured = m
      BY <3>1 DEF Run
    <3>. HIDE DEF x
    <3>5. PublisherLockExclusive' /\ CutoffsBehindHold'
      BY <2>t, <3>1, <3>2, <3>4 DEF EscrowInv, PublisherLockExclusive, CutoffsBehindHold, HoldsLock
    <3>6. ReadIsCurrent'
      <4>. SUFFICES ASSUME NEW q \in Runs, pc'[q] = "read"
                    PROVE  (run[q].matured = Matured(run[q].publisher, run[q].cutoff))'
        BY DEF ReadIsCurrent
      <4>1. CASE q = r
        BY <2>t, <3>2, <3>4, <4>1 DEF m, Matured, CreditsBefore
      <4>2. CASE q # r
        BY <2>t, <3>2, <4>2 DEF EscrowInv, ReadIsCurrent, Matured, CreditsBefore
      <4>. QED BY <4>1, <4>2
    <3>7. CreditsGrowWithTime' /\ PaidOnlyMatured'
      BY <3>2 DEF EscrowInv, CreditsGrowWithTime, PaidOnlyMatured, CreditsBefore
    <3>. QED BY <3>5, <3>6, <3>7 DEF EscrowInv
  <2>8. ASSUME NEW r \in Runs, Step(r) PROVE EscrowInv'
    <3>1. CASE LockPublisher(r) \/ ReadMatured(r)
      BY <2>6, <2>7, <3>1
    <3>2. ASSUME NEW i \in Payments, Reserve(r, i) PROVE EscrowInv'
      BY <3>2, ReserveKeepsEscrowInv
    <3>3. CASE ~LockPublisher(r) /\ ~ReadMatured(r) /\ \A i \in Payments : ~Reserve(r, i)
      BY <2>8, <2>t, <3>3, StepIsQuiet, QuietKeepsEscrowInv
    <3>. QED BY <3>1, <3>2, <3>3
  <2>9. CASE UNCHANGED vars
    <3>1. Quiet
      BY <2>9 DEF vars, Quiet, books
    <3>. QED BY <3>1, QuietKeepsEscrowInv
  <2>. QED BY <2>1, <2>2, <2>3, <2>4, <2>5, <2>8, <2>9 DEF Next
<1>3. EscrowInv => PaidOnlyMatured
  BY DEF EscrowInv
<1>. QED BY <1>1, <1>2, <1>3, PayoutTypeCorrect, PTL DEF Spec

(***************************************************************************)
(* One transfer per row, unless the row is overdue.                        *)
(*                                                                         *)
(* A second transfer needs a run that sends a row whose key is forgotten.  *)
(* Such a run is still within its time limit, so it started when the key   *)
(* was about to expire; and it took the row from the pending rows after it *)
(* had started, so that the row was pending then: it is overdue.           *)
(***************************************************************************)
KeysTellTransfers ==
    \A i \in Payments :
        /\ keyAt[i] = None => transfers[i] = 0
        /\ keyAt[i] # None => keyAt[i] <= clock /\ payment[i] # None

PendingIsOverdue == \A i \in PendingRows : Expiring(i, clock) => i \in overdue

RunsHaveStarted == \A r \in Runs : run[r] # None => StartedAt(r) <= clock

SelectedIsOverdue ==
    \A r \in Runs : run[r] # None =>
        \A i \in run[r].pending : Expiring(i, StartedAt(r)) => i \in overdue

KeyInv == /\ KeysTellTransfers
          /\ PendingIsOverdue
          /\ RunsHaveStarted
          /\ SelectedIsOverdue
          /\ TransferredOnce

\* A run that starts, or goes on with fewer rows to send, or with the pending ones.
GoesOn(q) ==
    run'[q] # None =>
        \/ run'[q].cutoff = clock - Hold /\ run'[q].pending = {}
        \/ /\ run[q] # None /\ run'[q].cutoff = run[q].cutoff
           /\ run'[q].pending \subseteq run[q].pending \/ run'[q].pending \subseteq PendingRows

\* A step that leaves Stripe and the clock alone.
KeyFrame ==
    /\ UNCHANGED <<clock, transfers, keyAt, overdue>>
    /\ \A i \in Payments : payment'[i] = None => payment[i] = None
    /\ \A i \in PendingRows' : i \in PendingRows \/ payment[i] = None
    /\ \A q \in Runs : GoesOn(q)

LEMMA FrameKeepsKeyInv ==
    ASSUME TypeOK, TypeOK', KeyInv, KeyFrame PROVE KeyInv'
<1>. USE PayoutAssumption
<1>0. /\ clock \in Int /\ Hold \in Int /\ KeyLife \in Int /\ MaxDuration \in Int
      /\ keyAt \in [Payments -> Nat \cup {None}]
      /\ \A q \in Runs : run[q] # None => run[q].cutoff \in Int /\ run[q].pending \subseteq Payments
      /\ \A q \in Runs : run'[q] # None => run'[q].cutoff \in Int /\ run'[q].pending \subseteq Payments
  BY DEF TypeOK, Run
<1>f. /\ clock' = clock /\ transfers' = transfers /\ keyAt' = keyAt /\ overdue' = overdue
  BY DEF KeyFrame
<1>1. KeysTellTransfers'
  BY <1>f DEF KeyInv, KeyFrame, KeysTellTransfers
<1>2. PendingIsOverdue'
  <2>. SUFFICES ASSUME NEW i \in PendingRows', Expiring(i, clock) PROVE i \in overdue
    BY <1>f DEF PendingIsOverdue, Expiring
  <2>1. i \in Payments
    BY DEF PendingRows
  <2>2. CASE i \in PendingRows
    BY <2>2 DEF KeyInv, PendingIsOverdue
  <2>3. CASE payment[i] = None
    BY <2>1, <2>3 DEF KeyInv, KeysTellTransfers, Expiring
  <2>. QED BY <2>2, <2>3 DEF KeyFrame
<1>3. ASSUME NEW q \in Runs, run'[q] # None
      PROVE  /\ StartedAt(q)' <= clock
             /\ \A i \in run'[q].pending : Expiring(i, StartedAt(q)') => i \in overdue
  <2>1. CASE run'[q].cutoff = clock - Hold /\ run'[q].pending = {}
    BY <1>0, <2>1 DEF StartedAt
  <2>2. CASE run[q] # None /\ run'[q].cutoff = run[q].cutoff
    <3>1. StartedAt(q)' = StartedAt(q) /\ StartedAt(q) <= clock /\ StartedAt(q) \in Int
      BY <1>0, <2>2 DEF StartedAt, KeyInv, RunsHaveStarted
    <3>2. ASSUME NEW i \in run'[q].pending, Expiring(i, StartedAt(q)) PROVE i \in overdue
      <4>1. CASE i \in run[q].pending
        BY <2>2, <3>2, <4>1 DEF KeyInv, SelectedIsOverdue
      <4>2. CASE i \in PendingRows
        <5>1. i \in Payments
          BY <1>0, <1>3
        <5>2. keyAt[i] # None /\ keyAt[i] \in Int /\ StartedAt(q) - keyAt[i] > KeyLife - MaxDuration
          BY <1>0, <3>2, <5>1 DEF Expiring
        <5>3. clock - keyAt[i] > KeyLife - MaxDuration
          BY <1>0, <3>1, <5>2
        <5>. QED BY <4>2, <5>2, <5>3 DEF Expiring, KeyInv, PendingIsOverdue
      <4>3. CASE run'[q].cutoff = clock - Hold /\ run'[q].pending = {}
        BY <3>2, <4>3
      <4>. QED BY <1>3, <4>1, <4>2, <4>3 DEF KeyFrame, GoesOn
    <3>. QED BY <3>1, <3>2
  <2>. QED BY <1>3, <2>1, <2>2 DEF KeyFrame, GoesOn
<1>4. RunsHaveStarted' /\ SelectedIsOverdue'
  <2>1. ASSUME NEW q \in Runs, run'[q] # None
        PROVE  \A i \in run'[q].pending : Expiring(i, StartedAt(q))' => i \in overdue'
    BY <1>3, <1>f, <2>1 DEF Expiring
  <2>. QED BY <1>3, <1>f, <2>1 DEF RunsHaveStarted, SelectedIsOverdue
<1>5. TransferredOnce'
  BY <1>f DEF KeyInv, TransferredOnce
<1>. QED BY <1>1, <1>2, <1>4, <1>5 DEF KeyInv

\* What a step does to the knowledge of the run that takes it.
LEMMA RunGoesOn ==
    ASSUME TypeOK, NEW r \in Runs, NEW x, run' = [run EXCEPT ![r] = x],
           \/ x = None
           \/ x.cutoff = clock - Hold /\ x.pending = {}
           \/ /\ run[r] # None /\ x.cutoff = run[r].cutoff
              /\ x.pending \subseteq run[r].pending \/ x.pending \subseteq PendingRows
    PROVE  \A q \in Runs : GoesOn(q)
<1>. SUFFICES ASSUME NEW q \in Runs PROVE GoesOn(q)
  OBVIOUS
<1>1. run \in [Runs -> Run \cup {None}]
  BY DEF TypeOK
<1>2. CASE q = r
  BY <1>1, <1>2 DEF GoesOn
<1>3. CASE q # r
  BY <1>1, <1>3 DEF GoesOn
<1>. QED BY <1>2, <1>3

LEMMA StepIsFrame ==
    ASSUME TypeOK, NEW r \in Runs, Step(r), \A i \in Payments : ~Send(r, i)
    PROVE  KeyFrame
<1>. DEFINE R == run[r]
            Rows == /\ UNCHANGED <<clock, transfers, keyAt, overdue>>
                    /\ \A i \in Payments : payment'[i] = None => payment[i] = None
                    /\ \A i \in PendingRows' : i \in PendingRows \/ payment[i] = None
<1>0. R \in Run /\ R # None /\ payment \in [Payments -> Payment \cup {None}]
  BY NoneAssumption DEF Step, TypeOK
<1>s. ASSUME UNCHANGED <<clock, payment, stripe>> PROVE Rows
  BY <1>s DEF stripe, PendingRows
<1>1. ASSUME NEW p \in Publishers, Confirm(r, p) \/ ConfirmFails(r, p) PROVE KeyFrame
  <2>1. CASE Confirm(r, p)
    <3>. DEFINE x == [R EXCEPT !.accounts = R.accounts \ {p}, !.publisher = p]
    <3>1. x.cutoff = R.cutoff /\ x.pending = R.pending
      BY <1>0 DEF Run
    <3>2. run' = [run EXCEPT ![r] = x] /\ UNCHANGED <<clock, payment, stripe>>
      BY <2>1, <1>0 DEF Confirm, books
    <3>. HIDE DEF x
    <3>. QED BY <1>0, <1>s, <3>1, <3>2, RunGoesOn DEF KeyFrame
  <2>2. CASE ConfirmFails(r, p)
    <3>. DEFINE x == [R EXCEPT !.accounts = R.accounts \ {p}]
    <3>1. x.cutoff = R.cutoff /\ x.pending = R.pending
      BY <1>0 DEF Run
    <3>2. run' = [run EXCEPT ![r] = x] /\ UNCHANGED <<clock, payment, stripe>>
      BY <2>2, <1>0 DEF ConfirmFails, Skip, books
    <3>. HIDE DEF x
    <3>. QED BY <1>0, <1>s, <3>1, <3>2, RunGoesOn DEF KeyFrame
  <2>. QED BY <1>1, <2>1, <2>2
<1>2. ASSUME ClearFlag(r) \/ TooLittle(r) \/ ReserveFails(r) PROVE KeyFrame
  <2>. DEFINE x == [R EXCEPT !.publisher = None, !.matured = 0]
  <2>1. x.cutoff = R.cutoff /\ x.pending = R.pending
    BY <1>0 DEF Run
  <2>2. run' = [run EXCEPT ![r] = x] /\ UNCHANGED <<clock, payment, stripe>>
    BY <1>2, <1>0 DEF ClearFlag, TooLittle, ReserveFails, Release, books
  <2>. HIDE DEF x
  <2>. QED BY <1>0, <1>s, <2>1, <2>2, RunGoesOn DEF KeyFrame
<1>3. CASE LockPublisher(r)
  BY <1>0, <1>3, <1>s DEF LockPublisher, KeyFrame, GoesOn, books
<1>4. CASE ReadMatured(r)
  <2>. DEFINE m == Matured(R.publisher, R.cutoff)
              x == [R EXCEPT !.matured = m]
  <2>2. run' = [run EXCEPT ![r] = x] /\ UNCHANGED <<clock, payment, stripe>>
    BY <1>4, <1>0 DEF ReadMatured, books
  <2>. HIDE DEF m
  <2>1. x.cutoff = R.cutoff /\ x.pending = R.pending
    BY <1>0 DEF Run
  <2>. HIDE DEF x
  <2>. QED BY <1>0, <1>s, <2>1, <2>2, RunGoesOn DEF KeyFrame
<1>5. ASSUME NEW i \in Payments, Reserve(r, i) PROVE KeyFrame
  <2>. DEFINE x == [R EXCEPT !.publisher = None, !.matured = 0]
              row == [publisher |-> R.publisher, amount |-> WholeCents(R.matured), status |-> "pending"]
  <2>1. x.cutoff = R.cutoff /\ x.pending = R.pending
    BY <1>0 DEF Run
  <2>2. /\ run' = [run EXCEPT ![r] = x] /\ UNCHANGED <<clock, stripe>>
        /\ payment[i] = None /\ payment' = [payment EXCEPT ![i] = row]
    BY <1>5, <1>0 DEF Reserve, Release
  <2>. HIDE DEF x, row
  <2>3. \A j \in Payments \ {i} : payment'[j] = payment[j]
    BY <1>0, <2>2
  <2>4. Rows
    BY <2>2, <2>3 DEF PendingRows, stripe
  <2>. QED BY <1>0, <2>1, <2>2, <2>4, RunGoesOn DEF KeyFrame
<1>6. CASE SelectPending(r)
  <2>. DEFINE x == [R EXCEPT !.pending = PendingRows]
  <2>1. x.cutoff = R.cutoff /\ x.pending = PendingRows
    BY <1>0 DEF Run
  <2>2. run' = [run EXCEPT ![r] = x] /\ UNCHANGED <<clock, payment, stripe>>
    BY <1>6, <1>0 DEF SelectPending, books
  <2>. HIDE DEF x
  <2>. QED BY <1>0, <1>s, <2>1, <2>2, RunGoesOn DEF KeyFrame
<1>7. ASSUME NEW i \in Payments, SendFails(r, i) PROVE KeyFrame
  <2>. DEFINE x == [R EXCEPT !.pending = R.pending \ {i}]
  <2>1. x.cutoff = R.cutoff /\ x.pending \subseteq R.pending
    BY <1>0 DEF Run
  <2>2. run' = [run EXCEPT ![r] = x] /\ UNCHANGED <<clock, payment, stripe>>
    BY <1>7, <1>0 DEF SendFails, books
  <2>. HIDE DEF x
  <2>. QED BY <1>0, <1>s, <2>1, <2>2, RunGoesOn DEF KeyFrame
<1>8. CASE Record(r) \/ RecordFails(r)
  <2>. DEFINE x == [R EXCEPT !.payment = None]
  <2>1. x.cutoff = R.cutoff /\ x.pending = R.pending
    BY <1>0 DEF Run
  <2>2. run' = [run EXCEPT ![r] = x] /\ UNCHANGED <<clock, stripe>>
    BY <1>8, <1>0 DEF Record, RecordFails
  <2>3. Rows
    <3>1. CASE payment' = payment
      BY <1>s, <2>2, <3>1
    <3>2. CASE Record(r)
      <4>. DEFINE i == R.payment
                  row == [payment[i] EXCEPT !.status = "in_transit"]
      <4>1. i \in Payments /\ payment[i] \in Payment
        BY <1>0, <3>2, NoneAssumption DEF Record, TypeOK, Run
      <4>2. payment' = [payment EXCEPT ![i] = row]
        BY <3>2, <4>1 DEF Record
      <4>3. row.status = "in_transit" /\ row # None /\ payment[i] # None
        BY <4>1, NoneAssumption DEF Payment
      <4>. HIDE DEF row, i
      <4>4. payment'[i] = row /\ \A j \in Payments \ {i} : payment'[j] = payment[j]
        BY <1>0, <4>1, <4>2
      <4>. QED BY <2>2, <4>3, <4>4 DEF PendingRows, stripe
    <3>. QED BY <1>8, <3>1, <3>2 DEF RecordFails, books
  <2>. HIDE DEF x
  <2>. QED BY <1>0, <2>1, <2>2, <2>3, RunGoesOn DEF KeyFrame
<1>9. CASE End(r)
  <2>1. run' = [run EXCEPT ![r] = None] /\ UNCHANGED <<clock, payment, stripe>>
    BY <1>9 DEF End, books
  <2>. QED BY <1>s, <2>1, RunGoesOn DEF KeyFrame
<1>. QED BY <1>1, <1>2, <1>3, <1>4, <1>5, <1>6, <1>7, <1>8, <1>9 DEF Step

\* The one step that moves money.
LEMMA SendKeepsKeyInv ==
    ASSUME TypeOK, TypeOK', KeyInv, NEW r \in Runs, NEW i \in Payments, InTime(r), Send(r, i)
    PROVE  KeyInv'
<1>. USE PayoutAssumption
<1>0. /\ clock \in Nat /\ Hold \in Int /\ KeyLife \in Int /\ MaxDuration \in 0..KeyLife
      /\ transfers \in [Payments -> Nat] /\ keyAt \in [Payments -> Nat \cup {None}]
      /\ run \in [Runs -> Run \cup {None}]
      /\ run[r] \in Run /\ run[r] # None /\ i \in run[r].pending /\ payment[i] # None
      /\ \A q \in Runs : run[q] # None => run[q].cutoff \in Int /\ run[q].pending \subseteq Payments
  <2>1. /\ clock \in Nat /\ Hold \in Int /\ KeyLife \in Int /\ MaxDuration \in 0..KeyLife
        /\ transfers \in [Payments -> Nat] /\ keyAt \in [Payments -> Nat \cup {None}]
        /\ run \in [Runs -> Run \cup {None}]
    BY DEF TypeOK
  <2>2. run[r] \in Run /\ run[r] # None /\ i \in run[r].pending /\ payment[i] # None
    BY NoneAssumption DEF TypeOK, Send
  <2>3. \A q \in Runs : run[q] # None => run[q].cutoff \in Int /\ run[q].pending \subseteq Payments
    BY <2>1 DEF Run
  <2>. QED BY <2>1, <2>2, <2>3
<1>1. \A q \in Runs : GoesOn(q)
  <2>. DEFINE x == [run[r] EXCEPT !.pending = run[r].pending \ {i}, !.payment = i]
  <2>1. x.cutoff = run[r].cutoff /\ x.pending \subseteq run[r].pending
    BY <1>0 DEF Run
  <2>2. run' = [run EXCEPT ![r] = x]
    BY <1>0 DEF Send
  <2>. HIDE DEF x
  <2>. QED BY <1>0, <2>1, <2>2, RunGoesOn
<1>2. payment' = payment /\ clock' = clock
  BY DEF Send, books
<1>3. CASE UNCHANGED stripe
  <2>1. KeyFrame
    BY <1>1, <1>2, <1>3 DEF KeyFrame, stripe, PendingRows
  <2>. QED BY <2>1, FrameKeepsKeyInv
<1>4. CASE /\ ~Remembered(i) /\ overdue' = overdue
           /\ transfers' = [transfers EXCEPT ![i] = @ + 1]
           /\ keyAt' = [keyAt EXCEPT ![i] = clock]
  <2>1. /\ transfers'[i] = transfers[i] + 1 /\ keyAt'[i] = clock /\ clock # None
        /\ \A j \in Payments \ {i} : transfers'[j] = transfers[j] /\ keyAt'[j] = keyAt[j]
    BY <1>0, <1>4, NoneAssumption
  <2>2. KeysTellTransfers'
    BY <1>0, <1>2, <2>1 DEF KeyInv, KeysTellTransfers
  <2>3. PendingIsOverdue'
    <3>. SUFFICES ASSUME NEW j \in PendingRows', Expiring(j, clock)' PROVE j \in overdue'
      BY DEF PendingIsOverdue
    <3>1. j \in PendingRows /\ j \in Payments
      BY <1>2 DEF PendingRows
    <3>2. j # i
      BY <1>0, <1>2, <2>1 DEF Expiring
    <3>3. Expiring(j, clock)
      BY <1>2, <2>1, <3>1, <3>2 DEF Expiring
    <3>. QED BY <1>4, <3>1, <3>3 DEF KeyInv, PendingIsOverdue
  <2>4. ASSUME NEW q \in Runs, run'[q] # None
        PROVE  /\ StartedAt(q)' <= clock
               /\ \A j \in run'[q].pending : Expiring(j, StartedAt(q))' => j \in overdue'
    <3>1. run[q] # None /\ run'[q].cutoff = run[q].cutoff /\ run'[q].pending \subseteq run[q].pending
      <4>1. CASE q = r
        <5>. DEFINE x == [run[r] EXCEPT !.pending = run[r].pending \ {i}, !.payment = i]
        <5>1. x.cutoff = run[r].cutoff /\ x.pending \subseteq run[r].pending
          BY <1>0 DEF Run
        <5>2. run' = [run EXCEPT ![r] = x]
          BY <1>0 DEF Send
        <5>. HIDE DEF x
        <5>. QED BY <1>0, <4>1, <5>1, <5>2
      <4>2. CASE q # r
        BY <1>0, <2>4, <4>2 DEF Send
      <4>. QED BY <4>1, <4>2
    <3>2. StartedAt(q)' = StartedAt(q) /\ StartedAt(q) <= clock /\ StartedAt(q) \in Int
      BY <1>0, <3>1 DEF StartedAt, KeyInv, RunsHaveStarted
    <3>3. ASSUME NEW j \in run'[q].pending, Expiring(j, StartedAt(q))' PROVE j \in overdue'
      <4>1. j \in Payments /\ j \in run[q].pending
        BY <1>0, <3>1, <3>3
      <4>2. j # i
        BY <1>0, <2>1, <3>2, <3>3 DEF Expiring
      <4>3. Expiring(j, StartedAt(q))
        BY <2>1, <3>2, <3>3, <4>1, <4>2 DEF Expiring
      <4>. QED BY <1>4, <3>1, <4>1, <4>3 DEF KeyInv, SelectedIsOverdue
    <3>. QED BY <3>2, <3>3
  <2>5. RunsHaveStarted' /\ SelectedIsOverdue'
    BY <1>2, <2>4 DEF RunsHaveStarted, SelectedIsOverdue
  <2>6. i \in overdue \/ transfers[i] = 0
    <3>1. CASE keyAt[i] = None
      BY <3>1 DEF KeyInv, KeysTellTransfers
    <3>2. CASE keyAt[i] # None
      <4>1. keyAt[i] \in Int /\ clock - keyAt[i] > KeyLife
        BY <1>0, <1>4, <3>2 DEF Remembered
      <4>2. StartedAt(r) \in Int /\ clock - StartedAt(r) <= MaxDuration
        BY <1>0 DEF InTime, StartedAt
      <4>3. StartedAt(r) - keyAt[i] > KeyLife - MaxDuration
        BY <1>0, <4>1, <4>2
      <4>. QED BY <1>0, <3>2, <4>3 DEF Expiring, KeyInv, SelectedIsOverdue
    <3>. QED BY <3>1, <3>2
  <2>7. TransferredOnce'
    BY <1>0, <1>4, <2>1, <2>6 DEF KeyInv, TransferredOnce
  <2>. QED BY <2>2, <2>3, <2>5, <2>7 DEF KeyInv
<1>. QED BY <1>3, <1>4 DEF Send, CreateTransfer

\* A row that was not still pending when a run could outlast its key is never paid
\* twice, however many runs overlap, crash anywhere and send it again.
THEOREM OneTransfer == Spec => []TransferredOnce
<1>1. Init => KeyInv
  BY DEF Init, KeyInv, KeysTellTransfers, PendingIsOverdue, PendingRows, RunsHaveStarted,
         SelectedIsOverdue, TransferredOnce
<1>2. TypeOK /\ TypeOK' /\ KeyInv /\ [Next]_vars => KeyInv'
  <2>. SUFFICES ASSUME TypeOK, TypeOK', KeyInv, [Next]_vars PROVE KeyInv'
    OBVIOUS
  <2>1. ASSUME NEW r \in Runs, Step(r) PROVE KeyInv'
    <3>1. ASSUME NEW i \in Payments, Send(r, i) PROVE KeyInv'
      BY <2>1, <3>1, SendKeepsKeyInv DEF Step
    <3>2. CASE \A i \in Payments : ~Send(r, i)
      BY <2>1, <3>2, StepIsFrame, FrameKeepsKeyInv
    <3>. QED BY <3>1, <3>2
  <2>2. ASSUME NEW r \in Runs, Start(r) \/ Crash(r) PROVE KeyInv'
    <3>1. NewRun.cutoff = clock - Hold /\ NewRun.pending = {}
      BY DEF NewRun
    <3>2. /\ run' = [run EXCEPT ![r] = NewRun] \/ run' = [run EXCEPT ![r] = None]
          /\ UNCHANGED <<clock, payment, stripe>>
      BY <2>2 DEF Start, Crash, books
    <3>. HIDE DEF NewRun
    <3>3. \A q \in Runs : GoesOn(q)
      BY <3>1, <3>2, RunGoesOn
    <3>4. KeyFrame
      BY <3>2, <3>3 DEF KeyFrame, stripe, PendingRows
    <3>. QED BY <3>4, FrameKeepsKeyInv
  <2>3. CASE UNCHANGED <<clock, payment, stripe, run>>
    <3>1. \A q \in Runs : GoesOn(q)
      BY <2>3 DEF GoesOn
    <3>2. KeyFrame
      BY <2>3, <3>1 DEF KeyFrame, stripe, PendingRows
    <3>. QED BY <3>2, FrameKeepsKeyInv
  <2>4. ASSUME NEW p \in Publishers,
               ChangeCapability(p) \/ Refresh(p) \/ \E amount \in Accruals : Accrue(p, amount)
        PROVE  KeyInv'
    BY <2>3, <2>4 DEF ChangeCapability, Refresh, Accrue, books
  <2>5. CASE Tick
    <3>1. /\ clock' = clock + 1 /\ clock \in Int
          /\ overdue' = overdue \cup {i \in PendingRows : Expiring(i, clock')}
          /\ transfers' = transfers /\ keyAt' = keyAt /\ payment' = payment /\ run' = run
      BY <2>5 DEF Tick, books, TypeOK
    <3>2. KeysTellTransfers' /\ TransferredOnce'
      BY <3>1 DEF KeyInv, KeysTellTransfers, TransferredOnce, TypeOK
    <3>3. PendingIsOverdue'
      BY <3>1 DEF PendingIsOverdue, PendingRows, Expiring
    <3>4. RunsHaveStarted'
      BY <3>1, PayoutAssumption DEF KeyInv, RunsHaveStarted, StartedAt, TypeOK, Run
    <3>5. SelectedIsOverdue'
      BY <3>1 DEF KeyInv, SelectedIsOverdue, StartedAt, Expiring
    <3>. QED BY <3>2, <3>3, <3>4, <3>5 DEF KeyInv
  <2>6. CASE UNCHANGED vars
    BY <2>3, <2>6 DEF vars, books
  <2>. QED BY <2>1, <2>2, <2>4, <2>5, <2>6 DEF Next
<1>3. KeyInv => TransferredOnce
  BY DEF KeyInv
<1>. QED BY <1>1, <1>2, <1>3, PayoutTypeCorrect, PTL DEF Spec

(***************************************************************************)
(* The debits are the payout rows, and the rows are what Stripe moved.     *)
(*                                                                         *)
(* Of the four parts of DebitsAreRows only the last is not inductive: that *)
(* a row in transit was transferred rests on what Stripe answered the run  *)
(* that marks it, which a key it remembers may have answered long ago.     *)
(***************************************************************************)
KeysHaveTransfers == \A i \in Payments : keyAt[i] # None => transfers[i] > 0

SentIsTransferred == \A r \in Runs : pc[r] = "sent" => transfers[run[r].payment] > 0

TransfersHaveRows == \A i \in Payments : transfers[i] > 0 => payment[i] # None

RowsAreWholeCents ==
    \A i \in Payments : payment[i] # None => /\ payment[i].amount % Cent = 0
                                             /\ payment[i].amount + Cent > Threshold

TransitIsTransferred ==
    \A i \in Payments :
        payment[i] # None /\ payment[i].status = "in_transit" => transfers[i] > 0

DebitsAreSums ==
    \A p \in Publishers : debits[p] = SumFunction([i \in RowsOf(p) |-> payment[i].amount])

DebitInv == /\ KeysHaveTransfers /\ SentIsTransferred /\ TransfersHaveRows
            /\ RowsAreWholeCents /\ TransitIsTransferred /\ DebitsAreSums

\* Rounding down to the cent leaves a whole number of cents, less than one below.
LEMMA WholeCentsAreWhole ==
    ASSUME NEW n \in Nat
    PROVE  WholeCents(n) % Cent = 0 /\ n < WholeCents(n) + Cent
<1>. DEFINE q == n \div Cent
            w == q * Cent
            d == w \div Cent
            m == w % Cent
<1>1. q \in Nat /\ Cent \in Nat /\ Cent > 0
  BY PayoutAssumption
<1>2. n < w + Cent
  BY <1>1
<1>3. w \in Nat
  BY <1>1
<1>. HIDE DEF q
<1>4. d \in Int /\ m \in Int /\ 0 <= m /\ m < Cent /\ w = Cent * d + m
  BY <1>1, <1>3
<1>5. m = (q - d) * Cent
  BY <1>1, <1>4
<1>. DEFINE k == q - d
<1>6. k \in Int
  BY <1>1, <1>4
<1>. HIDE DEF w, d, m
<1>7. m = k * Cent
  BY <1>5
<1>. HIDE DEF k
<1>8. CASE k >= 1
  <2>1. k * Cent >= Cent
    BY <1>1, <1>6, <1>8
  <2>. QED
    BY <1>1, <1>4, <1>7, <2>1
<1>9. CASE k <= -1
  <2>1. k * Cent <= -Cent
    BY <1>1, <1>6, <1>9
  <2>. QED
    BY <1>1, <1>4, <1>7, <2>1
<1>10. CASE k = 0
  BY <1>1, <1>2, <1>7, <1>10 DEF WholeCents, w, m, q
<1>. QED
  BY <1>6, <1>8, <1>9, <1>10

\* A step that leaves the rows, the debits and Stripe alone.
LEMMA DebitFrame ==
    ASSUME DebitInv, payment' = payment, debits' = debits, UNCHANGED <<transfers, keyAt>>,
           \A q \in Runs : pc'[q] = "sent" => pc[q] = "sent" /\ run'[q] = run[q]
    PROVE  DebitInv'
<1>1. KeysHaveTransfers' /\ TransfersHaveRows' /\ TransitIsTransferred'
  BY DEF DebitInv, KeysHaveTransfers, TransfersHaveRows, TransitIsTransferred
<1>2. SentIsTransferred'
  BY DEF DebitInv, SentIsTransferred
<1>3. RowsAreWholeCents' /\ DebitsAreSums'
  BY DEF DebitInv, RowsAreWholeCents, DebitsAreSums, RowsOf
<1>. QED BY <1>1, <1>2, <1>3 DEF DebitInv

LEMMA ReserveKeepsDebits ==
    ASSUME TypeOK, TypeOK', DebitInv, NEW r \in Runs, NEW i \in Payments, Reserve(r, i)
    PROVE  DebitInv'
<1>. DEFINE p == run[r].publisher
            amount == WholeCents(run[r].matured)
            x == [publisher |-> p, amount |-> amount, status |-> "pending"]
<1>1. run[r] \in Run /\ p \in Publishers /\ run[r].matured \in Nat
  BY DEF Reserve, TypeOK, Run, HoldsLock
<1>2. amount \in Nat /\ amount % Cent = 0 /\ run[r].matured < amount + Cent
  BY <1>1, WholeCentsBounds, WholeCentsAreWhole
<1>3. /\ payment' = [payment EXCEPT ![i] = x] /\ debits' = [debits EXCEPT ![p] = @ + amount]
      /\ payment[i] = None /\ run[r].matured >= Threshold /\ UNCHANGED stripe
  BY <1>1, PayoutAssumption DEF Reserve
<1>. HIDE DEF amount
<1>4. x \in Payment /\ x # None /\ x.publisher = p /\ x.amount = amount /\ x.status = "pending"
  BY <1>1, <1>2, NoneAssumption DEF Payment
<1>. HIDE DEF x
<1>5. /\ payment'[i] = x /\ \A j \in Payments \ {i} : payment'[j] = payment[j]
      /\ payment \in [Payments -> Payment \cup {None}]
  BY <1>3 DEF TypeOK
<1>6. KeysHaveTransfers' /\ TransfersHaveRows'
  BY <1>3, <1>4, <1>5 DEF DebitInv, KeysHaveTransfers, TransfersHaveRows, stripe
<1>7. SentIsTransferred'
  <2>1. ASSUME NEW q \in Runs, pc'[q] = "sent" PROVE pc[q] = "sent" /\ run'[q] = run[q]
    BY <2>1 DEF Reserve, Release, Goto, TypeOK
  <2>. QED BY <1>3, <2>1 DEF DebitInv, SentIsTransferred, stripe
<1>8. RowsAreWholeCents'
  <2>1. amount + Cent > Threshold
    BY <1>1, <1>2, <1>3, PayoutAssumption
  <2>. QED BY <1>2, <1>4, <1>5, <2>1 DEF DebitInv, RowsAreWholeCents
<1>9. TransitIsTransferred'
  BY <1>3, <1>4, <1>5 DEF DebitInv, TransitIsTransferred, stripe
<1>10. DebitsAreSums'
  <2>. SUFFICES ASSUME NEW o \in Publishers
                PROVE  debits'[o] = SumFunction([j \in RowsOf(o)' |-> payment'[j].amount])
    BY DEF DebitsAreSums
  <2>. DEFINE before == [j \in RowsOf(o) |-> payment[j].amount]
              after  == [j \in RowsOf(o)' |-> payment'[j].amount]
  <2>1. debits[o] = SumFunction(before)
    BY DEF DebitInv, DebitsAreSums
  <2>2. /\ RowsOf(o) \in SUBSET Payments /\ IsFiniteSet(RowsOf(o)) /\ i \notin RowsOf(o)
        /\ before \in [RowsOf(o) -> Nat]
        /\ \A j \in RowsOf(o) : payment'[j].amount = payment[j].amount
    <3>1. RowsOf(o) \in SUBSET Payments /\ i \notin RowsOf(o)
      BY <1>3 DEF RowsOf
    <3>2. IsFiniteSet(RowsOf(o))
      BY <3>1, FS_Subset, PayoutAssumption
    <3>. QED BY <1>5, <3>1, <3>2 DEF RowsOf, Payment
  <2>3. CASE o = p
    <3>1. RowsOf(o)' = RowsOf(o) \cup {i}
      BY <1>4, <1>5, <2>3 DEF RowsOf
    <3>2. /\ after \in [RowsOf(o) \cup {i} -> Nat]
          /\ \A j \in RowsOf(o) : after[j] = before[j]
          /\ after[i] = amount
      BY <1>2, <1>4, <1>5, <2>2, <3>1
    <3>. HIDE DEF before, after, amount
    <3>3. SumFunction(after) = SumFunction(before) + after[i]
      BY <2>2, <3>2, SumExtends
    <3>4. debits'[o] = debits[o] + amount
      BY <1>1, <1>3, <2>3 DEF TypeOK
    <3>5. debits'[o] = SumFunction(after)
      BY <2>1, <3>2, <3>3, <3>4
    <3>6. after = [j \in RowsOf(o)' |-> payment'[j].amount]
      BY DEF after
    <3>. QED BY <3>5, <3>6
  <2>4. CASE o # p
    <3>1. RowsOf(o)' = RowsOf(o)
      BY <1>3, <1>4, <1>5, <2>4 DEF RowsOf
    <3>2. after = before
      BY <2>2, <3>1
    <3>3. debits'[o] = debits[o]
      BY <1>3, <2>4 DEF TypeOK
    <3>. QED BY <2>1, <3>2, <3>3
  <2>. QED BY <2>3, <2>4
<1>. QED BY <1>6, <1>7, <1>8, <1>9, <1>10 DEF DebitInv

LEMMA SendKeepsDebits ==
    ASSUME TypeOK, TypeOK', DebitInv, NEW r \in Runs, NEW i \in Payments, Send(r, i)
    PROVE  DebitInv'
<1>1. run[r] \in Run /\ payment[i] # None
  BY NoneAssumption DEF Send, TypeOK
<1>2. /\ payment' = payment /\ debits' = debits /\ pc' = [pc EXCEPT ![r] = "sent"]
      /\ run'[r].payment = i /\ \A q \in Runs \ {r} : run'[q] = run[q]
  BY <1>1 DEF Send, Goto, books, TypeOK, Run
<1>3. /\ transfers' \in [Payments -> Nat] /\ transfers'[i] > 0
      /\ \A j \in Payments \ {i} : transfers'[j] = transfers[j] /\ keyAt'[j] = keyAt[j]
      /\ \A j \in Payments : transfers[j] > 0 => transfers'[j] > 0
  <2>1. CASE Remembered(i) /\ UNCHANGED stripe
    BY <2>1 DEF Remembered, DebitInv, KeysHaveTransfers, stripe, TypeOK
  <2>2. CASE /\ transfers' = [transfers EXCEPT ![i] = @ + 1]
             /\ keyAt' = [keyAt EXCEPT ![i] = clock]
    BY <2>2 DEF TypeOK
  <2>. QED BY <2>1, <2>2 DEF Send, CreateTransfer
<1>4. KeysHaveTransfers' /\ TransfersHaveRows' /\ TransitIsTransferred'
  BY <1>1, <1>2, <1>3
     DEF DebitInv, KeysHaveTransfers, TransfersHaveRows, TransitIsTransferred
<1>5. SentIsTransferred'
  <2>. SUFFICES ASSUME NEW q \in Runs, pc'[q] = "sent" PROVE transfers'[run'[q].payment] > 0
    BY DEF SentIsTransferred
  <2>1. CASE q = r
    BY <1>2, <1>3, <2>1
  <2>2. CASE q # r
    <3>1. pc[q] = "sent" /\ run'[q] = run[q]
      BY <1>2, <2>2 DEF TypeOK
    <3>2. run[q].payment \in Payments /\ transfers[run[q].payment] > 0
      BY <3>1 DEF TypeOK, Run, DebitInv, SentIsTransferred
    <3>. QED BY <1>3, <3>1, <3>2
  <2>. QED BY <2>1, <2>2
<1>6. RowsAreWholeCents' /\ DebitsAreSums'
  BY <1>2 DEF DebitInv, RowsAreWholeCents, DebitsAreSums, RowsOf
<1>. QED BY <1>4, <1>5, <1>6 DEF DebitInv

LEMMA RecordKeepsDebits ==
    ASSUME TypeOK, TypeOK', DebitInv, NEW r \in Runs, Record(r)
    PROVE  DebitInv'
<1>. DEFINE i == run[r].payment
            x == [payment[i] EXCEPT !.status = "in_transit"]
<1>1. i \in Payments /\ payment[i] \in Payment /\ payment[i] # None /\ transfers[i] > 0
  <2>1. pc[r] = "sent" /\ run[r] \in Run
    BY NoneAssumption DEF Record, TypeOK
  <2>2. i \in Payments /\ transfers[i] > 0
    BY <2>1 DEF Run, TypeOK, DebitInv, SentIsTransferred
  <2>3. payment[i] # None
    BY <2>2 DEF DebitInv, TransfersHaveRows
  <2>. QED BY <2>2, <2>3 DEF TypeOK
<1>2. payment' = [payment EXCEPT ![i] = x] /\ debits' = debits /\ UNCHANGED stripe
  BY <1>1 DEF Record
<1>3. x \in Payment /\ x # None /\ x.publisher = payment[i].publisher /\ x.amount = payment[i].amount
  BY <1>1, NoneAssumption DEF Payment
<1>. HIDE DEF x
<1>4. /\ payment'[i] = x /\ \A j \in Payments \ {i} : payment'[j] = payment[j]
      /\ \A j \in Payments : payment'[j] # None <=> payment[j] # None
      /\ \A j \in Payments : payment[j] # None => /\ payment'[j].publisher = payment[j].publisher
                                                  /\ payment'[j].amount = payment[j].amount
  BY <1>1, <1>2, <1>3 DEF TypeOK
<1>. HIDE DEF i
<1>5. KeysHaveTransfers' /\ TransfersHaveRows' /\ TransitIsTransferred'
  BY <1>1, <1>2, <1>4
     DEF DebitInv, KeysHaveTransfers, TransfersHaveRows, TransitIsTransferred, stripe
<1>6. SentIsTransferred'
  <2>1. ASSUME NEW q \in Runs, pc'[q] = "sent" PROVE pc[q] = "sent" /\ run'[q] = run[q]
    BY <2>1 DEF Record, Goto, TypeOK
  <2>. QED BY <1>2, <2>1 DEF DebitInv, SentIsTransferred, stripe
<1>7. RowsAreWholeCents'
  BY <1>4 DEF DebitInv, RowsAreWholeCents
<1>8. DebitsAreSums'
  <2>1. ASSUME NEW p \in Publishers
        PROVE  [j \in RowsOf(p) |-> payment[j].amount]' = [j \in RowsOf(p) |-> payment[j].amount]
    <3>1. RowsOf(p)' = RowsOf(p) /\ \A j \in RowsOf(p) : payment'[j].amount = payment[j].amount
      BY <1>4 DEF RowsOf
    <3>. QED BY <3>1
  <2>. QED BY <1>2, <2>1 DEF DebitInv, DebitsAreSums
<1>. QED BY <1>5, <1>6, <1>7, <1>8 DEF DebitInv

\* Every other step of a run, and of the rest of the system, sends nothing.
Elsewhere(r) ==
    /\ pc'[r] # "sent" \/ (pc'[r] = pc[r] /\ run'[r] = run[r])
    /\ \A q \in Runs \ {r} : pc'[q] = pc[q] /\ run'[q] = run[q]

LEMMA OthersKeepDebits ==
    ASSUME TypeOK, DebitInv, [Next]_vars,
           \A r \in Runs : ~Record(r) /\ \A i \in Payments : ~Reserve(r, i) /\ ~Send(r, i)
    PROVE  DebitInv'
<1>1. payment' = payment /\ debits' = debits /\ UNCHANGED <<transfers, keyAt>>
  BY DEF Next, Step, vars, books, stripe, Tick, Start, Crash, ChangeCapability, Refresh, Accrue,
         Confirm, ConfirmFails, ClearFlag, LockPublisher, ReadMatured, TooLittle, ReserveFails,
         SelectPending, SendFails, RecordFails, End
<1>2. \A q \in Runs : pc'[q] = "sent" => pc[q] = "sent" /\ run'[q] = run[q]
  <2>1. ASSUME NEW r \in Runs, Step(r) \/ Start(r) \/ Crash(r)
        PROVE  /\ pc'[r] # "sent" \/ (pc'[r] = pc[r] /\ run'[r] = run[r])
               /\ \A q \in Runs \ {r} : pc'[q] = pc[q] /\ run'[q] = run[q]
    <3>1. ASSUME NEW p \in Publishers, Confirm(r, p) \/ ConfirmFails(r, p) PROVE Elsewhere(r)
      BY <3>1 DEF Confirm, ConfirmFails, Skip, Goto, Elsewhere, TypeOK
    <3>2. ASSUME ClearFlag(r) \/ LockPublisher(r) \/ ReadMatured(r) \/ TooLittle(r)
          PROVE  Elsewhere(r)
      BY <3>2 DEF ClearFlag, Release, LockPublisher, ReadMatured, TooLittle, Goto, HoldsLock,
                  Elsewhere, TypeOK
    <3>3. ASSUME ReserveFails(r) \/ SelectPending(r) \/ RecordFails(r) PROVE Elsewhere(r)
      BY <3>3 DEF ReserveFails, Release, SelectPending, RecordFails, Goto, HoldsLock,
                  Elsewhere, TypeOK
    <3>4. ASSUME End(r) \/ Start(r) \/ Crash(r) PROVE Elsewhere(r)
      BY <3>4 DEF End, Start, Crash, Goto, Elsewhere, TypeOK
    <3>5. ASSUME NEW i \in Payments, SendFails(r, i) PROVE Elsewhere(r)
      BY <3>5 DEF SendFails, Goto, Elsewhere, TypeOK
    <3>6. Elsewhere(r)
      BY <2>1, <3>1, <3>2, <3>3, <3>4, <3>5 DEF Step
    <3>. QED BY <3>6 DEF Elsewhere
  <2>2. CASE pc' = pc /\ run' = run
    BY <2>2
  <2>. QED BY <2>1, <2>2 DEF Next, vars, Tick, ChangeCapability, Refresh, Accrue
<1>. QED BY <1>1, <1>2, DebitFrame

\* However many runs overlap, crash and retry, each debit of escrow is a payout row, each
\* row whole cents above the threshold, and only rows that Stripe paid are in transit.
THEOREM DebitsMatchRows == Spec => []DebitsAreRows
<1>1. Init => DebitInv
  <2>. SUFFICES ASSUME Init PROVE DebitInv
    OBVIOUS
  <2>1. \A i \in Payments : payment[i] = None /\ transfers[i] = 0 /\ keyAt[i] = None
    BY DEF Init
  <2>2. /\ KeysHaveTransfers /\ TransfersHaveRows /\ RowsAreWholeCents /\ TransitIsTransferred
    BY <2>1 DEF KeysHaveTransfers, TransfersHaveRows, RowsAreWholeCents, TransitIsTransferred
  <2>3. SentIsTransferred
    BY DEF Init, SentIsTransferred
  <2>4. DebitsAreSums
    <3>1. \A p \in Publishers : RowsOf(p) = {} /\ debits[p] = 0
      BY <2>1 DEF RowsOf, Init
    <3>2. [i \in {} |-> payment[i].amount] \in [{} -> Nat]
      OBVIOUS
    <3>. QED BY <3>1, <3>2, SumOfNothing DEF DebitsAreSums
  <2>. QED BY <2>2, <2>3, <2>4 DEF DebitInv
<1>2. TypeOK /\ TypeOK' /\ DebitInv /\ [Next]_vars => DebitInv'
  BY ReserveKeepsDebits, SendKeepsDebits, RecordKeepsDebits, OthersKeepDebits
<1>3. DebitInv => DebitsAreRows
  BY DEF DebitInv, DebitsAreRows, TransfersHaveRows, RowsAreWholeCents, TransitIsTransferred,
         DebitsAreSums
<1>. QED BY <1>1, <1>2, <1>3, PayoutTypeCorrect, PTL DEF Spec
(***************************************************************************)
(* What Stripe paid, from one end of the book to the other: the transfers  *)
(* of a publisher are its rows, its rows its debits, and its debits escrow *)
(* that has cleared the hold.                                              *)
(***************************************************************************)
\* What Stripe moved for a row; a row that is overdue counts once.
Moved(i) == IF i \in overdue THEN payment[i].amount ELSE transfers[i] * payment[i].amount

PaidTo(p) == SumFunction([i \in RowsOf(p) |-> Moved(i)])

NeverPaysAhead == \A p \in Publishers : PaidTo(p) <= CreditsBefore(p, clock - Hold)

\* A sum of no greater values is no greater.
LEMMA SumIsMonotone ==
    ASSUME NEW S, IsFiniteSet(S), NEW f \in [S -> Nat], NEW g \in [S -> Nat],
           \A x \in S : g[x] <= f[x]
    PROVE  SumFunction(g) <= SumFunction(f)
<1>1. Units(g, S) \in SUBSET Units(f, S)
  <2>1. ASSUME NEW u \in Units(g, S) PROVE u \in Units(f, S)
    <3>1. u \in S \X Nat /\ u[1] \in S /\ u[2] \in Nat /\ u[2] < g[u[1]]
      BY DEF Units
    <3>2. g[u[1]] \in Nat /\ f[u[1]] \in Nat /\ g[u[1]] <= f[u[1]]
      BY <3>1
    <3>3. u[2] < f[u[1]]
      BY <3>1, <3>2
    <3>. QED BY <3>1, <3>3 DEF Units
  <2>. QED BY <2>1
<1>2. IsFiniteSet(Units(f, S))
  BY UnitsFinite
<1>3. Cardinality(Units(g, S)) <= Cardinality(Units(f, S))
  BY <1>1, <1>2, FS_Subset
<1>4. SumFunction(g) = Cardinality(Units(g, S))
  BY SumOfFunction
<1>5. SumFunction(f) = Cardinality(Units(f, S))
  BY SumOfFunction
<1>. QED BY <1>3, <1>4, <1>5

\* But for what it moves a second time for an overdue row, Stripe never pays a publisher
\* more than what has cleared the hold, in all the runs there ever were together
\* (payouts/run/route.ts:19-33).
THEOREM StripePaysOnlyMatured == Spec => []NeverPaysAhead
<1>1. TypeOK /\ TransferredOnce /\ DebitsAreRows /\ PaidOnlyMatured => NeverPaysAhead
  <2>. SUFFICES ASSUME TypeOK, TransferredOnce, DebitsAreRows, PaidOnlyMatured,
                       NEW p \in Publishers
                PROVE  PaidTo(p) <= CreditsBefore(p, clock - Hold)
    BY DEF NeverPaysAhead
  <2>. DEFINE rows == RowsOf(p)
              owed == [i \in rows |-> payment[i].amount]
              moved == [i \in rows |-> Moved(i)]
  <2>1. rows \in SUBSET Payments /\ IsFiniteSet(rows)
    BY PayoutAssumption, FS_Subset DEF RowsOf
  <2>2. ASSUME NEW i \in rows
        PROVE  /\ payment[i].amount \in Nat
               /\ Moved(i) \in Nat
               /\ Moved(i) <= payment[i].amount
    <3>1. i \in Payments /\ payment[i] # None
      BY DEF RowsOf
    <3>2. payment[i].amount \in Nat
      BY <3>1 DEF TypeOK, Payment
    <3>3. i \in overdue \/ transfers[i] = 0 \/ transfers[i] = 1
      BY <3>1 DEF TypeOK, TransferredOnce
    <3>. QED BY <3>2, <3>3 DEF Moved
  <2>3. owed \in [rows -> Nat] /\ moved \in [rows -> Nat] /\ \A i \in rows : moved[i] <= owed[i]
    BY <2>2
  <2>4. debits[p] = SumFunction(owed) /\ PaidTo(p) = SumFunction(moved)
    BY DEF DebitsAreRows, PaidTo
  <2>. HIDE DEF rows, owed, moved
  <2>5. /\ SumFunction(moved) <= SumFunction(owed)
        /\ SumFunction(moved) \in Nat /\ SumFunction(owed) \in Nat
    BY <2>1, <2>3, SumIsMonotone, SumOfFunction
  <2>6. debits[p] <= CreditsBefore(p, clock - Hold)
    BY DEF PaidOnlyMatured
  <2>7. CreditsBefore(p, clock - Hold) \in Nat
    <3>1. accrued[p] \in [Times -> Nat]
      BY DEF TypeOK
    <3>. QED BY <3>1 DEF CreditsBefore
  <2>8. debits[p] \in Nat
    BY DEF TypeOK
  <2>. QED BY <2>4, <2>5, <2>6, <2>7, <2>8
<1>. QED BY <1>1, PayoutTypeCorrect, OneTransfer, DebitsMatchRows, OnlyMaturedIsPaid, PTL

\* Once reserved, always reserved: the only thing that ever happens to a payout row is
\* that it is marked as sent, by whichever run comes to it, and no debit is taken back.
\* So a row whose transfer failed, or whose run died, is still there for a later run.
RowsStay ==
    [][/\ \A i \in Payments : payment[i] # None =>
            payment'[i] \in {payment[i], [payment[i] EXCEPT !.status = "in_transit"]}
       /\ \A p \in Publishers : debits'[p] >= debits[p]]_vars

THEOREM RowsAreForGood == Spec => RowsStay
<1>. DEFINE Kept == /\ \A i \in Payments : payment[i] # None =>
                         payment'[i] \in {payment[i], [payment[i] EXCEPT !.status = "in_transit"]}
                    /\ \A p \in Publishers : debits'[p] >= debits[p]
<1>1. TypeOK /\ [Next]_vars => Kept
  <2>. SUFFICES ASSUME TypeOK, [Next]_vars PROVE Kept
    OBVIOUS
  <2>t. /\ payment \in [Payments -> Payment \cup {None}] /\ debits \in [Publishers -> Nat]
    BY DEF TypeOK
  <2>1. CASE payment' = payment /\ debits' = debits
    BY <2>1, <2>t
  <2>2. ASSUME NEW r \in Runs, NEW i \in Payments, Reserve(r, i) PROVE Kept
    <3>. DEFINE p == run[r].publisher
                amount == WholeCents(run[r].matured)
    <3>1. run[r] \in Run /\ run[r].matured \in Nat
      BY <2>2 DEF Reserve, TypeOK, Run, HoldsLock
    <3>2. amount \in Nat
      BY <3>1, WholeCentsBounds
    <3>3. debits' = [debits EXCEPT ![p] = @ + amount]
      BY <2>2 DEF Reserve
    <3>4. payment[i] = None /\ \A j \in Payments \ {i} : payment'[j] = payment[j]
      BY <2>2, <2>t DEF Reserve
    <3>. HIDE DEF p, amount
    <3>5. \A q \in Publishers : debits'[q] >= debits[q]
      BY <2>t, <3>2, <3>3
    <3>. QED BY <3>4, <3>5
  <2>3. ASSUME NEW r \in Runs, Record(r) PROVE Kept
    <3>1. run[r] \in Run /\ run[r].payment \in Payments
      BY <2>3, NoneAssumption DEF Record, TypeOK, Run
    <3>2. debits' = debits /\ payment' = [payment EXCEPT ![run[r].payment].status = "in_transit"]
      BY <2>3 DEF Record
    <3>. QED BY <2>t, <3>1, <3>2
  <2>4. ASSUME \A r \in Runs : ~Record(r) /\ \A i \in Payments : ~Reserve(r, i)
        PROVE  payment' = payment /\ debits' = debits
    BY <2>4 DEF Next, Step, vars, books, Tick, Start, Crash, ChangeCapability, Refresh, Accrue,
         Confirm, ConfirmFails, ClearFlag, LockPublisher, ReadMatured, TooLittle, ReserveFails,
         SelectPending, Send, SendFails, RecordFails, End
  <2>. QED BY <2>1, <2>2, <2>3, <2>4
<1>2. TypeOK /\ [Next]_vars => [Kept]_vars
  BY <1>1
<1>. QED BY <1>2, PayoutTypeCorrect, PTL DEF Spec, RowsStay
===============================================================================
