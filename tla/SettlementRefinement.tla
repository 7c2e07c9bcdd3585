------------------------- MODULE SettlementRefinement -------------------------
(***************************************************************************)
(* The concurrent redemption implements the atomic promise: the terms of a *)
(* token are what its payload signs, its outcome is the validation of its  *)
(* impressions row, and the ledger and the spend are the same.             *)
(***************************************************************************)
EXTENDS Settlement

TermsOf(t) ==
    IF token[t] = None THEN None
    ELSE [publisher |-> PubOf(t), ad |-> token[t].ad, charge |-> token[t].charge]

OutcomeOf(t) == IF row[t] = None THEN "none" ELSE row[t].validation

Billing == INSTANCE ImpressionBilling
    WITH terms <- [t \in Tokens |-> TermsOf(t)],
         outcome <- [t \in Tokens |-> OutcomeOf(t)]

ASSUME TermsAssumption == None \notin Billing!Terms

\* Whatever requests, crashes and retries do, they bill each token at most once, on
\* its own terms, within balance and budget (redeem/route.ts and db/ledger.ts).
ImplementsBilling == Billing!Spec
===============================================================================
