----------------------------- MODULE MCEvaluation -----------------------------
\* Constants of the evaluation's run: the configuration as shipped, the cases whose
\* simulation is judged, and the batch whose worth the server's requests report.
EXTENDS Evaluation, Shipped

CONSTANTS r1, r2, old

-----------------------------------------------------------------------------
\* Dice that always fail, always succeed, and that turn in between: a policy that
\* tries longer, or contacts first, gets on differently with each.
Always(die) == [k \in 1 .. 12 |-> die]
From(k, die) == [j \in 1 .. 12 |-> IF j < k THEN 99 ELSE die]
SomeDice == {Always(99), Always(0), From(2, 10), From(3, 0), From(2, 40)}

\* Every credit day and hint, on a few days of the month.
CasesOf(reason) == GeneratedCases({reason}, {49900}, {1, 4, 15, 28}, SomeDice)

CaseOf(reason, amount, dom, credit, hint, dice) ==
  [failure_reason |-> reason, amount_paise |-> amount, failure_dom |-> dom,
   true_credit_day |-> credit, observed_credit_day |-> hint, dice |-> dice]

\* A batch B2 wins on what it recovers: its nag is answered once and costs nothing
\* at the low end of the search, and at the high end its nags cost more.
NagBatch ==
  <<CaseOf("insufficient_funds", 19900, 15, 3, NoHint, From(1, 10)),
    CaseOf("issuer_transient", 49900, 4, 1, NoHint, Always(99)),
    CaseOf("do_not_honour", 19900, 15, 5, 5, From(2, 40)),
    CaseOf("insufficient_funds", 49900, 28, 1, 7, Always(99)),
    CaseOf("gateway_timeout", 19900, 12, 6, NoHint, From(3, 10))>>

\* A batch that B2 wins by so little that the search meets the tolerance at once.
CloseBatch ==
  <<CaseOf("insufficient_funds", 99900, 15, 3, 3, Always(50)),
    CaseOf("insufficient_funds", 19900, 15, 3, 3, Always(50)),
    CaseOf("insufficient_funds", 19900, 15, 2, 2, Always(50)),
    CaseOf("insufficient_funds", 149900, 15, 5, 1, Always(10))>>

\* A batch with every reason, and so with all four classes.
MixedBatch ==
  <<CaseOf("card_expired", 99900, 9, 2, NoHint, From(2, 10)),
    CaseOf("risk_fraud", 299900, 20, 4, 4, Always(99)),
    CaseOf("do_not_honour", 149900, 15, 5, 5, Always(40)),
    CaseOf("mandate_revoked", 49900, 28, 1, NoHint, Always(0)),
    CaseOf("token_invalid", 49900, 9, 2, 6, Always(99)),
    CaseOf("issuer_transient", 19900, 3, 6, 6, From(2, 10)),
    CaseOf("gateway_timeout", 49900, 21, 7, NoHint, From(3, 0)),
    CaseOf("insufficient_funds", 19900, 1, 7, 7, Always(0))>>

Batches == {NagBatch, CloseBatch, MixedBatch}
BatchOfRun == (old :> NagBatch) @@ (r1 :> CloseBatch) @@ (r2 :> MixedBatch)

-----------------------------------------------------------------------------
MidValues == {625 * k : k \in 0 .. 8}

\* The search turns the price in steps of ten paise, up to fifty rupees: what each
\* run's batch is worth under a policy at a price is what the simulation finds.
Values == 0 .. 500
Worth == [run \in {old, r1, r2} |-> [policy \in Policies |-> [value \in Values |->
            NetRecovered(BatchOfRun[run], policy, RatesAt(10 * value))]]]
NetAt(run, policy, value) == Worth[run][policy][value]

PanelOverrides ==
  {NoOverrides, [k \in {"sms_dlt"} |-> 300], [k \in {"ltv"} |-> 300]}
=============================================================================
