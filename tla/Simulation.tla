----------------------------- MODULE Simulation ------------------------------
(***************************************************************************)
(* The offline evaluation: a batch of cases with a hidden payer each       *)
(* (eval/batch.py, payer_model.py), the policies that are compared         *)
(* (baselines.py and the taxonomy), the play of a plan against the payer   *)
(* (simulate.py), the price of what was played (costing.py, metrics.py),   *)
(* the breakdowns (segments.py, benchmark.py) and the count of what the    *)
(* gates would refuse (gate_estimate.py).  Pure functions of the batch.    *)
(*                                                                         *)
(* Money is paise and a probability is a percentage, so that a die is a    *)
(* number of 0 .. 99.  With the shipped rates no amount of the batch needs *)
(* the code's rounding; the decay of an excess attempt is rounded down.    *)
(***************************************************************************)
EXTENDS Policy, Sequences, SequencesExt, FiniteSetsExt

CONSTANT Rates   \* config/costs.json, in paise, percent and per mille

Reasons == {"insufficient_funds", "issuer_transient", "gateway_timeout",
            "card_expired", "token_invalid", "mandate_revoked", "risk_fraud",
            "do_not_honour"}

DeadReasons == {"card_expired", "token_invalid", "mandate_revoked"}
TransientReasons == {"issuer_transient", "gateway_timeout"}

-----------------------------------------------------------------------------
(***************************************************************************)
(* A case.  Its random stream is seeded with the batch and the case's key, *)
(* so that the dice belong to the case and every policy meets the same.    *)
(***************************************************************************)

\* sample_hidden_truth, but for the day the salary comes.
Hidden(reason) ==
  CASE reason \in DeadReasons ->
         [instrument_valid |-> FALSE, natural |-> 2, response |-> 58, retry |-> 0]
    [] reason = "risk_fraud" ->
         [instrument_valid |-> TRUE, natural |-> 1, response |-> 5, retry |-> 5]
    [] reason = "insufficient_funds" ->
         [instrument_valid |-> TRUE, natural |-> 8, response |-> 22, retry |-> 92]
    [] reason \in TransientReasons ->
         [instrument_valid |-> TRUE, natural |-> 18, response |-> 12, retry |-> 86]
    [] reason = "do_not_honour" ->
         [instrument_valid |-> TRUE, natural |-> 10, response |-> 28, retry |-> 48]

CreditDays == 1 .. 7

\* generate_batch: the observed day is the true one, none, or any other draw.
GeneratedCases(reasons, amounts, doms, dice) ==
  [failure_reason : reasons, amount_paise : amounts, failure_dom : doms,
   true_credit_day : CreditDays, observed_credit_day : CreditDays \cup {NoHint},
   dice : dice]

RecoveryClass(reason) ==
  CASE reason \in {"insufficient_funds"} \cup TransientReasons -> "RETRY_FIXABLE"
    [] reason \in DeadReasons     -> "CUSTOMER_ACTION"
    [] reason = "do_not_honour"   -> "AMBIGUOUS"
    [] reason = "risk_fraud"      -> "PROHIBITED"

ClassOf(case) == RecoveryClass(case.failure_reason)

-----------------------------------------------------------------------------
(***************************************************************************)
(* Plans: the fixed ladders, and the taxonomy's.                           *)
(***************************************************************************)
Step(verb, day) == [verb |-> verb, day_offset |-> day]
Steps(verb, days) == [i \in DOMAIN days |-> Step(verb, days[i])]

IsRetry(step) == step.verb = "schedule_retry"
IsContact(step) == step.verb \in {"send_payment_link", "generic_nag"}

B2Ladder ==
  <<Step("schedule_retry", 0), Step("generic_nag", 1),
    Step("schedule_retry", 2), Step("schedule_retry", 5)>>

B3Ladder ==
  Steps("schedule_retry", <<0, 1, 2, 3, 5, 8, 13>>)
    \o Steps("generic_nag", <<0, 3, 7>>) \o Steps("send_payment_link", <<10>>)

\* Mutant: the mandate update is announced by a nag.
SimStepNag(a) ==
  Step(IF a.verb \in LinkVerbs THEN "generic_nag" ELSE a.verb, a.day_offset)

\* decision_to_planned_actions: what a human takes over is not played, and a
\* mandate update is played as a link.
SimStep(a) ==
  Step(IF a.verb \in LinkVerbs THEN "send_payment_link" ELSE a.verb, a.day_offset)

\* policy_ours_from_taxonomy; the days of one plan differ.
OursPlan(case) ==
  LET plan == RulesPlan([reason |-> case.failure_reason, code |-> "",
                         failure_dom |-> case.failure_dom,
                         credit_day |-> case.observed_credit_day])
  IN SetToSortSeq({SimStep(a) : a \in {b \in plan : b.verb # "escalate_human"}},
                  LAMBDA s, t : s.day_offset < t.day_offset)

Labels == {"b0", "b1", "b2", "b3", "ours"}

Plan(label, case) ==
  CASE label = "b0"   -> <<>>
    [] label = "b1"   -> <<Step("schedule_retry", 0)>>
    [] label = "b2"   -> B2Ladder
    [] label = "b3"   -> B3Ladder
    [] label = "ours" -> OursPlan(case)

\* sorted(plan, key=day_offset) keeps the order of the steps of one day.
ByDay(plan) ==
  LET Before(i, j) == \/ plan[i].day_offset < plan[j].day_offset
                      \/ plan[i].day_offset = plan[j].day_offset /\ i < j
      order == SortSeq([i \in DOMAIN plan |-> i], Before)
  IN [i \in DOMAIN plan |-> plan[order[i]]]

-----------------------------------------------------------------------------
(***************************************************************************)
(* The play.                                                               *)
(***************************************************************************)

\* Money is there on the credit day and the two days after it; a glitch of the
\* rail and a fraud flag have nothing to do with money.
FundsAvailable(case, dom) ==
  \/ case.failure_reason \in TransientReasons \cup {"risk_fraud"}
  \/ /\ Hidden(case.failure_reason).instrument_valid
     /\ \E late \in 0 .. 2 : (dom - 1) % 28 = (case.true_credit_day - 1 + late) % 28

\* A retry that cannot succeed does not roll a die.
CanRetry(case, step) ==
  /\ ClassOf(case) # "CUSTOMER_ACTION"
  /\ Hidden(case.failure_reason).instrument_valid
  /\ FundsAvailable(case, case.failure_dom + step.day_offset)

\* Each earlier contact multiplies the chance of a response by 0.55.
Responds(case, contacts, die) ==
  die * 20^contacts < Hidden(case.failure_reason).response * 11^contacts

\* played is what the model keeps to compare the price list with.
Untouched == [recovered |-> FALSE, natural |-> FALSE, contacts |-> 0, retries |-> 0,
              wasted_attempts |-> 0, rolls |-> 0, played |-> <<>>]

\* One step of the plan; after a recovery the rest is skipped.
Play(case, before, step) ==
  LET die == case.dice[before.rolls + 1]
      s == [before EXCEPT !.played = Append(@, step)]
  IN IF before.recovered THEN before
     ELSE IF IsRetry(step)
     THEN [s EXCEPT !.retries = @ + 1,
                    !.wasted_attempts =
                      IF ClassOf(case) = "CUSTOMER_ACTION" THEN @ + 1 ELSE @,
                    !.rolls = IF CanRetry(case, step) THEN @ + 1 ELSE @,
                    !.recovered = CanRetry(case, step)
                                    /\ die < Hidden(case.failure_reason).retry]
     ELSE IF IsContact(step)
     THEN [s EXCEPT !.contacts = @ + 1,
                    !.rolls = @ + 1,
                    !.recovered = Responds(case, before.contacts, die)]
     ELSE before

\* run_case: the natural recovery is rolled for an empty plan only.
RunCase(case, plan) ==
  IF plan = <<>>
    THEN LET cleared == case.dice[1] < Hidden(case.failure_reason).natural
         IN [Untouched EXCEPT !.recovered = cleared, !.natural = cleared]
    ELSE FoldLeft(LAMBDA s, step : Play(case, s, step), Untouched, ByDay(plan))

RecoveredPaise(case, outcome) == IF outcome.recovered THEN case.amount_paise ELSE 0

-----------------------------------------------------------------------------
(***************************************************************************)
(* The price.                                                              *)
(***************************************************************************)

\* Mutant: the steps in the order of the plan, not of the days.
ExecutedUnsorted(plan, outcome) ==
  FoldLeft(LAMBDA got, step :
             IF \/ IsRetry(step) /\ Len(SelectSeq(got, IsRetry)) < outcome.retries
                \/ IsContact(step) /\ Len(SelectSeq(got, IsContact)) < outcome.contacts
             THEN Append(got, step) ELSE got,
           <<>>, plan)

\* _executed_actions: the first steps of each sort, as many as were counted.
ExecutedActions(plan, outcome) ==
  FoldLeft(LAMBDA got, step :
             IF \/ IsRetry(step) /\ Len(SelectSeq(got, IsRetry)) < outcome.retries
                \/ IsContact(step) /\ Len(SelectSeq(got, IsContact)) < outcome.contacts
             THEN Append(got, step) ELSE got,
           <<>>, ByDay(plan))

Counting(steps, Test(_)) == Len(SelectSeq(steps, Test))

\* Mutant: the rates are swapped.
ContactUnitCostSwapped(step, rates) ==
  IF step.verb = "generic_nag" THEN rates.whatsapp_utility ELSE rates.sms_dlt

ContactUnitCost(step, rates) ==
  IF step.verb = "generic_nag" THEN rates.sms_dlt ELSE rates.whatsapp_utility

IsInappropriateContact(case, step) ==
  /\ IsContact(step)
  /\ \/ ClassOf(case) = "PROHIBITED"
     \/ ClassOf(case) = "CUSTOMER_ACTION" /\ step.verb = "generic_nag"

Excess(n, bound) == IF n > bound THEN n - bound ELSE 0

\* What refusing to automate a prohibited case gives up, against B2's retries.
ForgoneRecovery(case, outcome, label) ==
  IF label = "ours" /\ ClassOf(case) = "PROHIBITED" /\ ~outcome.recovered
  THEN (case.amount_paise * Hidden(case.failure_reason).retry
          * Excess(Counting(B2Ladder, IsRetry), outcome.retries)) \div 100
  ELSE 0

CaseCosts(case, outcome, label, rates) ==
  LET executed == ExecutedActions(Plan(label, case), outcome)
      contacts == SelectSeq(executed, IsContact)
      excess == Excess(Counting(executed, IsRetry), rates.max_attempts)
      wrong == Counting(executed, LAMBDA s : IsInappropriateContact(case, s))
  IN [attempt |-> Counting(executed, IsRetry) * rates.psp_fee
                    + excess * rates.excess_retry_penalty
                    + FoldLeft(LAMBDA sum, s : sum + ContactUnitCost(s, rates),
                               0, contacts),
      mdr |-> (RecoveredPaise(case, outcome) * rates.mdr_pct) \div 100,
      risk |-> excess * ((case.amount_paise * rates.decay_per_mille) \div 1000)
                 + IF ClassOf(case) # "PROHIBITED" THEN 0
                   ELSE wrong * (rates.support_ticket
                          + (rates.churn_pct * rates.chargeback_fee) \div 100),
      customer |-> wrong * ((rates.churn_pct * rates.ltv) \div 100),
      breach |-> outcome.retries > rates.max_attempts,
      forgone |-> ForgoneRecovery(case, outcome, label)]

-----------------------------------------------------------------------------
(***************************************************************************)
(* The metrics of a group of cases: indices of a batch, a sequence.        *)
(***************************************************************************)
Outcomes(batch, label) ==
  [i \in DOMAIN batch |-> RunCase(batch[i], Plan(label, batch[i]))]

\* The four parts of a case's cost, as compute_batch_costs adds them up.
CaseCost(costs) ==
  MapThenSumSet(LAMBDA part : costs[part], {"attempt", "mdr", "risk", "customer"})

\* compute_metrics with compute_batch_costs.
Metrics(batch, group, label, rates) ==
  LET outcome == Outcomes(batch, label)
      costs == [i \in group |-> CaseCosts(batch[i], outcome[i], label, rates)]
      Total(Amount(_)) == MapThenSumSet(Amount, group)
      Number(Test(_)) == Cardinality({i \in group : Test(i)})
      gross == Total(LAMBDA i : RecoveredPaise(batch[i], outcome[i]))
      cost == Total(LAMBDA i : CaseCost(costs[i]))
  IN [n |-> Cardinality(group),
      at_risk |-> Total(LAMBDA i : batch[i].amount_paise),
      gross_recovered |-> gross,
      total_cost |-> cost,
      net_recovered |-> gross - cost,
      contacts |-> Total(LAMBDA i : outcome[i].contacts),
      retries |-> Total(LAMBDA i : outcome[i].retries),
      wasted_attempts |-> Total(LAMBDA i : outcome[i].wasted_attempts),
      recoveries |-> Number(LAMBDA i : outcome[i].recovered),
      natural_recoveries |-> Number(LAMBDA i : outcome[i].natural),
      scheme_cap_breaches |-> Number(LAMBDA i : costs[i].breach),
      forgone_recovery |-> Total(LAMBDA i : costs[i].forgone)]

BatchMetrics(batch, label, rates) == Metrics(batch, DOMAIN batch, label, rates)

\* The net alone, case by case: all that a search reads of a batch's metrics.
NetRecovered(batch, label, rates) ==
  LET outcome == Outcomes(batch, label)
      NetOf(i) == RecoveredPaise(batch[i], outcome[i])
                    - CaseCost(CaseCosts(batch[i], outcome[i], label, rates))
  IN MapThenSumSet(NetOf, DOMAIN batch)

\* Mutant: no row for the cases nothing is done about.
ClassOrderActive == <<"RETRY_FIXABLE", "CUSTOMER_ACTION", "AMBIGUOUS">>

ClassOrder == <<"RETRY_FIXABLE", "CUSTOMER_ACTION", "AMBIGUOUS", "PROHIBITED">>

\* compute_segment_compare: one row for each class that has a case.
Segments(batch, rates) ==
  LET Group(class) == {i \in DOMAIN batch : ClassOf(batch[i]) = class}
      present == SelectSeq(ClassOrder, LAMBDA class : Group(class) # {})
      Row(class) ==
        LET ours == Metrics(batch, Group(class), "ours", rates)
            b2 == Metrics(batch, Group(class), "b2", rates)
        IN [class |-> class, ours |-> ours, b2 |-> b2,
            delta_net |-> ours.net_recovered - b2.net_recovered,
            delta_gross |-> ours.gross_recovered - b2.gross_recovered,
            b2_zero_recovery_with_spend |->
              b2.retries + b2.contacts > 0 /\ b2.recoveries = 0]
  IN [k \in DOMAIN present |-> Row(present[k])]

\* scenario_breakdown, a row for each reason that occurs.
Scenarios(batch) ==
  LET Group(reason) == {i \in DOMAIN batch : batch[i].failure_reason = reason}
      Row(reason, label) ==
        LET outcome == Outcomes(batch, label)
        IN [recovered |-> MapThenSumSet(
                            LAMBDA i : RecoveredPaise(batch[i], outcome[i]),
                            Group(reason)),
            recoveries |-> Cardinality({i \in Group(reason) : outcome[i].recovered})]
  IN [reason \in {batch[i].failure_reason : i \in DOMAIN batch} |->
        [n_cases |-> Cardinality(Group(reason)),
         at_risk |-> MapThenSumSet(LAMBDA i : batch[i].amount_paise, Group(reason)),
         ours |-> Row(reason, "ours"), b2 |-> Row(reason, "b2")]]

Winner(delta) == IF delta = 0 THEN "tie" ELSE IF delta > 0 THEN "ours" ELSE "b2"

\* compare_seed: both policies on the same cases; the net decides.
CompareSeed(batch, rates) ==
  LET ours == BatchMetrics(batch, "ours", rates)
      b2 == BatchMetrics(batch, "b2", rates)
      delta == ours.net_recovered - b2.net_recovered
  IN [n |-> Len(batch), ours |-> ours, b2 |-> b2,
      delta_recovered |-> ours.gross_recovered - b2.gross_recovered,
      delta_net_recovered |-> delta,
      winner |-> Winner(delta)]

\* run_multi_seed: the totals over the seeds, who won how often, the worst and
\* the best seed (the first of equals), and one breakdown of all the cases.
RunMultiSeed(batches, rates) ==
  LET pair == [k \in DOMAIN batches |-> CompareSeed(batches[k], rates)]
      Total(Amount(_)) == MapThenSumSet(Amount, DOMAIN batches)
      Won(label) == Cardinality({k \in DOMAIN batches : pair[k].winner = label})
      First(Beats(_, _)) ==
        CHOOSE k \in DOMAIN batches : \A j \in DOMAIN batches :
          Beats(pair[k].delta_net_recovered, pair[j].delta_net_recovered)
            \/ (k <= j /\ pair[k].delta_net_recovered = pair[j].delta_net_recovered)
  IN [total_cases |-> Total(LAMBDA k : pair[k].n),
      ours_total_recovered |-> Total(LAMBDA k : pair[k].ours.gross_recovered),
      b2_total_recovered |-> Total(LAMBDA k : pair[k].b2.gross_recovered),
      ours_total_recoveries |-> Total(LAMBDA k : pair[k].ours.recoveries),
      b2_total_recoveries |-> Total(LAMBDA k : pair[k].b2.recoveries),
      total_at_risk |-> Total(LAMBDA k : pair[k].ours.at_risk),
      seeds_won |-> [label \in {"ours", "b2", "tie"} |-> Won(label)],
      worst_seed |-> First(LAMBDA x, y : x < y),
      best_seed |-> First(LAMBDA x, y : x > y),
      scenarios_pooled |-> Scenarios(FlattenSeq(batches))]

-----------------------------------------------------------------------------
(***************************************************************************)
(* What the gates would refuse of a plan, at 11:30 in India.               *)
(***************************************************************************)
PlannedAction(step) ==
  PolicyAction(IF IsContact(step) THEN "send_payment_link" ELSE step.verb,
               IF IsContact(step) THEN "link" ELSE "none", step.day_offset)

\* Mutant: a link does not count against the attempts.
AfterPassedApart(s, step) ==
  IF IsContact(step) THEN [s EXCEPT !.contacts = @ + 1] ELSE [s EXCEPT !.attempts = @ + 1]

\* A link counts against both caps.
AfterPassed(s, step) ==
  [s EXCEPT !.attempts = @ + 1, !.contacts = IF IsContact(step) THEN @ + 1 ELSE @]

\* The caps are those of a case, and only an action that passes counts.
CountGateBlocks(case, plan) ==
  LET Context(s, step) ==
        [case_id |-> "sim", action |-> PlannedAction(step), now |-> 6 * 60,
         failure_class |-> case.failure_reason,
         contacts_used |-> s.contacts, attempts_used |-> s.attempts,
         max_contacts |-> 2, max_attempts |-> 3,
         mandate_state |-> IF case.failure_reason = "mandate_revoked"
                           THEN "revoked" ELSE "active",
         executed_fingerprints |-> {}]
      Walk(s, step) ==
        IF AllPassed(RunGates(Context(s, step))) THEN AfterPassed(s, step)
        ELSE [s EXCEPT !.blocks = @ + 1]
  IN FoldLeft(Walk, [contacts |-> 0, attempts |-> 0, blocks |-> 0], ByDay(plan)).blocks

\* run_eval's record: the comparisons are there when both rivals were asked for.
RunEval(batch, labels, rates) ==
  LET both == {"b2", "ours"} \subseteq labels
  IN [metrics |-> [label \in labels |-> BatchMetrics(batch, label, rates)],
      gate_blocks |-> [label \in labels |->
                         MapThenSumSet(LAMBDA i :
                             CountGateBlocks(batch[i], Plan(label, batch[i])),
                           DOMAIN batch)],
      deltas |-> IF both
                   THEN {[gross |-> CompareSeed(batch, rates).delta_recovered,
                          net |-> CompareSeed(batch, rates).delta_net_recovered]}
                   ELSE {},
      segments |-> IF both THEN Segments(batch, rates) ELSE <<>>]
=============================================================================
