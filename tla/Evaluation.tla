----------------------------- MODULE Evaluation ------------------------------
(***************************************************************************)
(* The server's evaluations (EvalRuns) with the simulation behind their    *)
(* numbers (Simulation): what a request computes from its batch and how    *)
(* the numbers it reports belong together.                                 *)
(*                                                                         *)
(* The simulation is a pure function of a batch and the rates: which       *)
(* reasons and batches it gets right is a constant, and each step that     *)
(* tells a client of a run must be about one of those.                     *)
(***************************************************************************)
EXTENDS EvalRuns, Simulation

CONSTANTS
  SomeCases(_),  \* the cases of a reason that are played
  SomeBatches,   \* the batches that are evaluated
  BatchOf,       \* the batch of each run
  SmsPrices      \* the prices of a text message that are compared

RatesAt(price) == [Rates EXCEPT !.sms_dlt = price]

\* The runs a step tells a client of.
Told == answered' \ answered
ReasonsOf(run) == {BatchOf[run][i].failure_reason : i \in DOMAIN BatchOf[run]}

\* What is priced is what was played: costing.py knows the counts of the retries
\* and contacts only and finds the steps again by taking the first of each sort,
\* in an order of its own (costing.py:47).
WellPriced ==
  {reason \in Reasons : \A case \in SomeCases(reason) : \A label \in Labels :
     LET outcome == RunCase(case, Plan(label, case))
     IN ExecutedActions(Plan(label, case), outcome) = outcome.played}

PricedIsPlayed == [][\A run \in Told : ReasonsOf(run) \subseteq WellPriced]_vars

\* Whatever the payer does, the taxonomy's plan wastes no retry on an instrument
\* that cannot pay, sends nobody a message of the wrong kind, and stays within the
\* scheme's attempts: taxonomy.yaml and the classes of recovery_class.py, which the
\* simulator judges by, were written apart and agree (recovery_class.py:25).
Spared ==
  {reason \in Reasons : \A case \in SomeCases(reason) :
     LET outcome == RunCase(case, Plan("ours", case))
         costs == CaseCosts(case, outcome, "ours", Rates)
     IN /\ outcome.wasted_attempts = 0
        /\ costs.customer = 0 /\ costs.risk = 0
        /\ ~costs.breach}

OursSparesThePayer == [][\A run \in Told : ReasonsOf(run) \subseteq Spared]_vars

\* The gates refuse the taxonomy's plan no more often than the fixed ladder's,
\* case by case, so that the compliance column favours ours (gate_estimate.py:40).
SeldomRefused ==
  {reason \in Reasons : \A case \in SomeCases(reason) :
     CountGateBlocks(case, Plan("ours", case)) <= CountGateBlocks(case, B2Ladder)}

OursRefusedNoMoreOften == [][\A run \in Told : ReasonsOf(run) \subseteq SeldomRefused]_vars

\* Every amount of the two breakdowns adds up to that of the batch, its cases' nets
\* to its net, and the seeds won to the seeds played: no case is in no row, or in two
\* (segments.py:16).
BrokenDown ==
  {batch \in SomeBatches :
     LET record == RunEval(batch, {"b2", "ours"}, Rates)
         segments == record.segments
         scenarios == Scenarios(batch)
         SumOf(Amount(_)) == MapThenSumSet(LAMBDA k : Amount(segments[k]),
                                           DOMAIN segments)
         Scenario(Amount(_)) == MapThenSumSet(LAMBDA r : Amount(scenarios[r]),
                                              DOMAIN scenarios)
         ours == record.metrics["ours"]
         b2 == record.metrics["b2"]
         seeds == RunMultiSeed(<<batch, batch>>, Rates)
     IN /\ SumOf(LAMBDA row : row.ours.n) = Len(batch)
        /\ record.deltas = {[gross |-> SumOf(LAMBDA row : row.delta_gross),
                             net |-> SumOf(LAMBDA row : row.delta_net)]}
        /\ \A label \in Policies :
             NetRecovered(batch, label, Rates) = record.metrics[label].net_recovered
        /\ SumOf(LAMBDA row : row.ours.total_cost) = ours.total_cost
        /\ SumOf(LAMBDA row : row.ours.forgone_recovery) = ours.forgone_recovery
        /\ Scenario(LAMBDA row : row.n_cases) = Len(batch)
        /\ Scenario(LAMBDA row : row.b2.recovered) = b2.gross_recovered
        /\ Scenario(LAMBDA row : row.ours.recoveries) = ours.recoveries
        /\ FoldFunction(+, 0, seeds.seeds_won) = 2
        /\ seeds.total_at_risk = 2 * ours.at_risk}

BreakdownsAddUp == [][\A run \in Told : BatchOf[run] \in BrokenDown]_vars

\* "B2 fires generic_nag (SMS) on every failure; ours contacts less, so higher SMS
\* cost widens our net advantage": the lead never shrinks as the price rises, and
\* a bisection on the price has one crossing to find (break_even.py:63).
Monotonic ==
  {batch \in SomeBatches : \A dear, cheap \in SmsPrices :
     dear >= cheap =>
       CompareSeed(batch, RatesAt(dear)).delta_net_recovered
         >= CompareSeed(batch, RatesAt(cheap)).delta_net_recovered}

DearerMessagesFavourOurs == [][\A run \in Told : BatchOf[run] \in Monotonic]_vars
=============================================================================
