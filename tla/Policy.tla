------------------------------- MODULE Policy -------------------------------
(***************************************************************************)
(* The deterministic half of the agent: diagnose/classifier.py maps a      *)
(* decline to a failure class, policy/engine.py turns the class into       *)
(* planned actions and bounds what a model proposes, policy/timing.py      *)
(* picks the days.                                                         *)
(*                                                                         *)
(* Amounts, notes, scores and reason codes are left out; the latter is     *)
(* the constant "AGENT" of an action that comes from here.  Every list of  *)
(* offsets in timing.py is ascending and free of duplicates, so it is the  *)
(* set of its elements, and actions[0] is the action of the first day.     *)
(***************************************************************************)
EXTENDS Gates, FiniteSets

CONSTANTS
  Taxonomy,   \* [class -> its row in policy/taxonomy.yaml]
  ByReason,   \* [decline reason -> class], fixtures/decline_codes.json
  ByCode      \* [decline code -> class]; a code mapped to null is left out

Categories == {"time_shiftable", "transient", "dead", "stop", "ambiguous"}

\* "other" is any name the code does not know.
Timings == {"salary_window", "short_backoff", "immediate_contact",
            "spaced_then_link", "none", "other"}

TaxonomyRow == [category : Categories, default_verb : Verbs,
                allow_contact : BOOLEAN, max_retries : Nat, timing : Timings]

Classes == DOMAIN Taxonomy

\* What taxonomy.yaml promises the code: the fallback class exists, a dead
\* instrument has a fix path of its own, and only a class that may be contacted
\* has a contact verb for its default.
ASSUME TaxonomyAssumption ==
  /\ "ambiguous" \in Classes
  /\ Classes \subseteq FailureClasses \ {"absent"}
  /\ \A c \in Classes :
       /\ Taxonomy[c] \in TaxonomyRow
       /\ Taxonomy[c].category = "dead" => Taxonomy[c].default_verb \in LinkVerbs
       /\ Taxonomy[c].category = "stop" => Taxonomy[c].default_verb = "escalate_human"
       /\ Taxonomy[c].default_verb \in LinkVerbs => Taxonomy[c].allow_contact

\* What its rows promise and no code checks: timing.py cuts neither the list of an
\* immediate contact nor that of a spaced plan to max_retries, and a salary window
\* is for silent retries, up to 4 of them.
ASSUME RetryBudgetAssumption ==
  \A c \in Classes : Taxonomy[c].default_verb = "schedule_retry" =>
    /\ Taxonomy[c].timing = "immediate_contact" => Taxonomy[c].max_retries >= 1
    /\ Taxonomy[c].timing = "spaced_then_link" =>
         Taxonomy[c].max_retries >= IF Taxonomy[c].allow_contact THEN 1 ELSE 2

ASSUME SalaryWindowAssumption ==
  \A c \in Classes : Taxonomy[c].timing = "salary_window" =>
    /\ Taxonomy[c].default_verb = "schedule_retry"
    /\ Taxonomy[c].max_retries >= 4

\* "Output is a class name that MUST exist in taxonomy.yaml."
ASSUME FixtureAssumption ==
  /\ \A reason \in DOMAIN ByReason : ByReason[reason] \in Classes
  /\ \A code \in DOMAIN ByCode : ByCode[code] \in Classes

-----------------------------------------------------------------------------
\* Classifier.classify: the reason decides, then the code; what neither table
\* knows is ambiguous.
Classify(reason, code) ==
  IF reason \in DOMAIN ByReason THEN ByReason[reason]
  ELSE IF code \in DOMAIN ByCode THEN ByCode[code]
  ELSE "ambiguous"

ClassConfig(class) ==
  IF class \in Classes THEN Taxonomy[class] ELSE Taxonomy["ambiguous"]

-----------------------------------------------------------------------------
(***************************************************************************)
(* Timing.  Days of the month are 1 .. 28.                                 *)
(***************************************************************************)
DaysOfMonth == 1 .. 28

\* No observed credit day (Python's None).
NoHint == 0

\* The n smallest elements: a list in ascending order, cut with [:n].
Earliest(days, n) ==
  {d \in days : Cardinality({e \in days : e < d}) < n}

\* Mutant: a failure on the target day itself is probed again at once.
DelaySameDay(dom, target) == (target - dom) % 28

\* Days from a failure to the next time the target day comes round.  The day of
\* the failure itself is not probed again, the day after is.
Delay(dom, target) ==
  LET delta == (target - dom) % 28 IN IF delta = 0 THEN 1 ELSE delta

SalaryWindowOffsets(dom, creditDay) ==
  LET delta == Delay(dom, creditDay)
  IN IF creditDay = NoHint
       THEN Earliest({Delay(dom, target) : target \in {1, 2, 3, 5, 7}}, 4)
       ELSE {delta, delta + 1, delta + 2}
            \cup (IF delta >= 4 THEN {delta \div 2} ELSE {})

OffsetsForTiming(timing, dom, creditDay, maxRetries) ==
  CASE timing = "salary_window"     -> Earliest(SalaryWindowOffsets(dom, creditDay),
                                                maxRetries)
    [] timing = "short_backoff"     -> Earliest({0, 1}, maxRetries)
    [] timing = "immediate_contact" -> {0}
    [] timing = "spaced_then_link"  -> {2, 4}
    [] timing = "none"              -> {}
    [] timing = "other"             -> Earliest({1}, maxRetries)

-----------------------------------------------------------------------------
(***************************************************************************)
(* The policy engine.                                                      *)
(***************************************************************************)
PolicyAction(verb, channel, dayOffset) ==
  [verb |-> verb, channel |-> channel, day_offset |-> dayOffset,
   reason_code |-> "AGENT"]

\* Mutant: the later step of a spaced plan is a second retry.
SpacedAction(cfg, day) == PolicyAction("schedule_retry", "none", day)

\* One planned day of a class whose verb is a retry: a spaced plan turns into a
\* link on its later day.
RetryOrLink(cfg, day) ==
  IF cfg.timing = "spaced_then_link" /\ day >= 4 /\ cfg.allow_contact
    THEN PolicyAction("send_payment_link", "link", day)
    ELSE PolicyAction("schedule_retry", "none", day)

\* PolicyEngine._actions_from_class_cfg
ActionsFromClassConfig(cfg, dom, creditDay) ==
  CASE cfg.default_verb = "escalate_human" \/ cfg.timing = "none" ->
         {PolicyAction("escalate_human", "none", 0)}
    [] cfg.default_verb \in LinkVerbs /\ cfg.timing # "none" ->
         {PolicyAction(cfg.default_verb,
                       IF cfg.allow_contact THEN "link" ELSE "none", 0)}
         \cup (IF cfg.allow_contact
                 THEN {PolicyAction("send_payment_link", "link", 3)} ELSE {})
    [] cfg.default_verb = "schedule_retry" /\ cfg.timing # "none" ->
         {RetryOrLink(cfg, day) :
            day \in OffsetsForTiming(cfg.timing, dom, creditDay, cfg.max_retries)}

\* PolicyEngine.decide, on a context [reason, code, failure_dom, credit_day].
RulesClass(ctx) == Classify(ctx.reason, ctx.code)

RulesPlan(ctx) ==
  ActionsFromClassConfig(ClassConfig(RulesClass(ctx)), ctx.failure_dom,
                         ctx.credit_day)

\* _fallback takes actions[0]; an empty plan means that a human takes over.
RulesAction(ctx) ==
  IF RulesPlan(ctx) = {}
    THEN PolicyAction("escalate_human", "none", 0)
    ELSE CHOOSE a \in RulesPlan(ctx) :
           \A b \in RulesPlan(ctx) : a.day_offset <= b.day_offset

\* Mutant: whatever is proposed for a dead instrument becomes the default.
ValidateDeadAlways(p, class) ==
  LET cfg == ClassConfig(class) IN
  CASE cfg.category = "stop" ->
         [p EXCEPT !.verb = "escalate_human", !.channel = "none"]
    [] cfg.category = "dead" ->
         [p EXCEPT !.verb = cfg.default_verb, !.channel = "link", !.day_offset = 0]
    [] ~cfg.allow_contact /\ p.verb \in LinkVerbs ->
         [p EXCEPT !.verb = IF cfg.max_retries > 0 THEN "schedule_retry"
                                                   ELSE "escalate_human",
                   !.channel = "none"]
    [] OTHER -> p

\* PolicyEngine.validate_proposal: first match wins, what no rule hits stays.
ValidateProposal(p, class) ==
  LET cfg == ClassConfig(class) IN
  IF cfg.category = "stop"
    THEN [p EXCEPT !.verb = "escalate_human", !.channel = "none"]
  ELSE IF cfg.category = "dead" /\ p.verb = "schedule_retry"
    THEN [p EXCEPT !.verb = cfg.default_verb,
                   !.channel = IF cfg.allow_contact THEN "link" ELSE "none",
                   !.day_offset = 0]
  ELSE IF ~cfg.allow_contact /\ p.verb \in LinkVerbs
    THEN [p EXCEPT !.verb = IF cfg.max_retries > 0 THEN "schedule_retry"
                                                   ELSE "escalate_human",
                   !.channel = "none"]
  ELSE p

-----------------------------------------------------------------------------
\* What the categories of taxonomy.yaml allow, read off its comments: "stop" does
\* not automate, "dead" means zero retries, and no contact where it is not allowed.
Legal(action, class) ==
  /\ ClassConfig(class).category = "stop" => action.verb = "escalate_human"
  /\ ClassConfig(class).category = "dead" => action.verb # "schedule_retry"
  /\ ~ClassConfig(class).allow_contact => action.verb \notin LinkVerbs
=============================================================================
