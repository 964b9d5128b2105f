---------------------------- MODULE AgentProofs -----------------------------
(***************************************************************************)
(* The agent keeps its promise to the rest of the system, and the rules it *)
(* falls back on plan nothing illegal, for every taxonomy that the         *)
(* assumptions of Policy describe, every table of reasons and codes, every *)
(* case and everything a model may answer.                                 *)
(***************************************************************************)
EXTENDS Agent, FiniteSetTheorems, TLAPS

\* The validator makes every proposal legal for every class, also for a class the
\* taxonomy does not know (policy/engine.py, validate_proposal).
LEMMA ValidatorIsSound ==
  ASSUME NEW p \in Proposals, NEW c
  PROVE  Legal(ValidateProposal(p, c), c)
<1> DEFINE cfg == ClassConfig(c)
<1>1. /\ cfg \in TaxonomyRow
      /\ cfg.category = "dead" => cfg.default_verb \in LinkVerbs
      /\ cfg.default_verb \in LinkVerbs => cfg.allow_contact
  BY TaxonomyAssumption DEF ClassConfig
<1>2. p.verb \in Verbs /\ p = [verb |-> p.verb, channel |-> p.channel,
                              day_offset |-> p.day_offset,
                              reason_code |-> p.reason_code]
  BY DEF Proposals
<1>3. cfg.allow_contact \in BOOLEAN
  BY <1>1 DEF TaxonomyRow
<1>4. CASE cfg.category = "stop"
  <2>1. ValidateProposal(p, c).verb = "escalate_human"
    BY <1>2, <1>4 DEF ValidateProposal
  <2> QED BY <2>1, <1>4 DEF Legal, LinkVerbs
<1>5. CASE cfg.category # "stop" /\ cfg.category = "dead" /\ p.verb = "schedule_retry"
  <2>1. ValidateProposal(p, c).verb = cfg.default_verb
    BY <1>2, <1>5 DEF ValidateProposal
  <2> QED BY <2>1, <1>1, <1>5 DEF Legal, LinkVerbs
<1>6. CASE /\ cfg.category # "stop"
           /\ ~(cfg.category = "dead" /\ p.verb = "schedule_retry")
           /\ ~cfg.allow_contact /\ p.verb \in LinkVerbs
  <2>1. ValidateProposal(p, c).verb \in {"schedule_retry", "escalate_human"}
    BY <1>2, <1>6 DEF ValidateProposal
  <2> QED BY <2>1, <1>1, <1>6 DEF Legal, LinkVerbs
<1>7. CASE /\ cfg.category # "stop"
           /\ ~(cfg.category = "dead" /\ p.verb = "schedule_retry")
           /\ ~(~cfg.allow_contact /\ p.verb \in LinkVerbs)
  <2>1. ValidateProposal(p, c) = p
    BY <1>7 DEF ValidateProposal
  <2> QED BY <2>1, <1>7 DEF Legal
<1> QED BY <1>4, <1>5, <1>6, <1>7

-----------------------------------------------------------------------------
\* What a conversation has settled when the next one begins: nothing before the
\* proposal, a legal contact before the message, a kept promise at the end.
Settled ==
  /\ ctx \in Contexts
  /\ stage \in Conversations \cup {"start", "done"}
  /\ stage \in {"start", "diagnose", "propose"} => message = "none"
  /\ stage = "message" =>
       /\ source = "llm"
       /\ Legal(action, class)
       /\ action.verb \in LinkVerbs
  /\ stage = "done" => Promise!KeepsPromise(ctx, Result)

LEMMA InitSettled == Init => Settled
BY DEF Init, Settled, Conversations

\* The rules' decision keeps the promise.
LEMMA FallbackKeepsPromise ==
  ASSUME NEW why, NEW c, Fallback(why, c)
  PROVE  stage' = "done" /\ Promise!KeepsPromise(ctx, Result)'
BY DEF Fallback, Result, Promise!KeepsPromise, Promise!AgentSources,
         Promise!LinkVerbs, LinkVerbs

LEMMA NextSettled == Settled /\ [Next]_vars => Settled'
<1> SUFFICES ASSUME Settled, [Next]_vars PROVE Settled'
  OBVIOUS
<1>1. CASE HealthCheck
  <2>1. CASE Fallback("ollama_unavailable", RulesClass(ctx))
    BY <2>1, FallbackKeepsPromise DEF Settled, Fallback
  <2>2. CASE /\ stage' = "diagnose"
             /\ UNCHANGED <<ctx, class, proposal, action, source, reason, message>>
    BY <1>1, <2>2 DEF HealthCheck, Settled, Conversations
  <2> QED BY <1>1, <2>1, <2>2 DEF HealthCheck
<1>2. ASSUME GiveUp PROVE Settled'
  <2>1. CASE stage = "diagnose" /\ Fallback("diagnose_failed", RulesClass(ctx))
    BY <2>1, FallbackKeepsPromise DEF Settled, Fallback
  <2>2. CASE stage = "propose" /\ Fallback("propose_failed", class)
    BY <2>2, FallbackKeepsPromise DEF Settled, Fallback
  <2>3. CASE /\ stage = "message"
             /\ stage' = "done"
             /\ message' = "canned_fallback"
             /\ UNCHANGED <<ctx, class, proposal, action, source, reason>>
    <3>1. Result' = [class |-> class, action |-> action, source |-> source,
                     message |-> "canned_fallback"]
      BY <2>3 DEF Result
    <3>2. /\ source = "llm"
          /\ Legal(action, class)
          /\ action.verb \in LinkVerbs
      BY <2>3 DEF Settled
    <3>3. Promise!KeepsPromise(ctx, Result)'
      BY <2>3, <3>1, <3>2 DEF Promise!KeepsPromise, Promise!AgentSources,
         Promise!LinkVerbs, LinkVerbs
    <3> QED BY <2>3, <3>3 DEF Settled
  <2> QED BY <1>2, <2>1, <2>2, <2>3 DEF GiveUp
<1>3. CASE CallErrs
  <2>1. CASE UNCHANGED <<ctx, stage, class, proposal, action, source, reason, message>>
    BY <2>1 DEF Settled, Result
  <2> QED BY <1>2, <1>3, <2>1 DEF CallErrs
<1>4. CASE CallRejected
  BY <1>2, <1>4 DEF CallRejected
<1>5. ASSUME NEW said, AnswerDiagnosis(said) PROVE Settled'
  BY <1>5 DEF AnswerDiagnosis, Settled, Conversations
<1>6. ASSUME NEW p \in Proposals, AnswerProposal(p) PROVE Settled'
  <2>1. Legal(action', class)
    BY <1>6, ValidatorIsSound DEF AnswerProposal
  <2>2. CASE action'.verb \in LinkVerbs
    <3>1. stage' = "message" /\ source' = "llm" /\ ctx' = ctx /\ class' = class
      BY <1>6, <2>2 DEF AnswerProposal
    <3> QED BY <2>1, <2>2, <3>1 DEF Settled, Conversations
  <2>3. CASE action'.verb \notin LinkVerbs
    <3>1. /\ stage = "propose"
          /\ stage' = "done"
          /\ source' = "llm"
          /\ message' = message
          /\ ctx' = ctx
          /\ class' = class
      BY <1>6, <2>3 DEF AnswerProposal
    <3>2. message = "none"
      BY <3>1 DEF Settled
    <3>3. Result' = [class |-> class, action |-> action', source |-> "llm",
                     message |-> "none"]
      BY <3>1, <3>2 DEF Result
    <3>4. Promise!KeepsPromise(ctx, Result)'
      BY <2>1, <2>3, <3>1, <3>3 DEF Promise!KeepsPromise, Promise!AgentSources,
         Promise!LinkVerbs, LinkVerbs
    <3> QED BY <3>1, <3>4 DEF Settled
  <2> QED BY <2>2, <2>3
<1>7. CASE AnswerMessage
  <2>1. /\ stage = "message"
        /\ stage' = "done"
        /\ message' = "llm"
        /\ UNCHANGED <<ctx, class, action, source>>
    BY <1>7 DEF AnswerMessage
  <2>2. Result' = [class |-> class, action |-> action, source |-> source,
                   message |-> "llm"]
    BY <2>1 DEF Result
  <2>3. /\ source = "llm"
        /\ Legal(action, class)
        /\ action.verb \in LinkVerbs
    BY <2>1 DEF Settled
  <2>4. Promise!KeepsPromise(ctx, Result)'
    BY <2>1, <2>2, <2>3 DEF Promise!KeepsPromise, Promise!AgentSources,
         Promise!LinkVerbs, LinkVerbs
  <2> QED BY <2>1, <2>4 DEF Settled
<1>8. CASE UNCHANGED vars
  BY <1>8 DEF vars, Settled, Result
<1> QED BY <1>1, <1>3, <1>4, <1>5, <1>6, <1>7, <1>8 DEF Next

\* Once the agent has answered it does nothing any more.
LEMMA DoneIsFinal ==
  ASSUME Settled, stage = "done", [Next]_vars
  PROVE  UNCHANGED vars
BY DEF Next, vars, HealthCheck, CallErrs, CallRejected, AnswerDiagnosis,
       AnswerProposal, AnswerMessage, Conversations

\* run() in ai/agent.py implements Deliberation: one result, legal for the class it
\* names if a model decided and the taxonomy's own action if not, with a message
\* exactly for a contact and never the rules' words under the model's name.
THEOREM DeliberationImplemented == Spec => ImplementsDeliberation
<1>1. Init => Promise!Init
  BY DEF Init, Promise!Init, Result
<1>2. Settled /\ Settled' /\ [Next]_vars
        => [Promise!Decide]_<<ctx, stage = "done", Result>>
  <2> SUFFICES ASSUME Settled, Settled', [Next]_vars
               PROVE  [Promise!Decide]_<<ctx, stage = "done", Result>>
    OBVIOUS
  <2>1. CASE stage = "done"
    BY <2>1, DoneIsFinal DEF vars, Result
  <2>2. ctx' = ctx
    BY DEF Next, vars, HealthCheck, CallErrs, CallRejected, GiveUp, Fallback,
           AnswerDiagnosis, AnswerProposal, AnswerMessage
  <2>3. CASE stage # "done" /\ stage' # "done"
    BY <2>2, <2>3 DEF Result
  <2>4. CASE stage # "done" /\ stage' = "done"
    BY <2>2, <2>4 DEF Promise!Decide, Settled
  <2> QED BY <2>1, <2>3, <2>4
<1>3. Spec => []Settled
  BY InitSettled, NextSettled, PTL DEF Spec
<1> QED BY <1>1, <1>2, <1>3, PTL DEF Spec, ImplementsDeliberation, Promise!Spec

-----------------------------------------------------------------------------
\* Where a model's decision comes from.
Validated ==
  /\ stage \in {"start", "diagnose", "propose"} => source = "none"
  /\ source = "llm" =>
       /\ proposal \in Proposals
       /\ action = ValidateProposal(proposal, class)

\* The validator leaves the verb and the day of a legal proposal alone, and has
\* nothing left to repair in what it returns.
LEMMA ValidatorRepairsOnce ==
  ASSUME NEW p \in Proposals, NEW c
  PROVE  LET a == ValidateProposal(p, c)
         IN /\ Legal(p, c) => a.verb = p.verb /\ a.day_offset = p.day_offset
            /\ ValidateProposal(a, c) = a
<1> DEFINE cfg == ClassConfig(c)
           a == ValidateProposal(p, c)
<1>1. /\ cfg \in TaxonomyRow
      /\ cfg.category = "dead" => cfg.default_verb \in LinkVerbs
      /\ cfg.default_verb \in LinkVerbs => cfg.allow_contact
  BY TaxonomyAssumption DEF ClassConfig
<1>2. p.verb \in Verbs /\ p = [verb |-> p.verb, channel |-> p.channel,
                              day_offset |-> p.day_offset,
                              reason_code |-> p.reason_code]
  BY DEF Proposals
<1>3. CASE cfg.category = "stop"
  <2>1. a = [verb |-> "escalate_human", channel |-> "none",
             day_offset |-> p.day_offset, reason_code |-> p.reason_code]
    BY <1>2, <1>3 DEF ValidateProposal
  <2>2. ValidateProposal(a, c) = a
    BY <2>1, <1>3 DEF ValidateProposal
  <2>3. Legal(p, c) => p.verb = "escalate_human"
    BY <1>3 DEF Legal
  <2> QED BY <2>1, <2>2, <2>3
<1>4. CASE cfg.category # "stop" /\ cfg.category = "dead" /\ p.verb = "schedule_retry"
  <2>1. a = [verb |-> cfg.default_verb,
             channel |-> IF cfg.allow_contact THEN "link" ELSE "none",
             day_offset |-> 0, reason_code |-> p.reason_code]
    BY <1>2, <1>4 DEF ValidateProposal
  <2>2. a.verb # "schedule_retry" /\ cfg.allow_contact
    BY <2>1, <1>1, <1>4 DEF LinkVerbs
  <2>3. ValidateProposal(a, c) = a
    BY <2>2, <1>4 DEF ValidateProposal
  <2>4. ~Legal(p, c)
    BY <1>4 DEF Legal
  <2> QED BY <2>3, <2>4
<1>5. CASE /\ cfg.category # "stop"
           /\ ~(cfg.category = "dead" /\ p.verb = "schedule_retry")
           /\ ~cfg.allow_contact /\ p.verb \in LinkVerbs
  <2>1. /\ a.verb \in {"schedule_retry", "escalate_human"}
        /\ cfg.category # "dead"
    BY <1>1, <1>2, <1>5 DEF ValidateProposal
  <2>2. ValidateProposal(a, c) = a
    BY <2>1, <1>5 DEF ValidateProposal, LinkVerbs
  <2>3. ~Legal(p, c)
    BY <1>5 DEF Legal
  <2> QED BY <2>2, <2>3
<1>6. CASE /\ cfg.category # "stop"
           /\ ~(cfg.category = "dead" /\ p.verb = "schedule_retry")
           /\ ~(~cfg.allow_contact /\ p.verb \in LinkVerbs)
  BY <1>6 DEF ValidateProposal
<1> QED BY <1>3, <1>4, <1>5, <1>6

\* A model's legal proposal keeps its verb and its day, and a repaired one needs no
\* second repair (README: "repaired into the nearest legal action").
THEOREM ProposalsAreRepairedNotOverruled == Spec => []RepairedNotOverruled
<1>1. Init => Validated
  BY DEF Init, Validated
<1>2. Settled /\ Validated /\ [Next]_vars => Validated'
  <2> SUFFICES ASSUME Settled, Validated, [Next]_vars PROVE Validated'
    OBVIOUS
  <2>1. CASE HealthCheck \/ CallErrs \/ CallRejected
    BY <2>1 DEF HealthCheck, CallErrs, CallRejected, GiveUp, Fallback, Validated
  <2>2. ASSUME NEW said, AnswerDiagnosis(said) PROVE Validated'
    BY <2>2 DEF AnswerDiagnosis, Validated
  <2>3. ASSUME NEW p \in Proposals, AnswerProposal(p) PROVE Validated'
    BY <2>3 DEF AnswerProposal, Validated
  <2>4. CASE AnswerMessage \/ UNCHANGED vars
    BY <2>4 DEF AnswerMessage, vars, Validated
  <2> QED BY <2>1, <2>2, <2>3, <2>4 DEF Next
<1>3. Validated => RepairedNotOverruled
  BY ValidatorRepairsOnce DEF Validated, RepairedNotOverruled
<1>4. Spec => []Settled
  BY InitSettled, NextSettled, PTL DEF Spec
<1> QED BY <1>1, <1>2, <1>3, <1>4, PTL DEF Spec

-----------------------------------------------------------------------------
(***************************************************************************)
(* The rules' plan.                                                        *)
(***************************************************************************)
Below == OpToRel(<, Nat)

\* Every nonempty set of naturals has a least element.
LEMMA LeastElement ==
  ASSUME NEW S \in SUBSET Nat, S # {}
  PROVE  \E x \in S : \A y \in S : x <= y
<1>1. \A x, y \in Nat : <<y, x>> \in Below <=> y < x
  BY DEF Below, OpToRel
<1>2. IsWellFoundedOn(Below, Nat)
  BY NatLessThanWellFounded DEF Below
<1>3. PICK x \in S : \A y \in S : ~(<<y, x>> \in Below)
  BY <1>2, WFMin
<1>4. \A y \in S : x <= y
  <2> TAKE y \in S
  <2>1. ~(y < x)
    BY <1>1, <1>3
  <2> QED BY <2>1
<1> QED BY <1>4

\* A probe of a payday comes 1 to 27 days after the failure.
LEMMA DelayType ==
  ASSUME NEW dom \in DaysOfMonth, NEW target \in Nat
  PROVE  Delay(dom, target) \in 1 .. 27
BY DEF Delay, DaysOfMonth

LEMMA ContextType ==
  ASSUME NEW c \in Contexts
  PROVE  /\ c.failure_dom \in DaysOfMonth
         /\ c.credit_day \in DaysOfMonth \cup {NoHint}
BY ContextAssumption DEF ContextSpace

LEMMA ClassType ==
  ASSUME NEW c
  PROVE  /\ RulesClass(c) \in Classes
         /\ ClassConfig(RulesClass(c)) = Taxonomy[RulesClass(c)]
         /\ ClassConfig(RulesClass(c)) \in TaxonomyRow
<1>1. RulesClass(c) \in Classes
  BY TaxonomyAssumption, FixtureAssumption DEF RulesClass, Classify
<1> QED BY <1>1, TaxonomyAssumption DEF ClassConfig

LEMMA WindowOffsetsType ==
  ASSUME NEW dom \in DaysOfMonth, NEW creditDay \in DaysOfMonth \cup {NoHint}
  PROVE  SalaryWindowOffsets(dom, creditDay) \subseteq 1 .. 29
<1>1. CASE creditDay = NoHint
  <2>1. \A target \in {1, 2, 3, 5, 7} : Delay(dom, target) \in 1 .. 27
    BY DelayType
  <2>2. {Delay(dom, target) : target \in {1, 2, 3, 5, 7}} \subseteq 1 .. 29
    BY <2>1
  <2> QED BY <1>1, <2>2 DEF SalaryWindowOffsets, Earliest
<1>2. CASE creditDay # NoHint
  <2>1. Delay(dom, creditDay) \in 1 .. 27
    BY <1>2, DelayType DEF DaysOfMonth
  <2>2. PICK delta \in 1 .. 27 : delta = Delay(dom, creditDay)
    BY <2>1
  <2>3. SalaryWindowOffsets(dom, creditDay)
          = {delta, delta + 1, delta + 2}
            \cup (IF delta >= 4 THEN {delta \div 2} ELSE {})
    BY <1>2, <2>2 DEF SalaryWindowOffsets
  <2>4. delta >= 4 => delta \div 2 \in 1 .. 29
    OBVIOUS
  <2> QED BY <2>3, <2>4
<1> QED BY <1>1, <1>2

LEMMA OffsetsType ==
  ASSUME NEW timing \in Timings, NEW dom \in DaysOfMonth,
         NEW creditDay \in DaysOfMonth \cup {NoHint}, NEW n
  PROVE  OffsetsForTiming(timing, dom, creditDay, n) \subseteq 0 .. 29
<1>1. \A days : Earliest(days, n) \subseteq days
  BY DEF Earliest
<1>2. SalaryWindowOffsets(dom, creditDay) \subseteq 0 .. 29
  BY WindowOffsetsType
<1> QED BY <1>1, <1>2 DEF OffsetsForTiming, Timings

LEMMA PlanType ==
  ASSUME NEW c \in Contexts
  PROVE  RulesPlan(c) \subseteq Action
<1> DEFINE cfg == ClassConfig(RulesClass(c))
           Days == OffsetsForTiming(cfg.timing, c.failure_dom, c.credit_day,
                                    cfg.max_retries)
<1>1. cfg \in TaxonomyRow
  BY ClassType
<1>2. cfg.default_verb \in Verbs /\ cfg.timing \in Timings
      /\ cfg.allow_contact \in BOOLEAN
  BY <1>1 DEF TaxonomyRow
<1>3. Days \subseteq 0 .. 29
  BY <1>2, ContextType, OffsetsType
<1>4. \A verb \in Verbs, channel \in Channels, d \in Nat :
        PolicyAction(verb, channel, d) \in Action
  BY DEF PolicyAction, Action, ReasonCodes
<1>5. RulesPlan(c) = ActionsFromClassConfig(cfg, c.failure_dom, c.credit_day)
  BY DEF RulesPlan
<1>6. CASE cfg.default_verb = "escalate_human" \/ cfg.timing = "none"
  <2>1. RulesPlan(c) = {PolicyAction("escalate_human", "none", 0)}
    BY <1>5, <1>6 DEF ActionsFromClassConfig, LinkVerbs
  <2> QED BY <2>1, <1>4 DEF Verbs, Channels
<1>7. CASE cfg.default_verb \in LinkVerbs /\ cfg.timing # "none"
  <2>1. RulesPlan(c)
          = {PolicyAction(cfg.default_verb,
                          IF cfg.allow_contact THEN "link" ELSE "none", 0)}
            \cup (IF cfg.allow_contact
                    THEN {PolicyAction("send_payment_link", "link", 3)} ELSE {})
    BY <1>5, <1>7 DEF ActionsFromClassConfig, LinkVerbs
  <2>2. PolicyAction(cfg.default_verb,
                     IF cfg.allow_contact THEN "link" ELSE "none", 0) \in Action
    BY <1>2, <1>4 DEF Channels
  <2>3. PolicyAction("send_payment_link", "link", 3) \in Action
    BY <1>4 DEF Verbs, Channels
  <2> QED BY <2>1, <2>2, <2>3
<1>8. CASE cfg.default_verb = "schedule_retry" /\ cfg.timing # "none"
  <2>1. RulesPlan(c) = {RetryOrLink(cfg, day) : day \in Days}
    BY <1>5, <1>8 DEF ActionsFromClassConfig, LinkVerbs
  <2>2. \A day \in Days : RetryOrLink(cfg, day) \in Action
    BY <1>3, <1>4 DEF RetryOrLink, Verbs, Channels
  <2> QED BY <2>1, <2>2
<1> QED BY <1>2, <1>6, <1>7, <1>8 DEF Verbs, LinkVerbs

\* The fallback decides an action of the plan, the first one, or hands over.
LEMMA RulesActionType ==
  ASSUME NEW c \in Contexts
  PROVE  /\ RulesAction(c) \in Action
         /\ RulesPlan(c) # {} => RulesAction(c) \in RulesPlan(c)
<1>1. CASE RulesPlan(c) = {}
  <2>1. RulesAction(c) = PolicyAction("escalate_human", "none", 0)
    BY <1>1 DEF RulesAction
  <2> QED BY <2>1, <1>1 DEF PolicyAction, Action, Verbs, Channels, ReasonCodes
<1>2. CASE RulesPlan(c) # {}
  <2> DEFINE Days == {a.day_offset : a \in RulesPlan(c)}
  <2>1. \A a \in RulesPlan(c) : a.day_offset \in Nat
    BY PlanType DEF Action
  <2>2. Days \in SUBSET Nat /\ Days # {}
    BY <1>2, <2>1
  <2> HIDE DEF Days
  <2>3. PICK d \in Days : \A e \in Days : d <= e
    BY <2>2, LeastElement
  <2>4. \E a \in RulesPlan(c) :
          \A b \in RulesPlan(c) : a.day_offset <= b.day_offset
    BY <2>3 DEF Days
  <2>5. RulesAction(c) = CHOOSE a \in RulesPlan(c) :
                           \A b \in RulesPlan(c) : a.day_offset <= b.day_offset
    BY <1>2 DEF RulesAction
  <2>6. RulesAction(c) \in RulesPlan(c)
    BY <2>4, <2>5
  <2> QED BY <2>6, PlanType
<1> QED BY <1>1, <1>2

\* What the model may propose is an action, and stays one in the validator.
LEMMA ProposalType ==
  ASSUME NEW p \in Proposals, NEW c
  PROVE  ValidateProposal(p, c) \in Action
<1> DEFINE cfg == ClassConfig(c)
<1>1. cfg.default_verb \in Verbs
  BY TaxonomyAssumption DEF ClassConfig, TaxonomyRow
<1>2. /\ p = [verb |-> p.verb, channel |-> p.channel,
              day_offset |-> p.day_offset, reason_code |-> p.reason_code]
      /\ p.verb \in Verbs /\ p.channel \in Channels /\ p.day_offset \in DayOffsets
      /\ p.reason_code = "AGENT"
  BY DEF Proposals
<1>3. p \in Action
  <2>1. p.day_offset \in Nat
    BY <1>2, DayOffsetAssumption
  <2> QED BY <1>2, <2>1 DEF Action, ReasonCodes
<1>4. \A verb \in Verbs, channel \in Channels, d \in Nat :
        [p EXCEPT !.verb = verb, !.channel = channel, !.day_offset = d] \in Action
  BY <1>3 DEF Action
<1>5. \A verb \in Verbs, channel \in Channels :
        [p EXCEPT !.verb = verb, !.channel = channel] \in Action
  BY <1>3 DEF Action
<1> QED BY <1>1, <1>3, <1>4, <1>5 DEF ValidateProposal, Verbs, Channels

\* The type invariant, and that a conversation that goes on has failed at most once.
Typed ==
  /\ TypeOK
  /\ stage # "done" => failures <= 1

LEMMA FallbackTyped ==
  ASSUME Typed, NEW why \in FallbackReasons, NEW c \in Option(Classes),
         Fallback(why, c), failures' \in 0 .. 2
  PROVE  Typed'
<1>1. RulesAction(ctx) \in Action
  BY RulesActionType DEF Typed, TypeOK
<1> QED BY <1>1 DEF Typed, TypeOK, Fallback, Option

LEMMA GiveUpTyped ==
  ASSUME Typed, GiveUp, failures' \in 0 .. 2
  PROVE  Typed'
<1>1. RulesClass(ctx) \in Option(Classes) /\ class \in Option(Classes)
  BY ClassType DEF Option, Typed, TypeOK
<1>2. CASE stage = "diagnose" /\ Fallback("diagnose_failed", RulesClass(ctx))
  BY <1>1, <1>2, FallbackTyped DEF FallbackReasons
<1>3. CASE stage = "propose" /\ Fallback("propose_failed", class)
  BY <1>1, <1>3, FallbackTyped DEF FallbackReasons
<1>4. CASE /\ stage = "message"
           /\ stage' = "done"
           /\ message' = "canned_fallback"
           /\ UNCHANGED <<ctx, class, proposal, action, source, reason>>
  BY <1>4 DEF Typed, TypeOK
<1> QED BY <1>2, <1>3, <1>4 DEF GiveUp

\* Every variable of a run holds a value of its kind: the class is one of the
\* taxonomy's, the action one the guard understands, and no conversation makes a
\* third call (ai/agent.py, run and _json_with_repair).
THEOREM AgentTypeCorrect == Spec => []TypeOK
<1>1. Init => Typed
  BY DEF Init, Typed, TypeOK, Option
<1>2. Typed /\ [Next]_vars => Typed'
  <2> SUFFICES ASSUME Typed, [Next]_vars PROVE Typed'
    OBVIOUS
  <2>1. ctx \in Contexts /\ failures \in 0 .. 2
        /\ (stage # "done" => failures \in 0 .. 1)
    BY DEF Typed, TypeOK
  <2>2. RulesClass(ctx) \in Classes
    BY ClassType
  <2>3. CASE HealthCheck
    <3>1. CASE Fallback("ollama_unavailable", RulesClass(ctx))
      BY <2>1, <2>2, <2>3, <3>1, FallbackTyped
         DEF HealthCheck, FallbackReasons, Option
    <3>2. CASE /\ stage' = "diagnose"
               /\ UNCHANGED <<ctx, class, proposal, action, source, reason, message>>
      BY <2>3, <3>2 DEF HealthCheck, Typed, TypeOK, Conversations
    <3> QED BY <2>3, <3>1, <3>2 DEF HealthCheck
  <2>4. CASE CallErrs
    <3>1. failures' \in 0 .. 2 /\ stage # "done"
      BY <2>1, <2>4 DEF CallErrs, Conversations
    <3>2. CASE failures = 0 /\ UNCHANGED <<ctx, stage, class, proposal, action,
                                           source, reason, message>>
      BY <2>4, <3>2 DEF CallErrs, Typed, TypeOK
    <3>3. CASE GiveUp
      BY <3>1, <3>3, GiveUpTyped
    <3> QED BY <2>4, <3>2, <3>3 DEF CallErrs
  <2>5. CASE CallRejected
    <3>1. failures' \in 0 .. 2
      BY <2>1, <2>5 DEF CallRejected, Conversations
    <3> QED BY <2>5, <3>1, GiveUpTyped DEF CallRejected
  <2>6. ASSUME NEW said, AnswerDiagnosis(said) PROVE Typed'
    <3>1. ClampedClass(said) \in Classes
      BY <2>2 DEF ClampedClass
    <3> QED BY <2>6, <3>1 DEF AnswerDiagnosis, Typed, TypeOK, Option, Conversations
  <2>7. ASSUME NEW p \in Proposals, AnswerProposal(p) PROVE Typed'
    <3>1. ValidateProposal(p, class) \in Action
      BY ProposalType
    <3> QED BY <2>7, <3>1 DEF AnswerProposal, Typed, TypeOK, Option, Conversations
  <2>8. CASE AnswerMessage
    BY <2>8 DEF AnswerMessage, Typed, TypeOK
  <2>9. CASE UNCHANGED vars
    BY <2>9 DEF vars, Typed, TypeOK
  <2> QED BY <2>3, <2>4, <2>5, <2>6, <2>7, <2>8, <2>9 DEF Next
<1>3. Typed => TypeOK
  BY DEF Typed
<1> QED BY <1>1, <1>2, <1>3, PTL DEF Spec

-----------------------------------------------------------------------------
\* A list cut with [:n] has at most n elements.
LEMMA EarliestBound ==
  ASSUME NEW b \in Nat, NEW days \in SUBSET (0 .. b), NEW n \in Nat
  PROVE  IsFiniteSet(Earliest(days, n)) /\ Cardinality(Earliest(days, n)) <= n
<1> DEFINE E == Earliest(days, n)
<1>1. IsFiniteSet(days)
  <2>1. IsFiniteSet(0 .. b)
    BY FS_Interval
  <2> QED BY <2>1, FS_Subset
<1>2. E \subseteq days /\ E \subseteq 0 .. b
  BY DEF Earliest
<1>3. IsFiniteSet(E) /\ Cardinality(E) \in Nat
  BY <1>1, <1>2, FS_Subset, FS_CardinalityType
<1>4. CASE E = {}
  BY <1>3, <1>4, FS_EmptySet
<1>5. CASE E # {}
  <2>1. {b - x : x \in E} \in SUBSET Nat /\ {b - x : x \in E} # {}
    BY <1>2, <1>5
  <2>2. PICK m \in {b - x : x \in E} : \A y \in {b - x : x \in E} : m <= y
    BY <2>1, LeastElement
  <2>3. PICK last \in E : m = b - last
    OBVIOUS
  <2>4. \A x \in E : x <= last
    <3> TAKE x \in E
    <3>1. m <= b - x
      BY <2>2
    <3> QED BY <3>1, <2>3, <1>2
  <2>5. IsFiniteSet({e \in days : e < last})
        /\ Cardinality({e \in days : e < last}) < n
    BY <1>1, FS_Subset DEF Earliest
  <2>6. E \ {last} \subseteq {e \in days : e < last}
    BY <1>2, <2>4
  <2>7. Cardinality(E \ {last}) <= Cardinality({e \in days : e < last})
    BY <2>5, <2>6, FS_Subset
  <2>8. Cardinality(E \ {last}) = Cardinality(E) - 1
    BY <1>3, FS_RemoveElement
  <2>9. Cardinality({e \in days : e < last}) \in Nat
    BY <2>5, FS_CardinalityType
  <2> QED BY <1>3, <2>5, <2>7, <2>8, <2>9
<1> QED BY <1>4, <1>5

LEMMA OneDay ==
  ASSUME NEW d
  PROVE  IsFiniteSet({d}) /\ Cardinality({d}) <= 1
<1>1. PICK A : A = {d}
  OBVIOUS
<1>2. IsFiniteSet(A) /\ Cardinality(A) = 1
  BY <1>1, FS_Singleton
<1>3. Cardinality(A) <= 1
  BY <1>2
<1> QED BY <1>1, <1>2, <1>3

\* One action for each planned day.
LEMMA OneActionPerDay ==
  ASSUME NEW cfg, NEW days, IsFiniteSet(days), NEW n \in Nat,
         Cardinality(days) <= n,
         NEW A \in SUBSET {RetryOrLink(cfg, day) : day \in days}
  PROVE  Cardinality(A) <= n
<1> DEFINE P == {RetryOrLink(cfg, day) : day \in days}
           f == [day \in days |-> RetryOrLink(cfg, day)]
<1>1. f \in Surjection(days, P)
  BY DEF Surjection
<1> HIDE DEF f, P
<1>2. IsFiniteSet(P) /\ Cardinality(P) <= Cardinality(days)
  BY <1>1, FS_Surjection
<1>3. IsFiniteSet(A) /\ Cardinality(A) <= Cardinality(P)
  BY <1>2, FS_Subset DEF P
<1>4. Cardinality(days) \in Nat /\ Cardinality(P) \in Nat /\ Cardinality(A) \in Nat
  BY <1>2, <1>3, FS_CardinalityType
<1> QED BY <1>2, <1>3, <1>4

\* The retries of a plan fit the taxonomy's budget.
LEMMA RetriesFitTheBudget ==
  ASSUME NEW c \in Contexts
  PROVE  Cardinality({a \in RulesPlan(c) : a.verb = "schedule_retry"})
           <= ClassConfig(RulesClass(c)).max_retries
<1> DEFINE cfg == ClassConfig(RulesClass(c))
           Days == OffsetsForTiming(cfg.timing, c.failure_dom, c.credit_day,
                                    cfg.max_retries)
           Retries == {a \in RulesPlan(c) : a.verb = "schedule_retry"}
<1>1. /\ cfg.default_verb \in Verbs
      /\ cfg.allow_contact \in BOOLEAN
      /\ cfg.max_retries \in Nat
      /\ cfg.timing \in Timings
  BY ClassType DEF TaxonomyRow
<1>2. CASE ~(cfg.default_verb = "schedule_retry" /\ cfg.timing # "none")
  <2>1. \A a \in RulesPlan(c) : a.verb # "schedule_retry"
    BY <1>1, <1>2 DEF RulesPlan, ActionsFromClassConfig, PolicyAction, Verbs,
                      LinkVerbs
  <2>2. Retries = {}
    BY <2>1
  <2>3. Cardinality(Retries) = 0
    BY <2>2, FS_EmptySet
  <2> QED BY <1>1, <2>3
<1>3. CASE cfg.default_verb = "schedule_retry" /\ cfg.timing # "none"
  <2>1. RulesPlan(c) = {RetryOrLink(cfg, day) : day \in Days}
    BY <1>3 DEF RulesPlan, ActionsFromClassConfig, LinkVerbs
  <2>2. ASSUME NEW days, NEW n \in Nat, n <= cfg.max_retries,
               IsFiniteSet(days), Cardinality(days) <= n,
               Retries \subseteq {RetryOrLink(cfg, day) : day \in days}
        PROVE  Cardinality(Retries) <= cfg.max_retries
    <3>1. Cardinality(Retries) <= n
      <4> HIDE DEF Retries, cfg
      <4>1. \A A \in SUBSET {RetryOrLink(cfg, day) : day \in days} :
              Cardinality(A) <= n
        BY <2>2, OneActionPerDay
      <4> QED BY <2>2, <4>1
    <3>2. IsFiniteSet({RetryOrLink(cfg, day) : day \in days})
      <4>1. [day \in days |-> RetryOrLink(cfg, day)]
              \in Surjection(days, {RetryOrLink(cfg, day) : day \in days})
        BY DEF Surjection
      <4> QED BY <4>1, <2>2, FS_Surjection
    <3>3. Cardinality(Retries) \in Nat
      BY <2>2, <3>2, FS_Subset, FS_CardinalityType
    <3> QED BY <1>1, <2>2, <3>1, <3>3
  <2>3. \A x : IsFiniteSet({x}) /\ Cardinality({x}) = 1
    BY FS_Singleton
  <2>4. CASE cfg.timing \in {"salary_window", "short_backoff", "other"}
    <3>1. PICK days \in SUBSET (0 .. 29) : Days = Earliest(days, cfg.max_retries)
      <4>1. SalaryWindowOffsets(c.failure_dom, c.credit_day) \in SUBSET (0 .. 29)
        BY ContextType, WindowOffsetsType
      <4> QED BY <2>4, <4>1 DEF OffsetsForTiming
    <3>2. IsFiniteSet(Days) /\ Cardinality(Days) <= cfg.max_retries
      BY <1>1, <3>1, EarliestBound
    <3> QED BY <1>1, <2>1, <2>2, <3>2
  <2>5. CASE cfg.timing = "immediate_contact"
    <3>1. Days = {0}
      BY <2>5 DEF OffsetsForTiming
    <3>2. cfg.max_retries >= 1
      BY <1>3, <2>5, ClassType, RetryBudgetAssumption
    <3>3. 1 <= cfg.max_retries
      BY <1>1, <3>2
    <3>4. IsFiniteSet({0}) /\ Cardinality({0}) <= 1
      BY OneDay
    <3>5. Retries \subseteq {RetryOrLink(cfg, day) : day \in {0}}
      BY <2>1, <3>1
    <3> QED BY <2>2, <3>3, <3>4, <3>5
  <2>6. CASE cfg.timing = "spaced_then_link"
    <3>1. Days = {2, 4}
      BY <2>6 DEF OffsetsForTiming
    <3>2. CASE cfg.allow_contact
      <4>1. cfg.max_retries >= 1
        BY <1>3, <2>6, <3>2, ClassType, RetryBudgetAssumption
      <4>2. RetryOrLink(cfg, 4).verb # "schedule_retry"
        BY <2>6, <3>2 DEF RetryOrLink, PolicyAction
      <4>3. Retries \subseteq {RetryOrLink(cfg, day) : day \in {2}}
        BY <2>1, <3>1, <4>2
      <4>4. 1 <= cfg.max_retries
        BY <1>1, <4>1
      <4>5. IsFiniteSet({2}) /\ Cardinality({2}) <= 1
        BY OneDay
      <4> QED BY <2>2, <4>3, <4>4, <4>5
    <3>3. CASE ~cfg.allow_contact
      <4>1. cfg.max_retries >= 2
        BY <1>3, <2>6, <3>3, ClassType, RetryBudgetAssumption
      <4>2. PICK A : A = {2}
        OBVIOUS
      <4>3. IsFiniteSet(A \cup {4}) /\ Cardinality(A \cup {4}) = 2
        <5>1. IsFiniteSet(A) /\ Cardinality(A) = 1
          BY <2>3, <4>2
        <5>2. 4 \notin A
          BY <4>2
        <5> QED BY <5>1, <5>2, FS_AddElement
      <4>4. A \cup {4} = {2, 4}
        BY <4>2
      <4>5. IsFiniteSet({2, 4}) /\ Cardinality({2, 4}) <= 2
        BY <4>3, <4>4
      <4>6. Retries \subseteq {RetryOrLink(cfg, day) : day \in {2, 4}}
        BY <2>1, <3>1
      <4> QED BY <1>1, <2>2, <4>1, <4>5, <4>6
    <3> QED BY <1>1, <3>2, <3>3
  <2> QED BY <1>1, <1>3, <2>4, <2>5, <2>6 DEF Timings
<1> QED BY <1>2, <1>3

\* The validator has nothing to say of what the rules plan.
LEMMA PlanPassesTheValidator ==
  ASSUME NEW c \in Contexts, NEW a \in RulesPlan(c)
  PROVE  ValidateProposal(a, RulesClass(c)) = a
<1> DEFINE cfg == ClassConfig(RulesClass(c))
<1>1. /\ cfg.default_verb \in Verbs
      /\ cfg.allow_contact \in BOOLEAN
      /\ cfg.category = "dead" => cfg.default_verb \in LinkVerbs
      /\ cfg.category = "stop" => cfg.default_verb = "escalate_human"
      /\ cfg.default_verb \in LinkVerbs => cfg.allow_contact
  BY ClassType, TaxonomyAssumption DEF TaxonomyRow
<1>2. CASE cfg.default_verb = "escalate_human" \/ cfg.timing = "none"
  <2>1. a = PolicyAction("escalate_human", "none", 0)
    BY <1>2 DEF RulesPlan, ActionsFromClassConfig, LinkVerbs
  <2>2. a = [verb |-> "escalate_human", channel |-> "none", day_offset |-> 0,
             reason_code |-> "AGENT"]
    BY <2>1 DEF PolicyAction
  <2>3. cfg.category = "stop" => ValidateProposal(a, RulesClass(c)) = a
    <3>1. a \in Action /\ a.verb = "escalate_human" /\ a.channel = "none"
      BY <2>2, PlanType
    <3>2. [a EXCEPT !.verb = "escalate_human", !.channel = "none"] = a
      BY <3>1 DEF Action
    <3>3. cfg.category = "stop" =>
            ValidateProposal(a, RulesClass(c))
              = [a EXCEPT !.verb = "escalate_human", !.channel = "none"]
      BY DEF ValidateProposal
    <3> QED BY <3>2, <3>3
  <2>4. cfg.category # "stop" => ValidateProposal(a, RulesClass(c)) = a
    BY <2>2 DEF ValidateProposal, LinkVerbs
  <2> QED BY <2>3, <2>4
<1>3. CASE cfg.default_verb \in LinkVerbs /\ cfg.timing # "none"
  <2>1. /\ cfg.allow_contact
        /\ cfg.category # "stop"
    BY <1>1, <1>3 DEF LinkVerbs
  <2>2. a.verb \in LinkVerbs
    BY <1>3 DEF RulesPlan, ActionsFromClassConfig, PolicyAction, LinkVerbs
  <2> QED BY <2>1, <2>2 DEF ValidateProposal, LinkVerbs
<1>4. CASE cfg.default_verb = "schedule_retry" /\ cfg.timing # "none"
  <2>1. cfg.category # "stop" /\ cfg.category # "dead"
    BY <1>1, <1>4 DEF LinkVerbs
  <2>2. PICK day : a = RetryOrLink(cfg, day)
    BY <1>4 DEF RulesPlan, ActionsFromClassConfig, LinkVerbs
  <2>3. a.verb \in LinkVerbs => cfg.allow_contact
    BY <2>2 DEF RetryOrLink, PolicyAction, LinkVerbs
  <2> QED BY <2>1, <2>3 DEF ValidateProposal
<1> QED BY <1>1, <1>2, <1>3, <1>4 DEF Verbs, LinkVerbs

\* For every case, the rules plan nothing the validator would repair in a model's
\* proposal, and no more silent retries than the taxonomy grants the class
\* (policy/engine.py, decide; policy/timing.py).
THEOREM RulesPlanIsLegal == Spec => []PlanIsLegal
<1>1. TypeOK => PlanIsLegal
  BY PlanPassesTheValidator, RetriesFitTheBudget DEF TypeOK, PlanIsLegal
<1> QED BY <1>1, AgentTypeCorrect, PTL

-----------------------------------------------------------------------------
\* A day is kept by [:n] if fewer than n days come before it.
LEMMA KeptByTheCut ==
  ASSUME NEW days, NEW d \in days, NEW n \in Nat, NEW before, IsFiniteSet(before),
         Cardinality(before) < n, \A e \in days : e < d => e \in before
  PROVE  d \in Earliest(days, n)
<1> DEFINE L == {e \in days : e < d}
<1>1. L \subseteq before
  OBVIOUS
<1>2. Cardinality(L) <= Cardinality(before) /\ IsFiniteSet(L)
  BY <1>1, FS_Subset
<1>3. Cardinality(L) \in Nat /\ Cardinality(before) \in Nat
  BY <1>2, FS_CardinalityType
<1>4. Cardinality(L) < n
  BY <1>2, <1>3
<1> QED BY <1>4 DEF Earliest

LEMMA ThreeDays ==
  ASSUME NEW x, NEW y, NEW z
  PROVE  IsFiniteSet({x, y, z}) /\ Cardinality({x, y, z}) <= 3
<1>1. PICK A : A = {x}
  OBVIOUS
<1>2. PICK B : B = A \cup {y}
  OBVIOUS
<1>3. PICK C : C = B \cup {z}
  OBVIOUS
<1>4. IsFiniteSet(A) /\ Cardinality(A) = 1
  BY <1>1, FS_Singleton
<1>5. IsFiniteSet(B) /\ Cardinality(B) \in {1, 2}
  BY <1>2, <1>4, FS_AddElement
<1>6. IsFiniteSet(C) /\ Cardinality(C) \in {1, 2, 3}
  BY <1>3, <1>5, FS_AddElement
<1>7. C = {x, y, z}
  BY <1>1, <1>2, <1>3
<1>8. Cardinality(C) <= 3
  BY <1>6
<1> QED BY <1>6, <1>7, <1>8

\* The plan of a salary window is one silent retry on each of its days.
LEMMA SalaryPlan ==
  ASSUME ctx \in Contexts, WaitsForSalary
  PROVE  LET days == SalaryWindowOffsets(ctx.failure_dom, ctx.credit_day)
             n == ClassConfig(RulesClass(ctx)).max_retries
         IN /\ n \in Nat /\ n >= 4
            /\ \A d \in Earliest(days, n) :
                 \E a \in RulesPlan(ctx) : a.day_offset = d
            /\ \A a \in RulesPlan(ctx) : a.day_offset \in days
<1> DEFINE cfg == ClassConfig(RulesClass(ctx))
           days == SalaryWindowOffsets(ctx.failure_dom, ctx.credit_day)
<1>1. /\ cfg.timing = "salary_window"
      /\ cfg.default_verb = "schedule_retry"
      /\ cfg.max_retries \in Nat /\ cfg.max_retries >= 4
  BY ClassType, SalaryWindowAssumption DEF WaitsForSalary, TaxonomyRow
<1>2. RulesPlan(ctx) = {RetryOrLink(cfg, d) : d \in Earliest(days, cfg.max_retries)}
  BY <1>1 DEF RulesPlan, ActionsFromClassConfig, LinkVerbs, OffsetsForTiming
<1>3. \A d : RetryOrLink(cfg, d).day_offset = d
  BY <1>1 DEF RetryOrLink, PolicyAction
<1>4. Earliest(days, cfg.max_retries) \subseteq days
  BY DEF Earliest
<1> QED BY <1>1, <1>2, <1>3, <1>4

\* With a hint, the retry after delta days meets the payer on the credit day, or on
\* the day after when the failure was on the credit day itself.
LEMMA HintedPlanMeets ==
  ASSUME ctx \in Contexts, WaitsForSalary, ctx.credit_day # NoHint
  PROVE  PlanMeets(ctx.credit_day)
<1>1. PICK dom \in DaysOfMonth, credit \in DaysOfMonth, n \in Nat :
        /\ dom = ctx.failure_dom /\ credit = ctx.credit_day
        /\ n = ClassConfig(RulesClass(ctx)).max_retries /\ n >= 4
  BY ContextType, SalaryPlan
<1>2. PICK delta \in 1 .. 27 : delta = Delay(dom, credit)
  BY DelayType DEF DaysOfMonth
<1>3. credit # NoHint
  BY <1>1
<1>4. SalaryWindowOffsets(dom, credit)
        = {delta, delta + 1, delta + 2}
          \cup (IF delta >= 4 THEN {delta \div 2} ELSE {})
  BY <1>2, <1>3 DEF SalaryWindowOffsets
<1>5. delta \in Earliest(SalaryWindowOffsets(dom, credit), n)
  <2>1. PICK before : before = {delta \div 2}
    OBVIOUS
  <2>2. IsFiniteSet(before) /\ Cardinality(before) < n
    <3>1. IsFiniteSet(before) /\ Cardinality(before) = 1
      BY <2>1, FS_Singleton
    <3> QED BY <1>1, <3>1
  <2>3. \A e \in SalaryWindowOffsets(dom, credit) : e < delta => e \in before
    BY <1>4, <2>1
  <2>4. delta \in SalaryWindowOffsets(dom, credit)
    BY <1>4
  <2> QED BY <2>2, <2>3, <2>4, KeptByTheCut
<1>6. PICK a \in RulesPlan(ctx) : a.day_offset = delta
  BY <1>1, <1>5, SalaryPlan
<1>7. DayOf(dom, delta) \in FundedDays(credit)
  <2>1. CASE credit = dom
    <3>1. (credit - dom) % 28 = 0
      BY <2>1 DEF DaysOfMonth
    <3>2. delta = 1
      BY <1>2, <3>1 DEF Delay
    <3>3. DayOf(dom, delta) = ((credit - 1 + 1) % 28) + 1
      BY <2>1, <3>2 DEF DayOf, DaysOfMonth
    <3> QED BY <3>3 DEF FundedDays
  <2>2. CASE credit # dom
    <3>1. delta = IF credit > dom THEN credit - dom ELSE credit - dom + 28
      BY <1>2, <2>2 DEF Delay, DaysOfMonth
    <3>2. DayOf(dom, delta) = ((credit - 1 + 0) % 28) + 1
      BY <3>1 DEF DayOf, DaysOfMonth
    <3> QED BY <3>2 DEF FundedDays
  <2> QED BY <2>1, <2>2
<1> QED BY <1>1, <1>6, <1>7 DEF PlanMeets

\* Without one, a failure after the 7th is retried on the 1st, 2nd, 3rd and 5th of
\* the next month: the first of these is funded for a payer credited on it, the
\* later ones also for a payer credited the day before.
LEMMA ClusterPlanMeets ==
  ASSUME ctx \in Contexts, WaitsForSalary, ctx.credit_day = NoHint,
         ctx.failure_dom > 7, NEW creditDay \in 1 .. 5
  PROVE  PlanMeets(creditDay)
<1>1. PICK dom \in DaysOfMonth, n \in Nat :
        /\ dom = ctx.failure_dom /\ dom > 7
        /\ n = ClassConfig(RulesClass(ctx)).max_retries /\ n >= 4
  BY ContextType, SalaryPlan
<1>2. dom \in 8 .. 28
  BY <1>1 DEF DaysOfMonth
<1>3. \A t \in {1, 2, 3, 5, 7} : Delay(dom, t) = 28 + t - dom
  BY <1>2 DEF Delay
<1>4. PICK Cluster : Cluster = {29 - dom, 30 - dom, 31 - dom, 33 - dom, 35 - dom}
  OBVIOUS
<1>5. {Delay(dom, t) : t \in {1, 2, 3, 5, 7}} = Cluster
  <2>1. /\ Delay(dom, 1) = 29 - dom
        /\ Delay(dom, 2) = 30 - dom
        /\ Delay(dom, 3) = 31 - dom
        /\ Delay(dom, 5) = 33 - dom
        /\ Delay(dom, 7) = 35 - dom
    BY <1>2, <1>3
  <2> QED BY <1>4, <2>1
<1>6. SalaryWindowOffsets(dom, NoHint) = Earliest(Cluster, 4)
  BY <1>5 DEF SalaryWindowOffsets
<1>7. PICK first : first = {29 - dom, 30 - dom, 31 - dom}
  OBVIOUS
<1>8. IsFiniteSet(first) /\ Cardinality(first) < 4 /\ Cardinality(first) < n
  <2>1. IsFiniteSet(first) /\ Cardinality(first) <= 3
    BY <1>7, ThreeDays
  <2>2. Cardinality(first) \in Nat
    BY <2>1, FS_CardinalityType
  <2> QED BY <1>1, <2>1, <2>2
<1>9. \A e \in Cluster, t \in {1, 2, 3, 5} : e < 28 + t - dom => e \in first
  BY <1>2, <1>4, <1>7
<1>10. \A t \in {1, 2, 3, 5} : 28 + t - dom \in Earliest(Cluster, 4)
  <2> TAKE t \in {1, 2, 3, 5}
  <2>1. PICK d : d = 28 + t - dom
    OBVIOUS
  <2>2. d \in Cluster
    BY <1>2, <1>4, <2>1
  <2>3. \A e \in Cluster : e < d => e \in first
    BY <1>9, <2>1
  <2>4. d \in Earliest(Cluster, 4)
    BY <1>8, <2>2, <2>3, KeptByTheCut
  <2> QED BY <2>1, <2>4
<1>11. \A t \in {1, 2, 3, 5} :
         28 + t - dom \in Earliest(SalaryWindowOffsets(dom, NoHint), n)
  <2> TAKE t \in {1, 2, 3, 5}
  <2>1. PICK d, days : d = 28 + t - dom /\ days = Earliest(Cluster, 4)
    OBVIOUS
  <2>2. d \in days /\ days \subseteq Cluster
    BY <1>10, <2>1 DEF Earliest
  <2>3. \A e \in days : e < d => e \in first
    BY <1>9, <2>1, <2>2
  <2>4. d \in Earliest(days, n)
    BY <1>8, <2>2, <2>3, KeptByTheCut
  <2> QED BY <1>6, <2>1, <2>4
<1>12. \A t \in {1, 2, 3, 5} : t \in FundedDays(creditDay) => PlanMeets(creditDay)
  <2> SUFFICES ASSUME NEW t \in {1, 2, 3, 5}, t \in FundedDays(creditDay)
               PROVE  PlanMeets(creditDay)
    OBVIOUS
  <2>1. PICK a \in RulesPlan(ctx) : a.day_offset = 28 + t - dom
    BY <1>1, <1>11, SalaryPlan
  <2>2. DayOf(dom, 28 + t - dom) = t
    BY <1>2 DEF DayOf
  <2> QED BY <1>1, <2>1, <2>2 DEF PlanMeets
<1>13. /\ \A k \in {1, 2, 3, 5} : ((k - 1 + 0) % 28) + 1 = k
       /\ ((4 - 1 + 1) % 28) + 1 = 5
  OBVIOUS
<1>14. /\ \A k \in {1, 2, 3, 5} : creditDay = k => k \in FundedDays(creditDay)
       /\ creditDay = 4 => 5 \in FundedDays(creditDay)
  BY <1>13 DEF FundedDays
<1> QED BY <1>12, <1>14

\* For every case that waits for its salary, and every taxonomy with the budget for
\* it, the silent retries reach a funded account: with a true hint always, without
\* one for a payer credited from the 1st to the 5th; and no retry is spent on the
\* day of the failure (policy/timing.py, salary_window_offsets).
THEOREM SalaryRetriesHitFunds == Spec => []SalaryPlanHitsFunds
<1>1. TypeOK => SalaryPlanHitsFunds
  <2> SUFFICES ASSUME TypeOK, WaitsForSalary
               PROVE  /\ \A a \in RulesPlan(ctx) : a.day_offset # 0
                      /\ ctx.credit_day # NoHint => PlanMeets(ctx.credit_day)
                      /\ (ctx.credit_day = NoHint /\ ctx.failure_dom > 7) =>
                           \A creditDay \in 1 .. 5 : PlanMeets(creditDay)
    BY DEF SalaryPlanHitsFunds
  <2>1. ctx \in Contexts
    BY DEF TypeOK
  <2>2. \A a \in RulesPlan(ctx) : a.day_offset \in 1 .. 29
    BY <2>1, SalaryPlan, ContextType, WindowOffsetsType
  <2> QED BY <2>1, <2>2, HintedPlanMeets, ClusterPlanMeets
<1> QED BY <1>1, AgentTypeCorrect, PTL
=============================================================================
