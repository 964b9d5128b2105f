------------------------------- MODULE Agent --------------------------------
(***************************************************************************)
(* RecoveryAgent.run in ai/agent.py: a health check, then up to three      *)
(* conversations with a model (diagnose, propose, draft a message), each   *)
(* with one repair, and rules to fall back on.                             *)
(*                                                                         *)
(* A call ends in one of three ways.  It errs with an LLMError: no answer, *)
(* a wrong envelope, or text without a JSON object in it.  It is rejected: *)
(* what stands between the braces is no JSON (json.JSONDecodeError), or is *)
(* JSON that the schema of the stage refuses.  Or it is a valid answer.    *)
(***************************************************************************)
EXTENDS Policy

CONSTANTS
  Contexts,     \* the cases the agent may be asked about
  DayOffsets,   \* the delays a model may propose
  NoAction      \* nothing proposed, nothing decided

ContextSpace == [reason : STRING, code : STRING, failure_dom : DaysOfMonth,
                 credit_day : DaysOfMonth \cup {NoHint}]

ASSUME ContextAssumption == \A c \in Contexts : c \in ContextSpace

\* ProposalPayload.day_offset is bounded by its schema.
ASSUME DayOffsetAssumption == DayOffsets \subseteq 0 .. 60

ASSUME NoActionAssumption ==
  /\ NoAction \notin Action
  /\ NoAction \notin Classes

Proposals == [verb : Verbs, channel : Channels, day_offset : DayOffsets,
              reason_code : {"AGENT"}]

VARIABLES
  ctx,
  stage,      \* "start", one of Conversations, or "done"
  failures,   \* calls that failed in the current conversation
  class,      \* diagnosis.likely_class
  proposal,   \* proposal_raw
  action,     \* action_validated
  source,     \* "llm" or "rules_fallback"
  reason,     \* fallback_reason
  message     \* whose words: the model's, the canned copy, or none

vars == <<ctx, stage, failures, class, proposal, action, source, reason, message>>

Conversations == {"diagnose", "propose", "message"}

FallbackReasons == {"ollama_unavailable", "diagnose_failed", "propose_failed"}

-----------------------------------------------------------------------------
Init ==
  /\ ctx \in Contexts
  /\ stage = "start"
  /\ failures = 0
  /\ class = NoAction
  /\ proposal = NoAction
  /\ action = NoAction
  /\ source = "none"
  /\ reason = "none"
  /\ message = "none"

\* _fallback: the rules' first action, with canned copy if it contacts the payer.
\* Whatever the model had said about the class stays.
Fallback(why, likelyClass) ==
  LET a == RulesAction(ctx) IN
  /\ stage' = "done"
  /\ class' = likelyClass
  /\ action' = a
  /\ source' = "rules_fallback"
  /\ reason' = why
  /\ message' = IF a.verb \in LinkVerbs THEN "canned_fallback" ELSE "none"
  /\ UNCHANGED <<ctx, proposal>>

\* LLMClient.available: GET /api/tags.
HealthCheck ==
  /\ stage = "start"
  /\ UNCHANGED failures
  /\ \/ Fallback("ollama_unavailable", RulesClass(ctx))
     \/ /\ stage' = "diagnose"
        /\ UNCHANGED <<ctx, class, proposal, action, source, reason, message>>

\* The except branch of each conversation.  A message that cannot be drafted
\* does not change the action.
GiveUp ==
  \/ /\ stage = "diagnose"
     /\ Fallback("diagnose_failed", RulesClass(ctx))
  \/ /\ stage = "propose"
     /\ Fallback("propose_failed", class)
  \/ /\ stage = "message"
     /\ stage' = "done"
     /\ message' = "canned_fallback"
     /\ UNCHANGED <<ctx, class, proposal, action, source, reason>>

\* Mutant: the repair starts the count afresh.
CallErrsForEver ==
  /\ stage \in Conversations
  /\ failures' = 1 - failures
  /\ UNCHANGED <<ctx, stage, class, proposal, action, source, reason, message>>

\* _json_with_repair: the first LLMError is followed by one repair call.
CallErrs ==
  /\ stage \in Conversations
  /\ failures' = failures + 1
  /\ \/ /\ failures = 0
        /\ UNCHANGED <<ctx, stage, class, proposal, action, source, reason, message>>
     \/ failures = 1 /\ GiveUp

\* Any other exception leaves _json_with_repair at once.
CallRejected ==
  /\ stage \in Conversations
  /\ failures' = failures + 1
  /\ GiveUp

\* Mutant: the class is taken as the model names it.
TrustedClass(said) == said

\* A class the taxonomy does not have is replaced by the rules' class.
ClampedClass(said) == IF said \in Classes THEN said ELSE RulesClass(ctx)

AnswerDiagnosis(said) ==
  /\ stage = "diagnose"
  /\ class' = ClampedClass(said)
  /\ stage' = "propose"
  /\ failures' = 0
  /\ UNCHANGED <<ctx, proposal, action, source, reason, message>>

\* Mutant: the message is planned for what the model proposed.
AnswerProposalUnrepaired(p) ==
  /\ stage = "propose"
  /\ proposal' = p
  /\ action' = ValidateProposal(p, class)
  /\ source' = "llm"
  /\ stage' = IF p.verb \in LinkVerbs THEN "message" ELSE "done"
  /\ failures' = 0
  /\ UNCHANGED <<ctx, class, reason, message>>

\* The proposal is bounded by the validator; a message is drafted if what comes
\* out of the validator contacts the payer.
AnswerProposal(p) ==
  /\ stage = "propose"
  /\ proposal' = p
  /\ action' = ValidateProposal(p, class)
  /\ source' = "llm"
  /\ stage' = IF action'.verb \in LinkVerbs THEN "message" ELSE "done"
  /\ failures' = 0
  /\ UNCHANGED <<ctx, class, reason, message>>

AnswerMessage ==
  /\ stage = "message"
  /\ message' = "llm"
  /\ stage' = "done"
  /\ UNCHANGED <<ctx, failures, class, proposal, action, source, reason>>

Next ==
  \/ HealthCheck
  \/ CallErrs
  \/ CallRejected
  \/ \E said \in Classes \cup {"other"} : AnswerDiagnosis(said)
  \/ \E p \in Proposals : AnswerProposal(p)
  \/ AnswerMessage

Spec == Init /\ [][Next]_vars

\* Every call ends: the health check has a timeout of 3 s, a chat call of 120 s.
FairSpec == Spec /\ WF_vars(Next)

-----------------------------------------------------------------------------
(***************************************************************************)
(* Properties.                                                             *)
(***************************************************************************)
Option(S) == S \cup {NoAction}

\* Every variable holds a value of its kind.
TypeOK ==
  /\ ctx \in Contexts
  /\ stage \in Conversations \cup {"start", "done"}
  /\ failures \in 0 .. 2
  /\ class \in Option(Classes)
  /\ proposal \in Option(Proposals)
  /\ action \in Option(Action)
  /\ source \in {"none", "llm", "rules_fallback"}
  /\ reason \in FallbackReasons \cup {"none"}
  /\ message \in {"none", "llm", "canned_fallback"}

\* AgentRunResult, once run() returns.
Result ==
  IF stage = "done"
    THEN [class |-> class, action |-> action, source |-> source,
          message |-> message]
    ELSE NoAction

Promise == INSTANCE Deliberation
             WITH decided <- (stage = "done"), result <- Result, NoResult <- NoAction

\* Whatever the model answers, errs or drafts, run() returns one result that keeps
\* the promise: legal for the class it names if the model decided, the taxonomy's
\* own action if it did not, and never canned copy under the model's name.
ImplementsDeliberation == Promise!Spec

\* The validator repairs and does not overrule: of a proposal that is legal for the
\* class the model diagnosed, the verb and the day are decided as proposed, and the
\* repaired action would pass the validator again unchanged.
RepairedNotOverruled ==
  source = "llm" =>
    /\ Legal(proposal, class) =>
         action.verb = proposal.verb /\ action.day_offset = proposal.day_offset
    /\ ValidateProposal(action, class) = action

\* The rules never plan what the validator would forbid a model, and never more
\* retries than the taxonomy grants.
PlanIsLegal ==
  /\ \A a \in RulesPlan(ctx) : ValidateProposal(a, RulesClass(ctx)) = a
  /\ Cardinality({a \in RulesPlan(ctx) : a.verb = "schedule_retry"})
       <= ClassConfig(RulesClass(ctx)).max_retries

\* The payer model's window: funded on the credit day and the two days after it.
FundedDays(creditDay) == {((creditDay - 1 + k) % 28) + 1 : k \in 0 .. 2}

DayOf(dom, dayOffset) == ((dom + dayOffset - 1) % 28) + 1

\* The plan reaches the account of a payer with this credit day on a funded day.
PlanMeets(creditDay) ==
  \E a \in RulesPlan(ctx) :
    DayOf(ctx.failure_dom, a.day_offset) \in FundedDays(creditDay)

WaitsForSalary == ClassConfig(RulesClass(ctx)).timing = "salary_window"

\* Waiting for the salary pays: with a true credit day for a hint, the silent
\* retries reach the account on a funded day; without one, those of a failure after
\* the payday cluster reach every payer credited from the 1st to the 5th, though
\* not, as the cluster has it, to the 7th (timing.py:24 and 36); and none is spent
\* on the day of the failure.
SalaryPlanHitsFunds ==
  WaitsForSalary =>
    /\ \A a \in RulesPlan(ctx) : a.day_offset # 0
    /\ ctx.credit_day # NoHint => PlanMeets(ctx.credit_day)
    /\ (ctx.credit_day = NoHint /\ ctx.failure_dom > 7) =>
         \A creditDay \in 1 .. 5 : PlanMeets(creditDay)

\* The agent always comes back with a decision, whatever the model does.
AlwaysDecides == <>(stage = "done")
=============================================================================
