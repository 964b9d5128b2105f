------------------------------- MODULE Gates --------------------------------
(***************************************************************************)
(* The six hard gates of guard/gates.py as pure operators on a guard       *)
(* context.  A gate is a BOOLEAN: TRUE is "pass", FALSE is "block".  No    *)
(* gate rewrites the action and none reads a global: everything it may     *)
(* look at is a field of the context.                                      *)
(***************************************************************************)
EXTENDS Integers

Verbs == {"schedule_retry", "send_payment_link", "request_mandate_update",
          "escalate_human"}
LinkVerbs == {"send_payment_link", "request_mandate_update"}
Channels == {"none", "sms", "email", "link"}

\* "absent" is Python's None: the caller passed no mandate state.
MandateStates == {"active", "paused", "revoked", "expired", "unknown", "absent"}

\* "absent" is None; the other names are the classes of policy/taxonomy.yaml.
FailureClasses == {"absent", "insufficient_funds", "issuer_transient",
                   "gateway_timeout", "card_expired", "token_invalid",
                   "mandate_revoked", "risk_fraud", "do_not_honour", "ambiguous"}
ProhibitedFailureClasses == {"risk_fraud"}

\* The last two are the code of an agent's action, whatever the taxonomy or the
\* model wrote, and that of the demo's own link.
ReasonCodes == {"EXECUTE_DEMO", "UI_CREATE_LINK", "DEMO_PROPOSAL", "AGENT",
                "UI_DEMO_LINK_NOT_GATED"}

Action == [verb : Verbs, channel : Channels, day_offset : Nat,
           reason_code : ReasonCodes]

MinutesPerDay == 24 * 60

Fingerprints(caseIds) == [case_id : caseIds, verb : Verbs, day_offset : Nat,
                          channel : Channels, reason_code : ReasonCodes]

-----------------------------------------------------------------------------
\* What counts as touching the payer, and what counts as moving money.
IsContactAction(ctx) ==
  \/ ctx.action.verb \in LinkVerbs
  \/ ctx.action.channel \in {"sms", "email", "link"}

IsMoneyAction(ctx) ==
  ctx.action.verb \in {"schedule_retry", "send_payment_link",
                       "request_mandate_update"}

\* The clock of a context is a minute of the UTC day; the gate reads the hour
\* of that instant in India, UTC + 5:30.
HourIST(now) == ((now + 330) % MinutesPerDay) \div 60

GateProhibitedRecovery(ctx) ==
  \/ ctx.failure_class \notin ProhibitedFailureClasses
  \/ ctx.action.verb = "escalate_human"
  \/ ~(IsMoneyAction(ctx) \/ IsContactAction(ctx))

GateContactWindow(ctx) ==
  IsContactAction(ctx) => HourIST(ctx.now) \in 9 .. 20

GateFrequencyCap(ctx) ==
  IsContactAction(ctx) => ctx.contacts_used < ctx.max_contacts

GateMandateValidity(ctx) ==
  \/ ~IsMoneyAction(ctx)
  \/ ctx.mandate_state \notin {"revoked", "expired"}

GateAttemptCap(ctx) ==
  \/ ctx.action.verb = "escalate_human"
  \/ ctx.attempts_used < ctx.max_attempts

\* compose_fingerprint: the identity of one action on one case.  The clock, the
\* amount and the request are not part of it.
Fingerprint(caseId, action) ==
  [case_id |-> caseId, verb |-> action.verb, day_offset |-> action.day_offset,
   channel |-> action.channel, reason_code |-> action.reason_code]

GateIdempotency(ctx) ==
  Fingerprint(ctx.case_id, ctx.action) \notin ctx.executed_fingerprints

-----------------------------------------------------------------------------
GateNames == {"prohibited_recovery", "contact_window", "frequency_cap",
              "mandate_validity", "attempt_cap", "idempotency"}

\* run_gates: every gate is evaluated, also after one has blocked.
RunGates(ctx) ==
  [g \in GateNames |->
     CASE g = "prohibited_recovery" -> GateProhibitedRecovery(ctx)
       [] g = "contact_window"      -> GateContactWindow(ctx)
       [] g = "frequency_cap"       -> GateFrequencyCap(ctx)
       [] g = "mandate_validity"    -> GateMandateValidity(ctx)
       [] g = "attempt_cap"         -> GateAttemptCap(ctx)
       [] g = "idempotency"         -> GateIdempotency(ctx)]

AllPassed(checks) == \A g \in GateNames : checks[g]
=============================================================================
