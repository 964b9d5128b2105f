------------------------------- MODULE Shipped -------------------------------
\* The configuration as shipped: policy/taxonomy.yaml, fixtures/decline_codes.json
\* and config/costs.json.
EXTENDS Policy

Dead(verb) == [category |-> "dead", default_verb |-> verb, allow_contact |-> TRUE,
               max_retries |-> 0, timing |-> "immediate_contact"]

Transient == [category |-> "transient", default_verb |-> "schedule_retry",
              allow_contact |-> FALSE, max_retries |-> 2, timing |-> "short_backoff"]

ShippedTaxonomy ==
  [c \in FailureClasses \ {"absent"} |->
     CASE c = "insufficient_funds" ->
            [category |-> "time_shiftable", default_verb |-> "schedule_retry",
             allow_contact |-> FALSE, max_retries |-> 4, timing |-> "salary_window"]
       [] c \in {"issuer_transient", "gateway_timeout"} -> Transient
       [] c \in {"card_expired", "token_invalid"} -> Dead("send_payment_link")
       [] c = "mandate_revoked" -> Dead("request_mandate_update")
       [] c = "risk_fraud" ->
            [category |-> "stop", default_verb |-> "escalate_human",
             allow_contact |-> FALSE, max_retries |-> 0, timing |-> "none"]
       [] c = "do_not_honour" ->
            [category |-> "ambiguous", default_verb |-> "schedule_retry",
             allow_contact |-> TRUE, max_retries |-> 1, timing |-> "spaced_then_link"]
       [] c = "ambiguous" ->
            [category |-> "ambiguous", default_verb |-> "escalate_human",
             allow_contact |-> FALSE, max_retries |-> 0, timing |-> "none"]]

ShippedReasons ==
  [r \in {"insufficient_funds", "card_expired", "card_declined", "payment_failed",
          "do_not_honour", "issuer_decline", "gateway_timeout", "gateway_error",
          "bank_technical_error", "issuer_transient", "token_invalid",
          "card_reissued", "mandate_revoked", "mandate_cancelled",
          "payment_risk_check_failed", "risk_fraud", "fraud"} |->
     CASE r \in {"card_declined", "payment_failed", "issuer_decline"} -> "do_not_honour"
       [] r \in {"gateway_error", "bank_technical_error"} -> "issuer_transient"
       [] r = "card_reissued" -> "token_invalid"
       [] r = "mandate_cancelled" -> "mandate_revoked"
       [] r \in {"payment_risk_check_failed", "fraud"} -> "risk_fraud"
       [] OTHER -> r]

ShippedCodes ==
  [code \in {"GATEWAY_ERROR", "SERVER_ERROR"} |-> "issuer_transient"]

\* In paise, percent and per mille.
ShippedRates ==
  [psp_fee |-> 0, sms_dlt |-> 20, whatsapp_utility |-> 12,
   excess_retry_penalty |-> 0, mdr_pct |-> 2, chargeback_fee |-> 150000,
   support_ticket |-> 3500, decay_per_mille |-> 2, churn_pct |-> 1, ltv |-> 480000,
   max_attempts |-> 15]
=============================================================================
