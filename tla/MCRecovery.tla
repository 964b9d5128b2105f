---------------------------- MODULE MCRecovery ------------------------------
(***************************************************************************)
(* Small instances of RecoveryService.                                     *)
(***************************************************************************)
EXTENDS RecoveryPromises, TLC

CONSTANTS c1, c2, c3

\* 06:00 UTC is 11:30 in India; 18:30 UTC is midnight there.
Day == 6 * 60
Night == 18 * 60 + 30

Body(endpoint, case, verb, offset, mode) ==
  [endpoint |-> endpoint, case |-> case,
   action |-> [verb |-> verb, day_offset |-> offset,
               channel |-> IF verb \in LinkVerbs THEN "link" ELSE "none",
               reason_code |-> CASE endpoint = "execute_run" -> "EXECUTE_DEMO"
                                 [] endpoint = "create_link" -> "UI_CREATE_LINK"
                                 [] endpoint = "guard_check" -> "DEMO_PROPOSAL"],
   now |-> Day, attempts_used |-> 0, contacts_used |-> 0, max_attempts |-> 3,
   max_contacts |-> 2, mandate_state |-> "active", opt_out |-> FALSE, mode |-> mode]

RetryC1 == Body("execute_run", c1, "schedule_retry", 0, "sim")
LinkC1 == Body("create_link", c1, "send_payment_link", 0, "razorpay")
NightLinkC1 == [Body("execute_run", c1, "send_payment_link", 1, "razorpay")
                  EXCEPT !.now = Night]
OptOutC1 == [RetryC1 EXCEPT !.opt_out = TRUE]
EscalateC1 == Body("execute_run", c1, "escalate_human", 0, "razorpay")
LinkNew == Body("execute_run", New, "send_payment_link", 0, "razorpay")
StubNew == Body("guard_check", New, "send_payment_link", 0, "stub")
CheckNew == Body("guard_check", New, "send_payment_link", 0, "none")

\* One open case whose diagnosis is not prohibited.
OneCase == c1 :> "card_expired"
NoCases == <<>>
FraudCase == c1 :> "risk_fraud"

MixedRequests == {RetryC1, LinkC1, NightLinkC1, OptOutC1}
SerialRequests == {RetryC1, [RetryC1 EXCEPT !.action.day_offset = 1], LinkC1,
                   NightLinkC1, OptOutC1, EscalateC1, LinkNew, StubNew, CheckNew}
DeliveryRequests == {LinkC1, LinkNew, StubNew}
RetryLadder == {[RetryC1 EXCEPT !.action.day_offset = d] : d \in 0 .. 3}
LinkButton == {LinkC1}

Symmetry == Permutations(Requests) \cup Permutations(Workers)
=============================================================================
