------------------------------- MODULE MCLive -------------------------------
\* Constants of the live demo's runs.
EXTENDS LiveFlow, TLC

Streamed(live) == [streamed |-> TRUE, live |-> live, refuse |-> FALSE]
DrainedLive == [streamed |-> FALSE, live |-> TRUE, refuse |-> FALSE]
Refused == [streamed |-> FALSE, live |-> FALSE, refuse |-> TRUE]

\* The ways a run is called that differ in threads, execution and gates.
AllCalls == {Streamed(TRUE), Streamed(FALSE), DrainedLive, Refused}
FewCalls == {Streamed(TRUE), Refused}

Decide(class, verb, channel) ==
  [class |-> class, drafted |-> verb \in LinkVerbs,
   action |-> [verb |-> verb, channel |-> channel, day_offset |-> 0,
               reason_code |-> "AGENT"]]

Retry == Decide("issuer_transient", "schedule_retry", "none")
Pay == Decide("card_expired", "send_payment_link", "link")
Renew == Decide("mandate_revoked", "request_mandate_update", "link")
Escalate == Decide("risk_fraud", "escalate_human", "none")

\* One decision for each way in which the agent's action and the demo's own link
\* can meet: the link is the action, or stands in for it always, after a lost
\* answer, or never.
AllDecisions == {Retry, Pay, Renew, Escalate}
FewDecisions == {Retry, Escalate}

Symmetry == Permutations(Streams) \cup Permutations(Links)
=============================================================================
