------------------------------ MODULE MCAgent -------------------------------
\* Constants of the agent's runs: the cases the agent is asked about.
EXTENDS Agent, Shipped

\* Every reason with every code on one day, and a missed salary on every day of
\* the month with every credit day the batch generator draws.
AllContexts ==
  [reason : DOMAIN ShippedReasons \cup {"unheard_of"},
   code : DOMAIN ShippedCodes \cup {"BAD_REQUEST_ERROR"},
   failure_dom : {15}, credit_day : {NoHint}]
  \cup
  [reason : {"insufficient_funds"}, code : {"BAD_REQUEST_ERROR"},
   failure_dom : DaysOfMonth, credit_day : {NoHint} \cup 1 .. 7]
=============================================================================
