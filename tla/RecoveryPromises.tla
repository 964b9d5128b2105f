-------------------------- MODULE RecoveryPromises ---------------------------
(***************************************************************************)
(* The two abstract specifications that RecoveryService implements, read   *)
(* off its ledger and its committed case rows.                             *)
(***************************************************************************)
EXTENDS RecoveryService

\* Where an event was recorded: the positions of the committed transactions that
\* hold its row.
RecordedAt(e) == {i \in DOMAIN ledger : EventRow(e) \in ledger[i].rows}

TheInbox == INSTANCE Inbox WITH
  entries <- [e \in Events |-> RecordedAt(e)]

\* Exactly-once delivery over at-least-once transport: two workers, redelivery,
\* a lost answer, a rolled-back transaction or a crash never make the webhook
\* endpoint record an event twice or acknowledge one it has not committed.
ImplementsInbox == TheInbox!Spec

\* What was executed on a case, and in which committed transaction.
Executions(c) ==
  UNION {{[action |-> fp, at |-> i] : fp \in ExecutedIn(i)} :
           i \in {j \in DOMAIN ledger : ledger[j].case = c}}

TheContract == INSTANCE CaseContract WITH
  status <- [c \in Cases |-> IF cases[c] = None THEN "none" ELSE cases[c].status],
  executed <- [c \in Cases |-> Executions(c)]

\* While handlers run one at a time, every committed transaction is a step the
\* contract of its case allows, also when a crash cuts one off half way.
ImplementsContract == TheContract!Spec
=============================================================================
