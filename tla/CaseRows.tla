------------------------------ MODULE CaseRows ------------------------------
(***************************************************************************)
(* The case row of ledger/models.py and what happens to it: it is created  *)
(* open, loaded into a session, changed there, and flushed column by       *)
(* column.  guard/stops.py closes it.                                      *)
(***************************************************************************)
EXTENDS Gates

Statuses == {"open", "blocked", "stopped", "recovered"}
StopReasons == {"recovered", "opt_out"}

CaseRow == [status : Statuses, stop_reason : StopReasons \cup {"absent"},
            attempts_used : Nat, contacts_used : Nat,
            failure_class : FailureClasses]

FreshCase(class) ==
  [status |-> "open", stop_reason |-> "absent", attempts_used |-> 0,
   contacts_used |-> 0, failure_class |-> class]

\* Mutant: the opt-out is forgotten, only a recovery counts as a stop.
IsRecovered(c) == c.status = "recovered"

IsStopped(c) == c.status \in {"stopped", "recovered"}

\* What a flush writes: the columns that changed since the row was loaded.
Merge(loaded, inMemory, stored) ==
  [col \in DOMAIN stored |->
     IF inMemory[col] = loaded[col] THEN stored[col] ELSE inMemory[col]]

\* Mutant: the outcome's status lands in the case's status column.
PaidCaseAsOutcome(loaded) == [loaded EXCEPT !.status = "paid"]

PaidCase(loaded) ==
  IF loaded.status = "recovered" THEN loaded
  ELSE [loaded EXCEPT !.status = "recovered", !.stop_reason = "recovered"]
=============================================================================
