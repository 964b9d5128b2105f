----------------------------- MODULE Executors ------------------------------
(***************************************************************************)
(* The two adapters of execute/, and what execute_with_guards does to the  *)
(* case with an adapter's result.  Amounts and the simulator's draw are    *)
(* abstracted to the set of results an adapter can return for a verb.      *)
(***************************************************************************)
EXTENDS CaseRows

\* What an adapter call may come back with.  "link" is a link created at the
\* provider and reported back; "lost" is one whose answer never arrived (the
\* POST raised after the provider acted); "none" leaves the provider alone
\* (sim, dry run, HTTP error, retry intent, reconciliation).
Result(status, recovered, effect) ==
  [status |-> status, recovered |-> recovered, effect |-> effect]

SimExecutor(verb) ==
  CASE verb = "escalate_human" -> {Result("escalated", FALSE, "none")}
    [] verb = "schedule_retry" -> {Result("ok", TRUE, "none"),
                                   Result("failed", FALSE, "none")}
    [] verb \in LinkVerbs      -> {Result("created_link", b, "none") : b \in BOOLEAN}

RazorpayExecutor(verb) ==
  CASE verb = "escalate_human" -> {Result("escalated", FALSE, "none")}
    [] verb = "schedule_retry" -> {Result("reconciled_skip", TRUE, "none"),
                                   Result("failed", FALSE, "none"),
                                   Result("ok", FALSE, "none")}
    [] verb \in LinkVerbs      -> {Result("created_link", FALSE, "link"),
                                   Result("created_link", FALSE, "none"),
                                   Result("failed", FALSE, "none"),
                                   Result("failed", FALSE, "lost")}

\* Mutant: a recovered run is counted as well.
AfterAnyResult(c, verb, o) ==
  LET counted == CASE verb = "schedule_retry" -> [c EXCEPT !.attempts_used = @ + 1]
                   [] verb \in LinkVerbs      -> [c EXCEPT !.contacts_used = @ + 1]
                   [] OTHER                   -> c
  IN IF o.recovered
       THEN [counted EXCEPT !.status = "recovered", !.stop_reason = "recovered"]
       ELSE counted

\* Mutant: a failed call is not counted.
AfterGoodResult(c, verb, o) ==
  IF o.recovered
    THEN [c EXCEPT !.status = "recovered", !.stop_reason = "recovered"]
    ELSE CASE o.status = "failed"        -> c
           [] verb = "schedule_retry"    -> [c EXCEPT !.attempts_used = @ + 1]
           [] verb \in LinkVerbs         -> [c EXCEPT !.contacts_used = @ + 1]
           [] OTHER                      -> c

\* The case after the adapter: recovered closes it, otherwise a counter goes up,
\* counted from the value the request loaded.
AfterResult(c, verb, o) ==
  IF o.recovered
    THEN [c EXCEPT !.status = "recovered", !.stop_reason = "recovered"]
    ELSE CASE verb = "schedule_retry" -> [c EXCEPT !.attempts_used = @ + 1]
           [] verb \in LinkVerbs      -> [c EXCEPT !.contacts_used = @ + 1]
           [] OTHER                   -> c
=============================================================================
