---------------------------- MODULE Deliberation ----------------------------
(***************************************************************************)
(* What the rest of the system may rely on when it asks the agent for a    *)
(* decision: one result, reached in one step, that a model can influence   *)
(* only within the taxonomy and that never claims a model's authority for  *)
(* what the rules decided.                                                 *)
(***************************************************************************)
EXTENDS Gates

CONSTANTS
  Contexts,         \* the cases the agent may be asked about
  RulesAction(_),   \* what the rules do first on a case
  Legal(_, _),      \* whether an action is one the taxonomy allows for a class
  NoResult          \* the agent has not answered

AgentSources == {"llm", "rules_fallback"}

\* A result is what AgentRunResult carries: the diagnosed class, the action, who
\* decided it and whose words the payer reads.
KeepsPromise(ctx, r) ==
  /\ r.source \in AgentSources
  /\ r.source = "llm" => Legal(r.action, r.class)
  /\ r.source = "rules_fallback" => r.action = RulesAction(ctx)
  /\ r.message = "none" <=> r.action.verb \notin LinkVerbs
  /\ r.message = "llm" => r.source = "llm"

-----------------------------------------------------------------------------
VARIABLES ctx, decided, result

Init ==
  /\ ctx \in Contexts
  /\ decided = FALSE
  /\ result = NoResult

Decide ==
  /\ ~decided
  /\ decided'
  /\ KeepsPromise(ctx, result')
  /\ UNCHANGED ctx

Spec == Init /\ [][Decide]_<<ctx, decided, result>>
=============================================================================
