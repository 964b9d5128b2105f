---------------------------- MODULE CaseContract -----------------------------
(***************************************************************************)
(* What the recovery agent promises about a case, one transaction at a     *)
(* time.  Automation runs on a case only while it is not closed, never     *)
(* runs the same action twice, and never reopens what it or the payer has  *)
(* closed; a payment is taken on any case.                                 *)
(***************************************************************************)
CONSTANT Cases

VARIABLES
  status,   \* [Cases -> "none", "open", "blocked", "stopped" or "recovered"]
  executed  \* [Cases -> the executions on the case, each [action, at]]

contractVars == <<status, executed>>

Init ==
  /\ status \in [Cases -> {"none", "open"}]
  /\ executed = [c \in Cases |-> {}]

Closed(c) == status[c] \in {"stopped", "recovered"}

\* The case is opened, let through with nothing to do, refused, or opted out of.
Settle(c) ==
  /\ ~Closed(c)
  /\ \E s \in {"open", "blocked", "stopped"} : status' = [status EXCEPT ![c] = s]
  /\ UNCHANGED executed

\* One more execution, of an action that was not executed before.
Act(c) ==
  /\ ~Closed(c)
  /\ \E x \in executed'[c] :
       /\ \A y \in executed[c] : y.action # x.action
       /\ executed' = [executed EXCEPT ![c] = @ \cup {x}]
  /\ \E s \in {"open", "recovered"} : status' = [status EXCEPT ![c] = s]

Pay(c) ==
  /\ status[c] # "none"
  /\ status' = [status EXCEPT ![c] = "recovered"]
  /\ UNCHANGED executed

Next == \E c \in Cases : Settle(c) \/ Act(c) \/ Pay(c)

Spec == Init /\ [][Next]_contractVars
=============================================================================
