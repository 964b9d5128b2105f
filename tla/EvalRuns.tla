------------------------------- MODULE EvalRuns -------------------------------
(***************************************************************************)
(* The evaluations a server runs at the same time: POST /eval/run and the  *)
(* page of a run (api/routes_eval.py, routes_ui.py), the cost overrides    *)
(* they share (config/costs.py), the break-even search behind the page     *)
(* (eval/break_even.py) and the store of the finished runs                 *)
(* (eval/run_store.py).                                                    *)
(*                                                                         *)
(* Requests run in the threads of a pool, the form in the event loop.  One *)
(* cost, the knob, is followed from its lookup into the numbers; what a    *)
(* batch is worth at a value of the knob is the constant Net, and one      *)
(* lookup stands for all those of one policy's batch.                      *)
(***************************************************************************)
EXTENDS Integers, Sequences, FiniteSets

CONSTANTS
  Requests,       \* the requests; each is also the id of the run it may save
  OldRun,         \* a run saved before the server was started
  Knob,           \* the cost the break-even search turns: attempt.sms_dlt
  Default,        \* its value in config/costs.json
  FormOverrides,  \* what the assumptions panel may send: sets of costs and values
  Low, High,      \* the ends of the search
  MaxIter,        \* its halvings
  Tolerance,      \* how near to zero is zero
  Costs,          \* the values of the knob a batch may be scored at
  Net(_, _, _),   \* net result of a run's batch under a policy at such a value
  MaxFaults       \* bound: restarts and failed writes together

Policies == {"ours", "b2"}

\* A dict of overrides is a function on the costs it overrides.
NoOverrides == [k \in {} |-> 0]

ASSUME RunsAssumption == OldRun \notin Requests

\* The width of the bracket after i halvings.  The code's bracket is of floating
\* point numbers, the model's of integers that can be halved so often.
Width(i) == (High - Low) \div (2 ^ i)

ASSUME SearchAssumption ==
  /\ Low \in Int /\ High \in Int /\ Low < High /\ Tolerance \in Nat
  /\ MaxIter \in Nat \ {0}
  /\ Width(0) = High - Low
  /\ \A i \in 0 .. MaxIter : Width(i) \in Nat
  /\ \A i \in 0 .. MaxIter - 1 : Width(i) = 2 * Width(i + 1)
ASSUME OverridesAssumption == NoOverrides \in FormOverrides
ASSUME CostsAssumption ==
  /\ Low .. High \subseteq Costs /\ Default \in Costs
  /\ \A own \in FormOverrides : Knob \in DOMAIN own => own[Knob] \in Costs
ASSUME FaultsAssumption == MaxFaults \in Nat
ASSUME NetAssumption ==
  \A run \in Requests \cup {OldRun}, policy \in Policies, value \in Costs :
    Net(run, policy, value) \in Int

VARIABLES
  overrides,   \* config.costs._overrides
  stores,      \* the runs in the memory of each EvalRunStore that was built
  store,       \* run_store._STORE, an index of stores; 0 is None
  files,       \* the JSON file of each run
  req,         \* the thread of each request
  faults,
  disturbed,   \* history: the requests that overlapped one with overrides
  rebuilt,     \* history: a second store has taken the place of the first
  answered     \* history: the runs a client was told of

vars == <<overrides, stores, store, files, req, faults, disturbed, rebuilt, answered>>

Runs == Requests \cup {OldRun}
Whole == {r \in Runs : files[r] = "whole"}

-----------------------------------------------------------------------------
\* The search: where it is, the bracket and the value at its left end.
Search == [step |-> "default", iter |-> 0, at |-> Default, left |-> Low,
           right |-> High, delta_low |-> 0, result |-> "none"]

\* of: the run whose batch is scored, that of another request for a view.
Asleep == [pc |-> "idle", kind |-> "eval", own |-> NoOverrides, of |-> OldRun,
           policy |-> "b2",
           used |-> [p \in Policies |-> Default], built |-> 0, handle |-> 0,
           search |-> Search]

Init ==
  /\ overrides = NoOverrides
  /\ stores = <<>>
  /\ store = 0
  /\ files = [r \in Runs |-> IF r = OldRun THEN "whole" ELSE "none"]
  /\ req = [r \in Requests |-> Asleep]
  /\ faults = 0
  /\ disturbed = {}
  /\ rebuilt = FALSE
  /\ answered = {OldRun}

Ended == {"idle", "done", "failed", "dead"}
InProgress == {r \in Requests : req[r].pc \notin Ended}
Overrides(r) == req[r].kind = "view" \/ req[r].own # NoOverrides
Goto(r, pc) == req' = [req EXCEPT ![r].pc = pc]

\* While the form's evaluation runs, the event loop takes no other request.
Begin(r, kind, own) ==
  LET overriding == kind = "view" \/ own # NoOverrides
  IN /\ req[r].pc = "idle"
     /\ \A q \in InProgress : req[q].kind # "form"
     /\ req' = [req EXCEPT ![r] =
                  [Asleep EXCEPT !.kind = kind, !.own = own, !.of = r,
                                 !.pc = IF kind = "view" THEN "get_store"
                                        ELSE IF overriding THEN "set" ELSE "contains"]]
     /\ disturbed' = disturbed
          \cup (IF overriding THEN InProgress ELSE {})
          \cup (IF \E q \in InProgress : Overrides(q) THEN {r} ELSE {})
     /\ UNCHANGED <<overrides, stores, store, files, faults, rebuilt, answered>>

Request(r) ==
  \/ Begin(r, "eval", NoOverrides)
  \/ \E own \in FormOverrides : Begin(r, "form", own)
  \/ Begin(r, "view", NoOverrides)

-----------------------------------------------------------------------------
(***************************************************************************)
(* The overrides and the lookups.                                          *)
(***************************************************************************)

\* The value a probe of the search sets.
Probe(s) ==
  CASE s.step = "default" -> s.at
    [] s.step = "low"     -> Low
    [] s.step = "high"    -> High
    [] s.step = "mid"     -> (s.left + s.right) \div 2

\* set_cost_overrides binds a new dict: what another request set is gone.
SetOverrides(r) ==
  /\ req[r].pc = "set"
  /\ overrides' = IF req[r].kind = "view"
                  THEN [k \in {Knob} |-> Probe(req[r].search)] ELSE req[r].own
  /\ Goto(r, "contains")
  /\ UNCHANGED <<stores, store, files, faults, disturbed, rebuilt, answered>>

\* run_eval scores B2 first, compare_seed scores Ours first.
First(kind) == IF kind = "view" THEN "ours" ELSE "b2"
Second(kind) == IF kind = "view" THEN "b2" ELSE "ours"

\* What follows a lookup: the other policy, then the record or, for a view, the
\* end of the probe.  A view's first lookup is that of the default.
Looked(q, value) ==
  LET s == [q EXCEPT !.used[q.policy] = value]
  IN IF q.policy = "default"
     THEN [q EXCEPT !.search.at = value, !.policy = First(q.kind), !.pc = "set"]
     ELSE IF q.policy = First(q.kind)
     THEN [s EXCEPT !.policy = Second(q.kind), !.pc = "contains"]
     ELSE [s EXCEPT !.policy = First(q.kind),
                    !.pc = IF q.kind = "view" THEN "clear" ELSE "get_store"]

\* Mutant: the file's value, whatever is overridden.
LooksUpFile(r) ==
  /\ req[r].pc = "contains"
  /\ req' = [req EXCEPT ![r] = Looked(@, Default)]
  /\ UNCHANGED <<overrides, stores, store, files, faults, disturbed, rebuilt, answered>>

\* get_cost: "key in _overrides" ...
LooksUp(r) ==
  /\ req[r].pc = "contains"
  /\ req' = [req EXCEPT ![r] = IF Knob \in DOMAIN overrides
                               THEN [@ EXCEPT !.pc = "fetch"] ELSE Looked(@, Default)]
  /\ UNCHANGED <<overrides, stores, store, files, faults, disturbed, rebuilt, answered>>

\* Mutant: no finally, an evaluation that raises leaves its overrides behind.
UnwindBare(q) == "failed"

\* Whether an evaluation that raises has overrides to clear on its way out.
Unwind(q) ==
  IF q.policy # "default" /\ (q.kind = "view" \/ q.own # NoOverrides)
  THEN "clear_failed" ELSE "failed"

\* ... and "_overrides[key]", a KeyError when they were cleared in between.
Fetch(r) ==
  /\ req[r].pc = "fetch"
  /\ req' = [req EXCEPT ![r] = IF Knob \in DOMAIN overrides
                               THEN Looked(@, overrides[Knob])
                               ELSE [@ EXCEPT !.pc = Unwind(req[r])]]
  /\ UNCHANGED <<overrides, stores, store, files, faults, disturbed, rebuilt, answered>>

-----------------------------------------------------------------------------
(***************************************************************************)
(* The search, between two probes.                                         *)
(***************************************************************************)
Magnitude(x) == IF x < 0 THEN -x ELSE x

\* The product of the two is not positive.
ChangesSign(x, y) == (x <= 0 /\ y >= 0) \/ (x >= 0 /\ y <= 0)

\* Mutant: the other half.
NarrowAway(s, mid, delta) ==
  IF ChangesSign(s.delta_low, delta)
  THEN [s EXCEPT !.left = mid, !.delta_low = delta, !.iter = @ + 1]
  ELSE [s EXCEPT !.right = mid, !.iter = @ + 1]

\* The half that keeps a change of sign.
Narrow(s, mid, delta) ==
  IF ChangesSign(s.delta_low, delta)
  THEN [s EXCEPT !.right = mid, !.iter = @ + 1]
  ELSE [s EXCEPT !.left = mid, !.delta_low = delta, !.iter = @ + 1]

\* Mutant: one halving too many.
MoreOnce(s) == s.iter <= MaxIter

More(s) == s.iter < MaxIter

Centre(s) == (s.left + s.right) \div 2

AfterProbe(s, delta) ==
  CASE s.step = "default" -> [s EXCEPT !.step = "low"]
    [] s.step = "low" -> [s EXCEPT !.step = "high", !.delta_low = delta]
    [] s.step = "high" /\ ~ChangesSign(s.delta_low, delta) ->
         [s EXCEPT !.step = "ended", !.result = "no_crossing"]
    [] s.step = "high" /\ ChangesSign(s.delta_low, delta) -> [s EXCEPT !.step = "mid"]
    [] s.step = "mid" /\ Magnitude(delta) <= Tolerance ->
         [s EXCEPT !.step = "ended", !.result = "found", !.left = Centre(s),
                   !.right = Centre(s)]
    [] s.step = "mid" /\ Magnitude(delta) > Tolerance ->
         LET half == Narrow(s, Centre(s), delta)
         IN IF More(half) THEN half
            ELSE [half EXCEPT !.step = "ended", !.result = "approximate"]

Delta(run, used) == Net(run, "ours", used["ours"]) - Net(run, "b2", used["b2"])

\* clear_cost_overrides empties the dict that is bound now, whoever set it.  It
\* ends a probe, an evaluation that was saved, and one that raised.
Clear(r) ==
  LET q == req[r]
      next == AfterProbe(q.search, Delta(q.of, q.used))
  IN /\ q.pc \in {"clear", "clear_failed"}
     /\ overrides' = NoOverrides
     /\ req' = [req EXCEPT ![r] =
          IF q.pc = "clear_failed" THEN [@ EXCEPT !.pc = "failed"]
          ELSE IF q.kind # "view" THEN [@ EXCEPT !.pc = "done"]
          ELSE [@ EXCEPT !.search = next, !.used = Asleep.used,
                         !.pc = IF next.step = "ended" THEN "done" ELSE "set"]]
     /\ answered' = IF q.pc = "clear" /\ q.kind # "view"
                    THEN answered \cup {r} ELSE answered
     /\ UNCHANGED <<stores, store, files, faults, disturbed, rebuilt>>

-----------------------------------------------------------------------------
(***************************************************************************)
(* The store.                                                              *)
(***************************************************************************)

\* get_store sees the global ...
GetStore(r) ==
  /\ req[r].pc = "get_store"
  /\ Goto(r, IF store = 0 THEN "load" ELSE "got_store")
  /\ UNCHANGED <<overrides, stores, store, files, faults, disturbed, rebuilt, answered>>

\* Mutant: the directory is not read.
LoadNothing(r) ==
  /\ req[r].pc = "load"
  /\ stores' = Append(stores, {})
  /\ req' = [req EXCEPT ![r].pc = "assign", ![r].built = Len(stores) + 1]
  /\ UNCHANGED <<overrides, store, files, faults, disturbed, rebuilt, answered>>

\* ... builds a store from the files that parse, when there was none ...
Load(r) ==
  /\ req[r].pc = "load"
  /\ stores' = Append(stores, Whole)
  /\ req' = [req EXCEPT ![r].pc = "assign", ![r].built = Len(stores) + 1]
  /\ UNCHANGED <<overrides, store, files, faults, disturbed, rebuilt, answered>>

\* ... assigns it ...
Assign(r) ==
  /\ req[r].pc = "assign"
  /\ store' = req[r].built
  /\ rebuilt' = (rebuilt \/ store # 0)
  /\ req' = [req EXCEPT ![r].pc = "got_store", ![r].built = 0]
  /\ UNCHANGED <<overrides, stores, files, faults, disturbed, answered>>

\* ... and returns the global.  A view gets a run from it that a client was told
\* of, and redirects when the store does not have it.
GotStore(r) ==
  /\ req[r].pc = "got_store"
  /\ \E run \in answered :
       req' = [req EXCEPT ![r] =
         IF @.kind # "view" THEN [@ EXCEPT !.pc = "save", !.handle = store]
         ELSE IF run \in stores[store]
         THEN [@ EXCEPT !.pc = "contains", !.policy = "default", !.of = run]
         ELSE [@ EXCEPT !.pc = "done"]]
  /\ UNCHANGED <<overrides, stores, store, files, faults, disturbed, rebuilt, answered>>

\* save, under the lock of that store: the memory first, then the file, which
\* write_text truncates before it writes.
SaveOpens(r) ==
  /\ req[r].pc = "save"
  /\ \A q \in Requests : ~(req[q].pc = "write" /\ req[q].handle = req[r].handle)
  /\ stores' = [stores EXCEPT ![req[r].handle] = @ \cup {r}]
  /\ files' = [files EXCEPT ![r] = "torn"]
  /\ Goto(r, "write")
  /\ UNCHANGED <<overrides, store, faults, disturbed, rebuilt, answered>>

SaveWrites(r) ==
  /\ req[r].pc = "write"
  /\ files' = [files EXCEPT ![r] = "whole"]
  /\ IF req[r].own = NoOverrides
     THEN Goto(r, "done") /\ answered' = answered \cup {r}
     ELSE Goto(r, "clear") /\ UNCHANGED answered
  /\ UNCHANGED <<overrides, stores, store, faults, disturbed, rebuilt>>

\* The disk is full: the record stays in memory, the request fails.
WriteFails(r) ==
  /\ req[r].pc = "write"
  /\ faults < MaxFaults
  /\ faults' = faults + 1
  /\ Goto(r, Unwind(req[r]))
  /\ UNCHANGED <<overrides, stores, store, files, disturbed, rebuilt, answered>>

\* The server is restarted: only the files survive.
Restart ==
  /\ faults < MaxFaults
  /\ faults' = faults + 1
  /\ overrides' = NoOverrides
  /\ stores' = <<>>
  /\ store' = 0
  /\ rebuilt' = FALSE
  /\ req' = [r \in Requests |-> IF r \in InProgress
                                THEN [Asleep EXCEPT !.pc = "dead"] ELSE req[r]]
  /\ UNCHANGED <<files, disturbed, answered>>

Advance(r) ==
  \/ SetOverrides(r) \/ LooksUp(r) \/ Fetch(r) \/ Clear(r)
  \/ GetStore(r) \/ Load(r) \/ Assign(r) \/ GotStore(r)
  \/ SaveOpens(r) \/ SaveWrites(r)

Next ==
  \/ \E r \in Requests : Request(r) \/ Advance(r) \/ WriteFails(r)
  \/ Restart

Spec == Init /\ [][Next]_vars
-----------------------------------------------------------------------------
\* Types; whatever was looked up is a cost a batch can be scored at.
TypeOK ==
  /\ overrides = NoOverrides \/ overrides \in FormOverrides
       \/ (DOMAIN overrides = {Knob} /\ overrides[Knob] \in Costs)
  /\ store \in 0 .. Len(stores)
  /\ \A i \in DOMAIN stores : stores[i] \subseteq Runs
  /\ files \in [Runs -> {"none", "torn", "whole"}]
  /\ \A r \in Requests :
       /\ req[r].kind \in {"eval", "form", "view"}
       /\ req[r].policy \in Policies \cup {"default"}
       /\ req[r].handle \in 0 .. Len(stores) \/ req[r].pc \in Ended
       /\ req[r].of \in Runs
       /\ \A p \in Policies : req[r].used[p] \in Costs
       /\ req[r].search.iter \in 0 .. MaxIter
  /\ faults \in 0 .. MaxFaults

\* What is bound as overrides was set by a request that is still in progress, in a
\* probe or an evaluation that will clear it: nothing is left behind for the
\* evaluations to come, whatever raised in between (service.py:96, break_even.py:45).
OverridesAreOwned ==
  overrides # NoOverrides =>
    \E r \in InProgress :
      /\ Overrides(r)
      /\ req[r].pc \in {"contains", "fetch", "clear", "clear_failed", "get_store",
                        "load", "assign", "got_store", "save", "write"}
      /\ overrides = IF req[r].kind = "view"
                     THEN [k \in {Knob} |-> Probe(req[r].search)] ELSE req[r].own

\* A run that overlapped no request with overrides was scored with its own costs,
\* with what the assumptions panel said over config/costs.json (service.py:37).
OwnCost(q) == IF Knob \in DOMAIN q.own THEN q.own[Knob] ELSE Default

ScoredWithItsOwnCosts ==
  \A r \in (answered \cap Requests) \ disturbed :
    \A p \in Policies : req[r].used[p] = OwnCost(req[r])

\* A page that overlapped no request with overrides shows a true break-even: the
\* default is the file's, no crossing means one sign at both ends, and a value is
\* within the tolerance, or the middle of a bracket around a change of sign that
\* the promised number of halvings has left (break_even.py:59).
TrueDelta(run, v) == Delta(run, [p \in Policies |-> v])

BreakEvenIsTrue ==
  \A r \in Requests \ disturbed :
    LET s == req[r].search
        At(v) == TrueDelta(req[r].of, v)
    IN req[r].kind = "view" /\ req[r].pc = "done" /\ s.step = "ended" =>
         /\ s.at = Default
         /\ CASE s.result = "no_crossing" -> ~ChangesSign(At(Low), At(High))
              [] s.result = "found" -> Magnitude(At(s.left)) <= Tolerance
              [] s.result = "approximate" ->
                   /\ ChangesSign(At(s.left), At(s.right))
                   /\ s.right - s.left = Width(MaxIter)

\* A run a client was told of is whole on disk, and GET /eval/runs/{id} finds it
\* in the store of the moment unless two requests have built one each; a restart
\* brings it back in any case (run_store.py:78, run_store.py:104).
AnsweredRunsAreFound ==
  /\ answered \subseteq Whole
  /\ store # 0 /\ ~rebuilt => answered \subseteq stores[store]
=============================================================================
