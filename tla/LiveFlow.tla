------------------------------ MODULE LiveFlow ------------------------------
(***************************************************************************)
(* The live demo, demo/live_flow.py: a generator that opens a case, lets   *)
(* the agent think, records what it said, runs the gates and executes,     *)
(* and between all that yields progress to the browser.                    *)
(*                                                                         *)
(* Three resources tie its runs to each other and to the webhook.          *)
(*                                                                         *)
(*   - SQLite's write lock.  Two transactions: the first opens the case,   *)
(*     the second runs from the agent's rows to the commit and keeps the   *)
(*     lock across every yield in between.                                 *)
(*   - The server's thread pool.  A streamed run (think_stream) takes a    *)
(*     thread for the way from one yield to the next, gives it back, and   *)
(*     needs another to go on.  A drained run (run_ai_demo_case) keeps     *)
(*     one thread to its end.                                              *)
(*   - The event loop, which has to pass on a chunk before it asks for     *)
(*     the next, and which the webhook handler, an async def around        *)
(*     blocking database calls, occupies until it has answered.            *)
(*                                                                         *)
(* Each run opens a case of its own, so the run names the case.  The       *)
(* ledger is the set of rows committed for a case, each tagged with its    *)
(* writer.  Memory retrieval is left out: a network call while the agent   *)
(* thinks, and one row beside the agent's.                                 *)
(***************************************************************************)
EXTENDS Executors, FiniteSets

CONSTANTS
  Streams,     \* runs of the demo
  Calls,       \* how they may be called
  Decisions,   \* what the agent may come back with
  Links,       \* payment link ids the provider may hand out
  Threads,     \* size of the thread pool
  MaxPresses,  \* bound on presses of the case page's link button
  MaxFaults,   \* bound on restarts of the server
  None         \* no case, no lock holder, no webhook, ...

\* live and refuse are create_payment_link and refuse_at_gate.  A refused run
\* is never live, and think_stream cannot ask for one.
Call == {q \in [streamed : BOOLEAN, live : BOOLEAN, refuse : BOOLEAN] :
           q.refuse => ~q.live /\ ~q.streamed}

\* The part of AgentRunResult that is stored, with the promise of Deliberation
\* that a contact comes with words and nothing else does.
Decision ==
  {d \in [class : FailureClasses \ {"absent"}, action : Action, drafted : BOOLEAN] :
     d.drafted <=> d.action.verb \in LinkVerbs}

ASSUME CallAssumption == Calls \subseteq Call

ASSUME DecisionAssumption ==
  /\ Decisions \subseteq Decision
  /\ \A d \in Decisions : d.action.reason_code = "AGENT"

ASSUME BoundAssumption ==
  /\ IsFiniteSet(Streams)
  /\ Threads \in Nat \ {0}
  /\ MaxPresses \in Nat
  /\ MaxFaults \in Nat

ASSUME NoneAssumption ==
  None \notin Streams \cup Links \cup CaseRow \cup Call \cup Decision
              \cup Fingerprints(Streams)

-----------------------------------------------------------------------------
\* Ledger rows.  A draft is an action row without an action: the replay of
\* fingerprints skips it.
Writers == {"stream", "button", "webhook"}

EventRow(by) == [by |-> by, kind |-> "event"]
ClassificationRow(class) == [by |-> "stream", kind |-> "classification", class |-> class]
DecisionRow(action) == [by |-> "stream", kind |-> "decision", action |-> action]
GateRow(by, checks) == [by |-> by, kind |-> "gate_check", checks |-> checks]
OutcomeRow(by, status, link) == [by |-> by, kind |-> "outcome", status |-> status,
                                 external_id |-> link]
ActionRow(by, fp) == [by |-> by, kind |-> "action", action_fingerprint |-> fp]
StopRow(by) == [by |-> by, kind |-> "stop"]

DraftRow == ActionRow("stream", None)

Row ==
  [by : Writers, kind : {"event", "stop"}]
  \cup [by : Writers, kind : {"classification"}, class : FailureClasses]
  \cup [by : Writers, kind : {"decision"}, action : Action]
  \cup [by : Writers, kind : {"gate_check"}, checks : [GateNames -> BOOLEAN]]
  \cup [by : Writers, kind : {"outcome"},
        status : {"ok", "failed", "created_link", "escalated", "paid"},
        external_id : Links \cup {None}]
  \cup [by : Writers, kind : {"action"},
        action_fingerprint : Fingerprints(Streams) \cup {None}]

\* persist_agent_run
AgentRows(d) ==
  {ClassificationRow(d.class), DecisionRow(d.action)}
  \cup (IF d.drafted THEN {DraftRow} ELSE {})

-----------------------------------------------------------------------------
VARIABLES
  cases,      \* [Streams -> CaseRow or None], committed
  ledger,     \* [Streams -> set of rows], committed
  lock,       \* the run that holds the write lock
  at,         \* where a run stands
  thread,     \* whether it occupies a thread of the pool
  call, decision, snap, row, rows,
  hook,       \* the link whose paid event occupies the event loop
  hookSnap,   \* the case as the webhook handler loaded it
  links,      \* [Links -> the case and the fingerprint it was created for, paid]
  acked,      \* links whose paid event was answered with a 2xx
  presses, faults

dbVars == <<cases, ledger>>
sessionVars == <<decision, snap, row, rows>>
hookVars == <<hook, hookSnap>>
providerVars == <<links, acked>>
boundVars == <<presses, faults>>
vars == <<dbVars, lock, at, thread, call, sessionVars, hookVars, providerVars,
          boundVars>>

\* The points of a run.  "done" has seen its result, "failed" got an error,
\* "gone" lost its client or its server.
Ended == {"done", "failed", "gone"}
Points == {"open", "think", "load", "persist", "gate", "execute", "demo",
           "commit", "tell"}
Stages == Points \cup Ended \cup {"idle"}

Init ==
  /\ cases = [s \in Streams |-> None]
  /\ ledger = [s \in Streams |-> {}]
  /\ lock = None
  /\ at = [s \in Streams |-> "idle"]
  /\ thread = [s \in Streams |-> FALSE]
  /\ call = [s \in Streams |-> None]
  /\ decision = [s \in Streams |-> None]
  /\ snap = [s \in Streams |-> None]
  /\ row = [s \in Streams |-> None]
  /\ rows = [s \in Streams |-> {}]
  /\ hook = None
  /\ hookSnap = None
  /\ links = [l \in Links |-> [case |-> None, created_for |-> None, paid |-> FALSE]]
  /\ acked = {}
  /\ presses = 0
  /\ faults = 0

-----------------------------------------------------------------------------
(***************************************************************************)
(* Threads and the event loop.                                             *)
(***************************************************************************)
LoopFree == hook = None

\* Mutant: the pool is one thread larger than it is.
ThreadFreeLoosely == Cardinality({s \in Streams : thread[s]}) <= Threads

ThreadFree == Cardinality({s \in Streams : thread[s]}) < Threads

\* Going on within the same thread, and going on to the next yield: there a
\* streamed run gives its thread back.
GoOn(s, point) ==
  /\ at' = [at EXCEPT ![s] = point]
  /\ UNCHANGED thread

Yield(s, point) ==
  /\ at' = [at EXCEPT ![s] = point]
  /\ thread' = [thread EXCEPT ![s] = ~call[s].streamed]

\* The run is over and its session closed.
End(s, how) ==
  /\ at' = [at EXCEPT ![s] = how]
  /\ thread' = [thread EXCEPT ![s] = FALSE]
  /\ decision' = [decision EXCEPT ![s] = None]
  /\ snap' = [snap EXCEPT ![s] = None]
  /\ row' = [row EXCEPT ![s] = None]
  /\ rows' = [rows EXCEPT ![s] = {}]

Running(s, point) == at[s] = point /\ thread[s]

\* GET /ui/demo/think or POST /ui/demo/ai-case.
Request(s) ==
  /\ at[s] = "idle"
  /\ LoopFree
  /\ ThreadFree
  /\ \E q \in Calls :
       /\ call' = [call EXCEPT ![s] = q]
       /\ thread' = [thread EXCEPT ![s] = ~q.streamed]
  /\ at' = [at EXCEPT ![s] = "open"]
  /\ UNCHANGED <<dbVars, lock, sessionVars, hookVars, providerVars, boundVars>>

\* The loop has passed on the last chunk and asks a thread for the next one.
Resume(s) ==
  /\ at[s] \in Points
  /\ ~thread[s]
  /\ LoopFree
  /\ ThreadFree
  /\ thread' = [thread EXCEPT ![s] = TRUE]
  /\ UNCHANGED <<dbVars, lock, at, call, sessionVars, hookVars, providerVars,
                 boundVars>>

-----------------------------------------------------------------------------
(***************************************************************************)
(* The run.                                                                *)
(***************************************************************************)

\* The first transaction: ingest_risk_event and its commit.
OpenCase(s) ==
  /\ Running(s, "open")
  /\ lock = None
  /\ cases' = [cases EXCEPT ![s] = FreshCase("absent")]
  /\ ledger' = [ledger EXCEPT ![s] = {EventRow("stream")}]
  /\ Yield(s, "think")
  /\ UNCHANGED <<lock, call, sessionVars, hookVars, providerVars, boundVars>>

\* agent.run, without a session.
Think(s) ==
  /\ Running(s, "think")
  /\ \E d \in Decisions : decision' = [decision EXCEPT ![s] = d]
  /\ Yield(s, "load")
  /\ UNCHANGED <<dbVars, lock, call, snap, row, rows, hookVars, providerVars,
                 boundVars>>

\* The second session loads the case ...
LoadCase(s) ==
  /\ Running(s, "load")
  /\ snap' = [snap EXCEPT ![s] = cases[s]]
  /\ row' = [row EXCEPT ![s] = cases[s]]
  /\ GoOn(s, "persist")
  /\ UNCHANGED <<dbVars, lock, call, decision, rows, hookVars, providerVars,
                 boundVars>>

\* ... and its first row takes the lock, which is kept across the yield.
Persist(s) ==
  /\ Running(s, "persist")
  /\ lock = None
  /\ lock' = s
  /\ rows' = [rows EXCEPT ![s] = AgentRows(decision[s])]
  /\ row' = [row EXCEPT ![s].failure_class = decision[s].class]
  /\ Yield(s, "gate")
  /\ UNCHANGED <<dbVars, call, decision, snap, hookVars, providerVars, boundVars>>

-----------------------------------------------------------------------------
(***************************************************************************)
(* Gates and execution, under the lock.                                    *)
(***************************************************************************)
Daytime == 6 * 60
Nighttime == 18 * 60 + 30

\* The GuardContext of a run and of the button: counters from the row, the
\* defaults of guard/context.py for the caps.
Context(s, loaded, action, class, now, pending) ==
  [case_id |-> s, action |-> action, now |-> now, failure_class |-> class,
   attempts_used |-> loaded.attempts_used, contacts_used |-> loaded.contacts_used,
   max_attempts |-> 3, max_contacts |-> 2, mandate_state |-> "active",
   executed_fingerprints |->
     {a.action_fingerprint : a \in {x \in ledger[s] \cup pending : x.kind = "action"}}
       \ {None}]

\* The links of the case page's button and of the demo itself.
LinkAction(reasonCode) ==
  [verb |-> "send_payment_link", channel |-> "link", day_offset |-> 0,
   reason_code |-> reasonCode]

\* Mutant: the gates judge the link the page would like to show.
PageAction(s) == LinkAction("AGENT")

\* "gates must validate the agent's action only"
GatedAction(s) == decision[s].action

\* guard_and_maybe_execute up to the adapter.  A case that was loaded as stopped
\* is left alone, and nothing is yielded for it.
Gate(s) ==
  LET checks == RunGates(Context(s, row[s], GatedAction(s), decision[s].class,
                                 IF call[s].refuse THEN Nighttime ELSE Daytime,
                                 rows[s]))
      Record(status) ==
        /\ rows' = [rows EXCEPT ![s] = @ \cup {GateRow("stream", checks)}]
        /\ row' = [row EXCEPT ![s].status = status]
  IN
  /\ Running(s, "gate")
  /\ \/ IsStopped(row[s]) /\ GoOn(s, "commit") /\ UNCHANGED <<rows, row>>
     \/ /\ ~IsStopped(row[s])
        /\ ~AllPassed(checks)
        /\ Record("blocked")
        /\ Yield(s, "commit")
     \/ /\ ~IsStopped(row[s])
        /\ AllPassed(checks)
        /\ Record("open")
        /\ IF call[s].live THEN GoOn(s, "execute") ELSE Yield(s, "commit")
  /\ UNCHANGED <<dbVars, lock, call, decision, snap, hookVars, providerVars,
                 boundVars>>

\* The demo knows no payment id, so a retry is an intent at once.
LiveResults(verb) ==
  {o \in RazorpayExecutor(verb) : verb = "schedule_retry" => o.status = "ok"}

HasExternalId(o) == o.status \in {"ok", "created_link"}

\* The provider acts on a call, or does not.
CallProvider(s, o, l, fp) ==
  links' = IF o.effect = "none" THEN links
           ELSE [links EXCEPT ![l] = [case |-> s, created_for |-> fp, paid |-> FALSE]]

\* _exec, the action row, and then the question whether the page has a link.
Execute(s) ==
  LET action == GatedAction(s)
      fp == Fingerprint(s, action)
  IN
  /\ Running(s, "execute")
  /\ \E o \in LiveResults(action.verb), l \in Links :
       /\ o.effect # "none" => links[l].case = None
       /\ CallProvider(s, o, l, fp)
       /\ rows' = [rows EXCEPT ![s] = @ \cup
            {OutcomeRow("stream", o.status, IF o.effect = "link" THEN l ELSE None),
             ActionRow("stream", fp)}]
       /\ row' = [row EXCEPT ![s] = AfterResult(@, action.verb, o)]
       /\ IF ~HasExternalId(o) /\ action.verb # "send_payment_link"
            THEN GoOn(s, "demo") ELSE Yield(s, "commit")
  /\ UNCHANGED <<dbVars, lock, call, decision, snap, acked, hookVars, boundVars>>

\* Mutant: the page's own link leaves no row.
NoDemoRows(s) == {}

DemoRows(s) ==
  {ActionRow("stream", Fingerprint(s, LinkAction("UI_DEMO_LINK_NOT_GATED")))}

\* _create_demo_payment_link: no gate, no outcome row, no counter.
DemoLink(s) ==
  /\ Running(s, "demo")
  /\ \E o \in RazorpayExecutor("send_payment_link"), l \in Links :
       /\ o.effect # "none" => links[l].case = None
       /\ CallProvider(s, o, l, Fingerprint(s, LinkAction("UI_DEMO_LINK_NOT_GATED")))
  /\ rows' = [rows EXCEPT ![s] = @ \cup DemoRows(s)]
  /\ Yield(s, "commit")
  /\ UNCHANGED <<dbVars, lock, call, decision, snap, row, acked, hookVars, boundVars>>

\* The end of the second transaction.
Commit(s) ==
  /\ Running(s, "commit")
  /\ ledger' = [ledger EXCEPT ![s] = @ \cup rows[s]]
  /\ cases' = [cases EXCEPT ![s] = Merge(snap[s], row[s], @)]
  /\ lock' = None
  /\ Yield(s, "tell")
  /\ UNCHANGED <<call, sessionVars, hookVars, providerVars, boundVars>>

\* The last yield carries the result.
Tell(s) ==
  /\ Running(s, "tell")
  /\ End(s, "done")
  /\ UNCHANGED <<dbVars, lock, call, hookVars, providerVars, boundVars>>

-----------------------------------------------------------------------------
(***************************************************************************)
(* What ends a run early.                                                  *)
(***************************************************************************)

\* busy_timeout (60 s) expires on a holder that waits at a yield, and on one whose
\* HTTP calls take as long: httpx allows 30 s for each read, not for a call.
\* "database is locked": the exception ends the run, and think_stream says so.
LockTimeout(s) ==
  /\ Running(s, "open") \/ Running(s, "persist")
  /\ lock # None
  /\ End(s, "failed")
  /\ UNCHANGED <<dbVars, lock, call, hookVars, providerVars, boundVars>>

\* The browser goes away: the generator is closed at its yield, and its session
\* with it.
Disconnect(s) ==
  /\ at[s] \in Points
  /\ call[s].streamed
  /\ ~thread[s]
  /\ LoopFree
  /\ End(s, "gone")
  /\ lock' = IF lock = s THEN None ELSE lock
  /\ UNCHANGED <<dbVars, call, hookVars, providerVars, boundVars>>

\* The server dies and comes back: every open transaction rolls back.
Restart ==
  LET dead == {s \in Streams : at[s] \in Points}
      Reset(f, v) == [s \in Streams |-> IF s \in dead THEN v ELSE f[s]]
  IN
  /\ faults < MaxFaults
  /\ faults' = faults + 1
  /\ dead # {} \/ hook # None
  /\ at' = Reset(at, "gone")
  /\ thread' = Reset(thread, FALSE)
  /\ decision' = Reset(decision, None)
  /\ snap' = Reset(snap, None)
  /\ row' = Reset(row, None)
  /\ rows' = Reset(rows, {})
  /\ lock' = None
  /\ hook' = None
  /\ hookSnap' = None
  /\ UNCHANGED <<dbVars, call, providerVars, presses>>

-----------------------------------------------------------------------------
(***************************************************************************)
(* Others on the same case.  The button and the webhook's write are single *)
(* steps: their own interleavings are the subject of RecoveryService.      *)
(***************************************************************************)

\* execute_link_for_case on a case that is not stopped.
PressButton(s) ==
  LET c == cases[s]
      action == LinkAction("UI_CREATE_LINK")
      fp == Fingerprint(s, action)
      checks == RunGates(Context(s, c, action, "card_expired", Daytime, {}))
  IN
  /\ presses < MaxPresses
  /\ presses' = presses + 1
  /\ LoopFree
  /\ ThreadFree
  /\ lock = None
  /\ c # None
  /\ ~IsStopped(c)
  /\ \/ /\ ~AllPassed(checks)
        /\ ledger' = [ledger EXCEPT ![s] = @ \cup {GateRow("button", checks)}]
        /\ cases' = [cases EXCEPT ![s].status = "blocked"]
        /\ UNCHANGED links
     \/ /\ AllPassed(checks)
        /\ \E o \in RazorpayExecutor("send_payment_link"), l \in Links :
             /\ o.effect # "none" => links[l].case = None
             /\ CallProvider(s, o, l, fp)
             /\ ledger' = [ledger EXCEPT ![s] = @ \cup
                  {GateRow("button", checks), ActionRow("button", fp),
                   OutcomeRow("button", o.status, IF o.effect = "link" THEN l ELSE None)}]
             /\ cases' = [cases EXCEPT ![s] =
                  AfterResult([c EXCEPT !.status = "open"], action.verb, o)]
  /\ UNCHANGED <<lock, at, thread, call, sessionVars, hookVars, acked, faults>>

PayLink(l) ==
  /\ links[l].case # None
  /\ ~links[l].paid
  /\ links' = [links EXCEPT ![l].paid = TRUE]
  /\ UNCHANGED <<dbVars, lock, at, thread, call, sessionVars, hookVars, acked,
                 boundVars>>

\* The paid event arrives, for the first time or again: the handler loads the
\* case, and occupies the loop until it has written or given up.
DeliverPaid(l) ==
  /\ LoopFree
  /\ links[l].paid
  /\ l \notin acked
  /\ hook' = l
  /\ hookSnap' = cases[links[l].case]
  /\ UNCHANGED <<dbVars, lock, at, thread, call, sessionVars, providerVars, boundVars>>

PaidRows(l) ==
  {EventRow("webhook")} \cup
    IF hookSnap.status = "recovered" THEN {}
    ELSE {OutcomeRow("webhook", "paid", l), StopRow("webhook")}

RecordPaid ==
  LET c == links[hook].case IN
  /\ hook # None
  /\ lock = None
  /\ cases' = [cases EXCEPT ![c] = Merge(hookSnap, PaidCase(hookSnap), @)]
  /\ ledger' = [ledger EXCEPT ![c] = @ \cup PaidRows(hook)]
  /\ acked' = acked \cup {hook}
  /\ hook' = None
  /\ hookSnap' = None
  /\ UNCHANGED <<lock, at, thread, call, sessionVars, links, boundVars>>

\* Mutant: the database has no busy_timeout, the webhook waits for ever.
HookWaits == hook # None /\ FALSE /\ UNCHANGED vars

\* Mutant: the error is swallowed and the event acknowledged.
HookAcks ==
  /\ hook # None
  /\ lock # None
  /\ acked' = acked \cup {hook}
  /\ hook' = None
  /\ hookSnap' = None
  /\ UNCHANGED <<dbVars, lock, at, thread, call, sessionVars, links, boundVars>>

\* "database is locked": a 500, and the provider will try again.
HookTimeout ==
  /\ hook # None
  /\ lock # None
  /\ hook' = None
  /\ hookSnap' = None
  /\ UNCHANGED <<dbVars, lock, at, thread, call, sessionVars, providerVars, boundVars>>

-----------------------------------------------------------------------------
Run(s) ==
  \/ OpenCase(s) \/ Think(s) \/ LoadCase(s) \/ Persist(s) \/ Gate(s) \/ Execute(s)
  \/ DemoLink(s) \/ Commit(s) \/ Tell(s) \/ LockTimeout(s)

Next ==
  \/ \E s \in Streams :
       Request(s) \/ Resume(s) \/ Run(s) \/ Disconnect(s) \/ PressButton(s)
  \/ \E l \in Links : PayLink(l) \/ DeliverPaid(l)
  \/ RecordPaid
  \/ HookTimeout
  \/ Restart

Spec == Init /\ [][Next]_vars

\* A thread that has work is scheduled, and a wait for the lock ends, with the lock
\* or with an error.  The loop and the pool serve who waits in turn, so a run whose
\* client reads on gets its next thread, or its client leaves.  The provider
\* redelivers what is not acknowledged.
Fairness ==
  /\ \A s \in Streams : WF_vars(Run(s)) /\ SF_vars(Resume(s) \/ Disconnect(s))
  /\ WF_vars(RecordPaid \/ HookTimeout)
  /\ \A l \in Links : SF_vars(DeliverPaid(l))

FairSpec == Spec /\ Fairness

-----------------------------------------------------------------------------
(***************************************************************************)
(* Properties.                                                             *)
(***************************************************************************)
Option(S) == S \cup {None}

\* Every variable holds a value of its kind, and the pool is never overdrawn.
TypeOK ==
  /\ cases \in [Streams -> Option(CaseRow)]
  /\ ledger \in [Streams -> SUBSET Row]
  /\ lock \in Option(Streams)
  /\ at \in [Streams -> Stages]
  /\ thread \in [Streams -> BOOLEAN]
  /\ Cardinality({s \in Streams : thread[s]}) <= Threads
  /\ call \in [Streams -> Option(Call)]
  /\ decision \in [Streams -> Option(Decision)]
  /\ snap \in [Streams -> Option(CaseRow)]
  /\ row \in [Streams -> Option(CaseRow)]
  /\ rows \in [Streams -> SUBSET Row]
  /\ hook \in Option(Links)
  /\ hookSnap \in Option(CaseRow)
  /\ links \in [Links -> [case : Option(Streams), paid : BOOLEAN,
                          created_for : Option(Fingerprints(Streams))]]
  /\ acked \subseteq Links
  /\ presses \in 0 .. MaxPresses
  /\ faults \in 0 .. MaxFaults

\* What the second transaction of a run has put on the ledger.
Trail(s) == {x \in ledger[s] : x.by = "stream"} \ {EventRow("stream")}

OfKind(t, kind) == {x \in t : x.kind = kind}

Fingerprinted(t) == {x.action_fingerprint : x \in OfKind(t, "action")} \ {None}

\* A trail tells one story, whole or not at all, whatever ends the run and
\* whoever writes beside it.  What was decided and diagnosed is what the case row
\* says; the agent's action, and no other, ran exactly if the run was live and every
\* gate passed; the demo's own link never stands beside a link that was reported, a
\* block or a simulated run.  A run that showed its result has a trail, one that
\* failed has none.
TrailIsWhole ==
  \A s \in Streams :
    LET t == Trail(s)
        demo == Fingerprint(s, LinkAction("UI_DEMO_LINK_NOT_GATED"))
        passed == \E g \in OfKind(t, "gate_check") : AllPassed(g.checks)
    IN
    /\ at[s] = "done" => t # {}
    /\ at[s] \notin {"tell", "done", "gone"} => t = {}
    /\ t # {} =>
         \E d \in Decisions :
           /\ OfKind(t, "decision") = {DecisionRow(d.action)}
           /\ OfKind(t, "classification") = {ClassificationRow(d.class)}
           /\ cases[s].failure_class = d.class
           /\ Fingerprint(s, d.action) \in Fingerprinted(t)
                <=> passed /\ call[s].live
           /\ Fingerprinted(t) \subseteq {Fingerprint(s, d.action), demo}
           /\ demo \in Fingerprinted(t) =>
                /\ passed /\ call[s].live
                /\ \A o \in OfKind(t, "outcome") : o.external_id = None

\* A link the payer can pay has an action row that says why, unless the run that
\* created it has not committed or never will.
LinksOnTrail ==
  \A l \in Links :
    LET s == links[l].case IN
    s # None =>
      \/ \E x \in OfKind(ledger[s], "action") :
           x.action_fingerprint = links[l].created_for
      \/ Trail(s) = {}

\* The holder of the lock is suspended at a yield.
HolderWaits == lock # None /\ ~thread[lock]

\* ledger/db.py: "timeout=60 avoids 'database is locked'".  However slow the holder
\* is, a webhook does not wait its whole busy_timeout for one that does nothing.
NeverLocked == [][HolderWaits => ~HookTimeout]_vars

\* Every run ends: the lock, the pool and the loop do not wait for each other for
\* ever.
RunsEnd == \A s \in Streams : at[s] # "idle" ~> at[s] \in Ended

\* A paid link reaches the ledger of its case as a stop, also the link of a run that
\* was cut off: the case it names was committed before the link existed.  The status
\* column does not follow: a run that loaded the case before the stop may undo it.
PaidReachesLedger ==
  \A l \in Links :
    links[l].paid ~>
      \E s \in Streams : links[l].case = s /\ StopRow("webhook") \in ledger[s]
=============================================================================
