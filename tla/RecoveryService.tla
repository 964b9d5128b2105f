-------------------------- MODULE RecoveryService ---------------------------
(***************************************************************************)
(* The write path of the recovery agent: the HTTP handlers that open       *)
(* cases, run the gates, call an adapter and close cases, the Razorpay     *)
(* webhook handler, the SQLite database they share, and the provider that  *)
(* hosts payment links and delivers webhooks at least once.                *)
(*                                                                         *)
(* Database.  A handler's SELECTs before its first INSERT or UPDATE see    *)
(* the latest committed state, each on its own.  Its first write takes     *)
(* SQLite's only write lock, which it keeps until commit or rollback.  The *)
(* session is an identity map: the CaseRow a handler loaded is never       *)
(* re-read, and a flush writes only the columns whose value differs from   *)
(* the one loaded.  A request therefore carries the row as loaded (snap)   *)
(* and the row as it now stands in memory (row).                           *)
(*                                                                         *)
(* The ledger is the sequence of committed transactions, each the set of   *)
(* the rows it inserted: the lock makes the seq numbers of a transaction   *)
(* contiguous and orders transactions by commit.  The six gate_check rows  *)
(* of one pass are one row that carries the six verdicts.                  *)
(***************************************************************************)
EXTENDS Executors, Sequences, FiniteSets

CONSTANTS
  Requests,      \* one-shot user requests, each run by a thread of its own
  Workers,       \* webhook handlers: one per server process (async def)
  Cases,         \* case ids
  Preloaded,     \* [ids of cases that exist at the start -> failure class]
  Links,         \* payment link ids the provider may hand out
  FailEvents,    \* event ids of payment.failed webhooks
  RequestSpace,  \* the request bodies users may send
  MaxFaults,     \* bound on process restarts and lost webhook replies
  None,          \* no case, no row, no link, no lock holder, ...
  New            \* the request brings no case id: the handler opens a case

\* The event id of payment_link.paid is derived from the link (evt_plpaid_...),
\* so the link stands for its event.
Events == FailEvents \cup Links
Actors == Requests \cup Workers

\* execute_run: POST /execute/run.  create_link: the case page's button.
\* guard_check: POST /guard/check on a throwaway case.
Endpoints == {"execute_run", "create_link", "guard_check"}

\* mode: "sim" and "razorpay" pick the adapter; "stub" and "none" are
\* guard_check with and without force_execute.
RequestBody ==
  [endpoint : Endpoints, case : Cases \cup {New}, action : Action,
   now : 0 .. MinutesPerDay - 1, attempts_used : Nat, contacts_used : Nat,
   max_attempts : Nat, max_contacts : Nat, mandate_state : MandateStates,
   opt_out : BOOLEAN, mode : {"sim", "razorpay", "stub", "none"}]

ASSUME IdsDistinct ==
  /\ Requests \cap Workers = {}
  /\ FailEvents \cap Links = {}
  /\ "simulator" \notin Events
  /\ New \notin Cases
  /\ None \notin Cases \cup Actors \cup Events \cup RequestBody \cup {New}

ASSUME PreloadedAssumption ==
  /\ DOMAIN Preloaded \subseteq Cases
  /\ \A c \in DOMAIN Preloaded : Preloaded[c] \in FailureClasses

ASSUME RequestSpaceAssumption == RequestSpace \subseteq RequestBody

ASSUME MaxFaultsAssumption == MaxFaults \in Nat

-----------------------------------------------------------------------------
ASSUME NoneIsNoRow == None \notin CaseRow

\* Ledger rows, by kind.  "simulator" is the event of a case that a user
\* request opens: its id is freshly generated and never redelivered.
EventRow(e) == [kind |-> "event", event |-> e]
GateRow(checks) == [kind |-> "gate_check", checks |-> checks]
OutcomeRow(o, l) == [kind |-> "outcome", status |-> o.status,
                     recovered |-> o.recovered, external_id |-> l]
StopRow(reason) == [kind |-> "stop", stop_reason |-> reason]
ActionRow(fp) == [kind |-> "action", action_fingerprint |-> fp]

OutcomeStatuses == {"ok", "failed", "created_link", "escalated",
                    "reconciled_skip", "paid"}

Row ==
  [kind : {"event"}, event : Events \cup {"simulator"}]
  \cup [kind : {"gate_check"}, checks : [GateNames -> BOOLEAN]]
  \cup [kind : {"outcome"}, status : OutcomeStatuses, recovered : BOOLEAN,
        external_id : Links \cup {None}]
  \cup [kind : {"stop"}, stop_reason : StopReasons]
  \cup [kind : {"action"}, action_fingerprint : Fingerprints(Cases)]

Transaction == [by : Actors, case : Cases, rows : SUBSET Row]

-----------------------------------------------------------------------------
VARIABLES
  \* committed database, and who holds the write lock
  cases,      \* [Cases -> CaseRow or None]
  processed,  \* [Events -> the case the event was recorded on, or None]
  ledger,     \* Seq(Transaction)
  lock,
  issued,     \* case ids handed out so far (uuid4: never handed out twice)
  \* user requests
  pc, body, target, snap, row, seen, rows,
  loadedAt,   \* ledger length when the request read its case (history)
  readAt,     \* ledger length when it read the fingerprints (history)
  \* webhook handlers
  hook,       \* [Workers -> "idle", "write" or "reply"]
  event, hookCase, hookSnap,
  \* the provider
  links,      \* [Links -> the case the link was created for, by whom, paid]
  acked,      \* events answered with a 2xx
  faults

dbVars == <<cases, processed, ledger, lock, issued>>
requestVars == <<pc, body, target, snap, row, seen, rows, loadedAt, readAt>>
hookVars == <<hook, event, hookCase, hookSnap>>
providerVars == <<links, acked>>
vars == <<dbVars, requestVars, hookVars, providerVars, faults>>

InFlight == {"loaded", "read", "execute", "commit"}
RequestStates == InFlight \cup {"idle", "done", "failed"}

-----------------------------------------------------------------------------
Init ==
  /\ cases = [c \in Cases |-> IF c \in DOMAIN Preloaded
                                THEN FreshCase(Preloaded[c]) ELSE None]
  /\ processed = [e \in Events |-> None]
  /\ ledger = <<>>
  /\ lock = None
  /\ issued = DOMAIN Preloaded
  /\ pc = [r \in Requests |-> "idle"]
  /\ body = [r \in Requests |-> None]
  /\ target = [r \in Requests |-> None]
  /\ snap = [r \in Requests |-> None]
  /\ row = [r \in Requests |-> None]
  /\ seen = [r \in Requests |-> {}]
  /\ rows = [r \in Requests |-> {}]
  /\ loadedAt = [r \in Requests |-> 0]
  /\ readAt = [r \in Requests |-> 0]
  /\ hook = [w \in Workers |-> "idle"]
  /\ event = [w \in Workers |-> None]
  /\ hookCase = [w \in Workers |-> None]
  /\ hookSnap = [w \in Workers |-> None]
  /\ links = [l \in Links |-> [case |-> None, by |-> None, paid |-> FALSE]]
  /\ acked = {}
  /\ faults = 0

\* What the i-th committed transaction executed.
ExecutedIn(i) ==
  {a.action_fingerprint : a \in {x \in ledger[i].rows : x.kind = "action"}}

\* The write lock is free, or already r's own.
MayWrite(r) == lock \in {None, r}

-----------------------------------------------------------------------------
(***************************************************************************)
(* User requests: execute_run, ui_create_link, guard_check.                *)
(***************************************************************************)

\* A request whose transaction is over, or that wrote nothing, drops its session.
CloseSession(r, state) ==
  /\ pc' = [pc EXCEPT ![r] = state]
  /\ snap' = [snap EXCEPT ![r] = None]
  /\ row' = [row EXCEPT ![r] = None]
  /\ seen' = [seen EXCEPT ![r] = {}]
  /\ rows' = [rows EXCEPT ![r] = {}]

\* session.get(CaseRow, case_id): SELECT the case the request names.
LoadCase(r) ==
  /\ pc[r] = "idle"
  /\ \E q \in RequestSpace :
       /\ q.case \in Cases
       /\ cases[q.case] # None
       /\ body' = [body EXCEPT ![r] = q]
       /\ target' = [target EXCEPT ![r] = q.case]
       /\ snap' = [snap EXCEPT ![r] = cases[q.case]]
       /\ row' = [row EXCEPT ![r] = cases[q.case]]
       /\ loadedAt' = [loadedAt EXCEPT ![r] = Len(ledger)]
       /\ pc' = [pc EXCEPT ![r] = "loaded"]
  /\ UNCHANGED <<seen, rows, readAt, dbVars, hookVars, providerVars, faults>>

\* ingest_risk_event for a fresh simulator event: the INSERT of the case takes
\* the lock, which the handler keeps to the end.
IngestNew(r) ==
  /\ pc[r] = "idle"
  /\ lock = None
  /\ \E q \in RequestSpace, c \in Cases \ issued :
       /\ q.case = New
       /\ body' = [body EXCEPT ![r] = q]
       /\ target' = [target EXCEPT ![r] = c]
       /\ issued' = issued \cup {c}
  /\ snap' = [snap EXCEPT ![r] = FreshCase("absent")]
  /\ row' = [row EXCEPT ![r] = FreshCase("absent")]
  /\ rows' = [rows EXCEPT ![r] = {EventRow("simulator")}]
  /\ loadedAt' = [loadedAt EXCEPT ![r] = Len(ledger)]
  /\ pc' = [pc EXCEPT ![r] = "loaded"]
  /\ lock' = r
  /\ UNCHANGED <<seen, readAt, cases, processed, ledger, hookVars,
                 providerVars, faults>>

\* guard_and_maybe_execute on a case that was loaded as stopped: no write at all.
SkipStopped(r) ==
  /\ pc[r] = "loaded"
  /\ IsStopped(row[r])
  /\ CloseSession(r, "done")
  /\ UNCHANGED <<body, target, loadedAt, readAt, dbVars, hookVars,
                 providerVars, faults>>

\* The payer opted out: apply_stop(opt_out) instead of running the gates.
OptOut(r) ==
  /\ pc[r] = "loaded"
  /\ ~IsStopped(row[r])
  /\ body[r].opt_out
  /\ MayWrite(r)
  /\ row' = [row EXCEPT ![r].status = "stopped", ![r].stop_reason = "opt_out"]
  /\ rows' = [rows EXCEPT ![r] = @ \cup {StopRow("opt_out")}]
  /\ lock' = r
  /\ pc' = [pc EXCEPT ![r] = "commit"]
  /\ UNCHANGED <<body, target, snap, seen, loadedAt, readAt, cases, processed,
                 ledger, issued, hookVars, providerVars, faults>>

\* Mutant: only the newest transaction of the case is looked at.
ExecutedNewest(c) ==
  LET onCase == {i \in DOMAIN ledger : ledger[i].case = c}
  IN UNION {ExecutedIn(i) : i \in {j \in onCase : \A k \in onCase : k <= j}}

\* Mutant: an action whose outcome failed may be tried again.
ExecutedNotFailed(c) ==
  UNION {ExecutedIn(i) :
           i \in {j \in DOMAIN ledger :
                   /\ ledger[j].case = c
                   /\ \A x \in ledger[j].rows :
                        x.kind = "outcome" => x.status # "failed"}}

\* reader.executed_fingerprints: replay the action rows of the case.
ExecutedFingerprints(c) ==
  UNION {ExecutedIn(i) : i \in {j \in DOMAIN ledger : ledger[j].case = c}}

ReadFingerprints(r) ==
  /\ pc[r] = "loaded"
  /\ ~IsStopped(row[r])
  /\ ~body[r].opt_out
  /\ seen' = [seen EXCEPT ![r] = ExecutedFingerprints(target[r])]
  /\ readAt' = [readAt EXCEPT ![r] = Len(ledger)]
  /\ pc' = [pc EXCEPT ![r] = "read"]
  /\ UNCHANGED <<body, target, snap, row, rows, loadedAt, dbVars, hookVars,
                 providerVars, faults>>

\* The GuardContext each endpoint builds.  execute_run takes the counters of an
\* existing case from the request body and those of the case it has just opened
\* from the row; create_link reads the row; guard_check reads the body.
\* execute_run and guard_check leave failure_class unset, and create_link
\* passes its own default.
CountersFromBody(q) ==
  \/ q.endpoint = "guard_check"
  \/ q.endpoint = "execute_run" /\ q.case # New

Context(r) ==
  LET q == body[r] IN
  [case_id |-> target[r],
   action |-> q.action,
   now |-> q.now,
   attempts_used |-> IF CountersFromBody(q) THEN q.attempts_used
                                            ELSE row[r].attempts_used,
   contacts_used |-> IF CountersFromBody(q) THEN q.contacts_used
                                            ELSE row[r].contacts_used,
   max_attempts |-> q.max_attempts,
   max_contacts |-> q.max_contacts,
   mandate_state |-> q.mandate_state,
   failure_class |-> IF q.endpoint = "create_link" THEN "card_expired"
                                                   ELSE "absent",
   executed_fingerprints |-> seen[r]]

\* run_gates and record_gate_checks: the first gate_check INSERT takes the lock
\* unless the request holds it already.  A block marks the case "blocked"; a
\* full pass reopens a blocked case and goes on to the adapter, if there is one.
GateAndRecord(r) ==
  LET checks == RunGates(Context(r)) IN
  /\ pc[r] = "read"
  /\ MayWrite(r)
  /\ rows' = [rows EXCEPT ![r] = @ \cup {GateRow(checks)}]
  /\ lock' = r
  /\ \/ /\ ~AllPassed(checks)
        /\ row' = [row EXCEPT ![r].status = "blocked"]
        /\ pc' = [pc EXCEPT ![r] = "commit"]
     \/ /\ AllPassed(checks)
        /\ row' = [row EXCEPT ![r].status = "open"]
        /\ pc' = [pc EXCEPT ![r] = IF body[r].mode = "none" THEN "commit"
                                                            ELSE "execute"]
  /\ UNCHANGED <<body, target, snap, seen, loadedAt, readAt, cases, processed,
                 ledger, issued, hookVars, providerVars, faults>>
-----------------------------------------------------------------------------
Results(q) == IF q.mode = "sim" THEN SimExecutor(q.action.verb)
                                ELSE RazorpayExecutor(q.action.verb)

\* Mutant: an action whose call failed leaves no action row.
AdapterRowsIfGood(r, o, l) ==
  {OutcomeRow(o, IF o.effect = "link" THEN l ELSE None)}
  \cup (IF o.status = "failed"
          THEN {} ELSE {ActionRow(Fingerprint(target[r], body[r].action))})
  \cup (IF o.recovered THEN {StopRow("recovered")} ELSE {})

\* The outcome row of _exec, the action row that follows it whatever the outcome,
\* and the stop row of a recovery.
AdapterRows(r, o, l) ==
  {OutcomeRow(o, IF o.effect = "link" THEN l ELSE None),
   ActionRow(Fingerprint(target[r], body[r].action))}
  \cup (IF o.recovered THEN {StopRow("recovered")} ELSE {})

\* _exec and what follows it, for one result and (if the provider acts) one link.
\* The HTTP call happens here, under the write lock.
RunAdapter(r, o, l) ==
  /\ rows' = [rows EXCEPT ![r] = @ \cup AdapterRows(r, o, l)]
  /\ row' = [row EXCEPT ![r] = AfterResult(@, body[r].action.verb, o)]
  /\ links' = IF o.effect = "none" THEN links
               ELSE [links EXCEPT ![l] = [case |-> target[r], by |-> r,
                                          paid |-> FALSE]]

Execute(r) ==
  /\ pc[r] = "execute"
  /\ body[r].mode \in {"sim", "razorpay"}
  /\ \E o \in Results(body[r]), l \in Links :
       /\ o.effect # "none" => links[l].case = None
       /\ RunAdapter(r, o, l)
  /\ pc' = [pc EXCEPT ![r] = "commit"]
  /\ UNCHANGED <<body, target, snap, seen, loadedAt, readAt, dbVars, hookVars,
                 acked, faults>>

\* guard_check with force_execute: a stub that records an action row only.
ExecuteStub(r) ==
  /\ pc[r] = "execute"
  /\ body[r].mode = "stub"
  /\ rows' = [rows EXCEPT ![r] =
                @ \cup {ActionRow(Fingerprint(target[r], body[r].action))}]
  /\ pc' = [pc EXCEPT ![r] = "commit"]
  /\ UNCHANGED <<body, target, snap, row, seen, loadedAt, readAt, dbVars,
                 hookVars, providerVars, faults>>

\* session.commit(): the rows and the changed columns become visible at once.
Stored(r) == IF cases[target[r]] = None
               THEN row[r] ELSE Merge(snap[r], row[r], cases[target[r]])

Commit(r) ==
  /\ pc[r] = "commit"
  /\ ledger' = Append(ledger, [by |-> r, case |-> target[r], rows |-> rows[r]])
  /\ cases' = [cases EXCEPT ![target[r]] = Stored(r)]
  /\ lock' = None
  /\ CloseSession(r, "done")
  /\ UNCHANGED <<body, target, loadedAt, readAt, processed, issued, hookVars,
                 providerVars, faults>>

\* busy_timeout expires while another handler holds the lock: OperationalError,
\* a 500, and the session closes with nothing written.
LockTimeout(r) ==
  /\ \/ pc[r] = "read"
     \/ pc[r] = "loaded" /\ body[r].opt_out /\ ~IsStopped(row[r])
  /\ ~MayWrite(r)
  /\ CloseSession(r, "failed")
  /\ UNCHANGED <<body, target, loadedAt, readAt, dbVars, hookVars,
                 providerVars, faults>>

-----------------------------------------------------------------------------
(***************************************************************************)
(* The webhook handler.  A worker takes one delivery at a time: the        *)
(* handler is async def and never awaits between reading the body and its  *)
(* answer.                                                                 *)
(***************************************************************************)

\* The provider may send any failure event, and the paid event of a paid link,
\* until it is acknowledged.
Sendable(e) == e \notin acked /\ (e \in Links => links[e].paid)

\* find_processed sees the event: answer 200 without writing.
DeliverDuplicate(w, e) ==
  /\ hook[w] = "idle"
  /\ Sendable(e)
  /\ processed[e] # None
  /\ hook' = [hook EXCEPT ![w] = "reply"]
  /\ event' = [event EXCEPT ![w] = e]
  /\ UNCHANGED <<hookCase, hookSnap, dbVars, requestVars, providerVars, faults>>

\* ingest_risk_event reads before its first INSERT.
DeliverFailed(w, e) ==
  /\ hook[w] = "idle"
  /\ e \in FailEvents
  /\ Sendable(e)
  /\ processed[e] = None
  /\ hook' = [hook EXCEPT ![w] = "write"]
  /\ event' = [event EXCEPT ![w] = e]
  /\ UNCHANGED <<hookCase, hookSnap, dbVars, requestVars, providerVars, faults>>

\* handle_payment_link_paid reads: the case named in the link's notes is loaded
\* here.  If it does not exist (yet) the handler raises and answers 500, which
\* changes nothing.
DeliverPaid(w, l) ==
  /\ hook[w] = "idle"
  /\ l \in Links
  /\ Sendable(l)
  /\ processed[l] = None
  /\ cases[links[l].case] # None
  /\ hook' = [hook EXCEPT ![w] = "write"]
  /\ event' = [event EXCEPT ![w] = l]
  /\ hookCase' = [hookCase EXCEPT ![w] = links[l].case]
  /\ hookSnap' = [hookSnap EXCEPT ![w] = cases[links[l].case]]
  /\ UNCHANGED <<dbVars, requestVars, providerVars, faults>>

HookIdle(w) ==
  /\ hook' = [hook EXCEPT ![w] = "idle"]
  /\ event' = [event EXCEPT ![w] = None]
  /\ hookCase' = [hookCase EXCEPT ![w] = None]
  /\ hookSnap' = [hookSnap EXCEPT ![w] = None]

\* Mutant: event_id is no primary key.
KeyAlwaysFree(e) == TRUE

\* processed_events has no row of the event yet.
KeyFree(e) == processed[e] = None

\* Another worker recorded the event since find_processed: the INSERT into
\* processed_events breaks the primary key, and the whole transaction rolls back.
IntegrityError(w) ==
  /\ hook[w] = "write"
  /\ lock = None
  /\ ~KeyFree(event[w])
  /\ HookIdle(w)
  /\ UNCHANGED <<dbVars, requestVars, providerVars, faults>>

\* From its first INSERT to its commit a webhook transaction does nothing that
\* another handler could see, so it is one step.
RecordFailed(w) ==
  /\ hook[w] = "write"
  /\ event[w] \in FailEvents
  /\ lock = None
  /\ KeyFree(event[w])
  /\ \E c \in Cases \ issued :
       /\ cases' = [cases EXCEPT ![c] = FreshCase("absent")]
       /\ processed' = [processed EXCEPT ![event[w]] = c]
       /\ issued' = issued \cup {c}
       /\ ledger' = Append(ledger, [by |-> w, case |-> c,
                                    rows |-> {EventRow(event[w])}])
  /\ hook' = [hook EXCEPT ![w] = "reply"]
  /\ UNCHANGED <<lock, event, hookCase, hookSnap, requestVars, providerVars,
                 faults>>

\* Mutant: a case that is closed, for whatever reason, needs no further rows.
PaidRowsIfOpen(l, loaded) ==
  {EventRow(l)} \cup
    IF IsStopped(loaded) THEN {}
    ELSE {OutcomeRow([status |-> "paid", recovered |-> TRUE], l),
          StopRow("recovered")}

\* already_recovered is decided on the case as it was loaded.
PaidRows(l, loaded) ==
  {EventRow(l)} \cup
    IF loaded.status = "recovered" THEN {}
    ELSE {OutcomeRow([status |-> "paid", recovered |-> TRUE], l),
          StopRow("recovered")}

RecordPaid(w) ==
  LET l == event[w]
      c == hookCase[w]
      loaded == hookSnap[w]
  IN
  /\ hook[w] = "write"
  /\ l \in Links
  /\ lock = None
  /\ KeyFree(l)
  /\ cases' = [cases EXCEPT ![c] = Merge(loaded, PaidCase(loaded), @)]
  /\ processed' = [processed EXCEPT ![l] = c]
  /\ ledger' = Append(ledger, [by |-> w, case |-> c,
                               rows |-> PaidRows(l, loaded)])
  /\ hook' = [hook EXCEPT ![w] = "reply"]
  /\ UNCHANGED <<lock, issued, event, hookCase, hookSnap, requestVars,
                 providerVars, faults>>

\* Mutant: the handler swallows the database error and answers 200.
HookTimeoutSwallowed(w) ==
  /\ hook[w] = "write"
  /\ lock # None
  /\ hook' = [hook EXCEPT ![w] = "reply"]
  /\ UNCHANGED <<event, hookCase, hookSnap, dbVars, requestVars, providerVars,
                 faults>>

HookTimeout(w) ==
  /\ hook[w] = "write"
  /\ lock # None
  /\ HookIdle(w)
  /\ UNCHANGED <<dbVars, requestVars, providerVars, faults>>

Reply(w) ==
  /\ hook[w] = "reply"
  /\ acked' = acked \cup {event[w]}
  /\ HookIdle(w)
  /\ UNCHANGED <<dbVars, requestVars, links, faults>>

-----------------------------------------------------------------------------
(***************************************************************************)
(* The environment: payers, a lost answer, and a crash of the server.      *)
(***************************************************************************)
PayLink(l) ==
  /\ links[l].case # None
  /\ ~links[l].paid
  /\ links' = [links EXCEPT ![l].paid = TRUE]
  /\ UNCHANGED <<acked, dbVars, requestVars, hookVars, faults>>

\* The 2xx does not reach the provider, which will deliver again.
LoseReply(w) ==
  /\ hook[w] = "reply"
  /\ faults < MaxFaults
  /\ faults' = faults + 1
  /\ HookIdle(w)
  /\ UNCHANGED <<dbVars, requestVars, providerVars>>

\* The process dies: open transactions roll back, committed ones stay.
Restart ==
  /\ faults < MaxFaults
  /\ faults' = faults + 1
  /\ \/ \E r \in Requests : pc[r] \in InFlight
     \/ \E w \in Workers : hook[w] # "idle"
  /\ LET dead == {r \in Requests : pc[r] \in InFlight}
         Reset(f, v) == [r \in Requests |-> IF r \in dead THEN v ELSE f[r]]
     IN /\ pc' = Reset(pc, "failed")
        /\ snap' = Reset(snap, None)
        /\ row' = Reset(row, None)
        /\ seen' = Reset(seen, {})
        /\ rows' = Reset(rows, {})
  /\ hook' = [w \in Workers |-> "idle"]
  /\ event' = [w \in Workers |-> None]
  /\ hookCase' = [w \in Workers |-> None]
  /\ hookSnap' = [w \in Workers |-> None]
  /\ lock' = None
  /\ UNCHANGED <<body, target, loadedAt, readAt, cases, processed, ledger, issued,
                 providerVars>>

-----------------------------------------------------------------------------
RequestStep(r) ==
  \/ LoadCase(r) \/ IngestNew(r) \/ SkipStopped(r) \/ OptOut(r)
  \/ ReadFingerprints(r) \/ GateAndRecord(r) \/ Execute(r) \/ ExecuteStub(r)
  \/ Commit(r) \/ LockTimeout(r)

Deliver(w, e) ==
  DeliverDuplicate(w, e) \/ DeliverFailed(w, e) \/ DeliverPaid(w, e)

Record(w) ==
  IntegrityError(w) \/ RecordFailed(w) \/ RecordPaid(w) \/ HookTimeout(w)

Next ==
  \/ \E r \in Requests : RequestStep(r)
  \/ \E w \in Workers, e \in Events : Deliver(w, e)
  \/ \E w \in Workers : Record(w) \/ Reply(w) \/ LoseReply(w)
  \/ \E l \in Links : PayLink(l)
  \/ Restart

Spec == Init /\ [][Next]_vars
\* Handlers run to completion: a thread is scheduled, an adapter call returns or
\* times out (30 s), a webhook handler answers.  The provider redelivers what is
\* not acknowledged.  Nobody has to send a request or pay a link.
Fairness ==
  /\ \A r \in Requests :
       WF_vars(SkipStopped(r) \/ OptOut(r) \/ ReadFingerprints(r)
               \/ GateAndRecord(r) \/ Execute(r) \/ ExecuteStub(r) \/ Commit(r))
  /\ \A w \in Workers : WF_vars(IntegrityError(w) \/ RecordFailed(w) \/ RecordPaid(w))
  /\ \A w \in Workers : WF_vars(Reply(w))
  /\ \A e \in Events : SF_vars(\E w \in Workers : Deliver(w, e))

FairSpec == Spec /\ Fairness

\* One handler at a time: what the tests and the demo exercise.
Busy == {r \in Requests : pc[r] \in InFlight} \cup {w \in Workers : hook[w] # "idle"}
SerialSpec == Init /\ [][Next /\ Cardinality(Busy') <= 1]_vars

-----------------------------------------------------------------------------
(***************************************************************************)
(* Properties.                                                             *)
(***************************************************************************)
Option(S) == S \cup {None}

\* Every variable holds a value of its kind.
TypeOK ==
  /\ cases \in [Cases -> Option(CaseRow)]
  /\ processed \in [Events -> Option(Cases)]
  /\ ledger \in Seq(Transaction)
  /\ lock \in Option(Requests)
  /\ issued \in SUBSET Cases
  /\ pc \in [Requests -> RequestStates]
  /\ body \in [Requests -> Option(RequestBody)]
  /\ target \in [Requests -> Option(Cases)]
  /\ snap \in [Requests -> Option(CaseRow)]
  /\ row \in [Requests -> Option(CaseRow)]
  /\ seen \in [Requests -> SUBSET Fingerprints(Cases)]
  /\ rows \in [Requests -> SUBSET Row]
  /\ loadedAt \in [Requests -> Nat]
  /\ readAt \in [Requests -> Nat]
  /\ hook \in [Workers -> {"idle", "write", "reply"}]
  /\ event \in [Workers -> Option(Events)]
  /\ hookCase \in [Workers -> Option(Cases)]
  /\ hookSnap \in [Workers -> Option(CaseRow)]
  /\ links \in [Links -> [case : Option(Cases), by : Option(Requests),
                         paid : BOOLEAN]]
  /\ acked \in SUBSET Events
  /\ faults \in 0 .. MaxFaults

\* Whether the i-th committed transaction stopped its case.
StoppedIn(i) == \E x \in ledger[i].rows : x.kind = "stop"

\* The idempotency gate is durable: an action executes a second time only if the
\* request that repeats it had read the fingerprints before the first execution
\* committed.  Everything that starts later is refused, also after a restart.
DurableIdempotency ==
  \A i, j \in DOMAIN ledger :
    i < j /\ ExecutedIn(i) \cap ExecutedIn(j) # {}
      => /\ ledger[j].by \in Requests
         /\ readAt[ledger[j].by] < i

\* Same case, and the later transaction executed an action behind the earlier stop.
ExecutedBehindStop(i, j) ==
  /\ i < j
  /\ ledger[i].case = ledger[j].case
  /\ StoppedIn(i)
  /\ ExecutedIn(j) # {}

\* Transaction k was committed by a request that had loaded its case before
\* transaction i committed.
StaleBehind(k, i) ==
  /\ ledger[k].case = ledger[i].case
  /\ ledger[k].by \in Requests
  /\ loadedAt[ledger[k].by] < i

\* A stop is undone only by overlap: an action commits behind a stop only if some
\* request that was already in flight when the stop committed has committed since.
StopUndoneOnlyByOverlap ==
  \A i, j \in DOMAIN ledger :
    ExecutedBehindStop(i, j) => \E k \in i + 1 .. j : StaleBehind(k, i)

\* Once stopped, never execute again: no request that starts after a stop has
\* committed executes on the case.
NoExecutionBehindStop ==
  \A i, j \in DOMAIN ledger : ExecutedBehindStop(i, j) => StaleBehind(j, i)

\* processed_events and the ledger agree: an event counts as processed exactly
\* when its row is on the ledger of the same case, once.
ProcessedMatchesLedger ==
  \A e \in Events, c \in Cases :
    processed[e] = c <=>
      \E i \in DOMAIN ledger :
        /\ ledger[i].case = c
        /\ \A j \in DOMAIN ledger : EventRow(e) \in ledger[j].rows <=> j = i

\* What the adapter did is on the ledger: a link exists at the provider without an
\* action row of the request that created it only while that request has not
\* committed, or if it died before it could.
LinksAccountedFor ==
  \A l \in Links : links[l].case # None =>
    \/ pc[links[l].by] \in {"commit", "failed"}
    \/ \E i \in DOMAIN ledger : /\ ledger[i].by = links[l].by
                               /\ ExecutedIn(i) # {}

\* Two links of one action.
SameAction(k, l) ==
  /\ k # l
  /\ links[k].case # None
  /\ links[k].case = links[l].case
  /\ body[links[k].by].action = body[links[l].by].action

\* r had read the fingerprints before what q executed was committed.
MissedExecution(r, q) ==
  \E i \in DOMAIN ledger : /\ ledger[i].by = q /\ ExecutedIn(i) # {}
                           /\ readAt[r] < i

\* The payer holds two links of one action only if a request that created one of
\* them died before its commit, or the later request had read the fingerprints
\* before the earlier one committed.  A call that was answered with an error, or
\* whose answer was lost, is not made again.
SecondLinkExplained ==
  \A k, l \in Links : SameAction(k, l) =>
    LET q == links[k].by
        r == links[l].by
    IN pc[q] = "failed" \/ pc[r] = "failed" \/ MissedExecution(r, q)
         \/ MissedExecution(q, r)

\* The trail never lies about the end of a case: a closed status has its stop row.
ClosedIsOnLedger ==
  \A c \in Cases : cases[c] # None /\ IsStopped(cases[c]) =>
    \E i \in DOMAIN ledger :
      /\ ledger[i].case = c
      /\ StopRow(cases[c].stop_reason) \in ledger[i].rows

\* Executed retries of a case that did not recover it, and contacts made.
UnrecoveredRuns(c, verbs) ==
  {i \in DOMAIN ledger :
     /\ ledger[i].case = c
     /\ \E fp \in ExecutedIn(i) : fp.verb \in verbs
     /\ \E x \in ledger[i].rows : x.kind = "outcome" /\ ~x.recovered}

\* Counters written from a stale row may lose an increment but never invent one.
CountersNeverOvercount ==
  \A c \in Cases : cases[c] # None =>
    /\ cases[c].attempts_used <= Cardinality(UnrecoveredRuns(c, {"schedule_retry"}))
    /\ cases[c].contacts_used <= Cardinality(UnrecoveredRuns(c, LinkVerbs))

\* One handler at a time, nothing is lost: the counters are the ledger's.
CountersExact ==
  \A c \in Cases : cases[c] # None =>
    /\ cases[c].attempts_used = Cardinality(UnrecoveredRuns(c, {"schedule_retry"}))
    /\ cases[c].contacts_used = Cardinality(UnrecoveredRuns(c, LinkVerbs))

\* The attempt cap bounds the retries that run on a case.
AttemptsWithinCap ==
  \A c \in Cases, q \in RequestSpace : cases[c] # None =>
    Cardinality(UnrecoveredRuns(c, {"schedule_retry"})) <= q.max_attempts

\* No payment link goes out on a case classified as prohibited.
ProhibitedNotContacted ==
  \A l \in Links, c \in Cases : links[l].case = c /\ cases[c] # None =>
    cases[c].failure_class \notin ProhibitedFailureClasses

\* The request that created the link died with the case it had opened for it.
LostWithItsCase(l) ==
  links[l].case # None /\ pc[links[l].by] = "failed" /\ cases[links[l].case] = None

\* "payment_link.paid -> RECOVERED + audit row": a payment is recorded in the end,
\* whatever was lost or raced and also when it comes before the case it names is
\* committed.  The one payment nobody ever records is that of a case that never was.
PaidIsRecorded ==
  \A l \in Links : links[l].paid ~> (processed[l] # None \/ LostWithItsCase(l))
=============================================================================
