--------------------------- MODULE PromiseProofs ----------------------------
(***************************************************************************)
(* RecoveryService implements both abstract specifications, for any number *)
(* of requests, workers, events, cases and crashes.                        *)
(*                                                                         *)
(* Inbox: exactly-once recording and acknowledgement after recording.  The *)
(* invariant ties the ledger to processed_events, the table the handler    *)
(* checks before it writes and whose primary key refuses a second row: a   *)
(* primary key on the one makes recording on the other unique, because     *)
(* both are written by one transaction.                                    *)
(*                                                                         *)
(* CaseContract: while handlers run one at a time.  The second half of the *)
(* module is about SerialSpec.                                             *)
(***************************************************************************)
EXTENDS StopProofs

\* An event is on the ledger where processed_events says, once, or nowhere.
RecordingOK ==
  \A e \in Events :
    \/ processed[e] = None /\ RecordedAt(e) = {}
    \/ \E i \in DOMAIN ledger : RecordedAt(e) = {i} /\ ledger[i].case = processed[e]

\* The only event rows of user requests are of the simulator.
RequestEventsOK ==
  \A r \in Requests : \A x \in rows[r] : x.kind = "event" => x.event = "simulator"

\* What is being acknowledged, and what was, is recorded.
AcknowledgedOK ==
  /\ \A w \in Workers : hook[w] = "reply" => processed[event[w]] # None
  /\ \A e \in acked : processed[e] # None

Recording == RecordingOK /\ RequestEventsOK /\ AcknowledgedOK

entries == [e \in Events |-> RecordedAt(e)]
-----------------------------------------------------------------------------
LEMMA RecordingInit == Init => Recording
BY DEF Init, Recording, RecordingOK, RequestEventsOK, AcknowledgedOK, RecordedAt

\* An append adds its own position to the events it records.
LEMMA RecordedAtAppend ==
  ASSUME TypeOK, NEW t, ledger' = Append(ledger, t), NEW e \in Events
  PROVE  \E n \in Nat :
           /\ n \in DOMAIN ledger' /\ n \notin DOMAIN ledger /\ ledger'[n] = t
           /\ RecordedAt(e)' = IF EventRow(e) \in t.rows THEN RecordedAt(e) \cup {n}
                                                         ELSE RecordedAt(e)
<1>1. PICK n \in Nat : n = Len(ledger) + 1
  BY AppendedLedger
<1>2. /\ DOMAIN ledger' = DOMAIN ledger \cup {n} /\ n \notin DOMAIN ledger
      /\ ledger'[n] = t
      /\ \A i \in DOMAIN ledger : ledger'[i] = ledger[i]
  BY <1>1, AppendedLedger
<1> QED BY <1>2 DEF RecordedAt

\* Requests record nothing, whatever they commit.
LEMMA RequestRecordsNothing ==
  ASSUME Typed, Recording, NEW r \in Requests, RequestStep(r)
  PROVE  /\ entries' = entries /\ UNCHANGED <<processed, acked, hook, event>>
         /\ Recording'
<1> USE DEF Typed
<1>1. UNCHANGED <<processed, acked, hook, event>>
  BY DEF RequestStep, LoadCase, IngestNew, SkipStopped, OptOut, ReadFingerprints,
         GateAndRecord, Execute, RunAdapter, AdapterRows, ExecuteStub, Commit, LockTimeout,
         dbVars, hookVars, providerVars
<1>2. \/ UNCHANGED ledger
      \/ Commit(r)
  BY DEF RequestStep, LoadCase, IngestNew, SkipStopped, OptOut, ReadFingerprints,
         GateAndRecord, Execute, RunAdapter, AdapterRows, ExecuteStub, LockTimeout, dbVars
<1>3. \A e \in Events : RecordedAt(e)' = RecordedAt(e)
  <2>1. CASE UNCHANGED ledger
    BY <2>1 DEF RecordedAt
  <2>2. CASE Commit(r)
    <3> DEFINE t == [by |-> r, case |-> target[r], rows |-> rows[r]]
    <3>1. ledger' = Append(ledger, t) /\ t.rows = rows[r]
      BY <2>2 DEF Commit
    <3>2. \A e \in Events : EventRow(e) \notin rows[r]
      BY IdsDistinct DEF Recording, RequestEventsOK, EventRow
    <3> HIDE DEF t
    <3> QED BY <3>1, <3>2, RecordedAtAppend
  <2> QED BY <1>2, <2>1, <2>2
<1>4. \A i \in DOMAIN ledger : i \in DOMAIN ledger' /\ ledger'[i] = ledger[i]
  BY <1>2, AppendedLedger DEF Commit
<1>5. RecordingOK'
  BY <1>1, <1>3, <1>4 DEF Recording, RecordingOK
<1>6. RequestEventsOK'
  <2> SUFFICES \A s \in Requests : \A x \in rows'[s] :
                 x \in rows[s] \/ (x.kind = "event" => x.event = "simulator")
    BY DEF Recording, RequestEventsOK
  <2>1. CASE LoadCase(r) \/ ReadFingerprints(r)
    BY <2>1 DEF LoadCase, ReadFingerprints
  <2>0. CASE IngestNew(r)
    <3>1. rows' = [rows EXCEPT ![r] = {EventRow("simulator")}]
      BY <2>0 DEF IngestNew
    <3> QED BY <3>1 DEF TypeOK, EventRow
  <2>2. CASE SkipStopped(r) \/ LockTimeout(r) \/ Commit(r)
    BY <2>2 DEF TypeOK, SkipStopped, LockTimeout, Commit, CloseSession
  <2>3. CASE OptOut(r)
    BY <2>3 DEF TypeOK, OptOut, StopRow
  <2>4. CASE GateAndRecord(r)
    <3>1. PICK checks : rows' = [rows EXCEPT ![r] = @ \cup {GateRow(checks)}]
      BY <2>4 DEF GateAndRecord
    <3> QED BY <3>1 DEF TypeOK, GateRow
  <2>5. CASE Execute(r)
    <3>1. PICK o, l : RunAdapter(r, o, l)
      BY <2>5 DEF Execute
    <3> QED BY <3>1 DEF TypeOK, RunAdapter, AdapterRows, OutcomeRow, ActionRow, StopRow
  <2>6. CASE ExecuteStub(r)
    BY <2>6 DEF TypeOK, ExecuteStub, ActionRow
  <2> QED BY <2>1, <2>2, <2>3, <2>4, <2>5, <2>6, <2>0 DEF RequestStep
<1>7. AcknowledgedOK'
  BY <1>1 DEF Recording, AcknowledgedOK
<1> QED BY <1>1, <1>3, <1>5, <1>6, <1>7 DEF Recording, entries

-----------------------------------------------------------------------------
\* A webhook transaction t that inserts the processed row of its event together
\* with the event row is one Record of the inbox.
LEMMA RecordingStep ==
  ASSUME Typed, Recording, NEW w \in Workers, NEW e \in Events, NEW t,
         processed[e] = None, t.case \in Cases,
         ledger' = Append(ledger, t),
         processed' = [processed EXCEPT ![e] = t.case],
         EventRow(e) \in t.rows,
         \A d \in Events : EventRow(d) \in t.rows => d = e,
         UNCHANGED <<acked, event, rows>>,
         event[w] = e, hook' = [hook EXCEPT ![w] = "reply"]
  PROVE  TheInbox!Record(e) /\ Recording'
<1> USE DEF Typed
<1>1. PICK n \in Nat :
        /\ n \in DOMAIN ledger' /\ ledger'[n] = t
        /\ RecordedAt(e)' = RecordedAt(e) \cup {n}
  BY RecordedAtAppend
<1>2. RecordedAt(e) = {}
  <2>1. \A i \in DOMAIN ledger : ledger[i].case \in Cases
    <3>1. \A i \in DOMAIN ledger : ledger[i] \in Transaction
      BY DEF TypeOK
    <3> QED BY <3>1 DEF Transaction
  <2> QED BY <2>1, IdsDistinct DEF Recording, RecordingOK
<1>3. \A d \in Events \ {e} : RecordedAt(d)' = RecordedAt(d)
  BY RecordedAtAppend
<1>4. entries' = [entries EXCEPT ![e] = {n}]
  BY <1>1, <1>2, <1>3 DEF entries
<1>5. TheInbox!Record(e)
  BY <1>1, <1>2, <1>4 DEF TheInbox!Record, entries
<1>6. \A i \in DOMAIN ledger : i \in DOMAIN ledger' /\ ledger'[i] = ledger[i]
  BY AppendedLedger
<1>7. RecordingOK'
  <2> SUFFICES ASSUME NEW d \in Events
               PROVE  \/ processed'[d] = None /\ RecordedAt(d)' = {}
                      \/ \E i \in DOMAIN ledger' : /\ RecordedAt(d)' = {i}
                                                   /\ ledger'[i].case = processed'[d]
    BY DEF RecordingOK
  <2>1. CASE d = e
    BY <1>1, <1>2, <2>1 DEF TypeOK
  <2>2. CASE d # e
    BY <1>3, <1>6, <2>2 DEF Recording, RecordingOK
  <2> QED BY <2>1, <2>2
<1>8. AcknowledgedOK'
  BY IdsDistinct DEF TypeOK, Recording, AcknowledgedOK
<1> QED
  BY <1>5, <1>7, <1>8 DEF Recording, RequestEventsOK

LEMMA RecordsOnce ==
  ASSUME Typed, Recording, NEW w \in Workers, RecordFailed(w) \/ RecordPaid(w)
  PROVE  TheInbox!Record(event[w]) /\ Recording'
<1> USE DEF Typed
<1>1. /\ event[w] \in Events /\ processed[event[w]] = None
      /\ UNCHANGED <<acked, event, rows>>
      /\ hook' = [hook EXCEPT ![w] = "reply"]
  BY DEF RecordFailed, RecordPaid, KeyFree, Events, requestVars, providerVars
<1>2. CASE RecordFailed(w)
  <2>1. PICK c \in Cases \ issued :
          /\ ledger' = Append(ledger, [by |-> w, case |-> c, rows |-> {EventRow(event[w])}])
          /\ processed' = [processed EXCEPT ![event[w]] = c]
    BY <1>2 DEF RecordFailed
  <2> DEFINE t == [by |-> w, case |-> c, rows |-> {EventRow(event[w])}]
  <2>2. /\ t.case = c /\ EventRow(event[w]) \in t.rows
        /\ \A d \in Events : EventRow(d) \in t.rows => d = event[w]
    BY DEF EventRow
  <2>3. ledger' = Append(ledger, t)
    BY <2>1
  <2> HIDE DEF t
  <2> QED BY <1>1, <2>1, <2>2, <2>3, RecordingStep
<1>3. CASE RecordPaid(w)
  <2> DEFINE t == [by |-> w, case |-> hookCase[w], rows |-> PaidRows(event[w], hookSnap[w])]
  <2>1. /\ ledger' = Append(ledger, t)
        /\ processed' = [processed EXCEPT ![event[w]] = hookCase[w]]
        /\ hookCase[w] \in Cases
    BY <1>3 DEF RecordPaid, HookOK
  <2>2. /\ t.case = hookCase[w] /\ EventRow(event[w]) \in t.rows
        /\ \A d \in Events : EventRow(d) \in t.rows => d = event[w]
    BY DEF PaidRows, EventRow, OutcomeRow, StopRow
  <2> HIDE DEF t
  <2> QED BY <1>1, <2>1, <2>2, RecordingStep
<1> QED BY <1>2, <1>3

\* An acknowledgement follows a commit or a duplicate, so the event is recorded.
LEMMA ReplyAcknowledges ==
  ASSUME Typed, Recording, NEW w \in Workers, Reply(w)
  PROVE  TheInbox!Acknowledge(event[w]) /\ event[w] \in Events /\ Recording'
<1> USE DEF Typed
<1>1. /\ event[w] \in Events /\ processed[event[w]] # None
      /\ acked' = acked \cup {event[w]}
      /\ UNCHANGED <<processed, ledger, rows>>
  BY DEF Reply, HookOK, Recording, AcknowledgedOK, dbVars, requestVars
<1>2. entries' = entries /\ RecordingOK' /\ RequestEventsOK'
  BY <1>1 DEF entries, Recording, RecordingOK, RequestEventsOK, RecordedAt
<1>3. RecordedAt(event[w]) # {}
  BY <1>1 DEF Recording, RecordingOK
<1>4. AcknowledgedOK'
  BY <1>1 DEF TypeOK, Recording, AcknowledgedOK, Reply, HookIdle
<1>5. TheInbox!Acknowledge(event[w])
  BY <1>1, <1>2, <1>3 DEF TheInbox!Acknowledge, entries
<1> QED BY <1>1, <1>2, <1>4, <1>5 DEF Recording

\* Deliveries, lost answers, timeouts, rollbacks, payments and crashes leave the
\* inbox alone.
LEMMA ElsewhereRecordsNothing ==
  ASSUME Typed, Recording,
         \/ \E w \in Workers, e \in Events : Deliver(w, e)
         \/ \E w \in Workers : IntegrityError(w) \/ HookTimeout(w) \/ LoseReply(w)
         \/ \E l \in Links : PayLink(l)
         \/ Restart
         \/ UNCHANGED vars
  PROVE  entries' = entries /\ acked' = acked /\ Recording'
<1> USE DEF Typed
<1>1. UNCHANGED <<processed, ledger, acked>>
  BY DEF Deliver, DeliverDuplicate, DeliverFailed, DeliverPaid, IntegrityError,
         HookTimeout, LoseReply, PayLink, Restart, vars, dbVars, requestVars, providerVars
<1>2. entries' = entries /\ RecordingOK'
  BY <1>1 DEF entries, Recording, RecordingOK, RecordedAt
<1>3. \A s \in Requests : rows'[s] \subseteq rows[s]
  <2>1. CASE Restart
    BY <2>1 DEF Restart, TypeOK
  <2>2. CASE ~Restart
    BY <2>2 DEF Deliver, DeliverDuplicate, DeliverFailed, DeliverPaid, IntegrityError,
         HookTimeout, LoseReply, PayLink, vars, requestVars
  <2> QED BY <2>1, <2>2
<1>4. RequestEventsOK'
  BY <1>3 DEF Recording, RequestEventsOK
<1>5. \A v \in Workers : hook'[v] = "reply" => processed[event'[v]] # None
  <2>1. CASE \E w \in Workers, e \in Events : Deliver(w, e)
    <3>1. PICK w \in Workers, e \in Events : Deliver(w, e)
      BY <2>1
    <3> QED
      BY <3>1 DEF TypeOK, Recording, AcknowledgedOK, Deliver, DeliverDuplicate,
                  DeliverFailed, DeliverPaid
  <2>2. CASE \E w \in Workers : IntegrityError(w) \/ HookTimeout(w) \/ LoseReply(w)
    <3>1. PICK w \in Workers : IntegrityError(w) \/ HookTimeout(w) \/ LoseReply(w)
      BY <2>2
    <3> QED
      BY <3>1 DEF TypeOK, Recording, AcknowledgedOK, IntegrityError, HookTimeout,
                  LoseReply, HookIdle
  <2>3. CASE (\E l \in Links : PayLink(l)) \/ UNCHANGED vars
    BY <2>3 DEF Recording, AcknowledgedOK, PayLink, vars, hookVars
  <2>4. CASE Restart
    BY <2>4 DEF Restart
  <2> QED BY <2>1, <2>2, <2>3, <2>4
<1>6. AcknowledgedOK'
  BY <1>1, <1>5 DEF Recording, AcknowledgedOK
<1> QED BY <1>1, <1>2, <1>4, <1>6 DEF Recording

\* Every step is a step of the inbox or leaves it alone.
LEMMA InboxStep ==
  ASSUME Typed, Recording, [Next]_vars
  PROVE  [TheInbox!Next]_(TheInbox!inboxVars) /\ Recording'
<1>1. \/ entries' = entries /\ acked' = acked
      \/ \E e \in Events : TheInbox!Record(e) \/ TheInbox!Acknowledge(e)
  <2>1. ASSUME NEW w \in Workers, RecordFailed(w) \/ RecordPaid(w)
        PROVE  event[w] \in Events
    BY <2>1 DEF Typed, HookOK, RecordFailed, RecordPaid
  <2> QED
    BY <2>1, RequestRecordsNothing, RecordsOnce, ReplyAcknowledges, ElsewhereRecordsNothing
       DEF Next, Record
<1>2. Recording'
  BY RequestRecordsNothing, RecordsOnce, ReplyAcknowledges, ElsewhereRecordsNothing
     DEF Next, Record
<1> QED BY <1>1, <1>2 DEF TheInbox!Next, TheInbox!inboxVars, entries

LEMMA RecordingInvariant == Spec => []Recording
<1>1. Typed /\ Recording /\ [Next]_vars => Recording'
  BY InboxStep
<1> QED BY RecordingInit, <1>1, TypedInvariant, PTL DEF Spec

\* Exactly-once recording over at-least-once delivery: RecoveryService implements
\* Inbox.  Redelivery, racing workers, rollbacks, lost answers and crashes never
\* record an event twice or acknowledge one that is not committed.
THEOREM InboxImplemented == Spec => ImplementsInbox
<1>1. Init => TheInbox!Init
  BY DEF Init, TheInbox!Init, RecordedAt
<1>2. Typed /\ Recording /\ [Next]_vars => [TheInbox!Next]_(TheInbox!inboxVars)
  BY InboxStep
<1> QED
  BY <1>1, <1>2, TypedInvariant, RecordingInvariant, PTL
     DEF Spec, ImplementsInbox, TheInbox!Spec

\* processed_events and the ledger agree at every moment, for every event: the
\* table the handler trusts never claims more, or less, than the trail shows.
THEOREM ProcessedAgreesWithLedger == Spec => []ProcessedMatchesLedger
<1>1. Recording => ProcessedMatchesLedger
  BY IdsDistinct DEF Recording, RecordingOK, ProcessedMatchesLedger, RecordedAt
<1> QED BY <1>1, RecordingInvariant, PTL

-----------------------------------------------------------------------------
(***************************************************************************)
(* One handler at a time.  SerialSpec is Spec with a scheduler that lets a *)
(* handler finish, or die, before the next one starts.  What a session has *)
(* loaded is then what the database still holds, so its counters are the   *)
(* ledger's plus its own run, and the fingerprints it read are all there   *)
(* are.                                                                    *)
(***************************************************************************)
OneAtATime == IsFiniteSet(Busy) /\ \A a, b \in Busy : a = b

\* A case has no ledger rows before it exists.
RowsHaveACase == \A i \in DOMAIN ledger : cases[ledger[i].case] # None

\* What r loaded is what the database holds; or r is opening the case.
SessionCurrent(r) ==
  pc[r] \in InFlight =>
    /\ cases[target[r]] \in {None, snap[r]}
    /\ row[r].attempts_used = Ran(target[r], Retry) + Pending(r, Retry)
    /\ row[r].contacts_used = Ran(target[r], LinkVerbs) + Pending(r, LinkVerbs)
    /\ pc[r] \in {"read", "execute"} \/ HasAction(rows[r]) => readAt[r] = Len(ledger)

\* What r is about to store, with and without an execution.
Outcome(r) ==
  /\ pc[r] = "execute" => row[r].status = "open"
  /\ pc[r] = "commit" =>
       row[r].status \in IF HasAction(rows[r]) THEN {"open", "recovered"}
                                               ELSE {"open", "blocked", "stopped"}

HookCurrent(w) ==
  hook[w] = "write" /\ event[w] \in Links => cases[hookCase[w]] = hookSnap[w]

Serial ==
  /\ OneAtATime
  /\ RowsHaveACase
  /\ CountersExact
  /\ \A r \in Requests : SessionCurrent(r) /\ Outcome(r)
  /\ \A w \in Workers : HookCurrent(w)

-----------------------------------------------------------------------------
LEMMA RequestIsBusy ==
  ASSUME NEW r \in Requests
  PROVE  (r \in Busy <=> pc[r] \in InFlight) /\ (r \in Busy' <=> pc'[r] \in InFlight)
BY IdsDistinct DEF Busy

LEMMA WorkerIsBusy ==
  ASSUME NEW w \in Workers
  PROVE  (w \in Busy <=> hook[w] # "idle") /\ (w \in Busy' <=> hook'[w] # "idle")
BY IdsDistinct DEF Busy

\* A step touches the session of one request and its place in its handler.
LEMMA RequestTouchesOne ==
  ASSUME Typed, NEW r \in Requests, RequestStep(r)
  PROVE  /\ \A s \in Requests \ {r} : pc'[s] = pc[s]
         /\ hook' = hook
         /\ pc[r] \in InFlight \/ pc'[r] \in InFlight
<1> USE DEF Typed
<1>1. CASE LoadCase(r) \/ IngestNew(r)
  BY <1>1 DEF TypeOK, LoadCase, IngestNew, hookVars, InFlight
<1>2. CASE OptOut(r) \/ ReadFingerprints(r) \/ GateAndRecord(r) \/ Execute(r) \/ ExecuteStub(r)
  BY <1>2 DEF TypeOK, OptOut, ReadFingerprints, GateAndRecord, Execute, ExecuteStub,
              hookVars, InFlight
<1>3. CASE SkipStopped(r) \/ Commit(r) \/ LockTimeout(r)
  BY <1>3 DEF TypeOK, SkipStopped, Commit, LockTimeout, CloseSession, hookVars, InFlight
<1> QED BY <1>1, <1>2, <1>3 DEF RequestStep

HookStep(w) == (\E e \in Events : Deliver(w, e)) \/ Record(w) \/ Reply(w) \/ LoseReply(w)

LEMMA HookTouchesOne ==
  ASSUME Typed, NEW w \in Workers, HookStep(w)
  PROVE  /\ \A v \in Workers \ {w} : hook'[v] = hook[v]
         /\ UNCHANGED requestVars
         /\ hook[w] # "idle" \/ hook'[w] # "idle"
<1> USE DEF Typed
<1>1. CASE \E e \in Events : Deliver(w, e)
  BY <1>1 DEF TypeOK, Deliver, DeliverDuplicate, DeliverFailed, DeliverPaid
<1>2. CASE Record(w)
  BY <1>2 DEF TypeOK, Record, IntegrityError, RecordFailed, RecordPaid, HookTimeout, HookIdle
<1>3. CASE Reply(w) \/ LoseReply(w)
  BY <1>3 DEF TypeOK, Reply, LoseReply, HookIdle
<1> QED BY <1>1, <1>2, <1>3 DEF HookStep

\* At most one handler becomes busy in a step.
LEMMA BusyGrows ==
  ASSUME Typed, [Next]_vars
  PROVE  \E x : Busy' \subseteq Busy \cup {x}
<1>1. ASSUME NEW r \in Requests, RequestStep(r)
      PROVE  Busy' \subseteq Busy \cup {r}
  BY <1>1, RequestTouchesOne DEF Busy
<1>2. ASSUME NEW w \in Workers, HookStep(w)
      PROVE  Busy' \subseteq Busy \cup {w}
  BY <1>2, HookTouchesOne DEF Busy, requestVars
<1>3. CASE (\E l \in Links : PayLink(l)) \/ UNCHANGED vars
  BY <1>3 DEF Busy, PayLink, requestVars, hookVars, vars
<1>4. CASE Restart
  BY <1>4 DEF Busy, Restart, InFlight
<1> QED BY <1>1, <1>2, <1>3, <1>4 DEF Next, HookStep

LEMMA SubsetOfOne ==
  ASSUME NEW S, IsFiniteSet(S), Cardinality(S) <= 1, NEW a \in S, NEW b \in S
  PROVE  a = b
<1> SUFFICES ASSUME a # b PROVE FALSE
  OBVIOUS
<1>1. PICK A : A = {a} /\ IsFiniteSet(A) /\ Cardinality(A) = 1
  BY FS_Singleton
<1>2. PICK B : B = A \cup {b}
  OBVIOUS
<1>3. Cardinality(B) = Cardinality(A) + 1
  <2>1. b \notin A
    BY <1>1
  <2> QED BY <1>1, <1>2, <2>1, FS_AddElement
<1>4. Cardinality(B) <= Cardinality(S)
  <2>1. B \subseteq S
    BY <1>1, <1>2
  <2> QED BY <2>1, FS_Subset
<1>5. Cardinality(S) \in Nat
  BY FS_CardinalityType
<1> QED BY <1>1, <1>3, <1>4, <1>5

LEMMA OneAtATimeNext ==
  ASSUME Typed, OneAtATime, [Next /\ Cardinality(Busy') <= 1]_vars
  PROVE  OneAtATime'
<1>1. CASE UNCHANGED vars
  BY <1>1 DEF OneAtATime, Busy, vars, requestVars, hookVars
<1>2. CASE Next /\ Cardinality(Busy') <= 1
  <2>1. PICK x, S : S = Busy' /\ S \subseteq Busy \cup {x} /\ Cardinality(S) <= 1
    BY <1>2, BusyGrows
  <2>2. IsFiniteSet(Busy \cup {x})
    BY FS_AddElement DEF OneAtATime
  <2>3. IsFiniteSet(S)
    BY <2>1, <2>2, FS_Subset
  <2>4. \A a, b \in S : a = b
    BY <2>1, <2>3, SubsetOfOne
  <2> QED BY <2>1, <2>3, <2>4 DEF OneAtATime
<1> QED BY <1>1, <1>2

\* Whoever takes a step is alone.
LEMMA RequestAlone ==
  ASSUME Typed, OneAtATime, OneAtATime', NEW r \in Requests, RequestStep(r)
  PROVE  /\ \A s \in Requests \ {r} : pc'[s] \notin InFlight
         /\ \A w \in Workers : hook'[w] = "idle"
<1>1. ASSUME NEW b \in Busy' PROVE b = r
  <2>1. b \in Busy \/ b = r
    BY <1>1, RequestTouchesOne DEF Busy
  <2>2. r \in Busy \/ r \in Busy'
    BY RequestTouchesOne, RequestIsBusy
  <2> QED BY <1>1, <2>1, <2>2 DEF OneAtATime
<1>2. \A s \in Requests \ {r} : pc'[s] \notin InFlight
  BY <1>1, RequestIsBusy
<1>3. \A w \in Workers : hook'[w] = "idle"
  BY <1>1, WorkerIsBusy, IdsDistinct
<1> QED BY <1>2, <1>3

LEMMA HookAlone ==
  ASSUME Typed, OneAtATime, OneAtATime', NEW w \in Workers, HookStep(w)
  PROVE  /\ \A s \in Requests : pc'[s] \notin InFlight
         /\ \A v \in Workers \ {w} : hook'[v] = "idle"
<1>1. ASSUME NEW b \in Busy' PROVE b = w
  <2>1. b \in Busy \/ b = w
    BY <1>1, HookTouchesOne DEF Busy, requestVars
  <2>2. w \in Busy \/ w \in Busy'
    BY HookTouchesOne, WorkerIsBusy
  <2> QED BY <1>1, <2>1, <2>2 DEF OneAtATime
<1>2. \A s \in Requests : pc'[s] \notin InFlight
  BY <1>1, RequestIsBusy, IdsDistinct
<1>3. \A v \in Workers \ {w} : hook'[v] = "idle"
  BY <1>1, WorkerIsBusy
<1> QED BY <1>2, <1>3

-----------------------------------------------------------------------------
LEMMA SerialInit == Init => Serial
<1> SUFFICES ASSUME Init PROVE Serial
  OBVIOUS
<1>1. Busy = {}
  BY DEF Init, Busy, InFlight
<1>2. OneAtATime
  BY <1>1, FS_EmptySet DEF OneAtATime
<1>3. \A c, verbs : Cardinality(UnrecoveredRuns(c, verbs)) = 0
  <2>1. \A c, verbs : UnrecoveredRuns(c, verbs) = {}
    BY DEF Init, UnrecoveredRuns
  <2> QED BY <2>1, FS_EmptySet
<1>4. CountersExact
  BY <1>3 DEF Init, CountersExact, FreshCase
<1> QED
  BY <1>2, <1>4 DEF Init, Serial, RowsHaveACase, SessionCurrent, Outcome, HookCurrent, InFlight

\* No ledger rows, no runs.
LEMMA NoRowsNoRuns ==
  ASSUME RowsHaveACase, NEW c, cases[c] = None, NEW verbs
  PROVE  Ran(c, verbs) = 0 /\ UnrecoveredRuns(c, verbs) = {}
BY FS_EmptySet DEF RowsHaveACase, Ran, UnrecoveredRuns

\* A step that commits nothing keeps what is said of the database.
LEMMA SerialDatabase ==
  ASSUME Serial, ledger' = ledger, cases' = cases
  PROVE  RowsHaveACase' /\ CountersExact'
BY DEF Serial, RowsHaveACase, CountersExact, UnrecoveredRuns, ExecutedIn

\* Starting: the row is the database's, or a new one with nothing behind it.
LEMMA SerialStart ==
  ASSUME Typed, Idempotent, Counted, Stopping, Serial, NEW r \in Requests,
         LoadCase(r) \/ IngestNew(r)
  PROVE  SessionCurrent(r)' /\ Outcome(r)'
<1> USE DEF Typed
<1>1. ledger' = ledger /\ cases' = cases /\ pc[r] = "idle" /\ pc'[r] = "loaded"
  BY DEF TypeOK, LoadCase, IngestNew, dbVars
<1>2. \A c, verbs : Ran(c, verbs) \in Nat /\ Ran(c, verbs)' = Ran(c, verbs)
  BY <1>1, RanType, RanSame
<1>3. ~HasAction(rows[r]) /\ \A x \in rows[r] : x.kind # "outcome"
  BY <1>1 DEF Idempotent, KnowledgeOK, HasAction, Counted, SessionCounts
<1>4. CASE LoadCase(r)
  <2>1. PICK c \in Cases :
          /\ cases[c] # None /\ target'[r] = c
          /\ snap'[r] = cases[c] /\ row'[r] = cases[c]
          /\ rows' = rows
    BY <1>4 DEF LoadCase, TypeOK
  <2>2. /\ cases[c].attempts_used = Ran(c, Retry)
        /\ cases[c].contacts_used = Ran(c, LinkVerbs)
    BY <2>1 DEF Serial, CountersExact, Ran, Retry
  <2>3. cases[c].attempts_used \in Nat /\ cases[c].contacts_used \in Nat
    BY <2>1 DEF TypeOK, Option, CaseRow
  <2>4. \A verbs : Pending(r, verbs)' = 0 /\ ~HasAction(rows'[r])
    BY <1>3, <2>1 DEF Pending, IsRun, HasAction
  <2> QED
    BY <1>1, <1>2, <2>1, <2>2, <2>3, <2>4 DEF SessionCurrent, Outcome
<1>5. CASE IngestNew(r)
  <2>1. PICK c \in Cases \ issued :
          /\ target'[r] = c
          /\ snap'[r] = FreshCase("absent") /\ row'[r] = FreshCase("absent")
          /\ rows'[r] = {EventRow("simulator")}
    BY <1>5 DEF IngestNew, TypeOK
  <2>2. cases[c] = None
    BY <2>1 DEF Stopping, IssuedOK
  <2>3. \A verbs : Ran(c, verbs)' = 0
    BY <1>2, <2>2, NoRowsNoRuns DEF Serial
  <2>4. \A verbs : Pending(r, verbs)' = 0 /\ ~HasAction(rows'[r])
    BY <2>1 DEF Pending, IsRun, HasAction, EventRow
  <2>5. row'[r].attempts_used = 0 /\ row'[r].contacts_used = 0
    BY <2>1 DEF FreshCase
  <2>6. cases'[target'[r]] = None
    BY <1>1, <2>1, <2>2
  <2>7. /\ row'[r].attempts_used = Ran(target[r], Retry)' + Pending(r, Retry)'
        /\ row'[r].contacts_used = Ran(target[r], LinkVerbs)' + Pending(r, LinkVerbs)'
    BY <2>1, <2>3, <2>4, <2>5
  <2> QED BY <1>1, <2>4, <2>6, <2>7 DEF SessionCurrent, Outcome
<1> QED BY <1>4, <1>5

\* On the way: only the status of the row changes, and no outcome is written.
LEMMA SerialOnTheWay ==
  ASSUME Typed, Idempotent, Counted, Stopping, Serial, NEW r \in Requests,
         OptOut(r) \/ ReadFingerprints(r) \/ GateAndRecord(r) \/ ExecuteStub(r)
  PROVE  SessionCurrent(r)' /\ Outcome(r)'
<1> USE DEF Typed
<1>0. /\ ledger' = ledger /\ cases' = cases /\ target' = target /\ snap' = snap
      /\ pc[r] \in {"loaded", "read", "execute"}
  BY DEF OptOut, ReadFingerprints, GateAndRecord, ExecuteStub, dbVars
<1>1. row[r] \in CaseRow /\ pc[r] \in InFlight
  BY <1>0 DEF SessionOK, InFlight
<1>2. /\ row'[r].attempts_used = row[r].attempts_used
      /\ row'[r].contacts_used = row[r].contacts_used
  <2>1. CASE OptOut(r)
    <3>1. row'[r] = [row[r] EXCEPT !.status = "stopped", !.stop_reason = "opt_out"]
      BY <2>1 DEF OptOut, TypeOK
    <3> QED BY <1>1, <3>1 DEF CaseRow
  <2>2. CASE GateAndRecord(r)
    <3>1. \E s : row'[r] = [row[r] EXCEPT !.status = s]
      BY <2>2 DEF GateAndRecord, TypeOK
    <3> QED BY <1>1, <3>1 DEF CaseRow
  <2> QED BY <2>1, <2>2 DEF ReadFingerprints, ExecuteStub
<1>3. \A c, verbs : Ran(c, verbs)' = Ran(c, verbs)
  BY <1>0, RanSame
<1>4. /\ \A x \in rows[r] : x.kind \notin {"action", "outcome"}
      /\ \A x \in rows'[r] : x.kind # "outcome"
      /\ ExecuteStub(r) \/ ~HasAction(rows'[r])
  <2>1. \A x \in rows[r] : x.kind \notin {"action", "outcome"}
    BY <1>0 DEF Idempotent, KnowledgeOK, Counted, SessionCounts
  <2>2. \A x \in rows'[r] :
          \/ x \in rows[r]
          \/ x.kind \in {"stop", "gate_check"}
          \/ ExecuteStub(r) /\ x.kind = "action"
    BY DEF OptOut, ReadFingerprints, GateAndRecord, ExecuteStub, TypeOK,
           StopRow, GateRow, ActionRow
  <2> QED BY <2>1, <2>2 DEF HasAction
<1>5. \A verbs : Pending(r, verbs)' = Pending(r, verbs)
  BY <1>4 DEF Pending, IsRun
<1>6. /\ cases[target[r]] \in {None, snap[r]}
      /\ row[r].attempts_used = Ran(target[r], Retry) + Pending(r, Retry)
      /\ row[r].contacts_used = Ran(target[r], LinkVerbs) + Pending(r, LinkVerbs)
      /\ pc[r] \in {"read", "execute"} => readAt[r] = Len(ledger)
  BY <1>1 DEF Serial, SessionCurrent
<1>7. pc'[r] \in {"read", "execute"} \/ HasAction(rows'[r]) => readAt'[r] = Len(ledger)
  BY <1>4, <1>6 DEF OptOut, ReadFingerprints, GateAndRecord, ExecuteStub, TypeOK
<1>8. SessionCurrent(r)'
  BY <1>0, <1>2, <1>3, <1>5, <1>6, <1>7 DEF SessionCurrent
<1>9. Outcome(r)'
  <2>1. CASE OptOut(r)
    <3>1. row'[r] = [row[r] EXCEPT !.status = "stopped", !.stop_reason = "opt_out"]
      BY <2>1 DEF OptOut, TypeOK
    <3>2. row'[r].status = "stopped" /\ pc'[r] = "commit" /\ ~HasAction(rows'[r])
      BY <1>1, <1>4, <2>1, <3>1 DEF CaseRow, OptOut, ExecuteStub, TypeOK
    <3> QED BY <3>2 DEF Outcome
  <2>2. CASE ReadFingerprints(r)
    BY <2>2 DEF Outcome, ReadFingerprints, TypeOK
  <2>3. CASE GateAndRecord(r)
    <3>1. \/ row'[r] = [row[r] EXCEPT !.status = "blocked"] /\ pc'[r] = "commit"
          \/ row'[r] = [row[r] EXCEPT !.status = "open"]
      BY <2>3 DEF GateAndRecord, TypeOK
    <3>2. ~HasAction(rows'[r])
      BY <1>4, <2>3 DEF GateAndRecord, ExecuteStub
    <3>3. row'[r].status = "open" \/ (row'[r].status = "blocked" /\ pc'[r] = "commit")
      BY <1>1, <3>1 DEF CaseRow
    <3> QED BY <3>2, <3>3 DEF Outcome
  <2>4. CASE ExecuteStub(r)
    <3>1. row'[r].status = "open" /\ pc'[r] = "commit"
      BY <2>4 DEF ExecuteStub, Serial, Outcome, TypeOK
    <3>2. HasAction(rows'[r])
      <4>1. PICK fp : rows'[r] = rows[r] \cup {ActionRow(fp)}
        BY <2>4 DEF ExecuteStub, TypeOK
      <4>2. ActionRow(fp).kind = "action"
        BY DEF ActionRow
      <4> QED BY <4>1, <4>2 DEF HasAction
    <3> QED BY <3>1, <3>2 DEF Outcome
  <2> QED BY <2>1, <2>2, <2>3, <2>4
<1> QED BY <1>8, <1>9

\* An adapter's run goes up in the counter exactly when it will count on the ledger.
LEMMA SerialExecute ==
  ASSUME Typed, Idempotent, Counted, Serial, NEW r \in Requests, Execute(r)
  PROVE  SessionCurrent(r)' /\ Outcome(r)'
<1> USE DEF Typed
<1>0. /\ ledger' = ledger /\ cases' = cases /\ target' = target /\ snap' = snap
      /\ readAt' = readAt
      /\ pc[r] = "execute" /\ pc'[r] = "commit"
  BY DEF Execute, TypeOK, dbVars
<1>1. row[r] \in CaseRow /\ body[r] \in RequestBody
  BY <1>0 DEF SessionOK, InFlight
<1>2. PICK o \in Results(body[r]), l \in Links :
        /\ rows'[r] = rows[r] \cup AdapterRows(r, o, l)
        /\ row'[r] = AfterResult(row[r], body[r].action.verb, o)
  BY DEF Execute, RunAdapter, TypeOK
<1>3. PICK verb \in Verbs : verb = body[r].action.verb
  BY <1>1 DEF RequestBody, Action
<1>4. PICK a, x : /\ a = ActionRow(Fingerprint(target[r], body[r].action))
                  /\ x = OutcomeRow(o, IF o.effect = "link" THEN l ELSE None)
  OBVIOUS
<1>5. /\ a.kind = "action" /\ a.action_fingerprint.verb = verb
      /\ x.kind = "outcome" /\ x.recovered = o.recovered
  BY <1>3, <1>4 DEF ActionRow, Fingerprint, OutcomeRow
<1>6. /\ a \in rows'[r] /\ x \in rows'[r]
      /\ \A y \in rows'[r] : y \in {a, x} \/ y.kind \notin {"action", "outcome"}
  <2>1. \A y \in rows[r] : y.kind \notin {"action", "outcome"}
    BY <1>0 DEF Idempotent, KnowledgeOK, Counted, SessionCounts
  <2> QED BY <1>2, <1>4, <2>1 DEF AdapterRows, StopRow
<1>7. \A verbs : Pending(r, verbs)' = IF verb \in verbs /\ ~o.recovered THEN 1 ELSE 0
  <2> SUFFICES ASSUME NEW verbs
               PROVE  IsRun(rows'[r], verbs) <=> (verb \in verbs /\ ~o.recovered)
    BY DEF Pending, IsRun
  <2> QED BY <1>5, <1>6 DEF IsRun
<1>8. \A verbs : Pending(r, verbs) = 0
  BY <1>0 DEF Counted, SessionCounts, Pending, IsRun
<1>9. PICK c : c = target[r]
  OBVIOUS
<1>10. /\ cases[c] \in {None, snap[r]}
       /\ row[r].attempts_used = Ran(c, Retry)
       /\ row[r].contacts_used = Ran(c, LinkVerbs)
       /\ Ran(c, Retry) \in Nat /\ Ran(c, LinkVerbs) \in Nat
       /\ readAt[r] = Len(ledger)
       /\ row[r].status = "open"
  <2>1. Ran(c, Retry) \in Nat /\ Ran(c, LinkVerbs) \in Nat
    BY RanType
  <2> QED BY <1>0, <1>8, <1>9, <2>1 DEF Serial, SessionCurrent, Outcome, InFlight
<1>11. o.recovered \in BOOLEAN
  BY <1>1, ResultsType
<1>12. /\ row'[r].attempts_used = Ran(c, Retry) + Pending(r, Retry)'
       /\ row'[r].contacts_used = Ran(c, LinkVerbs) + Pending(r, LinkVerbs)'
       /\ row'[r].status \in {"open", "recovered"}
  <2>1. CASE o.recovered
    BY <1>1, <1>2, <1>7, <1>10, <2>1 DEF AfterResult, CaseRow
  <2>2. CASE ~o.recovered /\ verb = "schedule_retry"
    BY <1>1, <1>2, <1>3, <1>7, <1>10, <2>2 DEF AfterResult, CaseRow, Retry, LinkVerbs
  <2>3. CASE ~o.recovered /\ verb \in LinkVerbs
    BY <1>1, <1>2, <1>3, <1>7, <1>10, <2>3 DEF AfterResult, CaseRow, Retry, LinkVerbs
  <2>4. CASE ~o.recovered /\ verb # "schedule_retry" /\ verb \notin LinkVerbs
    BY <1>1, <1>2, <1>3, <1>7, <1>10, <2>4 DEF AfterResult, CaseRow, Retry, LinkVerbs
  <2> QED BY <1>11, <2>1, <2>2, <2>3, <2>4
<1>13. \A d, verbs : Ran(d, verbs)' = Ran(d, verbs)
  BY <1>0, RanSame
<1>14. SessionCurrent(r)'
  <2>1. row'[r].attempts_used = Ran(target[r], Retry)' + Pending(r, Retry)'
    BY <1>0, <1>9, <1>12, <1>13
  <2>2. row'[r].contacts_used = Ran(target[r], LinkVerbs)' + Pending(r, LinkVerbs)'
    BY <1>0, <1>9, <1>12, <1>13
  <2> QED BY <1>0, <1>9, <1>10, <2>1, <2>2 DEF SessionCurrent
<1>15. Outcome(r)'
  <2>1. HasAction(rows'[r])
    BY <1>5, <1>6 DEF HasAction
  <2> QED BY <1>0, <1>12, <2>1 DEF Outcome
<1> QED BY <1>14, <1>15

\* A step of a request that is not its commit.
LEMMA SerialQuiet ==
  ASSUME Typed, Idempotent, Counted, Stopping, Serial, OneAtATime', NEW r \in Requests,
         RequestStep(r), ~Commit(r)
  PROVE  Serial'
<1> USE DEF Typed
<1>1. ledger' = ledger /\ cases' = cases
  BY DEF RequestStep, LoadCase, IngestNew, SkipStopped, OptOut, ReadFingerprints,
         GateAndRecord, Execute, ExecuteStub, LockTimeout, dbVars
<1>2. SessionCurrent(r)' /\ Outcome(r)'
  <2>1. CASE SkipStopped(r) \/ LockTimeout(r)
    <3>1. pc'[r] \in {"done", "failed"}
      BY <2>1 DEF SkipStopped, LockTimeout, CloseSession, TypeOK
    <3> QED BY <3>1 DEF SessionCurrent, Outcome, InFlight
  <2> QED
    BY <2>1, SerialStart, SerialOnTheWay, SerialExecute DEF RequestStep
<1>3. /\ \A s \in Requests \ {r} : pc'[s] \notin InFlight
      /\ \A w \in Workers : hook'[w] = "idle"
  BY RequestAlone DEF Serial
<1>4. \A s \in Requests : SessionCurrent(s)' /\ Outcome(s)'
  BY <1>2, <1>3 DEF SessionCurrent, Outcome, InFlight
<1>5. \A w \in Workers : HookCurrent(w)'
  BY <1>3 DEF HookCurrent
<1> QED
  BY <1>1, <1>4, <1>5, SerialDatabase DEF Serial

-----------------------------------------------------------------------------
\* A flush over the row that was loaded stores the row in memory.
LEMMA MergeCurrent ==
  ASSUME NEW x \in CaseRow, NEW y \in CaseRow
  PROVE  Merge(x, y, x) = y
BY DEF Merge, CaseRow

\* A committing step of the only handler keeps the invariant if the row it stores
\* counts the run it commits.
LEMMA SerialCommitting ==
  ASSUME Typed, Serial, OneAtATime', NEW t, ledger' = Append(ledger, t),
         NEW d \in Cases, t.case = d, NEW new \in CaseRow,
         cases' = [cases EXCEPT ![d] = new],
         new.attempts_used = Ran(d, Retry) + (IF IsRun(t.rows, Retry) THEN 1 ELSE 0),
         new.contacts_used = Ran(d, LinkVerbs) + (IF IsRun(t.rows, LinkVerbs) THEN 1 ELSE 0),
         \A s \in Requests : pc'[s] \notin InFlight,
         \A w \in Workers : hook'[w] # "write"
  PROVE  Serial'
<1> USE DEF Typed
<1>1. \A c, verbs :
        /\ Ran(c, verbs) \in Nat
        /\ c = d /\ IsRun(t.rows, verbs) => Ran(c, verbs)' = Ran(c, verbs) + 1
        /\ ~(c = d /\ IsRun(t.rows, verbs)) => Ran(c, verbs)' = Ran(c, verbs)
  BY RanGrows
<1>2. cases'[d] = new /\ new # None /\ \A c \in Cases \ {d} : cases'[c] = cases[c]
  BY NoneIsNoRow DEF TypeOK
<1>3. CountersExact'
  <2>1. ASSUME NEW c \in Cases, cases'[c] # None
        PROVE  /\ cases'[c].attempts_used = Ran(c, Retry)'
               /\ cases'[c].contacts_used = Ran(c, LinkVerbs)'
    <3>1. CASE c = d
      BY <1>1, <1>2, <3>1
    <3>2. CASE c # d
      <4>1. /\ cases[c].attempts_used = Ran(c, Retry)
            /\ cases[c].contacts_used = Ran(c, LinkVerbs)
        BY <1>2, <2>1, <3>2 DEF Serial, CountersExact, Ran, Retry
      <4> QED BY <1>1, <1>2, <3>2, <4>1
    <3> QED BY <3>1, <3>2
  <2> QED BY <2>1 DEF CountersExact, Ran, Retry
<1>4. RowsHaveACase'
  <2>1. PICK n : /\ DOMAIN ledger' = DOMAIN ledger \cup {n} /\ ledger'[n] = t
                 /\ \A i \in DOMAIN ledger : ledger'[i] = ledger[i]
    BY AppendedLedger
  <2>2. \A i \in DOMAIN ledger : ledger[i].case \in Cases
    <3>1. \A i \in DOMAIN ledger : ledger[i] \in Transaction
      BY DEF TypeOK
    <3> QED BY <3>1 DEF Transaction
  <2> QED BY <1>2, <2>1, <2>2 DEF Serial, RowsHaveACase
<1> QED
  BY <1>3, <1>4 DEF Serial, SessionCurrent, Outcome, HookCurrent, InFlight

\* The row a request commits is the row it has in memory.
LEMMA CommitStoresRow ==
  ASSUME Typed, Serial, NEW r \in Requests, Commit(r)
  PROVE  /\ target[r] \in Cases /\ row[r] \in CaseRow
         /\ cases' = [cases EXCEPT ![target[r]] = row[r]]
<1> USE DEF Typed
<1>1. /\ target[r] \in Cases /\ row[r] \in CaseRow /\ snap[r] \in CaseRow
      /\ cases[target[r]] \in {None, snap[r]}
  BY DEF Commit, SessionOK, InFlight, Serial, SessionCurrent
<1>2. Stored(r) = row[r]
  BY <1>1, MergeCurrent DEF Stored
<1> QED BY <1>1, <1>2 DEF Commit

LEMMA SerialCommit ==
  ASSUME Typed, Serial, OneAtATime', NEW r \in Requests, Commit(r)
  PROVE  Serial'
<1> USE DEF Typed
<1>1. PICK d \in Cases : d = target[r]
  BY CommitStoresRow
<1>2. row[r] \in CaseRow /\ cases' = [cases EXCEPT ![d] = row[r]]
  BY <1>1, CommitStoresRow
<1>3. PICK t : ledger' = Append(ledger, t) /\ t.case = d /\ t.rows = rows[r]
  BY <1>1 DEF Commit
<1>4. /\ row[r].attempts_used = Ran(d, Retry) + (IF IsRun(t.rows, Retry) THEN 1 ELSE 0)
      /\ row[r].contacts_used = Ran(d, LinkVerbs) + (IF IsRun(t.rows, LinkVerbs) THEN 1 ELSE 0)
  BY <1>1, <1>3 DEF Commit, Serial, SessionCurrent, Pending, InFlight
<1>5. /\ \A s \in Requests : pc'[s] \notin InFlight
      /\ \A w \in Workers : hook'[w] = "idle"
  <2>1. pc'[r] = "done"
    BY DEF Commit, CloseSession, TypeOK
  <2> QED BY <2>1, RequestAlone DEF RequestStep, Serial, InFlight
<1> QED BY <1>1, <1>2, <1>3, <1>4, <1>5, SerialCommitting

\* Webhook transactions hold no action row.
LEMMA RecordedFailed ==
  ASSUME Typed, Stopping, NEW w \in Workers, RecordFailed(w)
  PROVE  \E c, t :
           /\ c \in Cases
           /\ cases[c] = None
           /\ cases' = [cases EXCEPT ![c] = FreshCase("absent")]
           /\ ledger' = Append(ledger, t) /\ t.case = c
           /\ \A x \in t.rows : x.kind # "action"
<1>1. PICK c \in Cases \ issued :
        /\ cases' = [cases EXCEPT ![c] = FreshCase("absent")]
        /\ ledger' = Append(ledger, [by |-> w, case |-> c, rows |-> {EventRow(event[w])}])
  BY DEF RecordFailed
<1>2. PICK t : t = [by |-> w, case |-> c, rows |-> {EventRow(event[w])}]
  OBVIOUS
<1>3. t.case = c /\ \A x \in t.rows : x.kind # "action"
  BY <1>2 DEF EventRow
<1> QED BY <1>1, <1>2, <1>3 DEF Stopping, IssuedOK

LEMMA RecordedPaid ==
  ASSUME Typed, Serial, NEW w \in Workers, RecordPaid(w)
  PROVE  \E c, t :
           /\ c \in Cases
           /\ cases[c] \in CaseRow /\ PaidCase(cases[c]) \in CaseRow
           /\ cases' = [cases EXCEPT ![c] = PaidCase(cases[c])]
           /\ ledger' = Append(ledger, t) /\ t.case = c
           /\ \A x \in t.rows : x.kind # "action"
<1>1. PICK c \in Cases : c = hookCase[w]
  BY DEF Typed, RecordPaid, HookOK
<1>2. cases[c] \in CaseRow /\ hookSnap[w] = cases[c]
  BY <1>1 DEF Typed, HookOK, RecordPaid, Serial, HookCurrent
<1>3. PaidCase(cases[c]) \in CaseRow
  BY <1>2 DEF PaidCase, CaseRow, Statuses, StopReasons
<1>4. cases' = [cases EXCEPT ![c] = PaidCase(cases[c])]
  <2>1. cases' = [cases EXCEPT ![c] = Merge(cases[c], PaidCase(cases[c]), cases[c])]
    BY <1>1, <1>2 DEF RecordPaid
  <2> QED BY <1>2, <1>3, <2>1, MergeCurrent
<1>5. PICK t : /\ ledger' = Append(ledger, t)
               /\ t = [by |-> w, case |-> c, rows |-> PaidRows(event[w], hookSnap[w])]
  BY <1>1 DEF RecordPaid
<1>6. t.case = c /\ \A x \in t.rows : x.kind # "action"
  BY <1>5 DEF PaidRows, EventRow, OutcomeRow, StopRow
<1> QED BY <1>2, <1>3, <1>4, <1>5, <1>6

LEMMA SerialRecord ==
  ASSUME Typed, Stopping, Serial, OneAtATime', NEW w \in Workers,
         RecordFailed(w) \/ RecordPaid(w)
  PROVE  Serial'
<1> USE DEF Typed
<1>1. /\ \A s \in Requests : pc'[s] \notin InFlight
      /\ \A v \in Workers : hook'[v] # "write"
  <2>1. HookStep(w) /\ hook'[w] = "reply"
    BY DEF HookStep, Record, RecordFailed, RecordPaid, TypeOK
  <2>2. /\ \A s \in Requests : pc'[s] \notin InFlight
        /\ \A v \in Workers \ {w} : hook'[v] = "idle"
    BY <2>1, HookAlone DEF Serial
  <2> QED BY <2>1, <2>2
<1>2. CASE RecordFailed(w)
  <2>1. PICK c, t :
          /\ c \in Cases
          /\ cases[c] = None
          /\ cases' = [cases EXCEPT ![c] = FreshCase("absent")]
          /\ ledger' = Append(ledger, t) /\ t.case = c
          /\ \A x \in t.rows : x.kind # "action"
    BY <1>2, RecordedFailed
  <2>2. \A verbs : Ran(c, verbs) = 0 /\ ~IsRun(t.rows, verbs)
    BY <2>1, NoRowsNoRuns DEF Serial, IsRun
  <2>3. PICK new \in CaseRow : new = FreshCase("absent")
    BY FreshCaseType DEF FailureClasses
  <2>4. new.attempts_used = 0 /\ new.contacts_used = 0
    BY <2>3 DEF FreshCase
  <2>5. /\ cases' = [cases EXCEPT ![c] = new]
        /\ new.attempts_used = Ran(c, Retry) + (IF IsRun(t.rows, Retry) THEN 1 ELSE 0)
        /\ new.contacts_used = Ran(c, LinkVerbs) + (IF IsRun(t.rows, LinkVerbs) THEN 1 ELSE 0)
    BY <2>1, <2>2, <2>3, <2>4
  <2> QED BY <1>1, <2>1, <2>5, SerialCommitting
<1>3. CASE RecordPaid(w)
  <2>1. PICK c, t :
           /\ c \in Cases
           /\ cases[c] \in CaseRow /\ PaidCase(cases[c]) \in CaseRow
           /\ cases' = [cases EXCEPT ![c] = PaidCase(cases[c])]
           /\ ledger' = Append(ledger, t) /\ t.case = c
           /\ \A x \in t.rows : x.kind # "action"
    BY <1>3, RecordedPaid
  <2>2. PICK new \in CaseRow : new = PaidCase(cases[c])
    BY <2>1
  <2>3. /\ new.attempts_used = cases[c].attempts_used
        /\ new.contacts_used = cases[c].contacts_used
    BY <2>1, <2>2 DEF PaidCase, CaseRow
  <2>4. /\ cases[c].attempts_used = Ran(c, Retry)
        /\ cases[c].contacts_used = Ran(c, LinkVerbs)
    BY <2>1, NoneIsNoRow DEF Serial, CountersExact, Ran, Retry
  <2>5. \A verbs : Ran(c, verbs) \in Nat /\ ~IsRun(t.rows, verbs)
    BY <2>1, RanType DEF IsRun
  <2>6. /\ cases' = [cases EXCEPT ![c] = new]
        /\ new.attempts_used = Ran(c, Retry) + (IF IsRun(t.rows, Retry) THEN 1 ELSE 0)
        /\ new.contacts_used = Ran(c, LinkVerbs) + (IF IsRun(t.rows, LinkVerbs) THEN 1 ELSE 0)
    BY <2>1, <2>2, <2>3, <2>4, <2>5
  <2>7. c \in Cases /\ ledger' = Append(ledger, t) /\ t.case = c
    BY <2>1
  <2> QED BY <1>1, <2>6, <2>7, SerialCommitting
<1> QED BY <1>2, <1>3

\* A webhook that starts reads the row the database holds; nothing else that the
\* handler or the environment does reaches the database.
LEMMA SerialElsewhere ==
  ASSUME Typed, Serial, OneAtATime',
         \/ \E w \in Workers, e \in Events : Deliver(w, e)
         \/ \E w \in Workers : IntegrityError(w) \/ HookTimeout(w) \/ Reply(w) \/ LoseReply(w)
         \/ \E l \in Links : PayLink(l)
         \/ Restart
         \/ UNCHANGED vars
  PROVE  Serial'
<1> USE DEF Typed
<1>1. ledger' = ledger /\ cases' = cases
  BY DEF Deliver, DeliverDuplicate, DeliverFailed, DeliverPaid, IntegrityError,
         HookTimeout, Reply, LoseReply, PayLink, Restart, vars, dbVars
<1>2. \A c, verbs : Ran(c, verbs)' = Ran(c, verbs)
  BY <1>1, RanSame
<1>3. ASSUME NEW s \in Requests
      PROVE  SessionCurrent(s)' /\ Outcome(s)'
  <2>1. CASE Restart
    <3>1. pc'[s] \notin InFlight
      BY <2>1 DEF Restart, TypeOK, InFlight
    <3> QED BY <3>1 DEF SessionCurrent, Outcome, InFlight
  <2>2. CASE ~Restart
    <3>1. UNCHANGED requestVars
      BY <2>2 DEF Deliver, DeliverDuplicate, DeliverFailed, DeliverPaid, IntegrityError,
         HookTimeout, Reply, LoseReply, PayLink, vars
    <3>2. \A verbs : Pending(s, verbs)' = Pending(s, verbs)
      BY <3>1 DEF Pending, IsRun, requestVars
    <3>3. SessionCurrent(s) /\ Outcome(s)
      BY DEF Serial
    <3> QED BY <1>1, <1>2, <3>1, <3>2, <3>3 DEF SessionCurrent, Outcome, HasAction, requestVars
  <2> QED BY <2>1, <2>2
<1>4. ASSUME NEW v \in Workers
      PROVE  HookCurrent(v)'
  <2>1. \/ hook'[v] # "write"
        \/ event'[v] \notin Links
        \/ hookSnap'[v] = cases'[hookCase'[v]]
        \/ UNCHANGED <<hook[v], event[v], hookCase[v], hookSnap[v]>>
    <3>1. ASSUME NEW w \in Workers, NEW e \in Events, Deliver(w, e)
          PROVE  \/ hook'[v] # "write"
                 \/ event'[v] \notin Links
                 \/ hookSnap'[v] = cases'[hookCase'[v]]
                 \/ UNCHANGED <<hook[v], event[v], hookCase[v], hookSnap[v]>>
      BY <1>1, <3>1, IdsDistinct
         DEF TypeOK, Deliver, DeliverDuplicate, DeliverFailed, DeliverPaid
    <3>2. ASSUME NEW w \in Workers, IntegrityError(w) \/ HookTimeout(w) \/ Reply(w) \/ LoseReply(w)
          PROVE  \/ hook'[v] # "write"
                 \/ UNCHANGED <<hook[v], event[v], hookCase[v], hookSnap[v]>>
      BY <3>2 DEF TypeOK, IntegrityError, HookTimeout, Reply, LoseReply, HookIdle
    <3>3. CASE (\E l \in Links : PayLink(l)) \/ Restart \/ UNCHANGED vars
      BY <3>3 DEF PayLink, Restart, vars, hookVars
    <3> QED BY <3>1, <3>2, <3>3
  <2> QED BY <1>1, <2>1 DEF Serial, HookCurrent
<1> QED
  BY <1>1, <1>3, <1>4, SerialDatabase DEF Serial

LEMMA SerialStep ==
  ASSUME Typed, Idempotent, Counted, Stopping, Serial,
         [Next /\ Cardinality(Busy') <= 1]_vars
  PROVE  Serial'
<1>1. OneAtATime' /\ [Next]_vars
  BY OneAtATimeNext DEF Serial
<1>2. ASSUME NEW r \in Requests, RequestStep(r)
      PROVE  Serial'
  BY <1>1, <1>2, SerialQuiet, SerialCommit
<1> QED
  BY <1>1, <1>2, SerialRecord, SerialElsewhere DEF Next, Record

LEMMA SerialIsSpec == SerialSpec => Spec
<1>1. [Next /\ Cardinality(Busy') <= 1]_vars => [Next]_vars
  OBVIOUS
<1> QED BY <1>1, PTL DEF SerialSpec, Spec

LEMMA SerialInvariant == SerialSpec => []Serial
<1>1. Typed /\ Idempotent /\ Counted /\ Stopping /\ Serial
      /\ [Next /\ Cardinality(Busy') <= 1]_vars => Serial'
  BY SerialStep
<1> QED
  BY SerialInit, <1>1, SerialIsSpec, TypedInvariant, IdempotentInvariant,
     CountedInvariant, StoppingInvariant, PTL
     DEF SerialSpec

\* One handler at a time, the counters of a case are the ledger's: no run is
\* missed and none is counted twice, also when a crash cuts a handler off.
THEOREM CountersAreExact == SerialSpec => []CountersExact
<1>1. Serial => CountersExact
  BY DEF Serial
<1> QED BY <1>1, SerialInvariant, PTL

-----------------------------------------------------------------------------
(***************************************************************************)
(* One handler at a time, RecoveryService implements CaseContract: every   *)
(* transaction is a Settle, an Act or a Pay of its case.                   *)
(***************************************************************************)
contractStatus == [c \in Cases |-> IF cases[c] = None THEN "none" ELSE cases[c].status]
contractExecuted == [c \in Cases |-> Executions(c)]

\* The executions a transaction at position n adds.
Adds(t, n) ==
  {[action |-> x.action_fingerprint, at |-> n] : x \in {y \in t.rows : y.kind = "action"}}

LEMMA ExecutionsAppend ==
  ASSUME TypeOK, NEW t, ledger' = Append(ledger, t), t.case \in Cases
  PROVE  \E n : contractExecuted' =
           [contractExecuted EXCEPT ![t.case] = @ \cup Adds(t, n)]
<1>1. PICK n : /\ n \notin DOMAIN ledger
               /\ DOMAIN ledger' = DOMAIN ledger \cup {n}
               /\ ledger'[n] = t
               /\ \A i \in DOMAIN ledger : ledger'[i] = ledger[i]
                                           /\ ExecutedIn(i)' = ExecutedIn(i)
  <2>1. Len(ledger) \in Nat /\ Len(ledger) + 1 \notin DOMAIN ledger
    BY DEF TypeOK
  <2> QED BY <2>1, AppendedLedger
<1>2. {[action |-> fp, at |-> n] : fp \in ExecutedIn(n)'} = Adds(t, n)
  <2>1. ExecutedIn(n)' = {x.action_fingerprint : x \in {y \in t.rows : y.kind = "action"}}
    BY <1>1 DEF ExecutedIn
  <2> QED BY <2>1 DEF Adds
<1>3. Executions(t.case)' = Executions(t.case) \cup Adds(t, n)
  BY <1>1, <1>2 DEF Executions
<1>4. \A c \in Cases \ {t.case} : Executions(c)' = Executions(c)
  BY <1>1 DEF Executions
<1> QED BY <1>3, <1>4 DEF contractExecuted

\* A transaction that executes nothing settles its case, if it is not closed.
LEMMA Settles ==
  ASSUME TypeOK, NEW c \in Cases, NEW t, ledger' = Append(ledger, t), t.case = c,
         \A x \in t.rows : x.kind # "action",
         NEW new \in CaseRow, cases' = [cases EXCEPT ![c] = new]
  PROVE  /\ contractExecuted' = contractExecuted
         /\ contractStatus' = [contractStatus EXCEPT ![c] = new.status]
<1>1. contractStatus' = [contractStatus EXCEPT ![c] = new.status]
  <2>1. new # None
    BY NoneIsNoRow
  <2> QED BY <2>1 DEF TypeOK, contractStatus
<1>2. \A n : Adds(t, n) = {}
  BY DEF Adds
<1>3. contractExecuted' = contractExecuted
  <2>1. PICK n : contractExecuted' =
                   [contractExecuted EXCEPT ![c] = contractExecuted[c] \cup Adds(t, n)]
    BY ExecutionsAppend
  <2> QED BY <1>2, <2>1 DEF contractExecuted
<1> QED BY <1>1, <1>3

\* Whether an action runs on the case of r is decided on what the ledger holds.
LEMMA CommitIsNew ==
  ASSUME Typed, Idempotent, Serial, NEW r \in Requests, Commit(r),
         NEW x \in rows[r], x.kind = "action"
  PROVE  /\ x.action_fingerprint = Fingerprint(target[r], body[r].action)
         /\ \A y \in Executions(target[r]) : y.action # x.action_fingerprint
<1>1. /\ x.action_fingerprint = Fingerprint(target[r], body[r].action)
      /\ SeenAll(r) /\ IsNew(r)
  BY DEF Idempotent, KnowledgeOK
<1>2. readAt[r] = Len(ledger)
  BY DEF Commit, Serial, SessionCurrent, HasAction, InFlight
<1>3. \A i \in DOMAIN ledger : i <= readAt[r]
  BY <1>2 DEF Typed, TypeOK
<1>4. \A i \in DOMAIN ledger : ledger[i].case = target[r] => ExecutedIn(i) \subseteq seen[r]
  BY <1>1, <1>3 DEF SeenAll
<1>5. \A y \in Executions(target[r]) :
        \E i \in DOMAIN ledger : ledger[i].case = target[r] /\ y.action \in ExecutedIn(i)
  BY DEF Executions
<1>6. \A y \in Executions(target[r]) : y.action \in seen[r]
  BY <1>4, <1>5
<1> QED BY <1>1, <1>6 DEF IsNew

\* A request's commit is a Settle or an Act of its case.
LEMMA CommitKeepsContract ==
  ASSUME Typed, Idempotent, Stopping, Serial, NEW r \in Requests, Commit(r)
  PROVE  \E c \in Cases : TheContract!Settle(c) \/ TheContract!Act(c)
<1> USE DEF Typed
<1>1. PICK c \in Cases : c = target[r]
  BY CommitStoresRow
<1>2. row[r] \in CaseRow /\ cases' = [cases EXCEPT ![c] = row[r]]
  BY <1>1, CommitStoresRow
<1>3. PICK t : ledger' = Append(ledger, t) /\ t.case = c /\ t.rows = rows[r]
  BY <1>1 DEF Commit
<1>4. contractStatus[c] \notin {"stopped", "recovered"}
  <2>1. cases[c] \in {None, snap[r]} /\ ~IsStopped(snap[r])
    BY <1>1 DEF Commit, Serial, SessionCurrent, Stopping, StopsKnown, InFlight
  <2> QED BY <2>1 DEF contractStatus, IsStopped
<1>5. row[r].status \in IF HasAction(rows[r]) THEN {"open", "recovered"}
                                              ELSE {"open", "blocked", "stopped"}
  BY DEF Commit, Serial, Outcome
<1>6. contractStatus' = [contractStatus EXCEPT ![c] = row[r].status]
  <2>1. row[r] # None
    BY <1>2, NoneIsNoRow
  <2> QED BY <1>2, <2>1 DEF TypeOK, contractStatus
<1>7. CASE ~HasAction(rows[r])
  <2>1. \A x \in t.rows : x.kind # "action"
    BY <1>3, <1>7 DEF HasAction
  <2>2. contractExecuted' = contractExecuted
    BY <1>2, <1>3, <2>1, Settles
  <2>3. TheContract!Settle(c)
    BY <1>4, <1>5, <1>6, <1>7, <2>2
       DEF TheContract!Settle, TheContract!Closed, contractStatus, contractExecuted
  <2> QED BY <2>3
<1>8. CASE HasAction(rows[r])
  <2>1. PICK a \in rows[r] : a.kind = "action"
    BY <1>8 DEF HasAction
  <2>2. \A b \in rows[r] : b.kind = "action" => b.action_fingerprint = a.action_fingerprint
    BY <2>1, CommitIsNew
  <2>3. PICK n : contractExecuted' =
                   [contractExecuted EXCEPT ![c] = contractExecuted[c] \cup Adds(t, n)]
    BY <1>3, ExecutionsAppend
  <2>4. PICK x : x = [action |-> a.action_fingerprint, at |-> n]
    OBVIOUS
  <2>5. Adds(t, n) = {x}
    BY <1>3, <2>1, <2>2, <2>4 DEF Adds
  <2>6. contractExecuted' = [contractExecuted EXCEPT ![c] = contractExecuted[c] \cup {x}]
    BY <2>3, <2>5
  <2>7. x \in contractExecuted'[c]
    BY <2>6 DEF contractExecuted
  <2>8. \A y \in contractExecuted[c] : y.action # x.action
    BY <1>1, <2>1, <2>4, CommitIsNew DEF contractExecuted
  <2>9. TheContract!Act(c)
    BY <1>4, <1>5, <1>6, <1>8, <2>6, <2>7, <2>8
       DEF TheContract!Act, TheContract!Closed, contractStatus, contractExecuted
  <2> QED BY <2>9
<1> QED BY <1>7, <1>8

\* A failure event opens a case; a paid link recovers one.
LEMMA RecordKeepsContract ==
  ASSUME Typed, Stopping, Serial, NEW w \in Workers, RecordFailed(w) \/ RecordPaid(w)
  PROVE  \E c \in Cases : TheContract!Settle(c) \/ TheContract!Pay(c)
<1> USE DEF Typed
<1>1. CASE RecordFailed(w)
  <2>1. PICK c, t :
          /\ c \in Cases
          /\ cases[c] = None
          /\ cases' = [cases EXCEPT ![c] = FreshCase("absent")]
          /\ ledger' = Append(ledger, t) /\ t.case = c
          /\ \A x \in t.rows : x.kind # "action"
    BY <1>1, RecordedFailed
  <2>2. PICK new \in CaseRow : new = FreshCase("absent")
    BY FreshCaseType DEF FailureClasses
  <2>3. new.status = "open"
    BY <2>2 DEF FreshCase
  <2>4. /\ contractExecuted' = contractExecuted
        /\ contractStatus' = [contractStatus EXCEPT ![c] = "open"]
    BY <2>1, <2>2, <2>3, Settles
  <2>5. contractStatus[c] = "none"
    BY <2>1 DEF contractStatus
  <2>6. TheContract!Settle(c)
    BY <2>4, <2>5 DEF TheContract!Settle, TheContract!Closed, contractStatus, contractExecuted
  <2>7. c \in Cases
    BY <2>1
  <2> QED BY <2>6, <2>7
<1>2. CASE RecordPaid(w)
  <2>1. PICK c, t :
           /\ c \in Cases
           /\ cases[c] \in CaseRow /\ PaidCase(cases[c]) \in CaseRow
           /\ cases' = [cases EXCEPT ![c] = PaidCase(cases[c])]
           /\ ledger' = Append(ledger, t) /\ t.case = c
           /\ \A x \in t.rows : x.kind # "action"
    BY <1>2, RecordedPaid
  <2>2. PICK new \in CaseRow : new = PaidCase(cases[c])
    BY <2>1
  <2>3. new.status = "recovered" /\ cases' = [cases EXCEPT ![c] = new]
    BY <2>1, <2>2 DEF PaidCase, CaseRow
  <2>4. /\ contractExecuted' = contractExecuted
        /\ contractStatus' = [contractStatus EXCEPT ![c] = "recovered"]
    <3>1. /\ c \in Cases /\ t.case = c
          /\ ledger' = Append(ledger, t) /\ \A x \in t.rows : x.kind # "action"
      BY <2>1
    <3> QED BY <2>3, <3>1, Settles
  <2>5. contractStatus[c] # "none"
    BY <2>1, NoneIsNoRow DEF contractStatus, CaseRow, Statuses
  <2>6. TheContract!Pay(c)
    BY <2>4, <2>5 DEF TheContract!Pay, contractStatus, contractExecuted
  <2>7. c \in Cases
    BY <2>1
  <2> QED BY <2>6, <2>7
<1> QED BY <1>1, <1>2

\* Everything else happens out of sight of the contract.
LEMMA ElsewhereKeepsContract ==
  ASSUME ledger' = ledger, cases' = cases
  PROVE  contractStatus' = contractStatus /\ contractExecuted' = contractExecuted
BY DEF contractStatus, contractExecuted, Executions, ExecutedIn

LEMMA ContractStep ==
  ASSUME Typed, Idempotent, Stopping, Serial, [Next]_vars
  PROVE  [TheContract!Next]_(TheContract!contractVars)
<1>1. \/ ledger' = ledger /\ cases' = cases
      \/ \E r \in Requests : Commit(r)
      \/ \E w \in Workers : RecordFailed(w) \/ RecordPaid(w)
  <2>1. ASSUME NEW r \in Requests, RequestStep(r)
        PROVE  (ledger' = ledger /\ cases' = cases) \/ Commit(r)
    BY <2>1 DEF RequestStep, LoadCase, IngestNew, SkipStopped, OptOut, ReadFingerprints,
         GateAndRecord, Execute, ExecuteStub, LockTimeout, dbVars
  <2>2. ASSUME NEW w \in Workers, HookStep(w)
        PROVE  (ledger' = ledger /\ cases' = cases) \/ RecordFailed(w) \/ RecordPaid(w)
    BY <2>2 DEF HookStep, Deliver, DeliverDuplicate, DeliverFailed, DeliverPaid, Record,
         IntegrityError, HookTimeout, Reply, LoseReply, dbVars
  <2>3. CASE (\E l \in Links : PayLink(l)) \/ Restart \/ UNCHANGED vars
    BY <2>3 DEF PayLink, Restart, vars, dbVars
  <2> QED BY <2>1, <2>2, <2>3 DEF Next, HookStep
<1>2. CASE ledger' = ledger /\ cases' = cases
  BY <1>2, ElsewhereKeepsContract
     DEF TheContract!contractVars, contractStatus, contractExecuted
<1>3. CASE \E r \in Requests : Commit(r)
  BY <1>3, CommitKeepsContract DEF TheContract!Next
<1>4. CASE \E w \in Workers : RecordFailed(w) \/ RecordPaid(w)
  BY <1>4, RecordKeepsContract DEF TheContract!Next
<1> QED BY <1>1, <1>2, <1>3, <1>4

\* RecoveryService, one handler at a time, implements CaseContract: automation runs
\* on a case only while it is open, never twice the same action, and nobody reopens
\* what was closed, whatever crashes in between (guard/pipeline.py, guard/stops.py).
THEOREM ContractImplemented == SerialSpec => ImplementsContract
<1>1. Init => TheContract!Init
  <2> SUFFICES ASSUME Init PROVE TheContract!Init
    OBVIOUS
  <2>1. \A c \in Cases : Executions(c) = {}
    BY DEF Init, Executions
  <2>2. \A c \in Cases : cases[c] = None \/ cases[c].status = "open"
    BY DEF Init, FreshCase
  <2> QED BY <2>1, <2>2 DEF TheContract!Init
<1>2. Typed /\ Idempotent /\ Stopping /\ Serial /\ [Next]_vars
        => [TheContract!Next]_(TheContract!contractVars)
  BY ContractStep
<1> QED
  BY <1>1, <1>2, SerialIsSpec, SerialInvariant, TypedInvariant, IdempotentInvariant,
     StoppingInvariant, PTL
     DEF SerialSpec, Spec, ImplementsContract, TheContract!Spec
=============================================================================
