------------------------- MODULE RecoveryTypeProofs -------------------------
(***************************************************************************)
(* Type correctness of RecoveryService, for any number of requests,        *)
(* webhook workers, cases, links, events, request bodies and crashes.      *)
(***************************************************************************)
EXTENDS RecoveryPromises, TLAPS

-----------------------------------------------------------------------------
(***************************************************************************)
(* Lemmas about the operators.                                             *)
(***************************************************************************)

\* A flush turns three rows into a row: it never loses a column.
LEMMA MergeType ==
  ASSUME NEW x \in CaseRow, NEW y \in CaseRow, NEW z \in CaseRow
  PROVE  Merge(x, y, z) \in CaseRow
BY DEF Merge, CaseRow

\* The verdicts of a pass are six Booleans.
LEMMA RunGatesType ==
  ASSUME NEW ctx
  PROVE  RunGates(ctx) \in [GateNames -> BOOLEAN]
BY DEF RunGates, GateNames, GateProhibitedRecovery, GateContactWindow,
       GateFrequencyCap, GateMandateValidity, GateAttemptCap, GateIdempotency,
       IsContactAction, IsMoneyAction

LEMMA FreshCaseType ==
  ASSUME NEW class \in FailureClasses
  PROVE  FreshCase(class) \in CaseRow
BY DEF FreshCase, CaseRow, Statuses

LEMMA FingerprintType ==
  ASSUME NEW c \in Cases, NEW q \in RequestBody
  PROVE  Fingerprint(c, q.action) \in Fingerprints(Cases)
BY DEF Fingerprint, Fingerprints, RequestBody, Action

LEMMA ResultType ==
  ASSUME NEW s, NEW b \in BOOLEAN, NEW e
  PROVE  Result(s, b, e).status = s /\ Result(s, b, e).recovered \in BOOLEAN
BY DEF Result

LEMMA ResultsType ==
  ASSUME NEW q \in RequestBody, NEW o \in Results(q)
  PROVE  o.status \in OutcomeStatuses /\ o.recovered \in BOOLEAN
<1>1. \/ q.action.verb = "escalate_human"
      \/ q.action.verb = "schedule_retry"
      \/ q.action.verb \in LinkVerbs
  BY DEF RequestBody, Action, Verbs, LinkVerbs
<1>2. \E s \in OutcomeStatuses, b \in BOOLEAN, e \in {"none", "link", "lost"} :
        o = Result(s, b, e)
  <2>1. CASE q.action.verb = "escalate_human"
    BY <2>1 DEF Results, SimExecutor, RazorpayExecutor, OutcomeStatuses
  <2>2. CASE q.action.verb = "schedule_retry"
    BY <2>2 DEF Results, SimExecutor, RazorpayExecutor, OutcomeStatuses
  <2>3. CASE q.action.verb \in LinkVerbs
    BY <2>3 DEF Results, SimExecutor, RazorpayExecutor, OutcomeStatuses, LinkVerbs
  <2> QED BY <1>1, <2>1, <2>2, <2>3
<1> QED BY <1>2, ResultType

LEMMA AfterResultType ==
  ASSUME NEW c \in CaseRow, NEW verb \in Verbs, NEW o, o.recovered \in BOOLEAN
  PROVE  AfterResult(c, verb, o) \in CaseRow
<1>1. CASE o.recovered
  BY <1>1 DEF AfterResult, CaseRow, Statuses, StopReasons
<1>2. CASE ~o.recovered
  BY <1>2 DEF AfterResult, CaseRow, Verbs, LinkVerbs
<1> QED BY <1>1, <1>2

\* Replaying the action rows of a ledger yields fingerprints.
LEMMA ExecutedFingerprintsType ==
  ASSUME ledger \in Seq(Transaction), NEW c \in Cases
  PROVE  ExecutedFingerprints(c) \subseteq Fingerprints(Cases)
<1> SUFFICES ASSUME NEW i \in DOMAIN ledger, NEW x \in ledger[i].rows,
                    x.kind = "action"
             PROVE  x.action_fingerprint \in Fingerprints(Cases)
  BY DEF ExecutedFingerprints, ExecutedIn
<1>1. x \in Row
  <2>1. ledger[i] \in Transaction
    OBVIOUS
  <2> QED BY <2>1 DEF Transaction
<1>2. x \in [kind : {"action"}, action_fingerprint : Fingerprints(Cases)]
  BY <1>1 DEF Row
<1> QED BY <1>2

LEMMA RowTypes ==
  /\ \A e \in Events \cup {"simulator"} : EventRow(e) \in Row
  /\ \A ctx : GateRow(RunGates(ctx)) \in Row
  /\ \A reason \in StopReasons : StopRow(reason) \in Row
  /\ \A fp \in Fingerprints(Cases) : ActionRow(fp) \in Row
  /\ \A o, l : /\ o.status \in OutcomeStatuses
              /\ o.recovered \in BOOLEAN
              /\ l \in Links \cup {None}
              => OutcomeRow(o, l) \in Row
<1>1. \A e \in Events \cup {"simulator"} : EventRow(e) \in Row
  BY DEF EventRow, Row
<1>2. \A ctx : GateRow(RunGates(ctx)) \in Row
  BY RunGatesType DEF GateRow, Row
<1>3. \A reason \in StopReasons : StopRow(reason) \in Row
  BY DEF StopRow, Row
<1>4. \A fp \in Fingerprints(Cases) : ActionRow(fp) \in Row
  BY DEF ActionRow, Row
<1>5. ASSUME NEW o, NEW l \in Links \cup {None},
             o.status \in OutcomeStatuses, o.recovered \in BOOLEAN
      PROVE  OutcomeRow(o, l) \in Row
  BY <1>5 DEF OutcomeRow, Row
<1> QED BY <1>1, <1>2, <1>3, <1>4, <1>5

-----------------------------------------------------------------------------
(***************************************************************************)
(* Type correctness.  A handler in flight has a session: the case it works *)
(* on and the row it loaded.  A webhook in flight has its event, and one   *)
(* about a paid link has a case.                                           *)
(***************************************************************************)
SessionOK ==
  \A r \in Requests : pc[r] \in InFlight =>
    /\ body[r] \in RequestBody
    /\ target[r] \in Cases
    /\ snap[r] \in CaseRow
    /\ row[r] \in CaseRow

HookOK ==
  /\ \A w \in Workers :
       /\ hook[w] # "idle" => event[w] \in Events
       /\ hook[w] = "write" /\ event[w] \in Links =>
            /\ hookCase[w] \in Cases
            /\ hookSnap[w] \in CaseRow
            /\ cases[hookCase[w]] \in CaseRow
  /\ \A l \in Links : links[l].paid => links[l].case \in Cases

Typed == TypeOK /\ SessionOK /\ HookOK

LEMMA TypedInit == Init => Typed
<1> SUFFICES ASSUME Init PROVE Typed
  OBVIOUS
<1>1. TypeOK
  BY FreshCaseType, PreloadedAssumption, MaxFaultsAssumption
     DEF Init, TypeOK, Option, RequestStates
<1>2. SessionOK /\ HookOK
  BY DEF Init, SessionOK, HookOK, InFlight
<1> QED BY <1>1, <1>2 DEF Typed

LEMMA TypedLoadCase ==
  ASSUME Typed, NEW r \in Requests, LoadCase(r)
  PROVE  Typed'
<1> USE DEF Typed
<1>1. TypeOK'
  BY RequestSpaceAssumption
     DEF TypeOK, LoadCase, Option, RequestStates, InFlight, dbVars, hookVars, providerVars
<1>2. SessionOK'
  BY RequestSpaceAssumption
     DEF TypeOK, SessionOK, LoadCase, Option, InFlight, dbVars, hookVars, providerVars
<1>3. HookOK'
  BY DEF HookOK, LoadCase, dbVars, hookVars, providerVars
<1> QED BY <1>1, <1>2, <1>3

LEMMA TypedIngestNew ==
  ASSUME Typed, NEW r \in Requests, IngestNew(r)
  PROVE  Typed'
<1> USE DEF Typed
<1>1. TypeOK'
  BY FreshCaseType, RowTypes, RequestSpaceAssumption
     DEF TypeOK, SessionOK, HookOK, IngestNew, FailureClasses,
         Option, RequestStates, InFlight, CloseSession, dbVars, requestVars,
         hookVars, providerVars
<1>2. SessionOK'
  BY FreshCaseType, RowTypes, RequestSpaceAssumption
     DEF TypeOK, SessionOK, HookOK, IngestNew, FailureClasses,
         Option, RequestStates, InFlight, CloseSession, dbVars, requestVars,
         hookVars, providerVars
<1>3. HookOK'
  BY FreshCaseType, RowTypes, RequestSpaceAssumption
     DEF TypeOK, SessionOK, HookOK, IngestNew, FailureClasses,
         Option, RequestStates, InFlight, CloseSession, dbVars, requestVars,
         hookVars, providerVars
<1> QED BY <1>1, <1>2, <1>3

LEMMA TypedSkipStopped ==
  ASSUME Typed, NEW r \in Requests, SkipStopped(r)
  PROVE  Typed'
<1> USE DEF Typed
<1>1. TypeOK'
  BY DEF TypeOK, SessionOK, HookOK, SkipStopped,
         Option, RequestStates, InFlight, CloseSession, dbVars, requestVars,
         hookVars, providerVars
<1>2. SessionOK'
  BY DEF TypeOK, SessionOK, HookOK, SkipStopped,
         Option, RequestStates, InFlight, CloseSession, dbVars, requestVars,
         hookVars, providerVars
<1>3. HookOK'
  BY DEF TypeOK, SessionOK, HookOK, SkipStopped,
         Option, RequestStates, InFlight, CloseSession, dbVars, requestVars,
         hookVars, providerVars
<1> QED BY <1>1, <1>2, <1>3

LEMMA TypedOptOut ==
  ASSUME Typed, NEW r \in Requests, OptOut(r)
  PROVE  Typed'
<1> USE DEF Typed
<1>a. row' \in [Requests -> Option(CaseRow)] /\ row'[r] \in CaseRow
  <2>1. row' = [row EXCEPT ![r] = [row[r] EXCEPT !.status = "stopped",
                                                 !.stop_reason = "opt_out"]]
    BY DEF OptOut, TypeOK
  <2>2. row[r] \in CaseRow
    BY DEF OptOut, SessionOK, InFlight
  <2>3. [row[r] EXCEPT !.status = "stopped", !.stop_reason = "opt_out"] \in CaseRow
    BY <2>2 DEF CaseRow, Statuses, StopReasons
  <2> QED BY <2>1, <2>3 DEF TypeOK, Option
<1>1. TypeOK'
  BY <1>a, RowTypes
     DEF TypeOK, SessionOK, HookOK, OptOut, CaseRow, Statuses, StopReasons,
         Option, RequestStates, InFlight, CloseSession, dbVars, requestVars,
         hookVars, providerVars
<1>2. SessionOK'
  BY <1>a, RowTypes
     DEF TypeOK, SessionOK, HookOK, OptOut, CaseRow, Statuses, StopReasons,
         Option, RequestStates, InFlight, CloseSession, dbVars, requestVars,
         hookVars, providerVars
<1>3. HookOK'
  BY RowTypes
     DEF TypeOK, SessionOK, HookOK, OptOut, CaseRow, Statuses, StopReasons,
         Option, RequestStates, InFlight, CloseSession, dbVars, requestVars,
         hookVars, providerVars
<1> QED BY <1>1, <1>2, <1>3

LEMMA TypedReadFingerprints ==
  ASSUME Typed, NEW r \in Requests, ReadFingerprints(r)
  PROVE  Typed'
<1> USE DEF Typed
<1>1. TypeOK'
  BY ExecutedFingerprintsType
     DEF TypeOK, SessionOK, HookOK, ReadFingerprints,
         Option, RequestStates, InFlight, CloseSession, dbVars, requestVars,
         hookVars, providerVars
<1>2. SessionOK'
  BY ExecutedFingerprintsType
     DEF TypeOK, SessionOK, HookOK, ReadFingerprints,
         Option, RequestStates, InFlight, CloseSession, dbVars, requestVars,
         hookVars, providerVars
<1>3. HookOK'
  BY ExecutedFingerprintsType
     DEF TypeOK, SessionOK, HookOK, ReadFingerprints,
         Option, RequestStates, InFlight, CloseSession, dbVars, requestVars,
         hookVars, providerVars
<1> QED BY <1>1, <1>2, <1>3

LEMMA TypedGateAndRecord ==
  ASSUME Typed, NEW r \in Requests, GateAndRecord(r)
  PROVE  Typed'
<1> USE DEF Typed
<1>a. row' \in [Requests -> Option(CaseRow)] /\ row'[r] \in CaseRow
  <2>1. \E s \in Statuses : row' = [row EXCEPT ![r] = [row[r] EXCEPT !.status = s]]
    BY DEF GateAndRecord, TypeOK, Statuses
  <2>2. row[r] \in CaseRow
    BY DEF GateAndRecord, SessionOK, InFlight
  <2>3. \A s \in Statuses : [row[r] EXCEPT !.status = s] \in CaseRow
    BY <2>2 DEF CaseRow
  <2> QED BY <2>1, <2>3 DEF TypeOK, Option
<1>b. rows' \in [Requests -> SUBSET Row]
  BY RowTypes DEF GateAndRecord, TypeOK
<1>1. TypeOK'
  BY <1>b, <1>a, RowTypes
     DEF TypeOK, SessionOK, HookOK, GateAndRecord, CaseRow, Statuses,
         Option, RequestStates, InFlight, CloseSession, dbVars, requestVars,
         hookVars, providerVars
<1>2. SessionOK'
  <2>1. /\ UNCHANGED <<body, target, snap>>
        /\ pc[r] \in InFlight
        /\ \A q \in Requests \ {r} : pc'[q] = pc[q] /\ row'[q] = row[q]
    BY DEF GateAndRecord, TypeOK, InFlight
  <2> QED BY <1>a, <2>1 DEF SessionOK, TypeOK
<1>3. HookOK'
  BY <1>b, RowTypes
     DEF TypeOK, SessionOK, HookOK, GateAndRecord, CaseRow, Statuses,
         Option, RequestStates, InFlight, CloseSession, dbVars, requestVars,
         hookVars, providerVars
<1> QED BY <1>1, <1>2, <1>3

LEMMA TypedExecute ==
  ASSUME Typed, NEW r \in Requests, Execute(r)
  PROVE  Typed'
<1> USE DEF Typed
<1>1. /\ pc[r] = "execute"
      /\ body[r] \in RequestBody
      /\ target[r] \in Cases
      /\ row[r] \in CaseRow
  BY DEF Execute, SessionOK, InFlight
<1>2. PICK o \in Results(body[r]), l \in Links : RunAdapter(r, o, l)
  BY DEF Execute
<1>3. o.status \in OutcomeStatuses /\ o.recovered \in BOOLEAN
  BY <1>1, ResultsType
<1>4. row' \in [Requests -> Option(CaseRow)] /\ row'[r] \in CaseRow
  <2>1. AfterResult(row[r], body[r].action.verb, o) \in CaseRow
    BY <1>1, <1>3, AfterResultType DEF RequestBody, Action
  <2>2. row' = [row EXCEPT ![r] = AfterResult(row[r], body[r].action.verb, o)]
    BY <1>2 DEF RunAdapter
  <2> QED BY <2>1, <2>2 DEF TypeOK, Option
<1>5. rows' \in [Requests -> SUBSET Row]
  <2>1. ActionRow(Fingerprint(target[r], body[r].action)) \in Row
    BY <1>1, FingerprintType, RowTypes
  <2>2. OutcomeRow(o, IF o.effect = "link" THEN l ELSE None) \in Row
    BY <1>3, RowTypes
  <2>3. StopRow("recovered") \in Row
    BY RowTypes DEF StopReasons
  <2> QED BY <1>2, <2>1, <2>2, <2>3 DEF RunAdapter, AdapterRows, TypeOK
<1>6. /\ links' \in [Links -> [case : Option(Cases), by : Option(Requests), paid : BOOLEAN]]
      /\ \A k \in Links : links'[k].paid => links'[k].case \in Cases
  <2>1. CASE o.effect = "none"
    BY <1>2, <2>1 DEF RunAdapter, TypeOK, HookOK
  <2>2. CASE o.effect # "none"
    BY <1>1, <1>2, <2>2 DEF RunAdapter, TypeOK, HookOK, Option
  <2> QED BY <2>1, <2>2
<1>7. /\ pc' = [pc EXCEPT ![r] = "commit"]
      /\ UNCHANGED <<body, target, snap, seen, loadedAt, readAt, dbVars, hookVars,
                     acked, faults>>
  BY DEF Execute
<1>8. TypeOK'
  BY <1>4, <1>5, <1>6, <1>7 DEF TypeOK, RequestStates, InFlight, dbVars, hookVars
<1>9. SessionOK'
  BY <1>1, <1>4, <1>7, <1>2 DEF TypeOK, SessionOK, InFlight, RunAdapter
<1>10. HookOK'
  BY <1>6, <1>7 DEF HookOK, dbVars, hookVars
<1> QED BY <1>8, <1>9, <1>10

LEMMA TypedExecuteStub ==
  ASSUME Typed, NEW r \in Requests, ExecuteStub(r)
  PROVE  Typed'
<1> USE DEF Typed
<1>1. TypeOK'
  BY FingerprintType, RowTypes
     DEF TypeOK, SessionOK, HookOK, ExecuteStub,
         Option, RequestStates, InFlight, CloseSession, dbVars, requestVars,
         hookVars, providerVars
<1>2. SessionOK'
  BY FingerprintType, RowTypes
     DEF TypeOK, SessionOK, HookOK, ExecuteStub,
         Option, RequestStates, InFlight, CloseSession, dbVars, requestVars,
         hookVars, providerVars
<1>3. HookOK'
  BY FingerprintType, RowTypes
     DEF TypeOK, SessionOK, HookOK, ExecuteStub,
         Option, RequestStates, InFlight, CloseSession, dbVars, requestVars,
         hookVars, providerVars
<1> QED BY <1>1, <1>2, <1>3

LEMMA TypedCommit ==
  ASSUME Typed, NEW r \in Requests, Commit(r)
  PROVE  Typed'
<1> USE DEF Typed
<1>1. TypeOK'
  BY MergeType
     DEF TypeOK, SessionOK, HookOK, Commit, Stored, Transaction, Actors,
         Option, RequestStates, InFlight, CloseSession, dbVars, requestVars,
         hookVars, providerVars
<1>2. SessionOK'
  BY MergeType
     DEF TypeOK, SessionOK, HookOK, Commit, Stored, Transaction, Actors,
         Option, RequestStates, InFlight, CloseSession, dbVars, requestVars,
         hookVars, providerVars
<1>3. HookOK'
  BY MergeType
     DEF TypeOK, SessionOK, HookOK, Commit, Stored, Transaction, Actors,
         Option, RequestStates, InFlight, CloseSession, dbVars, requestVars,
         hookVars, providerVars
<1> QED BY <1>1, <1>2, <1>3

LEMMA TypedLockTimeout ==
  ASSUME Typed, NEW r \in Requests, LockTimeout(r)
  PROVE  Typed'
<1> USE DEF Typed
<1>1. TypeOK'
  BY DEF TypeOK, SessionOK, HookOK, LockTimeout,
         Option, RequestStates, InFlight, CloseSession, dbVars, requestVars,
         hookVars, providerVars
<1>2. SessionOK'
  BY DEF TypeOK, SessionOK, HookOK, LockTimeout,
         Option, RequestStates, InFlight, CloseSession, dbVars, requestVars,
         hookVars, providerVars
<1>3. HookOK'
  BY DEF TypeOK, SessionOK, HookOK, LockTimeout,
         Option, RequestStates, InFlight, CloseSession, dbVars, requestVars,
         hookVars, providerVars
<1> QED BY <1>1, <1>2, <1>3

LEMMA TypedDeliverDuplicate ==
  ASSUME Typed, NEW w \in Workers, NEW e \in Events, DeliverDuplicate(w, e)
  PROVE  Typed'
<1> USE DEF Typed
<1>1. TypeOK'
  BY DEF TypeOK, SessionOK, HookOK, DeliverDuplicate, Sendable, Events,
         Option, RequestStates, InFlight, CloseSession, dbVars, requestVars,
         hookVars, providerVars
<1>2. SessionOK'
  BY DEF TypeOK, SessionOK, HookOK, DeliverDuplicate, Sendable, Events,
         Option, RequestStates, InFlight, CloseSession, dbVars, requestVars,
         hookVars, providerVars
<1>3. HookOK'
  BY DEF TypeOK, SessionOK, HookOK, DeliverDuplicate, Sendable, Events,
         Option, RequestStates, InFlight, CloseSession, dbVars, requestVars,
         hookVars, providerVars
<1> QED BY <1>1, <1>2, <1>3

LEMMA TypedDeliverFailed ==
  ASSUME Typed, NEW w \in Workers, NEW e \in Events, DeliverFailed(w, e)
  PROVE  Typed'
<1> USE DEF Typed
<1>1. TypeOK'
  BY DEF TypeOK, SessionOK, HookOK, DeliverFailed, Sendable, Events,
         Option, RequestStates, InFlight, CloseSession, dbVars, requestVars,
         hookVars, providerVars
<1>2. SessionOK'
  BY DEF TypeOK, SessionOK, HookOK, DeliverFailed, Sendable, Events,
         Option, RequestStates, InFlight, CloseSession, dbVars, requestVars,
         hookVars, providerVars
<1>3. HookOK'
  BY IdsDistinct DEF TypeOK, SessionOK, HookOK, DeliverFailed, Sendable, Events,
         Option, RequestStates, InFlight, CloseSession, dbVars, requestVars,
         hookVars, providerVars
<1> QED BY <1>1, <1>2, <1>3

LEMMA TypedDeliverPaid ==
  ASSUME Typed, NEW w \in Workers, NEW e \in Events, DeliverPaid(w, e)
  PROVE  Typed'
<1> USE DEF Typed
<1>1. TypeOK'
  BY DEF TypeOK, SessionOK, HookOK, DeliverPaid, Sendable, Events,
         Option, RequestStates, InFlight, CloseSession, dbVars, requestVars,
         hookVars, providerVars
<1>2. SessionOK'
  BY DEF TypeOK, SessionOK, HookOK, DeliverPaid, Sendable, Events,
         Option, RequestStates, InFlight, CloseSession, dbVars, requestVars,
         hookVars, providerVars
<1>3. HookOK'
  BY DEF TypeOK, SessionOK, HookOK, DeliverPaid, Sendable, Events,
         Option, RequestStates, InFlight, CloseSession, dbVars, requestVars,
         hookVars, providerVars
<1> QED BY <1>1, <1>2, <1>3

LEMMA TypedIntegrityError ==
  ASSUME Typed, NEW w \in Workers, IntegrityError(w)
  PROVE  Typed'
<1> USE DEF Typed
<1>1. TypeOK'
  BY DEF TypeOK, SessionOK, HookOK, IntegrityError, HookIdle,
         Option, RequestStates, InFlight, CloseSession, dbVars, requestVars,
         hookVars, providerVars
<1>2. SessionOK'
  BY DEF TypeOK, SessionOK, HookOK, IntegrityError, HookIdle,
         Option, RequestStates, InFlight, CloseSession, dbVars, requestVars,
         hookVars, providerVars
<1>3. HookOK'
  BY DEF TypeOK, SessionOK, HookOK, IntegrityError, HookIdle,
         Option, RequestStates, InFlight, CloseSession, dbVars, requestVars,
         hookVars, providerVars
<1> QED BY <1>1, <1>2, <1>3

LEMMA TypedRecordFailed ==
  ASSUME Typed, NEW w \in Workers, RecordFailed(w)
  PROVE  Typed'
<1> USE DEF Typed
<1>1. TypeOK'
  BY FreshCaseType, RowTypes
     DEF TypeOK, SessionOK, HookOK, RecordFailed, HookIdle, Transaction, Actors, Events, FailureClasses,
         Option, RequestStates, InFlight, CloseSession, dbVars, requestVars,
         hookVars, providerVars
<1>2. SessionOK'
  BY FreshCaseType, RowTypes
     DEF TypeOK, SessionOK, HookOK, RecordFailed, HookIdle, Transaction, Actors, Events, FailureClasses,
         Option, RequestStates, InFlight, CloseSession, dbVars, requestVars,
         hookVars, providerVars
<1>3. HookOK'
  BY FreshCaseType, RowTypes
     DEF TypeOK, SessionOK, HookOK, RecordFailed, HookIdle, Transaction, Actors, Events, FailureClasses,
         Option, RequestStates, InFlight, CloseSession, dbVars, requestVars,
         hookVars, providerVars
<1> QED BY <1>1, <1>2, <1>3

LEMMA TypedRecordPaid ==
  ASSUME Typed, NEW w \in Workers, RecordPaid(w)
  PROVE  Typed'
<1> USE DEF Typed
<1> DEFINE l == event[w]
           c == hookCase[w]
           loaded == hookSnap[w]
<1>a. /\ l \in Links /\ c \in Cases
      /\ loaded \in CaseRow /\ cases[c] \in CaseRow
  BY DEF RecordPaid, HookOK
<1>b. PaidCase(loaded) \in CaseRow
  BY <1>a DEF PaidCase, CaseRow, Statuses, StopReasons
<1>c. Merge(loaded, PaidCase(loaded), cases[c]) \in CaseRow
  BY <1>a, <1>b, MergeType
<1>d. cases' = [cases EXCEPT ![c] = Merge(loaded, PaidCase(loaded), cases[c])]
  BY DEF RecordPaid
<1>e. /\ cases' \in [Cases -> Option(CaseRow)]
      /\ \A x \in Cases : cases[x] \in CaseRow => cases'[x] \in CaseRow
  BY <1>a, <1>c, <1>d DEF TypeOK, Option
<1>f. PaidRows(l, loaded) \subseteq Row
  BY <1>a, RowTypes DEF PaidRows, Events, StopReasons, OutcomeStatuses
<1>g. ledger' \in Seq(Transaction)
  <2>1. [by |-> w, case |-> c, rows |-> PaidRows(l, loaded)] \in Transaction
    BY <1>a, <1>f DEF Transaction, Actors
  <2>2. ledger' = Append(ledger, [by |-> w, case |-> c, rows |-> PaidRows(l, loaded)])
    BY DEF RecordPaid
  <2> QED BY <2>1, <2>2 DEF TypeOK
<1>h. UNCHANGED <<lock, issued, event, hookCase, hookSnap, requestVars, providerVars, faults>>
      /\ hook' = [hook EXCEPT ![w] = "reply"]
      /\ processed' = [processed EXCEPT ![l] = c]
  BY DEF RecordPaid
<1> HIDE DEF l, c, loaded
<1>1. TypeOK'
  BY <1>a, <1>e, <1>g, <1>h
     DEF TypeOK, SessionOK, HookOK, Events,
         Option, RequestStates, InFlight, CloseSession, dbVars, requestVars,
         hookVars, providerVars
<1>2. SessionOK'
  BY <1>a, <1>e, <1>g, <1>h
     DEF TypeOK, SessionOK, HookOK, Events,
         Option, RequestStates, InFlight, CloseSession, dbVars, requestVars,
         hookVars, providerVars
<1>3. HookOK'
  <2>1. UNCHANGED <<event, hookCase, hookSnap, links>> /\ hook' = [hook EXCEPT ![w] = "reply"]
    BY <1>h DEF providerVars
  <2>2. ASSUME NEW v \in Workers, hook'[v] # "idle"
        PROVE  event'[v] \in Events
    BY <1>a, <2>1, <2>2 DEF TypeOK, HookOK, Events, l
  <2>3. ASSUME NEW v \in Workers, hook'[v] = "write", event'[v] \in Links
        PROVE  /\ hookCase'[v] \in Cases
               /\ hookSnap'[v] \in CaseRow
               /\ cases'[hookCase'[v]] \in CaseRow
    <3>1. v # w
      BY <2>1, <2>3 DEF TypeOK
    <3>2. hook[v] = "write" /\ event[v] \in Links
      BY <2>1, <2>3, <3>1 DEF TypeOK
    <3> QED BY <1>e, <2>1, <3>2 DEF HookOK
  <2> QED BY <2>1, <2>2, <2>3 DEF HookOK
<1> QED BY <1>1, <1>2, <1>3

LEMMA TypedHookTimeout ==
  ASSUME Typed, NEW w \in Workers, HookTimeout(w)
  PROVE  Typed'
<1> USE DEF Typed
<1>1. TypeOK'
  BY DEF TypeOK, SessionOK, HookOK, HookTimeout, HookIdle,
         Option, RequestStates, InFlight, CloseSession, dbVars, requestVars,
         hookVars, providerVars
<1>2. SessionOK'
  BY DEF TypeOK, SessionOK, HookOK, HookTimeout, HookIdle,
         Option, RequestStates, InFlight, CloseSession, dbVars, requestVars,
         hookVars, providerVars
<1>3. HookOK'
  BY DEF TypeOK, SessionOK, HookOK, HookTimeout, HookIdle,
         Option, RequestStates, InFlight, CloseSession, dbVars, requestVars,
         hookVars, providerVars
<1> QED BY <1>1, <1>2, <1>3

LEMMA TypedReply ==
  ASSUME Typed, NEW w \in Workers, Reply(w)
  PROVE  Typed'
<1> USE DEF Typed
<1>1. TypeOK'
  BY DEF TypeOK, SessionOK, HookOK, Reply, HookIdle,
         Option, RequestStates, InFlight, CloseSession, dbVars, requestVars,
         hookVars, providerVars
<1>2. SessionOK'
  BY DEF TypeOK, SessionOK, HookOK, Reply, HookIdle,
         Option, RequestStates, InFlight, CloseSession, dbVars, requestVars,
         hookVars, providerVars
<1>3. HookOK'
  BY DEF TypeOK, SessionOK, HookOK, Reply, HookIdle,
         Option, RequestStates, InFlight, CloseSession, dbVars, requestVars,
         hookVars, providerVars
<1> QED BY <1>1, <1>2, <1>3

LEMMA TypedLoseReply ==
  ASSUME Typed, NEW w \in Workers, LoseReply(w)
  PROVE  Typed'
<1> USE DEF Typed
<1>1. TypeOK'
  BY MaxFaultsAssumption
     DEF TypeOK, SessionOK, HookOK, LoseReply, HookIdle,
         Option, RequestStates, InFlight, CloseSession, dbVars, requestVars,
         hookVars, providerVars
<1>2. SessionOK'
  BY MaxFaultsAssumption
     DEF TypeOK, SessionOK, HookOK, LoseReply, HookIdle,
         Option, RequestStates, InFlight, CloseSession, dbVars, requestVars,
         hookVars, providerVars
<1>3. HookOK'
  BY MaxFaultsAssumption
     DEF TypeOK, SessionOK, HookOK, LoseReply, HookIdle,
         Option, RequestStates, InFlight, CloseSession, dbVars, requestVars,
         hookVars, providerVars
<1> QED BY <1>1, <1>2, <1>3

LEMMA TypedPayLink ==
  ASSUME Typed, NEW l \in Links, PayLink(l)
  PROVE  Typed'
<1> USE DEF Typed
<1>1. TypeOK'
  BY DEF TypeOK, SessionOK, HookOK, PayLink,
         Option, RequestStates, InFlight, CloseSession, dbVars, requestVars,
         hookVars, providerVars
<1>2. SessionOK'
  BY DEF TypeOK, SessionOK, HookOK, PayLink,
         Option, RequestStates, InFlight, CloseSession, dbVars, requestVars,
         hookVars, providerVars
<1>3. HookOK'
  BY DEF TypeOK, SessionOK, HookOK, PayLink,
         Option, RequestStates, InFlight, CloseSession, dbVars, requestVars,
         hookVars, providerVars
<1> QED BY <1>1, <1>2, <1>3

LEMMA TypedRestart ==
  ASSUME Typed, Restart
  PROVE  Typed'
<1> USE DEF Typed
<1>1. TypeOK'
  BY MaxFaultsAssumption
     DEF TypeOK, SessionOK, HookOK, Restart,
         Option, RequestStates, InFlight, CloseSession, dbVars, requestVars,
         hookVars, providerVars
<1>2. SessionOK'
  BY MaxFaultsAssumption
     DEF TypeOK, SessionOK, HookOK, Restart,
         Option, RequestStates, InFlight, CloseSession, dbVars, requestVars,
         hookVars, providerVars
<1>3. HookOK'
  BY MaxFaultsAssumption
     DEF TypeOK, SessionOK, HookOK, Restart,
         Option, RequestStates, InFlight, CloseSession, dbVars, requestVars,
         hookVars, providerVars
<1> QED BY <1>1, <1>2, <1>3

LEMMA TypedStutter ==
  ASSUME Typed, UNCHANGED vars
  PROVE  Typed'
BY DEF Typed, TypeOK, SessionOK, HookOK, vars, dbVars, requestVars, hookVars, providerVars

LEMMA TypedNext ==
  ASSUME Typed, [Next]_vars
  PROVE  Typed'
<1>1. ASSUME NEW r \in Requests, RequestStep(r)
      PROVE  Typed'
  BY <1>1, TypedLoadCase, TypedIngestNew, TypedSkipStopped, TypedOptOut,
     TypedReadFingerprints, TypedGateAndRecord, TypedExecute, TypedExecuteStub,
     TypedCommit, TypedLockTimeout
     DEF RequestStep
<1>2. ASSUME NEW w \in Workers, NEW e \in Events, Deliver(w, e)
      PROVE  Typed'
  BY <1>2, TypedDeliverDuplicate, TypedDeliverFailed, TypedDeliverPaid DEF Deliver
<1>3. ASSUME NEW w \in Workers, Record(w)
      PROVE  Typed'
  BY <1>3, TypedIntegrityError, TypedRecordFailed, TypedRecordPaid, TypedHookTimeout
     DEF Record
<1> QED
  BY <1>1, <1>2, <1>3, TypedReply, TypedLoseReply, TypedPayLink, TypedRestart,
     TypedStutter
     DEF Next

LEMMA TypedInvariant == Spec => []Typed
BY TypedInit, TypedNext, PTL DEF Spec

\* Every variable keeps its type: in particular no handler ever works on a case
\* or a row it has not loaded.
THEOREM TypeCorrect == Spec => []TypeOK
<1>1. Typed => TypeOK
  BY DEF Typed
<1> QED BY <1>1, TypedInvariant, PTL
=============================================================================
