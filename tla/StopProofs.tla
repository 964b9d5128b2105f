----------------------------- MODULE StopProofs ------------------------------
(***************************************************************************)
(* What closes a case, and what can undo it, for any number of requests,   *)
(* workers, cases and crashes.                                             *)
(*                                                                         *)
(* StopUndoneOnlyByOverlap is about pairs of committed transactions.  The  *)
(* invariant behind it follows a stop forward: its case stays closed until *)
(* a request that had loaded the case before the stop commits behind it,   *)
(* and until then whoever loads the case sees it closed and writes         *)
(* nothing.                                                                *)
(***************************************************************************)
EXTENDS IdempotencyProofs

\* A case exists, or is being opened by exactly the one handler that drew its id.
IssuedOK ==
  /\ \A i \in DOMAIN ledger :
       ledger[i].case \in issued /\ ledger[i].case \in Cases
  /\ \A c \in Cases : cases[c] # None => c \in issued
  /\ \A r \in Requests : pc[r] \in InFlight => target[r] \in issued

\* A request that was in flight when transaction i committed has committed since.
Overlapped(i) == \E k \in DOMAIN ledger : i < k /\ StaleBehind(k, i)

StopsHold ==
  \A i \in DOMAIN ledger : StoppedIn(i) =>
    \/ Overlapped(i)
    \/ cases[ledger[i].case] # None /\ IsStopped(cases[ledger[i].case])

\* What request r knows of the stops of its case.
StopsKnown(r) ==
  /\ loadedAt[r] <= Len(ledger)
  /\ pc[r] \in InFlight =>
       \A i \in DOMAIN ledger :
         ledger[i].case = target[r] /\ StoppedIn(i) /\ i <= loadedAt[r]
           => Overlapped(i) \/ IsStopped(snap[r])
  /\ pc[r] = "loaded" => row[r] = snap[r]
  /\ pc[r] \in {"read", "execute", "commit"} => ~IsStopped(snap[r])
  /\ \A x \in rows[r] : x.kind = "stop" => pc[r] = "commit" /\ IsStopped(row[r])

Stopping ==
  IssuedOK /\ StopsHold /\ StopUndoneOnlyByOverlap /\ \A r \in Requests : StopsKnown(r)

-----------------------------------------------------------------------------
LEMMA StoppingInit == Init => Stopping
BY PreloadedAssumption DEF Init, Stopping, IssuedOK, StopsHold, StopsKnown,
   StopUndoneOnlyByOverlap, InFlight

\* The step leaves request s alone, as far as stops go.
SparesStop(s) ==
  /\ pc'[s] = pc[s]
  /\ target'[s] = target[s]
  /\ snap'[s] = snap[s]
  /\ row'[s] = row[s]
  /\ rows'[s] = rows[s]
  /\ loadedAt'[s] = loadedAt[s]

\* Whether a committed request was stale is settled when it commits.
LEMMA StaleIsStable ==
  ASSUME Idempotent, NEW k \in DOMAIN ledger, NEW i \in DOMAIN ledger,
         UNCHANGED ledger,
         \A s \in Requests : pc[s] = "done" => loadedAt'[s] = loadedAt[s]
  PROVE  StaleBehind(k, i)' <=> StaleBehind(k, i)
BY DEF Idempotent, CommittedOK, StaleBehind

\* A step that commits nothing, of a request that is not over, keeps the invariant
\* if what that request knows stays right.
LEMMA StoppingQuietStep ==
  ASSUME Typed, Idempotent, Stopping, NEW r \in Requests, pc[r] # "done",
         UNCHANGED <<ledger, cases>>, issued \subseteq issued',
         \A s \in Requests \ {r} : SparesStop(s),
         pc'[r] \in InFlight => target'[r] \in issued',
         StopsKnown(r)'
  PROVE  Stopping'
<1>1. \A k, i \in DOMAIN ledger : StaleBehind(k, i)' <=> StaleBehind(k, i)
  BY StaleIsStable DEF SparesStop
<1>2. \A i \in DOMAIN ledger :
        /\ StoppedIn(i)' <=> StoppedIn(i)
        /\ ExecutedIn(i)' = ExecutedIn(i)
        /\ Overlapped(i)' <=> Overlapped(i)
  BY <1>1 DEF StoppedIn, ExecutedIn, Overlapped
<1>3. IssuedOK'
  BY DEF Stopping, IssuedOK, SparesStop
<1>4. StopsHold'
  BY <1>2 DEF Stopping, StopsHold
<1>5. StopUndoneOnlyByOverlap'
  <2>1. DOMAIN ledger' = DOMAIN ledger /\ \A i \in DOMAIN ledger : i \in 1 .. Len(ledger)
    BY DEF Typed, TypeOK
  <2>2. \A i, j \in DOMAIN ledger : i + 1 .. j \subseteq DOMAIN ledger
    BY DEF Typed, TypeOK
  <2> QED
    BY <1>1, <1>2, <2>1, <2>2
       DEF Stopping, StopUndoneOnlyByOverlap, ExecutedBehindStop
<1>6. \A s \in Requests : StopsKnown(s)'
  BY <1>2 DEF Stopping, StopsKnown, SparesStop
<1> QED BY <1>3, <1>4, <1>5, <1>6 DEF Stopping

LEMMA StoppingQuiet ==
  ASSUME Typed, Idempotent, Stopping, NEW r \in Requests,
         \/ LoadCase(r) \/ IngestNew(r) \/ SkipStopped(r) \/ OptOut(r)
         \/ ReadFingerprints(r) \/ GateAndRecord(r) \/ Execute(r) \/ ExecuteStub(r)
         \/ LockTimeout(r)
  PROVE  Stopping'
<1> USE DEF Typed
<1>1. /\ pc[r] # "done"
      /\ UNCHANGED <<ledger, cases>>
      /\ issued \subseteq issued'
      /\ \A s \in Requests \ {r} : SparesStop(s)
  BY DEF TypeOK, LoadCase, IngestNew, SkipStopped, OptOut, ReadFingerprints,
         GateAndRecord, Execute, RunAdapter, AdapterRows, ExecuteStub, LockTimeout, CloseSession,
         SparesStop, dbVars
<1>2. pc'[r] \in InFlight => target'[r] \in issued'
  BY DEF TypeOK, Stopping, IssuedOK, InFlight, LoadCase, IngestNew, SkipStopped, OptOut,
         ReadFingerprints, GateAndRecord, Execute, RunAdapter, AdapterRows, ExecuteStub, LockTimeout,
         CloseSession, dbVars
<1> SUFFICES StopsKnown(r)'
  BY <1>1, <1>2, StoppingQuietStep
<1>3. StopsKnown(r)
  BY DEF Stopping
<1>4. \A k, i \in DOMAIN ledger : StaleBehind(k, i)' <=> StaleBehind(k, i)
  BY <1>1, StaleIsStable DEF SparesStop
<1>5. \A i \in DOMAIN ledger :
        (StoppedIn(i)' <=> StoppedIn(i)) /\ (Overlapped(i)' <=> Overlapped(i))
  BY <1>1, <1>4 DEF StoppedIn, Overlapped
\* The request keeps the case it loaded, when it loaded it, and the row it loaded.
<1>6. ASSUME UNCHANGED <<target, snap, loadedAt>>, pc[r] \in InFlight,
             pc'[r] \in {"read", "execute", "commit"}, ~IsStopped(snap[r]),
             \A x \in rows'[r] : x.kind = "stop" => pc'[r] = "commit" /\ IsStopped(row'[r])
      PROVE  StopsKnown(r)'
  BY <1>1, <1>3, <1>5, <1>6 DEF StopsKnown, InFlight
<1>7. CASE LoadCase(r)
  <2>1. PICK c \in Cases : /\ cases[c] # None
                           /\ target'[r] = c
                           /\ snap'[r] = cases[c] /\ row'[r] = cases[c]
                           /\ loadedAt'[r] = Len(ledger)
    BY <1>7 DEF LoadCase, TypeOK
  <2>2. \A i \in DOMAIN ledger :
          ledger[i].case = c /\ StoppedIn(i) => Overlapped(i) \/ IsStopped(cases[c])
    BY <2>1 DEF Stopping, StopsHold
  <2> QED
    BY <1>1, <1>3, <1>5, <1>7, <2>1, <2>2 DEF StopsKnown, LoadCase, TypeOK
<1>8. CASE IngestNew(r)
  <2>1. \A i \in DOMAIN ledger : ledger[i].case # target'[r]
    BY <1>8 DEF IngestNew, TypeOK, Stopping, IssuedOK
  <2> QED
    BY <1>1, <1>8, <2>1 DEF StopsKnown, IngestNew, TypeOK, EventRow
<1>9. CASE SkipStopped(r) \/ LockTimeout(r)
  BY <1>1, <1>3, <1>9
     DEF StopsKnown, SkipStopped, LockTimeout, CloseSession, TypeOK, InFlight, dbVars
<1>10. CASE OptOut(r)
  <2>1. ~IsStopped(snap[r])
    BY <1>3, <1>10 DEF StopsKnown, OptOut
  <2>2. IsStopped(row'[r])
    <3>1. row[r] \in CaseRow
      BY <1>10 DEF OptOut, SessionOK, InFlight
    <3> QED BY <1>10, <3>1 DEF OptOut, TypeOK, IsStopped, CaseRow
  <2> QED BY <1>6, <1>10, <2>1, <2>2 DEF OptOut, TypeOK, InFlight
<1>11. CASE ReadFingerprints(r)
  BY <1>3, <1>6, <1>11 DEF StopsKnown, ReadFingerprints, TypeOK, InFlight
<1>12. CASE GateAndRecord(r)
  BY <1>3, <1>6, <1>12 DEF StopsKnown, GateAndRecord, TypeOK, InFlight, GateRow
<1>13. CASE Execute(r)
  <2>1. PICK o \in Results(body[r]), l \in Links : RunAdapter(r, o, l)
    BY <1>13 DEF Execute
  <2>2. ASSUME NEW x \in rows'[r], x.kind = "stop"
        PROVE  IsStopped(row'[r])
    <3>1. o.recovered
      BY <1>3, <1>13, <2>1, <2>2
         DEF StopsKnown, Execute, RunAdapter, AdapterRows, TypeOK, OutcomeRow, ActionRow
    <3>2. row[r] \in CaseRow
      BY <1>13 DEF Execute, SessionOK, InFlight
    <3> QED
      BY <2>1, <3>1, <3>2 DEF RunAdapter, AdapterRows, AfterResult, TypeOK, IsStopped, CaseRow
  <2> QED BY <1>3, <1>6, <1>13, <2>2 DEF StopsKnown, Execute, TypeOK, InFlight
<1>14. CASE ExecuteStub(r)
  BY <1>3, <1>6, <1>14 DEF StopsKnown, ExecuteStub, TypeOK, InFlight, ActionRow
<1> QED
  BY <1>7, <1>8, <1>9, <1>10, <1>11, <1>12, <1>13, <1>14

-----------------------------------------------------------------------------
\* A committing step keeps the invariant if its stop rows close the case, and if a
\* webhook neither executes nor reopens.
LEMMA StoppingCommittingStep ==
  ASSUME Typed, Idempotent, Stopping,
         NEW t, t.by \in Actors, t.case \in Cases, ledger' = Append(ledger, t),
         \A s \in Requests \ {t.by} : SparesStop(s),
         issued \subseteq issued', t.case \in issued',
         \A c \in Cases \ {t.case} : cases'[c] = cases[c],
         cases'[t.case] # None,
         (\E x \in t.rows : x.kind = "stop") => IsStopped(cases'[t.case]),
         t.by \in Requests =>
           /\ pc[t.by] = "commit" /\ pc'[t.by] = "done"
           /\ t.case = target[t.by]
           /\ rows'[t.by] = {}
           /\ loadedAt'[t.by] = loadedAt[t.by],
         t.by \notin Requests =>
           /\ \A x \in t.rows : x.kind # "action"
           /\ cases[t.case] # None /\ IsStopped(cases[t.case]) => IsStopped(cases'[t.case])
  PROVE  Stopping'
<1> USE DEF Typed
<1>0. PICK n \in Nat : n = Len(ledger) + 1
  BY AppendedLedger
<1>1. /\ Len(ledger) \in Nat /\ Len(ledger') = n
      /\ DOMAIN ledger' = DOMAIN ledger \cup {n}
      /\ \A i \in DOMAIN ledger :
           /\ i \in Nat /\ i < n
           /\ ledger'[i] = ledger[i]
           /\ ExecutedIn(i)' = ExecutedIn(i)
      /\ ledger'[n] = t
  BY <1>0, AppendedLedger
<1>2. \A i \in DOMAIN ledger : StoppedIn(i)' <=> StoppedIn(i)
  BY <1>1 DEF StoppedIn
<1>3. \A k, i \in DOMAIN ledger : StaleBehind(k, i)' <=> StaleBehind(k, i)
  BY <1>1 DEF Idempotent, CommittedOK, StaleBehind, SparesStop
<1>4. \A i \in DOMAIN ledger : Overlapped(i) => Overlapped(i)'
  BY <1>1, <1>3 DEF Overlapped
\* A request that commits behind a stop of its case overlaps it.
<1>5. ASSUME NEW i \in DOMAIN ledger, StoppedIn(i), ledger[i].case = t.case,
             t.by \in Requests
      PROVE  Overlapped(i) \/ StaleBehind(n, i)'
  <2>1. StopsKnown(t.by) /\ pc[t.by] = "commit" /\ target[t.by] = t.case
    BY <1>5 DEF Stopping
  <2>2. CASE i <= loadedAt[t.by]
    BY <1>5, <2>1, <2>2 DEF StopsKnown, InFlight
  <2>3. CASE loadedAt[t.by] < i
    BY <1>1, <1>5, <2>3 DEF StaleBehind
  <2>4. i \in Nat /\ loadedAt[t.by] \in Nat
    BY <1>1, <1>5 DEF TypeOK
  <2> QED BY <2>2, <2>3, <2>4
<1>6. IssuedOK'
  BY <1>1 DEF Stopping, IssuedOK, SparesStop, InFlight
<1>7. StopsHold'
  <2> SUFFICES ASSUME NEW i \in DOMAIN ledger', StoppedIn(i)'
               PROVE  \/ Overlapped(i)'
                      \/ /\ cases'[ledger'[i].case] # None
                         /\ IsStopped(cases'[ledger'[i].case])
    BY DEF StopsHold
  <2>1. CASE i = n
    BY <1>1, <2>1 DEF StoppedIn
  <2>2. CASE i \in DOMAIN ledger /\ ledger[i].case # t.case
    <3>1. ledger[i].case \in Cases
      BY <2>2 DEF Stopping, IssuedOK
    <3> QED BY <1>1, <1>2, <1>4, <2>2, <3>1 DEF Stopping, StopsHold
  <2>3. CASE i \in DOMAIN ledger /\ ledger[i].case = t.case
    <3>1. CASE t.by \in Requests
      BY <1>1, <1>2, <1>4, <1>5, <2>3, <3>1 DEF Overlapped
    <3>2. CASE t.by \notin Requests
      BY <1>1, <1>2, <1>4, <2>3, <3>2 DEF Stopping, StopsHold
    <3> QED BY <3>1, <3>2
  <2> QED BY <1>1, <2>1, <2>2, <2>3
<1>8. StopUndoneOnlyByOverlap'
  <2> SUFFICES ASSUME NEW i \in DOMAIN ledger', NEW j \in DOMAIN ledger',
                      ExecutedBehindStop(i, j)'
               PROVE  \E k \in i + 1 .. j : StaleBehind(k, i)'
    BY DEF StopUndoneOnlyByOverlap
  <2>1. /\ i < j /\ i \in DOMAIN ledger /\ StoppedIn(i)
        /\ ledger[i].case = ledger'[j].case /\ ExecutedIn(j)' # {}
    BY <1>0, <1>1, <1>2 DEF ExecutedBehindStop
  <2>2. CASE j \in DOMAIN ledger
    <3>1. PICK k \in i + 1 .. j : StaleBehind(k, i)
      BY <1>1, <2>1, <2>2 DEF Stopping, StopUndoneOnlyByOverlap, ExecutedBehindStop
    <3>2. k \in DOMAIN ledger
      BY <1>1, <2>1, <2>2, <3>1 DEF TypeOK
    <3> QED BY <1>3, <2>1, <3>1, <3>2
  <2>3. CASE j = n
    <3>1. t.by \in Requests
      BY <1>1, <2>1, <2>3 DEF ExecutedIn
    <3>2. Overlapped(i) \/ StaleBehind(n, i)'
      BY <1>1, <1>5, <2>1, <2>3, <3>1
    <3>3. CASE Overlapped(i)
      <4>1. PICK k \in DOMAIN ledger : i < k /\ StaleBehind(k, i)
        BY <3>3 DEF Overlapped
      <4> QED BY <1>1, <1>3, <2>1, <2>3, <4>1
    <3>4. CASE StaleBehind(n, i)'
      BY <1>1, <2>1, <2>3, <3>4
    <3> QED BY <3>2, <3>3, <3>4
  <2> QED BY <1>1, <2>2, <2>3
<1>9. ASSUME NEW s \in Requests
      PROVE  StopsKnown(s)'
  <2>1. StopsKnown(s) /\ loadedAt[s] \in Nat
    BY DEF Stopping, TypeOK
  <2>2. CASE s = t.by
    BY <1>0, <1>1, <2>1, <2>2 DEF StopsKnown, InFlight
  <2>3. CASE s # t.by
    <3>1. SparesStop(s)
      BY <2>3
    <3> QED
      BY <1>0, <1>1, <1>2, <1>4, <2>1, <3>1 DEF StopsKnown, SparesStop
  <2> QED BY <2>2, <2>3
<1> QED BY <1>6, <1>7, <1>8, <1>9 DEF Stopping

\* A flush leaves a closed row closed, and closes an open one, unless it writes
\* another status.
LEMMA MergeStatus ==
  ASSUME NEW x \in CaseRow, NEW y \in CaseRow, NEW z \in CaseRow
  PROVE  /\ Merge(x, y, z).status = IF y.status = x.status THEN z.status ELSE y.status
         /\ Merge(x, y, z).stop_reason =
              IF y.stop_reason = x.stop_reason THEN z.stop_reason ELSE y.stop_reason
BY DEF Merge, CaseRow

LEMMA StoppingCommit ==
  ASSUME Typed, Idempotent, Stopping, NEW r \in Requests, Commit(r)
  PROVE  Stopping'
<1> USE DEF Typed
<1> DEFINE t == [by |-> r, case |-> target[r], rows |-> rows[r]]
<1>1. /\ ledger' = Append(ledger, t)
      /\ t.by = r /\ t.case = target[r] /\ t.rows = rows[r]
  BY DEF Commit
<1>2. /\ pc[r] = "commit" /\ pc'[r] = "done" /\ rows'[r] = {}
      /\ UNCHANGED <<loadedAt, issued>>
      /\ \A s \in Requests \ {r} : SparesStop(s)
  BY DEF Commit, CloseSession, TypeOK, SparesStop
<1>3. /\ target[r] \in Cases /\ snap[r] \in CaseRow /\ row[r] \in CaseRow
      /\ target[r] \in issued
      /\ StopsKnown(r)
  BY <1>2 DEF SessionOK, InFlight, Stopping, IssuedOK
<1>4. cases' = [cases EXCEPT ![target[r]] = Stored(r)]
  BY DEF Commit
<1>5. Stored(r) \in CaseRow /\ (IsStopped(row[r]) => IsStopped(Stored(r)))
  <2>1. CASE cases[target[r]] = None
    BY <1>3, <2>1 DEF Stored
  <2>2. CASE cases[target[r]] \in CaseRow
    <3>1. Stored(r) = Merge(snap[r], row[r], cases[target[r]])
      BY <2>2, NoneIsNoRow DEF Stored
    <3>2. ~IsStopped(snap[r])
      BY <1>2, <1>3 DEF StopsKnown
    <3>3. Stored(r) \in CaseRow
      BY <1>3, <2>2, <3>1, MergeType
    <3>4. Stored(r).status = IF row[r].status = snap[r].status
                               THEN cases[target[r]].status ELSE row[r].status
      BY <1>3, <2>2, <3>1, MergeStatus
    <3> QED BY <3>2, <3>3, <3>4 DEF IsStopped
  <2> QED BY <1>3, <2>1, <2>2 DEF TypeOK, Option
<1>6. /\ cases'[target[r]] = Stored(r)
      /\ \A c \in Cases \ {target[r]} : cases'[c] = cases[c]
  BY <1>3, <1>4 DEF TypeOK
<1>7. (\E x \in rows[r] : x.kind = "stop") => IsStopped(row[r])
  BY <1>3 DEF StopsKnown
<1> HIDE DEF t
<1> QED
  BY <1>1, <1>2, <1>3, <1>5, <1>6, <1>7, NoneIsNoRow, StoppingCommittingStep DEF Actors

LEMMA StoppingRecordFailed ==
  ASSUME Typed, Idempotent, Stopping, NEW w \in Workers, RecordFailed(w)
  PROVE  Stopping'
<1> USE DEF Typed
<1>1. PICK c \in Cases \ issued :
        /\ cases' = [cases EXCEPT ![c] = FreshCase("absent")]
        /\ issued' = issued \cup {c}
        /\ ledger' = Append(ledger, [by |-> w, case |-> c, rows |-> {EventRow(event[w])}])
  BY DEF RecordFailed
<1>2. \A s \in Requests : SparesStop(s)
  BY DEF RecordFailed, requestVars, SparesStop
<1>3. cases[c] = None
  BY <1>1 DEF Stopping, IssuedOK
<1>4. FreshCase("absent") # None
  BY FreshCaseType, NoneIsNoRow DEF FailureClasses
<1> DEFINE t == [by |-> w, case |-> c, rows |-> {EventRow(event[w])}]
<1>5. /\ t.by = w /\ t.case = c
      /\ \A x \in t.rows : x.kind = "event"
  BY DEF EventRow
<1>6. w \in Actors /\ w \notin Requests
  BY IdsDistinct DEF Actors
<1>7. ledger' = Append(ledger, t)
  BY <1>1
<1>8. cases'[c] = FreshCase("absent") /\ \A d \in Cases \ {c} : cases'[d] = cases[d]
  BY <1>1 DEF TypeOK
<1> HIDE DEF t
<1> QED
  BY <1>1, <1>2, <1>3, <1>4, <1>5, <1>6, <1>7, <1>8, StoppingCommittingStep

LEMMA StoppingRecordPaid ==
  ASSUME Typed, Idempotent, Stopping, NEW w \in Workers, RecordPaid(w)
  PROVE  Stopping'
<1> USE DEF Typed
<1> DEFINE c == hookCase[w]
           loaded == hookSnap[w]
           t == [by |-> w, case |-> c, rows |-> PaidRows(event[w], loaded)]
<1>1. c \in Cases /\ loaded \in CaseRow /\ cases[c] \in CaseRow
  BY DEF RecordPaid, HookOK
<1>2. /\ ledger' = Append(ledger, t)
      /\ cases' = [cases EXCEPT ![c] = Merge(loaded, PaidCase(loaded), cases[c])]
      /\ UNCHANGED issued
  BY DEF RecordPaid
<1>3. \A s \in Requests : SparesStop(s)
  BY DEF RecordPaid, requestVars, SparesStop
<1>4. PaidCase(loaded) \in CaseRow
  BY <1>1 DEF PaidCase, CaseRow, Statuses, StopReasons
<1>5. /\ cases'[c] = Merge(loaded, PaidCase(loaded), cases[c])
      /\ \A d \in Cases \ {c} : cases'[d] = cases[d]
  BY <1>1, <1>2 DEF TypeOK
<1>6. /\ IsStopped(cases[c]) => IsStopped(cases'[c])
      /\ loaded.status # "recovered" => IsStopped(cases'[c])
      /\ cases'[c] # None
  <2>1. PaidCase(loaded).status = "recovered"
    BY <1>1 DEF PaidCase, CaseRow
  <2>2. cases'[c] \in CaseRow
    BY <1>1, <1>4, <1>5, MergeType
  <2>3. cases'[c].status = IF "recovered" = loaded.status THEN cases[c].status
                                                          ELSE "recovered"
    BY <1>1, <1>4, <1>5, <2>1, MergeStatus
  <2> QED BY <2>2, <2>3, NoneIsNoRow DEF IsStopped
<1>7. /\ \A x \in PaidRows(event[w], loaded) : x.kind # "action"
      /\ \A x \in PaidRows(event[w], loaded) : x.kind = "stop" => loaded.status # "recovered"
  BY DEF PaidRows, EventRow, OutcomeRow, StopRow
<1>8. w \in Actors /\ w \notin Requests
  BY IdsDistinct DEF Actors
<1>9. t.by = w /\ t.case = c /\ t.rows = PaidRows(event[w], loaded)
  OBVIOUS
<1>10. c \in issued
  BY <1>1, NoneIsNoRow DEF Stopping, IssuedOK
<1> HIDE DEF t, c, loaded
<1> QED
  BY <1>1, <1>2, <1>3, <1>5, <1>6, <1>7, <1>8, <1>9, <1>10, StoppingCommittingStep

\* The rest of the webhook handler, and the environment, commit nothing.
LEMMA StoppingElsewhere ==
  ASSUME Typed, Idempotent, Stopping,
         \/ \E w \in Workers, e \in Events : Deliver(w, e)
         \/ \E w \in Workers : IntegrityError(w) \/ HookTimeout(w) \/ Reply(w) \/ LoseReply(w)
         \/ \E l \in Links : PayLink(l)
         \/ Restart
         \/ UNCHANGED vars
  PROVE  Stopping'
<1> USE DEF Typed
<1>1. UNCHANGED <<ledger, cases, issued, target, loadedAt>>
  BY DEF Deliver, DeliverDuplicate, DeliverFailed, DeliverPaid, IntegrityError, HookTimeout,
         Reply, LoseReply, PayLink, Restart, vars, dbVars, requestVars
<1>2. \A s \in Requests :
        \/ SparesStop(s)
        \/ pc[s] # "done" /\ pc'[s] = "failed" /\ rows'[s] = {}
  <2>1. CASE Restart
    BY <2>1 DEF Restart, TypeOK, SparesStop, InFlight
  <2>2. CASE ~Restart
    BY <2>2 DEF Deliver, DeliverDuplicate, DeliverFailed, DeliverPaid, IntegrityError,
                HookTimeout, Reply, LoseReply, PayLink, vars, requestVars, SparesStop
  <2> QED BY <2>1, <2>2
<1>3. \A k, i \in DOMAIN ledger : StaleBehind(k, i)' <=> StaleBehind(k, i)
  BY <1>1, StaleIsStable
<1>4. \A i \in DOMAIN ledger :
        /\ StoppedIn(i)' <=> StoppedIn(i)
        /\ ExecutedIn(i)' = ExecutedIn(i)
        /\ Overlapped(i)' <=> Overlapped(i)
  BY <1>1, <1>3 DEF StoppedIn, ExecutedIn, Overlapped
<1>5. IssuedOK'
  BY <1>1, <1>2 DEF Stopping, IssuedOK, SparesStop, InFlight
<1>6. StopsHold'
  BY <1>1, <1>4 DEF Stopping, StopsHold
<1>7. StopUndoneOnlyByOverlap'
  <2>1. \A i, j \in DOMAIN ledger : i + 1 .. j \subseteq DOMAIN ledger
    BY DEF TypeOK
  <2> QED
    BY <1>1, <1>3, <1>4, <2>1 DEF Stopping, StopUndoneOnlyByOverlap, ExecutedBehindStop
<1>8. \A s \in Requests : StopsKnown(s)'
  BY <1>1, <1>2, <1>4 DEF Stopping, StopsKnown, SparesStop, InFlight
<1> QED BY <1>5, <1>6, <1>7, <1>8 DEF Stopping

LEMMA StoppingNext ==
  ASSUME Typed, Idempotent, Stopping, [Next]_vars
  PROVE  Stopping'
BY StoppingQuiet, StoppingCommit, StoppingRecordFailed, StoppingRecordPaid, StoppingElsewhere
   DEF Next, RequestStep, Record

LEMMA IdempotentInvariant == Spec => []Idempotent
BY IdempotentInit, IdempotentNext, TypedInvariant, PTL DEF Spec

LEMMA StoppingInvariant == Spec => []Stopping
BY StoppingInit, StoppingNext, TypedInvariant, IdempotentInvariant, PTL DEF Spec

\* Nothing executes behind a stop unless a request that was already in flight when
\* the stop committed has committed behind it: stops are as terminal as overlapping
\* sessions on one case let them be, and no more.
THEOREM StopsAreUndoneOnlyByOverlap == Spec => []StopUndoneOnlyByOverlap
<1>1. Stopping => StopUndoneOnlyByOverlap
  BY DEF Stopping
<1> QED BY <1>1, StoppingInvariant, PTL

-----------------------------------------------------------------------------
(***************************************************************************)
(* The trail never lies about the end of a case, although sessions overlap *)
(* and a flush writes single columns of a row that others have written     *)
(* since.                                                                  *)
(*                                                                         *)
(* The argument is about the column stop_reason.  Once set it is never     *)
(* unset, whoever sets it also inserts the stop row, and nobody closes a   *)
(* case without it.                                                        *)
(***************************************************************************)
HasReason(c) == c.stop_reason # "absent"

\* The ledger of case c has the stop row for this reason.
Noted(c, reason) ==
  \E i \in DOMAIN ledger : ledger[i].case = c /\ StopRow(reason) \in ledger[i].rows

CaseClosure ==
  \A c \in Cases : cases[c] # None =>
    /\ HasReason(cases[c]) => Noted(c, cases[c].stop_reason)
    /\ IsStopped(cases[c]) => HasReason(cases[c])

\* A reason that was loaded is still there.
Kept(c, loaded) == HasReason(loaded) => cases[c] # None /\ HasReason(cases[c])

SessionClosure(r) ==
  pc[r] \in InFlight =>
    /\ Kept(target[r], snap[r])
    /\ IsStopped(row[r]) => HasReason(row[r])
    /\ row[r].stop_reason # snap[r].stop_reason =>
         HasReason(row[r]) /\ StopRow(row[r].stop_reason) \in rows[r]

HookClosure(w) ==
  hook[w] = "write" /\ event[w] \in Links =>
    /\ Kept(hookCase[w], hookSnap[w])
    /\ IsStopped(hookSnap[w]) => HasReason(hookSnap[w])

Closing ==
  /\ CaseClosure
  /\ \A r \in Requests : SessionClosure(r)
  /\ \A w \in Workers : HookClosure(w)

-----------------------------------------------------------------------------
LEMMA ClosingInit == Init => Closing
BY PreloadedAssumption
   DEF Init, Closing, CaseClosure, SessionClosure, HookClosure, FreshCase, HasReason,
       IsStopped, InFlight

\* A step that changes no committed case.
LEMMA ClosingQuietStep ==
  ASSUME Closing, UNCHANGED <<cases, ledger>>,
         \A r \in Requests : SessionClosure(r) => SessionClosure(r)',
         \A w \in Workers : HookClosure(w) => HookClosure(w)'
  PROVE  Closing'
BY DEF Closing, CaseClosure, Noted

SparesSession(r) ==
  /\ pc'[r] = pc[r]
  /\ target'[r] = target[r]
  /\ snap'[r] = snap[r]
  /\ row'[r] = row[r]
  /\ rows'[r] = rows[r]

LEMMA ClosingRequest ==
  ASSUME Typed, Stopping, Closing, NEW r \in Requests,
         \/ LoadCase(r) \/ IngestNew(r) \/ SkipStopped(r) \/ OptOut(r)
         \/ ReadFingerprints(r) \/ GateAndRecord(r) \/ Execute(r) \/ ExecuteStub(r)
         \/ LockTimeout(r)
  PROVE  Closing'
<1> USE DEF Typed
<1>1. /\ UNCHANGED <<cases, ledger, hook, event, hookCase, hookSnap>>
      /\ \A s \in Requests \ {r} : SparesSession(s)
  BY DEF TypeOK, LoadCase, IngestNew, SkipStopped, OptOut, ReadFingerprints,
         GateAndRecord, Execute, RunAdapter, AdapterRows, ExecuteStub, LockTimeout, CloseSession,
         SparesSession, dbVars, hookVars
<1>2. \A w \in Workers : HookClosure(w) => HookClosure(w)'
  BY <1>1 DEF HookClosure, Kept
<1>3. \A s \in Requests \ {r} : SessionClosure(s) => SessionClosure(s)'
  BY <1>1 DEF SessionClosure, Kept, SparesSession
<1> SUFFICES SessionClosure(r)'
  BY <1>1, <1>2, <1>3, ClosingQuietStep
<1>4. SessionClosure(r) /\ StopsKnown(r)
  BY DEF Closing, Stopping
<1>5. pc[r] \in InFlight => snap[r] \in CaseRow /\ row[r] \in CaseRow
  BY DEF SessionOK
<1>6. CASE LoadCase(r)
  <2>1. PICK c \in Cases : /\ cases[c] # None
                           /\ target'[r] = c
                           /\ snap'[r] = cases[c] /\ row'[r] = cases[c]
    BY <1>6 DEF LoadCase, TypeOK
  <2> QED
    BY <1>1, <2>1 DEF Closing, CaseClosure, SessionClosure, Kept
<1>7. CASE IngestNew(r)
  <2>1. snap'[r] = FreshCase("absent") /\ row'[r] = FreshCase("absent")
    BY <1>7 DEF IngestNew, TypeOK
  <2> QED
    BY <2>1 DEF SessionClosure, Kept, HasReason, IsStopped, FreshCase
<1>8. CASE SkipStopped(r) \/ LockTimeout(r)
  BY <1>8 DEF SessionClosure, SkipStopped, LockTimeout, CloseSession, TypeOK, InFlight
<1>9. CASE OptOut(r)
  <2>1. /\ row'[r].status = "stopped" /\ row'[r].stop_reason = "opt_out"
        /\ StopRow("opt_out") \in rows'[r]
        /\ pc[r] \in InFlight
        /\ UNCHANGED <<target, snap>>
    <3>1. row[r] \in CaseRow
      BY <1>5, <1>9 DEF OptOut, InFlight
    <3> QED BY <1>9, <3>1 DEF OptOut, TypeOK, CaseRow, InFlight
  <2> QED BY <1>1, <1>4, <2>1 DEF SessionClosure, Kept, HasReason
<1>10. CASE ReadFingerprints(r) \/ ExecuteStub(r)
  <2>1. /\ UNCHANGED <<target, snap, row>> /\ rows[r] \subseteq rows'[r]
        /\ pc[r] \in InFlight
    BY <1>10 DEF ReadFingerprints, ExecuteStub, TypeOK, InFlight
  <2> QED BY <1>1, <1>4, <2>1 DEF SessionClosure, Kept
<1>11. CASE GateAndRecord(r)
  <2>1. /\ row'[r].status \in {"blocked", "open"}
        /\ row'[r].stop_reason = row[r].stop_reason
        /\ rows[r] \subseteq rows'[r]
        /\ UNCHANGED <<target, snap>>
        /\ pc[r] \in InFlight
    <3>1. row[r] \in CaseRow
      BY <1>5, <1>11 DEF GateAndRecord, InFlight
    <3> QED BY <1>11, <3>1 DEF GateAndRecord, TypeOK, CaseRow, InFlight
  <2> QED BY <1>1, <1>4, <2>1 DEF SessionClosure, Kept, HasReason, IsStopped
<1>12. CASE Execute(r)
  <2>1. PICK o \in Results(body[r]), l \in Links : RunAdapter(r, o, l)
    BY <1>12 DEF Execute
  <2>2. /\ row[r] \in CaseRow /\ body[r] \in RequestBody /\ pc[r] \in InFlight
        /\ UNCHANGED <<target, snap>>
    BY <1>5, <1>12 DEF Execute, SessionOK, InFlight
  <2>3. row'[r] = AfterResult(row[r], body[r].action.verb, o)
    BY <2>1 DEF RunAdapter, AdapterRows, TypeOK
  <2>4. CASE o.recovered
    <3>1. row'[r].status = "recovered" /\ row'[r].stop_reason = "recovered"
      BY <2>2, <2>3, <2>4 DEF AfterResult, CaseRow
    <3>2. StopRow("recovered") \in rows'[r]
      BY <2>1, <2>4 DEF RunAdapter, AdapterRows, TypeOK
    <3> QED BY <1>1, <1>4, <2>2, <3>1, <3>2 DEF SessionClosure, Kept, HasReason
  <2>5. CASE ~o.recovered
    <3>1. row'[r].status = row[r].status /\ row'[r].stop_reason = row[r].stop_reason
      BY <2>2, <2>3, <2>5 DEF AfterResult, CaseRow, RequestBody, Action, Verbs, LinkVerbs
    <3>2. rows[r] \subseteq rows'[r]
      BY <2>1 DEF RunAdapter, AdapterRows, TypeOK
    <3> QED BY <1>1, <1>4, <2>2, <3>1, <3>2 DEF SessionClosure, Kept, HasReason, IsStopped
  <2> QED BY <2>4, <2>5
<1> QED
  BY <1>6, <1>7, <1>8, <1>9, <1>10, <1>11, <1>12

-----------------------------------------------------------------------------
\* A committing step keeps the invariant if it unsets no reason, closes no case
\* without one, and notes the reason it sets.
LEMMA ClosingCommittingStep ==
  ASSUME Typed, Closing, NEW t, NEW c \in Cases, t.case = c, ledger' = Append(ledger, t),
         \A d \in Cases \ {c} : cases'[d] = cases[d],
         cases'[c] # None,
         cases[c] # None /\ HasReason(cases[c]) => HasReason(cases'[c]),
         IsStopped(cases'[c]) => HasReason(cases'[c]),
         HasReason(cases'[c]) =>
           \/ StopRow(cases'[c].stop_reason) \in t.rows
           \/ cases[c] # None /\ cases'[c].stop_reason = cases[c].stop_reason,
         \A s \in Requests : pc'[s] \in InFlight => SparesSession(s),
         \A w \in Workers : hook'[w] = "write" =>
           UNCHANGED <<hook[w], event[w], hookCase[w], hookSnap[w]>>
  PROVE  Closing'
<1> USE DEF Typed
<1>1. \A d \in Cases : \A x : Kept(d, x) => Kept(d, x)'
  BY DEF Kept
<1>2. \A d \in Cases : \A reason : Noted(d, reason) => Noted(d, reason)'
  BY AppendedLedger DEF Noted
<1>3. \A reason : StopRow(reason) \in t.rows => Noted(c, reason)'
  BY AppendedLedger DEF Noted, StopRow
<1>4. CaseClosure'
  <2> SUFFICES ASSUME NEW d \in Cases, cases'[d] # None
               PROVE  /\ HasReason(cases'[d]) => Noted(d, cases[d].stop_reason)'
                      /\ IsStopped(cases'[d]) => HasReason(cases'[d])
    BY DEF CaseClosure, HasReason, IsStopped, Noted
  <2>1. CASE d # c
    <3>1. ASSUME NEW reason, reason = cases'[d].stop_reason, HasReason(cases'[d])
          PROVE  Noted(d, reason)'
      BY <1>2, <2>1, <3>1 DEF Closing, CaseClosure, HasReason
    <3> QED BY <2>1, <3>1 DEF Closing, CaseClosure, Noted
  <2>2. CASE d = c
    <3>1. ASSUME NEW reason, reason = cases'[c].stop_reason, HasReason(cases'[c])
          PROVE  Noted(c, reason)'
      BY <1>2, <1>3, <3>1 DEF Closing, CaseClosure, HasReason
    <3> QED BY <2>2, <3>1 DEF Noted
  <2> QED BY <2>1, <2>2
<1>5. ASSUME NEW s \in Requests
      PROVE  SessionClosure(s)'
  <2> SUFFICES ASSUME pc'[s] \in InFlight
               PROVE  SessionClosure(s)'
    BY DEF SessionClosure
  <2>1. SparesSession(s) /\ pc[s] \in InFlight /\ target[s] \in Cases /\ SessionClosure(s)
    BY DEF SparesSession, SessionOK, Closing
  <2>2. Kept(target[s], snap[s])'
    BY <1>1, <2>1 DEF SessionClosure, SparesSession, Kept
  <2> QED BY <2>1, <2>2 DEF SessionClosure, SparesSession
<1>6. ASSUME NEW w \in Workers
      PROVE  HookClosure(w)'
  <2> SUFFICES ASSUME hook'[w] = "write", event'[w] \in Links
               PROVE  HookClosure(w)'
    BY DEF HookClosure
  <2>1. /\ UNCHANGED <<hook[w], event[w], hookCase[w], hookSnap[w]>>
        /\ hookCase[w] \in Cases /\ HookClosure(w)
    BY DEF HookOK, Closing
  <2>2. Kept(hookCase[w], hookSnap[w])'
    BY <1>1, <2>1 DEF HookClosure, Kept
  <2> QED BY <2>1, <2>2 DEF HookClosure
<1> QED BY <1>4, <1>5, <1>6 DEF Closing

LEMMA ClosingCommit ==
  ASSUME Typed, Closing, NEW r \in Requests, Commit(r)
  PROVE  Closing'
<1> USE DEF Typed
<1> DEFINE c == target[r]
           t == [by |-> r, case |-> c, rows |-> rows[r]]
<1>1. /\ c \in Cases /\ snap[r] \in CaseRow /\ row[r] \in CaseRow /\ SessionClosure(r)
      /\ pc[r] \in InFlight
  BY DEF Commit, SessionOK, InFlight, Closing
<1>2. /\ ledger' = Append(ledger, t) /\ t.case = c /\ t.rows = rows[r]
      /\ cases' = [cases EXCEPT ![c] = Stored(r)]
      /\ UNCHANGED <<hook, event, hookCase, hookSnap>>
  BY DEF Commit, hookVars
<1>3. cases'[c] = Stored(r) /\ \A d \in Cases \ {c} : cases'[d] = cases[d]
  BY <1>1, <1>2 DEF TypeOK
<1>4. \A s \in Requests : pc'[s] \in InFlight => SparesSession(s)
  BY DEF Commit, CloseSession, TypeOK, SparesSession, InFlight
<1>5. CASE cases[c] = None
  <2>1. Stored(r) = row[r]
    BY <1>5 DEF Stored
  <2>2. ~HasReason(snap[r])
    BY <1>1, <1>5 DEF SessionClosure, Kept
  <2>3. HasReason(row[r]) => StopRow(row[r].stop_reason) \in rows[r]
    BY <1>1, <2>2 DEF SessionClosure, HasReason
  <2> HIDE DEF t, c
  <2> QED
    BY <1>1, <1>2, <1>3, <1>4, <1>5, <2>1, <2>3, NoneIsNoRow, ClosingCommittingStep
       DEF SessionClosure
<1>6. CASE cases[c] \in CaseRow
  <2>1. Stored(r) = Merge(snap[r], row[r], cases[c])
    BY <1>6, NoneIsNoRow DEF Stored
  <2>2. Stored(r) \in CaseRow
    BY <1>1, <1>6, <2>1, MergeType
  <2>3. /\ Stored(r).status = IF row[r].status = snap[r].status
                               THEN cases[c].status ELSE row[r].status
        /\ Stored(r).stop_reason = IF row[r].stop_reason = snap[r].stop_reason
                                    THEN cases[c].stop_reason ELSE row[r].stop_reason
    BY <1>1, <1>6, <2>1, MergeStatus
  <2>4. IsStopped(cases[c]) => HasReason(cases[c])
    BY <1>1, <1>6, NoneIsNoRow DEF Closing, CaseClosure
  <2>5. HasReason(cases[c]) => HasReason(Stored(r))
    BY <1>1, <2>3 DEF SessionClosure, HasReason
  <2>6. IsStopped(Stored(r)) => HasReason(Stored(r))
    <3>1. CASE row[r].status = snap[r].status
      BY <2>3, <2>4, <2>5, <3>1 DEF IsStopped
    <3>2. CASE row[r].status # snap[r].status
      BY <1>1, <2>3, <2>5, <3>2 DEF SessionClosure, Kept, HasReason, IsStopped
    <3> QED BY <3>1, <3>2
  <2>7. HasReason(Stored(r)) =>
          \/ StopRow(Stored(r).stop_reason) \in rows[r]
          \/ Stored(r).stop_reason = cases[c].stop_reason
    BY <1>1, <2>3 DEF SessionClosure
  <2> HIDE DEF t, c
  <2> QED
    BY <1>1, <1>2, <1>3, <1>4, <1>6, <2>2, <2>5, <2>6, <2>7, NoneIsNoRow,
       ClosingCommittingStep
<1> QED BY <1>1, <1>5, <1>6 DEF TypeOK, Option

LEMMA ClosingRecordFailed ==
  ASSUME Typed, Stopping, Closing, NEW w \in Workers, RecordFailed(w)
  PROVE  Closing'
<1> USE DEF Typed
<1>1. PICK c \in Cases \ issued :
        /\ cases' = [cases EXCEPT ![c] = FreshCase("absent")]
        /\ ledger' = Append(ledger, [by |-> w, case |-> c, rows |-> {EventRow(event[w])}])
  BY DEF RecordFailed
<1>2. cases[c] = None
  BY <1>1 DEF Stopping, IssuedOK
<1>3. FreshCase("absent") # None /\ ~HasReason(FreshCase("absent"))
      /\ ~IsStopped(FreshCase("absent"))
  BY FreshCaseType, NoneIsNoRow DEF FailureClasses, FreshCase, HasReason, IsStopped
<1>4. cases'[c] = FreshCase("absent") /\ \A d \in Cases \ {c} : cases'[d] = cases[d]
  BY <1>1 DEF TypeOK
<1>5. \A s \in Requests : SparesSession(s)
  BY DEF RecordFailed, requestVars, SparesSession
<1>6. \A v \in Workers : hook'[v] = "write" =>
        UNCHANGED <<hook[v], event[v], hookCase[v], hookSnap[v]>>
  BY DEF RecordFailed, TypeOK
<1> DEFINE t == [by |-> w, case |-> c, rows |-> {EventRow(event[w])}]
<1>7. ledger' = Append(ledger, t) /\ t.case = c
  BY <1>1
<1> HIDE DEF t
<1> QED
  BY <1>2, <1>3, <1>4, <1>5, <1>6, <1>7, ClosingCommittingStep

LEMMA ClosingRecordPaid ==
  ASSUME Typed, Closing, NEW w \in Workers, RecordPaid(w)
  PROVE  Closing'
<1> USE DEF Typed
<1> DEFINE c == hookCase[w]
           loaded == hookSnap[w]
           t == [by |-> w, case |-> c, rows |-> PaidRows(event[w], loaded)]
<1>1. /\ c \in Cases /\ loaded \in CaseRow /\ cases[c] \in CaseRow
      /\ Kept(c, loaded)
      /\ IsStopped(loaded) => HasReason(loaded)
      /\ IsStopped(cases[c]) => HasReason(cases[c])
  BY NoneIsNoRow DEF RecordPaid, HookOK, Closing, HookClosure, CaseClosure
<1>2. /\ ledger' = Append(ledger, t) /\ t.case = c /\ t.rows = PaidRows(event[w], loaded)
      /\ cases' = [cases EXCEPT ![c] = Merge(loaded, PaidCase(loaded), cases[c])]
  BY DEF RecordPaid
<1>3. PaidCase(loaded) \in CaseRow
  BY <1>1 DEF PaidCase, CaseRow, Statuses, StopReasons
<1>4. /\ cases'[c] = Merge(loaded, PaidCase(loaded), cases[c])
      /\ \A d \in Cases \ {c} : cases'[d] = cases[d]
  BY <1>1, <1>2 DEF TypeOK
<1>5. \A s \in Requests : SparesSession(s)
  BY DEF RecordPaid, requestVars, SparesSession
<1>6. \A v \in Workers : hook'[v] = "write" =>
        UNCHANGED <<hook[v], event[v], hookCase[v], hookSnap[v]>>
  BY DEF RecordPaid, TypeOK
<1>7. cases'[c] \in CaseRow
  BY <1>1, <1>3, <1>4, MergeType
<1>8. cases'[c].stop_reason = IF PaidCase(loaded).stop_reason = loaded.stop_reason
                                THEN cases[c].stop_reason
                                ELSE PaidCase(loaded).stop_reason
  BY <1>1, <1>3, <1>4, MergeStatus
<1>9. CASE loaded.status = "recovered"
  <2>1. PaidCase(loaded) = loaded
    BY <1>9 DEF PaidCase
  <2>2. cases'[c].stop_reason = cases[c].stop_reason
    BY <1>8, <2>1
  <2>3. HasReason(cases[c])
    BY <1>1, <1>9 DEF Kept, IsStopped
  <2> HIDE DEF t, c, loaded
  <2> QED
    BY <1>1, <1>2, <1>4, <1>5, <1>6, <1>7, <2>2, <2>3, NoneIsNoRow, ClosingCommittingStep
       DEF HasReason
<1>10. CASE loaded.status # "recovered"
  <2>1. PaidCase(loaded).stop_reason = "recovered"
    BY <1>1, <1>10 DEF PaidCase, CaseRow
  <2>2. StopRow("recovered") \in PaidRows(event[w], loaded)
    BY <1>10 DEF PaidRows
  <2>3. HasReason(cases'[c])
    BY <1>1, <1>8, <2>1 DEF HasReason, Kept
  <2>4. \/ StopRow(cases'[c].stop_reason) \in PaidRows(event[w], loaded)
        \/ cases'[c].stop_reason = cases[c].stop_reason
    BY <1>8, <2>1, <2>2
  <2> HIDE DEF t, c, loaded
  <2> QED
    BY <1>1, <1>2, <1>4, <1>5, <1>6, <1>7, <2>3, <2>4, NoneIsNoRow, ClosingCommittingStep
<1> QED BY <1>9, <1>10

\* Deliveries load a committed row; the rest of the handler and the environment
\* leave rows and sessions alone or drop them.
LEMMA ClosingElsewhere ==
  ASSUME Typed, Closing,
         \/ \E w \in Workers, e \in Events : Deliver(w, e)
         \/ \E w \in Workers : IntegrityError(w) \/ HookTimeout(w) \/ Reply(w) \/ LoseReply(w)
         \/ \E l \in Links : PayLink(l)
         \/ Restart
         \/ UNCHANGED vars
  PROVE  Closing'
<1> USE DEF Typed
<1>1. UNCHANGED <<cases, ledger>>
  BY DEF Deliver, DeliverDuplicate, DeliverFailed, DeliverPaid, IntegrityError, HookTimeout,
         Reply, LoseReply, PayLink, Restart, vars, dbVars
<1>2. \A s \in Requests : pc'[s] \in InFlight => SparesSession(s)
  <2>1. CASE Restart
    BY <2>1 DEF Restart, TypeOK, SparesSession, InFlight
  <2>2. CASE ~Restart
    BY <2>2 DEF Deliver, DeliverDuplicate, DeliverFailed, DeliverPaid, IntegrityError,
                HookTimeout, Reply, LoseReply, PayLink, vars, requestVars, SparesSession
  <2> QED BY <2>1, <2>2
<1>3. \A s \in Requests : SessionClosure(s) => SessionClosure(s)'
  BY <1>1, <1>2 DEF SessionClosure, SparesSession, Kept
<1>4. \A v \in Workers : HookClosure(v) => HookClosure(v)'
  <2>1. CASE \E w \in Workers, l \in Events : DeliverPaid(w, l)
    <3>1. PICK w \in Workers, l \in Links : DeliverPaid(w, l)
      BY <2>1 DEF DeliverPaid
    <3>2. links[l].case \in Cases /\ cases[links[l].case] # None
      BY <3>1 DEF DeliverPaid, Sendable, HookOK
    <3>3. HookClosure(w)'
      BY <3>1, <3>2 DEF DeliverPaid, HookClosure, TypeOK, Closing, CaseClosure, Kept, dbVars
    <3>4. \A v \in Workers \ {w} : HookClosure(v) => HookClosure(v)'
      BY <3>1 DEF DeliverPaid, HookClosure, TypeOK, Kept, dbVars
    <3> QED BY <3>3, <3>4
  <2>2. CASE \E w \in Workers, e \in Events : DeliverFailed(w, e)
    BY <2>2, IdsDistinct DEF DeliverFailed, HookClosure, TypeOK, Kept, dbVars
  <2>3. CASE ~ \E w \in Workers, e \in Events : DeliverPaid(w, e) \/ DeliverFailed(w, e)
    <3>1. \A v \in Workers : hook'[v] = "write" =>
            UNCHANGED <<hook[v], event[v], hookCase[v], hookSnap[v]>>
      BY <2>3 DEF Deliver, DeliverDuplicate, IntegrityError, HookTimeout, Reply, LoseReply,
                  HookIdle, PayLink, Restart, TypeOK, vars, hookVars
    <3> QED BY <1>1, <3>1 DEF HookClosure, Kept
  <2> QED BY <2>1, <2>2, <2>3
<1> QED BY <1>1, <1>3, <1>4, ClosingQuietStep

LEMMA ClosingNext ==
  ASSUME Typed, Stopping, Closing, [Next]_vars
  PROVE  Closing'
BY ClosingRequest, ClosingCommit, ClosingRecordFailed, ClosingRecordPaid, ClosingElsewhere
   DEF Next, RequestStep, Record

\* A case whose status says stopped or recovered has the stop row with its reason on
\* its ledger, however sessions on it overlapped and whatever crashed.
THEOREM ClosedCasesAreOnLedger == Spec => []ClosedIsOnLedger
<1>1. Closing => ClosedIsOnLedger
  BY DEF Closing, CaseClosure, ClosedIsOnLedger, Noted
<1> QED
  BY <1>1, ClosingInit, ClosingNext, TypedInvariant, StoppingInvariant, PTL DEF Spec
=============================================================================
