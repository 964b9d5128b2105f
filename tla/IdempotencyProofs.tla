------------------------- MODULE IdempotencyProofs --------------------------
(***************************************************************************)
(* Executions and the ledger, for any number of requests, workers, cases   *)
(* and crashes: nothing executes twice unseen, what an adapter did is on   *)
(* the ledger, and the counters of a case never exceed it.                 *)
(*                                                                         *)
(* DurableIdempotency speaks of the ledger only.  What makes it inductive  *)
(* is what a request in flight knows: the fingerprints it has seen are all *)
(* those its case had when it read them, and the action it is about to     *)
(* commit is none of them.                                                 *)
(***************************************************************************)
EXTENDS RecoveryTypeProofs, FiniteSetTheorems

\* A request commits once, at its end; a webhook executes nothing; an action row
\* is on the ledger of the case its fingerprint names.
CommittedOK ==
  \A i \in DOMAIN ledger :
    /\ ledger[i].by \in Requests => pc[ledger[i].by] = "done"
    /\ ledger[i].by \in Workers => ExecutedIn(i) = {}
    /\ \A fp \in ExecutedIn(i) : fp.case_id = ledger[i].case

\* r has seen everything executed on its case up to the moment it read.
SeenAll(r) ==
  \A i \in DOMAIN ledger :
    i <= readAt[r] /\ ledger[i].case = target[r] => ExecutedIn(i) \subseteq seen[r]

\* The action r is to execute, or about to commit, is new to r.
IsNew(r) == Fingerprint(target[r], body[r].action) \notin seen[r]

KnowledgeOK(r) ==
  /\ readAt[r] <= Len(ledger)
  /\ pc[r] \in {"read", "execute"} => SeenAll(r)
  /\ pc[r] = "execute" => IsNew(r)
  /\ \A x \in rows[r] : x.kind = "action" =>
       /\ pc[r] = "commit"
       /\ x.action_fingerprint = Fingerprint(target[r], body[r].action)
       /\ SeenAll(r)
       /\ IsNew(r)

Idempotent ==
  CommittedOK /\ DurableIdempotency /\ \A r \in Requests : KnowledgeOK(r)

-----------------------------------------------------------------------------
LEMMA IdempotentInit == Init => Idempotent
BY DEF Init, Idempotent, CommittedOK, KnowledgeOK, DurableIdempotency

\* The step leaves request s alone.
Spares(s) ==
  /\ pc'[s] = pc[s]
  /\ body'[s] = body[s]
  /\ target'[s] = target[s]
  /\ seen'[s] = seen[s]
  /\ rows'[s] = rows[s]
  /\ readAt'[s] = readAt[s]

LEMMA SparedKnowledge ==
  ASSUME NEW s \in Requests, KnowledgeOK(s), Spares(s), UNCHANGED ledger
  PROVE  KnowledgeOK(s)'
BY DEF KnowledgeOK, SeenAll, IsNew, ExecutedIn, Spares

\* A step that commits nothing, of a request that is not over, keeps the invariant
\* if what that request knows stays right.
LEMMA QuietStep ==
  ASSUME Idempotent, NEW r \in Requests, pc[r] # "done", UNCHANGED ledger,
         \A s \in Requests \ {r} : Spares(s),
         KnowledgeOK(r)'
  PROVE  Idempotent'
<1>1. \A s \in Requests : KnowledgeOK(s)'
  BY SparedKnowledge DEF Idempotent
<1>2. CommittedOK'
  BY DEF Idempotent, CommittedOK, ExecutedIn, Spares
<1>3. DurableIdempotency'
  BY DEF Idempotent, CommittedOK, DurableIdempotency, ExecutedIn, Spares
<1> QED BY <1>1, <1>2, <1>3 DEF Idempotent

\* A step that commits nothing and starts, or touches, no session.
LEMMA IdleStep ==
  ASSUME Idempotent, UNCHANGED ledger, \A s \in Requests : Spares(s)
  PROVE  Idempotent'
<1>1. \A s \in Requests : KnowledgeOK(s)'
  BY SparedKnowledge DEF Idempotent
<1>2. CommittedOK'
  BY DEF Idempotent, CommittedOK, ExecutedIn, Spares
<1>3. DurableIdempotency'
  BY DEF Idempotent, CommittedOK, DurableIdempotency, ExecutedIn, Spares
<1> QED BY <1>1, <1>2, <1>3 DEF Idempotent

LEMMA IdempotentQuiet ==
  ASSUME Typed, Idempotent, NEW r \in Requests,
         \/ LoadCase(r) \/ IngestNew(r) \/ SkipStopped(r) \/ OptOut(r)
         \/ ReadFingerprints(r) \/ GateAndRecord(r) \/ Execute(r) \/ ExecuteStub(r)
         \/ LockTimeout(r)
  PROVE  Idempotent'
<1> USE DEF Typed
<1>1. /\ pc[r] # "done"
      /\ UNCHANGED ledger
      /\ \A s \in Requests \ {r} : Spares(s)
  BY DEF TypeOK, LoadCase, IngestNew, SkipStopped, OptOut, ReadFingerprints,
         GateAndRecord, Execute, RunAdapter, AdapterRows, ExecuteStub, LockTimeout, CloseSession,
         Spares, dbVars
<1> SUFFICES KnowledgeOK(r)'
  BY <1>1, QuietStep
<1>2. KnowledgeOK(r)
  BY DEF Idempotent
<1>3. CASE LoadCase(r)
  BY <1>2, <1>3 DEF TypeOK, KnowledgeOK, LoadCase, dbVars
<1>4. CASE IngestNew(r)
  BY <1>2, <1>4 DEF TypeOK, KnowledgeOK, IngestNew, EventRow
<1>5. CASE SkipStopped(r) \/ LockTimeout(r)
  BY <1>2, <1>5 DEF TypeOK, KnowledgeOK, SkipStopped, LockTimeout, CloseSession, dbVars
<1>6. CASE OptOut(r)
  BY <1>2, <1>6 DEF TypeOK, KnowledgeOK, OptOut, StopRow
<1>7. CASE ReadFingerprints(r)
  <2>1. readAt'[r] = Len(ledger) /\ SeenAll(r)'
    BY <1>7 DEF ReadFingerprints, TypeOK, SeenAll, ExecutedFingerprints, ExecutedIn, dbVars
  <2> QED
    BY <1>2, <1>7, <2>1 DEF TypeOK, KnowledgeOK, ReadFingerprints, dbVars
<1>8. CASE GateAndRecord(r)
  <2>1. pc'[r] = "execute" => IsNew(r)
    BY <1>8 DEF GateAndRecord, TypeOK, AllPassed, RunGates, GateNames, GateIdempotency,
                Context, IsNew
  <2>2. IsNew(r)' <=> IsNew(r)
    BY <1>8 DEF GateAndRecord, IsNew
  <2>3. SeenAll(r)
    BY <1>2, <1>8 DEF KnowledgeOK, GateAndRecord
  <2>4. SeenAll(r)'
    BY <1>8, <2>3 DEF GateAndRecord, SeenAll, ExecutedIn
  <2>5. \A x \in rows'[r] : x.kind # "action"
    BY <1>2, <1>8 DEF KnowledgeOK, GateAndRecord, TypeOK, GateRow
  <2> QED
    BY <1>2, <1>8, <2>1, <2>2, <2>4, <2>5 DEF KnowledgeOK, GateAndRecord
<1>9. CASE Execute(r) \/ ExecuteStub(r)
  <2>1. SeenAll(r) /\ IsNew(r)
    BY <1>2, <1>9 DEF KnowledgeOK, Execute, ExecuteStub
  <2>2. SeenAll(r)' /\ IsNew(r)'
    BY <1>1, <1>9, <2>1 DEF SeenAll, IsNew, ExecutedIn, Execute, ExecuteStub
  <2>3. \A x \in rows'[r] : x.kind = "action" =>
          x.action_fingerprint = Fingerprint(target[r], body[r].action)
    <3>1. CASE Execute(r)
      BY <1>2, <3>1 DEF KnowledgeOK, TypeOK, Execute, RunAdapter, AdapterRows, OutcomeRow, ActionRow,
                        StopRow
    <3>2. CASE ExecuteStub(r)
      BY <1>2, <3>2 DEF KnowledgeOK, TypeOK, ExecuteStub, ActionRow
    <3> QED BY <1>9, <3>1, <3>2
  <2>4. pc'[r] = "commit" /\ UNCHANGED <<body, target, readAt, ledger>>
    BY <1>9 DEF TypeOK, Execute, ExecuteStub, dbVars
  <2> QED
    BY <1>2, <2>2, <2>3, <2>4 DEF KnowledgeOK
<1> QED
  BY <1>3, <1>4, <1>5, <1>6, <1>7, <1>8, <1>9

-----------------------------------------------------------------------------
\* Committing a transaction leaves the earlier ones as they were.
LEMMA AppendedLedger ==
  ASSUME TypeOK, NEW t, ledger' = Append(ledger, t)
  PROVE  /\ Len(ledger) \in Nat
         /\ Len(ledger') = Len(ledger) + 1
         /\ DOMAIN ledger' = DOMAIN ledger \cup {Len(ledger) + 1}
         /\ \A i \in DOMAIN ledger :
              /\ i \in Nat /\ i <= Len(ledger)
              /\ ledger'[i] = ledger[i]
              /\ ExecutedIn(i)' = ExecutedIn(i)
         /\ ledger'[Len(ledger) + 1] = t
BY DEF TypeOK, ExecutedIn

\* A committing step keeps the invariant if the committer is a request that ends
\* with it and executed what KnowledgeOK allows, or executed nothing.
LEMMA CommittingStep ==
  ASSUME Typed, Idempotent, NEW t, t.by \in Actors, ledger' = Append(ledger, t),
         \A s \in Requests \ {t.by} : Spares(s),
         t.by \in Requests =>
           /\ pc[t.by] # "done" /\ pc'[t.by] = "done"
           /\ rows'[t.by] = {}
           /\ readAt'[t.by] = readAt[t.by],
         \A x \in t.rows : x.kind = "action" =>
           /\ t.by \in Requests
           /\ t.case = target[t.by]
           /\ x.action_fingerprint = Fingerprint(t.case, body[t.by].action)
           /\ SeenAll(t.by)
           /\ IsNew(t.by)
  PROVE  Idempotent'
<1> USE DEF Typed
<1>0. PICK n \in Nat : n = Len(ledger) + 1
  BY AppendedLedger
<1>1. /\ Len(ledger) \in Nat /\ Len(ledger') = n
      /\ DOMAIN ledger' = DOMAIN ledger \cup {n}
      /\ \A i \in DOMAIN ledger :
           /\ i \in Nat /\ i < n
           /\ ledger'[i] = ledger[i]
           /\ ExecutedIn(i)' = ExecutedIn(i)
      /\ ledger'[n] = t
  BY <1>0, AppendedLedger
<1>2. \A fp \in ExecutedIn(n)' :
        /\ t.by \in Requests
        /\ t.case = target[t.by]
        /\ fp = Fingerprint(t.case, body[t.by].action)
        /\ SeenAll(t.by)
        /\ IsNew(t.by)
  BY <1>1 DEF ExecutedIn
<1>3. \A s \in Requests : KnowledgeOK(s)'
  <2> SUFFICES ASSUME NEW s \in Requests
               PROVE  KnowledgeOK(s)'
    OBVIOUS
  <2>1. readAt[s] \in Nat /\ readAt[s] <= Len(ledger) /\ KnowledgeOK(s)
    BY DEF Idempotent, KnowledgeOK, TypeOK
  <2>2. CASE s = t.by
    BY <1>0, <1>1, <2>1, <2>2 DEF KnowledgeOK
  <2>3. CASE s # t.by
    <3>1. Spares(s)
      BY <2>3
    <3>2. SeenAll(s) => SeenAll(s)'
      BY <1>0, <1>1, <2>1, <3>1 DEF SeenAll, Spares
    <3>3. IsNew(s) => IsNew(s)'
      BY <3>1 DEF IsNew, Spares
    <3> QED
      BY <1>0, <1>1, <2>1, <3>1, <3>2, <3>3 DEF KnowledgeOK, Spares
  <2> QED BY <2>2, <2>3
<1>4. CommittedOK'
  <2> SUFFICES ASSUME NEW i \in DOMAIN ledger'
               PROVE  /\ ledger'[i].by \in Requests => pc'[ledger'[i].by] = "done"
                      /\ ledger'[i].by \in Workers => ExecutedIn(i)' = {}
                      /\ \A fp \in ExecutedIn(i)' : fp.case_id = ledger'[i].case
    BY DEF CommittedOK
  <2>1. CASE i = n
    BY <1>1, <1>2, <2>1, IdsDistinct DEF Fingerprint
  <2>2. CASE i \in DOMAIN ledger
    BY <1>1, <2>2 DEF Idempotent, CommittedOK, Spares
  <2> QED BY <1>1, <2>1, <2>2
<1>5. DurableIdempotency'
  <2> SUFFICES ASSUME NEW i \in DOMAIN ledger', NEW j \in DOMAIN ledger', i < j,
                      NEW fp, fp \in ExecutedIn(i)', fp \in ExecutedIn(j)'
               PROVE  ledger'[j].by \in Requests /\ readAt'[ledger'[j].by] < i
    BY DEF DurableIdempotency
  <2>1. i \in DOMAIN ledger /\ fp \in ExecutedIn(i)
    BY <1>0, <1>1
  <2>2. CASE j \in DOMAIN ledger
    <3>1. ledger[j].by \in Requests /\ readAt[ledger[j].by] < i
      BY <1>1, <2>1, <2>2 DEF Idempotent, DurableIdempotency
    <3>2. pc[ledger[j].by] = "done"
      BY <2>2, <3>1 DEF Idempotent, CommittedOK
    <3> QED
      BY <1>1, <2>2, <3>1, <3>2 DEF Spares
  <2>3. CASE j = n
    <3>1. /\ t.by \in Requests
          /\ fp = Fingerprint(target[t.by], body[t.by].action)
          /\ SeenAll(t.by) /\ fp \notin seen[t.by]
      BY <1>2, <2>3 DEF IsNew
    <3>2. ledger[i].case = target[t.by]
      BY <2>1, <3>1 DEF Idempotent, CommittedOK, Fingerprint
    <3>3. ~(i <= readAt[t.by])
      BY <2>1, <3>1, <3>2 DEF SeenAll
    <3> QED
      BY <1>1, <2>1, <2>3, <3>1, <3>3 DEF TypeOK
  <2> QED BY <1>1, <2>2, <2>3
<1> QED BY <1>3, <1>4, <1>5 DEF Idempotent

LEMMA IdempotentCommit ==
  ASSUME Typed, Idempotent, NEW r \in Requests, Commit(r)
  PROVE  Idempotent'
<1> USE DEF Typed
<1> DEFINE t == [by |-> r, case |-> target[r], rows |-> rows[r]]
<1>1. ledger' = Append(ledger, t) /\ t.by = r /\ t.case = target[r] /\ t.rows = rows[r]
  BY DEF Commit
<1>2. /\ pc[r] # "done" /\ pc'[r] = "done" /\ rows'[r] = {} /\ readAt' = readAt
      /\ \A s \in Requests \ {r} : Spares(s)
  BY DEF Commit, CloseSession, TypeOK, Spares
<1>3. \A x \in rows[r] : x.kind = "action" =>
        /\ x.action_fingerprint = Fingerprint(target[r], body[r].action)
        /\ SeenAll(r)
        /\ IsNew(r)
  BY DEF Idempotent, KnowledgeOK
<1> HIDE DEF t
<1> QED
  BY <1>1, <1>2, <1>3, CommittingStep DEF Actors

LEMMA IdempotentRecord ==
  ASSUME Typed, Idempotent, NEW w \in Workers, RecordFailed(w) \/ RecordPaid(w)
  PROVE  Idempotent'
<1> USE DEF Typed
<1>1. \A s \in Requests : Spares(s)
  BY DEF RecordFailed, RecordPaid, requestVars, Spares
<1>2. PICK t : /\ ledger' = Append(ledger, t)
               /\ t.by = w
               /\ \A x \in t.rows : x.kind # "action"
  <2>1. CASE RecordFailed(w)
    <3>1. PICK c \in Cases \ issued :
            ledger' = Append(ledger, [by |-> w, case |-> c, rows |-> {EventRow(event[w])}])
      BY <2>1 DEF RecordFailed
    <3> QED BY <3>1 DEF EventRow
  <2>2. CASE RecordPaid(w)
    <3>1. ledger' = Append(ledger, [by |-> w, case |-> hookCase[w],
                                    rows |-> PaidRows(event[w], hookSnap[w])])
      BY <2>2 DEF RecordPaid
    <3>2. \A x \in PaidRows(event[w], hookSnap[w]) : x.kind # "action"
      BY DEF PaidRows, EventRow, OutcomeRow, StopRow
    <3> QED BY <3>1, <3>2
  <2> QED BY <2>1, <2>2
<1>3. t.by \in Actors /\ t.by \notin Requests
  BY <1>2, IdsDistinct DEF Actors
<1> QED
  BY <1>1, <1>2, <1>3, CommittingStep

\* The rest of the webhook handler, and the environment, commit nothing.
LEMMA IdempotentElsewhere ==
  ASSUME Idempotent,
         \/ \E w \in Workers, e \in Events : Deliver(w, e)
         \/ \E w \in Workers : IntegrityError(w) \/ HookTimeout(w) \/ Reply(w) \/ LoseReply(w)
         \/ \E l \in Links : PayLink(l)
         \/ UNCHANGED vars
  PROVE  Idempotent'
<1>1. UNCHANGED ledger /\ \A s \in Requests : Spares(s)
  BY DEF Deliver, DeliverDuplicate, DeliverFailed, DeliverPaid, IntegrityError,
         HookTimeout, Reply, LoseReply, PayLink, vars, dbVars, requestVars, Spares
<1> QED BY <1>1, IdleStep

LEMMA IdempotentRestart ==
  ASSUME Typed, Idempotent, Restart
  PROVE  Idempotent'
<1> USE DEF Typed
<1>1. UNCHANGED <<ledger, readAt>>
  BY DEF Restart
<1>2. \A s \in Requests : pc[s] \notin InFlight => Spares(s)
  BY DEF Restart, TypeOK, Spares
<1>3. \A s \in Requests : pc[s] \in InFlight => pc'[s] = "failed" /\ rows'[s] = {}
  BY DEF Restart, TypeOK
<1>4. \A s \in Requests : KnowledgeOK(s)'
  BY <1>1, <1>2, <1>3, SparedKnowledge DEF Idempotent, KnowledgeOK
<1>5. CommittedOK'
  BY <1>1, <1>2 DEF Idempotent, CommittedOK, ExecutedIn, Spares, InFlight
<1>6. DurableIdempotency'
  BY <1>1 DEF Idempotent, DurableIdempotency, ExecutedIn
<1> QED BY <1>4, <1>5, <1>6 DEF Idempotent

LEMMA IdempotentNext ==
  ASSUME Typed, Idempotent, [Next]_vars
  PROVE  Idempotent'
BY IdempotentQuiet, IdempotentCommit, IdempotentRecord, IdempotentElsewhere, IdempotentRestart
   DEF Next, RequestStep, Record

\* No action executes twice on a case, unless the request that repeats it had read
\* the ledger before the first execution was committed: the check-then-act window
\* of guard_and_maybe_execute is the only one, whatever the load and the crashes.
THEOREM IdempotencyIsDurable == Spec => []DurableIdempotency
<1>1. Init => Idempotent
  BY IdempotentInit
<1>2. Typed /\ Idempotent /\ [Next]_vars => Idempotent'
  BY IdempotentNext
<1>3. Idempotent => DurableIdempotency
  BY DEF Idempotent
<1> QED
  BY <1>1, <1>2, <1>3, TypedInvariant, PTL DEF Spec

-----------------------------------------------------------------------------
(***************************************************************************)
(* Links.  The action row of a call that created a link waits among the    *)
(* rows of its request until the commit puts it on the ledger.             *)
(***************************************************************************)
HasAction(rs) == \E x \in rs : x.kind = "action"

CreatorAccounts(r) ==
  \/ pc[r] = "failed"
  \/ pc[r] = "commit" /\ HasAction(rows[r])
  \/ \E i \in DOMAIN ledger : ledger[i].by = r /\ ExecutedIn(i) # {}

Accounted ==
  \A l \in Links : links[l].case # None =>
    links[l].by \in Requests /\ CreatorAccounts(links[l].by)

LEMMA AccountedIsAccountedFor == Accounted => LinksAccountedFor
BY DEF Accounted, CreatorAccounts, LinksAccountedFor

\* A creator stays accounted for while the ledger grows, if its request only fails,
\* or keeps its rows, or commits them.
LEMMA AccountsKept ==
  ASSUME TypeOK, NEW r, CreatorAccounts(r),
         ledger' = ledger \/ \E t : ledger' = Append(ledger, t),
         \/ pc'[r] = pc[r] /\ rows'[r] = rows[r]
         \/ pc'[r] = "failed"
         \/ pc[r] \notin {"commit", "failed"}
         \/ ledger' = Append(ledger, [by |-> r, case |-> target[r], rows |-> rows[r]])
            /\ pc[r] # "failed"
  PROVE  CreatorAccounts(r)'
<1>1. CASE \E i \in DOMAIN ledger : ledger[i].by = r /\ ExecutedIn(i) # {}
  <2>1. PICK i \in DOMAIN ledger : ledger[i].by = r /\ ExecutedIn(i) # {}
    BY <1>1
  <2>2. CASE ledger' = ledger
    BY <2>1, <2>2 DEF CreatorAccounts, ExecutedIn
  <2>3. ASSUME NEW t, ledger' = Append(ledger, t)
        PROVE  CreatorAccounts(r)'
    <3>1. /\ i \in DOMAIN ledger'
          /\ ledger'[i] = ledger[i]
          /\ ExecutedIn(i)' = ExecutedIn(i)
      BY <2>3, AppendedLedger
    <3> QED BY <2>1, <3>1 DEF CreatorAccounts
  <2> QED BY <2>2, <2>3
<1>2. CASE pc'[r] = pc[r] /\ rows'[r] = rows[r] /\ pc[r] \in {"commit", "failed"}
  BY <1>1, <1>2 DEF CreatorAccounts
<1>3. CASE pc'[r] = "failed"
  BY <1>3 DEF CreatorAccounts
<1>4. CASE /\ ledger' = Append(ledger, [by |-> r, case |-> target[r], rows |-> rows[r]])
           /\ pc[r] = "commit" /\ HasAction(rows[r])
  <2>1. PICK n \in DOMAIN ledger' : ledger'[n].by = r /\ ledger'[n].rows = rows[r]
    BY <1>4, AppendedLedger
  <2>2. PICK x \in rows[r] : x.kind = "action"
    BY <1>4 DEF HasAction
  <2>3. x.action_fingerprint \in ExecutedIn(n)' /\ ledger'[n].by = r
    BY <2>1, <2>2 DEF ExecutedIn
  <2> QED BY <2>1, <2>3 DEF CreatorAccounts
<1> QED BY <1>1, <1>2, <1>3, <1>4 DEF CreatorAccounts

\* A step that creates no link.
LEMMA AccountedStep ==
  ASSUME TypeOK, Accounted,
         \A l \in Links : links'[l].case = links[l].case /\ links'[l].by = links[l].by,
         \A r \in Requests : CreatorAccounts(r) => CreatorAccounts(r)'
  PROVE  Accounted'
BY DEF Accounted

LEMMA AccountedQuiet ==
  ASSUME Typed, Accounted, NEW r \in Requests,
         \/ LoadCase(r) \/ IngestNew(r) \/ SkipStopped(r) \/ OptOut(r)
         \/ ReadFingerprints(r) \/ GateAndRecord(r) \/ ExecuteStub(r)
         \/ LockTimeout(r)
  PROVE  Accounted'
<1> USE DEF Typed
<1>1. /\ pc[r] \notin {"commit", "failed"}
      /\ ledger' = ledger /\ links' = links
      /\ \A s \in Requests \ {r} : pc'[s] = pc[s] /\ rows'[s] = rows[s]
  BY DEF TypeOK, LoadCase, IngestNew, SkipStopped, OptOut, ReadFingerprints,
         GateAndRecord, ExecuteStub, LockTimeout, CloseSession, dbVars, providerVars
<1>2. \A s \in Requests : CreatorAccounts(s) => CreatorAccounts(s)'
  BY <1>1, AccountsKept
<1> QED BY <1>1, <1>2, AccountedStep

LEMMA AccountedExecute ==
  ASSUME Typed, Accounted, NEW r \in Requests, Execute(r)
  PROVE  Accounted'
<1> USE DEF Typed
<1>1. PICK o \in Results(body[r]), l \in Links :
        RunAdapter(r, o, l) /\ (o.effect # "none" => links[l].case = None)
  BY DEF Execute
<1>2. /\ pc[r] = "execute" /\ pc'[r] = "commit" /\ ledger' = ledger
      /\ \A s \in Requests \ {r} : pc'[s] = pc[s] /\ rows'[s] = rows[s]
  BY <1>1 DEF Execute, RunAdapter, TypeOK, dbVars
<1>3. \E x \in rows'[r] : x.kind = "action"
  <2>1. ActionRow(Fingerprint(target[r], body[r].action)) \in rows'[r]
    BY <1>1 DEF RunAdapter, AdapterRows, TypeOK
  <2>2. ActionRow(Fingerprint(target[r], body[r].action)).kind = "action"
    BY DEF ActionRow
  <2> QED BY <2>1, <2>2
<1>4. CreatorAccounts(r)'
  BY <1>2, <1>3 DEF CreatorAccounts, HasAction
<1>5. \A s \in Requests : CreatorAccounts(s) => CreatorAccounts(s)'
  BY <1>2, <1>4, AccountsKept
<1>6. \A k \in Links : links'[k] = links[k] \/ links'[k].by = r
  BY <1>1 DEF RunAdapter, TypeOK
<1> QED BY <1>4, <1>5, <1>6 DEF Accounted

LEMMA AccountedCommit ==
  ASSUME Typed, Accounted, NEW r \in Requests, Commit(r)
  PROVE  Accounted'
<1> USE DEF Typed
<1>1. /\ pc[r] = "commit" /\ links' = links
      /\ ledger' = Append(ledger, [by |-> r, case |-> target[r], rows |-> rows[r]])
      /\ \A s \in Requests \ {r} : pc'[s] = pc[s] /\ rows'[s] = rows[s]
  BY DEF Commit, CloseSession, TypeOK, providerVars
<1>2. \A s \in Requests : CreatorAccounts(s) => CreatorAccounts(s)'
  BY <1>1, AccountsKept
<1> QED BY <1>1, <1>2, AccountedStep

LEMMA AccountedElsewhere ==
  ASSUME Typed, Accounted,
         \/ \E w \in Workers, e \in Events : Deliver(w, e)
         \/ \E w \in Workers : Record(w) \/ Reply(w) \/ LoseReply(w)
         \/ \E l \in Links : PayLink(l)
         \/ UNCHANGED vars
  PROVE  Accounted'
<1> USE DEF Typed
<1>1. pc' = pc /\ rows' = rows
  BY DEF Deliver, DeliverDuplicate, DeliverFailed, DeliverPaid, Record, IntegrityError,
         RecordFailed, RecordPaid, HookTimeout, Reply, LoseReply, PayLink, vars, requestVars
<1>2. ledger' = ledger \/ \E t : ledger' = Append(ledger, t)
  BY DEF Deliver, DeliverDuplicate, DeliverFailed, DeliverPaid, Record, IntegrityError,
         RecordFailed, RecordPaid, HookTimeout, Reply, LoseReply, PayLink, vars, dbVars
<1>3. links' = links \/ \E l \in Links : links' = [links EXCEPT ![l].paid = TRUE]
  BY DEF Deliver, DeliverDuplicate, DeliverFailed, DeliverPaid, Record, IntegrityError,
         RecordFailed, RecordPaid, HookTimeout, Reply, LoseReply, PayLink, vars,
         providerVars
<1>a. \A l \in Links : links'[l].case = links[l].case /\ links'[l].by = links[l].by
  <2>1. links \in [Links -> [case : Option(Cases), by : Option(Requests), paid : BOOLEAN]]
    BY DEF TypeOK
  <2> QED BY <1>3, <2>1
<1>4. \A s \in Requests : CreatorAccounts(s) => CreatorAccounts(s)'
  BY <1>1, <1>2, AccountsKept
<1> QED BY <1>a, <1>4, AccountedStep

LEMMA AccountedRestart ==
  ASSUME Typed, Accounted, Restart
  PROVE  Accounted'
<1> USE DEF Typed
<1>1. ledger' = ledger /\ links' = links
  BY DEF Restart, providerVars
<1>2. ASSUME NEW s \in Requests
      PROVE  pc'[s] = "failed" \/ (pc'[s] = pc[s] /\ rows'[s] = rows[s])
  <2>1. CASE pc[s] \in InFlight
    BY <2>1 DEF Restart, TypeOK
  <2>2. CASE pc[s] \notin InFlight
    BY <2>2 DEF Restart, TypeOK
  <2> QED BY <2>1, <2>2
<1>3. \A s \in Requests : CreatorAccounts(s) => CreatorAccounts(s)'
  BY <1>1, <1>2, AccountsKept
<1> QED BY <1>1, <1>3, AccountedStep

LEMMA AccountedNext ==
  ASSUME Typed, Accounted, [Next]_vars
  PROVE  Accounted'
BY AccountedQuiet, AccountedExecute, AccountedCommit, AccountedElsewhere, AccountedRestart
   DEF Next, RequestStep

\* Whatever interleaves and crashes, a link at the provider has on the ledger the
\* action row of the request that created it (execute_with_guards), unless that
\* request has still to commit, or died.
THEOREM LinksAreAccountedFor == Spec => []LinksAccountedFor
<1>1. Init => Accounted
  BY DEF Init, Accounted
<1>2. Typed /\ Accounted /\ [Next]_vars => Accounted'
  BY AccountedNext
<1> QED
  BY <1>1, <1>2, AccountedIsAccountedFor, TypedInvariant, PTL DEF Spec

-----------------------------------------------------------------------------
(***************************************************************************)
(* Links of one action.  Who holds the lock is alone in having executed    *)
(* and not committed; every link has a creator of its own, on whose case   *)
(* it is; and what a request committed is the action of its body.          *)
(***************************************************************************)
Holding == \A r \in Requests : pc[r] \in {"execute", "commit"} => lock = r

Created(l) == links[l].case # None

CreatorsOK ==
  /\ \A l \in Links : Created(l) =>
       /\ links[l].by \in Requests
       /\ links[l].case = target[links[l].by]
       /\ pc[links[l].by] \in {"commit", "done", "failed"}
  /\ \A k, l \in Links : k # l /\ Created(k) /\ Created(l) => links[k].by # links[l].by

OwnAction(r) == Fingerprint(target[r], body[r].action)

CommittedOwn ==
  \A i \in DOMAIN ledger : ledger[i].by \in Requests =>
    ExecutedIn(i) \subseteq {OwnAction(ledger[i].by)}

Linked == Holding /\ CreatorsOK /\ CommittedOwn

LEMMA LinkedInit == Init => Linked
BY DEF Init, Linked, Holding, CreatorsOK, Created, CommittedOwn

\* Requests that are over keep what they were for, and links stay as they are.
LEMMA CreatorsKept ==
  ASSUME CreatorsOK,
         \A l \in Links : links'[l].case = links[l].case /\ links'[l].by = links[l].by,
         \A s \in Requests : pc[s] \in {"commit", "done", "failed"} =>
           target'[s] = target[s] /\ pc'[s] \in {"commit", "done", "failed"}
  PROVE  CreatorsOK'
BY DEF CreatorsOK, Created

LEMMA CommittedOwnKept ==
  ASSUME CommittedOwn, CommittedOK, UNCHANGED ledger,
         \A s \in Requests : pc[s] = "done" => target'[s] = target[s] /\ body'[s] = body[s]
  PROVE  CommittedOwn'
BY DEF CommittedOwn, CommittedOK, OwnAction, ExecutedIn

LEMMA LinkedQuiet ==
  ASSUME Typed, Idempotent, Linked, NEW r \in Requests,
         \/ LoadCase(r) \/ IngestNew(r) \/ SkipStopped(r) \/ OptOut(r)
         \/ ReadFingerprints(r) \/ GateAndRecord(r) \/ ExecuteStub(r)
         \/ LockTimeout(r)
  PROVE  Linked'
<1> USE DEF Typed
<1>1. /\ pc[r] \notin {"commit", "done", "failed"}
      /\ ledger' = ledger /\ links' = links
      /\ \A s \in Requests \ {r} :
           pc'[s] = pc[s] /\ target'[s] = target[s] /\ body'[s] = body[s]
  BY DEF TypeOK, LoadCase, IngestNew, SkipStopped, OptOut, ReadFingerprints,
         GateAndRecord, ExecuteStub, LockTimeout, CloseSession, dbVars, providerVars
<1>2. CreatorsOK'
  BY <1>1, CreatorsKept DEF Linked
<1>3. CommittedOwn'
  BY <1>1, CommittedOwnKept DEF Linked, Idempotent
<1>4. Holding'
  <2>1. CASE LoadCase(r) \/ SkipStopped(r) \/ ReadFingerprints(r) \/ LockTimeout(r)
    BY <1>1, <2>1 DEF TypeOK, LoadCase, SkipStopped, ReadFingerprints, LockTimeout,
       CloseSession, dbVars, Linked, Holding
  <2>2. CASE IngestNew(r) \/ OptOut(r) \/ GateAndRecord(r)
    <3>1. lock \in {None, r} /\ lock' = r
      BY <2>2 DEF IngestNew, OptOut, GateAndRecord, MayWrite
    <3>2. None \notin Requests
      BY IdsDistinct DEF Actors
    <3> QED BY <1>1, <3>1, <3>2 DEF Linked, Holding
  <2>3. CASE ExecuteStub(r)
    BY <1>1, <2>3 DEF ExecuteStub, dbVars, Linked, Holding
  <2> QED BY <2>1, <2>2, <2>3
<1> QED BY <1>2, <1>3, <1>4 DEF Linked

LEMMA LinkedExecute ==
  ASSUME Typed, Idempotent, Linked, NEW r \in Requests, Execute(r)
  PROVE  Linked'
<1> USE DEF Typed
<1>1. PICK o \in Results(body[r]), l \in Links :
        RunAdapter(r, o, l) /\ (o.effect # "none" => links[l].case = None)
  BY DEF Execute
<1>2. /\ pc[r] = "execute" /\ pc'[r] = "commit"
      /\ \A s \in Requests \ {r} : pc'[s] = pc[s]
      /\ UNCHANGED <<target, body, ledger, lock>>
  BY DEF Execute, TypeOK, dbVars
<1>3. Holding'
  BY <1>2 DEF Linked, Holding
<1>4. CommittedOwn'
  BY <1>2, CommittedOwnKept DEF Linked, Idempotent
<1>5. CreatorsOK'
  <2>1. CASE links' = links
    BY <1>2, <2>1, CreatorsKept DEF Linked
  <2>2. CASE /\ links' = [links EXCEPT ![l] = [case |-> target[r], by |-> r, paid |-> FALSE]]
             /\ ~Created(l)
    <3>1. /\ links'[l].case = target[r] /\ links'[l].by = r
          /\ \A k \in Links \ {l} : links'[k] = links[k]
      BY <2>2 DEF TypeOK
    <3>2. \A k \in Links : Created(k) => links[k].by # r
      BY <1>2 DEF Linked, CreatorsOK
    <3>3. \A k \in Links : Created(k)' /\ k # l => Created(k)
      BY <3>1 DEF Created
    <3>4. ASSUME NEW k \in Links, Created(k)'
          PROVE  /\ links'[k].by \in Requests
                 /\ links'[k].case = target'[links'[k].by]
                 /\ pc'[links'[k].by] \in {"commit", "done", "failed"}
      <4>1. CASE k = l
        BY <1>2, <3>1, <4>1
      <4>2. CASE k # l
        <5>1. Created(k) /\ links'[k] = links[k] /\ links[k].by # r
          BY <3>1, <3>2, <3>3, <3>4, <4>2
        <5>2. /\ links[k].by \in Requests
              /\ links[k].case = target[links[k].by]
              /\ pc[links[k].by] \in {"commit", "done", "failed"}
          BY <5>1 DEF Linked, CreatorsOK
        <5> QED BY <1>2, <5>1, <5>2
      <4> QED BY <4>1, <4>2
    <3>5. ASSUME NEW k \in Links, NEW m \in Links, k # m, Created(k)', Created(m)'
          PROVE  links'[k].by # links'[m].by
      <4>1. CASE k = l
        BY <3>1, <3>2, <3>3, <3>5, <4>1
      <4>2. CASE m = l
        BY <3>1, <3>2, <3>3, <3>5, <4>2
      <4>3. CASE k # l /\ m # l
        BY <3>1, <3>3, <3>5, <4>3 DEF Linked, CreatorsOK
      <4> QED BY <4>1, <4>2, <4>3
    <3> QED BY <3>4, <3>5 DEF CreatorsOK
  <2> QED BY <1>1, <2>1, <2>2 DEF RunAdapter, Created
<1> QED BY <1>3, <1>4, <1>5 DEF Linked

LEMMA LinkedCommit ==
  ASSUME Typed, Idempotent, Linked, NEW r \in Requests, Commit(r)
  PROVE  Linked'
<1> USE DEF Typed
<1>1. /\ pc[r] = "commit" /\ pc'[r] = "done" /\ links' = links /\ lock' = None
      /\ UNCHANGED <<target, body>>
      /\ ledger' = Append(ledger, [by |-> r, case |-> target[r], rows |-> rows[r]])
      /\ \A s \in Requests \ {r} : pc'[s] = pc[s]
  BY DEF Commit, CloseSession, TypeOK, providerVars
<1>2. Holding'
  BY <1>1 DEF Linked, Holding
<1>3. CreatorsOK'
  BY <1>1, CreatorsKept DEF Linked
<1>4. CommittedOwn'
  <2> SUFFICES ASSUME NEW i \in DOMAIN ledger', ledger'[i].by \in Requests
               PROVE  ExecutedIn(i)' \subseteq {OwnAction(ledger[i].by)'}
    BY DEF CommittedOwn
  <2>1. CASE i \in DOMAIN ledger
    <3>1. ledger'[i] = ledger[i] /\ ExecutedIn(i)' = ExecutedIn(i)
      BY <1>1, <2>1, AppendedLedger
    <3> QED BY <1>1, <2>1, <3>1 DEF Linked, CommittedOwn, OwnAction
  <2>2. CASE i = Len(ledger) + 1
    <3>1. ledger'[i].by = r /\ ledger'[i].rows = rows[r]
      BY <1>1, <2>2, AppendedLedger
    <3>2. \A x \in rows[r] : x.kind = "action" => x.action_fingerprint = OwnAction(r)
      BY DEF Idempotent, KnowledgeOK, OwnAction
    <3>3. ExecutedIn(i)' = {x.action_fingerprint : x \in {y \in rows[r] : y.kind = "action"}}
      BY <3>1 DEF ExecutedIn
    <3>4. ExecutedIn(i)' \subseteq {OwnAction(r)}
      BY <3>2, <3>3
    <3> QED BY <1>1, <3>1, <3>4 DEF OwnAction
  <2> QED BY <1>1, <2>1, <2>2, AppendedLedger
<1> QED BY <1>2, <1>3, <1>4 DEF Linked

LEMMA LinkedElsewhere ==
  ASSUME Typed, Idempotent, Linked,
         \/ \E w \in Workers, e \in Events : Deliver(w, e)
         \/ \E w \in Workers : Record(w) \/ Reply(w) \/ LoseReply(w)
         \/ \E l \in Links : PayLink(l)
         \/ UNCHANGED vars
  PROVE  Linked'
<1> USE DEF Typed
<1>1. UNCHANGED <<pc, body, target, lock>>
  BY DEF Deliver, DeliverDuplicate, DeliverFailed, DeliverPaid, Record, IntegrityError,
         RecordFailed, RecordPaid, HookTimeout, Reply, LoseReply, PayLink, vars, dbVars,
         requestVars
<1>2. ledger' = ledger \/ \E t : t.by \in Workers /\ ledger' = Append(ledger, t)
  BY DEF Deliver, DeliverDuplicate, DeliverFailed, DeliverPaid, Record, IntegrityError,
         RecordFailed, RecordPaid, HookTimeout, Reply, LoseReply, PayLink, vars, dbVars
<1>3. links' = links \/ \E l \in Links : links' = [links EXCEPT ![l].paid = TRUE]
  BY DEF Deliver, DeliverDuplicate, DeliverFailed, DeliverPaid, Record, IntegrityError,
         RecordFailed, RecordPaid, HookTimeout, Reply, LoseReply, PayLink, vars,
         providerVars
<1>4. \A l \in Links : links'[l].case = links[l].case /\ links'[l].by = links[l].by
  <2>1. links \in [Links -> [case : Option(Cases), by : Option(Requests), paid : BOOLEAN]]
    BY DEF TypeOK
  <2> QED BY <1>3, <2>1
<1>5. CreatorsOK'
  BY <1>1, <1>4, CreatorsKept DEF Linked
<1>6. Holding'
  BY <1>1 DEF Linked, Holding
<1>7. CommittedOwn'
  <2>1. CASE ledger' = ledger
    BY <1>1, <2>1, CommittedOwnKept DEF Linked, Idempotent
  <2>2. ASSUME NEW t, t.by \in Workers, ledger' = Append(ledger, t)
        PROVE  CommittedOwn'
    <3>1. t.by \notin Requests
      BY <2>2, IdsDistinct
    <3>2. \A s \in Requests : OwnAction(s)' = OwnAction(s)
      BY <1>1 DEF OwnAction
    <3> QED BY <2>2, <3>1, <3>2, AppendedLedger DEF Linked, CommittedOwn
  <2> QED BY <1>2, <2>1, <2>2
<1> QED BY <1>5, <1>6, <1>7 DEF Linked

LEMMA LinkedRestart ==
  ASSUME Typed, Idempotent, Linked, Restart
  PROVE  Linked'
<1> USE DEF Typed
<1>1. UNCHANGED <<body, target, ledger, links>>
  BY DEF Restart, providerVars
<1>2. \A s \in Requests : pc'[s] = IF pc[s] \in InFlight THEN "failed" ELSE pc[s]
  BY DEF Restart, TypeOK
<1>3. Holding'
  BY <1>2 DEF Holding, InFlight
<1>4. CreatorsOK'
  BY <1>1, <1>2, CreatorsKept DEF Linked
<1>5. CommittedOwn'
  BY <1>1, CommittedOwnKept DEF Linked, Idempotent
<1> QED BY <1>3, <1>4, <1>5 DEF Linked

LEMMA LinkedNext ==
  ASSUME Typed, Idempotent, Linked, [Next]_vars
  PROVE  Linked'
BY LinkedQuiet, LinkedExecute, LinkedCommit, LinkedElsewhere, LinkedRestart
   DEF Next, RequestStep

\* Of two committed executions of one action, the later was read for too early; and
\* one that is about to commit was read for before the other committed.
LEMMA CommittedTwice ==
  ASSUME Typed, Idempotent, Linked, NEW q \in Requests, NEW r \in Requests,
         OwnAction(q) = OwnAction(r), NEW i \in DOMAIN ledger, NEW j \in DOMAIN ledger,
         ledger[i].by = q, ExecutedIn(i) # {}, ledger[j].by = r, ExecutedIn(j) # {}, i < j
  PROVE  MissedExecution(r, q)
<1>1. ExecutedIn(i) = {OwnAction(q)} /\ ExecutedIn(j) = {OwnAction(r)}
  BY DEF Linked, CommittedOwn
<1>2. readAt[r] < i
  BY <1>1 DEF Idempotent, DurableIdempotency
<1> QED BY <1>2 DEF MissedExecution

LEMMA AboutToCommitTwice ==
  ASSUME Typed, Idempotent, Linked, NEW q \in Requests, NEW r \in Requests,
         OwnAction(q) = OwnAction(r), target[q] = target[r],
         NEW i \in DOMAIN ledger, ledger[i].by = q, ExecutedIn(i) # {},
         HasAction(rows[r])
  PROVE  MissedExecution(r, q)
<1>1. ExecutedIn(i) = {OwnAction(q)}
  BY DEF Linked, CommittedOwn
<1>2. ledger[i].case = target[r]
  BY <1>1 DEF Idempotent, CommittedOK, OwnAction, Fingerprint
<1>3. SeenAll(r) /\ IsNew(r)
  BY DEF HasAction, Idempotent, KnowledgeOK
<1>4. ~(i <= readAt[r])
  BY <1>1, <1>2, <1>3 DEF SeenAll, IsNew, OwnAction
<1>5. i \in Nat /\ readAt[r] \in Nat
  BY DEF Typed, TypeOK
<1> QED BY <1>4, <1>5 DEF MissedExecution

LEMMA LinkedExplains ==
  ASSUME Typed, Idempotent, Accounted, Linked
  PROVE  SecondLinkExplained
<1> SUFFICES ASSUME NEW k \in Links, NEW l \in Links, SameAction(k, l),
                    pc[links[k].by] # "failed", pc[links[l].by] # "failed"
             PROVE  \/ MissedExecution(links[l].by, links[k].by)
                    \/ MissedExecution(links[k].by, links[l].by)
  BY DEF SecondLinkExplained
<1> DEFINE q == links[k].by
           r == links[l].by
<1>1. /\ q \in Requests /\ r \in Requests /\ q # r
      /\ target[q] = target[r] /\ OwnAction(q) = OwnAction(r)
  BY DEF SameAction, Linked, CreatorsOK, Created, OwnAction
<1>2. CreatorAccounts(q) /\ CreatorAccounts(r)
  BY DEF SameAction, Accounted
<1>3. ~(pc[q] = "commit" /\ pc[r] = "commit")
  BY <1>1 DEF Linked, Holding
<1>4. CASE pc[r] = "commit" /\ HasAction(rows[r])
  <2>1. PICK i \in DOMAIN ledger : ledger[i].by = q /\ ExecutedIn(i) # {}
    BY <1>2, <1>3, <1>4 DEF CreatorAccounts
  <2> QED BY <1>1, <1>4, <2>1, AboutToCommitTwice
<1>5. CASE pc[q] = "commit" /\ HasAction(rows[q])
  <2>1. PICK j \in DOMAIN ledger : ledger[j].by = r /\ ExecutedIn(j) # {}
    BY <1>2, <1>3, <1>5 DEF CreatorAccounts
  <2> QED BY <1>1, <1>5, <2>1, AboutToCommitTwice
<1>6. CASE /\ \E i \in DOMAIN ledger : ledger[i].by = q /\ ExecutedIn(i) # {}
           /\ \E j \in DOMAIN ledger : ledger[j].by = r /\ ExecutedIn(j) # {}
  <2>1. PICK i \in DOMAIN ledger : ledger[i].by = q /\ ExecutedIn(i) # {}
    BY <1>6
  <2>2. PICK j \in DOMAIN ledger : ledger[j].by = r /\ ExecutedIn(j) # {}
    BY <1>6
  <2>3. i \in Nat /\ j \in Nat /\ i # j
    BY <1>1, <2>1, <2>2 DEF Typed, TypeOK
  <2>4. i < j \/ j < i
    BY <2>3
  <2> QED BY <1>1, <2>1, <2>2, <2>4, CommittedTwice
<1> QED BY <1>2, <1>4, <1>5, <1>6 DEF CreatorAccounts

\* Whatever races and crashes, a payer is sent a second link of the same action only
\* by requests that overlapped between the reading of the fingerprints and the
\* commit (pipeline.py:114), or after a request that died before its commit: a call
\* that failed, or whose answer was lost, is on the ledger and is not repeated.
THEOREM SecondLinksAreExplained == Spec => []SecondLinkExplained
<1>1. Init => Idempotent /\ Accounted /\ Linked
  BY IdempotentInit, LinkedInit DEF Init, Accounted
<1>2. Typed /\ (Idempotent /\ Accounted /\ Linked) /\ [Next]_vars
        => (Idempotent /\ Accounted /\ Linked)'
  BY IdempotentNext, AccountedNext, LinkedNext
<1>3. Typed /\ (Idempotent /\ Accounted /\ Linked) => SecondLinkExplained
  BY LinkedExplains
<1> QED
  BY <1>1, <1>2, <1>3, TypedInvariant, PTL DEF Spec

-----------------------------------------------------------------------------
(***************************************************************************)
(* Counters.  A session's counter is one the table had, plus one for the   *)
(* run among its own rows; a flush stores that or leaves the table's.      *)
(***************************************************************************)
Retry == {"schedule_retry"}

Ran(c, verbs) == Cardinality(UnrecoveredRuns(c, verbs))

\* Rows that say a verb was carried out and did not recover the case.
IsRun(rs, verbs) ==
  /\ \E x \in rs : x.kind = "action" /\ x.action_fingerprint.verb \in verbs
  /\ \E x \in rs : x.kind = "outcome" /\ ~x.recovered

Pending(r, verbs) == IF IsRun(rows[r], verbs) THEN 1 ELSE 0

SessionCounts(r) ==
  /\ pc[r] \in InFlight =>
       /\ row[r].attempts_used <= Ran(target[r], Retry) + Pending(r, Retry)
       /\ row[r].contacts_used <= Ran(target[r], LinkVerbs) + Pending(r, LinkVerbs)
  /\ pc[r] # "commit" => \A x \in rows[r] : x.kind # "outcome"

Counted == CountersNeverOvercount /\ \A r \in Requests : SessionCounts(r)

\* Runs are counted: their number is finite.
LEMMA RanType ==
  ASSUME TypeOK, NEW c, NEW verbs
  PROVE  IsFiniteSet(UnrecoveredRuns(c, verbs)) /\ Ran(c, verbs) \in Nat
<1>1. Len(ledger) \in Nat /\ UnrecoveredRuns(c, verbs) \subseteq 1 .. Len(ledger)
  BY DEF TypeOK, UnrecoveredRuns
<1>2. IsFiniteSet(1 .. Len(ledger))
  BY <1>1, FS_Interval
<1>3. IsFiniteSet(UnrecoveredRuns(c, verbs))
  BY <1>1, <1>2, FS_Subset
<1> QED BY <1>3, FS_CardinalityType DEF Ran

\* A commit adds its own run, and only that.
LEMMA RanGrows ==
  ASSUME TypeOK, NEW t, ledger' = Append(ledger, t), NEW c, NEW verbs
  PROVE  /\ Ran(c, verbs) \in Nat /\ Ran(c, verbs)' \in Nat
         /\ Ran(c, verbs) <= Ran(c, verbs)'
         /\ t.case = c /\ IsRun(t.rows, verbs) => Ran(c, verbs)' = Ran(c, verbs) + 1
         /\ ~(t.case = c /\ IsRun(t.rows, verbs)) => Ran(c, verbs)' = Ran(c, verbs)
<1>1. PICK n : /\ n \notin DOMAIN ledger
               /\ DOMAIN ledger' = DOMAIN ledger \cup {n}
               /\ ledger'[n] = t
               /\ \A i \in DOMAIN ledger : ledger'[i] = ledger[i]
                                           /\ ExecutedIn(i)' = ExecutedIn(i)
  <2>1. Len(ledger) \in Nat /\ Len(ledger) + 1 \notin DOMAIN ledger
    BY DEF TypeOK
  <2> QED BY <2>1, AppendedLedger
<1>2. PICK old, new : old = UnrecoveredRuns(c, verbs) /\ new = UnrecoveredRuns(c, verbs)'
  OBVIOUS
<1>3. n \notin old /\ new \in {old, old \cup {n}}
  BY <1>1, <1>2 DEF UnrecoveredRuns
<1>4. t.case = c /\ IsRun(t.rows, verbs) => new = old \cup {n}
  <2> SUFFICES ASSUME t.case = c, IsRun(t.rows, verbs)
               PROVE  new = old \cup {n}
    OBVIOUS
  <2>1. PICK x \in t.rows : x.kind = "action" /\ x.action_fingerprint.verb \in verbs
    BY DEF IsRun
  <2>2. x.action_fingerprint \in ExecutedIn(n)'
    BY <1>1, <2>1 DEF ExecutedIn
  <2>3. n \in new
    BY <1>1, <1>2, <2>1, <2>2 DEF UnrecoveredRuns, IsRun
  <2> QED BY <1>3, <2>3
<1>10. ~(t.case = c /\ IsRun(t.rows, verbs)) => new = old
  <2> SUFFICES ASSUME n \in new
               PROVE  t.case = c /\ IsRun(t.rows, verbs)
    BY <1>3
  <2>1. /\ t.case = c
        /\ \E fp \in ExecutedIn(n)' : fp.verb \in verbs
        /\ \E x \in t.rows : x.kind = "outcome" /\ ~x.recovered
    BY <1>1, <1>2 DEF UnrecoveredRuns
  <2>2. ExecutedIn(n)' = {a.action_fingerprint : a \in {x \in t.rows : x.kind = "action"}}
    BY <1>1 DEF ExecutedIn
  <2> QED BY <2>1, <2>2 DEF IsRun
<1>5. IsFiniteSet(old) /\ Cardinality(old) \in Nat
  BY <1>2, RanType DEF Ran
<1>6. Cardinality(old \cup {n}) = Cardinality(old) + 1
  BY <1>3, <1>5, FS_AddElement
<1>7. Ran(c, verbs) = Cardinality(old) /\ Ran(c, verbs)' = Cardinality(new)
  BY <1>2 DEF Ran
<1>8. CASE new = old
  <2>1. ~(t.case = c /\ IsRun(t.rows, verbs))
    BY <1>3, <1>4, <1>8
  <2> QED BY <1>5, <1>7, <1>8, <2>1
<1>9. CASE new = old \cup {n}
  <2>1. t.case = c /\ IsRun(t.rows, verbs)
    BY <1>3, <1>9, <1>10
  <2> QED BY <1>5, <1>6, <1>7, <1>9, <2>1
<1> QED BY <1>3, <1>8, <1>9

LEMMA RanSame ==
  ASSUME ledger' = ledger, NEW c, NEW verbs
  PROVE  Ran(c, verbs)' = Ran(c, verbs)
BY DEF Ran, UnrecoveredRuns, ExecutedIn

\* A request that is left alone.
SparesCounts(s) ==
  /\ pc'[s] = pc[s]
  /\ target'[s] = target[s]
  /\ row'[s] = row[s]
  /\ rows'[s] = rows[s]

\* Nothing is ever taken off the ledger.
LEMMA RanKept ==
  ASSUME TypeOK, ledger' = ledger \/ \E t : ledger' = Append(ledger, t),
         NEW c, NEW verbs
  PROVE  /\ Ran(c, verbs) \in Nat /\ Ran(c, verbs)' \in Nat
         /\ Ran(c, verbs) <= Ran(c, verbs)'
<1>1. CASE ledger' = ledger
  BY <1>1, RanType, RanSame
<1>2. ASSUME NEW t, ledger' = Append(ledger, t)
      PROVE  /\ Ran(c, verbs) \in Nat /\ Ran(c, verbs)' \in Nat
             /\ Ran(c, verbs) <= Ran(c, verbs)'
  BY <1>2, RanGrows
<1> QED BY <1>1, <1>2

LEMMA SparedCounts ==
  ASSUME Typed, NEW s \in Requests, SessionCounts(s), SparesCounts(s),
         ledger' = ledger \/ \E t : ledger' = Append(ledger, t)
  PROVE  SessionCounts(s)'
<1>1. \A c, verbs : Ran(c, verbs) \in Nat /\ Ran(c, verbs)' \in Nat
                    /\ Ran(c, verbs) <= Ran(c, verbs)'
  BY RanKept DEF Typed
<1>2. pc[s] \in InFlight => row[s].attempts_used \in Nat /\ row[s].contacts_used \in Nat
  BY DEF Typed, SessionOK, CaseRow
<1>3. \A verbs : Pending(s, verbs)' = Pending(s, verbs) /\ Pending(s, verbs) \in {0, 1}
  BY DEF Pending, SparesCounts, IsRun
<1> QED
  BY <1>1, <1>2, <1>3 DEF SessionCounts, SparesCounts

\* A step that commits nothing, of a request whose counts stay right.
LEMMA QuietCounts ==
  ASSUME Typed, Counted, NEW r \in Requests,
         ledger' = ledger, cases' = cases,
         \A s \in Requests \ {r} : SparesCounts(s),
         SessionCounts(r)'
  PROVE  Counted'
<1>1. \A s \in Requests : SessionCounts(s)'
  BY SparedCounts DEF Counted
<1>2. CountersNeverOvercount'
  BY DEF Counted, CountersNeverOvercount, UnrecoveredRuns, ExecutedIn
<1> QED BY <1>1, <1>2 DEF Counted

LEMMA CountedQuiet ==
  ASSUME Typed, Counted, NEW r \in Requests,
         \/ LoadCase(r) \/ IngestNew(r) \/ SkipStopped(r) \/ OptOut(r)
         \/ ReadFingerprints(r) \/ GateAndRecord(r) \/ Execute(r) \/ ExecuteStub(r)
         \/ LockTimeout(r)
  PROVE  Counted'
<1> USE DEF Typed
<1>0. ledger' = ledger /\ cases' = cases
  BY DEF LoadCase, IngestNew, SkipStopped, OptOut, ReadFingerprints,
         GateAndRecord, Execute, ExecuteStub, LockTimeout, dbVars
<1>1. \A s \in Requests \ {r} : SparesCounts(s)
  <2>1. CASE Execute(r)
    BY <2>1 DEF TypeOK, Execute, RunAdapter, SparesCounts
  <2>2. CASE \/ LoadCase(r) \/ IngestNew(r) \/ OptOut(r) \/ ReadFingerprints(r)
            \/ GateAndRecord(r) \/ ExecuteStub(r)
    BY <2>2 DEF TypeOK, LoadCase, IngestNew, OptOut, ReadFingerprints,
                GateAndRecord, ExecuteStub, SparesCounts
  <2>3. CASE SkipStopped(r) \/ LockTimeout(r)
    BY <2>3 DEF TypeOK, SkipStopped, LockTimeout, CloseSession, SparesCounts
  <2> QED BY <2>1, <2>2, <2>3
<1> SUFFICES SessionCounts(r)'
  BY <1>0, <1>1, QuietCounts
<1>2. \A c, verbs : Ran(c, verbs) \in Nat /\ Ran(c, verbs)' = Ran(c, verbs)
  BY <1>0, RanType, RanSame
<1>3. \A verbs : Pending(r, verbs) \in {0, 1} /\ Pending(r, verbs)' \in {0, 1}
  BY DEF Pending
<1>4. SessionCounts(r)
  BY DEF Counted
<1>5. pc[r] # "commit" => \A verbs : Pending(r, verbs) = 0
  BY <1>4 DEF SessionCounts, Pending, IsRun
<1>6. CASE LoadCase(r)
  <2>1. PICK q \in RequestSpace :
          /\ q.case \in Cases /\ cases[q.case] # None
          /\ target'[r] = q.case
          /\ row'[r] = cases[q.case]
          /\ pc'[r] = "loaded"
          /\ rows' = rows
    BY <1>6 DEF LoadCase, TypeOK
  <2>2. /\ cases[q.case].attempts_used <= Ran(q.case, Retry)
        /\ cases[q.case].contacts_used <= Ran(q.case, LinkVerbs)
        /\ cases[q.case].attempts_used \in Nat
        /\ cases[q.case].contacts_used \in Nat
    BY <2>1 DEF Counted, CountersNeverOvercount, Ran, Retry, TypeOK, Option, CaseRow
  <2>3. pc[r] # "commit"
    BY <1>6 DEF LoadCase
  <2> QED BY <1>2, <1>3, <1>4, <2>1, <2>2, <2>3 DEF SessionCounts
<1>7. CASE IngestNew(r)
  <2>1. /\ row'[r] = FreshCase("absent")
        /\ pc'[r] = "loaded"
        /\ rows'[r] = {EventRow("simulator")}
    BY <1>7 DEF IngestNew, TypeOK
  <2> QED BY <1>2, <1>3, <2>1 DEF SessionCounts, FreshCase, EventRow
<1>8. CASE SkipStopped(r) \/ LockTimeout(r)
  <2>1. pc'[r] \in {"done", "failed"} /\ rows'[r] = {}
    BY <1>8 DEF SkipStopped, LockTimeout, CloseSession, TypeOK
  <2> QED BY <2>1 DEF SessionCounts, InFlight
\* The row changes in its status at most, and no outcome is written.
<1>9. CASE OptOut(r) \/ ReadFingerprints(r) \/ GateAndRecord(r) \/ ExecuteStub(r)
  <2>1. /\ pc[r] \in InFlight \ {"commit"} /\ target' = target
        /\ row[r] \in CaseRow
        /\ row'[r].attempts_used = row[r].attempts_used
        /\ row'[r].contacts_used = row[r].contacts_used
    <3>0. pc[r] \in {"loaded", "read", "execute"}
      BY <1>9 DEF OptOut, ReadFingerprints, GateAndRecord, ExecuteStub
    <3>a. target' = target
      BY <1>9 DEF OptOut, ReadFingerprints, GateAndRecord, ExecuteStub
    <3>1. pc[r] \in InFlight \ {"commit"} /\ target' = target
      BY <3>0, <3>a DEF InFlight
    <3>2. row[r] \in CaseRow
      BY <3>1 DEF SessionOK
    <3>3. CASE OptOut(r)
      <4>1. row'[r] = [row[r] EXCEPT !.status = "stopped", !.stop_reason = "opt_out"]
        BY <3>3 DEF OptOut, TypeOK
      <4> QED BY <3>1, <3>2, <4>1 DEF CaseRow
    <3>4. CASE GateAndRecord(r)
      <4>1. \E s : row'[r] = [row[r] EXCEPT !.status = s]
        BY <3>4 DEF GateAndRecord, TypeOK
      <4> QED BY <3>1, <3>2, <4>1 DEF CaseRow
    <3>5. CASE ReadFingerprints(r) \/ ExecuteStub(r)
      BY <3>1, <3>2, <3>5 DEF ReadFingerprints, ExecuteStub
    <3> QED BY <1>9, <3>3, <3>4, <3>5
  <2>2. \A x \in rows'[r] : x \in rows[r] \/ x.kind \in {"stop", "gate_check", "action"}
    BY <1>9 DEF OptOut, ReadFingerprints, GateAndRecord, ExecuteStub, TypeOK,
                StopRow, GateRow, ActionRow
  <2>3. \A x \in rows'[r] : x.kind # "outcome"
    BY <1>4, <2>1, <2>2 DEF SessionCounts
  <2>4. row[r].attempts_used \in Nat /\ row[r].contacts_used \in Nat
    BY <2>1 DEF CaseRow
  <2>5. /\ row[r].attempts_used <= Ran(target[r], Retry)
        /\ row[r].contacts_used <= Ran(target[r], LinkVerbs)
    BY <1>2, <1>4, <1>5, <2>1, <2>4 DEF SessionCounts
  <2> QED BY <1>2, <1>3, <2>1, <2>3, <2>4, <2>5 DEF SessionCounts
<1>10. CASE Execute(r)
  <2>1. /\ pc[r] = "execute" /\ pc'[r] = "commit" /\ target' = target
        /\ row[r] \in CaseRow /\ body[r] \in RequestBody
    BY <1>10 DEF Execute, TypeOK, SessionOK, InFlight
  <2>2. PICK o \in Results(body[r]), l \in Links :
          /\ rows'[r] = rows[r] \cup AdapterRows(r, o, l)
          /\ row'[r] = AfterResult(row[r], body[r].action.verb, o)
    BY <1>10 DEF Execute, RunAdapter, TypeOK
  <2>3. o.recovered \in BOOLEAN
    BY <2>1, ResultsType
  <2>4. \A verbs : body[r].action.verb \in verbs /\ ~o.recovered => Pending(r, verbs)' = 1
    <3> SUFFICES ASSUME NEW verbs, body[r].action.verb \in verbs, ~o.recovered
                 PROVE  IsRun(rows'[r], verbs)
      BY DEF Pending, IsRun
    <3> DEFINE a == ActionRow(Fingerprint(target[r], body[r].action))
               x == OutcomeRow(o, IF o.effect = "link" THEN l ELSE None)
    <3>1. a \in rows'[r] /\ x \in rows'[r]
      BY <2>2 DEF AdapterRows
    <3>2. a.kind = "action" /\ a.action_fingerprint.verb \in verbs
      BY DEF ActionRow, Fingerprint
    <3>3. x.kind = "outcome" /\ ~x.recovered
      BY DEF OutcomeRow
    <3> QED BY <3>1, <3>2, <3>3 DEF IsRun
  <2>5. /\ row[r].attempts_used <= Ran(target[r], Retry)
        /\ row[r].contacts_used <= Ran(target[r], LinkVerbs)
        /\ row[r].attempts_used \in Nat /\ row[r].contacts_used \in Nat
    BY <1>2, <1>4, <1>5, <2>1 DEF SessionCounts, InFlight, CaseRow
  <2>6. /\ row'[r].attempts_used <= row[r].attempts_used + Pending(r, Retry)'
        /\ row'[r].contacts_used <= row[r].contacts_used + Pending(r, LinkVerbs)'
        /\ row'[r].attempts_used \in Nat /\ row'[r].contacts_used \in Nat
    <3>1. CASE o.recovered
      BY <1>3, <2>1, <2>2, <2>5, <3>1 DEF AfterResult, CaseRow
    <3>2. CASE ~o.recovered /\ body[r].action.verb = "schedule_retry"
      BY <1>3, <2>1, <2>2, <2>4, <2>5, <3>2 DEF AfterResult, CaseRow, Retry
    <3>3. CASE ~o.recovered /\ body[r].action.verb \in LinkVerbs
      BY <1>3, <2>1, <2>2, <2>4, <2>5, <3>3 DEF AfterResult, CaseRow, LinkVerbs
    <3>4. CASE /\ ~o.recovered /\ body[r].action.verb # "schedule_retry"
               /\ body[r].action.verb \notin LinkVerbs
      BY <1>3, <2>1, <2>2, <2>5, <3>4 DEF AfterResult, CaseRow
    <3> QED BY <2>3, <3>1, <3>2, <3>3, <3>4
  <2> QED BY <1>2, <1>3, <2>1, <2>5, <2>6 DEF SessionCounts
<1> QED
  BY <1>6, <1>7, <1>8, <1>9, <1>10

\* A commit keeps the counters if the row it stores counts no more than the ledger.
LEMMA CommittedCounts ==
  ASSUME Typed, Counted, NEW t, ledger' = Append(ledger, t),
         \A s \in Requests :
           \/ SparesCounts(s)
           \/ pc'[s] \notin InFlight /\ rows'[s] = {},
         \A c \in Cases :
           \/ cases'[c] \in {None, cases[c]}
           \/ /\ cases'[c].attempts_used <= Ran(c, Retry)'
              /\ cases'[c].contacts_used <= Ran(c, LinkVerbs)'
  PROVE  Counted'
<1> USE DEF Typed
<1>1. \A s \in Requests : SessionCounts(s)'
  <2>1. ASSUME NEW s \in Requests, SparesCounts(s) PROVE SessionCounts(s)'
    BY <2>1, SparedCounts DEF Counted
  <2>2. ASSUME NEW s \in Requests, pc'[s] \notin InFlight /\ rows'[s] = {}
        PROVE  SessionCounts(s)'
    BY <2>2 DEF SessionCounts
  <2> QED BY <2>1, <2>2
<1>2. ASSUME NEW c \in Cases, cases'[c] # None
      PROVE  /\ cases'[c].attempts_used <= Ran(c, Retry)'
             /\ cases'[c].contacts_used <= Ran(c, LinkVerbs)'
  <2>1. CASE cases'[c] = cases[c]
    <3>1. /\ cases[c].attempts_used \in Nat /\ cases[c].contacts_used \in Nat
          /\ cases[c].attempts_used <= Ran(c, Retry)
          /\ cases[c].contacts_used <= Ran(c, LinkVerbs)
      BY <1>2, <2>1 DEF Counted, CountersNeverOvercount, Ran, Retry, TypeOK, Option, CaseRow
    <3>2. /\ Ran(c, Retry) \in Nat /\ Ran(c, Retry)' \in Nat
          /\ Ran(c, Retry) <= Ran(c, Retry)'
          /\ Ran(c, LinkVerbs) \in Nat /\ Ran(c, LinkVerbs)' \in Nat
          /\ Ran(c, LinkVerbs) <= Ran(c, LinkVerbs)'
      BY RanGrows
    <3> QED BY <2>1, <3>1, <3>2
  <2>2. CASE cases'[c] # cases[c]
    BY <1>2, <2>2
  <2> QED BY <2>1, <2>2
<1>3. CountersNeverOvercount'
  BY <1>2 DEF CountersNeverOvercount, Ran, Retry
<1> QED BY <1>1, <1>3 DEF Counted

LEMMA CountedCommit ==
  ASSUME Typed, Counted, NEW r \in Requests, Commit(r)
  PROVE  Counted'
<1> USE DEF Typed
<1>0. PICK d \in Cases : d = target[r]
  BY DEF Commit, SessionOK, InFlight
<1>1. /\ pc[r] = "commit" /\ row[r] \in CaseRow /\ snap[r] \in CaseRow
      /\ cases' = [cases EXCEPT ![d] = Stored(r)]
  BY <1>0 DEF Commit, SessionOK, InFlight
<1>2. PICK t : t.case = d /\ t.rows = rows[r] /\ ledger' = Append(ledger, t)
  BY <1>0 DEF Commit
<1>3. \A s \in Requests :
        \/ SparesCounts(s)
        \/ pc'[s] \notin InFlight /\ rows'[s] = {}
  BY DEF Commit, CloseSession, SparesCounts, TypeOK, InFlight
\* What the session counted is on the ledger with its rows.
<1>4. ASSUME NEW verbs, NEW n \in Nat, n <= Ran(d, verbs) + Pending(r, verbs)
      PROVE  n <= Ran(d, verbs)'
  <2>1. /\ Ran(d, verbs) \in Nat /\ Ran(d, verbs)' \in Nat
        /\ Ran(d, verbs) <= Ran(d, verbs)'
        /\ IsRun(rows[r], verbs) => Ran(d, verbs)' = Ran(d, verbs) + 1
    BY <1>2, RanGrows
  <2> QED BY <1>4, <2>1 DEF Pending
<1>5. /\ row[r].attempts_used <= Ran(d, Retry)'
      /\ row[r].contacts_used <= Ran(d, LinkVerbs)'
  <2>1. /\ row[r].attempts_used \in Nat /\ row[r].contacts_used \in Nat
        /\ row[r].attempts_used <= Ran(d, Retry) + Pending(r, Retry)
        /\ row[r].contacts_used <= Ran(d, LinkVerbs) + Pending(r, LinkVerbs)
    BY <1>0, <1>1 DEF Counted, SessionCounts, InFlight, CaseRow
  <2> QED BY <1>4, <2>1
<1>6. \A c \in Cases \ {d} : cases'[c] = cases[c]
  BY <1>1 DEF TypeOK
<1>7. /\ cases'[d].attempts_used <= Ran(d, Retry)'
      /\ cases'[d].contacts_used <= Ran(d, LinkVerbs)'
  <2>1. cases'[d] = Stored(r)
    BY <1>1 DEF TypeOK
  <2>2. CASE cases[d] = None
    BY <1>0, <1>5, <2>1, <2>2 DEF Stored
  <2>3. CASE cases[d] # None
    <3>1. /\ cases[d] \in CaseRow
          /\ cases[d].attempts_used <= Ran(d, Retry)
          /\ cases[d].contacts_used <= Ran(d, LinkVerbs)
      BY <2>3 DEF Counted, CountersNeverOvercount, Ran, Retry, TypeOK, Option
    <3>2. /\ cases'[d].attempts_used \in {cases[d].attempts_used, row[r].attempts_used}
          /\ cases'[d].contacts_used \in {cases[d].contacts_used, row[r].contacts_used}
      BY <1>0, <1>1, <2>1, <2>3, <3>1 DEF Stored, Merge, CaseRow
    <3>3. /\ Ran(d, Retry) \in Nat /\ Ran(d, Retry)' \in Nat
          /\ Ran(d, Retry) <= Ran(d, Retry)'
          /\ Ran(d, LinkVerbs) \in Nat /\ Ran(d, LinkVerbs)' \in Nat
          /\ Ran(d, LinkVerbs) <= Ran(d, LinkVerbs)'
      BY <1>2, RanGrows
    <3>4. cases[d].attempts_used \in Nat /\ cases[d].contacts_used \in Nat
      BY <3>1 DEF CaseRow
    <3> QED BY <1>5, <3>1, <3>2, <3>3, <3>4
  <2> QED BY <2>2, <2>3
<1> QED
  BY <1>2, <1>3, <1>6, <1>7, CommittedCounts

LEMMA CountedRecordFailed ==
  ASSUME Typed, Counted, NEW w \in Workers, RecordFailed(w)
  PROVE  Counted'
<1> USE DEF Typed
<1>1. PICK d \in Cases \ issued :
        /\ cases' = [cases EXCEPT ![d] = FreshCase("absent")]
        /\ \E t : ledger' = Append(ledger, t)
  BY DEF RecordFailed
<1>2. PICK t : ledger' = Append(ledger, t)
  BY <1>1
<1>3. \A s \in Requests : SparesCounts(s)
  BY DEF RecordFailed, requestVars, SparesCounts
<1>4. \A c \in Cases \ {d} : cases'[c] = cases[c]
  BY <1>1 DEF TypeOK
<1>5. cases'[d].attempts_used = 0 /\ cases'[d].contacts_used = 0
  BY <1>1 DEF TypeOK, FreshCase
<1>6. Ran(d, Retry)' \in Nat /\ Ran(d, LinkVerbs)' \in Nat
  BY <1>2, RanGrows
<1> QED
  BY <1>2, <1>3, <1>4, <1>5, <1>6, CommittedCounts

\* PaidCase leaves the counters as loaded, so the flush does not write them.
LEMMA CountedRecordPaid ==
  ASSUME Typed, Counted, NEW w \in Workers, RecordPaid(w)
  PROVE  Counted'
<1> USE DEF Typed
<1>0. PICK d \in Cases : d = hookCase[w]
  BY DEF RecordPaid, HookOK
<1>1. /\ cases' = [cases EXCEPT ![d] = Merge(hookSnap[w], PaidCase(hookSnap[w]), cases[d])]
      /\ hookSnap[w] \in CaseRow /\ cases[d] \in CaseRow
  BY <1>0 DEF RecordPaid, HookOK
<1>2. PICK t : ledger' = Append(ledger, t)
  BY DEF RecordPaid
<1>3. \A s \in Requests : SparesCounts(s)
  BY DEF RecordPaid, requestVars, SparesCounts
<1>4. \A c \in Cases \ {d} : cases'[c] = cases[c]
  BY <1>1 DEF TypeOK
<1>5. /\ cases'[d].attempts_used = cases[d].attempts_used
      /\ cases'[d].contacts_used = cases[d].contacts_used
  <2>1. cases'[d] = Merge(hookSnap[w], PaidCase(hookSnap[w]), cases[d])
    BY <1>1 DEF TypeOK
  <2>2. /\ PaidCase(hookSnap[w]).attempts_used = hookSnap[w].attempts_used
        /\ PaidCase(hookSnap[w]).contacts_used = hookSnap[w].contacts_used
    BY <1>1 DEF PaidCase, CaseRow
  <2> QED BY <1>1, <2>1, <2>2 DEF Merge, CaseRow
<1>6. /\ cases[d].attempts_used \in Nat /\ cases[d].contacts_used \in Nat
      /\ cases[d].attempts_used <= Ran(d, Retry)
      /\ cases[d].contacts_used <= Ran(d, LinkVerbs)
  BY <1>1, NoneIsNoRow DEF Counted, CountersNeverOvercount, Ran, Retry, CaseRow
<1>7. /\ Ran(d, Retry) \in Nat /\ Ran(d, Retry)' \in Nat
      /\ Ran(d, Retry) <= Ran(d, Retry)'
      /\ Ran(d, LinkVerbs) \in Nat /\ Ran(d, LinkVerbs)' \in Nat
      /\ Ran(d, LinkVerbs) <= Ran(d, LinkVerbs)'
  BY <1>2, RanGrows
<1>8. /\ cases'[d].attempts_used <= Ran(d, Retry)'
      /\ cases'[d].contacts_used <= Ran(d, LinkVerbs)'
  BY <1>5, <1>6, <1>7
<1> QED
  BY <1>2, <1>3, <1>4, <1>8, CommittedCounts

LEMMA CountedElsewhere ==
  ASSUME Typed, Counted,
         \/ \E w \in Workers, e \in Events : Deliver(w, e)
         \/ \E w \in Workers : IntegrityError(w) \/ HookTimeout(w) \/ Reply(w) \/ LoseReply(w)
         \/ \E l \in Links : PayLink(l)
         \/ Restart
         \/ UNCHANGED vars
  PROVE  Counted'
<1> USE DEF Typed
<1>1. ledger' = ledger /\ cases' = cases
  BY DEF Deliver, DeliverDuplicate, DeliverFailed, DeliverPaid, IntegrityError,
         HookTimeout, Reply, LoseReply, PayLink, Restart, vars, dbVars
<1>2. ASSUME NEW s \in Requests
      PROVE  SparesCounts(s) \/ (pc'[s] = "failed" /\ rows'[s] = {})
  <2>1. CASE Restart /\ pc[s] \in InFlight
    BY <2>1 DEF Restart, TypeOK
  <2>2. CASE Restart /\ pc[s] \notin InFlight
    BY <2>2 DEF Restart, TypeOK, SparesCounts
  <2>3. CASE ~Restart
    BY <2>3 DEF Deliver, DeliverDuplicate, DeliverFailed, DeliverPaid, IntegrityError,
         HookTimeout, Reply, LoseReply, PayLink, vars, requestVars, SparesCounts
  <2> QED BY <2>1, <2>2, <2>3
<1>3. \A s \in Requests : SessionCounts(s)'
  BY <1>1, <1>2, SparedCounts DEF Counted, SessionCounts, InFlight
<1>4. CountersNeverOvercount'
  BY <1>1 DEF Counted, CountersNeverOvercount, UnrecoveredRuns, ExecutedIn
<1> QED BY <1>3, <1>4 DEF Counted

LEMMA CountedNext ==
  ASSUME Typed, Counted, [Next]_vars
  PROVE  Counted'
BY CountedQuiet, CountedCommit, CountedRecordFailed, CountedRecordPaid, CountedElsewhere
   DEF Next, RequestStep, Record

LEMMA CountedInit == Init => Counted
<1> SUFFICES ASSUME Init PROVE Counted
  OBVIOUS
<1>1. \A r \in Requests : SessionCounts(r)
  BY DEF Init, SessionCounts, InFlight
<1>2. TypeOK
  BY TypedInit DEF Typed
<1>3. ASSUME NEW c \in Cases, cases[c] # None
      PROVE  cases[c].attempts_used = 0 /\ cases[c].contacts_used = 0
  BY <1>3 DEF Init, FreshCase
<1>4. \A c, verbs : Cardinality(UnrecoveredRuns(c, verbs)) \in Nat
  BY <1>2, RanType DEF Ran
<1>5. CountersNeverOvercount
  BY <1>3, <1>4 DEF CountersNeverOvercount
<1> QED BY <1>1, <1>5 DEF Counted

LEMMA CountedInvariant == Spec => []Counted
<1>1. Typed /\ Counted /\ [Next]_vars => Counted'
  BY CountedNext
<1> QED BY <1>1, CountedInit, TypedInvariant, PTL DEF Spec

\* Two requests that counted from the same row lose an increment (execute/guarded.py
\* adds to the row it loaded), but however they interleave and whatever dies, the
\* case never shows more attempts or contacts than the ledger.
THEOREM CountersAreNeverTooHigh == Spec => []CountersNeverOvercount
<1>1. Counted => CountersNeverOvercount
  BY DEF Counted
<1> QED BY <1>1, CountedInvariant, PTL
=============================================================================
