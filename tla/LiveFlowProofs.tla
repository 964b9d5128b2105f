--------------------------- MODULE LiveFlowProofs ---------------------------
(***************************************************************************)
(* Type correctness of LiveFlow, and that the trail of every run is whole, *)
(* for any number of runs, links, threads, presses and restarts, and for   *)
(* any calls and decisions.                                                *)
(***************************************************************************)
EXTENDS LiveFlow, FiniteSetTheorems, TLAPS

-----------------------------------------------------------------------------
(***************************************************************************)
(* Lemmas about the operators.                                             *)
(***************************************************************************)
LEMMA MergeType ==
  ASSUME NEW x \in CaseRow, NEW y \in CaseRow, NEW z \in CaseRow
  PROVE  Merge(x, y, z) \in CaseRow
BY DEF Merge, CaseRow

LEMMA RunGatesType ==
  ASSUME NEW ctx
  PROVE  RunGates(ctx) \in [GateNames -> BOOLEAN]
BY DEF RunGates, GateNames, GateProhibitedRecovery, GateContactWindow,
       GateFrequencyCap, GateMandateValidity, GateAttemptCap, GateIdempotency,
       IsContactAction, IsMoneyAction

LEMMA FreshCaseType == FreshCase("absent") \in CaseRow
BY DEF FreshCase, CaseRow, Statuses, FailureClasses

LEMMA FingerprintType ==
  ASSUME NEW s \in Streams, NEW a \in Action
  PROVE  Fingerprint(s, a) \in Fingerprints(Streams)
BY DEF Fingerprint, Fingerprints, Action

LEMMA LinkActionType ==
  ASSUME NEW c \in {"UI_CREATE_LINK", "UI_DEMO_LINK_NOT_GATED"}
  PROVE  LinkAction(c) \in Action
BY DEF LinkAction, Action, Verbs, Channels, ReasonCodes

LEMMA RecoveredType ==
  ASSUME NEW st, NEW b \in BOOLEAN, NEW e
  PROVE  Result(st, b, e).recovered \in BOOLEAN
BY DEF Result

\* What an adapter returns is one of four statuses, and a link that is reported
\* is a created one.
LEMMA ResultType ==
  ASSUME NEW verb \in Verbs, NEW o \in RazorpayExecutor(verb)
  PROVE  /\ o.status \in {"ok", "failed", "created_link", "escalated",
                          "reconciled_skip"}
         /\ o.status = "reconciled_skip" => verb = "schedule_retry"
         /\ o.recovered \in BOOLEAN
         /\ o.effect = "link" => o.status = "created_link"
<1>1. \/ verb = "escalate_human"
      \/ verb = "schedule_retry"
      \/ verb \in LinkVerbs
  BY DEF Verbs, LinkVerbs
<1>2. CASE verb = "escalate_human"
  <2>1. o = Result("escalated", FALSE, "none")
    BY <1>2 DEF RazorpayExecutor, LinkVerbs
  <2>2. o.status = "escalated"
    BY <2>1 DEF Result
  <2>3. o.recovered \in BOOLEAN
    BY <2>1, RecoveredType
  <2>4. o.effect = "none"
    BY <2>1 DEF Result
  <2> QED BY <2>2, <2>3, <2>4
<1>3. CASE verb = "schedule_retry"
  <2>1. \/ o = Result("reconciled_skip", TRUE, "none")
        \/ o = Result("failed", FALSE, "none")
        \/ o = Result("ok", FALSE, "none")
    BY <1>3 DEF RazorpayExecutor, LinkVerbs
  <2>2. o.status \in {"reconciled_skip", "failed", "ok"}
    BY <2>1 DEF Result
  <2>3. o.recovered \in BOOLEAN
    BY <2>1, RecoveredType
  <2>4. o.effect = "none"
    BY <2>1 DEF Result
  <2> QED BY <1>3, <2>2, <2>3, <2>4
<1>4. CASE verb \in LinkVerbs
  <2>1. \/ o = Result("created_link", FALSE, "link")
        \/ o = Result("created_link", FALSE, "none")
        \/ o = Result("failed", FALSE, "none")
        \/ o = Result("failed", FALSE, "lost")
    BY <1>4 DEF RazorpayExecutor, LinkVerbs
  <2>2. o.status \in {"created_link", "failed"}
    BY <2>1 DEF Result
  <2>3. o.recovered \in BOOLEAN
    BY <2>1, RecoveredType
  <2>4. o.effect = "link" => o.status = "created_link"
    BY <2>1 DEF Result
  <2> QED BY <2>2, <2>3, <2>4
<1> QED BY <1>1, <1>2, <1>3, <1>4

LEMMA LiveResultType ==
  ASSUME NEW verb \in Verbs, NEW o \in LiveResults(verb)
  PROVE  /\ o.status \in {"ok", "failed", "created_link", "escalated"}
         /\ o.recovered \in BOOLEAN
         /\ o.effect = "link" => o.status = "created_link"
BY ResultType DEF LiveResults

LEMMA AfterResultType ==
  ASSUME NEW c \in CaseRow, NEW verb \in Verbs, NEW o, o.recovered \in BOOLEAN
  PROVE  /\ AfterResult(c, verb, o) \in CaseRow
         /\ AfterResult(c, verb, o).failure_class = c.failure_class
<1>1. CASE o.recovered
  BY <1>1 DEF AfterResult, CaseRow, Statuses, StopReasons
<1>2. CASE ~o.recovered
  BY <1>2 DEF AfterResult, CaseRow, Verbs, LinkVerbs
<1> QED BY <1>1, <1>2

LEMMA PaidCaseType ==
  ASSUME NEW c \in CaseRow
  PROVE  PaidCase(c) \in CaseRow /\ PaidCase(c).failure_class = c.failure_class
BY DEF PaidCase, CaseRow, Statuses, StopReasons

LEMMA RowTypes ==
  /\ \A by \in Writers : EventRow(by) \in Row /\ StopRow(by) \in Row
  /\ \A by \in Writers : \A ctx : GateRow(by, RunGates(ctx)) \in Row
  /\ \A by \in Writers, fp \in Fingerprints(Streams) \cup {None} :
       ActionRow(by, fp) \in Row
  /\ \A by \in Writers, l \in Links \cup {None} :
       \A st \in {"ok", "failed", "created_link", "escalated", "paid"} :
         OutcomeRow(by, st, l) \in Row
<1>1. \A by \in Writers : EventRow(by) \in Row /\ StopRow(by) \in Row
  BY DEF EventRow, StopRow, Row
<1>2. ASSUME NEW by \in Writers, NEW ctx PROVE GateRow(by, RunGates(ctx)) \in Row
  BY RunGatesType DEF GateRow, Row
<1>3. \A by \in Writers, fp \in Fingerprints(Streams) \cup {None} :
       ActionRow(by, fp) \in Row
  BY DEF ActionRow, Row
<1>4. ASSUME NEW by \in Writers, NEW l \in Links \cup {None},
             NEW st \in {"ok", "failed", "created_link", "escalated", "paid"}
      PROVE  OutcomeRow(by, st, l) \in Row
  BY DEF OutcomeRow, Row
<1> QED BY <1>1, <1>2, <1>3, <1>4

LEMMA AgentRowsType ==
  ASSUME NEW d \in Decisions
  PROVE  d \in Decision /\ d.action \in Action /\ AgentRows(d) \subseteq Row
<1>1. d \in Decision
  BY DecisionAssumption
<1>2. d.action \in Action /\ d.class \in FailureClasses
  BY <1>1 DEF Decision
<1>3. ClassificationRow(d.class) \in Row /\ DecisionRow(d.action) \in Row
  BY <1>2 DEF ClassificationRow, DecisionRow, Row, Writers
<1>4. DraftRow \in Row
  BY RowTypes DEF DraftRow, Writers
<1> QED BY <1>1, <1>2, <1>3, <1>4 DEF AgentRows

-----------------------------------------------------------------------------
(***************************************************************************)
(* Type correctness.  A run has what its point of the generator needs: its *)
(* call, its case, a decision, a session.  A link names a case that was    *)
(* committed before the link existed, and a busy webhook has loaded it.    *)
(***************************************************************************)
InSession == {"persist", "gate", "execute", "demo", "commit"}

RunsTyped ==
  \A s \in Streams :
    /\ at[s] # "idle" => call[s] \in Call
    /\ at[s] \in Points \ {"open"} => cases[s] \in CaseRow
    /\ at[s] \in InSession \cup {"load"} => decision[s] \in Decisions
    /\ at[s] \in InSession => snap[s] \in CaseRow /\ row[s] \in CaseRow

HookTyped ==
  /\ \A l \in Links :
       /\ links[l].case # None => cases[links[l].case] \in CaseRow
       /\ links[l].paid => links[l].case # None
  /\ hook # None => hookSnap \in CaseRow /\ links[hook].case # None

Typed == TypeOK /\ RunsTyped /\ HookTyped

\* The pool: a run that takes a thread finds one free, nobody else takes any.
LEMMA PoolBounded ==
  ASSUME TypeOK, NEW s \in Streams,
         thread' \in [Streams -> BOOLEAN],
         \A x \in Streams \ {s} : thread'[x] => thread[x],
         thread'[s] => thread[s] \/ ThreadFree
  PROVE  Cardinality({x \in Streams : thread'[x]}) <= Threads
<1> DEFINE T == {x \in Streams : thread[x]}
<1> DEFINE U == {x \in Streams : thread'[x]}
<1>1. IsFiniteSet(T) /\ IsFiniteSet(U)
  BY BoundAssumption, FS_Subset
<1>2. Cardinality(T) \in Nat /\ Cardinality(U) \in Nat /\ Cardinality(T) <= Threads
  BY <1>1, FS_CardinalityType DEF TypeOK
<1>3. CASE U \subseteq T
  BY <1>1, <1>2, <1>3, FS_Subset, BoundAssumption
<1>4. CASE ~(U \subseteq T)
  <2>1. U \subseteq T \cup {s} /\ ThreadFree /\ s \notin T
    BY <1>4
  <2>2. IsFiniteSet(T \cup {s}) /\ Cardinality(T \cup {s}) = Cardinality(T) + 1
    BY <1>1, <2>1, FS_AddElement
  <2>3. Cardinality(U) <= Cardinality(T) + 1
    BY <2>1, <2>2, FS_Subset
  <2>4. Cardinality(T) < Threads
    BY <2>1 DEF ThreadFree
  <2> QED BY <1>2, <2>3, <2>4, BoundAssumption
<1> QED BY <1>3, <1>4

LEMMA TypedInit == Init => Typed
<1> SUFFICES ASSUME Init PROVE Typed
  OBVIOUS
<1>1. Cardinality({s \in Streams : thread[s]}) <= Threads
  <2>1. {s \in Streams : thread[s]} = {}
    BY DEF Init
  <2> QED BY <2>1, FS_EmptySet, BoundAssumption
<1>2. TypeOK
  BY <1>1, BoundAssumption DEF Init, TypeOK, Option, Stages
<1>3. RunsTyped /\ HookTyped
  BY DEF Init, RunsTyped, HookTyped, InSession, Points
<1> QED BY <1>2, <1>3 DEF Typed

LEMMA TypedRequest ==
  ASSUME Typed, NEW s \in Streams, Request(s)
  PROVE  Typed'
<1> USE DEF Typed
<1>p. Cardinality({x \in Streams : thread'[x]}) <= Threads
  <2>1. /\ thread' \in [Streams -> BOOLEAN]
        /\ \A x \in Streams \ {s} : thread'[x] => thread[x]
        /\ thread'[s] => thread[s] \/ ThreadFree
    BY CallAssumption DEF Request, Call, TypeOK
  <2> QED BY <2>1, PoolBounded
<1>1. TypeOK'
  BY <1>p, CallAssumption DEF TypeOK, RunsTyped, HookTyped, Request, Call,
         Option, Stages, Points, Ended, InSession,
         dbVars, sessionVars, hookVars, providerVars, boundVars
<1>2. RunsTyped'
  BY CallAssumption DEF TypeOK, RunsTyped, HookTyped, Request, Call,
         Option, Stages, Points, Ended, InSession,
         dbVars, sessionVars, hookVars, providerVars, boundVars
<1>3. HookTyped'
  BY CallAssumption DEF TypeOK, RunsTyped, HookTyped, Request, Call,
         Option, Stages, Points, Ended, InSession,
         dbVars, sessionVars, hookVars, providerVars, boundVars
<1> QED BY <1>1, <1>2, <1>3

LEMMA TypedResume ==
  ASSUME Typed, NEW s \in Streams, Resume(s)
  PROVE  Typed'
<1> USE DEF Typed
<1>p. Cardinality({x \in Streams : thread'[x]}) <= Threads
  <2>1. /\ thread' \in [Streams -> BOOLEAN]
        /\ \A x \in Streams \ {s} : thread'[x] => thread[x]
        /\ thread'[s] => thread[s] \/ ThreadFree
    BY DEF Resume, TypeOK
  <2> QED BY <2>1, PoolBounded
<1>1. TypeOK'
  BY <1>p DEF TypeOK, RunsTyped, HookTyped, Resume,
         Option, Stages, Points, Ended, InSession,
         dbVars, sessionVars, hookVars, providerVars, boundVars
<1>2. RunsTyped'
  BY DEF TypeOK, RunsTyped, HookTyped, Resume,
         Option, Stages, Points, Ended, InSession,
         dbVars, sessionVars, hookVars, providerVars, boundVars
<1>3. HookTyped'
  BY DEF TypeOK, RunsTyped, HookTyped, Resume,
         Option, Stages, Points, Ended, InSession,
         dbVars, sessionVars, hookVars, providerVars, boundVars
<1> QED BY <1>1, <1>2, <1>3

LEMMA TypedOpenCase ==
  ASSUME Typed, NEW s \in Streams, OpenCase(s)
  PROVE  Typed'
<1> USE DEF Typed
<1>p. Cardinality({x \in Streams : thread'[x]}) <= Threads
  <2>1. /\ thread' \in [Streams -> BOOLEAN]
        /\ \A x \in Streams \ {s} : thread'[x] => thread[x]
        /\ thread'[s] => thread[s] \/ ThreadFree
    BY DEF OpenCase, Yield, Running, RunsTyped, Typed, Points, Call, TypeOK
  <2> QED BY <2>1, PoolBounded
<1>1. TypeOK'
  BY <1>p, FreshCaseType, RowTypes DEF TypeOK, RunsTyped, HookTyped, OpenCase, Yield, Running, Writers,
         Option, Stages, Points, Ended, InSession,
         dbVars, sessionVars, hookVars, providerVars, boundVars
<1>2. RunsTyped'
  BY FreshCaseType, RowTypes DEF TypeOK, RunsTyped, HookTyped, OpenCase, Yield, Running, Writers,
         Option, Stages, Points, Ended, InSession,
         dbVars, sessionVars, hookVars, providerVars, boundVars
<1>3. HookTyped'
  BY FreshCaseType, RowTypes DEF TypeOK, RunsTyped, HookTyped, OpenCase, Yield, Running, Writers,
         Option, Stages, Points, Ended, InSession,
         dbVars, sessionVars, hookVars, providerVars, boundVars
<1> QED BY <1>1, <1>2, <1>3

LEMMA TypedThink ==
  ASSUME Typed, NEW s \in Streams, Think(s)
  PROVE  Typed'
<1> USE DEF Typed
<1>p. Cardinality({x \in Streams : thread'[x]}) <= Threads
  <2>1. /\ thread' \in [Streams -> BOOLEAN]
        /\ \A x \in Streams \ {s} : thread'[x] => thread[x]
        /\ thread'[s] => thread[s] \/ ThreadFree
    BY DEF Think, Yield, Running, RunsTyped, Typed, Points, Call, TypeOK
  <2> QED BY <2>1, PoolBounded
<1>1. TypeOK'
  BY <1>p, AgentRowsType, NoneAssumption DEF TypeOK, RunsTyped, HookTyped, Think, Yield, Running,
         Option, Stages, Points, Ended, InSession,
         dbVars, sessionVars, hookVars, providerVars, boundVars
<1>2. RunsTyped'
  BY AgentRowsType, NoneAssumption DEF TypeOK, RunsTyped, HookTyped, Think, Yield, Running,
         Option, Stages, Points, Ended, InSession,
         dbVars, sessionVars, hookVars, providerVars, boundVars
<1>3. HookTyped'
  BY AgentRowsType, NoneAssumption DEF TypeOK, RunsTyped, HookTyped, Think, Yield, Running,
         Option, Stages, Points, Ended, InSession,
         dbVars, sessionVars, hookVars, providerVars, boundVars
<1> QED BY <1>1, <1>2, <1>3

LEMMA TypedLoadCase ==
  ASSUME Typed, NEW s \in Streams, LoadCase(s)
  PROVE  Typed'
<1> USE DEF Typed
<1>1. TypeOK'
  BY DEF TypeOK, RunsTyped, HookTyped, LoadCase, GoOn, Running,
         Option, Stages, Points, Ended, InSession,
         dbVars, sessionVars, hookVars, providerVars, boundVars
<1>2. RunsTyped'
  BY DEF TypeOK, RunsTyped, HookTyped, LoadCase, GoOn, Running,
         Option, Stages, Points, Ended, InSession,
         dbVars, sessionVars, hookVars, providerVars, boundVars
<1>3. HookTyped'
  BY DEF TypeOK, RunsTyped, HookTyped, LoadCase, GoOn, Running,
         Option, Stages, Points, Ended, InSession,
         dbVars, sessionVars, hookVars, providerVars, boundVars
<1> QED BY <1>1, <1>2, <1>3

LEMMA TypedPersist ==
  ASSUME Typed, NEW s \in Streams, Persist(s)
  PROVE  Typed'
<1> USE DEF Typed
<1>a. /\ decision[s] \in Decisions /\ row[s] \in CaseRow /\ call[s] \in Call
      /\ cases[s] \in CaseRow
  BY DEF Persist, Running, RunsTyped, InSession, Points
<1>b. row' \in [Streams -> Option(CaseRow)] /\ row'[s] \in CaseRow
  <2>1. decision[s].class \in FailureClasses
    BY <1>a, AgentRowsType DEF Decision
  <2>2. [row[s] EXCEPT !.failure_class = decision[s].class] \in CaseRow
    BY <1>a, <2>1 DEF CaseRow
  <2>3. row' = [row EXCEPT ![s] = [row[s] EXCEPT !.failure_class = decision[s].class]]
    BY DEF Persist, TypeOK
  <2> QED BY <2>2, <2>3 DEF TypeOK, Option
<1>c. rows' \in [Streams -> SUBSET Row]
  BY <1>a, AgentRowsType DEF Persist, TypeOK
<1>d. \A x \in Streams \ {s} : row'[x] = row[x]
  BY DEF Persist, TypeOK
<1>p. Cardinality({x \in Streams : thread'[x]}) <= Threads
  <2>1. /\ thread' \in [Streams -> BOOLEAN]
        /\ \A x \in Streams \ {s} : thread'[x] => thread[x]
        /\ thread'[s] => thread[s] \/ ThreadFree
    BY DEF Persist, Yield, Running, RunsTyped, Typed, Points, Call, TypeOK
  <2> QED BY <2>1, PoolBounded
<1>1. TypeOK'
  BY <1>p, <1>a, <1>b, <1>c, <1>d DEF TypeOK, RunsTyped, HookTyped, Persist, Yield, Running,
         Option, Stages, Points, Ended, InSession,
         dbVars, sessionVars, hookVars, providerVars, boundVars
<1>2. RunsTyped'
  BY <1>a, <1>b, <1>c, <1>d DEF TypeOK, RunsTyped, HookTyped, Persist, Yield, Running,
         Option, Stages, Points, Ended, InSession,
         dbVars, sessionVars, hookVars, providerVars, boundVars
<1>3. HookTyped'
  BY <1>a, <1>b, <1>c, <1>d DEF TypeOK, RunsTyped, HookTyped, Persist, Yield, Running,
         Option, Stages, Points, Ended, InSession,
         dbVars, sessionVars, hookVars, providerVars, boundVars
<1> QED BY <1>1, <1>2, <1>3

LEMMA TypedGate ==
  ASSUME Typed, NEW s \in Streams, Gate(s)
  PROVE  Typed'
<1> USE DEF Typed
<1>a. /\ decision[s] \in Decisions /\ row[s] \in CaseRow /\ call[s] \in Call
      /\ snap[s] \in CaseRow /\ cases[s] \in CaseRow
      /\ at[s] = "gate" /\ thread[s]
  BY DEF Gate, Running, RunsTyped, InSession, Points
<1>b. row' \in [Streams -> Option(CaseRow)] /\ row'[s] \in CaseRow
  <2>1. row' = row \/ \E st \in Statuses :
                       row' = [row EXCEPT ![s] = [row[s] EXCEPT !.status = st]]
    BY DEF Gate, TypeOK, Statuses
  <2>2. \A st \in Statuses : [row[s] EXCEPT !.status = st] \in CaseRow
    BY <1>a DEF CaseRow
  <2> QED BY <1>a, <2>1, <2>2 DEF TypeOK, Option
<1>c. rows' \in [Streams -> SUBSET Row]
  BY RowTypes DEF Gate, TypeOK, Writers
<1>d. \A x \in Streams \ {s} : row'[x] = row[x]
  BY DEF Gate, TypeOK
<1>e. /\ \E point \in {"commit", "execute"} : at' = [at EXCEPT ![s] = point]
      /\ thread' \in [Streams -> BOOLEAN]
      /\ \A x \in Streams \ {s} : thread'[x] = thread[x]
  BY <1>a DEF Gate, Yield, GoOn, TypeOK, Call
<1>f. UNCHANGED <<dbVars, lock, call, decision, snap, hookVars, providerVars, boundVars>>
  BY DEF Gate
<1>p. Cardinality({x \in Streams : thread'[x]}) <= Threads
  BY <1>a, <1>e, PoolBounded
<1>1. TypeOK'
  BY <1>b, <1>c, <1>e, <1>f, <1>p
     DEF TypeOK, Stages, Points, dbVars, hookVars, providerVars, boundVars
<1>2. RunsTyped'
  BY <1>a, <1>b, <1>d, <1>e, <1>f DEF RunsTyped, TypeOK, InSession, Points, dbVars
<1>3. HookTyped'
  BY <1>f DEF HookTyped, dbVars, hookVars, providerVars
<1> QED BY <1>1, <1>2, <1>3

\* A call names the case of its run, which is committed.
LEMMA CallProviderType ==
  ASSUME TypeOK, HookTyped, NEW s \in Streams, NEW o, NEW l \in Links,
         NEW fp \in Fingerprints(Streams), cases[s] \in CaseRow,
         CallProvider(s, o, l, fp)
  PROVE  /\ links' \in [Links -> [case : Option(Streams), paid : BOOLEAN,
                                  created_for : Option(Fingerprints(Streams))]]
         /\ \A k \in Links :
              /\ links'[k].case # None => cases[links'[k].case] \in CaseRow
              /\ links'[k].paid => links'[k].case # None
              /\ links[k].case # None => links'[k].case # None
<1>0. s # None
  BY NoneAssumption
<1>1. CASE o.effect = "none"
  BY <1>1 DEF CallProvider, TypeOK, HookTyped
<1>2. CASE o.effect # "none"
  <2>1. links' = [links EXCEPT ![l] = [case |-> s, created_for |-> fp, paid |-> FALSE]]
    BY <1>2 DEF CallProvider
  <2> QED BY <1>0, <2>1 DEF TypeOK, HookTyped, Option
<1> QED BY <1>1, <1>2

LEMMA TypedExecute ==
  ASSUME Typed, NEW s \in Streams, Execute(s)
  PROVE  Typed'
<1> USE DEF Typed
<1> DEFINE action == GatedAction(s)
<1> DEFINE fp == Fingerprint(s, action)
<1>a. /\ decision[s] \in Decisions /\ row[s] \in CaseRow /\ call[s] \in Call
      /\ snap[s] \in CaseRow /\ cases[s] \in CaseRow
      /\ at[s] = "execute" /\ thread[s]
  BY DEF Execute, Running, RunsTyped, InSession, Points
<1>b. action \in Action /\ action.verb \in Verbs /\ fp \in Fingerprints(Streams)
  <2>1. action \in Action
    BY <1>a, AgentRowsType DEF GatedAction
  <2> QED BY <2>1, FingerprintType DEF Action
<1>c. PICK o \in LiveResults(action.verb), l \in Links :
        /\ CallProvider(s, o, l, fp)
        /\ rows' = [rows EXCEPT ![s] = @ \cup
             {OutcomeRow("stream", o.status, IF o.effect = "link" THEN l ELSE None),
              ActionRow("stream", fp)}]
        /\ row' = [row EXCEPT ![s] = AfterResult(@, action.verb, o)]
        /\ IF ~HasExternalId(o) /\ action.verb # "send_payment_link"
             THEN GoOn(s, "demo") ELSE Yield(s, "commit")
  BY DEF Execute
<1>d. /\ o.status \in {"ok", "failed", "created_link", "escalated"}
      /\ o.recovered \in BOOLEAN
  BY <1>b, LiveResultType
<1>e. row' \in [Streams -> Option(CaseRow)] /\ row'[s] \in CaseRow
      /\ \A x \in Streams \ {s} : row'[x] = row[x]
  <2>1. AfterResult(row[s], action.verb, o) \in CaseRow
    BY <1>a, <1>b, <1>d, AfterResultType
  <2> QED BY <1>c, <2>1 DEF TypeOK, Option
<1>f. rows' \in [Streams -> SUBSET Row]
  <2>1. ActionRow("stream", fp) \in Row
    BY <1>b, RowTypes DEF Writers
  <2>2. OutcomeRow("stream", o.status, IF o.effect = "link" THEN l ELSE None) \in Row
    BY <1>d, RowTypes DEF Writers
  <2> QED BY <1>c, <2>1, <2>2 DEF TypeOK
<1>g. /\ \E point \in {"commit", "demo"} : at' = [at EXCEPT ![s] = point]
      /\ thread' \in [Streams -> BOOLEAN]
      /\ \A x \in Streams \ {s} : thread'[x] = thread[x]
  BY <1>a, <1>c DEF Yield, GoOn, TypeOK, Call
<1>h. UNCHANGED <<dbVars, lock, call, decision, snap, acked, hookVars, boundVars>>
  BY DEF Execute
<1>i. /\ links' \in [Links -> [case : Option(Streams), paid : BOOLEAN,
                                created_for : Option(Fingerprints(Streams))]]
      /\ \A k \in Links :
           /\ links'[k].case # None => cases[links'[k].case] \in CaseRow
           /\ links'[k].paid => links'[k].case # None
           /\ links[k].case # None => links'[k].case # None
  BY <1>a, <1>b, <1>c, CallProviderType
<1>p. Cardinality({x \in Streams : thread'[x]}) <= Threads
  BY <1>a, <1>g, PoolBounded
<1>1. TypeOK'
  BY <1>e, <1>f, <1>g, <1>h, <1>i, <1>p
     DEF TypeOK, Stages, Points, dbVars, hookVars, boundVars
<1>2. RunsTyped'
  BY <1>a, <1>e, <1>g, <1>h DEF RunsTyped, TypeOK, InSession, Points, dbVars
<1>3. HookTyped'
  BY <1>h, <1>i DEF HookTyped, TypeOK, Option, dbVars, hookVars
<1> QED BY <1>1, <1>2, <1>3

LEMMA TypedDemoLink ==
  ASSUME Typed, NEW s \in Streams, DemoLink(s)
  PROVE  Typed'
<1> USE DEF Typed
<1> DEFINE fp == Fingerprint(s, LinkAction("UI_DEMO_LINK_NOT_GATED"))
<1>a. /\ decision[s] \in Decisions /\ row[s] \in CaseRow /\ call[s] \in Call
      /\ snap[s] \in CaseRow /\ cases[s] \in CaseRow
      /\ at[s] = "demo" /\ thread[s]
  BY DEF DemoLink, Running, RunsTyped, InSession, Points
<1>b. fp \in Fingerprints(Streams)
  BY LinkActionType, FingerprintType
<1>c. PICK o \in RazorpayExecutor("send_payment_link"), l \in Links :
        CallProvider(s, o, l, fp)
  BY DEF DemoLink
<1>f. rows' \in [Streams -> SUBSET Row]
  <2>1. ActionRow("stream", fp) \in Row
    BY <1>b, RowTypes DEF Writers
  <2> QED BY <2>1 DEF DemoLink, DemoRows, TypeOK
<1>g. /\ at' = [at EXCEPT ![s] = "commit"]
      /\ thread' \in [Streams -> BOOLEAN]
      /\ \A x \in Streams \ {s} : thread'[x] = thread[x]
  BY <1>a DEF DemoLink, Yield, TypeOK, Call
<1>h. UNCHANGED <<dbVars, lock, call, decision, snap, row, acked, hookVars, boundVars>>
  BY DEF DemoLink
<1>i. /\ links' \in [Links -> [case : Option(Streams), paid : BOOLEAN,
                                created_for : Option(Fingerprints(Streams))]]
      /\ \A k \in Links :
           /\ links'[k].case # None => cases[links'[k].case] \in CaseRow
           /\ links'[k].paid => links'[k].case # None
           /\ links[k].case # None => links'[k].case # None
  BY <1>a, <1>b, <1>c, CallProviderType
<1>p. Cardinality({x \in Streams : thread'[x]}) <= Threads
  BY <1>a, <1>g, PoolBounded
<1>1. TypeOK'
  BY <1>f, <1>g, <1>h, <1>i, <1>p
     DEF TypeOK, Stages, Points, dbVars, hookVars, boundVars
<1>2. RunsTyped'
  BY <1>a, <1>g, <1>h DEF RunsTyped, TypeOK, InSession, Points, dbVars
<1>3. HookTyped'
  BY <1>h, <1>i DEF HookTyped, TypeOK, Option, dbVars, hookVars
<1> QED BY <1>1, <1>2, <1>3

LEMMA TypedCommit ==
  ASSUME Typed, NEW s \in Streams, Commit(s)
  PROVE  Typed'
<1> USE DEF Typed
<1>a. /\ row[s] \in CaseRow /\ call[s] \in Call
      /\ snap[s] \in CaseRow /\ cases[s] \in CaseRow
  BY DEF Commit, Running, RunsTyped, InSession, Points
<1>b. Merge(snap[s], row[s], cases[s]) \in CaseRow
  BY <1>a, MergeType
<1>p. Cardinality({x \in Streams : thread'[x]}) <= Threads
  <2>1. /\ thread' \in [Streams -> BOOLEAN]
        /\ \A x \in Streams \ {s} : thread'[x] => thread[x]
        /\ thread'[s] => thread[s] \/ ThreadFree
    BY DEF Commit, Yield, Running, RunsTyped, Typed, Points, Call, TypeOK
  <2> QED BY <2>1, PoolBounded
<1>1. TypeOK'
  BY <1>p, <1>a, <1>b DEF TypeOK, RunsTyped, HookTyped, Commit, Yield, Running,
         Option, Stages, Points, Ended, InSession,
         dbVars, sessionVars, hookVars, providerVars, boundVars
<1>2. RunsTyped'
  BY <1>a, <1>b DEF TypeOK, RunsTyped, HookTyped, Commit, Yield, Running,
         Option, Stages, Points, Ended, InSession,
         dbVars, sessionVars, hookVars, providerVars, boundVars
<1>3. HookTyped'
  BY <1>a, <1>b DEF TypeOK, RunsTyped, HookTyped, Commit, Yield, Running,
         Option, Stages, Points, Ended, InSession,
         dbVars, sessionVars, hookVars, providerVars, boundVars
<1> QED BY <1>1, <1>2, <1>3

LEMMA TypedTell ==
  ASSUME Typed, NEW s \in Streams, Tell(s)
  PROVE  Typed'
<1> USE DEF Typed
<1>p. Cardinality({x \in Streams : thread'[x]}) <= Threads
  <2>1. /\ thread' \in [Streams -> BOOLEAN]
        /\ \A x \in Streams \ {s} : thread'[x] => thread[x]
        /\ thread'[s] => thread[s] \/ ThreadFree
    BY DEF Tell, End, TypeOK
  <2> QED BY <2>1, PoolBounded
<1>1. TypeOK'
  BY <1>p DEF TypeOK, RunsTyped, HookTyped, Tell, End, Running,
         Option, Stages, Points, Ended, InSession,
         dbVars, sessionVars, hookVars, providerVars, boundVars
<1>2. RunsTyped'
  BY DEF TypeOK, RunsTyped, HookTyped, Tell, End, Running,
         Option, Stages, Points, Ended, InSession,
         dbVars, sessionVars, hookVars, providerVars, boundVars
<1>3. HookTyped'
  BY DEF TypeOK, RunsTyped, HookTyped, Tell, End, Running,
         Option, Stages, Points, Ended, InSession,
         dbVars, sessionVars, hookVars, providerVars, boundVars
<1> QED BY <1>1, <1>2, <1>3

LEMMA TypedLockTimeout ==
  ASSUME Typed, NEW s \in Streams, LockTimeout(s)
  PROVE  Typed'
<1> USE DEF Typed
<1>p. Cardinality({x \in Streams : thread'[x]}) <= Threads
  <2>1. /\ thread' \in [Streams -> BOOLEAN]
        /\ \A x \in Streams \ {s} : thread'[x] => thread[x]
        /\ thread'[s] => thread[s] \/ ThreadFree
    BY DEF LockTimeout, End, TypeOK
  <2> QED BY <2>1, PoolBounded
<1>1. TypeOK'
  BY <1>p DEF TypeOK, RunsTyped, HookTyped, LockTimeout, End, Running,
         Option, Stages, Points, Ended, InSession,
         dbVars, sessionVars, hookVars, providerVars, boundVars
<1>2. RunsTyped'
  BY DEF TypeOK, RunsTyped, HookTyped, LockTimeout, End, Running,
         Option, Stages, Points, Ended, InSession,
         dbVars, sessionVars, hookVars, providerVars, boundVars
<1>3. HookTyped'
  BY DEF TypeOK, RunsTyped, HookTyped, LockTimeout, End, Running,
         Option, Stages, Points, Ended, InSession,
         dbVars, sessionVars, hookVars, providerVars, boundVars
<1> QED BY <1>1, <1>2, <1>3

LEMMA TypedDisconnect ==
  ASSUME Typed, NEW s \in Streams, Disconnect(s)
  PROVE  Typed'
<1> USE DEF Typed
<1>p. Cardinality({x \in Streams : thread'[x]}) <= Threads
  <2>1. /\ thread' \in [Streams -> BOOLEAN]
        /\ \A x \in Streams \ {s} : thread'[x] => thread[x]
        /\ thread'[s] => thread[s] \/ ThreadFree
    BY DEF Disconnect, End, TypeOK
  <2> QED BY <2>1, PoolBounded
<1>1. TypeOK'
  BY <1>p DEF TypeOK, RunsTyped, HookTyped, Disconnect, End, Running,
         Option, Stages, Points, Ended, InSession,
         dbVars, sessionVars, hookVars, providerVars, boundVars
<1>2. RunsTyped'
  BY DEF TypeOK, RunsTyped, HookTyped, Disconnect, End, Running,
         Option, Stages, Points, Ended, InSession,
         dbVars, sessionVars, hookVars, providerVars, boundVars
<1>3. HookTyped'
  BY DEF TypeOK, RunsTyped, HookTyped, Disconnect, End, Running,
         Option, Stages, Points, Ended, InSession,
         dbVars, sessionVars, hookVars, providerVars, boundVars
<1> QED BY <1>1, <1>2, <1>3
LEMMA TypedRestart ==
  ASSUME Typed, Restart
  PROVE  Typed'
<1> USE DEF Typed
<1>p. Cardinality({x \in Streams : thread'[x]}) <= Threads
  <2> DEFINE T == {x \in Streams : thread[x]}
  <2> DEFINE U == {x \in Streams : thread'[x]}
  <2>1. U \subseteq T
    BY DEF Restart
  <2>2. IsFiniteSet(T) /\ IsFiniteSet(U)
    BY BoundAssumption, FS_Subset
  <2>3. Cardinality(U) <= Cardinality(T) /\ Cardinality(T) \in Nat
        /\ Cardinality(U) \in Nat
    BY <2>1, <2>2, FS_Subset, FS_CardinalityType
  <2> QED BY <2>3, BoundAssumption DEF TypeOK
<1>1. TypeOK'
  <2>1. /\ at' \in [Streams -> Stages]
        /\ thread' \in [Streams -> BOOLEAN]
        /\ decision' \in [Streams -> Option(Decision)]
        /\ snap' \in [Streams -> Option(CaseRow)]
        /\ row' \in [Streams -> Option(CaseRow)]
        /\ rows' \in [Streams -> SUBSET Row]
    BY DEF TypeOK, Restart, Option, Stages, Ended
  <2>2. faults' \in 0 .. MaxFaults
    BY BoundAssumption DEF TypeOK, Restart
  <2> QED BY <1>p, <2>1, <2>2 DEF TypeOK, Restart, Option, dbVars, providerVars
<1>2. RunsTyped'
  <2>1. \A s \in Streams :
          at'[s] = IF at[s] \in Points THEN "gone" ELSE at[s]
    BY DEF Restart
  <2>2. \A s \in Streams : at'[s] \notin Points /\ (at'[s] # "idle" => at[s] # "idle")
    BY <2>1 DEF Points
  <2>3. cases' = cases /\ call' = call
    BY DEF Restart, dbVars
  <2> QED BY <2>2, <2>3 DEF RunsTyped, Points, InSession
<1>3. HookTyped'
  BY DEF HookTyped, Restart, dbVars, providerVars
<1> QED BY <1>1, <1>2, <1>3

\* Who writes a case beside its run leaves it a case.
LEMMA TypedPressButton ==
  ASSUME Typed, NEW s \in Streams, PressButton(s)
  PROVE  Typed'
<1> USE DEF Typed
<1> DEFINE c == cases[s]
<1> DEFINE action == LinkAction("UI_CREATE_LINK")
<1> DEFINE fp == Fingerprint(s, action)
<1> DEFINE ctx == Context(s, c, action, "card_expired", Daytime, {})
<1>a. c \in CaseRow
  BY DEF PressButton, TypeOK, Option
<1>b. action \in Action /\ fp \in Fingerprints(Streams) /\ action.verb \in Verbs
  BY LinkActionType, FingerprintType DEF Action
<1>h. UNCHANGED <<lock, at, thread, call, sessionVars, hookVars, acked, faults>>
      /\ presses' \in 0 .. MaxPresses
  BY BoundAssumption DEF PressButton, TypeOK
<1>1. /\ cases' \in [Streams -> Option(CaseRow)]
      /\ cases'[s] \in CaseRow
      /\ \A x \in Streams \ {s} : cases'[x] = cases[x]
      /\ ledger' \in [Streams -> SUBSET Row]
      /\ links' \in [Links -> [case : Option(Streams), paid : BOOLEAN,
                                created_for : Option(Fingerprints(Streams))]]
      /\ \A k \in Links :
           /\ links'[k].case # None => cases[links'[k].case] \in CaseRow
           /\ links'[k].paid => links'[k].case # None
           /\ links[k].case # None => links'[k].case # None
  <2>1. CASE /\ ledger' = [ledger EXCEPT ![s] = @ \cup {GateRow("button", RunGates(ctx))}]
             /\ cases' = [cases EXCEPT ![s].status = "blocked"]
             /\ UNCHANGED links
    <3>1. [c EXCEPT !.status = "blocked"] \in CaseRow
      BY <1>a DEF CaseRow, Statuses
    <3>2. GateRow("button", RunGates(ctx)) \in Row
      BY RowTypes DEF Writers
    <3>3. cases' = [cases EXCEPT ![s] = [c EXCEPT !.status = "blocked"]]
      BY <2>1 DEF TypeOK
    <3> HIDE DEF c, ctx
    <3>4. /\ cases' \in [Streams -> Option(CaseRow)]
          /\ cases'[s] \in CaseRow
          /\ \A x \in Streams \ {s} : cases'[x] = cases[x]
      BY <3>1, <3>3 DEF TypeOK, Option
    <3>5. ledger' \in [Streams -> SUBSET Row]
      BY <2>1, <3>2 DEF TypeOK
    <3> QED BY <2>1, <3>4, <3>5 DEF TypeOK, HookTyped
  <2>2. ASSUME NEW o \in RazorpayExecutor("send_payment_link"), NEW l \in Links,
               CallProvider(s, o, l, fp),
               ledger' = [ledger EXCEPT ![s] = @ \cup
                 {GateRow("button", RunGates(ctx)), ActionRow("button", fp),
                  OutcomeRow("button", o.status, IF o.effect = "link" THEN l ELSE None)}],
               cases' = [cases EXCEPT ![s] =
                  AfterResult([c EXCEPT !.status = "open"], action.verb, o)]
        PROVE  <1>1!:
    <3>1. /\ o.status \in {"ok", "failed", "created_link", "escalated"}
          /\ o.recovered \in BOOLEAN
      BY ResultType DEF Verbs
    <3>2. [c EXCEPT !.status = "open"] \in CaseRow
      BY <1>a DEF CaseRow, Statuses
    <3>3. AfterResult([c EXCEPT !.status = "open"], action.verb, o) \in CaseRow
      BY <1>b, <3>1, <3>2, AfterResultType
    <3>4. {GateRow("button", RunGates(ctx)), ActionRow("button", fp),
           OutcomeRow("button", o.status, IF o.effect = "link" THEN l ELSE None)}
            \subseteq Row
      BY <1>b, <3>1, RowTypes DEF Writers
    <3>5. /\ links' \in [Links -> [case : Option(Streams), paid : BOOLEAN,
                                    created_for : Option(Fingerprints(Streams))]]
          /\ \A k \in Links :
               /\ links'[k].case # None => cases[links'[k].case] \in CaseRow
               /\ links'[k].paid => links'[k].case # None
               /\ links[k].case # None => links'[k].case # None
      BY <1>a, <1>b, <2>2, CallProviderType
    <3> QED BY <2>2, <3>3, <3>4, <3>5 DEF TypeOK, Option
  <2> QED BY <2>1, <2>2 DEF PressButton
<1>2. TypeOK'
  BY <1>1, <1>h DEF TypeOK, sessionVars, hookVars
<1>3. RunsTyped'
  BY <1>1, <1>h DEF RunsTyped, sessionVars
<1>4. HookTyped'
  BY <1>1, <1>h DEF HookTyped, TypeOK, Option, hookVars
<1> QED BY <1>2, <1>3, <1>4

LEMMA TypedPayLink ==
  ASSUME Typed, NEW l \in Links, PayLink(l)
  PROVE  Typed'
<1> USE DEF Typed
<1>1. links' = [links EXCEPT ![l] = [links[l] EXCEPT !.paid = TRUE]]
      /\ links[l].case # None
  BY DEF PayLink, TypeOK
<1>2. UNCHANGED <<dbVars, lock, at, thread, call, sessionVars, hookVars, acked,
                  boundVars>>
  BY DEF PayLink
<1>3. /\ links' \in [Links -> [case : Option(Streams), paid : BOOLEAN,
                                created_for : Option(Fingerprints(Streams))]]
      /\ \A k \in Links : links'[k].case = links[k].case
      /\ \A k \in Links : links'[k].paid => links'[k].case # None
  BY <1>1 DEF TypeOK, HookTyped
<1>4. TypeOK'
  BY <1>2, <1>3 DEF TypeOK, dbVars, sessionVars, hookVars, boundVars
<1>5. RunsTyped'
  BY <1>2 DEF RunsTyped, dbVars, sessionVars
<1>6. HookTyped'
  BY <1>2, <1>3 DEF HookTyped, TypeOK, Option, dbVars, hookVars
<1> QED BY <1>4, <1>5, <1>6

LEMMA TypedDeliverPaid ==
  ASSUME Typed, NEW l \in Links, DeliverPaid(l)
  PROVE  Typed'
<1> USE DEF Typed
<1>1. hook' = l /\ hookSnap' = cases[links[l].case] /\ links[l].case # None
  BY DEF DeliverPaid, HookTyped
<1>2. cases[links[l].case] \in CaseRow
  BY <1>1 DEF HookTyped
<1>3. UNCHANGED <<dbVars, lock, at, thread, call, sessionVars, providerVars, boundVars>>
  BY DEF DeliverPaid
<1>4. TypeOK'
  BY <1>1, <1>2, <1>3 DEF TypeOK, Option, dbVars, sessionVars, providerVars, boundVars
<1>5. RunsTyped'
  BY <1>3 DEF RunsTyped, dbVars, sessionVars
<1>6. HookTyped'
  BY <1>1, <1>2, <1>3 DEF HookTyped, dbVars, providerVars
<1> QED BY <1>4, <1>5, <1>6

LEMMA TypedRecordPaid ==
  ASSUME Typed, RecordPaid
  PROVE  Typed'
<1> USE DEF Typed
<1> DEFINE c == links[hook].case
<1>1. hook \in Links /\ hookSnap \in CaseRow /\ c \in Streams /\ cases[c] \in CaseRow
  BY DEF RecordPaid, TypeOK, HookTyped, Option
<1>2. Merge(hookSnap, PaidCase(hookSnap), cases[c]) \in CaseRow
  BY <1>1, PaidCaseType, MergeType
<1>3. PaidRows(hook) \subseteq Row
  BY <1>1, RowTypes DEF PaidRows, Writers
<1>4. /\ cases' = [cases EXCEPT ![c] = Merge(hookSnap, PaidCase(hookSnap), cases[c])]
      /\ ledger' = [ledger EXCEPT ![c] = @ \cup PaidRows(hook)]
      /\ acked' = acked \cup {hook}
      /\ hook' = None /\ hookSnap' = None
      /\ UNCHANGED <<lock, at, thread, call, sessionVars, links, boundVars>>
  BY DEF RecordPaid, TypeOK
<1>5. /\ cases' \in [Streams -> Option(CaseRow)]
      /\ \A s \in Streams : cases[s] \in CaseRow => cases'[s] \in CaseRow
  BY <1>1, <1>2, <1>4 DEF TypeOK, Option
<1>6. ledger' \in [Streams -> SUBSET Row] /\ acked' \subseteq Links
  BY <1>1, <1>3, <1>4 DEF TypeOK
<1>7. TypeOK'
  BY <1>4, <1>5, <1>6 DEF TypeOK, Option, sessionVars, boundVars
<1>8. RunsTyped'
  BY <1>4, <1>5 DEF RunsTyped, sessionVars
<1>9. HookTyped'
  BY <1>4, <1>5 DEF HookTyped, TypeOK, Option
<1> QED BY <1>7, <1>8, <1>9

LEMMA TypedHookTimeout ==
  ASSUME Typed, HookTimeout
  PROVE  Typed'
<1> USE DEF Typed
<1>1. hook' = None /\ hookSnap' = None
      /\ UNCHANGED <<dbVars, lock, at, thread, call, sessionVars, providerVars, boundVars>>
  BY DEF HookTimeout
<1>2. TypeOK'
  BY <1>1 DEF TypeOK, Option, dbVars, sessionVars, providerVars, boundVars
<1>3. RunsTyped'
  BY <1>1 DEF RunsTyped, dbVars, sessionVars
<1>4. HookTyped'
  BY <1>1 DEF HookTyped, dbVars, providerVars
<1> QED BY <1>2, <1>3, <1>4

LEMMA TypedNext == Typed /\ [Next]_vars => Typed'
<1> SUFFICES ASSUME Typed, [Next]_vars PROVE Typed'
  OBVIOUS
<1>1. ASSUME NEW s \in Streams,
             \/ Request(s) \/ Resume(s) \/ Run(s) \/ Disconnect(s) \/ PressButton(s)
      PROVE  Typed'
  BY <1>1, TypedRequest, TypedResume, TypedOpenCase, TypedThink, TypedLoadCase,
     TypedPersist, TypedGate, TypedExecute, TypedDemoLink, TypedCommit, TypedTell,
     TypedLockTimeout, TypedDisconnect, TypedPressButton DEF Run
<1>2. ASSUME NEW l \in Links, PayLink(l) \/ DeliverPaid(l) PROVE Typed'
  BY <1>2, TypedPayLink, TypedDeliverPaid
<1>3. CASE RecordPaid \/ HookTimeout \/ Restart
  BY <1>3, TypedRecordPaid, TypedHookTimeout, TypedRestart
<1>4. CASE UNCHANGED vars
  BY <1>4 DEF Typed, TypeOK, RunsTyped, HookTyped, vars, dbVars, sessionVars,
              hookVars, providerVars, boundVars
<1> QED BY <1>1, <1>2, <1>3, <1>4 DEF Next

LEMMA TypedAlways == Spec => []Typed
BY TypedInit, TypedNext, PTL DEF Spec

\* Every variable of the live demo holds a value of its kind, and no more runs
\* occupy a thread than the pool has.
THEOREM LiveTypeCorrect == Spec => []TypeOK
<1>1. Typed => TypeOK
  BY DEF Typed
<1> QED BY <1>1, TypedAlways, PTL

-----------------------------------------------------------------------------
(***************************************************************************)
(* Trails.  Until the commit nothing of a trail is on the ledger and the   *)
(* case is not diagnosed; the rows of the session grow into a story about  *)
(* the decision, one stage after the other.                                *)
(***************************************************************************)
DemoPrint(s) == Fingerprint(s, LinkAction("UI_DEMO_LINK_NOT_GATED"))

Passed(t) == \E g \in OfKind(t, "gate_check") : AllPassed(g.checks)

Unlinked(t) == \A o \in OfKind(t, "outcome") : o.external_id = None

\* What was decided and diagnosed, once each, and nothing of another writer.
Decided(d, t) ==
  /\ \A x \in t : x.by = "stream" /\ x # EventRow("stream")
  /\ OfKind(t, "decision") = {DecisionRow(d.action)}
  /\ OfKind(t, "classification") = {ClassificationRow(d.class)}

\* The part of TrailIsWhole about one trail and one decision.
Story(s, d, t) ==
  /\ OfKind(t, "decision") = {DecisionRow(d.action)}
  /\ OfKind(t, "classification") = {ClassificationRow(d.class)}
  /\ Fingerprint(s, d.action) \in Fingerprinted(t) <=> Passed(t) /\ call[s].live
  /\ Fingerprinted(t) \subseteq {Fingerprint(s, d.action), DemoPrint(s)}
  /\ DemoPrint(s) \in Fingerprinted(t) => Passed(t) /\ call[s].live /\ Unlinked(t)

\* The ledger and the case row, between the steps of a run.
TrailTold(s) ==
  /\ at[s] \in {"tell", "done"} => Trail(s) # {}
  /\ at[s] \notin {"tell", "done", "gone"} => Trail(s) = {}
  /\ Trail(s) = {} /\ cases[s] # None => cases[s].failure_class = "absent"
  /\ Trail(s) # {} =>
       \E d \in Decisions : Story(s, d, Trail(s)) /\ cases[s].failure_class = d.class

\* The session.
SessionTold(s) ==
  LET d == decision[s]
      t == rows[s]
  IN
  /\ at[s] \in InSession => snap[s].failure_class = "absent"
  /\ at[s] \in InSession \ {"persist"} =>
       Decided(d, t) /\ row[s].failure_class = d.class
  /\ at[s] = "gate" => t = AgentRows(d)
  /\ at[s] = "execute" =>
       /\ call[s].live /\ Passed(t)
       /\ Fingerprinted(t) = {} /\ OfKind(t, "outcome") = {}
  /\ at[s] = "demo" =>
       /\ call[s].live /\ Passed(t)
       /\ Fingerprinted(t) = {Fingerprint(s, d.action)} /\ Unlinked(t)
  /\ at[s] = "commit" => Story(s, d, t)

Told == \A s \in Streams : TrailTold(s) /\ SessionTold(s)

\* Rows of one kind, and fingerprints, of two sets of rows together.
LEMMA OfKindUnion ==
  ASSUME NEW t, NEW u
  PROVE  /\ OfKind(t \cup u, "decision") = OfKind(t, "decision") \cup OfKind(u, "decision")
         /\ OfKind(t \cup u, "classification") =
              OfKind(t, "classification") \cup OfKind(u, "classification")
         /\ OfKind(t \cup u, "gate_check") =
              OfKind(t, "gate_check") \cup OfKind(u, "gate_check")
         /\ OfKind(t \cup u, "outcome") = OfKind(t, "outcome") \cup OfKind(u, "outcome")
         /\ Fingerprinted(t \cup u) = Fingerprinted(t) \cup Fingerprinted(u)
<1>1. ASSUME NEW k PROVE OfKind(t \cup u, k) = OfKind(t, k) \cup OfKind(u, k)
  BY DEF OfKind
<1>2. OfKind(t \cup u, "action") = OfKind(t, "action") \cup OfKind(u, "action")
  BY <1>1
<1>3. Fingerprinted(t \cup u) = Fingerprinted(t) \cup Fingerprinted(u)
  BY <1>2 DEF Fingerprinted
<1> QED BY <1>1, <1>3

\* What the agent's rows say, before any gate.
LEMMA AgentRowsTold ==
  ASSUME NEW d \in Decisions
  PROVE  /\ Decided(d, AgentRows(d))
         /\ ~Passed(AgentRows(d))
         /\ Fingerprinted(AgentRows(d)) = {}
         /\ OfKind(AgentRows(d), "outcome") = {}
<1> DEFINE c == ClassificationRow(d.class)
<1> DEFINE a == DecisionRow(d.action)
<1>1. /\ c.by = "stream" /\ c.kind = "classification"
      /\ a.by = "stream" /\ a.kind = "decision"
      /\ DraftRow.by = "stream" /\ DraftRow.kind = "action"
      /\ DraftRow.action_fingerprint = None
      /\ EventRow("stream").kind = "event"
  BY DEF ClassificationRow, DecisionRow, DraftRow, ActionRow, EventRow
<1> HIDE DEF c, a
<1>2. \A x \in AgentRows(d) : x = c \/ x = a \/ x = DraftRow
  BY DEF AgentRows, c, a
<1>3. c \in AgentRows(d) /\ a \in AgentRows(d)
  BY DEF AgentRows, c, a
<1>4. Decided(d, AgentRows(d))
  BY <1>1, <1>2, <1>3 DEF Decided, OfKind, c, a
<1>5. OfKind(AgentRows(d), "gate_check") = {} /\ OfKind(AgentRows(d), "outcome") = {}
  BY <1>1, <1>2 DEF OfKind
<1>6. Fingerprinted(AgentRows(d)) = {}
  BY <1>1, <1>2 DEF Fingerprinted, OfKind
<1> QED BY <1>4, <1>5, <1>6 DEF Passed

\* What the gates' row adds.
LEMMA GateRowTold ==
  ASSUME NEW d, NEW t, NEW checks, Decided(d, t)
  PROVE  LET u == t \cup {GateRow("stream", checks)} IN
         /\ Decided(d, u)
         /\ Passed(u) <=> Passed(t) \/ AllPassed(checks)
         /\ Fingerprinted(u) = Fingerprinted(t)
         /\ OfKind(u, "outcome") = OfKind(t, "outcome")
<1> DEFINE g == GateRow("stream", checks)
<1>1. /\ g.by = "stream" /\ g.kind = "gate_check" /\ g.checks = checks
      /\ EventRow("stream").kind = "event"
  BY DEF GateRow, EventRow
<1> HIDE DEF g
<1>2. /\ OfKind({g}, "gate_check") = {g} /\ OfKind({g}, "action") = {}
      /\ OfKind({g}, "outcome") = {} /\ OfKind({g}, "decision") = {}
      /\ OfKind({g}, "classification") = {}
  BY <1>1 DEF OfKind
<1>u. /\ OfKind(t \cup {g}, "decision") = OfKind(t, "decision")
      /\ OfKind(t \cup {g}, "classification") = OfKind(t, "classification")
      /\ OfKind(t \cup {g}, "gate_check") = OfKind(t, "gate_check") \cup {g}
      /\ OfKind(t \cup {g}, "outcome") = OfKind(t, "outcome")
  BY <1>1 DEF OfKind
<1>v. Fingerprinted(t \cup {g}) = Fingerprinted(t) \cup Fingerprinted({g})
  BY OfKindUnion
<1>3. Decided(d, t \cup {g})
  BY <1>1, <1>u DEF Decided
<1>4. Passed(t \cup {g}) <=> Passed(t) \/ AllPassed(checks)
  BY <1>1, <1>u DEF Passed
<1>5. Fingerprinted({g}) = {}
  BY <1>2 DEF Fingerprinted
<1> QED BY <1>u, <1>v, <1>3, <1>4, <1>5 DEF g

\* What an action row adds, and the outcome row beside it.
LEMMA ActionRowTold ==
  ASSUME NEW d, NEW t, NEW fp, fp # None, Decided(d, t)
  PROVE  LET u == t \cup {ActionRow("stream", fp)} IN
         /\ Decided(d, u)
         /\ Passed(u) <=> Passed(t)
         /\ \A p : p \in Fingerprinted(u) <=> p \in Fingerprinted(t) \/ p = fp
         /\ OfKind(u, "outcome") = OfKind(t, "outcome")
<1> DEFINE a == ActionRow("stream", fp)
<1>1. /\ a.by = "stream" /\ a.kind = "action" /\ a.action_fingerprint = fp
      /\ EventRow("stream").kind = "event"
  BY DEF ActionRow, EventRow
<1> HIDE DEF a
<1>2. /\ OfKind({a}, "gate_check") = {} /\ OfKind({a}, "action") = {a}
      /\ OfKind({a}, "outcome") = {} /\ OfKind({a}, "decision") = {}
      /\ OfKind({a}, "classification") = {}
  BY <1>1 DEF OfKind
<1>u. /\ OfKind(t \cup {a}, "decision") = OfKind(t, "decision")
      /\ OfKind(t \cup {a}, "classification") = OfKind(t, "classification")
      /\ OfKind(t \cup {a}, "gate_check") = OfKind(t, "gate_check")
      /\ OfKind(t \cup {a}, "outcome") = OfKind(t, "outcome")
  BY <1>1 DEF OfKind
<1>v. Fingerprinted(t \cup {a}) = Fingerprinted(t) \cup Fingerprinted({a})
  BY OfKindUnion
<1>3. Decided(d, t \cup {a})
  BY <1>1, <1>u DEF Decided
<1>4. Passed(t \cup {a}) <=> Passed(t)
  BY <1>u DEF Passed
<1>5. Fingerprinted({a}) = {fp}
  BY <1>1, <1>2 DEF Fingerprinted
<1> QED BY <1>u, <1>v, <1>3, <1>4, <1>5 DEF a

LEMMA OutcomeRowTold ==
  ASSUME NEW d, NEW t, NEW st, NEW id, Decided(d, t)
  PROVE  LET u == t \cup {OutcomeRow("stream", st, id)} IN
         /\ Decided(d, u)
         /\ Passed(u) <=> Passed(t)
         /\ Fingerprinted(u) = Fingerprinted(t)
         /\ OfKind(t, "outcome") = {} /\ id = None => Unlinked(u)
<1> DEFINE o == OutcomeRow("stream", st, id)
<1>1. /\ o.by = "stream" /\ o.kind = "outcome" /\ o.external_id = id
      /\ EventRow("stream").kind = "event"
  BY DEF OutcomeRow, EventRow
<1> HIDE DEF o
<1>2. /\ OfKind({o}, "gate_check") = {} /\ OfKind({o}, "action") = {}
      /\ OfKind({o}, "outcome") = {o} /\ OfKind({o}, "decision") = {}
      /\ OfKind({o}, "classification") = {}
  BY <1>1 DEF OfKind
<1>u. /\ OfKind(t \cup {o}, "decision") = OfKind(t, "decision")
      /\ OfKind(t \cup {o}, "classification") = OfKind(t, "classification")
      /\ OfKind(t \cup {o}, "gate_check") = OfKind(t, "gate_check")
      /\ OfKind(t \cup {o}, "outcome") = OfKind(t, "outcome") \cup {o}
  BY <1>1 DEF OfKind
<1>v. Fingerprinted(t \cup {o}) = Fingerprinted(t) \cup Fingerprinted({o})
  BY OfKindUnion
<1>3. Decided(d, t \cup {o})
  BY <1>1, <1>u DEF Decided
<1>4. Passed(t \cup {o}) <=> Passed(t)
  BY <1>u DEF Passed
<1>5. Fingerprinted({o}) = {}
  BY <1>2 DEF Fingerprinted
<1>6. OfKind(t, "outcome") = {} /\ id = None => Unlinked(t \cup {o})
  BY <1>1, <1>u DEF Unlinked
<1> QED BY <1>u, <1>v, <1>3, <1>4, <1>5, <1>6 DEF o

\* A story is about the agent's action or about the demo's, never confused.
LEMMA Prints ==
  ASSUME NEW s \in Streams, NEW d \in Decisions
  PROVE  /\ Fingerprint(s, d.action) # DemoPrint(s)
         /\ Fingerprint(s, d.action) # None
         /\ DemoPrint(s) # None
<1>1. Fingerprint(s, d.action).reason_code = "AGENT"
  BY DecisionAssumption DEF Fingerprint
<1>2. DemoPrint(s).reason_code = "UI_DEMO_LINK_NOT_GATED"
  BY DEF DemoPrint, LinkAction, Fingerprint
<1>3. Fingerprint(s, d.action) \in Fingerprints(Streams)
  BY AgentRowsType, FingerprintType
<1>4. DemoPrint(s) \in Fingerprints(Streams)
  BY LinkActionType, FingerprintType DEF DemoPrint
<1> QED BY <1>1, <1>2, <1>3, <1>4, NoneAssumption

\* Others may write a case as long as they leave its trail and its diagnosis.
LEMMA TrailKept ==
  ASSUME NEW x \in Streams, TrailTold(x), call'[x] = call[x] \/ Trail(x) = {},
         Trail(x)' = Trail(x),
         \/ cases'[x] = cases[x]
         \/ /\ cases[x] # None /\ cases'[x] # None
            /\ cases'[x].failure_class = cases[x].failure_class,
         at'[x] \in {"tell", "done"} => Trail(x) # {},
         at'[x] \notin {"tell", "done", "gone"} => Trail(x) = {}
  PROVE  TrailTold(x)'
BY DEF TrailTold, Story

LEMMA TrailAppended ==
  ASSUME NEW x \in Streams, NEW n, ledger'[x] = ledger[x] \cup n,
         \A r \in n : r.by # "stream"
  PROVE  Trail(x)' = Trail(x)
BY DEF Trail

\* A run that nothing happened to.
LEMMA ToldKept ==
  ASSUME NEW x \in Streams, TrailTold(x), SessionTold(x),
         at'[x] = at[x], call'[x] = call[x], cases'[x] = cases[x],
         ledger'[x] = ledger[x], decision'[x] = decision[x], snap'[x] = snap[x],
         row'[x] = row[x], rows'[x] = rows[x]
  PROVE  TrailTold(x)' /\ SessionTold(x)'
<1>1. TrailTold(x)'
  <2>1. Trail(x)' = Trail(x)
    BY DEF Trail
  <2> QED BY <2>1 DEF TrailTold, Story
<1>2. SessionTold(x)'
  BY DEF SessionTold, Story
<1> QED BY <1>1, <1>2

-----------------------------------------------------------------------------
LEMMA ToldInit == Init => Told
BY DEF Init, Told, TrailTold, SessionTold, Trail, InSession

\* A step of one run touches no other.
LEMMA RunTold ==
  ASSUME Told, NEW s \in Streams, TrailTold(s)', SessionTold(s)',
         \A x \in Streams \ {s} :
           /\ at'[x] = at[x] /\ call'[x] = call[x]
           /\ cases'[x] = cases[x] /\ ledger'[x] = ledger[x]
           /\ decision'[x] = decision[x] /\ snap'[x] = snap[x]
           /\ row'[x] = row[x] /\ rows'[x] = rows[x]
  PROVE  Told'
<1>1. ASSUME NEW x \in Streams \ {s} PROVE TrailTold(x)' /\ SessionTold(x)'
  BY ToldKept DEF Told
<1> QED BY <1>1 DEF Told

\* A step of one run that leaves the database alone.
LEMMA SilentTold ==
  ASSUME Told, NEW s \in Streams, SessionTold(s)',
         UNCHANGED <<cases, ledger>>, call'[s] = call[s] \/ at[s] = "idle",
         at'[s] \in {"tell", "done"} => at[s] \in {"tell", "done"},
         at'[s] \notin {"tell", "done", "gone"} => at[s] \notin {"tell", "done", "gone"},
         \A x \in Streams \ {s} :
           /\ at'[x] = at[x] /\ call'[x] = call[x]
           /\ decision'[x] = decision[x] /\ snap'[x] = snap[x]
           /\ row'[x] = row[x] /\ rows'[x] = rows[x]
  PROVE  Told'
<1>1. Trail(s)' = Trail(s)
  BY DEF Trail
<1>2. at[s] = "idle" => Trail(s) = {}
  BY DEF Told, TrailTold
<1>3. /\ at'[s] \in {"tell", "done"} => Trail(s) # {}
      /\ at'[s] \notin {"tell", "done", "gone"} => Trail(s) = {}
  BY DEF Told, TrailTold
<1>4. TrailTold(s)'
  BY <1>1, <1>2, <1>3, TrailKept DEF Told
<1> QED BY <1>4, RunTold

LEMMA ToldRequest ==
  ASSUME Typed, Told, NEW s \in Streams, Request(s)
  PROVE  Told'
<1>1. at[s] = "idle" /\ at'[s] = "open"
  BY DEF Request, Typed, TypeOK
<1>2. SessionTold(s)'
  BY <1>1 DEF SessionTold, InSession
<1> QED BY <1>1, <1>2, SilentTold DEF Request, Typed, TypeOK, dbVars, sessionVars

LEMMA ToldResume ==
  ASSUME Typed, Told, NEW s \in Streams, Resume(s)
  PROVE  Told'
<1>1. SessionTold(s)'
  BY DEF Resume, Told, SessionTold, Story, sessionVars
<1> QED BY <1>1, SilentTold DEF Resume, dbVars, sessionVars

LEMMA ToldOpenCase ==
  ASSUME Typed, Told, NEW s \in Streams, OpenCase(s)
  PROVE  Told'
<1>1. at'[s] = "think" /\ ledger'[s] = {EventRow("stream")}
      /\ cases'[s] = FreshCase("absent")
  BY DEF OpenCase, Yield, Typed, TypeOK
<1>2. SessionTold(s)'
  BY <1>1 DEF SessionTold, InSession
<1>3. Trail(s)' = {}
  BY <1>1 DEF Trail
<1>4. TrailTold(s)'
  BY <1>1, <1>3 DEF TrailTold, FreshCase
<1> QED BY <1>2, <1>4, RunTold DEF OpenCase, Yield, Typed, TypeOK, sessionVars

LEMMA ToldThink ==
  ASSUME Typed, Told, NEW s \in Streams, Think(s)
  PROVE  Told'
<1>1. at[s] = "think" /\ at'[s] = "load"
  BY DEF Think, Running, Yield, Typed, TypeOK
<1>2. SessionTold(s)'
  BY <1>1 DEF SessionTold, InSession
<1>3. /\ UNCHANGED <<cases, ledger, call, snap, row, rows>>
      /\ \A x \in Streams \ {s} : at'[x] = at[x] /\ decision'[x] = decision[x]
  BY DEF Think, Yield, Typed, TypeOK, dbVars
<1> QED BY <1>1, <1>2, <1>3, SilentTold

LEMMA ToldLoadCase ==
  ASSUME Typed, Told, NEW s \in Streams, LoadCase(s)
  PROVE  Told'
<1>1. at[s] = "load" /\ at'[s] = "persist" /\ snap'[s] = cases[s]
  BY DEF LoadCase, Running, GoOn, Typed, TypeOK
<1>2. cases[s] # None
  BY <1>1, NoneAssumption DEF Typed, RunsTyped, Points
<1>3. snap'[s].failure_class = "absent"
  BY <1>1, <1>2 DEF Told, TrailTold
<1>4. SessionTold(s)'
  BY <1>1, <1>3 DEF SessionTold
<1>5. /\ UNCHANGED <<cases, ledger, call, decision, rows>>
      /\ \A x \in Streams \ {s} : at'[x] = at[x] /\ snap'[x] = snap[x] /\ row'[x] = row[x]
  BY DEF LoadCase, GoOn, Typed, TypeOK, dbVars
<1> QED BY <1>1, <1>4, <1>5, SilentTold

LEMMA ToldPersist ==
  ASSUME Typed, Told, NEW s \in Streams, Persist(s)
  PROVE  Told'
<1> DEFINE d == decision[s]
<1>1. /\ at[s] = "persist" /\ at'[s] = "gate" /\ d \in Decisions /\ row[s] \in CaseRow
      /\ rows'[s] = AgentRows(d) /\ decision'[s] = d /\ snap'[s] = snap[s]
  BY DEF Persist, Running, Yield, Typed, TypeOK, RunsTyped, InSession
<1>2. row'[s].failure_class = d.class
  <2>1. row'[s] = [row[s] EXCEPT !.failure_class = d.class]
    BY DEF Persist, Typed, TypeOK
  <2> QED BY <1>1, <2>1 DEF CaseRow
<1>3. snap[s].failure_class = "absent"
  BY <1>1 DEF Told, SessionTold, InSession
<1>4. SessionTold(s)'
  <2> HIDE DEF d
  <2> QED BY <1>1, <1>2, <1>3, AgentRowsTold DEF SessionTold, InSession, Decided, OfKind
<1>5. /\ UNCHANGED <<cases, ledger, call, decision, snap>>
      /\ \A x \in Streams \ {s} : at'[x] = at[x] /\ row'[x] = row[x] /\ rows'[x] = rows[x]
  BY DEF Persist, Yield, Typed, TypeOK, dbVars
<1> QED BY <1>1, <1>4, <1>5, SilentTold

\* Nothing was executed, and nothing should have been.
LEMMA StoryUnexecuted ==
  ASSUME NEW s, NEW d, NEW t, Decided(d, t), Fingerprinted(t) = {},
         ~(Passed(t) /\ call[s].live)
  PROVE  Story(s, d, t)
BY DEF Story, Decided

LEMMA ToldGate ==
  ASSUME Typed, Told, NEW s \in Streams, Gate(s)
  PROVE  Told'
<1> DEFINE d == decision[s]
<1> DEFINE t == rows[s]
<1>1. /\ at[s] = "gate" /\ d \in Decisions /\ row[s] \in CaseRow
      /\ t = AgentRows(d) /\ row[s].failure_class = d.class
      /\ snap[s].failure_class = "absent"
  BY DEF Gate, Running, Typed, RunsTyped, Told, SessionTold, InSession
<1>2. /\ UNCHANGED <<cases, ledger, call, decision, snap>>
      /\ \A x \in Streams \ {s} : at'[x] = at[x] /\ row'[x] = row[x] /\ rows'[x] = rows[x]
  BY DEF Gate, Yield, GoOn, Typed, TypeOK, dbVars
<1>3. row'[s].failure_class = d.class
  <2>1. row' = row \/ \E st \in Statuses :
                       row' = [row EXCEPT ![s] = [row[s] EXCEPT !.status = st]]
    BY DEF Gate, Typed, TypeOK, Statuses
  <2>2. \A st \in Statuses : [row[s] EXCEPT !.status = st].failure_class = d.class
    <3> HIDE DEF d
    <3> QED BY <1>1 DEF CaseRow
  <2> QED BY <1>1, <2>1, <2>2 DEF Typed, TypeOK
<1>4. /\ Decided(d, t) /\ ~Passed(t) /\ Fingerprinted(t) = {}
      /\ OfKind(t, "outcome") = {}
  BY <1>1, AgentRowsTold
<1>5. \/ at'[s] = "commit" /\ Decided(d, rows'[s]) /\ Fingerprinted(rows'[s]) = {}
         /\ ~(Passed(rows'[s]) /\ call[s].live)
      \/ at'[s] = "execute" /\ Decided(d, rows'[s]) /\ Fingerprinted(rows'[s]) = {}
         /\ OfKind(rows'[s], "outcome") = {} /\ Passed(rows'[s]) /\ call[s].live
  <2>1. CASE rows' = rows /\ at' = [at EXCEPT ![s] = "commit"]
    BY <1>4, <2>1 DEF Typed, TypeOK
  <2>2. ASSUME NEW checks,
               rows' = [rows EXCEPT ![s] = @ \cup {GateRow("stream", checks)}],
               \/ at' = [at EXCEPT ![s] = "commit"]
                  /\ ~(AllPassed(checks) /\ call[s].live)
               \/ at' = [at EXCEPT ![s] = "execute"]
                  /\ AllPassed(checks) /\ call[s].live
        PROVE  <1>5!:
    <3>1. rows'[s] = t \cup {GateRow("stream", checks)}
      BY <2>2 DEF Typed, TypeOK
    <3>2. at'[s] \in {"commit", "execute"}
          /\ (at'[s] = "commit" => ~(AllPassed(checks) /\ call[s].live))
          /\ (at'[s] = "execute" => AllPassed(checks) /\ call[s].live)
      BY <2>2 DEF Typed, TypeOK
    <3> HIDE DEF d, t
    <3>3. /\ Decided(d, rows'[s]) /\ Fingerprinted(rows'[s]) = {}
          /\ OfKind(rows'[s], "outcome") = {}
          /\ Passed(rows'[s]) <=> AllPassed(checks)
      BY <1>4, <3>1, GateRowTold
    <3> QED BY <3>2, <3>3
  <2> QED BY <2>1, <2>2 DEF Gate, GoOn, Yield
<1>6. SessionTold(s)'
  <2>1. decision'[s] = d /\ snap'[s] = snap[s] /\ call'[s] = call[s]
    BY <1>2
  <2>2. at'[s] = "commit" => Story(s, d, rows'[s])
    BY <1>5, StoryUnexecuted
  <2>3. at'[s] = "commit" => Story(s, decision[s], rows[s])'
    BY <2>1, <2>2 DEF Story
  <2>4. at'[s] \in {"commit", "execute"}
    BY <1>5
  <2>5. Decided(d, rows'[s])
    BY <1>5
  <2>6. at'[s] = "execute" =>
          /\ call'[s].live /\ Passed(rows'[s])
          /\ Fingerprinted(rows'[s]) = {} /\ OfKind(rows'[s], "outcome") = {}
    BY <1>5, <2>1
  <2> HIDE DEF d
  <2>7. Decided(decision[s], rows[s])'
    BY <2>1, <2>5 DEF Decided, OfKind
  <2> QED BY <1>1, <1>3, <2>1, <2>3, <2>4, <2>6, <2>7
          DEF SessionTold, InSession, Passed, Fingerprinted, OfKind
<1>7. at'[s] \in {"commit", "execute"}
  BY <1>5
<1> QED BY <1>1, <1>2, <1>6, <1>7, SilentTold

LEMMA ToldExecute ==
  ASSUME Typed, Told, NEW s \in Streams, Execute(s)
  PROVE  Told'
<1> DEFINE d == decision[s]
<1> DEFINE t == rows[s]
<1> DEFINE fp == Fingerprint(s, d.action)
<1>1. /\ at[s] = "execute" /\ d \in Decisions /\ row[s] \in CaseRow
      /\ row[s].failure_class = d.class /\ snap[s].failure_class = "absent"
      /\ Decided(d, t) /\ Passed(t) /\ call[s].live
      /\ Fingerprinted(t) = {} /\ OfKind(t, "outcome") = {}
  BY DEF Execute, Running, Typed, RunsTyped, Told, SessionTold, InSession
<1>2. PICK o \in LiveResults(d.action.verb), l \in Links :
        /\ rows' = [rows EXCEPT ![s] = @ \cup
             {OutcomeRow("stream", o.status, IF o.effect = "link" THEN l ELSE None),
              ActionRow("stream", fp)}]
        /\ row' = [row EXCEPT ![s] = AfterResult(@, d.action.verb, o)]
        /\ IF ~HasExternalId(o) /\ d.action.verb # "send_payment_link"
             THEN GoOn(s, "demo") ELSE Yield(s, "commit")
  BY DEF Execute, GatedAction
<1> DEFINE id == IF o.effect = "link" THEN l ELSE None
<1>3. UNCHANGED <<cases, ledger, call, decision, snap>>
  BY DEF Execute, dbVars
<1>4. d.action \in Action /\ d.action.verb \in Verbs
  BY <1>1, AgentRowsType DEF Action
<1>5. /\ o.status \in {"ok", "failed", "created_link", "escalated"}
      /\ o.recovered \in BOOLEAN
      /\ o.effect = "link" => o.status = "created_link"
  BY <1>4, LiveResultType
<1>6. /\ rows'[s] = (t \cup {OutcomeRow("stream", o.status, id)})
                       \cup {ActionRow("stream", fp)}
      /\ \A x \in Streams \ {s} : at'[x] = at[x] /\ row'[x] = row[x] /\ rows'[x] = rows[x]
      /\ at'[s] \in {"demo", "commit"}
      /\ at'[s] = "demo" => ~HasExternalId(o)
      /\ row'[s] = AfterResult(row[s], d.action.verb, o)
  BY <1>2 DEF GoOn, Yield, Typed, TypeOK
<1>7. at'[s] = "demo" => id = None
  BY <1>5, <1>6 DEF HasExternalId
<1>8. row'[s].failure_class = d.class
  <2> HIDE DEF d
  <2> QED BY <1>1, <1>4, <1>5, <1>6, AfterResultType
<1>9. fp # None /\ fp # DemoPrint(s)
  BY <1>1, Prints
<1>10. /\ Decided(d, rows'[s]) /\ Passed(rows'[s])
       /\ Fingerprinted(rows'[s]) = {fp}
       /\ at'[s] = "demo" => Unlinked(rows'[s])
  <2> DEFINE u == t \cup {OutcomeRow("stream", o.status, id)}
  <2> HIDE DEF d, t, fp, id
  <2>1. /\ Decided(d, u) /\ Passed(u) /\ Fingerprinted(u) = {}
        /\ at'[s] = "demo" => Unlinked(u)
    BY <1>1, <1>7, OutcomeRowTold
  <2> HIDE DEF u
  <2> DEFINE v == u \cup {ActionRow("stream", fp)}
  <2>3. /\ Decided(d, v) /\ Passed(v)
        /\ \A p : p \in Fingerprinted(v) <=> p \in Fingerprinted(u) \/ p = fp
        /\ OfKind(v, "outcome") = OfKind(u, "outcome")
    BY <1>9, <2>1, ActionRowTold
  <2>2. rows'[s] = v
    BY <1>6 DEF u
  <2> HIDE DEF v
  <2> QED BY <2>1, <2>2, <2>3 DEF Unlinked
<1>11. SessionTold(s)'
  <2>1. decision'[s] = d /\ snap'[s] = snap[s] /\ call'[s] = call[s]
    BY <1>3
  <2> HIDE DEF d
  <2>2. Story(s, d, rows'[s])
    BY <1>1, <1>9, <1>10 DEF Story, Decided, fp
  <2>3. Story(s, decision[s], rows[s])'
    BY <2>1, <2>2 DEF Story
  <2>4. Decided(decision[s], rows[s])'
    BY <1>10, <2>1 DEF Decided, OfKind
  <2>5. /\ call'[s].live /\ Passed(rows[s])'
        /\ Fingerprinted(rows[s])' = {Fingerprint(s, decision'[s].action)}
        /\ at'[s] = "demo" => Unlinked(rows[s])'
    BY <1>1, <1>10, <2>1 DEF fp
  <2> QED BY <1>1, <1>6, <1>8, <2>1, <2>3, <2>4, <2>5 DEF SessionTold, InSession
<1> QED BY <1>1, <1>3, <1>6, <1>11, SilentTold

LEMMA ToldDemoLink ==
  ASSUME Typed, Told, NEW s \in Streams, DemoLink(s)
  PROVE  Told'
<1> DEFINE d == decision[s]
<1> DEFINE t == rows[s]
<1> DEFINE fp == Fingerprint(s, d.action)
<1> DEFINE demo == DemoPrint(s)
<1>1. /\ at[s] = "demo" /\ d \in Decisions
      /\ row[s].failure_class = d.class /\ snap[s].failure_class = "absent"
      /\ Decided(d, t) /\ Passed(t) /\ call[s].live
      /\ Fingerprinted(t) = {fp} /\ Unlinked(t)
  BY DEF DemoLink, Running, Typed, RunsTyped, Told, SessionTold, InSession
<1>2. /\ UNCHANGED <<cases, ledger, call, decision, snap, row>>
      /\ at'[s] = "commit"
      /\ rows'[s] = t \cup {ActionRow("stream", demo)}
      /\ \A x \in Streams \ {s} : at'[x] = at[x] /\ rows'[x] = rows[x]
  BY DEF DemoLink, Yield, DemoRows, DemoPrint, Typed, TypeOK, dbVars
<1>3. demo # None
  BY <1>1, Prints
<1>4. /\ Decided(d, rows'[s]) /\ Passed(rows'[s]) /\ Unlinked(rows'[s])
      /\ Fingerprinted(rows'[s]) = {fp, demo}
  <2> HIDE DEF d, t, fp, demo
  <2> DEFINE v == t \cup {ActionRow("stream", demo)}
  <2>1. /\ Decided(d, v) /\ Passed(v)
        /\ \A p : p \in Fingerprinted(v) <=> p \in Fingerprinted(t) \/ p = demo
        /\ OfKind(v, "outcome") = OfKind(t, "outcome")
    BY <1>1, <1>3, ActionRowTold
  <2>2. rows'[s] = v
    BY <1>2 DEF t
  <2> HIDE DEF v
  <2> QED BY <1>1, <2>1, <2>2 DEF Unlinked
<1>5. SessionTold(s)'
  <2>1. decision'[s] = d /\ snap'[s] = snap[s] /\ call'[s] = call[s] /\ row'[s] = row[s]
    BY <1>2
  <2> HIDE DEF d
  <2>2. Story(s, d, rows'[s])
    BY <1>1, <1>4 DEF Story, Decided, fp, demo
  <2>3. Story(s, decision[s], rows[s])'
    BY <2>1, <2>2 DEF Story
  <2>4. Decided(decision[s], rows[s])'
    BY <1>4, <2>1 DEF Decided, OfKind
  <2> QED BY <1>1, <1>2, <2>1, <2>3, <2>4 DEF SessionTold, InSession
<1> QED BY <1>1, <1>2, <1>5, SilentTold

\* The commit puts the session's rows on the ledger, and with them the diagnosis on
\* the case row: the column was absent when the session loaded it.
LEMMA ToldCommit ==
  ASSUME Typed, Told, NEW s \in Streams, Commit(s)
  PROVE  Told'
<1> DEFINE d == decision[s]
<1> DEFINE t == rows[s]
<1>1. /\ at[s] = "commit" /\ d \in Decisions
      /\ row[s].failure_class = d.class /\ snap[s].failure_class = "absent"
      /\ Decided(d, t) /\ Story(s, d, t) /\ Trail(s) = {} /\ cases[s] \in CaseRow
  BY DEF Commit, Running, Typed, RunsTyped, Told, SessionTold, TrailTold, InSession, Points
<1>2. /\ UNCHANGED <<call, decision, snap, row, rows>>
      /\ at'[s] = "tell"
      /\ ledger'[s] = ledger[s] \cup t
      /\ cases'[s] = Merge(snap[s], row[s], cases[s])
      /\ \A x \in Streams \ {s} : /\ at'[x] = at[x] /\ cases'[x] = cases[x]
                                  /\ ledger'[x] = ledger[x]
  BY DEF Commit, Yield, Typed, TypeOK, sessionVars
<1>3. Trail(s)' = t
  <2>1. \A x \in t : x.by = "stream" /\ x # EventRow("stream")
    BY <1>1 DEF Decided
  <2>2. \A x \in ledger[s] : x.by = "stream" => x = EventRow("stream")
    BY <1>1 DEF Trail
  <2> HIDE DEF t
  <2> QED BY <1>2, <2>1, <2>2 DEF Trail
<1>4. t # {}
  BY <1>1 DEF Decided, OfKind
<1>5. cases'[s].failure_class = d.class
  <2>1. d.class # "absent"
    BY <1>1, AgentRowsType DEF Decision
  <2>2. "failure_class" \in DOMAIN cases[s]
    BY <1>1 DEF CaseRow
  <2> HIDE DEF d
  <2>3. Merge(snap[s], row[s], cases[s]).failure_class = d.class
    BY <1>1, <2>1, <2>2 DEF Merge
  <2> QED BY <1>2, <2>3
<1>6. Story(s, d, t)'
  <2> SUFFICES Story(s, d, t)
    BY <1>2 DEF Story
  <2> QED BY <1>1
<1>7. TrailTold(s)'
  <2>1. d' = d /\ t' = t
    BY <1>2
  <2>2. Story(s, d, Trail(s))'
    BY <1>2, <1>3, <1>6 DEF Story
  <2> QED BY <1>1, <1>2, <1>3, <1>4, <1>5, <2>1, <2>2 DEF TrailTold
<1>8. SessionTold(s)'
  BY <1>2 DEF SessionTold, InSession
<1> QED BY <1>2, <1>7, <1>8, RunTold

\* A run that ends drops its session and leaves the database as it is.
LEMMA ToldEnd ==
  ASSUME Typed, Told, NEW s \in Streams, NEW how \in Ended, End(s, how),
         UNCHANGED <<cases, ledger, call>>,
         how = "done" => at[s] = "tell",
         how = "failed" => at[s] \in {"open", "persist"}
  PROVE  Told'
<1>1. /\ at'[s] = how
      /\ \A x \in Streams \ {s} :
           /\ at'[x] = at[x] /\ decision'[x] = decision[x] /\ snap'[x] = snap[x]
           /\ row'[x] = row[x] /\ rows'[x] = rows[x]
  BY DEF End, Typed, TypeOK
<1>2. SessionTold(s)'
  BY <1>1 DEF SessionTold, InSession, Ended
<1> QED BY <1>1, <1>2, SilentTold DEF Ended

LEMMA ToldTell ==
  ASSUME Typed, Told, NEW s \in Streams, Tell(s)
  PROVE  Told'
BY ToldEnd DEF Tell, Running, Ended, dbVars

LEMMA ToldLockTimeout ==
  ASSUME Typed, Told, NEW s \in Streams, LockTimeout(s)
  PROVE  Told'
BY ToldEnd DEF LockTimeout, Running, Ended, dbVars

LEMMA ToldDisconnect ==
  ASSUME Typed, Told, NEW s \in Streams, Disconnect(s)
  PROVE  Told'
BY ToldEnd DEF Disconnect, Ended, dbVars

LEMMA ToldRestart ==
  ASSUME Typed, Told, Restart
  PROVE  Told'
<1> SUFFICES ASSUME NEW x \in Streams PROVE TrailTold(x)' /\ SessionTold(x)'
  BY DEF Told
<1>1. CASE at[x] \in Points
  <2>1. at'[x] = "gone" /\ UNCHANGED <<cases, ledger, call>>
    BY <1>1 DEF Restart, dbVars
  <2>2. Trail(x)' = Trail(x)
    BY <2>1 DEF Trail
  <2>3. TrailTold(x)'
    BY <2>1, <2>2, TrailKept DEF Told
  <2> QED BY <2>1, <2>3 DEF SessionTold, InSession
<1>2. CASE at[x] \notin Points
  <2>1. /\ at'[x] = at[x] /\ decision'[x] = decision[x] /\ snap'[x] = snap[x]
        /\ row'[x] = row[x] /\ rows'[x] = rows[x]
    BY <1>2 DEF Restart
  <2>2. UNCHANGED <<cases, ledger, call>>
    BY DEF Restart, dbVars
  <2> QED BY <2>1, <2>2, ToldKept DEF Told
<1> QED BY <1>1, <1>2

\* Who writes a case beside its run leaves the trail and the diagnosis.
LEMMA WriterTold ==
  ASSUME Told, NEW s \in Streams, NEW n,
         UNCHANGED <<at, call, decision, snap, row, rows>>,
         ledger'[s] = ledger[s] \cup n, \A r \in n : r.by # "stream",
         cases[s] # None, cases'[s] # None,
         cases'[s].failure_class = cases[s].failure_class,
         \A x \in Streams \ {s} : cases'[x] = cases[x] /\ ledger'[x] = ledger[x]
  PROVE  Told'
<1>1. Trail(s)' = Trail(s)
  BY TrailAppended
<1>2. /\ at[s] \in {"tell", "done"} => Trail(s) # {}
      /\ at[s] \notin {"tell", "done", "gone"} => Trail(s) = {}
  BY DEF Told, TrailTold
<1>3. TrailTold(s)'
  BY <1>1, <1>2, TrailKept DEF Told
<1>4. SessionTold(s)'
  BY DEF Told, SessionTold, Story
<1> QED BY <1>3, <1>4, RunTold

LEMMA ToldPressButton ==
  ASSUME Typed, Told, NEW s \in Streams, PressButton(s)
  PROVE  Told'
<1> DEFINE c == cases[s]
<1> DEFINE action == LinkAction("UI_CREATE_LINK")
<1> DEFINE checks == RunGates(Context(s, c, action, "card_expired", Daytime, {}))
<1>1. c \in CaseRow /\ c # None
  BY DEF PressButton, Typed, TypeOK, Option
<1>2. UNCHANGED <<at, call, decision, snap, row, rows>>
  BY DEF PressButton, sessionVars
<1>3. action.verb \in Verbs
  BY LinkActionType DEF Action
<1>4. \A st \in Statuses :
        LET b == [c EXCEPT !.status = st] IN
        b \in CaseRow /\ b.failure_class = c.failure_class /\ b # None
  <2> HIDE DEF c
  <2>1. \A st \in Statuses :
          LET b == [c EXCEPT !.status = st] IN
          b \in CaseRow /\ b.failure_class = c.failure_class
    BY <1>1 DEF CaseRow
  <2> QED BY <2>1, NoneAssumption
<1>5. CASE /\ ledger' = [ledger EXCEPT ![s] = @ \cup {GateRow("button", checks)}]
           /\ cases' = [cases EXCEPT ![s].status = "blocked"]
  <2> DEFINE n == {GateRow("button", checks)}
  <2> DEFINE e == [c EXCEPT !.status = "blocked"]
  <2>1. e # None /\ e.failure_class = c.failure_class
    BY <1>4 DEF Statuses
  <2>2. \A r \in n : r.by # "stream"
    BY DEF GateRow
  <2>3. cases' = [cases EXCEPT ![s] = e]
    BY <1>5
  <2> HIDE DEF e
  <2>4. /\ ledger'[s] = ledger[s] \cup n
        /\ cases'[s] = e
        /\ \A x \in Streams \ {s} : cases'[x] = cases[x] /\ ledger'[x] = ledger[x]
    BY <1>5, <2>3 DEF Typed, TypeOK
  <2> HIDE DEF n
  <2> QED BY <1>1, <1>2, <2>1, <2>2, <2>4, WriterTold DEF c
<1>6. ASSUME NEW o \in RazorpayExecutor("send_payment_link"), NEW l \in Links,
             ledger' = [ledger EXCEPT ![s] = @ \cup
               {GateRow("button", checks), ActionRow("button", Fingerprint(s, action)),
                OutcomeRow("button", o.status, IF o.effect = "link" THEN l ELSE None)}],
             cases' = [cases EXCEPT ![s] =
                AfterResult([c EXCEPT !.status = "open"], action.verb, o)]
      PROVE  Told'
  <2> DEFINE n ==
        {GateRow("button", checks), ActionRow("button", Fingerprint(s, action)),
         OutcomeRow("button", o.status, IF o.effect = "link" THEN l ELSE None)}
  <2> DEFINE b == [c EXCEPT !.status = "open"]
  <2> DEFINE e == AfterResult(b, action.verb, o)
  <2>1. b \in CaseRow /\ b.failure_class = c.failure_class
    BY <1>4 DEF Statuses
  <2>2. o.recovered \in BOOLEAN
    BY ResultType DEF Verbs
  <2>3. e \in CaseRow /\ e.failure_class = c.failure_class
    <3> HIDE DEF b, c, action
    <3> QED BY <1>3, <2>1, <2>2, AfterResultType
  <2>4. e # None
    BY <2>3, NoneAssumption
  <2>5. \A r \in n : r.by # "stream"
    BY DEF GateRow, ActionRow, OutcomeRow
  <2>6. /\ ledger'[s] = ledger[s] \cup n
        /\ cases'[s] = e
        /\ \A x \in Streams \ {s} : cases'[x] = cases[x] /\ ledger'[x] = ledger[x]
    BY <1>6 DEF Typed, TypeOK
  <2> HIDE DEF n, e
  <2> QED BY <1>1, <1>2, <2>3, <2>4, <2>5, <2>6, WriterTold DEF c
<1> QED BY <1>5, <1>6 DEF PressButton

LEMMA ToldRecordPaid ==
  ASSUME Typed, Told, RecordPaid
  PROVE  Told'
<1> DEFINE c == links[hook].case
<1>1. hook \in Links /\ hookSnap \in CaseRow /\ c \in Streams
      /\ cases[c] \in CaseRow /\ cases[c] # None
  BY NoneAssumption DEF RecordPaid, Typed, TypeOK, HookTyped, Option
<1> DEFINE m == Merge(hookSnap, PaidCase(hookSnap), cases[c])
<1>2. m \in CaseRow /\ m.failure_class = cases[c].failure_class
  <2>1. PaidCase(hookSnap) \in CaseRow
        /\ PaidCase(hookSnap).failure_class = hookSnap.failure_class
    BY <1>1, PaidCaseType
  <2>2. "failure_class" \in DOMAIN cases[c]
    BY <1>1 DEF CaseRow
  <2> HIDE DEF c
  <2>3. m.failure_class = cases[c].failure_class
    BY <2>1, <2>2 DEF Merge
  <2> QED BY <1>1, <2>1, <2>3, MergeType
<1>3. m # None
  BY <1>2, NoneAssumption
<1>4. \A r \in PaidRows(hook) : r.by # "stream"
  BY DEF PaidRows, EventRow, OutcomeRow, StopRow
<1>5. /\ UNCHANGED <<at, call, decision, snap, row, rows>>
      /\ ledger'[c] = ledger[c] \cup PaidRows(hook)
      /\ cases'[c] = m
      /\ \A x \in Streams \ {c} : cases'[x] = cases[x] /\ ledger'[x] = ledger[x]
  BY <1>1 DEF RecordPaid, Typed, TypeOK, sessionVars
<1> HIDE DEF c, m
<1> QED BY <1>1, <1>2, <1>3, <1>4, <1>5, WriterTold

LEMMA ToldNext == Typed /\ Told /\ [Next]_vars => Told'
<1> SUFFICES ASSUME Typed, Told, [Next]_vars PROVE Told'
  OBVIOUS
<1>1. ASSUME NEW s \in Streams,
             \/ Request(s) \/ Resume(s) \/ Run(s) \/ Disconnect(s) \/ PressButton(s)
      PROVE  Told'
  BY <1>1, ToldRequest, ToldResume, ToldOpenCase, ToldThink, ToldLoadCase,
     ToldPersist, ToldGate, ToldExecute, ToldDemoLink, ToldCommit, ToldTell,
     ToldLockTimeout, ToldDisconnect, ToldPressButton DEF Run
<1>2. CASE RecordPaid
  BY <1>2, ToldRecordPaid
<1>3. CASE Restart
  BY <1>3, ToldRestart
<1>4. ASSUME UNCHANGED <<cases, ledger, at, call, decision, snap, row, rows>>
      PROVE  Told'
  <2>1. ASSUME NEW x \in Streams PROVE TrailTold(x)' /\ SessionTold(x)'
    BY <1>4, ToldKept DEF Told
  <2> QED BY <2>1 DEF Told
<1>5. ASSUME NEW l \in Links, PayLink(l) \/ DeliverPaid(l) PROVE Told'
  BY <1>4, <1>5 DEF PayLink, DeliverPaid, dbVars, sessionVars
<1>6. CASE HookTimeout \/ UNCHANGED vars
  BY <1>4, <1>6 DEF HookTimeout, vars, dbVars, sessionVars
<1> QED BY <1>1, <1>2, <1>3, <1>5, <1>6 DEF Next

\* No run leaves half a trail, and none leaves a trail about another decision, another
\* diagnosis or another action than its own, however the commits of the runs, the
\* button and the webhook interleave and wherever a run is cut off.
THEOREM TrailsAreWhole == Spec => []TrailIsWhole
<1>1. Told => TrailIsWhole
  BY DEF TrailIsWhole, Told, TrailTold, Story, Passed, Unlinked, DemoPrint
<1>2. Spec => []Told
  BY ToldInit, ToldNext, TypedAlways, PTL DEF Spec
<1> QED BY <1>1, <1>2, PTL

-----------------------------------------------------------------------------
(***************************************************************************)
(* Links.  The row that says why a link exists is on the ledger, or among  *)
(* the rows of the session that created it, or was lost with that session. *)
(***************************************************************************)
Explains(t, l) ==
  \E x \in OfKind(t, "action") : x.action_fingerprint = links[l].created_for

Uncommitted == {"demo", "commit"}

LinkExplained(l) ==
  LET s == links[l].case IN
  s # None =>
    \/ Explains(ledger[s], l)
    \/ at[s] \in Uncommitted /\ Explains(rows[s], l)
    \/ at[s] = "gone" /\ Trail(s) = {}

\* Before the first commit there is no case a link could name.
Unopened == \A s \in Streams : at[s] \in {"idle", "open"} => cases[s] = None

Linked == Unopened /\ \A l \in Links : LinkExplained(l)

LEMMA LinkedImpliesOnTrail == Typed /\ Told /\ Linked => LinksOnTrail
<1> SUFFICES ASSUME Typed, Told, Linked, NEW l \in Links, links[l].case # None
             PROVE  \/ \E x \in OfKind(ledger[links[l].case], "action") :
                         x.action_fingerprint = links[l].created_for
                    \/ Trail(links[l].case) = {}
  BY DEF LinksOnTrail
<1>1. links[l].case \in Streams
  BY DEF Typed, TypeOK, Option
<1> QED BY <1>1 DEF Linked, LinkExplained, Explains, Told, TrailTold, Uncommitted

\* What a step has to leave of the run a link was created by.
RunKept(s) ==
  /\ ledger[s] \subseteq ledger'[s]
  /\ at[s] \in Uncommitted =>
       \/ at'[s] \in Uncommitted /\ rows[s] \subseteq rows'[s]
       \/ rows[s] \subseteq ledger'[s]
       \/ at'[s] = "gone" /\ Trail(s)' = {}
  /\ at[s] = "gone" /\ Trail(s) = {} => at'[s] = "gone" /\ Trail(s)' = {}

\* Nothing happened to the run.
LEMMA RunUntouched ==
  ASSUME NEW s \in Streams,
         at'[s] = at[s], rows'[s] = rows[s], ledger'[s] = ledger[s]
  PROVE  RunKept(s)
<1>1. Trail(s)' = Trail(s)
  BY DEF Trail
<1> QED BY <1>1 DEF RunKept

LEMMA LinksKept ==
  ASSUME Typed, Linked, NEW new \in SUBSET Links,
         \A s \in Streams : cases[s] # None => RunKept(s),
         \A l \in Links \ new : links'[l].case = links[l].case
                                /\ links'[l].created_for = links[l].created_for,
         \A l \in new : LinkExplained(l)'
  PROVE  \A l \in Links : LinkExplained(l)'
<1> SUFFICES ASSUME NEW l \in Links \ new, links'[l].case # None
             PROVE  LinkExplained(l)'
  BY DEF LinkExplained
<1>0. links'[l].case = links[l].case /\ links'[l].created_for = links[l].created_for
  OBVIOUS
<1>1. PICK s \in Streams : s = links[l].case /\ cases[s] # None
  BY <1>0, NoneAssumption DEF Typed, TypeOK, HookTyped, Option
<1>2. RunKept(s) /\ links'[l].case = s /\ s # None
  BY <1>0, <1>1
<1>3. LinkExplained(l)
  BY DEF Linked
<1>4. \/ Explains(ledger[s], l)
      \/ at[s] \in Uncommitted /\ Explains(rows[s], l)
      \/ at[s] = "gone" /\ Trail(s) = {}
  BY <1>1, <1>2, <1>3 DEF LinkExplained
<1> DEFINE Rows(t) == \E x \in OfKind(t, "action") : x.action_fingerprint = links'[l].created_for
<1>5. \A t, u : t \subseteq u /\ Explains(t, l) => Rows(u)
  BY <1>0 DEF Explains, OfKind
<1> HIDE DEF Rows
<1>6. \/ Rows(ledger'[s])
      \/ at'[s] \in Uncommitted /\ Rows(rows'[s])
      \/ at'[s] = "gone" /\ Trail(s)' = {}
  BY <1>2, <1>4, <1>5 DEF RunKept
<1>7. \/ Explains(ledger[s], l)'
      \/ at'[s] \in Uncommitted /\ Explains(rows[s], l)'
      \/ at'[s] = "gone" /\ Trail(s)' = {}
  BY <1>6 DEF Rows, Explains
<1>8. LinkExplained(l)' = (LET c == s IN
        \/ Explains(ledger[c], l)'
        \/ at'[c] \in Uncommitted /\ Explains(rows[c], l)'
        \/ at'[c] = "gone" /\ Trail(c)' = {})
  BY <1>2 DEF LinkExplained, Explains, Trail
<1> QED BY <1>7, <1>8

\* The steps that create no link.
LEMMA NoNewLink ==
  ASSUME Typed, Linked, UNCHANGED links,
         \A s \in Streams : cases[s] # None => RunKept(s)
  PROVE  \A l \in Links : LinkExplained(l)'
<1>1. {} \in SUBSET Links
  OBVIOUS
<1> QED BY <1>1, LinksKept

\* A call to the provider that reached it made a link, for this case and action.
LEMMA CallExplained ==
  ASSUME Typed, Linked, NEW s \in Streams, NEW o, NEW m \in Links, NEW fp,
         CallProvider(s, o, m, fp),
         \A x \in Streams : cases[x] # None => RunKept(x),
         \/ ActionRow("stream", fp) \in rows'[s] /\ at'[s] \in Uncommitted
         \/ ActionRow("button", fp) \in ledger'[s]
  PROVE  \A l \in Links : LinkExplained(l)'
<1>1. CASE UNCHANGED links
  BY <1>1, NoNewLink
<1>2. CASE links' = [links EXCEPT ![m] = [case |-> s, created_for |-> fp, paid |-> FALSE]]
  <2>1. links'[m].case = s /\ links'[m].created_for = fp
        /\ \A l \in Links \ {m} : links'[l] = links[l]
    BY <1>2 DEF Typed, TypeOK
  <2>2. \A by : ActionRow(by, fp).kind = "action"
                /\ ActionRow(by, fp).action_fingerprint = fp
    BY DEF ActionRow
  <2>3. LinkExplained(m)'
    BY <2>1, <2>2 DEF LinkExplained, Explains, OfKind
  <2>4. {m} \in SUBSET Links
    OBVIOUS
  <2> QED BY <2>1, <2>3, <2>4, LinksKept
<1> QED BY <1>1, <1>2 DEF CallProvider

LEMMA UnopenedNext ==
  ASSUME Typed, Unopened, [Next]_vars
  PROVE  Unopened'
<1> SUFFICES ASSUME NEW x \in Streams, at'[x] \in {"idle", "open"}
             PROVE  cases'[x] = None
  BY DEF Unopened
<1>1. ASSUME NEW s \in Streams, Request(s) \/ Resume(s) \/ Think(s) \/ LoadCase(s)
                                \/ Persist(s) \/ Gate(s)
      PROVE  cases'[x] = None
  <2>1. UNCHANGED cases /\ (at'[x] = at[x] \/ at[x] = "idle" \/ at'[x] \notin {"idle", "open"})
    BY <1>1 DEF Request, Resume, Think, LoadCase, Persist, Gate, GoOn, Yield, dbVars,
                Typed, TypeOK
  <2> QED BY <2>1 DEF Unopened
<1>2. ASSUME NEW s \in Streams, Execute(s) \/ DemoLink(s) \/ Tell(s) \/ LockTimeout(s)
                                \/ Disconnect(s)
      PROVE  cases'[x] = None
  <2>1. UNCHANGED cases /\ (at'[x] = at[x] \/ at'[x] \notin {"idle", "open"})
    BY <1>2 DEF Execute, DemoLink, Tell, LockTimeout, Disconnect, End, GoOn, Yield, dbVars,
                Typed, TypeOK
  <2> QED BY <2>1 DEF Unopened
<1>3. ASSUME NEW s \in Streams, OpenCase(s) \/ Commit(s)
      PROVE  cases'[x] = None
  <2>1. at'[s] \in {"think", "tell"}
        /\ (x # s => at'[x] = at[x] /\ cases'[x] = cases[x])
    BY <1>3 DEF OpenCase, Commit, Yield, Typed, TypeOK
  <2> QED BY <2>1 DEF Unopened
<1>4. ASSUME NEW s \in Streams, PressButton(s)
      PROVE  cases'[x] = None
  <2>1. cases[s] # None /\ UNCHANGED at /\ (x # s => cases'[x] = cases[x])
    BY <1>4 DEF PressButton, Typed, TypeOK
  <2> QED BY <2>1 DEF Unopened
<1>5. CASE RecordPaid
  <2> DEFINE c == links[hook].case
  <2>1. cases[c] # None /\ UNCHANGED at /\ (x # c => cases'[x] = cases[x])
    BY <1>5, NoneAssumption DEF RecordPaid, Typed, TypeOK, HookTyped, Option
  <2> QED BY <2>1 DEF Unopened
<1>6. CASE Restart
  <2>1. UNCHANGED cases /\ (at'[x] = at[x] \/ at'[x] = "gone")
    BY <1>6 DEF Restart, dbVars
  <2> QED BY <2>1 DEF Unopened
<1>7. ASSUME UNCHANGED <<cases, at>> PROVE cases'[x] = None
  BY <1>7 DEF Unopened
<1>8. ASSUME NEW l \in Links, PayLink(l) \/ DeliverPaid(l) PROVE cases'[x] = None
  BY <1>7, <1>8 DEF PayLink, DeliverPaid, dbVars
<1>9. CASE HookTimeout \/ UNCHANGED vars
  BY <1>7, <1>9 DEF HookTimeout, vars, dbVars
<1> QED BY <1>1, <1>2, <1>3, <1>4, <1>5, <1>6, <1>8, <1>9 DEF Next, Run

LEMMA LinkedRun ==
  ASSUME Typed, Told, Linked, NEW s \in Streams,
         Request(s) \/ Resume(s) \/ Run(s) \/ Disconnect(s)
  PROVE  \A l \in Links : LinkExplained(l)'
<1>1. ASSUME NEW x \in Streams \ {s}
      PROVE  at'[x] = at[x] /\ rows'[x] = rows[x] /\ ledger'[x] = ledger[x]
  <2>1. CASE Request(s) \/ Resume(s) \/ OpenCase(s) \/ Think(s) \/ LoadCase(s) \/ Persist(s)
    BY <2>1 DEF Request, Resume, OpenCase, Think, LoadCase, Persist, GoOn, Yield,
                dbVars, sessionVars, Typed, TypeOK
  <2>2. CASE Gate(s)
    BY <2>2 DEF Gate, GoOn, Yield, dbVars, Typed, TypeOK
  <2>3. CASE Execute(s) \/ DemoLink(s)
    BY <2>3 DEF Execute, DemoLink, GoOn, Yield, dbVars, Typed, TypeOK
  <2>4. CASE Commit(s)
    BY <2>4 DEF Commit, Yield, sessionVars, Typed, TypeOK
  <2>5. CASE Tell(s) \/ LockTimeout(s) \/ Disconnect(s)
    BY <2>5 DEF Tell, LockTimeout, Disconnect, End, dbVars, Typed, TypeOK
  <2> QED BY <2>1, <2>2, <2>3, <2>4, <2>5 DEF Run
<1>2. \A x \in Streams \ {s} : RunKept(x)
  BY <1>1, RunUntouched
<1>3. CASE Request(s) \/ Resume(s) \/ Think(s) \/ LoadCase(s) \/ Persist(s)
  <2>1. UNCHANGED <<ledger, links>>
    BY <1>3 DEF Request, Resume, Think, LoadCase, Persist, dbVars, providerVars
  <2>2. \/ at[s] \in {"idle", "think", "load", "persist"}
        \/ UNCHANGED <<at, rows>> /\ at[s] # "gone"
    BY <1>3 DEF Request, Resume, Think, LoadCase, Persist, Running, sessionVars, Points
  <2>3. RunKept(s)
    BY <2>1, <2>2 DEF RunKept, Uncommitted
  <2> QED BY <1>2, <2>1, <2>3, NoNewLink
<1>4. CASE OpenCase(s)
  <2>1. cases[s] = None /\ UNCHANGED links
    BY <1>4 DEF OpenCase, Running, Linked, Unopened, providerVars
  <2> QED BY <1>2, <2>1, NoNewLink
<1>5. CASE Gate(s) \/ Tell(s) \/ LockTimeout(s)
  <2>1. UNCHANGED <<ledger, links>> /\ at[s] \in {"gate", "tell", "open", "persist"}
    BY <1>5 DEF Gate, Tell, LockTimeout, Running, dbVars, providerVars
  <2>2. RunKept(s)
    BY <2>1 DEF RunKept, Uncommitted
  <2> QED BY <1>2, <2>1, <2>2, NoNewLink
<1>6. CASE Execute(s)
  <2> DEFINE fp == Fingerprint(s, GatedAction(s))
  <2>1. PICK o \in LiveResults(GatedAction(s).verb), l \in Links :
          /\ CallProvider(s, o, l, fp)
          /\ rows' = [rows EXCEPT ![s] = @ \cup
               {OutcomeRow("stream", o.status, IF o.effect = "link" THEN l ELSE None),
                ActionRow("stream", fp)}]
          /\ \/ GoOn(s, "demo") \/ Yield(s, "commit")
    BY <1>6 DEF Execute
  <2>2. at[s] = "execute" /\ UNCHANGED ledger
    BY <1>6 DEF Execute, Running, dbVars
  <2>3. RunKept(s)
    BY <2>2 DEF RunKept, Uncommitted
  <2>4. ActionRow("stream", fp) \in rows'[s] /\ at'[s] \in Uncommitted
    BY <2>1 DEF GoOn, Yield, Uncommitted, Typed, TypeOK
  <2> HIDE DEF fp
  <2> QED BY <1>2, <2>1, <2>3, <2>4, CallExplained
<1>7. CASE DemoLink(s)
  <2> DEFINE fp == Fingerprint(s, LinkAction("UI_DEMO_LINK_NOT_GATED"))
  <2>1. PICK o \in RazorpayExecutor("send_payment_link"), l \in Links :
          CallProvider(s, o, l, fp)
    BY <1>7 DEF DemoLink
  <2>2. /\ at[s] = "demo" /\ UNCHANGED ledger /\ at'[s] = "commit"
        /\ rows'[s] = rows[s] \cup {ActionRow("stream", fp)}
    BY <1>7 DEF DemoLink, Running, Yield, DemoRows, dbVars, Typed, TypeOK
  <2> HIDE DEF fp
  <2>3. RunKept(s)
    BY <2>2 DEF RunKept, Uncommitted
  <2>4. ActionRow("stream", fp) \in rows'[s] /\ at'[s] \in Uncommitted
    BY <2>2 DEF Uncommitted
  <2> QED BY <1>2, <2>1, <2>3, <2>4, CallExplained
<1>8. CASE Commit(s)
  <2>1. /\ ledger'[s] = ledger[s] \cup rows[s] /\ at[s] = "commit" /\ UNCHANGED links
    BY <1>8 DEF Commit, Running, providerVars, Typed, TypeOK
  <2>2. RunKept(s)
    BY <2>1 DEF RunKept
  <2> QED BY <1>2, <2>1, <2>2, NoNewLink
<1>9. CASE Disconnect(s)
  <2>1. UNCHANGED <<ledger, links>> /\ at'[s] = "gone" /\ at[s] \in Points
    BY <1>9 DEF Disconnect, End, dbVars, providerVars, Typed, TypeOK
  <2>2. at[s] \in Uncommitted => Trail(s) = {}
    BY DEF Told, TrailTold, Uncommitted
  <2>3. Trail(s)' = Trail(s)
    BY <2>1 DEF Trail
  <2>4. RunKept(s)
    BY <2>1, <2>2, <2>3 DEF RunKept, Points
  <2> QED BY <1>2, <2>1, <2>4, NoNewLink
<1> QED BY <1>3, <1>4, <1>5, <1>6, <1>7, <1>8, <1>9 DEF Run

\* Rows of others on the ledger of a case.
LEMMA WriterKept ==
  ASSUME NEW s \in Streams, NEW n, UNCHANGED <<at, rows>>,
         ledger'[s] = ledger[s] \cup n, \A r \in n : r.by # "stream",
         \A x \in Streams \ {s} : ledger'[x] = ledger[x]
  PROVE  \A x \in Streams : RunKept(x)
<1>1. Trail(s)' = Trail(s)
  BY TrailAppended
<1>2. RunKept(s)
  BY <1>1 DEF RunKept
<1>3. \A x \in Streams \ {s} : RunKept(x)
  BY RunUntouched
<1> QED BY <1>2, <1>3

LEMMA LinkedPressButton ==
  ASSUME Typed, Linked, NEW s \in Streams, PressButton(s)
  PROVE  \A l \in Links : LinkExplained(l)'
<1> DEFINE c == cases[s]
           action == LinkAction("UI_CREATE_LINK")
           fp == Fingerprint(s, action)
           checks == RunGates(Context(s, c, action, "card_expired", Daytime, {}))
<1>1. UNCHANGED <<at, rows>>
  BY DEF PressButton, sessionVars
<1>2. CASE /\ ledger' = [ledger EXCEPT ![s] = @ \cup {GateRow("button", checks)}]
           /\ UNCHANGED links
  <2> DEFINE n == {GateRow("button", checks)}
  <2>1. \A r \in n : r.by # "stream"
    BY DEF GateRow
  <2>2. ledger'[s] = ledger[s] \cup n /\ \A x \in Streams \ {s} : ledger'[x] = ledger[x]
    BY <1>2 DEF Typed, TypeOK
  <2> HIDE DEF n
  <2>3. \A x \in Streams : RunKept(x)
    BY <1>1, <2>1, <2>2, WriterKept
  <2> QED BY <1>2, <2>3, NoNewLink
<1>3. ASSUME NEW o \in RazorpayExecutor("send_payment_link"), NEW l \in Links,
             CallProvider(s, o, l, fp),
             ledger' = [ledger EXCEPT ![s] = @ \cup
               {GateRow("button", checks), ActionRow("button", fp),
                OutcomeRow("button", o.status, IF o.effect = "link" THEN l ELSE None)}]
      PROVE  \A m \in Links : LinkExplained(m)'
  <2> DEFINE n ==
        {GateRow("button", checks), ActionRow("button", fp),
         OutcomeRow("button", o.status, IF o.effect = "link" THEN l ELSE None)}
  <2>1. \A r \in n : r.by # "stream"
    BY DEF GateRow, ActionRow, OutcomeRow
  <2>2. /\ ledger'[s] = ledger[s] \cup n /\ ActionRow("button", fp) \in n
        /\ \A x \in Streams \ {s} : ledger'[x] = ledger[x]
    BY <1>3 DEF Typed, TypeOK
  <2> HIDE DEF n
  <2>3. \A x \in Streams : RunKept(x)
    BY <1>1, <2>1, <2>2, WriterKept
  <2> HIDE DEF fp
  <2> QED BY <1>3, <2>2, <2>3, CallExplained
<1> QED BY <1>2, <1>3 DEF PressButton

LEMMA LinkedNext == Typed /\ Told /\ Linked /\ [Next]_vars => Linked'
<1> SUFFICES ASSUME Typed, Told, Linked, [Next]_vars
             PROVE  \A l \in Links : LinkExplained(l)'
  BY UnopenedNext DEF Linked
<1>1. ASSUME NEW s \in Streams, Request(s) \/ Resume(s) \/ Run(s) \/ Disconnect(s)
      PROVE  \A l \in Links : LinkExplained(l)'
  BY <1>1, LinkedRun
<1>2. ASSUME NEW s \in Streams, PressButton(s) PROVE \A l \in Links : LinkExplained(l)'
  BY <1>2, LinkedPressButton
<1>3. CASE RecordPaid
  <2> DEFINE c == links[hook].case
  <2>1. c \in Streams
    BY <1>3 DEF RecordPaid, Typed, TypeOK, HookTyped, Option
  <2>2. \A r \in PaidRows(hook) : r.by # "stream"
    BY DEF PaidRows, EventRow, OutcomeRow, StopRow
  <2>3. /\ UNCHANGED <<at, rows, links>>
        /\ ledger'[c] = ledger[c] \cup PaidRows(hook)
        /\ \A x \in Streams \ {c} : ledger'[x] = ledger[x]
    BY <1>3, <2>1 DEF RecordPaid, Typed, TypeOK, sessionVars
  <2> HIDE DEF c
  <2>4. \A x \in Streams : RunKept(x)
    BY <2>1, <2>2, <2>3, WriterKept
  <2> QED BY <2>3, <2>4, NoNewLink
<1>4. CASE Restart
  <2>1. UNCHANGED <<ledger, links>>
    BY <1>4 DEF Restart, dbVars, providerVars
  <2>2. ASSUME NEW x \in Streams PROVE RunKept(x)
    <3>1. Trail(x)' = Trail(x)
      BY <2>1 DEF Trail
    <3>2. at[x] \in Uncommitted => Trail(x) = {}
      BY DEF Told, TrailTold, Uncommitted
    <3>3. at'[x] = IF at[x] \in Points THEN "gone" ELSE at[x]
      BY <1>4 DEF Restart
    <3> QED BY <2>1, <3>1, <3>2, <3>3 DEF RunKept, Uncommitted, Points
  <2> QED BY <2>1, <2>2, NoNewLink
<1>5. ASSUME UNCHANGED <<at, rows, ledger>>,
             \A l \in Links : links'[l].case = links[l].case
                              /\ links'[l].created_for = links[l].created_for
      PROVE  \A l \in Links : LinkExplained(l)'
  <2>1. \A x \in Streams : RunKept(x)
    BY <1>5, RunUntouched
  <2>2. {} \in SUBSET Links
    OBVIOUS
  <2> QED BY <1>5, <2>1, <2>2, LinksKept
<1>6. ASSUME NEW l \in Links, PayLink(l) PROVE \A m \in Links : LinkExplained(m)'
  <2>1. UNCHANGED <<at, rows, ledger>>
    BY <1>6 DEF PayLink, dbVars, sessionVars
  <2>2. \A m \in Links : links'[m].case = links[m].case
                         /\ links'[m].created_for = links[m].created_for
    <3>1. links' = [links EXCEPT ![l] = [links[l] EXCEPT !.paid = TRUE]]
      BY <1>6 DEF PayLink
    <3>2. [links[l] EXCEPT !.paid = TRUE].case = links[l].case
          /\ [links[l] EXCEPT !.paid = TRUE].created_for = links[l].created_for
      BY DEF Typed, TypeOK
    <3> QED BY <3>1, <3>2 DEF Typed, TypeOK
  <2> QED BY <1>5, <2>1, <2>2
<1>7. ASSUME NEW l \in Links, DeliverPaid(l) PROVE \A m \in Links : LinkExplained(m)'
  BY <1>5, <1>7 DEF DeliverPaid, dbVars, sessionVars, providerVars
<1>8. CASE HookTimeout \/ UNCHANGED vars
  BY <1>5, <1>8 DEF HookTimeout, vars, dbVars, sessionVars, providerVars
<1> QED BY <1>1, <1>2, <1>3, <1>4, <1>6, <1>7, <1>8 DEF Next

\* A link the payer can pay has an action row on its case that says why, also a link
\* whose answer was lost and the page's own; the only ones without are those of runs
\* that have not committed or never will.
THEOREM LinksStayOnTrail == Spec => []LinksOnTrail
<1>1. Init => Linked
  BY DEF Init, Linked, Unopened, LinkExplained
<1>2. Spec => [](Typed /\ Told /\ Linked)
  BY <1>1, ToldInit, ToldNext, TypedAlways, LinkedNext, PTL DEF Spec
<1>3. Typed /\ Told /\ Linked => LinksOnTrail
  BY LinkedImpliesOnTrail
<1> QED BY <1>2, <1>3, PTL
=============================================================================
