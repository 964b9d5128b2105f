----------------------------- MODULE EvalProofs ------------------------------
(***************************************************************************)
(* Proofs about EvalRuns: its types; overrides that are bound belong to a  *)
(* request that will clear them; a run that overlapped nobody with         *)
(* overrides was scored with its own costs; a run a client was told of is  *)
(* found again; and the break-even of a page that overlapped nobody with   *)
(* overrides is a true one.                                                *)
(*                                                                         *)
(* Every step but Begin, the global ones and Restart moves one request and *)
(* leaves the others as they are, so each part of the invariant is proved  *)
(* for the request that moves and for the rest.                            *)
(***************************************************************************)
EXTENDS EvalRuns, TLAPS

-----------------------------------------------------------------------------
(***************************************************************************)
(* Types.                                                                  *)
(***************************************************************************)
PCs == {"idle", "set", "contains", "fetch", "clear", "clear_failed", "get_store",
        "load", "assign", "got_store", "save", "write", "done", "failed", "dead"}

Searches == [step : {"default", "low", "high", "mid", "ended"}, iter : 0 .. MaxIter,
             at : Costs, left : Low .. High, right : Low .. High, delta_low : Int,
             result : {"none", "no_crossing", "found", "approximate"}]

Threads == [pc : PCs, kind : {"eval", "form", "view"}, own : FormOverrides, of : Runs,
            policy : Policies \cup {"default"}, used : [Policies -> Costs],
            built : Nat, handle : Nat, search : Searches]

OverridesTyped ==
  \/ overrides \in FormOverrides
  \/ DOMAIN overrides = {Knob} /\ overrides[Knob] \in Costs

\* Where a request can be, by its kind, the lookup it is at and its search; a store
\* that it is about to assign, or has a handle of, was built.
Placed(q, built) ==
  /\ q.policy = "default" => q.kind = "view" /\ q.pc \in {"contains", "fetch", "failed", "dead"}
  /\ q.kind = "view" => q.pc \notin {"save", "write"}
  /\ q.kind = "view" /\ q.pc \notin Ended => q.search.step # "ended"
  /\ q.search.step # "ended" => q.search.iter < MaxIter
  /\ q.pc = "assign" => q.built \in 1 .. built
  /\ q.pc \in {"save", "write"} => q.handle \in 1 .. built
  /\ q.pc \notin Ended => q.handle \in 0 .. built

Typed ==
  /\ req \in [Requests -> Threads]
  /\ OverridesTyped
  /\ stores \in Seq(SUBSET Runs)
  /\ store \in 0 .. Len(stores)
  /\ files \in [Runs -> {"none", "torn", "whole"}]
  /\ faults \in 0 .. MaxFaults
  /\ answered \subseteq Runs
  /\ \A r \in Requests : Placed(req[r], Len(stores))

LEMMA TypedImpliesTypeOK == Typed => TypeOK
<1> SUFFICES ASSUME Typed PROVE TypeOK
  OBVIOUS
<1>1. overrides \in FormOverrides \/ (DOMAIN overrides = {Knob} /\ overrides[Knob] \in Costs)
  BY DEF Typed, OverridesTyped
<1>2. \A i \in DOMAIN stores : stores[i] \subseteq Runs
  BY DEF Typed
<1>3. ASSUME NEW r \in Requests
      PROVE  /\ req[r].kind \in {"eval", "form", "view"}
             /\ req[r].policy \in Policies \cup {"default"}
             /\ req[r].handle \in 0 .. Len(stores) \/ req[r].pc \in Ended
             /\ req[r].of \in Runs
             /\ \A p \in Policies : req[r].used[p] \in Costs
             /\ req[r].search.iter \in 0 .. MaxIter
  <2>1. req[r] \in Threads /\ Placed(req[r], Len(stores))
    BY DEF Typed
  <2> QED BY <2>1 DEF Threads, Searches, Placed
<1> QED BY <1>1, <1>2, <1>3 DEF Typed, TypeOK

LEMMA AsleepTyped ==
  /\ Asleep \in Threads
  /\ Asleep.pc = "idle" /\ Asleep.kind = "eval" /\ Asleep.own = NoOverrides
  /\ Asleep.policy = "b2" /\ Asleep.built = 0 /\ Asleep.handle = 0
  /\ Asleep.search.step = "default" /\ Asleep.search.iter = 0
<1>1. Search \in Searches
  BY SearchAssumption, CostsAssumption DEF Search, Searches
<1>2. [p \in Policies |-> Default] \in [Policies -> Costs]
  BY CostsAssumption
<1>3. NoOverrides \in FormOverrides /\ OldRun \in Runs /\ "b2" \in Policies
  BY OverridesAssumption DEF Runs, Policies
<1> QED BY <1>1, <1>2, <1>3 DEF Asleep, Threads, PCs, Search

LEMMA TypedInit == Init => Typed
<1> SUFFICES ASSUME Init PROVE Typed
  OBVIOUS
<1>1. req \in [Requests -> Threads] /\ \A r \in Requests : req[r] = Asleep
  BY AsleepTyped DEF Init
<1>2. \A r \in Requests : Placed(req[r], 0)
  BY <1>1, AsleepTyped, SearchAssumption DEF Placed, Ended
<1>3. OverridesTyped
  BY OverridesAssumption DEF Init, OverridesTyped
<1>4. stores \in Seq(SUBSET Runs) /\ Len(stores) = 0
  BY DEF Init
<1> QED BY <1>1, <1>2, <1>3, <1>4, FaultsAssumption DEF Init, Typed, Runs

\* What a step of one request has to show.
LEMMA OneMoves ==
  ASSUME Typed, NEW r \in Requests, NEW q \in Threads,
         req' = [req EXCEPT ![r] = q], UNCHANGED stores, Placed(q, Len(stores))
  PROVE  /\ req' \in [Requests -> Threads]
         /\ \A t \in Requests : Placed(req'[t], Len(stores'))
<1>1. \A t \in Requests : req'[t] = IF t = r THEN q ELSE req[t]
  BY DEF Typed
<1> QED BY <1>1 DEF Typed

LEMMA GotoTyped ==
  ASSUME Typed, NEW r \in Requests, NEW pc \in PCs
  PROVE  LET q == [req[r] EXCEPT !.pc = pc]
         IN /\ q \in Threads /\ q.pc = pc
            /\ q.kind = req[r].kind /\ q.own = req[r].own /\ q.policy = req[r].policy
            /\ q.used = req[r].used /\ q.search = req[r].search
            /\ q.built = req[r].built /\ q.handle = req[r].handle
<1>1. req[r] \in Threads
  BY DEF Typed
<1> QED BY <1>1 DEF Threads

-----------------------------------------------------------------------------
LEMMA BeginTyped ==
  ASSUME Typed, NEW r \in Requests, Request(r)
  PROVE  Typed'
<1>1. PICK kind \in {"eval", "form", "view"}, own \in FormOverrides : Begin(r, kind, own)
  BY OverridesAssumption DEF Request
<1> DEFINE q == [Asleep EXCEPT !.kind = kind, !.own = own, !.of = r,
                               !.pc = IF kind = "view" THEN "get_store"
                                      ELSE IF kind = "view" \/ own # NoOverrides
                                      THEN "set" ELSE "contains"]
<1>2. q \in Threads /\ q.policy = "b2" /\ q.handle = 0 /\ q.search = Asleep.search
      /\ q.pc \in {"get_store", "set", "contains"}
  BY AsleepTyped DEF Threads, PCs, Runs
<1>3. req' = [req EXCEPT ![r] = q]
  BY <1>1 DEF Begin
<1>4. Len(stores) \in Nat
  BY DEF Typed
<1>5. Placed(q, Len(stores))
  BY <1>2, <1>4, AsleepTyped, SearchAssumption DEF Placed
<1> HIDE DEF q
<1>6. UNCHANGED <<overrides, stores, store, files, faults, answered>>
  BY <1>1 DEF Begin
<1>7. /\ req' \in [Requests -> Threads]
      /\ \A t \in Requests : Placed(req'[t], Len(stores'))
  BY <1>2, <1>3, <1>5, <1>6, OneMoves
<1> QED BY <1>6, <1>7 DEF Typed, OverridesTyped

LEMMA ProbeTyped ==
  ASSUME NEW s \in Searches, s.step # "ended"
  PROVE  Probe(s) \in Costs
<1>1. s.left \in Int /\ s.right \in Int /\ (s.left + s.right) \div 2 \in Low .. High
  BY SearchAssumption DEF Searches
<1> QED BY <1>1, SearchAssumption, CostsAssumption DEF Probe, Searches

LEMMA SetTyped ==
  ASSUME Typed, NEW r \in Requests, SetOverrides(r)
  PROVE  Typed'
<1> DEFINE q == [req[r] EXCEPT !.pc = "contains"]
<1>1. req[r] \in Threads /\ Placed(req[r], Len(stores)) /\ req[r].pc = "set"
  BY DEF Typed, SetOverrides
<1>2. q \in Threads /\ q.pc = "contains" /\ q.kind = req[r].kind
      /\ q.policy = req[r].policy /\ q.search = req[r].search /\ q.handle = req[r].handle
  <2>1. "contains" \in PCs
    BY DEF PCs
  <2> QED BY <2>1, GotoTyped
<1>3. Placed(q, Len(stores))
  BY <1>1, <1>2 DEF Placed, Ended
<1>4. req' = [req EXCEPT ![r] = q]
  BY DEF SetOverrides, Goto
<1> HIDE DEF q
<1>5. UNCHANGED <<stores, store, files, faults, answered>>
  BY DEF SetOverrides
<1>6. /\ req' \in [Requests -> Threads]
      /\ \A t \in Requests : Placed(req'[t], Len(stores'))
  BY <1>2, <1>3, <1>4, <1>5, OneMoves
<1>7. OverridesTyped'
  <2>1. CASE req[r].kind = "view"
    <3>1. req[r].search \in Searches /\ req[r].search.step # "ended"
      BY <1>1, <2>1 DEF Threads, Placed, Ended
    <3> QED BY <2>1, <3>1, ProbeTyped DEF SetOverrides, OverridesTyped
  <2>2. CASE req[r].kind # "view"
    BY <1>1, <2>2 DEF SetOverrides, OverridesTyped, Threads
  <2> QED BY <2>1, <2>2
<1> QED BY <1>5, <1>6, <1>7 DEF Typed

\* What follows a lookup.
LEMMA LookedTyped ==
  ASSUME Typed, NEW r \in Requests, NEW value \in Costs,
         req[r].pc \in {"contains", "fetch"}
  PROVE  LET q == Looked(req[r], value)
         IN /\ q \in Threads /\ Placed(q, Len(stores))
            /\ q.kind = req[r].kind /\ q.own = req[r].own
            /\ q.policy # "default"
            /\ q.pc \in {"set", "contains", "clear", "get_store"}
            /\ req[r].policy = "default" <=> q.pc = "set"
            /\ req[r].policy # "default" =>
                 /\ q.search = req[r].search
                 /\ q.used = [req[r].used EXCEPT ![req[r].policy] = value]
                 /\ q.policy = IF req[r].policy = First(req[r].kind)
                               THEN Second(req[r].kind) ELSE First(req[r].kind)
                 /\ q.pc = IF req[r].policy = First(req[r].kind) THEN "contains"
                           ELSE IF req[r].kind = "view" THEN "clear" ELSE "get_store"
<1> DEFINE t == req[r]
<1>1. t \in Threads /\ Placed(t, Len(stores)) /\ t.pc \in {"contains", "fetch"}
  BY DEF Typed
<1>2. First(t.kind) \in Policies /\ Second(t.kind) \in Policies
      /\ First(t.kind) # "default" /\ Second(t.kind) # "default"
  BY DEF First, Second, Policies
<1> HIDE DEF t
<1>3. CASE t.policy = "default"
  <2> DEFINE q == [t EXCEPT !.search.at = value, !.policy = First(t.kind), !.pc = "set"]
  <2>1. Looked(t, value) = q
    BY <1>3 DEF Looked
  <2>2. /\ q \in Threads /\ q.pc = "set" /\ q.kind = t.kind /\ q.own = t.own
        /\ q.policy = First(t.kind) /\ q.handle = t.handle
        /\ q.search.step = t.search.step /\ q.search.iter = t.search.iter
    BY <1>1, <1>2 DEF Threads, Searches, PCs
  <2>3. Placed(q, Len(stores))
    BY <1>1, <1>2, <2>2 DEF Placed, Ended
  <2> QED BY <1>2, <1>3, <2>1, <2>2, <2>3 DEF t
<1>4. CASE t.policy # "default"
  <2> DEFINE u == [t.used EXCEPT ![t.policy] = value]
             policy == IF t.policy = First(t.kind) THEN Second(t.kind) ELSE First(t.kind)
             pc == IF t.policy = First(t.kind) THEN "contains"
                   ELSE IF t.kind = "view" THEN "clear" ELSE "get_store"
             q == [[t EXCEPT !.used = u] EXCEPT !.policy = policy, !.pc = pc]
  <2>1. Looked(t, value) = q
    BY <1>1, <1>4 DEF Looked, Threads
  <2>2. u \in [Policies -> Costs] /\ policy \in Policies /\ policy # "default"
        /\ pc \in {"contains", "clear", "get_store"}
    BY <1>1, <1>2, <1>4 DEF Threads
  <2> HIDE DEF u, policy, pc
  <2>3. /\ q \in Threads /\ q.pc = pc /\ q.kind = t.kind /\ q.own = t.own
        /\ q.policy = policy /\ q.handle = t.handle /\ q.search = t.search /\ q.used = u
    BY <1>1, <2>2 DEF Threads, PCs
  <2>4. Placed(q, Len(stores))
    BY <1>1, <2>2, <2>3 DEF Placed, Ended
  <2> QED BY <1>4, <2>1, <2>2, <2>3, <2>4 DEF t, u, policy, pc
<1> QED BY <1>3, <1>4

LEMMA LookupTyped ==
  ASSUME Typed, NEW r \in Requests, LooksUp(r) \/ Fetch(r)
  PROVE  Typed'
<1>1. /\ UNCHANGED <<overrides, stores, store, files, faults, answered>>
      /\ req[r].pc \in {"contains", "fetch"}
  BY DEF LooksUp, Fetch
<1>2. req[r] \in Threads /\ Placed(req[r], Len(stores))
  BY DEF Typed
<1> DEFINE Moved ==
      \E q \in Threads : req' = [req EXCEPT ![r] = q] /\ Placed(q, Len(stores))
<1>3. Moved
  <2>1. ASSUME NEW value \in Costs, req' = [req EXCEPT ![r] = Looked(@, value)]
        PROVE  Moved
    <3>1. req' = [req EXCEPT ![r] = Looked(req[r], value)]
      BY <2>1
    <3> QED BY <1>1, <3>1, LookedTyped
  <2>2. ASSUME NEW pc \in {"fetch", "failed", "clear_failed"},
               req[r].policy = "default" => pc # "clear_failed",
               req' = [req EXCEPT ![r].pc = pc]
        PROVE  Moved
    <3> DEFINE q == [req[r] EXCEPT !.pc = pc]
    <3>1. /\ q \in Threads /\ q.pc = pc /\ q.kind = req[r].kind
          /\ q.policy = req[r].policy /\ q.search = req[r].search
          /\ q.handle = req[r].handle
      <4>1. pc \in PCs
        BY DEF PCs
      <4> QED BY <4>1, GotoTyped
    <3>2. Placed(q, Len(stores))
      BY <1>1, <1>2, <2>2, <3>1 DEF Placed, Ended
    <3>3. req' = [req EXCEPT ![r] = q]
      BY <2>2
    <3> QED BY <3>1, <3>2, <3>3
  <2>3. CASE LooksUp(r)
    <3>1. \/ req' = [req EXCEPT ![r].pc = "fetch"]
          \/ req' = [req EXCEPT ![r] = Looked(@, Default)]
      BY <2>3 DEF LooksUp
    <3> QED BY <3>1, <2>1, <2>2, CostsAssumption
  <2>4. CASE Fetch(r)
    <3>1. CASE Knob \in DOMAIN overrides
      <4>1. overrides[Knob] \in Costs
        BY <3>1, CostsAssumption DEF Typed, OverridesTyped
      <4> QED BY <2>1, <2>4, <3>1, <4>1 DEF Fetch
    <3>2. CASE Knob \notin DOMAIN overrides
      <4>1. req' = [req EXCEPT ![r].pc = Unwind(req[r])]
        BY <2>4, <3>2 DEF Fetch
      <4>2. Unwind(req[r]) \in {"failed", "clear_failed"}
            /\ (req[r].policy = "default" => Unwind(req[r]) # "clear_failed")
        BY DEF Unwind
      <4> QED BY <2>2, <4>1, <4>2
    <3> QED BY <3>1, <3>2
  <2> QED BY <2>3, <2>4
<1>4. /\ req' \in [Requests -> Threads]
      /\ \A t \in Requests : Placed(req'[t], Len(stores'))
  BY <1>1, <1>3, OneMoves
<1> QED BY <1>1, <1>4 DEF Typed, OverridesTyped

LEMMA NarrowTyped ==
  ASSUME NEW s \in Searches, NEW delta \in Int, s.iter < MaxIter
  PROVE  LET half == Narrow(s, Centre(s), delta)
         IN half \in Searches /\ half.step = s.step /\ half.iter = s.iter + 1
<1>1. Centre(s) \in Low .. High
  BY SearchAssumption DEF Centre, Searches
<1>2. s.iter + 1 \in 0 .. MaxIter
  BY SearchAssumption DEF Searches
<1> QED BY <1>1, <1>2 DEF Narrow, Searches

\* The search goes on with a halving left, or it has ended.
LEMMA AfterProbeTyped ==
  ASSUME NEW s \in Searches, NEW delta \in Int, s.step # "ended", s.iter < MaxIter
  PROVE  LET next == AfterProbe(s, delta)
         IN next \in Searches /\ (next.step # "ended" => next.iter < MaxIter)
<1> DEFINE next == AfterProbe(s, delta)
<1>0. Magnitude(delta) \in Int /\ Tolerance \in Int
  BY SearchAssumption DEF Magnitude
<1>1. CASE s.step = "default"
  <2>1. next = [s EXCEPT !.step = "low"]
    BY <1>1 DEF AfterProbe
  <2> QED BY <2>1 DEF Searches
<1>2. CASE s.step = "low"
  <2>1. next = [s EXCEPT !.step = "high", !.delta_low = delta]
    BY <1>2 DEF AfterProbe
  <2> QED BY <2>1 DEF Searches
<1>3. CASE s.step = "high"
  <2>1. CASE ChangesSign(s.delta_low, delta)
    <3>1. next = [s EXCEPT !.step = "mid"]
      BY <1>3, <2>1 DEF AfterProbe
    <3> QED BY <3>1 DEF Searches
  <2>2. CASE ~ChangesSign(s.delta_low, delta)
    <3>1. next = [s EXCEPT !.step = "ended", !.result = "no_crossing"]
      BY <1>3, <2>2 DEF AfterProbe
    <3> QED BY <3>1 DEF Searches
  <2> QED BY <2>1, <2>2
<1>4. CASE s.step = "mid" /\ Magnitude(delta) <= Tolerance
  <2>1. next = [s EXCEPT !.step = "ended", !.result = "found", !.left = Centre(s),
                         !.right = Centre(s)]
    BY <1>0, <1>4 DEF AfterProbe
  <2>2. Centre(s) \in Low .. High
    BY SearchAssumption DEF Centre, Searches
  <2> QED BY <2>1, <2>2 DEF Searches
<1>5. CASE s.step = "mid" /\ ~(Magnitude(delta) <= Tolerance)
  <2> DEFINE half == Narrow(s, Centre(s), delta)
  <2>1. half \in Searches /\ half.step = "mid" /\ half.iter = s.iter + 1
    BY <1>5, NarrowTyped
  <2>2. next = IF More(half) THEN half
               ELSE [half EXCEPT !.step = "ended", !.result = "approximate"]
    BY <1>0, <1>5 DEF AfterProbe
  <2> HIDE DEF half
  <2> QED BY <2>1, <2>2 DEF Searches, More
<1> QED BY <1>1, <1>2, <1>3, <1>4, <1>5 DEF Searches

LEMMA ClearTyped ==
  ASSUME Typed, NEW r \in Requests, Clear(r)
  PROVE  Typed'
<1> DEFINE t == req[r]
           next == AfterProbe(t.search, Delta(t.of, t.used))
           again == [t EXCEPT !.search = next, !.used = Asleep.used,
                              !.pc = IF next.step = "ended" THEN "done" ELSE "set"]
           ended == [t EXCEPT !.pc = "done"]
           raised == [t EXCEPT !.pc = "failed"]
<1>1. /\ t \in Threads /\ Placed(t, Len(stores)) /\ t.pc \in {"clear", "clear_failed"}
      /\ t.policy # "default" /\ t.handle \in 0 .. Len(stores)
  BY DEF Typed, Clear, Placed, Ended
<1>2. raised \in Threads /\ ended \in Threads /\ raised.pc = "failed" /\ ended.pc = "done"
      /\ raised.kind = t.kind /\ ended.kind = t.kind
      /\ raised.policy = t.policy /\ ended.policy = t.policy
      /\ raised.search = t.search /\ ended.search = t.search
  <2>1. "done" \in PCs /\ "failed" \in PCs
    BY DEF PCs
  <2> QED BY <2>1, GotoTyped
<1>3. Placed(raised, Len(stores)) /\ Placed(ended, Len(stores))
  BY <1>1, <1>2 DEF Placed, Ended
<1>4. ASSUME t.kind = "view"
      PROVE  again \in Threads /\ Placed(again, Len(stores))
  <2>1. t.search \in Searches /\ t.search.step # "ended" /\ t.search.iter < MaxIter
    BY <1>1, <1>4 DEF Threads, Placed, Ended
  <2>2. Delta(t.of, t.used) \in Int
    <3>1. t.of \in Runs /\ t.used["ours"] \in Costs /\ t.used["b2"] \in Costs
      BY <1>1 DEF Threads, Policies
    <3>2. \A policy \in Policies, value \in Costs : Net(t.of, policy, value) \in Int
      BY <3>1, NetAssumption DEF Runs
    <3>3. Net(t.of, "ours", t.used["ours"]) \in Int /\ Net(t.of, "b2", t.used["b2"]) \in Int
      BY <3>1, <3>2 DEF Policies
    <3> QED BY <3>3 DEF Delta
  <2>3. next \in Searches /\ (next.step # "ended" => next.iter < MaxIter)
    BY <2>1, <2>2, AfterProbeTyped
  <2>4. Asleep.used \in [Policies -> Costs]
    BY AsleepTyped DEF Threads
  <2> HIDE DEF next
  <2>5. /\ again \in Threads /\ again.pc = (IF next.step = "ended" THEN "done" ELSE "set")
        /\ again.kind = t.kind /\ again.policy = t.policy /\ again.search = next
        /\ again.handle = t.handle
    BY <1>1, <2>3, <2>4 DEF Threads, PCs
  <2> QED BY <1>1, <2>3, <2>5 DEF Placed, Ended
<1>5. \E q \in {again, ended, raised} :
        q \in Threads /\ Placed(q, Len(stores)) /\ req' = [req EXCEPT ![r] = q]
  <2>1. CASE t.pc = "clear_failed"
    BY <1>2, <1>3, <2>1 DEF Clear
  <2>2. CASE t.pc # "clear_failed" /\ t.kind # "view"
    BY <1>2, <1>3, <2>2 DEF Clear
  <2>3. CASE t.pc # "clear_failed" /\ t.kind = "view"
    BY <1>4, <2>3 DEF Clear
  <2> QED BY <2>1, <2>2, <2>3
<1>6. UNCHANGED <<stores, store, files, faults>> /\ overrides' = NoOverrides
      /\ answered' \subseteq answered \cup {r}
  BY DEF Clear
<1>7. /\ req' \in [Requests -> Threads]
      /\ \A u \in Requests : Placed(req'[u], Len(stores'))
  BY <1>5, <1>6, OneMoves
<1> HIDE DEF t, next, again, ended, raised
<1> QED BY <1>6, <1>7, OverridesAssumption DEF Typed, OverridesTyped, Runs

\* A step of the store: the rest of the thread stays, more stores may have been built.
LEMMA StoreMoves ==
  ASSUME Typed, NEW r \in Requests, NEW q \in Threads, NEW more \in Seq(SUBSET Runs),
         req' = [req EXCEPT ![r] = q], stores' = more, Len(stores) <= Len(more),
         Placed(q, Len(more))
  PROVE  /\ req' \in [Requests -> Threads]
         /\ \A t \in Requests : Placed(req'[t], Len(stores'))
<1>1. \A t \in Requests : req'[t] = IF t = r THEN q ELSE req[t]
  BY DEF Typed
<1>2. Len(stores) \in Nat /\ Len(more) \in Nat
  BY DEF Typed
<1>3. \A t \in Requests : Placed(req[t], Len(stores)) => Placed(req[t], Len(more))
  BY <1>2 DEF Placed
<1> QED BY <1>1, <1>3 DEF Typed

LEMMA GetStoreTyped ==
  ASSUME Typed, NEW r \in Requests, GetStore(r)
  PROVE  Typed'
<1> DEFINE pc == IF store = 0 THEN "load" ELSE "got_store"
           q == [req[r] EXCEPT !.pc = pc]
<1>1. req[r] \in Threads /\ Placed(req[r], Len(stores)) /\ req[r].pc = "get_store"
  BY DEF Typed, GetStore
<1>2. pc \in PCs /\ pc \in {"load", "got_store"}
  BY DEF PCs
<1> HIDE DEF pc
<1>3. /\ q \in Threads /\ q.pc = pc /\ q.kind = req[r].kind
      /\ q.policy = req[r].policy /\ q.search = req[r].search /\ q.handle = req[r].handle
  BY <1>2, GotoTyped
<1>4. Placed(q, Len(stores))
  BY <1>1, <1>2, <1>3 DEF Placed, Ended
<1>5. req' = [req EXCEPT ![r] = q]
  BY DEF GetStore, Goto, pc
<1> HIDE DEF q
<1>6. UNCHANGED <<overrides, stores, store, files, faults, answered>>
  BY DEF GetStore
<1>7. /\ req' \in [Requests -> Threads]
      /\ \A t \in Requests : Placed(req'[t], Len(stores'))
  BY <1>3, <1>4, <1>5, <1>6, OneMoves
<1> QED BY <1>6, <1>7 DEF Typed, OverridesTyped

LEMMA LoadTyped ==
  ASSUME Typed, NEW r \in Requests, Load(r)
  PROVE  Typed'
<1> DEFINE built == Len(stores) + 1
           q == [req[r] EXCEPT !.pc = "assign", !.built = built]
           more == Append(stores, Whole)
<1>1. req[r] \in Threads /\ Placed(req[r], Len(stores)) /\ req[r].pc = "load"
  BY DEF Typed, Load
<1>2. stores \in Seq(SUBSET Runs) /\ Whole \in SUBSET Runs
  BY DEF Typed, Whole
<1>3. more \in Seq(SUBSET Runs) /\ Len(more) = Len(stores) + 1 /\ Len(stores) \in Nat
  BY <1>2
<1> HIDE DEF more
<1>10. built \in Nat /\ built = Len(more) /\ Len(stores) <= Len(more)
  BY <1>3
<1> HIDE DEF built
<1>4. /\ q \in Threads /\ q.pc = "assign" /\ q.kind = req[r].kind /\ q.built = Len(more)
      /\ q.policy = req[r].policy /\ q.search = req[r].search /\ q.handle = req[r].handle
  BY <1>1, <1>10 DEF Threads, PCs
<1>5. Placed(q, Len(more))
  BY <1>1, <1>3, <1>4 DEF Placed, Ended
<1>6. req' = [req EXCEPT ![r] = q] /\ stores' = more
  BY DEF Load, more, built
<1> HIDE DEF q
<1>7. UNCHANGED <<overrides, store, files, faults, answered>>
  BY DEF Load
<1>8. /\ req' \in [Requests -> Threads]
      /\ \A t \in Requests : Placed(req'[t], Len(stores'))
  BY <1>3, <1>4, <1>5, <1>6, <1>10, StoreMoves
<1>9. store' \in 0 .. Len(stores')
  BY <1>3, <1>6, <1>7 DEF Typed
<1> QED BY <1>3, <1>6, <1>7, <1>8, <1>9 DEF Typed, OverridesTyped

LEMMA AssignTyped ==
  ASSUME Typed, NEW r \in Requests, Assign(r)
  PROVE  Typed'
<1> DEFINE q == [req[r] EXCEPT !.pc = "got_store", !.built = 0]
<1>1. req[r] \in Threads /\ Placed(req[r], Len(stores)) /\ req[r].pc = "assign"
  BY DEF Typed, Assign
<1>2. /\ q \in Threads /\ q.pc = "got_store" /\ q.kind = req[r].kind
      /\ q.policy = req[r].policy /\ q.search = req[r].search /\ q.handle = req[r].handle
  BY <1>1 DEF Threads, PCs
<1>3. Placed(q, Len(stores))
  BY <1>1, <1>2 DEF Placed, Ended
<1>4. req' = [req EXCEPT ![r] = q]
  BY DEF Assign
<1> HIDE DEF q
<1>5. UNCHANGED <<overrides, stores, files, faults, answered>>
  BY DEF Assign
<1>6. /\ req' \in [Requests -> Threads]
      /\ \A t \in Requests : Placed(req'[t], Len(stores'))
  BY <1>2, <1>3, <1>4, <1>5, OneMoves
<1>7. store' \in 1 .. Len(stores)
  BY <1>1 DEF Assign, Placed
<1>8. Len(stores) \in Nat
  BY DEF Typed
<1> QED BY <1>5, <1>6, <1>7, <1>8 DEF Typed, OverridesTyped

\* A saving request comes out with a handle of the store of the moment.
LEMMA GotStoreTyped ==
  ASSUME Typed, store # 0, NEW r \in Requests, GotStore(r)
  PROVE  Typed'
<1>1. req[r] \in Threads /\ Placed(req[r], Len(stores)) /\ req[r].pc = "got_store"
  BY DEF Typed, GotStore
<1>0. store \in 1 .. Len(stores) /\ Len(stores) \in Nat
  BY DEF Typed
<1>2. PICK run \in answered : req' = [req EXCEPT ![r] =
         IF @.kind # "view" THEN [@ EXCEPT !.pc = "save", !.handle = store]
         ELSE IF run \in stores[store]
         THEN [@ EXCEPT !.pc = "contains", !.policy = "default", !.of = run]
         ELSE [@ EXCEPT !.pc = "done"]]
  BY DEF GotStore
<1> DEFINE saves == [req[r] EXCEPT !.pc = "save", !.handle = store]
           shows == [req[r] EXCEPT !.pc = "contains", !.policy = "default", !.of = run]
           redirects == [req[r] EXCEPT !.pc = "done"]
<1>3. /\ saves \in Threads /\ saves.pc = "save" /\ saves.kind = req[r].kind
      /\ saves.policy = req[r].policy /\ saves.search = req[r].search
      /\ saves.handle = store
  <2>1. store \in Nat
    BY <1>0
  <2> QED BY <1>1, <2>1 DEF Threads, PCs
<1>4. /\ shows \in Threads /\ shows.pc = "contains" /\ shows.kind = req[r].kind
      /\ shows.search = req[r].search /\ shows.handle = req[r].handle
  <2>1. run \in Runs
    BY <1>2 DEF Typed
  <2> QED BY <1>1, <2>1 DEF Threads, PCs
<1>5. /\ redirects \in Threads /\ redirects.pc = "done" /\ redirects.kind = req[r].kind
      /\ redirects.policy = req[r].policy /\ redirects.search = req[r].search
  BY <1>1 DEF Threads, PCs
<1>6. req[r].kind # "view" => Placed(saves, Len(stores))
  BY <1>0, <1>1, <1>3 DEF Placed, Ended
<1>7. req[r].kind = "view" => Placed(shows, Len(stores)) /\ Placed(redirects, Len(stores))
  BY <1>1, <1>4, <1>5 DEF Placed, Ended
<1>8. \/ req[r].kind # "view" /\ req' = [req EXCEPT ![r] = saves]
      \/ req[r].kind = "view" /\ req' = [req EXCEPT ![r] = shows]
      \/ req[r].kind = "view" /\ req' = [req EXCEPT ![r] = redirects]
  BY <1>2
<1> HIDE DEF saves, shows, redirects
<1>9. UNCHANGED <<overrides, stores, store, files, faults, answered>>
  BY DEF GotStore
<1>10. /\ req' \in [Requests -> Threads]
       /\ \A t \in Requests : Placed(req'[t], Len(stores'))
  BY <1>3, <1>4, <1>5, <1>6, <1>7, <1>8, <1>9, OneMoves
<1> QED BY <1>9, <1>10 DEF Typed, OverridesTyped

LEMMA SaveTyped ==
  ASSUME Typed, NEW r \in Requests, SaveOpens(r) \/ SaveWrites(r) \/ WriteFails(r)
  PROVE  Typed'
<1>1. req[r] \in Threads /\ Placed(req[r], Len(stores)) /\ req[r].pc \in {"save", "write"}
  BY DEF Typed, SaveOpens, SaveWrites, WriteFails
<1>2. PICK pc \in {"write", "done", "clear", "clear_failed", "failed"} :
        req' = [req EXCEPT ![r].pc = pc]
  <2>1. Unwind(req[r]) \in {"failed", "clear_failed"}
    BY DEF Unwind
  <2> QED BY <2>1 DEF SaveOpens, SaveWrites, WriteFails, Goto
<1> DEFINE q == [req[r] EXCEPT !.pc = pc]
<1>3. pc \in PCs
  BY DEF PCs
<1>4. /\ q \in Threads /\ q.pc = pc /\ q.kind = req[r].kind
      /\ q.policy = req[r].policy /\ q.search = req[r].search /\ q.handle = req[r].handle
  BY <1>3, GotoTyped
<1>5. req[r].policy # "default" /\ req[r].kind # "view"
      /\ req[r].handle \in 1 .. Len(stores)
  BY <1>1 DEF Placed
<1>6. Len(stores) \in Nat
  BY DEF Typed
<1>7. Placed(q, Len(stores))
  BY <1>1, <1>4, <1>5, <1>6 DEF Placed, Ended
<1>8. req' = [req EXCEPT ![r] = q]
  BY <1>2
<1> HIDE DEF q
<1>9. /\ stores' \in Seq(SUBSET Runs) /\ Len(stores') = Len(stores)
  <2>1. CASE SaveOpens(r)
    <3>1. stores' = [stores EXCEPT ![req[r].handle] = @ \cup {r}]
      BY <2>1 DEF SaveOpens
    <3>2. stores[req[r].handle] \cup {r} \in SUBSET Runs
      BY <1>5 DEF Typed, Runs
    <3> QED BY <1>5, <3>1, <3>2 DEF Typed
  <2>2. CASE SaveWrites(r) \/ WriteFails(r)
    BY <2>2 DEF SaveWrites, WriteFails, Typed
  <2> QED BY <2>1, <2>2
<1>10. UNCHANGED <<overrides, store>> /\ answered' \subseteq answered \cup {r}
  BY DEF SaveOpens, SaveWrites, WriteFails
<1>11. files' \in [Runs -> {"none", "torn", "whole"}]
  BY DEF SaveOpens, SaveWrites, WriteFails, Typed
<1>12. faults' \in 0 .. MaxFaults
  BY FaultsAssumption DEF SaveOpens, SaveWrites, WriteFails, Typed
<1>13. /\ req' \in [Requests -> Threads]
       /\ \A t \in Requests : Placed(req'[t], Len(stores'))
  <2> DEFINE more == stores'
  <2>1. more \in Seq(SUBSET Runs) /\ Len(stores) <= Len(more) /\ Placed(q, Len(more))
    BY <1>6, <1>7, <1>9
  <2>2. stores' = more
    OBVIOUS
  <2> HIDE DEF more
  <2>3. req' \in [Requests -> Threads] /\ \A t \in Requests : Placed(req'[t], Len(stores'))
    BY <1>4, <1>8, <2>1, <2>2, StoreMoves
  <2> QED BY <2>3
<1> QED BY <1>9, <1>10, <1>11, <1>12, <1>13 DEF Typed, OverridesTyped, Runs

LEMMA RestartTyped ==
  ASSUME Typed, Restart
  PROVE  Typed'
<1> DEFINE dead == [Asleep EXCEPT !.pc = "dead"]
<1>1. /\ dead \in Threads /\ dead.pc = "dead" /\ dead.policy = "b2"
      /\ dead.kind = "eval" /\ dead.search = Asleep.search
  BY AsleepTyped DEF Threads, PCs
<1>2. Placed(dead, 0)
  BY <1>1, AsleepTyped, SearchAssumption DEF Placed, Ended
<1>3. req' = [r \in Requests |-> IF r \in InProgress THEN dead ELSE req[r]]
  BY DEF Restart
<1> HIDE DEF dead
<1>4. req' \in [Requests -> Threads]
  BY <1>1, <1>3 DEF Typed
<1>5. ASSUME NEW r \in Requests PROVE Placed(req'[r], 0)
  <2>1. CASE r \in InProgress
    BY <1>2, <1>3, <2>1
  <2>2. CASE r \notin InProgress
    <3>1. req'[r] = req[r] /\ req[r].pc \in Ended /\ Placed(req[r], Len(stores))
      BY <1>3, <2>2 DEF InProgress, Typed
    <3> QED BY <3>1 DEF Placed, Ended
  <2> QED BY <2>1, <2>2
<1>6. stores' = <<>> /\ store' = 0 /\ overrides' = NoOverrides
      /\ faults' \in 0 .. MaxFaults /\ UNCHANGED <<files, answered>>
  BY FaultsAssumption DEF Restart, Typed
<1>7. stores' \in Seq(SUBSET Runs) /\ Len(stores') = 0
  BY <1>6
<1> QED BY <1>4, <1>5, <1>6, <1>7, OverridesAssumption DEF Typed, OverridesTyped

-----------------------------------------------------------------------------
(***************************************************************************)
(* What each step does to its thread, field by field.                      *)
(***************************************************************************)
Same(n, q) ==
  /\ n.kind = q.kind /\ n.own = q.own /\ n.policy = q.policy /\ n.used = q.used
  /\ n.search = q.search /\ n.built = q.built /\ n.handle = q.handle

LEMMA Others ==
  ASSUME Typed, NEW r \in Requests, Request(r) \/ Advance(r) \/ WriteFails(r)
  PROVE  \A t \in Requests : t # r => req'[t] = req[t]
<1>0. DOMAIN req = Requests
  BY DEF Typed
<1>1. CASE Request(r)
  BY <1>0, <1>1 DEF Request, Begin
<1>2. CASE SetOverrides(r) \/ LooksUp(r) \/ Fetch(r)
  BY <1>0, <1>2 DEF SetOverrides, LooksUp, Fetch, Goto
<1>3. CASE Clear(r)
  BY <1>0, <1>3 DEF Clear
<1>4. CASE GetStore(r) \/ Load(r) \/ Assign(r)
  BY <1>0, <1>4 DEF GetStore, Load, Assign, Goto
<1>5. CASE GotStore(r)
  BY <1>0, <1>5 DEF GotStore
<1>6. CASE SaveOpens(r) \/ SaveWrites(r) \/ WriteFails(r)
  BY <1>0, <1>6 DEF SaveOpens, SaveWrites, WriteFails, Goto
<1> QED BY <1>1, <1>2, <1>3, <1>4, <1>5, <1>6 DEF Advance

LEMMA PcMoves ==
  ASSUME Typed, NEW r \in Requests, NEW pc, req' = [req EXCEPT ![r].pc = pc]
  PROVE  req'[r].pc = pc /\ Same(req'[r], req[r])
<1>1. req[r] \in Threads /\ req'[r] = [req[r] EXCEPT !.pc = pc]
  BY DEF Typed
<1> QED BY <1>1 DEF Threads, Same

LEMMA BeginMoves ==
  ASSUME Typed, NEW r \in Requests, Request(r)
  PROVE  LET q == req'[r]
         IN /\ req[r].pc = "idle"
            /\ q.policy = "b2"
            /\ q.pc \in {"get_store", "set", "contains"}
            /\ q.pc = "get_store" <=> q.kind = "view"
            /\ q.pc = "contains" <=> q.kind # "view" /\ q.own = NoOverrides
            /\ disturbed' = disturbed
                 \cup (IF q.kind = "view" \/ q.own # NoOverrides THEN InProgress ELSE {})
                 \cup (IF \E u \in InProgress : Overrides(u) THEN {r} ELSE {})
            /\ UNCHANGED <<overrides, stores, store, files, rebuilt, answered>>
<1>1. PICK kind \in {"eval", "form", "view"}, own \in FormOverrides : Begin(r, kind, own)
  BY OverridesAssumption DEF Request
<1> DEFINE q == [Asleep EXCEPT !.kind = kind, !.own = own, !.of = r,
                               !.pc = IF kind = "view" THEN "get_store"
                                      ELSE IF kind = "view" \/ own # NoOverrides
                                      THEN "set" ELSE "contains"]
<1>2. /\ q.policy = "b2" /\ q.kind = kind /\ q.own = own
      /\ q.pc = IF kind = "view" THEN "get_store"
                ELSE IF kind = "view" \/ own # NoOverrides THEN "set" ELSE "contains"
  BY AsleepTyped DEF Threads
<1>3. req' = [req EXCEPT ![r] = q]
  BY <1>1 DEF Begin
<1> HIDE DEF q
<1>4. req'[r] = q
  BY <1>3 DEF Typed
<1>5. /\ req[r].pc = "idle"
      /\ disturbed' = disturbed
           \cup (IF kind = "view" \/ own # NoOverrides THEN InProgress ELSE {})
           \cup (IF \E u \in InProgress : Overrides(u) THEN {r} ELSE {})
      /\ UNCHANGED <<overrides, stores, store, files, rebuilt, answered>>
  BY <1>1 DEF Begin
<1> QED BY <1>2, <1>4, <1>5

LEMMA LookMoves ==
  ASSUME Typed, NEW r \in Requests, LooksUp(r) \/ Fetch(r)
  PROVE  /\ req[r].pc \in {"contains", "fetch"}
         /\ UNCHANGED <<overrides, stores, store, files, faults, disturbed, rebuilt, answered>>
         /\ \/ /\ req'[r].pc = "fetch" /\ Same(req'[r], req[r])
            \/ /\ req'[r].pc = Unwind(req[r]) /\ Same(req'[r], req[r])
            \/ \E value \in Costs :
                 /\ value = IF Knob \in DOMAIN overrides THEN overrides[Knob] ELSE Default
                 /\ req'[r] = Looked(req[r], value)
<1>1. CASE LooksUp(r)
  <2>1. CASE Knob \in DOMAIN overrides
    <3>1. req' = [req EXCEPT ![r].pc = "fetch"]
      BY <1>1, <2>1 DEF LooksUp
    <3> QED BY <1>1, <3>1, PcMoves DEF LooksUp
  <2>2. CASE Knob \notin DOMAIN overrides
    <3>1. req'[r] = Looked(req[r], Default)
      BY <1>1, <2>2 DEF LooksUp, Typed
    <3> QED BY <1>1, <2>2, <3>1, CostsAssumption DEF LooksUp
  <2> QED BY <2>1, <2>2
<1>2. CASE Fetch(r)
  <2>1. CASE Knob \in DOMAIN overrides
    <3>1. overrides[Knob] \in Costs
      BY <2>1, CostsAssumption DEF Typed, OverridesTyped
    <3>2. req'[r] = Looked(req[r], overrides[Knob])
      BY <1>2, <2>1 DEF Fetch, Typed
    <3> QED BY <1>2, <2>1, <3>1, <3>2 DEF Fetch
  <2>2. CASE Knob \notin DOMAIN overrides
    <3>1. req' = [req EXCEPT ![r].pc = Unwind(req[r])]
      BY <1>2, <2>2 DEF Fetch
    <3> QED BY <1>2, <3>1, PcMoves DEF Fetch
  <2> QED BY <2>1, <2>2
<1> QED BY <1>1, <1>2

LEMMA ClearMoves ==
  ASSUME Typed, NEW r \in Requests, Clear(r)
  PROVE  LET q == req[r]
             n == req'[r]
         IN /\ q.pc \in {"clear", "clear_failed"}
            /\ n.kind = q.kind /\ n.own = q.own /\ n.policy = q.policy
            /\ n.pc \in {"failed", "done", "set"}
            /\ n.pc = "set" => q.kind = "view"
            /\ q.pc = "clear_failed" <=> n.pc = "failed"
            /\ q.kind # "view" => n.used = q.used
            /\ overrides' = NoOverrides
            /\ answered' = IF q.pc = "clear" /\ q.kind # "view"
                           THEN answered \cup {r} ELSE answered
            /\ UNCHANGED <<stores, store, files, disturbed, rebuilt>>
<1> DEFINE t == req[r]
           next == AfterProbe(t.search, Delta(t.of, t.used))
<1>1. t \in Threads /\ t.pc \in {"clear", "clear_failed"}
  BY DEF Typed, Clear
<1>2. req'[r] = IF t.pc = "clear_failed" THEN [t EXCEPT !.pc = "failed"]
                ELSE IF t.kind # "view" THEN [t EXCEPT !.pc = "done"]
                ELSE [t EXCEPT !.search = next, !.used = Asleep.used,
                               !.pc = IF next.step = "ended" THEN "done" ELSE "set"]
  BY DEF Clear, Typed
<1> HIDE DEF next
<1>3. /\ req'[r].kind = t.kind /\ req'[r].own = t.own /\ req'[r].policy = t.policy
      /\ req'[r].pc \in {"failed", "done", "set"}
      /\ req'[r].pc = "set" => t.kind = "view"
      /\ t.pc = "clear_failed" <=> req'[r].pc = "failed"
      /\ t.kind # "view" => req'[r].used = t.used
  BY <1>1, <1>2 DEF Threads
<1> QED BY <1>1, <1>3 DEF Clear

LEMMA StoreSteps ==
  ASSUME Typed, NEW r \in Requests, GetStore(r) \/ Load(r) \/ Assign(r)
  PROVE  LET q == req[r]
             n == req'[r]
         IN /\ n.kind = q.kind /\ n.own = q.own /\ n.policy = q.policy /\ n.used = q.used
            /\ n.search = q.search /\ n.handle = q.handle
            /\ q.pc \in {"get_store", "load", "assign"}
            /\ n.pc \in {"load", "assign", "got_store"}
            /\ n.pc = "assign" => /\ stores' = Append(stores, Whole)
                                  /\ n.built = Len(stores) + 1
                                  /\ UNCHANGED store
            /\ n.pc # "assign" => UNCHANGED stores
            /\ n.pc = "load" => UNCHANGED store
            /\ n.pc = "got_store" =>
                 \/ store # 0 /\ UNCHANGED <<store, rebuilt>>
                 \/ /\ q.pc = "assign" /\ store' = q.built
                    /\ ~rebuilt' => ~rebuilt /\ store = 0
            /\ n.pc # "got_store" => UNCHANGED rebuilt
            /\ UNCHANGED <<overrides, files, disturbed, answered>>
<1>1. req[r] \in Threads
  BY DEF Typed
<1>2. CASE GetStore(r)
  <2>1. req'[r] = [req[r] EXCEPT !.pc = IF store = 0 THEN "load" ELSE "got_store"]
    BY <1>2 DEF GetStore, Goto, Typed
  <2> QED BY <1>1, <1>2, <2>1 DEF GetStore, Threads
<1>3. CASE Load(r)
  <2>1. req'[r] = [req[r] EXCEPT !.pc = "assign", !.built = Len(stores) + 1]
    BY <1>3 DEF Load, Typed
  <2>2. req'[r].pc = "assign" /\ req'[r].built = Len(stores) + 1
        /\ req'[r].kind = req[r].kind /\ req'[r].own = req[r].own
        /\ req'[r].policy = req[r].policy /\ req'[r].used = req[r].used
        /\ req'[r].search = req[r].search /\ req'[r].handle = req[r].handle
    BY <1>1, <2>1 DEF Threads
  <2>3. /\ req[r].pc = "load" /\ stores' = Append(stores, Whole)
        /\ UNCHANGED <<overrides, store, files, disturbed, rebuilt, answered>>
    BY <1>3 DEF Load
  <2> QED BY <2>2, <2>3
<1>4. CASE Assign(r)
  <2>1. req'[r] = [req[r] EXCEPT !.pc = "got_store", !.built = 0]
    BY <1>4 DEF Assign, Typed
  <2>2. req'[r].pc = "got_store"
        /\ req'[r].kind = req[r].kind /\ req'[r].own = req[r].own
        /\ req'[r].policy = req[r].policy /\ req'[r].used = req[r].used
        /\ req'[r].search = req[r].search /\ req'[r].handle = req[r].handle
    BY <1>1, <2>1 DEF Threads
  <2>3. ~rebuilt' => ~rebuilt /\ store = 0
    BY <1>4, Zenon DEF Assign
  <2>4. /\ req[r].pc = "assign" /\ store' = req[r].built
        /\ UNCHANGED <<overrides, stores, files, disturbed, answered>>
    BY <1>4 DEF Assign
  <2> QED BY <2>2, <2>3, <2>4
<1> QED BY <1>2, <1>3, <1>4

LEMMA GotMoves ==
  ASSUME Typed, NEW r \in Requests, GotStore(r)
  PROVE  LET q == req[r]
             n == req'[r]
         IN /\ q.pc = "got_store"
            /\ n.kind = q.kind /\ n.own = q.own /\ n.used = q.used
            /\ n.search = q.search
            /\ \/ n.pc = "save" /\ n.handle = store /\ q.kind # "view" /\ n.policy = q.policy
               \/ n.pc = "contains" /\ n.policy = "default" /\ q.kind = "view"
               \/ n.pc = "done" /\ q.kind = "view"
            /\ UNCHANGED <<overrides, stores, store, files, disturbed, rebuilt, answered>>
<1>1. req[r] \in Threads
  BY DEF Typed
<1>2. PICK run \in answered : req' = [req EXCEPT ![r] =
         IF @.kind # "view" THEN [@ EXCEPT !.pc = "save", !.handle = store]
         ELSE IF run \in stores[store]
         THEN [@ EXCEPT !.pc = "contains", !.policy = "default", !.of = run]
         ELSE [@ EXCEPT !.pc = "done"]]
  BY DEF GotStore
<1>3. \/ req[r].kind # "view" /\ req'[r] = [req[r] EXCEPT !.pc = "save", !.handle = store]
      \/ /\ req[r].kind = "view"
         /\ req'[r] = [req[r] EXCEPT !.pc = "contains", !.policy = "default", !.of = run]
      \/ req[r].kind = "view" /\ req'[r] = [req[r] EXCEPT !.pc = "done"]
  BY <1>2 DEF Typed
<1>4. req[r].kind # "view" /\ req'[r] = [req[r] EXCEPT !.pc = "save", !.handle = store]
        => /\ req'[r].kind = req[r].kind /\ req'[r].own = req[r].own
           /\ req'[r].used = req[r].used /\ req'[r].search = req[r].search
           /\ req'[r].policy = req[r].policy
           /\ req'[r].pc = "save" /\ req'[r].handle = store
  BY <1>1 DEF Threads
<1>5. req'[r] = [req[r] EXCEPT !.pc = "contains", !.policy = "default", !.of = run]
        => /\ req'[r].kind = req[r].kind /\ req'[r].own = req[r].own
           /\ req'[r].used = req[r].used /\ req'[r].search = req[r].search
           /\ req'[r].pc = "contains" /\ req'[r].policy = "default"
  BY <1>1 DEF Threads
<1>6. req'[r] = [req[r] EXCEPT !.pc = "done"]
        => /\ req'[r].kind = req[r].kind /\ req'[r].own = req[r].own
           /\ req'[r].used = req[r].used /\ req'[r].search = req[r].search
           /\ req'[r].pc = "done"
  BY <1>1 DEF Threads
<1>7. /\ req[r].pc = "got_store"
      /\ UNCHANGED <<overrides, stores, store, files, disturbed, rebuilt, answered>>
  BY DEF GotStore
<1> QED BY <1>3, <1>4, <1>5, <1>6, <1>7

LEMMA SaveMoves ==
  ASSUME Typed, NEW r \in Requests, SaveOpens(r) \/ SaveWrites(r) \/ WriteFails(r)
  PROVE  LET q == req[r]
             n == req'[r]
         IN /\ Same(n, q)
            /\ \/ /\ q.pc = "save" /\ n.pc = "write"
                  /\ stores' = [stores EXCEPT ![q.handle] = @ \cup {r}]
                  /\ files' = [files EXCEPT ![r] = "torn"]
                  /\ UNCHANGED answered
               \/ /\ q.pc = "write" /\ q.own = NoOverrides /\ n.pc = "done"
                  /\ files' = [files EXCEPT ![r] = "whole"]
                  /\ answered' = answered \cup {r}
                  /\ UNCHANGED stores
               \/ /\ q.pc = "write" /\ q.own # NoOverrides /\ n.pc = "clear"
                  /\ files' = [files EXCEPT ![r] = "whole"]
                  /\ UNCHANGED <<stores, answered>>
               \/ /\ q.pc = "write" /\ n.pc = Unwind(q)
                  /\ UNCHANGED <<stores, files, answered>>
            /\ UNCHANGED <<overrides, store, disturbed, rebuilt>>
<1>1. CASE SaveOpens(r)
  <2>1. req' = [req EXCEPT ![r].pc = "write"]
    BY <1>1 DEF SaveOpens, Goto
  <2>2. req'[r].pc = "write" /\ Same(req'[r], req[r])
    BY <2>1, PcMoves
  <2> QED BY <1>1, <2>2 DEF SaveOpens
<1>2. CASE SaveWrites(r) /\ req[r].own = NoOverrides
  <2>1. req' = [req EXCEPT ![r].pc = "done"]
    BY <1>2 DEF SaveWrites, Goto
  <2>2. req'[r].pc = "done" /\ Same(req'[r], req[r])
    BY <2>1, PcMoves
  <2> QED BY <1>2, <2>2 DEF SaveWrites
<1>3. CASE SaveWrites(r) /\ req[r].own # NoOverrides
  <2>1. req' = [req EXCEPT ![r].pc = "clear"]
    BY <1>3 DEF SaveWrites, Goto
  <2>2. req'[r].pc = "clear" /\ Same(req'[r], req[r])
    BY <2>1, PcMoves
  <2> QED BY <1>3, <2>2 DEF SaveWrites
<1>4. CASE WriteFails(r)
  <2>1. req' = [req EXCEPT ![r].pc = Unwind(req[r])]
    BY <1>4 DEF WriteFails, Goto
  <2>2. req'[r].pc = Unwind(req[r]) /\ Same(req'[r], req[r])
    BY <2>1, PcMoves
  <2> QED BY <1>4, <2>2 DEF WriteFails
<1> QED BY <1>1, <1>2, <1>3, <1>4

\* A restart: the requests in progress die, the others stay as they ended.
LEMMA RestartMoves ==
  ASSUME Typed, Restart
  PROVE  /\ \A r \in Requests : req'[r].pc \in Ended
         /\ \A r \in Requests : req'[r].pc # "dead" => req'[r] = req[r]
         /\ \A r \in Requests : req[r].pc \in Ended => req'[r] = req[r]
         /\ overrides' = NoOverrides /\ store' = 0 /\ rebuilt' = FALSE
         /\ UNCHANGED <<files, disturbed, answered>>
<1>1. [Asleep EXCEPT !.pc = "dead"].pc = "dead"
  BY AsleepTyped DEF Threads
<1>2. \A r \in Requests : req'[r] = IF r \in InProgress
                                    THEN [Asleep EXCEPT !.pc = "dead"] ELSE req[r]
  BY DEF Restart
<1> QED BY <1>1, <1>2 DEF Restart, InProgress, Ended

-----------------------------------------------------------------------------
\* get_store returns a store: the global was assigned before it is read again.
Ready == \A r \in Requests : req[r].pc = "got_store" => store # 0

LEMMA ReadyNext ==
  ASSUME Typed, Ready, [Next]_vars
  PROVE  Ready'
<1>1. CASE UNCHANGED vars
  BY <1>1 DEF vars, Ready
<1>2. CASE Restart
  BY <1>2, RestartMoves DEF Ready, Ended
<1>3. ASSUME NEW r \in Requests, Request(r) \/ Advance(r) \/ WriteFails(r)
      PROVE  Ready'
  <2>1. \A t \in Requests : t # r => req'[t] = req[t]
    BY <1>3, Others
  <2>2. CASE Request(r)
    BY <2>1, <2>2, BeginMoves DEF Ready
  <2>3. CASE SetOverrides(r)
    <3>1. req'[r].pc = "contains" /\ UNCHANGED store
      BY <2>3, PcMoves DEF SetOverrides, Goto
    <3> QED BY <2>1, <3>1 DEF Ready
  <2>4. CASE LooksUp(r) \/ Fetch(r)
    <3>1. req'[r].pc # "got_store"
      BY <2>4, LookMoves, LookedTyped DEF Unwind
    <3> QED BY <2>1, <2>4, <3>1, LookMoves DEF Ready
  <2>5. CASE Clear(r)
    BY <2>1, <2>5, ClearMoves DEF Ready
  <2>6. CASE GetStore(r) \/ Load(r) \/ Assign(r)
    <3>1. req[r].pc = "assign" => req[r].built # 0
      BY DEF Typed, Placed
    <3>2. store # 0 => store' # 0
      BY <2>6, <3>1, StoreSteps
    <3>3. req'[r].pc = "got_store" => store' # 0
      BY <2>6, <3>1, StoreSteps
    <3> QED BY <2>1, <3>2, <3>3 DEF Ready
  <2>7. CASE GotStore(r)
    BY <2>1, <2>7, GotMoves DEF Ready
  <2>8. CASE SaveOpens(r) \/ SaveWrites(r) \/ WriteFails(r)
    <3>1. req'[r].pc # "got_store" /\ UNCHANGED store
      BY <2>8, SaveMoves DEF Unwind
    <3> QED BY <2>1, <3>1 DEF Ready
  <2> QED BY <1>3, <2>2, <2>3, <2>4, <2>5, <2>6, <2>7, <2>8 DEF Advance
<1> QED BY <1>1, <1>2, <1>3 DEF Next

LEMMA TypedNext ==
  ASSUME Typed, Ready, [Next]_vars
  PROVE  Typed'
<1>1. CASE UNCHANGED vars
  BY <1>1 DEF vars, Typed, OverridesTyped
<1>2. CASE Restart
  BY <1>2, RestartTyped
<1>3. ASSUME NEW r \in Requests, Request(r) \/ Advance(r) \/ WriteFails(r)
      PROVE  Typed'
  <2>1. CASE GotStore(r)
    <3>1. store # 0
      BY <2>1 DEF GotStore, Ready
    <3> QED BY <2>1, <3>1, GotStoreTyped
  <2>2. CASE Request(r) \/ SetOverrides(r) \/ LooksUp(r) \/ Fetch(r) \/ Clear(r)
    BY <2>2, BeginTyped, SetTyped, LookupTyped, ClearTyped
  <2>3. CASE GetStore(r) \/ Load(r) \/ Assign(r)
    BY <2>3, GetStoreTyped, LoadTyped, AssignTyped
  <2>4. CASE SaveOpens(r) \/ SaveWrites(r) \/ WriteFails(r)
    BY <2>4, SaveTyped
  <2> QED BY <1>3, <2>1, <2>2, <2>3, <2>4 DEF Advance
<1> QED BY <1>1, <1>2, <1>3 DEF Next

LEMMA TypesHold == Spec => [](Typed /\ Ready)
<1>1. Init => Typed /\ Ready
  <2>1. Init => Ready
    BY AsleepTyped DEF Init, Ready
  <2> QED BY <2>1, TypedInit
<1>2. Typed /\ Ready /\ [Next]_vars => (Typed /\ Ready)'
  BY TypedNext, ReadyNext
<1> QED BY <1>1, <1>2, PTL DEF Spec

\* The types of the requests, of what they share and of the store: whatever thread
\* clears or binds a dict of costs meanwhile, every lookup yields a cost a batch can
\* be scored at, every search stays within its halvings and every save has a store
\* (config/costs.py:126, break_even.py:68, run_store.py:104).
THEOREM EvalTypes == Spec => []TypeOK
<1>1. Typed /\ Ready => TypeOK
  BY TypedImpliesTypeOK
<1> QED BY <1>1, TypesHold, PTL

-----------------------------------------------------------------------------
(***************************************************************************)
(* The overrides that are bound have an owner: a request that will clear   *)
(* them.  Once another request has bound its own or cleared them the owner *)
(* is another, or nobody: it is always who set them last.                  *)
(***************************************************************************)
HoldingPCs == {"contains", "fetch", "clear", "clear_failed", "get_store", "load", "assign",
               "got_store", "save", "write"}

Overriding(q) == q.kind = "view" \/ q.own # NoOverrides

Owns(q, bound) ==
  /\ q.pc \in HoldingPCs /\ Overriding(q)
  /\ bound = IF q.kind = "view" THEN [k \in {Knob} |-> Probe(q.search)] ELSE q.own
  /\ q.kind = "view" => /\ q.policy # "default"
                        /\ q.pc \in {"contains", "fetch", "clear", "clear_failed"}

Owned == overrides # NoOverrides => \E r \in Requests : Owns(req[r], overrides)

LEMMA OwnedImpliesOverridesAreOwned == Owned => OverridesAreOwned
<1> SUFFICES ASSUME Owned, overrides # NoOverrides PROVE OverridesAreOwned
  BY DEF OverridesAreOwned
<1>1. PICK r \in Requests : Owns(req[r], overrides)
  BY DEF Owned
<1>2. r \in InProgress /\ Overrides(r)
  BY <1>1 DEF InProgress, Overrides, Owns, Overriding, HoldingPCs, Ended
<1> QED BY <1>1, <1>2 DEF OverridesAreOwned, Owns, HoldingPCs

\* A request that binds nothing keeps the ownership it had, or had none.
LEMMA KeepsOwner ==
  ASSUME Owned, NEW r \in Requests, UNCHANGED overrides,
         \A t \in Requests : t # r => req'[t] = req[t],
         Owns(req[r], overrides) => Owns(req'[r], overrides)
  PROVE  Owned'
<1> SUFFICES ASSUME overrides # NoOverrides
             PROVE  \E t \in Requests : Owns(req'[t], overrides)
  BY DEF Owned
<1>1. PICK t \in Requests : Owns(req[t], overrides)
  BY DEF Owned
<1> QED BY <1>1

LEMMA OwnedNext ==
  ASSUME Typed, Owned, [Next]_vars
  PROVE  Owned'
<1>1. CASE UNCHANGED vars
  BY <1>1 DEF vars, Owned
<1>2. CASE Restart
  BY <1>2, RestartMoves DEF Owned
<1>3. ASSUME NEW r \in Requests, Request(r) \/ Advance(r) \/ WriteFails(r)
      PROVE  Owned'
  <2>1. \A t \in Requests : t # r => req'[t] = req[t]
    BY <1>3, Others
  <2>2. CASE Request(r)
    <3>1. ~Owns(req[r], overrides) /\ UNCHANGED overrides
      BY <2>2, BeginMoves DEF Owns, HoldingPCs
    <3> QED BY <2>1, <3>1, KeepsOwner
  <2>3. CASE SetOverrides(r)
    <3>1. req'[r].pc = "contains" /\ Same(req'[r], req[r])
      BY <2>3, PcMoves DEF SetOverrides, Goto
    <3>2. req[r].policy # "default"
      BY <2>3 DEF SetOverrides, Typed, Placed
    <3>3. overrides' = IF req[r].kind = "view"
                       THEN [k \in {Knob} |-> Probe(req[r].search)] ELSE req[r].own
      BY <2>3 DEF SetOverrides
    <3>4. ASSUME overrides' # NoOverrides PROVE Owns(req'[r], overrides')
      BY <3>1, <3>2, <3>3, <3>4 DEF Owns, HoldingPCs, Overriding, Same
    <3> QED BY <3>4 DEF Owned
  <2>4. CASE LooksUp(r) \/ Fetch(r)
    <3>1. ASSUME Owns(req[r], overrides) PROVE Owns(req'[r], overrides)
      <4>1. req[r].policy = "default" => req[r].kind = "view"
        BY DEF Typed, Placed
      <4>2. req[r].policy # "default"
        BY <3>1, <4>1 DEF Owns
      <4>3. CASE req'[r].pc \in {"fetch", Unwind(req[r])} /\ Same(req'[r], req[r])
        <5>1. req'[r].pc \in {"fetch", "clear_failed"}
          BY <3>1, <4>2, <4>3 DEF Unwind, Owns, Overriding
        <5> QED BY <3>1, <4>3, <5>1 DEF Owns, HoldingPCs, Overriding, Same
      <4>4. ASSUME NEW value \in Costs, req'[r] = Looked(req[r], value)
            PROVE  Owns(req'[r], overrides)
        <5>1. req[r].pc \in {"contains", "fetch"}
          BY <2>4, LookMoves
        <5>2. /\ req'[r].kind = req[r].kind /\ req'[r].own = req[r].own
              /\ req'[r].policy # "default" /\ req'[r].search = req[r].search
              /\ req'[r].pc \in {"contains", "clear", "get_store"}
              /\ req[r].kind = "view" => req'[r].pc \in {"contains", "clear"}
          BY <4>2, <4>4, <5>1, LookedTyped
        <5> QED BY <3>1, <5>2 DEF Owns, HoldingPCs, Overriding
      <4> QED BY <2>4, <4>3, <4>4, LookMoves
    <3> QED BY <2>1, <2>4, <3>1, KeepsOwner, LookMoves
  <2>5. CASE Clear(r)
    BY <2>5, ClearMoves DEF Owned
  <2>6. CASE GetStore(r) \/ Load(r) \/ Assign(r)
    <3>1. Owns(req[r], overrides) => Owns(req'[r], overrides)
      BY <2>6, StoreSteps DEF Owns, HoldingPCs, Overriding
    <3> QED BY <2>1, <2>6, <3>1, KeepsOwner, StoreSteps
  <2>7. CASE GotStore(r)
    <3>1. Owns(req[r], overrides) => Owns(req'[r], overrides)
      BY <2>7, GotMoves DEF Owns, HoldingPCs, Overriding
    <3> QED BY <2>1, <2>7, <3>1, KeepsOwner, GotMoves
  <2>8. CASE SaveOpens(r) \/ SaveWrites(r) \/ WriteFails(r)
    <3>1. ASSUME Owns(req[r], overrides) PROVE Owns(req'[r], overrides)
      <4>1. Same(req'[r], req[r]) /\ req[r].pc \in {"save", "write"}
        BY <2>8, SaveMoves
      <4>2. req[r].kind # "view" /\ req[r].own # NoOverrides /\ req[r].policy # "default"
        BY <3>1, <4>1 DEF Owns, Overriding, Typed, Placed
      <4>3. req'[r].pc \in {"write", "clear", "clear_failed"}
        BY <2>8, <4>2, SaveMoves DEF Unwind
      <4> QED BY <3>1, <4>1, <4>2, <4>3 DEF Owns, HoldingPCs, Overriding, Same
    <3> QED BY <2>1, <2>8, <3>1, KeepsOwner, SaveMoves
  <2> QED BY <1>3, <2>2, <2>3, <2>4, <2>5, <2>6, <2>7, <2>8 DEF Advance
<1> QED BY <1>1, <1>2, <1>3 DEF Next

LEMMA OwnedHolds == Spec => [](Typed /\ Ready /\ Owned)
<1>1. Init => Owned
  BY DEF Init, Owned
<1>2. Typed /\ Owned /\ [Next]_vars => Owned'
  BY OwnedNext
<1> QED BY <1>1, <1>2, TypesHold, PTL DEF Spec

\* However the requests interleave, and whatever raises, overrides that are bound were
\* set by a request in progress that has them to clear (service.py:96, break_even.py:45).
THEOREM OverridesAlwaysOwned == Spec => []OverridesAreOwned
<1>1. Owned => OverridesAreOwned
  BY OwnedImpliesOverridesAreOwned
<1> QED BY <1>1, OwnedHolds, PTL

-----------------------------------------------------------------------------
(***************************************************************************)
(* A run that overlapped no request with overrides is alone with its own:  *)
(* nobody else can bind or clear any until it has ended.                   *)
(***************************************************************************)
Alone ==
  \A r \in Requests \ disturbed, t \in Requests :
    t # r /\ req[r].pc \notin Ended /\ req[t].pc \notin Ended => ~Overriding(req[t])

Binding ==
  \A r \in Requests :
    req[r].pc \in {"set", "clear", "clear_failed"} => Overriding(req[r])

Told == \A r \in answered \cap Requests : req[r].kind # "view" /\ req[r].pc = "done"

BoundAtLookup(q, bound) ==
  q.kind # "view" /\ q.pc \in {"contains", "fetch"} => bound = q.own

ScoredPCs == {"get_store", "load", "assign", "got_store", "save", "write", "clear", "done"}

Scored(q) ==
  q.kind # "view" =>
    /\ q.pc = "set" => q.policy = "b2"
    /\ q.pc \in {"contains", "fetch"} /\ q.policy = "ours" => q.used["b2"] = OwnCost(q)
    /\ q.pc \in ScoredPCs => \A p \in Policies : q.used[p] = OwnCost(q)

Quiet ==
  /\ Alone /\ Binding /\ Told
  /\ \A r \in Requests \ disturbed : BoundAtLookup(req[r], overrides) /\ Scored(req[r])

LEMMA QuietImpliesScored == Quiet => ScoredWithItsOwnCosts
<1> SUFFICES ASSUME Quiet, NEW r \in (answered \cap Requests) \ disturbed, NEW p \in Policies
             PROVE  req[r].used[p] = OwnCost(req[r])
  BY DEF ScoredWithItsOwnCosts
<1>1. req[r].kind # "view" /\ req[r].pc = "done" /\ Scored(req[r])
  BY DEF Quiet, Told
<1> QED BY <1>1 DEF Scored, ScoredPCs

\* A step of a request that has begun: it is in progress, as what it was when it began.
LEMMA StaysItself ==
  ASSUME Typed, NEW r \in Requests, Advance(r) \/ WriteFails(r)
  PROVE  /\ req[r].pc \notin Ended
         /\ req'[r].kind = req[r].kind /\ req'[r].own = req[r].own
         /\ UNCHANGED disturbed
<1>1. CASE SetOverrides(r)
  BY <1>1, PcMoves DEF SetOverrides, Goto, Same, Ended
<1>2. CASE LooksUp(r) \/ Fetch(r)
  <2>1. /\ req[r].pc \in {"contains", "fetch"} /\ UNCHANGED disturbed
    BY <1>2, LookMoves
  <2>2. ASSUME NEW value \in Costs, req'[r] = Looked(req[r], value)
        PROVE  req'[r].kind = req[r].kind /\ req'[r].own = req[r].own
    BY <2>1, <2>2, LookedTyped
  <2> QED BY <1>2, <2>1, <2>2, LookMoves DEF Same, Ended
<1>3. CASE Clear(r)
  BY <1>3, ClearMoves DEF Ended
<1>4. CASE GetStore(r) \/ Load(r) \/ Assign(r)
  BY <1>4, StoreSteps DEF Ended
<1>5. CASE GotStore(r)
  BY <1>5, GotMoves DEF Ended
<1>6. CASE SaveOpens(r) \/ SaveWrites(r) \/ WriteFails(r)
  BY <1>6, SaveMoves DEF Same, Ended
<1> QED BY <1>1, <1>2, <1>3, <1>4, <1>5, <1>6 DEF Advance

LEMMA AloneNext ==
  ASSUME Typed, Alone, [Next]_vars
  PROVE  Alone'
<1>1. CASE UNCHANGED vars
  BY <1>1 DEF vars, Alone
<1>2. CASE Restart
  BY <1>2, RestartMoves DEF Alone
<1>3. ASSUME NEW r \in Requests, Request(r) \/ Advance(r) \/ WriteFails(r)
      PROVE  Alone'
  <2>1. \A t \in Requests : t # r => req'[t] = req[t]
    BY <1>3, Others
  <2>2. CASE Request(r)
    <3>1. disturbed \subseteq disturbed' /\ req[r].pc = "idle"
      BY <2>2, BeginMoves
    <3> SUFFICES ASSUME NEW u \in Requests \ disturbed', NEW t \in Requests, t # u,
                        req'[u].pc \notin Ended, req'[t].pc \notin Ended,
                        Overriding(req'[t])
                 PROVE  FALSE
      BY DEF Alone
    <3>2. CASE u # r /\ t # r
      BY <2>1, <3>1, <3>2 DEF Alone
    <3>3. CASE u = r
      <4>1. t \in InProgress /\ Overrides(t)
        BY <2>1, <3>3 DEF InProgress, Overrides, Overriding
      <4>2. r \in disturbed'
        BY <2>2, <4>1, BeginMoves
      <4> QED BY <3>3, <4>2
    <3>4. CASE t = r /\ u # r
      <4>1. u \in InProgress
        BY <2>1, <3>4 DEF InProgress
      <4>2. u \in disturbed'
        BY <2>2, <3>4, <4>1, BeginMoves DEF Overriding
      <4> QED BY <4>2
    <3> QED BY <3>2, <3>3, <3>4
  <2>3. CASE Advance(r) \/ WriteFails(r)
    <3>1. /\ req[r].pc \notin Ended /\ UNCHANGED disturbed
          /\ Overriding(req'[r]) = Overriding(req[r])
      BY <2>3, StaysItself DEF Overriding
    <3> QED BY <2>1, <3>1 DEF Alone
  <2> QED BY <1>3, <2>2, <2>3
<1> QED BY <1>1, <1>2, <1>3 DEF Next

LEMMA BindingNext ==
  ASSUME Typed, Binding, [Next]_vars
  PROVE  Binding'
<1>1. CASE UNCHANGED vars
  BY <1>1 DEF vars, Binding
<1>2. CASE Restart
  BY <1>2, RestartMoves DEF Binding, Ended
<1>3. ASSUME NEW r \in Requests, Request(r) \/ Advance(r) \/ WriteFails(r)
      PROVE  Binding'
  <2>1. \A t \in Requests : t # r => req'[t] = req[t]
    BY <1>3, Others
  <2>2. SUFFICES ASSUME req'[r].pc \in {"set", "clear", "clear_failed"}
                 PROVE  Overriding(req'[r])
    BY <2>1 DEF Binding
  <2>3. CASE Request(r)
    BY <2>2, <2>3, BeginMoves DEF Overriding
  <2>4. CASE SetOverrides(r)
    BY <2>2, <2>4, PcMoves DEF SetOverrides, Goto
  <2>5. CASE LooksUp(r) \/ Fetch(r)
    <3>1. req[r].policy = "default" => req[r].kind = "view"
      BY DEF Typed, Placed
    <3>2. CASE req'[r].pc \in {"fetch", Unwind(req[r])} /\ Same(req'[r], req[r])
      BY <2>2, <3>2 DEF Unwind, Overriding, Same
    <3>3. ASSUME NEW value \in Costs, req'[r] = Looked(req[r], value)
          PROVE  Overriding(req'[r])
      <4>1. req[r].pc \in {"contains", "fetch"}
        BY <2>5, LookMoves
      <4>2. req'[r].kind = req[r].kind /\ req'[r].pc \in {"set", "contains", "clear", "get_store"}
            /\ (req'[r].pc = "set" => req[r].policy = "default")
            /\ (req'[r].pc = "clear" => req[r].kind = "view")
        BY <3>3, <4>1, LookedTyped
      <4> QED BY <2>2, <3>1, <4>2 DEF Overriding
    <3> QED BY <2>5, <3>2, <3>3, LookMoves
  <2>6. CASE Clear(r)
    BY <2>2, <2>6, ClearMoves DEF Overriding
  <2>7. CASE GetStore(r) \/ Load(r) \/ Assign(r)
    BY <2>2, <2>7, StoreSteps
  <2>8. CASE GotStore(r)
    BY <2>2, <2>8, GotMoves
  <2>9. CASE SaveOpens(r) \/ SaveWrites(r) \/ WriteFails(r)
    BY <2>2, <2>9, SaveMoves DEF Unwind, Overriding, Same
  <2> QED BY <1>3, <2>3, <2>4, <2>5, <2>6, <2>7, <2>8, <2>9 DEF Advance
<1> QED BY <1>1, <1>2, <1>3 DEF Next

LEMMA ToldNext ==
  ASSUME Typed, Told, [Next]_vars
  PROVE  Told'
<1>1. CASE UNCHANGED vars
  BY <1>1 DEF vars, Told
<1>2. CASE Restart
  BY <1>2, RestartMoves DEF Told, Ended
<1>3. ASSUME NEW r \in Requests, Request(r) \/ Advance(r) \/ WriteFails(r)
      PROVE  Told'
  <2>1. \A t \in Requests : t # r => req'[t] = req[t]
    BY <1>3, Others
  <2>2. r \notin answered
    <3>1. req[r].pc # "done"
      BY <1>3, BeginMoves, StaysItself DEF Ended
    <3> QED BY <3>1 DEF Told
  <2>3. CASE Clear(r)
    <3>1. req'[r].kind = req[r].kind
          /\ (r \in answered' => req[r].kind # "view" /\ req'[r].pc = "done")
          /\ answered' \subseteq answered \cup {r}
      BY <2>2, <2>3, ClearMoves
    <3> QED BY <2>1, <3>1 DEF Told
  <2>4. CASE SaveOpens(r) \/ SaveWrites(r) \/ WriteFails(r)
    <3>1. /\ req'[r].kind = req[r].kind /\ req[r].pc \in {"save", "write"}
          /\ r \in answered' => req'[r].pc = "done"
          /\ answered' \subseteq answered \cup {r}
      BY <2>2, <2>4, SaveMoves DEF Same
    <3>2. req[r].kind # "view"
      BY <3>1 DEF Typed, Placed
    <3> QED BY <2>1, <3>1, <3>2 DEF Told
  <2>5. CASE ~(Clear(r) \/ SaveOpens(r) \/ SaveWrites(r) \/ WriteFails(r))
    <3>1. UNCHANGED answered
      BY <1>3, <2>5, BeginMoves, LookMoves, StoreSteps, GotMoves DEF Advance, SetOverrides
    <3> QED BY <2>1, <2>2, <3>1 DEF Told
  <2> QED BY <2>3, <2>4, <2>5
<1> QED BY <1>1, <1>2, <1>3 DEF Next

\* The moving request was not disturbed: what it looks up is its own cost.
LEMMA QuietMover ==
  ASSUME Typed, Owned, Quiet, NEW r \in Requests,
         Request(r) \/ Advance(r) \/ WriteFails(r), r \notin disturbed'
  PROVE  BoundAtLookup(req'[r], overrides') /\ Scored(req'[r])
<1>1. CASE Request(r)
  <2>1. overrides = NoOverrides \/ \E t \in Requests : Owns(req[t], overrides)
    BY DEF Owned
  <2>2. \A t \in Requests : Owns(req[t], overrides) => t \in InProgress /\ Overrides(t)
    BY DEF Owns, HoldingPCs, InProgress, Ended, Overriding, Overrides
  <2>3. overrides = NoOverrides
    BY <1>1, <2>1, <2>2, BeginMoves
  <2> QED BY <1>1, <2>3, BeginMoves DEF BoundAtLookup, Scored, ScoredPCs
<1>2. CASE Advance(r) \/ WriteFails(r)
  <2>1. /\ r \notin disturbed /\ req[r].pc \notin Ended
        /\ req'[r].kind = req[r].kind /\ req'[r].own = req[r].own
        /\ OwnCost(req'[r]) = OwnCost(req[r])
    BY <1>2, StaysItself DEF OwnCost
  <2>2. BoundAtLookup(req[r], overrides) /\ Scored(req[r])
    BY <2>1 DEF Quiet
  <2> SUFFICES ASSUME req[r].kind # "view"
               PROVE  BoundAtLookup(req'[r], overrides') /\ Scored(req'[r])
    BY <2>1 DEF BoundAtLookup, Scored
  <2>3. CASE SetOverrides(r)
    <3>1. req'[r].pc = "contains" /\ req'[r].policy = req[r].policy
          /\ overrides' = req[r].own /\ req[r].pc = "set" /\ req'[r].used = req[r].used
      BY <2>3, PcMoves DEF SetOverrides, Goto, Same
    <3>2. req[r].policy # "ours"
      BY <2>2, <3>1 DEF Scored
    <3> QED BY <2>1, <3>1, <3>2 DEF BoundAtLookup, Scored, ScoredPCs
  <2>4. CASE LooksUp(r) \/ Fetch(r)
    <3>1. req[r].pc \in {"contains", "fetch"} /\ UNCHANGED overrides
      BY <2>4, LookMoves
    <3>2. req[r].policy \in {"b2", "ours"} /\ req[r].used \in [Policies -> Costs]
      BY DEF Typed, Placed, Threads, Policies
    <3>3. overrides = req[r].own
      BY <2>2, <3>1 DEF BoundAtLookup
    <3>4. CASE req'[r].pc = "fetch" /\ Same(req'[r], req[r])
      BY <2>1, <2>2, <3>1, <3>3, <3>4 DEF BoundAtLookup, Scored, ScoredPCs, Same
    <3>5. CASE req'[r].pc = Unwind(req[r]) /\ Same(req'[r], req[r])
      BY <3>5 DEF Unwind, BoundAtLookup, Scored, ScoredPCs
    <3>6. ASSUME NEW value \in Costs,
                 value = IF Knob \in DOMAIN overrides THEN overrides[Knob] ELSE Default,
                 req'[r] = Looked(req[r], value)
          PROVE  BoundAtLookup(req'[r], overrides') /\ Scored(req'[r])
      <4>1. value = OwnCost(req[r])
        BY <3>3, <3>6 DEF OwnCost
      <4>2. /\ req'[r].used = [req[r].used EXCEPT ![req[r].policy] = value]
            /\ req'[r].policy = IF req[r].policy = "b2" THEN "ours" ELSE "b2"
            /\ req'[r].pc = IF req[r].policy = "b2" THEN "contains" ELSE "get_store"
        BY <3>1, <3>2, <3>6, LookedTyped DEF First, Second
      <4>3. CASE req[r].policy = "b2"
        <5>1. req'[r].used["b2"] = OwnCost(req'[r])
          BY <2>1, <3>2, <4>1, <4>2, <4>3 DEF Policies
        <5> QED BY <2>1, <3>1, <3>3, <4>2, <4>3, <5>1 DEF BoundAtLookup, Scored, ScoredPCs
      <4>4. CASE req[r].policy = "ours"
        <5>1. req[r].used["b2"] = OwnCost(req[r])
          BY <2>2, <3>1, <4>4 DEF Scored
        <5>2. \A p \in Policies : req'[r].used[p] = OwnCost(req'[r])
          BY <2>1, <3>2, <4>1, <4>2, <4>4, <5>1 DEF Policies
        <5> QED BY <4>2, <4>4, <5>2 DEF BoundAtLookup, Scored, ScoredPCs
      <4> QED BY <3>2, <4>3, <4>4
    <3> QED BY <2>4, <3>4, <3>5, <3>6, LookMoves
  <2>5. CASE Clear(r)
    <3>1. req'[r].pc \in {"failed", "done"} /\ req'[r].used = req[r].used
          /\ (req'[r].pc = "done" => req[r].pc = "clear")
      BY <2>5, ClearMoves
    <3> QED BY <2>1, <2>2, <3>1 DEF BoundAtLookup, Scored, ScoredPCs
  <2>6. CASE GetStore(r) \/ Load(r) \/ Assign(r)
    <3>1. /\ req[r].pc \in {"get_store", "load", "assign"}
          /\ req'[r].pc \in {"load", "assign", "got_store"} /\ req'[r].used = req[r].used
      BY <2>6, StoreSteps
    <3> QED BY <2>1, <2>2, <3>1 DEF BoundAtLookup, Scored, ScoredPCs
  <2>7. CASE GotStore(r)
    <3>1. /\ req[r].pc = "got_store" /\ req'[r].pc = "save" /\ req'[r].used = req[r].used
      BY <2>7, GotMoves
    <3> QED BY <2>1, <2>2, <3>1 DEF BoundAtLookup, Scored, ScoredPCs
  <2>8. CASE SaveOpens(r) \/ SaveWrites(r) \/ WriteFails(r)
    <3>1. /\ req[r].pc \in {"save", "write"} /\ req'[r].used = req[r].used
          /\ req'[r].pc \in {"write", "done", "clear", "failed", "clear_failed"}
      BY <2>8, SaveMoves DEF Unwind, Same
    <3> QED BY <2>1, <2>2, <3>1 DEF BoundAtLookup, Scored, ScoredPCs
  <2> QED BY <1>2, <2>3, <2>4, <2>5, <2>6, <2>7, <2>8 DEF Advance
<1> QED BY <1>1, <1>2

\* Nobody binds or clears overrides under a request that was not disturbed.
LEMMA QuietOthers ==
  ASSUME Typed, Quiet, NEW r \in Requests,
         Request(r) \/ Advance(r) \/ WriteFails(r),
         NEW t \in Requests \ disturbed', t # r
  PROVE  BoundAtLookup(req'[t], overrides') /\ Scored(req'[t])
<1>1. req'[t] = req[t] /\ t \notin disturbed
  BY Others, BeginMoves, StaysItself
<1>2. BoundAtLookup(req[t], overrides) /\ Scored(req[t])
  BY <1>1 DEF Quiet
<1>3. CASE UNCHANGED overrides
  BY <1>1, <1>2, <1>3
<1>4. CASE ~(UNCHANGED overrides)
  <2>1. SetOverrides(r) \/ Clear(r)
    BY <1>4, BeginMoves, LookMoves, StoreSteps, GotMoves, SaveMoves DEF Advance
  <2>2. req[r].pc \in {"set", "clear", "clear_failed"}
    BY <2>1 DEF SetOverrides, Clear
  <2>3. Overriding(req[r]) /\ req[r].pc \notin Ended
    BY <2>2 DEF Quiet, Binding, Ended
  <2>4. req[t].pc \in Ended
    BY <1>1, <2>3 DEF Quiet, Alone
  <2> QED BY <1>1, <1>2, <2>4 DEF BoundAtLookup, Ended
<1> QED BY <1>3, <1>4

LEMMA QuietNext ==
  ASSUME Typed, Owned, Quiet, [Next]_vars
  PROVE  Quiet'
<1>1. (Alone /\ Binding /\ Told)'
  BY AloneNext, BindingNext, ToldNext DEF Quiet
<1>2. CASE UNCHANGED vars
  BY <1>1, <1>2 DEF vars, Quiet, BoundAtLookup, Scored, OwnCost
<1>3. CASE Restart
  <2>1. ASSUME NEW r \in Requests \ disturbed'
        PROVE  BoundAtLookup(req'[r], overrides') /\ Scored(req'[r])
    <3>1. /\ r \notin disturbed /\ req'[r].pc \in Ended
          /\ req'[r].pc # "dead" => req'[r] = req[r]
      BY <1>3, RestartMoves
    <3>2. Scored(req[r])
      BY <3>1 DEF Quiet
    <3> QED BY <3>1, <3>2 DEF BoundAtLookup, Scored, ScoredPCs, Ended
  <2> QED BY <1>1, <2>1 DEF Quiet
<1>4. ASSUME NEW r \in Requests, Request(r) \/ Advance(r) \/ WriteFails(r)
      PROVE  Quiet'
  BY <1>1, <1>4, QuietMover, QuietOthers DEF Quiet
<1> QED BY <1>2, <1>3, <1>4 DEF Next

LEMMA QuietHolds == Spec => [](Typed /\ Ready /\ Owned /\ Quiet)
<1>1. Init => Quiet
  <2> SUFFICES ASSUME Init PROVE Quiet
    OBVIOUS
  <2>1. \A r \in Requests : req[r].pc = "idle"
    BY AsleepTyped DEF Init
  <2>2. answered \cap Requests = {}
    BY RunsAssumption DEF Init
  <2> QED BY <2>1, <2>2 DEF Quiet, Alone, Binding, Told, BoundAtLookup, Scored, ScoredPCs, Ended
<1>2. Typed /\ Owned /\ Quiet /\ [Next]_vars => Quiet'
  BY QuietNext
<1> QED BY <1>1, <1>2, OwnedHolds, PTL DEF Spec

\* Whatever other requests run, a run a client was told of that overlapped nobody with
\* overrides was scored with its own costs (service.py:37).
THEOREM RunsScoredWithOwnCosts == Spec => []ScoredWithItsOwnCosts
<1>1. Quiet => ScoredWithItsOwnCosts
  BY QuietImpliesScored
<1> QED BY <1>1, QuietHolds, PTL

-----------------------------------------------------------------------------
(***************************************************************************)
(* A run that was answered is whole on disk; it is in the store of the     *)
(* moment as long as one store was built, for then every save had it.      *)
(***************************************************************************)
Saved(q) == q.kind # "view" /\ q.pc = "clear"

OnDisk ==
  /\ answered \subseteq Whole
  /\ \A r \in Requests : Saved(req[r]) => files[r] = "whole"

InStore ==
  ~rebuilt =>
    /\ store # 0 => answered \subseteq stores[store]
    /\ \A r \in Requests :
         /\ req[r].pc \in {"save", "write"} \/ Saved(req[r]) =>
              store # 0 /\ req[r].handle = store
         /\ req[r].pc = "write" \/ Saved(req[r]) => r \in stores[store]
         /\ store = 0 /\ req[r].pc = "assign" => answered \subseteq stores[req[r].built]

LEMMA KeptImpliesFound == OnDisk /\ InStore => AnsweredRunsAreFound
  BY DEF OnDisk, InStore, AnsweredRunsAreFound

\* A lookup and its rest leave the saving requests as they are.
LEMMA LookNotSaved ==
  ASSUME Typed, NEW r \in Requests, LooksUp(r) \/ Fetch(r)
  PROVE  /\ req'[r].pc \notin {"save", "write", "assign"} /\ ~Saved(req'[r])
<1>1. req[r].pc \in {"contains", "fetch"}
  BY LookMoves
<1>2. ASSUME NEW value \in Costs, req'[r] = Looked(req[r], value)
      PROVE  req'[r].pc \notin {"save", "write", "assign"} /\ ~Saved(req'[r])
  <2>1. /\ req'[r].pc \in {"set", "contains", "clear", "get_store"}
        /\ req'[r].kind = req[r].kind
    BY <1>1, <1>2, LookedTyped
  <2>2. req[r].policy = "default" => req[r].kind = "view"
    BY DEF Typed, Placed
  <2>3. req'[r].pc = "clear" => req[r].kind = "view"
    BY <1>1, <1>2, <2>1, <2>2, LookedTyped
  <2> QED BY <2>1, <2>3 DEF Saved
<1> QED BY <1>2, LookMoves DEF Unwind, Saved

LEMMA OnDiskNext ==
  ASSUME Typed, Told, OnDisk, [Next]_vars
  PROVE  OnDisk'
<1>1. CASE UNCHANGED vars
  BY <1>1 DEF vars, OnDisk, Whole, Saved
<1>2. CASE Restart
  BY <1>2, RestartMoves DEF OnDisk, Whole, Saved, Ended
<1>3. ASSUME NEW r \in Requests, Request(r) \/ Advance(r) \/ WriteFails(r)
      PROVE  OnDisk'
  <2>1. \A t \in Requests : t # r => req'[t] = req[t]
    BY <1>3, Others
  <2>2. CASE Request(r)
    <3>1. ~Saved(req'[r]) /\ UNCHANGED <<files, answered>>
      BY <2>2, BeginMoves DEF Saved
    <3> QED BY <2>1, <3>1 DEF OnDisk, Whole
  <2>3. CASE SetOverrides(r)
    <3>1. req'[r].pc = "contains" /\ UNCHANGED <<files, answered>>
      BY <2>3, PcMoves DEF SetOverrides, Goto
    <3> QED BY <2>1, <3>1 DEF OnDisk, Whole, Saved
  <2>4. CASE LooksUp(r) \/ Fetch(r)
    <3>1. ~Saved(req'[r]) /\ UNCHANGED <<files, answered>>
      BY <2>4, LookMoves, LookNotSaved
    <3> QED BY <2>1, <3>1 DEF OnDisk, Whole
  <2>5. CASE Clear(r)
    <3>1. /\ UNCHANGED files /\ req'[r].pc # "clear"
          /\ answered' = IF Saved(req[r]) THEN answered \cup {r} ELSE answered
      BY <2>5, ClearMoves DEF Saved
    <3>2. Saved(req[r]) => r \in Whole
      BY DEF OnDisk, Whole, Runs
    <3>3. answered' \subseteq Whole'
      BY <3>1, <3>2 DEF OnDisk, Whole
    <3> QED BY <2>1, <3>1, <3>3 DEF OnDisk, Saved
  <2>6. CASE GetStore(r) \/ Load(r) \/ Assign(r)
    <3>1. ~Saved(req'[r]) /\ UNCHANGED <<files, answered>>
      BY <2>6, StoreSteps DEF Saved
    <3> QED BY <2>1, <3>1 DEF OnDisk, Whole
  <2>7. CASE GotStore(r)
    <3>1. ~Saved(req'[r]) /\ UNCHANGED <<files, answered>>
      BY <2>7, GotMoves DEF Saved
    <3> QED BY <2>1, <3>1 DEF OnDisk, Whole
  <2>8. CASE SaveOpens(r) \/ SaveWrites(r) \/ WriteFails(r)
    <3>1. files \in [Runs -> {"none", "torn", "whole"}] /\ r \in Runs
      BY DEF Typed, Runs
    <3>2. req[r].pc \in {"save", "write"}
      BY <2>8, SaveMoves
    <3>3. r \notin answered
      BY <3>2 DEF Told
    <3>4. CASE req'[r].pc = "write" /\ files' = [files EXCEPT ![r] = "torn"]
               /\ UNCHANGED answered
      <4>1. answered \subseteq Whole'
        BY <3>1, <3>3, <3>4 DEF OnDisk, Whole
      <4> QED BY <2>1, <3>1, <3>4, <4>1 DEF OnDisk, Saved
    <3>5. CASE files' = [files EXCEPT ![r] = "whole"] /\ answered' \subseteq answered \cup {r}
      <4>1. answered' \subseteq Whole' /\ files'[r] = "whole"
        BY <3>1, <3>5 DEF OnDisk, Whole
      <4> QED BY <2>1, <3>1, <3>5, <4>1 DEF OnDisk, Saved
    <3>6. CASE req'[r].pc = Unwind(req[r]) /\ UNCHANGED <<files, answered>>
      BY <2>1, <3>6 DEF OnDisk, Whole, Saved, Unwind
    <3> QED BY <2>8, <3>4, <3>5, <3>6, SaveMoves
  <2> QED BY <1>3, <2>2, <2>3, <2>4, <2>5, <2>6, <2>7, <2>8 DEF Advance
<1> QED BY <1>1, <1>2, <1>3 DEF Next

\* A step that changes neither the store nor its contents, of a request that is not
\* about to save or assign after it.
LEMMA InStoreKeeps ==
  ASSUME InStore, NEW r \in Requests, UNCHANGED <<stores, store, rebuilt, answered>>,
         \A t \in Requests : t # r => req'[t] = req[t],
         req'[r].pc \notin {"save", "write", "assign"}, ~Saved(req'[r])
  PROVE  InStore'
<1> SUFFICES ASSUME ~rebuilt PROVE InStore'
  BY DEF InStore
<1>1. ASSUME NEW t \in Requests
      PROVE  /\ req'[t].pc \in {"save", "write"} \/ Saved(req'[t]) =>
                  store' # 0 /\ req'[t].handle = store'
             /\ req'[t].pc = "write" \/ Saved(req'[t]) => t \in stores'[store']
             /\ store' = 0 /\ req'[t].pc = "assign" =>
                  answered' \subseteq stores'[req'[t].built]
  <2>1. CASE t = r
    BY <2>1
  <2>2. CASE t # r
    BY <2>2 DEF InStore
  <2> QED BY <2>1, <2>2
<1> QED BY <1>1 DEF InStore

LEMMA InStoreNext ==
  ASSUME Typed, Ready, OnDisk, InStore, [Next]_vars
  PROVE  InStore'
<1>1. CASE UNCHANGED vars
  BY <1>1 DEF vars, InStore, Saved
<1>2. CASE Restart
  BY <1>2, RestartMoves DEF InStore, Saved, Ended
<1>3. ASSUME NEW r \in Requests, Request(r) \/ Advance(r) \/ WriteFails(r)
      PROVE  InStore'
  <2>1. \A t \in Requests : t # r => req'[t] = req[t]
    BY <1>3, Others
  <2>2. CASE Request(r)
    <3>1. /\ UNCHANGED <<stores, store, rebuilt, answered>>
          /\ req'[r].pc \notin {"save", "write", "assign"} /\ ~Saved(req'[r])
      BY <2>2, BeginMoves DEF Saved
    <3> QED BY <2>1, <3>1, InStoreKeeps
  <2>3. CASE SetOverrides(r)
    <3>1. req'[r].pc = "contains" /\ UNCHANGED <<stores, store, rebuilt, answered>>
      BY <2>3, PcMoves DEF SetOverrides, Goto
    <3> QED BY <2>1, <3>1, InStoreKeeps DEF Saved
  <2>4. CASE LooksUp(r) \/ Fetch(r)
    BY <2>1, <2>4, InStoreKeeps, LookNotSaved, LookMoves
  <2>5. CASE Clear(r)
    <3>1. /\ UNCHANGED <<stores, store, rebuilt>>
          /\ req'[r].pc \in {"failed", "done", "set"}
          /\ answered' = IF Saved(req[r]) THEN answered \cup {r} ELSE answered
      BY <2>5, ClearMoves DEF Saved
    <3> SUFFICES ASSUME ~rebuilt PROVE InStore'
      BY <3>1 DEF InStore
    <3>2. Saved(req[r]) => store # 0 /\ r \in stores[store]
      BY DEF InStore
    <3>3. store # 0 => answered' \subseteq stores[store]
      BY <3>1, <3>2 DEF InStore
    <3>4. store = 0 => UNCHANGED answered
      BY <3>1, <3>2
    <3>5. ASSUME NEW t \in Requests
          PROVE  /\ req'[t].pc \in {"save", "write"} \/ Saved(req'[t]) =>
                      store' # 0 /\ req'[t].handle = store'
                 /\ req'[t].pc = "write" \/ Saved(req'[t]) => t \in stores'[store']
                 /\ store' = 0 /\ req'[t].pc = "assign" =>
                      answered' \subseteq stores'[req'[t].built]
      <4>1. CASE t = r
        BY <3>1, <4>1 DEF Saved
      <4>2. CASE t # r
        BY <2>1, <3>1, <3>4, <4>2 DEF InStore
      <4> QED BY <4>1, <4>2
    <3> QED BY <3>1, <3>3, <3>5 DEF InStore
  <2>6. CASE GetStore(r)
    <3>1. /\ req'[r].pc \in {"load", "got_store"}
          /\ UNCHANGED <<stores, store, rebuilt, answered>>
      <4>1. req'[r].pc = IF store = 0 THEN "load" ELSE "got_store"
        BY <2>6, PcMoves DEF GetStore, Goto
      <4> QED BY <2>6, <4>1 DEF GetStore
    <3> QED BY <2>1, <3>1, InStoreKeeps DEF Saved
  <2>7. CASE Load(r)
    <3>1. /\ stores' = Append(stores, Whole) /\ req'[r].pc = "assign"
          /\ req'[r].built = Len(stores) + 1
          /\ UNCHANGED <<store, rebuilt, answered>>
      <4>1. req'[r].pc = "assign"
        BY <2>7 DEF Load, Typed, Threads
      <4> QED BY <2>7, <4>1, StoreSteps
    <3>2. stores \in Seq(SUBSET Runs) /\ Whole \in SUBSET Runs /\ store \in 0 .. Len(stores)
      BY DEF Typed, Whole
    <3>3. stores'[Len(stores) + 1] = Whole
          /\ \A i \in 1 .. Len(stores) : stores'[i] = stores[i]
      BY <3>1, <3>2
    <3> SUFFICES ASSUME ~rebuilt PROVE InStore'
      BY <3>1 DEF InStore
    <3>4. store # 0 => stores'[store] = stores[store]
      BY <3>2, <3>3
    <3>5. ASSUME NEW t \in Requests
          PROVE  /\ req'[t].pc \in {"save", "write"} \/ Saved(req'[t]) =>
                      store' # 0 /\ req'[t].handle = store'
                 /\ req'[t].pc = "write" \/ Saved(req'[t]) => t \in stores'[store']
                 /\ store' = 0 /\ req'[t].pc = "assign" =>
                      answered' \subseteq stores'[req'[t].built]
      <4>1. CASE t = r
        BY <3>1, <3>3, <4>1 DEF Saved, OnDisk
      <4>2. CASE t # r
        <5>1. req[t].pc = "assign" => req[t].built \in 1 .. Len(stores)
          BY DEF Typed, Placed
        <5>2. req[t].pc = "assign" => stores'[req[t].built] = stores[req[t].built]
          BY <3>3, <5>1
        <5>3. req'[t] = req[t]
          BY <2>1, <4>2
        <5> QED BY <3>1, <3>4, <5>2, <5>3 DEF InStore
      <4> QED BY <4>1, <4>2
    <3> QED BY <3>1, <3>4, <3>5 DEF InStore
  <2>8. CASE Assign(r)
    <3>1. /\ req'[r].pc = "got_store" /\ req[r].pc = "assign" /\ store' = req[r].built
          /\ ~rebuilt' => ~rebuilt /\ store = 0
          /\ UNCHANGED <<stores, answered>>
      <4>1. req'[r].pc = "got_store"
        BY <2>8 DEF Assign, Typed, Threads
      <4>2. ~rebuilt' => ~rebuilt /\ store = 0
        BY <2>8, Zenon DEF Assign
      <4> QED BY <2>8, <4>1, <4>2 DEF Assign
    <3> SUFFICES ASSUME ~rebuilt' PROVE InStore'
      BY DEF InStore
    <3>2. ~rebuilt /\ store = 0 /\ store' # 0
      BY <3>1 DEF Typed, Placed
    <3>3. answered \subseteq stores[req[r].built]
      BY <3>1, <3>2 DEF InStore
    <3>4. \A t \in Requests : req'[t].pc \notin {"save", "write"} /\ ~Saved(req'[t])
      BY <2>1, <3>1, <3>2 DEF InStore, Saved
    <3> QED BY <3>1, <3>2, <3>3, <3>4 DEF InStore
  <2>9. CASE GotStore(r)
    <3>1. /\ req[r].pc = "got_store"
          /\ \/ req'[r].pc = "save" /\ req'[r].handle = store
             \/ req'[r].pc \in {"contains", "done"}
          /\ UNCHANGED <<stores, store, rebuilt, answered>>
      BY <2>9, GotMoves
    <3>2. store # 0
      BY <3>1 DEF Ready
    <3>3. CASE req'[r].pc = "save" /\ req'[r].handle = store
      BY <2>1, <3>1, <3>2, <3>3 DEF InStore, Saved
    <3>4. CASE req'[r].pc \in {"contains", "done"}
      BY <2>1, <3>1, <3>4, InStoreKeeps DEF Saved
    <3> QED BY <3>1, <3>3, <3>4
  <2>10. CASE SaveOpens(r) \/ SaveWrites(r) \/ WriteFails(r)
    <3>1. /\ req[r].kind # "view" /\ req[r].pc \in {"save", "write"}
          /\ req[r].handle \in 1 .. Len(stores)
          /\ req'[r].handle = req[r].handle
          /\ UNCHANGED <<store, rebuilt>>
      BY <2>10, SaveMoves DEF Same, Typed, Placed
    <3> SUFFICES ASSUME ~rebuilt PROVE InStore'
      BY <3>1 DEF InStore
    <3>2. store # 0 /\ req[r].handle = store
      BY <3>1 DEF InStore
    <3>3. CASE /\ req'[r].pc = "write" /\ UNCHANGED answered
               /\ stores' = [stores EXCEPT ![req[r].handle] = @ \cup {r}]
      <4>1. stores'[store] = stores[store] \cup {r}
        BY <3>1, <3>2, <3>3 DEF Typed
      <4>2. answered' \subseteq stores'[store']
        BY <3>1, <3>2, <3>3, <4>1 DEF InStore
      <4>3. ASSUME NEW t \in Requests
            PROVE  /\ req'[t].pc \in {"save", "write"} \/ Saved(req'[t]) =>
                        req'[t].handle = store'
                   /\ req'[t].pc = "write" \/ Saved(req'[t]) => t \in stores'[store']
        BY <2>1, <3>1, <3>2, <4>1 DEF InStore
      <4> QED BY <3>1, <3>2, <4>2, <4>3 DEF InStore
    <3>4. CASE /\ req[r].pc = "write" /\ UNCHANGED stores
               /\ answered' \subseteq answered \cup {r}
               /\ req'[r].pc \in {"done", "clear", "clear_failed", "failed"}
      <4>1. r \in stores[store]
        BY <3>2, <3>4 DEF InStore
      <4>2. answered' \subseteq stores'[store']
        BY <3>1, <3>2, <3>4, <4>1 DEF InStore
      <4>3. ASSUME NEW t \in Requests
            PROVE  /\ req'[t].pc \in {"save", "write"} \/ Saved(req'[t]) =>
                        req'[t].handle = store'
                   /\ req'[t].pc = "write" \/ Saved(req'[t]) => t \in stores'[store']
        <5>1. CASE t = r
          BY <3>1, <3>2, <3>4, <4>1, <5>1
        <5>2. CASE t # r
          BY <2>1, <3>1, <3>4, <5>2 DEF InStore
        <5> QED BY <5>1, <5>2
      <4> QED BY <3>1, <3>2, <4>2, <4>3 DEF InStore
    <3> QED BY <2>10, <3>3, <3>4, SaveMoves DEF Unwind
  <2> QED BY <1>3, <2>2, <2>3, <2>4, <2>5, <2>6, <2>7, <2>8, <2>9, <2>10 DEF Advance
<1> QED BY <1>1, <1>2, <1>3 DEF Next

LEMMA KeptHolds == Spec => [](Typed /\ Ready /\ Owned /\ Quiet /\ OnDisk /\ InStore)
<1>1. Init => OnDisk /\ InStore
  <2> SUFFICES ASSUME Init PROVE OnDisk /\ InStore
    OBVIOUS
  <2>1. \A r \in Requests : req[r].pc = "idle"
    BY AsleepTyped DEF Init
  <2>2. answered \subseteq Whole
    BY DEF Init, Whole, Runs
  <2> QED BY <2>1, <2>2 DEF Init, OnDisk, InStore, Saved
<1>2. Typed /\ Ready /\ Quiet /\ OnDisk /\ InStore /\ [Next]_vars => OnDisk' /\ InStore'
  BY OnDiskNext, InStoreNext DEF Quiet
<1> QED BY <1>1, <1>2, QuietHolds, PTL DEF Spec

\* Through failed writes, restarts and stores built twice, a run a client was told of is
\* whole on disk, and GET /eval/runs/{id} finds it in the store of the moment when one
\* store was built since the start (run_store.py:78, run_store.py:104).
THEOREM AnsweredRunsStayFound == Spec => []AnsweredRunsAreFound
<1>1. OnDisk /\ InStore => AnsweredRunsAreFound
  BY KeptImpliesFound
<1> QED BY <1>1, KeptHolds, PTL

-----------------------------------------------------------------------------
(***************************************************************************)
(* A page that overlapped nobody with overrides probes with the overrides  *)
(* it has set, so that each probe tells its search what the batch is worth *)
(* there; and the search draws the right conclusions.                      *)
(***************************************************************************)

\* What a search that was told the truth knows about the batch of a run.
TrueSearch(s, run) ==
  /\ s.at = Default
  /\ s.step \in {"default", "low", "high"} =>
       s.left = Low /\ s.right = High /\ s.iter = 0
  /\ s.step = "high" => s.delta_low = TrueDelta(run, Low)
  /\ s.step = "mid" =>
       /\ s.delta_low = TrueDelta(run, s.left)
       /\ ChangesSign(TrueDelta(run, s.left), TrueDelta(run, s.right))
       /\ s.right - s.left = Width(s.iter)
  /\ s.step = "ended" =>
       CASE s.result = "no_crossing" -> ~ChangesSign(TrueDelta(run, Low), TrueDelta(run, High))
         [] s.result = "found" -> Magnitude(TrueDelta(run, s.left)) <= Tolerance
         [] s.result = "approximate" ->
              /\ ChangesSign(TrueDelta(run, s.left), TrueDelta(run, s.right))
              /\ s.right - s.left = Width(MaxIter)

StorePCs == {"get_store", "load", "assign", "got_store"}

\* What was looked up in a probe is what the probe has set, ...
Probed(q) ==
  q.kind = "view" =>
    /\ TrueSearch(q.search, q.of)
    /\ q.pc \in StorePCs \/ q.policy = "default" => q.search.step = "default"
    /\ q.pc \in {"set", "clear"} => q.policy = "ours"
    /\ q.pc \in {"contains", "fetch"} /\ q.policy = "b2" =>
         q.used["ours"] = Probe(q.search)
    /\ q.pc = "clear" => \A p \in Policies : q.used[p] = Probe(q.search)

\* ... and nothing else is bound then, nor anything before the first probe.
BoundAtProbe(q, bound) ==
  q.kind = "view" =>
    /\ q.pc \in StorePCs => bound = NoOverrides
    /\ q.pc \in {"contains", "fetch"} =>
         bound = IF q.policy = "default" THEN NoOverrides
                 ELSE [k \in {Knob} |-> Probe(q.search)]

Probing == \A r \in Requests \ disturbed : Probed(req[r]) /\ BoundAtProbe(req[r], overrides)

LEMMA ProbingImpliesTrue == Typed /\ Probing => BreakEvenIsTrue
<1> SUFFICES ASSUME Typed, Probing, NEW r \in Requests \ disturbed,
                    req[r].kind = "view", req[r].search.step = "ended"
             PROVE  LET s == req[r].search
                        At(v) == TrueDelta(req[r].of, v)
                    IN /\ s.at = Default
                       /\ CASE s.result = "no_crossing" -> ~ChangesSign(At(Low), At(High))
                            [] s.result = "found" -> Magnitude(At(s.left)) <= Tolerance
                            [] s.result = "approximate" ->
                                 /\ ChangesSign(At(s.left), At(s.right))
                                 /\ s.right - s.left = Width(MaxIter)
  BY DEF BreakEvenIsTrue
<1>1. TrueSearch(req[r].search, req[r].of)
  BY DEF Probing, Probed
<1> QED BY <1>1 DEF TrueSearch

\* The delta of two equal lookups is the true one at their value.
LEMMA EqualLookups ==
  ASSUME NEW run \in Runs, NEW used, NEW v \in Costs,
         used["ours"] = v, used["b2"] = v
  PROVE  Delta(run, used) = TrueDelta(run, v) /\ TrueDelta(run, v) \in Int
<1>1. TrueDelta(run, v) = Net(run, "ours", v) - Net(run, "b2", v)
  BY DEF TrueDelta, Delta, Policies
<1>2. Net(run, "ours", v) \in Int /\ Net(run, "b2", v) \in Int
  BY NetAssumption DEF Runs, Policies
<1> QED BY <1>1, <1>2 DEF Delta

LEMMA ProbeInBracket ==
  ASSUME NEW v \in Low .. High, NEW run \in Runs
  PROVE  TrueDelta(run, v) \in Int
<1>1. v \in Costs
  BY CostsAssumption
<1> QED BY <1>1, NetAssumption DEF TrueDelta, Delta, Policies, Runs

\* Halving keeps the change of sign in the half it keeps, and halves its width.
LEMMA NarrowKeepsTheSign ==
  ASSUME NEW s \in Searches, NEW run \in Runs, s.step = "mid", s.iter < MaxIter,
         TrueSearch(s, run)
  PROVE  LET half == Narrow(s, Centre(s), TrueDelta(run, Centre(s)))
         IN /\ half \in Searches /\ half.step = "mid" /\ half.at = Default
            /\ half.iter = s.iter + 1
            /\ half.delta_low = TrueDelta(run, half.left)
            /\ ChangesSign(TrueDelta(run, half.left), TrueDelta(run, half.right))
            /\ half.right - half.left = Width(half.iter)
<1> DEFINE c == Centre(s)
           dc == TrueDelta(run, c)
           dl == TrueDelta(run, s.left)
           dr == TrueDelta(run, s.right)
           half == Narrow(s, c, dc)
<1>1. /\ s.iter \in 0 .. MaxIter - 1 /\ s.left \in Low .. High /\ s.right \in Low .. High
      /\ Low \in Int /\ High \in Int /\ MaxIter \in Nat
  BY SearchAssumption DEF Searches
<1>2. /\ s.at = Default /\ s.delta_low = dl /\ ChangesSign(dl, dr)
      /\ s.right - s.left = Width(s.iter)
  BY DEF TrueSearch
<1>3. /\ Width(s.iter) = 2 * Width(s.iter + 1) /\ Width(s.iter + 1) \in Nat
  BY <1>1, SearchAssumption
<1>4. PICK w \in Nat : w = Width(s.iter + 1)
  BY <1>3
<1>5. s.right = s.left + 2 * w
  BY <1>1, <1>2, <1>3, <1>4
<1>6. c = s.left + w /\ c \in Low .. High
  BY <1>1, <1>4, <1>5 DEF Centre
<1>7. dc \in Int /\ dl \in Int /\ dr \in Int
  BY <1>1, <1>6, ProbeInBracket
<1>8. half \in Searches
  BY <1>7, NarrowTyped
<1> HIDE DEF c, dc, dl, dr
<1>9. CASE ChangesSign(s.delta_low, dc)
  <2>1. half = [s EXCEPT !.right = c, !.iter = @ + 1]
    BY <1>9 DEF Narrow
  <2>2. /\ half.left = s.left /\ half.right = c /\ half.iter = s.iter + 1
        /\ half.step = "mid" /\ half.at = Default /\ half.delta_low = dl
    BY <1>2, <2>1 DEF Searches
  <2> HIDE DEF half
  <2>3. half.right - half.left = Width(half.iter)
    BY <1>1, <1>4, <1>6, <2>2
  <2>4. ChangesSign(TrueDelta(run, half.left), TrueDelta(run, half.right))
    BY <1>2, <1>9, <2>2 DEF dl, dc
  <2> QED BY <1>8, <2>2, <2>3, <2>4 DEF dl, half, c, dc
<1>10. CASE ~ChangesSign(s.delta_low, dc)
  <2>1. half = [s EXCEPT !.left = c, !.delta_low = dc, !.iter = @ + 1]
    BY <1>10 DEF Narrow
  <2>2. /\ half.left = c /\ half.right = s.right /\ half.iter = s.iter + 1
        /\ half.step = "mid" /\ half.at = Default /\ half.delta_low = dc
    BY <1>2, <2>1 DEF Searches
  <2> HIDE DEF half
  <2>3. half.right - half.left = Width(half.iter)
    BY <1>1, <1>4, <1>5, <1>6, <2>2
  <2>4. ChangesSign(dc, dr)
    BY <1>2, <1>7, <1>10 DEF ChangesSign
  <2>5. ChangesSign(TrueDelta(run, half.left), TrueDelta(run, half.right))
    BY <2>2, <2>4 DEF dr, dc
  <2> QED BY <1>8, <2>2, <2>3, <2>5 DEF half, c, dc
<1> QED BY <1>9, <1>10

\* A true answer to a probe keeps the search true.
LEMMA AfterProbeTrue ==
  ASSUME NEW s \in Searches, NEW run \in Runs, s.step # "ended", s.iter < MaxIter,
         TrueSearch(s, run)
  PROVE  TrueSearch(AfterProbe(s, TrueDelta(run, Probe(s))), run)
<1> DEFINE d == TrueDelta(run, Probe(s))
           next == AfterProbe(s, d)
<1>0. s.at = Default
  BY DEF TrueSearch
<1>1. CASE s.step = "default"
  <2>1. next = [s EXCEPT !.step = "low"]
    BY <1>1 DEF AfterProbe
  <2>2. /\ next.step = "low" /\ next.left = s.left /\ next.right = s.right
        /\ next.iter = s.iter /\ next.at = s.at
    BY <2>1 DEF Searches
  <2> HIDE DEF next
  <2>3. TrueSearch(next, run)
    BY <1>1, <2>2 DEF TrueSearch
  <2> QED BY <2>3 DEF next
<1>2. CASE s.step = "low"
  <2>1. next = [s EXCEPT !.step = "high", !.delta_low = d]
    BY <1>2 DEF AfterProbe
  <2>2. /\ next.step = "high" /\ next.left = s.left /\ next.right = s.right
        /\ next.iter = s.iter /\ next.at = s.at /\ next.delta_low = d
    BY <2>1 DEF Searches
  <2>3. d = TrueDelta(run, Low)
    BY <1>2 DEF Probe
  <2> HIDE DEF next, d
  <2>4. TrueSearch(next, run)
    BY <1>2, <2>2, <2>3 DEF TrueSearch
  <2> QED BY <2>4 DEF next, d
<1>3. CASE s.step = "high"
  <2>1. d = TrueDelta(run, High)
    BY <1>3 DEF Probe
  <2>2. s.delta_low = TrueDelta(run, Low) /\ s.left = Low /\ s.right = High /\ s.iter = 0
    BY <1>3 DEF TrueSearch
  <2>3. CASE ChangesSign(s.delta_low, d)
    <3>1. next = [s EXCEPT !.step = "mid"]
      BY <1>3, <2>3 DEF AfterProbe
    <3>2. /\ next.step = "mid" /\ next.left = Low /\ next.right = High
          /\ next.iter = 0 /\ next.at = Default /\ next.delta_low = TrueDelta(run, Low)
      BY <1>0, <2>2, <3>1 DEF Searches
    <3>3. ChangesSign(TrueDelta(run, Low), TrueDelta(run, High))
      BY <2>1, <2>2, <2>3
    <3>4. High - Low = Width(0)
      BY SearchAssumption
    <3> HIDE DEF next, d
    <3>5. TrueSearch(next, run)
      BY <3>2, <3>3, <3>4 DEF TrueSearch
    <3> QED BY <3>5 DEF next, d
  <2>4. CASE ~ChangesSign(s.delta_low, d)
    <3>1. next = [s EXCEPT !.step = "ended", !.result = "no_crossing"]
      BY <1>3, <2>4 DEF AfterProbe
    <3>2. next.step = "ended" /\ next.result = "no_crossing" /\ next.at = Default
      BY <1>0, <3>1 DEF Searches
    <3>3. ~ChangesSign(TrueDelta(run, Low), TrueDelta(run, High))
      BY <2>1, <2>2, <2>4
    <3> HIDE DEF next, d
    <3>4. TrueSearch(next, run)
      BY <3>2, <3>3 DEF TrueSearch
    <3> QED BY <3>4 DEF next, d
  <2> QED BY <2>3, <2>4
<1>4. CASE s.step = "mid"
  <2>1. Probe(s) = Centre(s)
    BY <1>4 DEF Probe, Centre
  <2>2. Centre(s) \in Low .. High
    BY SearchAssumption DEF Centre, Searches
  <2>3. Magnitude(d) \in Int /\ Tolerance \in Int
    BY <2>1, <2>2, ProbeInBracket, SearchAssumption DEF Magnitude
  <2>4. CASE Magnitude(d) <= Tolerance
    <3>1. next = [s EXCEPT !.step = "ended", !.result = "found", !.left = Centre(s),
                           !.right = Centre(s)]
      BY <1>4, <2>3, <2>4 DEF AfterProbe
    <3>2. /\ next.step = "ended" /\ next.result = "found" /\ next.at = Default
          /\ next.left = Centre(s)
      BY <1>0, <3>1 DEF Searches
    <3>3. Magnitude(TrueDelta(run, Centre(s))) <= Tolerance
      BY <2>1, <2>4
    <3> HIDE DEF next, d
    <3>4. TrueSearch(next, run)
      BY <3>2, <3>3 DEF TrueSearch
    <3> QED BY <3>4 DEF next, d
  <2>5. CASE ~(Magnitude(d) <= Tolerance)
    <3> DEFINE half == Narrow(s, Centre(s), d)
    <3>1. /\ half \in Searches /\ half.step = "mid" /\ half.at = Default
          /\ half.iter = s.iter + 1
          /\ half.delta_low = TrueDelta(run, half.left)
          /\ ChangesSign(TrueDelta(run, half.left), TrueDelta(run, half.right))
          /\ half.right - half.left = Width(half.iter)
      BY <1>4, <2>1, NarrowKeepsTheSign
    <3>2. next = IF More(half) THEN half
                 ELSE [half EXCEPT !.step = "ended", !.result = "approximate"]
      BY <1>4, <2>3, <2>5 DEF AfterProbe
    <3> HIDE DEF half, d
    <3>3. CASE More(half)
      <4>1. next = half
        BY <3>2, <3>3
      <4> HIDE DEF next
      <4>2. TrueSearch(next, run)
        BY <3>1, <4>1 DEF TrueSearch
      <4> QED BY <4>2 DEF next, d
    <3>4. CASE ~More(half)
      <4>1. next = [half EXCEPT !.step = "ended", !.result = "approximate"]
        BY <3>2, <3>4
      <4>2. /\ next.step = "ended" /\ next.result = "approximate" /\ next.at = Default
            /\ next.left = half.left /\ next.right = half.right
        BY <3>1, <4>1 DEF Searches
      <4>3. half.iter = MaxIter
        BY <3>1, <3>4, SearchAssumption DEF More, Searches
      <4> HIDE DEF next
      <4>4. TrueSearch(next, run)
        BY <3>1, <4>2, <4>3 DEF TrueSearch
      <4> QED BY <4>4 DEF next, d
    <3> QED BY <3>3, <3>4
  <2> QED BY <2>4, <2>5
<1> QED BY <1>1, <1>2, <1>3, <1>4 DEF Searches

\* Where a search is before its first probe does not depend on the batch.
LEMMA FreshSearch ==
  ASSUME NEW s, s.step = "default", NEW x, NEW y, TrueSearch(s, x)
  PROVE  TrueSearch(s, y)
BY DEF TrueSearch

LEMMA BeginSearches ==
  ASSUME Typed, NEW r \in Requests, Request(r)
  PROVE  /\ req'[r].search.step = "default"
         /\ \A run : TrueSearch(req'[r].search, run)
<1>1. PICK kind \in {"eval", "form", "view"}, own \in FormOverrides : Begin(r, kind, own)
  BY OverridesAssumption DEF Request
<1> DEFINE q == [Asleep EXCEPT !.kind = kind, !.own = own, !.of = r,
                               !.pc = IF kind = "view" THEN "get_store"
                                      ELSE IF kind = "view" \/ own # NoOverrides
                                      THEN "set" ELSE "contains"]
<1>2. q.search = Search
  BY DEF Asleep
<1>3. req' = [req EXCEPT ![r] = q]
  BY <1>1 DEF Begin
<1> HIDE DEF q
<1>4. req'[r].search = Search
  BY <1>2, <1>3 DEF Typed
<1>5. Search.step = "default" /\ \A run : TrueSearch(Search, run)
  BY DEF Search, TrueSearch
<1> QED BY <1>4, <1>5

\* The run a request is about changes only when a page gets it from the store.
LEMMA OfStays ==
  ASSUME Typed, NEW r \in Requests, Advance(r) \/ WriteFails(r), ~GotStore(r)
  PROVE  req'[r].of = req[r].of
<1>1. req[r] \in Threads
  BY DEF Typed
<1>2. \A pc : req' = [req EXCEPT ![r].pc = pc] => req'[r].of = req[r].of
  <2> SUFFICES ASSUME NEW pc, req' = [req EXCEPT ![r].pc = pc]
               PROVE  req'[r].of = req[r].of
    OBVIOUS
  <2>1. req'[r] = [req[r] EXCEPT !.pc = pc]
    BY DEF Typed
  <2> QED BY <1>1, <2>1 DEF Threads
<1>3. \A value : Looked(req[r], value).of = req[r].of
  BY <1>1 DEF Looked, Threads
<1>4. CASE SetOverrides(r) \/ GetStore(r) \/ SaveOpens(r) \/ SaveWrites(r) \/ WriteFails(r)
  BY <1>2, <1>4 DEF SetOverrides, GetStore, SaveOpens, SaveWrites, WriteFails, Goto
<1>5. CASE LooksUp(r)
  <2>1. \/ req' = [req EXCEPT ![r].pc = "fetch"]
        \/ req'[r] = Looked(req[r], Default)
    BY <1>5 DEF LooksUp, Typed
  <2> QED BY <1>2, <1>3, <2>1
<1>6. CASE Fetch(r)
  <2>1. \/ req' = [req EXCEPT ![r].pc = Unwind(req[r])]
        \/ req'[r] = Looked(req[r], overrides[Knob])
    BY <1>6 DEF Fetch, Typed
  <2> QED BY <1>2, <1>3, <2>1
<1>7. CASE Clear(r)
  <2> DEFINE next == AfterProbe(req[r].search, Delta(req[r].of, req[r].used))
  <2>1. \/ req'[r] = [req[r] EXCEPT !.pc = "failed"]
        \/ req'[r] = [req[r] EXCEPT !.pc = "done"]
        \/ req'[r] = [req[r] EXCEPT !.search = next, !.used = Asleep.used,
                        !.pc = IF next.step = "ended" THEN "done" ELSE "set"]
    BY <1>7 DEF Clear, Typed
  <2> HIDE DEF next
  <2> QED BY <1>1, <2>1 DEF Threads
<1>8. CASE Load(r)
  <2>1. req'[r] = [req[r] EXCEPT !.pc = "assign", !.built = Len(stores) + 1]
    BY <1>8 DEF Load, Typed
  <2> QED BY <1>1, <2>1 DEF Threads
<1>9. CASE Assign(r)
  <2>1. req'[r] = [req[r] EXCEPT !.pc = "got_store", !.built = 0]
    BY <1>9 DEF Assign, Typed
  <2> QED BY <1>1, <2>1 DEF Threads
<1> QED BY <1>4, <1>5, <1>6, <1>7, <1>8, <1>9 DEF Advance

\* The end of a page's probe, and its lookup of the default.
LEMMA ProbeEnds ==
  ASSUME Typed, NEW r \in Requests, Clear(r), req[r].kind = "view", req[r].pc = "clear"
  PROVE  /\ req'[r].search = AfterProbe(req[r].search, Delta(req[r].of, req[r].used))
         /\ req'[r].pc \in {"done", "set"}
<1> DEFINE next == AfterProbe(req[r].search, Delta(req[r].of, req[r].used))
<1>1. req'[r] = [req[r] EXCEPT !.search = next, !.used = Asleep.used,
                   !.pc = IF next.step = "ended" THEN "done" ELSE "set"]
  BY DEF Clear, Typed
<1> HIDE DEF next
<1>2. req[r] \in Threads
  BY DEF Typed
<1>3. req'[r].search = next /\ req'[r].pc \in {"done", "set"}
  BY <1>1, <1>2 DEF Threads
<1> QED BY <1>3 DEF next

LEMMA DefaultLookedUp ==
  ASSUME Typed, NEW r \in Requests, req[r].policy = "default", req[r].search.at = Default
  PROVE  Looked(req[r], Default).search = req[r].search
<1> DEFINE t == req[r]
           q == [[t EXCEPT !.search = [@ EXCEPT !.at = Default]]
                   EXCEPT !.policy = First(t.kind), !.pc = "set"]
<1>1. t \in Threads /\ t.search \in Searches
  BY DEF Typed, Threads
<1>2. Looked(t, Default) = q
  BY <1>1 DEF Looked, Threads
<1>3. [t.search EXCEPT !.at = Default] = t.search
  BY <1>1 DEF Searches
<1>4. q.search = [t.search EXCEPT !.at = Default]
  BY <1>1 DEF Threads
<1> QED BY <1>2, <1>3, <1>4

LEMMA ProbingMover ==
  ASSUME Typed, Owned, Probing, NEW r \in Requests,
         Request(r) \/ Advance(r) \/ WriteFails(r), r \notin disturbed'
  PROVE  Probed(req'[r]) /\ BoundAtProbe(req'[r], overrides')
<1> SUFFICES ASSUME req'[r].kind = "view"
             PROVE  Probed(req'[r]) /\ BoundAtProbe(req'[r], overrides')
  BY DEF Probed, BoundAtProbe
<1>1. CASE Request(r)
  <2>1. overrides = NoOverrides \/ \E t \in Requests : Owns(req[t], overrides)
    BY DEF Owned
  <2>2. \A t \in Requests : Owns(req[t], overrides) => t \in InProgress /\ Overrides(t)
    BY DEF Owns, HoldingPCs, InProgress, Ended, Overriding, Overrides
  <2>3. overrides = NoOverrides
    BY <1>1, <2>1, <2>2, BeginMoves
  <2>4. req'[r].pc = "get_store" /\ req'[r].policy = "b2" /\ overrides' = NoOverrides
    BY <1>1, <2>3, BeginMoves
  <2> QED BY <1>1, <2>4, BeginSearches DEF Probed, BoundAtProbe, StorePCs
<1>2. CASE Advance(r) \/ WriteFails(r)
  <2>1. r \notin disturbed /\ req[r].pc \notin Ended /\ req[r].kind = "view"
    BY <1>2, StaysItself
  <2>2. Probed(req[r]) /\ BoundAtProbe(req[r], overrides)
    BY <2>1 DEF Probing
  <2>3. /\ req[r] \in Threads /\ req[r].of \in Runs /\ req[r].search \in Searches
        /\ req[r].used \in [Policies -> Costs]
        /\ req[r].search.step # "ended" /\ req[r].search.iter < MaxIter
        /\ req[r].policy \in {"b2", "ours", "default"}
        /\ req[r].pc \notin {"save", "write"}
    BY <2>1 DEF Typed, Threads, Placed, Policies
  <2>4. ~GotStore(r) => req'[r].of = req[r].of
    BY <1>2, OfStays
  <2>5. CASE SetOverrides(r)
    <3>1. /\ req'[r].pc = "contains" /\ Same(req'[r], req[r]) /\ req[r].pc = "set"
          /\ overrides' = [k \in {Knob} |-> Probe(req[r].search)]
          /\ ~GotStore(r)
      BY <2>1, <2>5, PcMoves DEF SetOverrides, Goto, GotStore
    <3>2. req[r].policy = "ours"
      BY <2>1, <2>2, <3>1 DEF Probed
    <3> QED BY <2>1, <2>2, <2>4, <3>1, <3>2 DEF Probed, BoundAtProbe, StorePCs, Same
  <2>6. CASE LooksUp(r) \/ Fetch(r)
    <3>1. req[r].pc \in {"contains", "fetch"} /\ UNCHANGED overrides
      BY <2>6, LookMoves
    <3>2. req'[r].of = req[r].of
      BY <2>4, <2>6, <3>1 DEF GotStore
    <3>3. overrides = IF req[r].policy = "default" THEN NoOverrides
                      ELSE [k \in {Knob} |-> Probe(req[r].search)]
      BY <2>1, <2>2, <3>1 DEF BoundAtProbe
    <3>4. CASE req'[r].pc = "fetch" /\ Same(req'[r], req[r])
      BY <2>1, <2>2, <3>1, <3>2, <3>3, <3>4 DEF Probed, BoundAtProbe, StorePCs, Same
    <3>5. CASE req'[r].pc = Unwind(req[r]) /\ Same(req'[r], req[r])
      <4>1. req'[r].pc \in {"failed", "clear_failed"}
        BY <3>5 DEF Unwind
      <4> QED BY <2>1, <2>2, <3>1, <3>2, <3>5, <4>1 DEF Probed, BoundAtProbe, StorePCs, Same
    <3>6. ASSUME NEW value \in Costs,
                 value = IF Knob \in DOMAIN overrides THEN overrides[Knob] ELSE Default,
                 req'[r] = Looked(req[r], value)
          PROVE  Probed(req'[r]) /\ BoundAtProbe(req'[r], overrides')
      <4>1. CASE req[r].policy = "default"
        <5>1. value = Default
          BY <3>3, <3>6, <4>1 DEF NoOverrides
        <5>2. req[r].search.at = Default
          BY <2>1, <2>2 DEF Probed, TrueSearch
        <5>3. req'[r].search = req[r].search
          BY <3>6, <4>1, <5>1, <5>2, DefaultLookedUp
        <5>4. req'[r].pc = "set" /\ req'[r].policy = "ours"
          BY <2>1, <2>3, <3>6, <4>1 DEF Looked, First, Threads
        <5> QED BY <2>1, <2>2, <3>2, <5>3, <5>4 DEF Probed, BoundAtProbe, StorePCs
      <4>2. CASE req[r].policy # "default"
        <5>1. value = Probe(req[r].search)
          BY <3>3, <3>6, <4>2
        <5>2. /\ req'[r].search = req[r].search
              /\ req'[r].used = [req[r].used EXCEPT ![req[r].policy] = value]
              /\ req'[r].policy = IF req[r].policy = "ours" THEN "b2" ELSE "ours"
              /\ req'[r].pc = IF req[r].policy = "ours" THEN "contains" ELSE "clear"
          BY <2>1, <3>1, <3>6, <4>2, LookedTyped DEF First, Second
        <5>3. CASE req[r].policy = "ours"
          <6>1. req'[r].used["ours"] = Probe(req'[r].search)
            BY <2>3, <5>1, <5>2, <5>3 DEF Policies
          <6> QED BY <2>1, <2>2, <3>1, <3>2, <3>3, <4>2, <5>2, <5>3, <6>1
                 DEF Probed, BoundAtProbe, StorePCs
        <5>4. CASE req[r].policy = "b2"
          <6>1. req[r].used["ours"] = Probe(req[r].search)
            BY <2>1, <2>2, <3>1, <5>4 DEF Probed
          <6>2. \A p \in Policies : req'[r].used[p] = Probe(req'[r].search)
            BY <2>3, <5>1, <5>2, <5>4, <6>1 DEF Policies
          <6> QED BY <2>1, <2>2, <3>2, <5>2, <5>4, <6>2
                 DEF Probed, BoundAtProbe, StorePCs
        <5> QED BY <2>3, <4>2, <5>3, <5>4
      <4> QED BY <4>1, <4>2
    <3> QED BY <2>6, <3>4, <3>5, <3>6, LookMoves
  <2>7. CASE Clear(r) /\ req[r].pc = "clear"
    <3>1. /\ req'[r].search = AfterProbe(req[r].search, Delta(req[r].of, req[r].used))
          /\ req'[r].pc \in {"done", "set"}
      BY <2>1, <2>7, ProbeEnds
    <3>2. req'[r].of = req[r].of /\ req'[r].policy = req[r].policy
      BY <2>4, <2>7, ClearMoves DEF GotStore
    <3>3. /\ \A p \in Policies : req[r].used[p] = Probe(req[r].search)
          /\ TrueSearch(req[r].search, req[r].of) /\ req[r].policy = "ours"
      BY <2>1, <2>2, <2>7 DEF Probed
    <3>4. Delta(req[r].of, req[r].used) = TrueDelta(req[r].of, Probe(req[r].search))
      BY <2>3, <3>3, ProbeTyped, EqualLookups DEF Policies
    <3>5. TrueSearch(req'[r].search, req'[r].of)
      BY <2>3, <3>1, <3>2, <3>3, <3>4, AfterProbeTrue
    <3> QED BY <3>1, <3>2, <3>3, <3>5 DEF Probed, BoundAtProbe, StorePCs
  <2>8. CASE Clear(r) /\ req[r].pc # "clear"
    <3>1. req[r].pc = "clear_failed" /\ req'[r] = [req[r] EXCEPT !.pc = "failed"]
      BY <2>8 DEF Clear, Typed
    <3>2. req'[r].pc = "failed" /\ req'[r].search = req[r].search
          /\ req'[r].of = req[r].of /\ req'[r].policy = req[r].policy
      BY <2>3, <3>1 DEF Threads
    <3> QED BY <2>1, <2>2, <3>2 DEF Probed, BoundAtProbe, StorePCs
  <2>9. CASE GetStore(r) \/ Load(r) \/ Assign(r)
    <3>1. /\ req[r].pc \in {"get_store", "load", "assign"}
          /\ req'[r].pc \in {"load", "assign", "got_store"} /\ req'[r].policy = req[r].policy
          /\ req'[r].search = req[r].search /\ UNCHANGED overrides
      BY <2>9, StoreSteps
    <3>2. req'[r].of = req[r].of
      BY <2>4, <3>1 DEF GotStore
    <3> QED BY <2>1, <2>2, <3>1, <3>2 DEF Probed, BoundAtProbe, StorePCs
  <2>10. CASE GotStore(r)
    <3>1. /\ req[r].pc = "got_store" /\ req'[r].search = req[r].search
          /\ \/ req'[r].pc = "contains" /\ req'[r].policy = "default"
             \/ req'[r].pc = "done"
          /\ UNCHANGED overrides
      BY <2>1, <2>10, GotMoves
    <3>2. /\ req[r].search.step = "default" /\ TrueSearch(req[r].search, req[r].of)
          /\ overrides = NoOverrides
      BY <2>1, <2>2, <3>1 DEF Probed, BoundAtProbe, StorePCs
    <3>3. TrueSearch(req'[r].search, req'[r].of)
      BY <3>1, <3>2, FreshSearch
    <3> QED BY <3>1, <3>2, <3>3 DEF Probed, BoundAtProbe, StorePCs
  <2>11. CASE SaveOpens(r) \/ SaveWrites(r) \/ WriteFails(r)
    BY <2>3, <2>11, SaveMoves
  <2> QED BY <1>2, <2>5, <2>6, <2>7, <2>8, <2>9, <2>10, <2>11 DEF Advance
<1> QED BY <1>1, <1>2

LEMMA ProbingOthers ==
  ASSUME Typed, Quiet, Probing, NEW r \in Requests,
         Request(r) \/ Advance(r) \/ WriteFails(r),
         NEW t \in Requests \ disturbed', t # r
  PROVE  Probed(req'[t]) /\ BoundAtProbe(req'[t], overrides')
<1>1. req'[t] = req[t] /\ t \notin disturbed
  BY Others, BeginMoves, StaysItself
<1>2. Probed(req[t]) /\ BoundAtProbe(req[t], overrides)
  BY <1>1 DEF Probing
<1>3. CASE UNCHANGED overrides
  BY <1>1, <1>2, <1>3
<1>4. CASE ~(UNCHANGED overrides)
  <2>1. SetOverrides(r) \/ Clear(r)
    BY <1>4, BeginMoves, LookMoves, StoreSteps, GotMoves, SaveMoves DEF Advance
  <2>2. req[r].pc \in {"set", "clear", "clear_failed"}
    BY <2>1 DEF SetOverrides, Clear
  <2>3. Overriding(req[r]) /\ req[r].pc \notin Ended
    BY <2>2 DEF Quiet, Binding, Ended
  <2>4. req[t].pc \in Ended
    BY <1>1, <2>3 DEF Quiet, Alone
  <2> QED BY <1>1, <1>2, <2>4 DEF BoundAtProbe, StorePCs, Ended
<1> QED BY <1>3, <1>4

LEMMA ProbingNext ==
  ASSUME Typed, Owned, Quiet, Probing, [Next]_vars
  PROVE  Probing'
<1>1. CASE UNCHANGED vars
  <2>1. req' = req /\ overrides' = overrides /\ disturbed' = disturbed
    BY <1>1 DEF vars
  <2> QED BY <2>1 DEF Probing
<1>2. CASE Restart
  <2>1. ASSUME NEW r \in Requests \ disturbed'
        PROVE  Probed(req'[r]) /\ BoundAtProbe(req'[r], overrides')
    <3>1. /\ r \notin disturbed /\ req'[r].pc \in Ended
          /\ req'[r] = [Asleep EXCEPT !.pc = "dead"] \/ req'[r] = req[r]
      BY <1>2, RestartMoves DEF Restart
    <3>2. [Asleep EXCEPT !.pc = "dead"].kind = "eval"
      BY AsleepTyped DEF Threads
    <3>3. Probed(req[r])
      BY <3>1 DEF Probing
    <3>4. Probed(req'[r])
      BY <3>1, <3>2, <3>3 DEF Probed
    <3> QED BY <3>1, <3>4 DEF BoundAtProbe, StorePCs, Ended
  <2> QED BY <2>1 DEF Probing
<1>3. ASSUME NEW r \in Requests, Request(r) \/ Advance(r) \/ WriteFails(r)
      PROVE  Probing'
  BY <1>3, ProbingMover, ProbingOthers DEF Probing
<1> QED BY <1>1, <1>2, <1>3 DEF Next

\* Whatever other requests run, a page that overlapped nobody with overrides shows a
\* true break-even, found where the lead is within the tolerance, or the middle of a
\* bracket around a change of sign after the promised halvings (break_even.py:59).
THEOREM BreakEvensAreTrue == Spec => []BreakEvenIsTrue
<1>1. Init => Probing
  <2> SUFFICES ASSUME Init PROVE Probing
    OBVIOUS
  <2>1. \A r \in Requests : req[r].kind = "eval"
    BY AsleepTyped DEF Init
  <2> QED BY <2>1 DEF Probing, Probed, BoundAtProbe
<1>2. Typed /\ Owned /\ Quiet /\ Probing /\ [Next]_vars => Probing'
  BY ProbingNext
<1> QED BY <1>1, <1>2, ProbingImpliesTrue, QuietHolds, PTL DEF Spec
=============================================================================
