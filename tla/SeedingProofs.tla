---------------------------- MODULE SeedingProofs -----------------------------
(***************************************************************************)
(* The safety of Seeding for any set of episodes, any concurrency and any  *)
(* number of runs and faults: what lets an episode be skipped is stored,   *)
(* an episode is stored once unless something went wrong for it, a resumed *)
(* run keeps the progress it found, and exit code 0 means complete.        *)
(*                                                                         *)
(* The invariant follows an episode from the file, through the task that   *)
(* uploads it or the row that lets it be skipped, back to the file.        *)
(***************************************************************************)
EXTENDS Seeding, FiniteSetTheorems, TLAPS

\* What a task polls is a document of its episode.
PollsOK ==
  \A e \in Episodes :
    task[e].pc = "polling" => task[e].document_id \in DOMAIN docs[e]

\* There are tasks only during a run, and none is under way when it saves.
TasksOK ==
  /\ run.step = "idle" => \A e \in Episodes : task[e].pc = "off"
  /\ run.step = "saving" => \A e \in Episodes : task[e].pc \in {"off", "ended"}

\* Only a manifest that was initialised and is whole has rows.
CreatedOK ==
  /\ run.step # "idle" => memory.created
  /\ disk.file = "torn" => \A e \in Episodes : ~IsDone(disk.data.episodes[e])
  /\ \A e \in Episodes : IsDone(disk.data.episodes[e]) => disk.data.created

\* What a resumed run found done has no task under way.
SettledOK ==
  (run.step = "uploading" /\ run.resume /\ ~run.force) =>
    \A e \in Episodes : IsDone(disk.data.episodes[e]) =>
      IsDone(memory.episodes[e]) /\ task[e].pc \in {"off", "ended"}

\* A task that has ended has left a row.
EndedOK ==
  \A e \in Episodes :
    task[e].pc = "ended" =>
      IsDone(memory.episodes[e]) \/ memory.episodes[e].status = "failed"

\* An episode that was stored, and for which nothing went wrong, is polled for or
\* recorded as done, in memory during a run and in the file between runs.
CleanOK ==
  \A e \in clean : docs[e] # <<>> =>
    /\ Len(docs[e]) = 1
    /\ task[e].pc \notin {"waiting", "posting"}
    /\ run.step = "idle" => IsDone(disk.data.episodes[e])
    /\ run.step # "idle" /\ task[e].pc # "polling" => IsDone(memory.episodes[e])

IInv ==
  /\ TypeOK /\ PollsOK /\ TasksOK /\ CreatedOK /\ RecordedIsStored
  /\ SettledOK /\ EndedOK /\ CleanOK
-----------------------------------------------------------------------------
LEMMA EmptyTyped ==
  /\ NoRow \in Row /\ Empty \in Manifests /\ ~Empty.created
  /\ \A e \in Episodes : Empty.episodes[e] = NoRow
  /\ ~IsDone(NoRow)
BY DEF Empty, Manifests, NoRow, Row, Statuses, IsDone

\* A row that is recorded has the status, and an id that is not lost.
LEMMA RecordedTyped ==
  ASSUME NEW row \in Row, NEW status \in Statuses, NEW id \in Nat
  PROVE  /\ Recorded(row, status, id) \in Row
         /\ Recorded(row, status, id).status = status
         /\ id = 0 => Recorded(row, status, id).document_id = row.document_id
         /\ id # 0 => Recorded(row, status, id).document_id = id
BY DEF Recorded, Row

\* The end of a task changes the row and the task of one episode.
LEMMA RecordFacts ==
  ASSUME TypeOK, NEW e \in Episodes, NEW status \in Statuses, NEW id \in Nat,
         Record(e, status, id)
  PROVE  /\ memory' \in Manifests /\ memory'.created = memory.created
         /\ memory'.episodes[e] = Recorded(memory.episodes[e], status, id)
         /\ task'[e] = Ended
         /\ \A f \in Episodes \ {e} : /\ memory'.episodes[f] = memory.episodes[f]
                                      /\ task'[f] = task[f]
<1>1. memory \in Manifests /\ task \in [Episodes -> [pc : {"off", "waiting", "posting", "polling", "ended"},
                            attempt : 0 .. MaxRetries, document_id : Nat]]
  BY DEF TypeOK
<1>2. memory.episodes \in [Episodes -> Row]
  BY <1>1 DEF Manifests
<1>3. Recorded(memory.episodes[e], status, id) \in Row
  BY <1>2, RecordedTyped
<1> QED BY <1>1, <1>2, <1>3 DEF Record, Manifests

\* A document that is added keeps the others.
LEMMA StoreFacts ==
  ASSUME TypeOK, NEW e \in Episodes, Store(e)
  PROVE  /\ docs' \in [Episodes -> Seq(DocStates)]
         /\ Len(docs[e]) \in Nat
         /\ Len(docs'[e]) = Len(docs[e]) + 1
         /\ DOMAIN docs'[e] = 1 .. Len(docs[e]) + 1 /\ DOMAIN docs[e] = 1 .. Len(docs[e])
         /\ \A i \in DOMAIN docs[e] : docs'[e][i] = docs[e][i]
         /\ \A f \in Episodes \ {e} : docs'[f] = docs[f]
<1>1. docs \in [Episodes -> Seq(DocStates)] /\ "pending" \in DocStates
  BY DEF TypeOK, DocStates
<1>2. docs[e] \in Seq(DocStates) /\ docs'[e] = Append(docs[e], "pending")
  BY <1>1 DEF Store
<1>3. docs'[e] \in Seq(DocStates)
  BY <1>1, <1>2
<1> HIDE DEF DocStates
<1>4. docs' \in [Episodes -> Seq(DocStates)]
  BY <1>1, <1>3 DEF Store
<1>5. \A f \in Episodes \ {e} : docs'[f] = docs[f]
  BY <1>1 DEF Store
<1> QED BY <1>2, <1>4, <1>5

\* What a run starts with is what it read, or nothing.
LEMMA InitRunFacts ==
  ASSUME NEW manifest \in Manifests, NEW force \in BOOLEAN
  PROVE  /\ InitRun(manifest, force) \in Manifests
         /\ InitRun(manifest, force).created
         /\ \A e \in Episodes :
              \/ InitRun(manifest, force).episodes[e] = NoRow
              \/ InitRun(manifest, force).episodes[e] = manifest.episodes[e]
         /\ ~force /\ manifest.created => InitRun(manifest, force) = manifest
<1>1. Empty \in Manifests /\ [Empty EXCEPT !.created = TRUE] \in Manifests
      /\ [Empty EXCEPT !.created = TRUE].created
      /\ \A e \in Episodes : [Empty EXCEPT !.created = TRUE].episodes[e] = NoRow
  BY EmptyTyped DEF Empty, Manifests
<1> QED BY <1>1 DEF InitRun, Manifests

\* The rows in memory after the start of a run, and the tasks.
LEMMA StartFacts ==
  ASSUME TypeOK, NEW args \in Args, NEW chosen \in Selections, Start(args, chosen)
  PROVE  LET loaded == InitRun(disk.data, args.force)
             Skips(e) == ShouldSkip(loaded.episodes[e], args.resume)
         IN /\ memory' \in Manifests /\ memory'.created
            /\ \A e \in Episodes :
                 /\ memory'.episodes[e] =
                      IF e \in chosen /\ Skips(e)
                      THEN Recorded(loaded.episodes[e], "skipped", 0)
                      ELSE loaded.episodes[e]
                 /\ task'[e] = IF e \notin chosen THEN NoTask
                              ELSE IF Skips(e) THEN Ended ELSE Waiting
<1> DEFINE loaded == InitRun(disk.data, args.force)
           Skips(e) == ShouldSkip(loaded.episodes[e], args.resume)
           row(e) == IF e \in chosen /\ Skips(e)
                     THEN Recorded(loaded.episodes[e], "skipped", 0)
                     ELSE loaded.episodes[e]
<1>1. disk.data \in Manifests /\ args.force \in BOOLEAN
  BY DEF TypeOK, Args
<1>2. loaded \in Manifests /\ loaded.created
  BY <1>1, InitRunFacts
<1>3. memory' = [loaded EXCEPT !.episodes = [e \in Episodes |-> row(e)]]
      /\ task' = [e \in Episodes |->
                   CASE e \notin chosen -> NoTask
                     [] e \in chosen /\ Skips(e) -> Ended
                     [] e \in chosen /\ ~Skips(e) -> Waiting]
  BY DEF Start
<1> HIDE DEF loaded, Skips
<1>4. ASSUME NEW e \in Episodes PROVE row(e) \in Row
  <2>1. loaded.episodes[e] \in Row
    BY <1>2 DEF Manifests
  <2>2. Recorded(loaded.episodes[e], "skipped", 0) \in Row
    BY <2>1, RecordedTyped DEF Statuses
  <2> QED BY <2>1, <2>2
<1> HIDE DEF row
<1>5. memory' \in Manifests /\ memory'.created
      /\ \A e \in Episodes : memory'.episodes[e] = row(e)
  BY <1>2, <1>3, <1>4 DEF Manifests
<1>6. \A e \in Episodes : task'[e] = IF e \notin chosen THEN NoTask
                                    ELSE IF Skips(e) THEN Ended ELSE Waiting
  BY <1>3
<1> QED BY <1>5, <1>6 DEF row, loaded, Skips

-----------------------------------------------------------------------------
(***************************************************************************)
(* Types.                                                                  *)
(***************************************************************************)
\* The tasks of a state, and the records that tasks are set to.
TaskRecords == [pc : {"off", "waiting", "posting", "polling", "ended"},
                attempt : 0 .. MaxRetries, document_id : Nat]

LEMMA TasksTyped == NoTask \in TaskRecords /\ Waiting \in TaskRecords /\ Ended \in TaskRecords
BY BoundsAssumption DEF NoTask, Waiting, Ended, TaskRecords

LEMMA TypeInit == Init => TypeOK
<1> SUFFICES ASSUME Init PROVE TypeOK
  OBVIOUS
<1>1. docs \in [Episodes -> Seq(DocStates)]
  BY DEF Init
<1>2. disk \in [file : {"missing", "torn", "whole"}, data : Manifests]
  BY EmptyTyped DEF Init, Missing
<1>3. task \in [Episodes -> TaskRecords]
  BY TasksTyped DEF Init
<1>4. run \in [step : {"idle", "uploading", "saving"}, resume : BOOLEAN, force : BOOLEAN]
  BY DEF Init, Idle
<1>5. memory \in Manifests /\ wiped \in BOOLEAN /\ clean \in SUBSET Episodes
  BY EmptyTyped DEF Init
<1>6. exit \in {0, 1} /\ runs \in 0 .. MaxRuns /\ faults \in 0 .. MaxFaults
  BY BoundsAssumption DEF Init
<1> QED BY <1>1, <1>2, <1>3, <1>4, <1>5, <1>6 DEF TypeOK, TaskRecords

LEMMA TypeStep == TypeOK /\ [Next]_vars => TypeOK'
<1> SUFFICES ASSUME TypeOK, [Next]_vars PROVE TypeOK'
  OBVIOUS
<1>t. /\ docs \in [Episodes -> Seq(DocStates)]
      /\ disk \in [file : {"missing", "torn", "whole"}, data : Manifests]
      /\ run \in [step : {"idle", "uploading", "saving"}, resume : BOOLEAN,
                  force : BOOLEAN]
      /\ memory \in Manifests
      /\ task \in [Episodes -> TaskRecords]
      /\ exit \in {0, 1} /\ runs \in 0 .. MaxRuns /\ faults \in 0 .. MaxFaults
      /\ wiped \in BOOLEAN /\ clean \in SUBSET Episodes
  BY DEF TypeOK, TaskRecords
<1>q. /\ docs' \in [Episodes -> Seq(DocStates)]
      /\ disk' \in [file : {"missing", "torn", "whole"}, data : Manifests]
      /\ run' \in [step : {"idle", "uploading", "saving"}, resume : BOOLEAN,
                   force : BOOLEAN]
      /\ memory' \in Manifests
      /\ task' \in [Episodes -> TaskRecords]
      /\ exit' \in {0, 1} /\ runs' \in 0 .. MaxRuns /\ faults' \in 0 .. MaxFaults
      /\ wiped' \in BOOLEAN /\ clean' \in SUBSET Episodes
      => TypeOK'
  BY DEF TypeOK, TaskRecords
<1>1. CASE \E args \in Args, chosen \in Selections : Start(args, chosen)
  <2>1. PICK args \in Args, chosen \in Selections : Start(args, chosen)
    BY <1>1
  <2>2. memory' \in Manifests /\ task' \in [Episodes -> TaskRecords]
    <3>1. memory' \in Manifests
      BY <2>1, StartFacts
    <3>2. \A e \in Episodes : task'[e] \in TaskRecords
      BY <2>1, StartFacts, TasksTyped
    <3>3. task' = [e \in Episodes |-> task'[e]]
      BY <2>1 DEF Start
    <3> QED BY <3>1, <3>2, <3>3
  <2>3. run' \in [step : {"idle", "uploading", "saving"}, resume : BOOLEAN,
                  force : BOOLEAN]
    BY <2>1 DEF Start, Args
  <2>4. clean' \in SUBSET Episodes
    BY <2>1, <1>t DEF Start
  <2> QED BY <2>1, <2>2, <2>3, <2>4, <1>t, <1>q, BoundsAssumption DEF Start
<1>2. CASE StartOnTornFile \/ RemoveTornFile
  BY <1>2, <1>t, <1>q, EmptyTyped, BoundsAssumption DEF StartOnTornFile, RemoveTornFile, Missing
<1>3. ASSUME NEW e \in Episodes, Acquire(e) PROVE TypeOK'
  <2>1. task' \in [Episodes -> TaskRecords]
    BY <1>3, <1>t DEF Acquire, TaskRecords
  <2> QED BY <1>3, <1>t, <2>1, <1>q DEF Acquire
<1>4. ASSUME NEW e \in Episodes, PostAccepted(e) PROVE TypeOK'
  <2>1. docs' \in [Episodes -> Seq(DocStates)] /\ Len(docs[e]) \in Nat
    BY <1>4, StoreFacts DEF PostAccepted
  <2>2. [pc |-> "polling", attempt |-> 0, document_id |-> Len(docs[e]) + 1] \in TaskRecords
    BY <2>1, BoundsAssumption DEF TaskRecords
  <2>3. task' \in [Episodes -> TaskRecords]
    BY <1>4, <1>t, <2>2 DEF PostAccepted
  <2> QED BY <1>4, <1>t, <2>1, <2>3, <1>q DEF PostAccepted
<1>5. ASSUME NEW e \in Episodes, PostUnanswered(e) PROVE TypeOK'
  <2>0. PICK answer \in Unhappy :
          \E stored \in MayStore(answer) : PostEnds(e, answer, stored)
    BY <1>5 DEF PostUnanswered
  <2>p. PICK stored \in MayStore(answer) : PostEnds(e, answer, stored)
    BY <2>0
  <2>1. /\ IF stored THEN faults < MaxFaults /\ faults' = faults + 1 /\ Store(e)
                     ELSE UNCHANGED <<docs, faults>>
        /\ IF MayRetry(answer, task[e].attempt)
           THEN task' = [task EXCEPT ![e].attempt = @ + 1] /\ UNCHANGED memory
           ELSE Record(e, "failed", 0)
        /\ clean' = IF stored THEN clean \ {e} ELSE clean
        /\ UNCHANGED <<disk, run, exit, runs, wiped>>
    BY <2>p DEF PostEnds
  <2>2. docs' \in [Episodes -> Seq(DocStates)] /\ faults' \in 0 .. MaxFaults
    BY <2>1, <1>t, StoreFacts, BoundsAssumption
  <2>3. memory' \in Manifests /\ task' \in [Episodes -> TaskRecords]
    <3>1. CASE MayRetry(answer, task[e].attempt)
      <4>1. task[e] \in TaskRecords /\ task[e].attempt < MaxRetries
        BY <1>t, <3>1 DEF MayRetry
      <4>2. [task[e] EXCEPT !.attempt = @ + 1] \in TaskRecords
        BY <4>1, BoundsAssumption DEF TaskRecords
      <4> QED BY <2>1, <3>1, <4>2, <1>t
    <3>2. CASE ~MayRetry(answer, task[e].attempt)
      BY <2>1, <3>2, RecordFacts, TasksTyped, <1>t DEF Statuses, Record
    <3> QED BY <3>1, <3>2
  <2> QED BY <2>1, <2>2, <2>3, <1>t, <1>q
<1>6. ASSUME NEW e \in Episodes, PollCompleted(e) \/ PollFailed(e) PROVE TypeOK'
  <2>1. task[e].document_id \in Nat
    BY <1>t DEF TaskRecords
  <2>2. memory' \in Manifests /\ task' = [task EXCEPT ![e] = Ended]
    <3>1. CASE PollCompleted(e)
      BY <3>1, <2>1, RecordFacts DEF PollCompleted, Record, Statuses
    <3>2. CASE PollFailed(e)
      BY <3>2, RecordFacts DEF PollFailed, Record, Statuses
    <3> QED BY <1>6, <3>1, <3>2
  <2> QED BY <1>6, <2>2, TasksTyped, <1>t, <1>q DEF PollCompleted, PollFailed
<1>7. ASSUME NEW e \in Episodes, Process(e) PROVE TypeOK'
  <2>1. PICK s \in {"processed", "failed"} :
          docs' = [docs EXCEPT ![e][task[e].document_id] = s]
    BY <1>7 DEF Process
  <2>2. [docs[e] EXCEPT ![task[e].document_id] = s] \in Seq(DocStates)
    <3>1. docs[e] \in Seq(DocStates) /\ s \in DocStates
      BY <1>t, <2>1 DEF DocStates
    <3>2. docs[e] \in [1 .. Len(docs[e]) -> DocStates] /\ Len(docs[e]) \in Nat
      BY <3>1
    <3>3. [docs[e] EXCEPT ![task[e].document_id] = s] \in [1 .. Len(docs[e]) -> DocStates]
      BY <3>1, <3>2
    <3> QED BY <3>2, <3>3
  <2>3. docs' \in [Episodes -> Seq(DocStates)]
    BY <1>t, <2>1, <2>2
  <2> QED BY <1>7, <2>3, <1>t, <1>q DEF Process
<1>8. CASE SaveOpens
  BY <1>8, <1>t, <1>q, EmptyTyped DEF SaveOpens, Torn
<1>9. CASE SaveWrites \/ Die
  <2>1. task' \in [Episodes -> TaskRecords]
    BY <1>9, TasksTyped DEF SaveWrites, Die
  <2>2. disk' \in [file : {"missing", "torn", "whole"}, data : Manifests]
    BY <1>9, <1>t DEF SaveWrites, Die, Written
  <2>3. exit' \in {0, 1} /\ run' = Idle /\ memory' = Empty
    BY <1>9 DEF SaveWrites, Die, ExitCode
  <2>4. clean' \in SUBSET Episodes /\ faults' \in 0 .. MaxFaults
    BY <1>9, <1>t, BoundsAssumption DEF SaveWrites, Die
  <2> QED BY <1>9, <2>1, <2>2, <2>3, <2>4, <1>t, <1>q, EmptyTyped DEF SaveWrites, Die, Idle
<1>10. CASE Wipe
  <2>1. ASSUME NEW e \in Episodes
        PROVE  [i \in DOMAIN docs[e] |-> "gone"] \in Seq(DocStates)
    <3>1. docs[e] \in Seq(DocStates)
      BY <1>t
    <3> QED BY <3>1 DEF DocStates
  <2>2. docs' \in [Episodes -> Seq(DocStates)]
    BY <1>10, <2>1 DEF Wipe
  <2> QED BY <1>10, <2>2, <1>t, <1>q, BoundsAssumption DEF Wipe
<1>11. CASE UNCHANGED vars
  BY <1>11, <1>t, <1>q DEF vars
<1> QED BY <1>1, <1>2, <1>3, <1>4, <1>5, <1>6, <1>7, <1>8, <1>9, <1>10, <1>11
        DEF Next, Seed

\* Every document id is the index of a document, every attempt is within the
\* configured retries, in every reachable state.
THEOREM SeedingTypes == Spec => []TypeOK
BY TypeInit, TypeStep, PTL DEF Spec

-----------------------------------------------------------------------------
(***************************************************************************)
(* The invariant.                                                          *)
(***************************************************************************)
Followed ==
  PollsOK /\ TasksOK /\ CreatedOK /\ RecordedIsStored /\ SettledOK /\ EndedOK /\ CleanOK

LEMMA FollowedInit == Init => Followed
<1> SUFFICES ASSUME Init PROVE Followed
  OBVIOUS
<1>1. \A e \in Episodes : task[e].pc = "off" /\ docs[e] = <<>>
  BY DEF Init, NoTask
<1>2. \A e \in Episodes : ~IsDone(disk.data.episodes[e]) /\ ~IsDone(memory.episodes[e])
  BY EmptyTyped DEF Init, Missing
<1>3. run.step = "idle" /\ clean = Episodes
  BY DEF Init, Idle
<1> QED BY <1>1, <1>2, <1>3 DEF Followed, PollsOK, TasksOK, CreatedOK, RecordedIsStored,
          RowIsStored, SettledOK, EndedOK, CleanOK

LEMMA FollowedStart ==
  ASSUME TypeOK, Followed, NEW args \in Args, NEW chosen \in Selections,
         Start(args, chosen)
  PROVE  Followed'
<1> DEFINE loaded == InitRun(disk.data, args.force)
           Skips(e) == ShouldSkip(loaded.episodes[e], args.resume)
<1>1. disk.data \in Manifests /\ args.force \in BOOLEAN /\ args.resume \in BOOLEAN
  BY DEF TypeOK, Args
<1>2. /\ loaded \in Manifests
      /\ \A e \in Episodes : \/ loaded.episodes[e] = NoRow
                            \/ loaded.episodes[e] = disk.data.episodes[e]
      /\ ~args.force /\ disk.data.created => loaded = disk.data
  BY <1>1, InitRunFacts
<1>3. /\ memory'.created
      /\ \A e \in Episodes :
           /\ memory'.episodes[e] = IF e \in chosen /\ Skips(e)
                                    THEN Recorded(loaded.episodes[e], "skipped", 0)
                                    ELSE loaded.episodes[e]
           /\ task'[e] = IF e \notin chosen THEN NoTask
                         ELSE IF Skips(e) THEN Ended ELSE Waiting
  BY StartFacts
<1>4. /\ run.step = "idle" /\ run'.step = "uploading"
      /\ run'.resume = args.resume /\ run'.force = args.force
      /\ UNCHANGED <<docs, disk, wiped>>
      /\ clean' = IF args.force THEN {e \in clean : docs[e] = <<>>}
                  ELSE IF args.resume THEN clean
                  ELSE {e \in clean : e \in chosen => docs[e] = <<>>}
  BY DEF Start
<1> HIDE DEF loaded
<1>5. \A e \in Episodes : Skips(e) = (args.resume /\ IsDone(loaded.episodes[e]))
  BY DEF ShouldSkip
<1>6. ASSUME NEW e \in Episodes, e \in chosen, Skips(e)
      PROVE  /\ memory'.episodes[e].document_id = disk.data.episodes[e].document_id
             /\ IsDone(memory'.episodes[e]) /\ IsDone(disk.data.episodes[e])
  <2>1. loaded.episodes[e] = disk.data.episodes[e] /\ loaded.episodes[e] \in Row
    BY <1>2, <1>5, <1>6, EmptyTyped DEF Manifests
  <2>2. memory'.episodes[e] = Recorded(loaded.episodes[e], "skipped", 0)
    BY <1>3, <1>6
  <2>3. IsDone(loaded.episodes[e])
    BY <1>5, <1>6
  <2>4. /\ memory'.episodes[e].status = "skipped"
        /\ memory'.episodes[e].document_id = loaded.episodes[e].document_id
    BY <2>2 DEF Recorded
  <2> QED BY <2>1, <2>3, <2>4 DEF IsDone
<1> HIDE DEF Skips
<1>7. NoTask.pc = "off" /\ Ended.pc = "ended" /\ Waiting.pc = "waiting"
  BY DEF NoTask, Ended, Waiting
<1>8. PollsOK' /\ TasksOK'
  BY <1>3, <1>4, <1>7 DEF PollsOK, TasksOK
<1>9. CreatedOK'
  BY <1>3, <1>4 DEF CreatedOK, Followed
<1>10. RecordedIsStored'
  <2>1. \A e \in Episodes : RowIsStored(disk.data, e)
    BY DEF Followed, RecordedIsStored
  <2>2. ASSUME NEW e \in Episodes PROVE RowIsStored(memory, e)'
    <3>1. CASE e \in chosen /\ Skips(e)
      BY <3>1, <1>6, <1>4, <2>1 DEF RowIsStored
    <3>2. CASE ~(e \in chosen /\ Skips(e))
      BY <3>2, <1>3, <1>2, <1>4, <2>1, EmptyTyped DEF RowIsStored
    <3> QED BY <3>1, <3>2
  <2>3. \A e \in Episodes : RowIsStored(disk.data, e)'
    BY <2>1, <1>4 DEF RowIsStored
  <2> QED BY <2>2, <2>3 DEF RecordedIsStored
<1>11. ASSUME ~args.force, NEW e \in Episodes, IsDone(disk.data.episodes[e])
       PROVE  loaded = disk.data
  BY <1>2, <1>11 DEF CreatedOK, Followed
<1>12. SettledOK'
  BY <1>3, <1>4, <1>5, <1>6, <1>7, <1>11 DEF SettledOK
<1>13. EndedOK'
  BY <1>3, <1>6, <1>7 DEF EndedOK
<1>14. CleanOK'
  <2> SUFFICES ASSUME NEW e \in clean', docs[e] # <<>>
               PROVE  /\ Len(docs[e]) = 1
                      /\ task'[e].pc \notin {"waiting", "posting"}
                      /\ IsDone(memory'.episodes[e])
    BY <1>4 DEF CleanOK
  <2>1. e \in clean /\ ~args.force /\ (args.resume \/ e \notin chosen) /\ e \in Episodes
    BY <1>4 DEF TypeOK
  <2>2. Len(docs[e]) = 1 /\ IsDone(disk.data.episodes[e])
    BY <2>1, <1>4 DEF CleanOK, Followed
  <2>3. loaded = disk.data
    BY <2>1, <2>2, <1>11
  <2> QED BY <2>1, <2>2, <2>3, <1>3, <1>5, <1>6, <1>7
<1> QED BY <1>8, <1>9, <1>10, <1>12, <1>13, <1>14 DEF Followed

\* A step of one task, or of the provider for it, keeps the invariant when it does
\* so for that episode.
Local(e) ==
  /\ task'[e].pc = "polling" => task'[e].document_id \in DOMAIN docs'[e]
  /\ RowIsStored(memory, e)'
  /\ task'[e].pc = "ended" =>
       IsDone(memory'.episodes[e]) \/ memory'.episodes[e].status = "failed"
  /\ e \in clean' /\ docs'[e] # <<>> =>
       /\ Len(docs'[e]) = 1
       /\ task'[e].pc \notin {"waiting", "posting"}
       /\ task'[e].pc # "polling" => IsDone(memory'.episodes[e])

LEMMA FollowedLocally ==
  ASSUME TypeOK, Followed, NEW e \in Episodes,
         task[e].pc \in {"waiting", "posting", "polling"},
         UNCHANGED <<disk, run, wiped>>,
         memory'.created = memory.created,
         \A f \in Episodes \ {e} : /\ memory'.episodes[f] = memory.episodes[f]
                                  /\ task'[f] = task[f] /\ docs'[f] = docs[f],
         DOMAIN docs[e] \subseteq DOMAIN docs'[e],
         \A i \in DOMAIN docs[e] : docs'[e][i] = docs[e][i] \/ docs[e][i] = "pending",
         clean' \subseteq clean,
         Local(e)
  PROVE  Followed'
<1>1. run.step = "uploading"
  BY DEF Followed, TasksOK, TypeOK
<1>2. PollsOK'
  BY DEF PollsOK, Followed, Local
<1>3. TasksOK' /\ CreatedOK'
  BY <1>1 DEF TasksOK, CreatedOK, Followed
<1>4. RecordedIsStored'
  <2>1. RowIsStored(disk.data, e)'
    BY DEF RowIsStored, Followed, RecordedIsStored
  <2>2. \A f \in Episodes \ {e} : RowIsStored(disk.data, f)' /\ RowIsStored(memory, f)'
    BY DEF RowIsStored, Followed, RecordedIsStored
  <2> QED BY <2>1, <2>2 DEF RecordedIsStored, Local
<1>5. SettledOK'
  BY <1>1 DEF SettledOK, Followed
<1>6. EndedOK'
  BY DEF EndedOK, Followed, Local
<1>7. CleanOK'
  BY <1>1 DEF CleanOK, Followed, Local, TypeOK
<1> QED BY <1>2, <1>3, <1>4, <1>5, <1>6, <1>7 DEF Followed

LEMMA FollowedAcquire ==
  ASSUME TypeOK, Followed, NEW e \in Episodes, Acquire(e)
  PROVE  Followed'
<1>1. /\ task[e].pc = "waiting" /\ task'[e].pc = "posting"
      /\ \A f \in Episodes \ {e} : task'[f] = task[f]
      /\ UNCHANGED <<docs, disk, run, memory, exit, runs, faults, wiped, clean>>
  BY DEF Acquire, TypeOK
<1>2. Local(e)
  BY <1>1 DEF Local, Followed, RecordedIsStored, RowIsStored, CleanOK
<1> QED BY <1>1, <1>2, FollowedLocally

LEMMA FollowedPostAccepted ==
  ASSUME TypeOK, Followed, NEW e \in Episodes, PostAccepted(e)
  PROVE  Followed'
<1>1. /\ task[e].pc = "posting" /\ task'[e].pc = "polling"
      /\ task'[e].document_id = Len(docs[e]) + 1
      /\ \A f \in Episodes \ {e} : task'[f] = task[f]
      /\ UNCHANGED <<disk, run, memory, exit, runs, faults, wiped, clean>>
  BY DEF PostAccepted, TypeOK
<1>2. /\ Len(docs[e]) \in Nat /\ Len(docs'[e]) = Len(docs[e]) + 1
      /\ DOMAIN docs'[e] = 1 .. Len(docs[e]) + 1 /\ DOMAIN docs[e] = 1 .. Len(docs[e])
      /\ \A i \in DOMAIN docs[e] : docs'[e][i] = docs[e][i]
      /\ \A f \in Episodes \ {e} : docs'[f] = docs[f]
  BY StoreFacts DEF PostAccepted
<1>3. e \in clean => docs[e] = <<>>
  BY <1>1 DEF Followed, CleanOK
<1>4. Local(e)
  BY <1>1, <1>2, <1>3 DEF Local, Followed, RecordedIsStored, RowIsStored
<1> QED BY <1>1, <1>2, <1>4, FollowedLocally

LEMMA FollowedPostUnanswered ==
  ASSUME TypeOK, Followed, NEW e \in Episodes, PostUnanswered(e)
  PROVE  Followed'
<1>1. PICK answer \in Unhappy : \E stored \in MayStore(answer) : PostEnds(e, answer, stored)
  BY DEF PostUnanswered
<1>2. PICK stored \in MayStore(answer) : PostEnds(e, answer, stored)
  BY <1>1
<1>3. /\ task[e].pc = "posting"
      /\ IF stored THEN Store(e) ELSE docs' = docs
      /\ IF MayRetry(answer, task[e].attempt)
         THEN task' = [task EXCEPT ![e].attempt = @ + 1] /\ memory' = memory
         ELSE Record(e, "failed", 0)
      /\ clean' = IF stored THEN clean \ {e} ELSE clean
      /\ UNCHANGED <<disk, run, wiped>>
  BY <1>2 DEF PostEnds
<1>4. /\ DOMAIN docs[e] \subseteq DOMAIN docs'[e]
      /\ \A i \in DOMAIN docs[e] : docs'[e][i] = docs[e][i]
      /\ \A f \in Episodes \ {e} : docs'[f] = docs[f]
  <2>1. CASE stored
    <3>1. /\ Len(docs[e]) \in Nat /\ DOMAIN docs'[e] = 1 .. Len(docs[e]) + 1
          /\ DOMAIN docs[e] = 1 .. Len(docs[e])
          /\ \A i \in DOMAIN docs[e] : docs'[e][i] = docs[e][i]
          /\ \A f \in Episodes \ {e} : docs'[f] = docs[f]
      BY <1>3, <2>1, StoreFacts
    <3> QED BY <3>1
  <2>2. CASE ~stored
    BY <1>3, <2>2
  <2> QED BY <2>1, <2>2
<1>5. /\ memory'.created = memory.created
      /\ \A f \in Episodes \ {e} : /\ memory'.episodes[f] = memory.episodes[f]
                                  /\ task'[f] = task[f]
      /\ \/ task'[e].pc = "posting" /\ memory'.episodes[e] = memory.episodes[e]
         \/ task'[e].pc = "ended" /\ memory'.episodes[e].status = "failed"
  <2>1. CASE MayRetry(answer, task[e].attempt)
    <3>1. task \in [Episodes -> TaskRecords]
      BY DEF TypeOK, TaskRecords
    <3> QED BY <1>3, <2>1, <3>1 DEF TaskRecords
  <2>2. CASE ~MayRetry(answer, task[e].attempt)
    <3>1. /\ memory'.created = memory.created
          /\ memory'.episodes[e] = Recorded(memory.episodes[e], "failed", 0)
          /\ task'[e] = Ended
          /\ \A f \in Episodes \ {e} : /\ memory'.episodes[f] = memory.episodes[f]
                                      /\ task'[f] = task[f]
      BY <1>3, <2>2, RecordFacts DEF Statuses
    <3> QED BY <3>1 DEF Recorded, Ended
  <2> QED BY <2>1, <2>2
<1>6. e \in clean' => docs'[e] = <<>>
  BY <1>3 DEF Followed, CleanOK
<1>7. RowIsStored(memory, e)'
  BY <1>3, <1>4, <1>5 DEF Followed, RecordedIsStored, RowIsStored, IsDone
<1>8. Local(e)
  BY <1>5, <1>6, <1>7 DEF Local
<1>9. clean' \subseteq clean
  BY <1>3
<1> QED BY <1>3, <1>4, <1>5, <1>8, <1>9, FollowedLocally

LEMMA FollowedPoll ==
  ASSUME TypeOK, Followed, NEW e \in Episodes, PollCompleted(e) \/ PollFailed(e)
  PROVE  Followed'
<1>1. /\ task[e].pc = "polling" /\ task[e].document_id \in DOMAIN docs[e]
      /\ UNCHANGED <<docs, disk, run, wiped>> /\ clean' \subseteq clean
  BY DEF PollCompleted, PollFailed, Followed, PollsOK
<1>2. docs[e] \in Seq(DocStates) /\ task[e].document_id \in Nat \ {0}
  <2>1. docs[e] \in Seq(DocStates)
    BY DEF TypeOK
  <2> QED BY <1>1, <2>1
<1>3. CASE PollCompleted(e)
  <2>1. /\ memory'.created = memory.created /\ task'[e] = Ended
        /\ memory'.episodes[e] =
             Recorded(memory.episodes[e], "completed", task[e].document_id)
        /\ \A f \in Episodes \ {e} : /\ memory'.episodes[f] = memory.episodes[f]
                                    /\ task'[f] = task[f]
    BY <1>2, <1>3, RecordFacts DEF PollCompleted, Statuses
  <2>2. /\ task'[e].pc = "ended" /\ IsDone(memory'.episodes[e])
        /\ memory'.episodes[e].document_id = task[e].document_id
    BY <2>1, <1>2 DEF Recorded, Ended, IsDone
  <2>3. docs[e][task[e].document_id] = "processed"
    BY <1>3 DEF PollCompleted
  <2>4. Local(e)
    BY <1>1, <2>2, <2>3 DEF Local, RowIsStored, Followed, CleanOK
  <2> QED BY <1>1, <2>1, <2>4, FollowedLocally
<1>4. CASE PollFailed(e)
  <2>1. /\ memory'.created = memory.created /\ task'[e] = Ended
        /\ memory'.episodes[e] = Recorded(memory.episodes[e], "failed", 0)
        /\ \A f \in Episodes \ {e} : /\ memory'.episodes[f] = memory.episodes[f]
                                    /\ task'[f] = task[f]
    BY <1>4, RecordFacts DEF PollFailed, Statuses
  <2>2. /\ task'[e].pc = "ended" /\ memory'.episodes[e].status = "failed"
        /\ e \notin clean'
    BY <2>1, <1>4 DEF Recorded, Ended, PollFailed
  <2>3. Local(e)
    BY <2>2 DEF Local, RowIsStored, IsDone
  <2> QED BY <1>1, <2>1, <2>3, FollowedLocally
<1> QED BY <1>3, <1>4

LEMMA FollowedProcess ==
  ASSUME TypeOK, Followed, NEW e \in Episodes, Process(e)
  PROVE  Followed'
<1> DEFINE d == task[e].document_id
<1>1. PICK s \in {"processed", "failed"} : docs' = [docs EXCEPT ![e][d] = s]
  BY DEF Process
<1>2. /\ task[e].pc = "polling" /\ docs[e][d] = "pending" /\ d \in DOMAIN docs[e]
      /\ UNCHANGED <<disk, run, memory, task, exit, runs, faults, wiped, clean>>
  BY DEF Process, Followed, PollsOK
<1>3. docs \in [Episodes -> Seq(DocStates)] /\ docs[e] \in Seq(DocStates)
  BY DEF TypeOK
<1> HIDE DEF d
<1>4. docs'[e] = [docs[e] EXCEPT ![d] = s] /\ \A f \in Episodes \ {e} : docs'[f] = docs[f]
  BY <1>1, <1>3
<1>5. /\ DOMAIN docs'[e] = DOMAIN docs[e] /\ Len(docs'[e]) = Len(docs[e])
      /\ docs[e] # <<>>
      /\ \A i \in DOMAIN docs[e] : docs'[e][i] = docs[e][i] \/ docs[e][i] = "pending"
  BY <1>2, <1>3, <1>4
<1>6. RowIsStored(memory, e)'
  BY <1>2, <1>5 DEF Followed, RecordedIsStored, RowIsStored
<1>7. Local(e)
  BY <1>2, <1>5, <1>6 DEF Local, Followed, CleanOK, PollsOK
<1> QED BY <1>2, <1>4, <1>5, <1>7, FollowedLocally

LEMMA FollowedSave ==
  ASSUME TypeOK, Followed, SaveOpens \/ SaveWrites
  PROVE  Followed'
<1>1. CASE SaveOpens
  <2>1. /\ run.step = "uploading" /\ run'.step = "saving"
        /\ \A e \in Episodes : task[e].pc \in {"off", "ended"}
        /\ \A e \in Episodes : ~IsDone(disk'.data.episodes[e])
        /\ UNCHANGED <<docs, memory, task, exit, runs, faults, wiped, clean>>
    BY <1>1, EmptyTyped DEF SaveOpens, Torn, TypeOK
  <2> QED BY <2>1 DEF Followed, PollsOK, TasksOK, CreatedOK, RecordedIsStored,
                      RowIsStored, SettledOK, EndedOK, CleanOK
<1>2. CASE SaveWrites
  <2>1. /\ run.step = "saving" /\ run'.step = "idle"
        /\ disk'.data = memory /\ disk'.file = "whole"
        /\ \A e \in Episodes : task'[e].pc = "off" /\ ~IsDone(memory'.episodes[e])
        /\ UNCHANGED <<docs, wiped, clean>>
    BY <1>2, EmptyTyped DEF SaveWrites, Written, Idle, NoTask
  <2>2. \A e \in Episodes : task[e].pc # "polling"
    BY <2>1 DEF Followed, TasksOK
  <2>3. CleanOK'
    BY <2>1, <2>2 DEF Followed, CleanOK, TypeOK
  <2> QED BY <2>1, <2>3 DEF Followed, PollsOK, TasksOK, CreatedOK, RecordedIsStored,
                      RowIsStored, SettledOK, EndedOK
<1> QED BY <1>1, <1>2

LEMMA FollowedFault ==
  ASSUME TypeOK, Followed, StartOnTornFile \/ RemoveTornFile \/ Die \/ Wipe
  PROVE  Followed'
<1>1. CASE StartOnTornFile
  BY <1>1 DEF StartOnTornFile, Followed, PollsOK, TasksOK, CreatedOK, RecordedIsStored,
              RowIsStored, SettledOK, EndedOK, CleanOK
<1>3. CASE Die
  <2>1. /\ run'.step = "idle"
        /\ \A e \in Episodes : task'[e].pc = "off" /\ ~IsDone(memory'.episodes[e])
        /\ UNCHANGED <<docs, disk, wiped>>
        /\ clean' = {e \in clean : docs[e] = <<>> \/ IsDone(disk.data.episodes[e])}
    BY <1>3, EmptyTyped DEF Die, Idle, NoTask
  <2> QED BY <2>1 DEF Followed, PollsOK, TasksOK, CreatedOK, RecordedIsStored,
                      RowIsStored, SettledOK, EndedOK, CleanOK, TypeOK
<1>4. CASE Wipe
  <2>1. /\ wiped' /\ UNCHANGED <<disk, run, memory, task, exit, runs, clean>>
        /\ docs' = [e \in Episodes |-> [i \in DOMAIN docs[e] |-> "gone"]]
    BY <1>4 DEF Wipe
  <2>2. ASSUME NEW e \in Episodes
        PROVE  /\ DOMAIN docs'[e] = DOMAIN docs[e] /\ Len(docs'[e]) = Len(docs[e])
               /\ docs'[e] # <<>> => docs[e] # <<>>
               /\ \A i \in DOMAIN docs[e] : docs'[e][i] = "gone"
    <3>1. docs[e] \in Seq(DocStates) /\ docs'[e] = [i \in DOMAIN docs[e] |-> "gone"]
      BY <2>1 DEF TypeOK
    <3> QED BY <3>1
  <2> QED BY <2>1, <2>2 DEF Followed, PollsOK, TasksOK, CreatedOK, RecordedIsStored,
                      RowIsStored, SettledOK, EndedOK, CleanOK, TypeOK
<1>2. CASE RemoveTornFile
  <2>1. /\ run.step = "idle"
        /\ disk.file = "torn"
        /\ UNCHANGED <<docs, run, memory, task, exit, runs, faults, wiped, clean>>
        /\ \A e \in Episodes : ~IsDone(disk'.data.episodes[e])
    BY <1>2, EmptyTyped DEF RemoveTornFile, Missing
  <2>2. CleanOK'
    BY <2>1 DEF CleanOK, CreatedOK, Followed, TypeOK
  <2> QED BY <2>1, <2>2 DEF Followed, PollsOK, TasksOK, CreatedOK, RecordedIsStored,
                      RowIsStored, SettledOK, EndedOK
<1> QED BY <1>1, <1>2, <1>3, <1>4

\* No step of the seeder, of the provider or of the operator breaks the invariant.
LEMMA FollowedStep == TypeOK /\ Followed /\ [Next]_vars => Followed'
<1> SUFFICES ASSUME TypeOK, Followed, [Next]_vars PROVE Followed'
  OBVIOUS
<1>1. CASE \E args \in Args, chosen \in Selections : Start(args, chosen)
  BY <1>1, FollowedStart
<1>2. ASSUME NEW e \in Episodes, Seed(e) PROVE Followed'
  BY <1>2, FollowedAcquire, FollowedPostAccepted, FollowedPostUnanswered, FollowedPoll
     DEF Seed
<1>3. ASSUME NEW e \in Episodes, Process(e) PROVE Followed'
  BY <1>3, FollowedProcess
<1>4. CASE SaveOpens \/ SaveWrites
  BY <1>4, FollowedSave
<1>5. CASE StartOnTornFile \/ RemoveTornFile \/ Die \/ Wipe
  BY <1>5, FollowedFault
<1>6. CASE UNCHANGED vars
  BY <1>6 DEF vars, Followed, PollsOK, TasksOK, CreatedOK, RecordedIsStored,
              RowIsStored, SettledOK, EndedOK, CleanOK
<1> QED BY <1>1, <1>2, <1>3, <1>4, <1>5, <1>6 DEF Next

LEMMA IInvAlways == Spec => []IInv
<1>1. Init => IInv
  BY TypeInit, FollowedInit DEF IInv, Followed
<1>2. IInv /\ [Next]_vars => IInv'
  BY TypeStep, FollowedStep DEF IInv, Followed
<1> QED BY <1>1, <1>2, PTL DEF Spec
-----------------------------------------------------------------------------
(***************************************************************************)
(* The properties.                                                         *)
(***************************************************************************)

\* What lets a resumed run skip an episode is a document of it that the provider
\* had processed (seed.py:147, manifest.py:163).
THEOREM SkippedIsStored == Spec => []RecordedIsStored
<1>1. IInv => RecordedIsStored
  BY DEF IInv
<1> QED BY <1>1, IInvAlways, PTL

\* However many runs, retries and deaths: an episode is stored once unless
\* something went wrong for it, or it was asked for again (identity.py:4).
THEOREM StoredOnce == Spec => []OneDocument
<1>1. IInv => OneDocument
  <2> SUFFICES ASSUME IInv, NEW e \in clean PROVE Len(docs[e]) <= 1
    BY DEF OneDocument
  <2>1. CASE docs[e] = <<>>
    <3>1. Len(<<>>) = 0
      OBVIOUS
    <3> QED BY <2>1, <3>1
  <2>2. CASE docs[e] # <<>>
    <3>1. Len(docs[e]) = 1
      BY <2>2, Zenon DEF IInv, CleanOK
    <3> QED BY <3>1
  <2> QED BY <2>1, <2>2
<1> QED BY <1>1, IInvAlways, PTL

\* A resumed run forgets nothing of what it read as done (manifest.py:115).
THEOREM ResumeKeepsProgress == Spec => []ProgressKept
<1>1. IInv => ProgressKept
  BY DEF IInv, SettledOK, ProgressKept
<1> QED BY <1>1, IInvAlways, PTL

\* Exit code 0 leaves every episode of the run recorded and stored (seed.py:221).
THEOREM SuccessMeansComplete == Spec => SuccessIsComplete
<1> DEFINE Completes ==
      (run.step = "saving" /\ run'.step = "idle" /\ exit' = 0) =>
         \A e \in Episodes : task[e].pc = "ended" =>
           /\ IsDone(disk'.data.episodes[e])
           /\ \E i \in DOMAIN docs[e] :
                docs[e][i] = "processed" \/ (wiped /\ docs[e][i] = "gone")
<1>1. IInv /\ [Next]_vars => [Completes]_vars
  <2> SUFFICES ASSUME IInv, Next, run.step = "saving", run'.step = "idle", exit' = 0,
                      NEW e \in Episodes, task[e].pc = "ended"
               PROVE  /\ IsDone(disk'.data.episodes[e])
                      /\ \E i \in DOMAIN docs[e] :
                           docs[e][i] = "processed" \/ (wiped /\ docs[e][i] = "gone")
    OBVIOUS
  <2>1. SaveWrites /\ exit' = ExitCode(memory)
    BY DEF Next, Seed, Start, StartOnTornFile, RemoveTornFile, Acquire, PostAccepted,
           PostUnanswered, PostEnds, PollCompleted, PollFailed, Process, SaveOpens,
           SaveWrites, Die, Wipe
  <2>2. Counted(memory, {"failed"}) = 0
    BY <2>1 DEF ExitCode
  <2>3. {f \in Episodes : memory.episodes[f].status \in {"failed"}} = {}
    <3>1. IsFiniteSet({f \in Episodes : memory.episodes[f].status \in {"failed"}})
      BY EpisodesAssumption, FS_Subset
    <3> QED BY <2>2, <3>1, FS_EmptySet DEF Counted
  <2>4. IsDone(memory.episodes[e])
    BY <2>3 DEF IInv, EndedOK
  <2>5. RowIsStored(memory, e)
    BY DEF IInv, RecordedIsStored
  <2> QED BY <2>1, <2>4, <2>5 DEF RowIsStored, SaveWrites, Written
<1> QED BY <1>1, IInvAlways, PTL DEF Spec, SuccessIsComplete
=============================================================================
