------------------------------- MODULE Seeding -------------------------------
(***************************************************************************)
(* The seeder of the payment memory (memory/seed.py), the manifest it      *)
(* keeps (memory/manifest.py) and the client that uploads an episode and   *)
(* waits until the provider has processed it (memory/inherent_client.py).  *)
(*                                                                         *)
(* One run at a time, as the command is used; its uploads run concurrently *)
(* under a semaphore.  The process may die at any step, an answer may be   *)
(* lost after the provider stored the document, and the provider may lose  *)
(* what it stored.  The manifest is written once, at the end of a run.     *)
(***************************************************************************)
EXTENDS Naturals, Sequences, FiniteSets

CONSTANTS
  Episodes,      \* the logical ids of the synthetic episodes
  Selections,    \* the sets of them that --seeds, --n and --limit may select
  Concurrency,   \* INHERENT_SEED_CONCURRENCY
  MaxRetries,    \* INHERENT_MAX_RETRIES
  MaxRuns,       \* bound: how often the seeder is started
  MaxFaults      \* bound: deaths, lost answers and wipes together

ASSUME EpisodesAssumption == IsFiniteSet(Episodes)
ASSUME SelectionsAssumption == Selections \subseteq SUBSET Episodes
ASSUME ConcurrencyAssumption == Concurrency \in Nat \ {0}
ASSUME BoundsAssumption == MaxRetries \in Nat /\ MaxRuns \in Nat /\ MaxFaults \in Nat

VARIABLES
  docs,      \* docs[e]: the documents the provider holds for e, by upload order
  disk,      \* the manifest file
  run,       \* the arguments of the seeder's run, and how far it is
  memory,    \* the manifest the running seeder has in memory
  task,      \* task[e]: the coroutine _one of episode e
  exit,      \* exit code of the last run
  runs,      \* runs started
  faults,    \* faults so far
  wiped,     \* history: the provider has lost documents
  clean      \* history: the episodes nothing has gone wrong for, and that no
             \* run was told to upload again

vars == <<docs, disk, run, memory, task, exit, runs, faults, wiped, clean>>

-----------------------------------------------------------------------------
(* The provider, external: a document is processed after its upload.       *)

DocStates == {"pending", "processed", "failed", "gone"}

(* The manifest: one row per episode; document_id is an index of docs[e],  *)
(* 0 while there is none.  status "none" stands for no row.                *)

Statuses == {"none", "completed", "failed", "retry_exhausted", "skipped"}

Row == [status : Statuses, document_id : Nat]
NoRow == [status |-> "none", document_id |-> 0]

Empty == [created |-> FALSE, episodes |-> [e \in Episodes |-> NoRow]]
Manifests == [created : BOOLEAN, episodes : [Episodes -> Row]]

\* The file before the first run, and the file a death in mid-write leaves.
Missing == [file |-> "missing", data |-> Empty]
Torn == [file |-> "torn", data |-> Empty]
Written(manifest) == [file |-> "whole", data |-> manifest]

\* Mutant: every run starts a new manifest.
InitRunAnew(manifest, force) == [Empty EXCEPT !.created = TRUE]

InitRun(manifest, force) ==
  IF force \/ ~manifest.created THEN [Empty EXCEPT !.created = TRUE]
                                ELSE manifest

IsDone(row) == row.status \in {"completed", "skipped"}
\* Mutant: only what the run itself completed is skipped.
ShouldSkipCompleted(row, resume) == resume /\ row.status = "completed"

ShouldSkip(row, resume) == resume /\ IsDone(row)

\* record_episode keeps the fields of the row it does not set.
Recorded(row, status, id) ==
  [status |-> status, document_id |-> IF id = 0 THEN row.document_id ELSE id]

\* _recompute_counts, over every row of the manifest, not only the run's.
Counted(manifest, statuses) ==
  Cardinality({e \in Episodes : manifest.episodes[e].status \in statuses})

\* Mutant: failures of a document do not count.
ExitCodeExhausted(manifest) ==
  IF Counted(manifest, {"retry_exhausted"}) = 0 THEN 0 ELSE 1

ExitCode(manifest) ==
  IF Counted(manifest, {"failed"}) = 0 /\ Counted(manifest, {"retry_exhausted"}) = 0
  THEN 0 ELSE 1

-----------------------------------------------------------------------------
Idle == [step |-> "idle", resume |-> FALSE, force |-> FALSE]
Args == [resume : BOOLEAN, force : BOOLEAN]

NoTask == [pc |-> "off", attempt |-> 0, document_id |-> 0]
Waiting == [NoTask EXCEPT !.pc = "waiting"]
Ended == [NoTask EXCEPT !.pc = "ended"]

Init ==
  /\ docs = [e \in Episodes |-> <<>>]
  /\ disk = Missing
  /\ run = Idle
  /\ memory = Empty
  /\ task = [e \in Episodes |-> NoTask]
  /\ exit = 0
  /\ runs = 0
  /\ faults = 0
  /\ wiped = FALSE
  /\ clean = Episodes

\* The seeder reads its manifest, resets it when told to or when there was
\* none, and gather starts a task for each episode: those already recorded as
\* done end at once as "skipped", the others wait for the semaphore.
Start(args, chosen) ==
  LET loaded == InitRun(disk.data, args.force)
      Skips(e) == ShouldSkip(loaded.episodes[e], args.resume)
  IN /\ run.step = "idle"
     /\ runs < MaxRuns
     /\ disk.file # "torn"
     /\ run' = [step |-> "uploading", resume |-> args.resume, force |-> args.force]
     /\ memory' = [loaded EXCEPT !.episodes =
                     [e \in Episodes |->
                        IF e \in chosen /\ Skips(e)
                        THEN Recorded(loaded.episodes[e], "skipped", 0)
                        ELSE loaded.episodes[e]]]
     /\ task' = [e \in Episodes |->
                   CASE e \notin chosen -> NoTask
                     [] e \in chosen /\ Skips(e) -> Ended
                     [] e \in chosen /\ ~Skips(e) -> Waiting]
     /\ runs' = runs + 1
     /\ exit' = 0
     /\ clean' = IF args.force THEN {e \in clean : docs[e] = <<>>}
                 ELSE IF args.resume THEN clean
                 ELSE {e \in clean : e \in chosen => docs[e] = <<>>}
     /\ UNCHANGED <<docs, disk, faults, wiped>>

\* json.loads raises on the torn file before any argument is looked at, so that
\* --force cannot reset it.
StartOnTornFile ==
  /\ run.step = "idle"
  /\ runs < MaxRuns
  /\ disk.file = "torn"
  /\ runs' = runs + 1
  /\ exit' = 1
  /\ UNCHANGED <<docs, disk, run, memory, task, faults, wiped, clean>>

\* The operator removes the file that cannot be read.
RemoveTornFile ==
  /\ run.step = "idle"
  /\ disk.file = "torn"
  /\ disk' = Missing
  /\ UNCHANGED <<docs, run, memory, task, exit, runs, faults, wiped, clean>>

-----------------------------------------------------------------------------
\* Mutant: the semaphore is not released.
UploadingKept == {e \in Episodes : task[e].pc \in {"posting", "polling", "ended"}}

Uploading == {e \in Episodes : task[e].pc \in {"posting", "polling"}}

Acquire(e) ==
  /\ task[e].pc = "waiting"
  /\ Cardinality(Uploading) < Concurrency
  /\ task' = [task EXCEPT ![e].pc = "posting"]
  /\ UNCHANGED <<docs, disk, run, memory, exit, runs, faults, wiped, clean>>

\* The end of a task: one row of the manifest in memory.
Record(e, status, id) ==
  /\ memory' = [memory EXCEPT !.episodes[e] = Recorded(@, status, id)]
  /\ task' = [task EXCEPT ![e] = Ended]

Store(e) == docs' = [docs EXCEPT ![e] = Append(@, "pending")]

\* The upload is answered with a document id, and the task starts to poll.
PostAccepted(e) ==
  /\ task[e].pc = "posting"
  /\ Store(e)
  /\ task' = [task EXCEPT ![e] = [pc |-> "polling", attempt |-> 0,
                                  document_id |-> Len(docs[e]) + 1]]
  /\ UNCHANGED <<disk, run, memory, exit, runs, faults, wiped, clean>>

\* What else may come of one POST.  "busy" and "lost" are tried again while
\* attempts last; the last "busy" answer is returned and fails as a status, so
\* that every failure of an upload is recorded as "failed".
Unhappy == {"busy", "lost", "refused", "broken", "malformed"}
Retryable == {"busy", "lost"}
\* Mutant: one attempt too many.
MayRetryOnceMore(answer, attempt) == answer \in Retryable /\ attempt <= MaxRetries

MayRetry(answer, attempt) == answer \in Retryable /\ attempt < MaxRetries

\* A refusal stores nothing and a malformed acceptance has stored; of a gateway
\* error, a timeout or a broken connection the client cannot know.
MayStore(answer) ==
  CASE answer = "refused" -> {FALSE}
    [] answer = "malformed" -> {TRUE}
    [] answer \in {"busy", "lost", "broken"} -> BOOLEAN

PostEnds(e, answer, stored) ==
  /\ task[e].pc = "posting"
  /\ IF stored THEN faults < MaxFaults /\ faults' = faults + 1 /\ Store(e)
               ELSE UNCHANGED <<docs, faults>>
  /\ IF MayRetry(answer, task[e].attempt)
     THEN task' = [task EXCEPT ![e].attempt = @ + 1] /\ UNCHANGED memory
     ELSE Record(e, "failed", 0)
  /\ clean' = IF stored THEN clean \ {e} ELSE clean
  /\ UNCHANGED <<disk, run, exit, runs, wiped>>

PostUnanswered(e) ==
  \E answer \in Unhappy : \E stored \in MayStore(answer) : PostEnds(e, answer, stored)

\* The provider processes the document a task polls, well or not.  Whatever
\* becomes of a document that nobody polls, no step here reads it.
Process(e) ==
  /\ task[e].pc = "polling"
  /\ docs[e][task[e].document_id] = "pending"
  /\ \E s \in {"processed", "failed"} :
       docs' = [docs EXCEPT ![e][task[e].document_id] = s]
  /\ UNCHANGED <<disk, run, memory, task, exit, runs, faults, wiped, clean>>

\* Mutant: the accepted upload is taken for a processed document.
PollCompletedEarly(e) ==
  /\ task[e].pc = "polling"
  /\ Record(e, "completed", task[e].document_id)
  /\ UNCHANGED <<docs, disk, run, exit, runs, faults, wiped, clean>>

PollCompleted(e) ==
  /\ task[e].pc = "polling"
  /\ docs[e][task[e].document_id] = "processed"
  /\ Record(e, "completed", task[e].document_id)
  /\ UNCHANGED <<docs, disk, run, exit, runs, faults, wiped, clean>>

\* The document failed, a status request failed for good, or the deadline came
\* before the answer that would have said "processed".
PollFailed(e) ==
  /\ task[e].pc = "polling"
  /\ Record(e, "failed", 0)
  /\ clean' = clean \ {e}
  /\ UNCHANGED <<docs, disk, run, exit, runs, faults, wiped>>

-----------------------------------------------------------------------------
\* write_text truncates the file, and then writes it.
SaveOpens ==
  /\ run.step = "uploading"
  /\ \A e \in Episodes : task[e].pc \in {"off", "ended"}
  /\ run' = [run EXCEPT !.step = "saving"]
  /\ disk' = Torn
  /\ UNCHANGED <<docs, memory, task, exit, runs, faults, wiped, clean>>

\* With --validate the searches come after the save, and an error of theirs ends
\* the process with 1 whatever was recorded.
SaveWrites ==
  /\ run.step = "saving"
  /\ disk' = Written(memory)
  /\ \/ exit' = ExitCode(memory)
     \/ exit' = 1
  /\ run' = Idle
  /\ memory' = Empty
  /\ task' = [e \in Episodes |-> NoTask]
  /\ UNCHANGED <<docs, runs, faults, wiped, clean>>

\* The process is killed, or an exception that is not the client's leaves gather.
Die ==
  /\ run.step # "idle"
  /\ faults < MaxFaults
  /\ faults' = faults + 1
  /\ clean' = {e \in clean : docs[e] = <<>> \/ IsDone(disk.data.episodes[e])}
  /\ run' = Idle
  /\ memory' = Empty
  /\ task' = [e \in Episodes |-> NoTask]
  /\ exit' = 1
  /\ UNCHANGED <<docs, disk, runs, wiped>>

\* The provider's volume is lost.
Wipe ==
  /\ faults < MaxFaults
  /\ \E e \in Episodes : docs[e] # <<>>
  /\ faults' = faults + 1
  /\ wiped' = TRUE
  /\ docs' = [e \in Episodes |-> [i \in DOMAIN docs[e] |-> "gone"]]
  /\ UNCHANGED <<disk, run, memory, task, exit, runs, clean>>

Seed(e) ==
  Acquire(e) \/ PostAccepted(e) \/ PostUnanswered(e) \/ PollCompleted(e) \/ PollFailed(e)

Next ==
  \/ \E args \in Args, chosen \in Selections : Start(args, chosen)
  \/ StartOnTornFile
  \/ RemoveTornFile
  \/ \E e \in Episodes : Seed(e)
  \/ \E e \in Episodes : Process(e)
  \/ SaveOpens
  \/ SaveWrites
  \/ Die
  \/ Wipe

Spec == Init /\ [][Next]_vars

\* The event loop runs every task that can run, and every request is answered or
\* times out.
FairSpec ==
  /\ Spec
  /\ \A e \in Episodes : WF_vars(Seed(e))
  /\ WF_vars(SaveOpens)
  /\ WF_vars(SaveWrites)
-----------------------------------------------------------------------------
\* Types: document_id is the index of a document of that episode.
TypeOK ==
  /\ docs \in [Episodes -> Seq(DocStates)]
  /\ disk \in [file : {"missing", "torn", "whole"}, data : Manifests]
  /\ run \in [step : {"idle", "uploading", "saving"}, resume : BOOLEAN,
              force : BOOLEAN]
  /\ memory \in Manifests
  /\ task \in [Episodes -> [pc : {"off", "waiting", "posting", "polling", "ended"},
                            attempt : 0 .. MaxRetries, document_id : Nat]]
  /\ exit \in {0, 1}
  /\ runs \in 0 .. MaxRuns
  /\ faults \in 0 .. MaxFaults
  /\ wiped \in BOOLEAN
  /\ clean \in SUBSET Episodes

\* A manifest row that lets a resumed run skip an episode names a document of that
\* episode which the provider had processed, in the file and in memory, whatever
\* died, was lost or was tried again on the way (seed.py:147, manifest.py:163).
RowIsStored(manifest, e) ==
  LET row == manifest.episodes[e]
  IN IsDone(row) => /\ row.document_id \in DOMAIN docs[e]
                    /\ docs[e][row.document_id] \in
                         IF wiped THEN {"processed", "gone"} ELSE {"processed"}

RecordedIsStored ==
  \A e \in Episodes : RowIsStored(disk.data, e) /\ RowIsStored(memory, e)

\* However often the seeder is started, an episode is uploaded once unless an
\* answer was lost, its processing was not seen to end, its record died with the
\* process or with the file, or the operator asked for it again (identity.py:4).
OneDocument == \A e \in clean : Len(docs[e]) <= 1

\* A resumed run never forgets what the file it read had as done, whatever
\* fails in it (seed.py:147, manifest.py:115).
ProgressKept ==
  (run.step = "uploading" /\ run.resume /\ ~run.force) =>
    \A e \in Episodes : IsDone(disk.data.episodes[e]) => IsDone(memory.episodes[e])

\* A run that ends with 0 has every episode it was asked for in the file as done
\* and, unless the provider lost it, at the provider (seed.py:221).
SuccessIsComplete ==
  [][(run.step = "saving" /\ run'.step = "idle" /\ exit' = 0) =>
       \A e \in Episodes : task[e].pc = "ended" =>
         /\ IsDone(disk'.data.episodes[e])
         /\ \E i \in DOMAIN docs[e] :
              docs[e][i] = "processed" \/ (wiped /\ docs[e][i] = "gone")]_vars

\* Every run comes to its end: attempts are bounded and so is each wait.
RunEnds == (run.step # "idle") ~> (run.step = "idle")
=============================================================================
