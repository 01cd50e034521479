------------------------------ MODULE Pipeline ------------------------------
(***************************************************************************)
(* The durable job pipeline of app/services/pipeline.py with the worker    *)
(* loop of app/worker.py, the queue of app/services/queue.py and the job   *)
(* routes of app/api/jobs/core.py and app/web/pages/actions.py.            *)
(*                                                                         *)
(* A runner is a thread that can execute process_job_pipeline: the single  *)
(* thread of a worker process, or a thread of the web process (a request   *)
(* or a background task).  Every action is one database transaction, or    *)
(* the code between two of them, of one runner; so runners interleave      *)
(* wherever the program reads in one transaction and writes in a later     *)
(* one.                                                                    *)
(***************************************************************************)
EXTENDS Integers, Sequences, FiniteSets

CONSTANTS
  Jobs,               \* job ids; a smaller id was created earlier
  Runners,            \* threads that can run the pipeline
  Workers,            \* the runners that poll: app.worker processes
  Procs,              \* operating-system processes
  ProcOf,             \* the process of a runner: its PIPELINE_WORKER_ID
  Nobody,             \* locked_by IS NULL
  Gone,               \* locked_by is the id of a process that died
  FirstStep,          \* jobs are created with the outputs of earlier steps
  MaxConcurrentJobs,  \* settings.max_concurrent_pipeline_jobs
  QueueBackend,       \* settings.pipeline_queue_backend
  SubtitlesEnabled,   \* settings.youtube_subtitle_enabled
  LeaseOutlivesWork,  \* TRUE: no live runner outlasts its own lock
  UserOps,            \* the request handlers users may call
  MaxOps,             \* bound: calls of those handlers
  MaxCrashes          \* bound: process crashes

PIPELINE_STEPS ==
  <<"downloading", "extracting_audio", "transcribing", "analyzing", "llm_enrichment">>
ACTIVE_PIPELINE_JOB_STATUSES ==
  {"downloading", "extracting_audio", "transcribing", "analyzing", "llm_enrichment"}
MAX_STEP_ATTEMPTS == 3
LLM_ENRICHMENT_MAX_FAILURES_BEFORE_SKIP == 2

StepIx == 1 .. 5
LLM == 5
Web == Runners \ Workers

Artifacts == {"video", "audio", "transcript", "niche", "candidates", "insights"}
(* What reset_pipeline_state_from_step clears for each step. *)
Outputs == <<{"video"}, {"audio"}, {"transcript"}, {"niche", "candidates"}, {"insights"}>>
(* The file or text a step reads before it can produce anything. *)
Inputs == <<{}, {"video"}, {"audio"}, {"transcript"}, {"transcript"}>>
(* A step is skipped when one of these exists. *)
SkipOn == <<{"video"}, {"audio", "transcript"}, {"transcript"}, {"niche"}, {"insights"}>>

Statuses == ACTIVE_PIPELINE_JOB_STATUSES \cup
  {"absent", "pending", "done", "failed", "cancel_requested", "canceled", "deleted"}
RowStatuses == {"pending", "running", "completed", "skipped", "failed", "exhausted"}

ASSUME PipelineAssumption ==
  /\ Jobs \subseteq Nat \ {0} /\ IsFiniteSet(Jobs)
  /\ Workers \subseteq Runners
  /\ ProcOf \in [Runners -> Procs]
  /\ Nobody \notin Procs /\ Gone \notin Procs /\ Nobody # Gone
  /\ FirstStep \in StepIx
  /\ MaxConcurrentJobs \in Nat \ {0}
  /\ QueueBackend \in {"worker", "local"}
  /\ SubtitlesEnabled \in BOOLEAN /\ LeaseOutlivesWork \in BOOLEAN
  /\ MaxOps \in Nat /\ MaxCrashes \in Nat

VARIABLES
  status,     \* jobs.status, "absent" before the row is inserted
  owner,      \* jobs.locked_by
  stale,      \* jobs.locked_at is older than pipeline_lock_stale_seconds
  have,       \* the job's outputs that exist: files, niche, candidates, insights
  row,        \* job_steps.status
  attempts,   \* job_steps.attempts
  billed,     \* jobs with a video_processed usage event
  run,        \* the program counter and locals of each runner
  evicted,    \* history: runners whose lock was taken from them at work
  ops, crashes

db == <<status, owner, stale, have, row, attempts, billed>>
vars == <<db, run, evicted, ops, crashes>>

Idle == [pc |-> "idle", job |-> 0, cur |-> 0, start |-> 0, force |-> FALSE,
         err |-> "none", jobs |-> {}, frames |-> <<>>]

Init ==
  /\ status = [j \in Jobs |-> "absent"]
  /\ owner = [j \in Jobs |-> Nobody]
  /\ stale = [j \in Jobs |-> FALSE]
  /\ have = [j \in Jobs |-> {}]
  /\ row = [j \in Jobs |-> [s \in StepIx |-> "pending"]]
  /\ attempts = [j \in Jobs |-> [s \in StepIx |-> 0]]
  /\ billed = {}
  /\ run = [r \in Runners |-> Idle]
  /\ evicted = {}
  /\ ops = 0 /\ crashes = 0

-----------------------------------------------------------------------------
(* Between the acquisition of the job lock and its release. *)
SectionPCs == {"prepare", "check", "begin", "work", "subtitle", "candidates", "breaker",
               "complete", "finish", "snapshot", "abort", "cancelmark", "release"}
(* Where run[r].job is the job the runner was given. *)
JobPCs == SectionPCs \cup {"acquire", "kick", "local", "local_audio", "local_transcript", "skip_llm"}
PCs == JobPCs \cup {"idle", "recover", "poll", "claim", "launch"}

InSection(r) == run[r].pc \in SectionPCs
At(r, p) == run[r].pc = p
Goto(r, p) == run' = [run EXCEPT ![r].pc = p]
Job(r) == run[r].job

Pending == {j \in Jobs : status[j] = "pending"}
Active == {j \in Jobs : status[j] \in ACTIVE_PIPELINE_JOB_STATUSES}
StaleActive == {j \in Active : owner[j] # Nobody /\ stale[j]}

IsCancelRequestedMissesRequest(j) == status[j] = "canceled"
IsCancelRequested(j) == status[j] \in {"cancel_requested", "canceled"}
Oldest(j, S) == j \in S /\ \A k \in S : j <= k

(* The WHERE clause of _try_acquire_job_lock, and its update.               *)
CanLockAnything(p, j) == TRUE
CanLockNothingStale(p, j) == owner[j] = Nobody \/ owner[j] = p
CanLock(p, j) == owner[j] = Nobody \/ stale[j] \/ owner[j] = p

LockKeepsAge(p, j) ==
  /\ owner' = [owner EXCEPT ![j] = p]
  /\ stale' = stale
Lock(p, j) ==
  /\ owner' = [owner EXCEPT ![j] = p]
  /\ stale' = [stale EXCEPT ![j] = FALSE]

(* process_job_pipeline is called with these arguments; start = 0 is None. *)
Entry(j, start, force, frames) ==
  [pc |-> "acquire", job |-> j, cur |-> 0, start |-> start, force |-> force,
   err |-> "none", jobs |-> {}, frames |-> frames]
Call(r, j, start, force) ==
  run' = [run EXCEPT ![r] = Entry(j, start, force, run[r].frames)]

-----------------------------------------------------------------------------
(* The worker loop: run_worker_once. *)

(* recover_stale_pipeline_jobs reads the abandoned jobs ... *)
StartRecovery(r) ==
  /\ r \in Workers /\ At(r, "idle") /\ StaleActive # {}
  /\ run' = [run EXCEPT ![r].pc = "recover", ![r].jobs = StaleActive]
  /\ UNCHANGED <<db, evicted, ops, crashes>>

(* The running steps of a recovered job failed. *)
InterruptedStillRunning(j) == row[j]
Interrupted(j) == [s \in StepIx |-> IF row[j][s] = "running" THEN "failed" ELSE row[j][s]]

(* ... and then rewrites every job it read, whatever happened to it since. *)
FinishRecovery(r) ==
  /\ At(r, "recover")
  /\ LET js == run[r].jobs IN
     /\ row' = [j \in Jobs |-> IF j \in js THEN Interrupted(j) ELSE row[j]]
     /\ status' = [j \in Jobs |-> IF j \in js THEN "pending" ELSE status[j]]
     /\ owner' = [j \in Jobs |-> IF j \in js THEN Nobody ELSE owner[j]]
     /\ stale' = [j \in Jobs |-> IF j \in js THEN FALSE ELSE stale[j]]
     /\ evicted' = evicted \cup {q \in Runners : InSection(q) /\ Job(q) \in js}
  /\ run' = [run EXCEPT ![r].pc = "poll", ![r].jobs = {}]
  /\ UNCHANGED <<have, attempts, billed, ops, crashes>>

(* get_next_pending_job_id reads the pending jobs.  A worker with nothing  *)
(* to recover gets here directly.                                          *)
Poll(r) ==
  /\ r \in Workers
  /\ \/ At(r, "poll")
     \/ At(r, "idle") /\ StaleActive = {} /\ Pending # {}
  /\ run' = [run EXCEPT ![r] = [Idle EXCEPT !.pc = IF Pending = {} THEN "idle" ELSE "claim",
                                            !.jobs = Pending]]
  /\ UNCHANGED <<db, evicted, ops, crashes>>

(* It tries to lock them one by one, oldest first. *)
Claim(r) ==
  /\ At(r, "claim")
  /\ \E j \in run[r].jobs :
       /\ Oldest(j, run[r].jobs)
       /\ \/ /\ CanLock(ProcOf[r], j)
             /\ Lock(ProcOf[r], j)
             /\ Call(r, j, 0, FALSE)
          \/ /\ ~CanLock(ProcOf[r], j)
             /\ LET rest == run[r].jobs \ {j} IN
                run' = [run EXCEPT ![r].jobs = rest,
                                   ![r].pc = IF rest = {} THEN "idle" ELSE "claim"]
             /\ UNCHANGED <<owner, stale>>
  /\ UNCHANGED <<status, have, row, attempts, billed, evicted, ops, crashes>>

-----------------------------------------------------------------------------
(* process_job_pipeline. *)

Acquire(r) ==
  /\ At(r, "acquire")
  /\ \/ /\ CanLock(ProcOf[r], Job(r))
        /\ Lock(ProcOf[r], Job(r))
        /\ Goto(r, "prepare")
     \/ /\ ~CanLock(ProcOf[r], Job(r))
        /\ Goto(r, "kick")
        /\ UNCHANGED <<owner, stale>>
  /\ UNCHANGED <<status, have, row, attempts, billed, evicted, ops, crashes>>

(* Exhausted steps that stop the job before its first step. *)
Blocking(r) ==
  {s \in StepIx : /\ row[Job(r)][s] = "exhausted"
                  /\ run[r].start = 0 \/ s < run[r].start}

SlotFreeOneMore(j) == Cardinality(Active \ {j}) <= MaxConcurrentJobs
SlotFree(j) == Cardinality(Active \ {j}) < MaxConcurrentJobs

(* A failed job becomes pending, exhausted steps end the run, and without  *)
(* a slot the job goes back to the queue.                                  *)
Prepare(r) ==
  /\ At(r, "prepare")
  /\ LET j == Job(r)
         seen == IF status[j] = "failed" THEN "pending" ELSE status[j]
     IN \/ /\ Blocking(r) # {} /\ ~run[r].force
           /\ status' = [status EXCEPT ![j] = seen]
           /\ run' = [run EXCEPT ![r].pc = "abort", ![r].err = "exhausted"]
        \/ /\ Blocking(r) = {} \/ run[r].force
           /\ ~SlotFree(j)
           /\ status' = [status EXCEPT ![j] = "pending"]
           /\ Goto(r, "release")
        \/ /\ Blocking(r) = {} \/ run[r].force
           /\ SlotFree(j)
           /\ status' = [status EXCEPT ![j] = seen]
           /\ Goto(r, "check")
  /\ UNCHANGED <<owner, stale, have, row, attempts, billed, evicted, ops, crashes>>

NextStep(r) ==
  IF run[r].cur # 0 THEN run[r].cur + 1
  ELSE IF run[r].start = 0 THEN FirstStep ELSE run[r].start

(* _ensure_not_canceled at the head of the loop; current_step is assigned  *)
(* only afterwards.                                                        *)
Check(r) ==
  /\ At(r, "check")
  /\ run' = IF IsCancelRequested(Job(r))
            THEN [run EXCEPT ![r].pc = "abort", ![r].err = "canceled"]
            ELSE [run EXCEPT ![r].pc = "begin", ![r].cur = NextStep(r)]
  /\ UNCHANGED <<db, evicted, ops, crashes>>

AfterStepEarly(r) == IF run[r].cur >= LLM - 1 THEN "finish" ELSE "check"
AfterStepNeverEnds(r) == "check"
AfterStep(r) == IF run[r].cur = LLM THEN "finish" ELSE "check"

SkippableButLlm(r) == run[r].cur # LLM /\ have[Job(r)] \cap SkipOn[run[r].cur] # {}
Skippable(r) == have[Job(r)] \cap SkipOn[run[r].cur] # {}

(* mark_step_skipped *)
Skip(r) ==
  /\ At(r, "begin") /\ Skippable(r)
  /\ row' = [row EXCEPT ![Job(r)][run[r].cur] = "skipped"]
  /\ Goto(r, AfterStep(r))
  /\ UNCHANGED <<status, owner, stale, have, attempts, billed, evicted, ops, crashes>>

(* mark_step_running refuses a step that used up its attempts ... *)
AttemptsLeftOneMore(j, s) == attempts[j][s] <= MAX_STEP_ATTEMPTS
AttemptsLeft(j, s) == attempts[j][s] < MAX_STEP_ATTEMPTS

Exhaust(r) ==
  /\ At(r, "begin") /\ ~Skippable(r)
  /\ ~AttemptsLeft(Job(r), run[r].cur) /\ ~run[r].force
  /\ row' = [row EXCEPT ![Job(r)][run[r].cur] = "exhausted"]
  /\ status' = [status EXCEPT ![Job(r)] = "failed"]
  /\ run' = [run EXCEPT ![r].pc = "abort", ![r].err = "exhausted"]
  /\ UNCHANGED <<owner, stale, have, attempts, billed, evicted, ops, crashes>>

(* ... and otherwise counts one more, overwriting the status of the job.   *)
(* The LLM step goes on to its circuit breaker after two attempts.         *)
MarkRunning(j, s) ==
  /\ row' = [row EXCEPT ![j][s] = "running"]
  /\ attempts' = [attempts EXCEPT ![j][s] = @ + 1]
  /\ status' = [status EXCEPT ![j] = PIPELINE_STEPS[s]]

Start(r) ==
  LET j == Job(r)
      s == run[r].cur
  IN /\ At(r, "begin") /\ ~Skippable(r)
     /\ AttemptsLeft(j, s) \/ run[r].force
     /\ MarkRunning(j, s)
     /\ Goto(r, IF /\ s = LLM /\ ~run[r].force
                   /\ attempts[j][s] >= LLM_ENRICHMENT_MAX_FAILURES_BEFORE_SKIP
                THEN "breaker" ELSE "work")
     /\ UNCHANGED <<owner, stale, have, billed, evicted, ops, crashes>>

-----------------------------------------------------------------------------
(* The bodies of the steps. *)

Working(r, s) == At(r, "work") /\ run[r].cur = s
InputsExist(r) == Inputs[run[r].cur] \subseteq have[Job(r)]
Add(j, a) == have' = [have EXCEPT ![j] = @ \cup a]

Download(r) ==
  /\ Working(r, 1)
  /\ Add(Job(r), {"video"})
  /\ Goto(r, IF SubtitlesEnabled /\ "transcript" \notin have[Job(r)] THEN "subtitle" ELSE "complete")
  /\ UNCHANGED <<status, owner, stale, row, attempts, billed, evicted, ops, crashes>>

(* A subtitle becomes the transcript; any failure to get one is swallowed  *)
(* and leaves the job without a transcript.                                *)
Subtitle(r) ==
  /\ At(r, "subtitle")
  /\ \/ Add(Job(r), {"transcript"})
     \/ have' = [have EXCEPT ![Job(r)] = @ \ {"transcript"}]
  /\ Goto(r, "complete")
  /\ UNCHANGED <<status, owner, stale, row, attempts, billed, evicted, ops, crashes>>

ExtractAudio(r) ==
  /\ Working(r, 2) /\ InputsExist(r)
  /\ Add(Job(r), {"audio"})
  /\ Goto(r, "complete")
  /\ UNCHANGED <<status, owner, stale, row, attempts, billed, evicted, ops, crashes>>

(* record_video_processed_usage: one event per job, whoever calls it again. *)
Bill(j) == billed' = billed \cup {j}

(* record_usage_event commits the transcript path together with the event. *)
Transcribe(r) ==
  /\ Working(r, 3) /\ InputsExist(r)
  /\ Add(Job(r), {"transcript"})
  /\ Bill(Job(r))
  /\ Goto(r, "complete")
  /\ UNCHANGED <<status, owner, stale, row, attempts, evicted, ops, crashes>>

(* The first progress update of the candidate generation commits the niche. *)
DetectNiche(r) ==
  /\ Working(r, 4) /\ InputsExist(r)
  /\ Add(Job(r), {"niche"})
  /\ Goto(r, "candidates")
  /\ UNCHANGED <<status, owner, stale, row, attempts, billed, evicted, ops, crashes>>

GenerateCandidates(r) ==
  /\ At(r, "candidates") /\ InputsExist(r)
  /\ Add(Job(r), {"candidates"})
  /\ Goto(r, "complete")
  /\ UNCHANGED <<status, owner, stale, row, attempts, billed, evicted, ops, crashes>>

(* Every exception of the call, PipelineCanceledError too, is swallowed    *)
(* and leaves the job without insights.                                    *)
EnrichWithLlm(r) ==
  /\ Working(r, LLM) /\ InputsExist(r)
  /\ \/ ~IsCancelRequested(Job(r)) /\ Add(Job(r), {"insights"})
     \/ have' = [have EXCEPT ![Job(r)] = @ \ {"insights"}]
  /\ Goto(r, "complete")
  /\ UNCHANGED <<status, owner, stale, row, attempts, billed, evicted, ops, crashes>>

(* The open circuit breaker, and the page action that concludes without    *)
(* the LLM, both clear the insights and complete the step.                 *)
SkipLlm(r) ==
  /\ run[r].pc \in {"breaker", "skip_llm"}
  /\ have' = [have EXCEPT ![Job(r)] = @ \ {"insights"}]
  /\ IF At(r, "breaker")
     THEN Goto(r, "complete") /\ UNCHANGED row
     ELSE /\ run' = [run EXCEPT ![r] = Idle]
          /\ row' = [row EXCEPT ![Job(r)][LLM] = "completed"]
  /\ UNCHANGED <<status, owner, stale, attempts, billed, evicted, ops, crashes>>

(* The progress callbacks of the transcription and of the candidate        *)
(* generation call _ensure_not_canceled; transcribe_audio turns the        *)
(* exception of each callback but its first into a RuntimeError.           *)
ProgressCanceled(r) ==
  /\ Working(r, 3) \/ At(r, "candidates")
  /\ IsCancelRequested(Job(r))
  /\ \E e \in {"canceled", "wrapped"} :
       /\ e = "wrapped" => Working(r, 3)
       /\ run' = [run EXCEPT ![r].pc = "abort", ![r].err = e]
  /\ UNCHANGED <<db, evicted, ops, crashes>>

(* A download, ffmpeg, a model, the storage or the database fails; or the  *)
(* quota warnings do, after the output of the step was committed.          *)
Fail(r) ==
  /\ run[r].pc \in {"prepare", "work", "candidates", "complete", "snapshot"}
  /\ run' = [run EXCEPT ![r].pc = "abort", ![r].err = "error"]
  /\ UNCHANGED <<db, evicted, ops, crashes>>

(* mark_step_completed leaves the status of the job alone. *)
Complete(r) ==
  /\ At(r, "complete")
  /\ row' = [row EXCEPT ![Job(r)][run[r].cur] = "completed"]
  /\ Goto(r, AfterStep(r))
  /\ UNCHANGED <<status, owner, stale, have, attempts, billed, evicted, ops, crashes>>

Finish(r) ==
  /\ At(r, "finish")
  /\ status' = [status EXCEPT ![Job(r)] = "done"]
  /\ Goto(r, "snapshot")
  /\ UNCHANGED <<owner, stale, have, row, attempts, billed, evicted, ops, crashes>>

(* record_storage_snapshot_usage, which may still fail after the job is done. *)
SnapshotStorage(r) ==
  /\ At(r, "snapshot")
  /\ Goto(r, "release")
  /\ UNCHANGED <<db, evicted, ops, crashes>>

-----------------------------------------------------------------------------
(* The except and finally clauses of process_job_pipeline. *)

(* mark_step_failed *)
MarkFailed(j, s) ==
  row' = [row EXCEPT ![j][s] =
            IF attempts[j][s] >= MAX_STEP_ATTEMPTS THEN "exhausted" ELSE "failed"]

(* A cancellation is first committed as a failure of the current step, or  *)
(* of the one that just ended; CancelMark commits the rest.                *)
AbortStatusKept(r) == status[Job(r)]
AbortStatus(r) ==
  IF run[r].err = "canceled" /\ run[r].cur = 0 THEN "canceled" ELSE "failed"

Abort(r) ==
  LET j == Job(r)
      s == run[r].cur
  IN /\ At(r, "abort")
     /\ IF run[r].err = "exhausted" \/ s = 0 THEN UNCHANGED row ELSE MarkFailed(j, s)
     /\ status' = [status EXCEPT ![j] = AbortStatus(r)]
     /\ Goto(r, IF run[r].err = "canceled" /\ s # 0 THEN "cancelmark" ELSE "release")
     /\ UNCHANGED <<owner, stale, have, attempts, billed, evicted, ops, crashes>>

CancelMark(r) ==
  /\ At(r, "cancelmark")
  /\ status' = [status EXCEPT ![Job(r)] = "canceled"]
  /\ Goto(r, "release")
  /\ UNCHANGED <<owner, stale, have, row, attempts, billed, evicted, ops, crashes>>

(* _release_job_lock: the WHERE clause spares the lock of another process, *)
(* but not that of another thread of this one.                             *)
CanUnlock(p, j) == owner[j] = p

Release(r) ==
  /\ At(r, "release")
  /\ LET j == Job(r) IN
     IF CanUnlock(ProcOf[r], j)
     THEN /\ owner' = [owner EXCEPT ![j] = Nobody]
          /\ stale' = [stale EXCEPT ![j] = FALSE]
          /\ evicted' = (evicted \ {r}) \cup
               {q \in Runners \ {r} : InSection(q) /\ Job(q) = j /\ ProcOf[q] = ProcOf[r]}
     ELSE evicted' = evicted \ {r} /\ UNCHANGED <<owner, stale>>
  /\ Goto(r, "kick")
  /\ UNCHANGED <<status, have, row, attempts, billed, ops, crashes>>

(* _kick_next_pending_job counts the free slots and reads the queue, ... *)
Kick(r) ==
  /\ At(r, "kick")
  /\ LET slots == MaxConcurrentJobs - Cardinality(Active)
         todo == Pending \ {Job(r)}
     IN run' = [run EXCEPT ![r].pc = "launch",
                           ![r].frames = IF slots > 0 /\ todo # {}
                                         THEN Append(@, [todo |-> todo, left |-> slots])
                                         ELSE @]
  /\ UNCHANGED <<db, evicted, ops, crashes>>

(* ... runs the next job of the innermost call in the same thread, ...     *)
(* (a call that has no job left to launch returns and is not kept)         *)
Launch(r) ==
  /\ At(r, "launch")
  /\ LET fs == run[r].frames IN
     IF fs = <<>> THEN run' = [run EXCEPT ![r] = Idle]
     ELSE LET top == fs[Len(fs)] IN
          \E j \in top.todo :
            /\ Oldest(j, top.todo)
            /\ LET outer == SubSeq(fs, 1, Len(fs) - 1)
                   rest == [todo |-> top.todo \ {j}, left |-> top.left - 1]
               IN run' = [run EXCEPT ![r] =
                    Entry(j, 0, FALSE, IF rest.left = 0 \/ rest.todo = {} THEN outer
                                       ELSE Append(outer, rest))]
  /\ UNCHANGED <<db, evicted, ops, crashes>>

(* ... until the nested calls hit Python's recursion limit and unwind.     *)
(* (the nesting is not counted: the limit may strike at any launch)        *)
RecursionLimit(r) ==
  /\ At(r, "launch") /\ run[r].frames # <<>>
  /\ run' = [run EXCEPT ![r] = Idle]
  /\ UNCHANGED <<db, evicted, ops, crashes>>

-----------------------------------------------------------------------------
(* Request handlers.  With the worker backend enqueue_pipeline_job does    *)
(* nothing, so force and start are lost; with the local one a thread of    *)
(* the web process runs the job after the response.                        *)
Enqueue(j, start, force) ==
  IF QueueBackend = "worker" THEN UNCHANGED run
  ELSE \E r \in Web : At(r, "idle") /\ Call(r, j, start, force)

Seeded == UNION {Outputs[s] : s \in 1 .. (FirstStep - 1)}

Insert(j, files) ==
  /\ status[j] = "absent"
  /\ \A k \in Jobs : k < j => status[k] # "absent"
  /\ status' = [status EXCEPT ![j] = "pending"]
  /\ have' = [have EXCEPT ![j] = files \cup Seeded]
  /\ billed' = IF FirstStep > 3 THEN billed \cup {j} ELSE billed

(* create_youtube_job and the page forms; an uploaded video is there.      *)
CreateJob(j) ==
  /\ Insert(j, {}) \/ ("upload" \in UserOps /\ Insert(j, {"video"}))
  /\ Enqueue(j, 0, FALSE)
  /\ UNCHANGED <<owner, stale, row, attempts, evicted, ops, crashes>>

(* create_local_video_job processes the upload in the request, without the *)
(* job lock, steps or a slot.                                              *)
CreateLocalJob(j) ==
  /\ "create_local" \in UserOps
  /\ Insert(j, {"video"})
  /\ \E r \in Web : At(r, "idle") /\ run' = [run EXCEPT ![r] = [Idle EXCEPT !.pc = "local", !.job = j]]
  /\ UNCHANGED <<owner, stale, row, attempts, evicted, ops, crashes>>

ProcessLocalJob(r) ==
  LET j == Job(r) IN
  /\ \/ /\ At(r, "local") /\ Goto(r, "local_audio")
        /\ status' = [status EXCEPT ![j] = "extracting_audio"]
        /\ UNCHANGED have
     \/ /\ At(r, "local_audio") /\ Goto(r, "local_transcript")
        /\ status' = [status EXCEPT ![j] = "transcribing"]
        /\ Add(j, {"audio"})
     \/ /\ At(r, "local_transcript") /\ run' = [run EXCEPT ![r] = Idle]
        /\ status' = [status EXCEPT ![j] = "done"]
        /\ Add(j, {"transcript"})
     \/ /\ run[r].pc \in {"local_audio", "local_transcript"}
        /\ run' = [run EXCEPT ![r] = Idle]
        /\ status' = [status EXCEPT ![j] = "failed"]
        /\ UNCHANGED have
  /\ UNCHANGED <<owner, stale, row, attempts, billed, evicted, ops, crashes>>

UserOp(name) == name \in UserOps /\ ops < MaxOps /\ ops' = ops + 1

(* retry_job, and the page handler, which checks nothing. *)
RetryJob(j, force) ==
  /\ \/ /\ UserOp("retry")
        /\ status[j] \in {"failed", "pending"}
        /\ force \/ \A s \in StepIx : row[j][s] # "exhausted"
     \/ UserOp("page_retry") /\ status[j] # "absent"
  /\ status' = [status EXCEPT ![j] = "pending"]
  /\ Enqueue(j, 0, force)
  /\ UNCHANGED <<owner, stale, have, row, attempts, billed, evicted, crashes>>

(* reset_pipeline_state_from_step *)
ResetFrom(j, s, resetAttempts) ==
  /\ row' = [row EXCEPT ![j] = [t \in StepIx |-> IF t >= s THEN "pending" ELSE @[t]]]
  /\ attempts' = IF resetAttempts
                 THEN [attempts EXCEPT ![j] = [t \in StepIx |-> IF t >= s THEN 0 ELSE @[t]]]
                 ELSE attempts
  /\ have' = [have EXCEPT ![j] = @ \ UNION {Outputs[t] : t \in s .. LLM}]
  /\ status' = [status EXCEPT ![j] = "pending"]

(* retry_job_step, and the page handler, which checks nothing. *)
RetryStep(j, s, force) ==
  /\ \/ /\ UserOp("retry_step")
        /\ status[j] \in {"failed", "pending"}
        /\ row[j][s] = "exhausted" => force
     \/ UserOp("page_retry_step") /\ status[j] # "absent"
  /\ ResetFrom(j, s, FALSE)
  /\ Enqueue(j, s, force)
  /\ UNCHANGED <<owner, stale, billed, evicted, crashes>>

(* reset_job_step and its page handler *)
ResetStep(j, s) ==
  /\ UserOp("reset_step") /\ status[j] # "absent"
  /\ ResetFrom(j, s, TRUE)
  /\ UNCHANGED <<owner, stale, billed, run, evicted, crashes>>

(* request_job_cancellation; its request thread then runs the next job. *)
CancelJob(j) ==
  /\ UserOp("cancel") /\ status[j] # "absent"
  /\ status' = [status EXCEPT ![j] = IF \E s \in StepIx : row[j][s] = "running"
                                     THEN "cancel_requested" ELSE "canceled"]
  /\ \E r \in Web : /\ At(r, "idle")
                    /\ run' = [run EXCEPT ![r] = [Idle EXCEPT !.pc = "kick", !.job = j]]
  /\ UNCHANGED <<owner, stale, have, row, attempts, billed, evicted, crashes>>

(* analyze_without_llm_from_page: complete_analysis_without_llm(force=True) *)
(* in the request thread, without the job lock.                            *)
AnalyzeWithoutLlm(j) ==
  /\ UserOp("analyze_without_llm") /\ status[j] # "absent"
  /\ {"video", "transcript"} \subseteq have[j]
  /\ MarkRunning(j, LLM)
  /\ \E r \in Web : /\ At(r, "idle")
                    /\ run' = [run EXCEPT ![r] = [Idle EXCEPT !.pc = "skip_llm", !.job = j]]
  /\ UNCHANGED <<owner, stale, have, billed, evicted, crashes>>

(* delete_job_from_page: the row stays, its files go. *)
DeleteJob(j) ==
  /\ UserOp("delete") /\ status[j] # "absent"
  /\ status' = [status EXCEPT ![j] = "deleted"]
  /\ have' = [have EXCEPT ![j] = @ \ {"video", "audio", "transcript"}]
  /\ UNCHANGED <<owner, stale, row, attempts, billed, run, evicted, crashes>>

-----------------------------------------------------------------------------
(* Time and crashes. *)

Holds(r, j) ==
  Job(r) = j /\ owner[j] = ProcOf[r] /\ (InSection(r) \/ At(r, "acquire"))

(* locked_at is never renewed, so a lock grows stale under a live owner    *)
(* unless the configuration says that no run takes that long.              *)
LeaseExpires(j) ==
  /\ owner[j] # Nobody /\ ~stale[j]
  /\ LeaseOutlivesWork => \A r \in Runners : ~Holds(r, j)
  /\ stale' = [stale EXCEPT ![j] = TRUE]
  /\ evicted' = evicted \cup {r \in Runners : Holds(r, j) /\ InSection(r)}
  /\ UNCHANGED <<status, owner, have, row, attempts, billed, run, ops, crashes>>

(* A process dies with its threads; it comes back with a fresh worker id.  *)
Crash(p) ==
  LET dead == {r \in Runners : ProcOf[r] = p} IN
  /\ crashes < MaxCrashes /\ crashes' = crashes + 1
  /\ \E r \in dead : ~At(r, "idle")
  /\ run' = [r \in Runners |-> IF r \in dead THEN Idle ELSE run[r]]
  /\ owner' = [j \in Jobs |-> IF owner[j] = p THEN Gone ELSE owner[j]]
  /\ evicted' = evicted \ dead
  /\ UNCHANGED <<status, stale, have, row, attempts, billed, ops>>

-----------------------------------------------------------------------------
RunnerStep(r) ==
  \/ StartRecovery(r) \/ FinishRecovery(r) \/ Poll(r) \/ Claim(r)
  \/ Acquire(r) \/ Prepare(r) \/ Check(r) \/ Skip(r) \/ Exhaust(r) \/ Start(r)
  \/ Download(r) \/ Subtitle(r) \/ ExtractAudio(r) \/ Transcribe(r)
  \/ DetectNiche(r) \/ GenerateCandidates(r) \/ EnrichWithLlm(r) \/ SkipLlm(r)
  \/ ProgressCanceled(r) \/ Fail(r) \/ Complete(r) \/ Finish(r) \/ SnapshotStorage(r)
  \/ Abort(r) \/ CancelMark(r) \/ Release(r) \/ Kick(r) \/ Launch(r) \/ RecursionLimit(r)
  \/ ProcessLocalJob(r)

User(j) ==
  \/ CreateJob(j) \/ CreateLocalJob(j) \/ CancelJob(j) \/ AnalyzeWithoutLlm(j) \/ DeleteJob(j)
  \/ \E force \in BOOLEAN : RetryJob(j, force)
  \/ \E s \in FirstStep .. LLM, force \in BOOLEAN : RetryStep(j, s, force)
  \/ \E s \in FirstStep .. LLM : ResetStep(j, s)

Next ==
  \/ \E r \in Runners : RunnerStep(r)
  \/ \E j \in Jobs : User(j) \/ LeaseExpires(j)
  \/ \E p \in Procs : Crash(p)

Spec == Init /\ [][Next]_vars

(* Threads keep running and time keeps passing; users, failures and        *)
(* crashes are under no obligation.                                        *)
Fairness ==
  /\ \A r \in Runners : WF_vars(RunnerStep(r))
  /\ \A j \in Jobs : WF_vars(LeaseExpires(j))

FairSpec == Spec /\ Fairness
-----------------------------------------------------------------------------
Runner == [pc : PCs, job : Jobs \cup {0}, cur : 0 .. 5, start : 0 .. 5, force : BOOLEAN,
           err : {"none", "error", "wrapped", "canceled", "exhausted"}, jobs : SUBSET Jobs,
           frames : Seq([todo : SUBSET Jobs, left : Nat \ {0}])]

(* A runner that was given a job knows which, and the loop over the steps   *)
(* stays within them.                                                       *)
Locals == {l \in Runner : /\ l.pc \in JobPCs => l.job \in Jobs
                          /\ l.pc = "begin" => l.cur # 0
                          /\ l.pc \in {"acquire", "prepare", "check"} => l.cur # LLM}

DbOK ==
  /\ status \in [Jobs -> Statuses]
  /\ owner \in [Jobs -> Procs \cup {Nobody, Gone}]
  /\ stale \in [Jobs -> BOOLEAN]
  /\ have \in [Jobs -> SUBSET Artifacts]
  /\ row \in [Jobs -> [StepIx -> RowStatuses]]
  /\ attempts \in [Jobs -> [StepIx -> Nat]]
  /\ billed \subseteq Jobs

(* Type invariant: the database, the locals of the runners, the counters.   *)
TypeOK ==
  /\ DbOK
  /\ run \in [Runners -> Locals]
  /\ evicted \subseteq Runners
  /\ ops \in Nat /\ crashes \in Nat

(* A runner between _try_acquire_job_lock and _release_job_lock has the     *)
(* fresh lock of its job, unless the lock expired under it, a recovery      *)
(* cleared it, or another thread of its process released it.                *)
LeaseHeld ==
  \A r \in Runners : InSection(r) /\ r \notin evicted =>
    owner[Job(r)] = ProcOf[r] /\ ~stale[Job(r)]

(* Two runners process the same job only after one lost its lock that way,  *)
(* or as threads of one process, which share its lock.                      *)
ExclusiveSection ==
  \A q, r \in Runners \ evicted :
    InSection(q) /\ InSection(r) /\ Job(q) = Job(r) => ProcOf[q] = ProcOf[r]

(* What the lock is there for: no two runners process one job at a time.    *)
OneRunnerPerJob ==
  \A q, r \in Runners : q # r /\ InSection(q) /\ InSection(r) => Job(q) # Job(r)

Attended(j) == owner[j] = Gone \/ \E r \in Runners : Holds(r, j)

(* A step says "running" only while some runner holds the job, or the lock  *)
(* of a dead process is there for recover_stale_pipeline_jobs to find.      *)
RunningStepIsAttended ==
  \A j \in Jobs, s \in StepIx : row[j][s] = "running" => Attended(j)

(* The same for a job in an active status: an unattended one would use up   *)
(* a slot of _count_active_pipeline_jobs for ever.                          *)
ActiveJobIsAttended == \A j \in Active : Attended(j)

(* process_job_pipeline calls a job done only when each of its steps is     *)
(* completed or skipped and the transcript and the niche are there.         *)
DoneMeansComplete ==
  \A j \in Jobs : status[j] = "done" =>
    /\ \A s \in FirstStep .. LLM : row[j][s] \in {"completed", "skipped"}
    /\ {"transcript", "niche"} \subseteq have[j]

(* A done job has the candidates that its analyzing step generates.         *)
DoneHasCandidates == \A j \in Jobs : status[j] = "done" => "candidates" \in have[j]

(* A done job was counted by record_video_processed_usage.                  *)
DoneIsMetered == \A j \in Jobs : status[j] = "done" => j \in billed

(* _try_acquire_pipeline_slot keeps the active jobs within the limit.       *)
SlotLimit == Cardinality(Active) <= MaxConcurrentJobs

(* Workers, who are never given force, attempt no step more often than      *)
(* MAX_STEP_ATTEMPTS, crashes and recoveries included.                      *)
AttemptLimit == \A j \in Jobs, s \in StepIx : attempts[j][s] <= MAX_STEP_ATTEMPTS

(* An LLM step that was tried before is skipped by the circuit breaker,     *)
(* not refused by mark_step_running.                                        *)
BreakerSkips ==
  [][\A r \in Runners :
       At(r, "begin") /\ run[r].cur = LLM => run'[r].err # "exhausted"]_vars

(* Re-running a job skips what exists: no failure, crash, recovery or retry *)
(* loses an output that was committed.                                      *)
OutputsSurvive == [][\A j \in Jobs : have[j] \subseteq have'[j]]_vars

(* A pending cancellation request is not overwritten: the job does not go   *)
(* back to work or to the queue.                                            *)
CancelRequestSticks ==
  [][\A j \in Jobs : status[j] = "cancel_requested" =>
       status'[j] \notin ACTIVE_PIPELINE_JOB_STATUSES \cup {"pending"}]_vars

(* A run that a cancellation request ended, and nothing else did, leaves    *)
(* the job canceled when it goes on to release the lock.                    *)
CancelIsNotAFailure ==
  \A r \in Runners :
    At(r, "release") /\ run[r].err \in {"canceled", "wrapped"} => status[Job(r)] = "canceled"

(* The same for a job canceled at once, because it had no running step (no  *)
(* user retries it in the run that checks this).                            *)
CanceledSticks ==
  [][\A j \in Jobs : status[j] = "canceled" =>
       status'[j] \notin ACTIVE_PIPELINE_JOB_STATUSES \cup {"pending", "done"}]_vars

Settled(j) == status[j] \in {"done", "failed", "canceled"}

(* A queued job is processed to an end: no crash, recovery or race for the  *)
(* lock leaves it waiting for ever.                                         *)
Settles == \A j \in Jobs : status[j] = "pending" ~> Settled(j)

(* A cancellation that was requested is answered.                           *)
CancelSettles == \A j \in Jobs : status[j] = "cancel_requested" ~> Settled(j)

(* Every active status is left: analyze_without_llm does not park the job   *)
(* in the status of the step it concluded.                                  *)
ActiveSettles == \A j \in Jobs : status[j] \in ACTIVE_PIPELINE_JOB_STATUSES ~> Settled(j)

(* A retry of a job with an exhausted step, which retry_job accepts only    *)
(* with force, runs that step again.                                        *)
ForcedRetryRuns ==
  \A j \in Jobs, s \in StepIx :
    status[j] = "pending" /\ row[j][s] = "exhausted" ~> row[j][s] # "exhausted"
=============================================================================
