# Formal verification of Cut SaaS

Cut SaaS turns long videos into short clips. A user submits a video; a durable
pipeline downloads it, extracts the audio, transcribes it, looks for candidate
clips and enriches them with an LLM; the user then renders and exports clips,
within the quota of the plan of the workspace. This directory holds TLA+ models of
the program under `src/`, the TLC configurations that check them on small
instances, and proofs for every instance.

    tlasany Pipeline.tla                               parse
    tlc -workers 2 -config Cancel.cfg MCPipeline.tla   check one instance
    tlapm PipelineProofs.tla                           check the proofs

`PROJECT.json` maps every definition that models code to the lines it stands for,
and lists the runs, the mutants that show that each property can fail, the
hazards and the theorems.

## 1. Inventory

| Component (source) | State it keeps | Operations | Interacts by | What is hard | Module |
|---|---|---|---|---|---|
| Job pipeline (`services/pipeline.py`, `services/queue.py`) | `jobs.status`, `locked_by`, `locked_at`, output columns and files; `job_steps.status`, `attempts` | acquire, run, retry, reset, cancel, recover, kick | the database, shared by worker processes and web threads | interleaving, crashes, stale reads, attempts, cancellation | `Pipeline` |
| Worker (`worker.py`) | its list of pending jobs | recover, clean up, poll, claim, run | calls the pipeline and the retention | acts on old lists | `Pipeline`, `Artifacts` |
| Job routes (`api/jobs/core.py`, `web/pages/actions.py`) | none | create, retry, cancel, delete, analyze without LLM | background tasks, or the request thread itself | race with workers | `Pipeline`, `Admission` |
| Usage, quota, trial (`usage.py`, `quota.py`, `access.py`) | usage events | record once, count a period, warn, admit a job | pipeline, routes, billing | check then act; unique keys under races; death between mail and record | `Admission`, `Charges` |
| Plans and billing (`plans.py`, `billing*.py`) | subscriptions | checkout, activate, cancel, webhook, expire | provider calls and webhooks | duplicated and reordered webhooks, repeated activation, expiry | `Billing` |
| Candidates (`candidates.py`, `segmentation.py`, the ranking of `scoring.py`, the merge of `llm_analysis.py`) | candidate rows | split, enumerate, rank, judge, keep, relax | analyzing step | overlapping chunks, limits shared by passes, partial answers | `Selection` |
| Captions (`subtitle_parser.py`, `subtitles.py`) | files | merge cues, split and balance lines, write times | download step, rendering | words lost or moved, rounding and carries | `Captions` |
| Clips (`render_workflow.py`, `clipping.py`, `clip_records.py`, `api/jobs/candidates.py`) | clip rows, candidate statuses, files | review, render one, several, ranked, manual; generate again | storage, retention, feedback | names that are shared, rows that disappear during a render | `Rendering` |
| Exports, publication, retention, storage (`exports.py`, `publication.py`, `retention.py`, `storage.py`) | files, bucket objects, publication status | export, publish, clean up, delete, materialize | the worker between jobs, requests | removal of what others still use; disk and bucket disagree | `Artifacts` |
| Niches (`niche_registry.py`, `niche_learning.py`, `niche_classifier.py`) | niches, keywords | seed, propose, approve, reject, archive, detect, learn | LLM, reviews, analyzing step | lookup long before the write; scopes of workspaces | `Niches` |
| Transcription (`transcription.py`) | two caches, the transcript file | transcribe, in a thread with a heartbeat or inline | progress callbacks into the pipeline | a thread that outlives its call, locks, lost messages, hung models | `Transcription` |
| Accounts (`accounts.py`, `auth.py`, `routes_auth.py`, `deps.py`) | users, workspaces, members, session cookies | register, log in, find the workspace | routes, limiter | unique slugs and e-mails under races, partial registration | `Accounts` |
| Rate limiter (`rate_limit.py`) | times of each bucket | check | forms | time read before the lock | `RateLimiter` |
| Dashboards, diagnostics, file and security filters, timecodes, shell | none | views, filters, start-up | routes | nothing concurrent | none |

What makes the core correct, in the order of importance used below:

1. no two runners process one job at a time, except where the lock design gives that up;
2. what a crash leaves behind is found again: no step and no active status without a runner or a lock that recovery will see;
3. *done* means that every step ended and its outputs exist;
4. no output that was committed is lost by re-running;
5. attempts and slots stay within their limits;
6. a cancellation ends the job, as canceled, and stays; it reaches a job whose model hangs;
7. every queued job comes to an end; every transcribed video is charged, once;
8. a workspace has the plan it bought, its own niches, and an account of its own;
9. a clip shows what its row says, and retention takes what is due and nothing that is protected;
10. candidates are ordered, distinct and not lost; captions keep their words, their lines and their times.

`PROJECT.json` lists under "hazards" each place where one of these can go wrong in a way
a test hardly reaches.

## 2. The modules

| Module | Content |
|---|---|
| `Pipeline`, `MCPipeline`, `PipelineProofs` | the job pipeline, worker, queue and job routes |
| `Billing`, `MCBilling`, `BillingProofs` | the subscriptions of one workspace, the requests that change them, the provider and its webhooks |
| `Admission`, `MCAdmission`, `AdmissionProofs` | quota, trial, metering and warnings of one workspace |
| `Charges` | abstract: a ledger of charged jobs and of the transcripts that are kept; `Admission` implements it |
| `RateLimiter` | the sliding window of `rate_limit.py`; also the abstract specification of what the forms do with it |
| `Accounts`, `MCAccounts`, `AccountsProofs` | registration, login and sessions; extends `RateLimiter` and composes its actions with the handlers; the proofs are about both |
| `Rendering`, `MCRendering`, `RenderingProofs` | candidates, reviews and renders of one job |
| `Artifacts`, `MCArtifacts` | files, publication, exports, retention and deletion of one job, disk and bucket |
| `Niches`, `MCNiches`, `NichesProofs` | the registry of niches shared by the workspaces, detection and learning |
| `Selection`, `Captions`, `MCSelection`, `SelectionProofs` | from a transcript to candidates, and from cues to captions; `MCSelection` runs both on all their inputs; the proofs are about both, and about `Artifacts` |
| `Transcription`, `MCTranscription`, `TranscriptionProofs` | calls, threads, caches and the transcript file |

The components meet in the database, and the modules are cut where little is shared:
`Admission` keeps of `Billing` whether the current subscription is active and until when, and
of `Pipeline` that a job is transcribed, perhaps repeatedly, by workers that may die.
`Pipeline` keeps of `Transcription` the outcomes of a call. `Artifacts` keeps of `Rendering`
the file and the row of a clip, and `Rendering` keeps of `Artifacts` that any file may vanish.
`Accounts` contains `RateLimiter`: each of its steps is a step of the limiter or leaves it alone.

The next sections describe `Pipeline`, the following ones the other modules.

### State

A *runner* is a thread that can be inside `process_job_pipeline`: the only thread
of a worker process, or a thread of the web process (a request handler or a
background task). `ProcOf` gives its process, whose `PIPELINE_WORKER_ID` is what
the code writes in `locked_by`: all threads of one process share it.

| Variable | Code |
|---|---|
| `status[j]` | `Job.status`; `absent` before the row is inserted |
| `owner[j]` | `Job.locked_by`: a process, `Nobody` (NULL), or `Gone` (a process that died) |
| `stale[j]` | `locked_at` is older than `pipeline_lock_stale_seconds` |
| `have[j]` | outputs that exist: video, audio and transcript files, `detected_niche`, candidates, `transcript_insights` |
| `row[j][s]`, `attempts[j][s]` | the `JobStep` row of each of the five steps |
| `billed` | jobs with a `video_processed` usage event |
| `run[r]` | where the thread is, and its locals: job, current step, `start_step`, `force`, the pending exception, the list it read, the frames of nested kicks |
| `evicted` | history only: runners whose lock expired or was removed while they worked |
| `ops`, `crashes` | bounds, no code |

### Actions

Each action is one transaction, or the code between two of them. The places where
the code reads in one transaction and writes in a later one are therefore exactly
the places where another runner may step in.

| Code | Actions |
|---|---|
| `run_worker_once` | `StartRecovery`, `FinishRecovery` (read, then write, in `recover_stale_pipeline_jobs`), `Poll`, `Claim` |
| `process_job_pipeline` up to the first step | `Acquire`, `Prepare` |
| loop over the steps | `Check` (`_ensure_not_canceled`), `Skip`, `Exhaust`, `Start` (`mark_step_running`), the body, `Complete` |
| bodies | `Download`, `Subtitle`, `ExtractAudio`, `Transcribe`, `DetectNiche`, `GenerateCandidates`, `EnrichWithLlm`, `SkipLlm`, `ProgressCanceled`, `Fail` |
| after the loop | `Finish`, `SnapshotStorage` |
| `except` and `finally` | `Abort`, `CancelMark`, `Release`, `Kick`, `Launch`, `RecursionLimit` |
| request handlers | `CreateJob`, `CreateLocalJob`, `ProcessLocalJob`, `RetryJob`, `RetryStep`, `ResetStep`, `CancelJob`, `AnalyzeWithoutLlm`, `DeleteJob` |
| the environment | `LeaseExpires` (time), `Crash` (a process dies with its threads and restarts under a new id) |

### What is abstracted

- A path, a transcript, a list of candidates is only present or not. A file that is gone counts as an absent path, as every step but `complete_analysis_without_llm` tests the file; candidates that are only partly inserted count as absent.
- A list read from the database is a set, consumed oldest first: ids grow with `created_at`. The limit of ten jobs of `get_next_pending_job_id` is left out, as instances have fewer.
- `FirstStep > 1` starts jobs with the outputs (and the metering) of the earlier steps, so that a small instance can concentrate on the later ones. `WorkerRestart` runs all five steps.
- `Prepare` joins the refresh of the job, the test for exhausted steps and the count of slots: the reads of one runner before its first write. Its `Fail` covers the database failing there.
- The status is written unconditionally; the ORM omits the column from an UPDATE if the value it loaded equals the new one.
- `EnrichWithLlm` joins the last look at the status, the call of the LLM and the commit of its result (pipeline.py 1077-1090): a cancellation requested in between leaves what one requested right after the commit leaves. A `Poll` with nothing to recover joins the query of the recovery and that of the pending jobs. A failure of the database at `Check`, `Start` or `Finish` is left out; it reaches the same handler as `Fail` does.
- Read and commit of one request handler, and of one `except` branch, are one step. `page_retry` and `page_retry_step` have no guard, so they cover what a handler with an older read could do.
- `DeleteJob` removes the files and commits the status in one step; `Artifacts` takes it apart.
- The depth of nested `_kick_next_pending_job` calls is not counted; Python's recursion limit may strike at any launch.
- The number of web threads bounds how many requests run at once.
- Left out of this module: `cleanup_expired_artifacts` in the worker loop (`Artifacts`), the daemon thread of the transcription (`Transcription`), jobs without a workspace (never metered), progress percentages and messages, quota and trial checks when a job is created (`Admission`).

### Billing

| Variable | Code |
|---|---|
| `sub[c]` | the `subscriptions` row of checkout `c`: status, plan, `provider_subscription_id`, `current_period_end` (0 is NULL) |
| `current` | what `get_current_subscription` returns: the row updated last |
| `req[q]` | a request between the call of the provider and its commit: the row, the plan |
| `now`, `provider` | the day, `settings.billing_provider` |
| `remote[c]`, `mail[c]` | external: the provider's subscription and its webhooks that are not acknowledged |
| `bought`, `loaded` | history only: the plans that were ever paid for, or confirmed with a card; the rows that are as `activate_checkout_session` left them, with Stripe |

`create_checkout_session` is `OpenCheckout` (the provider) and `SaveCheckout` (the commit),
`cancel_current_subscription` is `StartCancel` and `SaveCancel`; between the two the
request may `Die`. `activate_checkout_session` is `ActivateCheckout`, `apply_billing_webhook`
is `Deliver`, and the expiry inside `get_workspace_plan` is `AskForPlan`. Each of these is
one transaction. `Deliver` includes the search for the row (checkout, then subscription,
then the latest row of the workspace) and may lose the acknowledgement, upon which the webhook comes again.
`Pay`, `Renew`, `PaymentFails`, `GiveUp` and `Tomorrow` are the provider and the clock.

Abstracted: days instead of instants, except that a column set to the time of
day always counts as changed; a customer id, which belongs to one checkout like its
subscription and so finds the same rows; ties of `updated_at`; a trial granted
by Stripe, which is a first period like another. The mock provider has no subscriptions;
`remote` then holds what the user asked for. `activate_checkout_session` tests neither the provider nor what
became of the checkout, and two routes call it with whatever checkout id they are given, so `ActivateCheckout` may happen to
every row at any time, repeatedly. With Stripe the row then has a made-up `provider_subscription_id` (`MockSub`) if it had none; such a
subscription cannot be canceled, because Stripe does not know it. `loaded` records these rows: those
that are as this call last wrote them, until anything else writes them. Stripe's webhooks are modelled as far as the adapter
reads them. Left out: the Mercado Pago adapter, e-mails, prices, signatures.

### Admission and Charges

| Variable | Code |
|---|---|
| `jobs` | the jobs of one workspace in the order of their ids: minutes, `transcript_path`; history: the ground on which it was admitted (a plan, the trial, no check), and by which thread |
| `thread[t]` | a request that creates a job, between its queries: `ensure_workspace_can_start_job`, `ensure_workspace_can_create_job`, the insert |
| `worker[w]` | where a worker is in `_run_transcription_step`, after `transcribe_audio`, and the warning it is about to send |
| `events`, `warned` | `usage_events` of a video, and of a warning; `idempotency_key` is the job, or the period and the mark |
| `sub`, `day` | what is read of the subscription, and the calendar |
| `mails`, `deaths` | history and bound |

Each query and each commit is an action: `CheckQuota`, `CheckAccess`, `InsertJob`; `LookupEvent`, `RecordEvent`,
`ReadStatus`, `SendMail`, `LookupWarning`, `RecordWarning`, `CommitTranscript`. A request comes by a route that checks quota and trial, or by the
form `/web/jobs/create` of `api/jobs/core.py`, which checks the quota alone (`unchecked`): from `CheckQuota` it goes straight to `InsertJob`. What the code commits by
the way is part of them: the event and the transcript path go in one transaction, and the cancellation of an
expired subscription commits the transcript. An insert that meets the unique key ends the attempt. A worker may
transcribe the job of another whose lease ran out, and a worker may die anywhere.

`Charges` says what this is for, with two sets: jobs charged and transcripts kept. A transcript is kept only of a
charged job, no job is charged twice, and no charge is taken back. `ChargedOnce` is its specification under
`charged <- {e.job : e \in events}`, `kept <- {j : jobs[j].transcript}`.

### RateLimiter and Accounts

`bucket[k]` holds requests where the code holds their times (`stamp`); `CheckBucket` is what happens under the
lock, and `ReadClock` what happens before it. A request waits at most `MaxSkew` for the lock. `Accounts` extends this
module. Its state adds the form and the place of each request, rows that are flushed and rows that are
committed, and the cookie. `Enforce` is the step that contains `CheckBucket`. `LookupEmail`, `LookupSlug` (one turn
of the loop), `FlushUser`, `FlushWorkspace`, `Commit` and `Respond` are the statements of a registration; a flush of a value
that is committed fails, and one that is uncommitted elsewhere waits, as unique indexes do. `Restart` rolls back and
empties the buckets. Hashing and signing are left out: a password is right or wrong, a cookie is what was signed.

### Rendering

`candidates` are the rows of one job and mode, `clips` the clip rows, `disk[i]` what the file named by index `i`
holds: the cut a clip was made of, nothing, or a part. `thread[t]` is a request with the shots still to do.
`StartRender`, `Encode`, `CommitClip` and `FinishRender` are one shot; the candidate's status is committed with the *next*
commit, as in the code, and a commit expires rows, so a candidate deleted by `ClearCandidates` meanwhile is an error
at the next read or flush. `SaveCandidate` gives a new id, or with `ReusesIds` the largest plus one. Retention and
deletion are `LoseFile`. `MaxPlain` bounds the requests that render no candidate at a time. Abstracted: mode, preset and subtitles in the names (one value of each), editorial texts. A failing upload after the clip was cut leaves a whole file, of which `Encode` makes a part;
no row says that such a file is there, either way.

### Artifacts

`disk` and `bucket` are the two places of a file, `clips` the rows with their publication status, `sweep` the progress of
`cleanup_expired_workspace_artifacts` and of `delete_job_from_page`: what each has listed and not yet removed. `Proceed`
lists the next group, `Unlink` removes one file from both places, and either removal may fail and is ignored, as in the
code. Renders and exports are the same steps as in `Rendering`, reduced to files and rows. `Age` makes the job expire, or
not any more; whether it has expired is read with each group, although the code reads the jobs once, at the start (retention.py 81-87): a change in
between is one that came a little later. `LoseDisk` is a host that is replaced while the bucket remains.

### Niches

`rows[s]` are the niches by slug, shared by the workspaces; `Synced` is `sync_builtin_niches`, with which every lookup
begins. `Propose` looks up, the request then waits for the LLM, and `Save` writes what it looked up. `Decide` stands for
approve, reject and archive. `Deploy` starts a version with another profile, which can have the slug of a workspace's
niche. Learning counts one word: `said[j]` is how many high-scoring candidates of a job contain it, `Learn` counts and looks
up, `SaveKeyword` writes. `writers` is history: whose requests wrote a row.

### Selection and Captions

`Selection` translates `split_segments_into_time_chunks`, `build_candidate_windows`, `deduplicate_candidates`,
`_apply_diversity_reranking`, `analyze_candidates_with_llm` and `regenerate_candidates_for_job_with_progress` as operators
on windows (pairs of segment indexes), and runs them as a state machine because scores, the answers of the LLM and commits
are choices. Scores alone are any of a set; the penalty for similarity is the code's, in thousandths. `Captions`
translates `_merge_overlapping_segments`, `_normalize_segments_for_clip`, `_chunk_words_balanced`, `_rebalance_last_chunks`,
`_split_segment_text`, `_format_ass_timestamp` and `_build_karaoke_text`; a word is its length and whether it ends a
phrase. Loops of the source are recursive functions, since both modules are proved about; a chunk is named by its
last segment. A later chunk is measured from the start of its first segment; if that is 0.0, `segmentation.py:111` takes it for missing and measures from the
segment that did not fit any more, which moves the end of this chunk and concerns no property. At most one window per start survives the deduplication of a chunk, which the merge of the LLM's answers by `start` relies on. Abstracted: words, hooks and other features of the score;
the regular expressions of the parsers; cues are sorted by their starts; ties of rounding; the ASS styles.

### Transcription

`caller[c]` is a call of `transcribe_audio` or `parse_subtitle_to_transcript`, `thread[c]` its daemon thread (or, without a
callback, the call itself). The loop of the caller is `TestAlive`, `Pop`, `Drained`, `NoBeat` or `Beat`, and `Return`; the thread is `Detect`
to `Sync`. The callback raises when the job is to be canceled; the thread goes on, holding what locks it holds. A call that never gets
to write (no audio, unreadable subtitles, a callback that raises at once) is `Reject`. `file[j]` is torn from
`open(..., "w")` to the end of `dump`.

Nothing keeps two calls of one job apart. The pipeline's lock belongs to a process (`_try_acquire_job_lock` gives it again to its owner),
so two background tasks of one web process transcribe a job together, and `create_local_video_job` transcribes without the lock. Hence
`Begin` has no guard, and two that write at once may leave anything in the file. `writers[j]` records who wrote it last: one call, or those
that overlapped.

## 3. Runs

| Run | Instance | Shows |
|---|---|---|
| `WorkerRestart` | 1 worker, jobs 1 and 2 with all five steps and subtitles, a retry, one crash anywhere | `RunningStepIsAttended`, `ActiveJobIsAttended`, `DoneMeansComplete`, `SlotLimit`, `OutputsSurvive` |
| `TwoWorkersRestart` | 2 workers, 1 job in its last step, two retries, one crash, fair | `AttemptLimit`; `ExclusiveSection`: exclusion fails only after an eviction; `Settles`: the survivor finishes the job of the dead |
| `Cancel` | a worker, a web thread, 2 jobs in the last two steps, two cancellations at any moment, fair | `CancelRequestSticks`; `CancelSettles`: a requested cancellation is answered |
| `LocalBackend` | 2 web threads, local backend, every user operation, locks may expire at work, one crash | `TypeOK`, `LeaseHeld` |
| `Billing` | 1 workspace, 2 checkouts of Free or Pro, 1 request at a time, Stripe (its webhooks in order) or mock, completion addresses loaded at any time, 3 days, periods of 2 days, trials of 1, fair | `TypeOK`, `PlanWasBought`, `OneRowPerSubscription`; `EndsWithSubscription`: access ends after all has ended at the provider, wherever a cancellation was interrupted, but for rows in `loaded` |
| `Admission` | 2 requests on either kind of route, 2 workers, 2 jobs of 4 minutes, trials of 2 (a length may be unknown), limits 5 and 10, a month of 2 days, a death | `MeteredOnce`, `WarningsBounded`; `TrialBounded`: only requests that overlap share the trial; `ChargedOnce`: the refinement of `Charges` |
| `Registration` | 3 requests, 2 e-mails, names whose slugs collide through the suffix, 4 instants, windows of 2, a skew of 1, restarts | `AccountsDistinct`, `SessionHasWorkspace`, `SlidingWindow`, `RejectedForCause` |
| `Rendering` | 2 requests (one manual at a time), 2 candidate ids, 2 cuts, 2 clips, ids not reused | `RenderedHasClip`, `FileShowsClip` |
| `Artifacts` | 1 request beside retention, deletion and restarts, 2 clips on 2 names or one, an export, a bucket, one fault, fair | `ProtectedKept`; `Reclaimed`: what is due is removed time and again |
| `Niches` | 2 workspaces, 2 requests, the fallback and one name that becomes a profile, 3 jobs, 2 proposals or learnings | `OnlyOwnerWrites`, `KeywordsEarned` |
| `Selection` | every transcript of 0 or 6 segments of 1 or 2 seconds in chunks of 6 with an overlap of 4, both limits of workspaces, 2 answers of the LLM; every text of up to 4 words in one cue, 2 and 3 cues at times around carries and the overlap threshold, in every clip of them | `BestFirst`, `Distinct`, `FewOnlyIfAlike`; `WordsKept`, `LinesFit`, `CaptionsOnTime` |
| `Transcription` | 2 calls of one job, at once or one after the other, each inline or of subtitles and the first perhaps watched, cancellations, errors everywhere, one restart, fair | `TranscriptWhole`, `ModelLoadedOnce`, `AllReported`; `CancelReaches`: a hung model does not keep a job from being canceled |

Why these bounds. The lock protocol involves a holder, a contender and the
recovery: two workers, of which one also recovers, give all three, and a crash
frees a third identity (`Gone`). One crash puts an arbitrary half-finished
state before an arbitrary continuation; with the two retries of `TwoWorkersRestart` the limit of three
attempts is reached by failures, by crashes and by both. Two jobs are needed for
the slot limit, the queue order and the kick of one job out of another, and a
third adds only more of the same. All limits (`MAX_STEP_ATTEMPTS`, the two LLM
attempts of the circuit breaker) have their real values. `MaxOps` and `MaxCrashes`
are the only bounds on the behaviour of `Pipeline`; everything else is finite by itself.

In `Billing` two checkouts are needed to confuse rows; three days let a trial of the mock
provider expire, and a paid period end in a renewal or in a failed payment. Time stops after the last day,
and no property depends on what would happen later: `EndsWithSubscription` asks for the webhook
or the commit to end the access, not for the passing of time.

`Offered` is a bound, too: Free is treated differently from the paid plans, which
are treated alike, so that one of them is enough to grant a plan that was not bought.

In `Admission` two jobs of 4 minutes pass both marks of the limit of 5 (80 % after one, 100 % after two), and the mark of 80 % of the limit of 10;
two requests overlap, and one thread may ask twice, on either kind of route; two days are two periods. In `Registration` the names `a` and `a 2` are the smallest that
meet in one slug from different bases, and three requests fill a limit of two. In `Selection` six segments give two or more overlapping
chunks, with windows that are alike across them; times of captions include 59.99 s, 60 s and an hour, where
each carry happens. Two calls of one job in `Transcription` are two tasks of a process, or a thread that outlived its call and a retry.
`Watched` is a bound: one of them may have a callback. Calls meet in what their threads share, the caches and the file, and the thread of a watched call differs from
that of an inline one only in what it tells its own caller; two watched calls would multiply the states by the loop of the second caller.

Deadlock is checked in no run, because users, faults and days are bounded and nobody has to submit
anything: a state in which all is settled has no successor. That nothing gets stuck before is what `Settles`,
`CancelSettles`, `Reclaimed`, `CancelReaches` and `EndsWithSubscription` say.

`TypeOK` of `Accounts`, `Admission`, `Rendering`, `Artifacts` and `Niches` documents the state; no listed run spends a
property on it. What the proofs need of it they prove.

Each property has a mutant of the code it depends on (for instance a claim that takes
locks that are not stale, an event recorded without its unique key, a ranking that forgets
all but the last window), with which TLC finds it violated in the same instance.

### Fairness

`Fairness` is weak fairness of every runner (a live thread goes on: nothing in the
pipeline waits for another runner; the operating system schedules threads, and the worker loop
polls forever) and of `LeaseExpires` (time passes). Within a runner's step, *which*
outcome happens is not constrained, so failures may repeat as often as the
attempts allow. Crashes, cancellations and retries are under no obligation. In
the fair runs `LeaseOutlivesWork` is TRUE: no live runner takes longer than
`pipeline_lock_stale_seconds` (an hour by default). Without that two workers could take
the lock from each other for ever, and `OneRunnerPerJob` fails (section 4).

In `Billing` only the delivery of each first webhook, acknowledged, is fair: the provider repeats
it until it is. Payments, cancellations, deaths and whoever asks for the plan are not.

In `Artifacts` retention alone is fair (`WF_vars(Sweep("retention"))`): a worker cleans up whenever it polls. Requests, restarts
and faults are not. In `Transcription` a caller goes on (`WF` of `Call`), the join of its loop ends, so that a turn of it
comes after the interval of the heartbeat (`SF` of `Beat`, which is enabled once per turn), and looking at the device takes finite time; loading
and running a model may hang for ever, which is what the property is about.

## 4. Instances that refute a statement of the repository

Each checks one property that a document, a comment or a message of the program
states, and TLC shows a behaviour of the code that violates it. They are kept as configurations to be
run by hand with the MC module of their component.

| Instance | Property | What happens |
|---|---|---|
| `VRecoveryRace` | `OneRunnerPerJob` | recovery clears locks from an earlier read, the lock of a worker that just recovered the job included |
| `VCancelLost` | `CancelSettles` | recovery does not look for `cancel_requested`: after a crash the job stays there |
| `VCancelFailed` | `CancelIsNotAFailure` | `transcribe_audio` turns the cancellation into a RuntimeError; the job ends as failed |
| `VNoCandidates` | `DoneHasCandidates` | the niche is committed before the candidates; the re-run skips the step |
| `VForceDropped` | `ForcedRetryRuns` | the worker backend loses `force`; an exhausted step never runs again |
| `VSlotRace` | `SlotLimit` | two workers count the active jobs before either has made its job active |
| `VLeaseTooShort` | `OneRunnerPerJob` | `locked_at` is never renewed: after an hour a second worker with an old list takes the lock of a live one |
| `VSharedLock` | `OneRunnerPerJob` | two threads of the web process own the same lock |
| `VCancelOverwritten` | `CanceledSticks` | `mark_step_running` overwrites `canceled` |
| `VSubtitlesFree` | `DoneIsMetered` | a job with a YouTube subtitle skips transcription, and its metering with it |
| `VParkedByUser` | `ActiveSettles` | `complete_analysis_without_llm` leaves the job in `llm_enrichment` |
| `VBreakerExhausts` | `BreakerSkips` | the circuit breaker uses up an attempt; one run later the step is exhausted and the job fails |
| `VStepRetryRace` | `DoneMeansComplete` | a step retry resets a job that says pending while a worker skips through it |
| `VClipOverwritten` | `EveryFileShowsItsClip` | every manual render of a job has the index 9999, so a second one replaces the file of the first clip |
| `VProtectedClip` | `KeepsProtected` | retention removes the file of a draft that an approved clip shares, or of one approved after the clips were read |
| `Niches` with `LearnsFromOwn` as its INVARIANT | `LearnsFromOwn` | README.md:172 says that all learning is isolated per workspace; `recalibrate_feedback_from_page` (actions.py:193) passes none, so the words of all workspaces are learned for all |
| `Billing` with `AccessIsBought` as its INVARIANT | `AccessIsBought` | templates/billing.html:27 says that after the trial a card is needed; `activate_checkout_session` grants the plan of a Stripe checkout to whoever loads its completion address, paid or not, as often as it is loaded |
| `Admission` with `TrialBoundedOnEveryRoute` as its INVARIANT | `TrialBoundedOnEveryRoute` | templates/billing.html:27 says that one video may be tried; `/web/jobs/create` (core.py:99-107) never calls `ensure_workspace_can_create_job`, so one thread creates job after job without a plan |

The last three are the configuration of a listed run with another property.

`OneRowPerSubscription` needs the order of the webhooks: when `created` overtakes
`completed`, the current row is taken for it. `PlanWasBought` does not (section 5).

These also mark how far the passing properties reach. `SlotLimit` holds for one
worker alone and fails with a second one, or with the kick of a
cancellation. `RunningStepIsAttended` fails with two workers and a crash:
one claims, from an old list, the job a dead one left active, fails before the first step and
releases the lock. `CancelRequestSticks` fails with a crash, since a recovery that read
the job earlier writes `pending` over the request. With two workers, two jobs and
failures without end `Settles` fails as well: old lists let two workers pick up
each other's failed job again and again. `RenderedHasClip` and `FileShowsClip` fail with `ReusesIds`
(SQLite gives the id of a deleted candidate to another) and `FileShowsClip` where a rank is also an id. Two requests that
regenerate candidates at once exceed the limit of a job (`Concurrent`). `TranscriptWhole` promises nothing of a file that
several calls wrote at once, or that another call is writing or failed to write: the code writes in place. What it does promise is that a call does not return before,
or without, its own transcript, and that a thread which outlived its call leaves a whole one when it gets through. `SlotLimit` thus checks how slots
are counted, not the race of counting and taking one; `ProtectedKept` exempts clips that were protected while they were being removed. The runs are chosen on the right side of these lines.

## 5. Proofs

Every theorem holds for any values of the constants that satisfy the assumption of its module
(`PipelineAssumption`, `BillingAssumption` ...) and the hypotheses it states. Bounds such as `MaxOps`,
`MaxCrashes` and `MaxDeaths` are arbitrary in them. Where a theorem has a hypothesis, the property is
false without it; section 4 and the text below say what happens then.

### Pipeline

| Theorem | Statement | Hypotheses |
|---|---|---|
| `TypeCorrect` | `Spec => []TypeOK` | |
| `LeaseSafety` | `Spec => []LeaseHeld` | |
| `Exclusion` | `Spec => []ExclusiveSection` | |
| `KnownJobs` | `Spec => []JobsExist` | |
| `AttemptsBounded` | `Spec => []AttemptLimit` | worker backend, nobody asks for `analyze_without_llm` |
| `NoTwoRunners` | `[](evicted = {})` implies `[]OneRunnerPerJob` | `OwnProcess` |
| `DoneIsComplete` | `[](evicted = {})` implies `[]DoneMeansComplete` | `OwnProcess`, `OrdinaryOps` |
| `OutputsKept` | `[](evicted = {})` implies `OutputsSurvive` | `OwnProcess`, `OrdinaryOps` |
| `LoneRunnerKeepsLock` | `Spec => [](evicted = {})` | one runner, `LeaseOutlivesWork` |
| `LoneWorkerCompletes` | `DoneMeansComplete`, `OutputsSurvive` | one runner, `LeaseOutlivesWork`, `OrdinaryOps` |
| `LoneWorkerAttends` | `RunningStepIsAttended`, `ActiveJobIsAttended`, `SlotLimit` | one runner, `LeaseOutlivesWork`, `CheckedOps` |
| `CancelIsHeard` | `CancelRequestSticks`, `[](evicted = {})` | `OwnProcess`, `LeaseOutlivesWork`, `CancelOps`, no crash |

`TypeOK` is not just a frame: `Locals` says what is known at each program
counter (the job is set, `cur` is a step at `begin`, the last step does not
return to `check`), without which the sequence accesses and `NextStep` would be
out of range. It is inductive, one lemma per group of actions. `LeaseHeld` is
inductive relative to `TypeOK`, because the history variable `evicted` records
the three ways a runner loses its lock while it works: its lock expired, a recovery rewrote
the row, or another thread of its process released it. Each action then either
leaves the lock of another job alone, or takes a lock that no unevicted runner of
another process holds (`CanLock` requires free, stale or own), or releases its own. `Exclusion`
follows at once: two unevicted runners in one job both own its lock, so they are of the same process.

The hypotheses are about who runs and what is asked. `OwnProcess` gives each process one thread for the
pipeline, as `worker.py` has: threads of one process share the lock (`VSharedLock`). `LeaseOutlivesWork` says that
runs end within `pipeline_lock_stale_seconds` (`VLeaseTooShort`). `OrdinaryOps`, `CheckedOps` and `CancelOps` leave out
requests that write where a worker is at work: the handlers of the pages check nothing (`VStepRetryRace`), a retry of a step clears what it made,
and `analyze_without_llm` runs steps outside the lock and the loop (`VParkedByUser`). The last also passes `force`,
which is the one way past `MAX_STEP_ATTEMPTS` with the worker backend; `Unforced` (no runner and no queued call has
`force`) is what `AttemptLimit` needs to be inductive: `Prepare` fails a run whose step is exhausted, and only `Start`
counts.

`DoneMeansComplete` and `OutputsSurvive` follow from `Produced`: every runner is within the loop, started from
the first step (`AllInLoop`); the steps before the one it is at have ended and what they make is there (`AllMade`); and jobs
keep the outputs they were created with (`SeedsKept`). Since the loop skips whatever ended or exists, this must hold across a crash, a recovery that sets steps back, and a
second worker's run; two runners at work on one job would break it, which is where `OneRunnerPerJob`, and so `LeaseHeld`, enters.

For one worker `Alone` relates the rows of every job to it: a job that it does not work on is `Asleep` (either
nothing of it is running and its status is not active, or the lock of a process that died is there for recovery to see), the
job it works on says the status of its step, and the lists it read contain only jobs that are free. `SlotKept` counts: a job
becomes active only when fewer than `MaxConcurrentJobs` were, and no other runner counts at the same time. With a second worker this is false (`VSlotRace`, and the
list that section 4 describes).

For cancellation `Crew` says that every job that is active or to be canceled has a runner in its section, where it will still
look at the status or is about to write a final one (`Heard`). Then no recovery finds anything to do, nobody else takes the job, and the runner
that reads the request answers it. A crash breaks it, as section 4 says.

### Billing

`BillingTypeCorrect` (`TypeOK`; a request in progress always has a row), `PlansAreBought` (`PlanWasBought`), and,
where the webhooks of a subscription come in order, `OneRowEach` (`OneRowPerSubscription`).

`PlanWasBought` speaks of the current row when it is active. It is not inductive, since a plan enters
a row from a webhook, and a webhook from the provider. The invariant `Bought` follows the plan
along that way: active rows, subscriptions the provider considers paid, and activating webhooks on
their way all carry plans that were bought. Since it speaks of every row,
it does not matter which one a webhook is matched with, nor when it arrives. Rows in `loaded` are exempted: `ActivateCheckout` puts
a plan into them that nobody bought, and any later write that activates the row again, a webhook, carries a plan that was.

`OneRowPerSubscription` rests on `AllSettled`: as long as a row does not have the id of its subscription, the first webhook that waits is the one that names
the checkout; so every later one finds the row by the id, and the latest row of the workspace is never taken for it. Without the order
`created` overtakes `completed` and binds another row. `RowsThere` says that a checkout which is known to the provider or to a request has a row.

### Admission

`MeteringIsUnique` (`MeteredOnce`), `MeteringIsALedger` (`Spec => ChargedOnce`: every step maps to a step of `Charges` or to a
stutter), `TrialIsBounded` (`TrialBounded`) and `WarningsAreBounded` (`WarningsBounded`).

The inductive invariant `LedgerInv` says that rows and workers are typed, that a worker past the lookup of its event works on a
job that is metered (`WorkersKnow`), and that every transcript is metered. The unique key enters where `RecordEvent` inserts only what
is not there; the lookup before it is not needed for it. Events are never removed, so a death or a reset between any two statements changes
nothing that was charged; the step that keeps a transcript maps to `Charge` if it inserted the event and to `Keep` if not.

`TrialsFit`: a thread that the trial let in to insert a job has none of the trial yet, and none has two; a thread is let in only while there is
no job at all, and jobs of the unchecked route, which are not bounded, only keep others out. `FewWarnings` counts: while a
warning is not recorded, its mails are no more than the deaths and the workers that sent it and have yet to record it; once it
is, its mails and those that workers are about to send, since they looked before, are no more than the deaths and all workers. This needs the workers to be a finite set.

### Transcription

`OneModel` (`ModelLoadedOnce`), `ReturnedWhole` (`TranscriptWhole`) and `AllAreReported` (`AllReported`), for any calls, jobs and
restarts. The first follows the lock of the cache: a thread loads only while it is the one that holds it, and while somebody holds
it nothing was loaded. The second needs nothing that keeps calls apart. Its invariant, `FileInv`, says that a call returns only
when its thread is done (`Started`), that whoever is among the last to write has opened the file (`WritersOpened`), that a thread which
is past `open` either is one of them, or was followed by others who are (`WritersKnown`), and that one which wrote alone and has dumped left a whole
file (`WrittenWhole`). The third, `AllHeard`: what a thread has said at its place
(`Told`) is among the messages that were passed on and those in the queue; once the caller has seen the thread dead nothing is
added, and it returns only with the queue empty. The last look at the queue after `is_alive` is what it needs.

### Selection

| Theorem | Statement | Hypotheses |
|---|---|---|
| `RankingIsOrdered` | `Spec => []BestFirst` | |
| `CandidatesAreDistinct` | `Spec => []Distinct` | `~Concurrent` |
| `NoWindowIsLost` | `Spec => []FewOnlyIfAlike` | `~Concurrent`, `Ratio <= 100` |
| `CaptionsFit` | `CaptionSpec => []LinesFit` | |
| `CaptionsTell` | `CaptionSpec => []WordsKept` | |
| `CaptionsInTime` | `CaptionSpec => []CaptionsOnTime` | `CuesInOrder` |
| `ProtectedClipsStay` | `StorageSpec => ProtectedKept` | |

The first three hold for every transcript, whatever its segments, for every chunk length, stride, threshold, limit and score, and for any
answers of the LLM. `Ratio` is `candidate_duplicate_overlap_ratio`; beyond 100 percent two windows with one start need not be
duplicates, and the merge by `start` loses one. With `Concurrent` another request's rows are compared with, and deleted.

`BestFirst` needs `RankedAbove`: no window that remains would score more than one that was ranked. When the best is ranked, it is below all that were
ranked before it by `RankedAbove`, and the others are below it since it was best; and they have only lost since, because the penalty
takes the greatest overlap, text and opening with a set of windows that grows (`PenaltyGrows`, and with it `EffectiveFalls`).

`Distinct` needs `Booked`: the windows that a new one is compared with are those that were created so far, which the next chunk
reads back from the rows because the commit before it wrote exactly the rest of them. A window that reaches the relaxed thresholds reaches the others
(`RelaxedIsDuplicate`), and being alike is symmetric, so that the order in which two windows came does not matter.

`FewOnlyIfAlike` needs `Accounted`: as long as not enough are kept, every window of a chunk that was begun is kept, alike one
that is (`Settled`), deferred, or on its way (`OnItsWay`) among those that remain, are ranked or wait to be kept. The step that is hard to
see is the merge: `MergedKeepsAll` shows that the judged windows, the unjudged and the tail hold all the ranked ones
provided that no two start together, and `WindowsOfChunk` that the deduplication of a chunk leaves no two that do.

A recursive function is chosen by its equation, so a proof about it first needs that the equation has a solution (`Recursion`) and
only one (`Counted`). Both are proved by a least counterexample, as are `ChunksBegin` and `SomeStay` for `From` and `Filtered`:
the well-founded orders of the library give induction without an operator as a parameter. The lemmas `ChunksAre`, `MergedAre`,
`ChosenAre`, `SplitIs` ... then give each function of `Captions` its equation, for every input.

`LinesFit` is the type of these functions. A line that `_chunk_words_balanced` makes is in `Fine` (it fits, or is one word); what the
rebalancing may leave last is in `Spare` (it was too short without the word that was moved into it last, which its cut says); a
page is as many such lines as fit a caption, and what is written is a sequence of pages.

`WordsKept` says that joining undoes splitting: the lines, the phrases, the rebalanced lines and the pages of a text, joined
again, are the text (`ChunkedJoined`, `PhrasesJoined`, `RebalancedJoined`, `PagedJoined`), hence the captions of a segment say it (`SplitSpoken`).
What is written and what is left of the clip together are then all that is heard in it (`Told`), in every state.

`CaptionsOnTime` has three parts. A stamp is a valid time and the nearest hundredth of a second, whatever is carried
(`StampRight`), and rounding is monotone, so the captions of a segment begin where the one before ends, from its start to its end
(`DialoguesTimed`); the marks of a karaoke line add up to the rounded time (`BeatsAdd`), which differs from the difference of two rounded times by
one at most (`RoundedSum`). Merging keeps the cues apart, and each covered by one (`CueCovered`), and so does selecting those
of a clip (`SelectedTimed`). `OnTime` carries this through the writing: a moment of a cue is in the time of a line, or of a segment that is left.
`CuesInOrder` (the cues of a WebVTT file are in the order of their starts, as the format requires; the parser
does not sort them) is what the merge needs: a cue that began before the one it is merged into would lose its beginning. No order is needed of the others.

`ProtectedKept` follows from `Spared`: while retention removes clips, every file it is about to remove is that of a row that is not
protected, or that was protected too late, after the rows were read; afterwards it removes no file of a clip. A new row, a new file or
a review changes that only by the exceptions of the property. It needs `FilesAssumption`: exports and clips have different names.

### The others

`NichesHaveOneWriter` (`OnlyOwnerWrites`): a request that waits for the LLM holds a slug that it may
write, either since the row is its workspace's, or since it inserts it, which the unique slug allows only while there is none; and no
row ever changes its owner. `KeywordsAreEarned` (`KeywordsEarned`): the numbers that a request counted travel with it, so it holds of them and
of all rows, however the candidates they came from have changed.

`AdmitsWithinWindow` and `RejectsForCause`, for every limit, window and skew: buckets are not sorted, so the
invariant relates a bucket to all requests that were admitted. Whoever was admitted and is not in the bucket is too old for every request
that is still to come, by the skew; and times in a bucket differ from those before them by the skew at most. `AccountsProofs` carries these
over: `FormsUseLimiter` (`Spec => LimiterSpec`) shows that every step of `Accounts` is a step of the limiter or leaves it alone, hence
the corollary `FormsAreLimited`. `RegistrationsAreDistinct` and `SessionsAreComplete` rest on what a request holds at each place: what it flushed
nobody else has, and only whole registrations are committed.

`RenderedHaveClips` (`RenderedHasClip`) where the database gives no id twice (`~ReusesIds`), and `FilesShowClips` (`FileShowsClip`) where moreover no
rank and no index of a manual render is an id (`NamesApart`). The
invariant of the first says what a request may still rely on after the rows it read were deleted: whichever row has the id of one of its shots, now or
later, is of the same part of the video, and a mark that it has yet to set has a clip. `RowsKept`, `ClipsKept`, `ShotsKept` and `MarksKept`
say what every step leaves true of these (`StepKeeps`); each action is then shown to be such a step. That of the second is one agreement for each index of a file:
all that claims it (candidates, the shots of requests, clips, the file) claims the same cut (`Claimed`, `Agreed`), whichever of them goes away.

Every safety invariant and every action property that a run checks is thus proved. Only model-checked are the liveness properties (`Settles`, `CancelSettles`, `EndsWithSubscription`, `Reclaimed`, `CancelReaches`), which are
beyond the prover.
The violations of section 4 are concrete traces and need no proof.

## 6. Not modelled, and the plan

Out of scope: floating-point scoring, prompt and editorial texts, subtitle layout and parsing expressions, ffmpeg and yt-dlp,
passwords and tokens, read-only views, start-up and configuration. These have no state of their own, or no reference
to hold them against. The Mercado Pago adapter is not modelled (its `parse_webhook` gives webhooks that name no plan or kind the plan
`starter` and the kind `updated`, so `PlanWasBought` would need its own reading of the provider). `create_local_video_job` records no usage,
so jobs created that way are outside `Admission`.

What would come next:

1. the Mercado Pago adapter in `Billing`;
2. an abstract `JobLifecycle` (queued, taken, finished, canceled; one owner) with `Pipeline` as its refinement;
3. larger instances: two workers in `WorkerRestart`, two requests in `Artifacts`, three segments' gaps in `Selection`.
