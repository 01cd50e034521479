----------------------------- MODULE Admission -----------------------------
(***************************************************************************)
(* What a workspace may start, and what it is charged for: the checks of   *)
(* the routes that create jobs (services/quota.py, services/access.py,     *)
(* api/jobs/core.py, web/pages/actions.py) and the usage events that       *)
(* workers record when they transcribe (services/usage.py).                *)
(*                                                                         *)
(* A request checks the quota and the trial in queries of their own, and   *)
(* inserts its job in a later transaction; the minutes of the job are      *)
(* counted only when a worker has transcribed it.  One route, the form     *)
(* web/jobs/create of api/jobs/core.py, does not check the trial.  The     *)
(* subscription is that of module Billing, reduced to what is read here.   *)
(* (/jobs/local, once it has its job, transcribes it in the request and    *)
(* records nothing: see Pipeline.)                                         *)
(***************************************************************************)
EXTENDS Integers, Sequences, FiniteSets, FiniteSetsExt

CONSTANTS
  Threads,    \* of the web process, each with one request at a time
  Workers,    \* processes that transcribe
  Videos,     \* minutes of the videos that users send
  FreeLimit, PaidLimit,  \* monthly_video_minutes of the plans
  TrialMax,   \* TRIAL_MAX_VIDEO_SECONDS, in minutes
  Month,      \* length of a month and of a period of a subscription
  MaxDay,     \* bound: the last day
  MaxJobs,    \* bound: jobs the workspace may have, or asks for
  MaxDeaths   \* bound: how often a worker dies

ASSUME AdmissionAssumption ==
  /\ IsFiniteSet(Threads) /\ IsFiniteSet(Workers) /\ Videos \subseteq Nat
  /\ FreeLimit \in Nat \ {0} /\ PaidLimit \in Nat \ {0} /\ TrialMax \in Nat
  /\ Month \in Nat \ {0, 1} /\ MaxDay \in Nat /\ MaxJobs \in Nat /\ MaxDeaths \in Nat

VARIABLES
  day,
  sub,       \* the current subscription: its status, and the last day of its period
  jobs,      \* the jobs of the workspace, in the order of their ids (history:
             \* on which ground each was admitted, and by which thread)
  thread,    \* the request of each thread
  worker,    \* the transcription of each worker
  events,    \* usage_events of type video_processed
  warned,    \* usage_events of type quota_warning_sent
  mails,     \* history: how often each warning was sent
  deaths     \* how often a worker has died

web == <<jobs, thread>>
usage == <<events, warned, mails>>
vars == <<day, sub, web, worker, usage, deaths>>

Marks == {80, 100}
Grounds == {"plan", "trial", "unchecked"}
Idle == [pc |-> "idle", minutes |-> 0, declared |-> 0, ground |-> "plan"]
Task(label, j) == [pc |-> label, job |-> j, period |-> 0, mark |-> 0]
Resting == Task("rest", 0)

Init ==
  /\ day = 1
  /\ sub \in {[active |-> FALSE, last |-> 0]} \cup [active : {TRUE}, last : 1..Month]
  /\ jobs = <<>>
  /\ thread = [t \in Threads |-> Idle]
  /\ worker = [w \in Workers |-> Resting]
  /\ events = {} /\ warned = {}
  /\ mails = [x \in (2 - Month .. MaxDay) \X Marks |-> 0]
  /\ deaths = 0

-----------------------------------------------------------------------------
(* get_workspace_plan: asking for the plan cancels an expired subscription *)
Expired == sub.active /\ sub.last < day
HasPlan == sub.active /\ ~Expired
AskForPlan == sub' = [sub EXCEPT !.active = HasPlan]

(* get_workspace_quota_status.  A period is known by its first day.        *)
MonthStart == day - (day % Month)
PeriodStart == IF HasPlan THEN sub.last - Month + 1 ELSE MonthStart
InPeriod(e) == e.day >= PeriodStart /\ (HasPlan => e.day <= sub.last)
Used == MapThenSumSet(LAMBDA e : e.minutes, {e \in events : InPeriod(e)})
QuotaLimit == IF HasPlan THEN PaidLimit ELSE FreeLimit
IsExceeded == Used >= QuotaLimit
IsNearLimit == Used * 5 >= QuotaLimit * 4
Mark == IF IsExceeded THEN 100 ELSE IF IsNearLimit THEN 80 ELSE 0

(* The provider and the calendar.                                          *)
Subscribe ==
  /\ ~sub.active
  /\ sub' = [active |-> TRUE, last |-> day + Month - 1]
  /\ UNCHANGED <<day, web, worker, usage, deaths>>

Tomorrow ==
  /\ day < MaxDay
  /\ day' = day + 1
  /\ UNCHANGED <<sub, web, worker, usage, deaths>>

-----------------------------------------------------------------------------
(* The requests that create a job.                                         *)
To(t, label) == thread' = [thread EXCEPT ![t].pc = label]
Refuse(t) == thread' = [thread EXCEPT ![t] = Idle]
Admit(t, g) == thread' = [thread EXCEPT ![t].pc = "insert", ![t].declared = 0, ![t].ground = g]

(* fetch_youtube_metadata, or a file that was uploaded or is there.  The   *)
(* length of a file is probed, that of a YouTube video may be unknown, and *)
(* is then given to the checks as 0.  The route that does not check the    *)
(* trial does not ask for the length either.  A job is created on the      *)
(* ground of a plan or, without one, of the trial or of no check.          *)
Asking == {t \in Threads : thread[t].pc # "idle"}
Request(t) ==
  /\ t \notin Asking /\ Len(jobs) + Cardinality(Asking) < MaxJobs
  /\ \E m \in Videos, g \in {"trial", "unchecked"} : \E d \in IF g = "trial" THEN {0, m} ELSE {0} :
       thread' = [thread EXCEPT ![t] = [pc |-> "quota", minutes |-> m, declared |-> d, ground |-> g]]
  /\ UNCHANGED <<day, sub, jobs, worker, usage, deaths>>

(* ensure_workspace_can_start_job, all that the unchecked route asks for   *)
CheckQuota(t) ==
  /\ thread[t].pc = "quota"
  /\ AskForPlan
  /\ IF IsExceeded THEN Refuse(t)
     ELSE IF thread[t].ground = "trial" THEN To(t, "access")
     ELSE Admit(t, IF HasPlan THEN "plan" ELSE "unchecked")
  /\ UNCHANGED <<day, jobs, worker, usage, deaths>>

(* ensure_workspace_can_create_job: workspace_has_billing_access looks at  *)
(* the status alone.                                                       *)
TrialUsedWhenProcessed == \E j \in DOMAIN jobs : jobs[j].transcript
TrialUsed == jobs # <<>>
CheckAccess(t) ==
  /\ thread[t].pc = "access"
  /\ IF ~sub.active /\ (TrialUsed \/ thread[t].declared > TrialMax) THEN Refuse(t)
     ELSE Admit(t, IF sub.active THEN "plan" ELSE "trial")
  /\ UNCHANGED <<day, sub, jobs, worker, usage, deaths>>

InsertJob(t) ==
  /\ thread[t].pc = "insert"
  /\ jobs' = Append(jobs, [minutes |-> thread[t].minutes, ground |-> thread[t].ground,
                           by |-> t, transcript |-> FALSE])
  /\ thread' = [thread EXCEPT ![t] = Idle]
  /\ UNCHANGED <<day, sub, worker, usage, deaths>>

-----------------------------------------------------------------------------
(* _run_transcription_step, from the end of transcribe_audio.  A worker    *)
(* may do the job of another whose lock went stale.                        *)
Go(w, label) == worker' = [worker EXCEPT ![w].pc = label]
Finish(w) == worker' = [worker EXCEPT ![w] = Task("commit", worker[w].job)]
Rest(w) == worker' = [worker EXCEPT ![w] = Resting]
Transcribed(j) == jobs' = [jobs EXCEPT ![j].transcript = TRUE]

Transcribe(w) ==
  /\ worker[w].pc = "rest"
  /\ \E j \in DOMAIN jobs :
       /\ ~jobs[j].transcript
       /\ worker' = [worker EXCEPT ![w] = Task("lookup", j)]
  /\ UNCHANGED <<day, sub, web, usage, deaths>>

Metered(j) == \E e \in events : e.job = j

(* record_usage_event finds the idempotency key, or goes on to insert it.  *)
LookupEventAfterCommit(w) ==
  /\ worker[w].pc = "lookup"
  /\ Transcribed(worker[w].job)
  /\ Go(w, IF Metered(worker[w].job) THEN "status" ELSE "record")
  /\ UNCHANGED <<day, sub, thread, usage, deaths>>
LookupEvent(w) ==
  /\ worker[w].pc = "lookup"
  /\ Go(w, IF Metered(worker[w].job) THEN "status" ELSE "record")
  /\ UNCHANGED <<day, sub, web, usage, deaths>>

(* The commit of the event also saves transcript_path, set before it.  If  *)
(* the key is there by now, the transaction is rolled back, and the step   *)
(* fails (process_job_pipeline).                                           *)
RecordEventUnconstrained(w) ==
  /\ worker[w].pc = "record"
  /\ LET j == worker[w].job IN
       /\ events' = events \cup {[job |-> j, minutes |-> jobs[j].minutes, day |-> day]}
       /\ Transcribed(j)
       /\ Go(w, "status")
  /\ UNCHANGED <<day, sub, thread, warned, mails, deaths>>
RecordEvent(w) ==
  /\ worker[w].pc = "record"
  /\ LET j == worker[w].job IN
       IF Metered(j)
         THEN Rest(w) /\ UNCHANGED <<jobs, events>>
         ELSE /\ events' = events \cup {[job |-> j, minutes |-> jobs[j].minutes, day |-> day]}
              /\ Transcribed(j)
              /\ Go(w, "status")
  /\ UNCHANGED <<day, sub, thread, warned, mails, deaths>>

(* check_and_send_quota_warnings.  The keys of a warning are its period    *)
(* and its mark.  Canceling an expired subscription commits the session.   *)
ReadStatus(w) ==
  /\ worker[w].pc = "status"
  /\ AskForPlan
  /\ IF Mark = 0 \/ <<PeriodStart, Mark>> \in warned THEN Finish(w)
     ELSE worker' = [worker EXCEPT ![w].pc = "mail", ![w].period = PeriodStart, ![w].mark = Mark]
  /\ IF Expired THEN Transcribed(worker[w].job) ELSE UNCHANGED jobs
  /\ UNCHANGED <<day, thread, usage, deaths>>

Warning(w) == <<worker[w].period, worker[w].mark>>

(* An error in sending is logged and forgotten.                            *)
SendMail(w) ==
  /\ worker[w].pc = "mail"
  /\ \/ mails' = [mails EXCEPT ![Warning(w)] = @ + 1] /\ Go(w, "warned")
     \/ UNCHANGED mails /\ Finish(w)
  /\ UNCHANGED <<day, sub, web, events, warned, deaths>>

LookupWarning(w) ==
  /\ worker[w].pc = "warned"
  /\ IF Warning(w) \in warned THEN Finish(w) ELSE Go(w, "warn")
  /\ UNCHANGED <<day, sub, web, usage, deaths>>

(* A second insert of the key fails.  The exception is caught, but the     *)
(* session cannot be used any more: the next commit fails the step.        *)
RecordWarningOfNear(w) ==
  /\ worker[w].pc = "warn"
  /\ Finish(w) /\ Transcribed(worker[w].job)
  /\ warned' = warned \cup {<<worker[w].period, 80>>}
  /\ UNCHANGED <<day, sub, thread, events, mails, deaths>>
RecordWarning(w) ==
  /\ worker[w].pc = "warn"
  /\ IF Warning(w) \in warned
       THEN Rest(w) /\ UNCHANGED <<jobs, warned>>
       ELSE Finish(w) /\ warned' = warned \cup {Warning(w)} /\ Transcribed(worker[w].job)
  /\ UNCHANGED <<day, sub, thread, events, mails, deaths>>

CommitTranscript(w) ==
  /\ worker[w].pc = "commit"
  /\ Transcribed(worker[w].job)
  /\ Rest(w)
  /\ UNCHANGED <<day, sub, thread, usage, deaths>>

(* reset_pipeline_state_from_step: the job will be transcribed once more.   *)
Reset ==
  /\ \E j \in DOMAIN jobs : jobs' = [jobs EXCEPT ![j].transcript = FALSE]
  /\ UNCHANGED <<day, sub, thread, worker, usage, deaths>>

(* A worker dies and starts again; the job is retried later.               *)
Die(w) ==
  /\ worker[w].pc # "rest" /\ deaths < MaxDeaths
  /\ Rest(w)
  /\ deaths' = deaths + 1
  /\ UNCHANGED <<day, sub, web, usage>>

Meter(w) ==
  \/ LookupEvent(w) \/ RecordEvent(w) \/ ReadStatus(w) \/ SendMail(w)
  \/ LookupWarning(w) \/ RecordWarning(w) \/ CommitTranscript(w)

Next ==
  \/ Subscribe \/ Tomorrow \/ Reset
  \/ \E t \in Threads : Request(t) \/ CheckQuota(t) \/ CheckAccess(t) \/ InsertJob(t)
  \/ \E w \in Workers : Transcribe(w) \/ Meter(w) \/ Die(w)

Spec == Init /\ [][Next]_vars

-----------------------------------------------------------------------------
TypeOK ==
  /\ day \in 1..MaxDay
  /\ sub \in [active : BOOLEAN, last : Nat]
  /\ jobs \in Seq([minutes : Videos, ground : Grounds, by : Threads, transcript : BOOLEAN])
  /\ thread \in [Threads -> [pc : {"idle", "quota", "access", "insert"}, minutes : Nat, declared : Nat,
                              ground : Grounds]]
  /\ worker \in [Workers -> [pc : {"rest", "lookup", "record", "status", "mail", "warned",
                                   "warn", "commit"},
                             job : Nat, period : Int, mark : Marks \cup {0}]]
  /\ \A w \in Workers : worker[w].pc # "rest" => worker[w].job \in DOMAIN jobs
  /\ events \subseteq [job : DOMAIN jobs, minutes : Videos, day : 1..MaxDay]
  /\ warned \subseteq DOMAIN mails

(* However often a job is transcribed, by whichever workers, its minutes   *)
(* count once (usage.py 33-53, the key of line 117).                       *)
MeteredOnce == \A e, f \in events : e.job = f.job => e = f

(* A transcript that a worker saved was metered, although workers die and  *)
(* transactions fail in between: the first commit after the assignment is  *)
(* that of the event (pipeline.py 843-854, usage.py 51).                   *)
TranscriptIsMetered ==
  \A j \in DOMAIN jobs : jobs[j].transcript => Metered(j)

(* What the workers do together is a ledger of charges: a job is charged   *)
(* once, never taken back, and before its transcript is kept (module       *)
(* Charges; usage.py 31-53, pipeline.py 843-854).                          *)
Charging == INSTANCE Charges WITH
  charged <- {e.job : e \in events},
  kept <- {j \in DOMAIN jobs : jobs[j].transcript}
ChargedOnce == Charging!ChargesSpec

(* The trial is one job, and only requests that overlap get more: no       *)
(* thread gets two, on the routes that check it (access.py 15-33, core.py  *)
(* 50-60).  The form of core.py 99-107 does not, and its jobs are bounded  *)
(* by nothing but the quota, once their minutes are counted; they use the  *)
(* trial up for the other routes.                                          *)
OneEach(J) == \A i, j \in J : jobs[i].by = jobs[j].by => i = j
TrialBounded == OneEach({j \in DOMAIN jobs : jobs[j].ground = "trial"})

(* "O workspace pode testar 1 video de ate 30 minutos sem cartao"          *)
(* (templates/billing.html 27): were it so on every route, requests one    *)
(* after the other would find the trial used.  With the constants of the   *)
(* run Admission TLC refutes it.                                           *)
TrialBoundedOnEveryRoute == OneEach({j \in DOMAIN jobs : jobs[j].ground # "plan"})

(* A warning is sent once in a period, but for workers that race and those *)
(* that die between sending and recording it (usage.py 67-80).             *)
WarningsBounded == \A x \in DOMAIN mails : mails[x] <= Cardinality(Workers) + deaths
=============================================================================
