-------------------------- MODULE AdmissionProofs --------------------------
(***************************************************************************)
(* A job is metered once, and before its transcript is kept, for any       *)
(* numbers of requests, workers and jobs: Admission implements Charges.    *)
(* The trial gives no more jobs than there are threads, but on the route   *)
(* that does not check it, and an event of a quota no more mails than      *)
(* there are workers, and deaths of workers.                               *)
(***************************************************************************)
EXTENDS Admission, FiniteSetTheorems, SequenceTheorems, TLAPS

JobRows == [minutes : Nat, ground : Grounds, by : Threads, transcript : BOOLEAN]
Requests == [pc : {"idle", "quota", "access", "insert"}, minutes : Nat, declared : Nat, ground : Grounds]
Labels == {"rest", "lookup", "record", "status", "mail", "warned", "warn", "commit"}
Tasks == [pc : Labels, job : Nat, period : Int, mark : Marks \cup {0}]

(* Past the event, a worker knows that its job was metered.                *)
PastTheEvent == {"status", "mail", "warned", "warn", "commit"}

(* What the two properties need of the types of the state.                 *)
RowsTyped ==
  /\ jobs \in Seq(JobRows) /\ thread \in [Threads -> Requests]
  /\ day \in Nat /\ sub \in [active : BOOLEAN, last : Int]
WorkersTyped ==
  /\ worker \in [Workers -> Tasks]
  /\ \A w \in Workers : worker[w].pc # "rest" => worker[w].job \in DOMAIN jobs

WorkersKnow == \A w \in Workers : worker[w].pc \in PastTheEvent => Metered(worker[w].job)

LedgerInv == RowsTyped /\ WorkersTyped /\ WorkersKnow /\ TranscriptIsMetered

-----------------------------------------------------------------------------
(* Saving a transcript writes one row.                                     *)
LEMMA SavedRow ==
  ASSUME jobs \in Seq(JobRows), NEW j \in DOMAIN jobs, Transcribed(j)
  PROVE  /\ jobs' \in Seq(JobRows) /\ DOMAIN jobs' = DOMAIN jobs
         /\ jobs'[j].transcript
         /\ \A i \in DOMAIN jobs : i # j => jobs'[i] = jobs[i]
<1> DEFINE row == [jobs[j] EXCEPT !.transcript = TRUE]
<1>0. j \in 1..Len(jobs) /\ DOMAIN jobs = 1..Len(jobs)
  BY LenProperties
<1>1. jobs[j] \in JobRows
  BY <1>0, ElementOfSeq
<1>2. row \in JobRows /\ row.transcript
  BY <1>1 DEF JobRows
<1>3. jobs' = [jobs EXCEPT ![j] = row]
  BY DEF Transcribed
<1> HIDE DEF row
<1>4. jobs' \in Seq(JobRows) /\ Len(jobs') = Len(jobs)
      /\ \A i \in 1..Len(jobs) : jobs'[i] = IF i = j THEN row ELSE jobs[i]
  BY <1>0, <1>2, <1>3, ExceptSeq
<1>5. DOMAIN jobs' = 1..Len(jobs)
  BY <1>4, LenProperties
<1> QED BY <1>0, <1>2, <1>4, <1>5

LEMMA LedgerInit == AdmissionAssumption /\ Init => LedgerInv
<1> SUFFICES ASSUME AdmissionAssumption, Init PROVE LedgerInv
  OBVIOUS
<1> USE DEF AdmissionAssumption
<1>1. RowsTyped
  <2>1. jobs \in Seq(JobRows)
    BY EmptySeq DEF Init
  <2>2. Idle \in Requests
    BY DEF Idle, Requests, Grounds
  <2>3. thread \in [Threads -> Requests]
    BY <2>2 DEF Init
  <2>4. sub \in [active : BOOLEAN, last : Int]
    <3>1. [active |-> FALSE, last |-> 0] \in [active : BOOLEAN, last : Int]
      OBVIOUS
    <3>2. \A r \in [active : {TRUE}, last : 1..Month] : r \in [active : BOOLEAN, last : Int]
      <4> TAKE r \in [active : {TRUE}, last : 1..Month]
      <4>1. r = [active |-> r.active, last |-> r.last] /\ r.active = TRUE /\ r.last \in 1..Month
        OBVIOUS
      <4>2. r.active \in BOOLEAN
        BY <4>1, Zenon
      <4>3. r.last \in Int
        BY <4>1
      <4> QED BY <4>1, <4>2, <4>3, Zenon
    <3> QED BY <3>1, <3>2 DEF Init
  <2> QED BY <2>1, <2>3, <2>4 DEF Init, RowsTyped
<1>2. WorkersTyped /\ WorkersKnow
  BY DEF Init, WorkersTyped, WorkersKnow, Tasks, Labels, Resting, Task, PastTheEvent, Marks
<1>3. TranscriptIsMetered
  BY DEF Init, TranscriptIsMetered
<1> QED BY <1>1, <1>2, <1>3 DEF LedgerInv

(* Requests, the provider and the calendar leave workers and events alone. *)
LEMMA PlanTyped ==
  ASSUME RowsTyped, AskForPlan PROVE sub' \in [active : BOOLEAN, last : Int]
BY DEF RowsTyped, AskForPlan, HasPlan, Expired

LEMMA AsideSafe ==
  ASSUME LedgerInv, RowsTyped', UNCHANGED <<worker, events>>,
         DOMAIN jobs \subseteq DOMAIN jobs',
         \A j \in DOMAIN jobs' : jobs'[j].transcript => j \in DOMAIN jobs /\ jobs[j].transcript
  PROVE  LedgerInv'
BY DEF LedgerInv, WorkersTyped, WorkersKnow, TranscriptIsMetered, Metered

LEMMA AdmitTyped ==
  ASSUME RowsTyped, NEW t \in Threads, NEW g \in Grounds, Admit(t, g)
  PROVE  thread' \in [Threads -> Requests]
<1> DEFINE admitted == [thread[t] EXCEPT !.pc = "insert", !.declared = 0, !.ground = g]
<1>1. admitted \in Requests
  BY DEF RowsTyped, Requests
<1>2. thread' = [thread EXCEPT ![t] = admitted]
  BY DEF Admit, RowsTyped
<1> HIDE DEF admitted
<1> QED BY <1>1, <1>2 DEF RowsTyped

LEMMA WebSafe ==
  ASSUME AdmissionAssumption, LedgerInv, NEW t \in Threads,
         Request(t) \/ CheckQuota(t) \/ CheckAccess(t) \/ InsertJob(t)
  PROVE  LedgerInv'
<1> USE DEF AdmissionAssumption
<1>0. RowsTyped /\ thread[t] \in Requests
  BY DEF LedgerInv, RowsTyped
<1>1. CASE Request(t)
  <2>1. thread' \in [Threads -> Requests]
    BY <1>0, <1>1 DEF RowsTyped, Request, Requests, Grounds
  <2> QED BY <1>0, <1>1, <2>1, AsideSafe DEF RowsTyped, Request, usage
<1>2. CASE CheckQuota(t)
  <2>1. sub' \in [active : BOOLEAN, last : Int]
    BY <1>0, <1>2, PlanTyped DEF CheckQuota
  <2>2. thread' \in [Threads -> Requests]
    <3>1. Idle \in Requests /\ [thread[t] EXCEPT !.pc = "access"] \in Requests
      BY <1>0 DEF Idle, Requests, Grounds
    <3>2. PICK g \in Grounds : thread' = [thread EXCEPT ![t] = Idle] \/ To(t, "access") \/ Admit(t, g)
      BY <1>2 DEF CheckQuota, Refuse, Grounds
    <3>3. CASE Admit(t, g)
      BY <1>0, <3>3, AdmitTyped
    <3> QED BY <1>0, <3>1, <3>2, <3>3 DEF RowsTyped, To
  <2> QED BY <1>0, <1>2, <2>1, <2>2, AsideSafe DEF RowsTyped, CheckQuota, usage
<1>3. CASE CheckAccess(t)
  <2>1. thread' \in [Threads -> Requests]
    <3>1. Idle \in Requests
      BY DEF Idle, Requests, Grounds
    <3>2. PICK g \in Grounds : thread' = [thread EXCEPT ![t] = Idle] \/ Admit(t, g)
      BY <1>3 DEF CheckAccess, Refuse, Grounds
    <3>3. CASE Admit(t, g)
      BY <1>0, <3>3, AdmitTyped
    <3> QED BY <1>0, <3>1, <3>2, <3>3 DEF RowsTyped
  <2> QED BY <1>0, <1>3, <2>1, AsideSafe DEF RowsTyped, CheckAccess, usage
<1>4. CASE InsertJob(t)
  <2> DEFINE row == [minutes |-> thread[t].minutes, ground |-> thread[t].ground,
                     by |-> t, transcript |-> FALSE]
  <2>1. row \in JobRows /\ ~row.transcript
    BY <1>0 DEF JobRows, Requests
  <2>2. jobs \in Seq(JobRows) /\ jobs' = Append(jobs, row)
    BY <1>0, <1>4 DEF RowsTyped, InsertJob
  <2> HIDE DEF row
  <2>3. /\ jobs' \in Seq(JobRows) /\ Len(jobs') = Len(jobs) + 1 /\ jobs'[Len(jobs) + 1] = row
        /\ \A j \in 1..Len(jobs) : jobs'[j] = jobs[j]
    BY <2>1, <2>2, AppendProperties
  <2>4. Len(jobs) \in Nat /\ DOMAIN jobs = 1..Len(jobs) /\ DOMAIN jobs' = 1..Len(jobs) + 1
    BY <2>2, <2>3, LenProperties
  <2>5. thread' \in [Threads -> Requests]
    BY <1>0, <1>4 DEF RowsTyped, InsertJob, Requests, Grounds, Idle
  <2>6. RowsTyped'
    BY <1>0, <1>4, <2>3, <2>5 DEF RowsTyped, InsertJob
  <2>7. \A j \in DOMAIN jobs' : jobs'[j].transcript => j \in DOMAIN jobs /\ jobs[j].transcript
    BY <2>1, <2>3, <2>4
  <2>8. DOMAIN jobs \subseteq DOMAIN jobs'
    BY <2>4
  <2> QED BY <1>4, <2>6, <2>7, <2>8, AsideSafe DEF InsertJob, usage
<1> QED BY <1>1, <1>2, <1>3, <1>4

LEMMA OutsideSafe ==
  ASSUME AdmissionAssumption, LedgerInv, Subscribe \/ Tomorrow \/ Reset
  PROVE  LedgerInv'
<1> USE DEF AdmissionAssumption
<1>0. RowsTyped
  BY DEF LedgerInv
<1>1. CASE Subscribe
  BY <1>0, <1>1, AsideSafe DEF RowsTyped, Subscribe, web, usage
<1>2. CASE Tomorrow
  BY <1>0, <1>2, AsideSafe DEF RowsTyped, Tomorrow, web, usage
<1>3. CASE Reset
  <2>1. PICK j \in DOMAIN jobs : jobs' = [jobs EXCEPT ![j].transcript = FALSE]
    BY <1>3 DEF Reset
  <2> DEFINE row == [jobs[j] EXCEPT !.transcript = FALSE]
  <2>2. j \in 1..Len(jobs) /\ DOMAIN jobs = 1..Len(jobs) /\ jobs \in Seq(JobRows)
    BY <1>0, LenProperties DEF RowsTyped
  <2>3. row \in JobRows /\ ~row.transcript
    <3>1. jobs[j] \in JobRows
      BY <2>2, ElementOfSeq
    <3> QED BY <3>1 DEF JobRows
  <2>4. jobs' = [jobs EXCEPT ![j] = row]
    BY <2>1
  <2> HIDE DEF row
  <2>5. jobs' \in Seq(JobRows) /\ Len(jobs') = Len(jobs)
        /\ \A i \in 1..Len(jobs) : jobs'[i] = IF i = j THEN row ELSE jobs[i]
    BY <2>2, <2>3, <2>4, ExceptSeq
  <2>6. DOMAIN jobs' = DOMAIN jobs
    BY <2>2, <2>5, LenProperties
  <2>7. RowsTyped'
    BY <1>0, <1>3, <2>5 DEF RowsTyped, Reset
  <2>8. \A i \in DOMAIN jobs' : jobs'[i].transcript => i \in DOMAIN jobs /\ jobs[i].transcript
    BY <2>2, <2>3, <2>5, <2>6
  <2> QED BY <1>3, <2>6, <2>7, <2>8, AsideSafe DEF Reset, usage
<1> QED BY <1>1, <1>2, <1>3

-----------------------------------------------------------------------------
MeteredThen(j) == \E e \in events' : e.job = j

(* A worker writes its task, may add events, and may save the transcript   *)
(* of a job that is metered then.                                          *)
LEMMA WorkerSafe ==
  ASSUME LedgerInv, NEW w \in Workers, NEW task \in Tasks,
         worker' = [worker EXCEPT ![w] = task],
         task.pc # "rest" => task.job \in DOMAIN jobs,
         task.pc \in PastTheEvent => MeteredThen(task.job),
         events \subseteq events', UNCHANGED <<thread, day>>, sub' \in [active : BOOLEAN, last : Int],
         UNCHANGED jobs \/ \E j \in DOMAIN jobs : Transcribed(j) /\ MeteredThen(j)
  PROVE  LedgerInv'
<1>1. RowsTyped /\ WorkersTyped /\ WorkersKnow /\ TranscriptIsMetered
  BY DEF LedgerInv
<1>2. /\ jobs' \in Seq(JobRows) /\ DOMAIN jobs' = DOMAIN jobs
      /\ \A j \in DOMAIN jobs : jobs'[j].transcript => jobs[j].transcript \/ MeteredThen(j)
  <2>1. CASE UNCHANGED jobs
    BY <1>1, <2>1 DEF RowsTyped
  <2>2. CASE \E j \in DOMAIN jobs : Transcribed(j) /\ MeteredThen(j)
    <3>1. PICK j \in DOMAIN jobs : Transcribed(j) /\ MeteredThen(j)
      BY <2>2
    <3> QED BY <1>1, <3>1, SavedRow DEF RowsTyped
  <2> QED BY <2>1, <2>2
<1>3. \A j : Metered(j) => MeteredThen(j)
  BY DEF Metered, MeteredThen
<1>4. RowsTyped'
  BY <1>1, <1>2 DEF RowsTyped
<1>5. WorkersTyped'
  BY <1>1, <1>2 DEF WorkersTyped
<1>6. WorkersKnow'
  BY <1>1, <1>3 DEF WorkersTyped, WorkersKnow, Metered, MeteredThen
<1>7. TranscriptIsMetered'
  BY <1>1, <1>2, <1>3 DEF TranscriptIsMetered, Metered, MeteredThen
<1> QED BY <1>4, <1>5, <1>6, <1>7 DEF LedgerInv

LEMMA TaskTyped ==
  ASSUME LedgerInv, NEW w \in Workers, worker[w].pc # "rest"
  PROVE  /\ worker[w] \in Tasks /\ worker[w].job \in DOMAIN jobs
         /\ \A label \in Labels : LET task == [worker[w] EXCEPT !.pc = label] IN
              task \in Tasks /\ task.pc = label /\ task.job = worker[w].job
         /\ Task("commit", worker[w].job) \in Tasks /\ Resting \in Tasks
<1>1. worker[w] \in Tasks /\ worker[w].job \in DOMAIN jobs
  BY DEF LedgerInv, WorkersTyped
<1>2. Task("commit", worker[w].job) \in Tasks /\ Resting \in Tasks
  BY <1>1 DEF Resting, Task, Tasks, Labels, Marks
<1> QED BY <1>1, <1>2 DEF Tasks, Labels, Marks

LEMMA MeterSafe ==
  ASSUME AdmissionAssumption, LedgerInv, NEW w \in Workers,
         Transcribe(w) \/ Meter(w) \/ Die(w)
  PROVE  LedgerInv'
<1> DEFINE at(label) == [worker[w] EXCEPT !.pc = label]
           committing == Task("commit", worker[w].job)
<1>0. /\ jobs \in Seq(JobRows) /\ sub \in [active : BOOLEAN, last : Int] /\ day \in Nat
      /\ worker \in [Workers -> Tasks] /\ worker[w] \in Tasks
      /\ worker[w].pc \in PastTheEvent => Metered(worker[w].job)
  BY DEF LedgerInv, RowsTyped, WorkersTyped, WorkersKnow
<1>t. worker[w].pc # "rest" =>
        /\ worker[w].job \in DOMAIN jobs
        /\ \A label \in Labels : at(label) \in Tasks /\ at(label).pc = label /\ at(label).job = worker[w].job
        /\ committing \in Tasks /\ committing.pc = "commit" /\ committing.job = worker[w].job
        /\ Resting \in Tasks /\ Resting.pc = "rest"
  BY TaskTyped DEF Task, Resting
<1> HIDE DEF at, committing
<1>p. sub' = sub \/ AskForPlan => sub' \in [active : BOOLEAN, last : Int]
  BY <1>0, PlanTyped DEF LedgerInv
<1>m. UNCHANGED events /\ Metered(worker[w].job) => MeteredThen(worker[w].job)
  BY DEF Metered, MeteredThen
<1>1. CASE Transcribe(w)
  <2>1. PICK j \in DOMAIN jobs : worker' = [worker EXCEPT ![w] = Task("lookup", j)]
    BY <1>1 DEF Transcribe
  <2>2. j \in Nat
    BY <1>0, LenProperties
  <2>3. Task("lookup", j) \in Tasks /\ Task("lookup", j).pc = "lookup" /\ Task("lookup", j).job = j
    BY <2>2 DEF Tasks, Labels, Marks, Task
  <2> QED BY <1>0, <1>1, <2>1, <2>3, WorkerSafe DEF Transcribe, web, usage, PastTheEvent
<1>2. CASE LookupEvent(w)
  <2>1. PICK label \in {"status", "record"} :
          worker' = [worker EXCEPT ![w] = at(label)] /\ (label = "status" => Metered(worker[w].job))
    BY <1>2 DEF LookupEvent, Go, at
  <2>2. worker[w].pc = "lookup" /\ UNCHANGED <<day, sub, jobs, thread, events>>
    BY <1>2 DEF LookupEvent, web, usage
  <2>3. at(label) \in Tasks /\ at(label).pc = label /\ at(label).job = worker[w].job
    BY <1>t, <2>2 DEF Labels
  <2> QED BY <1>0, <1>t, <1>m, <2>1, <2>2, <2>3, WorkerSafe DEF PastTheEvent
<1>3. CASE RecordEvent(w)
  <2>1. worker[w].pc = "record" /\ UNCHANGED <<day, sub, thread>>
    BY <1>3 DEF RecordEvent
  <2>2. CASE Metered(worker[w].job)
    <3>1. worker' = [worker EXCEPT ![w] = Resting] /\ UNCHANGED <<jobs, events>>
      BY <1>3, <2>2 DEF RecordEvent, Rest
    <3> QED BY <1>0, <1>t, <2>1, <3>1, WorkerSafe DEF PastTheEvent
  <2>3. CASE ~Metered(worker[w].job)
    <3> DEFINE event == [job |-> worker[w].job, minutes |-> jobs[worker[w].job].minutes, day |-> day]
    <3>1. /\ worker' = [worker EXCEPT ![w] = at("status")] /\ Transcribed(worker[w].job)
          /\ events' = events \cup {event}
      BY <1>3, <2>3 DEF RecordEvent, Go, at
    <3>2. MeteredThen(worker[w].job) /\ events \subseteq events'
      <4>1. event.job = worker[w].job
        OBVIOUS
      <4> HIDE DEF event
      <4> QED BY <3>1, <4>1 DEF MeteredThen
    <3> HIDE DEF event
    <3>3. at("status") \in Tasks /\ at("status").pc = "status" /\ at("status").job = worker[w].job
      BY <1>t, <2>1 DEF Labels
    <3> QED BY <1>0, <1>t, <2>1, <3>1, <3>2, <3>3, WorkerSafe DEF PastTheEvent
  <2> QED BY <2>2, <2>3
<1>4. CASE ReadStatus(w)
  <2>1. /\ worker[w].pc = "status" /\ UNCHANGED <<day, thread, events>> /\ AskForPlan
        /\ UNCHANGED jobs \/ Transcribed(worker[w].job)
    BY <1>4 DEF ReadStatus, usage
  <2>2. MeteredThen(worker[w].job)
    BY <1>0, <1>m, <2>1 DEF PastTheEvent
  <2> DEFINE mailing == [worker[w] EXCEPT !.pc = "mail", !.period = PeriodStart, !.mark = Mark]
  <2>3. worker' = [worker EXCEPT ![w] = committing] \/ worker' = [worker EXCEPT ![w] = mailing]
    BY <1>4 DEF ReadStatus, Finish, committing
  <2>4. mailing \in Tasks /\ mailing.pc = "mail" /\ mailing.job = worker[w].job
    <3>1. PeriodStart \in Int
      BY <1>0 DEF AdmissionAssumption, PeriodStart, MonthStart
    <3>2. Mark \in Marks \cup {0}
      BY DEF Mark, Marks
    <3> HIDE DEF Marks
    <3> QED BY <1>0, <3>1, <3>2 DEF Tasks, Labels
  <2> HIDE DEF mailing
  <2>5. CASE worker' = [worker EXCEPT ![w] = committing]
    BY <1>0, <1>p, <1>t, <2>1, <2>2, <2>5, WorkerSafe DEF PastTheEvent
  <2>6. CASE worker' = [worker EXCEPT ![w] = mailing]
    BY <1>0, <1>p, <1>t, <2>1, <2>2, <2>4, <2>6, WorkerSafe DEF PastTheEvent
  <2> QED BY <2>3, <2>5, <2>6
<1>5. CASE SendMail(w)
  <2>1. worker[w].pc = "mail" /\ UNCHANGED <<day, sub, jobs, thread, events>>
    BY <1>5 DEF SendMail, web
  <2>2. worker' = [worker EXCEPT ![w] = at("warned")] \/ worker' = [worker EXCEPT ![w] = committing]
    BY <1>5 DEF SendMail, Go, Finish, at, committing
  <2> QED BY <1>0, <1>m, <1>t, <2>1, <2>2, WorkerSafe DEF PastTheEvent, Labels
<1>6. CASE LookupWarning(w)
  <2>1. worker[w].pc = "warned" /\ UNCHANGED <<day, sub, jobs, thread, events>>
    BY <1>6 DEF LookupWarning, web, usage
  <2>2. worker' = [worker EXCEPT ![w] = at("warn")] \/ worker' = [worker EXCEPT ![w] = committing]
    BY <1>6 DEF LookupWarning, Go, Finish, at, committing
  <2> QED BY <1>0, <1>m, <1>t, <2>1, <2>2, WorkerSafe DEF PastTheEvent, Labels
<1>7. CASE RecordWarning(w)
  <2>1. /\ worker[w].pc = "warn" /\ UNCHANGED <<day, sub, thread, events>>
        /\ UNCHANGED jobs \/ Transcribed(worker[w].job)
    BY <1>7 DEF RecordWarning
  <2>2. worker' = [worker EXCEPT ![w] = Resting] \/ worker' = [worker EXCEPT ![w] = committing]
    BY <1>7 DEF RecordWarning, Rest, Finish, committing
  <2> QED BY <1>0, <1>m, <1>t, <2>1, <2>2, WorkerSafe DEF PastTheEvent
<1>8. CASE CommitTranscript(w)
  <2>1. /\ worker[w].pc = "commit" /\ UNCHANGED <<day, sub, thread, events>> /\ Transcribed(worker[w].job)
        /\ worker' = [worker EXCEPT ![w] = Resting]
    BY <1>8 DEF CommitTranscript, Rest, usage
  <2> QED BY <1>0, <1>m, <1>t, <2>1, WorkerSafe DEF PastTheEvent
<1>9. CASE Die(w)
  <2>1. /\ worker[w].pc # "rest" /\ UNCHANGED <<day, sub, jobs, thread, events>>
        /\ worker' = [worker EXCEPT ![w] = Resting]
    BY <1>9 DEF Die, Rest, web, usage
  <2> QED BY <1>0, <1>t, <2>1, WorkerSafe DEF PastTheEvent
<1> QED BY <1>1, <1>2, <1>3, <1>4, <1>5, <1>6, <1>7, <1>8, <1>9 DEF Meter

-----------------------------------------------------------------------------
LEMMA LedgerInductive == AdmissionAssumption /\ LedgerInv /\ [Next]_vars => LedgerInv'
<1> SUFFICES ASSUME AdmissionAssumption, LedgerInv, [Next]_vars PROVE LedgerInv'
  OBVIOUS
<1>1. CASE UNCHANGED vars
  BY <1>1 DEF LedgerInv, RowsTyped, WorkersTyped, WorkersKnow, TranscriptIsMetered, Metered,
              vars, web, usage
<1>2. CASE Next
  BY <1>2, OutsideSafe, WebSafe, MeterSafe DEF Next
<1> QED BY <1>1, <1>2

(* What a step may do to the events and the transcripts.                   *)
Records == \E j \in DOMAIN jobs, d \in Nat, m \in Nat :
  /\ ~Metered(j) /\ Transcribed(j)
  /\ events' = events \cup {[job |-> j, minutes |-> m, day |-> d]}
Saves == UNCHANGED events /\ \E j \in DOMAIN jobs : Metered(j) /\ Transcribed(j)
Spares ==
  /\ UNCHANGED events
  /\ \/ UNCHANGED jobs
     \/ \E row \in JobRows : ~row.transcript /\ jobs' = Append(jobs, row)
     \/ \E j \in DOMAIN jobs : jobs' = [jobs EXCEPT ![j].transcript = FALSE]

LEMMA StepsOfMeter ==
  ASSUME LedgerInv, NEW w \in Workers, Transcribe(w) \/ Meter(w) \/ Die(w)
  PROVE  Records \/ Saves \/ Spares
<1>0. /\ jobs \in Seq(JobRows) /\ day \in Nat
      /\ worker[w].pc # "rest" => worker[w].job \in DOMAIN jobs
      /\ worker[w].pc \in PastTheEvent => Metered(worker[w].job)
  BY DEF LedgerInv, RowsTyped, WorkersTyped, WorkersKnow
<1>1. CASE RecordEvent(w)
  <2>1. worker[w].job \in DOMAIN jobs
    BY <1>0, <1>1 DEF RecordEvent
  <2>2. jobs[worker[w].job].minutes \in Nat
    <3>1. worker[w].job \in 1..Len(jobs)
      BY <1>0, <2>1, LenProperties
    <3>2. jobs[worker[w].job] \in JobRows
      BY <1>0, <3>1, ElementOfSeq
    <3> QED BY <3>2 DEF JobRows
  <2> QED BY <1>0, <1>1, <2>1, <2>2 DEF RecordEvent, Records, Spares
<1>2. CASE Transcribe(w) \/ LookupEvent(w) \/ SendMail(w) \/ LookupWarning(w) \/ Die(w)
  BY <1>2 DEF Transcribe, LookupEvent, SendMail, LookupWarning, Die, web, usage, Spares
<1>3. CASE ReadStatus(w) \/ RecordWarning(w) \/ CommitTranscript(w)
  BY <1>0, <1>3 DEF ReadStatus, RecordWarning, CommitTranscript, usage, PastTheEvent, Saves, Spares
<1> QED BY <1>1, <1>2, <1>3 DEF Meter

LEMMA Steps ==
  ASSUME LedgerInv, [Next]_vars PROVE Records \/ Saves \/ Spares
<1>1. CASE UNCHANGED vars
  BY <1>1 DEF vars, web, usage, Spares
<1>2. CASE Subscribe \/ Tomorrow \/ Reset
  BY <1>2 DEF Subscribe, Tomorrow, Reset, web, usage, Spares
<1>3. ASSUME NEW t \in Threads, Request(t) \/ CheckQuota(t) \/ CheckAccess(t) \/ InsertJob(t)
      PROVE  Spares
  <2>1. CASE InsertJob(t)
    <3> DEFINE row == [minutes |-> thread[t].minutes, ground |-> thread[t].ground,
                       by |-> t, transcript |-> FALSE]
    <3>1. thread[t] \in Requests
      BY DEF LedgerInv, RowsTyped
    <3>2. row \in JobRows /\ ~row.transcript
      BY <3>1 DEF JobRows, Requests
    <3>3. jobs' = Append(jobs, row) /\ UNCHANGED events
      BY <2>1 DEF InsertJob, usage
    <3> QED BY <3>2, <3>3 DEF Spares
  <2> QED BY <1>3, <2>1 DEF Request, CheckQuota, CheckAccess, usage, Spares
<1> QED BY <1>1, <1>2, <1>3, StepsOfMeter DEF Next

(* What a step does to the jobs whose transcript is kept.                  *)
Kept == {j \in DOMAIN jobs : jobs[j].transcript}
Charged == {e.job : e \in events}

LEMMA KeptOne ==
  ASSUME LedgerInv, NEW j \in DOMAIN jobs, Transcribed(j) PROVE Kept' = Kept \cup {j}
BY SavedRow DEF LedgerInv, RowsTyped, Kept

LEMMA ThrownAway ==
  ASSUME LedgerInv, NEW j \in DOMAIN jobs, jobs' = [jobs EXCEPT ![j].transcript = FALSE]
  PROVE  Kept' = Kept \ {j}
<1>1. DOMAIN jobs' = DOMAIN jobs /\ \A i \in DOMAIN jobs : i # j => jobs'[i] = jobs[i]
  OBVIOUS
<1>2. jobs[j] \in JobRows
  BY LenProperties, ElementOfSeq DEF LedgerInv, RowsTyped
<1>3. ~jobs'[j].transcript
  BY <1>2 DEF JobRows
<1> QED BY <1>1, <1>3 DEF Kept

LEMMA KeptAppended ==
  ASSUME LedgerInv, NEW row \in JobRows, ~row.transcript, jobs' = Append(jobs, row)
  PROVE  Kept' = Kept
<1>1. jobs \in Seq(JobRows) /\ Len(jobs) \in Nat
  BY LenProperties DEF LedgerInv, RowsTyped
<1>2. /\ jobs' \in Seq(JobRows) /\ Len(jobs') = Len(jobs) + 1 /\ jobs'[Len(jobs) + 1] = row
      /\ \A j \in 1..Len(jobs) : jobs'[j] = jobs[j]
  BY <1>1, AppendProperties
<1>3. DOMAIN jobs = 1..Len(jobs) /\ DOMAIN jobs' = 1..Len(jobs) + 1
  BY <1>1, <1>2, LenProperties
<1> QED BY <1>1, <1>2, <1>3 DEF Kept

LEMMA StepIsCharge ==
  ASSUME LedgerInv, [Next]_vars PROVE [Charging!ChargesNext]_<<Charged, Kept>>
<1> USE DEF Charging!ChargesNext, Charging!Charge, Charging!Keep, Charging!Discard, Charged
<1>1. CASE Records
  <2>1. PICK j \in DOMAIN jobs, d \in Nat, m \in Nat :
          /\ ~Metered(j) /\ Transcribed(j)
          /\ events' = events \cup {[job |-> j, minutes |-> m, day |-> d]}
    BY <1>1 DEF Records
  <2>2. Kept' = Kept \cup {j}
    BY <2>1, KeptOne
  <2>3. Charged' = Charged \cup {j} /\ j \notin Charged
    <3> DEFINE event == [job |-> j, minutes |-> m, day |-> d]
    <3>1. event.job = j /\ events' = events \cup {event}
      BY <2>1
    <3> HIDE DEF event
    <3> QED BY <2>1, <3>1 DEF Metered
  <2> QED BY <2>2, <2>3 DEF Kept
<1>2. CASE Saves
  <2>1. PICK j \in DOMAIN jobs : Metered(j) /\ Transcribed(j)
    BY <1>2 DEF Saves
  <2>2. Kept' = Kept \cup {j}
    BY <2>1, KeptOne
  <2>3. Charged' = Charged /\ j \in Charged
    BY <1>2, <2>1 DEF Saves, Metered
  <2> QED BY <2>2, <2>3 DEF Kept
<1>3. CASE Spares
  <2>1. Charged' = Charged
    BY <1>3 DEF Spares
  <2>2. Kept' = Kept \/ \E j \in Kept : Kept' = Kept \ {j}
    <3>1. CASE UNCHANGED jobs
      BY <3>1 DEF Kept
    <3>2. ASSUME NEW j \in DOMAIN jobs, jobs' = [jobs EXCEPT ![j].transcript = FALSE]
          PROVE  Kept' = Kept \/ \E i \in Kept : Kept' = Kept \ {i}
      <4>1. Kept' = Kept \ {j}
        BY <3>2, ThrownAway
      <4> QED BY <4>1
    <3> QED BY <1>3, <3>1, <3>2, KeptAppended DEF Spares
  <2> QED BY <2>1, <2>2 DEF Kept
<1> QED BY <1>1, <1>2, <1>3, Steps

LEMMA OnceInductive ==
  ASSUME LedgerInv, MeteredOnce, [Next]_vars PROVE MeteredOnce'
BY Steps DEF Records, Saves, Spares, MeteredOnce, Metered

-----------------------------------------------------------------------------
(* However many workers transcribe a job and however often, its minutes    *)
(* count once (usage.py 33-53).                                            *)
THEOREM MeteringIsUnique == Spec => []MeteredOnce
<1>1. Init => MeteredOnce
  BY DEF Init, MeteredOnce
<1>2. LedgerInv /\ MeteredOnce /\ [Next]_vars => MeteredOnce'
  BY OnceInductive
<1> QED BY AdmissionAssumption, LedgerInit, LedgerInductive, <1>1, <1>2, PTL DEF Spec

(* The workers implement the ledger of module Charges: no charge is made   *)
(* twice or taken back, and no transcript is kept before its charge        *)
(* (usage.py 31-53, pipeline.py 843-854).                                  *)
THEOREM MeteringIsALedger == Spec => ChargedOnce
<1>1. Init => Charging!ChargesInit
  BY DEF Init, Charging!ChargesInit
<1>2. LedgerInv /\ [Next]_vars => [Charging!ChargesNext]_<<Charged, Kept>>
  BY StepIsCharge
<1> QED BY AdmissionAssumption, LedgerInit, LedgerInductive, <1>1, <1>2, PTL
        DEF Spec, ChargedOnce, Charging!ChargesSpec, Charged, Kept
-----------------------------------------------------------------------------
(* The trial.  A thread that was let in on trial has no job of the trial   *)
(* yet, and no thread has two, because nobody is let in on trial any more  *)
(* once there is a job, be it one that was not checked.                    *)
OfTrial(t) == {j \in DOMAIN jobs : jobs[j].ground = "trial" /\ jobs[j].by = t}
LetIn == {t \in Threads : thread[t].pc = "insert" /\ thread[t].ground = "trial"}
TrialsFit == \A t \in Threads :
  /\ \A i, j \in OfTrial(t) : i = j
  /\ t \in LetIn => OfTrial(t) = {}

(* Nothing is added. *)
LEMMA FewerTrials ==
  ASSUME TrialsFit, \A t \in Threads : OfTrial(t)' \subseteq OfTrial(t), LetIn' \subseteq LetIn
  PROVE  TrialsFit'
<1>1. \A t \in Threads : (\A i, j \in OfTrial(t)' : i = j) /\ (t \in LetIn' => OfTrial(t)' = {})
  BY DEF TrialsFit
<1> QED BY <1>1 DEF TrialsFit

(* Saving a transcript, or throwing it away, says nothing of the trial. *)
LEMMA TranscriptIsNoTrial ==
  ASSUME RowsTyped, UNCHANGED jobs \/ Reset \/ \E j \in DOMAIN jobs : Transcribed(j)
  PROVE  \A t \in Threads : OfTrial(t)' = OfTrial(t)
<1>1. CASE UNCHANGED jobs
  BY <1>1 DEF OfTrial
<1>2. CASE Reset \/ \E j \in DOMAIN jobs : Transcribed(j)
  <2>1. PICK j \in DOMAIN jobs, saved \in BOOLEAN : jobs' = [jobs EXCEPT ![j].transcript = saved]
    BY <1>2 DEF Reset, Transcribed
  <2>2. jobs[j] \in JobRows
    BY LenProperties, ElementOfSeq DEF RowsTyped
  <2>3. PICK row : row = [jobs[j] EXCEPT !.transcript = saved]
    OBVIOUS
  <2>4. row.ground = jobs[j].ground /\ row.by = jobs[j].by
    BY <2>2, <2>3 DEF JobRows
  <2>5. jobs' = [jobs EXCEPT ![j] = row]
    BY <2>1, <2>3
  <2> QED BY <2>4, <2>5 DEF OfTrial
<1> QED BY <1>1, <1>2

LEMMA AdmittedOn ==
  ASSUME thread \in [Threads -> Requests], NEW t \in Threads, NEW g \in Grounds, Admit(t, g)
  PROVE  \E r : thread' = [thread EXCEPT ![t] = r] /\ r.pc = "insert" /\ r.ground = g
<1>1. PICK r : r = [thread[t] EXCEPT !.pc = "insert", !.declared = 0, !.ground = g]
  OBVIOUS
<1>2. r.pc = "insert" /\ r.ground = g
  BY <1>1 DEF Requests
<1>3. thread' = [thread EXCEPT ![t] = r]
  BY <1>1 DEF Admit
<1> QED BY <1>2, <1>3

LEMMA TrialStep ==
  ASSUME AdmissionAssumption, LedgerInv, LedgerInv', TrialsFit, [Next]_vars
  PROVE  TrialsFit'
<1>0. RowsTyped /\ RowsTyped' /\ thread \in [Threads -> Requests] /\ WorkersTyped
  BY DEF LedgerInv, RowsTyped
<1>1. CASE UNCHANGED thread
  <2>1. LetIn' = LetIn
    BY <1>1 DEF LetIn
  <2>2. UNCHANGED jobs \/ Reset \/ \E j \in DOMAIN jobs : Transcribed(j)
    <3>1. CASE UNCHANGED vars
      BY <3>1 DEF vars, web
    <3>2. CASE Subscribe \/ Tomorrow \/ Reset
      BY <3>2 DEF Subscribe, Tomorrow, web
    <3>3. ASSUME NEW t \in Threads, Request(t) \/ CheckQuota(t) \/ CheckAccess(t) \/ InsertJob(t)
          PROVE  UNCHANGED jobs
      <4>1. CASE InsertJob(t)
        <5>1. thread[t].pc = "insert" /\ thread' = [thread EXCEPT ![t] = Idle]
          BY <4>1 DEF InsertJob
        <5>2. thread'[t].pc = "idle"
          BY <1>0, <5>1 DEF Idle
        <5> QED BY <1>1, <5>1, <5>2
      <4> QED BY <3>3, <4>1 DEF Request, CheckQuota, CheckAccess
    <3>4. ASSUME NEW w \in Workers, Transcribe(w) \/ Meter(w) \/ Die(w)
          PROVE  UNCHANGED jobs \/ \E j \in DOMAIN jobs : Transcribed(j)
      <4>1. worker[w].pc # "rest" => worker[w].job \in DOMAIN jobs
        BY <1>0 DEF WorkersTyped
      <4> QED BY <3>4, <4>1 DEF Transcribe, Meter, Die, LookupEvent, RecordEvent, ReadStatus, SendMail,
              LookupWarning, RecordWarning, CommitTranscript, web
    <3> QED BY <3>1, <3>2, <3>3, <3>4 DEF Next
  <2> QED BY <1>0, <2>1, <2>2, TranscriptIsNoTrial, FewerTrials
<1>2. ASSUME NEW t \in Threads, Request(t) \/ CheckQuota(t) PROVE TrialsFit'
  <2>1. UNCHANGED jobs
    BY <1>2 DEF Request, CheckQuota
  <2>2. PICK r : thread' = [thread EXCEPT ![t] = r] /\ ~(r.pc = "insert" /\ r.ground = "trial")
    <3>1. CASE Request(t)
      <4>1. PICK m \in Videos, d \in {0} \cup Videos, g \in Grounds : thread' = [thread EXCEPT ![t] =
              [pc |-> "quota", minutes |-> m, declared |-> d, ground |-> g]]
        BY <3>1 DEF Request, Grounds
      <4>2. PICK r : r = [pc |-> "quota", minutes |-> m, declared |-> d, ground |-> g]
        OBVIOUS
      <4>3. thread' = [thread EXCEPT ![t] = r] /\ r.pc = "quota"
        BY <4>1, <4>2
      <4> QED BY <4>3
    <3>2. CASE CheckQuota(t)
      <4>1. PICK r : r = [thread[t] EXCEPT !.pc = "access"]
        OBVIOUS
      <4>2. r.pc = "access" /\ Idle.pc = "idle"
        BY <1>0, <4>1 DEF Requests, Idle
      <4>3. \/ thread' = [thread EXCEPT ![t] = Idle] \/ thread' = [thread EXCEPT ![t] = r]
            \/ \E g \in Grounds \ {"trial"} : Admit(t, g)
        BY <1>0, <3>2, <4>1 DEF CheckQuota, Refuse, To, Grounds
      <4> QED BY <1>0, <4>2, <4>3, AdmittedOn
    <3> QED BY <1>2, <3>1, <3>2
  <2>3. LetIn' \subseteq LetIn
    BY <1>0, <2>2 DEF LetIn
  <2>4. \A u \in Threads : OfTrial(u)' = OfTrial(u)
    BY <2>1 DEF OfTrial
  <2> QED BY <1>0, <2>3, <2>4, FewerTrials
<1>3. ASSUME NEW t \in Threads, CheckAccess(t) PROVE TrialsFit'
  <2>1. UNCHANGED jobs
    BY <1>3 DEF CheckAccess
  <2>2. \A u \in Threads : OfTrial(u)' = OfTrial(u)
    BY <2>1 DEF OfTrial
  <2>3. CASE jobs = <<>>
    <3>1. DOMAIN jobs = {}
      BY <2>3
    <3>2. \A u \in Threads : OfTrial(u)' = {}
      BY <2>2, <3>1 DEF OfTrial
    <3> QED BY <3>2 DEF TrialsFit
  <2>4. CASE jobs # <<>>
    <3>1. PICK r : thread' = [thread EXCEPT ![t] = r] /\ ~(r.pc = "insert" /\ r.ground = "trial")
      <4>1. CASE ~sub.active /\ (TrialUsed \/ thread[t].declared > TrialMax)
        BY <1>3, <4>1 DEF CheckAccess, Refuse, Idle
      <4>2. CASE ~(~sub.active /\ (TrialUsed \/ thread[t].declared > TrialMax))
        <5>1. sub.active
          BY <2>4, <4>2 DEF TrialUsed
        <5>2. Admit(t, "plan")
          BY <1>3, <4>2, <5>1 DEF CheckAccess
        <5>3. "plan" \in Grounds
          BY DEF Grounds
        <5>4. PICK r : thread' = [thread EXCEPT ![t] = r] /\ r.pc = "insert" /\ r.ground = "plan"
          BY <1>0, <5>2, <5>3, AdmittedOn
        <5> QED BY <5>4
      <4> QED BY <4>1, <4>2
    <3>2. LetIn' \subseteq LetIn
      BY <1>0, <3>1 DEF LetIn
    <3> QED BY <1>0, <2>2, <3>2, FewerTrials
  <2> QED BY <2>3, <2>4
<1>4. ASSUME NEW t \in Threads, InsertJob(t) PROVE TrialsFit'
  <2>1. DOMAIN jobs = 1..Len(jobs) /\ Len(jobs) \in Nat
    BY <1>0, LenProperties DEF RowsTyped
  <2>2. PICK row : row = [minutes |-> thread[t].minutes, ground |-> thread[t].ground,
                          by |-> t, transcript |-> FALSE]
    OBVIOUS
  <2>3. row \in JobRows /\ row.ground = thread[t].ground /\ row.by = t
    BY <1>0, <2>2 DEF JobRows, Requests
  <2>4. thread[t].pc = "insert" /\ jobs' = Append(jobs, row) /\ thread' = [thread EXCEPT ![t] = Idle]
    BY <1>4, <2>2 DEF InsertJob
  <2>5. PICK n \in Nat : n = Len(jobs)
    BY <2>1
  <2>6. jobs \in Seq(JobRows)
    BY <1>0 DEF RowsTyped
  <2>7. Len(jobs') = n + 1 /\ jobs'[n + 1] = row /\ \A j \in 1..n : jobs'[j] = jobs[j]
    BY <2>3, <2>4, <2>5, <2>6, AppendProperties
  <2>8. DOMAIN jobs' = 1..(n + 1)
    BY <1>0, <2>7, LenProperties DEF RowsTyped
  <2>9. \A u \in Threads : OfTrial(u)' =
          IF u = t /\ row.ground = "trial" THEN OfTrial(u) \cup {n + 1} ELSE OfTrial(u)
    BY <2>1, <2>3, <2>5, <2>7, <2>8 DEF OfTrial
  <2>10. LetIn' = LetIn \ {t}
    BY <1>0, <2>4 DEF LetIn, Idle
  <2>11. CASE row.ground = "trial"
    <3>1. t \in LetIn
      BY <2>3, <2>4, <2>11 DEF LetIn
    <3>2. OfTrial(t)' = {n + 1}
      BY <2>9, <2>11, <3>1 DEF TrialsFit
    <3>3. \A u \in Threads : (\A i, j \in OfTrial(u)' : i = j) /\ (u \in LetIn' => OfTrial(u)' = {})
      BY <2>9, <2>10, <3>2 DEF TrialsFit
    <3> QED BY <3>3 DEF TrialsFit
  <2>12. CASE row.ground # "trial"
    <3>1. \A u \in Threads : OfTrial(u)' = OfTrial(u)
      BY <2>9, <2>12
    <3> QED BY <2>10, <3>1, FewerTrials
  <2> QED BY <2>11, <2>12
<1>5. UNCHANGED thread \/ \E t \in Threads : Request(t) \/ CheckQuota(t) \/ CheckAccess(t) \/ InsertJob(t)
  BY DEF Next, vars, web, Subscribe, Tomorrow, Reset, Transcribe, Meter, Die, LookupEvent, RecordEvent,
         ReadStatus, SendMail, LookupWarning, RecordWarning, CommitTranscript
<1> QED BY <1>1, <1>2, <1>3, <1>4, <1>5

(* On the routes that check the trial, a workspace without a plan gets one *)
(* job, and only requests that overlap get more: no thread gets two,       *)
(* whatever requests of the other route do in between.                     *)
THEOREM TrialIsBounded == Spec => []TrialBounded
<1>1. Init => LedgerInv /\ TrialsFit
  <2> SUFFICES ASSUME Init PROVE TrialsFit
    BY AdmissionAssumption, LedgerInit
  <2>1. DOMAIN jobs = {}
    BY DEF Init
  <2> QED BY <2>1 DEF TrialsFit, OfTrial
<1>2. LedgerInv /\ TrialsFit /\ [Next]_vars => LedgerInv' /\ TrialsFit'
  BY AdmissionAssumption, LedgerInductive, TrialStep
<1>3. LedgerInv /\ TrialsFit => TrialBounded
  <2> SUFFICES ASSUME LedgerInv, TrialsFit, NEW i \in DOMAIN jobs, NEW j \in DOMAIN jobs,
                      jobs[i].ground = "trial", jobs[j].ground = "trial", jobs[i].by = jobs[j].by
               PROVE  i = j
    BY DEF TrialBounded, OneEach
  <2>1. jobs[i] \in JobRows
    BY LenProperties, ElementOfSeq DEF LedgerInv, RowsTyped
  <2>2. jobs[i].by \in Threads
    BY <2>1 DEF JobRows
  <2>3. i \in OfTrial(jobs[i].by) /\ j \in OfTrial(jobs[i].by)
    BY DEF OfTrial
  <2> QED BY <2>2, <2>3 DEF TrialsFit
<1> QED BY <1>1, <1>2, <1>3, PTL DEF Spec

-----------------------------------------------------------------------------
(* The warnings.  While one is not recorded, it was sent by the workers    *)
(* that are about to record it and by those that died; once it is, no      *)
(* worker but those that had read the status before sends it again.        *)
Mailing(x) == {w \in Workers : worker[w].pc = "mail" /\ Warning(w) = x}
Sent(x) == {w \in Workers : worker[w].pc \in {"warned", "warn"} /\ Warning(w) = x}
Few(x) ==
  /\ x \in warned => mails[x] + Cardinality(Mailing(x)) <= Cardinality(Workers) + deaths
  /\ x \notin warned => mails[x] <= Cardinality(Sent(x)) + deaths
FewWarnings ==
  /\ deaths \in Nat /\ \A x \in DOMAIN mails : mails[x] \in Nat /\ Few(x)

LEMMA SendersFinite ==
  ASSUME AdmissionAssumption, NEW x
  PROVE  /\ IsFiniteSet(Mailing(x)) /\ IsFiniteSet(Sent(x))
         /\ Cardinality(Mailing(x)) \in Nat /\ Cardinality(Sent(x)) \in Nat /\ Cardinality(Workers) \in Nat
         /\ Cardinality(Sent(x)) + Cardinality(Mailing(x)) <= Cardinality(Workers)
         /\ IsFiniteSet(Mailing(x)') /\ IsFiniteSet(Sent(x)')
         /\ Cardinality(Mailing(x)') \in Nat /\ Cardinality(Sent(x)') \in Nat
<1>1. IsFiniteSet(Workers) /\ Mailing(x) \subseteq Workers /\ Sent(x) \subseteq Workers
  BY DEF AdmissionAssumption, Mailing, Sent
<1>2. /\ IsFiniteSet(Mailing(x)) /\ IsFiniteSet(Sent(x))
      /\ Cardinality(Mailing(x)) \in Nat /\ Cardinality(Sent(x)) \in Nat /\ Cardinality(Workers) \in Nat
  BY <1>1, FS_Subset, FS_CardinalityType
<1>3. Sent(x) \cap Mailing(x) = {}
  BY DEF Mailing, Sent
<1>4. Cardinality(Sent(x) \cap Mailing(x)) = 0
  BY <1>3, FS_EmptySet
<1>5. Cardinality(Sent(x) \cup Mailing(x)) <= Cardinality(Workers)
  BY <1>1, FS_Subset
<1>6. Cardinality(Sent(x) \cup Mailing(x)) = Cardinality(Sent(x)) + Cardinality(Mailing(x))
  <2>1. Cardinality(Sent(x) \cup Mailing(x))
          = Cardinality(Sent(x)) + Cardinality(Mailing(x)) - Cardinality(Sent(x) \cap Mailing(x))
    BY <1>2, FS_Union
  <2> QED BY <1>2, <1>4, <2>1
<1>7. Mailing(x)' \subseteq Workers /\ Sent(x)' \subseteq Workers
  BY DEF Mailing, Sent
<1>8. /\ IsFiniteSet(Mailing(x)') /\ IsFiniteSet(Sent(x)')
      /\ Cardinality(Mailing(x)') \in Nat /\ Cardinality(Sent(x)') \in Nat
  BY <1>1, <1>7, FS_Subset, FS_CardinalityType
<1> QED BY <1>2, <1>5, <1>6, <1>8

(* Nobody sends or records this warning. *)
LEMMA NothingSent ==
  ASSUME AdmissionAssumption, NEW x \in DOMAIN mails, mails[x] \in Nat, deaths \in Nat, deaths' \in Nat, Few(x),
         mails'[x] = mails[x], deaths <= deaths', x \in warned' <=> x \in warned,
         x \in warned => Mailing(x)' \subseteq Mailing(x),
         x \notin warned => Sent(x) \subseteq Sent(x)'
  PROVE  Few(x)'
<1>1. /\ IsFiniteSet(Mailing(x)) /\ IsFiniteSet(Sent(x)')
      /\ Cardinality(Mailing(x)) \in Nat /\ Cardinality(Sent(x)) \in Nat /\ Cardinality(Workers) \in Nat
      /\ Cardinality(Mailing(x)') \in Nat /\ Cardinality(Sent(x)') \in Nat
  BY SendersFinite
<1>2. x \in warned => Cardinality(Mailing(x)') <= Cardinality(Mailing(x))
  BY <1>1, FS_Subset
<1>3. x \notin warned => Cardinality(Sent(x)) <= Cardinality(Sent(x)')
  BY <1>1, FS_Subset
<1> QED BY <1>1, <1>2, <1>3 DEF Few

(* A worker goes on to another step. *)
Moves(w, r) == worker \in [Workers -> Tasks] /\ worker' = [worker EXCEPT ![w] = r]
About(r, x) == <<r.period, r.mark>> = x

LEMMA MovedSenders ==
  ASSUME NEW w \in Workers, NEW r, Moves(w, r), NEW x
  PROVE  /\ Mailing(x)' = IF r.pc = "mail" /\ About(r, x) THEN Mailing(x) \cup {w} ELSE Mailing(x) \ {w}
         /\ Sent(x)' = IF r.pc \in {"warned", "warn"} /\ About(r, x) THEN Sent(x) \cup {w} ELSE Sent(x) \ {w}
         /\ w \in Mailing(x) <=> worker[w].pc = "mail" /\ Warning(w) = x
         /\ w \in Sent(x) <=> worker[w].pc \in {"warned", "warn"} /\ Warning(w) = x
<1>1. worker'[w] = r /\ \A u \in Workers : u # w => worker'[u] = worker[u]
  BY DEF Moves
<1>2. Warning(w)' = <<r.period, r.mark>> /\ \A u \in Workers : u # w => Warning(u)' = Warning(u)
  BY <1>1 DEF Warning
<1>3. Mailing(x)' = IF r.pc = "mail" /\ About(r, x) THEN Mailing(x) \cup {w} ELSE Mailing(x) \ {w}
  BY <1>1, <1>2 DEF Mailing, About
<1>4. Sent(x)' = IF r.pc \in {"warned", "warn"} /\ About(r, x) THEN Sent(x) \cup {w} ELSE Sent(x) \ {w}
  BY <1>1, <1>2 DEF Sent, About
<1> QED BY <1>3, <1>4 DEF Mailing, Sent

(* A worker that is at no warning goes on, perhaps to one that is not      *)
(* recorded, or one that is at one gives it up where it was recorded.      *)
LEMMA QuietMove ==
  ASSUME AdmissionAssumption, FewWarnings, NEW w \in Workers, NEW r, Moves(w, r),
         UNCHANGED <<mails, warned, deaths>>,
         r.pc = "mail" => <<r.period, r.mark>> \notin warned,
         worker[w].pc \in {"warned", "warn"} =>
           Warning(w) \in warned \/ (r.pc \in {"warned", "warn"} /\ About(r, Warning(w)))
  PROVE  FewWarnings'
<1> SUFFICES ASSUME NEW x \in DOMAIN mails PROVE Few(x)'
  BY DEF FewWarnings
<1>1. mails[x] \in Nat /\ deaths \in Nat /\ Few(x)
  BY DEF FewWarnings
<1>2. x \in warned => Mailing(x)' \subseteq Mailing(x)
  BY MovedSenders DEF About
<1>3. x \notin warned => Sent(x) \subseteq Sent(x)'
  BY MovedSenders DEF About
<1> QED BY <1>1, <1>2, <1>3, NothingSent

LEMMA SendMailFew ==
  ASSUME AdmissionAssumption, LedgerInv, FewWarnings, NEW w \in Workers, SendMail(w)
  PROVE  FewWarnings'
<1>0. worker \in [Workers -> Tasks] /\ worker[w].pc = "mail" /\ UNCHANGED <<warned, deaths>> /\ deaths \in Nat
  BY DEF LedgerInv, WorkersTyped, SendMail, FewWarnings
<1>1. CASE UNCHANGED mails /\ Finish(w)
  <2>1. PICK r : r = Task("commit", worker[w].job)
    OBVIOUS
  <2>2. r.pc = "commit" /\ Moves(w, r)
    BY <1>0, <1>1, <2>1 DEF Finish, Moves, Task
  <2> QED BY <1>0, <1>1, <2>2, QuietMove
<1>2. CASE mails' = [mails EXCEPT ![Warning(w)] = @ + 1] /\ Go(w, "warned")
  <2>1. PICK r : r = [worker[w] EXCEPT !.pc = "warned"]
    OBVIOUS
  <2>2. r.pc = "warned" /\ <<r.period, r.mark>> = Warning(w)
    BY <1>0, <2>1 DEF Tasks, Warning
  <2>3. Moves(w, r)
    BY <1>0, <1>2, <2>1 DEF Go, Moves
  <2>4. DOMAIN mails' = DOMAIN mails
    BY <1>2
  <2> SUFFICES ASSUME NEW x \in DOMAIN mails PROVE mails'[x] \in Nat /\ Few(x)'
    BY <1>0, <2>4 DEF FewWarnings
  <2>5. mails[x] \in Nat /\ Few(x)
    BY DEF FewWarnings
  <2>6. CASE x # Warning(w)
    <3>1. mails'[x] = mails[x]
      BY <1>2, <2>6
    <3>2. Mailing(x)' \subseteq Mailing(x) /\ Sent(x) \subseteq Sent(x)'
      BY <1>0, <2>2, <2>3, <2>6, MovedSenders DEF About
    <3> QED BY <1>0, <2>5, <3>1, <3>2, NothingSent
  <2>7. CASE x = Warning(w)
    <3>1. mails'[x] = mails[x] + 1
      BY <1>2, <2>7
    <3>2. /\ Mailing(x)' = Mailing(x) \ {w} /\ w \in Mailing(x)
          /\ Sent(x)' = Sent(x) \cup {w} /\ w \notin Sent(x)
      BY <1>0, <2>2, <2>3, <2>7, MovedSenders DEF About
    <3>3. /\ IsFiniteSet(Mailing(x)) /\ IsFiniteSet(Sent(x))
          /\ Cardinality(Mailing(x)) \in Nat /\ Cardinality(Sent(x)) \in Nat /\ Cardinality(Workers) \in Nat
      BY SendersFinite
    <3>4. Cardinality(Mailing(x)') = Cardinality(Mailing(x)) - 1
      <4>1. Cardinality(Mailing(x) \ {w}) = Cardinality(Mailing(x)) - 1
        BY <3>2, <3>3, FS_RemoveElement
      <4> QED BY <3>2, <4>1
    <3>5. Cardinality(Sent(x)') = Cardinality(Sent(x)) + 1
      <4>1. Cardinality(Sent(x) \cup {w}) = Cardinality(Sent(x)) + 1
        BY <3>2, <3>3, FS_AddElement
      <4> QED BY <3>2, <4>1
    <3> QED BY <1>0, <2>5, <3>1, <3>3, <3>4, <3>5 DEF Few
  <2> QED BY <2>6, <2>7
<1> QED BY <1>1, <1>2 DEF SendMail

LEMMA RecordWarningFew ==
  ASSUME AdmissionAssumption, LedgerInv, FewWarnings, NEW w \in Workers, RecordWarning(w)
  PROVE  FewWarnings'
<1>0. worker \in [Workers -> Tasks] /\ worker[w].pc = "warn" /\ UNCHANGED <<mails, deaths>> /\ deaths \in Nat
  BY DEF LedgerInv, WorkersTyped, RecordWarning, FewWarnings
<1>1. CASE Warning(w) \in warned
  <2>1. Moves(w, Resting) /\ UNCHANGED warned /\ Resting.pc = "rest"
    BY <1>0, <1>1 DEF RecordWarning, Rest, Moves, Resting, Task
  <2> QED BY <1>0, <1>1, <2>1, QuietMove
<1>2. CASE Warning(w) \notin warned
  <2>1. PICK r : r = Task("commit", worker[w].job)
    OBVIOUS
  <2>2. r.pc = "commit" /\ Moves(w, r) /\ warned' = warned \cup {Warning(w)}
    BY <1>0, <1>2, <2>1 DEF RecordWarning, Finish, Moves, Task
  <2> SUFFICES ASSUME NEW x \in DOMAIN mails PROVE Few(x)'
    BY <1>0 DEF FewWarnings
  <2>3. mails[x] \in Nat /\ Few(x)
    BY DEF FewWarnings
  <2>4. Mailing(x)' \subseteq Mailing(x)
    BY <2>2, MovedSenders
  <2>5. CASE x # Warning(w)
    <3>1. Sent(x) \subseteq Sent(x)'
      BY <2>2, <2>5, MovedSenders
    <3>2. x \in warned' <=> x \in warned
      BY <2>2, <2>5
    <3> QED BY <1>0, <2>3, <2>4, <3>1, <3>2, NothingSent
  <2>6. CASE x = Warning(w)
    <3>1. mails[x] <= Cardinality(Sent(x)) + deaths /\ x \in warned'
      BY <1>2, <2>2, <2>3, <2>6 DEF Few
    <3>2. /\ IsFiniteSet(Mailing(x)) /\ Cardinality(Sent(x)) + Cardinality(Mailing(x)) <= Cardinality(Workers)
          /\ Cardinality(Mailing(x)) \in Nat /\ Cardinality(Sent(x)) \in Nat /\ Cardinality(Workers) \in Nat
          /\ Cardinality(Mailing(x)') \in Nat
      BY SendersFinite
    <3>3. Cardinality(Mailing(x)') <= Cardinality(Mailing(x))
      BY <2>4, <3>2, FS_Subset
    <3>4. mails[x] + Cardinality(Mailing(x)') <= Cardinality(Workers) + deaths
      BY <1>0, <2>3, <3>1, <3>2, <3>3
    <3> QED BY <1>0, <3>1, <3>4 DEF Few
  <2> QED BY <2>5, <2>6
<1> QED BY <1>1, <1>2

LEMMA DieFew ==
  ASSUME AdmissionAssumption, LedgerInv, FewWarnings, NEW w \in Workers, Die(w)
  PROVE  FewWarnings'
<1>0. /\ worker \in [Workers -> Tasks] /\ UNCHANGED <<mails, warned>> /\ deaths \in Nat
      /\ deaths' = deaths + 1 /\ Moves(w, Resting) /\ Resting.pc = "rest"
  BY DEF LedgerInv, WorkersTyped, Die, FewWarnings, usage, Rest, Moves, Resting, Task
<1> SUFFICES ASSUME NEW x \in DOMAIN mails PROVE Few(x)'
  BY <1>0 DEF FewWarnings
<1>1. mails[x] \in Nat /\ Few(x)
  BY DEF FewWarnings
<1>2. Mailing(x)' = Mailing(x) \ {w} /\ Sent(x)' = Sent(x) \ {w}
  BY <1>0, MovedSenders
<1>3. /\ IsFiniteSet(Mailing(x)) /\ IsFiniteSet(Sent(x))
      /\ Cardinality(Mailing(x)) \in Nat /\ Cardinality(Sent(x)) \in Nat /\ Cardinality(Workers) \in Nat
      /\ Cardinality(Mailing(x)') \in Nat /\ Cardinality(Sent(x)') \in Nat
  BY SendersFinite
<1>4. Cardinality(Mailing(x)') <= Cardinality(Mailing(x))
  BY <1>2, <1>3, FS_Subset
<1>5. Cardinality(Sent(x)') >= Cardinality(Sent(x)) - 1
  <2>1. Cardinality(Sent(x) \ {w}) = IF w \in Sent(x) THEN Cardinality(Sent(x)) - 1 ELSE Cardinality(Sent(x))
    BY <1>3, FS_RemoveElement
  <2>2. Cardinality(Sent(x) \ {w}) >= Cardinality(Sent(x)) - 1
    BY <1>3, <2>1
  <2> QED BY <1>2, <2>2
<1> QED BY <1>0, <1>1, <1>3, <1>4, <1>5 DEF Few

LEMMA MeterFew ==
  ASSUME AdmissionAssumption, LedgerInv, FewWarnings, NEW w \in Workers, Transcribe(w) \/ Meter(w) \/ Die(w)
  PROVE  FewWarnings'
<1>0. worker \in [Workers -> Tasks] /\ worker[w] \in Tasks
  BY DEF LedgerInv, WorkersTyped
<1>t. \A label, j : Task(label, j).pc = label /\ Resting.pc = "rest"
  BY DEF Resting, Task
<1>1. CASE Transcribe(w)
  <2>1. PICK j : Moves(w, Task("lookup", j))
    BY <1>0, <1>1 DEF Transcribe, Moves
  <2> QED BY <1>1, <1>t, <2>1, QuietMove DEF Transcribe, usage
<1>2. CASE LookupEvent(w)
  <2>1. PICK label \in {"status", "record"} : worker' = [worker EXCEPT ![w].pc = label]
    BY <1>2 DEF LookupEvent, Go
  <2>2. PICK r : r = [worker[w] EXCEPT !.pc = label]
    OBVIOUS
  <2>3. Moves(w, r) /\ r.pc = label
    BY <1>0, <2>1, <2>2 DEF Moves, Tasks
  <2> QED BY <1>2, <2>3, QuietMove DEF LookupEvent, usage
<1>3. CASE RecordEvent(w)
  <2>1. CASE Rest(w)
    <3>1. Moves(w, Resting)
      BY <1>0, <2>1 DEF Moves, Rest
    <3> QED BY <1>3, <1>t, <3>1, QuietMove DEF RecordEvent
  <2>2. CASE Go(w, "status")
    <3>1. PICK r : r = [worker[w] EXCEPT !.pc = "status"]
      OBVIOUS
    <3>2. Moves(w, r) /\ r.pc = "status"
      BY <1>0, <2>2, <3>1 DEF Moves, Tasks, Go
    <3> QED BY <1>3, <3>2, QuietMove DEF RecordEvent
  <2> QED BY <1>3, <2>1, <2>2 DEF RecordEvent
<1>4. CASE ReadStatus(w)
  <2>1. worker[w].pc = "status" /\ UNCHANGED <<mails, warned, deaths>>
    BY <1>4 DEF ReadStatus, usage
  <2>2. CASE Finish(w)
    <3>1. PICK j : Moves(w, Task("commit", j))
      BY <1>0, <2>2 DEF Moves, Finish
    <3>2. PICK r : r = Task("commit", j)
      OBVIOUS
    <3>3. Moves(w, r) /\ r.pc = "commit"
      BY <1>t, <3>1, <3>2
    <3> QED BY <2>1, <3>3, QuietMove
  <2>3. CASE ~Finish(w)
    <3>1. PICK p, m : p = PeriodStart /\ m = Mark
      OBVIOUS
    <3>2. <<p, m>> \notin warned /\ worker' = [worker EXCEPT ![w].pc = "mail", ![w].period = p, ![w].mark = m]
      BY <1>4, <2>3, <3>1 DEF ReadStatus
    <3>3. PICK r : r = [worker[w] EXCEPT !.pc = "mail", !.period = p, !.mark = m]
      OBVIOUS
    <3>4. r.pc = "mail" /\ r.period = p /\ r.mark = m
      BY <1>0, <3>3 DEF Tasks
    <3>5. Moves(w, r)
      BY <1>0, <3>2, <3>3 DEF Moves
    <3> QED BY <2>1, <3>2, <3>4, <3>5, QuietMove
  <2> QED BY <2>2, <2>3
<1>5. CASE LookupWarning(w)
  <2>1. UNCHANGED <<mails, warned, deaths>>
    BY <1>5 DEF LookupWarning, usage
  <2>2. CASE Warning(w) \in warned
    <3>1. PICK j : Moves(w, Task("commit", j))
      BY <1>0, <1>5, <2>2 DEF Moves, Finish, LookupWarning
    <3> QED BY <1>t, <2>1, <2>2, <3>1, QuietMove
  <2>3. CASE Warning(w) \notin warned
    <3>1. PICK r : r = [worker[w] EXCEPT !.pc = "warn"]
      OBVIOUS
    <3>2. r.pc = "warn" /\ About(r, Warning(w))
      BY <1>0, <3>1 DEF Tasks, About, Warning
    <3>3. Moves(w, r)
      BY <1>0, <1>5, <2>3, <3>1 DEF Moves, Go, LookupWarning
    <3> QED BY <2>1, <3>2, <3>3, QuietMove
  <2> QED BY <2>2, <2>3
<1>6. CASE CommitTranscript(w)
  <2>1. Moves(w, Resting) /\ worker[w].pc = "commit" /\ UNCHANGED <<mails, warned, deaths>>
    BY <1>0, <1>6 DEF CommitTranscript, Rest, Moves, usage
  <2> QED BY <1>t, <2>1, QuietMove
<1> QED BY <1>1, <1>2, <1>3, <1>4, <1>5, <1>6, SendMailFew, RecordWarningFew, DieFew DEF Meter

(* A warning is sent in a period by each worker at most once, whatever the *)
(* interleaving of those that check, send and record it, and once more for *)
(* each that dies in between.                                              *)
THEOREM WarningsAreBounded == Spec => []WarningsBounded
<1>1. Init => LedgerInv /\ FewWarnings
  <2> SUFFICES ASSUME Init PROVE FewWarnings
    BY AdmissionAssumption, LedgerInit
  <2>1. deaths = 0 /\ warned = {} /\ \A x \in DOMAIN mails : mails[x] = 0
    BY DEF Init
  <2>2. \A x : Cardinality(Sent(x)) \in Nat
    BY AdmissionAssumption, SendersFinite
  <2> QED BY <2>1, <2>2 DEF FewWarnings, Few
<1>2. LedgerInv /\ FewWarnings /\ [Next]_vars => LedgerInv' /\ FewWarnings'
  <2> SUFFICES ASSUME LedgerInv, FewWarnings, [Next]_vars PROVE FewWarnings'
    BY AdmissionAssumption, LedgerInductive
  <2>1. CASE \E w \in Workers : Transcribe(w) \/ Meter(w) \/ Die(w)
    BY <2>1, AdmissionAssumption, MeterFew
  <2>2. CASE ~\E w \in Workers : Transcribe(w) \/ Meter(w) \/ Die(w)
    <3>1. UNCHANGED <<worker, mails, warned, deaths>>
      BY <2>2 DEF Next, vars, usage, Subscribe, Tomorrow, Reset, Request, CheckQuota, CheckAccess, InsertJob
    <3> QED BY <3>1 DEF FewWarnings, Few, Mailing, Sent, Warning
  <2> QED BY <2>1, <2>2
<1>3. LedgerInv /\ FewWarnings => WarningsBounded
  <2> SUFFICES ASSUME FewWarnings, NEW x \in DOMAIN mails PROVE mails[x] <= Cardinality(Workers) + deaths
    BY DEF WarningsBounded
  <2>1. mails[x] \in Nat /\ deaths \in Nat /\ Few(x)
    BY DEF FewWarnings
  <2>2. /\ Cardinality(Mailing(x)) \in Nat /\ Cardinality(Sent(x)) \in Nat /\ Cardinality(Workers) \in Nat
        /\ Cardinality(Sent(x)) + Cardinality(Mailing(x)) <= Cardinality(Workers)
    BY AdmissionAssumption, SendersFinite
  <2> QED BY <2>1, <2>2 DEF Few
<1> QED BY <1>1, <1>2, <1>3, PTL DEF Spec
=============================================================================
