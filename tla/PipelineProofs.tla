--------------------------- MODULE PipelineProofs ---------------------------
(***************************************************************************)
(* Proofs about the pipeline, for every value of the constants.            *)
(***************************************************************************)
EXTENDS Pipeline, FiniteSetTheorems, TLAPS

-----------------------------------------------------------------------------
(* The locals of a runner. *)

LEMMA IdleLocals == Idle \in Locals
BY DEF Idle, Locals, Runner, PCs, JobPCs, SectionPCs

(* A runner whose program counter moves keeps its other locals.             *)
LEMMA GotoLocals ==
  ASSUME NEW r \in Runners, NEW p \in PCs, run \in [Runners -> Locals], Goto(r, p),
         p \in JobPCs => run[r].pc \in JobPCs,
         p = "begin" => run[r].cur # 0,
         p \in {"acquire", "prepare", "check"} => run[r].cur # LLM
  PROVE  run' \in [Runners -> Locals]
<1>1. run[r] \in Locals
  OBVIOUS
<1>2. [run[r] EXCEPT !.pc = p] \in Locals
  BY <1>1 DEF Locals, Runner
<1>3. run' = [run EXCEPT ![r] = [run[r] EXCEPT !.pc = p]]
  BY DEF Goto
<1> QED BY <1>2, <1>3

(* The frames of nested calls of _kick_next_pending_job that go on with     *)
(* jobs of E.                                                               *)
Frame(E) == [todo : SUBSET E, left : Nat \ {0}]

(* A call of process_job_pipeline sets them all. *)
LEMMA EntryLocals ==
  ASSUME NEW j \in Jobs, NEW start \in 0 .. 5, NEW force \in BOOLEAN, NEW fs \in Seq(Frame(Jobs))
  PROVE  Entry(j, start, force, fs) \in Locals
BY DEF Entry, Frame, Locals, Runner, PCs, JobPCs, SectionPCs, LLM

LEMMA UnforcedEntry ==
  ASSUME NEW j \in Jobs, NEW fs \in Seq(Frame(Jobs))
  PROVE  Entry(j, 0, FALSE, fs) \in Locals
BY DEF Entry, Frame, Locals, Runner, PCs, JobPCs, SectionPCs, LLM

LEMMA CallLocals ==
  ASSUME NEW r \in Runners, NEW j \in Jobs, NEW start \in 0 .. 5, NEW force \in BOOLEAN,
         run \in [Runners -> Locals], Call(r, j, start, force)
  PROVE  run' \in [Runners -> Locals]
<1>1. run[r].frames \in Seq(Frame(Jobs))
  BY DEF Locals, Runner, Frame
<1> QED BY <1>1, EntryLocals DEF Call

(* The worker loop only changes its program counter and its list. *)
LEMMA WorkerLocals ==
  ASSUME NEW l \in Locals, NEW p \in {"idle", "claim"}, NEW js \in SUBSET Jobs
  PROVE  /\ [l EXCEPT !.pc = p, !.jobs = js] \in Locals
         /\ [l EXCEPT !.jobs = js, !.pc = p] \in Locals
BY DEF Locals, Runner, PCs, JobPCs, SectionPCs

(* A run that ends early keeps its job and its step. *)
LEMMA AbortLocals ==
  ASSUME NEW l \in Locals, l.pc \in JobPCs,
         NEW e \in {"error", "canceled", "wrapped", "exhausted"}
  PROVE  [l EXCEPT !.pc = "abort", !.err = e] \in Locals
<1> DEFINE m == [l EXCEPT !.pc = "abort", !.err = e]
<1>1. "abort" \in PCs
  BY DEF PCs, JobPCs, SectionPCs
<1>2. m \in Runner
  BY <1>1 DEF Locals, Runner
<1>3. m.pc = "abort" /\ m.job = l.job /\ l.job \in Jobs
  BY DEF Locals, Runner
<1>4. m \in Locals
  <2> HIDE DEF m
  <2> QED BY <1>2, <1>3 DEF Locals
<1> QED BY <1>4

(* The loop over the steps only changes its program counter and its step. *)
LEMMA StepLocals ==
  ASSUME NEW l \in Locals, l.pc \in JobPCs, NEW s \in StepIx
  PROVE  [l EXCEPT !.pc = "begin", !.cur = s] \in Locals
<1> DEFINE m == [l EXCEPT !.pc = "begin", !.cur = s]
<1>1. s \in 0 .. 5 /\ s # 0 /\ "begin" \in PCs
  BY DEF StepIx, PCs, JobPCs, SectionPCs
<1>2. m \in Runner
  BY <1>1 DEF Locals, Runner
<1>3. m.pc = "begin" /\ m.cur = s /\ m.job = l.job
  BY DEF Locals, Runner
<1>4. l.job \in Jobs
  BY DEF Locals
<1>5. /\ m.pc \in JobPCs => m.job \in Jobs
      /\ m.pc = "begin" => m.cur # 0
      /\ m.pc \in {"acquire", "prepare", "check"} => m.cur # LLM
  BY <1>1, <1>3, <1>4
<1>6. m \in Locals
  <2> HIDE DEF m
  <2> QED BY <1>2, <1>5 DEF Locals
<1> QED BY <1>6

(* NextStep never leaves the steps. *)
LEMMA NextStepType ==
  ASSUME PipelineAssumption, NEW r \in Runners, run[r] \in Locals, At(r, "check")
  PROVE  NextStep(r) \in StepIx
BY DEF PipelineAssumption, Locals, Runner, At, NextStep, StepIx, LLM

LEMMA KickFrames ==
  ASSUME PipelineAssumption, NEW r \in Runners, run[r] \in Locals,
         NEW E, run[r].frames \in Seq(Frame(E)), Pending \subseteq E, Kick(r)
  PROVE  \E fs \in Seq(Frame(E)) :
           run' = [run EXCEPT ![r] = [run[r] EXCEPT !.pc = "launch", !.frames = fs]]
<1> DEFINE slots == MaxConcurrentJobs - Cardinality(Active)
           todo == Pending \ {Job(r)}
           fs == IF slots > 0 /\ todo # {}
                 THEN Append(run[r].frames, [todo |-> todo, left |-> slots])
                 ELSE run[r].frames
<1>2. slots \in Int
  <2>1. Active \subseteq Jobs /\ IsFiniteSet(Jobs)
    BY DEF Active, PipelineAssumption
  <2>2. Cardinality(Active) \in Nat
    BY <2>1, FS_Subset, FS_CardinalityType
  <2> QED BY <2>2 DEF PipelineAssumption
<1>3. fs \in Seq(Frame(E))
  <2>1. CASE slots > 0 /\ todo # {}
    <3>1. [todo |-> todo, left |-> slots] \in Frame(E)
      BY <1>2, <2>1 DEF Frame
    <3> QED BY <2>1, <3>1
  <2>2. CASE ~(slots > 0 /\ todo # {})
    BY <2>2
  <2> QED BY <2>1, <2>2
<1>4. run' = [run EXCEPT ![r] = [run[r] EXCEPT !.pc = "launch", !.frames = fs]]
  BY DEF Kick
<1> QED BY <1>3, <1>4

LEMMA LaunchFrames ==
  ASSUME NEW r \in Runners, NEW E, run[r].frames \in Seq(Frame(E)), Launch(r)
  PROVE  \/ run' = [run EXCEPT ![r] = Idle]
         \/ \E j \in E, fs \in Seq(Frame(E)) :
              run' = [run EXCEPT ![r] = Entry(j, 0, FALSE, fs)]
<1> DEFINE fs == run[r].frames
<1>1. CASE fs = <<>>
  BY <1>1 DEF Launch
<1>2. CASE fs # <<>>
  <2> DEFINE top == fs[Len(fs)]
             outer == SubSeq(fs, 1, Len(fs) - 1)
             rest(j) == [todo |-> top.todo \ {j}, left |-> top.left - 1]
             calls(j) == IF rest(j).left = 0 \/ rest(j).todo = {} THEN outer
                         ELSE Append(outer, rest(j))
  <2>1. PICK j \in top.todo : run' = [run EXCEPT ![r] = Entry(j, 0, FALSE, calls(j))]
    BY <1>2 DEF Launch
  <2>2. top \in Frame(E) /\ outer \in Seq(Frame(E))
    BY <1>2
  <2>3. j \in E /\ calls(j) \in Seq(Frame(E))
    <3>1. j \in E /\ rest(j).todo \subseteq E /\ top.left - 1 \in Nat
      BY <2>2 DEF Frame
    <3>2. CASE top.left - 1 = 0 \/ rest(j).todo = {}
      BY <2>2, <3>1, <3>2
    <3>3. CASE top.left - 1 # 0 /\ rest(j).todo # {}
      <4>1. rest(j) \in Frame(E)
        BY <3>1, <3>3 DEF Frame
      <4> QED BY <2>2, <3>1, <3>3, <4>1
    <3> QED BY <3>2, <3>3
  <2> QED BY <2>1, <2>3
<1> QED BY <1>1, <1>2

LEMMA LaunchLocals ==
  ASSUME NEW r \in Runners, run \in [Runners -> Locals], Launch(r)
  PROVE  run' \in [Runners -> Locals]
<1>1. run[r].frames \in Seq(Frame(Jobs))
  BY DEF Locals, Runner, Frame
<1>2. CASE run' = [run EXCEPT ![r] = Idle]
  BY <1>2, IdleLocals
<1>3. ASSUME NEW j \in Jobs, NEW fs \in Seq(Frame(Jobs)),
             run' = [run EXCEPT ![r] = Entry(j, 0, FALSE, fs)]
      PROVE  run' \in [Runners -> Locals]
  BY <1>3, UnforcedEntry
<1>4. \/ run' = [run EXCEPT ![r] = Idle]
      \/ \E j \in Jobs, fs \in Seq(Frame(Jobs)) :
           run' = [run EXCEPT ![r] = Entry(j, 0, FALSE, fs)]
  BY <1>1, LaunchFrames
<1> QED BY <1>2, <1>3, <1>4

-----------------------------------------------------------------------------
(* Type correctness. *)

LEMMA LockType ==
  ASSUME PipelineAssumption, DbOK, NEW r \in Runners, NEW j \in Jobs, Lock(ProcOf[r], j)
  PROVE  /\ owner' \in [Jobs -> Procs \cup {Nobody, Gone}]
         /\ stale' \in [Jobs -> BOOLEAN]
BY DEF PipelineAssumption, DbOK, Lock

LEMMA MarkRunningType ==
  ASSUME DbOK, NEW j \in Jobs, NEW s \in StepIx, MarkRunning(j, s)
  PROVE  /\ status' \in [Jobs -> Statuses]
         /\ row' \in [Jobs -> [StepIx -> RowStatuses]]
         /\ attempts' \in [Jobs -> [StepIx -> Nat]]
<1>1. PIPELINE_STEPS[s] \in Statuses
  BY DEF StepIx, PIPELINE_STEPS, Statuses, ACTIVE_PIPELINE_JOB_STATUSES
<1> QED BY <1>1 DEF DbOK, MarkRunning, RowStatuses

(* One step of a runner. *)
LEMMA RunnerTypes ==
  ASSUME PipelineAssumption, TypeOK, NEW r \in Runners, RunnerStep(r)
  PROVE  TypeOK'
<1>0. /\ run[r] \in Locals /\ run \in [Runners -> Locals]
      /\ run[r].pc \in JobPCs => Job(r) \in Jobs
      /\ DbOK
  BY DEF TypeOK, Locals, Job
<1>1. CASE StartRecovery(r)
  <2>1. run' \in [Runners -> Locals]
    BY <1>0, <1>1, ZenonT(60) DEF StartRecovery, StaleActive, Active, At, Locals, Runner, PCs, JobPCs, SectionPCs
  <2>2. DbOK'
    BY <1>0, <1>1 DEF StartRecovery, DbOK, db
  <2> QED BY <2>1, <2>2, <1>1 DEF TypeOK, StartRecovery
<1>2. CASE FinishRecovery(r)
  <2>1. run' \in [Runners -> Locals]
    BY <1>0, <1>2, ZenonT(60) DEF FinishRecovery, At, Locals, Runner, PCs, JobPCs, SectionPCs
  <2>2. DbOK'
    BY <1>0, <1>2 DEF FinishRecovery, DbOK, Interrupted, Statuses, RowStatuses
  <2> QED BY <2>1, <2>2, <1>2 DEF TypeOK, FinishRecovery
<1>3. CASE Poll(r)
  <2>1. run' \in [Runners -> Locals]
    <3> DEFINE p == IF Pending = {} THEN "idle" ELSE "claim"
               l == [Idle EXCEPT !.pc = p, !.jobs = Pending]
    <3>1. Pending \subseteq Jobs /\ p \in {"idle", "claim"}
      BY DEF Pending
    <3>2. l \in Locals
      <4> HIDE DEF p
      <4> QED BY <3>1, IdleLocals, WorkerLocals
    <3> QED BY <1>0, <1>3, <3>2 DEF Poll
  <2>2. DbOK'
    BY <1>0, <1>3 DEF Poll, DbOK, db
  <2> QED BY <2>1, <2>2, <1>3 DEF TypeOK, Poll
<1>4. CASE Claim(r)
  <2>1. run' \in [Runners -> Locals]
    <3>1. PICK j \in run[r].jobs :
            \/ Call(r, j, 0, FALSE)
            \/ LET rest == run[r].jobs \ {j} IN
               run' = [run EXCEPT ![r].jobs = rest,
                                  ![r].pc = IF rest = {} THEN "idle" ELSE "claim"]
      BY <1>4 DEF Claim
    <3>2. j \in Jobs
      BY <1>0 DEF Locals, Runner
    <3>3. CASE Call(r, j, 0, FALSE)
      <4>1. run[r].frames \in Seq(Frame(Jobs))
        BY <1>0 DEF Locals, Runner, Frame
      <4> QED BY <1>0, <3>2, <3>3, <4>1, UnforcedEntry DEF Call
    <3>4. CASE ~Call(r, j, 0, FALSE)
      <4> DEFINE rest == run[r].jobs \ {j}
                 p == IF rest = {} THEN "idle" ELSE "claim"
                 l == [run[r] EXCEPT !.jobs = rest, !.pc = p]
      <4>1. rest \subseteq Jobs /\ p \in {"idle", "claim"}
        BY <1>0 DEF Locals, Runner
      <4>2. l \in Locals
        <5> HIDE DEF p, rest
        <5> QED BY <1>0, <4>1, WorkerLocals
      <4>3. run' = [run EXCEPT ![r] = l]
        BY <1>0, <3>1, <3>4
      <4> QED BY <1>0, <4>2, <4>3
    <3> QED BY <3>3, <3>4
  <2>2. DbOK'
    <3>1. PICK j \in run[r].jobs : Lock(ProcOf[r], j) \/ UNCHANGED <<owner, stale>>
      BY <1>4 DEF Claim
    <3>2. j \in Jobs
      BY <1>0 DEF Locals, Runner
    <3>3. UNCHANGED <<status, have, row, attempts, billed>>
      BY <1>4 DEF Claim
    <3> QED BY <1>0, <3>1, <3>2, <3>3, LockType DEF DbOK
  <2> QED BY <2>1, <2>2, <1>4 DEF TypeOK, Claim
<1>5. CASE Acquire(r)
  <2>1. run' \in [Runners -> Locals]
    BY <1>0, <1>5, GotoLocals DEF Acquire, At, Locals, Runner, PCs, JobPCs, SectionPCs
  <2>2. DbOK'
    BY <1>0, <1>5, LockType DEF Acquire, DbOK, At, JobPCs
  <2> QED BY <2>1, <2>2, <1>5 DEF TypeOK, Acquire
<1>6. CASE Prepare(r)
  <2>1. run' \in [Runners -> Locals]
    <3>1. CASE Goto(r, "release") \/ Goto(r, "check")
      BY <1>0, <1>6, <3>1, GotoLocals DEF Prepare, At, Locals, Runner, PCs, JobPCs, SectionPCs
    <3>2. CASE ~(Goto(r, "release") \/ Goto(r, "check"))
      <4> DEFINE l == [run[r] EXCEPT !.pc = "abort", !.err = "exhausted"]
      <4>1. l \in Locals
        <5>1. run[r] \in Locals /\ run[r].pc \in JobPCs
          BY <1>0, <1>6 DEF Prepare, At, JobPCs, SectionPCs
        <5> QED BY <5>1, AbortLocals
      <4>2. run' = [run EXCEPT ![r] = l]
        BY <1>0, <1>6, <3>2 DEF Prepare
      <4> QED BY <1>0, <4>1, <4>2
    <3> QED BY <3>1, <3>2
  <2>2. DbOK'
    BY <1>0, <1>6 DEF Prepare, DbOK, Statuses
  <2> QED BY <2>1, <2>2, <1>6 DEF TypeOK, Prepare
<1>7. CASE Check(r)
  <2>1. run' \in [Runners -> Locals]
    <3>1. NextStep(r) \in StepIx
      BY <1>0, <1>7, NextStepType DEF Check
    <3> DEFINE l == [run[r] EXCEPT !.pc = "abort", !.err = "canceled"]
               m == [run[r] EXCEPT !.pc = "begin", !.cur = NextStep(r)]
    <3>2. run[r].pc \in JobPCs
      BY <1>7 DEF Check, At, JobPCs, SectionPCs
    <3>3. l \in Locals
      BY <1>0, <3>2, AbortLocals
    <3>4. m \in Locals
      BY <1>0, <3>1, <3>2, StepLocals
    <3>5. run' = [run EXCEPT ![r] = l] \/ run' = [run EXCEPT ![r] = m]
      BY <1>0, <1>7 DEF Check
    <3> QED BY <1>0, <3>3, <3>4, <3>5
  <2>2. DbOK'
    BY <1>0, <1>7 DEF Check, DbOK, db
  <2> QED BY <2>1, <2>2, <1>7 DEF TypeOK, Check
<1>8. CASE Skip(r)
  <2>1. run' \in [Runners -> Locals]
    BY <1>0, <1>8, GotoLocals DEF Skip, At, AfterStep, LLM, Locals, Runner, PCs, JobPCs, SectionPCs
  <2>2. DbOK'
    BY <1>0, <1>8 DEF Skip, DbOK, RowStatuses
  <2> QED BY <2>1, <2>2, <1>8 DEF TypeOK, Skip
<1>9. CASE Exhaust(r)
  <2>1. run' \in [Runners -> Locals]
    <3>1. run[r] \in Locals /\ run[r].pc \in JobPCs
      BY <1>0, <1>9 DEF Exhaust, At, JobPCs, SectionPCs
    <3>2. [run[r] EXCEPT !.pc = "abort", !.err = "exhausted"] \in Locals
      BY <3>1, AbortLocals
    <3>3. run' = [run EXCEPT ![r] = [run[r] EXCEPT !.pc = "abort", !.err = "exhausted"]]
      BY <1>9 DEF Exhaust
    <3> QED BY <1>0, <3>2, <3>3
  <2>2. DbOK'
    BY <1>0, <1>9 DEF Exhaust, DbOK, RowStatuses, Statuses
  <2> QED BY <2>1, <2>2, <1>9 DEF TypeOK, Exhaust
<1>10. CASE Start(r)
  <2>1. run' \in [Runners -> Locals]
    BY <1>0, <1>10, GotoLocals DEF Start, At, Locals, Runner, PCs, JobPCs, SectionPCs
  <2>2. DbOK'
    <3>1. Job(r) \in Jobs /\ run[r].cur \in StepIx
      BY <1>0, <1>10 DEF Start, At, Locals, Runner, JobPCs, SectionPCs, StepIx
    <3> QED BY <1>0, <1>10, <3>1, MarkRunningType DEF Start, DbOK
  <2> QED BY <2>1, <2>2, <1>10 DEF TypeOK, Start
<1>11. CASE Download(r)
  <2>1. run' \in [Runners -> Locals]
    BY <1>0, <1>11, GotoLocals DEF Download, At, Working, Locals, Runner, PCs, JobPCs, SectionPCs
  <2>2. DbOK'
    BY <1>0, <1>11 DEF Download, Add, DbOK, Artifacts, At, Working, JobPCs, SectionPCs
  <2> QED BY <2>1, <2>2, <1>11 DEF TypeOK, Download
<1>12. CASE Subtitle(r)
  <2>1. run' \in [Runners -> Locals]
    BY <1>0, <1>12, GotoLocals DEF Subtitle, At, Working, Locals, Runner, PCs, JobPCs, SectionPCs
  <2>2. DbOK'
    BY <1>0, <1>12 DEF Subtitle, Add, DbOK, Artifacts, At, Working, JobPCs, SectionPCs
  <2> QED BY <2>1, <2>2, <1>12 DEF TypeOK, Subtitle
<1>13. CASE ExtractAudio(r)
  <2>1. run' \in [Runners -> Locals]
    BY <1>0, <1>13, GotoLocals DEF ExtractAudio, At, Working, Locals, Runner, PCs, JobPCs, SectionPCs
  <2>2. DbOK'
    BY <1>0, <1>13 DEF ExtractAudio, Add, DbOK, Artifacts, At, Working, JobPCs, SectionPCs
  <2> QED BY <2>1, <2>2, <1>13 DEF TypeOK, ExtractAudio
<1>14. CASE Transcribe(r)
  <2>1. run' \in [Runners -> Locals]
    BY <1>0, <1>14, GotoLocals DEF Transcribe, At, Working, Locals, Runner, PCs, JobPCs, SectionPCs
  <2>2. DbOK'
    BY <1>0, <1>14 DEF Transcribe, Add, Bill, DbOK, Artifacts, At, Working, JobPCs, SectionPCs
  <2> QED BY <2>1, <2>2, <1>14 DEF TypeOK, Transcribe
<1>15. CASE DetectNiche(r)
  <2>1. run' \in [Runners -> Locals]
    BY <1>0, <1>15, GotoLocals DEF DetectNiche, At, Working, Locals, Runner, PCs, JobPCs, SectionPCs
  <2>2. DbOK'
    BY <1>0, <1>15 DEF DetectNiche, Add, DbOK, Artifacts, At, Working, JobPCs, SectionPCs
  <2> QED BY <2>1, <2>2, <1>15 DEF TypeOK, DetectNiche
<1>16. CASE GenerateCandidates(r)
  <2>1. run' \in [Runners -> Locals]
    BY <1>0, <1>16, GotoLocals DEF GenerateCandidates, At, Working, Locals, Runner, PCs, JobPCs, SectionPCs
  <2>2. DbOK'
    BY <1>0, <1>16 DEF GenerateCandidates, Add, DbOK, Artifacts, At, Working, JobPCs, SectionPCs
  <2> QED BY <2>1, <2>2, <1>16 DEF TypeOK, GenerateCandidates
<1>17. CASE EnrichWithLlm(r)
  <2>1. run' \in [Runners -> Locals]
    BY <1>0, <1>17, GotoLocals DEF EnrichWithLlm, At, Working, Locals, Runner, PCs, JobPCs, SectionPCs
  <2>2. DbOK'
    BY <1>0, <1>17 DEF EnrichWithLlm, Add, DbOK, Artifacts, At, Working, JobPCs, SectionPCs
  <2> QED BY <2>1, <2>2, <1>17 DEF TypeOK, EnrichWithLlm
<1>18. CASE SkipLlm(r)
  <2>1. run' \in [Runners -> Locals]
    <3>1. CASE At(r, "breaker")
      BY <1>0, <1>18, <3>1, GotoLocals DEF SkipLlm, At, Locals, Runner, PCs, JobPCs, SectionPCs
    <3>2. CASE ~At(r, "breaker")
      BY <1>0, <1>18, <3>2, IdleLocals DEF SkipLlm
    <3> QED BY <3>1, <3>2
  <2>2. DbOK'
    <3>1. have' \in [Jobs -> SUBSET Artifacts]
      BY <1>0, <1>18 DEF SkipLlm, DbOK
    <3>2. row' \in [Jobs -> [StepIx -> RowStatuses]]
      <4>1. row' = row \/ row' = [row EXCEPT ![Job(r)][LLM] = "completed"]
        BY <1>18 DEF SkipLlm
      <4> QED BY <1>0, <4>1 DEF DbOK, RowStatuses
    <3> QED BY <1>0, <1>18, <3>1, <3>2 DEF SkipLlm, DbOK
  <2> QED BY <2>1, <2>2, <1>18 DEF TypeOK, SkipLlm
<1>19. CASE ProgressCanceled(r)
  <2>1. PICK e \in {"canceled", "wrapped"} :
              run' = [run EXCEPT ![r].pc = "abort", ![r].err = e]
    BY <1>19 DEF ProgressCanceled
  <2>2. run[r] \in Locals /\ run[r].pc \in JobPCs
    BY <1>0, <1>19 DEF ProgressCanceled, At, Working, JobPCs, SectionPCs
  <2>3. run' \in [Runners -> Locals]
    <3>1. [run[r] EXCEPT !.pc = "abort", !.err = e] \in Locals
      BY <2>2, AbortLocals
    <3>2. run' = [run EXCEPT ![r] = [run[r] EXCEPT !.pc = "abort", !.err = e]]
      BY <2>1
    <3> QED BY <1>0, <3>1, <3>2
  <2>4. DbOK'
    BY <1>0, <1>19 DEF ProgressCanceled, DbOK, db
  <2> QED BY <2>3, <2>4, <1>19 DEF TypeOK, ProgressCanceled
<1>20. CASE Fail(r)
  <2>1. run' \in [Runners -> Locals]
    <3>1. run[r] \in Locals /\ run[r].pc \in JobPCs
      BY <1>0, <1>20 DEF Fail, JobPCs, SectionPCs
    <3>2. [run[r] EXCEPT !.pc = "abort", !.err = "error"] \in Locals
      BY <3>1, AbortLocals
    <3>3. run' = [run EXCEPT ![r] = [run[r] EXCEPT !.pc = "abort", !.err = "error"]]
      BY <1>20 DEF Fail
    <3> QED BY <1>0, <3>2, <3>3
  <2>2. DbOK'
    BY <1>0, <1>20 DEF Fail, DbOK, db
  <2> QED BY <2>1, <2>2, <1>20 DEF TypeOK, Fail
<1>21. CASE Complete(r)
  <2>1. run' \in [Runners -> Locals]
    BY <1>0, <1>21, GotoLocals DEF Complete, At, AfterStep, LLM, Locals, Runner, PCs, JobPCs, SectionPCs
  <2>2. DbOK'
    BY <1>0, <1>21 DEF Complete, DbOK, RowStatuses
  <2> QED BY <2>1, <2>2, <1>21 DEF TypeOK, Complete
<1>22. CASE Finish(r)
  <2>1. run' \in [Runners -> Locals]
    BY <1>0, <1>22, GotoLocals DEF Finish, At, Locals, Runner, PCs, JobPCs, SectionPCs
  <2>2. DbOK'
    BY <1>0, <1>22 DEF Finish, DbOK, Statuses
  <2> QED BY <2>1, <2>2, <1>22 DEF TypeOK, Finish
<1>23. CASE SnapshotStorage(r)
  <2>1. run' \in [Runners -> Locals]
    BY <1>0, <1>23, GotoLocals DEF SnapshotStorage, At, Locals, Runner, PCs, JobPCs, SectionPCs
  <2>2. DbOK'
    BY <1>0, <1>23 DEF SnapshotStorage, DbOK, db
  <2> QED BY <2>1, <2>2, <1>23 DEF TypeOK, SnapshotStorage
<1>24. CASE Abort(r)
  <2>1. run' \in [Runners -> Locals]
    BY <1>0, <1>24, GotoLocals DEF Abort, At, Locals, Runner, PCs, JobPCs, SectionPCs
  <2>2. DbOK'
    <3>1. status' \in [Jobs -> Statuses]
      BY <1>0, <1>24 DEF Abort, AbortStatus, DbOK, Statuses
    <3>2. row' \in [Jobs -> [StepIx -> RowStatuses]]
      <4>1. \/ row' = row
            \/ row' = [row EXCEPT ![Job(r)][run[r].cur] = "exhausted"]
            \/ row' = [row EXCEPT ![Job(r)][run[r].cur] = "failed"]
        BY <1>24 DEF Abort, MarkFailed
      <4> QED BY <1>0, <4>1 DEF DbOK, RowStatuses
    <3> QED BY <1>0, <1>24, <3>1, <3>2 DEF Abort, DbOK
  <2> QED BY <2>1, <2>2, <1>24 DEF TypeOK, Abort
<1>25. CASE CancelMark(r)
  <2>1. run' \in [Runners -> Locals]
    BY <1>0, <1>25, GotoLocals DEF CancelMark, At, Locals, Runner, PCs, JobPCs, SectionPCs
  <2>2. DbOK'
    BY <1>0, <1>25 DEF CancelMark, DbOK, Statuses
  <2> QED BY <2>1, <2>2, <1>25 DEF TypeOK, CancelMark
<1>26. CASE Release(r)
  <2>1. run' \in [Runners -> Locals]
    BY <1>0, <1>26, GotoLocals DEF Release, At, Locals, Runner, PCs, JobPCs, SectionPCs
  <2>2. DbOK'
    BY <1>0, <1>26 DEF Release, DbOK
  <2> QED BY <2>1, <2>2, <1>26 DEF TypeOK, Release
<1>27. CASE Kick(r)
  <2>1. run' \in [Runners -> Locals]
    <3>1. PICK fs \in Seq(Frame(Jobs)) :
            run' = [run EXCEPT ![r] = [run[r] EXCEPT !.pc = "launch", !.frames = fs]]
      <4>1. run[r].frames \in Seq(Frame(Jobs)) /\ Pending \subseteq Jobs
        BY <1>0 DEF Locals, Runner, Frame, Pending
      <4> QED BY <1>0, <1>27, <4>1, KickFrames
    <3>2. [run[r] EXCEPT !.pc = "launch", !.frames = fs] \in Locals
      <4>1. run[r] \in Runner /\ fs \in Seq([todo : SUBSET Jobs, left : Nat \ {0}])
        BY <1>0 DEF Frame, Locals
      <4>2. PICK l : l = [run[r] EXCEPT !.pc = "launch", !.frames = fs]
        OBVIOUS
      <4>3. l \in Runner /\ l.pc = "launch"
        BY <4>1, <4>2 DEF Runner, PCs
      <4> QED BY <4>2, <4>3 DEF Locals, JobPCs, SectionPCs
    <3> QED BY <1>0, <3>1, <3>2
  <2>2. DbOK'
    BY <1>0, <1>27 DEF Kick, DbOK, db
  <2> QED BY <2>1, <2>2, <1>27 DEF TypeOK, Kick
<1>28. CASE Launch(r)
  <2>1. run' \in [Runners -> Locals]
    BY <1>0, <1>28, LaunchLocals
  <2>2. DbOK'
    BY <1>0, <1>28 DEF Launch, DbOK, db
  <2> QED BY <2>1, <2>2, <1>28 DEF TypeOK, Launch
<1>29. CASE RecursionLimit(r)
  <2>1. run' \in [Runners -> Locals]
    BY <1>0, <1>29, IdleLocals DEF RecursionLimit
  <2>2. DbOK'
    BY <1>0, <1>29 DEF RecursionLimit, DbOK, db
  <2> QED BY <2>1, <2>2, <1>29 DEF TypeOK, RecursionLimit
<1>30. CASE ProcessLocalJob(r)
  <2>1. run' \in [Runners -> Locals]
    <3>1. CASE Goto(r, "local_audio") \/ Goto(r, "local_transcript")
      BY <1>0, <1>30, <3>1, GotoLocals DEF ProcessLocalJob, At, Locals, Runner, PCs, JobPCs, SectionPCs
    <3>2. CASE ~(Goto(r, "local_audio") \/ Goto(r, "local_transcript"))
      BY <1>0, <1>30, <3>2, IdleLocals DEF ProcessLocalJob
    <3> QED BY <3>1, <3>2
  <2>2. DbOK'
    BY <1>0, <1>30 DEF ProcessLocalJob, Add, DbOK, Artifacts, Statuses, ACTIVE_PIPELINE_JOB_STATUSES
  <2> QED BY <2>1, <2>2, <1>30 DEF TypeOK, ProcessLocalJob
<1> QED BY <1>1, <1>2, <1>3, <1>4, <1>5, <1>6, <1>7, <1>8, <1>9, <1>10, <1>11, <1>12, <1>13, <1>14, <1>15, <1>16, <1>17, <1>18, <1>19, <1>20, <1>21, <1>22, <1>23, <1>24, <1>25, <1>26, <1>27, <1>28, <1>29, <1>30 DEF RunnerStep

(* A request that hands a job to a thread of the web process. *)
LEMMA EnqueueLocals ==
  ASSUME PipelineAssumption, run \in [Runners -> Locals], NEW j \in Jobs,
         NEW start \in 0 .. 5, NEW force \in BOOLEAN, Enqueue(j, start, force)
  PROVE  run' \in [Runners -> Locals]
<1>1. CASE UNCHANGED run
  BY <1>1
<1>2. CASE \E r \in Web : Call(r, j, start, force)
  BY <1>2, CallLocals DEF Web
<1> QED BY <1>1, <1>2 DEF Enqueue

LEMMA WebLocals ==
  ASSUME NEW j \in Jobs, NEW p \in {"local", "kick", "skip_llm"}
  PROVE  [Idle EXCEPT !.pc = p, !.job = j] \in Locals
<1> DEFINE m == [Idle EXCEPT !.pc = p, !.job = j]
<1>1. p \in PCs
  BY DEF PCs, JobPCs
<1>2. m \in Runner
  BY <1>1, IdleLocals DEF Locals, Runner
<1>3. m.pc = p /\ m.job = j
  BY IdleLocals DEF Locals, Runner
<1>4. /\ m.pc \in JobPCs => m.job \in Jobs
      /\ m.pc = "begin" => m.cur # 0
      /\ m.pc \in {"acquire", "prepare", "check"} => m.cur # LLM
  BY <1>3
<1>6. m \in Locals
  <2> HIDE DEF m
  <2> QED BY <1>2, <1>4 DEF Locals
<1> QED BY <1>6

LEMMA InsertType ==
  ASSUME PipelineAssumption, DbOK, NEW j \in Jobs, NEW files \in SUBSET {"video"}, Insert(j, files),
         UNCHANGED <<owner, stale, row, attempts>>
  PROVE  DbOK'
<1>1. Seeded \subseteq Artifacts
  BY DEF PipelineAssumption, Seeded, Outputs, Artifacts, StepIx
<1>2. files \cup Seeded \in SUBSET Artifacts
  BY <1>1 DEF Artifacts
<1> QED BY <1>2 DEF Insert, DbOK, Statuses

LEMMA ResetType ==
  ASSUME DbOK, NEW j \in Jobs, NEW s \in StepIx, NEW reset \in BOOLEAN, ResetFrom(j, s, reset),
         UNCHANGED <<owner, stale, billed>>
  PROVE  DbOK'
<1>1. row' \in [Jobs -> [StepIx -> RowStatuses]]
  BY DEF ResetFrom, DbOK, RowStatuses
<1>2. attempts' \in [Jobs -> [StepIx -> Nat]]
  BY DEF ResetFrom, DbOK
<1>3. have' \in [Jobs -> SUBSET Artifacts] /\ status' \in [Jobs -> Statuses]
  BY DEF ResetFrom, DbOK, Statuses
<1> QED BY <1>1, <1>2, <1>3 DEF DbOK

(* One request. *)
LEMMA UserTypes ==
  ASSUME PipelineAssumption, TypeOK, NEW j \in Jobs, User(j)
  PROVE  TypeOK'
<1>0. /\ run \in [Runners -> Locals] /\ DbOK /\ Idle \in Locals
      /\ 0 \in 0 .. 5 /\ FALSE \in BOOLEAN /\ TRUE \in BOOLEAN
      /\ \A s \in FirstStep .. LLM : s \in StepIx /\ s \in 0 .. 5
  BY IdleLocals DEF TypeOK, PipelineAssumption, StepIx, LLM
<1>1. CASE CreateJob(j)
  <2>1. run' \in [Runners -> Locals]
    BY <1>0, <1>1, EnqueueLocals DEF CreateJob
  <2>2. DbOK'
    <3>1. PICK files \in SUBSET {"video"} : Insert(j, files)
      BY <1>1 DEF CreateJob
    <3> QED BY <1>0, <1>1, <3>1, InsertType DEF CreateJob
  <2> QED BY <2>1, <2>2, <1>1 DEF TypeOK, CreateJob
<1>2. CASE CreateLocalJob(j)
  <2>1. run' \in [Runners -> Locals]
    BY <1>0, <1>2, WebLocals DEF CreateLocalJob, Web
  <2>2. DbOK'
    BY <1>0, <1>2, InsertType DEF CreateLocalJob
  <2> QED BY <2>1, <2>2, <1>2 DEF TypeOK, CreateLocalJob
<1>3. CASE CancelJob(j)
  <2>1. run' \in [Runners -> Locals]
    BY <1>0, <1>3, WebLocals DEF CancelJob, Web
  <2>2. DbOK'
    BY <1>0, <1>3 DEF CancelJob, DbOK, Statuses
  <2> QED BY <2>1, <2>2, <1>3 DEF TypeOK, CancelJob, UserOp
<1>4. CASE AnalyzeWithoutLlm(j)
  <2>1. run' \in [Runners -> Locals]
    BY <1>0, <1>4, WebLocals DEF AnalyzeWithoutLlm, Web
  <2>2. DbOK'
    <3>1. LLM \in StepIx
      BY DEF LLM, StepIx
    <3> QED BY <1>0, <1>4, <3>1, MarkRunningType DEF AnalyzeWithoutLlm, DbOK
  <2> QED BY <2>1, <2>2, <1>4 DEF TypeOK, AnalyzeWithoutLlm, UserOp
<1>5. CASE DeleteJob(j)
  <2>1. DbOK'
    BY <1>0, <1>5 DEF DeleteJob, DbOK, Statuses
  <2> QED BY <2>1, <1>0, <1>5 DEF TypeOK, DeleteJob, UserOp
<1>6. ASSUME NEW force \in BOOLEAN, RetryJob(j, force)
      PROVE  TypeOK'
  <2>1. run' \in [Runners -> Locals]
    BY <1>0, <1>6, EnqueueLocals DEF RetryJob
  <2>2. DbOK'
    BY <1>0, <1>6 DEF RetryJob, DbOK, Statuses
  <2> QED BY <2>1, <2>2, <1>6 DEF TypeOK, RetryJob, UserOp
<1>7. ASSUME NEW s \in FirstStep .. LLM, NEW force \in BOOLEAN, RetryStep(j, s, force)
      PROVE  TypeOK'
  <2>1. run' \in [Runners -> Locals]
    BY <1>0, <1>7, EnqueueLocals DEF RetryStep
  <2>2. DbOK'
    BY <1>0, <1>7, ResetType DEF RetryStep
  <2> QED BY <2>1, <2>2, <1>7 DEF TypeOK, RetryStep, UserOp
<1>8. ASSUME NEW s \in FirstStep .. LLM, ResetStep(j, s)
      PROVE  TypeOK'
  <2>1. DbOK'
    BY <1>0, <1>8, ResetType DEF ResetStep
  <2> QED BY <2>1, <1>0, <1>8 DEF TypeOK, ResetStep, UserOp
<1> QED BY <1>1, <1>2, <1>3, <1>4, <1>5, <1>6, <1>7, <1>8 DEF User

(* Every variable always has its type, whatever the number of jobs, workers *)
(* and threads: no interleaving sends a runner past the last step of the    *)
(* loop of process_job_pipeline or makes it act on no job.                  *)
THEOREM TypeCorrect == Spec => []TypeOK
<1>1. Init => TypeOK
  BY IdleLocals DEF Init, TypeOK, DbOK, Statuses, RowStatuses, Artifacts
<1>2. TypeOK /\ [Next]_vars => TypeOK'
  <2> SUFFICES ASSUME TypeOK, [Next]_vars PROVE TypeOK'
    OBVIOUS
  <2>1. ASSUME NEW r \in Runners, RunnerStep(r) PROVE TypeOK'
    BY <2>1, RunnerTypes, PipelineAssumption
  <2>2. ASSUME NEW j \in Jobs, User(j) PROVE TypeOK'
    BY <2>2, UserTypes, PipelineAssumption
  <2>3. ASSUME NEW j \in Jobs, LeaseExpires(j) PROVE TypeOK'
    BY <2>3 DEF TypeOK, DbOK, LeaseExpires
  <2>4. ASSUME NEW p \in Procs, Crash(p) PROVE TypeOK'
    BY <2>4, IdleLocals DEF TypeOK, DbOK, Crash
  <2>5. CASE UNCHANGED vars
    BY <2>5 DEF vars, db, TypeOK, DbOK
  <2> QED BY <2>1, <2>2, <2>3, <2>4, <2>5 DEF Next
<1> QED BY <1>1, <1>2, PTL DEF Spec

-----------------------------------------------------------------------------
(* The job lock. *)

(* A step after which nobody entered a section or changed jobs inside it.   *)
NoEntry == \A q \in Runners : InSection(q)' => InSection(q) /\ Job(q)' = Job(q)

LEMMA GotoNoEntry ==
  ASSUME run \in [Runners -> Locals], NEW r \in Runners, NEW p, Goto(r, p),
         p \in SectionPCs => InSection(r)
  PROVE  NoEntry
BY DEF NoEntry, InSection, Job, Goto, Locals, Runner

LEMMA LocalsNoEntry ==
  ASSUME run \in [Runners -> Locals], NEW r \in Runners, NEW l,
         run' = [run EXCEPT ![r] = l],
         l.pc \in SectionPCs => InSection(r) /\ l.job = Job(r)
  PROVE  NoEntry
BY DEF NoEntry, InSection, Job, Locals, Runner

LEMMA QuietStep ==
  ASSUME LeaseHeld, NoEntry, UNCHANGED <<owner, stale, evicted>>
  PROVE  LeaseHeld'
BY DEF LeaseHeld, NoEntry

LEMMA SectionJob ==
  ASSUME run \in [Runners -> Locals], NEW q \in Runners, InSection(q)
  PROVE  Job(q) \in Jobs
BY DEF InSection, Job, Locals, JobPCs

(* Taking a lock that is free, expired or one's own leaves every other      *)
(* runner its lock: a runner that still has it belongs to the same process. *)
LEMMA LockStep ==
  ASSUME LeaseHeld, DbOK, PipelineAssumption, NEW p \in Procs, NEW j \in Jobs,
         CanLock(p, j), Lock(p, j), UNCHANGED evicted,
         NEW q \in Runners, InSection(q), q \notin evicted, Job(q)' = Job(q)
  PROVE  owner'[Job(q)'] = ProcOf[q] /\ ~stale'[Job(q)']
<1>1. owner[Job(q)] = ProcOf[q] /\ ~stale[Job(q)]
  BY DEF LeaseHeld
<1>2. ProcOf[q] # Nobody
  BY DEF PipelineAssumption
<1>3. CASE Job(q) = j
  BY <1>1, <1>2, <1>3 DEF CanLock, Lock, DbOK
<1>4. CASE Job(q) # j
  BY <1>1, <1>4 DEF Lock, DbOK
<1> QED BY <1>3, <1>4

LEMMA RunnerLeases ==
  ASSUME PipelineAssumption, TypeOK, LeaseHeld, NEW r \in Runners, RunnerStep(r)
  PROVE  LeaseHeld'
<1>0. run \in [Runners -> Locals] /\ DbOK
  BY DEF TypeOK
<1>1. CASE StartRecovery(r)
  <2>1. NoEntry
    BY <1>0, <1>1 DEF StartRecovery, At, NoEntry, InSection, Job, SectionPCs, Locals, Runner
  <2> QED BY <1>1, <2>1, QuietStep DEF StartRecovery, db
<1>2. CASE FinishRecovery(r)
  <2>1. NoEntry
    BY <1>0, <1>2 DEF FinishRecovery, At, NoEntry, InSection, Job, SectionPCs, Locals, Runner
  <2> SUFFICES ASSUME NEW q \in Runners, InSection(q)', q \notin evicted'
               PROVE  owner'[Job(q)'] = ProcOf[q] /\ ~stale'[Job(q)']
    BY DEF LeaseHeld
  <2>2. InSection(q) /\ Job(q)' = Job(q) /\ Job(q) \in Jobs
    BY <1>0, <2>1, SectionJob DEF NoEntry
  <2>3. Job(q) \notin run[r].jobs /\ q \notin evicted
    BY <1>2, <2>2 DEF FinishRecovery
  <2>4. owner'[Job(q)] = owner[Job(q)] /\ stale'[Job(q)] = stale[Job(q)]
    BY <1>2, <2>2, <2>3 DEF FinishRecovery
  <2> QED BY <2>2, <2>3, <2>4 DEF LeaseHeld
<1>3. CASE Poll(r)
  <2>1. NoEntry
    BY <1>0, <1>3 DEF Poll, Idle, At, NoEntry, InSection, Job, SectionPCs, Locals, Runner
  <2> QED BY <1>3, <2>1, QuietStep DEF Poll, db
<1>4. CASE Claim(r)
  <2>1. NoEntry
    <3>1. PICK j \in run[r].jobs :
            \/ Call(r, j, 0, FALSE)
            \/ LET rest == run[r].jobs \ {j} IN
               run' = [run EXCEPT ![r].jobs = rest,
                                  ![r].pc = IF rest = {} THEN "idle" ELSE "claim"]
      BY <1>4 DEF Claim
    <3>2. CASE Call(r, j, 0, FALSE)
      BY <1>0, <3>2, LocalsNoEntry DEF Call, Entry, SectionPCs
    <3>3. CASE ~Call(r, j, 0, FALSE)
      <4>1. run'[r].pc \in {"idle", "claim"}
        BY <1>0, <3>1, <3>3, ZenonT(60) DEF Locals, Runner
      <4>2. \A q \in Runners \ {r} : run'[q] = run[q]
        BY <1>0, <3>1, <3>3
      <4>3. ~InSection(r)'
        BY <4>1 DEF InSection, SectionPCs
      <4> QED BY <4>2, <4>3 DEF NoEntry, InSection, Job
    <3> QED BY <3>2, <3>3
  <2>2. PICK j \in run[r].jobs : \/ CanLock(ProcOf[r], j) /\ Lock(ProcOf[r], j)
                                \/ UNCHANGED <<owner, stale>>
    BY <1>4 DEF Claim
  <2>3. CASE UNCHANGED <<owner, stale>>
    BY <1>4, <2>1, <2>3, QuietStep DEF Claim
  <2>4. CASE CanLock(ProcOf[r], j) /\ Lock(ProcOf[r], j)
    <3>1. j \in Jobs /\ ProcOf[r] \in Procs
      BY <1>0 DEF Locals, Runner, PipelineAssumption
    <3>2. UNCHANGED evicted
      BY <1>4 DEF Claim
    <3> QED BY <1>0, <2>1, <2>4, <3>1, <3>2, LockStep DEF LeaseHeld, NoEntry
  <2> QED BY <2>2, <2>3, <2>4
<1>5. CASE Acquire(r)
  <2>1. CASE CanLock(ProcOf[r], Job(r))
    <3>1. /\ Job(r) \in Jobs /\ ProcOf[r] \in Procs
          /\ Lock(ProcOf[r], Job(r)) /\ UNCHANGED evicted /\ Goto(r, "prepare")
      BY <1>0, <1>5, <2>1 DEF Acquire, At, Job, Locals, JobPCs, PipelineAssumption
    <3>2. Job(r)' = Job(r)
      BY <1>0, <3>1 DEF Goto, Job, Locals, Runner
    <3>3. owner'[Job(r)'] = ProcOf[r] /\ ~stale'[Job(r)']
      BY <1>0, <3>1, <3>2 DEF Lock, DbOK
    <3>4. \A q \in Runners \ {r} : InSection(q)' => InSection(q) /\ Job(q)' = Job(q)
      BY <1>0, <3>1 DEF Goto, InSection, Job
    <3> QED BY <1>0, <2>1, <3>1, <3>3, <3>4, LockStep DEF LeaseHeld
  <2>2. CASE ~CanLock(ProcOf[r], Job(r))
    <3>1. NoEntry
      BY <1>0, <1>5, <2>2, GotoNoEntry DEF Acquire, SectionPCs
    <3> QED BY <1>5, <2>2, <3>1, QuietStep DEF Acquire
  <2> QED BY <2>1, <2>2
<1>6. CASE Prepare(r)
  <2>1. NoEntry
    <3>1. InSection(r)
      BY <1>6 DEF Prepare, At, InSection, SectionPCs
    <3>2. CASE Goto(r, "release") \/ Goto(r, "check")
      BY <1>0, <3>1, <3>2, GotoNoEntry
    <3>3. CASE run' = [run EXCEPT ![r].pc = "abort", ![r].err = "exhausted"]
      BY <1>0, <3>1, <3>3 DEF NoEntry, InSection, Job, SectionPCs, Locals, Runner
    <3> QED BY <1>6, <3>2, <3>3 DEF Prepare
  <2> QED BY <1>6, <2>1, QuietStep DEF Prepare, db
<1>7. CASE Check(r)
  <2>1. NoEntry
    BY <1>0, <1>7 DEF Check, At, NoEntry, InSection, Job, SectionPCs, Locals, Runner
  <2> QED BY <1>7, <2>1, QuietStep DEF Check, db
<1>8. CASE Skip(r)
  <2>1. NoEntry
    BY <1>0, <1>8, GotoNoEntry DEF Skip, At, InSection, SectionPCs, AfterStep
  <2> QED BY <1>8, <2>1, QuietStep DEF Skip, db
<1>9. CASE Exhaust(r)
  <2>1. NoEntry
    BY <1>0, <1>9 DEF Exhaust, At, NoEntry, InSection, Job, SectionPCs, Locals, Runner
  <2> QED BY <1>9, <2>1, QuietStep DEF Exhaust, db
<1>10. CASE Start(r)
  <2>1. NoEntry
    BY <1>0, <1>10, GotoNoEntry DEF Start, At, InSection, SectionPCs
  <2> QED BY <1>10, <2>1, QuietStep DEF Start, db
<1>11. CASE Download(r)
  <2>1. NoEntry
    BY <1>0, <1>11, GotoNoEntry DEF Download, At, InSection, SectionPCs, Working
  <2> QED BY <1>11, <2>1, QuietStep DEF Download, db
<1>12. CASE Subtitle(r)
  <2>1. NoEntry
    BY <1>0, <1>12, GotoNoEntry DEF Subtitle, At, InSection, SectionPCs, Working
  <2> QED BY <1>12, <2>1, QuietStep DEF Subtitle, db
<1>13. CASE ExtractAudio(r)
  <2>1. NoEntry
    BY <1>0, <1>13, GotoNoEntry DEF ExtractAudio, At, InSection, SectionPCs, Working
  <2> QED BY <1>13, <2>1, QuietStep DEF ExtractAudio, db
<1>14. CASE Transcribe(r)
  <2>1. NoEntry
    BY <1>0, <1>14, GotoNoEntry DEF Transcribe, At, InSection, SectionPCs, Working
  <2> QED BY <1>14, <2>1, QuietStep DEF Transcribe, db
<1>15. CASE DetectNiche(r)
  <2>1. NoEntry
    BY <1>0, <1>15, GotoNoEntry DEF DetectNiche, At, InSection, SectionPCs, Working
  <2> QED BY <1>15, <2>1, QuietStep DEF DetectNiche, db
<1>16. CASE GenerateCandidates(r)
  <2>1. NoEntry
    BY <1>0, <1>16, GotoNoEntry DEF GenerateCandidates, At, InSection, SectionPCs, Working
  <2> QED BY <1>16, <2>1, QuietStep DEF GenerateCandidates, db
<1>17. CASE EnrichWithLlm(r)
  <2>1. NoEntry
    BY <1>0, <1>17, GotoNoEntry DEF EnrichWithLlm, At, InSection, SectionPCs, Working
  <2> QED BY <1>17, <2>1, QuietStep DEF EnrichWithLlm, db
<1>18. CASE SkipLlm(r)
  <2>1. NoEntry
    <3>1. CASE At(r, "breaker") /\ Goto(r, "complete")
      BY <1>0, <3>1, GotoNoEntry DEF At, InSection, SectionPCs
    <3>2. CASE run' = [run EXCEPT ![r] = Idle]
      BY <1>0, <3>2, LocalsNoEntry DEF Idle, SectionPCs
    <3> QED BY <1>18, <3>1, <3>2 DEF SkipLlm
  <2> QED BY <1>18, <2>1, QuietStep DEF SkipLlm, db
<1>19. CASE ProgressCanceled(r)
  <2>1. NoEntry
    <3>1. PICK e \in {"canceled", "wrapped"} :
                run' = [run EXCEPT ![r].pc = "abort", ![r].err = e]
      BY <1>19 DEF ProgressCanceled
    <3>2. InSection(r)
      BY <1>19 DEF ProgressCanceled, At, Working, InSection, SectionPCs
    <3> QED BY <1>0, <3>1, <3>2 DEF NoEntry, InSection, Job, Locals, Runner
  <2> QED BY <1>19, <2>1, QuietStep DEF ProgressCanceled, db
<1>20. CASE Fail(r)
  <2>1. NoEntry
    BY <1>0, <1>20 DEF Fail, At, NoEntry, InSection, Job, SectionPCs, Locals, Runner
  <2> QED BY <1>20, <2>1, QuietStep DEF Fail, db
<1>21. CASE Complete(r)
  <2>1. NoEntry
    BY <1>0, <1>21, GotoNoEntry DEF Complete, At, InSection, SectionPCs, AfterStep
  <2> QED BY <1>21, <2>1, QuietStep DEF Complete, db
<1>22. CASE Finish(r)
  <2>1. NoEntry
    BY <1>0, <1>22, GotoNoEntry DEF Finish, At, InSection, SectionPCs
  <2> QED BY <1>22, <2>1, QuietStep DEF Finish, db
<1>23. CASE SnapshotStorage(r)
  <2>1. NoEntry
    BY <1>0, <1>23, GotoNoEntry DEF SnapshotStorage, At, InSection, SectionPCs
  <2> QED BY <1>23, <2>1, QuietStep DEF SnapshotStorage, db
<1>24. CASE Abort(r)
  <2>1. NoEntry
    BY <1>0, <1>24, GotoNoEntry DEF Abort, At, InSection, SectionPCs
  <2> QED BY <1>24, <2>1, QuietStep DEF Abort, db
<1>25. CASE CancelMark(r)
  <2>1. NoEntry
    BY <1>0, <1>25, GotoNoEntry DEF CancelMark, At, InSection, SectionPCs
  <2> QED BY <1>25, <2>1, QuietStep DEF CancelMark, db
<1>26. CASE Release(r)
  <2>1. NoEntry
    BY <1>0, <1>26, GotoNoEntry DEF Release, SectionPCs
  <2>2. ~InSection(r)'
    BY <1>0, <1>26 DEF Release, Goto, InSection, SectionPCs, Locals, Runner
  <2>3. CASE CanUnlock(ProcOf[r], Job(r))
    <3> SUFFICES ASSUME NEW q \in Runners, InSection(q)', q \notin evicted'
                 PROVE  owner'[Job(q)'] = ProcOf[q] /\ ~stale'[Job(q)']
      BY DEF LeaseHeld
    <3>1. q # r /\ InSection(q) /\ Job(q)' = Job(q)
      BY <2>1, <2>2 DEF NoEntry
    <3>2. q \notin evicted /\ ~(Job(q) = Job(r) /\ ProcOf[q] = ProcOf[r])
      BY <1>26, <2>3, <3>1 DEF Release
    <3>3. owner[Job(q)] = ProcOf[q] /\ ~stale[Job(q)]
      BY <3>1, <3>2 DEF LeaseHeld
    <3>4. Job(q) # Job(r)
      BY <2>3, <3>2, <3>3 DEF CanUnlock
    <3>5. owner'[Job(q)] = owner[Job(q)] /\ stale'[Job(q)] = stale[Job(q)]
      <4>1. Job(q) \in Jobs
        BY <1>0, <3>1, SectionJob
      <4> QED BY <1>0, <1>26, <2>3, <3>4, <4>1 DEF Release, DbOK
    <3> QED BY <3>1, <3>3, <3>5
  <2>4. CASE ~CanUnlock(ProcOf[r], Job(r))
    BY <1>0, <1>26, <2>1, <2>2, <2>4 DEF Release, NoEntry, LeaseHeld
  <2> QED BY <2>3, <2>4
<1>27. CASE Kick(r)
  <2>1. NoEntry
    BY <1>0, <1>27 DEF Kick, At, NoEntry, InSection, Job, SectionPCs, Locals, Runner
  <2> QED BY <1>27, <2>1, QuietStep DEF Kick, db
<1>28. CASE Launch(r)
  <2>1. NoEntry
    <3>1. PICK l : run' = [run EXCEPT ![r] = l] /\ l.pc \notin SectionPCs
      <4>1. Idle.pc \notin SectionPCs
        BY DEF Idle, SectionPCs
      <4>2. \A j, fs : Entry(j, 0, FALSE, fs).pc \notin SectionPCs
        BY DEF Entry, SectionPCs
      <4> QED BY <1>28, <4>1, <4>2 DEF Launch
    <3> QED BY <1>0, <3>1, LocalsNoEntry
  <2> QED BY <1>28, <2>1, QuietStep DEF Launch, db
<1>29. CASE RecursionLimit(r)
  <2>1. NoEntry
    BY <1>0, <1>29 DEF RecursionLimit, Idle, NoEntry, InSection, Job, SectionPCs, Locals, Runner
  <2> QED BY <1>29, <2>1, QuietStep DEF RecursionLimit, db
<1>30. CASE ProcessLocalJob(r)
  <2>1. NoEntry
    <3>1. CASE Goto(r, "local_audio") \/ Goto(r, "local_transcript")
      BY <1>0, <3>1, GotoNoEntry DEF SectionPCs
    <3>2. CASE run' = [run EXCEPT ![r] = Idle]
      BY <1>0, <3>2, LocalsNoEntry DEF Idle, SectionPCs
    <3> QED BY <1>30, <3>1, <3>2 DEF ProcessLocalJob
  <2> QED BY <1>30, <2>1, QuietStep DEF ProcessLocalJob, db
<1> QED BY <1>1, <1>2, <1>3, <1>4, <1>5, <1>6, <1>7, <1>8, <1>9, <1>10, <1>11, <1>12, <1>13, <1>14, <1>15, <1>16, <1>17, <1>18, <1>19, <1>20, <1>21, <1>22, <1>23, <1>24, <1>25, <1>26, <1>27, <1>28, <1>29, <1>30 DEF RunnerStep

LEMMA UserLeases ==
  ASSUME PipelineAssumption, TypeOK, LeaseHeld, NEW j \in Jobs, User(j)
  PROVE  LeaseHeld'
<1>0. run \in [Runners -> Locals]
  BY DEF TypeOK
<1>1. ASSUME NEW k \in Jobs, NEW start, NEW force, Enqueue(k, start, force)
      PROVE  NoEntry
  BY <1>0, <1>1 DEF Enqueue, Web, Call, Entry, NoEntry, InSection, Job, SectionPCs
<1>2. CASE UNCHANGED run
  <2>1. NoEntry
    BY <1>2 DEF NoEntry, InSection, Job
  <2> QED BY <1>2, <2>1, QuietStep DEF User, CreateJob, CreateLocalJob, CancelJob,
         AnalyzeWithoutLlm, DeleteJob, RetryJob, RetryStep, ResetStep
<1>3. CASE CreateJob(j)
  BY <1>1, <1>3, QuietStep DEF CreateJob
<1>4. CASE CreateLocalJob(j)
  <2>1. NoEntry
    BY <1>0, <1>4 DEF CreateLocalJob, Idle, Web, NoEntry, InSection, Job, SectionPCs
  <2> QED BY <1>4, <2>1, QuietStep DEF CreateLocalJob
<1>5. CASE CancelJob(j)
  <2>1. NoEntry
    BY <1>0, <1>5 DEF CancelJob, Idle, Web, NoEntry, InSection, Job, SectionPCs
  <2> QED BY <1>5, <2>1, QuietStep DEF CancelJob
<1>6. CASE AnalyzeWithoutLlm(j)
  <2>1. NoEntry
    BY <1>0, <1>6 DEF AnalyzeWithoutLlm, Idle, Web, NoEntry, InSection, Job, SectionPCs
  <2> QED BY <1>6, <2>1, QuietStep DEF AnalyzeWithoutLlm
<1>7. ASSUME NEW force \in BOOLEAN, RetryJob(j, force) PROVE LeaseHeld'
  BY <1>1, <1>7, QuietStep DEF RetryJob
<1>8. ASSUME NEW s \in FirstStep .. LLM, NEW force \in BOOLEAN, RetryStep(j, s, force)
      PROVE  LeaseHeld'
  BY <1>1, <1>8, QuietStep DEF RetryStep
<1>9. CASE DeleteJob(j) \/ \E s \in FirstStep .. LLM : ResetStep(j, s)
  BY <1>2, <1>9 DEF DeleteJob, ResetStep
<1> QED BY <1>3, <1>4, <1>5, <1>6, <1>7, <1>8, <1>9 DEF User

(* The lock protocol works, for every number of workers, threads and jobs:  *)
(* a runner in its section that was not evicted has a fresh lock.           *)
THEOREM LeaseSafety == Spec => []LeaseHeld
<1>1. Init => LeaseHeld
  BY DEF Init, LeaseHeld, Idle, InSection, SectionPCs
<1>2. TypeOK /\ LeaseHeld /\ [Next]_vars => LeaseHeld'
  <2> SUFFICES ASSUME TypeOK, LeaseHeld, [Next]_vars PROVE LeaseHeld'
    OBVIOUS
  <2>0. run \in [Runners -> Locals] /\ DbOK
    BY DEF TypeOK
  <2>1. ASSUME NEW r \in Runners, RunnerStep(r) PROVE LeaseHeld'
    BY <2>1, RunnerLeases, PipelineAssumption
  <2>2. ASSUME NEW j \in Jobs, User(j) PROVE LeaseHeld'
    BY <2>2, UserLeases, PipelineAssumption
  <2>3. ASSUME NEW j \in Jobs, LeaseExpires(j) PROVE LeaseHeld'
    BY <2>0, <2>3 DEF LeaseExpires, LeaseHeld, Holds, InSection, Job, DbOK
  <2>4. ASSUME NEW p \in Procs, Crash(p) PROVE LeaseHeld'
    <3> SUFFICES ASSUME NEW q \in Runners, InSection(q)', q \notin evicted'
                 PROVE  owner'[Job(q)'] = ProcOf[q] /\ ~stale'[Job(q)']
      BY DEF LeaseHeld
    <3>1. ProcOf[q] # p
      BY <2>4 DEF Crash, Idle, InSection, SectionPCs
    <3>2. run'[q] = run[q] /\ q \notin evicted
      BY <2>4, <3>1 DEF Crash
    <3>3. InSection(q) /\ Job(q)' = Job(q)
      BY <3>2 DEF InSection, Job
    <3>4. owner[Job(q)] = ProcOf[q] /\ ~stale[Job(q)]
      BY <3>2, <3>3 DEF LeaseHeld
    <3>5. Job(q) \in Jobs
      BY <2>0, <3>3, SectionJob
    <3>6. owner'[Job(q)] = owner[Job(q)] /\ stale' = stale
      BY <2>4, <3>1, <3>4, <3>5 DEF Crash
    <3> QED BY <3>3, <3>4, <3>6
  <2>5. CASE UNCHANGED vars
    BY <2>5 DEF vars, db, LeaseHeld, InSection, Job
  <2> QED BY <2>1, <2>2, <2>3, <2>4, <2>5 DEF Next
<1> QED BY <1>1, <1>2, TypeCorrect, PTL DEF Spec

(* Mutual exclusion: the runners in the section of one job that were not    *)
(* evicted are threads of one process, the owner of its lock.               *)
THEOREM Exclusion == Spec => []ExclusiveSection
<1>1. LeaseHeld => ExclusiveSection
  BY DEF LeaseHeld, ExclusiveSection
<1> QED BY <1>1, LeaseSafety, PTL

-----------------------------------------------------------------------------
(* What a step of a runner leaves alone. *)

(* The steps between the acquisition of the job lock and its release.       *)
SectionStep(r) ==
  \/ Prepare(r) \/ Check(r) \/ Skip(r) \/ Exhaust(r) \/ Start(r)
  \/ Download(r) \/ Subtitle(r) \/ ExtractAudio(r) \/ Transcribe(r)
  \/ DetectNiche(r) \/ GenerateCandidates(r) \/ EnrichWithLlm(r)
  \/ SkipLlm(r) /\ At(r, "breaker")
  \/ ProgressCanceled(r) \/ Fail(r) \/ Complete(r) \/ Finish(r) \/ SnapshotStorage(r)
  \/ Abort(r) \/ CancelMark(r) \/ Release(r)

(* The locals a runner keeps while it works on one job. *)
SameCall(l, m) ==
  /\ m.job = l.job /\ m.start = l.start /\ m.force = l.force
  /\ m.jobs = l.jobs /\ m.frames = l.frames

LEMMA GotoKeeps ==
  ASSUME run \in [Runners -> Locals], NEW r \in Runners, NEW p, Goto(r, p)
  PROVE  /\ run'[r].pc = p /\ run'[r].cur = run[r].cur /\ run'[r].err = run[r].err
         /\ SameCall(run[r], run'[r])
         /\ \A q \in Runners \ {r} : run'[q] = run[q]
BY DEF Goto, SameCall, Locals, Runner

LEMMA AbortKeeps ==
  ASSUME run \in [Runners -> Locals], NEW r \in Runners, NEW e,
         run' = [run EXCEPT ![r].pc = "abort", ![r].err = e]
  PROVE  /\ run'[r].pc = "abort" /\ run'[r].cur = run[r].cur /\ run'[r].err = e
         /\ SameCall(run[r], run'[r])
         /\ \A q \in Runners \ {r} : run'[q] = run[q]
BY DEF SameCall, Locals, Runner

LEMMA BeginKeeps ==
  ASSUME run \in [Runners -> Locals], NEW r \in Runners, NEW s,
         run' = [run EXCEPT ![r].pc = "begin", ![r].cur = s]
  PROVE  /\ run'[r].pc = "begin" /\ run'[r].cur = s /\ run'[r].err = run[r].err
         /\ SameCall(run[r], run'[r])
         /\ \A q \in Runners \ {r} : run'[q] = run[q]
BY DEF SameCall, Locals, Runner

LEMMA ListKeeps ==
  ASSUME run \in [Runners -> Locals], NEW r \in Runners, NEW p, NEW js,
         run' = [run EXCEPT ![r].pc = p, ![r].jobs = js]
  PROVE  /\ run'[r] = [run[r] EXCEPT !.pc = p, !.jobs = js]
         /\ run'[r].pc = p /\ run'[r].jobs = js
         /\ run'[r].job = run[r].job /\ run'[r].frames = run[r].frames
         /\ run'[r].start = run[r].start /\ run'[r].force = run[r].force
         /\ \A q \in Runners \ {r} : run'[q] = run[q]
BY DEF Locals, Runner

(* A worker that polls either calls the pipeline or shortens its list. *)
LEMMA ClaimMoves ==
  ASSUME run \in [Runners -> Locals], NEW r \in Runners, Claim(r)
  PROVE  \/ \E j \in run[r].jobs : Call(r, j, 0, FALSE)
         \/ \E p \in {"idle", "claim"}, js \in SUBSET run[r].jobs :
              run' = [run EXCEPT ![r].pc = p, ![r].jobs = js]
<1>1. PICK j \in run[r].jobs :
        \/ Call(r, j, 0, FALSE)
        \/ LET rest == run[r].jobs \ {j} IN
           run' = [run EXCEPT ![r].jobs = rest,
                              ![r].pc = IF rest = {} THEN "idle" ELSE "claim"]
  BY DEF Claim
<1>2. CASE ~Call(r, j, 0, FALSE)
  <2>1. PICK p \in {"idle", "claim"} :
          run' = [run EXCEPT ![r].jobs = run[r].jobs \ {j}, ![r].pc = p]
    BY <1>1, <1>2
  <2>2. run' = [run EXCEPT ![r].pc = p, ![r].jobs = run[r].jobs \ {j}]
    BY <2>1 DEF Locals, Runner
  <2>3. run[r].jobs \ {j} \in SUBSET run[r].jobs
    OBVIOUS
  <2> QED BY <2>2, <2>3
<1> QED BY <1>1, <1>2

LEMMA PollMoves ==
  ASSUME run \in [Runners -> Locals], NEW r \in Runners, Poll(r)
  PROVE  \E p \in {"idle", "claim"} :
           run' = [run EXCEPT ![r] = [Idle EXCEPT !.pc = p, !.jobs = Pending]]
BY DEF Poll

(* A step of the section is the business of one runner: it keeps its call   *)
(* and either stays in the section or has just released the lock.           *)
LEMMA SectionStepLocals ==
  ASSUME TypeOK, NEW r \in Runners, SectionStep(r)
  PROVE  /\ InSection(r)
         /\ SameCall(run[r], run'[r])
         /\ \A q \in Runners \ {r} : run'[q] = run[q]
         /\ run'[r].pc \in SectionPCs \cup {"kick"}
<1>0. run \in [Runners -> Locals]
  BY DEF TypeOK
<1>1. InSection(r)
  BY DEF SectionStep, InSection, SectionPCs, At, Working, Prepare, Check, Skip, Exhaust, Start,
     Download, Subtitle, ExtractAudio, Transcribe, DetectNiche, GenerateCandidates, EnrichWithLlm,
     ProgressCanceled, Fail, Complete, Finish, SnapshotStorage, Abort, CancelMark, Release
<1>2. CASE \E p \in SectionPCs \cup {"kick"} : Goto(r, p)
  BY <1>0, <1>1, <1>2, GotoKeeps
<1>3. CASE \E e : run' = [run EXCEPT ![r].pc = "abort", ![r].err = e]
  BY <1>0, <1>1, <1>3, AbortKeeps DEF SectionPCs
<1>4. CASE \E s : run' = [run EXCEPT ![r].pc = "begin", ![r].cur = s]
  BY <1>0, <1>1, <1>4, BeginKeeps DEF SectionPCs
<1>5. CASE Prepare(r) \/ Check(r) \/ Exhaust(r) \/ Fail(r) \/ ProgressCanceled(r)
  BY <1>2, <1>3, <1>4, <1>5 DEF Prepare, Check, Exhaust, Fail, ProgressCanceled, SectionPCs
<1>6. CASE ~(Prepare(r) \/ Check(r) \/ Exhaust(r) \/ Fail(r) \/ ProgressCanceled(r))
  <2>1. \E p \in SectionPCs \cup {"kick"} : Goto(r, p)
    BY <1>6 DEF SectionStep, SectionPCs, Skip, AfterStep, Start,
       Download, Subtitle, ExtractAudio, Transcribe, DetectNiche, GenerateCandidates,
       EnrichWithLlm, SkipLlm, Complete, Finish, SnapshotStorage, Abort, CancelMark, Release
  <2> QED BY <1>2, <2>1
<1> QED BY <1>5, <1>6

(* It writes the rows of its own job only. *)
LEMMA SectionStepRows ==
  ASSUME TypeOK, NEW r \in Runners, SectionStep(r), NEW j \in Jobs, j # Job(r)
  PROVE  /\ status'[j] = status[j] /\ have'[j] = have[j]
         /\ row'[j] = row[j] /\ attempts'[j] = attempts[j]
<1>0. DbOK
  BY DEF TypeOK
<1>1. status'[j] = status[j]
  <2>1. status' = status \/ \E v : status' = [status EXCEPT ![Job(r)] = v]
    BY DEF SectionStep, db, Prepare, Check, Skip, Exhaust, Start, MarkRunning,
     Download, Subtitle, ExtractAudio, Transcribe, DetectNiche, GenerateCandidates, EnrichWithLlm,
     SkipLlm, ProgressCanceled, Fail, Complete, Finish, SnapshotStorage, Abort, CancelMark, Release
  <2> QED BY <1>0, <2>1 DEF DbOK
<1>2. have'[j] = have[j]
  <2>1. have' = have \/ \E v : have' = [have EXCEPT ![Job(r)] = v]
    BY DEF SectionStep, db, Prepare, Check, Skip, Exhaust, Start, MarkRunning, Add,
     Download, Subtitle, ExtractAudio, Transcribe, DetectNiche, GenerateCandidates, EnrichWithLlm,
     SkipLlm, ProgressCanceled, Fail, Complete, Finish, SnapshotStorage, Abort, CancelMark, Release
  <2> QED BY <1>0, <2>1 DEF DbOK
<1>3. row'[j] = row[j]
  <2>1. row' = row \/ \E v : row' = [row EXCEPT ![Job(r)][run[r].cur] = v]
    BY DEF SectionStep, db, Prepare, Check, Skip, Exhaust, Start, MarkRunning, MarkFailed,
     Download, Subtitle, ExtractAudio, Transcribe, DetectNiche, GenerateCandidates, EnrichWithLlm,
     SkipLlm, ProgressCanceled, Fail, Complete, Finish, SnapshotStorage, Abort, CancelMark, Release
  <2> QED BY <1>0, <2>1 DEF DbOK
<1>4. attempts'[j] = attempts[j]
  <2>1. attempts' = attempts \/ \E v : attempts' = [attempts EXCEPT ![Job(r)][run[r].cur] = v]
    BY DEF SectionStep, db, Prepare, Check, Skip, Exhaust, Start, MarkRunning,
     Download, Subtitle, ExtractAudio, Transcribe, DetectNiche, GenerateCandidates, EnrichWithLlm,
     SkipLlm, ProgressCanceled, Fail, Complete, Finish, SnapshotStorage, Abort, CancelMark, Release
  <2> QED BY <1>0, <2>1 DEF DbOK
<1> QED BY <1>1, <1>2, <1>3, <1>4

(* Outside the section it is the polling of a worker, a call, a kick or a    *)
(* request thread.                                                          *)
PollingStep(r) ==
  \/ StartRecovery(r) \/ Poll(r) \/ Claim(r) \/ Acquire(r) \/ Kick(r) \/ Launch(r)
  \/ RecursionLimit(r)
RequestStep(r) == ProcessLocalJob(r) \/ (SkipLlm(r) /\ ~At(r, "breaker"))

LEMMA RunnerSteps ==
  ASSUME NEW r \in Runners, RunnerStep(r)
  PROVE  SectionStep(r) \/ PollingStep(r) \/ FinishRecovery(r) \/ RequestStep(r)
BY DEF RunnerStep, SectionStep, PollingStep, RequestStep

(* Polling writes the locks only. *)
LEMMA PollingRows ==
  ASSUME NEW r \in Runners, PollingStep(r)
  PROVE  UNCHANGED <<status, have, row, attempts, billed, evicted, ops, crashes>>
BY DEF PollingStep, StartRecovery, Poll, Claim, Acquire, Kick, Launch, RecursionLimit, db

(* Polling moves one runner, which gets no job but from its lists and the   *)
(* arguments None and FALSE with it.                                        *)
LEMMA PollingLocals ==
  ASSUME TypeOK, NEW r \in Runners, PollingStep(r) \/ FinishRecovery(r)
  PROVE  /\ \A q \in Runners \ {r} : run'[q] = run[q]
         /\ run'[r].pc \in {"recover", "poll", "claim", "idle", "acquire", "prepare", "kick", "launch"}
         /\ run'[r].start \in {0, run[r].start} /\ run'[r].force \in {FALSE, run[r].force}
<1>0. run \in [Runners -> Locals]
  BY DEF TypeOK
<1>1. CASE StartRecovery(r)
  <2>1. run' = [run EXCEPT ![r].pc = "recover", ![r].jobs = StaleActive]
    BY <1>1 DEF StartRecovery
  <2> QED BY <1>0, <2>1, ListKeeps
<1>8. CASE FinishRecovery(r)
  <2>1. run' = [run EXCEPT ![r].pc = "poll", ![r].jobs = {}]
    BY <1>8 DEF FinishRecovery
  <2> QED BY <1>0, <2>1, ListKeeps
<1>2. CASE Poll(r)
  <2>1. PICK p \in {"idle", "claim"} :
          run' = [run EXCEPT ![r] = [Idle EXCEPT !.pc = p, !.jobs = Pending]]
    BY <1>0, <1>2, PollMoves
  <2> QED BY <1>0, <2>1 DEF Idle
<1>7. CASE RecursionLimit(r)
  BY <1>0, <1>7 DEF RecursionLimit, Idle
<1>3. CASE Claim(r)
  <2>1. CASE \E j \in run[r].jobs : Call(r, j, 0, FALSE)
    BY <1>0, <2>1 DEF Call, Entry
  <2>2. ASSUME NEW p \in {"idle", "claim"}, NEW js,
               run' = [run EXCEPT ![r].pc = p, ![r].jobs = js]
        PROVE  /\ \A q \in Runners \ {r} : run'[q] = run[q]
               /\ run'[r].pc = p
               /\ run'[r].start = run[r].start /\ run'[r].force = run[r].force
    BY <1>0, <2>2 DEF Locals, Runner
  <2> QED BY <1>0, <1>3, <2>1, <2>2, ClaimMoves
<1>4. CASE Acquire(r)
  <2>1. PICK p \in {"prepare", "kick"} : Goto(r, p)
    BY <1>4 DEF Acquire
  <2> QED BY <1>0, <2>1, GotoKeeps DEF SameCall
<1>5. CASE Kick(r)
  BY <1>0, <1>5 DEF Kick, Locals, Runner
<1>6. CASE Launch(r)
  <2>1. PICK l : /\ run' = [run EXCEPT ![r] = l]
                 /\ l.pc \in {"idle", "acquire"} /\ l.start = 0 /\ l.force = FALSE
    <3>1. Idle.pc = "idle" /\ Idle.start = 0 /\ Idle.force = FALSE
      BY DEF Idle
    <3>2. ASSUME NEW j, NEW fs, NEW l, l = Entry(j, 0, FALSE, fs)
          PROVE  l.pc = "acquire" /\ l.start = 0 /\ l.force = FALSE
      BY <3>2 DEF Entry
    <3>3. CASE run[r].frames = <<>>
      BY <1>6, <3>1, <3>3 DEF Launch
    <3>4. CASE run[r].frames # <<>>
      <4>1. PICK j, fs : run' = [run EXCEPT ![r] = Entry(j, 0, FALSE, fs)]
        BY <1>6, <3>4 DEF Launch
      <4> QED BY <3>2, <4>1
    <3> QED BY <3>3, <3>4
  <2> QED BY <1>0, <2>1
<1> QED BY <1>1, <1>2, <1>3, <1>4, <1>5, <1>6, <1>7, <1>8 DEF PollingStep

LEMMA RequestLocals ==
  ASSUME TypeOK, NEW r \in Runners, RequestStep(r)
  PROVE  /\ \A q \in Runners \ {r} : run'[q] = run[q]
         /\ run'[r].pc \in {"local_audio", "local_transcript", "idle"}
         /\ run'[r].start \in {0, run[r].start} /\ run'[r].force \in {FALSE, run[r].force}
         /\ run[r].pc \in {"local", "local_audio", "local_transcript", "skip_llm"}
<1>0. run \in [Runners -> Locals]
  BY DEF TypeOK
<1>1. CASE Goto(r, "local_audio") \/ Goto(r, "local_transcript")
  BY <1>0, <1>1, GotoKeeps DEF SameCall, RequestStep, ProcessLocalJob, SkipLlm, At
<1>2. CASE run' = [run EXCEPT ![r] = Idle]
  BY <1>0, <1>2 DEF Idle, RequestStep, ProcessLocalJob, SkipLlm, At
<1> QED BY <1>1, <1>2 DEF RequestStep, ProcessLocalJob, SkipLlm

(* A runner leaves the locals of all others alone. *)
LEMMA OneMoves ==
  ASSUME TypeOK, NEW r \in Runners, RunnerStep(r)
  PROVE  \A q \in Runners \ {r} : run'[q] = run[q]
<1>1. CASE SectionStep(r)
  BY <1>1, SectionStepLocals
<1>2. CASE PollingStep(r) \/ FinishRecovery(r)
  BY <1>2, PollingLocals
<1>3. CASE RequestStep(r)
  BY <1>3, RequestLocals
<1> QED BY <1>1, <1>2, <1>3, RunnerSteps

-----------------------------------------------------------------------------
(* The attempts. *)

(* With the worker backend nobody is called with force. *)
Unforced == \A r \in Runners : ~run[r].force

LEMMA RunnerUnforced ==
  ASSUME TypeOK, Unforced, NEW r \in Runners, RunnerStep(r)
  PROVE  Unforced'
<1>1. \A q \in Runners \ {r} : run'[q] = run[q]
  BY OneMoves
<1>2. run'[r].force \in {FALSE, run[r].force}
  BY RunnerSteps, SectionStepLocals, PollingLocals, RequestLocals DEF SameCall
<1> QED BY <1>1, <1>2 DEF Unforced

(* mark_step_running is the only code that counts an attempt. *)
LEMMA RunnerAttempts ==
  ASSUME TypeOK, Unforced, AttemptLimit, NEW r \in Runners, RunnerStep(r)
  PROVE  AttemptLimit'
<1>1. CASE ~Start(r)
  <2>1. attempts' = attempts
    BY <1>1 DEF RunnerStep, db, StartRecovery, FinishRecovery, Poll, Claim, Acquire, Kick, Launch,
       RecursionLimit, ProcessLocalJob, Prepare, Check, Skip, Exhaust,
       Download, Subtitle, ExtractAudio, Transcribe, DetectNiche, GenerateCandidates, EnrichWithLlm,
       SkipLlm, ProgressCanceled, Fail, Complete, Finish, SnapshotStorage, Abort, CancelMark, Release
  <2> QED BY <2>1 DEF AttemptLimit
<1>2. CASE Start(r)
  <2>1. /\ attempts' = [attempts EXCEPT ![Job(r)][run[r].cur] = @ + 1]
        /\ attempts[Job(r)][run[r].cur] < MAX_STEP_ATTEMPTS
    BY <1>2 DEF Start, MarkRunning, AttemptsLeft, Unforced
  <2>2. attempts \in [Jobs -> [StepIx -> Nat]]
    BY DEF TypeOK, DbOK
  <2> SUFFICES ASSUME NEW j \in Jobs, NEW s \in StepIx
               PROVE  attempts'[j][s] <= MAX_STEP_ATTEMPTS
    BY DEF AttemptLimit
  <2>3. attempts[j][s] \in Nat /\ attempts[j][s] <= MAX_STEP_ATTEMPTS
    BY <2>2 DEF AttemptLimit
  <2>4. CASE j = Job(r) /\ s = run[r].cur
    <3>1. attempts'[j][s] = attempts[j][s] + 1
      BY <2>1, <2>2, <2>4
    <3> QED BY <2>1, <2>3, <2>4, <3>1 DEF MAX_STEP_ATTEMPTS
  <2>5. CASE ~(j = Job(r) /\ s = run[r].cur)
    BY <2>1, <2>2, <2>3, <2>5
  <2> QED BY <2>4, <2>5
<1> QED BY <1>1, <1>2

LEMMA UserAttempts ==
  ASSUME QueueBackend = "worker", "analyze_without_llm" \notin UserOps,
         PipelineAssumption, TypeOK, Unforced, AttemptLimit, NEW j \in Jobs, User(j)
  PROVE  Unforced' /\ AttemptLimit'
<1>0. run \in [Runners -> Locals] /\ attempts \in [Jobs -> [StepIx -> Nat]]
  BY DEF TypeOK, DbOK
<1>1. CASE UNCHANGED <<run, attempts>>
  BY <1>1 DEF Unforced, AttemptLimit
<1>2. CASE CreateJob(j) \/ DeleteJob(j) \/ \E force \in BOOLEAN : RetryJob(j, force)
  BY <1>1, <1>2 DEF CreateJob, DeleteJob, RetryJob, Enqueue
<1>3. CASE CreateLocalJob(j) \/ CancelJob(j)
  <2>1. PICK r \in Runners, p \in {"local", "kick"} :
           run' = [run EXCEPT ![r] = [Idle EXCEPT !.pc = p, !.job = j]]
    BY <1>3 DEF CreateLocalJob, CancelJob, Web
  <2> QED BY <1>0, <1>3, <2>1 DEF CreateLocalJob, CancelJob, Unforced, AttemptLimit, Idle
<1>4. ASSUME NEW s \in StepIx, NEW reset \in BOOLEAN, ResetFrom(j, s, reset), UNCHANGED run
      PROVE  Unforced' /\ AttemptLimit'
  BY <1>0, <1>4 DEF ResetFrom, Unforced, AttemptLimit, MAX_STEP_ATTEMPTS, StepIx
<1>5. FirstStep .. LLM \subseteq StepIx
  BY DEF PipelineAssumption, StepIx, LLM
<1>6. CASE \/ \E s \in FirstStep .. LLM, force \in BOOLEAN : RetryStep(j, s, force)
           \/ \E s \in FirstStep .. LLM : ResetStep(j, s)
  BY <1>4, <1>5, <1>6 DEF RetryStep, ResetStep, Enqueue
<1>7. CASE AnalyzeWithoutLlm(j)
  BY <1>7 DEF AnalyzeWithoutLlm, UserOp
<1> QED BY <1>2, <1>3, <1>6, <1>7 DEF User

(* mark_step_running keeps every step within MAX_STEP_ATTEMPTS, whatever    *)
(* number of workers run, crash, recover jobs and race for their locks, and *)
(* however often users retry: with the worker backend only the conclusion   *)
(* without the LLM, which forces its step, counts past the limit.           *)
THEOREM AttemptsBounded ==
  ASSUME QueueBackend = "worker", "analyze_without_llm" \notin UserOps
  PROVE  Spec => []AttemptLimit
<1>1. Init => Unforced /\ AttemptLimit
  BY DEF Init, Unforced, AttemptLimit, Idle, MAX_STEP_ATTEMPTS
<1>2. TypeOK /\ Unforced /\ AttemptLimit /\ [Next]_vars => Unforced' /\ AttemptLimit'
  <2> SUFFICES ASSUME TypeOK, Unforced, AttemptLimit, [Next]_vars
               PROVE  Unforced' /\ AttemptLimit'
    OBVIOUS
  <2>1. ASSUME NEW r \in Runners, RunnerStep(r) PROVE Unforced' /\ AttemptLimit'
    BY <2>1, RunnerUnforced, RunnerAttempts
  <2>2. ASSUME NEW j \in Jobs, User(j) PROVE Unforced' /\ AttemptLimit'
    BY <2>2, UserAttempts, PipelineAssumption
  <2>3. ASSUME NEW j \in Jobs, LeaseExpires(j) PROVE Unforced' /\ AttemptLimit'
    BY <2>3 DEF LeaseExpires, Unforced, AttemptLimit
  <2>4. ASSUME NEW p \in Procs, Crash(p) PROVE Unforced' /\ AttemptLimit'
    BY <2>4 DEF Crash, Unforced, AttemptLimit, Idle
  <2>5. CASE UNCHANGED vars
    BY <2>5 DEF vars, db, Unforced, AttemptLimit
  <2> QED BY <2>1, <2>2, <2>3, <2>4, <2>5 DEF Next
<1> QED BY <1>1, <1>2, TypeCorrect, PTL DEF Spec

-----------------------------------------------------------------------------
(* The jobs that runners know. *)
Existing == {j \in Jobs : status[j] # "absent"}

(* A runner works on, listed or queued in its nested kicks, jobs of E only. *)
Known(E, l) ==
  /\ l.pc \in JobPCs => l.job \in E
  /\ l.jobs \subseteq E
  /\ l.frames \in Seq(Frame(E))

JobsExist == \A r \in Runners : Known(Existing, run[r])

LEMMA IdleKnown == ASSUME NEW E PROVE Known(E, Idle)
BY DEF Known, Idle, JobPCs, SectionPCs

LEMMA KnownGrows ==
  ASSUME NEW E, NEW F, E \subseteq F, NEW l, Known(E, l)
  PROVE  Known(F, l)
<1>1. Frame(E) \subseteq Frame(F)
  BY DEF Frame
<1>2. l.frames \in Seq(Frame(F))
  BY <1>1 DEF Known
<1> QED BY <1>2 DEF Known

LEMMA ExistingGrows ==
  ASSUME TypeOK, [Next]_vars
  PROVE  Existing \subseteq Existing'
<1>0. /\ status \in [Jobs -> Statuses]
      /\ \A s \in StepIx : PIPELINE_STEPS[s] # "absent"
  BY DEF TypeOK, DbOK, StepIx, PIPELINE_STEPS
<1>1. ASSUME NEW j \in Jobs, NEW v, v # "absent", status' = [status EXCEPT ![j] = v]
      PROVE  Existing \subseteq Existing'
  BY <1>0, <1>1 DEF Existing
<1>2. CASE UNCHANGED status
  BY <1>2 DEF Existing
<1>3. ASSUME NEW j \in Jobs, User(j) PROVE Existing \subseteq Existing'
  <2>1. CASE AnalyzeWithoutLlm(j)
    <3>1. PIPELINE_STEPS[LLM] # "absent"
      BY DEF PIPELINE_STEPS, LLM
    <3>2. status' = [status EXCEPT ![j] = PIPELINE_STEPS[LLM]]
      BY <2>1 DEF AnalyzeWithoutLlm, MarkRunning
    <3> QED BY <1>1, <3>1, <3>2
  <2>2. CASE ~AnalyzeWithoutLlm(j)
    <3>1. \E v : v # "absent" /\ status' = [status EXCEPT ![j] = v]
      BY <1>3, <2>2 DEF User, CreateJob, CreateLocalJob, Insert, CancelJob, DeleteJob, RetryJob,
         RetryStep, ResetStep, ResetFrom
    <3> QED BY <1>1, <3>1
  <2> QED BY <2>1, <2>2
<1>4. ASSUME NEW r \in Runners, RunnerStep(r) PROVE Existing \subseteq Existing'
  <2>1. CASE PollingStep(r)
    BY <1>2, <2>1, PollingRows
  <2>2. CASE FinishRecovery(r)
    BY <2>2 DEF FinishRecovery, Existing
  <2>3. CASE RequestStep(r)
    BY <1>0, <2>3 DEF RequestStep, ProcessLocalJob, SkipLlm, Existing
  <2>4. CASE Start(r)
    <3>1. run[r].cur \in StepIx
      BY <2>4 DEF TypeOK, Locals, Runner, Start, At, StepIx
    <3> QED BY <1>0, <2>4, <3>1 DEF Start, MarkRunning, Existing
  <2>5. CASE SectionStep(r) /\ ~Start(r)
    <3>1. status' = status \/ \E v : status' = [status EXCEPT ![Job(r)] = v] /\ (v # "absent" \/ v = status[Job(r)])
      BY <2>5 DEF SectionStep, db, Prepare, Check, Skip, Exhaust, AbortStatus,
        Download, Subtitle, ExtractAudio, Transcribe, DetectNiche, GenerateCandidates, EnrichWithLlm,
        SkipLlm, ProgressCanceled, Fail, Complete, Finish, SnapshotStorage, Abort, CancelMark, Release
    <3> QED BY <1>0, <3>1 DEF Existing
  <2> QED BY <1>4, <2>1, <2>2, <2>3, <2>4, <2>5, RunnerSteps
<1>5. CASE \/ \E j \in Jobs : LeaseExpires(j)
           \/ \E p \in Procs : Crash(p)
           \/ UNCHANGED vars
  BY <1>2, <1>5 DEF LeaseExpires, Crash, vars, db
<1> QED BY <1>3, <1>4, <1>5 DEF Next

LEMMA RunnerKnown ==
  ASSUME PipelineAssumption, TypeOK, NEW r \in Runners, RunnerStep(r),
         NEW E, Known(E, run[r]), Pending \subseteq E, StaleActive \subseteq E
  PROVE  Known(E, run'[r])
<1>0. run \in [Runners -> Locals] /\ run[r] \in Locals
  BY DEF TypeOK
<1>1. ASSUME SameCall(run[r], run'[r]), run'[r].pc \in JobPCs => run[r].pc \in JobPCs
      PROVE  Known(E, run'[r])
  BY <1>0, <1>1 DEF SameCall, Known
<1>2. ASSUME NEW j \in E, NEW fs \in Seq(Frame(E)), NEW s, NEW f,
             run' = [run EXCEPT ![r] = Entry(j, s, f, fs)]
      PROVE  Known(E, run'[r])
  BY <1>0, <1>2 DEF Known, Entry
<1>3. CASE run' = [run EXCEPT ![r] = Idle]
  BY <1>0, <1>3, IdleKnown
<1>4. ASSUME NEW p, p \notin JobPCs, NEW js \in SUBSET E,
             run' = [run EXCEPT ![r].pc = p, ![r].jobs = js]
      PROVE  Known(E, run'[r])
  <2>1. run'[r].pc = p /\ run'[r].jobs = js /\ run'[r].frames = run[r].frames
    BY <1>0, <1>4 DEF Locals, Runner
  <2> QED BY <1>0, <1>4, <2>1 DEF Known
<1>5. {"recover", "poll", "claim", "idle"} \cap JobPCs = {}
  BY DEF JobPCs, SectionPCs
<1>6. CASE SectionStep(r)
  BY <1>1, <1>6, SectionStepLocals DEF InSection, JobPCs
<1>7. CASE FinishRecovery(r)
  <2>1. run' = [run EXCEPT ![r].pc = "poll", ![r].jobs = {}]
    BY <1>7 DEF FinishRecovery
  <2> QED BY <1>4, <1>5, <2>1
<1>8. CASE RequestStep(r)
  <2>1. CASE Goto(r, "local_audio") \/ Goto(r, "local_transcript")
    <3>1. SameCall(run[r], run'[r])
      BY <1>0, <2>1, GotoKeeps
    <3> QED BY <1>1, <1>8, <3>1, RequestLocals DEF JobPCs
  <2> QED BY <1>3, <1>8, <2>1 DEF RequestStep, ProcessLocalJob, SkipLlm
<1>9. CASE StartRecovery(r)
  <2>1. run' = [run EXCEPT ![r].pc = "recover", ![r].jobs = StaleActive]
    BY <1>9 DEF StartRecovery
  <2> QED BY <1>4, <1>5, <2>1
<1>10. CASE Poll(r)
  <2>1. PICK p \in {"idle", "claim"} :
          run' = [run EXCEPT ![r] = [Idle EXCEPT !.pc = p, !.jobs = Pending]]
    BY <1>0, <1>10, PollMoves
  <2>3. Known(E, [Idle EXCEPT !.pc = p, !.jobs = Pending])
    BY <1>5 DEF Idle, Known
  <2> QED BY <1>0, <2>1, <2>3
<1>11. CASE Claim(r)
  <2>1. CASE \E j \in run[r].jobs : Call(r, j, 0, FALSE)
    BY <1>0, <1>2, <2>1 DEF Call, Known
  <2>2. ASSUME NEW p \in {"idle", "claim"}, NEW js \in SUBSET run[r].jobs,
               run' = [run EXCEPT ![r].pc = p, ![r].jobs = js]
        PROVE  Known(E, run'[r])
    <3>1. js \in SUBSET E /\ p \notin JobPCs
      BY <1>5 DEF Known
    <3> QED BY <1>4, <2>2, <3>1
  <2> QED BY <1>0, <1>11, <2>1, <2>2, ClaimMoves
<1>12. CASE Acquire(r)
  <2>1. Goto(r, "prepare") \/ Goto(r, "kick")
    BY <1>12 DEF Acquire
  <2>2. SameCall(run[r], run'[r])
    BY <1>0, <2>1, GotoKeeps
  <2> QED BY <1>1, <1>12, <2>2 DEF Acquire, At, JobPCs
<1>13. CASE Kick(r)
  <2>2. PICK fs \in Seq(Frame(E)) :
          run' = [run EXCEPT ![r] = [run[r] EXCEPT !.pc = "launch", !.frames = fs]]
    BY <1>0, <1>13, KickFrames DEF Known
  <2>3. PICK l : l = [run[r] EXCEPT !.pc = "launch", !.frames = fs]
    OBVIOUS
  <2>4. l.pc = "launch" /\ l.frames = fs /\ l.jobs = run[r].jobs
    BY <1>0, <2>3 DEF Locals, Runner
  <2>5. Known(E, l)
    BY <1>0, <2>4 DEF Known, JobPCs, SectionPCs
  <2> QED BY <1>0, <2>2, <2>3, <2>5
<1>14. CASE Launch(r)
  <2>1. run[r].frames \in Seq(Frame(E))
    BY <1>0 DEF Known
  <2>2. \/ run' = [run EXCEPT ![r] = Idle]
        \/ \E j \in E, fs \in Seq(Frame(E)) :
             run' = [run EXCEPT ![r] = Entry(j, 0, FALSE, fs)]
    BY <1>14, <2>1, LaunchFrames
  <2> QED BY <1>2, <1>3, <2>2
<1>15. CASE RecursionLimit(r)
  BY <1>3, <1>15 DEF RecursionLimit
<1> QED BY <1>6, <1>7, <1>8, <1>9, <1>10, <1>11, <1>12, <1>13, <1>14, <1>15, RunnerSteps DEF PollingStep

LEMMA UserJob ==
  ASSUME TypeOK, NEW j \in Jobs, User(j)
  PROVE  j \in Existing \cup Existing'
BY DEF Existing, TypeOK, DbOK, User, CreateJob, CreateLocalJob, Insert, CancelJob, DeleteJob,
   RetryJob, RetryStep, ResetStep, ResetFrom, AnalyzeWithoutLlm

LEMMA UserKnown ==
  ASSUME TypeOK, NEW j \in Jobs, User(j),
         NEW F, \A q \in Runners : Known(F, run[q]), j \in F
  PROVE  \A q \in Runners : Known(F, run'[q])
<1>0. run \in [Runners -> Locals]
  BY DEF TypeOK
<1>2. ASSUME NEW r \in Runners, NEW p, run' = [run EXCEPT ![r] = [Idle EXCEPT !.pc = p, !.job = j]]
      PROVE  \A q \in Runners : Known(F, run'[q])
  <2>1. Known(F, [Idle EXCEPT !.pc = p, !.job = j])
    BY DEF Known, Idle
  <2> QED BY <1>0, <1>2, <2>1
<1>3. ASSUME NEW s, NEW f, Enqueue(j, s, f)
      PROVE  \A q \in Runners : Known(F, run'[q])
  <2>1. CASE UNCHANGED run
    BY <1>0, <2>1
  <2>2. ASSUME NEW r \in Runners, Call(r, j, s, f)
        PROVE  \A q \in Runners : Known(F, run'[q])
    <3>1. Known(F, Entry(j, s, f, run[r].frames))
      BY <1>0 DEF Known, Entry
    <3> QED BY <1>0, <2>2, <3>1 DEF Call
  <2> QED BY <1>3, <2>1, <2>2 DEF Enqueue, Web
<1>4. CASE UNCHANGED run
  BY <1>0, <1>4
<1>5. CASE CreateLocalJob(j) \/ CancelJob(j) \/ AnalyzeWithoutLlm(j)
  BY <1>2, <1>5 DEF CreateLocalJob, CancelJob, AnalyzeWithoutLlm, Web
<1>6. CASE CreateJob(j) \/ \E force \in BOOLEAN : RetryJob(j, force)
  BY <1>3, <1>6 DEF CreateJob, RetryJob
<1>7. CASE \E s \in FirstStep .. LLM, force \in BOOLEAN : RetryStep(j, s, force)
  BY <1>3, <1>7 DEF RetryStep
<1>8. CASE DeleteJob(j) \/ \E s \in FirstStep .. LLM : ResetStep(j, s)
  BY <1>4, <1>8 DEF DeleteJob, ResetStep
<1> QED BY <1>5, <1>6, <1>7, <1>8 DEF User

LEMMA JobsExistStep ==
  ASSUME PipelineAssumption, TypeOK, JobsExist, [Next]_vars
  PROVE  JobsExist'
<1> PICK E : E = Existing
  OBVIOUS
<1> PICK F : F = Existing'
  OBVIOUS
<1>0. E \subseteq F /\ \A q \in Runners : Known(E, run[q])
  BY ExistingGrows DEF JobsExist
<1>6. Pending \subseteq E /\ StaleActive \subseteq E
  BY DEF Pending, StaleActive, Active, Existing, ACTIVE_PIPELINE_JOB_STATUSES
<1>1. SUFFICES \A q \in Runners : Known(F, run'[q])
  BY DEF JobsExist
<1>2. ASSUME NEW r \in Runners, RunnerStep(r) PROVE \A q \in Runners : Known(F, run'[q])
  <2>1. Known(E, run'[r])
    BY <1>0, <1>2, <1>6, RunnerKnown
  <2>2. \A q \in Runners \ {r} : run'[q] = run[q]
    BY <1>2, OneMoves
  <2> QED BY <1>0, <2>1, <2>2, KnownGrows
<1>3. ASSUME NEW j \in Jobs, User(j) PROVE \A q \in Runners : Known(F, run'[q])
  <2>1. j \in F
    BY <1>0, <1>3, UserJob
  <2>2. \A q \in Runners : Known(F, run[q])
    BY <1>0, KnownGrows
  <2> QED BY <1>3, <2>1, <2>2, UserKnown
<1>4. CASE \/ UNCHANGED vars
           \/ \E j \in Jobs : LeaseExpires(j)
  BY <1>0, <1>4, KnownGrows DEF vars, LeaseExpires
<1>5. ASSUME NEW p \in Procs, Crash(p) PROVE \A q \in Runners : Known(F, run'[q])
  BY <1>0, <1>5, KnownGrows, IdleKnown DEF Crash
<1> QED BY <1>2, <1>3, <1>4, <1>5 DEF Next

(* No runner ever processes, recovers or kicks a job that was not created.  *)
THEOREM KnownJobs == Spec => []JobsExist
<1>1. Init => JobsExist
  BY IdleKnown DEF Init, JobsExist
<1>2. TypeOK /\ JobsExist /\ [Next]_vars => JobsExist'
  BY JobsExistStep, PipelineAssumption
<1> QED BY <1>1, <1>2, TypeCorrect, PTL DEF Spec

-----------------------------------------------------------------------------
(* The loop over the steps. *)

(* One runner per process, as a worker is: its lock excludes all others.    *)
OwnProcess == \A q, r \in Runners : ProcOf[q] = ProcOf[r] => q = r

(* The requests that make, retry and cancel jobs, but clear no outputs and  *)
(* run no step outside process_job_pipeline.                                *)
OrdinaryOps ==
  UserOps \cap {"create_local", "retry_step", "page_retry_step", "reset_step",
                "analyze_without_llm", "delete"} = {}

StepPCs == {"begin", "work", "subtitle", "candidates", "breaker", "complete"}

(* Where a runner is in the loop. *)
InLoop(l) ==
  /\ l.start = 0
  /\ l.pc \notin {"local", "local_audio", "local_transcript", "skip_llm"}
  /\ l.pc \in {"acquire", "prepare"} => l.cur = 0
  /\ l.pc = "check" => l.cur = 0 \/ l.cur \in FirstStep .. LLM
  /\ l.pc \in StepPCs => l.cur \in FirstStep .. LLM
  /\ l.pc = "subtitle" => l.cur = 1
  /\ l.pc = "candidates" => l.cur = 4
  /\ l.pc \in {"breaker", "finish", "snapshot"} => l.cur = LLM

AllInLoop == \A r \in Runners : InLoop(run[r])

LEMMA OutsideLoop ==
  ASSUME NEW l, l.start = 0,
         \/ l.pc \in {"idle", "recover", "poll", "claim", "kick", "launch", "abort", "cancelmark", "release"}
         \/ l.pc \in {"acquire", "prepare"} /\ l.cur = 0
  PROVE  InLoop(l)
BY DEF InLoop, StepPCs

LEMMA SectionInLoop ==
  ASSUME PipelineAssumption, TypeOK, NEW r \in Runners, InLoop(run[r]), SectionStep(r)
  PROVE  InLoop(run'[r])
<1>0. /\ run \in [Runners -> Locals] /\ run[r] \in Locals
      /\ run'[r].start = 0
      /\ FirstStep \in 1 .. 5
  BY SectionStepLocals DEF TypeOK, SameCall, InLoop, PipelineAssumption, StepIx
<1>1. ASSUME NEW p, Goto(r, p) PROVE run'[r].pc = p /\ run'[r].cur = run[r].cur
  BY <1>0, <1>1, GotoKeeps
<1>2. CASE \E p \in {"abort", "cancelmark", "release", "kick"} : Goto(r, p)
  BY <1>0, <1>1, <1>2, OutsideLoop
<1>3. CASE \E e : run' = [run EXCEPT ![r].pc = "abort", ![r].err = e]
  BY <1>0, <1>3, AbortKeeps, OutsideLoop
<1>4. CASE Prepare(r)
  <2>1. CASE Goto(r, "check")
    BY <1>0, <1>1, <1>4, <2>1 DEF Prepare, At, InLoop, StepPCs
  <2>2. CASE ~Goto(r, "check")
    BY <1>2, <1>3, <1>4, <2>2 DEF Prepare
  <2> QED BY <2>1, <2>2
<1>5. CASE Check(r)
  <2>1. CASE run' = [run EXCEPT ![r].pc = "begin", ![r].cur = NextStep(r)]
    <3>1. run'[r].pc = "begin" /\ run'[r].cur = NextStep(r)
      BY <1>0, <2>1, BeginKeeps
    <3>2. NextStep(r) \in FirstStep .. LLM
      <4>1. run[r].cur # LLM /\ run[r].start = 0 /\ (run[r].cur = 0 \/ run[r].cur \in FirstStep .. LLM)
        BY <1>0, <1>5 DEF Check, At, InLoop, Locals
      <4> QED BY <1>0, <4>1 DEF NextStep, LLM
    <3> QED BY <1>0, <3>1, <3>2 DEF InLoop, StepPCs
  <2> QED BY <1>3, <1>5, <2>1 DEF Check
<1>6. CASE Skip(r) \/ Complete(r)
  <2>1. Goto(r, AfterStep(r)) /\ run[r].pc \in StepPCs
    BY <1>6 DEF Skip, Complete, At, StepPCs
  <2>2. run[r].cur \in FirstStep .. LLM
    BY <2>1 DEF InLoop
  <2>3. run'[r].cur = run[r].cur /\ run'[r].pc = IF run[r].cur = LLM THEN "finish" ELSE "check"
    BY <1>1, <2>1 DEF AfterStep
  <2> QED BY <1>0, <2>2, <2>3 DEF InLoop, StepPCs
<1>7. CASE Start(r)
  BY <1>0, <1>1, <1>7 DEF Start, At, InLoop, StepPCs
<1>8. CASE Download(r)
  BY <1>0, <1>1, <1>8 DEF Download, Working, At, InLoop, StepPCs
<1>9. CASE Subtitle(r) \/ ExtractAudio(r) \/ Transcribe(r) \/ GenerateCandidates(r) \/ EnrichWithLlm(r)
  <2>1. Goto(r, "complete") /\ run[r].pc \in StepPCs
    BY <1>9 DEF Subtitle, ExtractAudio, Transcribe, GenerateCandidates, EnrichWithLlm, Working, At, StepPCs
  <2> QED BY <1>0, <1>1, <2>1 DEF InLoop, StepPCs
<1>10. CASE DetectNiche(r)
  BY <1>0, <1>1, <1>10 DEF DetectNiche, Working, At, InLoop, StepPCs
<1>11. CASE SkipLlm(r) /\ At(r, "breaker")
  BY <1>0, <1>1, <1>11 DEF SkipLlm, At, InLoop, StepPCs
<1>12. CASE Finish(r)
  BY <1>0, <1>1, <1>12 DEF Finish, At, InLoop, StepPCs
<1>13. CASE Exhaust(r) \/ ProgressCanceled(r) \/ Fail(r)
  BY <1>3, <1>13 DEF Exhaust, ProgressCanceled, Fail
<1>14. CASE SnapshotStorage(r) \/ Abort(r) \/ CancelMark(r) \/ Release(r)
  BY <1>2, <1>14 DEF SnapshotStorage, Abort, CancelMark, Release
<1> QED BY <1>4, <1>5, <1>6, <1>7, <1>8, <1>9, <1>10, <1>11, <1>12, <1>13, <1>14 DEF SectionStep

LEMMA RunnerInLoop ==
  ASSUME PipelineAssumption, TypeOK, NEW r \in Runners, InLoop(run[r]), RunnerStep(r)
  PROVE  InLoop(run'[r])
<1>0. run \in [Runners -> Locals]
  BY DEF TypeOK
<1>1. CASE SectionStep(r)
  BY <1>1, SectionInLoop
<1>2. CASE RequestStep(r)
  BY <1>2, RequestLocals DEF InLoop
<1>3. CASE PollingStep(r) /\ run'[r].pc \notin {"acquire", "prepare"}
  <2>1. run'[r].start = 0
    BY <1>3, PollingLocals DEF InLoop
  <2>2. run'[r].pc \in {"recover", "poll", "claim", "idle", "kick", "launch"}
    BY <1>3, PollingLocals
  <2> QED BY <2>1, <2>2, OutsideLoop
<1>6. CASE FinishRecovery(r)
  <2>1. run' = [run EXCEPT ![r].pc = "poll", ![r].jobs = {}]
    BY <1>6 DEF FinishRecovery
  <2>2. run'[r].pc = "poll" /\ run'[r].start = 0
    BY <1>0, <2>1 DEF Locals, Runner, InLoop
  <2> QED BY <2>2, OutsideLoop
<1>4. CASE Acquire(r)
  <2>1. PICK p \in {"prepare", "kick"} : Goto(r, p)
    BY <1>4 DEF Acquire
  <2>2. run[r].cur = 0 /\ run[r].start = 0
    BY <1>4 DEF Acquire, At, InLoop
  <2> QED BY <1>0, <2>1, <2>2, GotoKeeps, OutsideLoop DEF SameCall
<1>5. CASE PollingStep(r) /\ ~Acquire(r) /\ run'[r].pc \in {"acquire", "prepare"}
  <2>1. PICK j, fs : run' = [run EXCEPT ![r] = Entry(j, 0, FALSE, fs)]
    <3>1. CASE Claim(r)
      <4>1. ASSUME NEW p \in {"idle", "claim"}, NEW js,
                   run' = [run EXCEPT ![r].pc = p, ![r].jobs = js]
            PROVE  run'[r].pc = p
        BY <1>0, <4>1 DEF Locals, Runner
      <4>2. \E j \in run[r].jobs : Call(r, j, 0, FALSE)
        BY <1>0, <1>5, <3>1, <4>1, ClaimMoves
      <4> QED BY <4>2 DEF Call
    <3>2. CASE Launch(r)
      <4>1. run' # [run EXCEPT ![r] = Idle]
        BY <1>0, <1>5 DEF Idle
      <4>2. run[r].frames \in Seq(Frame(Jobs))
        BY <1>0 DEF Locals, Runner, Frame
      <4> QED BY <3>2, <4>1, <4>2, LaunchFrames
    <3>3. CASE StartRecovery(r)
      <4>1. run' = [run EXCEPT ![r].pc = "recover", ![r].jobs = StaleActive]
        BY <3>3 DEF StartRecovery
      <4>2. run'[r].pc = "recover"
        BY <1>0, <4>1 DEF Locals, Runner
      <4> QED BY <1>5, <4>2
    <3>4. CASE Poll(r)
      <4>1. PICK p \in {"idle", "claim"} :
              run' = [run EXCEPT ![r] = [Idle EXCEPT !.pc = p, !.jobs = Pending]]
        BY <1>0, <3>4, PollMoves
      <4>2. run'[r].pc = p
        BY <1>0, <4>1 DEF Idle
      <4> QED BY <1>5, <4>2
    <3>6. CASE RecursionLimit(r)
      BY <1>0, <1>5, <3>6 DEF RecursionLimit, Idle
    <3>5. CASE Kick(r)
      BY <1>0, <1>5, <3>5 DEF Kick, Locals, Runner
    <3> QED BY <1>5, <3>1, <3>2, <3>3, <3>4, <3>5, <3>6 DEF PollingStep
  <2>2. run'[r].start = 0 /\ run'[r].pc = "acquire" /\ run'[r].cur = 0
    BY <1>0, <2>1 DEF Entry
  <2> QED BY <2>2, OutsideLoop
<1> QED BY <1>1, <1>2, <1>3, <1>4, <1>5, <1>6, RunnerSteps

(* A request hands a job to an idle thread of the web process, from its     *)
(* first step, or leaves all runners alone.                                 *)
LEMMA UserLoops ==
  ASSUME OrdinaryOps, TypeOK, AllInLoop, NEW j \in Jobs, User(j)
  PROVE  /\ AllInLoop'
         /\ \A q \in Runners : InSection(q)' => run'[q] = run[q]
         /\ UNCHANGED row
         /\ \/ UNCHANGED have /\ status[j] # "absent"
            \/ /\ status[j] = "absent"
               /\ \E files \in {{}, {"video"}} : have' = [have EXCEPT ![j] = files \cup Seeded]
         /\ \E v : v \notin {"absent", "done"} /\ status' = [status EXCEPT ![j] = v]
<1>0. run \in [Runners -> Locals]
  BY DEF TypeOK
<1>1. ~UserOp("retry_step") /\ ~UserOp("page_retry_step") /\ ~UserOp("reset_step")
      /\ ~UserOp("analyze_without_llm") /\ ~UserOp("delete") /\ "create_local" \notin UserOps
  BY DEF OrdinaryOps, UserOp
<1>2. CreateJob(j) \/ CancelJob(j) \/ \E force \in BOOLEAN : RetryJob(j, force)
  BY <1>1 DEF User, CreateLocalJob, AnalyzeWithoutLlm, DeleteJob, RetryStep, ResetStep
<1>3. ASSUME NEW r \in Runners, NEW l, run' = [run EXCEPT ![r] = l],
             l.start = 0, l.cur = 0, l.pc \in {"acquire", "kick"}
      PROVE  AllInLoop' /\ \A q \in Runners : InSection(q)' => run'[q] = run[q]
  <2>1. InLoop(l)
    BY <1>3, OutsideLoop
  <2>2. run'[r] = l /\ \A q \in Runners \ {r} : run'[q] = run[q]
    BY <1>0, <1>3
  <2> QED BY <1>3, <2>1, <2>2 DEF AllInLoop, InSection, SectionPCs
<1>8. ASSUME NEW r \in Runners, NEW force, Call(r, j, 0, force)
      PROVE  AllInLoop' /\ \A q \in Runners : InSection(q)' => run'[q] = run[q]
  <2>1. PICK l : l = Entry(j, 0, force, run[r].frames)
    OBVIOUS
  <2>2. l.start = 0 /\ l.cur = 0 /\ l.pc = "acquire"
    BY <2>1 DEF Entry
  <2> QED BY <1>3, <1>8, <2>1, <2>2 DEF Call
<1>9. ASSUME NEW r \in Runners, run' = [run EXCEPT ![r] = [Idle EXCEPT !.pc = "kick", !.job = j]]
      PROVE  AllInLoop' /\ \A q \in Runners : InSection(q)' => run'[q] = run[q]
  <2>1. PICK l : l = [Idle EXCEPT !.pc = "kick", !.job = j]
    OBVIOUS
  <2>2. l.start = 0 /\ l.cur = 0 /\ l.pc = "kick"
    BY <2>1 DEF Idle
  <2> QED BY <1>3, <1>9, <2>1, <2>2
<1>10. ASSUME UNCHANGED run
       PROVE  AllInLoop' /\ \A q \in Runners : InSection(q)' => run'[q] = run[q]
  BY <1>10 DEF AllInLoop
<1>4. AllInLoop' /\ \A q \in Runners : InSection(q)' => run'[q] = run[q]
  <2>1. ASSUME NEW force, Enqueue(j, 0, force)
        PROVE  AllInLoop' /\ \A q \in Runners : InSection(q)' => run'[q] = run[q]
    BY <1>8, <1>10, <2>1 DEF Enqueue, Web
  <2>2. CASE CancelJob(j)
    BY <1>9, <2>2 DEF CancelJob, Web
  <2>3. CASE CreateJob(j) \/ \E force \in BOOLEAN : RetryJob(j, force)
    BY <2>1, <2>3 DEF CreateJob, RetryJob
  <2> QED BY <1>2, <2>2, <2>3
<1>5. UNCHANGED row
  BY <1>2 DEF CreateJob, CancelJob, RetryJob
<1>6. \/ UNCHANGED have /\ status[j] # "absent"
      \/ /\ status[j] = "absent"
         /\ \E files \in {{}, {"video"}} : have' = [have EXCEPT ![j] = files \cup Seeded]
  BY <1>2 DEF CreateJob, Insert, CancelJob, RetryJob
<1>7. \E v : v \notin {"absent", "done"} /\ status' = [status EXCEPT ![j] = v]
  BY <1>2 DEF CreateJob, Insert, CancelJob, RetryJob
<1> QED BY <1>4, <1>5, <1>6, <1>7

-----------------------------------------------------------------------------
(* What the loop has produced. *)

Ended == {"completed", "skipped"}

(* The last step whose row has been concluded, and whose output is there.   *)
LastEnded(l) ==
  IF l.pc \in {"check", "finish", "snapshot"} THEN l.cur
  ELSE IF l.pc \in StepPCs THEN l.cur - 1 ELSE 0
LastMade(l) == IF l.pc = "complete" THEN l.cur ELSE LastEnded(l)

(* The rows rw and outputs hv of the job that a runner with locals l has.   *)
OutputsMade(l, rw, hv) ==
  /\ \A s \in FirstStep .. LastEnded(l) : rw[s] \in Ended
  /\ LastMade(l) >= 3 => "transcript" \in hv
  /\ LastMade(l) >= 4 \/ l.pc = "candidates" => "niche" \in hv
  /\ l.pc = "subtitle" => "transcript" \notin hv
  /\ l.pc = "breaker" => "insights" \notin hv
  /\ l.pc = "work" /\ l.cur = LLM => "insights" \notin hv

AllMade == \A r \in Runners : InSection(r) => OutputsMade(run[r], row[Job(r)], have[Job(r)])

(* A job has no outputs before it is created, and those it was created with *)
(* for good.                                                                *)
SeedsKept == \A j \in Jobs : IF status[j] = "absent" THEN have[j] = {} ELSE Seeded \subseteq have[j]

LEMMA SeedsHelp ==
  ASSUME PipelineAssumption
  PROVE  /\ FirstStep > 3 => "transcript" \in Seeded
         /\ FirstStep > 4 => "niche" \in Seeded
         /\ "insights" \notin Seeded
BY DEF PipelineAssumption, StepIx, Seeded, Outputs

(* Only a job that exists is in a section. *)
LEMMA SectionSeeds ==
  ASSUME JobsExist, SeedsKept, NEW r \in Runners, InSection(r)
  PROVE  Seeded \subseteq have[Job(r)] /\ status[Job(r)] # "absent"
<1>1. Job(r) \in Existing
  BY DEF JobsExist, Known, InSection, JobPCs, Job
<1> QED BY <1>1 DEF Existing, SeedsKept

(* Nothing that a run produced is lost by it: the subtitle, the enrichment  *)
(* and the circuit breaker clear only what is not there.                    *)
LEMMA SectionHaveGrows ==
  ASSUME TypeOK, AllMade, NEW r \in Runners, SectionStep(r), NEW j \in Jobs
  PROVE  have[j] \subseteq have'[j]
<1>0. /\ have \in [Jobs -> SUBSET Artifacts]
      /\ InSection(r) /\ OutputsMade(run[r], row[Job(r)], have[Job(r)])
  BY SectionStepLocals DEF TypeOK, DbOK, AllMade
<1>1. CASE have' = have \/ \E a : have' = [have EXCEPT ![Job(r)] = @ \cup a]
  BY <1>0, <1>1
<1>2. ASSUME NEW a, a \notin have[Job(r)], have' = [have EXCEPT ![Job(r)] = @ \ {a}]
      PROVE  have[j] \subseteq have'[j]
  BY <1>0, <1>2
<1>3. CASE Subtitle(r)
  <2>1. "transcript" \notin have[Job(r)]
    BY <1>0, <1>3 DEF Subtitle, At, OutputsMade
  <2> QED BY <1>1, <1>2, <1>3, <2>1 DEF Subtitle, Add
<1>4. CASE EnrichWithLlm(r)
  <2>1. "insights" \notin have[Job(r)]
    BY <1>0, <1>4 DEF EnrichWithLlm, Working, At, OutputsMade
  <2> QED BY <1>1, <1>2, <1>4, <2>1 DEF EnrichWithLlm, Add
<1>5. CASE SkipLlm(r) /\ At(r, "breaker")
  <2>1. "insights" \notin have[Job(r)]
    BY <1>0, <1>5 DEF At, OutputsMade
  <2> QED BY <1>2, <1>5, <2>1 DEF SkipLlm
<1>6. CASE ~(Subtitle(r) \/ EnrichWithLlm(r) \/ (SkipLlm(r) /\ At(r, "breaker")))
  BY <1>1, <1>6 DEF SectionStep, db, Prepare, Check, Skip, Exhaust, Start, Add,
     Download, ExtractAudio, Transcribe, DetectNiche, GenerateCandidates,
     ProgressCanceled, Fail, Complete, Finish, SnapshotStorage, Abort, CancelMark, Release
<1> QED BY <1>3, <1>4, <1>5, <1>6 DEF SectionStep

LEMMA RunnerHaveGrows ==
  ASSUME TypeOK, AllMade, AllInLoop, NEW r \in Runners, RunnerStep(r), NEW j \in Jobs
  PROVE  have[j] \subseteq have'[j]
<1>1. CASE SectionStep(r)
  BY <1>1, SectionHaveGrows
<1>2. CASE PollingStep(r) \/ FinishRecovery(r)
  BY <1>2, PollingRows DEF FinishRecovery
<1>3. CASE RequestStep(r)
  BY <1>3, RequestLocals DEF AllInLoop, InLoop
<1> QED BY <1>1, <1>2, <1>3, RunnerSteps

(* The runner that acts. *)
LEMMA SectionMade ==
  ASSUME PipelineAssumption, TypeOK, JobsExist, AllInLoop, SeedsKept, AllMade,
         NEW r \in Runners, SectionStep(r), InSection(r)'
  PROVE  OutputsMade(run'[r], row'[Job(r)], have'[Job(r)])
<1> PICK l : l = run[r]
  OBVIOUS
<1> PICK m : m = run'[r]
  OBVIOUS
<1> PICK j : j = Job(r)
  OBVIOUS
<1>0. /\ run \in [Runners -> Locals] /\ l \in Locals /\ InSection(r) /\ j \in Jobs
      /\ InLoop(l) /\ OutputsMade(l, row[j], have[j])
      /\ FirstStep \in 1 .. 5 /\ LLM = 5
      /\ l.cur \in 0 .. 5
  BY SectionStepLocals, SectionJob DEF TypeOK, AllInLoop, AllMade, PipelineAssumption, StepIx, LLM, Locals, Runner
<1>1. have[j] \subseteq have'[j]
  BY <1>0, SectionHaveGrows
<1>2. row \in [Jobs -> [StepIx -> RowStatuses]] /\ have \in [Jobs -> SUBSET Artifacts]
  BY DEF TypeOK, DbOK
<1>3. ASSUME NEW p, Goto(r, p) PROVE m.pc = p /\ m.cur = l.cur
  BY <1>0, <1>3, GotoKeeps
(* Where nothing is claimed of the outputs. *)
<1>4. CASE m.pc \in {"prepare", "abort", "cancelmark", "release"}
  BY <1>0, <1>4 DEF OutputsMade, LastMade, LastEnded, StepPCs
<1>5. CASE Prepare(r) /\ m.pc = "check"
  <2>1. m.cur = 0
    <3>1. Goto(r, "check")
      <4>1. ASSUME NEW e, run' = [run EXCEPT ![r].pc = "abort", ![r].err = e] PROVE FALSE
        BY <1>0, <1>5, <4>1, AbortKeeps
      <4> QED BY <1>3, <1>5, <4>1 DEF Prepare
    <3> QED BY <1>0, <1>3, <1>5, <3>1 DEF Prepare, At, InLoop
  <2> QED BY <1>0, <1>5, <2>1 DEF OutputsMade, LastMade, LastEnded, StepPCs
<1>6. CASE Check(r) /\ m.pc = "begin"
  <2>1. m.cur = NextStep(r) /\ l.pc = "check" /\ UNCHANGED <<row, have>> /\ l.start = 0
    <3>1. run' = [run EXCEPT ![r].pc = "begin", ![r].cur = NextStep(r)]
      BY <1>0, <1>6, AbortKeeps DEF Check
    <3>2. m.cur = NextStep(r)
      BY <1>0, <3>1, BeginKeeps
    <3> QED BY <1>0, <1>6, <3>2 DEF Check, At, db, InLoop
  <2>2. CASE l.cur = 0
    <3>1. m.cur = FirstStep
      BY <2>1, <2>2 DEF NextStep
    <3>2. LastEnded(m) = FirstStep - 1 /\ LastMade(m) = FirstStep - 1
      BY <1>6, <3>1 DEF LastEnded, LastMade, StepPCs
    <3>3. Seeded \subseteq have[j]
      BY <1>0, SectionSeeds
    <3> QED BY <1>0, <1>6, <2>1, <3>2, <3>3, SeedsHelp DEF OutputsMade
  <2>3. CASE l.cur # 0
    <3>1. m.cur = l.cur + 1
      BY <2>1, <2>3 DEF NextStep
    <3>2. LastEnded(m) = l.cur /\ LastMade(m) = l.cur /\ LastEnded(l) = l.cur /\ LastMade(l) = l.cur
      BY <1>0, <1>6, <2>1, <3>1 DEF LastEnded, LastMade, StepPCs
    <3> QED BY <1>0, <1>6, <2>1, <3>2 DEF OutputsMade
  <2> QED BY <2>2, <2>3
(* The row of the current step is concluded. *)
<1>7. CASE Skip(r) \/ Complete(r)
  <2>1. /\ Goto(r, AfterStep(r)) /\ UNCHANGED have
        /\ \E v \in Ended : row' = [row EXCEPT ![j][l.cur] = v]
        /\ l.pc \in {"begin", "complete"}
    BY <1>7 DEF Skip, Complete, At, Ended
  <2>2. m.cur = l.cur /\ m.pc \in {"check", "finish"} /\ l.cur \in StepIx
    <3>1. m.cur = l.cur /\ m.pc = AfterStep(r)
      BY <1>3, <2>1
    <3> QED BY <1>0, <2>1, <3>1 DEF AfterStep, InLoop, StepPCs, StepIx
  <2>3. LastEnded(m) = l.cur /\ LastMade(m) = l.cur /\ LastEnded(l) = l.cur - 1
    BY <2>1, <2>2 DEF LastEnded, LastMade, StepPCs
  <2>4. \A s \in FirstStep .. l.cur : row'[j][s] \in Ended
    <3>1. row'[j][l.cur] \in Ended
      BY <1>0, <1>2, <2>1, <2>2
    <3>2. ASSUME NEW s \in FirstStep .. l.cur, s # l.cur PROVE row'[j][s] \in Ended
      <4>1. row'[j][s] = row[j][s]
        BY <1>0, <1>2, <2>1, <3>2
      <4>2. s \in FirstStep .. LastEnded(l)
        BY <1>0, <2>3, <3>2
      <4> QED BY <1>0, <4>1, <4>2 DEF OutputsMade
    <3> QED BY <3>1, <3>2
  <2>5. (l.cur >= 3 => "transcript" \in have[j]) /\ (l.cur >= 4 => "niche" \in have[j])
    <3>1. CASE Complete(r)
      <4>1. LastMade(l) = l.cur
        BY <3>1 DEF Complete, At, LastMade
      <4> QED BY <1>0, <4>1 DEF OutputsMade
    <3>2. CASE Skip(r)
      <4>1. l.pc = "begin" /\ have[j] \cap SkipOn[l.cur] # {}
        BY <3>2 DEF Skip, At, Skippable
      <4>2. LastMade(l) = l.cur - 1
        BY <4>1 DEF LastMade, LastEnded, StepPCs
      <4>3. l.cur = 3 => "transcript" \in have[j]
        BY <4>1 DEF SkipOn
      <4>4. l.cur = 4 => "niche" \in have[j]
        BY <4>1 DEF SkipOn
      <4> QED BY <1>0, <4>2, <4>3, <4>4 DEF OutputsMade
    <3> QED BY <1>7, <3>1, <3>2
  <2> QED BY <2>1, <2>2, <2>3, <2>4, <2>5 DEF OutputsMade
<1>8. CASE Start(r)
  <2>1. /\ l.pc = "begin" /\ m.cur = l.cur /\ m.pc \in {"work", "breaker"} /\ UNCHANGED have
        /\ row' = [row EXCEPT ![j][l.cur] = "running"]
        /\ have[j] \cap SkipOn[l.cur] = {}
        /\ m.pc = "breaker" => l.cur = LLM
    BY <1>3, <1>8 DEF Start, At, MarkRunning, Skippable
  <2>2. LastEnded(m) = l.cur - 1 /\ LastMade(m) = l.cur - 1 /\ LastEnded(l) = l.cur - 1 /\ LastMade(l) = l.cur - 1
    BY <2>1 DEF LastEnded, LastMade, StepPCs
  <2>3. \A s \in FirstStep .. l.cur - 1 : row'[j][s] \in Ended
    <3> SUFFICES ASSUME NEW s \in FirstStep .. l.cur - 1 PROVE row'[j][s] \in Ended
      OBVIOUS
    <3>1. row'[j][s] = row[j][s]
      BY <1>0, <1>2, <2>1
    <3> QED BY <1>0, <2>2, <3>1 DEF OutputsMade
  <2>4. l.cur = LLM => "insights" \notin have[j]
    BY <1>0, <2>1 DEF SkipOn
  <2> QED BY <1>0, <2>1, <2>2, <2>3, <2>4 DEF OutputsMade
(* The bodies of the steps. *)
<1>9. CASE Download(r)
  <2>1. /\ l.pc = "work" /\ l.cur = 1 /\ m.cur = 1 /\ UNCHANGED row
        /\ m.pc = "complete" \/ (m.pc = "subtitle" /\ "transcript" \notin have[j])
        /\ have' = [have EXCEPT ![j] = @ \cup {"video"}]
    BY <1>3, <1>9 DEF Download, Working, At, Add
  <2>2. "transcript" \notin have[j] => "transcript" \notin have'[j]
    BY <1>0, <1>2, <2>1
  <2>3. LastEnded(m) = 0 /\ LastMade(m) \in {0, 1}
    BY <2>1 DEF LastEnded, LastMade, StepPCs
  <2>4. FirstStep .. LastEnded(m) = {}
    BY <1>0, <2>3
  <2> QED BY <2>1, <2>2, <2>3, <2>4 DEF OutputsMade
<1>10. CASE \/ Subtitle(r) \/ ExtractAudio(r) \/ Transcribe(r) \/ GenerateCandidates(r)
            \/ EnrichWithLlm(r) \/ (SkipLlm(r) /\ At(r, "breaker"))
  <2>1. /\ m.pc = "complete" /\ m.cur = l.cur /\ UNCHANGED row
        /\ l.pc \in {"subtitle", "work", "candidates", "breaker"}
    BY <1>3, <1>10 DEF Subtitle, ExtractAudio, Transcribe, GenerateCandidates, EnrichWithLlm,
       SkipLlm, Working, At
  <2>2. /\ LastEnded(m) = l.cur - 1 /\ LastMade(m) = l.cur
        /\ LastEnded(l) = l.cur - 1 /\ LastMade(l) = l.cur - 1
    BY <2>1 DEF LastEnded, LastMade, StepPCs
  <2>3. l.cur = 3 => "transcript" \in have'[j]
    <3>1. CASE l.cur = 3
      <4>1. Transcribe(r)
        BY <1>0, <1>10, <3>1 DEF Subtitle, ExtractAudio, Transcribe, GenerateCandidates, EnrichWithLlm,
           SkipLlm, Working, At, InLoop
      <4> QED BY <1>0, <1>2, <4>1 DEF Transcribe, Add
    <3> QED BY <3>1
  <2>4. l.cur = 4 => "niche" \in have'[j]
    <3>1. CASE l.cur = 4
      <4>1. l.pc = "candidates"
        BY <1>0, <1>10, <3>1 DEF Subtitle, ExtractAudio, Transcribe, GenerateCandidates, EnrichWithLlm,
           SkipLlm, Working, At, InLoop
      <4> QED BY <1>0, <1>1, <4>1 DEF OutputsMade
    <3> QED BY <3>1
  <2>5. /\ l.cur - 1 >= 3 => "transcript" \in have'[j]
        /\ l.cur - 1 >= 4 => "niche" \in have'[j]
    BY <1>0, <1>1, <2>2 DEF OutputsMade
  <2>6. \A s \in FirstStep .. LastEnded(m) : row'[j][s] \in Ended
    BY <1>0, <2>1, <2>2 DEF OutputsMade
  <2> QED BY <1>0, <2>1, <2>2, <2>3, <2>4, <2>5, <2>6 DEF OutputsMade
<1>11. CASE DetectNiche(r)
  <2>1. /\ l.pc = "work" /\ l.cur = 4 /\ m.cur = 4 /\ m.pc = "candidates" /\ UNCHANGED row
        /\ have' = [have EXCEPT ![j] = @ \cup {"niche"}]
    BY <1>3, <1>11 DEF DetectNiche, Working, At, Add
  <2>2. "niche" \in have'[j]
    BY <1>0, <1>2, <2>1
  <2>3. LastEnded(m) = 3 /\ LastMade(m) = 3 /\ LastEnded(l) = 3 /\ LastMade(l) = 3
    BY <2>1 DEF LastEnded, LastMade, StepPCs
  <2> QED BY <1>0, <1>1, <2>1, <2>2, <2>3 DEF OutputsMade
<1>12. CASE Finish(r)
  <2>1. m.pc = "snapshot" /\ m.cur = l.cur /\ l.pc = "finish" /\ UNCHANGED <<row, have>>
    BY <1>3, <1>12 DEF Finish, At
  <2>2. LastEnded(m) = LastEnded(l) /\ LastMade(m) = LastMade(l)
    BY <2>1 DEF LastEnded, LastMade, StepPCs
  <2> QED BY <1>0, <2>1, <2>2 DEF OutputsMade
(* All other steps leave the loop. *)
<1>13. CASE Exhaust(r) \/ ProgressCanceled(r) \/ Fail(r)
  <2>1. m.pc = "abort"
    BY <1>0, <1>13, AbortKeeps DEF Exhaust, ProgressCanceled, Fail
  <2> QED BY <1>4, <2>1
<1>14. CASE SnapshotStorage(r) \/ Abort(r) \/ CancelMark(r)
  BY <1>3, <1>4, <1>14 DEF SnapshotStorage, Abort, CancelMark
<1>15. CASE Release(r)
  BY <1>3, <1>15 DEF Release, InSection, SectionPCs
<1>16. CASE Prepare(r) /\ m.pc # "check"
  BY <1>0, <1>3, <1>4, <1>16, AbortKeeps DEF Prepare
<1>17. CASE Check(r) /\ m.pc # "begin"
  BY <1>0, <1>4, <1>17, AbortKeeps, BeginKeeps DEF Check
<1> QED BY <1>5, <1>6, <1>7, <1>8, <1>9, <1>10, <1>11, <1>12, <1>13, <1>14, <1>15, <1>16, <1>17 DEF SectionStep

(* No two runners are in the section of one job.                           *)
LEMMA HeldApart ==
  ASSUME LeaseHeld, OwnProcess, evicted = {}
  PROVE  OneRunnerPerJob
BY DEF LeaseHeld, OwnProcess, OneRunnerPerJob

(* Where each process has one thread for the pipeline, no two runners ever  *)
(* process a job together until one of them loses its lock.                 *)
THEOREM NoTwoRunners ==
  ASSUME OwnProcess
  PROVE  Spec /\ [](evicted = {}) => []OneRunnerPerJob
<1>1. LeaseHeld /\ evicted = {} => OneRunnerPerJob
  BY HeldApart
<1> QED BY <1>1, LeaseSafety, PTL

LEMMA OthersMade ==
  ASSUME TypeOK, AllInLoop, AllMade, OneRunnerPerJob, NEW r \in Runners, RunnerStep(r),
         NEW q \in Runners \ {r}, InSection(q)'
  PROVE  OutputsMade(run'[q], row'[Job(q)'], have'[Job(q)'])
<1>0. run'[q] = run[q]
  BY OneMoves
<1>1. /\ InSection(q) /\ Job(q)' = Job(q) /\ Job(q) \in Jobs
      /\ OutputsMade(run[q], row[Job(q)], have[Job(q)])
  BY <1>0, SectionJob DEF InSection, Job, AllMade, TypeOK
<1>2. CASE SectionStep(r)
  <2>1. Job(q) # Job(r)
    BY <1>1, <1>2, SectionStepLocals DEF OneRunnerPerJob
  <2> QED BY <1>0, <1>1, <1>2, <2>1, SectionStepRows
<1>3. CASE PollingStep(r)
  BY <1>0, <1>1, <1>3, PollingRows
<1>4. CASE FinishRecovery(r)
  <2>1. /\ have' = have
        /\ \A s \in StepIx : row[Job(q)][s] \in Ended => row'[Job(q)][s] = row[Job(q)][s]
    BY <1>1, <1>4 DEF FinishRecovery, Interrupted, Ended
  <2>2. FirstStep .. LastEnded(run[q]) \subseteq StepIx
    <3>1. run[q].cur \in 0 .. 5 /\ FirstStep \in 1 .. 5
      BY PipelineAssumption DEF TypeOK, Locals, Runner, PipelineAssumption, StepIx
    <3>2. LastEnded(run[q]) \in {0, run[q].cur, run[q].cur - 1}
      BY DEF LastEnded
    <3> QED BY <3>1, <3>2 DEF StepIx
  <2>3. \A s \in FirstStep .. LastEnded(run[q]) : row'[Job(q)][s] \in Ended
    BY <1>1, <2>1, <2>2 DEF OutputsMade
  <2>4. OutputsMade(run[q], row'[Job(q)], have[Job(q)])
    BY <1>1, <2>3 DEF OutputsMade
  <2> QED BY <1>0, <1>1, <2>1, <2>4
<1>5. CASE RequestStep(r)
  BY <1>5, RequestLocals DEF AllInLoop, InLoop
<1> QED BY <1>2, <1>3, <1>4, <1>5, RunnerSteps

LEMMA RunnerMade ==
  ASSUME PipelineAssumption, TypeOK, JobsExist, AllInLoop, SeedsKept, AllMade, OneRunnerPerJob,
         NEW r \in Runners, RunnerStep(r)
  PROVE  AllMade'
<1> SUFFICES ASSUME NEW q \in Runners, InSection(q)'
             PROVE  OutputsMade(run'[q], row'[Job(q)'], have'[Job(q)'])
  BY DEF AllMade
<1>1. CASE q # r
  BY <1>1, OthersMade
<1>2. CASE q = r /\ SectionStep(r)
  <2>1. Job(r)' = Job(r)
    BY <1>2, SectionStepLocals DEF SameCall, Job
  <2> QED BY <1>2, <2>1, SectionMade
<1>3. CASE q = r /\ ~SectionStep(r)
  <2>1. run'[r].pc = "prepare"
    BY <1>3, RunnerSteps, PollingLocals, RequestLocals DEF InSection, SectionPCs
  <2>2. LastEnded(run'[r]) = 0 /\ LastMade(run'[r]) = 0 /\ FirstStep .. 0 = {}
    BY <2>1 DEF LastEnded, LastMade, StepPCs, PipelineAssumption, StepIx
  <2> QED BY <1>3, <2>1, <2>2 DEF OutputsMade
<1> QED BY <1>1, <1>2, <1>3

(* A job becomes done only by process_job_pipeline at its end, and while it  *)
(* is done nobody touches its steps.                                        *)
LEMMA RunnerDone ==
  ASSUME PipelineAssumption, TypeOK, AllInLoop, AllMade, DoneMeansComplete,
         NEW r \in Runners, RunnerStep(r)
  PROVE  DoneMeansComplete'
<1> SUFFICES ASSUME NEW j \in Jobs, status'[j] = "done"
             PROVE  /\ \A s \in FirstStep .. LLM : row'[j][s] \in Ended
                    /\ {"transcript", "niche"} \subseteq have'[j]
  BY DEF DoneMeansComplete, Ended
<1>0. /\ status \in [Jobs -> Statuses] /\ row \in [Jobs -> [StepIx -> RowStatuses]]
      /\ have[j] \subseteq have'[j]
  BY RunnerHaveGrows DEF TypeOK, DbOK
<1>1. ASSUME status[j] = "done", \A s \in FirstStep .. LLM : row[j][s] \in Ended => row'[j][s] \in Ended
      PROVE  /\ \A s \in FirstStep .. LLM : row'[j][s] \in Ended
             /\ {"transcript", "niche"} \subseteq have'[j]
  BY <1>0, <1>1 DEF DoneMeansComplete, Ended
<1>2. CASE SectionStep(r) /\ j = Job(r)
  <2>1. CASE Finish(r)
    <3>1. /\ OutputsMade(run[r], row[j], have[j]) /\ At(r, "finish") /\ UNCHANGED row
          /\ run[r].cur = LLM
      BY <1>2, <2>1, SectionStepLocals DEF AllMade, Finish, At, AllInLoop, InLoop
    <3>2. LastEnded(run[r]) = LLM /\ LastMade(run[r]) = LLM /\ LLM = 5
      BY <3>1 DEF LastEnded, LastMade, At, LLM
    <3> QED BY <1>0, <3>1, <3>2 DEF OutputsMade
  <2>2. CASE Skip(r) \/ Complete(r)
    <3>1. status' = status /\ \E v \in Ended : row' = [row EXCEPT ![j][run[r].cur] = v]
      BY <1>2, <2>2 DEF Skip, Complete, Ended
    <3>2. FirstStep .. LLM \subseteq StepIx
      BY DEF PipelineAssumption, StepIx, LLM
    <3>3. \A s \in FirstStep .. LLM : row[j][s] \in Ended => row'[j][s] \in Ended
      BY <1>0, <3>1, <3>2
    <3> QED BY <1>1, <3>1, <3>3
  <2>3. CASE Start(r)
    <3>1. run[r].cur \in StepIx
      BY <2>3 DEF TypeOK, Locals, Runner, Start, At, StepIx
    <3>2. PIPELINE_STEPS[run[r].cur] # "done"
      BY <3>1 DEF PIPELINE_STEPS, StepIx
    <3> QED BY <1>0, <1>2, <2>3, <3>2 DEF Start, MarkRunning
  <2>4. CASE Exhaust(r) \/ Abort(r) \/ CancelMark(r)
    BY <1>0, <1>2, <2>4 DEF Exhaust, Abort, AbortStatus, CancelMark
  <2>5. CASE ~(Finish(r) \/ Skip(r) \/ Complete(r) \/ Start(r) \/ Exhaust(r) \/ Abort(r) \/ CancelMark(r))
    <3>1. row' = row /\ (status' = status \/ \E v : status' = [status EXCEPT ![j] = v] /\ v \in {status[j], "pending"})
      BY <1>2, <2>5 DEF SectionStep, db, Prepare, Check,
         Download, Subtitle, ExtractAudio, Transcribe, DetectNiche, GenerateCandidates, EnrichWithLlm,
         SkipLlm, ProgressCanceled, Fail, SnapshotStorage, Release
    <3>2. status[j] = "done"
      BY <1>0, <3>1
    <3> QED BY <1>1, <3>1, <3>2
  <2> QED BY <2>1, <2>2, <2>3, <2>4, <2>5
<1>3. CASE SectionStep(r) /\ j # Job(r)
  BY <1>1, <1>3, SectionStepRows
<1>4. CASE PollingStep(r)
  BY <1>1, <1>4, PollingRows
<1>5. CASE FinishRecovery(r)
  BY <1>1, <1>5 DEF FinishRecovery
<1>6. CASE RequestStep(r)
  BY <1>6, RequestLocals DEF AllInLoop, InLoop
<1> QED BY <1>2, <1>3, <1>4, <1>5, <1>6, RunnerSteps

LEMMA RunnerSeeds ==
  ASSUME TypeOK, JobsExist, AllInLoop, AllMade, SeedsKept, NEW r \in Runners, RunnerStep(r)
  PROVE  SeedsKept'
<1> SUFFICES ASSUME NEW j \in Jobs
             PROVE  IF status'[j] = "absent" THEN have'[j] = {} ELSE Seeded \subseteq have'[j]
  BY DEF SeedsKept
<1>1. have[j] \subseteq have'[j]
  BY RunnerHaveGrows
<1>2. CASE status[j] # "absent"
  <2>1. RunnerStep(r) => Next
    BY DEF Next
  <2>2. status'[j] # "absent"
    BY <1>2, <2>1, ExistingGrows DEF Existing
  <2> QED BY <1>1, <1>2, <2>2 DEF SeedsKept
<1>3. CASE status[j] = "absent"
  <2>1. have[j] = {}
    BY <1>3 DEF SeedsKept
  <2>2. status'[j] = "absent" /\ have'[j] = have[j]
    <3>1. CASE SectionStep(r)
      <4>1. j # Job(r)
        BY <1>3, <3>1, SectionStepLocals, SectionSeeds
      <4> QED BY <1>3, <3>1, <4>1, SectionStepRows
    <3>2. CASE PollingStep(r)
      BY <1>3, <3>2, PollingRows
    <3>3. CASE FinishRecovery(r)
      <4>1. run[r].jobs \subseteq Existing
        BY DEF JobsExist, Known
      <4>2. j \notin run[r].jobs
        BY <1>3, <4>1 DEF Existing
      <4> QED BY <1>3, <3>3, <4>2 DEF FinishRecovery
    <3>4. CASE RequestStep(r)
      BY <3>4, RequestLocals DEF AllInLoop, InLoop
    <3> QED BY <3>1, <3>2, <3>3, <3>4, RunnerSteps
  <2> QED BY <2>1, <2>2
<1> QED BY <1>2, <1>3

LEMMA UserMade ==
  ASSUME OrdinaryOps, TypeOK, AllInLoop, AllMade, JobsExist, SeedsKept, DoneMeansComplete,
         NEW j \in Jobs, User(j)
  PROVE  /\ AllInLoop' /\ AllMade' /\ SeedsKept' /\ DoneMeansComplete'
         /\ \A k \in Jobs : have[k] \subseteq have'[k]
<1>0. have \in [Jobs -> SUBSET Artifacts] /\ status \in [Jobs -> Statuses]
  BY DEF TypeOK, DbOK
<1>1. /\ AllInLoop'
      /\ \A q \in Runners : InSection(q)' => run'[q] = run[q]
      /\ UNCHANGED row
      /\ \/ UNCHANGED have /\ status[j] # "absent"
         \/ /\ status[j] = "absent"
            /\ \E files \in {{}, {"video"}} : have' = [have EXCEPT ![j] = files \cup Seeded]
      /\ \E v : v \notin {"absent", "done"} /\ status' = [status EXCEPT ![j] = v]
  BY UserLoops
<1>2. \A k \in Jobs : have'[k] = have[k] \/ (status[k] = "absent" /\ have[k] = {} /\ Seeded \subseteq have'[k])
  BY <1>0, <1>1 DEF SeedsKept
<1>3. \A k \in Jobs : have[k] \subseteq have'[k]
  BY <1>2
<1>4. SeedsKept'
  <2> SUFFICES ASSUME NEW k \in Jobs
               PROVE  IF status'[k] = "absent" THEN have'[k] = {} ELSE Seeded \subseteq have'[k]
    BY DEF SeedsKept
  <2>1. CASE k = j
    <3>1. status'[k] # "absent"
      BY <1>0, <1>1, <2>1
    <3>2. Seeded \subseteq have'[k]
      BY <1>0, <1>1, <1>2, <2>1 DEF SeedsKept
    <3> QED BY <3>1, <3>2
  <2>2. CASE k # j
    BY <1>0, <1>1, <2>2 DEF SeedsKept
  <2> QED BY <2>1, <2>2
<1>5. AllMade'
  <2> SUFFICES ASSUME NEW q \in Runners, InSection(q)'
               PROVE  OutputsMade(run'[q], row'[Job(q)'], have'[Job(q)'])
    BY DEF AllMade
  <2>1. run'[q] = run[q] /\ InSection(q) /\ Job(q)' = Job(q) /\ Job(q) \in Jobs
    BY <1>1, SectionJob DEF InSection, Job, TypeOK
  <2>2. status[Job(q)] # "absent"
    BY <2>1, SectionSeeds
  <2>3. have'[Job(q)] = have[Job(q)]
    BY <1>2, <2>1, <2>2
  <2> QED BY <1>1, <2>1, <2>3 DEF AllMade
<1>6. DoneMeansComplete'
  BY <1>0, <1>1, <1>3 DEF DoneMeansComplete
<1> QED BY <1>1, <1>3, <1>4, <1>5, <1>6

(* What DoneMeansComplete rests on: the loop keeps to its steps, and of the  *)
(* steps it has passed the rows are closed and the outputs are there.       *)
Produced == AllInLoop /\ AllMade /\ SeedsKept /\ DoneMeansComplete

LEMMA ProducedStep ==
  ASSUME OwnProcess, OrdinaryOps, PipelineAssumption, TypeOK, LeaseHeld, JobsExist, Produced,
         evicted = {}, [Next]_vars
  PROVE  Produced' /\ \A j \in Jobs : have[j] \subseteq have'[j]
<1>0. AllInLoop /\ AllMade /\ SeedsKept /\ DoneMeansComplete /\ OneRunnerPerJob
  BY HeldApart DEF Produced
<1>1. ASSUME NEW r \in Runners, RunnerStep(r)
      PROVE  Produced' /\ \A j \in Jobs : have[j] \subseteq have'[j]
  <2>1. AllInLoop'
    <3>1. \A q \in Runners \ {r} : run'[q] = run[q]
      BY <1>1, OneMoves
    <3>2. InLoop(run'[r])
      BY <1>0, <1>1, RunnerInLoop DEF AllInLoop
    <3> QED BY <1>0, <3>1, <3>2 DEF AllInLoop
  <2>2. AllMade' /\ SeedsKept' /\ DoneMeansComplete'
    BY <1>0, <1>1, RunnerMade, RunnerSeeds, RunnerDone
  <2>3. \A j \in Jobs : have[j] \subseteq have'[j]
    BY <1>0, <1>1, RunnerHaveGrows
  <2> QED BY <2>1, <2>2, <2>3 DEF Produced
<1>2. ASSUME NEW j \in Jobs, User(j)
      PROVE  Produced' /\ \A k \in Jobs : have[k] \subseteq have'[k]
  BY <1>0, <1>2, UserMade DEF Produced
<1>3. ASSUME UNCHANGED <<status, have, row>>, \A q \in Runners : run'[q] \in {run[q], Idle}
      PROVE  Produced' /\ \A j \in Jobs : have[j] \subseteq have'[j]
  <2>1. Idle.pc = "idle" /\ Idle.start = 0
    BY DEF Idle
  <2>2. AllInLoop'
    <3>1. InLoop(Idle)
      BY <2>1, OutsideLoop
    <3> QED BY <1>0, <1>3, <3>1 DEF AllInLoop
  <2>3. AllMade'
    <3> SUFFICES ASSUME NEW q \in Runners, InSection(q)'
                 PROVE  OutputsMade(run'[q], row'[Job(q)'], have'[Job(q)'])
      BY DEF AllMade
    <3>1. run'[q] = run[q]
      BY <1>3, <2>1 DEF InSection, SectionPCs
    <3> QED BY <1>0, <1>3, <3>1 DEF AllMade, InSection, Job
  <2>4. SeedsKept' /\ DoneMeansComplete'
    BY <1>0, <1>3 DEF SeedsKept, DoneMeansComplete
  <2>5. \A j \in Jobs : have[j] \subseteq have'[j]
    BY <1>3
  <2> QED BY <2>2, <2>3, <2>4, <2>5 DEF Produced
<1>4. ASSUME NEW j \in Jobs, LeaseExpires(j)
      PROVE  Produced' /\ \A k \in Jobs : have[k] \subseteq have'[k]
  BY <1>3, <1>4 DEF LeaseExpires
<1>5. ASSUME NEW p \in Procs, Crash(p)
      PROVE  Produced' /\ \A k \in Jobs : have[k] \subseteq have'[k]
  BY <1>3, <1>5 DEF Crash
<1>6. CASE UNCHANGED vars
  BY <1>3, <1>6 DEF vars, db
<1> QED BY <1>1, <1>2, <1>4, <1>5, <1>6 DEF Next

LEMMA ProducedInit == ASSUME PipelineAssumption, Init PROVE Produced
<1>1. Idle.pc = "idle" /\ Idle.start = 0
  BY DEF Idle
<1>2. AllInLoop
  BY <1>1, OutsideLoop DEF Init, AllInLoop
<1>3. AllMade /\ SeedsKept /\ DoneMeansComplete
  BY <1>1 DEF Init, AllMade, SeedsKept, DoneMeansComplete, InSection, SectionPCs
<1> QED BY <1>2, <1>3 DEF Produced

(* process_job_pipeline calls a job done only after all its steps, however  *)
(* many processes run it, crash, resume and cancel it, as long as each has   *)
(* one thread for it and no live run loses its lock.                        *)
THEOREM DoneIsComplete ==
  ASSUME OwnProcess, OrdinaryOps
  PROVE  Spec /\ [](evicted = {}) => []DoneMeansComplete
<1>1. Init => Produced
  BY ProducedInit, PipelineAssumption
<1>2. TypeOK /\ LeaseHeld /\ JobsExist /\ Produced /\ evicted = {} /\ [Next]_vars => Produced'
  BY ProducedStep, PipelineAssumption
<1>3. Produced => DoneMeansComplete
  BY DEF Produced
<1> QED BY <1>1, <1>2, <1>3, TypeCorrect, LeaseSafety, KnownJobs, PTL DEF Spec

(* On the same terms nothing loses an output: the clearing branches of the  *)
(* subtitles, of the enrichment and of the circuit breaker only ever meet   *)
(* a job that has nothing for them to clear.                                *)
THEOREM OutputsKept ==
  ASSUME OwnProcess, OrdinaryOps
  PROVE  Spec /\ [](evicted = {}) => OutputsSurvive
<1>1. Init => Produced
  BY ProducedInit, PipelineAssumption
<1>2. TypeOK /\ LeaseHeld /\ JobsExist /\ Produced /\ evicted = {} /\ [Next]_vars
      => Produced' /\ [\A j \in Jobs : have[j] \subseteq have'[j]]_vars
  BY ProducedStep, PipelineAssumption
<1> QED BY <1>1, <1>2, TypeCorrect, LeaseSafety, KnownJobs, PTL DEF Spec, OutputsSurvive

(* One worker whose runs are shorter than pipeline_lock_stale_seconds never *)
(* loses a lock, its crashes and recoveries included: what it recovers is   *)
(* not at work, since it is the one at work.                                *)
THEOREM LoneRunnerKeepsLock ==
  ASSUME NEW w, Runners = {w}, LeaseOutlivesWork
  PROVE  Spec => [](evicted = {})
<1>1. Init => evicted = {}
  BY DEF Init
<1>2. evicted = {} /\ [Next]_vars => (evicted = {})'
  <2> SUFFICES ASSUME evicted = {}, [Next]_vars PROVE evicted' = {}
    OBVIOUS
  <2>1. ASSUME NEW r \in Runners, RunnerStep(r) PROVE evicted' = {}
    <3>1. CASE FinishRecovery(r)
      BY <3>1 DEF FinishRecovery, At, InSection, SectionPCs
    <3>2. CASE Release(r)
      BY <3>2 DEF Release
    <3>3. CASE RequestStep(r)
      BY <3>3 DEF RequestStep, ProcessLocalJob, SkipLlm
    <3>4. CASE SectionStep(r) /\ ~Release(r)
      <4>1. UNCHANGED evicted
        BY <3>4 DEF SectionStep, db, Prepare, Check, Skip, Exhaust, Start,
          Download, Subtitle, ExtractAudio, Transcribe, DetectNiche, GenerateCandidates, EnrichWithLlm,
          SkipLlm, ProgressCanceled, Fail, Complete, Finish, SnapshotStorage, Abort, CancelMark
      <4> QED BY <4>1
    <3> QED BY <2>1, <3>1, <3>2, <3>3, <3>4, RunnerSteps, PollingRows
  <2>2. ASSUME NEW j \in Jobs, User(j) PROVE evicted' = {}
    BY <2>2 DEF User, CreateJob, CreateLocalJob, CancelJob, AnalyzeWithoutLlm, DeleteJob, RetryJob,
       RetryStep, ResetStep
  <2>3. ASSUME NEW j \in Jobs, LeaseExpires(j) PROVE evicted' = {}
    BY <2>3 DEF LeaseExpires
  <2>4. ASSUME NEW p \in Procs, Crash(p) PROVE evicted' = {}
    BY <2>4 DEF Crash
  <2>5. CASE UNCHANGED vars
    BY <2>5 DEF vars
  <2> QED BY <2>1, <2>2, <2>3, <2>4, <2>5 DEF Next
<1> QED BY <1>1, <1>2, PTL DEF Spec

(* So one worker that is never late says done of complete jobs alone, and   *)
(* clears nothing, whenever it dies and whatever it recovers.               *)
THEOREM LoneWorkerCompletes ==
  ASSUME NEW w, Runners = {w}, LeaseOutlivesWork, OrdinaryOps
  PROVE  Spec => []DoneMeansComplete /\ OutputsSurvive
<1>1. OwnProcess
  BY DEF OwnProcess
<1> QED BY <1>1, DoneIsComplete, OutputsKept, LoneRunnerKeepsLock, PTL

-----------------------------------------------------------------------------
(* One runner, alone. *)

(* The requests that look at the job before they reset it, as those of the  *)
(* API do.                                                                  *)
CheckedOps == UserOps \subseteq {"upload", "retry", "retry_step"}

RunningPCs == {"work", "subtitle", "candidates", "breaker", "complete", "abort"}

(* A running step in the rows u is told by the status v of its job.         *)
Tells(v, u) == \A t \in StepIx : u[t] = "running" => v = PIPELINE_STEPS[t]

(* A job with status v and rows u in the hands of a runner with locals l:   *)
(* only its current step is running, and it is let go in no active status.  *)
Placed(l, v, u) ==
  /\ \A t \in StepIx : u[t] = "running" => /\ l.cur = t /\ l.pc \in RunningPCs
                                           /\ l.pc = "abort" => l.err # "exhausted"
  /\ v \in ACTIVE_PIPELINE_JOB_STATUSES => l.pc \notin {"snapshot", "cancelmark", "release"}
Sound(l, v, u) == Tells(v, u) /\ Placed(l, v, u)

(* Any other job is active only if the process died that worked on it.      *)
Asleep(j) ==
  /\ Tells(status[j], row[j])
  /\ status[j] \in ACTIVE_PIPELINE_JOB_STATUSES => owner[j] = Gone

Mine(w, j) == InSection(w) /\ Job(w) = j
JobsSound(w) ==
  \A j \in Jobs : IF Mine(w, j) THEN Sound(run[w], status[j], row[j]) ELSE Asleep(j)

(* The jobs the runner may take up without losing an abandoned one.         *)
Free(w) == {j \in Jobs : Mine(w, j) \/ status[j] \notin ACTIVE_PIPELINE_JOB_STATUSES}
Lists(E, l) ==
  /\ l.pc = "claim" => l.jobs \subseteq E
  /\ l.pc = "acquire" => l.job \in E
  /\ l.frames \in Seq(Frame(E))
ListsFree(w) == Lists(Free(w), run[w])

SlotKept(w) == run[w].pc \in StepPCs \cup {"check"} => SlotFree(Job(w))
RequestPCs == {"local", "local_audio", "local_transcript", "skip_llm"}

Alone(w) ==
  /\ JobsSound(w) /\ ListsFree(w) /\ SlotKept(w) /\ SlotLimit
  /\ run[w].pc \notin RequestPCs

LEMMA ActiveStatuses ==
  /\ \A s \in StepIx : PIPELINE_STEPS[s] \in ACTIVE_PIPELINE_JOB_STATUSES
  /\ \A s, t \in StepIx : PIPELINE_STEPS[s] = PIPELINE_STEPS[t] => s = t
  /\ {"absent", "pending", "done", "failed", "canceled"} \cap ACTIVE_PIPELINE_JOB_STATUSES = {}
BY DEF StepIx, PIPELINE_STEPS, ACTIVE_PIPELINE_JOB_STATUSES

(* A job in another status has no running step. *)
LEMMA TellsInactive ==
  ASSUME NEW v, NEW u, Tells(v, u), v \notin ACTIVE_PIPELINE_JOB_STATUSES
  PROVE  \A t \in StepIx : u[t] # "running"
BY ActiveStatuses DEF Tells

LEMMA NoneRunning ==
  ASSUME NEW l, NEW v, NEW u, \A t \in StepIx : u[t] # "running",
         v \in ACTIVE_PIPELINE_JOB_STATUSES => l.pc \notin {"snapshot", "cancelmark", "release"}
  PROVE  Placed(l, v, u)
BY DEF Placed

LEMMA SectionPlaced ==
  ASSUME TypeOK, NEW w \in Runners, SectionStep(w), InSection(w)',
         Placed(run[w], status[Job(w)], row[Job(w)])
  PROVE  Placed(run'[w], status'[Job(w)], row'[Job(w)])
<1> PICK l : l = run[w]
  OBVIOUS
<1> PICK m : m = run'[w]
  OBVIOUS
<1> PICK j : j = Job(w)
  OBVIOUS
<1>0. /\ run \in [Runners -> Locals] /\ l \in Locals /\ j \in Jobs
      /\ status \in [Jobs -> Statuses] /\ row \in [Jobs -> [StepIx -> RowStatuses]]
      /\ Placed(l, status[j], row[j])
  BY SectionStepLocals, SectionJob DEF TypeOK, DbOK
<1>1. ASSUME NEW p, Goto(w, p) PROVE m.pc = p /\ m.cur = l.cur /\ m.err = l.err
  BY <1>0, <1>1, GotoKeeps
<1>2. ASSUME l.pc \notin RunningPCs PROVE \A t \in StepIx : row[j][t] # "running"
  BY <1>0, <1>2 DEF Placed
<1>3. CASE Prepare(w)
  <2>1. UNCHANGED row /\ l.pc = "prepare"
    BY <1>3 DEF Prepare, At
  <2>2. \A t \in StepIx : row'[j][t] # "running"
    BY <1>2, <2>1 DEF RunningPCs
  <2>3. CASE m.pc = "release"
    <3>0. run' # [run EXCEPT ![w].pc = "abort", ![w].err = "exhausted"]
      BY <1>0, <2>3, AbortKeeps
    <3>2. ~Goto(w, "check")
      BY <1>1, <2>3
    <3>1. status' = [status EXCEPT ![j] = "pending"]
      BY <1>3, <3>0, <3>2 DEF Prepare
    <3>3. status'[j] \notin ACTIVE_PIPELINE_JOB_STATUSES
      BY <1>0, <3>1, ActiveStatuses
    <3> QED BY <2>2, <3>3, NoneRunning
  <2>4. CASE m.pc \in {"check", "abort"}
    BY <2>2, <2>4, NoneRunning
  <2> QED BY <1>0, <1>1, <1>3, <2>3, <2>4, AbortKeeps DEF Prepare
<1>4. CASE Check(w)
  <2>1. l.pc = "check" /\ UNCHANGED <<row, status>> /\ m.pc \in {"abort", "begin"}
    BY <1>0, <1>4, AbortKeeps, BeginKeeps DEF Check, At, db
  <2> QED BY <1>2, <2>1, NoneRunning DEF RunningPCs
<1>5. CASE Skip(w)
  <2>1. /\ l.pc = "begin" /\ status' = status /\ row' = [row EXCEPT ![j][l.cur] = "skipped"]
        /\ m.pc \in {"check", "finish"}
    BY <1>1, <1>5 DEF Skip, At, AfterStep
  <2>2. \A t \in StepIx : row'[j][t] # "running"
    BY <1>0, <1>2, <2>1 DEF RunningPCs
  <2> QED BY <2>1, <2>2, NoneRunning
<1>6. CASE Exhaust(w)
  <2>1. /\ l.pc = "begin" /\ row' = [row EXCEPT ![j][l.cur] = "exhausted"]
        /\ m.pc = "abort"
    BY <1>0, <1>6, AbortKeeps DEF Exhaust, At
  <2>2. \A t \in StepIx : row'[j][t] # "running"
    BY <1>0, <1>2, <2>1 DEF RunningPCs
  <2> QED BY <2>1, <2>2, NoneRunning
<1>7. CASE Start(w)
  <2>1. /\ l.pc = "begin" /\ row' = [row EXCEPT ![j][l.cur] = "running"]
        /\ status' = [status EXCEPT ![j] = PIPELINE_STEPS[l.cur]]
        /\ m.pc \in {"work", "breaker"} /\ m.cur = l.cur
    BY <1>1, <1>7 DEF Start, MarkRunning, At
  <2>2. l.cur \in StepIx
    BY <1>0, <2>1 DEF Locals, Runner, StepIx
  <2>3. \A t \in StepIx : row'[j][t] = "running" => t = l.cur
    BY <1>0, <1>2, <2>1 DEF RunningPCs
  <2>4. status'[j] = PIPELINE_STEPS[l.cur]
    BY <1>0, <2>1
  <2> QED BY <2>1, <2>3, <2>4 DEF Placed, RunningPCs
(* The bodies of the steps change neither rows nor status. *)
<1>8. CASE \/ Download(w) \/ Subtitle(w) \/ ExtractAudio(w) \/ Transcribe(w) \/ DetectNiche(w)
           \/ GenerateCandidates(w) \/ EnrichWithLlm(w) \/ (SkipLlm(w) /\ At(w, "breaker"))
  <2>1. /\ UNCHANGED <<status, row>> /\ m.cur = l.cur /\ m.pc \in RunningPCs /\ m.pc # "abort"
        /\ m.pc \notin {"snapshot", "cancelmark", "release"}
    BY <1>1, <1>8 DEF Download, Subtitle, ExtractAudio, Transcribe, DetectNiche,
       GenerateCandidates, EnrichWithLlm, SkipLlm, At, RunningPCs
  <2> QED BY <1>0, <2>1 DEF Placed
<1>9. CASE ProgressCanceled(w) \/ Fail(w)
  <2>1. PICK e \in {"canceled", "wrapped", "error"} :
          run' = [run EXCEPT ![w].pc = "abort", ![w].err = e]
    BY <1>9 DEF ProgressCanceled, Fail
  <2>2. UNCHANGED <<status, row>> /\ m.pc = "abort" /\ m.cur = l.cur /\ m.err # "exhausted"
    BY <1>0, <1>9, <2>1, AbortKeeps DEF ProgressCanceled, Fail, db
  <2> QED BY <1>0, <2>2 DEF Placed, RunningPCs
<1>10. CASE Complete(w)
  <2>1. /\ status' = status /\ row' = [row EXCEPT ![j][l.cur] = "completed"]
        /\ m.pc \in {"check", "finish"}
    BY <1>1, <1>10 DEF Complete, At, AfterStep
  <2>2. \A t \in StepIx : row'[j][t] # "running"
    BY <1>0, <2>1 DEF Placed
  <2> QED BY <2>1, <2>2, NoneRunning
<1>11. CASE Finish(w)
  <2>1. /\ l.pc = "finish" /\ row' = row /\ status' = [status EXCEPT ![j] = "done"]
        /\ m.pc = "snapshot"
    BY <1>1, <1>11 DEF Finish, At
  <2>2. status'[j] \notin ACTIVE_PIPELINE_JOB_STATUSES
    BY <1>0, <2>1, ActiveStatuses
  <2> QED BY <1>2, <2>1, <2>2, NoneRunning DEF RunningPCs
<1>12. CASE SnapshotStorage(w)
  <2>1. l.pc = "snapshot" /\ UNCHANGED <<status, row>>
    BY <1>12 DEF SnapshotStorage, At, db
  <2> QED BY <1>0, <1>2, <2>1, NoneRunning DEF Placed, RunningPCs
<1>13. CASE Abort(w)
  <2>1. /\ l.pc = "abort" /\ m.cur = l.cur
        /\ \E v \in {"canceled", "failed"} : status' = [status EXCEPT ![j] = v]
        /\ IF l.err = "exhausted" \/ l.cur = 0 THEN row' = row
           ELSE \E v \in {"exhausted", "failed"} : row' = [row EXCEPT ![j][l.cur] = v]
    BY <1>1, <1>13 DEF Abort, AbortStatus, MarkFailed, At
  <2>2. status'[j] \notin ACTIVE_PIPELINE_JOB_STATUSES
    BY <1>0, <2>1, ActiveStatuses
  <2>3. \A t \in StepIx : row[j][t] = "running" => t = l.cur /\ l.err # "exhausted" /\ l.cur # 0
    BY <1>0, <2>1 DEF Placed, StepIx
  <2>4. \A t \in StepIx : row'[j][t] # "running"
    BY <1>0, <2>1, <2>3
  <2> QED BY <2>2, <2>4, NoneRunning
<1>14. CASE CancelMark(w)
  <2>1. l.pc = "cancelmark" /\ row' = row /\ status' = [status EXCEPT ![j] = "canceled"]
    BY <1>14 DEF CancelMark, At
  <2>2. status'[j] \notin ACTIVE_PIPELINE_JOB_STATUSES
    BY <1>0, <2>1, ActiveStatuses
  <2> QED BY <1>2, <2>1, <2>2, NoneRunning DEF RunningPCs
<1>15. CASE Release(w)
  BY <1>1, <1>15 DEF Release, InSection, SectionPCs
<1> QED BY <1>3, <1>4, <1>5, <1>6, <1>7, <1>8, <1>9, <1>10, <1>11, <1>12, <1>13, <1>14, <1>15 DEF SectionStep

LEMMA SectionTells ==
  ASSUME TypeOK, NEW w \in Runners, SectionStep(w), Sound(run[w], status[Job(w)], row[Job(w)])
  PROVE  Tells(status'[Job(w)], row'[Job(w)])
<1> PICK j : j = Job(w)
  OBVIOUS
<1> SUFFICES ASSUME NEW t \in StepIx, row'[j][t] = "running"
             PROVE  status'[j] = PIPELINE_STEPS[t]
  BY DEF Tells
<1>0. /\ run[w] \in Locals /\ j \in Jobs /\ run[w].cur \in 0 .. 5
      /\ status \in [Jobs -> Statuses] /\ row \in [Jobs -> [StepIx -> RowStatuses]]
  BY SectionStepLocals, SectionJob DEF TypeOK, DbOK, Locals, Runner
<1>1. CASE Start(w)
  <2>1. /\ run[w].pc = "begin" /\ row' = [row EXCEPT ![j][run[w].cur] = "running"]
        /\ status' = [status EXCEPT ![j] = PIPELINE_STEPS[run[w].cur]]
    BY <1>1 DEF Start, MarkRunning, At
  <2>2. row[j][t] # "running"
    BY <2>1 DEF Sound, Placed, RunningPCs
  <2> QED BY <1>0, <2>1, <2>2
<1>2. CASE ~Start(w)
  <2>1. row' = row \/ \E v : row' = [row EXCEPT ![j][run[w].cur] = v] /\ v # "running"
    BY <1>2 DEF SectionStep, db, Prepare, Check, Skip, Exhaust, MarkFailed,
     Download, Subtitle, ExtractAudio, Transcribe, DetectNiche, GenerateCandidates, EnrichWithLlm,
     SkipLlm, ProgressCanceled, Fail, Complete, Finish, SnapshotStorage, Abort, CancelMark, Release
  <2>2. row[j][t] = "running"
    BY <1>0, <2>1
  <2>3. /\ run[w].cur = t /\ run[w].pc \in RunningPCs
        /\ run[w].pc = "abort" => run[w].err # "exhausted"
        /\ status[j] = PIPELINE_STEPS[t]
    BY <2>2 DEF Sound, Placed, Tells
  <2>4. ~Complete(w) /\ ~Abort(w)
    BY <1>0, <2>3 DEF Complete, Abort, MarkFailed, At, StepIx
  <2>5. status' = status
    BY <1>2, <2>3, <2>4 DEF RunningPCs, SectionStep, db, At, Prepare, Check, Skip, Exhaust,
     Download, Subtitle, ExtractAudio, Transcribe, DetectNiche, GenerateCandidates, EnrichWithLlm,
     SkipLlm, ProgressCanceled, Fail, Finish, SnapshotStorage, CancelMark, Release
  <2> QED BY <2>3, <2>5
<1> QED BY <1>1, <1>2

LEMMA SectionSound ==
  ASSUME TypeOK, NEW w \in Runners, SectionStep(w), InSection(w)',
         Sound(run[w], status[Job(w)], row[Job(w)])
  PROVE  Sound(run'[w], status'[Job(w)], row'[Job(w)])
BY SectionPlaced, SectionTells DEF Sound

(* Only Release gives up a lock in the section. *)
LEMMA SectionOwner ==
  ASSUME TypeOK, NEW w \in Runners, SectionStep(w), NEW j \in Jobs, j # Job(w)
  PROVE  owner'[j] = owner[j]
<1>1. owner' = owner \/ owner' = [owner EXCEPT ![Job(w)] = Nobody]
  BY DEF SectionStep, db, Prepare, Check, Skip, Exhaust, Start,
     Download, Subtitle, ExtractAudio, Transcribe, DetectNiche, GenerateCandidates, EnrichWithLlm,
     SkipLlm, ProgressCanceled, Fail, Complete, Finish, SnapshotStorage, Abort, CancelMark, Release
<1> QED BY <1>1 DEF TypeOK, DbOK

LEMMA LeavesByRelease ==
  ASSUME TypeOK, NEW w \in Runners, SectionStep(w), ~InSection(w)'
  PROVE  Release(w)
<1>1. run'[w].pc = "kick"
  BY SectionStepLocals DEF InSection
<1>2. ASSUME NEW p, Goto(w, p) PROVE p = "kick"
  BY <1>1, <1>2, GotoKeeps DEF TypeOK
<1>3. ASSUME NEW e, run' = [run EXCEPT ![w].pc = "abort", ![w].err = e] PROVE FALSE
  BY <1>1, <1>3, AbortKeeps DEF TypeOK
<1>4. ASSUME NEW s, run' = [run EXCEPT ![w].pc = "begin", ![w].cur = s] PROVE FALSE
  BY <1>1, <1>4, BeginKeeps DEF TypeOK
<1>5. ~Prepare(w) /\ ~Check(w) /\ ~Exhaust(w) /\ ~Fail(w) /\ ~ProgressCanceled(w)
  BY <1>2, <1>3, <1>4 DEF Prepare, Check, Exhaust, Fail, ProgressCanceled
<1> QED BY <1>2, <1>5 DEF SectionStep, Skip, AfterStep, Start,
   Download, Subtitle, ExtractAudio, Transcribe, DetectNiche, GenerateCandidates,
   EnrichWithLlm, SkipLlm, Complete, Finish, SnapshotStorage, Abort, CancelMark

LEMMA SectionJobsSound ==
  ASSUME TypeOK, NEW w \in Runners, SectionStep(w), JobsSound(w)
  PROVE  JobsSound(w)'
<1> SUFFICES ASSUME NEW j \in Jobs
             PROVE  IF Mine(w, j)' THEN Sound(run'[w], status'[j], row'[j]) ELSE Asleep(j)'
  BY DEF JobsSound
<1>1. InSection(w) /\ Job(w)' = Job(w)
  BY SectionStepLocals DEF SameCall, Job
<1>2. CASE j # Job(w)
  <2>1. ~Mine(w, j)' /\ Asleep(j)
    BY <1>1, <1>2 DEF Mine, JobsSound
  <2>2. Asleep(j)'
    BY <1>2, <2>1, SectionStepRows, SectionOwner DEF Asleep
  <2> QED BY <2>1, <2>2
<1>3. CASE j = Job(w) /\ InSection(w)'
  BY <1>1, <1>3, SectionSound DEF Mine, JobsSound
<1>4. CASE j = Job(w) /\ ~InSection(w)'
  <2>1. Release(w)
    BY <1>4, LeavesByRelease
  <2>2. At(w, "release") /\ UNCHANGED <<status, row>>
    BY <2>1 DEF Release
  <2>3. Sound(run[w], status[j], row[j])
    BY <1>1, <1>4 DEF JobsSound, Mine
  <2>4. Tells(status[j], row[j]) /\ status[j] \notin ACTIVE_PIPELINE_JOB_STATUSES
    BY <2>2, <2>3 DEF Sound, Placed, At
  <2>5. Asleep(j)'
    BY <2>2, <2>4 DEF Asleep
  <2> QED BY <1>4, <2>5 DEF Mine
<1> QED BY <1>2, <1>3, <1>4

LEMMA ListsGrow ==
  ASSUME NEW E, NEW F, E \subseteq F, NEW l, Lists(E, l)
  PROVE  Lists(F, l)
<1>1. Frame(E) \subseteq Frame(F)
  BY DEF Frame
<1>2. l.frames \in Seq(Frame(F))
  BY <1>1 DEF Lists
<1> QED BY <1>2 DEF Lists

LEMMA IdleLists == ASSUME NEW E PROVE Lists(E, Idle)
BY DEF Lists, Idle

LEMMA PollingLists ==
  ASSUME PipelineAssumption, TypeOK, NEW r \in Runners, PollingStep(r) \/ FinishRecovery(r),
         NEW E, Lists(E, run[r]), Pending \subseteq E
  PROVE  Lists(E, run'[r])
<1>0. run \in [Runners -> Locals] /\ run[r] \in Locals
  BY DEF TypeOK
<1>1. ASSUME NEW p, p \notin {"claim", "acquire"}, NEW js,
             run' = [run EXCEPT ![r].pc = p, ![r].jobs = js]
      PROVE  Lists(E, run'[r])
  <2>1. run'[r].pc = p /\ run'[r].frames = run[r].frames
    BY <1>0, <1>1, ListKeeps
  <2> QED BY <1>1, <2>1 DEF Lists
<1>2. CASE StartRecovery(r)
  <2>1. run' = [run EXCEPT ![r].pc = "recover", ![r].jobs = StaleActive]
    BY <1>2 DEF StartRecovery
  <2> QED BY <1>1, <2>1
<1>3. CASE FinishRecovery(r)
  <2>1. run' = [run EXCEPT ![r].pc = "poll", ![r].jobs = {}]
    BY <1>3 DEF FinishRecovery
  <2> QED BY <1>1, <2>1
<1>4. CASE Poll(r)
  <2>1. PICK p \in {"idle", "claim"} :
          run' = [run EXCEPT ![r] = [Idle EXCEPT !.pc = p, !.jobs = Pending]]
    BY <1>0, <1>4, PollMoves
  <2>2. PICK l : l = [Idle EXCEPT !.pc = p, !.jobs = Pending]
    OBVIOUS
  <2>3. l.pc = p /\ l.jobs = Pending /\ l.frames = <<>>
    BY <2>2 DEF Idle
  <2>4. run'[r] = l
    BY <1>0, <2>1, <2>2
  <2>5. <<>> \in Seq(Frame(E))
    OBVIOUS
  <2> QED BY <2>3, <2>4, <2>5 DEF Lists
<1>5. CASE Claim(r)
  <2>0. run[r].jobs \subseteq E /\ run[r].frames \in Seq(Frame(E))
    BY <1>5 DEF Claim, At, Lists
  <2>1. ASSUME NEW j \in run[r].jobs, Call(r, j, 0, FALSE) PROVE Lists(E, run'[r])
    <3>1. PICK l : l = Entry(j, 0, FALSE, run[r].frames)
      OBVIOUS
    <3>2. l.pc = "acquire" /\ l.job = j /\ l.frames = run[r].frames
      BY <3>1 DEF Entry
    <3>3. run'[r] = l
      BY <1>0, <2>1, <3>1 DEF Call
    <3> QED BY <2>0, <3>2, <3>3 DEF Lists
  <2>2. ASSUME NEW p \in {"idle", "claim"}, NEW js \in SUBSET run[r].jobs,
               run' = [run EXCEPT ![r].pc = p, ![r].jobs = js]
        PROVE  Lists(E, run'[r])
    <3>1. run'[r].pc = p /\ run'[r].jobs = js /\ run'[r].frames = run[r].frames
      BY <1>0, <2>2, ListKeeps DEF Locals, Runner
    <3> QED BY <2>0, <3>1 DEF Lists
  <2> QED BY <1>0, <1>5, <2>1, <2>2, ClaimMoves
<1>6. CASE Acquire(r)
  <2>1. PICK p \in {"prepare", "kick"} : Goto(r, p)
    BY <1>6 DEF Acquire
  <2>2. run'[r].pc = p /\ run'[r].frames = run[r].frames
    BY <1>0, <2>1, GotoKeeps DEF SameCall
  <2> QED BY <2>2 DEF Lists
<1>7. CASE Kick(r)
  <2>1. PICK fs \in Seq(Frame(E)) :
          run' = [run EXCEPT ![r] = [run[r] EXCEPT !.pc = "launch", !.frames = fs]]
    BY <1>0, <1>7, KickFrames DEF Lists
  <2>2. run'[r].pc = "launch" /\ run'[r].frames = fs
    BY <1>0, <2>1 DEF Locals, Runner
  <2> QED BY <2>2 DEF Lists
<1>8. CASE Launch(r)
  <2>1. \/ run' = [run EXCEPT ![r] = Idle]
        \/ \E j \in E, fs \in Seq(Frame(E)) :
             run' = [run EXCEPT ![r] = Entry(j, 0, FALSE, fs)]
    BY <1>8, LaunchFrames DEF Lists
  <2>2. ASSUME NEW j \in E, NEW fs \in Seq(Frame(E)),
               run' = [run EXCEPT ![r] = Entry(j, 0, FALSE, fs)]
        PROVE  Lists(E, run'[r])
    BY <1>0, <2>2 DEF Lists, Entry
  <2> QED BY <1>0, <2>1, <2>2, IdleLists
<1>9. CASE RecursionLimit(r)
  BY <1>0, <1>9, IdleLists DEF RecursionLimit
<1> QED BY <1>2, <1>3, <1>4, <1>5, <1>6, <1>7, <1>8, <1>9 DEF PollingStep

-----------------------------------------------------------------------------
(* The slots. *)

LEMMA ActiveFinite ==
  ASSUME PipelineAssumption
  PROVE  IsFiniteSet(Active) /\ IsFiniteSet(Active')
<1>1. IsFiniteSet(Jobs)
  BY DEF PipelineAssumption
<1>2. Active \subseteq Jobs /\ Active' \subseteq Jobs
  BY DEF Active
<1> QED BY <1>1, <1>2, FS_Subset

(* A slot for j is room for j among the active jobs. *)
LEMMA OneMore ==
  ASSUME NEW A, IsFiniteSet(A), NEW j, NEW n \in Nat, Cardinality(A \ {j}) < n
  PROVE  Cardinality(A) <= n
<1>1. Cardinality(A) \in Nat /\ Cardinality(A \ {j}) \in Nat
  BY FS_RemoveElement, FS_CardinalityType
<1>2. Cardinality(A \ {j}) = IF j \in A THEN Cardinality(A) - 1 ELSE Cardinality(A)
  BY FS_RemoveElement
<1> QED BY <1>1, <1>2

LEMMA FewerActive ==
  ASSUME PipelineAssumption, Active' \subseteq Active
  PROVE  /\ SlotLimit => SlotLimit'
         /\ \A j \in Jobs : SlotFree(j) => Cardinality(Active' \ {j}) < MaxConcurrentJobs
<1>0. IsFiniteSet(Active) /\ IsFiniteSet(Active') /\ MaxConcurrentJobs \in Nat
  BY ActiveFinite DEF PipelineAssumption
<1>1. /\ Cardinality(Active') <= Cardinality(Active)
      /\ Cardinality(Active') \in Nat /\ Cardinality(Active) \in Nat
  BY <1>0, FS_Subset, FS_CardinalityType
<1>2. ASSUME NEW j \in Jobs, SlotFree(j)
      PROVE  Cardinality(Active' \ {j}) < MaxConcurrentJobs
  <2>1. Active' \ {j} \subseteq Active \ {j} /\ IsFiniteSet(Active \ {j}) /\ IsFiniteSet(Active' \ {j})
    BY <1>0, FS_RemoveElement
  <2>2. /\ Cardinality(Active' \ {j}) <= Cardinality(Active \ {j})
        /\ Cardinality(Active' \ {j}) \in Nat /\ Cardinality(Active \ {j}) \in Nat
    BY <2>1, FS_Subset, FS_CardinalityType
  <2> QED BY <1>0, <1>2, <2>2 DEF SlotFree
<1> QED BY <1>0, <1>1, <1>2 DEF SlotLimit

LEMMA SectionSlots ==
  ASSUME PipelineAssumption, TypeOK, NEW w \in Runners, SectionStep(w), SlotKept(w), SlotLimit
  PROVE  SlotKept(w)' /\ SlotLimit'
<1> PICK j : j = Job(w)
  OBVIOUS
<1>0. /\ run \in [Runners -> Locals] /\ run[w] \in Locals /\ j \in Jobs /\ Job(w)' = j
      /\ status \in [Jobs -> Statuses] /\ InSection(w)
  BY SectionStepLocals, SectionJob DEF TypeOK, DbOK, SameCall, Job
<1>1. Active' \ {j} = Active \ {j}
  BY SectionStepRows DEF Active
<1>2. ASSUME NEW p, Goto(w, p) PROVE run'[w].pc = p
  BY <1>0, <1>2, GotoKeeps
<1>3. SlotKept(w)'
  <2>1. CASE run[w].pc \in StepPCs \cup {"check"}
    BY <1>0, <1>1, <2>1 DEF SlotKept, SlotFree
  <2>2. CASE Prepare(w)
    <3>1. CASE Goto(w, "check")
      <4>1. run'[w].pc # "abort" /\ run'[w].pc # "release"
        BY <1>2, <3>1
      <4>2. run' # [run EXCEPT ![w].pc = "abort", ![w].err = "exhausted"]
        BY <1>0, <4>1, AbortKeeps
      <4>3. ~Goto(w, "release")
        BY <1>2, <4>1
      <4>4. SlotFree(j)
        BY <2>2, <4>2, <4>3 DEF Prepare
      <4> QED BY <1>0, <1>1, <4>4 DEF SlotKept, SlotFree
    <3>2. CASE ~Goto(w, "check")
      <4>1. \/ run' = [run EXCEPT ![w].pc = "abort", ![w].err = "exhausted"]
            \/ Goto(w, "release")
        BY <2>2, <3>2 DEF Prepare
      <4>2. run'[w].pc \in {"abort", "release"}
        BY <1>0, <1>2, <4>1, AbortKeeps
      <4> QED BY <4>2 DEF SlotKept, StepPCs
    <3> QED BY <3>1, <3>2
  <2>3. CASE ~Prepare(w) /\ run[w].pc \notin StepPCs \cup {"check"}
    <3>1. CASE Fail(w)
      <4>1. run'[w].pc = "abort"
        BY <1>0, <3>1, AbortKeeps DEF Fail
      <4> QED BY <4>1 DEF SlotKept, StepPCs
    <3>2. CASE ~Fail(w)
      <4>1. Finish(w) \/ SnapshotStorage(w) \/ Abort(w) \/ CancelMark(w) \/ Release(w)
        BY <2>3, <3>2 DEF SectionStep, StepPCs, At, Working, Check, Skip, Exhaust, Start,
           Download, Subtitle, ExtractAudio, Transcribe, DetectNiche, GenerateCandidates,
           EnrichWithLlm, ProgressCanceled, Complete
      <4>2. run'[w].pc \in {"snapshot", "release", "cancelmark", "kick"}
        BY <1>2, <4>1 DEF Finish, SnapshotStorage, Abort, CancelMark, Release
      <4> QED BY <4>2 DEF SlotKept, StepPCs
    <3> QED BY <3>1, <3>2
  <2> QED BY <2>1, <2>2, <2>3
<1>4. SlotLimit'
  <2>1. CASE Start(w)
    <3>1. Cardinality(Active' \ {j}) < MaxConcurrentJobs
      BY <1>1, <2>1 DEF Start, At, StepPCs, SlotKept, SlotFree
    <3>2. IsFiniteSet(Active') /\ MaxConcurrentJobs \in Nat
      BY ActiveFinite DEF PipelineAssumption
    <3> QED BY <3>1, <3>2, OneMore DEF SlotLimit
  <2>2. CASE ~Start(w)
    <3>1. status' = status \/ \E v : /\ status' = [status EXCEPT ![j] = v]
                                     /\ v \in {status[j], "pending", "failed", "canceled", "done"}
      BY <2>2 DEF SectionStep, db, Prepare, Check, Skip, Exhaust, AbortStatus,
        Download, Subtitle, ExtractAudio, Transcribe, DetectNiche, GenerateCandidates, EnrichWithLlm,
        SkipLlm, ProgressCanceled, Fail, Complete, Finish, SnapshotStorage, Abort, CancelMark, Release
    <3>2. status'[j] \in {status[j], "pending", "failed", "canceled", "done"}
      BY <1>0, <3>1
    <3>3. j \in Active' => j \in Active
      BY <1>0, <3>2, ActiveStatuses DEF Active
    <3>4. Active' \subseteq Active
      BY <1>1, <3>3
    <3> QED BY <3>4, FewerActive
  <2> QED BY <2>1, <2>2
<1> QED BY <1>3, <1>4

-----------------------------------------------------------------------------
(* The steps outside the section. *)

(* A lock is taken only of a job that no dead process was working on.       *)
LEMMA PollingOwner ==
  ASSUME TypeOK, NEW w \in Runners, PollingStep(w), ListsFree(w), ~InSection(w), NEW j \in Active
  PROVE  owner'[j] = owner[j]
<1>0. /\ j \in Jobs /\ j \notin Free(w) /\ owner \in [Jobs -> Procs \cup {Nobody, Gone}]
  BY DEF Active, Free, Mine, TypeOK, DbOK
<1>1. CASE Claim(w)
  <2>1. run[w].jobs \subseteq Free(w)
    BY <1>1 DEF Claim, At, ListsFree, Lists
  <2>2. owner' = owner \/ \E k \in run[w].jobs : owner' = [owner EXCEPT ![k] = ProcOf[w]]
    BY <1>1 DEF Claim, Lock
  <2> QED BY <1>0, <2>1, <2>2
<1>2. CASE Acquire(w)
  <2>1. Job(w) \in Free(w)
    BY <1>2 DEF Acquire, At, ListsFree, Lists, Job
  <2>2. owner' = owner \/ owner' = [owner EXCEPT ![Job(w)] = ProcOf[w]]
    BY <1>2 DEF Acquire, Lock
  <2> QED BY <1>0, <2>1, <2>2
<1>3. CASE ~Claim(w) /\ ~Acquire(w)
  BY <1>3 DEF PollingStep, StartRecovery, Poll, Kick, Launch, RecursionLimit, db
<1> QED BY <1>1, <1>2, <1>3

LEMMA PollingEntry ==
  ASSUME TypeOK, NEW w \in Runners, PollingStep(w), InSection(w)'
  PROVE  Acquire(w) /\ Job(w)' = Job(w) /\ run'[w].pc = "prepare"
<1>0. run \in [Runners -> Locals]
  BY DEF TypeOK
<1>1. run'[w].pc = "prepare"
  BY PollingLocals DEF InSection, SectionPCs
<1>2. CASE StartRecovery(w)
  <2>1. run' = [run EXCEPT ![w].pc = "recover", ![w].jobs = StaleActive]
    BY <1>2 DEF StartRecovery
  <2>2. run'[w].pc = "recover"
    BY <1>0, <2>1 DEF Locals, Runner
  <2> QED BY <1>1, <2>2
<1>3. CASE Poll(w)
  <2>1. PICK p \in {"idle", "claim"} :
          run' = [run EXCEPT ![w] = [Idle EXCEPT !.pc = p, !.jobs = Pending]]
    BY <1>0, <1>3, PollMoves
  <2>2. run'[w].pc = p
    BY <1>0, <2>1 DEF Idle
  <2> QED BY <1>1, <2>2
<1>4. CASE Claim(w)
  <2>1. ASSUME NEW j, Call(w, j, 0, FALSE) PROVE run'[w].pc = "acquire"
    BY <1>0, <2>1 DEF Call, Entry
  <2>2. ASSUME NEW p \in {"idle", "claim"}, NEW js, run' = [run EXCEPT ![w].pc = p, ![w].jobs = js]
        PROVE  run'[w].pc = p
    BY <1>0, <2>2, ListKeeps
  <2> QED BY <1>0, <1>1, <1>4, <2>1, <2>2, ClaimMoves
<1>5. CASE Kick(w)
  BY <1>0, <1>1, <1>5 DEF Kick, Locals, Runner
<1>6. CASE Launch(w)
  <2>1. run[w].frames \in Seq(Frame(Jobs))
    BY <1>0 DEF Locals, Runner, Frame
  <2>2. run' = [run EXCEPT ![w] = Idle] \/ \E j, fs : run' = [run EXCEPT ![w] = Entry(j, 0, FALSE, fs)]
    BY <1>6, <2>1, LaunchFrames
  <2>3. run'[w].pc \in {"idle", "acquire"}
    BY <1>0, <2>2 DEF Idle, Entry
  <2> QED BY <1>1, <2>3
<1>7. CASE RecursionLimit(w)
  BY <1>0, <1>1, <1>7 DEF RecursionLimit, Idle
<1>8. CASE Acquire(w)
  <2>1. PICK p : Goto(w, p)
    BY <1>8 DEF Acquire
  <2> QED BY <1>0, <1>1, <1>8, <2>1, GotoKeeps DEF SameCall, Job
<1> QED BY <1>2, <1>3, <1>4, <1>5, <1>6, <1>7, <1>8 DEF PollingStep

LEMMA PollingJobsSound ==
  ASSUME TypeOK, NEW w \in Runners, PollingStep(w), ListsFree(w), ~InSection(w), JobsSound(w)
  PROVE  JobsSound(w)'
<1> SUFFICES ASSUME NEW j \in Jobs
             PROVE  IF Mine(w, j)' THEN Sound(run'[w], status'[j], row'[j]) ELSE Asleep(j)'
  BY DEF JobsSound
<1>1. Asleep(j) /\ UNCHANGED <<status, row>>
  BY PollingRows DEF JobsSound, Mine
<1>2. Asleep(j)'
  BY <1>1, PollingOwner DEF Asleep, Active
<1>3. CASE Mine(w, j)'
  <2>1. Acquire(w) /\ Job(w) = j /\ run'[w].pc = "prepare"
    BY <1>3, PollingEntry DEF Mine
  <2>2. status[j] \notin ACTIVE_PIPELINE_JOB_STATUSES
    BY <2>1 DEF Acquire, At, ListsFree, Lists, Free, Mine, Job
  <2>3. \A t \in StepIx : row'[j][t] # "running"
    BY <1>1, <2>2, TellsInactive DEF Asleep
  <2> QED BY <1>3, <2>1, <2>3, NoneRunning DEF Sound, Tells
<1> QED BY <1>2, <1>3

LEMMA RecoveryJobsSound ==
  ASSUME TypeOK, NEW w \in Runners, FinishRecovery(w), JobsSound(w)
  PROVE  JobsSound(w)' /\ Active' \subseteq Active
<1>0. /\ status \in [Jobs -> Statuses] /\ row \in [Jobs -> [StepIx -> RowStatuses]]
      /\ run \in [Runners -> Locals] /\ run[w].pc = "recover"
  BY DEF TypeOK, DbOK, FinishRecovery, At
<1>3. run'[w].pc = "poll"
  <2>1. run' = [run EXCEPT ![w].pc = "poll", ![w].jobs = {}]
    BY DEF FinishRecovery
  <2> QED BY <1>0, <2>1 DEF Locals, Runner
<1>4. ~InSection(w) /\ ~InSection(w)'
  BY <1>0, <1>3 DEF InSection, SectionPCs
<1>1. ASSUME NEW j \in Jobs, j \in run[w].jobs
      PROVE  Asleep(j)' /\ status'[j] \notin ACTIVE_PIPELINE_JOB_STATUSES
  <2>1. status'[j] = "pending" /\ row'[j] = Interrupted(j)
    BY <1>1 DEF FinishRecovery
  <2>2. \A t \in StepIx : row'[j][t] # "running"
    BY <1>0, <2>1 DEF Interrupted
  <2> QED BY <2>1, <2>2, ActiveStatuses DEF Asleep, Tells
<1>2. ASSUME NEW j \in Jobs, j \notin run[w].jobs
      PROVE  Asleep(j)' /\ status'[j] = status[j]
  <2>1. status'[j] = status[j] /\ row'[j] = row[j] /\ owner'[j] = owner[j]
    BY <1>2 DEF FinishRecovery
  <2> QED BY <1>4, <2>1 DEF Asleep, JobsSound, Mine
<1> QED BY <1>1, <1>2, <1>4 DEF JobsSound, Mine, Active

(* A checked request resets a job that nobody works on, or that its runner   *)
(* has given up; at most it calls the pipeline for it.                      *)
LEMMA CheckedUser ==
  ASSUME CheckedOps, TypeOK, NEW j \in Jobs, User(j)
  PROVE  /\ status[j] \notin ACTIVE_PIPELINE_JOB_STATUSES
         /\ status' = [status EXCEPT ![j] = "pending"]
         /\ UNCHANGED owner
         /\ \A k \in Jobs \ {j} : row'[k] = row[k]
         /\ \A t \in StepIx : row'[j][t] = "running" => row[j][t] = "running"
         /\ \/ UNCHANGED run
            \/ \E r \in Runners : \E s, force : At(r, "idle") /\ Call(r, j, s, force)
<1>1. /\ ~UserOp("page_retry") /\ ~UserOp("page_retry_step") /\ ~UserOp("reset_step")
      /\ ~UserOp("cancel") /\ ~UserOp("analyze_without_llm") /\ ~UserOp("delete")
      /\ "create_local" \notin UserOps
  BY DEF CheckedOps, UserOp
<1>2. \/ CreateJob(j) \/ \E force \in BOOLEAN : RetryJob(j, force)
      \/ \E s \in FirstStep .. LLM, force \in BOOLEAN : RetryStep(j, s, force)
  BY <1>1 DEF User, CreateLocalJob, CancelJob, AnalyzeWithoutLlm, DeleteJob, ResetStep
<1>3. status[j] \in {"absent", "failed", "pending"} /\ status' = [status EXCEPT ![j] = "pending"]
  BY <1>1, <1>2 DEF CreateJob, Insert, RetryJob, RetryStep, ResetFrom
<1>4. UNCHANGED owner
  BY <1>2 DEF CreateJob, RetryJob, RetryStep
<1>5. UNCHANGED row \/ \E s : row' = [row EXCEPT ![j] = [t \in StepIx |-> IF t >= s THEN "pending" ELSE row[j][t]]]
  <2>1. CASE CreateJob(j) \/ \E force \in BOOLEAN : RetryJob(j, force)
    BY <2>1 DEF CreateJob, RetryJob
  <2>2. ASSUME NEW s, NEW force, RetryStep(j, s, force)
        PROVE  row' = [row EXCEPT ![j] = [t \in StepIx |-> IF t >= s THEN "pending" ELSE row[j][t]]]
    BY <2>2 DEF RetryStep, ResetFrom, TypeOK, DbOK
  <2> QED BY <1>2, <2>1, <2>2
<1>6. \E s, force : Enqueue(j, s, force)
  BY <1>2 DEF CreateJob, RetryJob, RetryStep
<1>7. \/ UNCHANGED run
      \/ \E r \in Runners : \E s, force : At(r, "idle") /\ Call(r, j, s, force)
  BY <1>6 DEF Enqueue, Web
<1>8. row \in [Jobs -> [StepIx -> RowStatuses]]
  BY DEF TypeOK, DbOK
<1>9. /\ \A k \in Jobs \ {j} : row'[k] = row[k]
      /\ \A t \in StepIx : row'[j][t] = "running" => row[j][t] = "running"
  BY <1>5, <1>8
<1>10. status[j] \notin ACTIVE_PIPELINE_JOB_STATUSES
  BY <1>3, ActiveStatuses
<1> QED BY <1>3, <1>4, <1>7, <1>9, <1>10

LEMMA FreeGrows ==
  ASSUME NEW w \in Runners,
         \A j \in Jobs : Mine(w, j) => Mine(w, j)' \/ status'[j] \notin ACTIVE_PIPELINE_JOB_STATUSES,
         Active' \subseteq Active
  PROVE  Free(w) \subseteq Free(w)'
BY DEF Free, Active

LEMMA AloneRunner ==
  ASSUME PipelineAssumption, TypeOK, NEW w \in Runners, Alone(w), RunnerStep(w)
  PROVE  Alone(w)'
<1> PICK E : E = Free(w)
  OBVIOUS
<1>0. /\ run \in [Runners -> Locals] /\ run[w] \in Locals
      /\ JobsSound(w) /\ ListsFree(w) /\ SlotKept(w) /\ SlotLimit
      /\ run[w].pc \notin RequestPCs /\ Lists(E, run[w])
  BY DEF TypeOK, Alone, ListsFree
<1>1. CASE SectionStep(w)
  <2>1. /\ InSection(w) /\ SameCall(run[w], run'[w])
        /\ run'[w].pc \in SectionPCs \cup {"kick"}
    BY <1>1, SectionStepLocals
  <2>2. JobsSound(w)' /\ SlotKept(w)' /\ SlotLimit'
    BY <1>0, <1>1, SectionJobsSound, SectionSlots
  <2>3. E \subseteq Free(w)'
    <3> SUFFICES ASSUME NEW j \in Jobs, j \in E PROVE j \in Free(w)'
      BY DEF Free
    <3>1. CASE j = Job(w) /\ InSection(w)'
      BY <2>1, <3>1 DEF Free, Mine, SameCall, Job
    <3>2. CASE j = Job(w) /\ ~InSection(w)'
      <4>1. Release(w)
        BY <1>0, <1>1, <3>2, LeavesByRelease
      <4>2. At(w, "release") /\ UNCHANGED status
        BY <4>1 DEF Release
      <4>3. status[j] \notin ACTIVE_PIPELINE_JOB_STATUSES
        BY <1>0, <2>1, <3>2, <4>2 DEF JobsSound, Mine, Sound, Placed, At
      <4> QED BY <4>2, <4>3 DEF Free
    <3>3. CASE j # Job(w)
      BY <1>1, <3>3, SectionStepRows DEF Free, Mine
    <3> QED BY <3>1, <3>2, <3>3
  <2>4. ListsFree(w)'
    <3>1. Lists(E, run'[w])
      BY <1>0, <2>1 DEF SameCall, Lists, SectionPCs
    <3> QED BY <2>3, <3>1, ListsGrow DEF ListsFree
  <2>5. run'[w].pc \notin RequestPCs
    BY <2>1 DEF RequestPCs, SectionPCs
  <2> QED BY <2>2, <2>4, <2>5 DEF Alone
<1>2. CASE PollingStep(w)
  <2>1. ~InSection(w)
    BY <1>2 DEF PollingStep, StartRecovery, Poll, Claim, Acquire, Kick, Launch, RecursionLimit,
       At, InSection, SectionPCs
  <2>2. JobsSound(w)'
    BY <1>0, <1>2, <2>1, PollingJobsSound
  <2>3. E \subseteq Free(w)' /\ Pending \subseteq E
    BY <1>2, <2>1, PollingRows, ActiveStatuses DEF Free, Mine, Pending
  <2>4. ListsFree(w)'
    <3>1. Lists(E, run'[w])
      BY <1>0, <1>2, <2>3, PollingLists
    <3> QED BY <2>3, <3>1, ListsGrow DEF ListsFree
  <2>5. run'[w].pc \in {"recover", "poll", "claim", "idle", "acquire", "prepare", "kick", "launch"}
    BY <1>2, PollingLocals
  <2>6. SlotLimit' /\ SlotKept(w)'
    BY <1>0, <1>2, <2>5, PollingRows DEF SlotLimit, Active, SlotKept, StepPCs
  <2> QED BY <2>2, <2>4, <2>5, <2>6 DEF Alone, RequestPCs
<1>3. CASE FinishRecovery(w)
  <2>1. JobsSound(w)' /\ Active' \subseteq Active /\ ~InSection(w)
    BY <1>0, <1>3, RecoveryJobsSound DEF FinishRecovery, At, InSection, SectionPCs
  <2>2. run'[w].pc = "poll"
    <3>1. run' = [run EXCEPT ![w].pc = "poll", ![w].jobs = {}]
      BY <1>3 DEF FinishRecovery
    <3> QED BY <1>0, <3>1 DEF Locals, Runner
  <2>3. E \subseteq Free(w)' /\ Pending \subseteq E
    BY <2>1, FreeGrows, ActiveStatuses DEF Free, Mine, Pending
  <2>4. ListsFree(w)'
    <3>1. Lists(E, run'[w])
      BY <1>0, <1>3, <2>3, PollingLists
    <3> QED BY <2>3, <3>1, ListsGrow DEF ListsFree
  <2>5. SlotLimit'
    BY <1>0, <2>1, FewerActive
  <2> QED BY <2>1, <2>2, <2>4, <2>5 DEF Alone, SlotKept, StepPCs, RequestPCs
<1>4. CASE RequestStep(w)
  BY <1>0, <1>4, RequestLocals DEF RequestPCs
<1> QED BY <1>1, <1>2, <1>3, <1>4, RunnerSteps

LEMMA AloneUser ==
  ASSUME CheckedOps, PipelineAssumption, TypeOK, NEW w \in Runners, Runners = {w}, Alone(w),
         NEW j \in Jobs, User(j)
  PROVE  Alone(w)'
<1> PICK E : E = Free(w)
  OBVIOUS
<1>0. /\ run \in [Runners -> Locals] /\ status \in [Jobs -> Statuses]
      /\ JobsSound(w) /\ ListsFree(w) /\ SlotKept(w) /\ SlotLimit
      /\ run[w].pc \notin RequestPCs /\ Lists(E, run[w])
  BY DEF TypeOK, DbOK, Alone, ListsFree
<1>1. /\ status[j] \notin ACTIVE_PIPELINE_JOB_STATUSES
      /\ status'[j] = "pending" /\ status'[j] \notin ACTIVE_PIPELINE_JOB_STATUSES
      /\ \A k \in Jobs \ {j} : status'[k] = status[k] /\ row'[k] = row[k]
      /\ UNCHANGED owner
      /\ \A t \in StepIx : row'[j][t] = "running" => row[j][t] = "running"
      /\ \/ UNCHANGED run
         \/ \E s, force : At(w, "idle") /\ Call(w, j, s, force)
  BY <1>0, CheckedUser, ActiveStatuses
<1>2. Active' \subseteq Active
  BY <1>1 DEF Active
<1>3. \/ run'[w] = run[w]
      \/ /\ ~InSection(w) /\ run'[w].pc = "acquire" /\ run'[w].job = j
         /\ run'[w].frames = run[w].frames
  <2>1. ASSUME NEW s, NEW force, At(w, "idle"), Call(w, j, s, force)
        PROVE  /\ ~InSection(w) /\ run'[w].pc = "acquire" /\ run'[w].job = j
               /\ run'[w].frames = run[w].frames
    BY <1>0, <2>1 DEF At, InSection, SectionPCs, Call, Entry
  <2> QED BY <1>1, <2>1
<1>4. \A k \in Jobs : /\ Mine(w, k)' <=> Mine(w, k)
                      /\ Mine(w, k) => run'[w] = run[w]
  BY <1>3 DEF Mine, InSection, Job, SectionPCs
<1>5. JobsSound(w)'
  <2> SUFFICES ASSUME NEW k \in Jobs
               PROVE  IF Mine(w, k)' THEN Sound(run'[w], status'[k], row'[k]) ELSE Asleep(k)'
    BY DEF JobsSound
  <2>1. CASE k # j
    BY <1>0, <1>1, <1>4, <2>1 DEF JobsSound, Asleep
  <2>2. CASE k = j
    <3>1. Tells(status[j], row[j])
      BY <1>0 DEF JobsSound, Asleep, Sound
    <3>2. \A t \in StepIx : row'[j][t] # "running"
      BY <1>1, <3>1, TellsInactive
    <3> QED BY <1>1, <2>2, <3>2, NoneRunning DEF Sound, Asleep, Tells
  <2> QED BY <2>1, <2>2
<1>6. ListsFree(w)'
  <2>1. E \subseteq Free(w)' /\ j \in Free(w)'
    BY <1>1, <1>2, <1>4, FreeGrows DEF Free
  <2>2. Lists(Free(w)', run[w])
    BY <1>0, <2>1, ListsGrow
  <2>3. Lists(Free(w)', run'[w])
    BY <1>3, <2>1, <2>2 DEF Lists
  <2> QED BY <2>3 DEF ListsFree
<1>7. SlotLimit' /\ SlotKept(w)'
  <2>1. run'[w].pc \in StepPCs \cup {"check"} => run'[w] = run[w] /\ Job(w) \in Jobs
    BY <1>0, <1>3, SectionJob DEF StepPCs, InSection, SectionPCs
  <2> QED BY <1>0, <1>2, <2>1, FewerActive DEF SlotKept, SlotFree, Job
<1>8. run'[w].pc \notin RequestPCs
  BY <1>0, <1>3 DEF RequestPCs
<1> QED BY <1>5, <1>6, <1>7, <1>8 DEF Alone

LEMMA AloneCrash ==
  ASSUME PipelineAssumption, TypeOK, LeaseHeld, evicted = {},
         NEW w \in Runners, Runners = {w}, Alone(w), NEW p \in Procs, Crash(p)
  PROVE  Alone(w)'
<1>1. p = ProcOf[w] /\ run'[w] = Idle /\ UNCHANGED <<status, row>>
  BY DEF Crash
<1>2. \A j \in Jobs : owner'[j] = IF owner[j] = p THEN Gone ELSE owner[j]
  BY DEF Crash
<1>3. Idle.pc = "idle"
  BY DEF Idle
<1>4. ~InSection(w)'
  BY <1>1, <1>3 DEF InSection, SectionPCs
<1>5. Gone # p
  BY DEF PipelineAssumption
<1>6. JobsSound(w)'
  <2> SUFFICES ASSUME NEW j \in Jobs PROVE Asleep(j)'
    BY <1>4 DEF JobsSound, Mine
  <2>1. CASE Mine(w, j)
    <3>1. owner'[j] = Gone
      BY <1>1, <1>2, <2>1 DEF LeaseHeld, Mine
    <3> QED BY <1>1, <2>1, <3>1 DEF Alone, JobsSound, Sound, Asleep
  <2>2. CASE ~Mine(w, j)
    BY <1>1, <1>2, <1>5, <2>2 DEF Alone, JobsSound, Asleep
  <2> QED BY <2>1, <2>2
<1>7. ListsFree(w)'
  BY <1>1, IdleLists DEF ListsFree
<1>8. SlotLimit' /\ SlotKept(w)' /\ run'[w].pc \notin RequestPCs
  BY <1>1, <1>3 DEF Alone, SlotLimit, Active, SlotKept, StepPCs, RequestPCs
<1> QED BY <1>6, <1>7, <1>8 DEF Alone

LEMMA AloneAttends ==
  ASSUME LeaseHeld, evicted = {}, NEW w \in Runners, Alone(w)
  PROVE  RunningStepIsAttended /\ ActiveJobIsAttended /\ SlotLimit
<1>1. ASSUME NEW j \in Jobs, status[j] \in ACTIVE_PIPELINE_JOB_STATUSES
      PROVE  Attended(j)
  <2>1. CASE Mine(w, j)
    BY <2>1 DEF LeaseHeld, Attended, Holds, Mine
  <2>2. CASE ~Mine(w, j)
    BY <1>1, <2>2 DEF Alone, JobsSound, Asleep, Attended
  <2> QED BY <2>1, <2>2
<1>2. ASSUME NEW j \in Jobs, NEW s \in StepIx, row[j][s] = "running"
      PROVE  Attended(j)
  <2>1. Tells(status[j], row[j])
    BY DEF Alone, JobsSound, Sound, Asleep
  <2>2. status[j] = PIPELINE_STEPS[s]
    BY <1>2, <2>1 DEF Tells
  <2> QED BY <1>1, <2>2, ActiveStatuses
<1> QED BY <1>1, <1>2 DEF RunningStepIsAttended, ActiveJobIsAttended, Active, Alone

(* One worker, whose runs are shorter than pipeline_lock_stale_seconds,     *)
(* leaves no step running and no job in an active status behind: either it  *)
(* works on the job or it died and the lock of its former process is there  *)
(* for recover_stale_pipeline_jobs.  So it never loses a slot either.       *)
THEOREM LoneWorkerAttends ==
  ASSUME NEW w, Runners = {w}, LeaseOutlivesWork, CheckedOps
  PROVE  Spec => []RunningStepIsAttended /\ []ActiveJobIsAttended /\ []SlotLimit
<1>0. w \in Runners
  OBVIOUS
<1>1. Init => Alone(w)
  <2> SUFFICES ASSUME Init PROVE Alone(w)
    OBVIOUS
  <2>1. run[w] = Idle /\ Idle.pc = "idle"
    BY DEF Init, Idle
  <2>2. Active = {} /\ \A j \in Jobs : Asleep(j)
    BY ActiveStatuses DEF Init, Active, Asleep, Tells
  <2>3. SlotLimit
    BY <2>2, FS_EmptySet, PipelineAssumption DEF SlotLimit, PipelineAssumption
  <2> QED BY <2>1, <2>2, <2>3, IdleLists DEF Alone, JobsSound, Mine, InSection, SectionPCs, ListsFree,
          SlotKept, StepPCs, RequestPCs
<1>2. TypeOK /\ LeaseHeld /\ evicted = {} /\ Alone(w) /\ [Next]_vars => Alone(w)'
  <2> SUFFICES ASSUME TypeOK, LeaseHeld, evicted = {}, Alone(w), [Next]_vars PROVE Alone(w)'
    OBVIOUS
  <2>1. ASSUME NEW r \in Runners, RunnerStep(r) PROVE Alone(w)'
    BY <2>1, AloneRunner, PipelineAssumption
  <2>2. ASSUME NEW j \in Jobs, User(j) PROVE Alone(w)'
    BY <1>0, <2>2, AloneUser, PipelineAssumption
  <2>3. ASSUME NEW p \in Procs, Crash(p) PROVE Alone(w)'
    BY <1>0, <2>3, AloneCrash, PipelineAssumption
  <2>4. ASSUME UNCHANGED <<status, owner, row, run>> PROVE Alone(w)'
    BY <2>4 DEF Alone, JobsSound, ListsFree, Free, Mine, InSection, Job, At, Asleep, SlotKept, SlotFree,
       SlotLimit, Active
  <2>5. ASSUME NEW j \in Jobs, LeaseExpires(j) PROVE Alone(w)'
    BY <2>4, <2>5 DEF LeaseExpires
  <2>6. CASE UNCHANGED vars
    BY <2>4, <2>6 DEF vars, db
  <2> QED BY <2>1, <2>2, <2>3, <2>5, <2>6 DEF Next
<1>3. LeaseHeld /\ evicted = {} /\ Alone(w) => RunningStepIsAttended /\ ActiveJobIsAttended /\ SlotLimit
  BY <1>0, AloneAttends
<1> QED BY <1>1, <1>2, <1>3, TypeCorrect, LeaseSafety, LoneRunnerKeepsLock, PTL DEF Spec

-----------------------------------------------------------------------------
(* Cancellation. *)

(* The requests that respect one for cancellation. *)
CancelOps == UserOps \subseteq {"upload", "retry", "retry_step", "cancel", "delete"}

(* Where a runner may be when its job is asked to stop. *)
RequestedPCs == RunningPCs \cup {"check", "finish"}
Heard(l, v) == v = "cancel_requested" => l.pc \in RequestedPCs

(* Every job at work is in a section, and its runner will see the request;  *)
(* no process died, so no other job is active or waits for an answer.       *)
Quiet(v, u) ==
  /\ \A t \in StepIx : u[t] # "running"
  /\ v \notin ACTIVE_PIPELINE_JOB_STATUSES \cup {"cancel_requested"}
Crew ==
  /\ \A r \in Runners : InSection(r) => /\ Placed(run[r], status[Job(r)], row[Job(r)])
                                        /\ Heard(run[r], status[Job(r)])
  /\ \A j \in Jobs : Quiet(status[j], row[j]) \/ \E r \in Runners : Mine(r, j)
  /\ \A r \in Runners : run[r].pc \notin RequestPCs \cup {"recover"}

Sticks(j) == status[j] = "cancel_requested" =>
               status'[j] \notin ACTIVE_PIPELINE_JOB_STATUSES \cup {"pending"}

LEMMA SectionHeard ==
  ASSUME TypeOK, NEW r \in Runners, SectionStep(r), Heard(run[r], status[Job(r)])
  PROVE  /\ Sticks(Job(r))
         /\ InSection(r)' => Heard(run'[r], status'[Job(r)])
<1> PICK j : j = Job(r)
  OBVIOUS
<1>0. /\ run \in [Runners -> Locals] /\ j \in Jobs
      /\ status \in [Jobs -> Statuses]
      /\ status[j] = "cancel_requested" => run[r].pc \in RequestedPCs
  BY SectionStepLocals, SectionJob DEF TypeOK, DbOK, Heard
<1>1. CASE status[j] = "cancel_requested"
  <2>1. /\ ~Prepare(r) /\ ~Skip(r) /\ ~Exhaust(r) /\ ~Start(r)
        /\ ~SnapshotStorage(r) /\ ~CancelMark(r) /\ ~Release(r)
    BY <1>0, <1>1 DEF RequestedPCs, RunningPCs, Prepare, Skip, Exhaust, Start, SnapshotStorage,
       CancelMark, Release, At
  <2>2. status' = status \/ \E v \in {"canceled", "failed", "done"} : status' = [status EXCEPT ![j] = v]
    BY <2>1 DEF SectionStep, db, Check, AbortStatus, Finish, Abort,
        Download, Subtitle, ExtractAudio, Transcribe, DetectNiche, GenerateCandidates, EnrichWithLlm,
        SkipLlm, ProgressCanceled, Fail, Complete
  <2>3. status'[j] \in {"cancel_requested", "canceled", "failed", "done"}
    BY <1>0, <1>1, <2>2
  <2>4. Sticks(j)
    BY <2>3 DEF Sticks, ACTIVE_PIPELINE_JOB_STATUSES
  <2>5. ASSUME status'[j] = "cancel_requested" PROVE run'[r].pc \in RequestedPCs
    <3>1. ~Finish(r) /\ ~Abort(r)
      BY <1>0, <2>5 DEF Finish, Abort, AbortStatus
    <3>2. CASE Check(r) \/ ProgressCanceled(r) \/ Fail(r)
      <4>1. IsCancelRequested(j)
        BY <1>1 DEF IsCancelRequested
      <4>2. \E e : run' = [run EXCEPT ![r].pc = "abort", ![r].err = e]
        BY <3>2, <4>1 DEF Check, ProgressCanceled, Fail
      <4>3. run'[r].pc = "abort"
        BY <1>0, <4>2, AbortKeeps
      <4> QED BY <4>3 DEF RequestedPCs, RunningPCs
    <3>3. CASE ~Check(r) /\ ~ProgressCanceled(r) /\ ~Fail(r)
      <4>1. \E p \in RequestedPCs : Goto(r, p)
        BY <2>1, <3>1, <3>3 DEF SectionStep, RequestedPCs, RunningPCs, AfterStep,
           Download, Subtitle, ExtractAudio, Transcribe, DetectNiche, GenerateCandidates,
           EnrichWithLlm, SkipLlm, Complete
      <4> QED BY <1>0, <4>1, GotoKeeps
    <3> QED BY <3>2, <3>3
  <2> QED BY <2>4, <2>5 DEF Heard
<1>2. CASE status[j] # "cancel_requested"
  <2>1. status'[j] # "cancel_requested"
    <3>1. CASE Start(r)
      <4>1. run[r].cur \in StepIx
        BY <3>1 DEF TypeOK, Locals, Runner, Start, At, StepIx
      <4> QED BY <1>0, <3>1, <4>1 DEF Start, MarkRunning, PIPELINE_STEPS, StepIx
    <3>2. CASE ~Start(r)
      <4>1. status' = status \/ \E v : status' = [status EXCEPT ![j] = v] /\ v # "cancel_requested"
        BY <1>2, <3>2 DEF SectionStep, db, Prepare, Check, Skip, Exhaust, AbortStatus,
          Download, Subtitle, ExtractAudio, Transcribe, DetectNiche, GenerateCandidates, EnrichWithLlm,
          SkipLlm, ProgressCanceled, Fail, Complete, Finish, SnapshotStorage, Abort, CancelMark, Release
      <4> QED BY <1>0, <1>2, <4>1
    <3> QED BY <3>1, <3>2
  <2> QED BY <1>2, <2>1 DEF Sticks, Heard
<1> QED BY <1>1, <1>2

(* The sections of other runners, and jobs in no section, do not change. *)
LEMMA CrewSection ==
  ASSUME TypeOK, OneRunnerPerJob, Crew, NEW r \in Runners, SectionStep(r)
  PROVE  Crew' /\ \A j \in Jobs : Sticks(j)
<1>0. /\ InSection(r) /\ Job(r)' = Job(r) /\ Job(r) \in Jobs
      /\ \A q \in Runners \ {r} : run'[q] = run[q]
      /\ Placed(run[r], status[Job(r)], row[Job(r)]) /\ Heard(run[r], status[Job(r)])
  BY SectionStepLocals, SectionJob DEF Crew, SameCall, Job, TypeOK
<1>1. \A j \in Jobs : Sticks(j)
  <2>1. ASSUME NEW j \in Jobs, j # Job(r) PROVE Sticks(j)
    BY <2>1, SectionStepRows, ActiveStatuses DEF Sticks, ACTIVE_PIPELINE_JOB_STATUSES
  <2> QED BY <1>0, <2>1, SectionHeard
<1>2. ASSUME NEW q \in Runners, InSection(q)'
      PROVE  Placed(run'[q], status'[Job(q)'], row'[Job(q)']) /\ Heard(run'[q], status'[Job(q)'])
  <2>1. CASE q = r
    BY <1>0, <1>2, <2>1, SectionPlaced, SectionHeard
  <2>2. CASE q # r
    <3>1. run'[q] = run[q] /\ InSection(q) /\ Job(q)' = Job(q)
      BY <1>0, <1>2, <2>2 DEF InSection, Job
    <3>2. Job(q) \in Jobs /\ Job(q) # Job(r)
      BY <1>0, <2>2, <3>1, SectionJob DEF OneRunnerPerJob, TypeOK
    <3> QED BY <3>1, <3>2, SectionStepRows DEF Crew
  <2> QED BY <2>1, <2>2
<1>3. ASSUME NEW j \in Jobs, \A q \in Runners : ~Mine(q, j)'
      PROVE  Quiet(status'[j], row'[j])
  <2>1. CASE j = Job(r)
    <3>1. ~InSection(r)'
      BY <1>0, <1>3, <2>1 DEF Mine
    <3>2. At(r, "release") /\ UNCHANGED <<status, row>>
      BY <3>1, LeavesByRelease DEF Release
    <3> QED BY <1>0, <2>1, <3>2 DEF Quiet, Placed, Heard, At, RequestedPCs, RunningPCs
  <2>2. CASE j # Job(r)
    <3>1. \A q \in Runners : ~Mine(q, j)
      BY <1>0, <1>3, <2>2 DEF Mine, InSection, Job
    <3>2. Quiet(status[j], row[j])
      BY <3>1 DEF Crew
    <3> QED BY <2>2, <3>2, SectionStepRows
  <2> QED BY <2>1, <2>2
<1>4. ASSUME NEW q \in Runners PROVE run'[q].pc \notin RequestPCs \cup {"recover"}
  <2>1. run'[r].pc \notin RequestPCs \cup {"recover"}
    BY SectionStepLocals DEF SectionPCs, RequestPCs
  <2> QED BY <1>0, <2>1 DEF Crew
<1> QED BY <1>1, <1>2, <1>3, <1>4 DEF Crew

LEMMA NoRecovery ==
  ASSUME TypeOK, StaleActive = {}, NEW r \in Runners, PollingStep(r)
  PROVE  run'[r].pc # "recover"
<1>0. run \in [Runners -> Locals]
  BY DEF TypeOK
<1>1. ASSUME NEW p, Goto(r, p), p # "recover" PROVE run'[r].pc # "recover"
  BY <1>0, <1>1, GotoKeeps
<1>2. CASE Poll(r)
  <2>1. PICK p \in {"idle", "claim"} :
          run' = [run EXCEPT ![r] = [Idle EXCEPT !.pc = p, !.jobs = Pending]]
    BY <1>0, <1>2, PollMoves
  <2> QED BY <1>0, <2>1 DEF Idle
<1>3. CASE Claim(r)
  <2>1. ASSUME NEW j, Call(r, j, 0, FALSE) PROVE run'[r].pc = "acquire"
    BY <1>0, <2>1 DEF Call, Entry
  <2>2. ASSUME NEW p \in {"idle", "claim"}, NEW js, run' = [run EXCEPT ![r].pc = p, ![r].jobs = js]
        PROVE  run'[r].pc = p
    BY <1>0, <2>2, ListKeeps
  <2> QED BY <1>0, <1>3, <2>1, <2>2, ClaimMoves
<1>4. CASE Launch(r)
  <2>1. run[r].frames \in Seq(Frame(Jobs))
    BY <1>0 DEF Locals, Runner, Frame
  <2>2. run' = [run EXCEPT ![r] = Idle] \/ \E j, fs : run' = [run EXCEPT ![r] = Entry(j, 0, FALSE, fs)]
    BY <1>4, <2>1, LaunchFrames
  <2> QED BY <1>0, <2>2 DEF Idle, Entry
<1>5. CASE Kick(r)
  BY <1>0, <1>5 DEF Kick, Locals, Runner
<1>6. CASE RecursionLimit(r)
  BY <1>0, <1>6 DEF RecursionLimit, Idle
<1>7. CASE Acquire(r)
  BY <1>1, <1>7 DEF Acquire
<1> QED BY <1>2, <1>3, <1>4, <1>5, <1>6, <1>7 DEF PollingStep, StartRecovery

(* Nothing is there to recover, and no lock of a job at work to take. *)
LEMMA CrewPolling ==
  ASSUME PipelineAssumption, OwnProcess, TypeOK, LeaseHeld, evicted = {}, Crew,
         NEW r \in Runners, PollingStep(r)
  PROVE  Crew' /\ \A j \in Jobs : Sticks(j)
<1>0. /\ run \in [Runners -> Locals]
      /\ UNCHANGED <<status, row>>
      /\ \A q \in Runners \ {r} : run'[q] = run[q]
  BY PollingRows, PollingLocals DEF TypeOK
<1>1. \A j \in Jobs : Sticks(j)
  BY <1>0 DEF Sticks, ACTIVE_PIPELINE_JOB_STATUSES
<1>2. ~InSection(r)
  BY DEF PollingStep, StartRecovery, Poll, Claim, Acquire, Kick, Launch, RecursionLimit,
     At, InSection, SectionPCs
<1>3. StaleActive = {}
  <2> SUFFICES ASSUME NEW j \in StaleActive PROVE FALSE
    OBVIOUS
  <2>1. j \in Jobs /\ status[j] \in ACTIVE_PIPELINE_JOB_STATUSES /\ stale[j]
    BY DEF StaleActive, Active
  <2>2. PICK q \in Runners : Mine(q, j)
    BY <2>1 DEF Crew, Quiet
  <2> QED BY <2>1, <2>2 DEF Mine, LeaseHeld
<1>4. \A j \in Jobs, q \in Runners : Mine(q, j) => Mine(q, j)'
  BY <1>0, <1>2 DEF Mine, InSection, Job
<1>5. ASSUME NEW q \in Runners, InSection(q)'
      PROVE  Placed(run'[q], status'[Job(q)'], row'[Job(q)']) /\ Heard(run'[q], status'[Job(q)'])
  <2>1. CASE q # r
    <3>1. run'[q] = run[q] /\ InSection(q) /\ Job(q)' = Job(q)
      BY <1>0, <1>5, <2>1 DEF InSection, Job
    <3> QED BY <1>0, <3>1 DEF Crew
  <2>2. CASE q = r
    <3>1. Acquire(r) /\ Job(r)' = Job(r) /\ run'[r].pc = "prepare"
      BY <1>5, <2>2, PollingEntry
    <3>2. CanLock(ProcOf[r], Job(r)) /\ Job(r) \in Jobs
      <4>1. run'[r].pc # "kick" /\ run[r].pc = "acquire"
        BY <3>1 DEF Acquire, At
      <4>2. ~Goto(r, "kick")
        BY <1>0, <4>1, GotoKeeps
      <4> QED BY <1>0, <3>1, <4>1, <4>2 DEF Acquire, Locals, Job, JobPCs
    <3>3. ASSUME NEW p \in Runners, Mine(p, Job(r)) PROVE FALSE
      <4>1. p # r /\ owner[Job(r)] = ProcOf[p] /\ ~stale[Job(r)]
        BY <1>2, <3>3 DEF Mine, LeaseHeld
      <4>2. ProcOf[p] # ProcOf[r] /\ ProcOf[p] # Nobody
        BY <4>1 DEF OwnProcess, PipelineAssumption
      <4> QED BY <3>2, <4>1, <4>2 DEF CanLock
    <3>4. Quiet(status[Job(r)], row[Job(r)])
      BY <3>2, <3>3 DEF Crew
    <3> QED BY <1>0, <2>2, <3>1, <3>4, NoneRunning DEF Quiet, Heard
  <2> QED BY <2>1, <2>2
<1>6. \A j \in Jobs : Quiet(status'[j], row'[j]) \/ \E q \in Runners : Mine(q, j)'
  BY <1>0, <1>4 DEF Crew
<1>7. ASSUME NEW q \in Runners PROVE run'[q].pc \notin RequestPCs \cup {"recover"}
  <2>1. CASE q # r
    BY <1>0, <2>1 DEF Crew
  <2>2. CASE q = r
    <3>1. run'[r].pc # "recover"
      BY <1>3, NoRecovery
    <3> QED BY <2>2, <3>1, PollingLocals DEF RequestPCs
  <2> QED BY <2>1, <2>2
<1> QED BY <1>1, <1>5, <1>6, <1>7 DEF Crew

LEMMA EnqueueCalls ==
  ASSUME NEW j, NEW s, NEW force, Enqueue(j, s, force)
  PROVE  \/ UNCHANGED run
         \/ \E r \in Runners : \E l : /\ At(r, "idle") /\ run' = [run EXCEPT ![r] = l]
                                      /\ l.pc \in {"acquire", "kick"}
<1>1. ASSUME NEW r \in Runners, At(r, "idle"), Call(r, j, s, force)
      PROVE  \E l : /\ At(r, "idle") /\ run' = [run EXCEPT ![r] = l] /\ l.pc \in {"acquire", "kick"}
  <2>1. Entry(j, s, force, run[r].frames).pc = "acquire"
    BY DEF Entry
  <2> QED BY <1>1, <2>1 DEF Call
<1> QED BY <1>1 DEF Enqueue, Web

LEMMA CancelUser ==
  ASSUME CancelOps, TypeOK, NEW j \in Jobs, User(j)
  PROVE  /\ \E v : /\ status' = [status EXCEPT ![j] = v]
                   /\ v \notin ACTIVE_PIPELINE_JOB_STATUSES
                   /\ v = "cancel_requested" => \E s \in StepIx : row[j][s] = "running"
         /\ Sticks(j)
         /\ \A k \in Jobs \ {j} : row'[k] = row[k]
         /\ \A t \in StepIx : row'[j][t] = "running" => row[j][t] = "running"
         /\ UNCHANGED evicted
         /\ \/ UNCHANGED run
            \/ \E r \in Runners : \E l : /\ At(r, "idle") /\ run' = [run EXCEPT ![r] = l]
                                         /\ l.pc \in {"acquire", "kick"}
<1>1. /\ ~UserOp("page_retry") /\ ~UserOp("page_retry_step") /\ ~UserOp("reset_step")
      /\ ~UserOp("analyze_without_llm") /\ "create_local" \notin UserOps
  BY DEF CancelOps, UserOp
<1>2. \/ CreateJob(j) \/ CancelJob(j) \/ DeleteJob(j) \/ \E force \in BOOLEAN : RetryJob(j, force)
      \/ \E s \in FirstStep .. LLM, force \in BOOLEAN : RetryStep(j, s, force)
  BY <1>1 DEF User, CreateLocalJob, AnalyzeWithoutLlm, ResetStep
<1>0. row \in [Jobs -> [StepIx -> RowStatuses]] /\ status \in [Jobs -> Statuses]
  BY DEF TypeOK, DbOK
<1>3. CASE CreateJob(j) \/ \E force \in BOOLEAN : RetryJob(j, force)
  <2>1. status[j] \in {"absent", "failed", "pending"} /\ status' = [status EXCEPT ![j] = "pending"]
    BY <1>1, <1>3 DEF CreateJob, Insert, RetryJob
  <2>2. UNCHANGED <<row, evicted>> /\ \E s, force : Enqueue(j, s, force)
    BY <1>3 DEF CreateJob, RetryJob
  <2> QED BY <2>1, <2>2, EnqueueCalls, ActiveStatuses DEF Sticks
<1>4. CASE \E s \in FirstStep .. LLM, force \in BOOLEAN : RetryStep(j, s, force)
  <2>1. status[j] \in {"failed", "pending"} /\ status' = [status EXCEPT ![j] = "pending"]
    BY <1>1, <1>4 DEF RetryStep, ResetFrom
  <2>2. UNCHANGED evicted /\ \E s, force : Enqueue(j, s, force)
    BY <1>4 DEF RetryStep
  <2>3. \E s : row' = [row EXCEPT ![j] = [t \in StepIx |-> IF t >= s THEN "pending" ELSE row[j][t]]]
    BY <1>0, <1>4 DEF RetryStep, ResetFrom
  <2>4. /\ \A k \in Jobs \ {j} : row'[k] = row[k]
        /\ \A t \in StepIx : row'[j][t] = "running" => row[j][t] = "running"
    BY <1>0, <2>3
  <2> QED BY <2>1, <2>2, <2>4, EnqueueCalls, ActiveStatuses DEF Sticks
<1>5. CASE CancelJob(j)
  <2>1. PICK v \in {"cancel_requested", "canceled"} :
          /\ status' = [status EXCEPT ![j] = v]
          /\ v = "cancel_requested" => \E s \in StepIx : row[j][s] = "running"
    BY <1>5 DEF CancelJob
  <2>2. status'[j] = v /\ v \notin ACTIVE_PIPELINE_JOB_STATUSES \cup {"pending"}
    BY <1>0, <2>1 DEF ACTIVE_PIPELINE_JOB_STATUSES
  <2>3. PICK r \in Runners : /\ At(r, "idle")
                             /\ run' = [run EXCEPT ![r] = [Idle EXCEPT !.pc = "kick", !.job = j]]
    BY <1>5 DEF CancelJob, Web
  <2>4. [Idle EXCEPT !.pc = "kick", !.job = j].pc = "kick"
    BY DEF Idle
  <2>5. \E l : /\ At(r, "idle") /\ run' = [run EXCEPT ![r] = l] /\ l.pc \in {"acquire", "kick"}
    BY <2>3, <2>4
  <2>6. UNCHANGED <<row, evicted>>
    BY <1>5 DEF CancelJob
  <2> QED BY <2>1, <2>2, <2>5, <2>6 DEF Sticks
<1>6. CASE DeleteJob(j)
  <2>1. status' = [status EXCEPT ![j] = "deleted"] /\ UNCHANGED <<run, row, evicted>>
    BY <1>6 DEF DeleteJob
  <2>2. status'[j] = "deleted"
    BY <1>0, <2>1
  <2> QED BY <2>1, <2>2 DEF Sticks, ACTIVE_PIPELINE_JOB_STATUSES
<1> QED BY <1>2, <1>3, <1>4, <1>5, <1>6

LEMMA CrewUser ==
  ASSUME CancelOps, TypeOK, OneRunnerPerJob, Crew, NEW j \in Jobs, User(j)
  PROVE  Crew' /\ \A k \in Jobs : Sticks(k)
<1>0. run \in [Runners -> Locals] /\ status \in [Jobs -> Statuses]
  BY DEF TypeOK, DbOK
<1>1. PICK v : /\ status' = [status EXCEPT ![j] = v]
               /\ v \notin ACTIVE_PIPELINE_JOB_STATUSES
               /\ v = "cancel_requested" => \E s \in StepIx : row[j][s] = "running"
  BY CancelUser
<1>2. /\ Sticks(j)
      /\ \A k \in Jobs \ {j} : row'[k] = row[k]
      /\ \A t \in StepIx : row'[j][t] = "running" => row[j][t] = "running"
  BY CancelUser
<1>3. status'[j] = v /\ \A k \in Jobs \ {j} : status'[k] = status[k]
  BY <1>0, <1>1
<1>4. \A q \in Runners : run'[q] = run[q] \/ (~InSection(q) /\ run'[q].pc \in {"acquire", "kick"})
  <2>1. ASSUME NEW r \in Runners, NEW l, At(r, "idle"), run' = [run EXCEPT ![r] = l],
               l.pc \in {"acquire", "kick"}
        PROVE  \A q \in Runners : run'[q] = run[q] \/ (~InSection(q) /\ run'[q].pc \in {"acquire", "kick"})
    BY <1>0, <2>1 DEF At, InSection, SectionPCs
  <2> QED BY <2>1, CancelUser
<1>5. \A q \in Runners, k \in Jobs : /\ Mine(q, k)' <=> Mine(q, k)
                                     /\ Mine(q, k) => run'[q] = run[q]
  BY <1>4 DEF Mine, InSection, Job, SectionPCs
<1>6. \A k \in Jobs : Sticks(k)
  BY <1>2, <1>3 DEF Sticks, ACTIVE_PIPELINE_JOB_STATUSES
<1>7. ASSUME NEW q \in Runners, InSection(q)'
      PROVE  Placed(run'[q], status'[Job(q)'], row'[Job(q)']) /\ Heard(run'[q], status'[Job(q)'])
  <2>1. run'[q] = run[q] /\ InSection(q) /\ Job(q)' = Job(q) /\ Job(q) \in Jobs
    BY <1>0, <1>4, <1>7, SectionJob DEF InSection, Job, SectionPCs
  <2>2. Placed(run[q], status[Job(q)], row[Job(q)]) /\ Heard(run[q], status[Job(q)])
    BY <2>1 DEF Crew
  <2>3. CASE Job(q) # j
    BY <1>2, <1>3, <2>1, <2>2, <2>3
  <2>4. CASE Job(q) = j
    <3>1. Placed(run[q], v, row'[j])
      BY <1>1, <1>2, <2>2, <2>4 DEF Placed
    <3>2. Heard(run[q], v)
      BY <1>1, <2>2, <2>4 DEF Placed, Heard, RequestedPCs
    <3> QED BY <1>3, <2>1, <2>4, <3>1, <3>2
  <2> QED BY <2>3, <2>4
<1>8. ASSUME NEW k \in Jobs PROVE Quiet(status'[k], row'[k]) \/ \E q \in Runners : Mine(q, k)'
  <2>1. CASE \E q \in Runners : Mine(q, k)
    BY <1>5, <2>1
  <2>2. CASE Quiet(status[k], row[k])
    BY <1>1, <1>2, <1>3, <2>2 DEF Quiet
  <2> QED BY <2>1, <2>2 DEF Crew
<1>9. \A q \in Runners : run'[q].pc \notin RequestPCs \cup {"recover"}
  BY <1>4 DEF Crew, RequestPCs
<1> QED BY <1>6, <1>7, <1>8, <1>9 DEF Crew

(* Where no thread shares a process, no lease runs out and nothing is       *)
(* recovered, no lock is lost.                                              *)
LEMMA CrewKeepsLocks ==
  ASSUME OwnProcess, LeaseOutlivesWork, CancelOps, TypeOK, Crew, evicted = {}, [Next]_vars,
         \A p \in Procs : ~Crash(p)
  PROVE  evicted' = {}
<1>1. ASSUME NEW r \in Runners, RunnerStep(r) PROVE evicted' = {}
  <2>1. CASE Release(r)
    BY <2>1 DEF Release, OwnProcess
  <2>2. CASE SectionStep(r) /\ ~Release(r)
    <3>1. UNCHANGED evicted
      BY <2>2 DEF SectionStep, db, Prepare, Check, Skip, Exhaust, Start,
        Download, Subtitle, ExtractAudio, Transcribe, DetectNiche, GenerateCandidates, EnrichWithLlm,
        SkipLlm, ProgressCanceled, Fail, Complete, Finish, SnapshotStorage, Abort, CancelMark
    <3> QED BY <3>1
  <2>3. CASE FinishRecovery(r)
    BY <2>3 DEF FinishRecovery, At, Crew
  <2>4. CASE RequestStep(r)
    BY <2>4, RequestLocals DEF Crew, RequestPCs
  <2> QED BY <1>1, <2>1, <2>2, <2>3, <2>4, RunnerSteps, PollingRows
<1>2. ASSUME NEW j \in Jobs, User(j) PROVE evicted' = {}
  BY <1>2, CancelUser
<1>3. ASSUME NEW j \in Jobs, LeaseExpires(j) PROVE evicted' = {}
  BY <1>3 DEF LeaseExpires
<1>4. CASE UNCHANGED vars
  BY <1>4 DEF vars
<1> QED BY <1>1, <1>2, <1>3, <1>4 DEF Next

(* A request to cancel is never overwritten by work or by the queue: with   *)
(* runs shorter than pipeline_lock_stale_seconds and no death, whatever     *)
(* workers and requests do at the same time, the runner that the request    *)
(* reaches answers it or finishes.                                          *)
THEOREM CancelIsHeard ==
  ASSUME OwnProcess, LeaseOutlivesWork, CancelOps, MaxCrashes = 0
  PROVE  Spec => CancelRequestSticks /\ [](evicted = {})
<1>1. Init => Crew /\ evicted = {}
  <2> SUFFICES ASSUME Init PROVE Crew /\ evicted = {}
    OBVIOUS
  <2>1. \A r \in Runners : run[r].pc = "idle"
    BY DEF Init, Idle
  <2>2. \A j \in Jobs : Quiet(status[j], row[j])
    BY DEF Init, Quiet, ACTIVE_PIPELINE_JOB_STATUSES
  <2> QED BY <2>1, <2>2 DEF Init, Crew, InSection, SectionPCs, RequestPCs
<1>2. TypeOK /\ LeaseHeld /\ Crew /\ evicted = {} /\ [Next]_vars
      => /\ Crew' /\ (evicted = {})'
         /\ [\A j \in Jobs : Sticks(j)]_vars
  <2> SUFFICES ASSUME TypeOK, LeaseHeld, Crew, evicted = {}, [Next]_vars
               PROVE  Crew' /\ evicted' = {} /\ \A j \in Jobs : Sticks(j)
    OBVIOUS
  <2>0. OneRunnerPerJob
    BY HeldApart
  <2>1. ASSUME NEW r \in Runners, RunnerStep(r) PROVE Crew' /\ \A j \in Jobs : Sticks(j)
    <3>1. ~RequestStep(r)
      BY RequestLocals DEF Crew, RequestPCs
    <3>2. ~FinishRecovery(r)
      BY DEF FinishRecovery, At, Crew
    <3> QED BY <2>0, <2>1, <3>1, <3>2, RunnerSteps, CrewSection, CrewPolling, PipelineAssumption
  <2>2. ASSUME NEW j \in Jobs, User(j) PROVE Crew' /\ \A k \in Jobs : Sticks(k)
    BY <2>0, <2>2, CrewUser
  <2>3. ASSUME UNCHANGED <<status, row, run>> PROVE Crew' /\ \A j \in Jobs : Sticks(j)
    BY <2>3 DEF Crew, Mine, InSection, Job, Sticks, ACTIVE_PIPELINE_JOB_STATUSES
  <2>4. ASSUME NEW j \in Jobs, LeaseExpires(j) PROVE Crew' /\ \A k \in Jobs : Sticks(k)
    BY <2>3, <2>4 DEF LeaseExpires
  <2>5. \A p \in Procs : ~Crash(p)
    BY DEF Crash, TypeOK
  <2>6. CASE UNCHANGED vars
    BY <2>3, <2>6 DEF vars, db
  <2>7. evicted' = {}
    BY <2>5, CrewKeepsLocks
  <2> QED BY <2>1, <2>2, <2>4, <2>5, <2>6, <2>7 DEF Next
<1>3. [\A j \in Jobs : Sticks(j)]_vars => [\A j \in Jobs : status[j] = "cancel_requested" =>
       status'[j] \notin ACTIVE_PIPELINE_JOB_STATUSES \cup {"pending"}]_vars
  BY DEF Sticks
<1> QED BY <1>1, <1>2, <1>3, TypeCorrect, LeaseSafety, PTL DEF Spec, CancelRequestSticks
=============================================================================
