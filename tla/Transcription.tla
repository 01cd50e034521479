--------------------------- MODULE Transcription ---------------------------
(***************************************************************************)
(* Who writes the transcript of a job, and who waits for it: calls of      *)
(* transcribe_audio (services/transcription.py), of one process, and of    *)
(* parse_subtitle_to_transcript (subtitle_parser.py), that write the same  *)
(* file.                                                                   *)
(* Nothing keeps two calls of one job apart: the lock of the pipeline is   *)
(* given again to the process that has it (pipeline.py 177-181), and       *)
(* /jobs/local transcribes without it (core.py 63-96).                     *)
(*                                                                         *)
(* A call with a progress callback runs Whisper in a daemon thread, and    *)
(* passes on its messages, or repeats the last one.  When the callback     *)
(* raises, since the job is to be canceled, the call ends, and its thread  *)
(* goes on.  A message is known by its place: 1 says which provider was    *)
(* chosen, 2 that the model is loaded, 3 that it runs, 4 that the result   *)
(* is saved, and 5 that all is done.                                       *)
(***************************************************************************)
EXTENDS Integers, Sequences, FiniteSets

CONSTANTS
  Calls,       \* attempts, of jobs that are retried or run twice
  Watched,     \* bound: the calls that may have a callback
  Jobs, JobOf, \* the job of each call
  Remote,      \* storage_backend is s3 or r2
  MaxRestarts  \* bound: how often the process is started again

Free == "free"      \* neither cached nor locked
Cached == "cached"

ASSUME TranscriptionAssumption ==
  /\ Free \notin Calls /\ Cached \notin Calls
  /\ JobOf \in [Calls -> Jobs] /\ Watched \subseteq Calls
  /\ Remote \in BOOLEAN /\ MaxRestarts \in Nat

VARIABLES
  kind,      \* of each call: watched (with a callback), inline (without),
             \* or subtitles
  caller,    \* each call, with its messages
  thread,    \* where its thread is; without one, where the call itself is
  reported,  \* history: messages that the callback was given, forgotten when
             \* the call fails
  device,    \* _DEVICE_CAPABILITY_CACHE, or who holds its lock
  model,     \* _MODEL_CACHE, or who holds its lock
  loads,     \* history: models this process has loaded
  file,      \* the transcript of each job on the disk
  writers,   \* history: who wrote it last, one call or several at once
  restarts

caches == <<device, model, loads>>
files == <<file, writers>>
vars == <<kind, caller, thread, reported, caches, files, restarts>>

(* shared_state, last_message, and whether the callback will raise.        *)
Waiting(label) == [pc |-> label, message |-> 0, pending |-> <<>>, last |-> 0, canceled |-> FALSE]

Init ==
  /\ kind = [c \in Calls |-> "none"]
  /\ caller = [c \in Calls |-> Waiting("new")] /\ thread = [c \in Calls |-> "none"]
  /\ reported = [c \in Calls |-> {}]
  /\ device = Free /\ model = Free /\ loads = 0
  /\ file = [j \in Jobs |-> "none"] /\ writers = [j \in Jobs |-> {}]
  /\ restarts = 0

InCall(c) == caller[c].pc \notin {"new", "returned", "failed"}
Watching(c) == InCall(c) /\ kind[c] = "watched"
Alive(c) == thread[c] \notin {"none", "done", "error"}

-----------------------------------------------------------------------------
(* The caller.                                                             *)
Turn(c, label) == caller' = [caller EXCEPT ![c].pc = label]
End(c, outcome) ==
  /\ caller' = [caller EXCEPT ![c] = Waiting(outcome)]
  /\ reported' = [reported EXCEPT ![c] = IF outcome = "failed" THEN {} ELSE @]
AsideFromCaller == UNCHANGED <<kind, thread, caches, files, restarts>>

Begin(c) ==
  /\ caller[c].pc = "new"
  /\ \E k \in {"watched", "inline", "subtitles"} :
       /\ k = "watched" => c \in Watched
       /\ kind' = [kind EXCEPT ![c] = k]
  /\ Turn(c, IF kind'[c] = "watched" THEN "test" ELSE "inline")
  /\ thread' = [thread EXCEPT ![c] = IF kind'[c] = "subtitles" THEN "open" ELSE "detect"]
  /\ UNCHANGED <<reported, caches, files, restarts>>

(* The callback raises at once, the audio is not there, or the subtitles   *)
(* cannot be read or say nothing.                                          *)
Reject(c) ==
  /\ caller[c].pc = "new" /\ End(c, "failed")
  /\ AsideFromCaller

Cancel(c) ==
  /\ Watching(c) /\ ~caller[c].canceled
  /\ caller' = [caller EXCEPT ![c].canceled = TRUE]
  /\ UNCHANGED reported /\ AsideFromCaller

(* while worker.is_alive()                                                 *)
TestAliveLast(c) ==
  /\ caller[c].pc = "test"
  /\ Turn(c, IF Alive(c) THEN "drain" ELSE "final")
  /\ UNCHANGED reported /\ AsideFromCaller
TestAlive(c) ==
  /\ caller[c].pc = "test"
  /\ Turn(c, IF Alive(c) THEN "drain" ELSE "last")
  /\ UNCHANGED reported /\ AsideFromCaller

(* progress_callback *)
Report(c, m, next) ==
  IF caller[c].canceled \/ next.pc = "failed" THEN End(c, "failed")
  ELSE caller' = [caller EXCEPT ![c] = next] /\ reported' = [reported EXCEPT ![c] = @ \cup {m}]

Pop(c) ==
  /\ caller[c].pc \in {"drain", "last"} /\ caller[c].pending # <<>>
  /\ LET m == Head(caller[c].pending) IN
       Report(c, m, [caller[c] EXCEPT !.pending = Tail(@), !.last = m])
  /\ AsideFromCaller

Drained(c) ==
  /\ caller[c].pc \in {"drain", "last"} /\ caller[c].pending = <<>>
  /\ Turn(c, IF caller[c].pc = "drain" THEN "beat" ELSE "final")
  /\ UNCHANGED reported /\ AsideFromCaller

(* The last message is repeated when the interval is over; then the join   *)
(* waits for a second at most.                                             *)
NoBeat(c) ==
  /\ caller[c].pc = "beat" /\ Turn(c, "test")
  /\ UNCHANGED reported /\ AsideFromCaller
Beat(c) ==
  /\ caller[c].pc = "beat" /\ caller[c].message # 0
  /\ Report(c, caller[c].message, [caller[c] EXCEPT !.pc = "test"])
  /\ AsideFromCaller

(* The final message, and the result of the thread or its error.           *)
Outcome(c) == IF thread[c] = "done" THEN "returned" ELSE "failed"
ReturnAnyway(c) ==
  /\ caller[c].pc = "final" /\ End(c, "returned")
  /\ AsideFromCaller
Return(c) ==
  /\ caller[c].pc = "final"
  /\ IF caller[c].message \notin {0, caller[c].last}
       THEN Report(c, caller[c].message, Waiting(Outcome(c)))
       ELSE End(c, Outcome(c))
  /\ AsideFromCaller

ReturnInline(c) ==
  /\ caller[c].pc = "inline" /\ ~Alive(c)
  /\ End(c, Outcome(c))
  /\ AsideFromCaller

Call(c) == TestAlive(c) \/ Pop(c) \/ Drained(c) \/ NoBeat(c) \/ Beat(c) \/ Return(c) \/ ReturnInline(c)

-----------------------------------------------------------------------------
(* The thread.                                                             *)
Go(c, label) == thread' = [thread EXCEPT ![c] = label]

(* _thread_progress: without a callback nothing is said, and what the      *)
(* thread of a call that failed says is not read.                          *)
Say(c, m) ==
  caller' = IF Watching(c)
              THEN [caller EXCEPT ![c].message = m, ![c].pending = Append(@, m)] ELSE caller
Silent == UNCHANGED caller
AsideFromThread == UNCHANGED <<kind, reported, restarts>>

(* _detect_cuda_fp16_support: the lock is held while torch is imported.    *)
Detect(c) ==
  /\ thread[c] = "detect"
  /\ \/ device = Cached /\ Go(c, "model") /\ Say(c, 1) /\ UNCHANGED device
     \/ device = Free /\ Go(c, "probe") /\ device' = c /\ Silent
  /\ UNCHANGED <<model, loads, files>> /\ AsideFromThread

Probe(c) ==
  /\ thread[c] = "probe" /\ Go(c, "model") /\ Say(c, 1) /\ device' = Cached
  /\ UNCHANGED <<model, loads, files>> /\ AsideFromThread

(* _get_whisper_model: who waited for the lock looks at the cache again,   *)
(* but a model that is cached is not locked.                               *)
LoadUncached(c) ==
  /\ thread[c] = "model" /\ model # Cached
  /\ Go(c, "load") /\ Say(c, 2) /\ model' = c
  /\ UNCHANGED <<device, loads, files>> /\ AsideFromThread
FindModel(c) ==
  /\ thread[c] = "model"
  /\ \/ model = Cached /\ Go(c, "run") /\ Say(c, 2) /\ UNCHANGED model
     \/ model = Free /\ Go(c, "load") /\ Say(c, 2) /\ model' = c
  /\ UNCHANGED <<device, loads, files>> /\ AsideFromThread

LoadModel(c) ==
  /\ thread[c] = "load"
  /\ \/ Go(c, "run") /\ model' = Cached /\ loads' = loads + 1
     \/ Go(c, "error") /\ model' = Free /\ UNCHANGED loads
  /\ Silent
  /\ UNCHANGED <<device, files>> /\ AsideFromThread

StartModel(c) ==
  /\ thread[c] = "run" /\ Go(c, "transcribe") /\ Say(c, 3)
  /\ UNCHANGED <<caches, files>> /\ AsideFromThread

Transcribe(c) ==
  /\ thread[c] = "transcribe"
  /\ \/ Go(c, "open") /\ Say(c, 4)
     \/ Go(c, "error") /\ Silent
  /\ UNCHANGED <<caches, files>> /\ AsideFromThread

(* open(output_path, "w") empties the file that may be there, ...          *)
Writing(j) == {d \in Calls : JobOf[d] = j /\ thread[d] = "dump"}
Open(c) ==
  /\ thread[c] = "open" /\ Go(c, "dump") /\ Silent
  /\ file' = [file EXCEPT ![JobOf[c]] = "torn"]
  /\ writers' = [writers EXCEPT ![JobOf[c]] = IF Writing(JobOf[c]) = {} THEN {c} ELSE @ \cup {c}]
  /\ UNCHANGED caches /\ AsideFromThread

(* ... and dump fills it, or fails.  Those that write at once may spoil it. *)
Dump(c) ==
  /\ thread[c] = "dump" /\ Silent
  /\ \/ /\ Go(c, "sync")
        /\ \E content \in {"whole"} \cup (IF writers[JobOf[c]] = {c} THEN {} ELSE {"torn"}) :
             file' = [file EXCEPT ![JobOf[c]] = content]
     \/ Go(c, "error") /\ UNCHANGED file
  /\ UNCHANGED <<caches, writers>> /\ AsideFromThread

Sync(c) ==
  /\ thread[c] = "sync"
  /\ \/ Go(c, "done") /\ Say(c, 5)
     \/ Remote /\ Go(c, "error") /\ Silent
  /\ UNCHANGED <<caches, files>> /\ AsideFromThread

Work(c) ==
  \/ Detect(c) \/ Probe(c) \/ FindModel(c) \/ LoadModel(c) \/ StartModel(c)
  \/ Transcribe(c) \/ Open(c) \/ Dump(c) \/ Sync(c)

-----------------------------------------------------------------------------
(* The process ends, with its threads, and starts again.                   *)
Restart ==
  /\ restarts < MaxRestarts /\ restarts' = restarts + 1
  /\ caller' = [c \in Calls |-> IF InCall(c) THEN Waiting("failed") ELSE caller[c]]
  /\ thread' = [c \in Calls |-> IF Alive(c) THEN "none" ELSE thread[c]]
  /\ device' = Free /\ model' = Free /\ loads' = 0
  /\ reported' = [c \in Calls |-> IF InCall(c) THEN {} ELSE reported[c]]
  /\ UNCHANGED <<kind, files>>

Next ==
  \/ \E c \in Calls : Begin(c) \/ Reject(c) \/ Cancel(c) \/ Call(c) \/ Work(c)
  \/ Restart

Spec == Init /\ [][Next]_vars

(* The caller goes on, and there comes a turn of its loop after the        *)
(* interval; the device is looked at in finite time.  A model may be       *)
(* loaded, and run, for ever.                                              *)
FairSpec ==
  /\ Spec
  /\ \A c \in Calls : /\ WF_vars(Call(c)) /\ SF_vars(Beat(c))
                      /\ WF_vars(Detect(c)) /\ WF_vars(Probe(c))

-----------------------------------------------------------------------------
(* The transcript that a call returned is whole, and remains so whichever  *)
(* threads of other calls write it again, those that failed or were        *)
(* canceled too: unless the last to write it were several at once, or one  *)
(* that is still at it, or did not get through.  So nobody returns before  *)
(* its own thread has written the file, or although it could not, and a    *)
(* thread that goes on leaves a whole file (transcription.py 169-286).     *)
Together(j) == \E c, d \in writers[j] : c # d
TranscriptWhole ==
  \A c \in Calls : caller[c].pc = "returned" =>
    \/ file[JobOf[c]] = "whole"
    \/ Together(JobOf[c])
    \/ \E d \in writers[JobOf[c]] \ {c} : thread[d] \in {"dump", "error", "none"}

(* However many threads ask at once, a process loads the model once        *)
(* (transcription.py 26-47, 63-93).                                        *)
ModelLoadedOnce == loads <= 1

(* A call that returns has reported all that its thread said, although the *)
(* thread may say it between any two looks at it (transcription.py         *)
(* 252-280).                                                               *)
AllReported ==
  \A c \in Calls : caller[c].pc = "returned" /\ kind[c] = "watched" => reported[c] = 1..5

(* A job can be canceled while Whisper loads its model, runs, or hangs: as *)
(* long as the thread lives, the callback is called again and again, even  *)
(* if the thread waits for a lock that a thread of a canceled call holds.  *)
CancelReaches == \A c \in Calls : caller[c].canceled ~> ~InCall(c)
=============================================================================
