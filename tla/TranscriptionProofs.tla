------------------------ MODULE TranscriptionProofs ------------------------
(***************************************************************************)
(* For any number of calls, of one job or of many, and at once or one      *)
(* after the other: a process loads its model once, a transcript that a    *)
(* call returned is whole unless those who wrote it last did so together   *)
(* or have not got through, and a call that returns has passed on all that *)
(* its thread said.                                                        *)
(***************************************************************************)
EXTENDS Transcription, SequenceTheorems, TLAPS

Pcs == {"new", "test", "inline", "drain", "beat", "last", "final", "returned", "failed"}
Labels == {"none", "detect", "probe", "model", "load", "run", "transcribe", "open", "dump",
           "sync", "done", "error"}
Callers == [pc : Pcs, message : Nat, pending : Seq(Nat), last : Nat, canceled : BOOLEAN]

CallsTyped == caller \in [Calls -> Callers] /\ thread \in [Calls -> Labels]

(* A model that is loaded is loaded by the one that holds the lock.        *)
ModelInv ==
  /\ loads = IF model = Cached THEN 1 ELSE 0
  /\ \A c \in Calls : thread[c] = "load" => model = c

-----------------------------------------------------------------------------
(* What the steps of a call do to the places where calls and threads are.  *)
(* A call moves to one place; it returns only when its thread is done.     *)
Moves(c) ==
  /\ UNCHANGED <<kind, thread, caches, files, restarts>>
  /\ InCall(c)
  /\ \E r \in Callers :
       /\ caller' = [caller EXCEPT ![c] = r]
       /\ r.pc # "new" /\ (r.pc = "returned" => thread[c] = "done")

(* A thread moves to one place, and may speak.                             *)
Proceeds(c, label) ==
  /\ Alive(c) /\ thread' = [thread EXCEPT ![c] = label]
  /\ caller' \in [Calls -> Callers] /\ \A d \in Calls : caller'[d].pc = caller[d].pc
  /\ UNCHANGED <<kind, reported, restarts>>

LEMMA CallMoves ==
  ASSUME CallsTyped, NEW c \in Calls, Call(c) \/ Cancel(c)
  PROVE  Moves(c)
<1> USE DEF AsideFromCaller
<1>0. caller \in [Calls -> Callers] /\ caller[c] \in Callers
  BY DEF CallsTyped
<1>1. \A label \in Pcs : [caller[c] EXCEPT !.pc = label] \in Callers /\ [caller[c] EXCEPT !.pc = label].pc = label
  BY <1>0 DEF Callers
<1>2. \A label \in Pcs : Waiting(label) \in Callers /\ Waiting(label).pc = label
  BY EmptySeq DEF Callers, Waiting
<1>3. CASE Cancel(c)
  <2> DEFINE r == [caller[c] EXCEPT !.canceled = TRUE]
  <2>1. r \in Callers /\ r.pc = caller[c].pc
    BY <1>0 DEF Callers
  <2>2. caller' = [caller EXCEPT ![c] = r] /\ InCall(c)
    BY <1>3 DEF Cancel, Watching
  <2> HIDE DEF r
  <2> QED BY <1>3, <2>1, <2>2 DEF Cancel, Moves, InCall
<1>4. CASE TestAlive(c) \/ Drained(c) \/ NoBeat(c)
  <2>1. InCall(c)
    BY <1>4 DEF TestAlive, Drained, NoBeat, InCall
  <2>2. PICK label \in {"drain", "last", "beat", "final", "test"} : Turn(c, label)
    BY <1>4 DEF TestAlive, Drained, NoBeat
  <2> DEFINE r == [caller[c] EXCEPT !.pc = label]
  <2>3. caller' = [caller EXCEPT ![c] = r]
    BY <2>2 DEF Turn
  <2>4. r \in Callers /\ r.pc = label
    BY <1>1 DEF Pcs
  <2> HIDE DEF r
  <2> QED BY <1>4, <2>1, <2>3, <2>4 DEF TestAlive, Drained, NoBeat, Moves
<1>5. ASSUME NEW m, NEW next \in Callers, Report(c, m, next), InCall(c),
             next.pc # "new", next.pc = "returned" => thread[c] = "done",
             UNCHANGED <<kind, thread, caches, files, restarts>>
      PROVE  Moves(c)
  <2>1. PICK r \in {Waiting("failed"), next} : caller' = [caller EXCEPT ![c] = r]
    BY <1>5 DEF Report, End
  <2>2. r \in Callers /\ r.pc # "new" /\ (r.pc = "returned" => thread[c] = "done")
    BY <1>2, <1>5, <2>1 DEF Pcs
  <2> QED BY <1>5, <2>1, <2>2 DEF Moves
<1>6. CASE Pop(c)
  <2> DEFINE next == [caller[c] EXCEPT !.pending = Tail(@), !.last = Head(caller[c].pending)]
  <2>1. caller[c].pending \in Seq(Nat) /\ caller[c].pending # <<>>
    BY <1>0, <1>6 DEF Pop, Callers
  <2>2. Head(caller[c].pending) \in Nat /\ Tail(caller[c].pending) \in Seq(Nat)
    BY <2>1, HeadTailProperties
  <2>3. next \in Callers /\ next.pc = caller[c].pc
    BY <1>0, <2>2 DEF Callers
  <2>4. Report(c, Head(caller[c].pending), next) /\ UNCHANGED <<kind, thread, caches, files, restarts>>
    BY <1>6 DEF Pop
  <2>5. InCall(c) /\ caller[c].pc \notin {"new", "returned"}
    BY <1>6 DEF Pop, InCall
  <2> HIDE DEF next
  <2> QED BY <1>5, <2>3, <2>4, <2>5
<1>7. CASE Beat(c)
  <2> DEFINE next == [caller[c] EXCEPT !.pc = "test"]
  <2>1. next \in Callers /\ next.pc = "test"
    BY <1>1 DEF Pcs
  <2>2. Report(c, caller[c].message, next) /\ UNCHANGED <<kind, thread, caches, files, restarts>>
        /\ InCall(c)
    BY <1>7 DEF Beat, InCall
  <2> HIDE DEF next
  <2> QED BY <1>5, <2>1, <2>2
<1>8. CASE Return(c) \/ ReturnInline(c)
  <2>1. InCall(c) /\ UNCHANGED <<kind, thread, caches, files, restarts>>
    BY <1>8 DEF Return, ReturnInline, InCall
  <2>2. /\ Waiting(Outcome(c)) \in Callers /\ Waiting(Outcome(c)).pc \in {"returned", "failed"}
        /\ Waiting(Outcome(c)).pc = "returned" => thread[c] = "done"
    BY <1>2 DEF Outcome, Pcs
  <2>3. End(c, Outcome(c)) \/ Report(c, caller[c].message, Waiting(Outcome(c)))
    BY <1>8 DEF Return, ReturnInline
  <2>4. CASE End(c, Outcome(c))
    BY <2>1, <2>2, <2>4 DEF End, Moves
  <2>5. CASE Report(c, caller[c].message, Waiting(Outcome(c)))
    BY <1>5, <2>1, <2>2, <2>5
  <2> QED BY <2>3, <2>4, <2>5
<1> QED BY <1>3, <1>4, <1>6, <1>7, <1>8 DEF Call

LEMMA Speaking ==
  ASSUME CallsTyped, NEW c \in Calls, NEW m \in Nat, Say(c, m) \/ Silent
  PROVE  caller' \in [Calls -> Callers] /\ \A d \in Calls : caller'[d].pc = caller[d].pc
<1>0. caller \in [Calls -> Callers] /\ caller[c] \in Callers
  BY DEF CallsTyped
<1> DEFINE r == [caller[c] EXCEPT !.message = m, !.pending = Append(@, m)]
<1>1. Append(caller[c].pending, m) \in Seq(Nat)
  BY <1>0, AppendProperties DEF Callers
<1>2. r \in Callers /\ r.pc = caller[c].pc
  BY <1>0, <1>1 DEF Callers
<1>3. caller' \in {caller, [caller EXCEPT ![c] = r]}
  BY DEF Say, Silent
<1> HIDE DEF r
<1> QED BY <1>0, <1>2, <1>3

(* What a thread does to the transcript and to the caches.                 *)
Loads(c, label) ==
  \/ label = "load" /\ model = Free /\ model' = c /\ UNCHANGED loads
  \/ thread[c] = "load" /\ label = "run" /\ model' = Cached /\ loads' = loads + 1
  \/ thread[c] = "load" /\ label = "error" /\ model' = Free /\ UNCHANGED loads
  \/ thread[c] # "load" /\ label # "load" /\ UNCHANGED <<model, loads>>

Spares(c, label) ==
  /\ UNCHANGED files /\ label \notin {"none", "dump", "sync"}
  /\ label = "done" => thread[c] = "sync"
  /\ thread[c] # "dump" /\ (thread[c] = "sync" => label \in {"done", "error"})
Opens(c, label) ==
  /\ thread[c] = "open" /\ label = "dump"
  /\ file' = [file EXCEPT ![JobOf[c]] = "torn"]
  /\ writers' = [writers EXCEPT ![JobOf[c]] = IF Writing(JobOf[c]) = {} THEN {c} ELSE @ \cup {c}]
Dumps(c, label) ==
  /\ thread[c] = "dump" /\ UNCHANGED writers
  /\ \/ label = "sync" /\ writers[JobOf[c]] # {c} /\ file' = [file EXCEPT ![JobOf[c]] = "torn"]
     \/ label = "sync" /\ file' = [file EXCEPT ![JobOf[c]] = "whole"]
     \/ label = "error" /\ UNCHANGED file

LEMMA WorkProceeds ==
  ASSUME CallsTyped, NEW c \in Calls, Work(c)
  PROVE  \E label \in Labels : /\ Proceeds(c, label) /\ Loads(c, label)
                               /\ Spares(c, label) \/ Opens(c, label) \/ Dumps(c, label)
<1> USE DEF AsideFromThread, Go, Proceeds, Loads, Spares, Alive, Labels
<1>0. ASSUME \E m \in Nat : Say(c, m) \/ Silent
      PROVE  caller' \in [Calls -> Callers] /\ \A d \in Calls : caller'[d].pc = caller[d].pc
  BY <1>0, Speaking
<1>1. CASE Detect(c)
  <2>1. Say(c, 1) \/ Silent
    BY <1>1 DEF Detect
  <2> QED BY <1>0, <1>1, <2>1 DEF Detect, files
<1>2. CASE Probe(c)
  BY <1>0, <1>2 DEF Probe, files
<1>3. CASE FindModel(c)
  <2>1. Say(c, 2)
    BY <1>3 DEF FindModel
  <2> QED BY <1>0, <1>3, <2>1 DEF FindModel, files
<1>4. CASE LoadModel(c)
  <2>1. Silent
    BY <1>4 DEF LoadModel
  <2> QED BY <1>0, <1>4, <2>1 DEF LoadModel, files
<1>5. CASE StartModel(c)
  BY <1>0, <1>5 DEF StartModel, files, caches
<1>6. CASE Transcribe(c)
  <2>1. Say(c, 4) \/ Silent
    BY <1>6 DEF Transcribe
  <2> QED BY <1>0, <1>6, <2>1 DEF Transcribe, files, caches
<1>7. CASE Open(c)
  <2>1. Silent
    BY <1>7 DEF Open
  <2> QED BY <1>0, <1>7, <2>1 DEF Open, Opens, caches
<1>8. CASE Dump(c)
  <2>1. Silent
    BY <1>8 DEF Dump
  <2>2. CASE thread' = [thread EXCEPT ![c] = "error"] /\ UNCHANGED file
    BY <1>0, <1>8, <2>1, <2>2 DEF Dump, Dumps, caches
  <2>3. ASSUME NEW content \in {"whole"} \cup (IF writers[JobOf[c]] = {c} THEN {} ELSE {"torn"}),
               thread' = [thread EXCEPT ![c] = "sync"],
               file' = [file EXCEPT ![JobOf[c]] = content]
        PROVE  \E label \in Labels : Proceeds(c, label) /\ Loads(c, label) /\ Dumps(c, label)
    BY <1>0, <1>8, <2>1, <2>3 DEF Dump, Dumps, caches
  <2> QED BY <1>8, <2>2, <2>3 DEF Dump
<1>9. CASE Sync(c)
  <2>1. Say(c, 5) \/ Silent
    BY <1>9 DEF Sync
  <2> QED BY <1>0, <1>9, <2>1 DEF Sync, files, caches
<1> QED BY <1>1, <1>2, <1>3, <1>4, <1>5, <1>6, <1>7, <1>8, <1>9 DEF Work

(* Begin moves a call to the place where it waits, and Restart ends those  *)
(* that are at work.                                                       *)
LEMMA BeginMoves ==
  ASSUME CallsTyped, NEW c \in Calls, Begin(c)
  PROVE  /\ caller[c].pc = "new"
         /\ \E r \in Callers : /\ r.pc \in {"test", "inline"} /\ caller' = [caller EXCEPT ![c] = r]
         /\ thread' \in {[thread EXCEPT ![c] = "open"], [thread EXCEPT ![c] = "detect"]}
         /\ UNCHANGED <<caches, files>>
<1>1. PICK label \in {"test", "inline"} : caller' = [caller EXCEPT ![c].pc = label]
  BY DEF Begin, Turn
<1> DEFINE r == [caller[c] EXCEPT !.pc = label]
<1>2. r \in Callers /\ r.pc = label
  BY DEF CallsTyped, Callers, Pcs
<1>3. caller' = [caller EXCEPT ![c] = r]
  BY <1>1
<1> HIDE DEF r
<1> QED BY <1>2, <1>3 DEF Begin

LEMMA RejectMoves ==
  ASSUME CallsTyped, NEW c \in Calls, Reject(c)
  PROVE  /\ caller[c].pc = "new" /\ UNCHANGED <<kind, thread, caches, files, restarts>>
         /\ \E r \in Callers : r.pc = "failed" /\ caller' = [caller EXCEPT ![c] = r]
<1>1. Waiting("failed") \in Callers /\ Waiting("failed").pc = "failed"
  BY EmptySeq DEF Waiting, Callers, Pcs
<1> QED BY <1>1 DEF Reject, End, AsideFromCaller

LEMMA RestartMoves ==
  ASSUME CallsTyped, Restart
  PROVE  /\ caller' \in [Calls -> Callers] /\ thread' \in [Calls -> Labels]
         /\ \A c \in Calls : /\ caller'[c].pc = IF InCall(c) THEN "failed" ELSE caller[c].pc
                             /\ thread'[c] = IF Alive(c) THEN "none" ELSE thread[c]
<1>1. Waiting("failed") \in Callers /\ Waiting("failed").pc = "failed"
  BY EmptySeq DEF Waiting, Callers, Pcs
<1> QED BY <1>1 DEF CallsTyped, Restart, Labels

LEMMA TypedInductive == CallsTyped /\ [Next]_vars => CallsTyped'
<1> SUFFICES ASSUME CallsTyped, [Next]_vars PROVE CallsTyped'
  OBVIOUS
<1>1. CASE UNCHANGED vars
  BY <1>1 DEF CallsTyped, vars
<1>2. ASSUME NEW c \in Calls, Begin(c) PROVE CallsTyped'
  BY <1>2, BeginMoves DEF CallsTyped, Labels
<1>3. ASSUME NEW c \in Calls, Call(c) \/ Cancel(c) PROVE CallsTyped'
  BY <1>3, CallMoves DEF CallsTyped, Moves
<1>4. ASSUME NEW c \in Calls, Work(c) PROVE CallsTyped'
  BY <1>4, WorkProceeds DEF CallsTyped, Proceeds
<1>5. CASE Restart
  BY <1>5, RestartMoves DEF CallsTyped
<1>6. ASSUME NEW c \in Calls, Reject(c) PROVE CallsTyped'
  BY <1>6, RejectMoves DEF CallsTyped
<1> QED BY <1>1, <1>2, <1>3, <1>4, <1>5, <1>6 DEF Next

LEMMA TypedInit == Init => CallsTyped
<1>1. Waiting("new") \in Callers
  BY EmptySeq DEF Waiting, Callers, Pcs
<1> QED BY <1>1 DEF Init, CallsTyped, Labels

-----------------------------------------------------------------------------
LEMMA ModelInductive ==
  TranscriptionAssumption /\ CallsTyped /\ ModelInv /\ [Next]_vars => ModelInv'
<1> SUFFICES ASSUME TranscriptionAssumption, CallsTyped, ModelInv, [Next]_vars PROVE ModelInv'
  OBVIOUS
<1> USE DEF ModelInv, CallsTyped, caches
<1>0. Free # Cached /\ Free \notin Calls /\ Cached \notin Calls
  BY DEF TranscriptionAssumption, Free, Cached
<1>1. CASE UNCHANGED vars
  BY <1>1 DEF vars
<1>2. ASSUME NEW c \in Calls, Begin(c) PROVE ModelInv'
  BY <1>2, BeginMoves
<1>3. ASSUME NEW c \in Calls, Call(c) \/ Cancel(c) PROVE ModelInv'
  BY <1>3, CallMoves DEF Moves
<1>4. ASSUME NEW c \in Calls, Work(c) PROVE ModelInv'
  <2>1. PICK label \in Labels : Proceeds(c, label) /\ Loads(c, label)
    BY <1>4, WorkProceeds
  <2> QED BY <1>0, <2>1 DEF Proceeds, Loads
<1>5. CASE Restart
  BY <1>0, <1>5, RestartMoves DEF Restart, Alive
<1>6. ASSUME NEW c \in Calls, Reject(c) PROVE ModelInv'
  BY <1>6, RejectMoves
<1> QED BY <1>1, <1>2, <1>3, <1>4, <1>5, <1>6 DEF Next

(* However many threads ask for the model at once, a process loads it once *)
(* (transcription.py 26-47, 63-93).                                        *)
THEOREM OneModel == Spec => []ModelLoadedOnce
<1>1. Init => ModelInv
  BY DEF Init, ModelInv, Free, Cached
<1>2. ModelInv => ModelLoadedOnce
  BY DEF ModelInv, ModelLoadedOnce
<1> QED BY TranscriptionAssumption, TypedInit, TypedInductive, ModelInductive, <1>1, <1>2, PTL DEF Spec

-----------------------------------------------------------------------------
(* The strengthening of TranscriptWhole.  Whoever is writing is among the  *)
(* writers of its job, and one that wrote alone, and is past its writing,  *)
(* left the file whole.                                                    *)
Place(c) == caller[c].pc

Started == \A c \in Calls : (Place(c) = "new" => thread[c] = "none") /\ (Place(c) = "returned" => thread[c] = "done")
WritersOpened == \A j \in Jobs : \A d \in writers[j] :
  JobOf[d] = j /\ Place(d) # "new" /\ thread[d] \in {"dump", "sync", "done", "error", "none"}
WritersKnown == \A c \in Calls :
  /\ thread[c] = "dump" => c \in writers[JobOf[c]]
  /\ thread[c] \in {"sync", "done"} => writers[JobOf[c]] # {}
WrittenWhole == \A c \in Calls :
  thread[c] \in {"sync", "done"} /\ writers[JobOf[c]] = {c} => file[JobOf[c]] = "whole"

FilesTyped == writers \in [Jobs -> SUBSET Calls] /\ file \in [Jobs -> {"none", "torn", "whole"}]
FileInv == FilesTyped /\ Started /\ WritersOpened /\ WritersKnown /\ WrittenWhole

(* A call that begins, ends or goes on leaves the threads that write where *)
(* they are.                                                               *)
LEMMA AsideKeepsFile ==
  ASSUME FileInv, UNCHANGED files, Started',
         \A c \in Calls : /\ Place(c) # "new" => Place(c)' # "new" /\ thread'[c] \in {thread[c], "none"}
                          /\ thread'[c] \in {"dump", "sync", "done"} => thread'[c] = thread[c]
  PROVE  FileInv'
<1> USE DEF FileInv, FilesTyped, files
<1>1. FilesTyped' /\ WritersKnown' /\ WrittenWhole'
  BY DEF WritersKnown, WrittenWhole
<1>2. WritersOpened'
  <2> SUFFICES ASSUME NEW j \in Jobs, NEW d \in writers[j]
               PROVE  /\ JobOf[d] = j /\ Place(d)' # "new"
                      /\ thread'[d] \in {"dump", "sync", "done", "error", "none"}
    BY DEF WritersOpened
  <2>1. d \in Calls /\ Place(d) # "new"
    BY DEF WritersOpened
  <2> QED BY <2>1 DEF WritersOpened
<1> QED BY <1>1, <1>2

LEMMA CallKeepsFile ==
  ASSUME CallsTyped, FileInv, NEW c \in Calls, Moves(c) PROVE FileInv'
<1>1. PICK r \in Callers : /\ caller' = [caller EXCEPT ![c] = r]
                           /\ r.pc # "new" /\ (r.pc = "returned" => thread[c] = "done")
  BY DEF Moves
<1>2. /\ UNCHANGED <<thread, files>>
      /\ \A d \in Calls : Place(d)' = IF d = c THEN r.pc ELSE Place(d)
  BY <1>1 DEF Moves, Place, CallsTyped
<1>3. Started'
  BY <1>1, <1>2 DEF FileInv, Started
<1> QED BY <1>1, <1>2, <1>3, AsideKeepsFile

LEMMA BeginKeepsFile ==
  ASSUME CallsTyped, FileInv, NEW c \in Calls, Begin(c) \/ Reject(c) PROVE FileInv'
<1>1. PICK r \in Callers : r.pc \in {"test", "inline", "failed"} /\ caller' = [caller EXCEPT ![c] = r]
  BY BeginMoves, RejectMoves
<1>2. /\ Place(c) = "new" /\ UNCHANGED files
      /\ \A d \in Calls : Place(d)' = IF d = c THEN r.pc ELSE Place(d)
  BY <1>1, BeginMoves, RejectMoves DEF Place, CallsTyped
<1>3. /\ \A d \in Calls : d # c => thread'[d] = thread[d]
      /\ thread'[c] \in {thread[c], "open", "detect"}
  BY BeginMoves, RejectMoves DEF CallsTyped
<1>4. Started'
  BY <1>1, <1>2, <1>3 DEF FileInv, Started
<1> QED BY <1>1, <1>2, <1>3, <1>4, AsideKeepsFile

LEMMA RestartKeepsFile ==
  ASSUME CallsTyped, FileInv, Restart PROVE FileInv'
<1>1. /\ UNCHANGED files
      /\ \A c \in Calls : /\ Place(c)' = IF InCall(c) THEN "failed" ELSE Place(c)
                          /\ thread'[c] = IF Alive(c) THEN "none" ELSE thread[c]
  BY RestartMoves DEF Restart, Place
<1>2. Started'
  BY <1>1 DEF FileInv, Started, Place, InCall, Alive
<1> QED BY <1>1, <1>2, AsideKeepsFile DEF Place, InCall, Alive

LEMMA WorkKeepsFile ==
  ASSUME TranscriptionAssumption, CallsTyped, FileInv, NEW c \in Calls, Work(c) PROVE FileInv'
<1>1. PICK label \in Labels : Proceeds(c, label) /\ (Spares(c, label) \/ Opens(c, label) \/ Dumps(c, label))
  BY WorkProceeds
<1>2. /\ thread[c] \notin {"none", "done", "error"}
      /\ \A d \in Calls : /\ thread'[d] = IF d = c THEN label ELSE thread[d]
                          /\ Place(d)' = Place(d)
  BY <1>1 DEF Proceeds, Alive, CallsTyped, Place
<1>3. Place(c) \notin {"new", "returned"}
  BY <1>2 DEF FileInv, Started
<1>4. JobOf \in [Calls -> Jobs]
  BY DEF TranscriptionAssumption
<1> USE <1>2, <1>3, <1>4 DEF FileInv, FilesTyped
<1>5. Started'
  BY DEF Started
<1>6. CASE Spares(c, label)
  <2> USE <1>6 DEF Spares, files
  <2>1. FilesTyped' /\ WritersKnown' /\ WrittenWhole'
    BY DEF WritersKnown, WrittenWhole
  <2>2. WritersOpened'
    BY DEF WritersOpened
  <2> QED BY <1>5, <2>1, <2>2
<1>7. CASE Opens(c, label)
  <2> USE <1>7 DEF Opens
  <2>1. FilesTyped'
    BY DEF Writing
  <2>2. /\ \A j \in Jobs : j # JobOf[c] => writers'[j] = writers[j] /\ file'[j] = file[j]
        /\ c \in writers'[JobOf[c]] /\ writers'[JobOf[c]] \subseteq writers[JobOf[c]] \cup {c}
        /\ Writing(JobOf[c]) # {} => writers[JobOf[c]] \subseteq writers'[JobOf[c]]
    OBVIOUS
  <2>3. WritersOpened'
    BY <2>1, <2>2 DEF WritersOpened
  <2>4. WritersKnown'
    BY <2>1, <2>2 DEF WritersKnown, Writing
  <2>5. WrittenWhole'
    BY <2>1, <2>2 DEF WrittenWhole
  <2> QED BY <1>5, <2>1, <2>3, <2>4, <2>5
<1>8. CASE Dumps(c, label)
  <2> USE <1>8 DEF Dumps
  <2>1. FilesTyped'
    OBVIOUS
  <2>2. WritersOpened' /\ WritersKnown'
    BY DEF WritersOpened, WritersKnown
  <2>3. WrittenWhole'
    <3>1. \A j \in Jobs : j # JobOf[c] => file'[j] = file[j]
      OBVIOUS
    <3>2. label = "sync" /\ writers[JobOf[c]] = {c} => file'[JobOf[c]] = "whole"
      OBVIOUS
    <3>3. c \in writers[JobOf[c]]
      BY DEF WritersKnown
    <3> QED BY <3>1, <3>2, <3>3 DEF WrittenWhole
  <2> QED BY <1>5, <2>1, <2>2, <2>3
<1> QED BY <1>1, <1>6, <1>7, <1>8

LEMMA FileInductive ==
  TranscriptionAssumption /\ CallsTyped /\ FileInv /\ [Next]_vars => FileInv'
<1> SUFFICES ASSUME TranscriptionAssumption, CallsTyped, FileInv, [Next]_vars PROVE FileInv'
  OBVIOUS
<1>1. CASE UNCHANGED vars
  BY <1>1 DEF FileInv, FilesTyped, Started, WritersOpened, WritersKnown, WrittenWhole, Place, vars, files
<1>2. CASE Next
  BY <1>2, BeginKeepsFile, CallMoves, CallKeepsFile, WorkKeepsFile, RestartKeepsFile DEF Next
<1> QED BY <1>1, <1>2

(* A transcript that was returned is whole, whoever else wrote the file,   *)
(* unless the last to write it were several at once, or one that is still  *)
(* at it or failed (transcription.py 169-286).                             *)
THEOREM ReturnedWhole == Spec => []TranscriptWhole
<1>1. Init => FileInv
  <2>1. \A c \in Calls : Waiting("new").pc = "new"
    BY DEF Waiting
  <2> QED BY <2>1 DEF Init, FileInv, FilesTyped, Started, WritersOpened, WritersKnown, WrittenWhole, Place
<1>2. TranscriptionAssumption /\ FileInv => TranscriptWhole
  <2> SUFFICES ASSUME TranscriptionAssumption, FileInv, NEW c \in Calls, caller[c].pc = "returned",
                      ~Together(JobOf[c])
               PROVE  \/ file[JobOf[c]] = "whole"
                      \/ \E d \in writers[JobOf[c]] \ {c} : thread[d] \in {"dump", "error", "none"}
    BY DEF TranscriptWhole
  <2>1. thread[c] = "done" /\ JobOf[c] \in Jobs
    BY DEF FileInv, Started, Place, TranscriptionAssumption
  <2>2. PICK d \in writers[JobOf[c]] : TRUE
    BY <2>1 DEF FileInv, WritersKnown
  <2>3. d \in Calls /\ JobOf[d] = JobOf[c] /\ writers[JobOf[c]] = {d}
    BY <2>1, <2>2 DEF FileInv, FilesTyped, WritersOpened, Together
  <2>4. thread[d] \in {"sync", "done"} => file[JobOf[c]] = "whole"
    BY <2>3 DEF FileInv, WrittenWhole
  <2>5. thread[d] \in {"dump", "sync", "done", "error", "none"}
    BY <2>1, <2>2 DEF FileInv, WritersOpened
  <2> QED BY <2>1, <2>2, <2>4, <2>5
<1> QED BY TranscriptionAssumption, TypedInit, TypedInductive, FileInductive, <1>1, <1>2, PTL DEF Spec
-----------------------------------------------------------------------------
(* What a thread has said before it is at a place                          *)
Told(label) ==
  {m \in 1..5 :
     \/ m = 1 /\ label \in {"model", "load", "run", "transcribe", "open", "dump", "sync", "done"}
     \/ m = 2 /\ label \in {"load", "run", "transcribe", "open", "dump", "sync", "done"}
     \/ m = 3 /\ label \in {"transcribe", "open", "dump", "sync", "done"}
     \/ m = 4 /\ label \in {"open", "dump", "sync", "done"}
     \/ m = 5 /\ label = "done"}
Elements(s) == {s[i] : i \in DOMAIN s}

(* All that was said has been reported, or is queued for the call.         *)
Hears(c) ==
  /\ Told(thread[c]) \subseteq reported[c] \cup Elements(caller[c].pending)
  /\ Elements(caller[c].pending) \subseteq 1..5 /\ caller[c].message \in 0..5
  /\ caller[c].pc \in {"last", "final"} => ~Alive(c)
  /\ caller[c].pc = "final" => caller[c].pending = <<>>
  /\ caller[c].pc # "inline"
Heard(c) ==
  /\ Watching(c) => Hears(c)
  /\ caller[c].pc = "returned" /\ kind[c] = "watched" => reported[c] = 1..5
AllHeard == reported \in [Calls -> SUBSET (1..5)] /\ \A c \in Calls : Heard(c)

LEMMA OthersHear ==
  ASSUME AllHeard, NEW c \in Calls, Heard(c)', reported' \in [Calls -> SUBSET (1..5)],
         \A d \in Calls : d # c => /\ caller'[d] = caller[d] /\ thread'[d] = thread[d]
                                   /\ kind'[d] = kind[d] /\ reported'[d] = reported[d]
  PROVE  AllHeard'
<1>1. ASSUME NEW d \in Calls, d # c PROVE Heard(d)'
  <2>1. Heard(d) /\ Hears(d)' = Hears(d) /\ Watching(d)' = Watching(d)
    BY <1>1 DEF AllHeard, Hears, Watching, InCall, Alive
  <2> QED BY <1>1, <2>1 DEF Heard
<1> QED BY <1>1 DEF AllHeard

LEMMA Queues ==
  /\ Elements(<<>>) = {}
  /\ \A s \in Seq(Nat), m \in Nat : Elements(Append(s, m)) = Elements(s) \cup {m}
  /\ \A s \in Seq(Nat) : s # <<>> => Elements(s) = {Head(s)} \cup Elements(Tail(s))
<1>1. Elements(<<>>) = {}
  BY DEF Elements
<1>2. ASSUME NEW s \in Seq(Nat), NEW m \in Nat PROVE Elements(Append(s, m)) = Elements(s) \cup {m}
  <2>1. PICK n \in Nat : n = Len(s) /\ DOMAIN s = 1..n
    BY LenProperties
  <2>2. /\ DOMAIN Append(s, m) = 1..(n + 1) /\ Append(s, m)[n + 1] = m
        /\ \A i \in 1..n : Append(s, m)[i] = s[i]
    <3>1. Append(s, m) \in Seq(Nat) /\ Len(Append(s, m)) = n + 1
      BY <2>1, AppendProperties
    <3> QED BY <2>1, <3>1, AppendProperties, LenProperties
  <2>3. 1..(n + 1) = (1..n) \cup {n + 1}
    OBVIOUS
  <2> QED BY <2>1, <2>2, <2>3 DEF Elements
<1>3. ASSUME NEW s \in Seq(Nat), s # <<>> PROVE Elements(s) = {Head(s)} \cup Elements(Tail(s))
  <2>1. PICK n \in Nat : Len(s) = n + 1 /\ DOMAIN s = 1..(n + 1)
    <3>1. Len(s) \in Nat /\ Len(s) # 0 /\ DOMAIN s = 1..Len(s)
      BY <1>3, LenProperties, EmptySeq
    <3>2. Len(s) - 1 \in Nat /\ Len(s) = (Len(s) - 1) + 1
      BY <3>1
    <3> QED BY <3>1, <3>2
  <2>2. /\ Tail(s) \in Seq(Nat) /\ Len(Tail(s)) = n /\ DOMAIN Tail(s) = 1..n
        /\ \A i \in 1..n : Tail(s)[i] = s[i + 1]
    <3>1. Tail(s) \in Seq(Nat) /\ Len(Tail(s)) = n
      BY <1>3, <2>1, HeadTailProperties
    <3>2. \A i \in 1..n : Tail(s)[i] = s[i + 1]
      BY <1>3, <2>1, <3>1, HeadTailProperties
    <3> QED BY <3>1, <3>2, LenProperties
  <2>3. Head(s) = s[1]
    BY <1>3
  <2>4. \A i \in 1..(n + 1) : i = 1 \/ (i - 1 \in 1..n /\ i = (i - 1) + 1)
    OBVIOUS
  <2>5. ASSUME NEW i \in 1..(n + 1) PROVE s[i] \in {Head(s)} \cup Elements(Tail(s))
    <3>1. CASE i = 1
      BY <2>3, <3>1
    <3>2. CASE i # 1
      <4>1. PICK k \in 1..n : k = i - 1 /\ i = k + 1
        BY <2>4, <3>2
      <4>2. s[i] = Tail(s)[k]
        BY <2>2, <4>1
      <4> QED BY <2>2, <4>1, <4>2 DEF Elements
    <3> QED BY <3>1, <3>2
  <2>6. ASSUME NEW i \in 1..n PROVE Tail(s)[i] \in Elements(s)
    <3>1. i + 1 \in 1..(n + 1)
      OBVIOUS
    <3> QED BY <2>1, <2>2, <3>1 DEF Elements
  <2>7. Head(s) \in Elements(s)
    BY <2>1, <2>3 DEF Elements
  <2> QED BY <2>1, <2>2, <2>5, <2>6, <2>7 DEF Elements
<1> QED BY <1>1, <1>2, <1>3

-----------------------------------------------------------------------------
(* The thread goes on, and tells the call what it has to say.              *)
LEMMA ThreadHeard ==
  ASSUME CallsTyped, AllHeard, NEW c \in Calls, NEW label \in Labels, NEW m \in 1..5,
         Alive(c), thread' = [thread EXCEPT ![c] = label], UNCHANGED <<kind, reported>>,
         \/ Say(c, m) /\ Told(label) \subseteq Told(thread[c]) \cup {m}
         \/ Silent /\ Told(label) \subseteq Told(thread[c])
  PROVE  AllHeard'
<1>0. caller \in [Calls -> Callers] /\ caller[c] \in Callers /\ thread'[c] = label /\ Heard(c)
  BY DEF CallsTyped, AllHeard
<1>1. PICK r \in Callers :
        /\ caller' = [caller EXCEPT ![c] = r] /\ r.pc = caller[c].pc
        /\ Watching(c) => /\ Told(label) \subseteq Told(thread[c]) \cup Elements(r.pending)
                          /\ Elements(caller[c].pending) \subseteq Elements(r.pending)
                          /\ Elements(r.pending) \subseteq Elements(caller[c].pending) \cup 1..5
                          /\ r.message \in {caller[c].message} \cup 1..5
  <2>1. CASE ~Watching(c) \/ Silent
    <3>1. caller' = [caller EXCEPT ![c] = caller[c]]
      BY <1>0, <2>1 DEF Say, Silent
    <3>2. Watching(c) => Told(label) \subseteq Told(thread[c])
      <4>1. CASE Silent /\ Told(label) \subseteq Told(thread[c])
        BY <4>1
      <4>2. CASE Watching(c) /\ Say(c, m) /\ Told(label) \subseteq Told(thread[c]) \cup {m}
        <5>1. PICK r : r = [caller[c] EXCEPT !.message = m, !.pending = Append(caller[c].pending, m)]
          OBVIOUS
        <5>2. caller'[c] = r
          BY <1>0, <4>2, <5>1 DEF Say
        <5>3. caller'[c] = caller[c]
          BY <1>0, <3>1
        <5>4. r.pending = Append(caller[c].pending, m) /\ caller[c].pending \in Seq(Nat)
          BY <1>0, <5>1 DEF Callers
        <5>5. caller[c].pending = Append(caller[c].pending, m)
          BY <5>2, <5>3, <5>4
        <5>6. Len(caller[c].pending) = Len(caller[c].pending) + 1 /\ Len(caller[c].pending) \in Nat
          BY <5>4, <5>5, AppendProperties, LenProperties
        <5> QED BY <5>6
      <4> QED BY <4>1, <4>2
    <3> QED BY <1>0, <3>1, <3>2
  <2>2. CASE Watching(c) /\ Say(c, m) /\ Told(label) \subseteq Told(thread[c]) \cup {m}
    <3>1. PICK r : r = [caller[c] EXCEPT !.message = m, !.pending = Append(caller[c].pending, m)]
      OBVIOUS
    <3>2. caller' = [caller EXCEPT ![c] = r]
      BY <1>0, <2>2, <3>1 DEF Say
    <3>3. caller[c].pending \in Seq(Nat) /\ m \in Nat
      BY <1>0 DEF Callers
    <3>4. Append(caller[c].pending, m) \in Seq(Nat)
      BY <3>3, AppendProperties
    <3>5. /\ r \in Callers /\ r.pc = caller[c].pc /\ r.message = m
          /\ r.pending = Append(caller[c].pending, m)
      BY <1>0, <3>1, <3>3, <3>4 DEF Callers
    <3>6. Elements(r.pending) = Elements(caller[c].pending) \cup {m}
      BY <3>3, <3>5, Queues
    <3> QED BY <2>2, <3>2, <3>5, <3>6
  <2> QED BY <2>1, <2>2
<1>2. caller'[c] = r /\ \A d \in Calls : d # c => caller'[d] = caller[d] /\ thread'[d] = thread[d]
  BY <1>0, <1>1
<1>3. Watching(c)' <=> Watching(c)
  BY <1>1, <1>2 DEF Watching, InCall
<1>4. Watching(c) => Hears(c)'
  <2> SUFFICES ASSUME Watching(c) PROVE Hears(c)'
    OBVIOUS
  <2>1. Hears(c)
    BY <1>0 DEF Heard
  <2>2. caller[c].pc \notin {"last", "final", "inline"}
    BY <2>1 DEF Hears
  <2>3. Told(label) \subseteq reported[c] \cup Elements(r.pending)
    BY <1>1, <2>1 DEF Hears
  <2>4. Elements(r.pending) \subseteq 1..5 /\ r.message \in 0..5
    BY <1>1, <2>1 DEF Hears
  <2> QED BY <1>0, <1>1, <1>2, <2>2, <2>3, <2>4 DEF Hears
<1>5. Heard(c)'
  BY <1>0, <1>1, <1>2, <1>3, <1>4 DEF Heard
<1>6. reported' \in [Calls -> SUBSET (1..5)]
  BY DEF AllHeard
<1> QED BY <1>2, <1>5, <1>6, OthersHear

LEMMA WorkHeard ==
  ASSUME CallsTyped, AllHeard, NEW c \in Calls, Work(c)
  PROVE  AllHeard'
<1> USE DEF Go, AsideFromThread
<1>0. Alive(c)
  BY DEF Alive, Work, Detect, Probe, FindModel, LoadModel, StartModel, Transcribe, Open, Dump, Sync
<1>1. UNCHANGED <<kind, reported>>
  BY DEF Work, Detect, Probe, FindModel, LoadModel, StartModel, Transcribe, Open, Dump, Sync
<1>s. ASSUME NEW label \in Labels, NEW m \in 1..5, thread' = [thread EXCEPT ![c] = label],
             Say(c, m), Told(label) \subseteq Told(thread[c]) \cup {m}
      PROVE  AllHeard'
  BY <1>0, <1>1, <1>s, ThreadHeard
<1>q. ASSUME NEW label \in Labels, thread' = [thread EXCEPT ![c] = label],
             Silent, Told(label) \subseteq Told(thread[c])
      PROVE  AllHeard'
  <2>1. 1 \in 1..5
    OBVIOUS
  <2> QED BY <1>0, <1>1, <1>q, <2>1, ThreadHeard
<1>2. AllHeard'
  <2>1. CASE Detect(c) \/ Probe(c)
    <3>1. \/ thread' = [thread EXCEPT ![c] = "model"] /\ Say(c, 1)
          \/ thread' = [thread EXCEPT ![c] = "probe"] /\ Silent
      BY <2>1 DEF Detect, Probe
    <3>2. Told("model") \subseteq {1} /\ Told("probe") = {}
      BY DEF Told
    <3> QED BY <1>s, <1>q, <3>1, <3>2 DEF Labels
  <2>2. CASE FindModel(c)
    <3>1. thread[c] = "model" /\ Say(c, 2) /\ \E label \in {"run", "load"} : thread' = [thread EXCEPT ![c] = label]
      BY <2>2 DEF FindModel
    <3>2. Told("load") \subseteq Told("model") \cup {2} /\ Told("run") \subseteq Told("model") \cup {2}
      BY DEF Told
    <3>3. PICK label \in {"run", "load"} : thread' = [thread EXCEPT ![c] = label]
      BY <3>1
    <3>4. Told(label) \subseteq Told(thread[c]) \cup {2} /\ label \in Labels
      BY <3>1, <3>2 DEF Labels
    <3>5. Say(c, 2) /\ 2 \in 1..5
      BY <3>1
    <3> QED BY <1>s, <3>3, <3>4, <3>5
  <2>3. CASE LoadModel(c)
    <3>1. thread[c] = "load" /\ Silent /\ \E label \in {"run", "error"} : thread' = [thread EXCEPT ![c] = label]
      BY <2>3 DEF LoadModel
    <3>2. Told("run") \subseteq Told("load") /\ Told("error") = {}
      BY DEF Told
    <3> QED BY <1>s, <1>q, <3>1, <3>2 DEF Labels
  <2>4. CASE StartModel(c)
    <3>1. thread[c] = "run" /\ Say(c, 3) /\ thread' = [thread EXCEPT ![c] = "transcribe"]
      BY <2>4 DEF StartModel
    <3>2. Told("transcribe") \subseteq Told("run") \cup {3}
      BY DEF Told
    <3> QED BY <1>s, <1>q, <3>1, <3>2 DEF Labels
  <2>5. CASE Transcribe(c)
    <3>1. /\ thread[c] = "transcribe"
          /\ \/ thread' = [thread EXCEPT ![c] = "open"] /\ Say(c, 4)
             \/ thread' = [thread EXCEPT ![c] = "error"] /\ Silent
      BY <2>5 DEF Transcribe
    <3>2. Told("open") \subseteq Told("transcribe") \cup {4} /\ Told("error") = {}
      BY DEF Told
    <3> QED BY <1>s, <1>q, <3>1, <3>2 DEF Labels
  <2>6. CASE Open(c) \/ Dump(c)
    <3>1. /\ thread[c] \in {"open", "dump"} /\ Silent
          /\ \E label \in {"dump", "sync", "error"} : thread' = [thread EXCEPT ![c] = label]
      BY <2>6 DEF Open, Dump
    <3>2. /\ Told("dump") = Told("open") /\ Told("sync") = Told("open")
          /\ Told("error") = {}
      BY DEF Told
    <3> QED BY <1>s, <1>q, <3>1, <3>2 DEF Labels
  <2>7. CASE Sync(c)
    <3>1. /\ thread[c] = "sync"
          /\ \/ thread' = [thread EXCEPT ![c] = "done"] /\ Say(c, 5)
             \/ thread' = [thread EXCEPT ![c] = "error"] /\ Silent
      BY <2>7 DEF Sync
    <3>2. Told("done") \subseteq Told("sync") \cup {5} /\ Told("error") = {}
      BY DEF Told
    <3> QED BY <1>s, <1>q, <3>1, <3>2 DEF Labels
  <2> QED BY <2>1, <2>2, <2>3, <2>4, <2>5, <2>6, <2>7 DEF Work
<1> QED BY <1>2

-----------------------------------------------------------------------------
(* The call takes up what is queued, and looks whether its thread lives.   *)
LEMMA CallerHeard ==
  ASSUME CallsTyped, AllHeard, NEW c \in Calls, NEW r, caller' = [caller EXCEPT ![c] = r],
         UNCHANGED <<kind, thread>>, Watching(c), NEW told \in SUBSET (1..5),
         reported' = [reported EXCEPT ![c] = @ \cup told],
         r.pc \notin {"returned", "failed"} =>
           /\ Elements(caller[c].pending) \subseteq Elements(r.pending) \cup told
           /\ Elements(r.pending) \subseteq Elements(caller[c].pending)
           /\ r.message = caller[c].message /\ r.pc # "inline"
           /\ r.pc \in {"last", "final"} => ~Alive(c)
           /\ r.pc = "final" => r.pending = <<>>,
         r.pc = "returned" => thread[c] = "done" /\ Elements(caller[c].pending) = {}
  PROVE  AllHeard'
<1>0. caller'[c] = r /\ \A d \in Calls : d # c => caller'[d] = caller[d]
  BY DEF CallsTyped
<1>1. Heard(c) /\ Hears(c) /\ reported \in [Calls -> SUBSET (1..5)]
  BY DEF AllHeard, Heard
<1>2. reported'[c] = reported[c] \cup told /\ reported' \in [Calls -> SUBSET (1..5)]
      /\ \A d \in Calls : d # c => reported'[d] = reported[d]
  BY <1>1
<1>3. Watching(c)' => Hears(c)'
  <2> SUFFICES ASSUME Watching(c)' PROVE Hears(c)'
    OBVIOUS
  <2>1. r.pc \notin {"returned", "failed"}
    BY <1>0 DEF Watching, InCall
  <2>2. Told(thread[c]) \subseteq reported'[c] \cup Elements(r.pending)
    BY <1>1, <1>2, <2>1 DEF Hears
  <2>3. Elements(r.pending) \subseteq 1..5 /\ r.message \in 0..5
    BY <1>1, <2>1 DEF Hears
  <2>4. r.pc \in {"last", "final"} => ~Alive(c)'
    BY <2>1 DEF Alive
  <2> QED BY <1>0, <2>1, <2>2, <2>3, <2>4 DEF Hears
<1>4. r.pc = "returned" => reported'[c] = 1..5
  <2> SUFFICES ASSUME r.pc = "returned" PROVE reported'[c] = 1..5
    OBVIOUS
  <2>1. Told("done") = 1..5
    BY DEF Told
  <2>2. Told(thread[c]) \subseteq reported[c]
    BY <1>1 DEF Hears
  <2> QED BY <1>2, <2>1, <2>2
<1>5. Heard(c)'
  BY <1>0, <1>3, <1>4 DEF Heard
<1> QED BY <1>0, <1>2, <1>5, OthersHear

LEMMA WaitingIs == \A label : /\ Waiting(label).pc = label /\ Waiting(label).pending = <<>>
                             /\ Waiting(label).message = 0
BY DEF Waiting

(* A call that failed has forgotten what it was told.                      *)
LEMMA FailedHeard ==
  ASSUME CallsTyped, AllHeard, NEW c \in Calls, End(c, "failed"), UNCHANGED <<kind, thread>>
  PROVE  AllHeard'
<1>1. /\ caller'[c] = Waiting("failed") /\ \A d \in Calls : d # c => caller'[d] = caller[d]
      /\ reported' = [reported EXCEPT ![c] = {}]
  BY DEF End, CallsTyped
<1>2. reported' \in [Calls -> SUBSET (1..5)] /\ \A d \in Calls : d # c => reported'[d] = reported[d]
  BY <1>1 DEF AllHeard
<1>3. Heard(c)'
  BY <1>1, WaitingIs DEF Heard, Watching, InCall
<1> QED BY <1>1, <1>2, <1>3, OthersHear

(* A callback that raises ends the call; else the message was reported. *)
LEMMA ReportHeard ==
  ASSUME CallsTyped, AllHeard, NEW c \in Calls, NEW m \in 1..5, NEW next, Report(c, m, next),
         UNCHANGED <<kind, thread>>, Watching(c),
         next.pc \notin {"returned", "failed"} =>
           /\ Elements(caller[c].pending) \subseteq Elements(next.pending) \cup {m}
           /\ Elements(next.pending) \subseteq Elements(caller[c].pending)
           /\ next.message = caller[c].message /\ next.pc # "inline"
           /\ next.pc \in {"last", "final"} => ~Alive(c)
           /\ next.pc = "final" => next.pending = <<>>,
         next.pc = "returned" => thread[c] = "done" /\ Elements(caller[c].pending) = {}
  PROVE  AllHeard'
<1>1. CASE caller[c].canceled \/ next.pc = "failed"
  <2>1. End(c, "failed")
    BY <1>1 DEF Report
  <2> QED BY <2>1, FailedHeard
<1>2. CASE ~(caller[c].canceled \/ next.pc = "failed")
  <2>1. caller' = [caller EXCEPT ![c] = next] /\ reported' = [reported EXCEPT ![c] = @ \cup {m}]
    BY <1>2 DEF Report
  <2>2. {m} \in SUBSET (1..5)
    OBVIOUS
  <2> QED BY <2>1, <2>2, CallerHeard
<1> QED BY <1>1, <1>2

LEMMA CallHeard ==
  ASSUME CallsTyped, AllHeard, NEW c \in Calls, kind[c] = "watched", Call(c) \/ Cancel(c)
  PROVE  AllHeard'
<1> USE DEF AsideFromCaller
<1>0. caller[c] \in Callers /\ caller \in [Calls -> Callers] /\ reported \in [Calls -> SUBSET (1..5)]
  BY DEF CallsTyped, AllHeard
<1>1. UNCHANGED <<kind, thread>> /\ Watching(c)
  BY DEF Call, Cancel, TestAlive, Pop, Drained, NoBeat, Beat, Return, ReturnInline, Watching, InCall
<1>2. Hears(c) /\ caller[c].pc # "inline"
  BY <1>1 DEF AllHeard, Heard, Hears
<1>u. ASSUME UNCHANGED reported PROVE reported' = [reported EXCEPT ![c] = @ \cup {}] /\ {} \in SUBSET (1..5)
  BY <1>0, <1>u
<1>3. CASE Cancel(c)
  <2>1. PICK r : r = [caller[c] EXCEPT !.canceled = TRUE]
    OBVIOUS
  <2>2. caller' = [caller EXCEPT ![c] = r] /\ UNCHANGED reported
    BY <1>3, <2>1 DEF Cancel
  <2>3. r.pc = caller[c].pc /\ r.pending = caller[c].pending /\ r.message = caller[c].message
    BY <1>0, <2>1 DEF Callers
  <2>4. /\ Elements(caller[c].pending) \subseteq Elements(r.pending) \cup {}
        /\ Elements(r.pending) \subseteq Elements(caller[c].pending)
        /\ r.message = caller[c].message /\ r.pc # "inline"
        /\ r.pc \in {"last", "final"} => ~Alive(c)
        /\ r.pc = "final" => r.pending = <<>>
    BY <1>2, <2>3 DEF Hears
  <2>5. r.pc # "returned"
    BY <1>1, <2>3 DEF Watching, InCall
  <2>6. reported' = [reported EXCEPT ![c] = @ \cup {}] /\ {} \in SUBSET (1..5)
    BY <1>u, <2>2
  <2> QED BY <1>1, <2>2, <2>4, <2>5, <2>6, CallerHeard
<1>4. CASE TestAlive(c) \/ Drained(c) \/ NoBeat(c)
  <2>1. PICK label \in {"drain", "last", "beat", "final", "test"} :
          /\ Turn(c, label) /\ UNCHANGED reported
          /\ label \in {"last", "final"} => ~Alive(c)
          /\ label = "final" => caller[c].pending = <<>>
    BY <1>2, <1>4 DEF TestAlive, Drained, NoBeat, Hears
  <2>2. PICK r : r = [caller[c] EXCEPT !.pc = label]
    OBVIOUS
  <2>3. caller' = [caller EXCEPT ![c] = r]
    BY <2>1, <2>2 DEF Turn
  <2>4. r.pc = label /\ r.pending = caller[c].pending /\ r.message = caller[c].message
    BY <1>0, <2>2 DEF Callers
  <2>5. /\ Elements(caller[c].pending) \subseteq Elements(r.pending) \cup {}
        /\ Elements(r.pending) \subseteq Elements(caller[c].pending)
        /\ r.message = caller[c].message /\ r.pc \notin {"inline", "returned"}
        /\ r.pc \in {"last", "final"} => ~Alive(c)
        /\ r.pc = "final" => r.pending = <<>>
    BY <2>1, <2>4
  <2>6. reported' = [reported EXCEPT ![c] = @ \cup {}] /\ {} \in SUBSET (1..5)
    BY <1>u, <2>1
  <2> QED BY <1>1, <2>3, <2>5, <2>6, CallerHeard
<1>5. CASE Pop(c)
  <2>1. PICK m : m = Head(caller[c].pending)
    OBVIOUS
  <2>2. PICK next : next = [caller[c] EXCEPT !.pending = Tail(caller[c].pending), !.last = m]
    OBVIOUS
  <2>3. /\ caller[c].pc \in {"drain", "last"} /\ caller[c].pending # <<>> /\ caller[c].pending \in Seq(Nat)
        /\ Report(c, m, next)
    BY <1>0, <1>5, <2>1, <2>2 DEF Pop, Callers
  <2>4. next.pending = Tail(caller[c].pending) /\ next.pc = caller[c].pc /\ next.message = caller[c].message
    BY <1>0, <2>2 DEF Callers
  <2>5. Elements(caller[c].pending) = {m} \cup Elements(next.pending)
    BY <2>1, <2>3, <2>4, Queues
  <2>6. m \in 1..5 /\ (next.pc = "last" => ~Alive(c))
    BY <1>2, <2>4, <2>5 DEF Hears
  <2> QED BY <1>1, <2>3, <2>4, <2>5, <2>6, ReportHeard
<1>6. CASE Beat(c)
  <2>1. PICK next : next = [caller[c] EXCEPT !.pc = "test"]
    OBVIOUS
  <2>2. caller[c].message \in 1..5 /\ Report(c, caller[c].message, next)
    BY <1>2, <1>6, <2>1 DEF Beat, Hears
  <2>3. next.pc = "test" /\ next.pending = caller[c].pending /\ next.message = caller[c].message
    BY <1>0, <2>1 DEF Callers
  <2> QED BY <1>1, <2>2, <2>3, ReportHeard
<1>7. CASE Return(c)
  <2>1. caller[c].pc = "final" /\ Elements(caller[c].pending) = {}
    BY <1>2, <1>7, Queues DEF Return, Hears
  <2>2. Waiting(Outcome(c)).pc = Outcome(c) /\ Outcome(c) \in {"returned", "failed"}
        /\ (Outcome(c) = "returned" => thread[c] = "done")
    BY WaitingIs DEF Outcome
  <2>3. CASE caller[c].message \notin {0, caller[c].last}
    <3>1. caller[c].message \in 1..5 /\ Report(c, caller[c].message, Waiting(Outcome(c)))
      BY <1>2, <1>7, <2>3 DEF Return, Hears
    <3>2. PICK next : next = Waiting(Outcome(c))
      OBVIOUS
    <3>3. /\ next.pc \in {"returned", "failed"} /\ (next.pc = "returned" => thread[c] = "done")
          /\ Report(c, caller[c].message, next)
      BY <2>2, <3>1, <3>2
    <3> QED BY <1>1, <2>1, <3>1, <3>3, ReportHeard
  <2>4. CASE caller[c].message \in {0, caller[c].last} /\ Outcome(c) = "failed"
    <3>1. End(c, "failed")
      BY <1>7, <2>4 DEF Return
    <3> QED BY <1>1, <3>1, FailedHeard
  <2>5. CASE caller[c].message \in {0, caller[c].last} /\ Outcome(c) = "returned"
    <3>1. caller' = [caller EXCEPT ![c] = Waiting(Outcome(c))] /\ UNCHANGED reported
      BY <1>0, <1>7, <2>5 DEF Return, End
    <3>2. PICK next : next = Waiting(Outcome(c))
      OBVIOUS
    <3>3. /\ next.pc \in {"returned", "failed"} /\ (next.pc = "returned" => thread[c] = "done")
          /\ caller' = [caller EXCEPT ![c] = next]
      BY <2>2, <3>1, <3>2
    <3>4. reported' = [reported EXCEPT ![c] = @ \cup {}] /\ {} \in SUBSET (1..5)
      BY <1>u, <3>1
    <3> QED BY <1>1, <2>1, <3>3, <3>4, CallerHeard
  <2> QED BY <2>2, <2>3, <2>4, <2>5
<1>8. ~ReturnInline(c)
  BY <1>2 DEF ReturnInline
<1> QED BY <1>3, <1>4, <1>5, <1>6, <1>7, <1>8 DEF Call

(* Whoever does not watch its thread is where it works, with nothing to    *)
(* report, and a new call has been told nothing.                           *)
Resting(c) == Elements(caller[c].pending) = {} /\ caller[c].message = 0
Placed ==
  \A c \in Calls : /\ InCall(c) /\ kind[c] # "watched" => caller[c].pc = "inline"
                   /\ caller[c].pc = "new" => Resting(c)

LEMMA InlineCall ==
  ASSUME CallsTyped, Placed, NEW c \in Calls, kind[c] # "watched", Call(c) \/ Cancel(c)
  PROVE  /\ caller' = [caller EXCEPT ![c] = Waiting(Outcome(c))]
         /\ reported' = [reported EXCEPT ![c] = IF Outcome(c) = "failed" THEN {} ELSE @]
         /\ UNCHANGED <<kind, thread>>
<1>1. InCall(c)
  BY CallMoves DEF Moves
<1>2. caller[c].pc = "inline"
  BY <1>1 DEF Placed
<1>3. ReturnInline(c)
  BY <1>2 DEF Call, Cancel, Watching, TestAlive, Pop, Drained, NoBeat, Beat, Return
<1> QED BY <1>3 DEF ReturnInline, End, AsideFromCaller

LEMMA PlacedInductive == CallsTyped /\ Placed /\ [Next]_vars => Placed'
<1> SUFFICES ASSUME CallsTyped, Placed, [Next]_vars PROVE Placed'
  OBVIOUS
<1> USE DEF Placed, Resting, InCall
<1>0. caller \in [Calls -> Callers] /\ kind = kind
  BY DEF CallsTyped
<1>1. CASE UNCHANGED vars
  BY <1>1 DEF vars
<1>2. ASSUME NEW c \in Calls, Begin(c) PROVE Placed'
  <2>1. PICK k \in {"watched", "inline", "subtitles"} : kind' = [kind EXCEPT ![c] = k]
    BY <1>2 DEF Begin
  <2>2. PICK label \in {"test", "inline"} :
          /\ caller' = [caller EXCEPT ![c].pc = label] /\ label = IF kind'[c] = "watched" THEN "test" ELSE "inline"
    BY <1>2 DEF Begin, Turn
  <2>3. PICK r : r = [caller[c] EXCEPT !.pc = label]
    OBVIOUS
  <2>4. r.pc = label /\ caller'[c] = r /\ \A d \in Calls : d # c => caller'[d] = caller[d]
    BY <1>0, <2>2, <2>3 DEF Callers
  <2>5. \A d \in Calls : d # c => kind'[d] = kind[d]
    BY <2>1
  <2> QED BY <2>2, <2>4, <2>5
<1>3. ASSUME NEW c \in Calls, Call(c) \/ Cancel(c) PROVE Placed'
  <2>1. PICK r \in Callers : caller' = [caller EXCEPT ![c] = r] /\ r.pc # "new"
    BY <1>3, CallMoves DEF Moves
  <2>2. UNCHANGED kind
    BY <1>3, CallMoves DEF Moves
  <2>3. caller'[c] = r /\ \A d \in Calls : d # c => caller'[d] = caller[d]
    BY <1>0, <2>1
  <2>4. kind[c] # "watched" => ~InCall(c)'
    <3>1. Waiting(Outcome(c)).pc \in {"returned", "failed"}
      BY WaitingIs DEF Outcome
    <3> QED BY <1>0, <1>3, <3>1, InlineCall
  <2> QED BY <2>1, <2>2, <2>3, <2>4
<1>4. ASSUME NEW c \in Calls, Work(c) PROVE Placed'
  <2>1. UNCHANGED kind /\ \A d \in Calls : caller'[d].pc = caller[d].pc
    BY <1>4, WorkProceeds DEF Proceeds
  <2>2. Silent \/ \E m \in 1..5 : Say(c, m)
    BY <1>4 DEF Work, Detect, Probe, FindModel, LoadModel, StartModel, Transcribe, Open, Dump, Sync
  <2>3. \A d \in Calls : caller[d].pc = "new" => caller'[d] = caller[d]
    BY <1>0, <2>2 DEF Silent, Say, Watching
  <2> QED BY <2>1, <2>3
<1>5. CASE Restart
  BY <1>5, RestartMoves DEF Restart
<1>6. ASSUME NEW c \in Calls, Reject(c) PROVE Placed'
  BY <1>0, <1>6, RejectMoves
<1> QED BY <1>1, <1>2, <1>3, <1>4, <1>5, <1>6 DEF Next

LEMMA BeginHeard == ASSUME CallsTyped, AllHeard, Placed, NEW c \in Calls, Begin(c) PROVE AllHeard'
<1>0. caller \in [Calls -> Callers] /\ thread \in [Calls -> Labels]
  BY DEF CallsTyped
<1>1. PICK k \in {"watched", "inline", "subtitles"} : kind' = [kind EXCEPT ![c] = k]
  BY DEF Begin
<1>2. PICK label \in {"test", "inline"} :
        /\ caller' = [caller EXCEPT ![c].pc = label] /\ label = IF kind'[c] = "watched" THEN "test" ELSE "inline"
  BY DEF Begin, Turn
<1>3. PICK r : r = [caller[c] EXCEPT !.pc = label]
  OBVIOUS
<1>4. /\ r.pc = label /\ r.pending = caller[c].pending /\ r.message = caller[c].message
      /\ caller'[c] = r /\ \A d \in Calls : d # c => caller'[d] = caller[d]
  BY <1>0, <1>2, <1>3 DEF Callers
<1>5. \A d \in Calls : d # c => kind'[d] = kind[d]
  BY <1>1
<1>6. PICK place \in {"open", "detect"} :
        /\ thread' = [thread EXCEPT ![c] = place]
        /\ (kind'[c] = "watched" => place = "detect")
  BY DEF Begin
<1>7. thread'[c] = place /\ \A d \in Calls : d # c => thread'[d] = thread[d]
  BY <1>0, <1>6
<1>8. UNCHANGED reported
  BY DEF Begin
<1>9. Elements(r.pending) = {} /\ r.message = 0
  BY <1>4 DEF Placed, Resting, Begin
<1>10. Told("detect") = {}
  BY DEF Told
<1>11. Watching(c)' => Hears(c)'
  <2> SUFFICES ASSUME Watching(c)' PROVE Hears(c)'
    OBVIOUS
  <2>1. kind'[c] = "watched" /\ label = "test" /\ place = "detect"
    BY <1>2, <1>6 DEF Watching
  <2> QED BY <1>4, <1>7, <1>9, <1>10, <2>1 DEF Hears
<1>12. Heard(c)'
  BY <1>4, <1>11 DEF Heard
<1>13. reported' \in [Calls -> SUBSET (1..5)]
  BY <1>8 DEF AllHeard
<1> QED BY <1>4, <1>5, <1>7, <1>8, <1>12, <1>13, OthersHear

LEMMA HeardInductive ==
  CallsTyped /\ Placed /\ AllHeard /\ [Next]_vars => AllHeard'
<1> SUFFICES ASSUME CallsTyped, Placed, AllHeard, [Next]_vars PROVE AllHeard'
  OBVIOUS
<1>1. CASE UNCHANGED vars
  BY <1>1 DEF vars, AllHeard, Heard, Hears, Watching, InCall, Alive
<1>2. ASSUME NEW c \in Calls, Call(c) \/ Cancel(c) PROVE AllHeard'
  <2>1. CASE kind[c] = "watched"
    BY <1>2, <2>1, CallHeard
  <2>2. CASE kind[c] # "watched"
    <3>1. /\ caller' = [caller EXCEPT ![c] = Waiting(Outcome(c))] /\ UNCHANGED <<kind, thread>>
          /\ reported' = [reported EXCEPT ![c] = IF Outcome(c) = "failed" THEN {} ELSE @]
      BY <1>2, <2>2, InlineCall
    <3>2. caller'[c].pc \in {"returned", "failed"} /\ \A d \in Calls : d # c => caller'[d] = caller[d]
      BY <3>1, WaitingIs DEF CallsTyped, Outcome
    <3>3. Heard(c)'
      BY <2>2, <3>1, <3>2 DEF Heard, Watching, InCall
    <3>4. reported' \in [Calls -> SUBSET (1..5)] /\ \A d \in Calls : d # c => reported'[d] = reported[d]
      BY <3>1 DEF AllHeard
    <3> QED BY <3>1, <3>2, <3>3, <3>4, OthersHear
  <2> QED BY <2>1, <2>2
<1>3. CASE Restart
  <2>1. /\ UNCHANGED kind
        /\ reported' = [c \in Calls |-> IF InCall(c) THEN {} ELSE reported[c]]
        /\ \A c \in Calls : caller'[c].pc = IF InCall(c) THEN "failed" ELSE caller[c].pc
    BY <1>3, RestartMoves DEF Restart
  <2>2. ASSUME NEW c \in Calls PROVE Heard(c)'
    <3>1. ~InCall(c)' /\ (caller'[c].pc = "returned" => caller[c].pc = "returned" /\ ~InCall(c))
      BY <2>1 DEF InCall
    <3> QED BY <2>1, <3>1 DEF AllHeard, Heard, Watching
  <2> QED BY <2>1, <2>2 DEF AllHeard
<1>4. ASSUME NEW c \in Calls, Reject(c) PROVE AllHeard'
  <2>1. End(c, "failed") /\ UNCHANGED <<kind, thread>>
    BY <1>4 DEF Reject, AsideFromCaller
  <2> QED BY <2>1, FailedHeard
<1> QED BY <1>1, <1>2, <1>3, <1>4, BeginHeard, WorkHeard DEF Next

(* A call with a callback returns only when all that its thread said has   *)
(* been passed on (transcription.py 252-280).                              *)
THEOREM AllAreReported == Spec => []AllReported
<1>1. Init => AllHeard /\ Placed
  <2> SUFFICES ASSUME Init PROVE AllHeard /\ Placed
    OBVIOUS
  <2>1. \A c \in Calls : caller[c] = Waiting("new")
    BY DEF Init
  <2>2. \A c \in Calls : caller[c].pc = "new" /\ caller[c].pending = <<>> /\ caller[c].message = 0
    BY <2>1, WaitingIs
  <2>3. reported \in [Calls -> SUBSET (1..5)]
    BY DEF Init
  <2> QED BY <2>2, <2>3, Queues DEF AllHeard, Heard, Watching, InCall, Placed, Resting
<1>2. AllHeard => AllReported
  BY DEF AllHeard, Heard, AllReported
<1> QED BY TypedInit, TypedInductive, PlacedInductive, HeardInductive, <1>1, <1>2, PTL DEF Spec
=============================================================================
