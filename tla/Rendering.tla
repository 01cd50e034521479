----------------------------- MODULE Rendering -----------------------------
(***************************************************************************)
(* Candidates and clips of one job: their review (api/jobs/candidates.py,  *)
(* web/pages/actions.py), the requests that render them (services/         *)
(* render_workflow.py, clipping.py, clip_records.py), and what makes the   *)
(* candidates again meanwhile (candidates.py).                             *)
(*                                                                         *)
(* The name of a clip's file is made of the job and of an index: the id of *)
(* the candidate, the rank of a candidate that was ranked on request, or   *)
(* 9999.  (Mode, preset and subtitles are in the name, too: one value of   *)
(* each is modelled.)  Retention may take any file at any time: it is      *)
(* modelled in Artifacts.                                                  *)
(***************************************************************************)
EXTENDS Integers, Sequences, FiniteSets, FiniteSetsExt

CONSTANTS
  Threads,     \* of the web process
  Ranks,       \* indexes of candidates that are ranked on request
  Manuals,     \* the index of every manual render
  FirstId,     \* the first id of a candidate of this job
  ReusesIds,   \* the database gives the largest id + 1, as SQLite does
  Decisions,   \* statuses that a review gives
  Cuts,        \* parts of the video that can be cut out
  MaxId,       \* bound: ids of candidates
  MaxClips,    \* bound: clips
  MaxPlain     \* bound: requests at a time that render no candidate

ASSUME RenderingAssumption ==
  /\ FirstId \in Nat \ {0} /\ Ranks \subseteq Nat /\ Manuals \subseteq Nat
  /\ Decisions \subseteq {"pending", "approved", "rejected"}
  /\ {"none", "partial", "no_cut"} \cap Cuts = {}
  /\ ReusesIds \in BOOLEAN
  /\ {MaxId, MaxClips, MaxPlain} \subseteq Nat

VARIABLES
  candidates,  \* rows of the job, in one mode
  lastId,      \* the last id given to a candidate
  saving,      \* candidates are being made again
  clips,       \* rows, in the order of their ids
  disk,        \* what the file of each index holds
  source,      \* the video and the transcript are there
  thread       \* the request of each thread

rows == <<candidates, lastId, clips>>
vars == <<rows, saving, disk, source, thread>>

None == "none"        \* no such file
Partial == "partial"  \* being written, or left so
Files == Ranks \cup Manuals \cup FirstId..MaxId

NoShot == [id |-> 0, index |-> 0, cut |-> "no_cut"]
Idle == [pc |-> "idle", todo |-> {}, shot |-> NoShot, mark |-> 0, later |-> FALSE, clash |-> FALSE]

Init ==
  /\ candidates = {} /\ lastId = FirstId - 1 /\ saving = FALSE
  /\ clips = <<>>
  /\ disk = [f \in Files |-> None] /\ source = TRUE
  /\ thread = [t \in Threads |-> Idle]

Row(id) == CHOOSE c \in candidates : c.id = id
HasRow(id) == \E c \in candidates : c.id = id
SetStatus(id, s) ==
  candidates' = {IF c.id = id THEN [c EXCEPT !.status = s] ELSE c : c \in candidates}

-----------------------------------------------------------------------------
(* regenerate_candidates_for_job_with_progress: the deletion is committed  *)
(* before the transcript is opened, and then every chunk.                  *)
ClearCandidates ==
  /\ ~saving
  /\ candidates' = {} /\ saving' = TRUE
  /\ UNCHANGED <<lastId, clips, disk, source, thread>>

NextId == IF ReusesIds THEN Max({c.id : c \in candidates} \cup {FirstId - 1}) + 1 ELSE lastId + 1
SaveCandidate ==
  /\ saving /\ source /\ NextId <= MaxId
  /\ \E cut \in Cuts :
       candidates' = candidates \cup {[id |-> NextId, cut |-> cut, status |-> "pending"]}
  /\ lastId' = NextId
  /\ UNCHANGED <<saving, clips, disk, source, thread>>

EndSaving ==
  /\ saving /\ saving' = FALSE
  /\ UNCHANGED <<rows, disk, source, thread>>

(* A row is approved, rejected or reset, or several at once, on the page.  *)
Review ==
  /\ \E s \in Decisions, S \in (SUBSET candidates) \ {{}} :
       candidates' = {IF c \in S THEN [c EXCEPT !.status = s] ELSE c : c \in candidates}
  /\ UNCHANGED <<lastId, saving, clips, disk, source, thread>>

-----------------------------------------------------------------------------
(* Requests to render.                                                     *)
Leave(t) == thread' = [thread EXCEPT ![t] = Idle]

Shot(c) == [id |-> c.id, index |-> c.id, cut |-> c.cut]
Plain(i, cut) == [id |-> 0, index |-> i, cut |-> cut]
Begin(t, shots) ==
  /\ thread[t].pc = "idle" /\ Len(clips) < MaxClips
  /\ thread' = [thread EXCEPT ![t] = [Idle EXCEPT !.pc = "next", !.todo = shots]]
  /\ UNCHANGED <<rows, saving, disk, source>>

(* A candidate, those that are selected, or those that are approved        *)
RequestOne(t) == \E c \in candidates : Begin(t, {Shot(c)})
RequestSelected(t) == \E S \in (SUBSET candidates) \ {{}} : Begin(t, {Shot(c) : c \in S})
Approved == {c \in candidates : c.status = "approved"}
RequestApproved(t) == Approved # {} /\ Begin(t, {Shot(c) : c \in Approved})

(* Those that rank best now, by the transcript, one of them, or a part of  *)
(* the video that is given by hand                                         *)
Ranked == {{Plain(i, cut[i]) : i \in Ranks} : cut \in [Ranks -> Cuts]}
RankedOne == {{Plain(i, cut)} : i \in Ranks, cut \in Cuts}
Manual == {{Plain(i, cut)} : i \in Manuals, cut \in Cuts}
Plains == {t \in Threads : \E s \in {thread[t].shot} \cup thread[t].todo : s.id = 0 /\ s # NoShot}
RequestCuts(t) ==
  /\ Cardinality(Plains) < MaxPlain
  /\ \E shots \in (IF source THEN (Ranked \cup RankedOne) \ {{}} ELSE {}) \cup Manual : Begin(t, shots)

(* A commit expires the candidates that were read, so those that are       *)
(* rendered after it are read again.                                       *)
Gone(t, s) == thread[t].later /\ s.id # 0 /\ ~HasRow(s.id)
Refreshed(t, s) == IF thread[t].later /\ s.id # 0 THEN Shot(Row(s.id)) ELSE s
Encoding(i) == {u \in Threads : thread[u].pc = "encode" /\ thread[u].shot.index = i}
StartRender(t) ==
  /\ thread[t].pc = "next"
  /\ \E s \in thread[t].todo :
       IF Gone(t, s) \/ ~source THEN Leave(t) /\ UNCHANGED disk
       ELSE /\ disk' = [disk EXCEPT ![s.index] = Partial]
            /\ thread' = [u \in Threads |->
                 IF u = t THEN [thread[t] EXCEPT !.pc = "encode", !.todo = @ \ {s},
                                  !.shot = Refreshed(t, s), !.clash = Encoding(s.index) # {}]
                 ELSE [thread[u] EXCEPT !.clash = @ \/ u \in Encoding(s.index)]]
  /\ UNCHANGED <<rows, saving, source>>

(* The end of ffmpeg, which may fail and leave what it wrote.  The file    *)
(* must be there; two that write the same file may spoil it.               *)
EncodeMarks(t) ==
  /\ thread[t].pc = "encode"
  /\ SetStatus(thread[t].shot.id, "rendered") /\ Leave(t)
  /\ UNCHANGED <<lastId, saving, clips, disk, source>>
EncodeElsewhere(t) ==
  /\ thread[t].pc = "encode" /\ thread' = [thread EXCEPT ![t].pc = "commit"]
  /\ disk' = [disk EXCEPT ![FirstId] = thread[t].shot.cut]
  /\ UNCHANGED <<rows, saving, source>>
Encode(t) ==
  /\ thread[t].pc = "encode"
  /\ LET i == thread[t].shot.index IN
       \/ Leave(t) /\ UNCHANGED disk
       \/ /\ disk[i] # None
          /\ \E c \in {thread[t].shot.cut} \cup (IF thread[t].clash THEN {Partial} ELSE {}) :
               disk' = [disk EXCEPT ![i] = c]
          /\ thread' = [thread EXCEPT ![t].pc = "commit", ![t].clash = FALSE]
  /\ UNCHANGED <<rows, saving, source>>

Marked(t) == IF thread[t].mark = 0 THEN UNCHANGED candidates ELSE SetStatus(thread[t].mark, "rendered")
Unmarkable(t) == thread[t].mark # 0 /\ ~HasRow(thread[t].mark)

(* The row of the clip and its usage event are committed together, with    *)
(* the status of the candidate that was rendered before: the one of this   *)
(* candidate is only set after it.                                         *)
CommitClip(t) ==
  /\ thread[t].pc = "commit" /\ Len(clips) < MaxClips
  /\ LET s == thread[t].shot IN
       IF Unmarkable(t) THEN Leave(t) /\ UNCHANGED <<candidates, clips>>
       ELSE /\ clips' = Append(clips, [index |-> s.index, cut |-> s.cut])
            /\ Marked(t)
            /\ thread' = [thread EXCEPT ![t] =
                 [Idle EXCEPT !.pc = IF thread[t].todo = {} THEN "finish" ELSE "next",
                              !.todo = thread[t].todo, !.mark = s.id, !.later = TRUE]]
  /\ UNCHANGED <<lastId, saving, disk, source>>

(* The last commit, of the route; that of a row that is gone fails.        *)
FinishRender(t) ==
  /\ thread[t].pc = "finish"
  /\ IF Unmarkable(t) THEN UNCHANGED candidates ELSE Marked(t)
  /\ Leave(t)
  /\ UNCHANGED <<lastId, saving, clips, disk, source>>

-----------------------------------------------------------------------------
(* Retention, or a deletion of the job.                                    *)
LoseFile ==
  /\ \/ \E f \in Files : disk[f] # None /\ disk' = [disk EXCEPT ![f] = None] /\ UNCHANGED source
     \/ source /\ source' = FALSE /\ UNCHANGED disk
  /\ UNCHANGED <<rows, saving, thread>>

RestartWeb ==
  /\ thread' = [t \in Threads |-> Idle]
  /\ UNCHANGED <<rows, saving, disk, source>>

Render(t) == StartRender(t) \/ Encode(t) \/ CommitClip(t) \/ FinishRender(t)

Next ==
  \/ ClearCandidates \/ SaveCandidate \/ EndSaving \/ Review
  \/ \E t \in Threads : RequestOne(t) \/ RequestSelected(t) \/ RequestApproved(t)
                        \/ RequestCuts(t) \/ Render(t)
  \/ LoseFile \/ RestartWeb

Spec == Init /\ [][Next]_vars

-----------------------------------------------------------------------------
TypeOK ==
  /\ candidates \subseteq [id : FirstId..MaxId, cut : Cuts, status : Decisions \cup {"pending", "rendered"}]
  /\ lastId \in FirstId - 1 .. MaxId
  /\ clips \in Seq([index : Files, cut : Cuts])
  /\ disk \in [Files -> Cuts \cup {None, Partial}]
  /\ {saving, source} \subseteq BOOLEAN
  /\ \A t \in Threads :
       /\ thread[t].pc \in {"idle", "next", "encode", "commit", "finish"}
       /\ thread[t].todo \subseteq [id : Nat, index : Files, cut : Cuts]

(* A candidate says "rendered" only if a clip of just this part of the     *)
(* video was committed, whatever fails in between, and although candidates *)
(* are deleted and made again meanwhile (render_workflow.py 66-71).        *)
RenderedHasClip ==
  \A c \in candidates : c.status = "rendered" =>
    \E k \in DOMAIN clips : clips[k].index = c.id /\ clips[k].cut = c.cut

(* The file of a clip that was rendered from a candidate is that clip, or  *)
(* is being written, spoilt or gone: it is never the clip of another       *)
(* candidate, as the name is made of the id, if no rank and no index of a  *)
(* manual render is one (render_workflow.py 24, clipping.py 82-89).        *)
FileShowsClip ==
  \A k \in DOMAIN clips : clips[k].index \in FirstId..MaxId =>
    disk[clips[k].index] \in {None, Partial, clips[k].cut}

(* The same for every clip.                                                *)
EveryFileShowsItsClip ==
  \A k \in DOMAIN clips : disk[clips[k].index] \in {None, Partial, clips[k].cut}
=============================================================================
