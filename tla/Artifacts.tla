----------------------------- MODULE Artifacts -----------------------------
(***************************************************************************)
(* What becomes of the files of one job that is done: clips as they are    *)
(* rendered (module Rendering, of which only the file and the row are kept *)
(* here), export bundles (services/exports.py), the retention that every   *)
(* worker runs when it polls (retention.py), the deletion of the job (web/ *)
(* pages/actions.py), and the storage (storage.py): a disk and, with s3 or *)
(* r2, a bucket that it caches.                                            *)
(*                                                                         *)
(* The rows of clips and of the job keep the paths of files that are gone. *)
(***************************************************************************)
EXTENDS Integers, Sequences, FiniteSets, SequencesExt

CONSTANTS
  Threads,     \* of the web process
  ClipFiles,   \* names of clips: several rows can have the same
  Source,      \* the video of the job, with its audio, transcript and result
  Remote,      \* storage_backend is s3 or r2
  Preserve,    \* settings.preserve_approved_artifacts
  MaxClips,    \* bound: clips
  MaxExports,  \* bound: export bundles
  MaxFaults    \* bound: disks that are lost, files that cannot be removed

ASSUME ArtifactsAssumption ==
  /\ {Remote, Preserve} \subseteq BOOLEAN
  /\ {MaxClips, MaxExports, MaxFaults} \subseteq Nat
  /\ Source \notin ClipFiles

VARIABLES
  clips,    \* rows, in the order of their ids
  disk,     \* files on the disk, that are whole or not
  bucket,   \* files that have an object in the bucket
  thread,   \* the request of each thread
  sweep,    \* retention, and a request that deletes the job
  expired,  \* updated_at of the job is before the cutoff
  exports,  \* how many exports were begun
  faults

storageVars == <<clips, disk, bucket, thread, sweep, expired, exports, faults>>

Export(n) == <<"export", n>>
ExportFiles == {Export(n) : n \in 1..MaxExports}
Files == ClipFiles \cup ExportFiles \cup {Source}

ASSUME FilesAssumption == ClipFiles \cap ExportFiles = {} /\ Source \notin ExportFiles

Idle == [pc |-> "idle", file |-> Source]
Sweepers == {"retention", "delete"}
Swept == [stage |-> "off", todo |-> <<>>]

StorageInit ==
  /\ clips = <<>>
  /\ disk = [f \in Files |-> IF f = Source THEN "whole" ELSE "none"]
  /\ bucket = IF Remote THEN {Source} ELSE {}
  /\ thread = [t \in Threads |-> Idle]
  /\ sweep = [x \in Sweepers |-> Swept]
  /\ expired = FALSE
  /\ exports = 0 /\ faults = 0

On(f) == disk[f] # "none"
Preserved(k) == Preserve /\ clips[k].status = "ready"

(* sync_path needs the file only where it has to upload it.                *)
Sync(f) == (Remote => On(f)) /\ bucket' = IF Remote THEN bucket \cup {f} ELSE bucket

To(t, label) == thread' = [thread EXCEPT ![t].pc = label]
Leave(t) == thread' = [thread EXCEPT ![t] = Idle]

-----------------------------------------------------------------------------
(* A clip: ffmpeg begins, ends or fails; the file is uploaded, or is not;  *)
(* the row is committed.                                                   *)
StartClip(t) ==
  /\ thread[t].pc = "idle" /\ On(Source) /\ Len(clips) < MaxClips
  /\ \E f \in ClipFiles :
       /\ disk' = [disk EXCEPT ![f] = "partial"]
       /\ thread' = [thread EXCEPT ![t] = [pc |-> "encode", file |-> f]]
  /\ UNCHANGED <<clips, bucket, sweep, expired, exports, faults>>

EndEncode(t) ==
  /\ thread[t].pc = "encode"
  /\ \/ Leave(t) /\ UNCHANGED disk
     \/ /\ On(thread[t].file) /\ To(t, "sync")
        /\ disk' = [disk EXCEPT ![thread[t].file] = "whole"]
  /\ UNCHANGED <<clips, bucket, sweep, expired, exports, faults>>

SyncClip(t) ==
  /\ thread[t].pc = "sync"
  /\ \/ Remote /\ Leave(t) /\ UNCHANGED bucket
     \/ Sync(thread[t].file) /\ To(t, "commit")
  /\ UNCHANGED <<clips, disk, sweep, expired, exports, faults>>

CommitClip(t) ==
  /\ thread[t].pc = "commit" /\ Len(clips) < MaxClips
  /\ clips' = Append(clips, [file |-> thread[t].file, status |-> "draft", late |-> FALSE])
  /\ Leave(t)
  /\ UNCHANGED <<disk, bucket, sweep, expired, exports, faults>>

(* build_job_export_bundle: the bundle is written at its final name.       *)
StartExport(t) ==
  /\ thread[t].pc = "idle" /\ clips # <<>> /\ exports < MaxExports
  /\ exports' = exports + 1
  /\ disk' = [disk EXCEPT ![Export(exports')] = "partial"]
  /\ thread' = [thread EXCEPT ![t] = [pc |-> "zip", file |-> Export(exports')]]
  /\ UNCHANGED <<clips, bucket, sweep, expired, faults>>

EndExport(t) ==
  /\ thread[t].pc = "zip" /\ Leave(t)
  /\ LET f == thread[t].file IN
       IF On(f) THEN disk' = [disk EXCEPT ![f] = "whole"] /\ Sync(f)
       ELSE UNCHANGED <<disk, bucket>>
  /\ UNCHANGED <<clips, sweep, expired, exports, faults>>

(* update_clip_publication_status, of the API and of the page.  Retention  *)
(* treats a published clip as one that is ready, and a discarded one as a  *)
(* draft.  (late is history: it became ready while clips were removed)     *)
PublicationStatuses == {"draft", "ready"}
Publish ==
  /\ \E k \in DOMAIN clips, s \in PublicationStatuses :
       clips' = [clips EXCEPT ![k].status = s,
                              ![k].late = s = "ready" /\ sweep["retention"].stage = "clips"]
  /\ UNCHANGED <<disk, bucket, thread, sweep, expired, exports, faults>>

-----------------------------------------------------------------------------
(* cleanup_expired_workspace_artifacts, and delete_job_from_page, which    *)
(* preserves no clip.  The clips are read once, in no particular order, the*)
(* exports are listed when their turn comes.  (Nothing here reads the      *)
(* status "deleted".)                                                      *)
AfterClips == [retention |-> [off |-> "clips", clips |-> "off", job |-> "exports", exports |-> "off"],
               delete |-> [off |-> "job", job |-> "clips", clips |-> "exports", exports |-> "off"]]
After == [retention |-> [off |-> "clips", clips |-> "job", job |-> "exports", exports |-> "off"],
          delete |-> [off |-> "job", job |-> "clips", clips |-> "exports", exports |-> "off"]]

UnprotectedAll(x) == SetToSeq(DOMAIN clips)
Unprotected(x) == SetToSeq({k \in DOMAIN clips : x = "delete" \/ ~Preserved(k)})

(* list() of the disk, and that of the bucket, of whose objects the        *)
(* callers use those that are cached.                                      *)
OnDisk == {f \in ExportFiles : On(f)}
InBucket == {f \in ExportFiles : f \in bucket}
Listed == IF Remote THEN InBucket \cap OnDisk ELSE OnDisk
Todo(x, stage) ==
  CASE stage = "clips" -> [n \in DOMAIN Unprotected(x) |-> clips[Unprotected(x)[n]].file]
    [] stage = "job" -> <<Source>>
    [] stage = "exports" -> SetToSeq(Listed)
    [] OTHER -> <<>>

Proceed(x) ==
  /\ sweep[x].todo = <<>>
  /\ sweep[x].stage = "off" /\ x = "retention" => expired
  /\ LET stage == After[x][sweep[x].stage] IN
       sweep' = [sweep EXCEPT ![x] = [stage |-> stage, todo |-> Todo(x, stage)]]
  /\ clips' = [k \in DOMAIN clips |-> [clips[k] EXCEPT !.late = @ /\ x # "retention"]]
  /\ UNCHANGED <<disk, bucket, thread, expired, exports, faults>>

(* It is ignored that a file cannot be removed from the disk, or that its  *)
(* object cannot, whose key is known from the path of a row only while the *)
(* file is on the disk.                                                    *)
Removable(f) == IF On(f) THEN {"file"} \cup (IF f \in bucket THEN {"object"} ELSE {}) ELSE {}
RemoveFile(f) == disk' = [disk EXCEPT ![f] = "none"]
RemoveObject(f) == bucket' = bucket \ {f}
Unlink(x) ==
  /\ sweep[x].todo # <<>>
  /\ sweep' = [sweep EXCEPT ![x].todo = Tail(@)]
  /\ LET f == Head(sweep[x].todo) IN
       \E failed \in SUBSET Removable(f) :
         /\ faults' = faults + Cardinality(failed) /\ faults' <= MaxFaults
         /\ IF "file" \in Removable(f) \ failed THEN RemoveFile(f) ELSE UNCHANGED disk
         /\ IF "object" \in Removable(f) \ failed THEN RemoveObject(f) ELSE UNCHANGED bucket
  /\ UNCHANGED <<clips, thread, expired, exports>>

Sweep(x) == Proceed(x) \/ Unlink(x)

-----------------------------------------------------------------------------
(* Time passes, and a retry of a step updates the job.                     *)
Age ==
  /\ expired' = ~expired
  /\ UNCHANGED <<clips, disk, bucket, thread, sweep, exports, faults>>

(* The web process starts again, or a worker.                              *)
RestartWeb ==
  /\ thread' = [t \in Threads |-> Idle]
  /\ sweep' = [sweep EXCEPT !["delete"] = Swept]
  /\ UNCHANGED <<clips, disk, bucket, expired, exports, faults>>

RestartWorker ==
  /\ faults < MaxFaults /\ faults' = faults + 1
  /\ sweep' = [sweep EXCEPT !["retention"] = Swept]
  /\ clips' = [k \in DOMAIN clips |-> [clips[k] EXCEPT !.late = FALSE]]
  /\ UNCHANGED <<disk, bucket, thread, expired, exports>>

(* The disk is lost when the host is replaced: a cache can be.             *)
LoseDisk ==
  /\ Remote /\ faults < MaxFaults /\ faults' = faults + 1
  /\ disk' = [f \in Files |-> "none"]
  /\ UNCHANGED <<clips, bucket, thread, sweep, expired, exports>>

StorageNext ==
  \/ \E t \in Threads : StartClip(t) \/ EndEncode(t) \/ SyncClip(t) \/ CommitClip(t)
                        \/ StartExport(t) \/ EndExport(t)
  \/ \E x \in Sweepers : Sweep(x)
  \/ Publish \/ Age \/ RestartWeb \/ RestartWorker \/ LoseDisk

StorageSpec == StorageInit /\ [][StorageNext]_storageVars

(* A worker polls as long as it runs (run_worker).                         *)
FairStorageSpec == StorageSpec /\ WF_storageVars(Sweep("retention"))

-----------------------------------------------------------------------------
TypeOK ==
  /\ clips \in Seq([file : ClipFiles, status : PublicationStatuses, late : BOOLEAN])
  /\ disk \in [Files -> {"none", "partial", "whole"}] /\ bucket \subseteq Files
  /\ thread \in [Threads -> [pc : {"idle", "encode", "sync", "commit", "zip"}, file : Files]]
  /\ \A x \in Sweepers : sweep[x].stage \in DOMAIN After[x] /\ sweep[x].todo \in Seq(Files)
  /\ expired \in BOOLEAN /\ exports \in 0..MaxExports /\ faults \in 0..MaxFaults

(* Retention catches up: time and again nothing of an expired job is on    *)
(* the disk that it takes, clips that are drafts and exports, although     *)
(* workers restart, a file cannot be removed at first, or a render or an   *)
(* export that was under way ends after it (worker.py 80, retention.py     *)
(* 72-127).                                                                *)
Due(f) ==
  /\ expired /\ On(f)
  /\ f \in Listed \/ \E k \in DOMAIN clips : clips[k].file = f /\ ~Preserved(k)
Reclaimed == []<>(\A f \in ClipFiles \cup ExportFiles : ~Due(f))

(* A clip that is protected keeps its file, however retention, renders and *)
(* restarts overlap, but if it was protected too late, while the clips     *)
(* were being removed, or if another clip has the same file                *)
(* (retention.py 85-105).                                                  *)
Removes(f) == sweep["retention"] # sweep'["retention"] /\ On(f) /\ disk'[f] = "none"
Shared(k) == \E j \in DOMAIN clips \ {k} : clips[j].file = clips[k].file
ProtectedKept ==
  [][\A k \in DOMAIN clips :
       Removes(clips[k].file) => ~Preserved(k) \/ clips[k].late \/ Shared(k)]_storageVars

(* The same without these exceptions.                                      *)
KeepsProtected == [][\A k \in DOMAIN clips : Removes(clips[k].file) => ~Preserved(k)]_storageVars

=============================================================================
