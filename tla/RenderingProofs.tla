-------------------------- MODULE RenderingProofs --------------------------
(***************************************************************************)
(* For any requests, parts of the video and names: where the database does *)
(* not give the id of a deleted candidate to another, a candidate says     *)
(* "rendered" only if there is a clip of it, and the file of a clip that   *)
(* was cut for a candidate never holds another part of the video, if its   *)
(* name is not that of a rank or of a manual render.                       *)
(***************************************************************************)
EXTENDS Rendering, SequenceTheorems, TLAPS

CandidateRows == [id : Nat \ {0}, cut : Cuts, status : {"pending", "approved", "rejected", "rendered"}]
Shots == [id : Nat, index : Nat, cut : Cuts \cup {"no_cut"}]
ClipRows == [index : Nat, cut : Cuts \cup {"no_cut"}]
Pcs == {"idle", "next", "encode", "commit", "finish"}
RequestStates == [pc : Pcs, todo : SUBSET Shots, shot : Shots, mark : Nat, later : BOOLEAN, clash : BOOLEAN]

Typed ==
  /\ candidates \subseteq CandidateRows /\ lastId \in Nat
  /\ clips \in Seq(ClipRows)
  /\ thread \in [Threads -> RequestStates]

(* Whichever candidate has this id now, or will have it, is of this cut.   *)
Fits(id, cut) == id <= lastId /\ \A c \in candidates : c.id = id => c.cut = cut
RowsFit == \A c \in candidates : Fits(c.id, c.cut)

(* A request goes on with what it read, of candidates that may be gone.    *)
ShotsOf(t) == thread[t].todo \cup {thread[t].shot}
Named(s) == s.index = s.id /\ Fits(s.id, s.cut)
ShotsFit == \A t \in Threads : \A s \in ShotsOf(t) : s.id = 0 \/ Named(s)

(* What it has yet to mark has a clip.                                     *)
HasClip(id) == \E k \in DOMAIN clips : clips[k].index = id /\ Fits(id, clips[k].cut)
MarksFit == \A t \in Threads : thread[t].mark = 0 \/ HasClip(thread[t].mark)

RenderInv == Typed /\ RowsFit /\ ShotsFit /\ MarksFit /\ RenderedHasClip

-----------------------------------------------------------------------------
(* What every step keeps: rows are changed in their status, deleted, or    *)
(* inserted with a new id; clips are added; requests take up shots of rows *)
(* that are there, and marks of clips that are.                            *)
Old(c) == \E d \in candidates : d.id = c.id /\ d.cut = c.cut
WasRendered(c) == \E d \in candidates : d.id = c.id /\ d.cut = c.cut /\ d.status = "rendered"
ClipOf(c) == \E k \in DOMAIN clips : clips[k].index = c.id /\ clips[k].cut = c.cut
RowsKept ==
  /\ lastId <= lastId'
  /\ \A c \in candidates' : Old(c) \/ (lastId < c.id /\ Fits(c.id, c.cut)')
  /\ \A c \in candidates' : c.status = "rendered" => WasRendered(c) \/ ClipOf(c)
ClipsKept == \A k \in DOMAIN clips : k \in DOMAIN clips' /\ clips'[k] = clips[k]
ShotsKept == \A t \in Threads : \A s \in ShotsOf(t)' : s \in ShotsOf(t) \/ s.id = 0 \/ Named(s)
MarksKept == \A t \in Threads :
  \/ thread'[t].mark \in {0, thread[t].mark}
  \/ \E k \in DOMAIN clips' : clips'[k].index = thread'[t].mark /\ Fits(thread'[t].mark, clips'[k].cut)

LEMMA FitsKept ==
  ASSUME Typed, Typed', RowsKept, NEW id \in Nat, NEW cut, Fits(id, cut)
  PROVE  Fits(id, cut)'
<1>1. id <= lastId'
  BY DEF Fits, Typed, RowsKept
<1>2. ASSUME NEW c \in candidates', c.id = id PROVE c.cut = cut
  <2>1. c.id \in Nat /\ lastId \in Nat
    BY DEF Typed, CandidateRows
  <2>2. ~(lastId < c.id)
    BY <1>2, <2>1 DEF Fits
  <2>3. PICK d \in candidates : d.id = c.id /\ d.cut = c.cut
    BY <2>2 DEF RowsKept, Old
  <2> QED BY <2>3, <1>2 DEF Fits
<1> QED BY <1>1, <1>2 DEF Fits

LEMMA StepKeeps ==
  ASSUME RenderInv, Typed', RowsKept, ClipsKept, ShotsKept, MarksKept
  PROVE  RenderInv'
<1>0. Typed
  BY DEF RenderInv
<1>1. RowsFit'
  <2> SUFFICES ASSUME NEW c \in candidates' PROVE Fits(c.id, c.cut)'
    BY DEF RowsFit
  <2>1. CASE Old(c)
    <3>1. Fits(c.id, c.cut)
      BY <2>1 DEF Old, RenderInv, RowsFit
    <3>2. c.id \in Nat
      BY DEF Typed, CandidateRows
    <3> QED BY <1>0, <3>1, <3>2, FitsKept
  <2>2. CASE ~Old(c)
    BY <2>2 DEF RowsKept
  <2> QED BY <2>1, <2>2
<1>2. ShotsFit'
  <2> SUFFICES ASSUME NEW t \in Threads, NEW s \in ShotsOf(t)', s.id # 0
               PROVE  s.index = s.id /\ Fits(s.id, s.cut)'
    BY DEF ShotsFit, Named
  <2>1. s.id \in Nat
    BY DEF ShotsOf, Typed, RequestStates, Shots
  <2>2. s.index = s.id /\ Fits(s.id, s.cut)
    BY DEF ShotsKept, RenderInv, ShotsFit, Named
  <2> QED BY <1>0, <2>1, <2>2, FitsKept
<1>3. MarksFit'
  <2> SUFFICES ASSUME NEW t \in Threads, thread'[t].mark # 0 PROVE HasClip(thread[t].mark)'
    BY DEF MarksFit
  <2>1. thread'[t].mark \in Nat
    BY DEF Typed, RequestStates
  <2>2. PICK k \in DOMAIN clips' :
          clips'[k].index = thread'[t].mark /\ Fits(thread'[t].mark, clips'[k].cut)
    <3>1. CASE thread'[t].mark = thread[t].mark
      <4>1. PICK k \in DOMAIN clips : clips[k].index = thread[t].mark /\ Fits(thread[t].mark, clips[k].cut)
        BY <3>1 DEF RenderInv, MarksFit, HasClip
      <4> QED BY <3>1, <4>1 DEF ClipsKept
    <3> QED BY <3>1 DEF MarksKept
  <2>3. Fits(thread[t].mark, clips[k].cut)'
    <3>1. PICK id \in Nat : id = thread'[t].mark
      BY <2>1
    <3>2. PICK cut : cut = clips'[k].cut
      OBVIOUS
    <3>3. Fits(id, cut)'
      BY <1>0, <2>2, <3>1, <3>2, FitsKept
    <3> QED BY <3>1, <3>2, <3>3 DEF Fits
  <2> QED BY <2>2, <2>3 DEF HasClip
<1>4. RenderedHasClip'
  <2> SUFFICES ASSUME NEW c \in candidates', c.status = "rendered"
               PROVE  \E k \in DOMAIN clips' : clips'[k].index = c.id /\ clips'[k].cut = c.cut
    BY DEF RenderedHasClip
  <2>1. PICK k \in DOMAIN clips : clips[k].index = c.id /\ clips[k].cut = c.cut
    <3>1. CASE WasRendered(c)
      BY <3>1 DEF WasRendered, RenderInv, RenderedHasClip
    <3>2. CASE ClipOf(c)
      BY <3>2 DEF ClipOf
    <3> QED BY <3>1, <3>2 DEF RowsKept
  <2> QED BY <2>1 DEF ClipsKept
<1> QED BY <1>1, <1>2, <1>3, <1>4 DEF RenderInv

(* Requests that go on with what they have, or end.                        *)
LEMMA SameRows == ASSUME Typed, RenderInv, UNCHANGED <<candidates, lastId>> PROVE RowsKept
<1>1. lastId <= lastId'
  BY DEF Typed
<1>2. \A c \in candidates' : Old(c) /\ (c.status = "rendered" => WasRendered(c))
  BY DEF Old, WasRendered
<1> QED BY <1>1, <1>2 DEF RowsKept

LEMMA SameClips == ASSUME UNCHANGED clips PROVE ClipsKept
BY DEF ClipsKept

LEMMA SameThreads == ASSUME UNCHANGED thread PROVE ShotsKept /\ MarksKept
BY DEF ShotsKept, ShotsOf, MarksKept

LEMMA IdleTyped == Idle \in RequestStates /\ Idle.todo = {} /\ Idle.shot.id = 0 /\ Idle.mark = 0
BY DEF Idle, NoShot, RequestStates, Shots, Pcs

(* The statuses of rows change, and those that say "rendered" then have a  *)
(* clip, or said so.                                                       *)
LEMMA StatusTyped ==
  ASSUME Typed, NEW c \in candidates, NEW s \in {"pending", "approved", "rejected", "rendered"},
         NEW d, d = [c EXCEPT !.status = s]
  PROVE  d \in CandidateRows /\ d.id = c.id /\ d.cut = c.cut /\ d.status = s
BY DEF Typed, CandidateRows

LEMMA MarkKeepsRows ==
  ASSUME RenderInv, NEW id \in Nat, id # 0, HasClip(id), SetStatus(id, "rendered"), UNCHANGED lastId
  PROVE  RowsKept /\ candidates' \subseteq CandidateRows
<1>0. Typed
  BY DEF RenderInv
<1>1. \A c \in candidates' : \E d \in candidates :
        \/ c = d
        \/ d.id = id /\ c = [d EXCEPT !.status = "rendered"]
  BY DEF SetStatus
<1>2. ASSUME NEW c \in candidates' PROVE c \in CandidateRows /\ Old(c)
  <2>1. PICK d \in candidates : c = d \/ (d.id = id /\ c = [d EXCEPT !.status = "rendered"])
    BY <1>1
  <2>2. CASE c = d
    BY <1>0, <2>2 DEF Old, Typed
  <2>3. CASE c = [d EXCEPT !.status = "rendered"]
    BY <1>0, <2>3, StatusTyped DEF Old
  <2> QED BY <2>1, <2>2, <2>3
<1>3. ASSUME NEW c \in candidates', c.status = "rendered" PROVE WasRendered(c) \/ ClipOf(c)
  <2>1. PICK d \in candidates : c = d \/ (d.id = id /\ c = [d EXCEPT !.status = "rendered"])
    BY <1>1
  <2>2. CASE c = d
    BY <1>3, <2>2 DEF WasRendered
  <2>3. CASE d.id = id /\ c = [d EXCEPT !.status = "rendered"]
    <3>1. c.id = d.id /\ c.cut = d.cut
      BY <1>0, <2>3, StatusTyped
    <3>2. PICK k \in DOMAIN clips : clips[k].index = id /\ Fits(id, clips[k].cut)
      BY DEF HasClip
    <3> QED BY <2>3, <3>1, <3>2 DEF ClipOf, Fits
  <2> QED BY <2>1, <2>2, <2>3
<1>4. lastId <= lastId'
  BY <1>0 DEF Typed
<1> QED BY <1>2, <1>3, <1>4 DEF RowsKept

-----------------------------------------------------------------------------
LEMMA ReviewKeeps == ASSUME RenderingAssumption, RenderInv, Review PROVE RenderInv'
<1>0. Typed
  BY DEF RenderInv
<1>1. PICK s \in Decisions :
        \A c \in candidates' : \E d \in candidates : c = d \/ c = [d EXCEPT !.status = s]
  BY DEF Review, SetStatus
<1>2. s \in {"pending", "approved", "rejected"}
  BY DEF RenderingAssumption
<1>3. ASSUME NEW c \in candidates'
      PROVE  c \in CandidateRows /\ Old(c) /\ (c.status = "rendered" => WasRendered(c))
  <2>1. PICK d \in candidates : c = d \/ c = [d EXCEPT !.status = s]
    BY <1>1
  <2>2. CASE c = d
    BY <1>0, <2>2 DEF Old, WasRendered, Typed
  <2>3. CASE c = [d EXCEPT !.status = s]
    <3>1. c \in CandidateRows /\ d.id = c.id /\ d.cut = c.cut /\ c.status = s
      BY <1>0, <1>2, <2>3, StatusTyped
    <3> QED BY <1>2, <3>1 DEF Old
  <2> QED BY <2>1, <2>2, <2>3
<1>4. UNCHANGED <<lastId, clips, thread>>
  BY DEF Review
<1>5. lastId <= lastId'
  BY <1>0, <1>4 DEF Typed
<1>6. RowsKept
  BY <1>3, <1>5 DEF RowsKept
<1>7. Typed'
  BY <1>0, <1>3, <1>4 DEF Typed
<1> QED BY <1>4, <1>6, <1>7, SameClips, SameThreads, StepKeeps

LEMMA CandidatesKeep ==
  ASSUME RenderingAssumption, ~ReusesIds, RenderInv,
         ClearCandidates \/ SaveCandidate \/ EndSaving \/ LoseFile
  PROVE  RenderInv'
<1>0. Typed
  BY DEF RenderInv
<1>1. UNCHANGED <<clips, thread>>
  BY DEF ClearCandidates, SaveCandidate, EndSaving, LoseFile, rows
<1>2. RowsKept /\ Typed'
  <2>1. CASE ClearCandidates
    <3>1. candidates' = {} /\ lastId' = lastId /\ lastId <= lastId'
      BY <1>0, <2>1 DEF ClearCandidates, Typed
    <3> QED BY <1>0, <1>1, <3>1 DEF RowsKept, Typed
  <2>2. CASE EndSaving \/ LoseFile
    BY <1>0, <2>2, SameRows DEF EndSaving, LoseFile, rows, Typed
  <2>3. CASE SaveCandidate
    <3>1. NextId = lastId + 1
      BY DEF NextId
    <3>2. PICK cut \in Cuts :
            candidates' = candidates \cup {[id |-> lastId + 1, cut |-> cut, status |-> "pending"]}
      BY <2>3, <3>1 DEF SaveCandidate
    <3>n. PICK new : new = [id |-> lastId + 1, cut |-> cut, status |-> "pending"]
      OBVIOUS
    <3>3. lastId' = lastId + 1 /\ lastId < lastId' /\ lastId' \in Nat \ {0} /\ lastId \in Nat
      <4>1. lastId' = lastId + 1
        BY <2>3, <3>1 DEF SaveCandidate
      <4>2. lastId \in Nat
        BY <1>0 DEF Typed
      <4> QED BY <4>1, <4>2
    <3>4. new \in CandidateRows /\ new.id = lastId' /\ new.cut = cut /\ new.status = "pending"
      BY <3>n, <3>3 DEF CandidateRows
    <3>5. candidates' = candidates \cup {new}
      BY <3>n, <3>2
    <3>6. \A c \in candidates : c.id # lastId' /\ Old(c) /\ (c.status = "rendered" => WasRendered(c))
      <4> SUFFICES ASSUME NEW c \in candidates PROVE c.id # lastId'
        BY DEF Old, WasRendered
      <4>1. c.id \in Nat /\ c.id <= lastId
        BY <1>0 DEF Typed, CandidateRows, RenderInv, RowsFit, Fits
      <4>2. PICK id \in Nat : id = c.id
        BY <4>1
      <4> QED BY <3>3, <4>1, <4>2
    <3>7. Fits(new.id, new.cut)'
      <4>1. new.id <= lastId'
        BY <3>3, <3>4
      <4>2. \A c \in candidates' : c.id = new.id => c.cut = new.cut
        BY <3>4, <3>5, <3>6
      <4> QED BY <4>1, <4>2 DEF Fits
    <3>8. RowsKept
      <4>1. lastId <= lastId' /\ lastId < new.id
        BY <3>3, <3>4
      <4>2. ASSUME NEW c \in candidates'
            PROVE  Old(c) \/ (lastId < c.id /\ Fits(c.id, c.cut)')
        BY <3>5, <3>6, <3>7, <4>1
      <4>3. ASSUME NEW c \in candidates', c.status = "rendered" PROVE WasRendered(c)
        BY <3>4, <3>5, <3>6, <4>3
      <4> QED BY <4>1, <4>2, <4>3 DEF RowsKept
    <3> QED BY <1>0, <1>1, <3>3, <3>4, <3>5, <3>8 DEF Typed
  <2> QED BY <2>1, <2>2, <2>3
<1> QED BY <1>1, <1>2, SameClips, SameThreads, StepKeeps

(* One request changes its state; what the others note of it is no shot.   *)
Follows(t, r) ==
  /\ thread'[t] = r /\ thread' \in [Threads -> RequestStates]
  /\ \A u \in Threads \ {t} : ShotsOf(u)' = ShotsOf(u) /\ thread'[u].mark = thread[u].mark

LEMMA Sets ==
  ASSUME Typed, NEW t \in Threads, NEW r \in RequestStates, thread' = [thread EXCEPT ![t] = r]
  PROVE  Follows(t, r)
BY DEF Typed, Follows, ShotsOf

LEMMA RequestKeeps ==
  ASSUME RenderInv, RowsKept, ClipsKept, candidates' \subseteq CandidateRows, lastId' \in Nat,
         clips' \in Seq(ClipRows), NEW t \in Threads, NEW r \in RequestStates, Follows(t, r),
         \A s \in r.todo \cup {r.shot} : s \in ShotsOf(t) \/ s.id = 0 \/ Named(s),
         \/ r.mark \in {0, thread[t].mark}
         \/ \E k \in DOMAIN clips' : clips'[k].index = r.mark /\ Fits(r.mark, clips'[k].cut)
  PROVE  RenderInv'
<1>1. Typed'
  BY DEF Typed, Follows
<1>2. ShotsKept
  BY DEF ShotsKept, Follows, ShotsOf
<1>3. MarksKept
  BY DEF MarksKept, Follows
<1> QED BY <1>1, <1>2, <1>3, StepKeeps

LEMMA SameAll ==
  ASSUME RenderInv, UNCHANGED rows
  PROVE  /\ RowsKept /\ ClipsKept
         /\ candidates' \subseteq CandidateRows /\ lastId' \in Nat /\ clips' \in Seq(ClipRows)
BY SameRows, SameClips DEF RenderInv, rows, Typed

LEMMA LeaveKeeps ==
  ASSUME RenderInv, NEW t \in Threads, Leave(t), RowsKept, ClipsKept,
         candidates' \subseteq CandidateRows, lastId' \in Nat, clips' \in Seq(ClipRows)
  PROVE  RenderInv'
<1>1. Follows(t, Idle)
  BY IdleTyped, Sets DEF Leave, RenderInv
<1> QED BY <1>1, IdleTyped, RequestKeeps

-----------------------------------------------------------------------------
(* Requests.                                                               *)
LEMMA BeginKeeps ==
  ASSUME RenderInv, NEW t \in Threads, NEW S \in SUBSET Shots, Begin(t, S),
         \A s \in S : s.id = 0 \/ Named(s)
  PROVE  RenderInv'
<1>1. PICK r : r = [Idle EXCEPT !.pc = "next", !.todo = S]
  OBVIOUS
<1>2. r \in RequestStates /\ r.todo = S /\ r.shot.id = 0 /\ r.mark = 0
  BY <1>1 DEF Idle, NoShot, RequestStates, Shots, Pcs
<1>3. Follows(t, r) /\ UNCHANGED rows
  BY <1>1, <1>2, Sets DEF Begin, RenderInv
<1> QED BY <1>2, <1>3, SameAll, RequestKeeps

LEMMA ShotsOfRows ==
  ASSUME RenderInv, NEW c \in candidates
  PROVE  Shot(c) \in Shots /\ Named(Shot(c)) /\ Shot(c).id = c.id
<1>1. c \in CandidateRows
  BY DEF RenderInv, Typed
<1>2. Shot(c) \in Shots /\ Shot(c).id = c.id /\ Shot(c).index = c.id /\ Shot(c).cut = c.cut
  BY <1>1 DEF Shot, Shots, CandidateRows
<1> QED BY <1>2 DEF Named, RenderInv, RowsFit

LEMMA RequestsKeep ==
  ASSUME RenderInv, NEW t \in Threads,
         RequestOne(t) \/ RequestSelected(t) \/ RequestApproved(t)
  PROVE  RenderInv'
<1>1. PICK S \in SUBSET candidates : Begin(t, {Shot(c) : c \in S})
  <2>1. CASE RequestOne(t)
    <3>1. PICK c \in candidates : Begin(t, {Shot(c)})
      BY <2>1 DEF RequestOne
    <3>2. {Shot(d) : d \in {c}} = {Shot(c)}
      OBVIOUS
    <3> QED BY <3>1, <3>2
  <2>2. CASE RequestSelected(t)
    BY <2>2 DEF RequestSelected
  <2>3. CASE RequestApproved(t)
    BY <2>3 DEF RequestApproved, Approved
  <2> QED BY <2>1, <2>2, <2>3
<1>2. PICK T : T = {Shot(c) : c \in S}
  OBVIOUS
<1>3. T \in SUBSET Shots /\ \A s \in T : Named(s)
  BY <1>2, ShotsOfRows
<1> QED BY <1>1, <1>2, <1>3, BeginKeeps

LEMMA CutsKeep ==
  ASSUME RenderingAssumption, RenderInv, NEW t \in Threads, RequestCuts(t)
  PROVE  RenderInv'
<1>1. PICK S \in Ranked \cup RankedOne \cup Manual : Begin(t, S)
  BY DEF RequestCuts
<1>2. ASSUME NEW i \in Ranks \cup Manuals, NEW cut \in Cuts
      PROVE  Plain(i, cut) \in Shots /\ Plain(i, cut).id = 0
  BY DEF Plain, Shots, RenderingAssumption
<1>3. S \in SUBSET Shots /\ \A s \in S : s.id = 0
  <2>1. CASE S \in Ranked
    <3>1. PICK cut \in [Ranks -> Cuts] : S = {Plain(i, cut[i]) : i \in Ranks}
      BY <2>1 DEF Ranked
    <3> QED BY <1>2, <3>1
  <2>2. CASE S \in RankedOne \cup Manual
    <3>1. \E i \in Ranks \cup Manuals, cut \in Cuts : S = {Plain(i, cut)}
      <4>1. CASE S \in RankedOne
        BY <4>1 DEF RankedOne
      <4>2. CASE S \in Manual
        BY <4>2 DEF Manual
      <4> QED BY <2>2, <4>1, <4>2
    <3>2. PICK i \in Ranks \cup Manuals, cut \in Cuts : S = {Plain(i, cut)}
      BY <3>1
    <3> QED BY <1>2, <3>2
  <2> QED BY <2>1, <2>2
<1> QED BY <1>1, <1>3, BeginKeeps

-----------------------------------------------------------------------------
(* One shot.                                                               *)
LEMMA StartKeeps ==
  ASSUME RenderInv, NEW t \in Threads, StartRender(t)
  PROVE  RenderInv'
<1>0. Typed /\ thread[t] \in RequestStates /\ UNCHANGED rows
  BY DEF RenderInv, Typed, StartRender
<1>1. PICK s \in thread[t].todo :
        IF Gone(t, s) \/ ~source THEN Leave(t) /\ UNCHANGED disk
        ELSE /\ disk' = [disk EXCEPT ![s.index] = Partial]
             /\ thread' = [u \in Threads |->
                  IF u = t THEN [thread[t] EXCEPT !.pc = "encode", !.todo = @ \ {s},
                                   !.shot = Refreshed(t, s), !.clash = Encoding(s.index) # {}]
                  ELSE [thread[u] EXCEPT !.clash = @ \/ u \in Encoding(s.index)]]
  BY DEF StartRender
<1>2. CASE Leave(t)
  BY <1>0, <1>2, SameAll, LeaveKeeps
<1>3. CASE ~Leave(t)
  <2>1. s \in Shots /\ (s.id = 0 \/ Named(s)) /\ ~Gone(t, s)
    BY <1>0, <1>1, <1>3 DEF RenderInv, ShotsFit, ShotsOf, RequestStates
  <2>2. PICK new : new = Refreshed(t, s)
    OBVIOUS
  <2>3. new \in Shots /\ (new.id = 0 \/ Named(new))
    <3>1. CASE thread[t].later /\ s.id # 0
      <4>1. HasRow(s.id)
        BY <2>1, <3>1 DEF Gone
      <4>2. Row(s.id) \in candidates
        BY <4>1 DEF HasRow, Row
      <4> QED BY <2>2, <3>1, <4>2, ShotsOfRows DEF Refreshed
    <3>2. CASE ~(thread[t].later /\ s.id # 0)
      BY <2>1, <2>2, <3>2 DEF Refreshed
    <3> QED BY <3>1, <3>2
  <2>4. PICK clash \in BOOLEAN : clash = (Encoding(s.index) # {})
    OBVIOUS
  <2>5. PICK r : r = [thread[t] EXCEPT !.pc = "encode", !.todo = @ \ {s}, !.shot = new, !.clash = clash]
    OBVIOUS
  <2>6. /\ r \in RequestStates /\ r.todo = thread[t].todo \ {s} /\ r.shot = new
        /\ r.mark = thread[t].mark
    BY <1>0, <2>3, <2>5 DEF RequestStates, Pcs
  <2>7. thread' = [u \in Threads |-> IF u = t THEN r
                      ELSE [thread[u] EXCEPT !.clash = @ \/ u \in Encoding(s.index)]]
    BY <1>1, <1>3, <2>2, <2>4, <2>5
  <2>8. ASSUME NEW u \in Threads \ {t}
        PROVE  /\ thread'[u] \in RequestStates /\ thread'[u].mark = thread[u].mark
               /\ thread'[u].todo = thread[u].todo /\ thread'[u].shot = thread[u].shot
    <3>1. thread[u] \in RequestStates
      BY <1>0 DEF Typed
    <3>2. PICK b \in BOOLEAN : b = (thread[u].clash \/ u \in Encoding(s.index))
      OBVIOUS
    <3>3. thread'[u] = [thread[u] EXCEPT !.clash = b]
      BY <2>7, <3>2
    <3> QED BY <3>1, <3>3 DEF RequestStates
  <2>9. Follows(t, r)
    BY <2>6, <2>7, <2>8 DEF Follows, ShotsOf
  <2>10. \A x \in r.todo \cup {r.shot} : x \in ShotsOf(t) \/ x.id = 0 \/ Named(x)
    BY <2>3, <2>6 DEF ShotsOf
  <2> QED BY <1>0, <2>6, <2>9, <2>10, SameAll, RequestKeeps
<1> QED BY <1>2, <1>3

LEMMA EncodeKeeps == ASSUME RenderInv, NEW t \in Threads, Encode(t) PROVE RenderInv'
<1>0. Typed /\ thread[t] \in RequestStates /\ UNCHANGED rows
  BY DEF RenderInv, Typed, Encode
<1>1. CASE Leave(t)
  BY <1>0, <1>1, SameAll, LeaveKeeps
<1>2. CASE ~Leave(t)
  <2>1. thread' = [thread EXCEPT ![t].pc = "commit", ![t].clash = FALSE]
    BY <1>2 DEF Encode
  <2>2. PICK r : r = [thread[t] EXCEPT !.pc = "commit", !.clash = FALSE]
    OBVIOUS
  <2>3. thread' = [thread EXCEPT ![t] = r]
    BY <1>0, <2>1, <2>2 DEF Typed
  <2>4. r \in RequestStates /\ r.todo = thread[t].todo /\ r.shot = thread[t].shot /\ r.mark = thread[t].mark
    BY <1>0, <2>2 DEF RequestStates, Pcs
  <2>5. Follows(t, r)
    BY <1>0, <2>3, <2>4, Sets
  <2> QED BY <1>0, <2>4, <2>5, SameAll, RequestKeeps DEF ShotsOf
<1> QED BY <1>1, <1>2

LEMMA MarkedKeeps ==
  ASSUME RenderInv, NEW t \in Threads, Marked(t), UNCHANGED lastId
  PROVE  RowsKept /\ candidates' \subseteq CandidateRows /\ lastId' \in Nat
<1>0. Typed /\ thread[t].mark \in Nat
  BY DEF RenderInv, Typed, RequestStates
<1>1. CASE thread[t].mark = 0
  BY <1>0, <1>1, SameRows DEF Marked, Typed
<1>2. CASE thread[t].mark # 0
  <2>1. HasClip(thread[t].mark)
    BY <1>2 DEF RenderInv, MarksFit
  <2>2. SetStatus(thread[t].mark, "rendered")
    BY <1>2 DEF Marked
  <2>3. RowsKept /\ candidates' \subseteq CandidateRows
    BY <1>0, <1>2, <2>1, <2>2, MarkKeepsRows
  <2> QED BY <1>0, <2>3 DEF Typed
<1> QED BY <1>1, <1>2

LEMMA CommitKeeps == ASSUME RenderInv, NEW t \in Threads, CommitClip(t) PROVE RenderInv'
<1>0. Typed /\ thread[t] \in RequestStates /\ UNCHANGED lastId
  BY DEF RenderInv, Typed, CommitClip
<1>1. CASE Unmarkable(t)
  <2>1. Leave(t) /\ UNCHANGED rows
    BY <1>1 DEF CommitClip, rows
  <2> QED BY <2>1, SameAll, LeaveKeeps
<1>2. CASE ~Unmarkable(t)
  <2>1. PICK s : s = thread[t].shot
    OBVIOUS
  <2>2. s \in Shots /\ (s.id = 0 \/ Named(s))
    BY <1>0, <2>1 DEF RenderInv, ShotsFit, ShotsOf, RequestStates
  <2>3. PICK new : new = [index |-> s.index, cut |-> s.cut]
    OBVIOUS
  <2>4. new \in ClipRows /\ new.index = s.index /\ new.cut = s.cut
    BY <2>2, <2>3 DEF ClipRows, Shots
  <2>5. clips' = Append(clips, new) /\ Marked(t)
    BY <1>2, <2>1, <2>3 DEF CommitClip
  <2>6. clips \in Seq(ClipRows)
    BY <1>0 DEF Typed
  <2>7. /\ clips' \in Seq(ClipRows) /\ DOMAIN clips' = 1..(Len(clips) + 1)
        /\ clips'[Len(clips) + 1] = new
        /\ DOMAIN clips = 1..Len(clips) /\ Len(clips) \in Nat
        /\ \A k \in 1..Len(clips) : clips'[k] = clips[k]
    BY <2>4, <2>5, <2>6, AppendProperties
  <2>8. ClipsKept /\ Len(clips) + 1 \in DOMAIN clips'
    BY <2>7 DEF ClipsKept
  <2>9. PICK pc \in Pcs : pc = IF thread[t].todo = {} THEN "finish" ELSE "next"
    BY DEF Pcs
  <2>10. PICK r : r = [Idle EXCEPT !.pc = pc, !.todo = thread[t].todo, !.mark = s.id, !.later = TRUE]
    OBVIOUS
  <2>11. r \in RequestStates /\ r.todo = thread[t].todo /\ r.shot.id = 0 /\ r.mark = s.id
    BY <1>0, <2>2, <2>10 DEF Idle, NoShot, RequestStates, Shots, Pcs
  <2>12. thread' = [thread EXCEPT ![t] = r]
    BY <1>2, <2>1, <2>9, <2>10 DEF CommitClip
  <2>13. Follows(t, r)
    BY <1>0, <2>11, <2>12, Sets
  <2>14. \/ r.mark = 0
         \/ \E k \in DOMAIN clips' : clips'[k].index = r.mark /\ Fits(r.mark, clips'[k].cut)
    BY <2>2, <2>4, <2>7, <2>8, <2>11 DEF Named
  <2>15. RowsKept /\ candidates' \subseteq CandidateRows /\ lastId' \in Nat
    BY <1>0, <2>5, MarkedKeeps
  <2>16. \A x \in r.todo \cup {r.shot} : x \in ShotsOf(t) \/ x.id = 0
    BY <2>11 DEF ShotsOf
  <2> QED BY <2>7, <2>8, <2>11, <2>13, <2>14, <2>15, <2>16, RequestKeeps
<1> QED BY <1>1, <1>2

LEMMA FinishKeeps == ASSUME RenderInv, NEW t \in Threads, FinishRender(t) PROVE RenderInv'
<1>0. Typed /\ Leave(t) /\ UNCHANGED <<lastId, clips>>
  BY DEF RenderInv, FinishRender
<1>1. CASE Unmarkable(t)
  <2>1. UNCHANGED rows
    BY <1>0, <1>1 DEF FinishRender, rows
  <2> QED BY <1>0, <2>1, SameAll, LeaveKeeps
<1>2. CASE ~Unmarkable(t)
  <2>1. Marked(t)
    BY <1>2 DEF FinishRender
  <2>2. clips' \in Seq(ClipRows) /\ ClipsKept
    BY <1>0, SameClips DEF Typed
  <2> QED BY <1>0, <2>1, <2>2, MarkedKeeps, LeaveKeeps
<1> QED BY <1>1, <1>2

LEMMA RestartKeeps == ASSUME RenderInv, RestartWeb PROVE RenderInv'
<1>1. UNCHANGED rows /\ \A t \in Threads : thread'[t] = Idle
  BY DEF RestartWeb
<1>2. thread' \in [Threads -> RequestStates]
  BY IdleTyped DEF RestartWeb
<1>3. Typed' /\ RowsKept /\ ClipsKept
  BY <1>1, <1>2, SameAll DEF Typed
<1>4. ShotsKept /\ MarksKept
  BY <1>1, IdleTyped DEF ShotsKept, ShotsOf, MarksKept
<1> QED BY <1>3, <1>4, StepKeeps

-----------------------------------------------------------------------------
LEMMA InitRenders == ASSUME RenderingAssumption, Init PROVE RenderInv
<1>1. Typed
  <2>0. lastId = FirstId - 1 /\ clips = <<>>
    BY DEF Init
  <2>1. lastId \in Nat
    BY <2>0, RenderingAssumption DEF RenderingAssumption
  <2>2. clips \in Seq(ClipRows)
    BY <2>0
  <2> QED BY <2>1, <2>2, IdleTyped DEF Init, Typed
<1>2. RowsFit /\ RenderedHasClip
  BY DEF Init, RowsFit, RenderedHasClip
<1>3. ShotsFit /\ MarksFit
  BY IdleTyped DEF Init, ShotsFit, ShotsOf, MarksFit
<1> QED BY <1>1, <1>2, <1>3 DEF RenderInv

LEMMA NextRenders ==
  ASSUME RenderingAssumption, ~ReusesIds, RenderInv, [Next]_vars
  PROVE  RenderInv'
<1>1. CASE ClearCandidates \/ SaveCandidate \/ EndSaving \/ LoseFile
  BY <1>1, CandidatesKeep
<1>2. CASE Review
  BY <1>2, ReviewKeeps
<1>3. ASSUME NEW t \in Threads,
             RequestOne(t) \/ RequestSelected(t) \/ RequestApproved(t) \/ RequestCuts(t) \/ Render(t)
      PROVE  RenderInv'
  BY <1>3, RequestsKeep, CutsKeep, StartKeeps, EncodeKeeps, CommitKeeps, FinishKeeps DEF Render
<1>4. CASE RestartWeb
  BY <1>4, RestartKeeps
<1>5. CASE UNCHANGED vars
  <2>1. UNCHANGED <<rows, thread>> /\ Typed'
    BY <1>5 DEF vars, rows, RenderInv, Typed
  <2> QED BY <2>1, SameAll, SameThreads, StepKeeps
<1> QED BY <1>1, <1>2, <1>3, <1>4, <1>5 DEF Next

(* Whatever fails between the encoding, the commits and the marks of a     *)
(* request, and whatever is deleted and made again meanwhile, a candidate  *)
(* that says "rendered" has a clip of just its part of the video, where    *)
(* the database gives no id twice (render_workflow.py 66-71).              *)
THEOREM RenderedHaveClips == ASSUME ~ReusesIds PROVE Spec => []RenderedHasClip
<1>1. Init => RenderInv
  BY RenderingAssumption, InitRenders
<1>2. RenderInv /\ [Next]_vars => RenderInv'
  BY RenderingAssumption, NextRenders
<1>3. RenderInv => RenderedHasClip
  BY DEF RenderInv
<1> QED BY <1>1, <1>2, <1>3, PTL DEF Spec
-----------------------------------------------------------------------------
(* The file of a clip.                                                     *)

(* No rank and no index of a manual render is the id of a candidate.       *)
NamesApart == (Ranks \cup Manuals) \cap (FirstId..MaxId) = {}

AllCuts == Cuts \cup {"no_cut"}

(* Whatever speaks of the part of the video with this index: the candidate *)
(* with this id, the requests that took it up, its clips and its file.     *)
Claimed(i, cut) ==
  \/ \E c \in candidates : c.id = i /\ c.cut = cut
  \/ \E t \in Threads : \E s \in ShotsOf(t) : s.index = i /\ s.cut = cut
  \/ \E k \in DOMAIN clips : clips[k].index = i /\ clips[k].cut = cut
  \/ disk[i] = cut

Agreed ==
  /\ disk \in [Files -> AllCuts \cup {None, Partial}]
  /\ \A i \in FirstId..MaxId, a \in AllCuts : Claimed(i, a) => i <= lastId
  /\ \A i \in FirstId..MaxId, a, b \in AllCuts : Claimed(i, a) /\ Claimed(i, b) => a = b

(* A step that speaks of nothing new *)
NothingNew == \A i \in FirstId..MaxId, a \in AllCuts : Claimed(i, a)' => Claimed(i, a)
DiskTyped == disk \in [Files -> AllCuts \cup {None, Partial}]

LEMMA NothingNewKeeps ==
  ASSUME Agreed, NothingNew, UNCHANGED lastId, DiskTyped'
  PROVE  Agreed'
BY DEF Agreed, NothingNew, DiskTyped

(* Where each kind of witness of a new claim comes from *)
RowsKnown == \A c \in candidates' : Old(c)
ShotsKnown == \A t \in Threads : \A s \in ShotsOf(t)' :
  s.index \in FirstId..MaxId => s \in ShotsOf(t) \/ \E c \in candidates : c.id = s.index /\ c.cut = s.cut
ClipsKnown == \A k \in DOMAIN clips' :
  \/ k \in DOMAIN clips /\ clips'[k] = clips[k]
  \/ \E t \in Threads : \E s \in ShotsOf(t) : clips'[k].index = s.index /\ clips'[k].cut = s.cut
DiskKnown == \A i \in FirstId..MaxId :
  \/ disk'[i] \in {disk[i], None, Partial}
  \/ \E t \in Threads : \E s \in ShotsOf(t) : s.index = i /\ s.cut = disk'[i]

LEMMA KnownIsOld ==
  ASSUME RenderingAssumption, RowsKnown, ShotsKnown, ClipsKnown, DiskKnown
  PROVE  NothingNew
<1> SUFFICES ASSUME NEW i \in FirstId..MaxId, NEW a \in AllCuts, Claimed(i, a)'
             PROVE  Claimed(i, a)
  BY DEF NothingNew
<1>1. CASE \E c \in candidates' : c.id = i /\ c.cut = a
  BY <1>1 DEF RowsKnown, Old, Claimed
<1>2. ASSUME NEW t \in Threads, NEW s \in ShotsOf(t)', s.index = i, s.cut = a
      PROVE  Claimed(i, a)
  BY <1>2 DEF ShotsKnown, Claimed
<1>3. CASE \E k \in DOMAIN clips' : clips'[k].index = i /\ clips'[k].cut = a
  BY <1>3 DEF ClipsKnown, Claimed
<1>4. CASE disk'[i] = a
  <2>1. a # None /\ a # Partial
    BY DEF AllCuts, RenderingAssumption, None, Partial
  <2> QED BY <1>4, <2>1 DEF DiskKnown, Claimed
<1> QED BY <1>1, <1>2, <1>3, <1>4 DEF Claimed

LEMMA KnownKeeps ==
  ASSUME RenderingAssumption, Agreed, UNCHANGED lastId, DiskTyped',
         RowsKnown, ShotsKnown, ClipsKnown, DiskKnown
  PROVE  Agreed'
BY KnownIsOld, NothingNewKeeps

LEMMA SameKnown ==
  /\ UNCHANGED candidates => RowsKnown
  /\ UNCHANGED thread => ShotsKnown
  /\ UNCHANGED clips => ClipsKnown
  /\ UNCHANGED disk => DiskKnown
  /\ UNCHANGED disk /\ Agreed => DiskTyped'
BY DEF RowsKnown, Old, ShotsKnown, ShotsOf, ClipsKnown, DiskKnown, DiskTyped, Agreed

(* A status is set: the rows are those that were there. *)
LEMMA StatusKnown ==
  ASSUME Typed, NEW s,
         \A c \in candidates' : \E d \in candidates : c = d \/ c = [d EXCEPT !.status = s]
  PROVE  RowsKnown
<1> SUFFICES ASSUME NEW c \in candidates' PROVE Old(c)
  BY DEF RowsKnown
<1>1. PICK d \in candidates : c = d \/ c = [d EXCEPT !.status = s]
  OBVIOUS
<1>2. d \in CandidateRows
  BY DEF Typed
<1>3. c.id = d.id /\ c.cut = d.cut
  BY <1>1, <1>2 DEF CandidateRows
<1> QED BY <1>3 DEF Old

LEMMA MarkedKnown == ASSUME Typed, NEW t \in Threads, Marked(t) PROVE RowsKnown
<1>1. CASE UNCHANGED candidates
  BY <1>1, SameKnown
<1>2. CASE SetStatus(thread[t].mark, "rendered")
  BY <1>2, StatusKnown DEF SetStatus
<1> QED BY <1>1, <1>2 DEF Marked

(* One request takes up shots that speak of nothing new. *)
LEMMA ShotsOfOne ==
  ASSUME NEW t \in Threads, NEW r, Follows(t, r),
         \A s \in r.todo \cup {r.shot} : s.index \in FirstId..MaxId =>
           s \in ShotsOf(t) \/ \E c \in candidates : c.id = s.index /\ c.cut = s.cut
  PROVE  ShotsKnown
BY DEF ShotsKnown, Follows, ShotsOf

LEMMA NoNameIsZero ==
  ASSUME RenderingAssumption
  PROVE  0 \notin FirstId..MaxId /\ Idle.todo = {} /\ Idle.shot.index \notin FirstId..MaxId
<1>1. FirstId \in Nat \ {0} /\ MaxId \in Nat
  BY DEF RenderingAssumption
<1>2. 0 \notin FirstId..MaxId
  BY <1>1
<1>3. Idle.todo = {} /\ Idle.shot.index = 0
  BY DEF Idle, NoShot
<1> QED BY <1>2, <1>3

LEMMA LeaveKnown == ASSUME RenderingAssumption, Typed, NEW t \in Threads, Leave(t) PROVE ShotsKnown
<1>1. Follows(t, Idle)
  BY IdleTyped, Sets DEF Leave
<1>2. Idle.todo = {} /\ Idle.shot.index \notin FirstId..MaxId
  BY NoNameIsZero
<1> QED BY <1>1, <1>2, ShotsOfOne

-----------------------------------------------------------------------------
LEMMA RowStepsAgree ==
  ASSUME RenderingAssumption, ~ReusesIds, RenderInv, Agreed,
         ClearCandidates \/ SaveCandidate \/ EndSaving \/ Review
  PROVE  Agreed'
<1>0. Typed /\ UNCHANGED <<clips, disk, thread>>
  BY DEF RenderInv, ClearCandidates, SaveCandidate, EndSaving, Review, rows
<1>1. CASE ClearCandidates \/ EndSaving
  BY <1>0, <1>1, SameKnown, KnownKeeps DEF ClearCandidates, EndSaving, rows, RowsKnown
<1>2. CASE Review
  <2>1. \E s : \A c \in candidates' : \E d \in candidates : c = d \/ c = [d EXCEPT !.status = s]
    <3>1. PICK s \in Decisions, S \in (SUBSET candidates) \ {{}} :
            candidates' = {IF c \in S THEN [c EXCEPT !.status = s] ELSE c : c \in candidates}
      BY <1>2 DEF Review
    <3>2. \A c \in candidates' : \E d \in candidates : c = d \/ c = [d EXCEPT !.status = s]
      BY <3>1
    <3> QED BY <3>2
  <2> QED BY <1>0, <1>2, <2>1, StatusKnown, SameKnown, KnownKeeps DEF Review
<1>3. CASE SaveCandidate
  <2>1. PICK cut \in Cuts : /\ lastId' = lastId + 1
               /\ candidates' = candidates \cup {[id |-> lastId + 1, cut |-> cut, status |-> "pending"]}
    BY <1>3 DEF SaveCandidate, NextId
  <2>2. lastId \in Nat /\ lastId' \in Nat /\ lastId < lastId'
    BY <1>0, <2>1 DEF Typed
  <2>3. ASSUME NEW i \in FirstId..MaxId, NEW a \in AllCuts, Claimed(i, a)'
        PROVE  Claimed(i, a) \/ (i = lastId' /\ a = cut)
    <3>1. CASE \E c \in candidates' : c.id = i /\ c.cut = a
      BY <2>1, <3>1 DEF Claimed
    <3>2. CASE ~\E c \in candidates' : c.id = i /\ c.cut = a
      BY <1>0, <2>3, <3>2 DEF Claimed, ShotsOf
    <3> QED BY <3>1, <3>2
  <2>4. \A i \in FirstId..MaxId, a \in AllCuts : Claimed(i, a) => i # lastId' /\ i <= lastId'
    <3> SUFFICES ASSUME NEW i \in FirstId..MaxId, NEW a \in AllCuts, Claimed(i, a)
                 PROVE  i # lastId' /\ i <= lastId'
      OBVIOUS
    <3>1. i <= lastId /\ i \in Int
      BY DEF Agreed
    <3> QED BY <2>2, <3>1
  <2>5. \A i \in FirstId..MaxId, a \in AllCuts : Claimed(i, a)' => i <= lastId'
    BY <2>2, <2>3, <2>4
  <2>6. ASSUME NEW i \in FirstId..MaxId, NEW a \in AllCuts, NEW b \in AllCuts, Claimed(i, a)', Claimed(i, b)'
        PROVE  a = b
    BY <2>3, <2>4, <2>6 DEF Agreed
  <2>7. DiskTyped'
    BY <1>0, SameKnown
  <2> QED BY <2>5, <2>6, <2>7 DEF Agreed, DiskTyped
<1> QED BY <1>1, <1>2, <1>3

LEMMA BeginAgrees ==
  ASSUME RenderingAssumption, RenderInv, Agreed, NEW t \in Threads, NEW S \in SUBSET Shots, Begin(t, S),
         \A s \in S : s.index \in FirstId..MaxId => \E c \in candidates : c.id = s.index /\ c.cut = s.cut
  PROVE  Agreed'
<1>1. PICK r : r = [Idle EXCEPT !.pc = "next", !.todo = S]
  OBVIOUS
<1>2. r \in RequestStates /\ r.todo = S /\ r.shot.index \notin FirstId..MaxId
  <2>1. r.todo = S /\ r.shot = Idle.shot
    BY <1>1 DEF Idle
  <2>2. r \in RequestStates
    BY <1>1, IdleTyped DEF RequestStates, Pcs
  <2> QED BY <2>1, <2>2, NoNameIsZero
<1>3. Follows(t, r) /\ UNCHANGED rows /\ UNCHANGED disk
  BY <1>1, <1>2, Sets DEF Begin, RenderInv
<1>4. ShotsKnown
  BY <1>2, <1>3, ShotsOfOne
<1> QED BY <1>3, <1>4, SameKnown, KnownKeeps DEF rows

LEMMA RequestsAgree ==
  ASSUME RenderingAssumption, NamesApart, RenderInv, Agreed, NEW t \in Threads,
         RequestOne(t) \/ RequestSelected(t) \/ RequestApproved(t) \/ RequestCuts(t)
  PROVE  Agreed'
<1>1. CASE RequestCuts(t)
  <2>1. PICK S \in Ranked \cup RankedOne \cup Manual : Begin(t, S)
    BY <1>1 DEF RequestCuts
  <2>2. ASSUME NEW i \in Ranks \cup Manuals, NEW cut \in Cuts
        PROVE  Plain(i, cut) \in Shots /\ Plain(i, cut).index \notin FirstId..MaxId
    BY DEF Plain, Shots, RenderingAssumption, NamesApart
  <2>3. S \in SUBSET Shots /\ \A s \in S : s.index \notin FirstId..MaxId
    <3>1. CASE S \in Ranked
      <4>1. PICK cut \in [Ranks -> Cuts] : S = {Plain(i, cut[i]) : i \in Ranks}
        BY <3>1 DEF Ranked
      <4> QED BY <2>2, <4>1
    <3>2. CASE S \in RankedOne
      BY <2>2, <3>2 DEF RankedOne
    <3>3. CASE S \in Manual
      BY <2>2, <3>3 DEF Manual
    <3> QED BY <3>1, <3>2, <3>3
  <2> QED BY <2>1, <2>3, BeginAgrees
<1>2. CASE ~RequestCuts(t)
  <2>1. PICK S \in SUBSET candidates : Begin(t, {Shot(c) : c \in S})
    <3>1. CASE RequestOne(t)
      <4>1. PICK c \in candidates : Begin(t, {Shot(c)})
        BY <3>1 DEF RequestOne
      <4>2. {Shot(d) : d \in {c}} = {Shot(c)}
        OBVIOUS
      <4> QED BY <4>1, <4>2
    <3>2. CASE RequestSelected(t)
      BY <3>2 DEF RequestSelected
    <3>3. CASE RequestApproved(t)
      BY <3>3 DEF RequestApproved, Approved
    <3> QED BY <1>2, <3>1, <3>2, <3>3
  <2>2. PICK T : T = {Shot(c) : c \in S}
    OBVIOUS
  <2>3. ASSUME NEW s \in T PROVE s \in Shots /\ \E c \in candidates : c.id = s.index /\ c.cut = s.cut
    <3>1. PICK c \in candidates : s = Shot(c)
      BY <2>2
    <3>2. s.index = c.id /\ s.cut = c.cut
      BY <3>1 DEF Shot
    <3> QED BY <3>1, <3>2, ShotsOfRows
  <2> QED BY <2>1, <2>2, <2>3, BeginAgrees
<1> QED BY <1>1, <1>2

LEMMA StartAgrees ==
  ASSUME RenderingAssumption, RenderInv, Agreed, NEW t \in Threads, StartRender(t)
  PROVE  Agreed'
<1>0. Typed /\ thread[t] \in RequestStates /\ UNCHANGED <<candidates, lastId, clips>>
  BY DEF RenderInv, Typed, StartRender, rows
<1>1. PICK s \in thread[t].todo :
        IF Gone(t, s) \/ ~source THEN Leave(t) /\ UNCHANGED disk
        ELSE /\ disk' = [disk EXCEPT ![s.index] = Partial]
             /\ thread' = [u \in Threads |->
                  IF u = t THEN [thread[t] EXCEPT !.pc = "encode", !.todo = @ \ {s},
                                   !.shot = Refreshed(t, s), !.clash = Encoding(s.index) # {}]
                  ELSE [thread[u] EXCEPT !.clash = @ \/ u \in Encoding(s.index)]]
  BY DEF StartRender
<1>2. CASE Gone(t, s) \/ ~source
  BY <1>0, <1>1, <1>2, LeaveKnown, SameKnown, KnownKeeps
<1>3. CASE ~(Gone(t, s) \/ ~source)
  <2>1. DiskTyped' /\ DiskKnown
    <3>1. disk \in [Files -> AllCuts \cup {None, Partial}] /\ FirstId..MaxId \subseteq Files
      BY DEF Agreed, Files
    <3> QED BY <1>1, <1>3, <3>1 DEF DiskTyped, DiskKnown
  <2>2. PICK new : new = Refreshed(t, s)
    OBVIOUS
  <2>3. new.index \in FirstId..MaxId =>
          new \in ShotsOf(t) \/ \E c \in candidates : c.id = new.index /\ c.cut = new.cut
    <3>1. CASE thread[t].later /\ s.id # 0
      <4>1. Row(s.id) \in candidates
        BY <1>3, <3>1 DEF Gone, HasRow, Row
      <4>2. PICK c \in candidates : new = Shot(c)
        BY <2>2, <3>1, <4>1 DEF Refreshed
      <4> QED BY <4>2 DEF Shot
    <3>2. CASE ~(thread[t].later /\ s.id # 0)
      BY <2>2, <3>2 DEF Refreshed, ShotsOf
    <3> QED BY <3>1, <3>2
  <2>4. PICK clash \in BOOLEAN : clash = (Encoding(s.index) # {})
    OBVIOUS
  <2>5. PICK r : r = [thread[t] EXCEPT !.pc = "encode", !.todo = @ \ {s}, !.shot = new, !.clash = clash]
    OBVIOUS
  <2>6. r.todo = thread[t].todo \ {s} /\ r.shot = new
    BY <1>0, <2>5 DEF RequestStates
  <2>7. thread' = [u \in Threads |-> IF u = t THEN r
                      ELSE [thread[u] EXCEPT !.clash = @ \/ u \in Encoding(s.index)]]
    BY <1>1, <1>3, <2>2, <2>4, <2>5
  <2>8. ASSUME NEW u \in Threads PROVE ShotsOf(u)' \subseteq ShotsOf(u) \/ u = t
    <3>1. thread[u] \in RequestStates
      BY <1>0 DEF Typed
    <3>2. CASE u # t
      <4>1. thread'[u].todo = thread[u].todo /\ thread'[u].shot = thread[u].shot
        <5>1. PICK b : b = (thread[u].clash \/ u \in Encoding(s.index))
          OBVIOUS
        <5>2. thread'[u] = [thread[u] EXCEPT !.clash = b]
          BY <2>7, <3>2, <5>1
        <5> QED BY <3>1, <5>2 DEF RequestStates
      <4> QED BY <4>1 DEF ShotsOf
    <3> QED BY <3>2
  <2>9. ShotsKnown
    <3>1. ShotsOf(t)' = (thread[t].todo \ {s}) \cup {new}
      BY <2>6, <2>7 DEF ShotsOf
    <3> QED BY <2>3, <2>8, <3>1 DEF ShotsKnown, ShotsOf
  <2> QED BY <1>0, <2>1, <2>9, SameKnown, KnownKeeps
<1> QED BY <1>2, <1>3

LEMMA EncodeAgrees ==
  ASSUME RenderingAssumption, RenderInv, Agreed, NEW t \in Threads, Encode(t)
  PROVE  Agreed'
<1>0. Typed /\ thread[t] \in RequestStates /\ UNCHANGED <<candidates, lastId, clips>>
  BY DEF RenderInv, Typed, Encode, rows
<1>1. CASE Leave(t) /\ UNCHANGED disk
  BY <1>0, <1>1, LeaveKnown, SameKnown, KnownKeeps
<1>2. CASE ~(Leave(t) /\ UNCHANGED disk)
  <2>1. PICK s : s = thread[t].shot
    OBVIOUS
  <2>2. PICK c \in {s.cut, Partial} : disk' = [disk EXCEPT ![s.index] = c]
    BY <1>2, <2>1 DEF Encode
  <2>3. s \in ShotsOf(t) /\ s.cut \in AllCuts
    BY <1>0, <2>1 DEF ShotsOf, RequestStates, Shots, AllCuts
  <2>4. disk \in [Files -> AllCuts \cup {None, Partial}] /\ FirstId..MaxId \subseteq Files
    BY DEF Agreed, Files
  <2>5. DiskTyped'
    BY <2>2, <2>3, <2>4 DEF DiskTyped
  <2>6. DiskKnown
    BY <2>2, <2>3, <2>4 DEF DiskKnown
  <2>7. thread' = [thread EXCEPT ![t].pc = "commit", ![t].clash = FALSE]
    BY <1>2 DEF Encode
  <2>8. PICK r : r = [thread[t] EXCEPT !.pc = "commit", !.clash = FALSE]
    OBVIOUS
  <2>9. thread' = [thread EXCEPT ![t] = r]
    BY <1>0, <2>7, <2>8 DEF Typed
  <2>10. r \in RequestStates /\ r.todo = thread[t].todo /\ r.shot = thread[t].shot
    BY <1>0, <2>8 DEF RequestStates, Pcs
  <2>11. ShotsKnown
    BY <1>0, <2>9, <2>10, Sets, ShotsOfOne DEF ShotsOf
  <2> QED BY <1>0, <2>5, <2>6, <2>11, SameKnown, KnownKeeps
<1> QED BY <1>1, <1>2

LEMMA CommitAgrees ==
  ASSUME RenderingAssumption, RenderInv, Agreed, NEW t \in Threads, CommitClip(t)
  PROVE  Agreed'
<1>0. Typed /\ thread[t] \in RequestStates /\ UNCHANGED <<lastId, disk>>
  BY DEF RenderInv, Typed, CommitClip
<1>1. CASE Unmarkable(t)
  <2>1. Leave(t) /\ UNCHANGED <<candidates, clips>>
    BY <1>1 DEF CommitClip
  <2> QED BY <1>0, <2>1, LeaveKnown, SameKnown, KnownKeeps
<1>2. CASE ~Unmarkable(t)
  <2>1. PICK s : s = thread[t].shot
    OBVIOUS
  <2>2. s \in Shots /\ s \in ShotsOf(t)
    BY <1>0, <2>1 DEF ShotsOf, RequestStates
  <2>3. PICK new : new = [index |-> s.index, cut |-> s.cut]
    OBVIOUS
  <2>4. new \in ClipRows /\ new.index = s.index /\ new.cut = s.cut
    BY <2>2, <2>3 DEF ClipRows, Shots
  <2>5. clips' = Append(clips, new) /\ Marked(t)
    BY <1>2, <2>1, <2>3 DEF CommitClip
  <2>6. /\ DOMAIN clips' = 1..(Len(clips) + 1) /\ clips'[Len(clips) + 1] = new
        /\ DOMAIN clips = 1..Len(clips) /\ Len(clips) \in Nat
        /\ \A k \in 1..Len(clips) : clips'[k] = clips[k]
    BY <1>0, <2>4, <2>5, AppendProperties DEF Typed
  <2>7. ClipsKnown
    <3> SUFFICES ASSUME NEW k \in DOMAIN clips'
                 PROVE  \/ k \in DOMAIN clips /\ clips'[k] = clips[k]
                        \/ clips'[k].index = s.index /\ clips'[k].cut = s.cut
      BY <2>2 DEF ClipsKnown
    <3> QED BY <2>4, <2>6
  <2>8. PICK r : r = [Idle EXCEPT !.pc = IF thread[t].todo = {} THEN "finish" ELSE "next",
                                  !.todo = thread[t].todo, !.mark = s.id, !.later = TRUE]
    OBVIOUS
  <2>9. r \in RequestStates /\ r.todo = thread[t].todo /\ r.shot.index \notin FirstId..MaxId
    <3>1. thread[t].todo \in SUBSET Shots /\ s.id \in Nat
      BY <1>0, <2>2 DEF RequestStates, Shots
    <3>2. PICK p \in {"finish", "next"} : p = IF thread[t].todo = {} THEN "finish" ELSE "next"
      OBVIOUS
    <3>3. r = [Idle EXCEPT !.pc = p, !.todo = thread[t].todo, !.mark = s.id, !.later = TRUE]
      BY <2>8, <3>2
    <3>4. r.todo = thread[t].todo /\ r.shot = Idle.shot
      BY <3>3 DEF Idle
    <3>5. r \in RequestStates
      BY <3>1, <3>3, IdleTyped DEF RequestStates, Pcs
    <3> QED BY <3>4, <3>5, NoNameIsZero
  <2>10. thread' = [thread EXCEPT ![t] = r]
    BY <1>2, <2>1, <2>8 DEF CommitClip
  <2>11. ShotsKnown
    BY <1>0, <2>9, <2>10, Sets, ShotsOfOne DEF ShotsOf
  <2> QED BY <1>0, <2>5, <2>7, <2>11, MarkedKnown, SameKnown, KnownKeeps
<1> QED BY <1>1, <1>2

LEMMA LastStepsAgree ==
  ASSUME RenderingAssumption, RenderInv, Agreed,
         LoseFile \/ RestartWeb \/ \E t \in Threads : FinishRender(t)
  PROVE  Agreed'
<1>0. Typed
  BY DEF RenderInv
<1>1. CASE LoseFile
  <2>1. UNCHANGED <<candidates, lastId, clips, thread>>
    BY <1>1 DEF LoseFile, rows
  <2>2. UNCHANGED disk \/ \E f \in Files : disk' = [disk EXCEPT ![f] = None]
    BY <1>1 DEF LoseFile
  <2>3. FirstId..MaxId \subseteq Files
    BY DEF Files
  <2>4. DiskTyped' /\ DiskKnown
    BY <2>2, <2>3 DEF Agreed, DiskTyped, DiskKnown
  <2> QED BY <2>1, <2>4, SameKnown, KnownKeeps
<1>2. CASE RestartWeb
  <2>1. UNCHANGED <<candidates, lastId, clips, disk>> /\ \A t \in Threads : thread'[t] = Idle
    BY <1>2 DEF RestartWeb, rows
  <2>2. Idle.todo = {} /\ Idle.shot.index \notin FirstId..MaxId
    BY NoNameIsZero
  <2>3. ShotsKnown
    BY <2>1, <2>2 DEF ShotsKnown, ShotsOf
  <2> QED BY <2>1, <2>3, SameKnown, KnownKeeps
<1>3. ASSUME NEW t \in Threads, FinishRender(t) PROVE Agreed'
  <2>1. Leave(t) /\ UNCHANGED <<lastId, clips, disk>>
    BY <1>3 DEF FinishRender
  <2>2. RowsKnown
    BY <1>0, <1>3, MarkedKnown, SameKnown DEF FinishRender
  <2> QED BY <1>0, <2>1, <2>2, LeaveKnown, SameKnown, KnownKeeps
<1> QED BY <1>1, <1>2, <1>3

(* The file of a clip that was cut for a candidate is that cut, a piece of  *)
(* it or gone, whoever renders, deletes, makes again or fails meanwhile,    *)
(* where the database gives no id twice and no rank or manual index is one: *)
(* all that ever names an index is about one part of the video.             *)
THEOREM FilesShowClips == ASSUME ~ReusesIds, NamesApart PROVE Spec => []FileShowsClip
<1>1. Init => RenderInv /\ Agreed
  <2> SUFFICES ASSUME Init PROVE Agreed
    BY RenderingAssumption, InitRenders
  <2>1. Idle.todo = {} /\ Idle.shot.index \notin FirstId..MaxId
    BY RenderingAssumption, NoNameIsZero
  <2>2. FirstId..MaxId \subseteq Files
    BY DEF Files
  <2>3. \A a \in AllCuts : a # None
    BY RenderingAssumption DEF AllCuts, RenderingAssumption, None
  <2>4. \A i \in FirstId..MaxId, a \in AllCuts : ~Claimed(i, a)
    BY <2>1, <2>2, <2>3 DEF Init, Claimed, ShotsOf
  <2> QED BY <2>4 DEF Init, Agreed
<1>2. RenderInv /\ Agreed /\ [Next]_vars => RenderInv' /\ Agreed'
  <2> SUFFICES ASSUME RenderInv, Agreed, [Next]_vars PROVE Agreed'
    BY RenderingAssumption, NextRenders
  <2>1. CASE UNCHANGED vars
    BY <2>1 DEF vars, rows, Agreed, Claimed, ShotsOf
  <2> QED BY <2>1, RenderingAssumption, RowStepsAgree, RequestsAgree, StartAgrees, EncodeAgrees,
          CommitAgrees, LastStepsAgree DEF Next, Render
<1>3. RenderInv /\ Agreed => FileShowsClip
  <2> SUFFICES ASSUME RenderInv, Agreed, NEW k \in DOMAIN clips, clips[k].index \in FirstId..MaxId
               PROVE  disk[clips[k].index] \in {None, Partial, clips[k].cut}
    BY DEF FileShowsClip
  <2>1. PICK i \in FirstId..MaxId : i = clips[k].index
    OBVIOUS
  <2>2. clips[k].cut \in AllCuts
    <3>1. clips \in Seq(ClipRows) /\ k \in 1..Len(clips)
      BY DEF RenderInv, Typed
    <3>2. clips[k] \in ClipRows
      BY <3>1, ElementOfSeq
    <3> QED BY <3>2 DEF ClipRows, AllCuts
  <2>3. disk[i] \in AllCuts \cup {None, Partial}
    BY DEF Agreed, Files
  <2>4. Claimed(i, clips[k].cut) /\ Claimed(i, disk[i])
    BY <2>1 DEF Claimed
  <2> QED BY <2>1, <2>2, <2>3, <2>4 DEF Agreed
<1> QED BY <1>1, <1>2, <1>3, PTL DEF Spec
=============================================================================
