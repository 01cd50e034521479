----------------------------- MODULE Selection -----------------------------
(***************************************************************************)
(* How the candidates of a job are chosen: the transcript is split into    *)
(* chunks, the windows of a chunk are enumerated (services/segmentation.py)*)
(* and scored, ranked for diversity (scoring.py), judged by an LLM         *)
(* (llm_analysis.py), and kept up to a limit (candidates.py).              *)
(*                                                                         *)
(* The score of a window alone is any: it is counted from words.  The text *)
(* of a window is the set of its segments, of which no two say the same.   *)
(* Times are integers, ratios are percents, and scores thousandths.        *)
(***************************************************************************)
EXTENDS Integers, Sequences, FiniteSets

CONSTANTS
  Transcripts,  \* sequences of segments, that end one after the other
  Span, Lap,    \* of a chunk, and of a chunk with the next
  Shortest, Longest, Stride,   \* of windows, for the mode
  Tolerance, Ratio,            \* of windows that are duplicates
  RelaxedTolerance, RelaxedRatio,
  Limits,       \* pairs: the least and the most candidates to keep
  TopN,         \* how many windows the LLM judges
  Weight,       \* of diversity
  Scores,       \* of a window alone, and of one that the LLM judged
  MaxAnswers,   \* bound: judgements of the LLM
  Concurrent    \* another request may regenerate the candidates meanwhile

ASSUME SelectionAssumption ==
  /\ Transcripts \subseteq Seq([start : Nat, end : Nat]) /\ Limits \subseteq Nat \X Nat
  /\ {Span, Lap, Longest, Tolerance, Ratio} \subseteq Nat
  /\ {RelaxedTolerance, RelaxedRatio, Weight, MaxAnswers} \subseteq Nat
  /\ {Shortest, Stride, TopN} \subseteq Nat \ {0} /\ Scores \subseteq Int /\ Concurrent \in BOOLEAN
  /\ RelaxedTolerance <= Tolerance /\ Ratio <= RelaxedRatio

VARIABLES
  transcript,
  limits,    \* [least, most]: those of settings, or of a workspace that does not pay
  pc,
  chunk,     \* the last segment of the chunk that is treated, 0 before the first
  base,      \* the score of each of its windows alone
  remaining, \* windows that are not ranked yet
  ranked,    \* windows in the order of their ranks, each with its score
  existing,  \* windows that the next ones are compared with
  deferred,  \* windows that were duplicates
  created,   \* windows that were kept, ...
  saved,     \* ... of which so many are committed
  rows       \* candidates that are committed

vars == <<transcript, limits, pc, chunk, base, remaining, ranked, existing, deferred, created, saved, rows>>

-----------------------------------------------------------------------------
(* A window: the indexes of its first and last segment.                    *)
Start(w) == transcript[w[1]].start
End(w) == transcript[w[2]].end
Duration(w) == End(w) - Start(w)
Text(w) == w[1]..w[2]
Opening(w) == {i \in Text(w) : i < w[1] + 3}

(* split_segments_into_time_chunks: a segment that ends too late for the   *)
(* chunk begins another, with the last segments of it.  From[k] is the     *)
(* first segment of the chunk to which k is added.                         *)
Suffix(a, k) == {i \in a..k : i = k \/ transcript[i].end >= transcript[k].start - Lap}
TooLong(a, k) == transcript[k].end - transcript[a].start > Span
Least(S) == CHOOSE i \in S : \A j \in S : i <= j
From[k \in 1..Len(transcript)] ==
  IF k = 1 THEN 1
  ELSE LET a == From[k - 1] IN IF TooLong(a, k) THEN Least(Suffix(a, k)) ELSE a
Ends == {k \in 1..Len(transcript) : k = Len(transcript) \/ TooLong(From[k], k + 1)}
Chunk(c) == From[c]..c
Following == {c \in Ends : c > chunk}

(* deduplicate_candidates and _is_duplicate_candidate_window               *)
Larger(x, y) == IF x > y THEN x ELSE y
Smaller(x, y) == IF x < y THEN x ELSE y
Distance(x, y) == Larger(x - y, y - x)
Common(v, w) == Larger(0, Smaller(End(v), End(w)) - Larger(Start(v), Start(w)))
Shorter(v, w) == Smaller(Duration(v), Duration(w))

Near(v, w, tolerance) == Distance(Start(v), Start(w)) <= tolerance /\ Distance(End(v), End(w)) <= tolerance
Nested(v, w, ratio) == 100 * Common(v, w) >= ratio * Shorter(v, w)
Alike(v, w, tolerance, ratio) == Near(v, w, tolerance) \/ Nested(v, w, ratio)

Duplicate(v, w) == Alike(v, w, Tolerance, Ratio)
RelaxedDuplicate(v, w) == Alike(v, w, RelaxedTolerance, RelaxedRatio)

(* build_candidate_windows: the windows of a chunk, of which one stays in  *)
(* the order of their starts and ends if none that stays is alike.         *)
Enumerated(c) ==
  {w \in Chunk(c) \X Chunk(c) :
     w[1] <= w[2] /\ (w[1] - From[c]) % Stride = 0 /\ Duration(w) \in Shortest..Longest}
Earlier(v, w) == v[1] < w[1] \/ (v[1] = w[1] /\ v[2] < w[2])
Filtered(S) ==
  LET Stays[w \in S] == \A v \in S : Earlier(v, w) /\ Duplicate(w, v) => ~Stays[v]
  IN {w \in S : Stays[w]}
Windows(c) == Filtered(Enumerated(c))

-----------------------------------------------------------------------------
(* _apply_diversity_reranking: what a window that is alike others loses    *)
Overlap(v, w) == (100 * Common(v, w)) \div Shorter(v, w)
Similarity(S, T) == (100 * Cardinality(S \cap T)) \div Cardinality(S \cup T)

Greatest(S) == CHOOSE x \in S \cup {0} : \A y \in S \cup {0} : y <= x

Penalty(w, S) ==
  LET overlap == Greatest({Overlap(w, v) : v \in S})
      text == Greatest({Similarity(Text(w), Text(v)) : v \in S})
      opening == Greatest({Similarity(Opening(w), Opening(v)) : v \in S})
  IN 28 * overlap + 15 * text + 12 * opening
     + (IF overlap >= 70 /\ text >= 72 THEN 1200 ELSE 0)
     + (IF opening >= 75 THEN 1600 ELSE 0)
     + (IF overlap >= 70 /\ opening >= 75 THEN 1600 ELSE 0)

Ranks == DOMAIN ranked
RankedLast == {ranked[k].window : k \in {i \in Ranks : i = Len(ranked)}}
Ranked == {ranked[k].window : k \in Ranks}
Effective(w, S) == base[w] - Weight * Penalty(w, S)

(* The first of the best, in the order of base scores, starts and ends     *)
Precedes(v, w) == base[v] > base[w] \/ (base[v] = base[w] /\ Earlier(v, w))
Best(w) == \A v \in remaining \ {w} :
  \/ Effective(w, Ranked) > Effective(v, Ranked)
  \/ Effective(w, Ranked) = Effective(v, Ranked) /\ Precedes(w, v)

-----------------------------------------------------------------------------
Init ==
  /\ transcript \in Transcripts /\ limits \in Limits
  /\ pc = "clear" /\ chunk = 0
  /\ base = <<>> /\ remaining = {} /\ ranked = <<>>
  /\ existing = {} /\ deferred = {} /\ created = <<>> /\ saved = 0
  /\ rows = <<>>

(* The candidates that there were are deleted.                             *)
Clear ==
  /\ pc = "clear" /\ pc' = IF transcript = <<>> THEN "relax" ELSE "load"
  /\ rows' = <<>>
  /\ UNCHANGED <<transcript, limits, chunk, base, remaining, ranked, existing, deferred, created, saved>>

Load ==
  /\ pc = "load" /\ Following # {}
  /\ chunk' = Least(Following) /\ pc' = "rank"
  /\ remaining' = Windows(chunk') /\ ranked' = <<>>
  /\ base' \in [remaining' -> Scores]
  /\ UNCHANGED <<transcript, limits, existing, deferred, created, saved, rows>>

Rank ==
  /\ pc = "rank" /\ UNCHANGED pc
  /\ \E w \in remaining :
       /\ Best(w)
       /\ ranked' = Append(ranked, [window |-> w, score |-> Effective(w, Ranked)])
       /\ remaining' = remaining \ {w}
  /\ UNCHANGED <<transcript, limits, chunk, base, existing, deferred, created, saved, rows>>

(* analyze_candidates_with_llm: the LLM judges some of the first windows,  *)
(* one perhaps twice, that come before the rest of them; from which those  *)
(* are left out that start with one that was judged.                       *)
First(n) == SubSeq(ranked, 1, Smaller(n, Len(ranked)))
Answers == {a \in UNION {[1..n -> (DOMAIN First(TopN)) \X Scores] : n \in 0..MaxAnswers} :
              \A i, j \in DOMAIN a : i < j => a[i][2] >= a[j][2]}
Judged(a) == [i \in DOMAIN a |-> [window |-> ranked[a[i][1]].window, score |-> a[i][2]]]
InOrder(S) == [k \in 1..Cardinality(S) |-> CHOOSE i \in S : Cardinality({j \in S : j < i}) = k - 1]
Unjudged(a) ==
  LET rest == {i \in DOMAIN First(TopN) :
                 \A j \in DOMAIN a : Start(ranked[i].window) # Start(ranked[a[j][1]].window)}
  IN [k \in DOMAIN InOrder(rest) |-> ranked[InOrder(rest)[k]]]
MergedHead(a) == Judged(a) \o Unjudged(a)
Merged(a) == Judged(a) \o Unjudged(a) \o SubSeq(ranked, TopN + 1, Len(ranked))

Stored == {rows[k] : k \in DOMAIN rows}

Judge ==
  /\ pc = "rank" /\ remaining = {} /\ pc' = "keep"
  /\ \/ UNCHANGED ranked
     \/ \E a \in Answers : ranked' = Merged(a)
  /\ existing' = Stored
  /\ UNCHANGED <<transcript, limits, chunk, base, remaining, deferred, created, saved, rows>>

Enough == Len(created) >= limits[2]

CreateUnseen(w) == created' = Append(created, w) /\ UNCHANGED existing
Create(w) == created' = Append(created, w) /\ existing' = existing \cup {w}

Keep ==
  /\ pc = "keep" /\ ranked # <<>> /\ ~Enough
  /\ ranked' = Tail(ranked)
  /\ LET w == ranked[1].window IN
       \/ (\A v \in existing : ~Duplicate(w, v)) /\ Create(w) /\ UNCHANGED deferred
       \/ /\ \E v \in existing : Duplicate(w, v)
          /\ deferred' = deferred \cup {ranked[1]} /\ UNCHANGED <<created, existing>>
  /\ UNCHANGED <<transcript, limits, pc, chunk, base, remaining, saved, rows>>

(* What was created since the last commit is committed.                    *)
Save == rows' = rows \o SubSeq(created, saved + 1, Len(created)) /\ saved' = Len(created)

EndChunk ==
  /\ pc = "keep" /\ (ranked = <<>> \/ Enough)
  /\ pc' = IF Enough \/ Following = {} THEN "relax" ELSE "load"
  /\ Save
  /\ UNCHANGED <<transcript, limits, chunk, base, remaining, ranked, existing, deferred, created>>

(* Too few were kept: windows that were duplicates are tried again with    *)
(* thresholds that fewer reach, the best first.                            *)
Few == Len(created) < Smaller(limits[1], limits[2])
BestDeferred(r) == \A s \in deferred \ {r} :
  r.score > s.score \/ (r.score = s.score /\ ~Earlier(s.window, r.window))

Tried(w) ==
  \/ (\A v \in existing : ~RelaxedDuplicate(w, v)) /\ Create(w)
  \/ (\E v \in existing : RelaxedDuplicate(w, v)) /\ UNCHANGED <<created, existing>>

Relax ==
  /\ pc = "relax" /\ Few
  /\ \E r \in deferred : BestDeferred(r) /\ deferred' = deferred \ {r} /\ Tried(r.window)
  /\ UNCHANGED <<transcript, limits, pc, chunk, base, remaining, ranked, saved, rows>>

Finish ==
  /\ pc = "relax" /\ (~Few \/ deferred = {}) /\ pc' = "done"
  /\ Save
  /\ UNCHANGED <<transcript, limits, chunk, base, remaining, ranked, existing, deferred, created>>

(* A request for the same job and mode deletes the rows, or commits one.   *)
Interfere ==
  /\ Concurrent /\ pc # "done"
  /\ \/ rows' = <<>>
     \/ Len(rows) < 2 * limits[2] /\ \E c \in Ends : \E w \in Windows(c) : rows' = Append(rows, w)
  /\ UNCHANGED <<transcript, limits, pc, chunk, base, remaining, ranked, existing, deferred, created, saved>>

Next ==
  \/ Clear \/ Load \/ Rank \/ Judge \/ Keep \/ EndChunk \/ Relax \/ Finish \/ Interfere

Spec == Init /\ [][Next]_vars

-----------------------------------------------------------------------------
(* A window never scores more than one that was ranked before it, so that  *)
(* sorting the ranked windows changes nothing, and the LLM judges the best *)
(* of them (scoring.py 883-934).                                           *)
BestFirst == pc = "rank" => \A i, j \in Ranks : i < j => ranked[i].score >= ranked[j].score

(* No two windows that are kept are alike, by the thresholds that are      *)
(* relaxed at least: in one chunk, in two that overlap, or after a second  *)
(* try (candidates.py 144-252).                                            *)
Distinct == \A i, j \in DOMAIN created : i # j => ~RelaxedDuplicate(created[i], created[j])

(* Fewer than the least number are kept only if every window of every      *)
(* chunk is kept, or alike one that is: none is lost on the way, by the    *)
(* ranking, the LLM, an answer of it that repeats itself, or the second    *)
(* try.                                                                    *)
FewOnlyIfAlike ==
  pc = "done" /\ Few =>
    \A c \in Ends : \A w \in Windows(c) : \E k \in DOMAIN created :
      created[k] = w \/ RelaxedDuplicate(w, created[k])
=============================================================================
