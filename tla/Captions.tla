------------------------------ MODULE Captions ------------------------------
(***************************************************************************)
(* The captions of a clip: the cues of a subtitle become the segments of a *)
(* transcript (services/subtitle_parser.py), those of the clip are selected*)
(* and split into captions of a few lines, and each is written with its    *)
(* times (subtitles.py).                                                   *)
(*                                                                         *)
(* A text is a sequence of words, and a word is known by its length and by *)
(* whether it ends a phrase.  Times are hundredths of a second; that of a  *)
(* caption is a fraction, a numerator over the number of captions that     *)
(* share a segment.                                                        *)
(***************************************************************************)
EXTENDS Integers, Sequences, SequencesExt

CONSTANTS
  MaxWordsPerLine, MaxCharsPerLine, MaxLines, Karaoke,  \* of the preset
  OverlapThreshold,  \* of cues, beyond which the later says the same
  Scripts            \* what is captioned: a source, its cues, and a clip

Word == [length : Nat, stop : BOOLEAN]
Cue == [start : Nat, end : Nat, text : Seq(Word)]

ASSUME CaptionsAssumption ==
  /\ {MaxWordsPerLine, MaxCharsPerLine, MaxLines} \subseteq Nat \ {0}
  /\ Karaoke \in BOOLEAN /\ OverlapThreshold \in Nat
  /\ Scripts \subseteq [source : {"vtt", "srt", "whisper"}, cues : Seq(Cue), from : Nat, to : Nat]

VARIABLES
  captioning,  \* idle, or what is done next
  script,      \* [source, cues, from, to]
  segments,    \* of the transcript
  unwritten,   \* segments of the clip that are not written yet
  dialogues    \* the lines of the file

captionVars == <<captioning, script, segments, unwritten, dialogues>>

-----------------------------------------------------------------------------
(* _merge_overlapping_segments: a cue of YouTube repeats the one before.   *)
Repeats(prev, cue) == prev.end - cue.start > OverlapThreshold \/ prev.text = cue.text
MergeCue(kept, cue) ==
  IF kept # <<>> /\ Repeats(Last(kept), cue)
    THEN Append(Front(kept), [Last(kept) EXCEPT !.end = Max({@, cue.end})])
    ELSE Append(kept, cue)
MergedCues(cues) ==
  LET kept[n \in 0..Len(cues)] == IF n = 0 THEN <<>> ELSE MergeCue(kept[n - 1], cues[n])
  IN kept[Len(cues)]

(* The elements of a sequence at some of its places, in their order.       *)
AddIf(condition, s, e) == IF condition THEN Append(s, e) ELSE s
Chosen(s, places) ==
  LET chosen[n \in 0..Len(s)] == IF n = 0 THEN <<>> ELSE AddIf(n \in places, chosen[n - 1], s[n])
  IN chosen[Len(s)]
Worded(cues) == Chosen(cues, {i \in DOMAIN cues : cues[i].text # <<>>})

(* _normalize_segments_for_clip *)
Local(seg, from, to) ==
  [seg EXCEPT !.start = Max({@, from}) - from, !.end = Min({@, to}) - from]
Heard(seg, from, to) == Max({seg.start, from}) < Min({seg.end, to})
Shown(seg, from, to) == seg.text # <<>> /\ Heard(seg, from, to)
Selected(segs, from, to) ==
  LET shown == Chosen(segs, {i \in DOMAIN segs : Shown(segs[i], from, to)})
  IN [i \in DOMAIN shown |-> Local(shown[i], from, to)]

-----------------------------------------------------------------------------
(* _chunk_words_balanced: the words of a line, with a space between two.   *)
Chars(words) ==
  LET chars[n \in 0..Len(words)] == IF n = 0 THEN -1 ELSE chars[n - 1] + 1 + words[n].length
  IN chars[Len(words)]
FitsWords(words) == Len(words) <= MaxWordsPerLine
Fits(words) == Len(words) <= MaxWordsPerLine /\ Chars(words) <= MaxCharsPerLine
AddWord(chunks, word, fits) ==
  IF chunks # <<>> /\ fits
    THEN Append(Front(chunks), Append(Last(chunks), word))
    ELSE Append(chunks, <<word>>)
ChunkWord(chunks, word) == AddWord(chunks, word, Fits(Append(Last(chunks), word)))
Chunked(words) ==
  LET chunks[n \in 0..Len(words)] == IF n = 0 THEN <<>> ELSE ChunkWord(chunks[n - 1], words[n])
  IN chunks[Len(words)]

(* _rebalance_last_chunks moves words of the last line but one down, as    *)
(* long as the last is short and both have room.  It counts no words.      *)
ShortLine == Max({8, MaxCharsPerLine \div 2})
RebalancedLosing(chunks) ==
  IF Len(chunks) < 2 THEN chunks
  ELSE LET previous == Last(Front(chunks)) last == Last(chunks)
       IN Front(Front(chunks)) \o
            (IF Chars(last) < ShortLine /\ Len(previous) > 1
               THEN <<Front(previous), last>> ELSE <<previous, last>>)
Rebalanced(chunks) ==
  IF Len(chunks) < 2 THEN chunks
  ELSE LET previous == Last(Front(chunks))
           words == previous \o Last(chunks)
           Upper(k) == SubSeq(words, 1, k)
           Lower(k) == SubSeq(words, k + 1, Len(words))
           TooWide(k) == Chars(Upper(k)) > MaxCharsPerLine \/ Chars(Lower(k)) > MaxCharsPerLine
           Stays(k) == k = 1 \/ Chars(Lower(k)) >= ShortLine \/ TooWide(k - 1)
           cut == Max({k \in DOMAIN previous : Stays(k)})
       IN Front(Front(chunks)) \o <<Upper(cut), Lower(cut)>>

(* flush_words: captions of MaxLines lines each.                           *)
Paged(lines) ==
  [i \in 1..((Len(lines) + MaxLines - 1) \div MaxLines) |->
     SubSeq(lines, (i - 1) * MaxLines + 1, Min({i * MaxLines, Len(lines)}))]
Flushed(words) == Paged(Rebalanced(Chunked(words)))

(* _split_segment_text: phrases share a caption as long as they fit one.   *)
PhraseWord(parts, word) == AddWord(parts, word, ~Last(Last(parts)).stop)
Phrases(text) ==
  LET parts[n \in 0..Len(text)] == IF n = 0 THEN <<>> ELSE PhraseWord(parts[n - 1], text[n])
  IN parts[Len(text)]

Nothing == [words |-> <<>>, captions |-> <<>>]
AddPhrase(acc, part) ==
  IF acc.words # <<>> /\ Len(Chunked(acc.words \o part)) > MaxLines
    THEN [words |-> part, captions |-> acc.captions \o Flushed(acc.words)]
    ELSE [acc EXCEPT !.words = @ \o part]
Split(text) ==
  LET parts == Phrases(text)
      taken[n \in 0..Len(parts)] == IF n = 0 THEN Nothing ELSE AddPhrase(taken[n - 1], parts[n])
      all == taken[Len(parts)]
  IN all.captions \o Flushed(all.words)

-----------------------------------------------------------------------------
(* round; a tie may fall either way.                                       *)
Nearest(n, d) == (2 * n + d) \div (2 * d)

(* _format_ass_timestamp, of n / d hundredths of a second.                 *)
Carry(condition) == IF condition THEN 1 ELSE 0
StampUncarried(n, d) ==
  LET whole == n \div (100 * d)
  IN [h |-> whole \div 3600, m |-> (whole % 3600) \div 60, s |-> whole % 60, c |-> Nearest(n % (100 * d), d)]
Stamp(n, d) ==
  LET whole == n \div (100 * d)
      c == Nearest(n % (100 * d), d)
      s == (whole % 60) + Carry(c = 100)
      m == ((whole % 3600) \div 60) + Carry(s = 60)
  IN [h |-> (whole \div 3600) + Carry(m = 60), m |-> m % 60, s |-> s % 60, c |-> c % 100]

(* _build_karaoke_text: how long each word of a caption is marked.         *)
Beats(total, words) ==
  [k \in DOMAIN words |-> (total \div Len(words)) + Carry(k <= total % Len(words))]

(* generate_ass_for_clip: the captions of a segment divide its time.       *)
Dialogues(seg) ==
  LET captions == Split(seg.text)
      n == Len(captions)
      Begins(i) == n * seg.start + (i - 1) * (seg.end - seg.start)
  IN [i \in 1..n |->
        [from |-> Stamp(Begins(i), n), to |-> Stamp(Begins(i + 1), n), lines |-> captions[i],
         beats |-> IF Karaoke
                     THEN Beats(Max({1, Nearest(seg.end - seg.start, n)}), FlattenSeq(captions[i]))
                     ELSE <<>>]]

-----------------------------------------------------------------------------
NoScript == [source |-> "whisper", cues |-> <<>>, from |-> 0, to |-> 0]

CaptionInit ==
  /\ captioning = "parse" /\ script \in Scripts
  /\ segments = <<>> /\ unwritten = <<>> /\ dialogues = <<>>
CaptionIdle ==
  /\ captioning = "idle" /\ script = NoScript
  /\ segments = <<>> /\ unwritten = <<>> /\ dialogues = <<>>

(* parse_subtitle_to_transcript: cues without words are dropped, and only  *)
(* those of a VTT file are merged.  (Whisper's are taken as they are.)     *)
Parse ==
  LET cues == Worded(script.cues) IN
  /\ captioning = "parse"
  /\ segments' = CASE script.source = "vtt" -> MergedCues(cues)
                   [] script.source = "srt" -> cues
                   [] OTHER -> script.cues
  /\ captioning' = IF script.source # "whisper" /\ cues = <<>> THEN "refused" ELSE "select"
  /\ UNCHANGED <<script, unwritten, dialogues>>

Select ==
  /\ captioning = "select" /\ captioning' = "write"
  /\ unwritten' = Selected(segments, script.from, script.to)
  /\ UNCHANGED <<script, segments, dialogues>>

WriteSegment ==
  /\ captioning = "write" /\ unwritten # <<>>
  /\ dialogues' = dialogues \o Dialogues(Head(unwritten))
  /\ unwritten' = Tail(unwritten)
  /\ UNCHANGED <<captioning, script, segments>>

CloseFile ==
  /\ captioning = "write" /\ unwritten = <<>> /\ captioning' = "written"
  /\ UNCHANGED <<script, segments, unwritten, dialogues>>

CaptionNext == Parse \/ Select \/ WriteSegment \/ CloseFile

CaptionSpec == CaptionInit /\ [][CaptionNext]_captionVars

-----------------------------------------------------------------------------
Written == captioning = "written"
Instant(stamp) == 100 * (60 * (60 * stamp.h + stamp.m) + stamp.s) + stamp.c

Said(lines) == FlattenSeq(FlattenSeq([i \in DOMAIN lines |-> lines[i].lines]))
TextOf(segs) == FlattenSeq([i \in DOMAIN segs |-> segs[i].text])
BeatsTotal(beats) ==
  LET total[n \in 0..Len(beats)] == IF n = 0 THEN 0 ELSE total[n - 1] + beats[n]
  IN total[Len(beats)]

(* The cues of a WebVTT file are in the order of their starts.             *)
CuesInOrder ==
  \A s \in Scripts : s.source = "vtt" =>
    \A i \in DOMAIN s.cues : \A j \in 1..(i - 1) : s.cues[j].start <= s.cues[i].start

(* The captions of a clip say every word of the segments that are heard in *)
(* it, once and in their order, however they are divided and moved between *)
(* lines (subtitles.py 96-193).                                            *)
WordsKept ==
  Written =>
    Said(dialogues) = TextOf(Chosen(segments, {i \in DOMAIN segments : Heard(segments[i], script.from, script.to)}))

(* A caption has no more lines than the preset allows, and a line no more  *)
(* characters, unless it is one long word, and no more words, unless it is *)
(* the last of its caption, and was too short without the word that was    *)
(* moved into it last (subtitles.py 96-141, render_presets.py).            *)
LinesFit ==
  \A i \in DOMAIN dialogues : LET lines == dialogues[i].lines IN
    /\ Len(lines) \in 1..MaxLines
    /\ \A k \in DOMAIN lines :
         /\ Len(lines[k]) = 1 \/ (lines[k] # <<>> /\ Chars(lines[k]) <= MaxCharsPerLine)
         /\ \/ Len(lines[k]) <= MaxWordsPerLine
            \/ k = Len(lines) /\ Chars(Tail(lines[k])) < ShortLine

(* The times of a file are valid times of its clip; when a cue with words  *)
(* begins or ends, a caption is shown; of merged cues, none begins before  *)
(* the end of an earlier one but for the threshold; and the words of one   *)
(* are marked as long as it is shown, up to the rounding                   *)
(* (subtitle_parser.py 149-177, subtitles.py 11-26, 163-193, 295-320).     *)
CaptionsOnTime ==
  LET Moments(cue) == {Max({cue.start, script.from}), Min({cue.end, script.to})}
      Lasts(d) == Instant(d.to) - Instant(d.from)
  IN /\ \A i \in DOMAIN dialogues : LET d == dialogues[i] IN
          /\ \A stamp \in {d.from, d.to} : stamp.m < 60 /\ stamp.s < 60 /\ stamp.c < 100
          /\ Lasts(d) >= 0 /\ Instant(d.to) <= script.to - script.from
          /\ Karaoke => BeatsTotal(d.beats) - Lasts(d) \in -1 .. 1
          /\ script.source = "vtt" =>
               \A j \in 1..(i - 1) : Instant(dialogues[j].to) - Instant(d.from) <= OverlapThreshold
     /\ Written => \A k \in DOMAIN script.cues : LET cue == script.cues[k] IN
          Shown(cue, script.from, script.to) =>
            \A t \in Moments(cue) : \E i \in DOMAIN dialogues :
              Instant(dialogues[i].from) <= t - script.from /\ t - script.from <= Instant(dialogues[i].to)
=============================================================================
