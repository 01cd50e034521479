---------------------------- MODULE MCSelection ----------------------------
(* Every transcript is selected from, or every script is captioned.        *)
EXTENDS Selection, Captions

CONSTANTS Sizes, Gaps, Segments, Lengths, Words, Times, Near3

(* Transcripts of so many segments, of these lengths, with these pauses    *)
RECURSIVE Ended(_, _, _)
Ended(sizes, gaps, k) == IF k = 0 THEN 0 ELSE Ended(sizes, gaps, k - 1) + gaps[k] + sizes[k]
MCTranscripts == UNION
  {{[k \in 1..n |-> [start |-> Ended(s, g, k) - s[k], end |-> Ended(s, g, k)]] :
      s \in [1..n -> Sizes], g \in [1..n -> Gaps]} : n \in Segments}
MCLimits == {<<4, 6>>, <<0, 2>>}

(* One cue with any text, and two or three, that begin one after the       *)
(* other, with few texts, in any clip.                                     *)
Texts(n) == [1..n -> [length : Lengths, stop : BOOLEAN]]
Few3 == {<<>>, <<[length |-> 5, stop |-> FALSE]>>, [k \in 1..5 |-> [length |-> 7, stop |-> k = 2]]}
Intervals(T) == {i \in T \X T : i[1] < i[2]}
CuesOf(n, T) ==
  {[k \in 1..n |-> [start |-> i[k][1], end |-> i[k][2], text |-> t[k]]] :
     i \in {j \in [1..n -> Intervals(T)] : \A k \in 1..(n - 1) : j[k][1] <= j[k + 1][1]},
     t \in [1..n -> Few3]}
Script(source, cues, i) == [source |-> source, cues |-> cues, from |-> i[1], to |-> i[2]]
MCScripts ==
  {Script("vtt", <<[start |-> 0, end |-> 100, text |-> t]>>, <<0, 100>>) : t \in UNION {Texts(n) : n \in 0..Words}}
    \cup {Script("vtt", c, i) : c \in CuesOf(2, Times), i \in Intervals(Times)}
    \cup {Script(s, c, <<0, 6000>>) : s \in {"srt", "whisper"}, c \in CuesOf(2, Times)}
    \cup {Script("vtt", c, i) : c \in CuesOf(3, Near3), i \in Intervals(Near3)}

ASSUME ScriptsInOrder == CuesInOrder

MCInit == (Init /\ CaptionIdle) \/ (Init /\ transcript = <<>> /\ limits = <<4, 6>> /\ CaptionInit)
MCNext ==
  \/ captioning = "idle" /\ Next /\ UNCHANGED captionVars
  \/ CaptionNext /\ UNCHANGED vars
MCSpec == MCInit /\ [][MCNext]_<<vars, captionVars>>
=============================================================================
