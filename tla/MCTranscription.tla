-------------------------- MODULE MCTranscription --------------------------
(* An instance of Transcription for TLC.                                     *)
EXTENDS Transcription

CONSTANTS c1, c2, a

OfOneJob == [c \in Calls |-> a]
=============================================================================
