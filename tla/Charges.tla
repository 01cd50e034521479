------------------------------ MODULE Charges ------------------------------
(***************************************************************************)
(* What the metering of videos promises: a job is charged once, no charge  *)
(* is ever taken back, and a transcript is kept only of a job that was     *)
(* charged, at once or later.  A transcript may be thrown away.  Module    *)
(* Admission, where workers race, repeat themselves and die between two    *)
(* transactions, implements this.                                          *)
(***************************************************************************)
VARIABLES
  charged,  \* jobs whose minutes were counted
  kept      \* jobs that have a transcript

ChargesInit == charged = {} /\ kept = {}

Charge(j) ==
  /\ j \notin charged /\ charged' = charged \cup {j}
  /\ kept' = kept \cup {j}

Keep(j) ==
  /\ j \in charged /\ kept' = kept \cup {j}
  /\ UNCHANGED charged

Discard(j) == kept' = kept \ {j} /\ UNCHANGED charged

ChargesNext == \E j \in kept \cup kept' : Charge(j) \/ Keep(j) \/ Discard(j)

ChargesSpec == ChargesInit /\ [][ChargesNext]_<<charged, kept>>
=============================================================================
