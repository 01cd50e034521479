----------------------------- MODULE MCBilling -----------------------------
(* Instances of Billing for TLC.                                             *)
EXTENDS Billing, TLC

CONSTANTS c1, c2, q1, q2
=============================================================================
