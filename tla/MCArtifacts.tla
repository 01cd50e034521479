---------------------------- MODULE MCArtifacts ----------------------------
(* Instances of Artifacts for TLC.                                         *)
EXTENDS Artifacts, TLC
CONSTANTS t1, t2, a, b, source
=============================================================================
