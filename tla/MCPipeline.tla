----------------------------- MODULE MCPipeline -----------------------------
(* Instances of Pipeline for TLC: which process each runner belongs to.      *)
EXTENDS Pipeline, TLC

CONSTANTS w1, w2, t1, t2, web

OneWorker == (w1 :> w1)
TwoWorkers == (w1 :> w1) @@ (w2 :> w2)
WorkerAndThread == (w1 :> w1) @@ (t1 :> web)
TwoThreads == (t1 :> web) @@ (t2 :> web)
=============================================================================
