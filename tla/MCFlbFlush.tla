----------------------------- MODULE MCFlbFlush -----------------------------
(* Two tasks, an output of the engine's thread and one with a worker: task t1 is  *)
(* shared by both, t2 shares the worker; the worker's output may be retried once.  *)
EXTENDS FlbFlush, TLC

CONSTANTS t1, t2, m, w

MCRoutes     == {<<t1, m>>, <<t1, w>>, <<t2, w>>}
MCRetryLimit == (m :> 0) @@ (w :> 1)
=============================================================================
