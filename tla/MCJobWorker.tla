---------------------------- MODULE MCJobWorker ----------------------------
(* TLC instance of JobWorker: one key whose computation raises, and one      *)
(* whose computation returns                                                 *)
EXTENDS JobWorker, TLC

MCRequests == {<<"k1", TRUE>>, <<"k2", FALSE>>}
=============================================================================
