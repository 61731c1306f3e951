------------------------- MODULE MCAsyncToolExecutor -------------------------
(* Instance of AsyncToolExecutor for TLC *)
EXTENDS AsyncToolExecutor, TLC
=============================================================================
