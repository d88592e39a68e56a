--------------------------- MODULE MCTrainingRun ---------------------------
(* Two runs in up to three app sessions: a run left by a crash, a second   *)
(* one started beside the scan that finds it.                              *)
EXTENDS TrainingRun
===========================================================================
