------------------------- MODULE MCScheduledTakeoff -------------------------
(* The bounds of the model-checking runs of ScheduledTakeoff.              *)
EXTENDS ScheduledTakeoff
=============================================================================
