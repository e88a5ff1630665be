----------------------------- MODULE MCShowStart -----------------------------
(* The bounds of the model-checking runs of ShowStart.                     *)
EXTENDS ShowStart
=============================================================================
