------------------------- MODULE MCConnectionStatus -------------------------
(* The bounds of the model-checking runs of ConnectionStatus.              *)
EXTENDS ConnectionStatus
=============================================================================
