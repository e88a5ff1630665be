---------------------------- MODULE MCHTTPBridge ----------------------------
(* The bounds of the model-checking runs of HTTPBridge.                    *)
EXTENDS HTTPBridge, TLC

Symmetry == Permutations(Receipts)
=============================================================================
