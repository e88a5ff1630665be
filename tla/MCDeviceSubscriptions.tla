------------------------- MODULE MCDeviceSubscriptions -------------------------
(* Symmetry for the runs of DeviceSubscriptions. *)
EXTENDS DeviceSubscriptions, TLC

Symmetry == Permutations(Clients) \cup Permutations(Ids)
=============================================================================
