----------------------------- MODULE MCMissions -----------------------------
(* The module of the model-checking run of Missions.  Its bounds are in    *)
(* Missions.cfg: there are liveness properties, hence no symmetry.         *)
EXTENDS Missions
=============================================================================
