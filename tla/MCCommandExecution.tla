------------------------- MODULE MCCommandExecution -------------------------
(* The module of the model-checking run of CommandExecution.  Its bounds   *)
(* are in Command.cfg: there are liveness properties, hence no symmetry.   *)
EXTENDS CommandExecution
=============================================================================
