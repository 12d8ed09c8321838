-------------------------- MODULE MCControllerHistory --------------------------
(***************************************************************************)
(* The constants of MCController for the runs with history variables.      *)
(***************************************************************************)
EXTENDS MCController, ControllerHistory
=============================================================================
