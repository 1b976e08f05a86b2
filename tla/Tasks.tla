------------------------------- MODULE Tasks -------------------------------
(***************************************************************************)
(* The task_structs, of which Uclamp and WakeQ model different fields.     *)
(***************************************************************************)
CONSTANT Task
=============================================================================
