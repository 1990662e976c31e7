---------------------------- MODULE MCHookIntake ----------------------------
(* Instances of HookIntake. *)
EXTENDS HookIntake

=============================================================================
