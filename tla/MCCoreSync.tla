----------------------------- MODULE MCCoreSync -----------------------------
(***************************************************************************)
(* CoreSync for TLC: one component of the project with a plain property,     *)
(* another one to be added whose property decides its pins.                  *)
(***************************************************************************)
EXTENDS CoreSync
=============================================================================
