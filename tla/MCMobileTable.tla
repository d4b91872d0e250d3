---------------------------- MODULE MCMobileTable ----------------------------
(* A table of two pages with one record each, for TLC. *)
EXTENDS MobileTable, TLC
CONSTANTS r1, r2
MCPageOf == (r1 :> 1) @@ (r2 :> 2)
=============================================================================
