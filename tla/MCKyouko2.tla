------------------------------- MODULE MCKyouko2 -------------------------------
EXTENDS Kyouko2

(* Each driver with its test program, and with any other. *)
MCScenarios == Drivers \X Clients
=============================================================================
