--------------------------- MODULE MCCommandLanes ---------------------------
(* CommandLanes on a small instance; its constants are in the .cfg.  A task *)
(* that enters its own lane or the other one, a second and a third that     *)
(* wait behind it: three tasks on two lanes are enough for the pumps of     *)
(* both lanes to be nested and re-entered.                                  *)
EXTENDS CommandLanes

=============================================================================
