-------------------------- MODULE MCHeartbeatWake ---------------------------
(* HeartbeatWake on small instances. *)
EXTENDS HeartbeatWake

ManualForAll == {<<All, "manual">>}
Targeted == {<<"main", "wake">>}

=============================================================================
