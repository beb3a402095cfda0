------------------------- MODULE MCSessionWriteLock -------------------------
(* SessionWriteLock on small instances: two callers in a gateway and one in *)
(* a second process.                                                       *)
EXTENDS SessionWriteLock

Where == [a |-> "gateway", b |-> "gateway", c |-> "cli"]

=============================================================================
