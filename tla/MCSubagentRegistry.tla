------------------------- MODULE MCSubagentRegistry -------------------------
(* SubagentRegistry on small instances: a parent, the run that replaces it, *)
(* and a child of the parent.                                              *)
EXTENDS SubagentRegistry

Tree == [p |-> "main", c |-> "p"]
Family == [p1 |-> "p", p2 |-> "p", c1 |-> "c"]
Pair == [p1 |-> "p", c1 |-> "c"]

=============================================================================
