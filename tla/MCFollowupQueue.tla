-------------------------- MODULE MCFollowupQueue ---------------------------
(* FollowupQueue on small instances. *)
EXTENDS FollowupQueue

\* Three messages; the second arrives again at the end.
FourDeliveries == 1..4
FourMessages == <<"first", "second", "third", "second">>

\* The third message came through another chat than the first two.
TwoChats == [first |-> "chat", second |-> "chat", third |-> "group"]

Setting(mode, cap, policy) == [mode |-> mode, cap |-> cap, dropPolicy |-> policy]

\* Nothing overflows, or what would is not accepted.
Roomy == {Setting("collect", 3, "summarize"), Setting("followup", 3, "old"),
          Setting("collect", 1, "new"), Setting("followup", 2, "new")}

\* Every mode and policy, with little room.
Tight == {Setting("collect", 2, "summarize"), Setting("followup", 1, "summarize"),
          Setting("collect", 1, "old"), Setting("followup", 1, "new")}
=============================================================================
