-------------------------- MODULE FollowupService ---------------------------
(***************************************************************************)
(* What the followup queue of a session promises while nothing overflows:  *)
(* the messages it has accepted are handed to the agent in the order they  *)
(* came, each of them once; a clear empties it.                            *)
(***************************************************************************)
EXTENDS Integers, Sequences

CONSTANT Messages

VARIABLES
  waiting,  \* accepted and not handed over, oldest first
  done      \* handed over

vars == <<waiting, done>>

Init == waiting = <<>> /\ done = {}

Waits(m) == \E i \in DOMAIN waiting : waiting[i] = m

Accept(m) ==
  /\ m \notin done
  /\ ~Waits(m)
  /\ waiting' = Append(waiting, m)
  /\ UNCHANGED done

\* One message, or several as one prompt.
Hand(n) ==
  /\ done' = done \union {waiting[i] : i \in 1..n}
  /\ waiting' = SubSeq(waiting, n + 1, Len(waiting))

Clear ==
  /\ waiting' = <<>>
  /\ UNCHANGED done

Next ==
  \/ \E m \in Messages : Accept(m)
  \/ \E n \in DOMAIN waiting : Hand(n)
  \/ Clear

Spec == Init /\ [][Next]_vars

=============================================================================
