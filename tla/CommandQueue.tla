---------------------------- MODULE CommandQueue ----------------------------
(***************************************************************************)
(* What the console promises: commands that are taken are executed once,    *)
(* whole, and in the order they were given.  Unless they may queue, one is   *)
(* executed before the next is taken.                                      *)
(***************************************************************************)
EXTENDS Naturals, Sequences

CONSTANT Command

VARIABLES
  queueing,   \* commands may wait for one another
  accepted,   \* the commands taken so far
  executed,   \* the commands executed so far
  stopped     \* the simulation has been told to stop

vars == <<queueing, accepted, executed, stopped>>

Init ==
  /\ queueing \in BOOLEAN
  /\ accepted = <<>>
  /\ executed = <<>>
  /\ stopped = FALSE

Put(c) ==
  /\ queueing \/ Len(executed) = Len(accepted)
  /\ accepted' = Append(accepted, c)
  /\ UNCHANGED <<queueing, executed, stopped>>

(* What a command does may be to stop the simulation. *)
Take ==
  /\ Len(executed) < Len(accepted)
  /\ executed' = Append(executed, accepted[Len(executed) + 1])
  /\ stopped' \in {stopped, TRUE}
  /\ UNCHANGED <<queueing, accepted>>

Stop == stopped' = TRUE /\ UNCHANGED <<queueing, accepted, executed>>

Next == (\E c \in Command : Put(c)) \/ Take \/ Stop

Spec == Init /\ [][Next]_vars
=============================================================================
