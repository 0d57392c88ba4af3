---------------------- MODULE CommandMailboxProperties ----------------------
(***************************************************************************)
(* What the script reader and the console's two threads keep.              *)
(***************************************************************************)
EXTENDS CommandMailbox, FiniteSets

Queue ==
  INSTANCE CommandQueue WITH Command <- {l.words : l \in Line}, queueing <- realStack, stopped <- quit

(* Whatever the two threads interleave, the console is a CommandQueue: every   *)
(* line the reader takes is executed once, whole, unmixed with another and in *)
(* order.  m_readyToRead alone keeps the threads apart (CommandHandler        *)
(* 259-272, ReadCommandTokens 288-297).                                      *)
ImplementsQueue == Queue!Spec

(* No command that was taken is left in the mailbox, or among the events,     *)
(* unless the simulation is told to stop: the scan goes on and sees the flag.  *)
AcceptedExecuted ==
  \A i \in 1 .. MaxTyped : Len(accepted) >= i ~> quit \/ Len(executed) >= i

-----------------------------------------------------------------------------
IsTime(l) == l.words # <<>> /\ l.words[1] = "TIME"

IsCommand(l) == l.words # <<>> /\ ~IsTime(l)

(* The milliseconds that the TIME lines among the first k lines of s add up to. *)
Elapsed(s) ==
  LET t[k \in 0 .. Len(s)] ==
        IF k = 0 THEN 0
        ELSE t[k - 1] + (IF IsTime(s[k]) THEN Milliseconds[s[k].words[2]] ELSE 0)
  IN  t

(* The lines that have been read and hold a command. *)
CommandLines == {i \in 1 .. read : IsCommand(script[i])}

(* The command of each line of the script that has been read is on the agenda, *)
(* in the order of the lines, with its own words only and at the sum of the    *)
(* delays before it: m_tokens is shared by all lines and must have been       *)
(* cleared on each of the ways back to the loop's head (169-223).             *)
ScriptKept ==
  /\ Len(agenda) = Cardinality(CommandLines)
  /\ \A i \in CommandLines :
       agenda[Cardinality({j \in CommandLines : j <= i})] =
         [at |-> Elapsed(script)[i], command |-> script[i].words]
=============================================================================
