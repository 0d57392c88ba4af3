-------------------------- MODULE MCCommandMailbox --------------------------
(***************************************************************************)
(* Lines and scripts for CommandMailbox.  Every TIME line of a script has    *)
(* its one argument.                                                       *)
(***************************************************************************)
EXTENDS CommandMailboxProperties

MCWord == {"TIME", "QUIT", "7", "30", "1", "PING"}

MCMilliseconds == [w \in MCWord |-> CASE w = "7" -> 7 [] w = "30" -> 30 [] OTHER -> 0]

Text(words) == [empty |-> FALSE, words |-> words]

Blank == [empty |-> TRUE, words |-> <<>>]

MCLine == {Blank, Text(<<>>), Text(<<"QUIT">>), Text(<<"1", "PING">>), Text(<<"TIME", "7">>)}

ScriptLine == MCLine \cup {Text(<<"TIME", "30">>)}

MCScripts == UNION {[1 .. n -> ScriptLine] : n \in 0 .. 4}

(* A long script is read on its own, the console is used with a short one. *)
MCInit ==
  /\ Init
  /\ typed = IF Len(script) <= 1 THEN 0 ELSE MaxTyped

MCSpec == MCInit /\ [][Next]_vars /\ Fairness
=============================================================================
