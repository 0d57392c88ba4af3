---------------------------- MODULE InvertedIndex ----------------------------
(***************************************************************************)
(* What the search layer promises its users: one inverted index that a     *)
(* PUBLISH extends at once, and searches each of which shows once, some    *)
(* time later and where it was given, the documents that hold all its keys. *)
(***************************************************************************)
EXTENDS Naturals, Sequences

CONSTANTS
  Node,       \* where commands are given
  Key,        \* keywords
  Doc,        \* documents
  File,       \* metadata files: functions from Key to sets of documents
  KeyList     \* lists of keys that are searched for, none empty

VARIABLES
  log,        \* the PUBLISH and SEARCH commands given, in order
  results     \* what was shown for which SEARCH, by its place in the log

vars == <<log, results>>

PublishCommand == [type : {"PUBLISH"}, node : Node, file : File]

SearchCommand == [type : {"SEARCH"}, node : Node, keys : KeyList]

Indexed(k) ==
  UNION {log[i].file[k] : i \in {j \in DOMAIN log : log[j].type = "PUBLISH"}}

Matches(ks) == {d \in Doc : \A i \in DOMAIN ks : d \in Indexed(ks[i])}

Open == {i \in DOMAIN log : log[i].type = "SEARCH" /\ \A r \in results : r.id # i}

Give(c) == log' = Append(log, c) /\ UNCHANGED results

Show(i) ==
  /\ i \in Open
  /\ results' = results \cup {[id |-> i, node |-> log[i].node,
                                docs |-> Matches(log[i].keys)]}
  /\ UNCHANGED log

Init == log = <<>> /\ results = {}

Next ==
  \/ \E c \in PublishCommand \cup SearchCommand : Give(c)
  \/ \E i \in DOMAIN log : Show(i)

Spec == Init /\ [][Next]_vars
=============================================================================
