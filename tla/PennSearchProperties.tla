------------------------ MODULE PennSearchProperties ------------------------
(***************************************************************************)
(* What the search layer should do, and how its users pace their commands. *)
(***************************************************************************)
EXTENDS PennSearch

CONSTANT Asker      \* nodes at which searches are given

ASSUME AskerAssumption == Asker \subseteq Node

-----------------------------------------------------------------------------
(* Vocabulary *)

Published == {q \in pending : q.flag = 0}

Moving == {m \in net : m.type \in {"STORE_LIST", "PASS_KEYS"}}

Searching == {m \in net : m.type \in {"SEARCH_BEGIN", "SEARCH"}}

(* Nothing is on its way and every successor knows its new predecessor. *)
Settled == net = {} /\ pending = {} /\ untold = {}

(* Where the documents of key k may be: stored at a node, in a packet, or *)
(* waiting at their publisher for the answer to a lookup.                 *)
Whereabouts(k) ==
  UNION ({data[n][k] : n \in Node}
           \cup {m.docs : m \in {x \in Moving : x.key = k}}
           \cup {inverted[q.node][k] : q \in {x \in Published : x.key = k}})

-----------------------------------------------------------------------------
(* No document of a key is forgotten and none is made up, however its list   *)
(* travels: published while its lookup is out (SendInvertList reads the list *)
(* only then), in STORE_LIST, or in PASS_KEYS between two members.           *)
NothingLost == \A k \in Key : Whereabouts(k) = I!Indexed(k)

(* When the ring has settled a list is at the owner of its key and nowhere   *)
(* else: PassKeysJoin keeps and passes on just what FindSuccessor and the    *)
(* lookups will expect.                                                      *)
KeysPlaced ==
  Settled /\ member # {} =>
    \A n \in Node, k \in Key :
      data[n][k] = IF n = O!Owner(k) THEN I!Indexed(k) ELSE {}

(* However commands, hand-overs and packets overlap, no search of two keys    *)
(* shows a document that is not listed under both.                           *)
SearchSound == \A r \in results : r.docs \subseteq I!Matches(log[r.id].keys)

(* Whatever callbacks come twice, late or out of order, a search packet is    *)
(* sent to the owner of the key it asks for: an answer that is not for what   *)
(* the tracker holds is a "Received invalid LOOKUP!" (penn-search.cc:506).    *)
LookupsMatched == \A m \in Searching : m.to = O!Owner(Head(m.data.keys))

(* A search for a key that has no list ends in an "Empty List" (penn-search.cc *)
(* :573); ProcessSearch takes for granted that there is one.  That holds as     *)
(* long as somebody published the key and the ring is left alone.              *)
NeverFaults == ~faulted

(* Every SEARCH shows, once, the documents that hold all of its keys: the    *)
(* distributed lists behave like one inverted index.                         *)
ImplementsIndex == I!Spec

(* Every search is answered. *)
SearchesAnswered ==
  \A i \in Tid :
    (i \in DOMAIN log /\ log[i].type = "SEARCH") ~> (\E r \in results : r.id = i)

-----------------------------------------------------------------------------
(* No list is published, stored or handed over. *)
AtRest == Moving = {} /\ Published = {} /\ untold = {}

(* The scenario gives commands 10 s apart (penn-search.sce), time enough for  *)
(* every packet to arrive.  Lists are published when the system has settled;  *)
(* searches wait for the lists to be stored, and may overlap each other and   *)
(* the joins and leaves.  A ring keeps two members or more once it has them:   *)
(* its founder, alone, hands nothing over (penn-chord.cc:531 is a comment).   *)
PacedCommand ==
  \/ /\ Settled /\ Cardinality(member) > 1
     /\ \E n \in member, f \in File : Publish(n, f)
  \/ /\ AtRest
     /\ \E n \in Asker, via \in member, ks \in KeyList : Search(n, via, ks)

PacedChange ==
  /\ AtRest
  /\ \E n \in Node :
       \/ RingJoin(n)
       \/ Cardinality(member) > 2 /\ PassKeysLeave(n)

PacedNext ==
  /\ ~faulted
  /\ \/ PacedCommand
     \/ RecvMessage
     \/ LookupAnswered
     \/ \E p \in untold : PassKeysJoin(p)
     \/ PacedChange

PacedSpec == Init /\ [][PacedNext]_vars /\ Running

(* Later keys of a search are known ones: the others are NeverFaults' matter. *)
KnownLater ==
  \A i \in DOMAIN log :
    log[i].type = "SEARCH" =>
      \A j \in DOMAIN log[i].keys : j > 1 => I!Indexed(log[i].keys[j]) # {}

(* Commands for a ring that is complete. *)
Completed == log # <<>> => changes = MaxChange

QueriesSpec == Init /\ [][PacedNext /\ KnownLater' /\ Completed']_vars /\ Running
=============================================================================
