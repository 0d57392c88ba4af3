------------------------------ MODULE PennSearch ------------------------------
(***************************************************************************)
(* The search layer of Penn-Search (penn-search/penn-search.cc) on top of  *)
(* the Chord overlay: PUBLISH ships inverted lists to the nodes that own   *)
(* their keys, SEARCH visits the owners of its keys one after the other,   *)
(* and lists change hands when nodes join and leave.                       *)
(*                                                                         *)
(* Every action is one event of one node together with the callbacks the   *)
(* overlay makes in it (upcall').  A document list is the set of its       *)
(* documents: a stored list is never empty, so the empty set stands for no *)
(* entry.  Packets are a set and arrive in any order; none is lost.        *)
(***************************************************************************)
EXTENDS ChordId, Sequences, FiniteSets

CONSTANTS
  Node, Digest,         \* the nodes of the circle (Overlay)
  Key,                  \* keywords, each named by its digest
  Doc, File, KeyList,   \* documents, metadata files and searches (InvertedIndex)
  MaxCommand,           \* bound on PUBLISH and SEARCH commands
  MaxChange             \* bound on joins and leaves

Flag == 0 .. 2          \* 0 publish, 1 first key of a search, 2 a later one

Tid == 1 .. MaxCommand  \* transaction ids: unique, by command

Query == [node : Node, key : Key, flag : Flag, tid : Tid]

VARIABLES
  member, pending, upcall,   \* the overlay
  inverted,   \* m_invertListMap: lists of the node's last PUBLISH
  data,       \* m_dataMap: lists stored at the node
  tracker,    \* m_searchTracker
  net,        \* packets of the search layer in flight
  untold,     \* members whose successor has not been notified of them
  faulted,    \* ProcessSearch dereferenced m_dataMap.end ()
  log,        \* commands given
  results,    \* SearchResults shown
  changes     \* joins and leaves so far

O == INSTANCE Overlay

I == INSTANCE InvertedIndex

ASSUME DigestAssumption ==                      \* no SHA-1 collision
  /\ \A a, b \in Node : Digest[a] \in Id /\ (Digest[a] = Digest[b] => a = b)
  /\ Key \subseteq Id
  /\ \A n \in Node : Digest[n] \notin Key

ASSUME FileAssumption == File \subseteq [Key -> SUBSET Doc]

ASSUME KeyListAssumption ==                     \* no key twice in a search
  \A ks \in KeyList :
    /\ ks \in Seq(Key) /\ ks # <<>>
    /\ \A i, j \in DOMAIN ks : ks[i] = ks[j] => i = j

ASSUME BoundAssumption == MaxCommand \in Nat /\ MaxChange \in Nat

overlay == <<member, pending, upcall>>

local == <<inverted, data, tracker>>

vars == <<overlay, local, net, untold, faulted, log, results, changes>>

List == SUBSET Doc

NoList == [k \in Key |-> {}]

SearchData == [tid : Tid, node : Node, keys : Seq(Key), docs : List]

Message ==
       [type : {"STORE_LIST", "PASS_KEYS"}, to : Node, key : Key,
        docs : List \ {{}}]
  \cup [type : {"SEARCH_INITIAL", "SEARCH_BEGIN", "SEARCH", "SEARCH_COMPLETE"},
        to : Node, data : SearchData]

(* Packets carry what their handlers read, a list that is shipped is not     *)
(* empty, and a tracker has one entry for a transaction.                     *)
TypeOK ==
  /\ member \subseteq Node /\ untold \subseteq Node
  /\ pending \subseteq Query
  /\ inverted \in [Node -> [Key -> List]]
  /\ data \in [Node -> [Key -> List]]
  /\ tracker \in [Node -> SUBSET SearchData]
  /\ \A n \in Node : \A s, t \in tracker[n] : s.tid = t.tid => s = t
  /\ net \subseteq Message
  /\ faulted \in BOOLEAN
  /\ log \in Seq(I!PublishCommand \cup I!SearchCommand)
  /\ results \subseteq [id : Tid, node : Node, docs : List]
  /\ changes \in 0 .. MaxChange

-----------------------------------------------------------------------------
(* Callbacks of the overlay *)

Packet(type, d, s) == [type |-> type, to |-> d, data |-> s]

Shipment(type, d, k, docs) == [type |-> type, to |-> d, key |-> k, docs |-> docs]

(* SendInvertList: the list is looked up when the answer comes in, in what *)
(* the last PUBLISH of the node left in the map.                           *)
SendInvertList(inv, U) ==
  {Shipment("STORE_LIST", u.addr, u.query.key, inv[u.query.key]) :
     u \in {v \in U : v.query.flag = 0 /\ inv[v.query.key] # {}}}

(* SendSearchBegin, SendSearch: the tracker is asked for the transaction id, *)
(* and what it holds under it goes to the address that was looked up.        *)
SearchAnswers(U) == {u \in U : u.query.flag # 0}

Found(T, U) == {s \in T : \E u \in SearchAnswers(U) : s.tid = u.query.tid}

SearchType(u) == IF u.query.flag = 1 THEN "SEARCH_BEGIN" ELSE "SEARCH"

(* Mutant: the packet is addressed to the node that sends it. *)
SendSearchHome(T, U) ==
  UNION {{Packet(SearchType(u), u.query.node, s) : s \in Found(T, {u})} :
           u \in SearchAnswers(U)}

SendSearch(T, U) ==
  UNION {{Packet(SearchType(u), u.addr, s) : s \in Found(T, {u})} :
           u \in SearchAnswers(U)}

(* Node n handles the lookup callbacks of this step, with tracker T and lists *)
(* inv, after ch is on the network.                                           *)
Callbacks(n, inv, T, ch) ==
  /\ tracker' = [tracker EXCEPT ![n] = T \ Found(T, upcall')]
  /\ net' = ch \cup SendInvertList(inv, upcall') \cup SendSearch(T, upcall')

(* Mutant: the search is looked up without being tracked. *)
TrackedNot(n, s) == tracker[n]

(* std::map::insert: an entry that is there already stays. *)
Tracked(n, s) ==
  IF \E t \in tracker[n] : t.tid = s.tid THEN tracker[n] ELSE tracker[n] \cup {s}

(* n tracks search s and looks its first key up. *)
LookupNext(n, s, flag, ch) ==
  /\ O!Lookup(n, {[node |-> n, key |-> Head(s.keys), flag |-> flag, tid |-> s.tid]})
  /\ Callbacks(n, inverted[n], Tracked(n, s), ch)

-----------------------------------------------------------------------------
(* Commands *)

Give(c) == Len(log) < MaxCommand /\ log' = Append(log, c)

(* The old lists are forgotten, the file's are looked up one by one.  A file *)
(* that cannot be opened, or is empty, has no list.                          *)
Publish(n, f) ==
  LET Q == {[node |-> n, key |-> k, flag |-> 0, tid |-> Len(log) + 1] :
              k \in {j \in Key : f[j] # {}}}
  IN /\ Give([type |-> "PUBLISH", node |-> n, file |-> f])
     /\ inverted' = [inverted EXCEPT ![n] = f]
     /\ IF Q = {} THEN O!Silent ELSE O!Lookup(n, Q)
     /\ Callbacks(n, f, tracker[n], net)
     /\ UNCHANGED <<data, untold, faulted, results, changes>>

(* "n SEARCH via keys" *)
Search(n, via, ks) ==
  /\ Give([type |-> "SEARCH", node |-> n, keys |-> ks])
  /\ net' = net \cup {Packet("SEARCH_INITIAL", via,
                        [tid |-> Len(log) + 1, node |-> n, keys |-> ks, docs |-> {}])}
  /\ O!Silent
  /\ UNCHANGED <<local, untold, faulted, results, changes>>

-----------------------------------------------------------------------------
(* Packets *)

ProcessStoreList(m) ==
  /\ m \in net /\ m.type = "STORE_LIST"
  /\ data' = [data EXCEPT ![m.to][m.key] = @ \cup m.docs]
  /\ net' = net \ {m}
  /\ O!Silent
  /\ UNCHANGED <<inverted, tracker, untold, faulted, log, results, changes>>

ProcessSearchInitial(m) ==
  /\ m \in net /\ m.type = "SEARCH_INITIAL"
  /\ LookupNext(m.to, m.data, 1, net \ {m})
  /\ UNCHANGED <<inverted, data, untold, faulted, log, results, changes>>

(* The search is over when a list is empty or no key is left, and goes on to *)
(* the owner of the next key otherwise.                                      *)
CompleteOrGoOn(m, docs) ==
  LET s == [m.data EXCEPT !.keys = Tail(@), !.docs = docs]
      rest == net \ {m}
  IN IF docs = {} \/ s.keys = <<>>
       THEN /\ net' = rest \cup {Packet("SEARCH_COMPLETE", s.node, s)}
            /\ O!Silent
            /\ UNCHANGED tracker
       ELSE LookupNext(m.to, s, 2, rest)

ProcessSearchBegin(m) ==
  /\ m \in net /\ m.type = "SEARCH_BEGIN"
  /\ CompleteOrGoOn(m, data[m.to][Head(m.data.keys)])
  /\ UNCHANGED <<inverted, data, untold, faulted, log, results, changes>>

(* Mutant: the documents found so far are forgotten. *)
FindNoIntersection(a, b) == a

FindIntersection(a, b) == a \cap b

(* m_dataMap.find (key)->second, with no test of the iterator: without an *)
(* entry the program runs into undefined behaviour and is taken to die.   *)
ProcessSearch(m) ==
  LET stored == data[m.to][Head(m.data.keys)]
  IN /\ m \in net /\ m.type = "SEARCH"
     /\ \/ /\ stored = {}
           /\ faulted' = TRUE
           /\ net' = net \ {m}
           /\ O!Silent
           /\ UNCHANGED tracker
        \/ /\ stored # {}
           /\ CompleteOrGoOn(m, FindIntersection(stored, m.data.docs))
           /\ UNCHANGED faulted
     /\ UNCHANGED <<inverted, data, untold, log, results, changes>>

ProcessSearchComplete(m) ==
  /\ m \in net /\ m.type = "SEARCH_COMPLETE"
  /\ results' = results \cup {[id |-> m.data.tid, node |-> m.to, docs |-> m.data.docs]}
  /\ net' = net \ {m}
  /\ O!Silent
  /\ UNCHANGED <<local, untold, faulted, log, changes>>

ProcessPassKeys(m) ==
  /\ m \in net /\ m.type = "PASS_KEYS"
  /\ data' = [data EXCEPT ![m.to][m.key] = @ \cup m.docs]
  /\ net' = net \ {m}
  /\ O!Silent
  /\ UNCHANGED <<inverted, tracker, untold, faulted, log, results, changes>>

(* The ring answers a lookup. *)
LookupSuccess(q) ==
  /\ O!Reply(q)
  /\ Callbacks(q.node, inverted[q.node], tracker[q.node], net)
  /\ UNCHANGED <<inverted, data, untold, faulted, log, results, changes>>

-----------------------------------------------------------------------------
(* Hand-over of keys *)

Change == changes < MaxChange /\ changes' = changes + 1

(* A successor that has a predecessor will be told of the new one; a node that *)
(* was alone has none and takes the newcomer for its predecessor silently.     *)
RingJoin(n) ==
  /\ Change
  /\ O!Join(n)
  /\ untold' = IF Cardinality(member) > 1 THEN untold \cup {n} ELSE untold
  /\ UNCHANGED <<local, net, faulted, log, results>>

(* Mutant: keys without a list are sent as well. *)
PassKeysUntested(n, K, d) == {Shipment("PASS_KEYS", d, k, data[n][k]) : k \in K}

PassKeys(n, K, d) ==
  {Shipment("PASS_KEYS", d, k, data[n][k]) : k \in {j \in K : data[n][j] # {}}}

(* Mutant: the keys of the new predecessor are kept. *)
KeepsAll(n, p) == Key

(* What n keeps when p becomes its predecessor. *)
Keeps(n, p) == {k \in Key : InArc(Digest[p], k, Digest[n])}

PassKeysJoin(p) ==
  /\ O!JoinNotify(p)
  /\ LET n == O!NextOf(p)
         gone == Key \ Keeps(n, p)
     IN /\ net' = net \cup PassKeys(n, gone, p)
        /\ data' = [data EXCEPT ![n] = [k \in Key |-> IF k \in gone THEN {} ELSE @[k]]]
  /\ untold' = untold \ {p}
  /\ UNCHANGED <<inverted, tracker, faulted, log, results, changes>>

(* Mutant: the lists leave with the node. *)
NothingPassed(n, u) == {}

Passed(n, u) == PassKeys(n, Key, u.addr)

(* The last member has nobody to pass its lists to, and keeps them. *)
PassKeysLeave(n) ==
  /\ Change
  /\ O!Leave(n)
  /\ net' = net \cup UNION {Passed(n, u) : u \in upcall'}
  /\ data' = IF upcall' = {} THEN data ELSE [data EXCEPT ![n] = NoList]
  /\ untold' = untold \ {n}
  /\ UNCHANGED <<inverted, tracker, faulted, log, results>>

-----------------------------------------------------------------------------
Init ==
  /\ O!Init
  /\ inverted = [n \in Node |-> NoList]
  /\ data = [n \in Node |-> NoList]
  /\ tracker = [n \in Node |-> {}]
  /\ net = {} /\ untold = {}
  /\ faulted = FALSE
  /\ I!Init
  /\ changes = 0

Command ==
  \E n \in Node :
    \/ \E f \in File : Publish(n, f)
    \/ \E via \in Node, ks \in KeyList : Search(n, via, ks)

RecvMessage ==
  \E m \in net :
    \/ ProcessStoreList(m)
    \/ ProcessSearchInitial(m)
    \/ ProcessSearchBegin(m)
    \/ ProcessSearch(m)
    \/ ProcessSearchComplete(m)
    \/ ProcessPassKeys(m)

LookupAnswered == \E q \in pending : LookupSuccess(q)

JoinNotified == \E p \in member : PassKeysJoin(p)

Next ==
  /\ ~faulted
  /\ \/ Command
     \/ RecvMessage
     \/ LookupAnswered
     \/ JoinNotified
     \/ \E n \in Node : RingJoin(n) \/ PassKeysLeave(n)

Spec == Init /\ [][Next]_vars

(* Packets are delivered, lookups answered and joins notified. *)
Running ==
  /\ WF_vars(~faulted /\ RecvMessage)
  /\ WF_vars(~faulted /\ LookupAnswered)
  /\ \A p \in Node : WF_vars(~faulted /\ p \in untold /\ PassKeysJoin(p))
=============================================================================
