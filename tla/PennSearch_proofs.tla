-------------------------- MODULE PennSearch_proofs --------------------------
(***************************************************************************)
(* Lists survive every hand-over and end at the owner of their key, and the *)
(* searches of a ring that is complete implement one inverted index, for any *)
(* number of nodes, keys and documents and a circle of any size.           *)
(***************************************************************************)
EXTENDS PennSearchProperties, ChordId_proofs, SequenceTheorems

-----------------------------------------------------------------------------
(* The circle. *)

LEMMA Distance ==
  ASSUME NEW a \in Id, NEW b \in Id
  PROVE  /\ O!Clockwise(a, b) \in Nat
         /\ a = b <=> O!Clockwise(a, b) = 0
<1>1. 2^M \in Nat
  BY MAssumption, PowerOfTwo
<1> QED
  BY <1>1 DEF Id, O!Clockwise

(* Points of the circle differ in their distance. *)
LEMMA DistanceInjective ==
  ASSUME NEW t \in Id, NEW a \in Id, NEW b \in Id, O!Clockwise(t, a) = O!Clockwise(t, b)
  PROVE  a = b
<1>1. 2^M \in Nat
  BY MAssumption, PowerOfTwo
<1> QED
  BY <1>1 DEF Id, O!Clockwise

(* If a is met before b, the way to b leads over a. *)
LEMMA DistanceOver ==
  ASSUME NEW t \in Id, NEW a \in Id, NEW b \in Id, O!Clockwise(t, a) <= O!Clockwise(t, b)
  PROVE  O!Clockwise(t, b) = O!Clockwise(t, a) + O!Clockwise(a, b)
<1>1. 2^M \in Nat
  BY MAssumption, PowerOfTwo
<1> QED
  BY <1>1 DEF Id, O!Clockwise

(* From a point k outside the arc from a to b, a is met first. *)
LEMMA ArcFirst ==
  ASSUME NEW a \in Id, NEW b \in Id, NEW k \in Id, a # b, k # a, k # b
  PROVE  InArc(a, k, b) <=> O!Clockwise(k, b) < O!Clockwise(k, a)
<1>1. 2^M \in Nat
  BY MAssumption, PowerOfTwo
<1> QED
  BY <1>1 DEF Id, O!Clockwise, InArc, Geq

(* The first node exists and is the only one at its distance. *)
LEMMA FirstExists ==
  ASSUME NEW t \in Id, NEW S, S \subseteq Node, S # {}
  PROVE  /\ O!FirstFrom(t, S) \in S
         /\ \A o \in S : O!Clockwise(t, Digest[O!FirstFrom(t, S)]) <= O!Clockwise(t, Digest[o])
<1> DEFINE T == {O!Clockwise(t, Digest[o]) : o \in S}
<1>1. T \subseteq Nat /\ T # {}
  BY Distance, DigestAssumption
<1>2. PICK x \in T : \A y \in T : x <= y
  BY <1>1, Smallest
<1>3. PICK m \in S : x = O!Clockwise(t, Digest[m])
  OBVIOUS
<1>4. \A o \in S : O!Clockwise(t, Digest[m]) <= O!Clockwise(t, Digest[o])
  BY <1>2, <1>3
<1> QED
  BY <1>4 DEF O!FirstFrom

LEMMA FirstUnique ==
  ASSUME NEW t \in Id, NEW S, S \subseteq Node, NEW m \in S,
         \A o \in S : O!Clockwise(t, Digest[m]) <= O!Clockwise(t, Digest[o])
  PROVE  O!FirstFrom(t, S) = m
<1> DEFINE f == O!FirstFrom(t, S)
<1>1. f \in S /\ O!Clockwise(t, Digest[f]) <= O!Clockwise(t, Digest[m])
  BY FirstExists
<1>2. O!Clockwise(t, Digest[m]) <= O!Clockwise(t, Digest[f])
  BY <1>1
<1>3. Digest[f] \in Id /\ Digest[m] \in Id
  BY <1>1, DigestAssumption
<1>4. O!Clockwise(t, Digest[f]) = O!Clockwise(t, Digest[m])
  BY <1>1, <1>2, <1>3, Distance
<1>5. Digest[f] = Digest[m]
  BY <1>3, <1>4, DistanceInjective
<1> QED
  BY <1>1, <1>5, DigestAssumption

(* A node p among others takes over just the keys of the node after it that  *)
(* are not on the arc between them.                                          *)
LEMMA OwnerMoves ==
  ASSUME NEW S, S \subseteq Node, NEW p \in S, S \ {p} # {}, NEW k \in Key
  PROVE  LET n == O!FirstFrom(Digest[p], S \ {p})
             o == O!FirstFrom(k, S \ {p})
         IN  O!FirstFrom(k, S) = IF o # n \/ InArc(Digest[p], k, Digest[n]) THEN o ELSE p
<1> DEFINE n == O!FirstFrom(Digest[p], S \ {p})
           o == O!FirstFrom(k, S \ {p})
           f == O!FirstFrom(k, S)
           D(x) == O!Clockwise(k, Digest[x])
<1>1. /\ k \in Id /\ \A x \in S : Digest[x] \in Id /\ Digest[x] # k
      /\ \A x, y \in S : Digest[x] = Digest[y] => x = y
  BY DigestAssumption
<1>2. n \in S \ {p} /\ \A x \in S \ {p} : O!Clockwise(Digest[p], Digest[n]) <= O!Clockwise(Digest[p], Digest[x])
  BY <1>1, FirstExists
<1>3. o \in S \ {p} /\ \A x \in S \ {p} : D(o) <= D(x)
  BY <1>1, FirstExists
<1>4. f \in S /\ \A x \in S : D(f) <= D(x)
  BY <1>1, FirstExists
<1>5. \A x \in S : D(x) \in Nat
  BY <1>1, Distance
<1>6. f \in {o, p}
  <2>1. SUFFICES ASSUME f # p PROVE f = o
    OBVIOUS
  <2>2. D(f) = D(o)
    BY <1>3, <1>4, <1>5, <2>1
  <2> QED
    BY <1>1, <1>3, <1>4, <2>2, DistanceInjective
<1>7. f = p => o = n
  <2>1. SUFFICES ASSUME f = p PROVE o = n
    OBVIOUS
  <2>2. \A x \in S \ {p} : D(x) = D(p) + O!Clockwise(Digest[p], Digest[x])
    BY <1>1, <1>4, <2>1, DistanceOver
  <2>3. \A x \in S \ {p} : O!Clockwise(Digest[p], Digest[x]) \in Nat
    BY <1>1, Distance
  <2>4. ASSUME NEW x \in S \ {p}
        PROVE  D(n) <= D(x)
    <3>1. /\ D(n) = D(p) + O!Clockwise(Digest[p], Digest[n])
          /\ D(x) = D(p) + O!Clockwise(Digest[p], Digest[x])
      BY <1>2, <2>2
    <3>2. O!Clockwise(Digest[p], Digest[n]) <= O!Clockwise(Digest[p], Digest[x])
      BY <1>2
    <3>3. /\ D(p) \in Nat /\ O!Clockwise(Digest[p], Digest[n]) \in Nat
          /\ O!Clockwise(Digest[p], Digest[x]) \in Nat
      BY <1>2, <1>5, <2>3
    <3> QED
      BY <3>1, <3>2, <3>3
  <2> QED
    BY <1>1, <1>2, <2>4, FirstUnique
<1>8. ASSUME o = n
      PROVE  f = o <=> InArc(Digest[p], k, Digest[n])
  <2>1. InArc(Digest[p], k, Digest[n]) <=> D(n) < D(p)
    BY <1>1, <1>2, ArcFirst
  <2>2. f = o => D(n) <= D(p) /\ D(n) # D(p)
    BY <1>1, <1>2, <1>4, <1>8, DistanceInjective
  <2>3. f = p => D(p) <= D(n)
    BY <1>2, <1>4
  <2> QED
    BY <1>2, <1>5, <1>6, <1>8, <2>1, <2>2, <2>3
<1> QED
  BY <1>2, <1>3, <1>6, <1>7, <1>8

-----------------------------------------------------------------------------
(* Types. *)

SearchPackets == {m \in net : m.type \in {"SEARCH_INITIAL", "SEARCH_BEGIN", "SEARCH"}}

(* Lookups are asked by members, and a search that is looked for has a key. *)
Orderly ==
  /\ \A q \in pending : q.node \in member
  /\ \A n \in Node : \A s \in tracker[n] : s.keys # <<>>
  /\ \A m \in SearchPackets : m.data.keys # <<>>

IInv == TypeOK /\ Orderly

LEMMA KeysAreIds == \A k \in Key : k \in Id
  BY DigestAssumption

LEMMA OwnerIsMember ==
  ASSUME TypeOK, NEW k \in Key, member # {}
  PROVE  O!Owner(k) \in member /\ O!Owner(k) \in Node
  BY FirstExists, KeysAreIds DEF O!Owner, TypeOK

LEMMA NextIsMember ==
  ASSUME TypeOK, NEW n \in member, O!NextOf(n) # n
  PROVE  /\ O!NextOf(n) = O!FirstFrom(Digest[n], member \ {n})
         /\ O!NextOf(n) \in member \ {n}
         /\ member \ {n} # {}
<1>1. Digest[n] \in Id /\ member \ {n} \subseteq Node
  BY DigestAssumption DEF TypeOK
<1>2. ~ member \subseteq {n}
  BY DEF O!NextOf
<1> QED
  BY <1>1, <1>2, FirstExists DEF O!NextOf

(* The callbacks of a step are answers to queries of Q, and name the owner. *)
Answered(U, Q) == \A u \in U : u.query \in Q /\ u.addr = O!Owner(u.query.key)

LEMMA LookupAnswers ==
  ASSUME NEW n, NEW Q, O!Lookup(n, Q)
  PROVE  Answered(upcall', Q)
  BY DEF O!Lookup, O!Answer, Answered

LEMMA ReplyAnswers ==
  ASSUME NEW q, O!Reply(q)
  PROVE  Answered(upcall', {q})
  BY DEF O!Reply, O!Answer, Answered

(* What the callbacks send and forget is typed. *)
LEMMA CallbacksTyped ==
  ASSUME TypeOK, member # {}, NEW n \in Node, NEW inv \in [Key -> List], NEW T \in SUBSET SearchData,
         NEW ch \in SUBSET Message, NEW Q \in SUBSET Query,
         \A s, t \in T : s.tid = t.tid => s = t,
         \A s \in T : s.keys # <<>>,
         Answered(upcall', Q),
         Callbacks(n, inv, T, ch)
  PROVE  /\ net' \subseteq Message
         /\ \A m \in net' \ ch :
              m.type \in {"SEARCH_INITIAL", "SEARCH_BEGIN", "SEARCH"} => m.data.keys # <<>>
         /\ tracker' \in [Node -> SUBSET SearchData]
         /\ tracker'[n] \subseteq T
         /\ \A m \in Node \ {n} : tracker'[m] = tracker[m]
<1>1. \A u \in upcall' : /\ u.addr \in Node
                         /\ u.query.key \in Key
    BY OwnerIsMember DEF Answered, Query
<1>2. SendInvertList(inv, upcall') \subseteq Message
      /\ \A m \in SendInvertList(inv, upcall') : m.type = "STORE_LIST"
  BY <1>1 DEF SendInvertList, Shipment, Message, List
<1>3. ASSUME NEW m \in SendSearch(T, upcall')
      PROVE  m \in Message /\ m.data.keys # <<>>
  <2>0. PICK u \in SearchAnswers(upcall') :
          m \in {Packet(SearchType(u), u.addr, s) : s \in Found(T, {u})}
    BY DEF SendSearch
  <2>1. PICK s \in Found(T, {u}) : m = Packet(SearchType(u), u.addr, s)
    BY <2>0
  <2>2. u \in upcall' /\ s \in T
    BY DEF SearchAnswers, Found
  <2>3. SearchType(u) \in {"SEARCH_BEGIN", "SEARCH"}
    BY DEF SearchType
  <2>4. m \in Message
    BY <1>1, <2>1, <2>2, <2>3 DEF Packet, Message
  <2>5. m.data = s
    BY <2>1 DEF Packet
  <2> QED
    BY <2>2, <2>4, <2>5
<1>4. net' = ch \cup SendInvertList(inv, upcall') \cup SendSearch(T, upcall')
      /\ tracker' = [tracker EXCEPT ![n] = T \ Found(T, upcall')]
  BY DEF Callbacks
<1>5. tracker \in [Node -> SUBSET SearchData]
  BY DEF TypeOK
<1>6. net' \subseteq Message
  BY <1>2, <1>3, <1>4
<1>7. \A m \in net' \ ch :
        m.type \in {"SEARCH_INITIAL", "SEARCH_BEGIN", "SEARCH"} => m.data.keys # <<>>
  BY <1>2, <1>3, <1>4
<1> QED
  BY <1>4, <1>5, <1>6, <1>7

LEMMA TrackedTyped ==
  ASSUME IInv, NEW n \in Node, NEW s \in SearchData, s.keys # <<>>
  PROVE  /\ Tracked(n, s) \in SUBSET SearchData
         /\ \A t, u \in Tracked(n, s) : t.tid = u.tid => t = u
         /\ \A t \in Tracked(n, s) : t.keys # <<>>
  BY DEF IInv, TypeOK, Orderly, Tracked

(* n looks the next key of s up while it handles the packet m. *)
LEMMA LookupNextTyped ==
  ASSUME IInv, NEW n \in Node, NEW s \in SearchData, s.keys # <<>>, NEW flag \in {1, 2}, NEW m \in net,
         LookupNext(n, s, flag, net \ {m}),
         UNCHANGED <<inverted, data, untold, log, results, changes>>, faulted' \in BOOLEAN
  PROVE  IInv'
<1> DEFINE q == [node |-> n, key |-> Head(s.keys), flag |-> flag, tid |-> s.tid]
<1>1. Head(s.keys) \in Key /\ q \in Query
  <2>1. s.keys \in Seq(Key) /\ s.tid \in Tid
    BY DEF SearchData
  <2>2. Head(s.keys) \in Key
    BY <2>1, HeadTailProperties
  <2> QED
    BY <2>1, <2>2 DEF Query, Flag
<1>2. /\ n \in member /\ member' = member /\ pending' = pending \cup {q}
      /\ Answered(upcall', {q})
      /\ Callbacks(n, inverted[n], Tracked(n, s), net \ {m})
  BY LookupAnswers DEF LookupNext, O!Lookup
<1>3. /\ net' \subseteq Message
      /\ \A x \in net' \ (net \ {m}) :
           x.type \in {"SEARCH_INITIAL", "SEARCH_BEGIN", "SEARCH"} => x.data.keys # <<>>
      /\ tracker' \in [Node -> SUBSET SearchData]
      /\ tracker'[n] \subseteq Tracked(n, s)
      /\ \A x \in Node \ {n} : tracker'[x] = tracker[x]
  <2>1. /\ TypeOK /\ member # {} /\ inverted[n] \in [Key -> List]
        /\ net \ {m} \in SUBSET Message /\ {q} \in SUBSET Query
    BY <1>1, <1>2 DEF IInv, TypeOK
  <2>2. /\ Tracked(n, s) \in SUBSET SearchData
        /\ \A t, u \in Tracked(n, s) : t.tid = u.tid => t = u
        /\ \A t \in Tracked(n, s) : t.keys # <<>>
    BY TrackedTyped
  <2> DEFINE T == Tracked(n, s)
             ch == net \ {m}
             Q == {q}
             inv == inverted[n]
  <2>3. Answered(upcall', Q) /\ Callbacks(n, inv, T, ch)
    BY <1>2
  <2> HIDE DEF T, ch, Q, inv
  <2>4. /\ net' \subseteq Message
        /\ \A x \in net' \ ch :
             x.type \in {"SEARCH_INITIAL", "SEARCH_BEGIN", "SEARCH"} => x.data.keys # <<>>
        /\ tracker' \in [Node -> SUBSET SearchData]
        /\ tracker'[n] \subseteq T
        /\ \A x \in Node \ {n} : tracker'[x] = tracker[x]
    <3>1. inv \in [Key -> List] /\ ch \in SUBSET Message /\ Q \in SUBSET Query
      BY <2>1 DEF inv, ch, Q
    <3>2. /\ T \in SUBSET SearchData
          /\ \A t, u \in T : t.tid = u.tid => t = u
          /\ \A t \in T : t.keys # <<>>
      BY <2>2 DEF T
    <3> QED
      BY <2>1, <2>3, <3>1, <3>2, CallbacksTyped
  <2> QED
    BY <2>4 DEF T, ch
<1>4. TypeOK'
  <2>1. \A x \in Node : \A t, u \in tracker'[x] : t.tid = u.tid => t = u
    BY <1>3, TrackedTyped DEF IInv, TypeOK
  <2> QED
    BY <1>1, <1>2, <1>3, <2>1 DEF IInv, TypeOK
<1>5. \A x \in Node : \A t \in tracker'[x] : t.keys # <<>>
  BY <1>3, TrackedTyped DEF IInv, Orderly
<1>6. \A x \in SearchPackets' : x.data.keys # <<>>
  BY <1>3 DEF SearchPackets, IInv, Orderly
<1>7. \A x \in pending' : x.node \in member'
  BY <1>2 DEF IInv, Orderly
<1> QED
  BY <1>4, <1>5, <1>6, <1>7 DEF IInv, Orderly

(* A search packet, which is answered by the next or by SEARCH_COMPLETE. *)
LEMMA SearchPacket ==
  ASSUME IInv, NEW m \in net, m.type \in {"SEARCH_INITIAL", "SEARCH_BEGIN", "SEARCH", "SEARCH_COMPLETE"}
  PROVE  /\ m \in Message /\ m.to \in Node
         /\ m.data \in SearchData /\ m.data.tid \in Tid /\ m.data.node \in Node
         /\ m.data.docs \in List /\ m.data.keys \in Seq(Key)
         /\ m.type # "SEARCH_COMPLETE" => m.data.keys # <<>>
<1>1. m \in Message /\ m.to \in Node /\ m.data \in SearchData
  BY DEF IInv, TypeOK, Message
<1>2. m.type # "SEARCH_COMPLETE" => m.data.keys # <<>>
  BY DEF IInv, Orderly, SearchPackets
<1> QED
  BY <1>1, <1>2 DEF SearchData

LEMMA CompleteOrGoOnTyped ==
  ASSUME IInv, NEW m \in net, m.type \in {"SEARCH_BEGIN", "SEARCH"}, NEW docs \in List,
         CompleteOrGoOn(m, docs),
         UNCHANGED <<inverted, data, untold, log, results, changes>>, faulted' \in BOOLEAN
  PROVE  IInv'
<1> DEFINE s == [m.data EXCEPT !.keys = Tail(@), !.docs = docs]
<1>1. m.data \in SearchData /\ m.to \in Node /\ m.data.keys \in Seq(Key) /\ m.data.keys # <<>>
      /\ m.data.node \in Node
  BY SearchPacket
<1>2. Tail(m.data.keys) \in Seq(Key)
  BY <1>1, HeadTailProperties
<1>3. s \in SearchData /\ s.node \in Node
  BY <1>1, <1>2 DEF SearchData
<1>4. CASE docs = {} \/ s.keys = <<>>
  <2>1. /\ net' = (net \ {m}) \cup {Packet("SEARCH_COMPLETE", s.node, s)}
        /\ member' = member /\ pending' = pending /\ tracker' = tracker
    BY <1>4 DEF CompleteOrGoOn, O!Silent
  <2>2. Packet("SEARCH_COMPLETE", s.node, s) \in Message
        /\ Packet("SEARCH_COMPLETE", s.node, s).type = "SEARCH_COMPLETE"
    BY <1>3 DEF Packet, Message
  <2>3. TypeOK'
    BY <2>1, <2>2 DEF IInv, TypeOK
  <2>4. Orderly'
    BY <2>1, <2>2 DEF IInv, Orderly, SearchPackets
  <2> QED
    BY <2>3, <2>4 DEF IInv
<1>5. CASE ~ (docs = {} \/ s.keys = <<>>)
  <2>1. LookupNext(m.to, s, 2, net \ {m})
    BY <1>5 DEF CompleteOrGoOn
  <2> QED
    BY <1>1, <1>3, <1>5, <2>1, LookupNextTyped
<1> QED
  BY <1>4, <1>5

LEMMA PublishTyped ==
  ASSUME IInv, NEW n \in Node, NEW f \in File, Publish(n, f)
  PROVE  IInv'
<1> DEFINE Q == {[node |-> n, key |-> k, flag |-> 0, tid |-> Len(log) + 1] :
                   k \in {j \in Key : f[j] # {}}}
           c == [type |-> "PUBLISH", node |-> n, file |-> f]
<1>1. /\ Len(log) < MaxCommand /\ log' = Append(log, c)
      /\ inverted' = [inverted EXCEPT ![n] = f]
      /\ IF Q = {} THEN O!Silent ELSE O!Lookup(n, Q)
      /\ Callbacks(n, f, tracker[n], net)
      /\ UNCHANGED <<data, untold, faulted, results, changes>>
  BY DEF Publish, Give
<1>2. f \in [Key -> List] /\ Len(log) + 1 \in Tid /\ log' \in Seq(I!PublishCommand \cup I!SearchCommand)
  <2>1. log \in Seq(I!PublishCommand \cup I!SearchCommand) /\ c \in I!PublishCommand \cup I!SearchCommand
    BY DEF IInv, TypeOK, I!PublishCommand
  <2>2. Len(log) \in Nat
    BY <2>1, LenProperties
  <2> QED
    BY <1>1, <2>1, <2>2, AppendProperties, FileAssumption, BoundAssumption DEF List, Tid
<1>3. Q \in SUBSET Query
  BY <1>2 DEF Query, Flag
<1>4. /\ member' = member /\ pending' = pending \cup Q /\ Answered(upcall', Q)
      /\ Q # {} => n \in member
  <2>1. CASE Q = {}
    BY <1>1, <2>1 DEF O!Silent, Answered
  <2>2. CASE Q # {}
    <3>1. O!Lookup(n, Q)
      BY <1>1, <2>2
    <3> QED
      BY <3>1, LookupAnswers DEF O!Lookup
  <2> QED
    BY <2>1, <2>2
<1> HIDE DEF Q, c
<1>5. /\ net' \subseteq Message
      /\ \A x \in net' \ net :
           x.type \in {"SEARCH_INITIAL", "SEARCH_BEGIN", "SEARCH"} => x.data.keys # <<>>
      /\ tracker' \in [Node -> SUBSET SearchData]
      /\ tracker'[n] \subseteq tracker[n]
      /\ \A x \in Node \ {n} : tracker'[x] = tracker[x]
  <2>1. CASE member # {}
    <3>1. /\ TypeOK /\ tracker[n] \in SUBSET SearchData /\ net \in SUBSET Message
          /\ \A t, u \in tracker[n] : t.tid = u.tid => t = u
          /\ \A t \in tracker[n] : t.keys # <<>>
      BY DEF IInv, TypeOK, Orderly
    <3> QED
      BY <1>1, <1>2, <1>3, <1>4, <2>1, <3>1, CallbacksTyped
  <2>2. CASE member = {}
    <3>1. upcall' = {}
      BY <1>1, <1>4, <2>2 DEF O!Silent
    <3>2. Callbacks(n, f, tracker[n], net) => net' = net /\ tracker' = [tracker EXCEPT ![n] = tracker[n]]
      BY <3>1 DEF Callbacks, SendInvertList, SendSearch, SearchAnswers, Found
    <3> QED
      BY <1>1, <3>2 DEF IInv, TypeOK
  <2> QED
    BY <2>1, <2>2
<1>6. TypeOK'
  <2>1. \A x \in Node : \A t, u \in tracker'[x] : t.tid = u.tid => t = u
    BY <1>5 DEF IInv, TypeOK
  <2> QED
    BY <1>1, <1>2, <1>3, <1>4, <1>5, <2>1 DEF IInv, TypeOK
<1>7. Orderly'
  <2>1. \A q \in Q : q.node = n
    BY DEF Q
  <2> QED
    BY <1>4, <1>5, <2>1 DEF IInv, Orderly, SearchPackets
<1> QED
  BY <1>6, <1>7 DEF IInv

LEMMA SearchTyped ==
  ASSUME IInv, NEW n \in Node, NEW via \in Node, NEW ks \in KeyList, Search(n, via, ks)
  PROVE  IInv'
<1> DEFINE s == [tid |-> Len(log) + 1, node |-> n, keys |-> ks, docs |-> {}]
           m == Packet("SEARCH_INITIAL", via, s)
           c == [type |-> "SEARCH", node |-> n, keys |-> ks]
<1>1. log \in Seq(I!PublishCommand \cup I!SearchCommand) /\ c \in I!PublishCommand \cup I!SearchCommand
      /\ Len(log) \in Nat
  BY LenProperties DEF IInv, TypeOK, I!SearchCommand
<1>2. ks \in Seq(Key) /\ ks # <<>>
  BY KeyListAssumption
<1>3. /\ Len(log) < MaxCommand /\ log' = Append(log, c)
      /\ net' = net \cup {m} /\ O!Silent
      /\ UNCHANGED <<local, untold, faulted, results, changes>>
  BY DEF Search, Give
<1>4. s \in SearchData /\ log' \in Seq(I!PublishCommand \cup I!SearchCommand)
  <2>1. Len(log) + 1 \in Tid
    BY <1>1, <1>3, BoundAssumption DEF Tid
  <2> QED
    BY <1>1, <1>2, <1>3, <2>1, AppendProperties DEF SearchData, List
<1>5. m \in Message /\ m.data.keys # <<>>
  BY <1>2, <1>4 DEF Packet, Message
<1>6. TypeOK'
  BY <1>3, <1>4, <1>5 DEF IInv, TypeOK, O!Silent, local
<1>7. Orderly'
  BY <1>3, <1>5 DEF IInv, Orderly, SearchPackets, O!Silent, local
<1> QED
  BY <1>6, <1>7 DEF IInv

(* STORE_LIST and PASS_KEYS *)
LEMMA ListStored ==
  ASSUME IInv, NEW m \in net, m.type \in {"STORE_LIST", "PASS_KEYS"},
         data' = [data EXCEPT ![m.to][m.key] = @ \cup m.docs], net' = net \ {m}, O!Silent,
         UNCHANGED <<inverted, tracker, untold, faulted, log, results, changes>>
  PROVE  IInv'
<1>1. m \in Message /\ m.to \in Node /\ m.key \in Key /\ m.docs \in List
  BY DEF IInv, TypeOK, Message
<1>2. data' \in [Node -> [Key -> List]]
  BY <1>1 DEF IInv, TypeOK, List
<1>3. TypeOK'
  BY <1>2 DEF IInv, TypeOK, O!Silent
<1>4. Orderly'
  BY DEF IInv, Orderly, SearchPackets, O!Silent
<1> QED
  BY <1>3, <1>4 DEF IInv

LEMMA SearchPacketTyped ==
  ASSUME IInv, NEW m \in net,
         ProcessSearchInitial(m) \/ ProcessSearchBegin(m) \/ ProcessSearch(m) \/ ProcessSearchComplete(m)
  PROVE  IInv'
<1>0. faulted \in BOOLEAN /\ data \in [Node -> [Key -> List]]
  BY DEF IInv, TypeOK
<1>1. CASE ProcessSearchInitial(m)
  <2>1. m.data \in SearchData /\ m.data.keys # <<>> /\ m.to \in Node
    BY <1>1, SearchPacket DEF ProcessSearchInitial
  <2> QED
    BY <1>0, <1>1, <2>1, LookupNextTyped DEF ProcessSearchInitial
<1>2. CASE ProcessSearchBegin(m)
  <2>1. m.data.keys \in Seq(Key) /\ m.data.keys # <<>> /\ m.to \in Node
    BY <1>2, SearchPacket DEF ProcessSearchBegin
  <2>2. data[m.to][Head(m.data.keys)] \in List
    BY <1>0, <2>1, HeadTailProperties
  <2> QED
    BY <1>0, <1>2, <2>2, CompleteOrGoOnTyped DEF ProcessSearchBegin
<1>3. CASE ProcessSearch(m)
  <2>1. m.data.keys \in Seq(Key) /\ m.data.keys # <<>> /\ m.to \in Node /\ m.data.docs \in List
    BY <1>3, SearchPacket DEF ProcessSearch
  <2> DEFINE stored == data[m.to][Head(m.data.keys)]
  <2>2. stored \in List /\ FindIntersection(stored, m.data.docs) \in List
    BY <1>0, <2>1, HeadTailProperties DEF FindIntersection, List
  <2>3. CASE stored = {}
    <3>1. TypeOK'
      BY <1>3, <2>3 DEF ProcessSearch, IInv, TypeOK, O!Silent
    <3>2. Orderly'
      BY <1>3, <2>3 DEF ProcessSearch, IInv, Orderly, SearchPackets, O!Silent
    <3> QED
      BY <3>1, <3>2 DEF IInv
  <2>4. CASE stored # {}
    <3>1. CompleteOrGoOn(m, FindIntersection(stored, m.data.docs)) /\ UNCHANGED faulted
      BY <1>3, <2>4 DEF ProcessSearch
    <3> QED
      BY <1>0, <1>3, <2>2, <3>1, CompleteOrGoOnTyped DEF ProcessSearch
  <2> QED
    BY <2>3, <2>4
<1>4. CASE ProcessSearchComplete(m)
  <2>1. m.data.tid \in Tid /\ m.to \in Node /\ m.data.docs \in List
    BY <1>4, SearchPacket DEF ProcessSearchComplete
  <2>2. TypeOK'
    BY <1>4, <2>1 DEF ProcessSearchComplete, IInv, TypeOK, O!Silent, local
  <2>3. Orderly'
    BY <1>4 DEF ProcessSearchComplete, IInv, Orderly, SearchPackets, O!Silent, local
  <2> QED
    BY <2>2, <2>3 DEF IInv
<1> QED
  BY <1>1, <1>2, <1>3, <1>4

LEMMA LookupSuccessTyped ==
  ASSUME IInv, NEW q \in pending, LookupSuccess(q)
  PROVE  IInv'
<1>1. q \in Query /\ q.node \in member /\ q.node \in Node
  BY DEF IInv, TypeOK, Orderly
<1>2. /\ member' = member /\ pending' = pending \ {q} /\ Answered(upcall', {q})
      /\ Callbacks(q.node, inverted[q.node], tracker[q.node], net)
      /\ UNCHANGED <<inverted, data, untold, faulted, log, results, changes>>
  BY ReplyAnswers DEF LookupSuccess, O!Reply
<1>3. /\ net' \subseteq Message
      /\ \A x \in net' \ net :
           x.type \in {"SEARCH_INITIAL", "SEARCH_BEGIN", "SEARCH"} => x.data.keys # <<>>
      /\ tracker' \in [Node -> SUBSET SearchData]
      /\ tracker'[q.node] \subseteq tracker[q.node]
      /\ \A x \in Node \ {q.node} : tracker'[x] = tracker[x]
  <2> DEFINE n == q.node
             Q == {q}
  <2>1. /\ TypeOK /\ tracker[n] \in SUBSET SearchData /\ net \in SUBSET Message
        /\ inverted[n] \in [Key -> List] /\ n \in Node /\ member # {}
        /\ \A t, u \in tracker[n] : t.tid = u.tid => t = u
        /\ \A t \in tracker[n] : t.keys # <<>>
        /\ Q \in SUBSET Query
    BY <1>1 DEF IInv, TypeOK, Orderly
  <2>2. Answered(upcall', Q) /\ Callbacks(n, inverted[n], tracker[n], net)
    BY <1>2
  <2> HIDE DEF n, Q
  <2>3. /\ net' \subseteq Message
        /\ \A x \in net' \ net :
             x.type \in {"SEARCH_INITIAL", "SEARCH_BEGIN", "SEARCH"} => x.data.keys # <<>>
        /\ tracker' \in [Node -> SUBSET SearchData]
        /\ tracker'[n] \subseteq tracker[n]
        /\ \A x \in Node \ {n} : tracker'[x] = tracker[x]
    BY <2>1, <2>2, CallbacksTyped
  <2> QED
    BY <2>3 DEF n
<1>4. TypeOK'
  <2>1. \A x \in Node : \A t, u \in tracker'[x] : t.tid = u.tid => t = u
    BY <1>3 DEF IInv, TypeOK
  <2> QED
    BY <1>2, <1>3, <2>1 DEF IInv, TypeOK
<1>5. Orderly'
  BY <1>2, <1>3 DEF IInv, Orderly, SearchPackets
<1> QED
  BY <1>4, <1>5 DEF IInv

LEMMA PassKeysTyped ==
  ASSUME TypeOK, NEW n \in Node, NEW K, K \subseteq Key, NEW d \in Node
  PROVE  /\ PassKeys(n, K, d) \subseteq Message
         /\ \A m \in PassKeys(n, K, d) : m.type = "PASS_KEYS"
  BY DEF PassKeys, Shipment, Message, TypeOK

(* Joins, leaves and hand-overs. *)
LEMMA ChangeTyped ==
  ASSUME IInv, NEW n \in Node, RingJoin(n) \/ PassKeysJoin(n) \/ PassKeysLeave(n)
  PROVE  IInv'
<1>0. changes' \in 0 .. MaxChange
  BY BoundAssumption DEF RingJoin, PassKeysJoin, PassKeysLeave, Change, IInv, TypeOK
<1>1. CASE RingJoin(n)
  <2>1. TypeOK'
    BY <1>0, <1>1 DEF RingJoin, O!Join, local, IInv, TypeOK
  <2>2. Orderly'
    BY <1>1 DEF RingJoin, O!Join, local, IInv, Orderly, SearchPackets
  <2> QED
    BY <2>1, <2>2 DEF IInv
<1>2. CASE PassKeysJoin(n)
  <2> DEFINE d == O!NextOf(n)
             gone == Key \ Keeps(d, n)
  <2>1. /\ n \in member /\ d # n /\ UNCHANGED <<member, pending>>
        /\ net' = net \cup PassKeys(d, gone, n)
        /\ data' = [data EXCEPT ![d] = [k \in Key |-> IF k \in gone THEN {} ELSE @[k]]]
        /\ untold' = untold \ {n}
        /\ UNCHANGED <<inverted, tracker, faulted, log, results, changes>>
    BY <1>2 DEF PassKeysJoin, O!JoinNotify
  <2>2. d \in Node
    BY <2>1, NextIsMember DEF IInv, TypeOK
  <2> HIDE DEF d, gone
  <2>3. gone \subseteq Key
    BY DEF gone
  <2>4. PassKeys(d, gone, n) \subseteq Message /\ \A m \in PassKeys(d, gone, n) : m.type = "PASS_KEYS"
    BY <2>2, <2>3, PassKeysTyped DEF IInv
  <2>5. data' \in [Node -> [Key -> List]]
    BY <2>1, <2>2 DEF IInv, TypeOK, List
  <2>6. TypeOK'
    BY <1>0, <2>1, <2>4, <2>5 DEF IInv, TypeOK
  <2>7. Orderly'
    BY <2>1, <2>4 DEF IInv, Orderly, SearchPackets
  <2> QED
    BY <2>6, <2>7 DEF IInv
<1>3. CASE PassKeysLeave(n)
  <2>1. /\ n \in member /\ pending = {} /\ member' = member \ {n} /\ pending' = pending
        /\ \A u \in upcall' : u.addr = O!NextOf(n) /\ O!NextOf(n) # n
        /\ net' = net \cup UNION {Passed(n, u) : u \in upcall'}
        /\ data' = IF upcall' = {} THEN data ELSE [data EXCEPT ![n] = NoList]
        /\ untold' = untold \ {n}
        /\ UNCHANGED <<inverted, tracker, faulted, log, results>>
    BY <1>3 DEF PassKeysLeave, O!Leave
  <2>2. ASSUME NEW u \in upcall'
        PROVE  Passed(n, u) \subseteq Message /\ \A m \in Passed(n, u) : m.type = "PASS_KEYS"
    <3>1. u.addr \in Node
      BY <2>1, NextIsMember DEF IInv, TypeOK
    <3> QED
      BY <3>1, PassKeysTyped DEF IInv, Passed
  <2>3. UNION {Passed(n, u) : u \in upcall'} \subseteq Message
        /\ \A m \in UNION {Passed(n, u) : u \in upcall'} : m.type = "PASS_KEYS"
    BY <2>2
  <2>4. data' \in [Node -> [Key -> List]]
    BY <2>1 DEF IInv, TypeOK, NoList, List
  <2>5. TypeOK'
    BY <1>0, <2>1, <2>3, <2>4 DEF IInv, TypeOK
  <2>6. Orderly'
    BY <2>1, <2>3 DEF IInv, Orderly, SearchPackets
  <2> QED
    BY <2>5, <2>6 DEF IInv
<1> QED
  BY <1>1, <1>2, <1>3

LEMMA InitTyped == Init => IInv
<1> SUFFICES ASSUME Init PROVE IInv
  OBVIOUS
<1>1. TypeOK
  <2>1. NoList \in [Key -> List] /\ 0 \in 0 .. MaxChange
        /\ <<>> \in Seq(I!PublishCommand \cup I!SearchCommand)
    BY EmptySeq, BoundAssumption DEF NoList, List
  <2> HIDE DEF NoList
  <2> QED
    BY <2>1 DEF Init, O!Init, I!Init, TypeOK
<1>2. Orderly
  BY DEF Init, O!Init, Orderly, SearchPackets
<1> QED
  BY <1>1, <1>2 DEF IInv

LEMMA NextTyped == IInv /\ [Next]_vars => IInv'
<1> SUFFICES ASSUME IInv, [Next]_vars PROVE IInv'
  OBVIOUS
<1>1. CASE Command
  BY <1>1, PublishTyped, SearchTyped DEF Command
<1>2. CASE RecvMessage
  <2>1. PICK m \in net : \/ ProcessStoreList(m) \/ ProcessPassKeys(m)
                         \/ ProcessSearchInitial(m) \/ ProcessSearchBegin(m)
                         \/ ProcessSearch(m) \/ ProcessSearchComplete(m)
    BY <1>2 DEF RecvMessage
  <2>2. CASE ProcessStoreList(m) \/ ProcessPassKeys(m)
    BY <2>2, ListStored DEF ProcessStoreList, ProcessPassKeys
  <2>3. CASE \/ ProcessSearchInitial(m) \/ ProcessSearchBegin(m)
             \/ ProcessSearch(m) \/ ProcessSearchComplete(m)
    BY <2>3, SearchPacketTyped
  <2> QED
    BY <2>1, <2>2, <2>3
<1>3. CASE LookupAnswered
  BY <1>3, LookupSuccessTyped DEF LookupAnswered
<1>4. CASE JoinNotified
  BY <1>4, ChangeTyped DEF JoinNotified, IInv, TypeOK
<1>5. CASE \E n \in Node : RingJoin(n) \/ PassKeysLeave(n)
  BY <1>5, ChangeTyped
<1>6. CASE UNCHANGED vars
  <2>1. TypeOK'
    BY <1>6 DEF vars, overlay, local, IInv, TypeOK
  <2>2. Orderly'
    BY <1>6 DEF vars, overlay, local, IInv, Orderly, SearchPackets
  <2> QED
    BY <2>1, <2>2 DEF IInv
<1> QED
  BY <1>1, <1>2, <1>3, <1>4, <1>5, <1>6 DEF Next

(* Commands, hand-overs and packets in any order leave the state well typed:  *)
(* every handler finds in a packet what it reads, no empty list is shipped,   *)
(* and a node tracks a search once.                                          *)
THEOREM TypeCorrect == Spec => []TypeOK
<1>1. IInv => TypeOK
  BY DEF IInv
<1> QED
  BY <1>1, InitTyped, NextTyped, PTL DEF Spec

-----------------------------------------------------------------------------
(* Where the lists are. *)

ListTypes == {"STORE_LIST", "PASS_KEYS"}

(* At most one join has still to be announced, and meanwhile no list travels; *)
(* a list on its way goes to the owner of its key; a list that is stored is    *)
(* where the members that have been announced look for it; a ring of one has   *)
(* no lists.                                                                *)
Placed ==
  /\ untold \subseteq member
  /\ \A p, q \in untold : p = q
  /\ untold # {} => Moving = {} /\ Published = {} /\ member \ untold # {}
  /\ \A m \in Moving : m.to = O!Owner(m.key)
  /\ \A n \in Node, k \in Key :
       data[n][k] # {} => member \ untold # {} /\ n = O!FirstFrom(k, member \ untold)
  /\ IsFiniteSet(member)
  /\ Cardinality(member) > 1 \/ \A k \in Key : Whereabouts(k) = {}

PInv == IInv /\ NothingLost /\ Placed

(* The three parts of Whereabouts. *)
Stored(k) == UNION {data[n][k] : n \in Node}

Travelling(k) == UNION {m.docs : m \in {x \in Moving : x.key = k}}

Waiting(k) == UNION {inverted[q.node][k] : q \in {x \in Published : x.key = k}}

LEMMA WhereaboutsParts ==
  ASSUME NEW k
  PROVE  /\ Whereabouts(k) = Stored(k) \cup Travelling(k) \cup Waiting(k)
         /\ Whereabouts(k)' = Stored(k)' \cup Travelling(k)' \cup Waiting(k)'
<1>1. Whereabouts(k) = Stored(k) \cup Travelling(k) \cup Waiting(k)
  BY DEF Whereabouts, Stored, Travelling, Waiting
<1>2. Whereabouts(k)' = Stored(k)' \cup Travelling(k)' \cup Waiting(k)'
  BY DEF Whereabouts, Stored, Travelling, Waiting
<1> QED
  BY <1>1, <1>2

LEMMA IndexedSame ==
  ASSUME NEW k, log' = log
  PROVE  I!Indexed(k)' = I!Indexed(k)
  BY DEF I!Indexed

LEMMA IndexedGiven ==
  ASSUME IInv, NEW k \in Key, NEW c \in I!PublishCommand \cup I!SearchCommand, log' = Append(log, c)
  PROVE  I!Indexed(k)' = I!Indexed(k) \cup IF c.type = "PUBLISH" THEN c.file[k] ELSE {}
<1> DEFINE P == {j \in DOMAIN log : log[j].type = "PUBLISH"}
           new == Len(log) + 1
<1>1. log \in Seq(I!PublishCommand \cup I!SearchCommand) /\ Len(log) \in Nat /\ DOMAIN log = 1 .. Len(log)
  BY LenProperties DEF IInv, TypeOK
<1>2. /\ DOMAIN log' = 1 .. new
      /\ \A i \in DOMAIN log : log'[i] = log[i]
      /\ log'[new] = c
  BY <1>1, AppendProperties, LenProperties
<1>3. {j \in DOMAIN log' : log'[j].type = "PUBLISH"} = P \cup IF c.type = "PUBLISH" THEN {new} ELSE {}
  BY <1>1, <1>2
<1>4. \A i \in P : log'[i] = log[i]
  BY <1>2
<1>5. I!Indexed(k) = UNION {log[i].file[k] : i \in P}
  BY DEF I!Indexed
<1>6. I!Indexed(k)' = UNION {log'[i].file[k] : i \in {j \in DOMAIN log' : log'[j].type = "PUBLISH"}}
  BY DEF I!Indexed
<1>7. CASE c.type = "PUBLISH"
  <2>1. I!Indexed(k)' = UNION {log'[i].file[k] : i \in P \cup {new}}
    BY <1>3, <1>6, <1>7
  <2> QED
    BY <1>2, <1>4, <1>5, <1>7, <2>1
<1>8. CASE c.type # "PUBLISH"
  <2>1. I!Indexed(k)' = UNION {log'[i].file[k] : i \in P}
    BY <1>3, <1>6, <1>8
  <2> QED
    BY <1>4, <1>5, <1>8, <2>1
<1> QED
  BY <1>7, <1>8

(* Steps that no list takes part in. *)
LEMMA QuietStep ==
  ASSUME PInv, IInv', Moving' = Moving, Published' = Published,
         UNCHANGED <<data, inverted, member, untold>>,
         \A k \in Key : I!Indexed(k)' = I!Indexed(k)
  PROVE  PInv'
<1>1. \A k \in Key : Whereabouts(k)' = Whereabouts(k)
  BY DEF Whereabouts
<1>2. \A k : O!Owner(k)' = O!Owner(k)
  BY DEF O!Owner, O!FirstFrom, O!Clockwise
<1>3. NothingLost'
  BY <1>1 DEF PInv, NothingLost
<1>4. Placed'
  <2>1. \A m \in Moving' : m.to = O!Owner(m.key)'
    BY <1>2 DEF PInv, Placed
  <2> QED
    BY <1>1, <2>1 DEF PInv, Placed
<1> QED
  BY <1>3, <1>4 DEF PInv

(* The callbacks send the lists that were looked up, and searches. *)
LEMMA CallbacksMove ==
  ASSUME NEW n, NEW inv, NEW T, NEW ch, Callbacks(n, inv, T, ch)
  PROVE  Moving' = {m \in ch : m.type \in ListTypes} \cup SendInvertList(inv, upcall')
<1>1. \A m \in SendInvertList(inv, upcall') : m.type \in ListTypes
  BY DEF SendInvertList, Shipment, ListTypes
<1>2. ASSUME NEW m \in SendSearch(T, upcall')
      PROVE  m.type \notin ListTypes
  <2>1. PICK u \in SearchAnswers(upcall') :
          m \in {Packet(SearchType(u), u.addr, s) : s \in Found(T, {u})}
    BY DEF SendSearch
  <2>2. PICK s \in Found(T, {u}) : m = Packet(SearchType(u), u.addr, s)
    BY <2>1
  <2> QED
    BY <2>2 DEF Packet, SearchType, ListTypes
<1>3. net' = ch \cup SendInvertList(inv, upcall') \cup SendSearch(T, upcall')
  BY DEF Callbacks
<1> QED
  BY <1>1, <1>2, <1>3 DEF Moving, ListTypes

LEMMA NoListSent ==
  ASSUME NEW inv, NEW U, \A u \in U : u.query.flag # 0
  PROVE  SendInvertList(inv, U) = {}
  BY DEF SendInvertList

LEMMA LookupNextQuiet ==
  ASSUME NEW n, NEW s, NEW flag, flag # 0, NEW m \in net, m.type \notin ListTypes,
         LookupNext(n, s, flag, net \ {m})
  PROVE  Moving' = Moving /\ Published' = Published /\ member' = member
<1> DEFINE q == [node |-> n, key |-> Head(s.keys), flag |-> flag, tid |-> s.tid]
<1>1. /\ member' = member /\ pending' = pending \cup {q} /\ Answered(upcall', {q})
      /\ Callbacks(n, inverted[n], Tracked(n, s), net \ {m})
  BY LookupAnswers DEF LookupNext, O!Lookup
<1>2. SendInvertList(inverted[n], upcall') = {}
  BY <1>1, NoListSent DEF Answered
<1>3. Moving' = {x \in net \ {m} : x.type \in ListTypes} \cup SendInvertList(inverted[n], upcall')
  BY <1>1, CallbacksMove
<1>4. Moving' = Moving
  BY <1>2, <1>3 DEF Moving, ListTypes
<1>5. Published' = Published
  BY <1>1 DEF Published
<1> QED
  BY <1>1, <1>4, <1>5

LEMMA CompleteOrGoOnQuiet ==
  ASSUME NEW m \in net, m.type \notin ListTypes, NEW docs, CompleteOrGoOn(m, docs)
  PROVE  Moving' = Moving /\ Published' = Published /\ member' = member
<1> DEFINE s == [m.data EXCEPT !.keys = Tail(@), !.docs = docs]
<1>1. CASE docs = {} \/ s.keys = <<>>
  <2>1. net' = (net \ {m}) \cup {Packet("SEARCH_COMPLETE", s.node, s)} /\ O!Silent
    BY <1>1 DEF CompleteOrGoOn
  <2>2. Packet("SEARCH_COMPLETE", s.node, s).type = "SEARCH_COMPLETE"
    BY DEF Packet
  <2> QED
    BY <2>1, <2>2 DEF O!Silent, Moving, Published, ListTypes
<1>2. CASE ~ (docs = {} \/ s.keys = <<>>)
  <2>1. LookupNext(m.to, s, 2, net \ {m})
    BY <1>2 DEF CompleteOrGoOn
  <2> QED
    BY <2>1, LookupNextQuiet
<1> QED
  BY <1>1, <1>2

LEMMA PacketQuiet ==
  ASSUME NEW m \in net,
         ProcessSearchInitial(m) \/ ProcessSearchBegin(m) \/ ProcessSearch(m) \/ ProcessSearchComplete(m)
  PROVE  /\ Moving' = Moving /\ Published' = Published /\ member' = member
         /\ UNCHANGED <<data, inverted, untold, log, changes>>
<1>1. UNCHANGED <<data, inverted, untold, log, changes>>
  BY DEF ProcessSearchInitial, ProcessSearchBegin, ProcessSearch, ProcessSearchComplete, local
<1>2. m.type \notin ListTypes
  BY DEF ProcessSearchInitial, ProcessSearchBegin, ProcessSearch, ProcessSearchComplete, ListTypes
<1>3. CASE ProcessSearchInitial(m)
  BY <1>1, <1>2, <1>3, LookupNextQuiet DEF ProcessSearchInitial
<1>4. CASE ProcessSearchBegin(m)
  BY <1>1, <1>2, <1>4, CompleteOrGoOnQuiet DEF ProcessSearchBegin
<1>5. CASE ProcessSearch(m)
  <2>1. CASE net' = net \ {m} /\ O!Silent
    BY <1>1, <1>2, <2>1 DEF O!Silent, Moving, Published, ListTypes
  <2>2. CASE CompleteOrGoOn(m, FindIntersection(data[m.to][Head(m.data.keys)], m.data.docs))
    BY <1>1, <1>2, <2>2, CompleteOrGoOnQuiet
  <2> QED
    BY <1>5, <2>1, <2>2 DEF ProcessSearch
<1>6. CASE ProcessSearchComplete(m)
  BY <1>1, <1>2, <1>6 DEF ProcessSearchComplete, O!Silent, Moving, Published, ListTypes
<1> QED
  BY <1>3, <1>4, <1>5, <1>6

LEMMA SearchQuiet ==
  ASSUME PInv, IInv', NEW m \in net,
         ProcessSearchInitial(m) \/ ProcessSearchBegin(m) \/ ProcessSearch(m) \/ ProcessSearchComplete(m)
  PROVE  PInv'
<1>1. /\ Moving' = Moving /\ Published' = Published /\ member' = member
      /\ UNCHANGED <<data, inverted, untold, log>>
  BY PacketQuiet
<1>2. \A k \in Key : I!Indexed(k)' = I!Indexed(k)
  BY <1>1, IndexedSame
<1> QED
  BY <1>1, <1>2, QuietStep

LEMMA SearchGivenQuiet ==
  ASSUME PInv, IInv', NEW n \in Node, NEW via, NEW ks \in KeyList, Search(n, via, ks)
  PROVE  PInv'
<1> DEFINE c == [type |-> "SEARCH", node |-> n, keys |-> ks]
           s == [tid |-> Len(log) + 1, node |-> n, keys |-> ks, docs |-> {}]
<1>1. /\ log' = Append(log, c) /\ O!Silent /\ net' = net \cup {Packet("SEARCH_INITIAL", via, s)}
      /\ UNCHANGED <<data, inverted, member, untold>>
  BY DEF Search, Give, O!Silent, local
<1>2. Packet("SEARCH_INITIAL", via, s).type = "SEARCH_INITIAL"
  BY DEF Packet
<1>3. Moving' = Moving /\ Published' = Published
  BY <1>1, <1>2 DEF Moving, Published, O!Silent
<1>4. c \in I!PublishCommand \cup I!SearchCommand /\ c.type # "PUBLISH"
  BY DEF I!SearchCommand
<1>5. \A k \in Key : I!Indexed(k)' = I!Indexed(k)
  BY <1>1, <1>4, IndexedGiven DEF PInv
<1> QED
  BY <1>1, <1>3, <1>5, QuietStep

(* Members stay who they are and so do owners. *)
LEMMA OwnersStay ==
  ASSUME member' = member, NEW k
  PROVE  O!Owner(k)' = O!Owner(k)
  BY DEF O!Owner, O!FirstFrom, O!Clockwise

LEMMA PublishPlaced ==
  ASSUME PInv, IInv', NEW n \in Node, NEW f \in File, Publish(n, f), Settled, Cardinality(member) > 1
  PROVE  PInv'
<1> DEFINE c == [type |-> "PUBLISH", node |-> n, file |-> f]
           Q == {[node |-> n, key |-> k, flag |-> 0, tid |-> Len(log) + 1] :
                   k \in {j \in Key : f[j] # {}}}
<1>1. /\ log' = Append(log, c) /\ inverted' = [inverted EXCEPT ![n] = f]
      /\ IF Q = {} THEN O!Silent ELSE O!Lookup(n, Q)
      /\ Callbacks(n, f, tracker[n], net)
      /\ UNCHANGED <<data, untold>>
  BY DEF Publish, Give
<1>2. member' = member /\ pending' = Q /\ Answered(upcall', Q)
  <2>1. CASE Q = {}
    BY <1>1, <2>1 DEF O!Silent, Answered, Settled
  <2>2. CASE Q # {}
    <3>1. O!Lookup(n, Q)
      BY <1>1, <2>2
    <3> QED
      BY <3>1, LookupAnswers DEF O!Lookup, Settled
  <2> QED
    BY <2>1, <2>2
<1>3. Moving' = SendInvertList(f, upcall')
  <2>1. Moving' = {m \in net : m.type \in ListTypes} \cup SendInvertList(f, upcall')
    BY <1>1, CallbacksMove
  <2>2. net = {}
    BY DEF Settled
  <2> QED
    BY <2>1, <2>2
<1>4. Moving = {} /\ Published = {}
  BY DEF Moving, Published, Settled
<1>5. Published' = Q
  BY <1>2 DEF Published
<1>6. inverted'[n] = f /\ f \in [Key -> List]
  BY <1>1, FileAssumption DEF PInv, IInv, TypeOK, List
<1>7. ASSUME NEW m \in Moving'
      PROVE  m.key \in Key /\ m.docs = f[m.key] /\ m.to = O!Owner(m.key)
  <2>1. PICK u \in upcall' : m = Shipment("STORE_LIST", u.addr, u.query.key, f[u.query.key])
    BY <1>3 DEF SendInvertList
  <2>2. u.query.key \in Key /\ u.addr = O!Owner(u.query.key)
    BY <1>2 DEF Answered
  <2> QED
    BY <2>1, <2>2 DEF Shipment
<1>8. ASSUME NEW k \in Key
      PROVE  Whereabouts(k)' = Whereabouts(k) \cup f[k]
  <2>1. Travelling(k) = {} /\ Waiting(k) = {} /\ Stored(k)' = Stored(k)
    BY <1>1, <1>4 DEF Travelling, Waiting, Stored
  <2>2. Travelling(k)' \subseteq f[k]
    BY <1>7 DEF Travelling
  <2>3. Waiting(k)' = f[k]
    <3> DEFINE q == [node |-> n, key |-> k, flag |-> 0, tid |-> Len(log) + 1]
    <3>1. \A x \in Q : x.node = n
      OBVIOUS
    <3>2. f[k] # {} => q \in Q /\ q.key = k /\ q.node = n
      OBVIOUS
    <3>3. f[k] = {} => \A x \in Q : x.key # k
      OBVIOUS
    <3> HIDE DEF Q, q
    <3>4. Waiting(k)' = UNION {inverted'[x.node][k] : x \in {y \in Q : y.key = k}}
      BY <1>5 DEF Waiting
    <3>5. CASE f[k] # {}
      BY <1>6, <3>1, <3>2, <3>4, <3>5
    <3>6. CASE f[k] = {}
      BY <3>3, <3>4, <3>6
    <3> QED
      BY <3>5, <3>6
  <2> QED
    BY <2>1, <2>2, <2>3, WhereaboutsParts
<1>9. NothingLost'
  <2>1. c \in I!PublishCommand \cup I!SearchCommand /\ c.type = "PUBLISH" /\ c.file = f
    BY DEF I!PublishCommand
  <2>2. \A k \in Key : I!Indexed(k)' = I!Indexed(k) \cup f[k]
    BY <1>1, <2>1, IndexedGiven DEF PInv
  <2> QED
    BY <1>8, <2>2 DEF PInv, NothingLost
<1>10. Placed'
  <2>1. \A m \in Moving' : m.to = O!Owner(m.key)'
    BY <1>2, <1>7, OwnersStay
  <2>2. untold = {}
    BY DEF Settled
  <2> QED
    BY <1>1, <1>2, <2>1, <2>2 DEF PInv, Placed
<1> QED
  BY <1>9, <1>10 DEF PInv

(* A list that arrives was on its way to its owner. *)
LEMMA StoredPlaced ==
  ASSUME PInv, IInv', NEW m \in Moving,
         data' = [data EXCEPT ![m.to][m.key] = @ \cup m.docs], net' = net \ {m}, O!Silent,
         UNCHANGED <<inverted, untold, log>>
  PROVE  PInv'
<1>1. m \in Message /\ m.to \in Node /\ m.key \in Key /\ m.docs \in List /\ m.docs # {}
  BY DEF Moving, PInv, IInv, TypeOK, Message
<1>2. member' = member /\ Published' = Published /\ Moving' = Moving \ {m}
  BY DEF O!Silent, Published, Moving
<1>3. untold = {} /\ m.to = O!Owner(m.key)
  BY DEF PInv, Placed
<1>4. data \in [Node -> [Key -> List]]
  BY DEF PInv, IInv, TypeOK
<1>5. \A n \in Node, k \in Key :
        data'[n][k] = IF n = m.to /\ k = m.key THEN data[n][k] \cup m.docs ELSE data[n][k]
  BY <1>1, <1>4
<1>6. ASSUME NEW k \in Key
      PROVE  Whereabouts(k)' = Whereabouts(k)
  <2> DEFINE got == IF k = m.key THEN m.docs ELSE {}
  <2>1. Stored(k)' = Stored(k) \cup got
    <3>1. CASE k = m.key
      <4>1. data'[m.to][k] = data[m.to][k] \cup m.docs /\ \A n \in Node \ {m.to} : data'[n][k] = data[n][k]
        BY <1>1, <1>5, <3>1
      <4>2. Stored(k)' \subseteq Stored(k) \cup m.docs
        BY <4>1 DEF Stored
      <4>3. Stored(k) \cup m.docs \subseteq Stored(k)'
        BY <1>1, <4>1 DEF Stored
      <4> QED
        BY <3>1, <4>2, <4>3
    <3>2. CASE k # m.key
      BY <1>5, <3>2 DEF Stored
    <3> QED
      BY <3>1, <3>2
  <2>2. Travelling(k) = Travelling(k)' \cup got
    <3>1. CASE k = m.key
      BY <1>2, <3>1 DEF Travelling
    <3>2. CASE k # m.key
      BY <1>2, <3>2 DEF Travelling
    <3> QED
      BY <3>1, <3>2
  <2>3. Waiting(k)' = Waiting(k)
    BY <1>2 DEF Waiting
  <2> QED
    BY <2>1, <2>2, <2>3, WhereaboutsParts
<1>7. NothingLost'
  BY <1>6, IndexedSame DEF PInv, NothingLost
<1>8. Cardinality(member) > 1
  <2>1. m.docs \subseteq Whereabouts(m.key)
    BY WhereaboutsParts DEF Travelling
  <2> QED
    BY <1>1, <2>1 DEF PInv, Placed
<1>9. member # {}
  BY <1>8, FS_EmptySet
<1>10. ASSUME NEW n \in Node, NEW k \in Key, data'[n][k] # {}
       PROVE  n = O!FirstFrom(k, member)
  <2>1. CASE n = m.to /\ k = m.key
    BY <1>3, <2>1 DEF O!Owner
  <2>2. CASE ~ (n = m.to /\ k = m.key)
    <3>1. data[n][k] # {}
      BY <1>5, <1>10, <2>2
    <3>2. n = O!FirstFrom(k, member \ untold)
      BY <3>1 DEF PInv, Placed
    <3>3. member \ untold = member
      BY <1>3
    <3> QED
      BY <3>2, <3>3
  <2> QED
    BY <2>1, <2>2
<1>11. Placed'
  <2>1. \A x \in Moving' : x.to = O!Owner(x.key)'
    BY <1>2, OwnersStay DEF PInv, Placed
  <2>2. \A n \in Node, k \in Key : data'[n][k] # {} =>
           member' \ untold' # {} /\ n = O!FirstFrom(k, member' \ untold')
    <3>1. member' \ untold' = member
      BY <1>2, <1>3
    <3> QED
      BY <1>9, <1>10, <3>1
  <2>3. \A k, S : O!FirstFrom(k, S)' = O!FirstFrom(k, S)
    BY DEF O!FirstFrom, O!Clockwise
  <2> QED
    BY <1>2, <1>3, <1>8, <2>1, <2>2 DEF PInv, Placed
<1> QED
  BY <1>7, <1>11 DEF PInv

(* A lookup of a published key is answered, and its list is sent to the owner. *)
LEMMA LookupSuccessPlaced ==
  ASSUME PInv, IInv', NEW q \in pending, LookupSuccess(q)
  PROVE  PInv'
<1>1. /\ member' = member /\ pending' = pending \ {q} /\ upcall' = {O!Answer(q)}
      /\ Callbacks(q.node, inverted[q.node], tracker[q.node], net)
      /\ UNCHANGED <<inverted, data, untold, log>>
  BY DEF LookupSuccess, O!Reply
<1>2. O!Answer(q).query = q /\ O!Answer(q).addr = O!Owner(q.key) /\ q \in Query
      /\ q.key \in Key /\ q.node \in Node
  BY DEF O!Answer, PInv, IInv, TypeOK, Query
<1>3. Moving' = Moving \cup SendInvertList(inverted[q.node], upcall')
  <2>1. Moving' = {m \in net : m.type \in ListTypes} \cup SendInvertList(inverted[q.node], upcall')
    BY <1>1, CallbacksMove
  <2> QED
    BY <2>1 DEF Moving, ListTypes
<1>4. \A k \in Key : I!Indexed(k)' = I!Indexed(k)
  BY <1>1, IndexedSame
<1>5. CASE q.flag # 0
  <2>1. SendInvertList(inverted[q.node], upcall') = {}
    BY <1>1, <1>2, <1>5, NoListSent
  <2>2. Moving' = Moving
    BY <1>3, <2>1
  <2>3. Published' = Published
    BY <1>1, <1>5 DEF Published
  <2> QED
    BY <1>1, <1>4, <2>2, <2>3, QuietStep
<1>6. CASE q.flag = 0
  <2> DEFINE docs == inverted[q.node][q.key]
             m == Shipment("STORE_LIST", O!Owner(q.key), q.key, docs)
  <2>1. Moving' = Moving \cup IF docs = {} THEN {} ELSE {m}
    <3>1. SendInvertList(inverted[q.node], upcall') = IF docs = {} THEN {} ELSE {m}
      BY <1>1, <1>2, <1>6 DEF SendInvertList
    <3> QED
      BY <1>3, <3>1
  <2>2. m.to = O!Owner(q.key) /\ m.key = q.key /\ m.docs = docs
    BY DEF Shipment
  <2>3. q \in Published /\ Published' = Published \ {q}
    BY <1>1, <1>6 DEF Published
  <2> HIDE DEF m, docs
  <2>4. ASSUME NEW k \in Key
        PROVE  Whereabouts(k)' = Whereabouts(k)
    <3> DEFINE got == IF k = q.key THEN docs ELSE {}
    <3>1. Stored(k)' = Stored(k)
      BY <1>1 DEF Stored
    <3>2. Travelling(k)' = Travelling(k) \cup got
      <4>1. CASE k = q.key
        <5>1. CASE docs = {}
          <6>1. Moving' = Moving /\ got = {}
            BY <2>1, <4>1, <5>1
          <6> QED
            BY <6>1 DEF Travelling
        <5>2. CASE docs # {}
          <6>1. Moving' = Moving \cup {m} /\ got = docs /\ m.key = k
            BY <2>1, <2>2, <4>1, <5>2
          <6> QED
            BY <2>2, <6>1 DEF Travelling
        <5> QED
          BY <5>1, <5>2
      <4>2. CASE k # q.key
        <5>1. {x \in Moving' : x.key = k} = {x \in Moving : x.key = k} /\ got = {}
          BY <2>1, <2>2, <4>2
        <5> QED
          BY <5>1 DEF Travelling
      <4> QED
        BY <4>1, <4>2
    <3>3. Waiting(k) = Waiting(k)' \cup got
      <4>1. CASE k = q.key
        BY <1>1, <2>3, <4>1 DEF Waiting, docs
      <4>2. CASE k # q.key
        BY <1>1, <2>3, <4>2 DEF Waiting
      <4> QED
        BY <4>1, <4>2
    <3> QED
      BY <3>1, <3>2, <3>3, WhereaboutsParts
  <2>5. NothingLost'
    BY <1>4, <2>4 DEF PInv, NothingLost
  <2>6. Placed'
    <3>1. \A x \in Moving' : x.to = O!Owner(x.key)'
      <4>1. \A x \in Moving' : x \in Moving \/ x = m
        BY <2>1
      <4>2. \A x \in Moving' : x.to = O!Owner(x.key)
        BY <2>2, <4>1 DEF PInv, Placed
      <4> QED
        BY <1>1, <4>2, OwnersStay
    <3>2. untold = {}
      BY <2>3 DEF PInv, Placed
    <3> QED
      BY <1>1, <2>4, <3>1, <3>2 DEF PInv, Placed
  <2> QED
    BY <2>5, <2>6 DEF PInv
<1> QED
  BY <1>5, <1>6

LEMMA MemberFacts ==
  ASSUME PInv
  PROVE  /\ member \subseteq Node /\ IsFiniteSet(member) /\ Cardinality(member) \in Nat
         /\ data \in [Node -> [Key -> List]]
  BY FS_CardinalityType DEF PInv, IInv, TypeOK, Placed

(* While a join is not announced the old owners still hold the lists. *)
LEMMA RingJoinPlaced ==
  ASSUME PInv, IInv', NEW n \in Node, RingJoin(n), AtRest
  PROVE  PInv'
<1>1. /\ n \notin member /\ pending = {} /\ member' = member \cup {n} /\ pending' = pending
      /\ untold' = IF Cardinality(member) > 1 THEN untold \cup {n} ELSE untold
      /\ UNCHANGED <<inverted, data, net, log>>
  BY DEF RingJoin, O!Join, local
<1>2. /\ Moving = {} /\ Published = {} /\ untold = {}
      /\ Moving' = {} /\ Published' = {}
  BY <1>1 DEF AtRest, Moving, Published
<1>3. \A k \in Key : Whereabouts(k)' = Whereabouts(k)
  BY <1>1, <1>2 DEF Whereabouts
<1>4. NothingLost'
  BY <1>1, <1>3, IndexedSame DEF PInv, NothingLost
<1>5. IsFiniteSet(member') /\ Cardinality(member') = Cardinality(member) + 1
  BY <1>1, MemberFacts, FS_AddElement
<1>6. Placed'
  <2>1. CASE Cardinality(member) > 1
    <3>1. untold' = {n} /\ member' \ untold' = member /\ member # {} /\ member \ untold = member
      BY <1>1, <1>2, <2>1, FS_EmptySet
    <3>2. \A x \in Node, k \in Key :
            data'[x][k] # {} => member' \ untold' # {} /\ x = O!FirstFrom(k, member' \ untold')
      BY <1>1, <3>1 DEF PInv, Placed
    <3>3. Cardinality(member') > 1
      BY <1>5, <2>1, MemberFacts
    <3> QED
      BY <1>1, <1>2, <1>5, <3>1, <3>2, <3>3 DEF Placed
  <2>2. CASE ~ Cardinality(member) > 1
    <3>1. \A k \in Key : Whereabouts(k) = {}
      BY <2>2 DEF PInv, Placed
    <3>2. \A x \in Node, k \in Key : data[x][k] = {}
      BY <3>1, WhereaboutsParts DEF Stored
    <3>3. untold' = {}
      BY <1>1, <1>2, <2>2
    <3> QED
      BY <1>1, <1>2, <1>3, <1>5, <3>1, <3>2, <3>3 DEF Placed
  <2> QED
    BY <2>1, <2>2
<1> QED
  BY <1>4, <1>6 DEF PInv

(* The documents of the packets in which a node sends the lists of the keys K. *)
LEMMA PassKeysDocs ==
  ASSUME NEW n, NEW K, NEW d, NEW m \in PassKeys(n, K, d)
  PROVE  /\ m.key \in K /\ m.to = d /\ m.docs = data[n][m.key] /\ data[n][m.key] # {}
         /\ m.type \in ListTypes
<1>1. PICK k \in {j \in K : data[n][j] # {}} : m = Shipment("PASS_KEYS", d, k, data[n][k])
  BY DEF PassKeys
<1>2. m.key = k /\ m.to = d /\ m.docs = data[n][k] /\ m.type = "PASS_KEYS"
  BY <1>1 DEF Shipment
<1> QED
  BY <1>1, <1>2 DEF ListTypes

LEMMA PassKeysComplete ==
  ASSUME NEW n, NEW K, NEW d, NEW k \in K, data[n][k] # {}
  PROVE  \E m \in PassKeys(n, K, d) : m.key = k /\ m.docs = data[n][k]
<1> DEFINE m == Shipment("PASS_KEYS", d, k, data[n][k])
<1>1. m \in PassKeys(n, K, d)
  BY DEF PassKeys
<1>2. m.key = k /\ m.docs = data[n][k]
  BY DEF Shipment
<1> QED
  BY <1>1, <1>2

(* Nothing is lost when n sends the lists of K and forgets them. *)
LEMMA HandedOver ==
  ASSUME PInv, NEW n \in Node, NEW K \in SUBSET Key, NEW d \in Node,
         Moving = {}, Published = {},
         net' = net \cup PassKeys(n, K, d),
         data' = [data EXCEPT ![n] = [k \in Key |-> IF k \in K THEN {} ELSE data[n][k]]],
         UNCHANGED <<pending, inverted, log>>
  PROVE  /\ Moving' = PassKeys(n, K, d)
         /\ Published' = {}
         /\ \A k \in Key : Whereabouts(k)' = Whereabouts(k)
         /\ NothingLost'
<1>1. Moving' = PassKeys(n, K, d)
  <2>1. \A m \in PassKeys(n, K, d) : m.type \in ListTypes
    BY PassKeysDocs
  <2> QED
    BY <2>1 DEF Moving, ListTypes
<1>2. Published' = {}
  BY DEF Published
<1>3. data \in [Node -> [Key -> List]]
  BY MemberFacts
<1>4. \A x \in Node, k \in Key : data'[x][k] = IF x = n /\ k \in K THEN {} ELSE data[x][k]
  BY <1>3
<1>5. ASSUME NEW k \in Key
      PROVE  Whereabouts(k)' = Whereabouts(k)
  <2>1. Waiting(k) = {} /\ Waiting(k)' = {} /\ Travelling(k) = {}
    BY <1>2 DEF Waiting, Travelling
  <2>2. Stored(k) = Stored(k)' \cup IF k \in K THEN data[n][k] ELSE {}
    <3>1. CASE k \in K
      BY <1>4, <3>1 DEF Stored
    <3>2. CASE k \notin K
      BY <1>4, <3>2 DEF Stored
    <3> QED
      BY <3>1, <3>2
  <2>3. Travelling(k)' = IF k \in K THEN data[n][k] ELSE {}
    <3>0. \A m \in Moving' : m.key \in K /\ m.docs = data[n][m.key]
      BY <1>1, PassKeysDocs
    <3>1. CASE k \in K
      <4>1. Travelling(k)' \subseteq data[n][k]
        BY <3>0 DEF Travelling
      <4>2. data[n][k] # {} => \E m \in Moving' : m.key = k /\ m.docs = data[n][k]
        BY <1>1, <3>1, PassKeysComplete
      <4>3. data[n][k] \subseteq Travelling(k)'
        BY <4>2 DEF Travelling
      <4> QED
        BY <3>1, <4>1, <4>3
    <3>2. CASE k \notin K
      BY <3>0, <3>2 DEF Travelling
    <3> QED
      BY <3>1, <3>2
  <2> QED
    BY <2>1, <2>2, <2>3, WhereaboutsParts
<1>6. NothingLost'
  BY <1>5, IndexedSame DEF PInv, NothingLost
<1> QED
  BY <1>1, <1>2, <1>5, <1>6

(* A new member gets, from the member after it, the lists it now owns. *)
LEMMA PassKeysJoinPlaced ==
  ASSUME PInv, IInv', NEW p \in untold, PassKeysJoin(p)
  PROVE  PInv'
<1> DEFINE n == O!NextOf(p)
           gone == Key \ Keeps(n, p)
           told == member \ {p}
<1>1. /\ p \in member /\ n # p /\ member' = member /\ pending' = pending
      /\ net' = net \cup PassKeys(n, gone, p)
      /\ data' = [data EXCEPT ![n] = [k \in Key |-> IF k \in gone THEN {} ELSE data[n][k]]]
      /\ untold' = untold \ {p}
      /\ UNCHANGED <<inverted, log>>
  BY DEF PassKeysJoin, O!JoinNotify
<1>2. Moving = {} /\ Published = {} /\ untold = {p} /\ p \in Node
  BY DEF PInv, Placed, IInv, TypeOK
<1>3. n = O!FirstFrom(Digest[p], told) /\ n \in told /\ n \in Node
  BY <1>1, NextIsMember DEF PInv, IInv, TypeOK
<1>4. /\ Moving' = PassKeys(n, gone, p) /\ Published' = {}
      /\ \A k \in Key : Whereabouts(k)' = Whereabouts(k)
      /\ NothingLost'
  BY <1>1, <1>2, <1>3, HandedOver
<1>5. \A k \in Key : k \in gone <=> ~ InArc(Digest[p], k, Digest[n])
  BY DEF Keeps
<1>6. \A x \in Node, k \in Key : data[x][k] # {} => x = O!FirstFrom(k, told)
  BY <1>2 DEF PInv, Placed
<1>7. \A k \in Key : O!FirstFrom(k, member) =
                       IF O!FirstFrom(k, told) # n \/ InArc(Digest[p], k, Digest[n])
                       THEN O!FirstFrom(k, told) ELSE p
  BY <1>1, <1>3, MemberFacts, OwnerMoves
<1> HIDE DEF n, gone, told
<1>8. ASSUME NEW m \in Moving'
      PROVE  m.to = O!Owner(m.key)
  <2>1. m.key \in gone /\ m.key \in Key /\ m.to = p /\ data[n][m.key] # {}
    BY <1>4, PassKeysDocs DEF gone
  <2>2. n = O!FirstFrom(m.key, told)
    BY <1>3, <1>6, <2>1
  <2>3. O!FirstFrom(m.key, member) = p
    BY <1>5, <1>7, <2>1, <2>2
  <2> QED
    BY <2>1, <2>3 DEF O!Owner
<1>9. ASSUME NEW x \in Node, NEW k \in Key, data'[x][k] # {}
      PROVE  x = O!FirstFrom(k, member)
  <2>1. data[x][k] # {} /\ ~ (x = n /\ k \in gone)
    BY <1>1, <1>3, <1>9, MemberFacts
  <2>2. x = O!FirstFrom(k, told)
    BY <1>6, <2>1
  <2>3. x # n \/ InArc(Digest[p], k, Digest[n])
    BY <1>5, <2>1
  <2> QED
    BY <1>7, <2>2, <2>3
<1>10. Placed'
  <2>1. untold' = {} /\ member' \ untold' = member /\ member # {}
    BY <1>1, <1>2
  <2>2. \A m \in Moving' : m.to = O!Owner(m.key)'
    BY <1>1, <1>8, OwnersStay
  <2>3. \A x \in Node, k \in Key :
          data'[x][k] # {} => member' \ untold' # {} /\ x = O!FirstFrom(k, member' \ untold')
    BY <1>9, <2>1
  <2>4. IsFiniteSet(member') /\ (Cardinality(member') > 1 \/ \A k \in Key : Whereabouts(k)' = {})
    BY <1>1, <1>4 DEF PInv, Placed
  <2> QED
    BY <2>1, <2>2, <2>3, <2>4 DEF Placed
<1> QED
  BY <1>4, <1>10 DEF PInv

(* A leaving member sends its lists to the member after it, which owns them. *)
LEMMA PassKeysLeavePlaced ==
  ASSUME PInv, IInv', NEW n \in Node, PassKeysLeave(n), AtRest, Cardinality(member) > 2
  PROVE  PInv'
<1> DEFINE d == O!NextOf(n)
           rest == member \ {n}
<1>1. /\ n \in member /\ member' = rest /\ pending' = pending
      /\ upcall' = IF d = n THEN {} ELSE {[type |-> "leaveNotify", node |-> n, addr |-> d]}
      /\ net' = net \cup UNION {Passed(n, u) : u \in upcall'}
      /\ data' = IF upcall' = {} THEN data ELSE [data EXCEPT ![n] = NoList]
      /\ untold' = untold \ {n}
      /\ UNCHANGED <<inverted, log>>
  BY DEF PassKeysLeave, O!Leave
<1>2. Moving = {} /\ Published = {} /\ untold = {}
  BY DEF AtRest
<1>3. IsFiniteSet(rest) /\ Cardinality(rest) > 1 /\ rest # {} /\ rest \subseteq Node
  <2>1. IsFiniteSet(rest) /\ Cardinality(rest) = Cardinality(member) - 1
    BY <1>1, MemberFacts, FS_RemoveElement
  <2> QED
    BY <2>1, MemberFacts, FS_EmptySet
<1>4. d = O!FirstFrom(Digest[n], rest) /\ d \in rest /\ d # n
  <2>1. d = O!FirstFrom(Digest[n], rest)
    BY <1>3 DEF O!NextOf
  <2>2. d \in rest
    BY <1>3, <2>1, FirstExists, DigestAssumption
  <2> QED
    BY <2>1, <2>2
<1>5. /\ net' = net \cup PassKeys(n, Key, d)
      /\ data' = [data EXCEPT ![n] = [k \in Key |-> IF k \in Key THEN {} ELSE data[n][k]]]
  <2>1. upcall' = {[type |-> "leaveNotify", node |-> n, addr |-> d]}
    BY <1>1, <1>4
  <2>2. UNION {Passed(n, u) : u \in upcall'} = PassKeys(n, Key, d)
    BY <2>1 DEF Passed
  <2>3. NoList = [k \in Key |-> IF k \in Key THEN {} ELSE data[n][k]]
    BY DEF NoList
  <2> QED
    BY <1>1, <2>1, <2>2, <2>3
<1>6. /\ Moving' = PassKeys(n, Key, d) /\ Published' = {}
      /\ \A k \in Key : Whereabouts(k)' = Whereabouts(k)
      /\ NothingLost'
  <2> HIDE DEF d
  <2>1. d \in Node /\ Key \in SUBSET Key /\ UNCHANGED <<pending, inverted, log>>
    BY <1>1, <1>3, <1>4
  <2> QED
    BY <1>2, <1>5, <2>1, HandedOver
<1>7. \A x \in Node, k \in Key : data[x][k] # {} => x = O!FirstFrom(k, member)
  <2>1. member \ untold = member
    BY <1>2
  <2> QED
    BY <2>1 DEF PInv, Placed
<1>8. \A k \in Key : O!FirstFrom(k, member) =
                       IF O!FirstFrom(k, rest) # d \/ InArc(Digest[n], k, Digest[d])
                       THEN O!FirstFrom(k, rest) ELSE n
  BY <1>1, <1>3, <1>4, MemberFacts, OwnerMoves
<1>9. \A k \in Key : O!FirstFrom(k, rest) \in rest
  BY <1>3, FirstExists, KeysAreIds
<1> HIDE DEF d, rest
<1>10. \A k \in Key : O!FirstFrom(k, rest) # n
  BY <1>9 DEF rest
<1>11. ASSUME NEW m \in Moving'
       PROVE  m.to = O!FirstFrom(m.key, rest)
  <2>1. m.key \in Key /\ m.to = d /\ data[n][m.key] # {}
    BY <1>6, PassKeysDocs
  <2> QED
    BY <1>7, <1>8, <1>10, <2>1
<1>12. ASSUME NEW x \in Node, NEW k \in Key, data'[x][k] # {}
       PROVE  x = O!FirstFrom(k, rest)
  <2>1. data[x][k] # {} /\ x # n
    BY <1>5, <1>12, MemberFacts
  <2> QED
    BY <1>7, <1>8, <2>1
<1>13. Placed'
  <2>1. untold' = {} /\ member' \ untold' = rest
    BY <1>1, <1>2
  <2>2. \A m \in Moving' : m.to = O!Owner(m.key)'
    <3>1. \A k : O!Owner(k)' = O!FirstFrom(k, rest)
      BY <1>1 DEF O!Owner, O!FirstFrom, O!Clockwise
    <3> QED
      BY <1>11, <3>1
  <2>3. \A x \in Node, k \in Key :
          data'[x][k] # {} => member' \ untold' # {} /\ x = O!FirstFrom(k, member' \ untold')
    BY <1>3, <1>12, <2>1
  <2>4. IsFiniteSet(member') /\ Cardinality(member') > 1
    BY <1>1, <1>3
  <2> QED
    BY <2>1, <2>2, <2>3, <2>4 DEF Placed
<1> QED
  BY <1>6, <1>13 DEF PInv

LEMMA InitPlaced == Init => PInv
<1> SUFFICES ASSUME Init PROVE PInv
  OBVIOUS
<1>1. /\ member = {} /\ pending = {} /\ net = {} /\ untold = {} /\ log = <<>>
      /\ data = [n \in Node |-> NoList]
  BY DEF Init, O!Init, I!Init
<1>2. Moving = {} /\ Published = {}
  BY <1>1 DEF Moving, Published
<1>3. \A n \in Node, k \in Key : data[n][k] = {}
  BY <1>1 DEF NoList
<1>4. \A k \in Key : Whereabouts(k) = {}
  <2>1. \A k \in Key : Stored(k) = {} /\ Travelling(k) = {} /\ Waiting(k) = {}
    BY <1>2, <1>3 DEF Stored, Travelling, Waiting
  <2> QED
    BY <2>1, WhereaboutsParts
<1>5. \A k \in Key : I!Indexed(k) = {}
  BY <1>1 DEF I!Indexed
<1>6. NothingLost
  BY <1>4, <1>5 DEF NothingLost
<1>7. Placed
  BY <1>1, <1>2, <1>3, <1>4, FS_EmptySet DEF Placed
<1> QED
  BY <1>6, <1>7, InitTyped DEF PInv

LEMMA PacedIsNext == IInv /\ PacedNext => Next
<1> SUFFICES ASSUME IInv, PacedNext PROVE Next
  OBVIOUS
<1>1. member \subseteq Node /\ \A p \in untold : PassKeysJoin(p) => JoinNotified
  BY DEF IInv, TypeOK, PassKeysJoin, O!JoinNotify, JoinNotified
<1>2. PacedCommand => Command
  BY <1>1, AskerAssumption DEF PacedCommand, Command
<1>3. PacedChange => \E n \in Node : RingJoin(n) \/ PassKeysLeave(n)
  BY DEF PacedChange
<1> QED
  BY <1>1, <1>2, <1>3 DEF PacedNext, Next

LEMMA NextPlaced == PInv /\ [PacedNext]_vars => PInv'
<1> SUFFICES ASSUME PInv, [PacedNext]_vars PROVE PInv'
  OBVIOUS
<1>0. IInv'
  BY PacedIsNext, NextTyped DEF PInv
<1>1. CASE PacedCommand
  <2>1. member \subseteq Node
    BY MemberFacts
  <2>2. CASE Settled /\ Cardinality(member) > 1 /\ \E n \in member, f \in File : Publish(n, f)
    BY <1>0, <2>1, <2>2, PublishPlaced
  <2>3. CASE \E n \in Asker, via \in member, ks \in KeyList : Search(n, via, ks)
    BY <1>0, <2>3, SearchGivenQuiet, AskerAssumption
  <2> QED
    BY <1>1, <2>2, <2>3 DEF PacedCommand
<1>2. CASE RecvMessage
  <2>1. PICK m \in net : \/ ProcessStoreList(m) \/ ProcessPassKeys(m)
                         \/ ProcessSearchInitial(m) \/ ProcessSearchBegin(m)
                         \/ ProcessSearch(m) \/ ProcessSearchComplete(m)
    BY <1>2 DEF RecvMessage
  <2>2. CASE ProcessStoreList(m) \/ ProcessPassKeys(m)
    <3>1. m \in Moving
      BY <2>2 DEF ProcessStoreList, ProcessPassKeys, Moving
    <3> QED
      BY <1>0, <2>2, <3>1, StoredPlaced DEF ProcessStoreList, ProcessPassKeys
  <2>3. CASE \/ ProcessSearchInitial(m) \/ ProcessSearchBegin(m)
             \/ ProcessSearch(m) \/ ProcessSearchComplete(m)
    BY <1>0, <2>3, SearchQuiet
  <2> QED
    BY <2>1, <2>2, <2>3
<1>3. CASE LookupAnswered
  BY <1>0, <1>3, LookupSuccessPlaced DEF LookupAnswered
<1>4. CASE \E p \in untold : PassKeysJoin(p)
  BY <1>0, <1>4, PassKeysJoinPlaced
<1>5. CASE PacedChange
  BY <1>0, <1>5, RingJoinPlaced, PassKeysLeavePlaced DEF PacedChange
<1>6. CASE UNCHANGED vars
  <2>1. Moving' = Moving /\ Published' = Published
    BY <1>6 DEF vars, overlay, Moving, Published
  <2>2. \A k \in Key : I!Indexed(k)' = I!Indexed(k)
    BY <1>6, IndexedSame DEF vars
  <2> QED
    BY <1>0, <1>6, <2>1, <2>2, QuietStep DEF vars, overlay, local
<1> QED
  BY <1>1, <1>2, <1>3, <1>4, <1>5, <1>6 DEF PacedNext

LEMMA AlwaysPlaced == PacedSpec => []PInv
  BY InitPlaced, NextPlaced, PTL DEF PacedSpec

(* However far commands, hand-overs and packets overlap in the scenario's pace, *)
(* no document that was published under a key is forgotten and none appears    *)
(* that was not.                                                            *)
THEOREM DocumentsKept == PacedSpec => []NothingLost
<1>1. PInv => NothingLost
  BY DEF PInv
<1> QED
  BY <1>1, AlwaysPlaced, PTL

(* Once nothing is on its way, each list is whole at the owner of its key: the  *)
(* keys PassKeysJoin keeps and passes on, and those a leaving node sends away,  *)
(* are just the ones whose first member changes.                             *)
THEOREM ListsPlaced == PacedSpec => []KeysPlaced
<1>1. PInv => KeysPlaced
  <2> SUFFICES ASSUME PInv, Settled, member # {}, NEW n \in Node, NEW k \in Key
               PROVE  data[n][k] = IF n = O!Owner(k) THEN I!Indexed(k) ELSE {}
    BY DEF KeysPlaced
  <2>1. Moving = {} /\ Published = {} /\ member \ untold = member
    BY DEF Settled, Moving, Published
  <2>2. \A x \in Node : data[x][k] # {} => x = O!Owner(k)
    BY <2>1 DEF PInv, Placed, O!Owner
  <2>3. Travelling(k) = {} /\ Waiting(k) = {}
    BY <2>1 DEF Travelling, Waiting
  <2>4. Stored(k) = I!Indexed(k)
    BY <2>3, WhereaboutsParts DEF PInv, NothingLost
  <2>5. O!Owner(k) \in Node
    BY OwnerIsMember DEF PInv, IInv
  <2>6. Stored(k) = data[O!Owner(k)][k]
    <3>1. \A x \in Node : data[x][k] \subseteq data[O!Owner(k)][k]
      BY <2>2
    <3> QED
      BY <2>5, <3>1 DEF Stored
  <2> QED
    BY <2>2, <2>4, <2>6
<1> QED
  BY <1>1, AlwaysPlaced, PTL

-----------------------------------------------------------------------------
(* How a search travels: from packet to packet, or it waits in a tracker. *)

SearchTypes == {"SEARCH_INITIAL", "SEARCH_BEGIN", "SEARCH", "SEARCH_COMPLETE"}

Packs == {m \in net : m.type \in SearchTypes}

Asked == {q \in pending : q.flag # 0}

LookupOf(n, s, f) == [node |-> n, key |-> Head(s.keys), flag |-> f, tid |-> s.tid]

TypeFor(f) == IF f = 1 THEN "SEARCH_BEGIN" ELSE "SEARCH"

LEMMA PackFacts ==
  ASSUME IInv, NEW m \in Packs
  PROVE  /\ m \in net /\ m.to \in Node /\ m.type \in SearchTypes
         /\ m = Packet(m.type, m.to, m.data)
         /\ m.data \in SearchData /\ m.data.tid \in Tid /\ m.data.node \in Node
         /\ m.data.docs \in List /\ m.data.keys \in Seq(Key)
         /\ m.type # "SEARCH_COMPLETE" => m.data.keys # <<>>
<1>1. m \in net /\ m.type \in {"SEARCH_INITIAL", "SEARCH_BEGIN", "SEARCH", "SEARCH_COMPLETE"}
  BY DEF Packs, SearchTypes
<1>2. m \in Message
  BY <1>1 DEF IInv, TypeOK
<1>3. m = Packet(m.type, m.to, m.data)
  BY <1>1, <1>2 DEF Message, Packet
<1> QED
  BY <1>1, <1>3, SearchPacket DEF SearchTypes

LEMMA PacketFields ==
  ASSUME NEW t, NEW d, NEW s
  PROVE  Packet(t, d, s).type = t /\ Packet(t, d, s).to = d /\ Packet(t, d, s).data = s
  BY DEF Packet

LEMMA SameMembers ==
  ASSUME member' = member
  PROVE  /\ \A k : O!Owner(k)' = O!Owner(k)
         /\ \A q : O!Known(q)' = O!Known(q)
  BY DEF O!Owner, O!Known, O!NextOf, O!FirstFrom, O!Clockwise

LEMMA LookupOfTyped ==
  ASSUME NEW n \in Node, NEW s \in SearchData, s.keys # <<>>, NEW f \in {1, 2}
  PROVE  /\ LookupOf(n, s, f) \in Query
         /\ LookupOf(n, s, f).node = n /\ LookupOf(n, s, f).key = Head(s.keys)
         /\ LookupOf(n, s, f).flag = f /\ LookupOf(n, s, f).tid = s.tid
         /\ Head(s.keys) \in Key
<1>1. s.keys \in Seq(Key) /\ s.tid \in Tid
  BY DEF SearchData
<1>2. Head(s.keys) \in Key
  BY <1>1, HeadTailProperties
<1> QED
  BY <1>1, <1>2 DEF LookupOf, Query, Flag

(* The callback of one search lookup sends on what is tracked for it. *)
LEMMA AnswerFound ==
  ASSUME NEW q, NEW T, NEW U, q.flag \in {1, 2}, U = {O!Answer(q)}
  PROVE  \A s : s \in Found(T, U) <=> s \in T /\ s.tid = q.tid
<1>1. O!Answer(q).query = q
  BY DEF O!Answer
<1>2. SearchAnswers(U) = U
  BY <1>1 DEF SearchAnswers
<1> QED
  BY <1>1, <1>2 DEF Found

LEMMA AnswerLists ==
  ASSUME NEW q, NEW inv, NEW U, q.flag \in {1, 2}, U = {O!Answer(q)}
  PROVE  SendInvertList(inv, U) = {}
<1>1. O!Answer(q).query = q
  BY DEF O!Answer
<1> QED
  BY <1>1, NoListSent

LEMMA AnswerSends ==
  ASSUME NEW q, NEW T, NEW U, q.flag \in {1, 2}, U = {O!Answer(q)}
  PROVE  \A p : p \in SendSearch(T, U) <=>
                  \E s \in T : s.tid = q.tid /\ p = Packet(TypeFor(q.flag), O!Owner(q.key), s)
<1> DEFINE u == O!Answer(q)
           S(v) == {Packet(SearchType(v), v.addr, x) : x \in Found(T, {v})}
<1>1. u.query = q /\ u.addr = O!Owner(q.key) /\ SearchType(u) = TypeFor(q.flag)
  BY DEF O!Answer, SearchType, TypeFor
<1>2. SearchAnswers(U) = {u}
  BY <1>1 DEF SearchAnswers
<1>3. \A s : s \in Found(T, {u}) <=> s \in T /\ s.tid = q.tid
  BY AnswerFound
<1>4. SendSearch(T, U) = UNION {S(v) : v \in SearchAnswers(U)}
  BY DEF SendSearch
<1> HIDE DEF u
<1>5. \A p : p \in S(u) <=> \E s \in Found(T, {u}) : p = Packet(SearchType(u), u.addr, s)
  OBVIOUS
<1> HIDE DEF S
<1>6. SendSearch(T, U) = S(u)
  BY <1>2, <1>4
<1> QED
  BY <1>1, <1>3, <1>5, <1>6

LEMMA NothingSends ==
  ASSUME NEW T, NEW inv
  PROVE  SendInvertList(inv, {}) = {} /\ Found(T, {}) = {} /\ SendSearch(T, {}) = {}
  BY DEF SendInvertList, Found, SendSearch, SearchAnswers

(* A lookup by n either sends the search on at once or leaves it tracked. *)
LEMMA LookupNextEffect ==
  ASSUME IInv, NEW n \in Node, NEW s \in SearchData, s.keys # <<>>, NEW f \in {1, 2}, NEW m \in Packs,
         LookupNext(n, s, f, net \ {m}), \A t \in tracker[n] : t.tid # s.tid
  PROVE  LET q == LookupOf(n, s, f)
         IN  /\ n \in member /\ member' = member
             /\ Asked' = Asked \cup {q}
             /\ \/ /\ O!Known(q) /\ tracker' = tracker
                   /\ Packs' = (Packs \ {m}) \cup {Packet(TypeFor(f), O!Owner(q.key), s)}
                \/ /\ ~ O!Known(q) /\ tracker' = [tracker EXCEPT ![n] = tracker[n] \cup {s}]
                   /\ Packs' = Packs \ {m}
<1> DEFINE q == LookupOf(n, s, f)
           T == tracker[n] \cup {s}
           ch == net \ {m}
           inv == inverted[n]
<1>1. q.flag = f /\ q.tid = s.tid /\ q = [node |-> n, key |-> Head(s.keys), flag |-> f, tid |-> s.tid]
  BY LookupOfTyped DEF LookupOf
<1>2. Tracked(n, s) = T
  BY DEF Tracked
<1> HIDE DEF q, T, ch, inv
<1>3. /\ n \in member /\ member' = member /\ pending' = pending \cup {q}
      /\ upcall' = {O!Answer(p) : p \in {x \in {q} : O!Known(x)}}
      /\ tracker' = [tracker EXCEPT ![n] = T \ Found(T, upcall')]
      /\ net' = ch \cup SendInvertList(inv, upcall') \cup SendSearch(T, upcall')
  BY <1>1, <1>2 DEF LookupNext, O!Lookup, Callbacks, ch, inv
<1>4. Asked' = Asked \cup {q}
  BY <1>1, <1>3 DEF Asked
<1>5. CASE O!Known(q)
  <2> DEFINE F == {x \in T : x.tid = q.tid}
             p == Packet(TypeFor(f), O!Owner(q.key), s)
  <2>1. upcall' = {O!Answer(q)}
    BY <1>3, <1>5
  <2>2. F = {s}
    BY <1>1 DEF T
  <2>3. SendInvertList(inv, upcall') = {} /\ Found(T, upcall') = F /\ SendSearch(T, upcall') = {p}
    <3> DEFINE P == {Packet(TypeFor(q.flag), O!Owner(q.key), x) : x \in F}
    <3>1. /\ P = {p} /\ \A x : x \in F <=> x \in T /\ x.tid = q.tid
          /\ \A y : y \in P <=> \E x \in F : y = Packet(TypeFor(q.flag), O!Owner(q.key), x)
      BY <1>1, <2>2
    <3> HIDE DEF P, F, p
    <3>2. SendInvertList(inv, upcall') = {}
      BY <1>1, <2>1, AnswerLists
    <3>3. Found(T, upcall') = F
      <4>1. \A x : x \in Found(T, upcall') <=> x \in T /\ x.tid = q.tid
        BY <1>1, <2>1, AnswerFound
      <4> QED
        BY <3>1, <4>1
    <3>4. SendSearch(T, upcall') = P
      <4>1. \A y : y \in SendSearch(T, upcall') <=>
              \E x \in T : x.tid = q.tid /\ y = Packet(TypeFor(q.flag), O!Owner(q.key), x)
        BY <1>1, <2>1, AnswerSends
      <4> QED
        BY <3>1, <4>1
    <3> QED
      BY <3>1, <3>2, <3>3, <3>4
  <2>4. net' = ch \cup {p}
    BY <1>3, <2>3
  <2>5. p.type \in SearchTypes
    BY PacketFields DEF TypeFor, SearchTypes
  <2>6. Packs' = (Packs \ {m}) \cup {p}
    BY <2>4, <2>5 DEF Packs, ch
  <2>7. T \ {s} = tracker[n]
    BY DEF T
  <2>8. tracker' = tracker
    BY <1>3, <2>2, <2>3, <2>7 DEF IInv, TypeOK
  <2> QED
    BY <1>3, <1>4, <1>5, <2>6, <2>8 DEF q
<1>6. CASE ~ O!Known(q)
  <2>1. upcall' = {}
    BY <1>3, <1>6
  <2>2. SendInvertList(inv, upcall') = {} /\ Found(T, upcall') = {} /\ SendSearch(T, upcall') = {}
    BY <2>1, NothingSends
  <2>3. net' = ch /\ tracker' = [tracker EXCEPT ![n] = T]
    BY <1>3, <2>2
  <2>4. Packs' = Packs \ {m}
    BY <2>3 DEF Packs, ch
  <2> QED
    BY <1>3, <1>4, <1>6, <2>3, <2>4 DEF q, T
<1> QED
  BY <1>5, <1>6

(* An answer from the ring sends on what its node tracks under the same tid. *)
LEMMA LookupSuccessEffect ==
  ASSUME IInv, NEW q \in Asked, LookupSuccess(q)
  PROVE  LET F == {s \in tracker[q.node] : s.tid = q.tid}
         IN  /\ member' = member /\ Asked' = Asked \ {q} /\ q.node \in Node
             /\ q.flag \in {1, 2} /\ q.key \in Key
             /\ tracker' = [tracker EXCEPT ![q.node] = tracker[q.node] \ F]
             /\ Packs' = Packs \cup {Packet(TypeFor(q.flag), O!Owner(q.key), s) : s \in F}
<1> DEFINE F == {s \in tracker[q.node] : s.tid = q.tid}
           T == tracker[q.node]
           inv == inverted[q.node]
           P == {Packet(TypeFor(q.flag), O!Owner(q.key), s) : s \in F}
<1>1. q \in pending /\ q \in Query /\ q.node \in Node /\ q.key \in Key /\ q.flag \in {1, 2}
  BY DEF Asked, IInv, TypeOK, Query, Flag
<1> HIDE DEF T, inv
<1>2. /\ member' = member /\ pending' = pending \ {q} /\ upcall' = {O!Answer(q)}
      /\ tracker' = [tracker EXCEPT ![q.node] = T \ Found(T, upcall')]
      /\ net' = net \cup SendInvertList(inv, upcall') \cup SendSearch(T, upcall')
  BY DEF LookupSuccess, O!Reply, Callbacks, T, inv
<1>3. SendInvertList(inv, upcall') = {} /\ Found(T, upcall') = F /\ SendSearch(T, upcall') = P
  <2>1. /\ \A s : s \in F <=> s \in T /\ s.tid = q.tid
        /\ \A p : p \in P <=> \E s \in F : p = Packet(TypeFor(q.flag), O!Owner(q.key), s)
    BY DEF T
  <2> HIDE DEF P, F
  <2> DEFINE U == upcall'
  <2>2. U = {O!Answer(q)}
    BY <1>2
  <2> HIDE DEF U
  <2>3. SendInvertList(inv, U) = {}
    BY <1>1, <2>2, AnswerLists
  <2>4. Found(T, U) = F
    BY <1>1, <2>1, <2>2, AnswerFound
  <2>5. SendSearch(T, U) = P
    <3>1. \A p : p \in SendSearch(T, U) <=>
            \E s \in T : s.tid = q.tid /\ p = Packet(TypeFor(q.flag), O!Owner(q.key), s)
      BY <1>1, <2>2, AnswerSends
    <3> QED
      BY <2>1, <3>1
  <2> QED
    BY <2>3, <2>4, <2>5 DEF U
<1>4. \A p \in P : p.type \in SearchTypes
  BY PacketFields DEF TypeFor, SearchTypes
<1> HIDE DEF P, F
<1>5. net' = net \cup P /\ tracker' = [tracker EXCEPT ![q.node] = T \ F]
  BY <1>2, <1>3
<1>6. Packs' = Packs \cup P
  BY <1>4, <1>5 DEF Packs
<1>7. Asked' = Asked \ {q}
  BY <1>2 DEF Asked
<1> QED
  BY <1>1, <1>2, <1>5, <1>6, <1>7 DEF P, F, T

(* CompleteOrGoOn, when the search ends. *)
LEMMA CompleteEffect ==
  ASSUME NEW m \in Packs, NEW docs, NEW s, s = [m.data EXCEPT !.keys = Tail(@), !.docs = docs],
         CompleteOrGoOn(m, docs), docs = {} \/ s.keys = <<>>
  PROVE  /\ member' = member /\ Asked' = Asked /\ tracker' = tracker
         /\ Packs' = (Packs \ {m}) \cup {Packet("SEARCH_COMPLETE", s.node, s)}
<1>1. /\ net' = (net \ {m}) \cup {Packet("SEARCH_COMPLETE", s.node, s)} /\ O!Silent /\ UNCHANGED tracker
  BY DEF CompleteOrGoOn
<1> QED
  BY <1>1, PacketFields DEF Packs, Asked, O!Silent, SearchTypes

LEMMA GoOnEffect ==
  ASSUME NEW m \in Packs, NEW docs, NEW s, s = [m.data EXCEPT !.keys = Tail(@), !.docs = docs],
         CompleteOrGoOn(m, docs), ~ (docs = {} \/ s.keys = <<>>)
  PROVE  LookupNext(m.to, s, 2, net \ {m})
  BY DEF CompleteOrGoOn

(* The search s is the one the log has under its transaction id. *)
OfLog(s) ==
  /\ s.tid \in DOMAIN log /\ log[s.tid].type = "SEARCH"
  /\ s.node = log[s.tid].node
  /\ \A r \in results : r.id # s.tid

(* It asks for its first key, for the second of two, or has been answered. *)
AtFirst(s) == OfLog(s) /\ s.keys = log[s.tid].keys

AtSecond(s) ==
  /\ OfLog(s)
  /\ Len(log[s.tid].keys) = 2 /\ s.keys = Tail(log[s.tid].keys)
  /\ s.docs \subseteq I!Indexed(log[s.tid].keys[1])

AtEnd(s) == OfLog(s) /\ s.docs \subseteq I!Matches(log[s.tid].keys)

(* A search is in one place only: a packet or an entry of one tracker. *)
Single ==
  /\ \A m, o \in Packs : m.data.tid = o.data.tid => m = o
  /\ \A n, o \in Node : \A s \in tracker[n], t \in tracker[o] : s.tid = t.tid => n = o
  /\ \A m \in Packs, n \in Node : \A s \in tracker[n] : m.data.tid # s.tid

(* What packets carry, and which lookups of their search may still be open: *)
(* those that were answered at once and will be answered again.             *)
Carried(m) ==
  \/ /\ m.type = "SEARCH_INITIAL" /\ AtFirst(m.data)
     /\ \A q \in Asked : q.tid # m.data.tid
  \/ /\ m.type = "SEARCH_BEGIN" /\ AtFirst(m.data)
     /\ \A q \in Asked : q.tid = m.data.tid => q.flag = 1 /\ O!Known(q) /\ m.to = O!Owner(q.key)
  \/ m.type = "SEARCH" /\ AtSecond(m.data)
  \/ m.type = "SEARCH_COMPLETE" /\ AtEnd(m.data) /\ m.to = m.data.node

(* What waits at n waits for a lookup that will be answered, and at n for no *)
(* other one: an answer always finds the search at the stage it asked for.   *)
Waits(n, s) ==
  \/ /\ AtFirst(s) /\ LookupOf(n, s, 1) \in Asked
     /\ \A q \in Asked : q.tid = s.tid => q = LookupOf(n, s, 1)
  \/ /\ AtSecond(s) /\ LookupOf(n, s, 2) \in Asked
     /\ \A q \in Asked : q.tid = s.tid /\ q.node = n => q = LookupOf(n, s, 2)

Tracking ==
  /\ Single
  /\ \A m \in Packs : Carried(m)
  /\ \A n \in Node : \A s \in tracker[n] : Waits(n, s)
  /\ \A q \in Asked : q.tid \in DOMAIN log

Shown ==
  \A r \in results :
    /\ r.id \in DOMAIN log /\ log[r.id].type = "SEARCH"
    /\ r.docs \subseteq I!Matches(log[r.id].keys)

SInv == Tracking /\ Shown

(* With a third key, an answer that comes again for the first one finds the    *)
(* search that waits for the third under the same id.                        *)
TwoKeys == \A ks \in KeyList : Len(ks) <= 2

-----------------------------------------------------------------------------
(* A step concerns no search but t ... *)
Elsewhere(t) ==
  /\ \A s : s.tid # t => /\ AtFirst(s) => AtFirst(s)'
                         /\ AtSecond(s) => AtSecond(s)'
                         /\ AtEnd(s) => AtEnd(s)'
  /\ \A q : q.tid # t => (q \in Asked' <=> q \in Asked)
  /\ \A q \in Asked : O!Known(q)' = O!Known(q) /\ O!Owner(q.key)' = O!Owner(q.key)
  /\ \A m \in Packs' : m.data.tid # t => m \in Packs
  /\ \A n \in Node : \A s \in tracker'[n] : s.tid # t => s \in tracker[n]

(* ... and leaves t where a search may be. *)
Here(t) ==
  /\ \A q \in Asked' : q.tid \in DOMAIN log'
  /\ \A m \in Packs' : m.data.tid = t => Carried(m)'
  /\ \A n \in Node : \A s \in tracker'[n] : s.tid = t => Waits(n, s)'
  /\ \A m, o \in Packs' : m.data.tid = t /\ o.data.tid = t => m = o
  /\ \A n, o \in Node : \A s \in tracker'[n], r \in tracker'[o] : s.tid = t /\ r.tid = t => n = o
  /\ \A m \in Packs', n \in Node : \A s \in tracker'[n] : m.data.tid = t => s.tid # t

LEMMA TrackingStep ==
  ASSUME Tracking, NEW t, Elsewhere(t), Here(t)
  PROVE  Tracking'
<1>1. Single'
  <2>1. \A m, o \in Packs' : m.data.tid = o.data.tid => m = o
    BY DEF Tracking, Single, Elsewhere, Here
  <2>2. \A n, o \in Node : \A s \in tracker'[n], r \in tracker'[o] : s.tid = r.tid => n = o
    BY DEF Tracking, Single, Elsewhere, Here
  <2>3. \A m \in Packs', n \in Node : \A s \in tracker'[n] : m.data.tid # s.tid
    BY DEF Tracking, Single, Elsewhere, Here
  <2> QED
    BY <2>1, <2>2, <2>3 DEF Single
<1>2. ASSUME NEW m \in Packs', m.data.tid # t
      PROVE  Carried(m)'
  <2>1. m \in Packs /\ Carried(m)
    BY <1>2 DEF Tracking, Elsewhere
  <2>2. CASE m.type = "SEARCH_INITIAL" /\ AtFirst(m.data) /\ \A q \in Asked : q.tid # m.data.tid
    BY <1>2, <2>2 DEF Carried, Elsewhere
  <2>3. CASE /\ m.type = "SEARCH_BEGIN" /\ AtFirst(m.data)
             /\ \A q \in Asked : q.tid = m.data.tid => q.flag = 1 /\ O!Known(q) /\ m.to = O!Owner(q.key)
    <3>1. \A q \in Asked' : q.tid = m.data.tid => q.flag = 1 /\ O!Known(q)' /\ m.to = O!Owner(q.key)'
      BY <1>2, <2>3 DEF Elsewhere
    <3> QED
      BY <1>2, <2>3, <3>1 DEF Carried, Elsewhere
  <2>4. CASE m.type = "SEARCH" /\ AtSecond(m.data)
    BY <1>2, <2>4 DEF Carried, Elsewhere
  <2>5. CASE m.type = "SEARCH_COMPLETE" /\ AtEnd(m.data) /\ m.to = m.data.node
    BY <1>2, <2>5 DEF Carried, Elsewhere
  <2> QED
    BY <2>1, <2>2, <2>3, <2>4, <2>5 DEF Carried, Elsewhere
<1>3. ASSUME NEW n \in Node, NEW s \in tracker'[n], s.tid # t
      PROVE  Waits(n, s)'
  <2>1. s \in tracker[n] /\ Waits(n, s)
    BY <1>3 DEF Tracking, Elsewhere
  <2>2. /\ LookupOf(n, s, 1).tid = s.tid /\ LookupOf(n, s, 2).tid = s.tid
        /\ LookupOf(n, s, 1)' = LookupOf(n, s, 1) /\ LookupOf(n, s, 2)' = LookupOf(n, s, 2)
    BY DEF LookupOf
  <2>3. CASE /\ AtFirst(s) /\ LookupOf(n, s, 1) \in Asked
             /\ \A q \in Asked : q.tid = s.tid => q = LookupOf(n, s, 1)
    BY <1>3, <2>2, <2>3 DEF Waits, Elsewhere
  <2>4. CASE /\ AtSecond(s) /\ LookupOf(n, s, 2) \in Asked
             /\ \A q \in Asked : q.tid = s.tid /\ q.node = n => q = LookupOf(n, s, 2)
    BY <1>3, <2>2, <2>4 DEF Waits, Elsewhere
  <2> QED
    BY <2>1, <2>3, <2>4 DEF Waits, Elsewhere
<1>4. \A m \in Packs' : Carried(m)'
  BY <1>2 DEF Here
<1>5. \A n \in Node : \A s \in tracker'[n] : Waits(n, s)'
  BY <1>3 DEF Here
<1>6. \A q \in Asked' : q.tid \in DOMAIN log'
  BY DEF Here
<1> QED
  BY <1>1, <1>4, <1>5, <1>6 DEF Tracking

(* Where a search is depends on the log and the results alone. *)
LEMMA StagesKept ==
  ASSUME log' = log, NEW t, \A r \in results' : r \in results \/ r.id = t
  PROVE  \A s : s.tid # t => /\ AtFirst(s) => AtFirst(s)'
                             /\ AtSecond(s) => AtSecond(s)'
                             /\ AtEnd(s) => AtEnd(s)'
<1>1. \A k : I!Indexed(k)' = I!Indexed(k)
  BY IndexedSame
<1>2. \A ks : I!Matches(ks)' = I!Matches(ks)
  BY <1>1 DEF I!Matches
<1>3. \A s : s.tid # t /\ OfLog(s) => OfLog(s)'
  BY DEF OfLog
<1> QED
  BY <1>1, <1>2, <1>3 DEF AtFirst, AtSecond, AtEnd

LEMMA StagesSame ==
  ASSUME log' = log, results' = results
  PROVE  \A s : /\ AtFirst(s) => AtFirst(s)'
                /\ AtSecond(s) => AtSecond(s)'
                /\ AtEnd(s) => AtEnd(s)'
<1>1. \A k : I!Indexed(k)' = I!Indexed(k)
  BY IndexedSame
<1>2. \A ks : I!Matches(ks)' = I!Matches(ks)
  BY <1>1 DEF I!Matches
<1>3. \A s : OfLog(s) => OfLog(s)'
  BY DEF OfLog
<1> QED
  BY <1>1, <1>2, <1>3 DEF AtFirst, AtSecond, AtEnd

(* The carrier of a search that is a packet is the only one. *)
LEMMA PacketAlone ==
  ASSUME Tracking, NEW m \in Packs
  PROVE  /\ \A o \in Packs : o.data.tid = m.data.tid => o = m
         /\ \A n \in Node : \A s \in tracker[n] : s.tid # m.data.tid
  BY DEF Tracking, Single

(* Before a lookup: which stage of the search it belongs to. *)
Ready(n, s, f) ==
  \/ f = 1 /\ AtFirst(s) /\ \A q \in Asked : q.tid # s.tid
  \/ f = 2 /\ AtSecond(s) /\ \A q \in Asked : q.tid = s.tid => q.node # n

(* A search that is looked up is sent on or waits. *)
LEMMA LookupNextTracked ==
  ASSUME IInv, Tracking, NEW m \in Packs, NEW s \in SearchData, s.keys # <<>>, s.tid = m.data.tid,
         NEW f \in {1, 2}, LookupNext(m.to, s, f, net \ {m}), log' = log, results' = results,
         Ready(m.to, s, f)
  PROVE  Tracking'
<1> DEFINE t == s.tid
           n == m.to
           q == LookupOf(n, s, f)
<1>r. /\ f = 1 => AtFirst(s) /\ \A x \in Asked : x.tid # s.tid
      /\ f = 2 => AtSecond(s) /\ \A x \in Asked : x.tid = s.tid => x.node # m.to
  BY DEF Ready
<1>0. PICK p : p = Packet(TypeFor(f), O!Owner(q.key), s)
  OBVIOUS
<1>1. n \in Node /\ \A x \in tracker[n] : x.tid # s.tid
  BY PackFacts, PacketAlone
<1>2. q.tid = t /\ q.node = n /\ q.flag = f /\ p.data = s /\ p.type = TypeFor(f) /\ p.to = O!Owner(q.key)
  BY <1>0, <1>1, LookupOfTyped, PacketFields
<1>3. /\ n \in member /\ member' = member
      /\ Asked' = Asked \cup {q}
      /\ \/ /\ O!Known(q) /\ tracker' = tracker
            /\ Packs' = (Packs \ {m}) \cup {p}
         \/ /\ ~ O!Known(q) /\ tracker' = [tracker EXCEPT ![n] = tracker[n] \cup {s}]
            /\ Packs' = Packs \ {m}
  BY <1>0, <1>1, LookupNextEffect
<1>4. /\ f = 1 => AtFirst(s)' /\ q = LookupOf(n, s, 1)
      /\ f = 2 => AtSecond(s)' /\ q = LookupOf(n, s, 2)
  BY <1>r, StagesSame
<1>5. t \in DOMAIN log /\ \A x \in Asked' : x.tid \in DOMAIN log'
  <2>1. t \in DOMAIN log
    BY <1>r DEF AtFirst, AtSecond, OfLog
  <2> QED
    BY <1>2, <1>3, <2>1 DEF Tracking
<1>6. /\ \A o \in Packs \ {m} : o.data.tid # t
      /\ \A o \in Node : \A x \in tracker[o] : x.tid # t
  BY PacketAlone
<1>7. \A x \in Asked : O!Known(x)' = O!Known(x) /\ O!Owner(x.key)' = O!Owner(x.key)
  BY <1>3, SameMembers
<1>8. O!Known(q)' = O!Known(q) /\ O!Owner(q.key)' = O!Owner(q.key)
  BY <1>3, SameMembers
<1>9. \A x : x.tid # t => /\ AtFirst(x) => AtFirst(x)'
                          /\ AtSecond(x) => AtSecond(x)'
                          /\ AtEnd(x) => AtEnd(x)'
  BY StagesSame
<1>10. tracker \in [Node -> SUBSET SearchData]
  BY DEF IInv, TypeOK
<1> HIDE DEF q, n, t
<1>11. CASE O!Known(q) /\ tracker' = tracker /\ Packs' = (Packs \ {m}) \cup {p}
  <2>1. Elsewhere(t)
    BY <1>2, <1>3, <1>7, <1>9, <1>11 DEF t, Elsewhere
  <2>2. Carried(p)'
    <3>1. CASE f = 1
      <4>1. \A x \in Asked' : x.tid = t => x = q
        BY <1>r, <1>3, <3>1 DEF t
      <4> QED
        BY <1>2, <1>4, <1>8, <1>11, <3>1, <4>1 DEF Carried, TypeFor, t
    <3>2. CASE f = 2
      BY <1>2, <1>4, <3>2 DEF Carried, TypeFor
    <3> QED
      BY <3>1, <3>2
  <2>3. Here(t)
    BY <1>2, <1>5, <1>6, <1>11, <2>2 DEF Here, t
  <2> QED
    BY <2>1, <2>3, TrackingStep
<1>12. CASE tracker' = [tracker EXCEPT ![n] = tracker[n] \cup {s}] /\ Packs' = Packs \ {m}
  <2>1. \A o \in Node : tracker'[o] = IF o = n THEN tracker[n] \cup {s} ELSE tracker[o]
    BY <1>10, <1>12
  <2>2. Elsewhere(t)
    BY <1>2, <1>3, <1>7, <1>9, <1>12, <2>1 DEF t, Elsewhere
  <2>3. Waits(n, s)'
    <3>1. CASE f = 1
      <4>1. \A x \in Asked' : x.tid = s.tid => x = q
        BY <1>r, <1>3, <3>1
      <4> QED
        BY <1>3, <1>4, <3>1, <4>1 DEF Waits
    <3>2. CASE f = 2
      <4>1. \A x \in Asked' : x.tid = s.tid /\ x.node = n => x = q
        BY <1>r, <1>3, <3>2 DEF n
      <4> QED
        BY <1>3, <1>4, <3>2, <4>1 DEF Waits
    <3> QED
      BY <3>1, <3>2
  <2>4. \A o \in Node : \A x \in tracker'[o] : x.tid = t => o = n /\ x = s
    BY <1>6, <2>1
  <2>5. \A o \in Packs' : o.data.tid # t
    BY <1>6, <1>12
  <2>6. Here(t)
    BY <1>5, <2>3, <2>4, <2>5 DEF Here
  <2> QED
    BY <2>2, <2>6, TrackingStep
<1> QED
  BY <1>3, <1>11, <1>12

(* Steps that concern no search. *)
LEMMA QuietTracked ==
  ASSUME IInv, Tracking, Packs' = Packs, tracker' = tracker, Asked' = Asked, log' = log, results' = results,
         member' = member \/ Asked = {}
  PROVE  Tracking'
<1>1. \A m \in Packs : m.data.tid # 0
  BY PackFacts DEF Tid
<1>2. \A n \in Node : \A s \in tracker[n] : s.tid # 0
  BY DEF IInv, TypeOK, SearchData, Tid
<1>3. \A q \in Asked : O!Known(q)' = O!Known(q) /\ O!Owner(q.key)' = O!Owner(q.key)
  BY SameMembers
<1>4. Elsewhere(0)
  BY <1>3, StagesSame DEF Elsewhere
<1>5. Here(0)
  BY <1>1, <1>2 DEF Here, Tracking
<1> QED
  BY <1>4, <1>5, TrackingStep

(* A search that ends is sent home. *)
LEMMA CompleteTracked ==
  ASSUME IInv, Tracking, NEW m \in Packs, NEW s, s.tid = m.data.tid, AtEnd(s),
         NEW p, p = Packet("SEARCH_COMPLETE", s.node, s), Packs' = (Packs \ {m}) \cup {p},
         member' = member, tracker' = tracker, Asked' = Asked, log' = log, results' = results
  PROVE  Tracking'
<1> DEFINE t == s.tid
<1>1. /\ \A o \in Packs \ {m} : o.data.tid # t
      /\ \A n \in Node : \A x \in tracker[n] : x.tid # t
  BY PacketAlone
<1>2. p.data = s /\ p.type = "SEARCH_COMPLETE" /\ p.to = s.node
  BY PacketFields
<1>3. \A q \in Asked : O!Known(q)' = O!Known(q) /\ O!Owner(q.key)' = O!Owner(q.key)
  BY SameMembers
<1> HIDE DEF t
<1>4. Elsewhere(t)
  BY <1>2, <1>3, StagesSame DEF Elsewhere, t
<1>5. Carried(p)'
  BY <1>2, StagesSame DEF Carried
<1>6. Here(t)
  BY <1>1, <1>2, <1>5 DEF Here, Tracking
<1> QED
  BY <1>4, <1>6, TrackingStep

(* A search packet that is dropped or shown was the only carrier of its search. *)
LEMMA DroppedTracked ==
  ASSUME IInv, Tracking, NEW m \in Packs, Packs' = Packs \ {m},
         \A r \in results' : r \in results \/ r.id = m.data.tid,
         member' = member, tracker' = tracker, Asked' = Asked, log' = log
  PROVE  Tracking'
<1> DEFINE t == m.data.tid
<1>1. /\ \A o \in Packs' : o.data.tid # t
      /\ \A n \in Node : \A x \in tracker[n] : x.tid # t
  BY PacketAlone
<1>3. \A q \in Asked : O!Known(q)' = O!Known(q) /\ O!Owner(q.key)' = O!Owner(q.key)
  BY SameMembers
<1>4. \A s : s.tid # t => /\ AtFirst(s) => AtFirst(s)'
                          /\ AtSecond(s) => AtSecond(s)'
                          /\ AtEnd(s) => AtEnd(s)'
  BY StagesKept
<1> HIDE DEF t
<1>5. Elsewhere(t)
  BY <1>3, <1>4 DEF Elsewhere
<1>6. Here(t)
  BY <1>1 DEF Here, Tracking
<1> QED
  BY <1>5, <1>6, TrackingStep

LEMMA LogKeys ==
  ASSUME IInv, NEW i \in DOMAIN log, log[i].type = "SEARCH"
  PROVE  /\ log[i] \in I!SearchCommand
         /\ log[i].keys \in KeyList /\ log[i].keys \in Seq(Key) /\ log[i].keys # <<>>
         /\ Len(log[i].keys) \in Nat \ {0} /\ Head(log[i].keys) = log[i].keys[1] /\ log[i].keys[1] \in Key
<1>1. log[i] \in I!PublishCommand \cup I!SearchCommand
  <2>1. log \in Seq(I!PublishCommand \cup I!SearchCommand)
    BY DEF IInv, TypeOK
  <2> QED
    BY <2>1, ElementOfSeq, LenProperties
<1>2. log[i] \in I!SearchCommand
  BY <1>1 DEF I!PublishCommand
<1>3. log[i].keys \in KeyList
  BY <1>2 DEF I!SearchCommand
<1>4. log[i].keys \in Seq(Key) /\ log[i].keys # <<>>
  BY <1>3, KeyListAssumption
<1>5. Len(log[i].keys) \in Nat \ {0}
  BY <1>4, LenProperties, EmptySeq
<1>6. Head(log[i].keys) = log[i].keys[1]
  BY <1>4, HeadTailProperties
<1> QED
  BY <1>2, <1>3, <1>4, <1>5, <1>6, ElementOfSeq

LEMMA StoredIndexed ==
  ASSUME PInv, NEW n \in Node, NEW k \in Key
  PROVE  /\ data[n][k] \subseteq I!Indexed(k) /\ data[n][k] \in List
         /\ data[n][k] # {} => Cardinality(member) > 1
<1>1. data[n][k] \subseteq Whereabouts(k)
  BY DEF Whereabouts
<1> QED
  BY <1>1 DEF PInv, NothingLost, Placed, IInv, TypeOK

(* A member that knows an answer by itself is not the answer. *)
LEMMA KnownElsewhere ==
  ASSUME PInv, Cardinality(member) > 1, NEW q \in pending, O!Known(q)
  PROVE  O!Owner(q.key) # q.node
<1> DEFINE p == q.node
           k == q.key
           n == O!FirstFrom(Digest[p], member \ {p})
           o == O!FirstFrom(k, member \ {p})
<1>1. p \in member /\ member \subseteq Node /\ k \in Key
  BY DEF PInv, IInv, Orderly, TypeOK, Query
<1>2. member \ {p} # {}
  <2>1. SUFFICES ASSUME member = {p} PROVE FALSE
    BY <1>1
  <2> HIDE DEF p
  <2>2. Cardinality({p}) = 1
    BY FS_Singleton
  <2> QED
    BY <2>1, <2>2
<1>3. O!NextOf(p) = n
  BY <1>2 DEF O!NextOf
<1>4. InArc(Digest[p], k, Digest[n])
  BY <1>3 DEF O!Known, O!InArc, O!Geq, InArc, Geq
<1>5. O!Owner(k) = o
  BY <1>1, <1>2, <1>4, OwnerMoves DEF O!Owner
<1>6. o \in member \ {p}
  BY <1>1, <1>2, FirstExists, KeysAreIds
<1> QED
  BY <1>5, <1>6

LEMMA ShortKeys ==
  ASSUME NEW ks \in Seq(Key), ks # <<>>
  PROVE  /\ Tail(ks) \in Seq(Key)
         /\ Tail(ks) = <<>> => DOMAIN ks = {1}
         /\ Tail(ks) # <<>> /\ Len(ks) <= 2 => Len(ks) = 2
         /\ Len(ks) = 2 => /\ Head(Tail(ks)) = ks[2] /\ ks[2] \in Key
                           /\ Tail(Tail(ks)) = <<>> /\ DOMAIN ks = {1, 2}
<1>0. PICK ts : ts = Tail(ks)
  OBVIOUS
<1>1. /\ ts \in Seq(Key) /\ Len(ts) = Len(ks) - 1
      /\ \A i \in 1 .. Len(ts) : ts[i] = ks[i + 1]
  BY <1>0, HeadTailProperties
<1>2. Len(ks) \in Nat \ {0} /\ DOMAIN ks = 1 .. Len(ks)
  BY LenProperties, EmptySeq
<1>3. ts = <<>> <=> Len(ts) = 0
  <2>1. Len(<<>>) = 0
    BY EmptySeq, Zenon
  <2>2. ts # <<>> => Len(ts) \in Nat \ {0}
    BY <1>1, EmptySeq
  <2>3. ts = <<>> => Len(ts) = Len(<<>>)
    BY Zenon
  <2> QED
    BY <2>1, <2>2, <2>3
<1>4. ts = <<>> => DOMAIN ks = {1}
  BY <1>1, <1>2, <1>3
<1>5. ts # <<>> /\ Len(ks) <= 2 => Len(ks) = 2
  BY <1>1, <1>2, <1>3
<1>6. ASSUME Len(ks) = 2
      PROVE  Head(ts) = ks[2] /\ ks[2] \in Key /\ Tail(ts) = <<>> /\ DOMAIN ks = {1, 2}
  <2>1. DOMAIN ks = {1, 2}
    BY <1>2, <1>6
  <2>2. Len(ts) = 1 /\ ts # <<>>
    BY <1>1, <1>3, <1>6
  <2>3. ts[1] = ks[2]
    <3>1. 1 \in 1 .. Len(ts)
      BY <2>2
    <3>2. ts[1] = ks[1 + 1]
      BY <1>1, <3>1
    <3> QED
      BY <3>2
  <2>4. Head(ts) = ts[1]
    BY <1>1, <2>2
  <2>5. Tail(ts) \in Seq(Key) /\ Len(Tail(ts)) = 0
    BY <1>1, <2>2, HeadTailProperties
  <2>6. Tail(ts) = <<>>
    BY <2>5, EmptySeq
  <2>7. ks[2] \in Key
    BY <1>6, ElementOfSeq
  <2> QED
    BY <2>1, <2>3, <2>4, <2>6, <2>7
<1> QED
  BY <1>0, <1>1, <1>4, <1>5, <1>6

LEMMA InitialTracked ==
  ASSUME PInv, Tracking, NEW m \in Packs, ProcessSearchInitial(m)
  PROVE  Tracking'
<1>1. m.data \in SearchData /\ m.data.keys # <<>> /\ m.type = "SEARCH_INITIAL"
  BY PackFacts DEF PInv, ProcessSearchInitial
<1>2. AtFirst(m.data) /\ \A q \in Asked : q.tid # m.data.tid
  BY <1>1 DEF Tracking, Carried
<1>3. LookupNext(m.to, m.data, 1, net \ {m}) /\ log' = log /\ results' = results
  BY DEF ProcessSearchInitial
<1>4. Ready(m.to, m.data, 1) /\ IInv
  BY <1>2 DEF Ready, PInv
<1> QED
  BY <1>1, <1>3, <1>4, LookupNextTracked

(* The search s takes the place of the packet m: it ends ... *)
Ends(m, s) ==
  /\ s.tid = m.data.tid /\ AtEnd(s)
  /\ member' = member /\ Asked' = Asked /\ tracker' = tracker
  /\ Packs' = (Packs \ {m}) \cup {Packet("SEARCH_COMPLETE", s.node, s)}

(* ... or goes on to its second key. *)
GoesOn(m, s) ==
  /\ s.tid = m.data.tid /\ s \in SearchData /\ s.keys # <<>>
  /\ LookupNext(m.to, s, 2, net \ {m})
  /\ Ready(m.to, s, 2)

LEMMA BeginStep ==
  ASSUME PInv, TwoKeys, Tracking, NEW m \in Packs, ProcessSearchBegin(m)
  PROVE  LET ks == log[m.data.tid].keys
         IN  /\ ks[1] \in Key /\ Head(m.data.keys) = ks[1] /\ 1 \in DOMAIN ks
             /\ \E s : /\ s.docs = data[m.to][ks[1]]
                       /\ \/ Ends(m, s) /\ (s.docs = {} \/ DOMAIN ks = {1})
                          \/ GoesOn(m, s) /\ s.docs # {}
<1> DEFINE ks == log[m.data.tid].keys
           docs == data[m.to][Head(m.data.keys)]
           t == m.data.tid
<1>1. /\ m \in net /\ m.to \in Node /\ m.data \in SearchData /\ m.type = "SEARCH_BEGIN"
  BY PackFacts DEF PInv, ProcessSearchBegin
<1>2. /\ OfLog(m.data) /\ m.data.keys = ks
      /\ \A q \in Asked : q.tid = t => q.flag = 1 /\ O!Known(q) /\ m.to = O!Owner(q.key)
  BY <1>1 DEF Tracking, Carried, AtFirst
<1>3. /\ ks \in KeyList /\ ks \in Seq(Key) /\ ks # <<>> /\ Head(ks) = ks[1] /\ ks[1] \in Key
      /\ Len(ks) \in Nat \ {0}
  BY <1>2, LogKeys DEF OfLog, PInv
<1>4. /\ docs \subseteq I!Indexed(ks[1]) /\ docs \in List
      /\ docs # {} => Cardinality(member) > 1
  BY <1>1, <1>2, <1>3, StoredIndexed
<1>5. CompleteOrGoOn(m, docs) /\ log' = log /\ results' = results
  BY DEF ProcessSearchBegin
<1> HIDE DEF docs
<1>6. PICK s : s = [m.data EXCEPT !.keys = Tail(@), !.docs = docs]
  OBVIOUS
<1>7. /\ s \in SearchData /\ s.tid = t /\ s.node = m.data.node /\ s.keys = Tail(ks) /\ s.docs = docs
      /\ Tail(ks) \in Seq(Key)
  <2>1. Tail(ks) \in Seq(Key)
    BY <1>3, ShortKeys
  <2> HIDE DEF ks
  <2>2. m.data \in [tid : Tid, node : Node, keys : Seq(Key), docs : List]
    BY <1>1 DEF SearchData
  <2>3. s.tid = t /\ s.node = m.data.node /\ s.keys = Tail(ks) /\ s.docs = docs
    BY <1>2, <1>6, <2>2
  <2>4. s \in [tid : Tid, node : Node, keys : Seq(Key), docs : List]
    <3>1. Tail(m.data.keys) \in Seq(Key)
      BY <1>2, <2>1
    <3> QED
      BY <1>4, <1>6, <2>2, <3>1
  <2> QED
    BY <2>1, <2>3, <2>4 DEF SearchData
<1>8. OfLog(s) /\ log[s.tid].keys = ks
  BY <1>2, <1>7 DEF OfLog
<1>11. /\ ks[1] \in Key /\ Head(m.data.keys) = ks[1] /\ 1 \in DOMAIN ks
       /\ docs = data[m.to][ks[1]]
  BY <1>2, <1>3, LenProperties DEF docs
<1> HIDE DEF ks, t
<1>9. CASE docs = {} \/ s.keys = <<>>
  <2>1. AtEnd(s)
    <3>1. CASE docs = {}
      BY <1>7, <1>8, <3>1 DEF AtEnd
    <3>2. CASE Tail(ks) = <<>>
      <4>1. DOMAIN ks = {1}
        BY <1>3, <3>2, ShortKeys
      <4>2. docs \subseteq Doc /\ docs \subseteq I!Indexed(ks[1])
        BY <1>4 DEF List
      <4>3. docs \subseteq I!Matches(ks)
        BY <4>1, <4>2 DEF I!Matches
      <4> QED
        BY <1>7, <1>8, <4>3 DEF AtEnd
    <3> QED
      BY <1>7, <1>9, <3>1, <3>2
  <2>2. /\ member' = member /\ Asked' = Asked /\ tracker' = tracker
        /\ Packs' = (Packs \ {m}) \cup {Packet("SEARCH_COMPLETE", s.node, s)}
    BY <1>5, <1>6, <1>9, CompleteEffect
  <2>3. Ends(m, s)
    BY <1>7, <2>1, <2>2 DEF Ends, t
  <2>4. docs = {} \/ DOMAIN ks = {1}
    BY <1>3, <1>7, <1>9, ShortKeys
  <2> QED
    BY <1>7, <1>11, <2>3, <2>4 DEF ks
<1>10. CASE ~ (docs = {} \/ s.keys = <<>>)
  <2>1. LookupNext(m.to, s, 2, net \ {m})
    BY <1>5, <1>6, <1>10, GoOnEffect
  <2>2. AtSecond(s)
    <3>1. Len(ks) = 2
      BY <1>3, <1>7, <1>10, ShortKeys DEF TwoKeys
    <3> QED
      BY <1>4, <1>7, <1>8, <3>1 DEF AtSecond
  <2>3. ASSUME NEW q \in Asked, q.tid = s.tid
        PROVE  q.node # m.to
    <3>1. q \in pending /\ O!Known(q) /\ m.to = O!Owner(q.key) /\ Cardinality(member) > 1
      BY <1>2, <1>4, <1>7, <1>10, <2>3 DEF Asked
    <3> QED
      BY <3>1, KnownElsewhere
  <2>4. GoesOn(m, s)
    BY <1>7, <1>10, <2>1, <2>2, <2>3 DEF t, Ready, GoesOn
  <2> QED
    BY <1>7, <1>10, <1>11, <2>4 DEF ks
<1> QED
  BY <1>9, <1>10 DEF ks

LEMMA EndsTracked ==
  ASSUME IInv, Tracking, NEW m \in Packs, NEW s, Ends(m, s), log' = log, results' = results
  PROVE  Tracking'
<1>1. PICK p : p = Packet("SEARCH_COMPLETE", s.node, s)
  OBVIOUS
<1> QED
  BY <1>1, CompleteTracked DEF Ends

LEMMA BeginTracked ==
  ASSUME PInv, TwoKeys, Tracking, NEW m \in Packs, ProcessSearchBegin(m)
  PROVE  Tracking'
<1>1. PICK s : Ends(m, s) \/ GoesOn(m, s)
  BY BeginStep
<1>2. IInv /\ log' = log /\ results' = results
  BY DEF PInv, ProcessSearchBegin
<1>3. CASE Ends(m, s)
  BY <1>2, <1>3, EndsTracked
<1>4. CASE GoesOn(m, s)
  BY <1>2, <1>4, LookupNextTracked DEF GoesOn
<1> QED
  BY <1>1, <1>3, <1>4

LEMMA SearchStep ==
  ASSUME PInv, TwoKeys, Tracking, NEW m \in Packs, ProcessSearch(m)
  PROVE  LET ks == log[m.data.tid].keys
         IN  /\ ks[2] \in Key /\ Head(m.data.keys) = ks[2] /\ DOMAIN ks = {1, 2}
             /\ \/ /\ data[m.to][ks[2]] = {}
                   /\ Packs' = Packs \ {m} /\ tracker' = tracker /\ Asked' = Asked /\ member' = member
                \/ /\ faulted' = faulted
                   /\ \E s : /\ Ends(m, s)
                             /\ s.docs = data[m.to][ks[2]] \cap m.data.docs
<1> DEFINE ks == log[m.data.tid].keys
           stored == data[m.to][Head(m.data.keys)]
           docs == FindIntersection(stored, m.data.docs)
           t == m.data.tid
<1>1. /\ m \in net /\ m.to \in Node /\ m.data \in SearchData /\ m.type = "SEARCH" /\ m.data.docs \in List
  BY PackFacts DEF PInv, ProcessSearch
<1>2. /\ OfLog(m.data) /\ m.data.keys = Tail(ks) /\ Len(ks) = 2 /\ m.data.docs \subseteq I!Indexed(ks[1])
  BY <1>1 DEF Tracking, Carried, AtSecond
<1>3. ks \in Seq(Key) /\ ks # <<>>
  BY <1>2, LogKeys DEF OfLog, PInv
<1>4. Head(Tail(ks)) = ks[2] /\ ks[2] \in Key /\ Tail(Tail(ks)) = <<>> /\ DOMAIN ks = {1, 2}
  <2> HIDE DEF ks
  <2> QED
    BY <1>2, <1>3, ShortKeys
<1>5. stored \subseteq I!Indexed(ks[2]) /\ stored \in List
  BY <1>1, <1>2, <1>4, StoredIndexed
<1>6. log' = log /\ results' = results
  BY DEF ProcessSearch
<1>7. CASE net' = net \ {m} /\ O!Silent /\ UNCHANGED tracker /\ stored = {}
  <2>1. Packs' = Packs \ {m} /\ Asked' = Asked /\ member' = member
    BY <1>7 DEF Packs, Asked, O!Silent
  <2> QED
    BY <1>2, <1>4, <1>7, <2>1
<1>8. CASE CompleteOrGoOn(m, docs) /\ UNCHANGED faulted
  <2>1. docs \subseteq I!Indexed(ks[1]) /\ docs \subseteq I!Indexed(ks[2]) /\ docs \subseteq Doc
    BY <1>2, <1>5 DEF FindIntersection, List
  <2>2. docs \subseteq I!Matches(ks)
    BY <1>4, <2>1 DEF I!Matches
  <2>3. docs = data[m.to][ks[2]] \cap m.data.docs
    BY <1>2, <1>4 DEF FindIntersection
  <2> HIDE DEF docs
  <2>4. PICK s : s = [m.data EXCEPT !.keys = Tail(@), !.docs = docs]
    OBVIOUS
  <2>5. s.tid = t /\ s.node = m.data.node /\ s.keys = <<>> /\ s.docs = docs
    <3> HIDE DEF ks
    <3> QED
      BY <1>1, <1>2, <1>4, <2>4 DEF SearchData
  <2>6. AtEnd(s)
    BY <1>2, <2>2, <2>5 DEF AtEnd, OfLog
  <2>7. /\ member' = member /\ Asked' = Asked /\ tracker' = tracker
        /\ Packs' = (Packs \ {m}) \cup {Packet("SEARCH_COMPLETE", s.node, s)}
    BY <1>8, <2>4, <2>5, CompleteEffect
  <2>8. Ends(m, s)
    BY <2>5, <2>6, <2>7 DEF Ends
  <2> QED
    BY <1>2, <1>4, <1>8, <2>3, <2>5, <2>8
<1> QED
  BY <1>7, <1>8 DEF ProcessSearch

LEMMA SearchTracked ==
  ASSUME PInv, TwoKeys, Tracking, NEW m \in Packs, ProcessSearch(m)
  PROVE  Tracking'
<1>1. IInv /\ log' = log /\ results' = results
  BY DEF PInv, ProcessSearch
<1>2. CASE Packs' = Packs \ {m} /\ tracker' = tracker /\ Asked' = Asked /\ member' = member
  BY <1>1, <1>2, DroppedTracked
<1>3. CASE \E s : Ends(m, s)
  BY <1>1, <1>3, EndsTracked
<1> QED
  BY <1>2, <1>3, SearchStep

(* The answer to the lookup of a search sends it on; one that comes twice does *)
(* not find it any more.                                                    *)
LEMMA LookupSuccessTracked ==
  ASSUME IInv, Tracking, NEW q \in Asked, LookupSuccess(q)
  PROVE  Tracking'
<1> DEFINE t == q.tid
           n == q.node
           F == {s \in tracker[q.node] : s.tid = q.tid}
<1>1. /\ member' = member /\ Asked' = Asked \ {q} /\ n \in Node
      /\ q.flag \in {1, 2} /\ q.key \in Key
      /\ tracker' = [tracker EXCEPT ![n] = tracker[n] \ F]
      /\ Packs' = Packs \cup {Packet(TypeFor(q.flag), O!Owner(q.key), s) : s \in F}
  BY LookupSuccessEffect
<1>2. tracker \in [Node -> SUBSET SearchData] /\ \A x, y \in tracker[n] : x.tid = y.tid => x = y
  BY <1>1 DEF IInv, TypeOK
<1>3. log' = log /\ results' = results
  BY DEF LookupSuccess
<1>4. \A o \in Node : tracker'[o] = IF o = n THEN tracker[n] \ F ELSE tracker[o]
  BY <1>1, <1>2
<1>5. \A x \in Asked : O!Known(x)' = O!Known(x) /\ O!Owner(x.key)' = O!Owner(x.key)
  BY <1>1, SameMembers
<1>6. \A s \in F : s \in tracker[n] /\ s.tid = t
  OBVIOUS
<1>7. \A s \in tracker[n] \ F : s.tid # t
  OBVIOUS
<1>8. \A m \in Packs' : m \in Packs \/ m.data.tid = t
  BY <1>1, <1>6, PacketFields
<1>9. \A x : x.tid # t => /\ AtFirst(x) => AtFirst(x)'
                          /\ AtSecond(x) => AtSecond(x)'
                          /\ AtEnd(x) => AtEnd(x)'
  BY <1>3, StagesSame
<1>10. \A x \in Asked' : x.tid \in DOMAIN log'
  BY <1>1, <1>3 DEF Tracking
<1> HIDE DEF t, n, F
<1>11. Elsewhere(t)
  <2>1. \A x : x.tid # t => (x \in Asked' <=> x \in Asked)
    BY <1>1 DEF t
  <2>2. \A o \in Node : \A s \in tracker'[o] : s \in tracker[o]
    BY <1>4
  <2> QED
    BY <1>5, <1>8, <1>9, <2>1, <2>2 DEF Elsewhere
<1>12. Here(t)
  <2>1. CASE F = {}
    <3>1. Packs' = Packs /\ tracker' = tracker
      BY <1>1, <1>2, <2>1
    <3>2. ASSUME NEW m \in Packs, m.data.tid = t
          PROVE  Carried(m)'
      <4>1. Carried(m)
        BY DEF Tracking
      <4>2. \A s : AtFirst(s) => AtFirst(s)'
        BY <1>3, StagesSame
      <4>3. \A s : AtSecond(s) => AtSecond(s)'
        BY <1>3, StagesSame
      <4>4. \A s : AtEnd(s) => AtEnd(s)'
        BY <1>3, StagesSame
      <4> QED
        BY <1>1, <1>5, <4>1, <4>2, <4>3, <4>4 DEF Carried
    <3>3. ASSUME NEW o \in Node, NEW s \in tracker[o], s.tid = t
          PROVE  Waits(o, s)'
      <4>1. o # n
        BY <2>1, <3>3 DEF F, n, t
      <4>2. Waits(o, s) /\ LookupOf(o, s, 1).node = o /\ LookupOf(o, s, 2).node = o
        BY DEF Tracking, LookupOf
      <4>3. LookupOf(o, s, 1) # q /\ LookupOf(o, s, 2) # q
        BY <4>1, <4>2 DEF n
      <4>4. AtFirst(s) => AtFirst(s)'
        BY <1>3, StagesSame
      <4>5. AtSecond(s) => AtSecond(s)'
        BY <1>3, StagesSame
      <4>6. LookupOf(o, s, 1)' = LookupOf(o, s, 1) /\ LookupOf(o, s, 2)' = LookupOf(o, s, 2)
        BY DEF LookupOf
      <4> QED
        BY <1>1, <4>2, <4>3, <4>4, <4>5, <4>6 DEF Waits
    <3> QED
      BY <1>10, <3>1, <3>2, <3>3 DEF Here, Tracking, Single
  <2>2. CASE F # {}
    <3>1. PICK s \in F : TRUE
      BY <2>2
    <3>2. F = {s} /\ s \in tracker[n] /\ s.tid = t
      BY <1>2, <1>6, <3>1
    <3>3. PICK p : p = Packet(TypeFor(q.flag), O!Owner(q.key), s)
      OBVIOUS
    <3>4. p.data = s /\ p.type = TypeFor(q.flag) /\ p.to = O!Owner(q.key)
      BY <3>3, PacketFields
    <3>5. Packs' = Packs \cup {p}
      BY <1>1, <3>2, <3>3
    <3>6. \A m \in Packs : m.data.tid # t
      BY <1>1, <3>2 DEF Tracking, Single
    <3>7. \A o \in Node : \A x \in tracker'[o] : x.tid # t
      BY <1>1, <1>4, <1>7, <3>2 DEF Tracking, Single
    <3>8. Waits(n, s)
      BY <1>1, <3>2 DEF Tracking
    <3>9. Carried(p)'
      <4>1. CASE AtFirst(s) /\ \A x \in Asked : x.tid = s.tid => x = LookupOf(n, s, 1)
        <5>1. q = LookupOf(n, s, 1) /\ q.flag = 1
          BY <3>2, <4>1 DEF t, LookupOf
        <5>2. \A x \in Asked' : x.tid # t
          BY <1>1, <3>2, <4>1, <5>1
        <5>3. AtFirst(s)'
          BY <1>3, <4>1, StagesSame
        <5> QED
          BY <3>2, <3>4, <5>1, <5>2, <5>3 DEF Carried, TypeFor
      <4>2. CASE AtSecond(s) /\ \A x \in Asked : x.tid = s.tid /\ x.node = n => x = LookupOf(n, s, 2)
        <5>1. q = LookupOf(n, s, 2) /\ q.flag = 2
          BY <3>2, <4>2 DEF t, n, LookupOf
        <5>2. AtSecond(s)'
          BY <1>3, <4>2, StagesSame
        <5> QED
          BY <3>4, <5>1, <5>2 DEF Carried, TypeFor
      <4> QED
        BY <3>8, <4>1, <4>2 DEF Waits
    <3> QED
      BY <1>10, <3>4, <3>5, <3>6, <3>7, <3>9 DEF Here
  <2> QED
    BY <2>1, <2>2
<1> QED
  BY <1>11, <1>12, TrackingStep

(* Commands only add to what searches match. *)
LEMMA LogGrows ==
  ASSUME IInv, NEW c \in I!PublishCommand \cup I!SearchCommand, log' = Append(log, c), results' = results
  PROVE  /\ Len(log) \in Nat /\ DOMAIN log = 1 .. Len(log)
         /\ DOMAIN log' = 1 .. (Len(log) + 1) /\ log'[Len(log) + 1] = c
         /\ \A i \in DOMAIN log : i \in DOMAIN log' /\ log'[i] = log[i]
         /\ \A s : /\ AtFirst(s) => AtFirst(s)'
                   /\ AtSecond(s) => AtSecond(s)'
                   /\ AtEnd(s) => AtEnd(s)'
         /\ Shown => Shown'
<1>1. /\ Len(log) \in Nat /\ DOMAIN log = 1 .. Len(log)
      /\ DOMAIN log' = 1 .. (Len(log) + 1) /\ log'[Len(log) + 1] = c
      /\ \A i \in DOMAIN log : log'[i] = log[i]
  <2>1. log \in Seq(I!PublishCommand \cup I!SearchCommand)
    BY DEF IInv, TypeOK
  <2> QED
    BY <2>1, AppendProperties, LenProperties
<1>2. \A i \in DOMAIN log : i \in DOMAIN log'
  BY <1>1
<1>3. \A k \in Key : I!Indexed(k) \subseteq I!Indexed(k)'
  BY IndexedGiven
<1>4. ASSUME NEW i \in DOMAIN log, log[i].type = "SEARCH"
      PROVE  I!Matches(log[i].keys) \subseteq I!Matches(log[i].keys)'
  <2> DEFINE ks == log[i].keys
  <2>1. \A j \in DOMAIN ks : ks[j] \in Key
    <3>1. ks \in Seq(Key)
      BY <1>4, LogKeys
    <3> HIDE DEF ks
    <3> QED
      BY <3>1, LenProperties, ElementOfSeq
  <2>2. log'[i].keys = ks
    BY <1>1
  <2>3. PICK ls : ls = ks
    OBVIOUS
  <2>4. I!Matches(ls) \subseteq I!Matches(ls)'
    BY <1>3, <2>1, <2>3 DEF I!Matches
  <2> QED
    BY <2>2, <2>3, <2>4
<1>5. ASSUME NEW s, OfLog(s)
      PROVE  OfLog(s)' /\ log'[s.tid] = log[s.tid]
  BY <1>1, <1>2, <1>5 DEF OfLog
<1>6. ASSUME NEW s
      PROVE  /\ AtFirst(s) => AtFirst(s)'
             /\ AtSecond(s) => AtSecond(s)'
             /\ AtEnd(s) => AtEnd(s)'
  <2>1. AtFirst(s) => AtFirst(s)'
    BY <1>5 DEF AtFirst
  <2>2. ASSUME AtSecond(s)
        PROVE  AtSecond(s)'
    <3>1. OfLog(s) /\ s.tid \in DOMAIN log /\ log[s.tid].type = "SEARCH" /\ log'[s.tid] = log[s.tid]
      BY <1>5, <2>2 DEF AtSecond, OfLog
    <3>2. PICK k : k = log[s.tid].keys[1]
      OBVIOUS
    <3>3. k \in Key /\ s.docs \subseteq I!Indexed(k)
      BY <2>2, <3>1, <3>2, LogKeys DEF AtSecond
    <3>4. s.docs \subseteq I!Indexed(log[s.tid].keys[1])'
      BY <1>3, <3>1, <3>2, <3>3
    <3> QED
      BY <1>5, <2>2, <3>1, <3>4 DEF AtSecond
  <2>3. ASSUME AtEnd(s)
        PROVE  AtEnd(s)'
    <3>1. s.tid \in DOMAIN log /\ log[s.tid].type = "SEARCH"
      BY <2>3 DEF AtEnd, OfLog
    <3>2. s.docs \subseteq I!Matches(log[s.tid].keys)'
      BY <1>4, <2>3, <3>1 DEF AtEnd
    <3> QED
      BY <1>5, <2>3, <3>2 DEF AtEnd
  <2> QED
    BY <2>1, <2>2, <2>3
<1>7. ASSUME Shown
      PROVE  Shown'
  <2> SUFFICES ASSUME NEW r \in results
               PROVE  /\ r.id \in DOMAIN log' /\ log'[r.id].type = "SEARCH"
                      /\ r.docs \subseteq I!Matches(log[r.id].keys)'
    BY DEF Shown
  <2>1. r.id \in DOMAIN log /\ log[r.id].type = "SEARCH" /\ r.docs \subseteq I!Matches(log[r.id].keys)
    BY <1>7 DEF Shown
  <2>2. r.docs \subseteq I!Matches(log[r.id].keys)'
    BY <1>4, <2>1
  <2> QED
    BY <1>1, <1>2, <2>1, <2>2
<1> QED
  BY <1>1, <1>2, <1>6, <1>7

LEMMA ShownSame ==
  ASSUME Shown, log' = log, results' = results
  PROVE  Shown'
<1>1. \A k : I!Indexed(k)' = I!Indexed(k)
  BY IndexedSame
<1>2. \A ks : I!Matches(ks)' = I!Matches(ks)
  BY <1>1 DEF I!Matches
<1> QED
  BY <1>2 DEF Shown

(* An empty tracker sends nothing. *)
LEMMA NobodySends ==
  ASSUME NEW U
  PROVE  Found({}, U) = {} /\ SendSearch({}, U) = {}
<1>1. \A V : Found({}, V) = {}
  BY DEF Found
<1>2. ASSUME NEW p \in SendSearch({}, U)
      PROVE  FALSE
  <2>1. PICK u \in SearchAnswers(U) : p \in {Packet(SearchType(u), u.addr, s) : s \in Found({}, {u})}
    BY DEF SendSearch
  <2>2. PICK s \in Found({}, {u}) : TRUE
    BY <2>1
  <2> QED
    BY <1>1, <2>2
<1> QED
  BY <1>1, <1>2

LEMMA ListsSent ==
  ASSUME NEW inv, NEW U
  PROVE  \A m \in SendInvertList(inv, U) : m.type \notin SearchTypes
  BY DEF SendInvertList, Shipment, SearchTypes

(* Lists are published when no search is on its way. *)
LEMMA PublishTracked ==
  ASSUME PInv, SInv, NEW n \in Node, NEW f \in File, Publish(n, f), Settled
  PROVE  SInv'
<1> DEFINE c == [type |-> "PUBLISH", node |-> n, file |-> f]
           Q == {[node |-> n, key |-> k, flag |-> 0, tid |-> Len(log) + 1] :
                   k \in {j \in Key : f[j] # {}}}
<1>1. /\ log' = Append(log, c) /\ results' = results
      /\ IF Q = {} THEN O!Silent ELSE O!Lookup(n, Q)
      /\ Callbacks(n, f, tracker[n], net)
  BY DEF Publish, Give
<1>2. Packs = {} /\ Asked = {} /\ net = {}
  BY DEF Settled, Packs, Asked
<1>3. \A o \in Node : tracker[o] = {}
  BY <1>2 DEF SInv, Tracking, Waits
<1>4. Asked' = {}
  <2>1. pending' \subseteq pending \cup Q
    BY <1>1 DEF O!Silent, O!Lookup
  <2>2. \A q \in Q : q.flag = 0
    OBVIOUS
  <2> QED
    BY <2>1, <2>2 DEF Settled, Asked
<1>5. /\ tracker' = [tracker EXCEPT ![n] = {} \ Found({}, upcall')]
      /\ net' = SendInvertList(f, upcall') \cup SendSearch({}, upcall')
  BY <1>1, <1>2, <1>3 DEF Callbacks
<1>6. Packs' = {}
  BY <1>5, NobodySends, ListsSent DEF Packs
<1>7. \A o \in Node : tracker'[o] = {}
  <2>1. tracker \in [Node -> SUBSET SearchData]
    BY DEF PInv, IInv, TypeOK
  <2> QED
    BY <1>3, <1>5, <2>1
<1>8. Shown'
  <2>1. c \in I!PublishCommand \cup I!SearchCommand
    BY DEF I!PublishCommand
  <2> HIDE DEF c
  <2> QED
    BY <1>1, <2>1, LogGrows DEF SInv, PInv
<1>9. Tracking'
  BY <1>4, <1>6, <1>7 DEF Tracking, Single
<1> QED
  BY <1>8, <1>9 DEF SInv

(* A new search has a transaction id that nothing refers to yet. *)
LEMMA GivenTracked ==
  ASSUME PInv, SInv, NEW n \in Node, NEW via \in Node, NEW ks \in KeyList, Search(n, via, ks)
  PROVE  SInv'
<1> DEFINE c == [type |-> "SEARCH", node |-> n, keys |-> ks]
           t == Len(log) + 1
<1>0. PICK s : s = [tid |-> t, node |-> n, keys |-> ks, docs |-> {}]
  OBVIOUS
<1>1. PICK p : p = Packet("SEARCH_INITIAL", via, s)
  OBVIOUS
<1>2. /\ log' = Append(log, c) /\ results' = results /\ net' = net \cup {p}
      /\ O!Silent /\ tracker' = tracker
  BY <1>0, <1>1 DEF Search, Give, local
<1>3. p.type = "SEARCH_INITIAL" /\ p.data = s /\ p.to = via /\ s.tid = t /\ s.node = n /\ s.keys = ks
  BY <1>0, <1>1, PacketFields
<1>4. Packs' = Packs \cup {p} /\ Asked' = Asked /\ member' = member
  BY <1>2, <1>3 DEF Packs, Asked, O!Silent, SearchTypes
<1>5. c \in I!PublishCommand \cup I!SearchCommand /\ c.type = "SEARCH" /\ c.node = n /\ c.keys = ks
  BY DEF I!SearchCommand
<1> HIDE DEF c
<1>6. /\ Len(log) \in Nat /\ DOMAIN log = 1 .. Len(log)
      /\ DOMAIN log' = 1 .. t /\ log'[t] = c
      /\ \A i \in DOMAIN log : i \in DOMAIN log' /\ log'[i] = log[i]
      /\ \A x : /\ AtFirst(x) => AtFirst(x)'
                /\ AtSecond(x) => AtSecond(x)'
                /\ AtEnd(x) => AtEnd(x)'
      /\ Shown'
  BY <1>2, <1>5, LogGrows DEF SInv, PInv
<1>7. t \notin DOMAIN log /\ t \in DOMAIN log'
  BY <1>6
<1> HIDE DEF t
<1>8. /\ \A m \in Packs : m.data.tid # t
      /\ \A o \in Node : \A x \in tracker[o] : x.tid # t
      /\ \A q \in Asked : q.tid # t
      /\ \A r \in results : r.id # t
  <2>1. \A m \in Packs : OfLog(m.data)
    BY DEF SInv, Tracking, Carried, AtFirst, AtSecond, AtEnd
  <2>2. \A o \in Node : \A x \in tracker[o] : OfLog(x)
    BY DEF SInv, Tracking, Waits, AtFirst, AtSecond
  <2> QED
    BY <1>7, <2>1, <2>2 DEF SInv, Tracking, Shown, OfLog
<1>9. AtFirst(s)'
  BY <1>2, <1>3, <1>5, <1>6, <1>7, <1>8 DEF AtFirst, OfLog
<1>10. Carried(p)'
  BY <1>3, <1>4, <1>8, <1>9 DEF Carried
<1>11. \A q \in Asked : O!Known(q)' = O!Known(q) /\ O!Owner(q.key)' = O!Owner(q.key)
  BY <1>4, SameMembers
<1>12. Elsewhere(t)
  BY <1>2, <1>3, <1>4, <1>6, <1>11 DEF Elsewhere
<1>13. Here(t)
  BY <1>2, <1>3, <1>4, <1>6, <1>8, <1>10 DEF Here, SInv, Tracking
<1>14. Tracking'
  BY <1>12, <1>13, TrackingStep DEF SInv
<1> QED
  BY <1>6, <1>14 DEF SInv

(* What is shown matches. *)
LEMMA ShownTracked ==
  ASSUME PInv, SInv, NEW m \in Packs, ProcessSearchComplete(m)
  PROVE  SInv'
<1> DEFINE t == m.data.tid
           r == [id |-> m.data.tid, node |-> m.to, docs |-> m.data.docs]
<1>1. /\ m.type = "SEARCH_COMPLETE" /\ results' = results \cup {r} /\ net' = net \ {m}
      /\ O!Silent /\ log' = log /\ tracker' = tracker
  BY DEF ProcessSearchComplete, local
<1>2. Packs' = Packs \ {m} /\ Asked' = Asked /\ member' = member
  BY <1>1 DEF Packs, Asked, O!Silent
<1>3. \A x \in results' : x \in results \/ x.id = m.data.tid
  BY <1>1
<1>4. Tracking'
  BY <1>1, <1>2, <1>3, DroppedTracked DEF SInv, PInv
<1>5. AtEnd(m.data)
  BY <1>1 DEF SInv, Tracking, Carried
<1>6. r.id \in DOMAIN log /\ log[r.id].type = "SEARCH" /\ r.docs \subseteq I!Matches(log[r.id].keys)
  BY <1>5 DEF AtEnd, OfLog
<1>7. Shown'
  <2>1. \A k : I!Indexed(k)' = I!Indexed(k)
    BY <1>1, IndexedSame
  <2>2. \A ls : I!Matches(ls)' = I!Matches(ls)
    BY <2>1 DEF I!Matches
  <2> HIDE DEF r
  <2> QED
    BY <1>1, <1>6, <2>2 DEF SInv, Shown
<1> QED
  BY <1>4, <1>7 DEF SInv

(* The answer to a lookup of PUBLISH moves lists, not searches. *)
LEMMA ListAnswerQuiet ==
  ASSUME IInv, NEW q \in pending \ Asked, LookupSuccess(q)
  PROVE  Packs' = Packs /\ tracker' = tracker /\ Asked' = Asked /\ member' = member
<1>1. q \in pending /\ q.flag = 0 /\ q.node \in Node
  BY DEF Asked, IInv, TypeOK, Query
<1>2. /\ member' = member /\ pending' = pending \ {q} /\ upcall' = {O!Answer(q)}
      /\ tracker' = [tracker EXCEPT ![q.node] = tracker[q.node] \ Found(tracker[q.node], upcall')]
      /\ net' = net \cup SendInvertList(inverted[q.node], upcall') \cup SendSearch(tracker[q.node], upcall')
  BY DEF LookupSuccess, O!Reply, Callbacks
<1>3. SearchAnswers(upcall') = {}
  BY <1>1, <1>2 DEF SearchAnswers, O!Answer
<1>4. Found(tracker[q.node], upcall') = {} /\ SendSearch(tracker[q.node], upcall') = {}
  BY <1>3 DEF Found, SendSearch
<1>5. tracker' = tracker
  BY <1>2, <1>4 DEF IInv, TypeOK
<1>6. Packs' = Packs
  BY <1>2, <1>4, ListsSent DEF Packs
<1> QED
  BY <1>1, <1>2, <1>5, <1>6 DEF Asked

(* Lists that arrive, and joins and leaves, touch no search. *)
LEMMA ListStepQuiet ==
  ASSUME IInv,
         \/ \E m \in net : ProcessStoreList(m) \/ ProcessPassKeys(m)
         \/ \E n \in Node : RingJoin(n) \/ PassKeysJoin(n) \/ PassKeysLeave(n)
  PROVE  /\ Packs' = Packs /\ tracker' = tracker /\ Asked' = Asked /\ log' = log /\ results' = results
         /\ member' = member \/ Asked = {}
<1>1. ASSUME NEW m \in net, ProcessStoreList(m) \/ ProcessPassKeys(m)
      PROVE  /\ Packs' = Packs /\ tracker' = tracker /\ Asked' = Asked /\ log' = log /\ results' = results
             /\ member' = member
  <2>1. m.type \notin SearchTypes /\ net' = net \ {m} /\ O!Silent /\ UNCHANGED <<tracker, log, results>>
    BY <1>1 DEF ProcessStoreList, ProcessPassKeys, SearchTypes
  <2> QED
    BY <2>1 DEF Packs, Asked, O!Silent
<1>2. ASSUME NEW n \in Node, RingJoin(n)
      PROVE  /\ Packs' = Packs /\ tracker' = tracker /\ Asked' = Asked /\ log' = log /\ results' = results
             /\ Asked = {}
  BY <1>2 DEF RingJoin, O!Join, local, Packs, Asked
<1>3. \A n, K, d : \A m \in PassKeys(n, K, d) : m.type \notin SearchTypes
  BY DEF PassKeys, Shipment, SearchTypes
<1>4. ASSUME NEW p \in Node, PassKeysJoin(p)
      PROVE  /\ Packs' = Packs /\ tracker' = tracker /\ Asked' = Asked /\ log' = log /\ results' = results
             /\ member' = member
  <2>1. PICK P : net' = net \cup P /\ \A m \in P : m.type \notin SearchTypes
    BY <1>3, <1>4 DEF PassKeysJoin
  <2> QED
    BY <1>4, <2>1 DEF PassKeysJoin, O!JoinNotify, Packs, Asked
<1>5. ASSUME NEW n \in Node, PassKeysLeave(n)
      PROVE  /\ Packs' = Packs /\ tracker' = tracker /\ Asked' = Asked /\ log' = log /\ results' = results
             /\ Asked = {}
  <2>1. net' = net \cup UNION {Passed(n, u) : u \in upcall'}
    BY <1>5 DEF PassKeysLeave
  <2>2. \A m \in UNION {Passed(n, u) : u \in upcall'} : m.type \notin SearchTypes
    BY <1>3 DEF Passed
  <2>3. Packs' = Packs
    BY <2>1, <2>2 DEF Packs
  <2> QED
    BY <1>5, <2>3 DEF PassKeysLeave, O!Leave, Asked
<1> QED
  BY <1>1, <1>2, <1>4, <1>5

LEMMA PacketTracked ==
  ASSUME PInv, TwoKeys, SInv, NEW m \in net,
         ProcessSearchInitial(m) \/ ProcessSearchBegin(m) \/ ProcessSearch(m) \/ ProcessSearchComplete(m)
  PROVE  SInv'
<1>1. m \in Packs
  BY DEF Packs, SearchTypes, ProcessSearchInitial, ProcessSearchBegin, ProcessSearch, ProcessSearchComplete
<1>2. CASE ProcessSearchInitial(m) \/ ProcessSearchBegin(m) \/ ProcessSearch(m)
  <2>1. Tracking'
    BY <1>1, <1>2, InitialTracked, BeginTracked, SearchTracked DEF SInv
  <2>2. log' = log /\ results' = results
    BY <1>2 DEF ProcessSearchInitial, ProcessSearchBegin, ProcessSearch
  <2> QED
    BY <2>1, <2>2, ShownSame DEF SInv
<1>3. CASE ProcessSearchComplete(m)
  BY <1>1, <1>3, ShownTracked
<1> QED
  BY <1>2, <1>3

LEMMA InitTracked == Init => SInv
  BY DEF Init, O!Init, I!Init, SInv, Tracking, Single, Shown, Packs, Asked

LEMMA NextTracked == TwoKeys /\ PInv /\ SInv /\ [PacedNext]_vars => SInv'
<1> SUFFICES ASSUME TwoKeys, PInv, SInv, [PacedNext]_vars PROVE SInv'
  OBVIOUS
<1>0. IInv /\ member \subseteq Node
  BY MemberFacts DEF PInv
<1>q. ASSUME Packs' = Packs, tracker' = tracker, Asked' = Asked, log' = log, results' = results,
             member' = member \/ Asked = {}
      PROVE  SInv'
  BY <1>0, <1>q, QuietTracked, ShownSame DEF SInv
<1>1. CASE PacedCommand
  <2>1. CASE Settled /\ Cardinality(member) > 1 /\ \E n \in member, f \in File : Publish(n, f)
    BY <1>0, <2>1, PublishTracked
  <2>2. CASE \E n \in Asker, via \in member, ks \in KeyList : Search(n, via, ks)
    BY <1>0, <2>2, GivenTracked, AskerAssumption
  <2> QED
    BY <1>1, <2>1, <2>2 DEF PacedCommand
<1>2. CASE RecvMessage
  <2>1. PICK m \in net : \/ ProcessStoreList(m) \/ ProcessPassKeys(m)
                         \/ ProcessSearchInitial(m) \/ ProcessSearchBegin(m)
                         \/ ProcessSearch(m) \/ ProcessSearchComplete(m)
    BY <1>2 DEF RecvMessage
  <2>2. CASE ProcessStoreList(m) \/ ProcessPassKeys(m)
    BY <1>0, <1>q, <2>2, ListStepQuiet
  <2>3. CASE \/ ProcessSearchInitial(m) \/ ProcessSearchBegin(m)
             \/ ProcessSearch(m) \/ ProcessSearchComplete(m)
    BY <2>3, PacketTracked
  <2> QED
    BY <2>1, <2>2, <2>3
<1>3. CASE LookupAnswered
  <2>1. PICK q \in pending : LookupSuccess(q)
    BY <1>3 DEF LookupAnswered
  <2>2. log' = log /\ results' = results
    BY <2>1 DEF LookupSuccess
  <2>3. CASE q \in Asked
    BY <1>0, <2>1, <2>2, <2>3, LookupSuccessTracked, ShownSame DEF SInv
  <2>4. CASE q \notin Asked
    BY <1>0, <1>q, <2>1, <2>2, <2>4, ListAnswerQuiet
  <2> QED
    BY <2>3, <2>4
<1>4. CASE \E p \in untold : PassKeysJoin(p)
  BY <1>0, <1>4, <1>q, ListStepQuiet DEF IInv, TypeOK
<1>5. CASE PacedChange
  BY <1>0, <1>5, <1>q, ListStepQuiet DEF PacedChange
<1>6. CASE UNCHANGED vars
  BY <1>6, <1>q DEF vars, overlay, local, Packs, Asked
<1> QED
  BY <1>1, <1>2, <1>3, <1>4, <1>5, <1>6 DEF PacedNext

LEMMA AlwaysTracked ==
  ASSUME TwoKeys
  PROVE  PacedSpec => []SInv
<1>1. PInv /\ SInv /\ [PacedNext]_vars => SInv'
  BY NextTracked
<1> QED
  BY <1>1, InitTracked, AlwaysPlaced, PTL DEF PacedSpec

(* In a scenario whose searches have at most two keys - a third finds the       *)
(* callbacks of the second lookup under its own id - no search shows a document *)
(* that is not listed under all of its keys, however its packets, the two      *)
(* answers to each lookup, hand-overs, joins and leaves overlap.              *)
THEOREM SearchesSound ==
  ASSUME TwoKeys
  PROVE  PacedSpec => []SearchSound
<1>1. SInv => SearchSound
  BY DEF SInv, Shown, SearchSound
<1> QED
  BY <1>1, AlwaysTracked, PTL

-----------------------------------------------------------------------------
(* What a search finds in a ring that is complete. *)

Idle == Packs = {} /\ Asked = {} /\ \A n \in Node : tracker[n] = {}

Exact(s) == s.docs = I!Indexed(log[s.tid].keys[1]) /\ s.docs # {}

(* A search packet is where it should be and holds just what matches so far. *)
Right(m) ==
  /\ m.type \in {"SEARCH_BEGIN", "SEARCH"} => m.to = O!Owner(Head(m.data.keys))
  /\ m.type = "SEARCH" => Exact(m.data)
  /\ m.type = "SEARCH_COMPLETE" => m.data.docs = I!Matches(log[m.data.tid].keys)

AllRight ==
  /\ \A m \in Packs : Right(m)
  /\ \A n \in Node : \A s \in tracker[n] : LookupOf(n, s, 2) \in Asked => Exact(s)

(* Searches and lists are never on their way together, and the ring that is   *)
(* searched is complete.                                                     *)
QInv ==
  /\ log # <<>> => changes = MaxChange /\ untold = {}
  /\ Idle \/ AtRest
  /\ AllRight
  /\ KnownLater
  /\ ~ faulted

QNext == PacedNext /\ KnownLater' /\ Completed'

(* At rest every list is whole at the owner of its key. *)
LEMMA RestPlaced ==
  ASSUME PInv, AtRest, NEW k \in Key, NEW n \in Node, member # {} => n = O!Owner(k)
  PROVE  data[n][k] = I!Indexed(k)
<1>1. \A x \in Node : data[x][k] # {} => x = n
  BY DEF AtRest, PInv, Placed, O!Owner
<1>2. Travelling(k) = {} /\ Waiting(k) = {}
  BY DEF Travelling, Waiting, AtRest
<1>3. Stored(k) = I!Indexed(k)
  BY <1>2, WhereaboutsParts DEF PInv, NothingLost
<1>4. \A x \in Node : data[x][k] \subseteq data[n][k]
  BY <1>1
<1> QED
  BY <1>3, <1>4 DEF Stored

(* Without a command there is no search. *)
LEMMA NoLogIdle ==
  ASSUME SInv, log = <<>>
  PROVE  Idle
<1>1. DOMAIN log = {}
  OBVIOUS
<1>2. Packs = {}
  BY <1>1 DEF SInv, Tracking, Carried, AtFirst, AtSecond, AtEnd, OfLog
<1>3. Asked = {}
  BY <1>1 DEF SInv, Tracking
<1>4. \A n \in Node : tracker[n] = {}
  BY <1>3 DEF SInv, Tracking, Waits
<1> QED
  BY <1>2, <1>3, <1>4 DEF Idle

LEMMA IdleRight == Idle => AllRight
  BY DEF Idle, AllRight

(* A step that adds no command keeps what was right. *)
LEMMA RightStep ==
  ASSUME AllRight, log' = log, member' = member,
         \A m \in Packs' : m \in Packs \/ Right(m)',
         \A n \in Node : \A s \in tracker'[n] :
           LookupOf(n, s, 2) \in Asked' =>
             (s \in tracker[n] /\ LookupOf(n, s, 2) \in Asked) \/ Exact(s)'
  PROVE  AllRight'
<1>1. \A k : I!Indexed(k)' = I!Indexed(k)
  BY IndexedSame
<1>2. \A ks : I!Matches(ks)' = I!Matches(ks)
  BY <1>1 DEF I!Matches
<1>3. \A s : Exact(s) => Exact(s)'
  BY <1>1 DEF Exact
<1>4. \A k : O!Owner(k)' = O!Owner(k)
  BY OwnersStay
<1>5. ASSUME NEW m \in Packs, Right(m)
      PROVE  Right(m)'
  BY <1>2, <1>3, <1>4, <1>5 DEF Right
<1>6. \A m \in Packs' : Right(m)'
  BY <1>5 DEF AllRight
<1>7. \A n \in Node : \A s \in tracker'[n] : LookupOf(n, s, 2)' \in Asked' => Exact(s)'
  <2>1. \A n, s : LookupOf(n, s, 2)' = LookupOf(n, s, 2)
    BY DEF LookupOf
  <2> QED
    BY <1>3, <2>1 DEF AllRight
<1> QED
  BY <1>6, <1>7 DEF AllRight

LEMMA LookupNextRight ==
  ASSUME IInv, Tracking, AllRight, NEW m \in Packs, NEW s \in SearchData, s.keys # <<>>, s.tid = m.data.tid,
         NEW f \in {1, 2}, LookupNext(m.to, s, f, net \ {m}), log' = log, results' = results,
         Ready(m.to, s, f), f = 2 => Exact(s)
  PROVE  AllRight'
<1> DEFINE t == s.tid
           n == m.to
           q == LookupOf(n, s, f)
<1>0. PICK p : p = Packet(TypeFor(f), O!Owner(q.key), s)
  OBVIOUS
<1>1. n \in Node /\ \A x \in tracker[n] : x.tid # s.tid
  BY PackFacts, PacketAlone
<1>2. /\ q.tid = t /\ q.node = n /\ q.flag = f /\ q.key = Head(s.keys)
      /\ p.data = s /\ p.type = TypeFor(f) /\ p.to = O!Owner(q.key)
  BY <1>0, <1>1, LookupOfTyped, PacketFields
<1>3. /\ n \in member /\ member' = member
      /\ Asked' = Asked \cup {q}
      /\ \/ /\ O!Known(q) /\ tracker' = tracker
            /\ Packs' = (Packs \ {m}) \cup {p}
         \/ /\ ~ O!Known(q) /\ tracker' = [tracker EXCEPT ![n] = tracker[n] \cup {s}]
            /\ Packs' = Packs \ {m}
  BY <1>0, <1>1, LookupNextEffect
<1>4. f = 2 => Exact(s)'
  <2>1. \A k : I!Indexed(k)' = I!Indexed(k)
    BY IndexedSame
  <2> QED
    BY <2>1 DEF Exact
<1>5. O!Owner(q.key)' = O!Owner(q.key)
  BY <1>3, OwnersStay
<1>6. \A o \in Node : \A x \in tracker[o] : x.tid # t
  BY PacketAlone
<1>7. tracker \in [Node -> SUBSET SearchData]
  BY DEF IInv, TypeOK
<1>8. f = 1 => \A x \in Asked : x.tid # t
  BY DEF Ready
<1>9. \A o, x, g : LookupOf(o, x, g).tid = x.tid /\ LookupOf(o, x, g).flag = g
  BY DEF LookupOf
<1> HIDE DEF q, n, t
<1>10. Right(p)'
  <2>1. p.to = O!Owner(Head(p.data.keys))'
    BY <1>2, <1>5
  <2>2. p.type = "SEARCH" => Exact(p.data)'
    BY <1>2, <1>4 DEF TypeFor
  <2>3. p.type # "SEARCH_COMPLETE"
    BY <1>2 DEF TypeFor
  <2> QED
    BY <2>1, <2>2, <2>3 DEF Right
<1>11. \A x \in Packs' : x \in Packs \/ Right(x)'
  BY <1>3, <1>10
<1>12. \A o \in Node : \A x \in tracker'[o] : x \in tracker[o] \/ (o = n /\ x = s)
  BY <1>3, <1>7
<1>13. ASSUME NEW o \in Node, NEW x \in tracker'[o], LookupOf(o, x, 2) \in Asked'
       PROVE  (x \in tracker[o] /\ LookupOf(o, x, 2) \in Asked) \/ Exact(x)'
  <2>1. CASE x \in tracker[o]
    <3>1. LookupOf(o, x, 2) # q
      BY <1>2, <1>6, <1>9, <2>1
    <3> QED
      BY <1>3, <1>13, <2>1, <3>1
  <2>2. CASE o = n /\ x = s
    <3>1. CASE f = 1
      <4>1. LookupOf(o, x, 2) # q /\ LookupOf(o, x, 2).tid = t
        BY <1>2, <1>9, <2>2, <3>1 DEF t
      <4> QED
        BY <1>3, <1>8, <1>13, <3>1, <4>1
    <3>2. CASE f = 2
      BY <1>4, <2>2, <3>2
    <3> QED
      BY <3>1, <3>2
  <2> QED
    BY <1>12, <2>1, <2>2
<1> QED
  BY <1>3, <1>11, <1>13, RightStep

(* A search that ends with what matches. *)
LEMMA EndsRight ==
  ASSUME AllRight, NEW m \in Packs, NEW s, Ends(m, s), log' = log,
         s.docs = I!Matches(log[s.tid].keys)
  PROVE  AllRight'
<1>1. PICK p : p = Packet("SEARCH_COMPLETE", s.node, s)
  OBVIOUS
<1>2. /\ member' = member /\ Asked' = Asked /\ tracker' = tracker
      /\ Packs' = (Packs \ {m}) \cup {p}
  BY <1>1 DEF Ends
<1>3. p.type = "SEARCH_COMPLETE" /\ p.data = s
  BY <1>1, PacketFields
<1>4. \A k : I!Indexed(k)' = I!Indexed(k)
  BY IndexedSame
<1>5. \A ks : I!Matches(ks)' = I!Matches(ks)
  BY <1>4 DEF I!Matches
<1>6. Right(p)'
  BY <1>3, <1>5 DEF Right
<1>7. \A x \in Packs' : x \in Packs \/ Right(x)'
  BY <1>2, <1>6
<1>8. \A n \in Node : \A x \in tracker'[n] :
        LookupOf(n, x, 2) \in Asked' =>
          (x \in tracker[n] /\ LookupOf(n, x, 2) \in Asked) \/ Exact(x)'
  BY <1>2
<1> QED
  BY <1>2, <1>7, <1>8, RightStep

LEMMA BeginRight ==
  ASSUME PInv, TwoKeys, Tracking, AllRight, AtRest, NEW m \in Packs, ProcessSearchBegin(m)
  PROVE  AllRight'
<1> DEFINE ks == log[m.data.tid].keys
<1>1. m.type = "SEARCH_BEGIN" /\ m.to \in Node /\ IInv /\ log' = log /\ results' = results
  BY PackFacts DEF PInv, ProcessSearchBegin
<1>2. /\ ks[1] \in Key /\ Head(m.data.keys) = ks[1] /\ 1 \in DOMAIN ks
      /\ \E s : /\ s.docs = data[m.to][ks[1]]
                /\ \/ Ends(m, s) /\ (s.docs = {} \/ DOMAIN ks = {1})
                   \/ GoesOn(m, s) /\ s.docs # {}
  BY BeginStep
<1>3. m.to = O!Owner(ks[1])
  BY <1>1, <1>2 DEF AllRight, Right
<1>4. data[m.to][ks[1]] = I!Indexed(ks[1])
  BY <1>1, <1>2, <1>3, RestPlaced
<1>5. data[m.to][ks[1]] \subseteq Doc
  BY <1>1, <1>2, StoredIndexed DEF List
<1>6. PICK s : /\ s.docs = data[m.to][ks[1]]
               /\ \/ Ends(m, s) /\ (s.docs = {} \/ DOMAIN ks = {1})
                  \/ GoesOn(m, s) /\ s.docs # {}
  BY <1>2
<1> HIDE DEF ks
<1>7. CASE Ends(m, s) /\ (s.docs = {} \/ DOMAIN ks = {1})
  <2>1. s.docs = I!Matches(ks)
    BY <1>2, <1>4, <1>5, <1>6, <1>7 DEF I!Matches
  <2>2. s.docs = I!Matches(log[s.tid].keys)
    BY <1>7, <2>1 DEF Ends, ks
  <2> QED
    BY <1>1, <1>7, <2>2, EndsRight
<1>8. CASE GoesOn(m, s) /\ s.docs # {}
  <2>1. Exact(s)
    BY <1>4, <1>6, <1>8 DEF Exact, GoesOn, ks
  <2> QED
    BY <1>1, <1>8, <2>1, LookupNextRight DEF GoesOn
<1> QED
  BY <1>6, <1>7, <1>8

LEMMA InitialRight ==
  ASSUME PInv, Tracking, AllRight, NEW m \in Packs, ProcessSearchInitial(m)
  PROVE  AllRight'
<1>1. m.data \in SearchData /\ m.data.keys # <<>> /\ m.type = "SEARCH_INITIAL"
  BY PackFacts DEF PInv, ProcessSearchInitial
<1>2. AtFirst(m.data) /\ \A q \in Asked : q.tid # m.data.tid
  BY <1>1 DEF Tracking, Carried
<1>3. LookupNext(m.to, m.data, 1, net \ {m}) /\ log' = log /\ results' = results
  BY DEF ProcessSearchInitial
<1>4. Ready(m.to, m.data, 1) /\ IInv /\ (1 = 2 => Exact(m.data)) /\ 1 \in {1, 2}
  BY <1>2 DEF Ready, PInv
<1> QED
  BY <1>1, <1>3, <1>4, LookupNextRight

(* The later key has a list, which is where the search was sent. *)
LEMMA SearchRight ==
  ASSUME PInv, TwoKeys, Tracking, AllRight, AtRest, KnownLater, NEW m \in Packs, ProcessSearch(m)
  PROVE  AllRight' /\ faulted' = faulted
<1> DEFINE ks == log[m.data.tid].keys
<1>1. m.type = "SEARCH" /\ m.to \in Node /\ m.data.docs \in List /\ IInv /\ log' = log /\ results' = results
  BY PackFacts DEF PInv, ProcessSearch
<1>2. /\ ks[2] \in Key /\ Head(m.data.keys) = ks[2] /\ DOMAIN ks = {1, 2}
      /\ \/ /\ data[m.to][ks[2]] = {}
            /\ Packs' = Packs \ {m} /\ tracker' = tracker /\ Asked' = Asked /\ member' = member
         \/ /\ faulted' = faulted
            /\ \E s : /\ Ends(m, s)
                      /\ s.docs = data[m.to][ks[2]] \cap m.data.docs
  BY SearchStep
<1>3. m.to = O!Owner(ks[2]) /\ m.data.docs = I!Indexed(ks[1])
  BY <1>1, <1>2 DEF AllRight, Right, Exact
<1>4. data[m.to][ks[2]] = I!Indexed(ks[2])
  BY <1>1, <1>2, <1>3, RestPlaced
<1>5. m.data.tid \in DOMAIN log /\ log[m.data.tid].type = "SEARCH"
  BY <1>1 DEF Tracking, Carried, AtSecond, OfLog
<1>6. I!Indexed(ks[2]) # {}
  BY <1>2, <1>5 DEF KnownLater
<1>7. PICK s : /\ Ends(m, s)
               /\ s.docs = data[m.to][ks[2]] \cap m.data.docs
  BY <1>2, <1>4, <1>6
<1>8. s.docs = I!Matches(ks)
  <2>1. s.docs = I!Indexed(ks[2]) \cap I!Indexed(ks[1]) /\ I!Indexed(ks[1]) \subseteq Doc
    BY <1>1, <1>3, <1>4, <1>7 DEF List
  <2> HIDE DEF ks
  <2> QED
    BY <1>2, <2>1 DEF I!Matches
<1>9. s.docs = I!Matches(log[s.tid].keys)
  BY <1>7, <1>8 DEF Ends
<1>10. AllRight'
  BY <1>1, <1>7, <1>9, EndsRight
<1> QED
  BY <1>2, <1>4, <1>6, <1>10

LEMMA LookupSuccessRight ==
  ASSUME IInv, Tracking, AllRight, NEW q \in Asked, LookupSuccess(q)
  PROVE  AllRight'
<1> DEFINE n == q.node
           F == {s \in tracker[q.node] : s.tid = q.tid}
<1>1. /\ member' = member /\ Asked' = Asked \ {q} /\ n \in Node
      /\ q.flag \in {1, 2} /\ q.key \in Key
      /\ tracker' = [tracker EXCEPT ![n] = tracker[n] \ F]
      /\ Packs' = Packs \cup {Packet(TypeFor(q.flag), O!Owner(q.key), s) : s \in F}
  BY LookupSuccessEffect
<1>2. \A o \in Node : \A x \in tracker'[o] : x \in tracker[o]
  BY <1>1 DEF IInv, TypeOK
<1>3. log' = log
  BY DEF LookupSuccess
<1>4. ASSUME NEW s \in F
      PROVE  /\ q = LookupOf(n, s, q.flag)
             /\ q.flag = 2 => Exact(s)
  <2>1. s \in tracker[n] /\ s.tid = q.tid
    OBVIOUS
  <2>2. Waits(n, s)
    BY <1>1, <2>1 DEF Tracking
  <2>3. \/ q = LookupOf(n, s, 1) /\ q.flag = 1
        \/ q = LookupOf(n, s, 2) /\ q.flag = 2
    BY <2>1, <2>2 DEF Waits, LookupOf
  <2>4. q = LookupOf(n, s, 2) => Exact(s)
    BY <1>1, <2>1 DEF AllRight
  <2> QED
    BY <2>3, <2>4
<1>5. \A k : O!Owner(k)' = O!Owner(k)
  BY <1>1, OwnersStay
<1>6. \A s : Exact(s) => Exact(s)'
  <2>1. \A k : I!Indexed(k)' = I!Indexed(k)
    BY <1>3, IndexedSame
  <2> QED
    BY <1>3, <2>1 DEF Exact
<1>7. ASSUME NEW s \in F, NEW p, p = Packet(TypeFor(q.flag), O!Owner(q.key), s)
      PROVE  Right(p)'
  <2>1. p.data = s /\ p.to = O!Owner(q.key) /\ p.type = TypeFor(q.flag)
    BY <1>7, PacketFields
  <2>2. q.key = Head(s.keys)
    BY <1>4 DEF LookupOf
  <2>3. p.to = O!Owner(Head(p.data.keys))'
    BY <1>5, <2>1, <2>2
  <2>4. p.type # "SEARCH_COMPLETE" /\ (p.type = "SEARCH" => Exact(p.data)')
    BY <1>1, <1>4, <1>6, <2>1 DEF TypeFor
  <2> QED
    BY <2>3, <2>4 DEF Right
<1>8. \A p \in Packs' : p \in Packs \/ Right(p)'
  BY <1>1, <1>7
<1>9. \A o \in Node : \A x \in tracker'[o] :
        LookupOf(o, x, 2) \in Asked' =>
          (x \in tracker[o] /\ LookupOf(o, x, 2) \in Asked) \/ Exact(x)'
  BY <1>1, <1>2
<1> QED
  BY <1>1, <1>3, <1>8, <1>9, RightStep

LEMMA ShownRight ==
  ASSUME AllRight, NEW m \in Packs, ProcessSearchComplete(m)
  PROVE  AllRight'
<1>1. log' = log /\ member' = member /\ Packs' = Packs \ {m} /\ tracker' = tracker /\ Asked' = Asked
  BY DEF ProcessSearchComplete, local, O!Silent, Packs, Asked
<1> QED
  BY <1>1, RightStep

(* The answer to a search lookup moves no list. *)
LEMMA SearchAnswerQuiet ==
  ASSUME IInv, NEW q \in Asked, LookupSuccess(q)
  PROVE  Moving' = Moving /\ Published' = Published /\ untold' = untold
<1>1. q \in pending /\ q.flag \in {1, 2}
  BY DEF Asked, IInv, TypeOK, Query, Flag
<1>2. /\ pending' = pending \ {q} /\ upcall' = {O!Answer(q)} /\ untold' = untold
      /\ Callbacks(q.node, inverted[q.node], tracker[q.node], net)
  BY DEF LookupSuccess, O!Reply
<1>3. SendInvertList(inverted[q.node], upcall') = {}
  <2> DEFINE U == upcall'
             inv == inverted[q.node]
  <2>1. U = {O!Answer(q)}
    BY <1>2
  <2> HIDE DEF U, inv
  <2>2. SendInvertList(inv, U) = {}
    BY <1>1, <2>1, AnswerLists
  <2> QED
    BY <2>2 DEF U, inv
<1>4. Moving' = Moving
  <2>1. PICK n, inv, T : n = q.node /\ inv = inverted[n] /\ T = tracker[n]
    OBVIOUS
  <2>2. Callbacks(n, inv, T, net) /\ SendInvertList(inv, upcall') = {}
    BY <1>2, <1>3, <2>1
  <2>3. Moving' = {m \in net : m.type \in ListTypes} \cup SendInvertList(inv, upcall')
    BY <2>2, CallbacksMove
  <2> QED
    BY <2>2, <2>3 DEF Moving, ListTypes
<1> QED
  BY <1>1, <1>2, <1>4 DEF Published

(* After PUBLISH there is still no search. *)
LEMMA PublishIdle ==
  ASSUME PInv, SInv, NEW n \in Node, NEW f \in File, Publish(n, f), Settled
  PROVE  Idle'
<1>1. Tracking'
  BY PublishTracked DEF SInv
<1>2. Asked' = {}
  <2> DEFINE Q == {[node |-> n, key |-> k, flag |-> 0, tid |-> Len(log) + 1] :
                     k \in {j \in Key : f[j] # {}}}
  <2>1. pending' \subseteq pending \cup Q
    BY DEF Publish, O!Silent, O!Lookup
  <2>2. \A q \in Q : q.flag = 0
    OBVIOUS
  <2> QED
    BY <2>1, <2>2 DEF Settled, Asked
<1>3. \A o \in Node : tracker'[o] = {}
  BY <1>1, <1>2 DEF Tracking, Waits
<1>4. \A o \in Node : tracker[o] = {}
  BY DEF Settled, SInv, Tracking, Waits, Asked
<1>5. net' = SendInvertList(f, upcall') \cup SendSearch({}, upcall')
  BY <1>4 DEF Publish, Callbacks, Settled
<1>6. Packs' = {}
  BY <1>5, NobodySends, ListsSent DEF Packs
<1> QED
  BY <1>2, <1>3, <1>6 DEF Idle

(* A SEARCH changes no index. *)
LEMMA GivenRight ==
  ASSUME PInv, SInv, AllRight, NEW n \in Node, NEW via \in Node, NEW ks \in KeyList, Search(n, via, ks)
  PROVE  /\ AllRight'
         /\ Moving' = Moving /\ Published' = Published /\ untold' = untold
<1> DEFINE c == [type |-> "SEARCH", node |-> n, keys |-> ks]
<1>0. PICK s : s = [tid |-> Len(log) + 1, node |-> n, keys |-> ks, docs |-> {}]
  OBVIOUS
<1>1. PICK p : p = Packet("SEARCH_INITIAL", via, s)
  OBVIOUS
<1>2. /\ log' = Append(log, c) /\ results' = results /\ net' = net \cup {p}
      /\ O!Silent /\ tracker' = tracker /\ untold' = untold
  BY <1>0, <1>1 DEF Search, Give, local
<1>3. p.type = "SEARCH_INITIAL"
  BY <1>1, PacketFields
<1>4. Packs' = Packs \cup {p} /\ Asked' = Asked /\ member' = member /\ Moving' = Moving /\ Published' = Published
  BY <1>2, <1>3 DEF Packs, Asked, O!Silent, SearchTypes, Moving, Published
<1>5. c \in I!PublishCommand \cup I!SearchCommand /\ c.type # "PUBLISH"
  BY DEF I!SearchCommand
<1> HIDE DEF c
<1>6. /\ \A i \in DOMAIN log : i \in DOMAIN log' /\ log'[i] = log[i]
      /\ \A k \in Key : I!Indexed(k)' = I!Indexed(k)
  <2>1. \A i \in DOMAIN log : i \in DOMAIN log' /\ log'[i] = log[i]
    BY <1>2, <1>5, LogGrows DEF PInv
  <2>2. \A k \in Key : I!Indexed(k)' = I!Indexed(k)
    BY <1>2, <1>5, IndexedGiven DEF PInv
  <2> QED
    BY <2>1, <2>2
<1>7. ASSUME NEW i \in DOMAIN log, log[i].type = "SEARCH"
      PROVE  /\ I!Matches(log[i].keys)' = I!Matches(log[i].keys)
             /\ I!Indexed(log[i].keys[1])' = I!Indexed(log[i].keys[1])
  <2>1. PICK ls : ls = log[i].keys
    OBVIOUS
  <2>2. ls \in Seq(Key) /\ ls[1] \in Key /\ log'[i] = log[i]
    BY <1>6, <1>7, <2>1, LogKeys DEF PInv
  <2>3. \A j \in DOMAIN ls : ls[j] \in Key
    BY <2>2, LenProperties, ElementOfSeq
  <2>4. I!Matches(ls)' = I!Matches(ls)
    BY <1>6, <2>3 DEF I!Matches
  <2>5. PICK k \in Key : k = ls[1]
    BY <2>2
  <2>6. I!Indexed(k)' = I!Indexed(k)
    BY <1>6
  <2> QED
    BY <2>1, <2>2, <2>4, <2>5, <2>6
<1>8. \A k : O!Owner(k)' = O!Owner(k)
  BY <1>4, OwnersStay
<1>9. ASSUME NEW x, OfLog(x), Exact(x)
      PROVE  Exact(x)'
  BY <1>6, <1>7, <1>9 DEF OfLog, Exact
<1>10. ASSUME NEW m \in Packs
       PROVE  Right(m)'
  <2>1. Right(m) /\ OfLog(m.data)
    BY DEF AllRight, SInv, Tracking, Carried, AtFirst, AtSecond, AtEnd
  <2>2. m.data.tid \in DOMAIN log /\ log[m.data.tid].type = "SEARCH"
    BY <2>1 DEF OfLog
  <2>3. I!Matches(log[m.data.tid].keys)' = I!Matches(log[m.data.tid].keys)
    BY <1>7, <2>2
  <2> QED
    BY <1>8, <1>9, <2>1, <2>3 DEF Right
<1>11. Right(p)'
  BY <1>3 DEF Right
<1>12. ASSUME NEW o \in Node, NEW x \in tracker'[o], LookupOf(o, x, 2)' \in Asked'
       PROVE  Exact(x)'
  <2>1. LookupOf(o, x, 2) \in Asked /\ x \in tracker[o]
    BY <1>2, <1>4, <1>12 DEF LookupOf
  <2>2. Exact(x)
    BY <2>1 DEF AllRight
  <2>3. OfLog(x)
    BY <2>1 DEF SInv, Tracking, Waits, AtFirst, AtSecond
  <2> QED
    BY <1>9, <2>2, <2>3
<1>13. AllRight'
  BY <1>4, <1>10, <1>11, <1>12 DEF AllRight
<1> QED
  BY <1>2, <1>4, <1>13

(* While a list moves there is no search, and its steps start none. *)
LEMMA ListStepRight ==
  ASSUME IInv, Idle,
         Packs' = Packs, tracker' = tracker, Asked' = Asked
  PROVE  Idle' /\ AllRight'
<1>1. Idle'
  BY DEF Idle
<1> QED
  BY <1>1 DEF Idle, AllRight

(* The steps that leave log, changes and untold as they are. *)
LEMMA KeptRight ==
  ASSUME QInv, log' = log, changes' = changes, untold' = untold, faulted' = faulted,
         Idle' \/ AtRest', AllRight'
  PROVE  QInv'
<1>1. KnownLater'
  <2>1. \A k : I!Indexed(k)' = I!Indexed(k)
    BY IndexedSame
  <2> QED
    BY <2>1 DEF QInv, KnownLater
<1> QED
  BY <1>1 DEF QInv

LEMMA PacketRight ==
  ASSUME TwoKeys, PInv, SInv, QInv, NEW m \in net,
         ProcessSearchInitial(m) \/ ProcessSearchBegin(m) \/ ProcessSearch(m) \/ ProcessSearchComplete(m)
  PROVE  QInv'
<1>1. m \in Packs
  BY DEF Packs, SearchTypes, ProcessSearchInitial, ProcessSearchBegin, ProcessSearch, ProcessSearchComplete
<1>2. AtRest /\ Tracking /\ AllRight /\ KnownLater
  BY <1>1 DEF QInv, Idle, SInv
<1>3. /\ Moving' = Moving /\ Published' = Published
      /\ untold' = untold /\ log' = log /\ changes' = changes
  BY PacketQuiet
<1>4. AtRest'
  BY <1>2, <1>3 DEF AtRest
<1>5. AllRight' /\ faulted' = faulted
  <2>1. CASE ProcessSearchInitial(m)
    BY <1>1, <1>2, <2>1, InitialRight DEF ProcessSearchInitial
  <2>2. CASE ProcessSearchBegin(m)
    BY <1>1, <1>2, <2>2, BeginRight DEF ProcessSearchBegin
  <2>3. CASE ProcessSearch(m)
    BY <1>1, <1>2, <2>3, SearchRight
  <2>4. CASE ProcessSearchComplete(m)
    BY <1>1, <1>2, <2>4, ShownRight DEF ProcessSearchComplete
  <2> QED
    BY <2>1, <2>2, <2>3, <2>4
<1> QED
  BY <1>3, <1>4, <1>5, KeptRight

LEMMA AnsweredRight ==
  ASSUME PInv, SInv, QInv, NEW q \in pending, LookupSuccess(q)
  PROVE  QInv'
<1>1. IInv /\ log' = log /\ changes' = changes /\ untold' = untold /\ faulted' = faulted
  BY DEF PInv, LookupSuccess
<1>2. CASE q \in Asked
  <2>1. AtRest /\ Tracking /\ AllRight
    BY <1>2 DEF QInv, Idle, SInv
  <2>2. AtRest'
    BY <1>1, <1>2, <2>1, SearchAnswerQuiet DEF AtRest
  <2>3. AllRight'
    BY <1>1, <1>2, <2>1, LookupSuccessRight
  <2> QED
    BY <1>1, <2>2, <2>3, KeptRight
<1>3. CASE q \notin Asked
  <2>1. q \in Published
    BY <1>3 DEF Asked, Published
  <2>2. Idle
    BY <2>1 DEF QInv, AtRest
  <2>3. Idle' /\ AllRight'
    BY <1>1, <1>3, <2>2, ListAnswerQuiet, ListStepRight
  <2> QED
    BY <1>1, <2>3, KeptRight
<1> QED
  BY <1>2, <1>3

LEMMA NextRight == TwoKeys /\ PInv /\ SInv /\ QInv /\ [QNext]_vars => QInv'
<1> SUFFICES ASSUME TwoKeys, PInv, SInv, QInv, [QNext]_vars PROVE QInv'
  OBVIOUS
<1>0. IInv /\ member \subseteq Node
  BY MemberFacts DEF PInv
<1>1. CASE UNCHANGED vars
  <2>1. /\ log' = log /\ changes' = changes /\ untold' = untold /\ faulted' = faulted
        /\ Packs' = Packs /\ tracker' = tracker /\ Asked' = Asked /\ member' = member
        /\ Moving' = Moving /\ Published' = Published
    BY <1>1 DEF vars, overlay, local, Packs, Asked, Moving, Published
  <2>2. Idle' \/ AtRest'
    BY <2>1 DEF QInv, Idle, AtRest
  <2>3. AllRight'
    BY <2>1, RightStep DEF QInv
  <2> QED
    BY <2>1, <2>2, <2>3, KeptRight
<1>2. CASE PacedCommand /\ KnownLater' /\ Completed'
  <2>1. ASSUME Idle' \/ AtRest', AllRight', untold' = untold, untold = {}, faulted' = faulted
        PROVE  QInv'
    BY <1>2, <2>1 DEF QInv, Completed
  <2>2. ASSUME Settled, NEW n \in member, NEW f \in File, Publish(n, f)
        PROVE  QInv'
    <3>1. Idle'
      BY <1>0, <2>2, PublishIdle
    <3>2. AllRight'
      BY <3>1 DEF Idle, AllRight
    <3> QED
      BY <2>1, <2>2, <3>1, <3>2 DEF Publish, Settled
  <2>3. ASSUME AtRest, NEW n \in Asker, NEW via \in member, NEW ks \in KeyList, Search(n, via, ks)
        PROVE  QInv'
    <3>1. /\ AllRight'
          /\ Moving' = Moving /\ Published' = Published /\ untold' = untold
      BY <1>0, <2>3, GivenRight, AskerAssumption DEF QInv
    <3>2. AtRest' /\ untold = {}
      BY <2>3, <3>1 DEF AtRest
    <3> QED
      BY <2>1, <2>3, <3>1, <3>2 DEF Search
  <2> QED
    BY <1>2, <2>2, <2>3 DEF PacedCommand
<1>3. CASE RecvMessage
  <2>1. PICK m \in net : \/ ProcessStoreList(m) \/ ProcessPassKeys(m)
                         \/ ProcessSearchInitial(m) \/ ProcessSearchBegin(m)
                         \/ ProcessSearch(m) \/ ProcessSearchComplete(m)
    BY <1>3 DEF RecvMessage
  <2>2. CASE ProcessStoreList(m) \/ ProcessPassKeys(m)
    <3>1. m \in Moving
      BY <2>2 DEF ProcessStoreList, ProcessPassKeys, Moving
    <3>2. Idle
      BY <3>1 DEF QInv, AtRest
    <3>3. Idle' /\ AllRight'
      BY <1>0, <2>2, <3>2, ListStepQuiet, ListStepRight
    <3>4. log' = log /\ changes' = changes /\ untold' = untold /\ faulted' = faulted
      BY <2>2 DEF ProcessStoreList, ProcessPassKeys
    <3> QED
      BY <3>3, <3>4, KeptRight
  <2>3. CASE \/ ProcessSearchInitial(m) \/ ProcessSearchBegin(m)
             \/ ProcessSearch(m) \/ ProcessSearchComplete(m)
    BY <2>3, PacketRight
  <2> QED
    BY <2>1, <2>2, <2>3
<1>4. CASE LookupAnswered
  BY <1>4, AnsweredRight DEF LookupAnswered
<1>5. ASSUME log = <<>>, faulted' = faulted,
             \E n \in Node : RingJoin(n) \/ PassKeysJoin(n) \/ PassKeysLeave(n)
      PROVE  QInv'
  <2>1. Idle
    BY <1>5, NoLogIdle
  <2>2. Idle' /\ AllRight' /\ log' = log
    BY <1>0, <1>5, <2>1, ListStepQuiet, ListStepRight
  <2>3. KnownLater'
    BY <1>5, <2>2 DEF KnownLater
  <2> QED
    BY <1>5, <2>2, <2>3 DEF QInv
<1>6. CASE \E p \in untold : PassKeysJoin(p)
  <2>1. PICK p \in untold : PassKeysJoin(p)
    BY <1>6
  <2>2. p \in Node /\ log = <<>> /\ faulted' = faulted
    BY <1>0, <2>1 DEF IInv, TypeOK, QInv, PassKeysJoin
  <2> QED
    BY <1>5, <2>1, <2>2
<1>7. CASE PacedChange
  <2>1. PICK n \in Node : RingJoin(n) \/ PassKeysLeave(n)
    BY <1>7 DEF PacedChange
  <2>2. changes < MaxChange /\ faulted' = faulted
    BY <2>1 DEF RingJoin, PassKeysLeave, Change, local
  <2>3. log = <<>>
    BY <2>2, BoundAssumption DEF QInv
  <2> QED
    BY <1>5, <2>1, <2>2, <2>3
<1> QED
  BY <1>1, <1>2, <1>3, <1>4, <1>6, <1>7 DEF QNext, PacedNext

LEMMA InitRight == Init => QInv
<1> SUFFICES ASSUME Init PROVE QInv
  OBVIOUS
<1>1. log = <<>> /\ net = {} /\ pending = {} /\ untold = {} /\ ~ faulted /\ \A n \in Node : tracker[n] = {}
  BY DEF Init, O!Init, I!Init
<1>2. Idle
  BY <1>1 DEF Idle, Packs, Asked
<1>3. KnownLater
  BY <1>1 DEF KnownLater
<1> QED
  BY <1>1, <1>2, <1>3, IdleRight DEF QInv

LEMMA AlwaysRight ==
  ASSUME TwoKeys
  PROVE  QueriesSpec => [](PInv /\ SInv /\ QInv)
<1>1. PInv /\ SInv /\ QInv /\ [QNext]_vars => PInv' /\ SInv' /\ QInv'
  <2>1. [QNext]_vars => [PacedNext]_vars
    BY DEF QNext
  <2> QED
    BY <2>1, NextPlaced, NextTracked, NextRight
<1>2. Init => PInv /\ SInv /\ QInv
  BY InitPlaced, InitTracked, InitRight
<1>3. QueriesSpec => Init /\ [][QNext]_vars
  BY DEF QueriesSpec, QNext
<1> QED
  BY <1>1, <1>2, <1>3, PTL

(* In a complete ring each search packet is addressed to the owner of the key it *)
(* asks for, although a lookup may be answered twice and a tracker entry under  *)
(* one id is all an answer is matched with (penn-search.cc:506).             *)
THEOREM SearchesMatched ==
  ASSUME TwoKeys
  PROVE  QueriesSpec => []LookupsMatched
<1>1. QInv => LookupsMatched
  <2> SUFFICES ASSUME QInv, NEW m \in Searching PROVE m.to = O!Owner(Head(m.data.keys))
    BY DEF LookupsMatched
  <2>1. m \in Packs /\ m.type \in {"SEARCH_BEGIN", "SEARCH"}
    BY DEF Searching, Packs, SearchTypes
  <2> QED
    BY <2>1 DEF QInv, AllRight, Right
<1> QED
  BY <1>1, AlwaysRight, PTL

(* ProcessSearch finds a list for its key, the one it dereferences without     *)
(* asking, when later keys of searches are published ones.                    *)
THEOREM SearchesNeverFault ==
  ASSUME TwoKeys
  PROVE  QueriesSpec => []NeverFaults
<1>1. QInv => NeverFaults
  BY DEF QInv, NeverFaults
<1> QED
  BY <1>1, AlwaysRight, PTL

(* Commands are steps of the index, and so is the packet that shows a result. *)
LEMMA IndexStep == PInv /\ SInv /\ QInv /\ [QNext]_vars => [I!Next]_(I!vars)
<1> SUFFICES ASSUME PInv, SInv, QInv, [QNext]_vars PROVE [I!Next]_(I!vars)
  OBVIOUS
<1>0. IInv /\ member \subseteq Node
  BY MemberFacts DEF PInv
<1>1. ASSUME log' = log, results' = results
      PROVE  [I!Next]_(I!vars)
  BY <1>1 DEF I!vars
<1>2. ASSUME NEW c \in I!PublishCommand \cup I!SearchCommand, log' = Append(log, c), results' = results
      PROVE  [I!Next]_(I!vars)
  BY <1>2 DEF I!Next, I!Give
<1>3. CASE PacedCommand
  <2>1. ASSUME NEW n \in member, NEW f \in File, Publish(n, f)
        PROVE  [I!Next]_(I!vars)
    <3>1. [type |-> "PUBLISH", node |-> n, file |-> f] \in I!PublishCommand
      BY <1>0 DEF I!PublishCommand
    <3> QED
      BY <1>2, <2>1, <3>1 DEF Publish, Give
  <2>2. ASSUME NEW n \in Asker, NEW via \in member, NEW ks \in KeyList, Search(n, via, ks)
        PROVE  [I!Next]_(I!vars)
    <3>1. [type |-> "SEARCH", node |-> n, keys |-> ks] \in I!SearchCommand
      BY AskerAssumption DEF I!SearchCommand
    <3> QED
      BY <1>2, <2>2, <3>1 DEF Search, Give
  <2> QED
    BY <1>3, <2>1, <2>2 DEF PacedCommand
<1>4. CASE RecvMessage
  <2>1. PICK m \in net : \/ ProcessStoreList(m) \/ ProcessPassKeys(m)
                         \/ ProcessSearchInitial(m) \/ ProcessSearchBegin(m)
                         \/ ProcessSearch(m) \/ ProcessSearchComplete(m)
    BY <1>4 DEF RecvMessage
  <2>2. CASE \/ ProcessStoreList(m) \/ ProcessPassKeys(m)
             \/ ProcessSearchInitial(m) \/ ProcessSearchBegin(m) \/ ProcessSearch(m)
    BY <1>1, <2>2 DEF ProcessStoreList, ProcessPassKeys, ProcessSearchInitial, ProcessSearchBegin, ProcessSearch
  <2>3. CASE ProcessSearchComplete(m)
    <3> DEFINE t == m.data.tid
    <3>1. /\ m \in Packs /\ m.type = "SEARCH_COMPLETE" /\ log' = log
          /\ results' = results \cup {[id |-> t, node |-> m.to, docs |-> m.data.docs]}
      BY <2>3 DEF Packs, SearchTypes, ProcessSearchComplete
    <3>2. AtEnd(m.data) /\ m.to = m.data.node
      BY <3>1 DEF SInv, Tracking, Carried
    <3>3. /\ t \in DOMAIN log /\ log[t].type = "SEARCH" /\ m.to = log[t].node
          /\ \A r \in results : r.id # t
      BY <3>2 DEF AtEnd, OfLog
    <3>4. m.data.docs = I!Matches(log[t].keys)
      BY <3>1 DEF QInv, AllRight, Right
    <3>5. t \in I!Open
      BY <3>3 DEF I!Open
    <3>6. results' = results \cup {[id |-> t, node |-> log[t].node, docs |-> I!Matches(log[t].keys)]}
      BY <3>1, <3>3, <3>4
    <3>7. I!Show(t)
      BY <3>1, <3>5, <3>6 DEF I!Show
    <3> QED
      BY <3>3, <3>7 DEF I!Next
  <2> QED
    BY <2>1, <2>2, <2>3
<1>5. CASE LookupAnswered
  BY <1>1, <1>5 DEF LookupAnswered, LookupSuccess
<1>6. CASE \E p \in untold : PassKeysJoin(p)
  BY <1>1, <1>6 DEF PassKeysJoin
<1>7. CASE PacedChange
  BY <1>1, <1>7 DEF PacedChange, RingJoin, PassKeysLeave
<1>8. CASE UNCHANGED vars
  BY <1>1, <1>8 DEF vars
<1> QED
  BY <1>3, <1>4, <1>5, <1>6, <1>7, <1>8 DEF QNext, PacedNext

(* The distributed lists are one inverted index: every SEARCH shows once, where *)
(* it was given, just the documents that hold all its keys.                   *)
THEOREM QueriesImplementIndex ==
  ASSUME TwoKeys
  PROVE  QueriesSpec => ImplementsIndex
<1>1. Init => I!Init
  BY DEF Init
<1>2. QueriesSpec => Init /\ [][QNext]_vars
  BY DEF QueriesSpec, QNext
<1> QED
  BY <1>1, <1>2, AlwaysRight, IndexStep, PTL DEF ImplementsIndex, I!Spec
=============================================================================
