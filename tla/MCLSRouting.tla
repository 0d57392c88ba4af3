---------------------------- MODULE MCLSRouting ----------------------------
(***************************************************************************)
(* Three nodes and four links for LSRouting; two of the links are parallel. *)
(***************************************************************************)
EXTENDS LSRoutingProperties

CONSTANTS a, b, c, ab, bc, ac, ab2

MCEnds == [l \in Link |->
  CASE l \in {ab, ab2} -> {a, b} [] l = bc -> {b, c} [] l = ac -> {a, c}]

(* Before the first timers expire the script takes all but some links down. *)
StartOn(links) == StartWith([n \in Node |-> Interfaces(n) \cap links])

(* It lets the protocol stabilize before it goes on (scenarios/10-ls.sce:12). *)
Stabilized == Drained /\ \A n \in Node : flooded[n] # <<>> /\ Exact(n)

(* From then on ac comes and goes, at any moment; or the interfaces of c do,   *)
(* as long as it hangs on bc alone; or a second link to the same node takes    *)
(* the place of ab.                                                          *)
Flap ==
  /\ changes = 0 => Stabilized
  /\ \E isUp \in BOOLEAN :
       \/ up[a] = {ab} /\ AllInterfacesOperation(c, isUp)
       \/ /\ bc \in up[c]
          /\ \/ ab2 \notin up[a] /\ LinkOperation(ac, isUp)
             \/ ab2 \notin up[a] /\ P2POperation(a, c, isUp)
             \/ ac \notin up[a] /\ isUp /\ LinkOperation(ab2, isUp)
             \/ ab2 \in up[a] /\ LinkOperation(ab, isUp)

FlapSpec == StartOn({ab, bc}) /\ [][Event \/ Flap]_vars /\ WF_vars(Event)

(* ac closes a triangle; then, at any moment, all interfaces of c go down. *)
CutOffSpec ==
  /\ StartOn({ab, bc})
  /\ [][\/ Event
        \/ Stabilized /\ LinkOperation(ac, TRUE)
        \/ changes = 1 /\ AllInterfacesOperation(c, FALSE)]_vars
  /\ WF_vars(Event)
=============================================================================
