----------------------------- MODULE PortGraph -----------------------------
(***************************************************************************)
(* What ports and subscriptions are for their users, with no addresses:    *)
(* ports that come and go, and connections from one to another.  A port    *)
(* takes its connections with it, and nothing else does anything to        *)
(* connections but connecting and disconnecting the two ports.             *)
(***************************************************************************)
CONSTANT Ports

VARIABLES
    nodes,       \* the ports there are
    edges        \* the connections, pairs of ports

Init == nodes = {} /\ edges = {}

Add(p) ==
    /\ p \notin nodes
    /\ nodes' = nodes \union {p}
    /\ UNCHANGED edges

\* Of several ports at once, when a client goes.
Remove ==
    /\ nodes' \in SUBSET nodes
    /\ edges' = {e \in edges : {e[1], e[2]} \subseteq nodes'}

Connect(p, q) ==
    /\ {p, q} \subseteq nodes
    /\ UNCHANGED nodes
    /\ edges' = edges \union {<<p, q>>}

Disconnect(p, q) ==
    /\ UNCHANGED nodes
    /\ edges' = edges \ {<<p, q>>}

\* Only what is new or gone can have been connected or disconnected.
Next ==
    \/ \E p \in Ports : Add(p)
    \/ Remove
    \/ \E e \in edges' \ edges : Connect(e[1], e[2])
    \/ \E e \in edges \ edges' : Disconnect(e[1], e[2])

Spec == Init /\ [][Next]_<<nodes, edges>>
=============================================================================
