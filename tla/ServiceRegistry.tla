---------------------------- MODULE ServiceRegistry ----------------------------
(***************************************************************************)
(* What RpcUtil::ServiceManager promises to threads that share it          *)
(* (src/src/utils/RpcUtil.cpp): each operation takes effect at one instant *)
(* on a table from watched services to sets of nodes.                      *)
(***************************************************************************)
CONSTANTS Threads, Services, Addrs, Malformed, NoAddr

VARIABLES watched,  \* the services that are watched
          nodes,    \* the nodes of each service
          answer    \* what the last lookup of each thread returned

vars == <<watched, nodes, answer>>

Init ==
    /\ watched = {}
    /\ nodes = [s \in Services |-> {}]
    /\ answer = [t \in Threads |-> NoAddr]

Watch(s) ==
    /\ watched' = watched \cup {s}
    /\ UNCHANGED <<nodes, answer>>

\* Of a service that is watched, a node whose address brpc can parse.
AddNode(s, a) ==
    /\ s \in watched
    /\ a \notin Malformed
    /\ nodes' = [nodes EXCEPT ![s] = @ \cup {a}]
    /\ UNCHANGED <<watched, answer>>

RemoveNode(s, a) ==
    /\ nodes' = [nodes EXCEPT ![s] = @ \ {a}]
    /\ UNCHANGED <<watched, answer>>

\* Some node of the service, or none exactly when it has none.
GetNode(t, s) ==
    /\ \E a \in IF nodes[s] = {} THEN {NoAddr} ELSE nodes[s] :
           answer' = [answer EXCEPT ![t] = a]
    /\ UNCHANGED <<watched, nodes>>

Next ==
    \E s \in Services :
        \/ Watch(s)
        \/ \E a \in Addrs : AddNode(s, a) \/ RemoveNode(s, a)
        \/ \E t \in Threads : GetNode(t, s)

Spec == Init /\ [][Next]_vars
=============================================================================
