------------------------------ MODULE MCCluster ------------------------------
(***************************************************************************)
(* The two halves of the cluster layer: a behaviour is one of the          *)
(* transport of a node or one of the discovery of all the nodes.           *)
(***************************************************************************)
EXTENDS ClusterTransport, Discovery

VARIABLE half
vars == <<half, clusterVars, discoveryVars>>

Transport == half = "transport" /\ UNCHANGED <<half, discoveryVars>>
Membership == half = "discovery" /\ UNCHANGED <<half, clusterVars>>

MCInit ==
    /\ half \in {"transport", "discovery"} /\ ClusterInit /\ DiscoveryInit
    /\ half = "discovery" => mode = "nats" /\ traffic = "in"
    /\ half = "transport" => dmode = "nats"

MCNext == (Transport /\ ClusterNext) \/ (Membership /\ DiscoveryNext)

MCFairness ==
    /\ \A w \in Workers : WF_vars(Transport /\ Work(w))
    /\ WF_vars(Transport /\ StopSteps)
    /\ \A n \in Nodes : WF_vars(Membership /\ NodeStep(n))
    /\ WF_vars(Membership /\ Deliver)

MCSpec == MCInit /\ [][MCNext]_vars /\ MCFairness
=============================================================================
