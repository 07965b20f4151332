------------------------------ MODULE MCClients ------------------------------
(***************************************************************************)
(* Two clients of the daemon for TLC: the connections whose subscriptions  *)
(* it has to forget, and the ACP bridge.  The two specifications share no  *)
(* state.  A behaviour begins with the choice of a load of the bridge, or  *)
(* of the deliveries, and the other stays in its initial state, where no   *)
(* action that is treated fairly is enabled.                               *)
(***************************************************************************)
EXTENDS Delivery, MCAcp

ClientsInit ==
    /\ load \in DOMAIN Loads \cup {"deliveries"}
    /\ Init
    /\ AcpInit

ClientsNext ==
    \/ load = "deliveries" /\ Next /\ UNCHANGED <<acpVars, load>>
    \/ load # "deliveries" /\ LoadNext /\ UNCHANGED vars

ClientsSpec ==
    /\ ClientsInit
    /\ [][ClientsNext]_<<vars, acpVars, load>>
    /\ Fairness
    /\ AcpFairness
==============================================================================
