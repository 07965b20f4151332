-------------------------------- MODULE MCAcp --------------------------------
(***************************************************************************)
(* The bridge for TLC.  A behaviour begins with the choice of a load: the  *)
(* requests the editor makes and how many sessions it creates.             *)
(***************************************************************************)
EXTENDS AcpAdapter

VARIABLE load

Loads == [prompts |-> {"create", "prompt"},
          options |-> {"create", "list", "model", "effort", "none"},
          deletes |-> {"create", "prompt", "delete"},
          shared |-> {"create", "prompt", "none"}]

\* Two sessions, a lost daemon and another client only where the load is
\* about them.
InLoad ==
    /\ asked' # asked => asked'[Len(asked')].slot \in Loads[load]
    /\ Len(SelectSeq(asked', LAMBDA a : a.slot = "create")) <=
          IF load = "prompts" THEN 2 ELSE 1
    /\ load \in {"prompts", "shared"} => daemon' /\ phase' # "eof"
    /\ load \in {"options", "shared"} \/ ~daemon' => Len(asked') <= 3
    /\ load # "shared" => foreign' = 0

LoadInit == load \in DOMAIN Loads /\ AcpInit

LoadNext == AcpNext /\ InLoad /\ UNCHANGED load

LoadSpec == LoadInit /\ [][LoadNext]_<<acpVars, load>> /\ AcpFairness
==============================================================================
