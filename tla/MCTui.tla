-------------------------------- MODULE MCTui --------------------------------
(***************************************************************************)
(* The terminal client for TLC: a user who works with the session list;    *)
(* one who also uses "/session switch" and presses a key less; or one who  *)
(* edits once more, as in recalling a prompt over a draft, and presses a   *)
(* key less.                                                               *)
(***************************************************************************)
EXTENDS TuiClient

VARIABLE load

LoadInit ==
    /\ load \in {"list", "command", "edit"}
    /\ TuiInit
    /\ load = "command" => \A s \in Rooms : parent[s] = Nowhere

LoadNext ==
    /\ \/ load = "list" /\ ListNext /\ typed' < MaxTyped
       \/ load = "command" /\ TuiNext /\ keys' < MaxKeys /\ typed' < MaxTyped
       \/ load = "edit" /\ ListNext /\ keys' < MaxKeys
    /\ UNCHANGED load

LoadSpec == LoadInit /\ [][LoadNext]_<<tuiVars, load>>
==============================================================================
