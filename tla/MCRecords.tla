------------------------------ MODULE MCRecords ------------------------------
(***************************************************************************)
(* What a session keeps, for TLC: the turns of its history, and the record *)
(* of a shell command.  The two share no state: a behaviour is about one,  *)
(* and the other stays as it began.                                        *)
(***************************************************************************)
EXTENDS MCTurnPlain, ShellTool

VARIABLE part

RecordsInit ==
    /\ part \in {"turns", "shell"}
    /\ PlainInit
    /\ ShellInit
    /\ part = "turns" => mode = "buffered"

\* A command that has returned and whose threads are over has nothing left.
RecordsNext ==
    /\ \/ part = "turns" /\ PlainNext /\ UNCHANGED shVars
       \/ part = "shell" /\ ShellNext /\ UNCHANGED <<vars, plain>>
       \/ part = "shell" /\ Returned /\ UNCHANGED <<shVars, vars, plain>>
    /\ UNCHANGED part

\* ShellFairness, for the behaviours that run a command
RecordsSpec ==
    /\ RecordsInit
    /\ [][RecordsNext]_<<vars, plain, shVars, part>>
    /\ WF_shVars(part = "shell" /\ ThreadsOfTool)

(* ShellToolEnds, of the behaviours that run a command: it returns          *)
(* whatever its processes and its client do, and if the watchdog killed it  *)
(* its threads end too, though nobody reads its output (spawn_watchdog,     *)
(* StreamByteCap::forward, collect_merger_body).                            *)
CommandEnds == part = "shell" => ShellToolEnds
==============================================================================
