---------------------------- MODULE MCTurnPlain ----------------------------
(* TurnHistory with a history variable: a session is plain until a redo, a  *)
(* tool call cut off by the token limit, or a crash.                        *)
EXTENDS MCTurnHistory

VARIABLE plain

PlainInit == Init /\ plain = TRUE
PlainNext ==
    /\ Next
    /\ plain' = (plain /\ crashes' = 0 /\ ~HandleRedo /\ ~TruncatedToolCall)
PlainSpec == PlainInit /\ [][PlainNext]_<<vars, plain>>

\* In a plain session, what a chained request leaves out is in the context of
\* the response it is chained on, across undo, errors, cancels and restarts
\* (chain_input_messages against the clearing of last_response_id).
PlainChainHoldsHistory == plain => ChainHoldsHistory
=============================================================================
