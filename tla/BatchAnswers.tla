---------------------------- MODULE BatchAnswers ----------------------------
(***************************************************************************)
(* What the execution of one response's tool calls promises: every call    *)
(* is answered exactly once, with what the tool produced or with why there *)
(* is nothing, and only a cancelled batch leaves calls without an outcome. *)
(***************************************************************************)
EXTENDS Naturals

CONSTANTS Calls, Answers

VARIABLES
    answer,    \* call -> "empty", an answer, or "unexecuted"
    over       \* "no", "completed" or "cancelled"

Init ==
    /\ answer = [c \in Calls |-> "empty"]
    /\ over = "no"

(* The calls of D get their answers, each for the first time. *)
AnswerSome ==
    /\ over = "no"
    /\ over' = "no"
    /\ \E D \in SUBSET Calls :
         /\ D # {}
         /\ \A c \in D : answer[c] = "empty"
         /\ \E f \in [D -> Answers] :
              answer' = [c \in Calls |-> IF c \in D THEN f[c] ELSE answer[c]]

Complete ==
    /\ over = "no"
    /\ \A c \in Calls : answer[c] # "empty"
    /\ over' = "completed"
    /\ UNCHANGED answer

(* A cancel marks what has no outcome. *)
Stop ==
    /\ over = "no"
    /\ over' = "cancelled"
    /\ answer' = [c \in Calls |-> IF answer[c] = "empty" THEN "unexecuted"
                                                         ELSE answer[c]]

Next == AnswerSome \/ Complete \/ Stop

Spec == Init /\ [][Next]_<<answer, over>>
=============================================================================
