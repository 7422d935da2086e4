----------------------------- MODULE MCChatTurn ------------------------------
(* Model-checking instance of ChatTurn: two sends, or one of two steps.       *)
EXTENDS ChatTurn

Bounds(sends, steps, attempts, stops, errors) ==
  [sends |-> sends, steps |-> steps, attempts |-> attempts, stops |-> stops, faults |-> errors]

\* A Stop and a failing disk around two turns; a Stop around retries; steps,
\* retries and a failing disk; a Stop between two steps.
MCSettings == {Bounds(2, 1, 1, 1, 1), Bounds(2, 1, 2, 1, 0), Bounds(1, 2, 2, 0, 1),
               Bounds(1, 2, 1, 1, 0)}
==============================================================================
