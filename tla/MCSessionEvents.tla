--------------------------- MODULE MCSessionEvents ---------------------------
(* Model-checking instance of SessionEvents.  One behaviour draws its events  *)
(* from one of four alphabets, each of which exercises a group of rules.      *)
EXTENDS SessionEvents

CONSTANTS r1, r2, c1, c2, a1, t1, t2, k1, s1

Turn == <<[type |-> "turn/start", turn |-> 1]>>
Step == Turn \o <<[type |-> "step/start", turn |-> 1, step |-> 1]>>
Request == Step \o <<[type |-> "request/header", turn |-> 1, step |-> 1, requestId |-> r1]>>

Nothing == [types |-> {}, turns |-> 1 .. 2, steps |-> 1 .. 1, requests |-> {},
            calls |-> {}, approvals |-> {}, retries |-> {}, compactions |-> {},
            children |-> {}, start |-> <<>>, max |-> 0]

\* Two calls, one with an approval; the turn may be suspended for them.
Tools == [Nothing EXCEPT
  !.types = ToolTypes \cup {"turn/suspend", "turn/resume", "turn/end", "step/end"},
  !.requests = {r1}, !.calls = {c1, c2}, !.approvals = {a1}, !.start = Request, !.max = 6]

\* Two steps of a turn with streamed output and the call it asks for.
Steps == [Nothing EXCEPT
  !.types = StepTypes \cup {"turn/end", "request/header", "assistant/chunk",
                            "assistant/message", "tool/call", "tool/result"},
  !.steps = 1 .. 2, !.requests = {r1, r2}, !.calls = {c1}, !.start = Request, !.max = 5]

\* Attempts and retries of one request.
Retries == [Nothing EXCEPT
  !.types = RetryTypes \cup {"request/attempt", "request/failure", "step/end", "turn/end",
                             "turn/start"},
  !.requests = {r1}, !.retries = {t1, t2}, !.start = Request, !.max = 6]

\* A compaction and a child session around turns.
Nested == [Nothing EXCEPT
  !.types = NestedTypes \cup {"turn/start", "turn/end"},
  !.compactions = {k1}, !.children = {s1}, !.start = Turn, !.max = 6]

MCSettings == {Tools, Steps, Retries, Nested}
=============================================================================
