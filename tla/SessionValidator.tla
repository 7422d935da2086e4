-------------------------- MODULE SessionValidator --------------------------
(***************************************************************************)
(* The cross-event rules of a session history                              *)
(* (createSessionHistoryValidator in session-base/src/invariants.ts).      *)
(*                                                                         *)
(* The validator's local variables are one record v.  An event is a record *)
(* with a field type and the identifiers its data carries; text, models,   *)
(* tools and times are left out.  Accepts(v, e) is the conjunction of the  *)
(* invariant() checks of the event's case, Apply(v, e) the assignments     *)
(* that follow them, Remembers(v, e) the keys the case saves in its undo   *)
(* maps before it assigns.  AppendBatch runs a whole append(): either every *)
(* event is applied or the undo maps put the state back.                   *)
(*                                                                         *)
(* Sequence numbers are positions: the history owner assigns them          *)
(* consecutively (session-native/src/index.ts:425), so the                 *)
(* contiguous-sequence check holds and v only counts.  Id lists are sets.  *)
(***************************************************************************)
EXTENDS Naturals, Sequences, SequencesExt

CONSTANT None   (* undefined *)

Put(f, k, x) == [y \in DOMAIN f \cup {k} |-> IF y = k THEN x ELSE f[y]]

NoMap == [x \in {} |-> None]

\* The state of a validator that has seen nothing.
Fresh ==
  [count |-> 0, openTurn |-> None, openStep |-> None, lastTurn |-> 0, lastStep |-> 0,
   requests |-> NoMap, calls |-> NoMap, approvals |-> NoMap, retries |-> NoMap,
   unresolved |-> {}, pendingApprovals |-> {}, pendingRetries |-> {},
   compactions |-> NoMap, subagents |-> {}, suspension |-> None, repairedThrough |-> 0]

InStep(v, e) == v.openTurn = e.turn /\ v.openStep = e.step

\* Unresolved calls, and pending approvals, of one step.
UnresolvedIn(v, e) ==
  {c \in v.unresolved : v.calls[c].turn = e.turn /\ v.calls[c].step = e.step}
PendingIn(v, e) ==
  {a \in v.pendingApprovals : v.approvals[a] \in DOMAIN v.calls /\
     LET c == v.calls[v.approvals[a]] IN c.turn = e.turn /\ c.step = e.step}

------------------------------------------------------------------------------
(* The checks of each case. *)

TurnOk(v, e) ==
  CASE e.type = "turn/start"   -> v.openTurn = None /\ e.turn > v.lastTurn
    [] e.type = "turn/suspend" ->
         /\ InStep(v, e)
         /\ v.suspension = None
         /\ e.callIds = UnresolvedIn(v, e)
         /\ e.approvalIds = PendingIn(v, e)
    [] e.type = "turn/resume"  ->
         /\ InStep(v, e) /\ v.suspension # None
         /\ \A c \in v.suspension.callIds :
              /\ c \in DOMAIN v.calls
              /\ v.calls[c].result
                   \/ (v.calls[c].approvalId # None /\ v.calls[c].approvalDecided)
         /\ \A a \in v.suspension.approvalIds :
              a \in DOMAIN v.approvals => v.calls[v.approvals[a]].approvalDecided
    [] e.type = "turn/end"     ->
         /\ v.openTurn = e.turn /\ v.suspension = None /\ v.openStep = None
         /\ \A c \in v.unresolved : v.calls[c].turn # e.turn
         /\ v.pendingRetries = {}

StepOk(v, e) ==
  CASE e.type = "step/start" ->
         v.openTurn = e.turn /\ v.openStep = None /\ e.step > v.lastStep
    [] e.type = "step/end"   ->
         /\ InStep(v, e) /\ v.suspension = None
         /\ \A c \in v.unresolved : v.calls[c].step # e.step

RequestOk(v, e) ==
  CASE e.type = "request/header"  -> InStep(v, e) /\ e.requestId \notin DOMAIN v.requests
    [] e.type = "request/context" -> e.requestId \in DOMAIN v.requests
    [] e.type = "request/attempt" ->
         /\ e.requestId \in DOMAIN v.requests
         /\ e.attempt = v.requests[e.requestId].lastAttempt + 1
         /\ IF e.retryId = None THEN e.attempt = 1
            ELSE /\ e.retryId \in DOMAIN v.retries
                 /\ v.retries[e.retryId] =
                      [requestId |-> e.requestId, nextAttempt |-> e.attempt,
                       state |-> "started"]
    [] e.type = "request/failure" ->
         /\ e.requestId \in DOMAIN v.requests
         /\ e.attempt = v.requests[e.requestId].lastAttempt
    [] e.type \in {"assistant/chunk", "assistant/message"} ->
         /\ e.requestId \in DOMAIN v.requests
         /\ v.requests[e.requestId].turn = e.turn /\ v.requests[e.requestId].step = e.step

\* Mutant: approvals are only decided while the turn runs.
DecidesWhileRunning(v, e) ==
  /\ v.suspension = None
  /\ e.approvalId \in DOMAIN v.approvals /\ v.approvals[e.approvalId] = e.callId
  /\ e.callId \in DOMAIN v.calls /\ ~v.calls[e.callId].approvalDecided

DecisionOk(v, e) ==
  /\ e.approvalId \in DOMAIN v.approvals /\ v.approvals[e.approvalId] = e.callId
  /\ e.callId \in DOMAIN v.calls /\ ~v.calls[e.callId].approvalDecided

ToolOk(v, e) ==
  CASE e.type = "tool/call" ->
         /\ e.requestId \in DOMAIN v.requests
         /\ v.requests[e.requestId].turn = e.turn /\ v.requests[e.requestId].step = e.step
         /\ InStep(v, e)
         /\ e.callId \notin DOMAIN v.calls
    [] e.type = "approval/request" ->
         /\ e.callId \in DOMAIN v.calls
         /\ e.approvalId \notin DOMAIN v.approvals
         /\ v.calls[e.callId].approvalId = None
    [] e.type = "approval/decision" -> DecisionOk(v, e)
    [] e.type = "tool/result" ->
         /\ e.callId \in DOMAIN v.calls
         /\ LET c == v.calls[e.callId]
            IN  /\ ~c.result /\ c.turn = e.turn /\ c.step = e.step
                /\ c.approvalId = None \/ c.approvalDecided

RetryOk(v, e) ==
  CASE e.type = "retry/scheduled" ->
         /\ e.requestId \in DOMAIN v.requests
         /\ e.previous = v.requests[e.requestId].lastAttempt /\ e.next = e.previous + 1
         /\ e.retryId \notin DOMAIN v.retries
    [] e.type = "retry/started"   ->
         /\ e.retryId \in DOMAIN v.retries
         /\ v.retries[e.retryId] = [requestId |-> e.requestId, nextAttempt |-> e.attempt,
                                    state |-> "scheduled"]
    [] e.type = "retry/cancelled" ->
         /\ e.retryId \in DOMAIN v.retries
         /\ v.retries[e.retryId].state \in {"scheduled", "started"}

CompactionIs(v, e, s) == e.compactionId \in DOMAIN v.compactions /\ v.compactions[e.compactionId] = s

NestedOk(v, e) ==
  CASE e.type = "compaction/start"   ->
         e.compactionId \notin DOMAIN v.compactions /\ e.candidateEnd < v.count
    [] e.type = "compaction/summary" -> CompactionIs(v, e, "started")
    [] e.type = "compaction/message" -> CompactionIs(v, e, "summarized")
    [] e.type = "compaction/end"     ->
         /\ e.compactionId \in DOMAIN v.compactions
         /\ e.outcome = "succeeded" => CompactionIs(v, e, "surfaced")
    [] e.type = "subagent/start"     -> e.child \notin v.subagents
    [] e.type \in {"subagent/report", "subagent/end"} -> e.child \in v.subagents

TurnTypes == {"turn/start", "turn/suspend", "turn/resume", "turn/end"}
StepTypes == {"step/start", "step/end"}
RequestTypes == {"request/header", "request/context", "request/attempt", "request/failure",
                 "assistant/chunk", "assistant/message"}
ToolTypes == {"tool/call", "approval/request", "approval/decision", "tool/result"}
RetryTypes == {"retry/scheduled", "retry/started", "retry/cancelled"}
NestedTypes == {"compaction/start", "compaction/summary", "compaction/message",
                "compaction/end", "subagent/start", "subagent/report", "subagent/end"}

\* No invariant() call of the event's case is reached.
Accepts(v, e) ==
  CASE e.type \in TurnTypes     -> TurnOk(v, e)
    [] e.type \in StepTypes     -> StepOk(v, e)
    [] e.type \in RequestTypes  -> RequestOk(v, e)
    [] e.type \in ToolTypes     -> ToolOk(v, e)
    [] e.type \in RetryTypes    -> RetryOk(v, e)
    [] e.type \in NestedTypes   -> NestedOk(v, e)
    [] e.type = "user/message"  -> v.openTurn = e.turn
    [] e.type = "context/injected" -> InStep(v, e)
    [] OTHER -> TRUE

------------------------------------------------------------------------------
(* The assignments of each case. *)

ApplyTurn(v, e) ==
  CASE e.type = "turn/start"   -> [v EXCEPT !.openTurn = e.turn, !.lastTurn = e.turn]
    [] e.type = "turn/suspend" ->
         [v EXCEPT !.suspension = [turn |-> e.turn, step |-> e.step,
                                   callIds |-> e.callIds, approvalIds |-> e.approvalIds]]
    [] e.type = "turn/resume"  -> [v EXCEPT !.suspension = None]
    [] e.type = "turn/end"     ->
         [v EXCEPT !.openTurn = None,
                   !.repairedThrough = IF e.repair THEN v.count ELSE @]

ApplyStep(v, e) ==
  IF e.type = "step/start" THEN [v EXCEPT !.openStep = e.step, !.lastStep = e.step]
  ELSE [v EXCEPT !.openStep = None]

ApplyRequest(v, e) ==
  CASE e.type = "request/header"  ->
         [v EXCEPT !.requests = Put(@, e.requestId,
            [turn |-> e.turn, step |-> e.step, lastAttempt |-> 0])]
    [] e.type = "request/attempt" ->
         [v EXCEPT !.requests[e.requestId].lastAttempt = e.attempt,
                   !.retries = IF e.retryId = None THEN @
                               ELSE [@ EXCEPT ![e.retryId].state = "consumed"],
                   !.pendingRetries = IF e.retryId = None THEN @ ELSE @ \ {e.retryId}]
    [] OTHER -> v

ApplyTool(v, e) ==
  CASE e.type = "tool/call" ->
         [v EXCEPT !.calls = Put(@, e.callId,
            [turn |-> e.turn, step |-> e.step, approvalId |-> None,
             approvalDecided |-> FALSE, result |-> FALSE]),
                   !.unresolved = @ \cup {e.callId}]
    [] e.type = "approval/request" ->
         [v EXCEPT !.approvals = Put(@, e.approvalId, e.callId),
                   !.calls[e.callId].approvalId = e.approvalId,
                   !.pendingApprovals = @ \cup {e.approvalId}]
    [] e.type = "approval/decision" ->
         [v EXCEPT !.calls[e.callId].approvalDecided = TRUE,
                   !.pendingApprovals = @ \ {e.approvalId}]
    [] e.type = "tool/result" ->
         [v EXCEPT !.calls[e.callId].result = TRUE,
                   !.unresolved = @ \ {e.callId},
                   !.repairedThrough = IF e.recovered # None THEN v.count ELSE @]

ApplyRetry(v, e) ==
  CASE e.type = "retry/scheduled" ->
         [v EXCEPT !.retries = Put(@, e.retryId,
            [requestId |-> e.requestId, nextAttempt |-> e.next, state |-> "scheduled"]),
                   !.pendingRetries = @ \cup {e.retryId}]
    [] e.type = "retry/started"   -> [v EXCEPT !.retries[e.retryId].state = "started"]
    [] e.type = "retry/cancelled" -> [v EXCEPT !.retries[e.retryId].state = "cancelled",
                                               !.pendingRetries = @ \ {e.retryId}]

ApplyNested(v, e) ==
  CASE e.type = "compaction/start"   ->
         [v EXCEPT !.compactions = Put(@, e.compactionId, "started")]
    [] e.type = "compaction/summary" ->
         [v EXCEPT !.compactions[e.compactionId] = "summarized"]
    [] e.type = "compaction/message" ->
         [v EXCEPT !.compactions[e.compactionId] = "surfaced"]
    [] e.type = "compaction/end"     ->
         [v EXCEPT !.compactions = [x \in DOMAIN @ \ {e.compactionId} |-> @[x]]]
    [] e.type = "subagent/start"     -> [v EXCEPT !.subagents = @ \cup {e.child}]
    [] e.type = "subagent/end"       -> [v EXCEPT !.subagents = @ \ {e.child}]
    [] OTHER -> v

\* The state after an accepted event.
Apply(v, e) ==
  LET w == CASE e.type \in TurnTypes    -> ApplyTurn(v, e)
             [] e.type \in StepTypes    -> ApplyStep(v, e)
             [] e.type \in RequestTypes -> ApplyRequest(v, e)
             [] e.type \in ToolTypes    -> ApplyTool(v, e)
             [] e.type \in RetryTypes   -> ApplyRetry(v, e)
             [] e.type \in NestedTypes  -> ApplyNested(v, e)
             [] OTHER -> v
  IN  [w EXCEPT !.count = @ + 1]

------------------------------------------------------------------------------
(* append(): a batch with its undo maps. *)

\* Mutant: request/attempt does not save the retry it consumes.
AttemptForgets(e) == {<<"requests", e.requestId>>}

AttemptRemembers(e) ==
  {<<"requests", e.requestId>>} \cup
    (IF e.retryId = None THEN {}
     ELSE {<<"retries", e.retryId>>, <<"pendingRetries", e.retryId>>})

\* The entries the case saves (remember, rememberObject, rememberSet and
\* rememberSubagent) before it changes them, as <<container, key>>.
Remembers(e) ==
  CASE e.type = "request/header"  -> {<<"requests", e.requestId>>}
    [] e.type = "request/attempt" -> AttemptRemembers(e)
    [] e.type \in {"tool/call", "tool/result"} ->
         {<<"calls", e.callId>>, <<"unresolved", e.callId>>}
    [] e.type = "approval/request" ->
         {<<"approvals", e.approvalId>>, <<"calls", e.callId>>,
          <<"pendingApprovals", e.approvalId>>}
    [] e.type = "approval/decision" ->
         {<<"calls", e.callId>>, <<"pendingApprovals", e.approvalId>>}
    [] e.type \in {"retry/scheduled", "retry/cancelled"} ->
         {<<"retries", e.retryId>>, <<"pendingRetries", e.retryId>>}
    [] e.type = "retry/started" -> {<<"retries", e.retryId>>}
    [] e.type \in {"compaction/start", "compaction/summary", "compaction/message",
                   "compaction/end"} -> {<<"compactions", e.compactionId>>}
    [] e.type \in {"subagent/start", "subagent/end"} -> {<<"subagents", e.child>>}
    [] OTHER -> {}

SetContainers == {"unresolved", "pendingApprovals", "pendingRetries", "subagents"}

\* What an undo map holds for <<container, key>>: membership, or the set of the
\* old value, which is empty when there was none.
Old(v, p) ==
  IF p[1] \in SetContainers THEN p[2] \in v[p[1]]
  ELSE {v[p[1]][k] : k \in DOMAIN v[p[1]] \cap {p[2]}}

\* The first value saved for a key is kept.
Remember(undo, v, e) ==
  [p \in DOMAIN undo \cup Remembers(e) |->
     IF p \in DOMAIN undo THEN undo[p] ELSE Old(v, p)]

\* The catch block: the scalars of the state before the batch, and every
\* saved entry put back into its container.
Restore(v, before, undo) ==
  LET saved(name) == {p[2] : p \in {q \in DOMAIN undo : q[1] = name}}
      map(name) ==
        [x \in (DOMAIN v[name] \ saved(name)) \cup
               {k \in saved(name) : undo[<<name, k>>] # {}} |->
           IF x \in saved(name) THEN CHOOSE y \in undo[<<name, x>>] : TRUE ELSE v[name][x]]
      set(name) == (v[name] \ saved(name)) \cup {k \in saved(name) : undo[<<name, k>>]}
  IN  [v EXCEPT !.count = before.count, !.openTurn = before.openTurn,
        !.openStep = before.openStep, !.lastTurn = before.lastTurn,
        !.lastStep = before.lastStep, !.suspension = before.suspension,
        !.repairedThrough = before.repairedThrough,
        !.requests = map("requests"), !.calls = map("calls"),
        !.approvals = map("approvals"), !.retries = map("retries"),
        !.compactions = map("compactions"), !.unresolved = set("unresolved"),
        !.pendingApprovals = set("pendingApprovals"),
        !.pendingRetries = set("pendingRetries"), !.subagents = set("subagents")]

\* One event of the loop of append(), from r = [v, undo, ok]: the validator, what
\* was saved, and that nothing was thrown.
Checked(r, e) ==
  IF r.ok /\ Accepts(r.v, e)
  THEN [v |-> Apply(r.v, e), undo |-> Remember(r.undo, r.v, e), ok |-> TRUE]
  ELSE [v |-> r.v, undo |-> r.undo, ok |-> FALSE]

\* The loop after each event of the batch.  (The bound variable r makes TLC
\* evaluate what the loop left before once per event.)
Loop(v, batch) ==
  LET loop[n \in 0 .. Len(batch)] ==
        IF n = 0 THEN [v |-> v, undo |-> NoMap, ok |-> TRUE]
        ELSE CHOOSE x \in {Checked(r, batch[n]) : r \in {loop[n - 1]}} : TRUE
  IN  loop

\* append(batch): [v |-> state afterwards, ok |-> it did not throw].
AppendBatch(v, batch) ==
  LET end == Loop(v, batch)[Len(batch)]
  IN  [v |-> IF end.ok THEN end.v ELSE Restore(end.v, v, end.undo), ok |-> end.ok]

\* validateSessionHistory(events): a fresh validator over the whole history.
Replay(events) == AppendBatch(Fresh, events)

\* report() names something that is still open.
IsOpen(v) ==
  \/ v.openTurn # None \/ v.openStep # None
  \/ v.unresolved # {} \/ v.pendingApprovals # {} \/ v.pendingRetries # {}
  \/ DOMAIN v.compactions # {} \/ v.subagents # {}
=============================================================================
