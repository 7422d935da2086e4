---------------------------- MODULE SessionEvents ----------------------------
(***************************************************************************)
(* Histories of one session: what writers may append under the validator's *)
(* rules (SessionValidator), and the repair of a tail left open by a crash *)
(* (planSessionTailRepair in session-base/src/repair.ts, applied by        *)
(* loadForContinuation in session-native/src/index.ts).                    *)
(*                                                                         *)
(* hist is the committed history, v the state of the incremental validator *)
(* the store keeps beside it.  Every prefix of a history is itself a       *)
(* reachable state, so a crash needs no action of its own: what a crash    *)
(* leaves is some reachable hist.  A repair may be torn as well: of the    *)
(* events it appends only some reach the disk.                             *)
(***************************************************************************)
EXTENDS SessionValidator, FiniteSets

CONSTANTS Settings,    (* alphabets: records [types, turns, steps, requests, calls,
                          approvals, retries, compactions, children] of the events in
                          use, start (the history they extend) and max (bound: events
                          appended by writers) *)
          MaxRepairs   (* bound: repairs of one history *)

\* The identifiers of an event that a validator compares with undefined.
Defined(e) ==
  /\ e.type \in {"turn/start", "step/start"} => e.turn # None
  /\ e.type = "approval/request" => e.approvalId # None
  /\ e.type = "retry/scheduled" => e.retryId # None

\* None is no identifier, and a start is a legal history that no crash has touched yet.
ASSUME EventsAssumption ==
  /\ MaxRepairs \in Nat /\ None # 0 /\ None # "not-started"
  /\ \A s \in Settings :
       /\ s.max \in Nat
       /\ None \notin s.turns \cup s.approvals \cup s.retries
       /\ s.start \in Seq(Range(s.start)) /\ Replay(s.start).ok
       /\ \A e \in Range(s.start) :
            /\ Defined(e)
            /\ e.type = "tool/result" => e.recovered = None
            /\ e.type = "assistant/message" => IsFiniteSet(e.wants)

VARIABLES
  setting,   \* the alphabet of this behaviour, constant
  hist,      \* committed events
  v,         \* the incremental validator
  written,   \* events appended by writers, repairs not counted
  repairs,   \* repairs so far
  torn       \* the last repair was cut short by a crash

vars == <<setting, hist, v, written, repairs, torn>>

------------------------------------------------------------------------------
(* Events a writer may hand to append(), from the identifiers in use. *)

TurnOf == IF v.openTurn = None THEN v.lastTurn ELSE v.openTurn
StepOf == IF v.openStep = None THEN v.lastStep ELSE v.openStep

TurnEvents ==
  [type : {"turn/start"}, turn : setting.turns]
    \cup [type : {"turn/end"}, turn : {TurnOf}, repair : {FALSE}]

StepEvents == [type : {"step/start"}, turn : {TurnOf}, step : setting.steps]
                \cup [type : {"step/end"}, turn : {TurnOf}, step : {StepOf}]

RequestEvents ==
  [type : {"request/header", "assistant/chunk"}, turn : {TurnOf}, step : {StepOf},
   requestId : setting.requests]
    \cup [type : {"assistant/message"}, turn : {TurnOf}, step : {StepOf},
          requestId : setting.requests, wants : {{}} \cup {{c} : c \in setting.calls}]

ToolEvents ==
  [type : {"tool/call"}, turn : {TurnOf}, step : {StepOf}, requestId : setting.requests,
   callId : setting.calls, repair : {FALSE}]
    \cup [type : {"tool/result"}, turn : {TurnOf}, step : {StepOf},
          callId : setting.calls, recovered : {None}]
    \cup [type : {"approval/request", "approval/decision"}, callId : setting.calls,
          approvalId : setting.approvals]

SuspendEvents ==
  [type : {"turn/suspend"}, turn : {TurnOf}, step : {StepOf},
   callIds : SUBSET v.unresolved, approvalIds : SUBSET v.pendingApprovals]
    \cup [type : {"turn/resume"}, turn : {TurnOf}, step : {StepOf}]

RetryEvents ==
  [type : {"request/attempt"}, requestId : setting.requests, attempt : 1 .. 2,
   retryId : setting.retries \cup {None}]
    \cup [type : {"request/failure"}, requestId : setting.requests, attempt : 1 .. 2]
    \cup [type : {"retry/scheduled"}, retryId : setting.retries,
          requestId : setting.requests, previous : 0 .. 1, next : 1 .. 2]
    \cup [type : {"retry/started"}, retryId : setting.retries,
          requestId : setting.requests, attempt : 1 .. 2]
    \cup [type : {"retry/cancelled"}, retryId : setting.retries]

NestedEvents ==
  [type : {"compaction/start"}, compactionId : setting.compactions, candidateEnd : {0}]
    \cup [type : {"compaction/summary", "compaction/message"},
          compactionId : setting.compactions]
    \cup [type : {"compaction/end"}, compactionId : setting.compactions,
          outcome : {"succeeded", "cancelled"}]
    \cup [type : {"subagent/start", "subagent/report", "subagent/end"},
          child : setting.children]

Events ==
  {e \in TurnEvents \cup StepEvents \cup RequestEvents \cup ToolEvents
           \cup SuspendEvents \cup RetryEvents \cup NestedEvents :
     e.type \in setting.types}

------------------------------------------------------------------------------
(* planSessionTailRepair: read from the events, not from the validator. *)

Of(h, type) == {h[i] : i \in {j \in DOMAIN h : h[j].type = type}}

\* Approvals requested and never decided.
Undecided(h) ==
  {e \in Of(h, "approval/request") :
     e.approvalId \notin {d.approvalId : d \in Of(h, "approval/decision")}}

\* Requests of the open step with streamed text and no assistant message.
Streamed(h, w) ==
  {e \in Of(h, "assistant/chunk") :
     /\ e.turn = w.openTurn /\ e.step = w.openStep
     /\ e.requestId \notin {m.requestId : m \in Of(h, "assistant/message")}}

\* requestedCalls: calls an assistant message of the open step asks for and
\* nobody recorded; the last message that names a call wins.
Wanted(h, w) ==
  LET asks(i, c) == /\ h[i].type = "assistant/message" /\ c \in h[i].wants
                    /\ h[i].turn = w.openTurn /\ h[i].step = w.openStep
      names == (UNION {m.wants : m \in Of(h, "assistant/message")})
                 \ {e.callId : e \in Of(h, "tool/call")}
      last(c) == CHOOSE i \in DOMAIN h : asks(i, c) /\ \A j \in DOMAIN h : j > i => ~asks(j, c)
      call(i, c) == [turn |-> h[i].turn, step |-> h[i].step, requestId |-> h[i].requestId,
                     callId |-> c]
  IN  {call(last(c), c) : c \in {n \in names : \E i \in DOMAIN h : asks(i, n)}}

\* retryStates that are not closed.
OpenRetries(h) ==
  {e.retryId : e \in Of(h, "retry/scheduled")}
    \ ({e.retryId : e \in Of(h, "retry/cancelled")}
         \cup {e.retryId : e \in Of(h, "request/attempt")})

\* openCompactions and openSubagents: started after their last end.
LeftOpen(h, start, end, id) ==
  {h[i][id] : i \in {j \in DOMAIN h :
     /\ h[j].type = start
     /\ \A k \in DOMAIN h : k > j => ~(h[k].type = end /\ h[k][id] = h[j][id])}}

Recovered(c, how) ==
  [type |-> "tool/result", turn |-> c.turn, step |-> c.step, callId |-> c.callId,
   recovered |-> how]

\* Mutant: an interrupted call is said not to have started.
SaysNotStarted(c) == Recovered(c, "not-started")

\* A recorded call whose result is missing: its body may have run.
Interrupted(c) == Recovered(c, "outcome-unknown")

\* The events of a function, one for each element of its domain.
InAnyOrder(event) ==
  LET s == SetToSeq(DOMAIN event) IN [i \in DOMAIN s |-> event[s[i]]]

\* Mutant: the interrupted retries are left as they are.
CancelNoRetries(h) == <<>>

CancelRetries(h) ==
  InAnyOrder([t \in OpenRetries(h) |-> [type |-> "retry/cancelled", retryId |-> t]])

Decisions(h) ==
  InAnyOrder([e \in Undecided(h) |->
    [type |-> "approval/decision", approvalId |-> e.approvalId, callId |-> e.callId]])

Messages(h, w) ==
  InAnyOrder([r \in {e.requestId : e \in Streamed(h, w)} |->
    [type |-> "assistant/message", turn |-> w.openTurn, step |-> w.openStep,
     requestId |-> r, wants |-> {}]])

\* Every call that is wanted, followed by its result.
NotStarted(h, w) ==
  LET s == SetToSeq(Wanted(h, w))
      call(c) == [type |-> "tool/call", turn |-> c.turn, step |-> c.step,
                  requestId |-> c.requestId, callId |-> c.callId, repair |-> TRUE]
  IN  [i \in 1 .. 2 * Len(s) |->
         IF i % 2 = 1 THEN call(s[(i + 1) \div 2]) ELSE Recovered(s[i \div 2], "not-started")]

Unknown(h, w) ==
  LET recorded(c) == CHOOSE e \in Of(h, "tool/call") : e.callId = c
  IN  InAnyOrder([c \in w.unresolved \ {e.callId : e \in Of(h, "tool/result")} |->
                    Interrupted(recorded(c))])

EndCompactions(h) ==
  InAnyOrder([k \in LeftOpen(h, "compaction/start", "compaction/end", "compactionId") |->
    [type |-> "compaction/end", compactionId |-> k, outcome |-> "cancelled"]])

EndSubagents(h) ==
  InAnyOrder([c \in LeftOpen(h, "subagent/start", "subagent/end", "child") |->
    [type |-> "subagent/end", child |-> c]])

EndTurn(w) ==
  (IF w.openStep = None \/ w.openTurn = None THEN <<>>
   ELSE <<[type |-> "step/end", turn |-> w.openTurn, step |-> w.openStep]>>)
  \o (IF w.openTurn = None THEN <<>>
      ELSE <<[type |-> "turn/end", turn |-> w.openTurn, repair |-> TRUE]>>)

\* The appends that close the tail of h; none while the turn is suspended.
Plan(h) ==
  LET w == Replay(h).v
  IN  IF w.suspension # None \/ ~IsOpen(w) THEN <<>>
      ELSE Decisions(h) \o Messages(h, w) \o NotStarted(h, w) \o Unknown(h, w)
             \o CancelRetries(h) \o EndCompactions(h) \o EndSubagents(h) \o EndTurn(w)

------------------------------------------------------------------------------
Init ==
  /\ setting \in Settings
  /\ hist = setting.start
  /\ v = Replay(setting.start).v
  /\ written = 0
  /\ repairs = 0
  /\ torn = FALSE

\* A writer's append of one event.  Writers of a session that was reopened wait
\* for loadForContinuation (ai-chat-native/src/runtime.ts:346-352).
Append1(e) ==
  LET r == AppendBatch(v, <<e>>)
  IN  /\ ~torn /\ written < setting.max
      /\ r.ok
      /\ v' = r.v
      /\ hist' = Append(hist, e)
      /\ written' = written + 1
      /\ UNCHANGED <<setting, repairs, torn>>

\* A batch refused at its third event, after two that were applied: nothing is
\* committed.  The refused event reports on a child that was never started.
AppendRefused(e1, e2) ==
  LET bad == [type |-> "subagent/report", child |-> None]
      r == AppendBatch(v, <<e1, e2, bad>>)
  IN  /\ ~torn /\ written < setting.max
      /\ Accepts(v, e1) /\ Accepts(Apply(v, e1), e2) /\ ~r.ok
      /\ v' = r.v
      /\ UNCHANGED <<setting, hist, written, repairs, torn>>

\* loadForContinuation after a crash: the first n events of the plan reach the
\* disk, all of them unless the repair is torn by the next crash.
Repair(n) ==
  LET plan == SubSeq(Plan(hist), 1, n)
      r == AppendBatch(v, plan)
  IN  /\ repairs < MaxRepairs
      /\ r.ok
      /\ v' = r.v
      /\ hist' = hist \o plan
      /\ repairs' = repairs + 1
      /\ torn' = (n < Len(Plan(hist)))
      /\ UNCHANGED <<setting, written>>

Next ==
  \/ \E e \in Events : Append1(e)
  \/ \E e1 \in Events, e2 \in Events : AppendRefused(e1, e2)
  \/ \E n \in 1 .. Len(Plan(hist)) : Repair(n)

Spec == Init /\ [][Next]_vars

------------------------------------------------------------------------------
\* The incremental validator of the store knows exactly what a fresh validator
\* learns from the committed history, whatever batches were refused half-way:
\* the undo maps of invariants.ts:485-507 forget nothing.
ValidatorMatchesHistory == Replay(hist) = [v |-> v, ok |-> TRUE]

\* Wherever a crash (or a torn repair) leaves a history, the repair planned
\* from its events is accepted by the validator and closes everything that was
\* open; a suspended turn is left for its human.
RepairCloses ==
  LET r == AppendBatch(v, Plan(hist))
  IN  r.ok /\ (v.suspension = None => ~IsOpen(r.v))

\* Answers to everything a suspended step waits for, and the resumption.
Answers ==
  InAnyOrder([a \in PendingIn(v, v.suspension) |->
    [type |-> "approval/decision", approvalId |-> a, callId |-> v.approvals[a]]])
    \o InAnyOrder([c \in UnresolvedIn(v, v.suspension) |->
         [type |-> "tool/result", turn |-> v.calls[c].turn, step |-> v.calls[c].step,
          callId |-> c, recovered |-> None]])
    \o <<[type |-> "turn/resume", turn |-> v.openTurn, step |-> v.openStep]>>

\* A suspended turn is never a dead end: once its approvals are decided and its
\* calls have results, turn/resume is legal.
SuspensionCanBeAnswered == v.suspension # None => AppendBatch(v, Answers).ok

\* A repair says "not started" only of a call that no program recorded: a call
\* that was durable before its body could run is reported as unknown at best.
NotStartedIsNeverGuessed ==
  \A r \in Of(hist, "tool/result") : r.recovered = "not-started" =>
    \A c \in Of(hist, "tool/call") : c.callId = r.callId => c.repair
=============================================================================
