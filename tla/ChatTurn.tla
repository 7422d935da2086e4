------------------------------ MODULE ChatTurn -------------------------------
(***************************************************************************)
(* The turns of one chat: sendMessages with its request retries, its       *)
(* stream recorder and the gate that closes a turn before the next one     *)
(* opens (ai-chat-native/src/chatRuntime.ts, requestRetry.ts), Stop, and   *)
(* the history appends they make (ai-chat-native/src/runtime.ts) under the *)
(* rules of SessionValidator.  Tool calls are the subject of ToolExecution *)
(* and do not occur here, so a turn is never suspended.                    *)
(*                                                                         *)
(* Everything runs in one renderer.  The chat's history operations go      *)
(* through one queue (enqueueSession); one action is the code between two  *)
(* awaits.  The AI SDK and the provider are outside: they produce output,  *)
(* fail, or end, at any moment, and end once they are aborted.  A send     *)
(* begins when the SDK is done with the one before it (the composer is     *)
(* disabled meanwhile), which may be before its turn is closed.            *)
(***************************************************************************)
EXTENDS SessionValidator, FiniteSets

CONSTANTS MaxSends,   (* bound: sendMessages calls *)
          Settings    (* further bounds: records [sends, steps (of a turn), attempts (of
                         a request), stops, faults (appends that fail)] *)

\* Undefined is no number, no handle and no retry.
ASSUME ChatAssumption ==
  /\ MaxSends \in Nat
  /\ None \notin Nat \cup [turn : Nat, step : Nat] \cup ([turn : Nat, step : Nat] \X Nat)
  /\ Settings \subseteq [sends : 0 .. MaxSends, steps : Nat \ {0}, attempts : Nat \ {0},
                         stops : Nat, faults : Nat]

Sends == 1 .. MaxSends

VARIABLES
  v,        \* the validator of the session's history
  closed,   \* ends in the history: <<turn, step>>, and <<turn, 0>> for the turn
  queue,    \* jobs of enqueueSession: [kind, of, batch]
  tx,       \* the sendMessages calls
  rec,      \* their stream recorders
  gate,     \* their turn closures
  active,   \* active.get(sessionId): the send whose closure is registered
  stop,     \* the Stop in progress: [at, on, used]
  env       \* the bounds of this behaviour, and the appends that failed so far

vars == <<v, closed, queue, tx, rec, gate, active, stop, env>>

\* A call of sendMessages: where it is; the closure it waits for; its handle;
\* the abort signal; attempt, exposed and progress of the retry loop; the step
\* the provider is in, whether it has produced output, and what follows it.
NoSend ==
  [at |-> "away", on |-> 0, handle |-> None, aborted |-> FALSE, try |-> 1,
   exposed |-> FALSE, loop |-> "invoke", step |-> 1, said |-> FALSE, next |-> "none"]

\* Parts not yet mapped, the chunk batch, the persistence lane, its failure,
\* and persistedSteps.
NoRecorder == [parts |-> <<>>, batch |-> <<>>, lane |-> <<>>, busy |-> FALSE,
               failed |-> FALSE, persisted |-> 0]

\* TurnClosureState: the progress of closePromise, how the turn ends, the handle
\* its last append was made with, and recovery.
NoClosure == [closing |-> "none", end |-> None, handle |-> None, recovery |-> "none"]

Init ==
  /\ v = Fresh /\ closed = {} /\ queue = <<>>
  /\ tx = [s \in Sends |-> NoSend]
  /\ rec = [s \in Sends |-> NoRecorder]
  /\ gate = [s \in Sends |-> NoClosure]
  /\ active = None
  /\ stop = [at |-> "idle", on |-> 0, used |-> 0]
  /\ env \in {[bounds |-> b, faults |-> 0] : b \in Settings}

------------------------------------------------------------------------------
(* Batches of events.  A request is named by the step it is made for. *)

At(type, h) == [type |-> type, turn |-> h.turn, step |-> h.step, requestId |-> h]

TurnEnd(h, repair) == [type |-> "turn/end", turn |-> h.turn, repair |-> repair]

Attempt(h, n, retry) ==
  [type |-> "request/attempt", requestId |-> h, attempt |-> n, retryId |-> retry]

Failure(h, n) == [type |-> "request/failure", requestId |-> h, attempt |-> n]

\* chatRequestEvents.
Request(h) == <<At("request/header", h), At("request/context", h), Attempt(h, 1, None)>>

\* nextTurnAndStep and the events of beginChatTurn.
FirstHandle == [turn |-> v.lastTurn + 1, step |-> v.lastStep + 1]
BeginBatch(h) == <<At("turn/start", h), At("user/message", h), At("step/start", h)>> \o Request(h)

\* The handle and the events of beginNextChatStep.
NextHandle(h) == [h EXCEPT !.step = @ + 1]
NextBatch(h) ==
  <<At("step/end", h), At("step/start", NextHandle(h))>> \o Request(NextHandle(h))

RetryOf(h, n) == <<h, n>>

ScheduleBatch(h, n) ==
  <<Failure(h, n), [type |-> "retry/scheduled", retryId |-> RetryOf(h, n), requestId |-> h,
                    previous |-> n, next |-> n + 1]>>

RetryStarted(h, n) ==
  [type |-> "retry/started", retryId |-> RetryOf(h, n), requestId |-> h, attempt |-> n + 1]

\* Mutant: the attempt a retry starts is not recorded.
StartsUnrecorded(h, n) == <<RetryStarted(h, n)>>

StartBatch(h, n) ==
  <<RetryStarted(h, n), Attempt(h, n + 1, RetryOf(h, n))>>

Cancels(r) == [type |-> "retry/cancelled", retryId |-> r]

\* How a turn is closed: with the response, complete or interrupted
\* (settleChatProviderEnd), as aborted (abortChatTurn), or as failed with the
\* attempt it names (failChatTurn).
Completed == [how |-> "complete", attempt |-> 0]
Interrupted == [how |-> "interrupt", attempt |-> 0]
Cancelled == [how |-> "abort", attempt |-> 0]
FailedAt(n) == [how |-> "fail", attempt |-> n]

EndBatch(h, end) ==
  (CASE end.how \in {"complete", "interrupt"} -> <<At("assistant/message", h)>>
     [] end.how = "fail"  -> <<Failure(h, end.attempt)>>
     [] end.how = "abort" -> <<>>)
    \o <<At("step/end", h), TurnEnd(h, FALSE)>>

\* The repair of loadForContinuation, for a tail without calls.
RepairBatch ==
  LET retries == SetToSeq(v.pendingRetries)
  IN  [i \in DOMAIN retries |-> Cancels(retries[i])]
    \o (IF v.openStep = None THEN <<>>
        ELSE <<At("step/end", [turn |-> v.openTurn, step |-> v.openStep])>>)
    \o (IF v.openTurn = None THEN <<>>
        ELSE <<TurnEnd([turn |-> v.openTurn], TRUE)>>)

EndsIn(batch) ==
  {<<e.turn, e.step>> : e \in {x \in Range(batch) : x.type = "step/end"}}
    \cup {<<e.turn, 0>> : e \in {x \in Range(batch) : x.type = "turn/end"}}

------------------------------------------------------------------------------
(* The queue. *)

Job(kind, s, batch) == [kind |-> kind, of |-> s, batch |-> batch]

Enqueue(kind, s, batch) == queue' = Append(queue, Job(kind, s, batch))

Runs(kind, s) ==
  /\ queue # <<>> /\ Head(queue).kind = kind /\ Head(queue).of = s
  /\ queue' = Tail(queue)

\* The job at the head has run, and the code after it made another.
RunsThen(kind, s, next, batch) ==
  /\ queue # <<>> /\ Head(queue).kind = kind /\ Head(queue).of = s
  /\ queue' = Append(Tail(queue), Job(next, s, batch))

Stores(batch) ==
  /\ v' = AppendBatch(v, batch).v
  /\ closed' = closed \cup EndsIn(batch)

\* history.append returns.
Takes(batch) == AppendBatch(v, batch).ok /\ Stores(batch) /\ UNCHANGED env

\* history.append throws: the events break a rule, or the disk failed before or
\* after they were written.
Throws(batch) ==
  \/ ~AppendBatch(v, batch).ok /\ UNCHANGED <<v, closed, env>>
  \/ /\ AppendBatch(v, batch).ok /\ env.faults < env.bounds.faults
     /\ env' = [env EXCEPT !.faults = @ + 1]
     /\ Stores(batch) \/ UNCHANGED <<v, closed>>

------------------------------------------------------------------------------
(* The turn closure gate. *)

\* close(work) and the stop branch without a closePromise: the first caller's
\* work runs, the others get its promise.
Closing(s, end) ==
  gate' = IF gate[s].closing # "none" THEN gate
          ELSE [gate EXCEPT ![s].closing = "drain", ![s].end = end]

\* recording.drain found both lanes quiet.
Quiet(s) == rec[s].parts = <<>> /\ rec[s].batch = <<>> /\ rec[s].lane = <<>> /\ ~rec[s].busy

\* The closing work behind the drain, with activeTurnHandle read now.
ClosureSaves(s) ==
  /\ gate[s].closing = "drain" /\ Quiet(s)
  /\ Enqueue("close", s, EndBatch(tx[s].handle, gate[s].end))
  /\ gate' = [gate EXCEPT ![s].closing = "saving", ![s].handle = tx[s].handle]
  /\ UNCHANGED <<v, closed, tx, rec, active, stop, env>>

Deleted(s) == IF active = s THEN None ELSE active

\* Mutant: a refused append is taken for a turn that is closed already.
RefusedIsClosed(s, ends) == TRUE

\* appendForOpenHandle after a throw: the history holds the end of the handle's
\* step or turn.
AlreadyClosed(s, ends) ==
  <<gate[s].handle.turn, gate[s].handle.step>> \in ends \/ <<gate[s].handle.turn, 0>> \in ends

\* The closing append and the handlers of closePromise: resolve and unregister,
\* or reject and stay registered.
CloseRuns(s) ==
  /\ Runs("close", s)
  /\ \/ /\ Takes(Head(queue).batch)
        /\ gate' = [gate EXCEPT ![s].closing = "ok"]
        /\ active' = Deleted(s)
     \/ /\ Throws(Head(queue).batch)
        /\ AlreadyClosed(s, closed')
        /\ gate' = [gate EXCEPT ![s].closing = "ok"]
        /\ active' = Deleted(s)
     \/ /\ Throws(Head(queue).batch)
        /\ ~AlreadyClosed(s, closed')
        /\ gate' = [gate EXCEPT ![s].closing = "failed"]
        /\ UNCHANGED active
  /\ UNCHANGED <<tx, rec, stop>>

\* recoverOrThrow: one recovery for all who wait for it.
Recovering(s) ==
  IF gate[s].recovery = "none"
  THEN Enqueue("recover", s, <<>>) /\ gate' = [gate EXCEPT ![s].recovery = "running"]
  ELSE UNCHANGED <<queue, gate>>

\* Mutant: a failed closure is not reported to those who wait for it.
NeverRejected(s) == FALSE

\* state.done is rejected.
Rejected(s) == gate[s].closing = "failed"

\* Those who await the recovery of s go on, or throw.
Resumed(s, goesOn) ==
  [t \in Sends |-> IF tx[t].at = "repair" /\ tx[t].on = s
                   THEN [tx[t] EXCEPT !.at = IF goesOn THEN "prepare" ELSE "over"]
                   ELSE tx[t]]

RecoverRuns(s) ==
  /\ Runs("recover", s)
  /\ \/ /\ Takes(RepairBatch)
        /\ gate' = [gate EXCEPT ![s].recovery = "done"]
        /\ active' = Deleted(s)
        /\ tx' = Resumed(s, TRUE)
     \/ /\ Throws(RepairBatch)
        /\ gate' = [gate EXCEPT ![s].recovery = "none"]
        /\ tx' = Resumed(s, FALSE)
        /\ UNCHANGED active
  /\ stop' = IF stop.at = "repair" /\ stop.on = s THEN [stop EXCEPT !.at = "idle"] ELSE stop
  /\ UNCHANGED rec

------------------------------------------------------------------------------
(* sendMessages up to its stream. *)

\* Mutant: a send does not wait for the closure of the turn before it.
OpensAtOnce == [at |-> "prepare", on |-> 0]

\* beforeOpen: wait for the registered closure.
BeforeOpen == IF active = None THEN [at |-> "prepare", on |-> 0]
              ELSE [at |-> "gate", on |-> active]

SendMessages(s) ==
  /\ tx[s].at = "away" /\ s <= env.bounds.sends
  /\ \A t \in Sends : t < s => tx[t].at = "over"
  /\ tx' = [tx EXCEPT ![s].at = BeforeOpen.at, ![s].on = BeforeOpen.on]
  /\ UNCHANGED <<v, closed, queue, rec, gate, active, stop, env>>

\* await state.done.
DoneResolves(s) ==
  /\ tx[s].at = "gate" /\ gate[tx[s].on].closing = "ok"
  /\ tx' = [tx EXCEPT ![s].at = "prepare"]
  /\ UNCHANGED <<v, closed, queue, rec, gate, active, stop, env>>

DoneRejects(s) ==
  /\ tx[s].at = "gate" /\ Rejected(tx[s].on)
  /\ Recovering(tx[s].on)
  /\ tx' = [tx EXCEPT ![s].at = IF gate[tx[s].on].recovery = "done" THEN "prepare" ELSE "repair"]
  /\ UNCHANGED <<v, closed, rec, active, stop, env>>

\* ensureOwnedSession and prepareOwnedSessionForContinuation.
Prepare(s) ==
  /\ tx[s].at = "prepare"
  /\ Enqueue("prepare", s, <<>>)
  /\ tx' = [tx EXCEPT ![s].at = "preparing"]
  /\ UNCHANGED <<v, closed, rec, gate, active, stop, env>>

PrepareRuns(s) ==
  /\ Runs("prepare", s)
  /\ \/ Takes(RepairBatch) /\ tx' = [tx EXCEPT ![s].at = "begin"]
     \/ Throws(RepairBatch) /\ tx' = [tx EXCEPT ![s].at = "over"]
  /\ UNCHANGED <<rec, gate, active, stop>>

\* beginOwnedChatRequest, after the prompt is built.
Begin(s) ==
  /\ tx[s].at = "begin"
  /\ Enqueue("begin", s, <<>>)
  /\ tx' = [tx EXCEPT ![s].at = "beginning"]
  /\ UNCHANGED <<v, closed, rec, gate, active, stop, env>>

\* beginChatTurn and, when it returns, open(), which throws beside an active
\* closure, and the retrying stream.
BeginRuns(s) ==
  /\ Runs("begin", s)
  /\ \/ /\ Takes(BeginBatch(FirstHandle))
        /\ IF active = None
           THEN /\ active' = s
                /\ tx' = [tx EXCEPT ![s].at = "streaming", ![s].handle = FirstHandle]
           ELSE UNCHANGED active /\ tx' = [tx EXCEPT ![s].at = "over"]
     \/ /\ Throws(BeginBatch(FirstHandle))
        /\ tx' = [tx EXCEPT ![s].at = "over"]
        /\ UNCHANGED active
  /\ UNCHANGED <<rec, gate, stop>>

------------------------------------------------------------------------------
(* The provider stream and its retry loop. *)

Streaming(s) == tx[s].at = "streaming"

\* The stream reports its end: onError or onEnd, once.
Over(s, end) == tx' = [tx EXCEPT ![s].at = "over"] /\ Closing(s, end)

\* An InferenceRequestFailure of the current attempt.
Ended(s) == IF tx[s].aborted THEN Cancelled ELSE FailedAt(tx[s].try)

\* The request fails before any output: it is given up, or a retry is recorded.
RequestFails(s) ==
  /\ Streaming(s) /\ tx[s].loop = "invoke" /\ ~tx[s].exposed
  /\ \/ /\ Over(s, Ended(s))
        /\ UNCHANGED queue
     \/ /\ ~tx[s].aborted /\ tx[s].try < env.bounds.attempts
        /\ tx' = [tx EXCEPT ![s].loop = "scheduling"]
        /\ Enqueue("schedule", s, ScheduleBatch(tx[s].handle, tx[s].try))
        /\ UNCHANGED gate
  /\ UNCHANGED <<v, closed, rec, active, stop, env>>

\* An error of history.append leaves the loop as it is: no attempt, not cancelled.
LoopBreaks(s) == IF Streaming(s) THEN Over(s, FailedAt(1)) ELSE UNCHANGED <<tx, gate>>

\* The backoff begins; an aborted one is cancelled at once.
ScheduleRuns(s) ==
  /\ \/ /\ ~tx[s].aborted
        /\ Runs("schedule", s) /\ Takes(Head(queue).batch)
        /\ tx' = [tx EXCEPT ![s].loop = "waiting"] /\ UNCHANGED gate
     \/ /\ tx[s].aborted
        /\ RunsThen("schedule", s, "cancel", <<Cancels(RetryOf(tx[s].handle, tx[s].try))>>)
        /\ Takes(Head(queue).batch)
        /\ tx' = [tx EXCEPT ![s].loop = "cancelling"] /\ UNCHANGED gate
     \/ Runs("schedule", s) /\ Throws(Head(queue).batch) /\ LoopBreaks(s)
  /\ UNCHANGED <<rec, active, stop>>

BackoffEnds(s) ==
  /\ tx[s].loop = "waiting"
  /\ Enqueue("start", s, StartBatch(tx[s].handle, tx[s].try))
  /\ tx' = [tx EXCEPT ![s].loop = "starting"]
  /\ UNCHANGED <<v, closed, rec, gate, active, stop, env>>

StartRuns(s) ==
  /\ Runs("start", s)
  /\ \/ /\ Takes(Head(queue).batch)
        /\ tx' = [tx EXCEPT ![s].loop = "invoke", ![s].try = @ + 1] /\ UNCHANGED gate
     \/ Throws(Head(queue).batch) /\ LoopBreaks(s)
  /\ UNCHANGED <<rec, active, stop>>

CancelRuns(s) ==
  /\ Runs("cancel", s)
  /\ \/ /\ Takes(Head(queue).batch)
        /\ IF Streaming(s) THEN Over(s, Ended(s)) ELSE UNCHANGED <<tx, gate>>
     \/ Throws(Head(queue).batch) /\ LoopBreaks(s)
  /\ UNCHANGED <<rec, active, stop>>

\* The provider is heard: the step it belongs to is the provider's own.
Producing(s) == Streaming(s) /\ tx[s].loop = "invoke" /\ tx[s].next = "none"

Says(s) ==
  /\ Producing(s) /\ ~tx[s].said
  /\ tx' = [tx EXCEPT ![s].said = TRUE, ![s].exposed = TRUE]
  /\ rec' = [rec EXCEPT ![s].parts = Append(@, [type |-> "chunk", step |-> tx[s].step])]
  /\ UNCHANGED <<v, closed, queue, gate, active, stop, env>>

\* A finish-step part; the SDK then prepares another step or ends the stream.
FinishesStep(s) ==
  /\ Producing(s)
  /\ \E next \in {"end"} \cup (IF tx[s].step < env.bounds.steps THEN {"wait"} ELSE {}) :
       tx' = [tx EXCEPT ![s].exposed = TRUE, ![s].next = next]
  /\ rec' = [rec EXCEPT ![s].parts = Append(@, [type |-> "finish-step", step |-> tx[s].step])]
  /\ UNCHANGED <<v, closed, queue, gate, active, stop, env>>

\* Mutant: a step does not wait until the part before it is persisted.
BeforeStepAtOnce(s) == TRUE

\* Mutant: the gate counts the steps from one where the recorder counts them from
\* zero, and so waits for the part of the step that is still to come.
BeforeStepCountsFromOne(s) == tx[s].step + 1 <= rec[s].persisted

\* beforeStep(stepNumber), which counts the steps before this one.
BeforeStep(s) == tx[s].step <= rec[s].persisted

PrepareStep(s) ==
  /\ Streaming(s) /\ tx[s].next = "wait" /\ BeforeStep(s)
  /\ Enqueue("next", s, NextBatch(tx[s].handle))
  /\ tx' = [tx EXCEPT ![s].next = "asked"]
  /\ UNCHANGED <<v, closed, rec, gate, active, stop, env>>

\* beginNextChatStep returns: activeTurnHandle moves, whatever happened to the
\* stream meanwhile.  If it throws, so does prepareStep.
NextRuns(s) ==
  /\ Runs("next", s)
  /\ \/ /\ Takes(Head(queue).batch)
        /\ tx' = [tx EXCEPT ![s].handle = NextHandle(@), ![s].step = @ + 1,
                            ![s].said = FALSE, ![s].next = "none"]
        /\ UNCHANGED gate
     \/ /\ Throws(Head(queue).batch)
        /\ IF Streaming(s) THEN Over(s, Ended(s)) ELSE UNCHANGED <<tx, gate>>
  /\ UNCHANGED <<rec, active, stop>>

\* The stream ends behind its last part; the recorder's flush() comes first and
\* turns its failure into one of the stream.
StreamEnds(s) ==
  /\ Streaming(s) /\ tx[s].next = "end" /\ Quiet(s)
  /\ Over(s, IF rec[s].failed THEN FailedAt(1) ELSE Completed)
  /\ UNCHANGED <<v, closed, queue, rec, active, stop, env>>

\* Output was exposed: an error is a part of the stream, or it breaks the stream.
StreamFails(s) ==
  /\ Producing(s) /\ tx[s].exposed
  /\ \E end \in {FailedAt(1), Ended(s)} : Over(s, end)
  /\ UNCHANGED <<v, closed, queue, rec, active, stop, env>>

\* The SDK ends an aborted stream, with an abort part or an error.
StreamAborts(s) ==
  /\ Streaming(s) /\ tx[s].aborted /\ tx[s].loop = "invoke" /\ tx[s].exposed
  /\ \E end \in {Interrupted, Cancelled} : Over(s, end)
  /\ UNCHANGED <<v, closed, queue, rec, active, stop, env>>

------------------------------------------------------------------------------
(* The stream recorder. *)

\* The recording lane: a chunk is mapped with the current handle and joins the
\* batch, any other part goes behind the batch.
Work(batch, finish) == [chunks |-> batch, finish |-> finish]
Flushed(r) == [r EXCEPT !.batch = <<>>,
                        !.lane = IF r.batch = <<>> THEN @ ELSE Append(@, Work(r.batch, FALSE))]

Records(s) ==
  /\ rec[s].parts # <<>>
  /\ LET part == Head(rec[s].parts)
         r == [rec[s] EXCEPT !.parts = Tail(@)]
     IN  rec' = [rec EXCEPT ![s] =
           IF r.failed THEN r
           ELSE IF part.type = "chunk"
                THEN [r EXCEPT !.batch = Append(@, [at |-> tx[s].handle, step |-> part.step])]
                ELSE [Flushed(r) EXCEPT !.lane = Append(@, Work(<<>>, TRUE))]]
  /\ UNCHANGED <<v, closed, queue, tx, gate, active, stop, env>>

\* The 50 ms timer, a full batch, or a drain.
FlushBatch(s) ==
  /\ rec[s].batch # <<>>
  /\ rec' = [rec EXCEPT ![s] = Flushed(@)]
  /\ UNCHANGED <<v, closed, queue, tx, gate, active, stop, env>>

ChunkEvents(chunks) == [i \in DOMAIN chunks |-> At("assistant/chunk", chunks[i].at)]

\* The persistence lane takes its next work; after a failure it takes none.
Persists(s) ==
  /\ rec[s].lane # <<>> /\ ~rec[s].busy
  /\ LET work == Head(rec[s].lane)
         r == [rec[s] EXCEPT !.lane = Tail(@)]
     IN  IF r.failed THEN rec' = [rec EXCEPT ![s] = r] /\ UNCHANGED queue
         ELSE IF work.finish
              THEN rec' = [rec EXCEPT ![s] = [r EXCEPT !.persisted = @ + 1]] /\ UNCHANGED queue
              ELSE /\ rec' = [rec EXCEPT ![s] = [r EXCEPT !.busy = TRUE]]
                   /\ Enqueue("record", s, ChunkEvents(work.chunks))
  /\ UNCHANGED <<v, closed, tx, gate, active, stop, env>>

RecordRuns(s) ==
  /\ Runs("record", s)
  /\ \/ Takes(Head(queue).batch) /\ rec' = [rec EXCEPT ![s].busy = FALSE]
     \/ Throws(Head(queue).batch)
          /\ rec' = [rec EXCEPT ![s].busy = FALSE, ![s].failed = TRUE]
  /\ UNCHANGED <<tx, gate, active, stop>>

------------------------------------------------------------------------------
(* Stop. *)

\* Sends the SDK has not finished; it aborts the last one.
Live == {s \in Sends : tx[s].at \notin {"away", "over"}}

\* stopOwnedChat, offered while the chat is busy: chat.stop() raises the abort
\* signal, which ends a backoff at once.
StopClicked ==
  /\ stop.at = "idle" /\ stop.used < env.bounds.stops
  /\ Live # {}
  /\ stop' = [stop EXCEPT !.at = "reading", !.used = @ + 1]
  /\ tx' = [s \in Sends |-> IF s \notin Live THEN tx[s]
              ELSE [tx[s] EXCEPT !.aborted = TRUE,
                                 !.loop = IF @ = "waiting" THEN "cancelling" ELSE @]]
  /\ LET waiting == {s \in Live : tx[s].loop = "waiting"}
     IN  IF waiting = {} THEN UNCHANGED queue
         ELSE LET s == CHOOSE x \in waiting : TRUE
              IN  Enqueue("cancel", s, <<Cancels(RetryOf(tx[s].handle, tx[s].try))>>)
  /\ UNCHANGED <<v, closed, rec, gate, active, env>>

\* The suspension has been read; gate.stop().
StopCloses ==
  /\ stop.at = "reading"
  /\ IF active = None
     THEN stop' = [stop EXCEPT !.at = "idle"] /\ UNCHANGED gate
     ELSE stop' = [stop EXCEPT !.at = "closing", !.on = active] /\ Closing(active, Interrupted)
  /\ UNCHANGED <<v, closed, queue, tx, rec, active, env>>

StopReturns ==
  /\ stop.at = "closing" /\ gate[stop.on].closing = "ok"
  /\ stop' = [stop EXCEPT !.at = "idle"]
  /\ UNCHANGED <<v, closed, queue, tx, rec, gate, active, env>>

StopRecovers ==
  /\ stop.at = "closing" /\ gate[stop.on].closing = "failed"
  /\ Recovering(stop.on)
  /\ stop' = [stop EXCEPT !.at = IF gate[stop.on].recovery = "done" THEN "idle" ELSE "repair"]
  /\ UNCHANGED <<v, closed, tx, rec, active, env>>

------------------------------------------------------------------------------

\* A job of the queue runs.
Serve(s) ==
  \/ PrepareRuns(s) \/ BeginRuns(s) \/ ScheduleRuns(s) \/ StartRuns(s) \/ CancelRuns(s)
  \/ NextRuns(s) \/ RecordRuns(s) \/ CloseRuns(s) \/ RecoverRuns(s)

\* What the renderer does by itself.
GoOn(s) ==
  \/ DoneResolves(s) \/ DoneRejects(s) \/ Prepare(s) \/ Begin(s)
  \/ BackoffEnds(s) \/ PrepareStep(s) \/ StreamEnds(s) \/ ClosureSaves(s)

Record(s) == Records(s) \/ FlushBatch(s) \/ Persists(s)

\* The user and the provider.
Outside(s) ==
  \/ SendMessages(s) \/ RequestFails(s) \/ Says(s) \/ FinishesStep(s)
  \/ StreamFails(s) \/ StreamAborts(s)

Stops == StopCloses \/ StopReturns \/ StopRecovers

Next ==
  \/ \E s \in Sends : Serve(s) \/ GoOn(s) \/ Record(s) \/ Outside(s)
  \/ StopClicked \/ Stops

\* An aborted request ends: the provider's fetch carries the signal.
Gives(s) == tx[s].aborted /\ (RequestFails(s) \/ StreamAborts(s))

Fairness ==
  /\ WF_vars(\E s \in Sends : Serve(s))
  /\ WF_vars(Stops)
  /\ \A s \in Sends : WF_vars(GoOn(s)) /\ WF_vars(Record(s)) /\ WF_vars(Gives(s))

Spec == Init /\ [][Next]_vars /\ Fairness

------------------------------------------------------------------------------
(* Properties. *)

\* What the provider said is recorded as output of the step it was said in: the
\* handle never moves on while the recorder still maps the step before
\* (createSessionStepPersistenceGate).
ChunksInTheirStep ==
  \A s \in Sends : \A i \in DOMAIN rec[s].batch :
    LET first == tx[s].handle.step - (tx[s].step - 1)
    IN  rec[s].batch[i].at.step = first + rec[s].batch[i].step - 1

\* A closure that succeeded has closed its turn, also when its append was refused
\* and the history was asked instead (appendForOpenHandle).  The exception is a
\* turn that had moved on to a step the closure does not know of: it was stopped
\* in that moment, or the step's append was reported as failed.
ClosureClosesTurn ==
  \A s \in Sends : gate[s].closing = "ok" /\ v.openTurn = gate[s].handle.turn =>
    v.openStep > gate[s].handle.step /\ (stop.used > 0 \/ env.faults > 0)

\* A repair never closes a turn whose closure is still to come or in progress: it
\* is for tails nobody owns and for closures that failed (beforeOpen,
\* recoverOrThrow, prepareOwnedSessionForContinuation).
RepairsOnlyAbandoned ==
  [][v'.repairedThrough # v.repairedThrough =>
       \A s \in Sends : active = s /\ tx[s].handle.turn = v.openTurn =>
         gate[s].closing = "failed"]_vars

\* A turn whose response ended normally is recorded as completed unless the disk
\* fails: nothing that retries, a Stop or an earlier turn left behind refuses it.
CompletedIsRecorded ==
  \A s \in Sends : gate[s].closing = "failed" /\ gate[s].end = Completed => env.faults > 0

\* A chat is not blocked for ever: a send that waits for the closure of the turn
\* before it gets on or fails once that turn's request is over, also when the
\* closure fails and when the repair fails.
SendsGetOn ==
  \A s \in Sends : tx[s].at \in {"gate", "repair"} ~> tx[s].at \notin {"gate", "repair"}

\* The gate before a step opens: while no append fails, a response that waits for
\* its recorder before it goes on to another step goes on, or ends, over retries and
\* Stops.  After a failed append of streamed chunks the lane runs nothing more and
\* the response waits for ever (createSessionStepPersistenceGate, partPersisted).
StepsGetOn ==
  \A s \in Sends :
    Streaming(s) /\ tx[s].next = "wait" /\ env.faults = 0
      ~> (tx[s].next # "wait" \/ ~Streaming(s) \/ env.faults > 0)
=============================================================================
