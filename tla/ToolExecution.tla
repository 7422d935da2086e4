---------------------------- MODULE ToolExecution ----------------------------
(***************************************************************************)
(* The tool executor of ai-registry-native (createAiToolExecutor in        *)
(* executor.ts) between one chat session that calls it, the scheduler that *)
(* orders its bodies (ToolScheduler) and the session history that keeps    *)
(* its calls, approvals and results (SessionValidator).                    *)
(*                                                                         *)
(* The executor remembers, per call, the registration (recordedCalls), the *)
(* approval (approvalRecords) and the one execution or completion in       *)
(* progress (executionRecords, completionRecords); a crash loses them and  *)
(* the scheduler, not the history.  The chat (ai-chat-native) records the  *)
(* parts of the provider stream in order, lets the provider SDK execute    *)
(* calls that need no approval, suspends the turn for the others, answers  *)
(* them and stops it all.  Calls are numbered in the order the model emits *)
(* them; a place is the position a call was registered at.                 *)
(*                                                                         *)
(* Left out: identities (every caller describes a call alike), the value   *)
(* of arguments, interactive tools (a call that asks and has no body goes  *)
(* the same way), executeStandalone, toolTimeoutMs, which makes a body     *)
(* return before it settles as ToolScheduler has it, the end of a stream   *)
(* by a fatal error of the provider (closeFailedTurn: the calls that wait  *)
(* for a human are terminated too, and the turn fails), and the ten        *)
(* seconds after which a closure no longer waits for its recorder.         *)
(***************************************************************************)
EXTENDS ToolScheduler, SessionValidator

CONSTANTS Settings,     (* circumstances and bounds of a behaviour: records
                           [tool (the definition of each call), sorted (call ids sort in
                           the order the model emits the calls), failures (appends that
                           fail), lives (processes, one more than crashes)] *)
          UserWrites,   (* the user may send a message while the turn is suspended *)
          MaxIds,       (* bound: calls the model emits *)
          MaxTurns      (* bound: turns opened *)

Ids == 1 .. MaxIds

\* Decisions, results, and the records the executor keeps of a call.
Outs == {"yes", "no", "cancelled"}
Answers == {"done", "denied", "cancelled", "unknown"}
Registrations == [place : Calls, st : {"pending", "ok"}, ensure : BOOLEAN]
Approvals == [request : {"pending", "ok"}, out : Outs \cup {None},
              st : {"none", "pending", "ok", "failed"}]
Owners == [op : {"run", "aborted", "execute", "complete"}, value : Answers \cup {None},
           pc : {"waiting", "scheduled"}, place : Calls]

\* Each call has a definition, and undefined is none of the values above.
ASSUME ToolsAssumption ==
  /\ MaxIds \in Nat /\ MaxTurns \in Nat /\ UserWrites \in BOOLEAN
  /\ \A s \in Settings :
       /\ s = [tool |-> s.tool, sorted |-> s.sorted, failures |-> s.failures, lives |-> s.lives]
       /\ s.tool \in [Ids -> [asks : BOOLEAN, class : Kinds]]
       /\ s.sorted \in BOOLEAN /\ s.failures \in Nat /\ s.lives \in Nat
  /\ None \notin Nat \cup Outs \cup Answers
  /\ None \notin Registrations \cup Approvals \cup Owners

VARIABLES
  tool,  \* what each call's definition says: asks (needsApproval), class
  disk,  \* durable: v (the validator's view), told (decisions), stored (results)
  ex,    \* the executor's memory: reg, appr, owner; per place: callOf, produced, keeps
  chat,  \* the session's callers, see NoChat
  seen   \* history and bounds: setting, starts per call, lost, life, failures

xvars == <<vars, tool, disk, ex, chat, seen>>

------------------------------------------------------------------------------
NoMemory ==
  [reg |-> [c \in Ids |-> None], appr |-> [c \in Ids |-> None],
   owner |-> [c \in Ids |-> None], callOf |-> <<>>,
   produced |-> [p \in Calls |-> None], keeps |-> [p \in Calls |-> FALSE]]

\* stream: "off", "open", "draining" (the recorder catches up), "closing" (the
\* calls of todo are given results, at one at a time).  base: calls emitted
\* before this stream; lane: calls the recorder is done with; laneDown: it
\* failed; made: turn, step and request of each emitted call; sdk: calls the SDK
\* executes; resp: answers of the user in progress; cancel: a Stop of a suspended
\* turn; stopFailed: one that threw.
NoChat(n, made) ==
  [stream |-> "off", aborted |-> FALSE, base |-> n, emitted |-> n, lane |-> n,
   laneDown |-> FALSE, made |-> made, sdk |-> {}, todo |-> {}, at |-> None,
   resp |-> [c \in Ids |-> None], cancel |-> None, stopFailed |-> FALSE]

\* c is the next of S in a loop over sorted call ids, which a provider makes up.
NextOf(S, c) == c \in S /\ (seen.setting.sorted => \A d \in S : c <= d)

Suspended == disk.v.suspension # None
Recorded(c) == c \in DOMAIN disk.v.calls
NextPlace == Len(ex.callOf) + 1

\* The record of c in executionRecords or completionRecords; a rejected one is
\* deleted by its catch handler.
Live(c) ==
  LET o == ex.owner[c]
  IN  o # None /\ (o.pc = "scheduled" => outcome[o.place] # "rejected")
Answered(c) ==
  LET o == ex.owner[c]
  IN  o # None /\ o.pc = "scheduled" /\ outcome[o.place] = "resolved"
AnswerOf(c) == ex.produced[ex.owner[c].place]

\* The recorder's lane is at call c.
LaneAt(c) ==
  /\ chat.stream \in {"open", "draining"} /\ ~chat.laneDown
  /\ c = chat.lane + 1 /\ c <= chat.emitted

\* The events, at the turn and step the call was emitted in.
Call(c) == [type |-> "tool/call", turn |-> chat.made[c].turn, step |-> chat.made[c].step,
            requestId |-> chat.made[c].requestId, callId |-> c]
Request(c) == [type |-> "approval/request", approvalId |-> c, callId |-> c]
Decision(c) == [type |-> "approval/decision", approvalId |-> c, callId |-> c]
Result(c, recovered) ==
  [type |-> "tool/result", turn |-> disk.v.calls[c].turn, step |-> disk.v.calls[c].step,
   callId |-> c, recovered |-> recovered]
At(type) == [type |-> type, turn |-> disk.v.openTurn, step |-> disk.v.openStep,
             repair |-> FALSE]

\* history.append of one event: accepted, with the disk afterwards.
Takes(e) == Accepts(disk.v, e)
With(e) == [disk EXCEPT !.v = Apply(@, e)]

\* An append that fails: refused by the validator, or by the disk, where the
\* event may have landed all the same (then landed is the disk with it).
Fails(e, landed) ==
  \/ ~Takes(e) /\ disk' = disk /\ UNCHANGED seen
  \/ /\ Takes(e) /\ seen.failures < seen.setting.failures
     /\ disk' \in {disk, landed}
     /\ seen' = [seen EXCEPT !.failures = @ + 1]

\* The bodies this step starts.  Under an aborted signal a body returns
\* TOOL_NOT_STARTED without a side effect.
Begun(p) == phase[p] # "running" /\ phase'[p] = "running"
Effect(c) ==
  /\ \E p \in DOMAIN ex.callOf : ex.callOf[p] = c /\ Begun(p)
  /\ ~(ex.owner[c] # None /\ ex.owner[c].op = "aborted")
Counted ==
  seen' = [seen EXCEPT !.starts = [c \in Ids |-> IF Effect(c) THEN @[c] + 1 ELSE @[c]]]

------------------------------------------------------------------------------
(* Registration, execution and completion. *)

\* registerCall(): the call takes its place before its record is persisted.
Enters(c) == NextPlace \in Calls /\ Register(NextPlace, tool[c].class)
Registration(ensure) == [place |-> NextPlace, st |-> "pending", ensure |-> ensure]

\* execute() and complete(): join the record of the call or make one; the
\* registration throws once the scheduler failed.
Called(c, op, value) ==
  LET own(place) == [op |-> op, value |-> value, pc |-> "waiting", place |-> place]
  IN  \/ (Live(c) \/ (ex.reg[c] = None /\ failed)) /\ UNCHANGED <<vars, ex>>
      \/ /\ ~Live(c) /\ ex.reg[c] # None
         /\ ex' = [ex EXCEPT !.owner[c] = own(ex.reg[c].place)]
         /\ UNCHANGED vars
      \/ /\ ~Live(c) /\ ex.reg[c] = None
         /\ Enters(c)
         /\ ex' = [ex EXCEPT !.reg[c] = Registration(TRUE), !.callOf = Append(@, c),
                             !.owner[c] = own(NextPlace)]

\* The append of the call resolves.  execute() and complete() look for the
\* call in the history first (ensureDurableCall).
PersistCall(c) ==
  /\ ex.reg[c] # None /\ ex.reg[c].st = "pending"
  /\ ex' = [ex EXCEPT !.reg[c].st = "ok"]
  /\ IF ex.reg[c].ensure /\ Recorded(c) THEN disk' = disk
     ELSE Takes(Call(c)) /\ disk' = With(Call(c))
  /\ UNCHANGED <<vars, tool, chat, seen>>

\* It is rejected: the registration and the record waiting for it are deleted,
\* the place stays.  A recorder that waits for it fails with it; it may have
\* joined a registration that execute() made.
PersistCallFails(c) ==
  /\ ex.reg[c] # None /\ ex.reg[c].st = "pending"
  /\ ~(ex.reg[c].ensure /\ Recorded(c))
  /\ Fails(Call(c), With(Call(c)))
  /\ ex' = [ex EXCEPT !.reg[c] = None, !.owner[c] = None]
  /\ \E joined \in BOOLEAN :
       chat' = [chat EXCEPT !.laneDown = @ \/ (LaneAt(c) /\ (joined \/ ~ex.reg[c].ensure))]
  /\ UNCHANGED <<vars, tool>>

\* Mutant: the body is handed to the scheduler before its call is durable.
Unawaited(c) == ex.reg[c] # None

\* await registration.persisted
Persisted(c) == ex.reg[c] # None /\ ex.reg[c].st = "ok"

\* Mutant: the history is not asked for an earlier result.
NothingStored(c) == None

\* persistedTerminalResult()
DurableResult(c) == disk.stored[c]

\* Mutant: a completion takes any durable result for its own.
AnyResult(c) == FALSE

\* TOOL_RESULT_MISMATCH
Mismatch(c) ==
  LET o == ex.owner[c]
  IN  o.op = "complete" /\ DurableResult(c) # None /\ DurableResult(c) # o.value

\* The record of c reads the history and gives its place an outcome: the body,
\* the value, or the result that is durable already, which is not stored again.
Schedule(c) ==
  LET o == ex.owner[c]
      d == DurableResult(c)
      ready == o.op = "complete" \/ d # None
      value == IF o.op = "complete" THEN o.value ELSE d
  IN  /\ o # None /\ o.pc = "waiting" /\ Persisted(c) /\ ~Mismatch(c)
      /\ IF ready THEN Complete(o.place) ELSE Execute(o.place)
      /\ ex' = [ex EXCEPT !.owner[c].pc = "scheduled",
                          !.produced[o.place] = IF ready THEN value ELSE None,
                          !.keeps[o.place] = d # None]
      /\ Counted
      /\ UNCHANGED <<tool, disk, chat>>

\* The record rejects: another result is durable, or the place has an outcome.
ScheduleThrows(c) ==
  LET o == ex.owner[c]
  IN  /\ o # None /\ o.pc = "waiting" /\ Persisted(c)
      /\ Mismatch(c) \/ phase[o.place] # "registered"
      /\ ex' = [ex EXCEPT !.owner[c] = None]
      /\ UNCHANGED <<vars, tool, disk, chat, seen>>

\* The run returns its result: every error of the body is one.
Return(p) ==
  /\ BodyReturns(p)
  /\ ex' = [ex EXCEPT !.produced[p] = "done"]
  /\ UNCHANGED <<tool, disk, chat, seen>>

Settle(p) == BodySettles(p) /\ Counted /\ UNCHANGED <<tool, disk, ex, chat>>

\* The awaited commit of the scheduler: storeResult(), or nothing.
CommitLands ==
  LET c == ex.callOf[nextCommit]
  IN  /\ CommitResolves
      /\ IF ex.keeps[nextCommit] THEN disk' = disk
         ELSE /\ Takes(Result(c, None))
              /\ disk' = [With(Result(c, None)) EXCEPT
                            !.stored[c] = ex.produced[nextCommit]]
      /\ UNCHANGED <<tool, ex, chat, seen>>

CommitFails ==
  LET c == ex.callOf[nextCommit]
  IN  /\ committing /\ ~ex.keeps[nextCommit]
      /\ CommitThrows
      /\ Fails(Result(c, None),
               [With(Result(c, None)) EXCEPT !.stored[c] = ex.produced[nextCommit]])
      /\ UNCHANGED <<tool, ex, chat>>

------------------------------------------------------------------------------
(* Approvals. *)

Asked(c) == c \in DOMAIN disk.v.approvals

\* The approval record of c, read from the history when there is none in
\* memory (hydrateApproval).  Only recordApprovalRequest and this make one.
Approval(c) ==
  IF ex.appr[c] # None \/ ~Asked(c) THEN ex.appr[c]
  ELSE [request |-> "ok", out |-> disk.told[c],
        st |-> IF disk.told[c] = None THEN "none" ELSE "ok"]

\* recordApprovalDecision() does not throw: no decision yet, or the same one.
MayDecide(c, out) == Approval(c) # None /\ Approval(c).out \in {None, out}

Decided(x, c, out) ==
  [x EXCEPT !.appr[c] = IF Approval(c).out = out THEN Approval(c)
                        ELSE [Approval(c) EXCEPT !.out = out, !.st = "pending"]]

RequestLands(c) ==
  /\ ex.appr[c] # None /\ ex.appr[c].request = "pending"
  /\ Takes(Request(c)) /\ disk' = With(Request(c))
  /\ ex' = [ex EXCEPT !.appr[c].request = "ok"]
  /\ chat' = [chat EXCEPT !.lane = c]
  /\ UNCHANGED <<vars, tool, seen>>

RequestFails(c) ==
  /\ ex.appr[c] # None /\ ex.appr[c].request = "pending"
  /\ Fails(Request(c), With(Request(c)))
  /\ ex' = [ex EXCEPT !.appr[c] = None]
  /\ chat' = [chat EXCEPT !.laneDown = TRUE]
  /\ UNCHANGED <<vars, tool>>

Deciding(c) ==
  ex.appr[c] # None /\ ex.appr[c].request = "ok" /\ ex.appr[c].st = "pending"

DecisionLands(c) ==
  /\ Deciding(c)
  /\ Takes(Decision(c))
  /\ disk' = [With(Decision(c)) EXCEPT !.told[c] = ex.appr[c].out]
  /\ ex' = [ex EXCEPT !.appr[c].st = "ok"]
  /\ UNCHANGED <<vars, tool, chat, seen>>

\* The rejected promise stays in the record.
DecisionFails(c) ==
  /\ Deciding(c)
  /\ Fails(Decision(c), [With(Decision(c)) EXCEPT !.told[c] = ex.appr[c].out])
  /\ ex' = [ex EXCEPT !.appr[c].st = "failed"]
  /\ UNCHANGED <<vars, tool, chat>>

------------------------------------------------------------------------------
(* The chat: the provider stream and its recorder. *)

Batch(events) == AppendBatch(disk.v, events)

\* beginChatTurn(), over a closed tail.
BeginTurn ==
  LET n == disk.v.lastTurn + 1
      r == Batch(<<[type |-> "turn/start", turn |-> n],
                   [type |-> "step/start", turn |-> n, step |-> disk.v.lastStep + 1],
                   [type |-> "request/header", turn |-> n, step |-> disk.v.lastStep + 1,
                    requestId |-> n]>>)
  IN  /\ chat.stream = "off" /\ disk.v.openTurn = None
      /\ n <= MaxTurns /\ chat.emitted < MaxIds
      /\ disk' = [disk EXCEPT !.v = r.v]
      /\ chat' = [NoChat(chat.emitted, chat.made) EXCEPT !.stream = "open"]
      /\ UNCHANGED <<vars, tool, ex, seen>>

\* beginResumedChatTurn(): every call the turn waits for has a result or a
\* decision (readyToResume).  It is tried when the last answer is published
\* (shouldResumeOwnedChat), or when the user sends a message.
ReadyToResume ==
  /\ Suspended
  /\ \A c \in disk.v.suspension.callIds : disk.stored[c] # None \/ disk.told[c] # None

Resume ==
  LET r == Batch(<<At("turn/resume")>>)
  IN  /\ chat.stream = "off" /\ ReadyToResume /\ r.ok
      /\ UserWrites \/ \A c \in disk.v.suspension.callIds : chat.resp[c] = "done"
      /\ disk' = [disk EXCEPT !.v = r.v]
      /\ chat' = [chat EXCEPT !.stream = "open", !.aborted = FALSE, !.base = chat.emitted,
                              !.lane = chat.emitted, !.laneDown = FALSE, !.sdk = {}]
      /\ UNCHANGED <<vars, tool, ex, seen>>

\* The model asks for its next call.
Emit ==
  /\ chat.stream = "open" /\ chat.emitted < MaxIds
  /\ chat' = [chat EXCEPT !.emitted = @ + 1,
        !.made[chat.emitted + 1] = [turn |-> disk.v.openTurn, step |-> disk.v.openStep,
                                    requestId |-> disk.v.openTurn]]
  /\ UNCHANGED <<vars, tool, disk, ex, seen>>

\* The SDK executes a call that needs no approval, or one approved before the
\* stream was resumed, once its part is on the screen.
SdkExecutes(c) ==
  /\ chat.stream = "open" /\ ~chat.aborted /\ c \notin chat.sdk
  /\ IF c > chat.base THEN c <= chat.emitted /\ ~tool[c].asks
     ELSE disk.told[c] = "yes"
  /\ Called(c, "run", None)
  /\ chat' = [chat EXCEPT !.sdk = @ \cup {c}]
  /\ UNCHANGED <<tool, disk, seen>>

\* recordCall() of a "tool-call" part; it fails with the scheduler.
RecorderRecords(c) ==
  /\ LaneAt(c) /\ ex.reg[c] = None
  /\ IF failed THEN /\ chat' = [chat EXCEPT !.laneDown = TRUE]
                    /\ UNCHANGED <<vars, ex>>
     ELSE /\ Enters(c)
          /\ ex' = [ex EXCEPT !.reg[c] = Registration(FALSE), !.callOf = Append(@, c)]
          /\ chat' = chat
  /\ UNCHANGED <<tool, disk, seen>>

\* The part is done, or followed by a "tool-approval-request" part.
RecorderGoesOn(c) ==
  /\ LaneAt(c) /\ Persisted(c)
  /\ IF tool[c].asks
     THEN /\ ex.appr[c] = None
          /\ ex' = [ex EXCEPT !.appr[c] = [request |-> "pending", out |-> None, st |-> "none"]]
          /\ chat' = chat
     ELSE ex' = ex /\ chat' = [chat EXCEPT !.lane = c]
  /\ UNCHANGED <<vars, tool, disk, seen>>

\* The calls of this stream that wait for a human.
WaitsForHuman == {c \in chat.base + 1 .. chat.lane : tool[c].asks}

\* The stream ends when every call the SDK owes has an answer, or at Stop, which
\* aborts the signal the SDK executes its calls with.  (Its end by a fatal error
\* of the provider, closeFailedTurn, is left out.)
StreamEnds(stop) ==
  /\ chat.stream = "open"
  /\ stop \/ /\ \A c \in chat.base + 1 .. chat.emitted : tool[c].asks \/ c \in chat.sdk
             /\ \A c \in chat.sdk : Answered(c) \/ ~Live(c)
  /\ chat' = [chat EXCEPT !.stream = "draining", !.aborted = stop]
  /\ ex' = [ex EXCEPT !.owner = [c \in Ids |->
        IF stop /\ @[c] # None /\ @[c].op = "run" THEN [@[c] EXCEPT !.op = "aborted"] ELSE @[c]]]
  /\ UNCHANGED <<vars, tool, disk, seen>>

\* openCallIds: the calls whose recordCall() returned to the recorder, but those
\* that wait for a human.  (Nobody but the recorder records a call that asks.)
OpenCalls ==
  {c \in chat.base + 1 .. chat.emitted : Persisted(c) /\ (c <= chat.lane \/ tool[c].asks)}
    \ WaitsForHuman

\* recording.drain(): what was emitted is recorded; the calls left without an
\* answer are those terminateUnresolved() will close.
Drained ==
  /\ chat.stream = "draining" /\ (chat.lane = chat.emitted \/ chat.laneDown)
  /\ chat' = [chat EXCEPT !.stream = "closing", !.todo = {c \in OpenCalls : ~Answered(c)}]
  /\ UNCHANGED <<vars, tool, disk, ex, seen>>

\* terminateUnresolved(): the approval of one of them, if it was asked for, is
\* decided first; whatever is thrown is swallowed, and the call skipped.
CloseApproval(c) ==
  /\ chat.stream = "closing" /\ chat.at = None /\ NextOf(chat.todo, c) /\ tool[c].asks
  /\ IF MayDecide(c, "cancelled") /\ Approval(c).st # "failed"
     THEN ex' = Decided(ex, c, "cancelled") /\ chat' = chat
     ELSE ex' = ex /\ chat' = [chat EXCEPT !.todo = @ \ {c}]
  /\ UNCHANGED <<vars, tool, disk, seen>>

\* Then it is completed.
CloseCall(c) ==
  /\ chat.stream = "closing" /\ chat.at = None /\ NextOf(chat.todo, c)
  /\ tool[c].asks => ex.appr[c] # None /\ ex.appr[c].st = "ok"
  /\ Called(c, "complete", "cancelled")
  /\ chat' = [chat EXCEPT !.at = c]
  /\ UNCHANGED <<tool, disk, seen>>

CallClosed ==
  /\ chat.stream = "closing" /\ chat.at # None
  /\ Answered(chat.at) \/ ~Live(chat.at)
  /\ chat' = [chat EXCEPT !.at = None, !.todo = @ \ {chat.at}]
  /\ UNCHANGED <<vars, tool, disk, ex, seen>>

\* planSessionTailRepair() and its appends: everything open is closed.
Repaired ==
  IF disk.v.openTurn = None \/ Suspended THEN disk
  ELSE LET decide == SetToSeq({Decision(c) : c \in disk.v.pendingApprovals})
           answer == SetToSeq({Result(c, "outcome-unknown") : c \in disk.v.unresolved})
           r == Batch(decide \o answer \o <<At("step/end"), At("turn/end")>>)
       IN  IF ~r.ok THEN disk ELSE [disk EXCEPT
              !.v = r.v,
              !.told = [c \in Ids |-> IF c \in disk.v.pendingApprovals THEN "cancelled" ELSE @[c]],
              !.stored = [c \in Ids |-> IF c \in disk.v.unresolved THEN "unknown" ELSE @[c]]]

\* settleChatProviderEnd(): the turn is suspended for its humans or ended; if
\* the history refuses and the turn is still open, the closure gate has the
\* tail repaired.
Close ==
  LET W == WaitsForHuman
      r == Batch(IF W = {} THEN <<At("step/end"), At("turn/end")>>
                 ELSE <<[type |-> "turn/suspend", turn |-> disk.v.openTurn,
                         step |-> disk.v.openStep, callIds |-> W, approvalIds |-> W]>>)
  IN  /\ chat.stream = "closing" /\ chat.todo = {}
      /\ disk' = IF r.ok THEN [disk EXCEPT !.v = r.v] ELSE Repaired
      /\ chat' = [chat EXCEPT !.stream = "off",
                    !.cancel = IF chat.aborted /\ r.ok /\ W # {}
                                 THEN [told |-> W, todo |-> W, at |-> None] ELSE @]
      /\ UNCHANGED <<vars, tool, ex, seen>>

------------------------------------------------------------------------------
(* The chat: answers, and Stop while the turn is suspended. *)

\* respondToOwnedApproval(): the decision first.
Respond(c, out) ==
  /\ Suspended /\ c \in disk.v.suspension.callIds /\ chat.resp[c] = None
  /\ MayDecide(c, out)
  /\ ex' = Decided(ex, c, out)
  /\ chat' = [chat EXCEPT !.resp[c] = out]
  /\ UNCHANGED <<vars, tool, disk, seen>>

\* Then the body, or a denial.
Act(c) ==
  /\ chat.resp[c] \in {"yes", "no"} /\ ex.appr[c].st = "ok"
  /\ IF chat.resp[c] = "yes" THEN Called(c, "execute", None)
     ELSE Called(c, "complete", "denied")
  /\ chat' = [chat EXCEPT !.resp[c] = "acting"]
  /\ UNCHANGED <<tool, disk, seen>>

\* publish(), once the call is settled as answered.
Publish(c) ==
  /\ chat.resp[c] = "acting" /\ Answered(c)
  /\ disk.told[c] = "no" => AnswerOf(c) = "denied"
  /\ chat' = [chat EXCEPT !.resp[c] = "done"]
  /\ UNCHANGED <<vars, tool, disk, ex, seen>>

\* finishOwnedChatStop() and cancelOwnedSuspension(): what is pending is read
\* once, then decided and completed one by one.
StopSuspended ==
  /\ chat.stream = "off" /\ chat.cancel = None /\ Suspended /\ ~chat.stopFailed
  /\ LET W == disk.v.suspension.callIds
     IN  chat' = [chat EXCEPT !.cancel =
                    [told |-> {c \in W : disk.told[c] = None},
                     todo |-> {c \in W : disk.stored[c] = None}, at |-> None]]
  /\ UNCHANGED <<vars, tool, disk, ex, seen>>

StopThrows == chat' = [chat EXCEPT !.cancel = None, !.stopFailed = TRUE]

CancelApproval(c) ==
  /\ chat.cancel # None /\ c \in chat.cancel.told
  /\ IF MayDecide(c, "cancelled")
     THEN /\ ex' = Decided(ex, c, "cancelled")
          /\ IF ex'.appr[c].st = "ok" THEN chat' = [chat EXCEPT !.cancel.told = @ \ {c}]
             ELSE IF ex'.appr[c].st = "failed" THEN StopThrows
             ELSE chat' = chat
     ELSE StopThrows /\ ex' = ex
  /\ UNCHANGED <<vars, tool, disk, seen>>

CancelCall(c) ==
  /\ chat.cancel # None /\ chat.cancel.told = {} /\ chat.cancel.at = None
  /\ NextOf(chat.cancel.todo, c)
  /\ Called(c, "complete", "cancelled")
  /\ chat' = [chat EXCEPT !.cancel.at = c]
  /\ UNCHANGED <<tool, disk, seen>>

\* complete() returned, or it threw: another result, or none.
CancelledCall ==
  LET c == chat.cancel.at
  IN  /\ chat.cancel # None /\ c # None
      /\ Answered(c) \/ ~Live(c)
      /\ IF Answered(c) /\ AnswerOf(c) = "cancelled"
         THEN chat' = [chat EXCEPT !.cancel.at = None, !.cancel.todo = @ \ {c}]
         ELSE StopThrows
      /\ UNCHANGED <<vars, tool, disk, ex, seen>>

\* cancelSuspendedChatTurn(); a turn closed meanwhile is as good.
StopCloses ==
  LET r == Batch(<<At("turn/resume"), At("step/end"), At("turn/end")>>)
  IN  /\ chat.cancel # None /\ chat.cancel.told = {} /\ chat.cancel.todo = {}
      /\ IF r.ok \/ disk.v.openTurn = None
         THEN /\ disk' = IF r.ok THEN [disk EXCEPT !.v = r.v] ELSE disk
              /\ chat' = [chat EXCEPT !.cancel = None]
         ELSE StopThrows /\ disk' = disk
      /\ UNCHANGED <<vars, tool, ex, seen>>

\* The process dies.  The next one repairs the tail before it continues, unless
\* the turn is suspended.
Crash ==
  /\ seen.life < seen.setting.lives
  /\ kind' = [i \in Calls |-> "safe"] /\ phase' = [i \in Calls |-> "free"]
  /\ runningSafe' = 0 /\ exclusiveRunning' = FALSE
  /\ nextCommit' = 1 /\ committing' = FALSE /\ failed' = FALSE
  /\ outcome' = [i \in Calls |-> "pending"] /\ commits' = <<>>
  /\ ex' = NoMemory
  /\ chat' = NoChat(chat.emitted, chat.made)
  /\ disk' = Repaired
  /\ seen' = [seen EXCEPT !.life = @ + 1,
        !.lost = @ \cup {c \in Ids : Suspended /\ seen.starts[c] > 0 /\ disk.stored[c] = None}]
  /\ UNCHANGED tool

------------------------------------------------------------------------------
XInit ==
  /\ Init
  /\ disk = [v |-> Fresh, told |-> [c \in Ids |-> None], stored |-> [c \in Ids |-> None]]
  /\ ex = NoMemory
  /\ chat = NoChat(0, [c \in Ids |-> None])
  /\ seen \in [setting : Settings, starts : {[c \in Ids |-> 0]}, lost : {{}}, life : {1},
                failures : {0}]
  /\ tool = seen.setting.tool

\* Steps of the executor and of the history.
Executor ==
  \/ \E c \in Ids : \/ PersistCall(c) \/ PersistCallFails(c)
                    \/ Schedule(c) \/ ScheduleThrows(c)
                    \/ RequestLands(c) \/ RequestFails(c)
                    \/ DecisionLands(c) \/ DecisionFails(c)
  \/ \E p \in DOMAIN ex.callOf : Return(p) \/ Settle(p)
  \/ CommitLands \/ CommitFails

\* Steps the chat goes on to take once it began.
Recorder == \E c \in Ids : RecorderRecords(c) \/ RecorderGoesOn(c)
Closing ==
  \/ Drained \/ CallClosed \/ Close \/ CancelledCall \/ StopCloses
  \/ \E c \in Ids : CloseApproval(c) \/ CloseCall(c) \/ CancelApproval(c) \/ CancelCall(c)
                    \/ Act(c) \/ Publish(c)

XNext ==
  \/ Executor \/ Recorder \/ Closing
  \/ BeginTurn \/ Resume \/ Emit
  \/ \E c \in Ids : SdkExecutes(c)
  \/ \E stop \in BOOLEAN : StreamEnds(stop)
  \/ \E c \in Ids, out \in {"yes", "no"} : Respond(c, out)
  \/ StopSuspended \/ Crash

\* Promises settle: appends return, bodies return (toolTimeoutMs) and stop once
\* aborted, as a tool has to, and the recorder, a closure, an answer and a Stop go on
\* when they do.  Nothing is assumed of the model, the SDK or the user.
XFairness == WF_xvars(Executor \/ Recorder \/ Closing)

XSpec == XInit /\ [][XNext]_xvars /\ XFairness

------------------------------------------------------------------------------

\* What a caller of the executor was given is what the history keeps: a result
\* that was shown is never another one after a restart.
AnswersAreDurable ==
  \A c \in Ids : Answered(c) => disk.stored[c] = AnswerOf(c)

\* "It flushes each canonical call before its side effect" (README.md:6): a body
\* begins only for a call that is durable, approved if it asked for approval,
\* and without a result.
RunsOnRecord ==
  [][\A c \in Ids : seen'.starts[c] > seen.starts[c] =>
       /\ Recorded(c) /\ disk.stored[c] = None
       /\ tool[c].asks => disk.told[c] = "yes"]_xvars

\* The side effect of a call runs once (executor.test.ts:279), joined, retried
\* or replayed as it may be; again only if the process died between the body
\* and its result while the turn was suspended.
RunsAgainOnlyIfLost ==
  \A c \in Ids : seen.starts[c] > 1 => c \in seen.lost

\* "flushes the canonical result after completion" (README.md:7): as long as the
\* disk does not fail, the history takes every result the scheduler stores.
ResultsAreTaken ==
  seen.failures = 0 /\ committing /\ ~ex.keeps[nextCommit] =>
    Takes(Result(ex.callOf[nextCommit], None))

Stopping ==
  (chat.aborted /\ chat.stream \in {"draining", "closing"}) \/ chat.cancel # None

\* A Stop that was asked for closes the turn, or throws: no call it waits for
\* waits in turn for a call it has not come to.  ("Stops provider work and makes
\* the interrupted turn durable before returning", stopOwnedChat.)
StopClosesTurn == Stopping ~> disk.v.openTurn = None \/ chat.stopFailed

\* No call that the SDK executes follows one that waits for a human.
AsksLast == \A c, d \in Ids : c < d /\ tool[c].asks => tool[d].asks

\* The same for call ids that sort in emission order, where no call that runs by
\* itself follows one that asks, as long as no append fails: the place of a call
\* that nobody answered stays empty, and so, for good, does the place of one whose
\* record was not taken.
SortedStopClosesTurn ==
  Stopping /\ seen.setting.sorted /\ AsksLast /\ seen.failures = 0
    ~> disk.v.openTurn = None \/ chat.stopFailed \/ seen.failures > 0
==============================================================================
