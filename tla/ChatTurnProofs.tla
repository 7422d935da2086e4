---------------------------- MODULE ChatTurnProofs ----------------------------
(***************************************************************************)
(* What holds of a chat and its history, for any number of sends, steps,   *)
(* retries, Stops and failing appends.  The invariant says what each job   *)
(* in the queue knows of its send (Jobs), where a send, its recorder and   *)
(* its closure stand (Flow), how the history follows them (Past), and when *)
(* a closure may begin (Closures).                                         *)
(***************************************************************************)
EXTENDS ChatTurn, SessionValidatorProofs, SequenceTheorems

HandleType == [turn : Nat \ {0}, step : Nat \ {0}]
Ends == {Completed, Interrupted, Cancelled} \cup [how : {"fail"}, attempt : Nat]

TxType ==
  [at : {"away", "gate", "repair", "prepare", "preparing", "begin", "beginning",
         "streaming", "over"},
   on : Sends \cup {0}, handle : HandleType \cup {None}, aborted : BOOLEAN,
   try : Nat \ {0}, exposed : BOOLEAN,
   loop : {"invoke", "scheduling", "waiting", "starting", "cancelling"},
   step : Nat \ {0}, said : BOOLEAN, next : {"none", "wait", "asked", "end"}]

PartType == [type : {"chunk", "finish-step"}, step : Nat]
ChunkType == [at : HandleType, step : Nat]
WorkType == [chunks : Seq(ChunkType), finish : BOOLEAN]
RecType == [parts : Seq(PartType), batch : Seq(ChunkType), lane : Seq(WorkType),
            busy : BOOLEAN, failed : BOOLEAN, persisted : Nat]

GateType == [closing : {"none", "drain", "saving", "ok", "failed"}, end : Ends \cup {None},
             handle : HandleType \cup {None}, recovery : {"none", "running", "done"}]

StopType ==
  {r \in [at : {"idle", "reading", "closing", "repair"}, on : Sends \cup {0}, used : Nat] :
     (r.at # "idle" => r.used # 0) /\ (r.at \in {"closing", "repair"} => r.on \in Sends)}

\* What a job of each kind appends.
Batches ==
  {<<>>} \cup {NextBatch(h) : h \in HandleType} \cup {EndBatch(h, e) : h \in HandleType, e \in Ends}
    \cup {ScheduleBatch(h, n) : h \in HandleType, n \in Nat}
    \cup {StartBatch(h, n) : h \in HandleType, n \in Nat}
    \cup {<<Cancels(RetryOf(h, n))>> : h \in HandleType, n \in Nat}
    \cup {ChunkEvents(c) : c \in Seq(ChunkType)}

JobKinds == {"prepare", "begin", "schedule", "start", "cancel", "next", "record", "close",
             "recover"}
JobType == [kind : JobKinds, of : Sends, batch : Batches]

Types ==
  /\ tx \in [Sends -> TxType]
  /\ rec \in [Sends -> RecType]
  /\ gate \in [Sends -> GateType]
  /\ active \in Sends \cup {None}
  /\ stop \in StopType
  /\ env \in [bounds : Settings, faults : Nat]
  /\ queue \in Seq(JobType)

------------------------------------------------------------------------------
(* Sends and their jobs. *)

\* One send at a time, and one job of a kind for it.
OneAtATime == \A s, t \in Sends : s < t /\ tx[t].at # "away" => tx[s].at = "over"

InQueue(i, kind, s) == i \in 1 .. Len(queue) /\ queue[i].kind = kind /\ queue[i].of = s

OneJob ==
  \A i, j \in 1 .. Len(queue) :
    queue[i].kind = queue[j].kind /\ queue[i].of = queue[j].of => i = j

\* What a job in the queue says of the send it is for.
JobFits(kind, s, batch) ==
  /\ kind = "prepare" => tx[s].at = "preparing"
  /\ kind = "begin" => tx[s].at = "beginning"
  /\ kind = "schedule" => /\ Streaming(s) /\ tx[s].loop = "scheduling"
                          /\ batch = ScheduleBatch(tx[s].handle, tx[s].try)
  /\ kind = "start" => /\ Streaming(s) /\ tx[s].loop = "starting"
                       /\ batch = StartBatch(tx[s].handle, tx[s].try)
  /\ kind = "cancel" => /\ Streaming(s) /\ tx[s].loop = "cancelling"
                        /\ batch = <<Cancels(RetryOf(tx[s].handle, tx[s].try))>>
  /\ kind = "next" => tx[s].next = "asked" /\ batch = NextBatch(tx[s].handle)
  /\ kind = "record" => rec[s].busy /\ \E c \in Seq(ChunkType) : batch = ChunkEvents(c)
  /\ kind = "close" =>
       gate[s].closing = "saving" /\ batch = EndBatch(gate[s].handle, gate[s].end)
  /\ kind = "recover" => gate[s].recovery = "running"

JobsFit == \A i \in 1 .. Len(queue) : JobFits(queue[i].kind, queue[i].of, queue[i].batch)

\* A send without a handle has done nothing yet, nor has its recorder or closure.
Untouched(s) ==
  /\ tx[s] = [NoSend EXCEPT !.at = tx[s].at, !.on = tx[s].on, !.aborted = tx[s].aborted]
  /\ rec[s] = NoRecorder /\ gate[s] = NoClosure

SendFits(s) ==
  /\ tx[s].handle = None => tx[s].at # "streaming" /\ Untouched(s)
  /\ tx[s].handle # None => tx[s].at \in {"streaming", "over"}
  /\ tx[s].exposed => tx[s].loop = "invoke"
  /\ tx[s].next # "none" => tx[s].exposed
  /\ tx[s].loop = "waiting" => Streaming(s)

SendsFit == \A s \in Sends : SendFits(s)

------------------------------------------------------------------------------
(* The recorder. *)

FinishedAt(s, i) == i \in 1 .. Len(rec[s].parts) /\ rec[s].parts[i].type = "finish-step"
PersistsAt(s, i) == i \in 1 .. Len(rec[s].lane) /\ rec[s].lane[i].finish

\* The end of a step is the last of its parts, then the last work of the lane, and
\* is counted before the next step begins.
Keeps(s) ==
  /\ rec[s].persisted = (IF tx[s].next = "asked" THEN tx[s].step ELSE tx[s].step - 1)
       \/ (tx[s].next \in {"wait", "end"} /\ rec[s].persisted = tx[s].step)
  /\ rec[s].persisted = tx[s].step =>
       rec[s].parts = <<>> /\ \A i \in Nat : ~PersistsAt(s, i)
  /\ \A i \in Nat : FinishedAt(s, i) =>
       /\ i = Len(rec[s].parts) /\ tx[s].next # "none"
       /\ \A j \in Nat : ~PersistsAt(s, j)
  /\ \A i \in Nat : PersistsAt(s, i) =>
       /\ i = Len(rec[s].lane) /\ tx[s].next # "none"
       /\ rec[s].parts = <<>> /\ rec[s].batch = <<>>

\* Chunks that are not mapped yet are of the step the provider is in; chunks that
\* are, of the step their handle was then.
ChunksFit(s) ==
  /\ \A i \in 1 .. Len(rec[s].parts) : rec[s].parts[i].step = tx[s].step
  /\ \A i \in 1 .. Len(rec[s].batch) :
       rec[s].batch[i].at.step + tx[s].step = tx[s].handle.step + rec[s].batch[i].step

RecordersFit == \A s \in Sends : Keeps(s) /\ ChunksFit(s)

------------------------------------------------------------------------------
(* The closure gate. *)

\* The closure of s is the one that is registered.
Registered(s) == tx[s].handle # None /\ gate[s].closing # "ok" /\ gate[s].recovery # "done"

GateFits(s) ==
  /\ active = s <=> Registered(s)
  /\ gate[s].recovery # "none" => gate[s].closing = "failed"
  /\ gate[s].closing # "none" => gate[s].end \in Ends
  /\ gate[s].closing \in {"saving", "ok", "failed"} <=> gate[s].handle # None
  /\ tx[s].at \in {"gate", "repair"} => tx[s].on \in Sends /\ active \in {None, tx[s].on}
  /\ tx[s].at \in {"prepare", "preparing", "begin", "beginning"} => active = None

GatesFit == \A s \in Sends : GateFits(s)

------------------------------------------------------------------------------
(* The history. *)

\* What holds of a validator that saw no call and no suspension.
Plain(w) ==
  /\ IsValidator(w) /\ Shaped(w)
  /\ w.lastTurn \in Nat /\ w.lastStep \in Nat
  /\ w.suspension = None /\ w.unresolved = {}
  /\ IsFiniteSet(w.pendingRetries)

\* A step is open exactly in an open turn, and both are the last.
Bounded(w) ==
  \/ w.openTurn = None /\ w.openStep = None
  \/ w.openTurn = w.lastTurn /\ w.openStep = w.lastStep /\ w.lastTurn # 0 /\ w.lastStep # 0

\* The ends in the history are of turns and steps that are not open.
EndsFit ==
  \A p \in closed :
    /\ p = <<p[1], p[2]>> /\ p[1] \in Nat /\ p[2] \in Nat /\ p[1] <= v.lastTurn /\ p[2] <= v.lastStep
    /\ v.openTurn = p[1] => p[2] # 0 /\ p[2] < v.openStep

\* Turns are of one send each, open or ended.
TurnFits(s) ==
  tx[s].handle # None =>
    /\ tx[s].handle.turn <= v.lastTurn /\ tx[s].handle.step <= v.lastStep
    /\ v.openTurn = tx[s].handle.turn \/ <<tx[s].handle.turn, 0>> \in closed
    /\ \A t \in Sends : s < t /\ tx[t].handle # None => tx[s].handle.turn < tx[t].handle.turn

\* The closure knows a step of the turn of its send, and closed it if it succeeded.
ClosureFits(s) ==
  LET h == gate[s].handle
  IN  h # None =>
        /\ h.turn = tx[s].handle.turn /\ h.step <= tx[s].handle.step
        /\ gate[s].closing = "ok" => <<h.turn, h.step>> \in closed \/ <<h.turn, 0>> \in closed

HistoryFits ==
  /\ Plain(v) /\ Bounded(v) /\ EndsFit
  /\ \A s \in Sends : TurnFits(s) /\ ClosureFits(s)

\* Without a Stop a closure begins when its send is over, and no step is on its way.
Unstopped ==
  stop.used = 0 =>
    \A s \in Sends :
      /\ ~tx[s].aborted
      /\ gate[s].closing # "none" => tx[s].at = "over" /\ \A i \in Nat : ~InQueue(i, "next", s)
      /\ gate[s].handle # None => gate[s].handle = tx[s].handle

------------------------------------------------------------------------------
(* While no append fails. *)

\* The step a send knows is the one that is open, and its request is recorded.
KnowsStep(s) ==
  tx[s].handle # None =>
    /\ v.openTurn = tx[s].handle.turn => v.openStep = tx[s].handle.step
    /\ tx[s].handle \in DOMAIN v.requests
    /\ v.requests[tx[s].handle].turn = tx[s].handle.turn
    /\ v.requests[tx[s].handle].step = tx[s].handle.step
    /\ ~tx[s].exposed => v.requests[tx[s].handle].lastAttempt = tx[s].try

\* A retry that is pending is the one a send waits for.
RetryWaits(p) ==
  \E t \in Sends :
    /\ Streaming(t) /\ tx[t].loop \in {"waiting", "starting", "cancelling"}
    /\ p = RetryOf(tx[t].handle, tx[t].try)
    /\ p \in DOMAIN v.retries
    /\ v.retries[p] = [requestId |-> tx[t].handle, nextAttempt |-> tx[t].try + 1,
                       state |-> "scheduled"]

Undisturbed ==
  env.faults = 0 =>
    /\ \A s \in Sends : KnowsStep(s)
    /\ \A p \in v.pendingRetries : RetryWaits(p)

\* A response that ended was the last of its send.
Ending ==
  \A s \in Sends : gate[s].closing # "none" /\ gate[s].end = Completed =>
    /\ tx[s].at = "over" /\ tx[s].next = "end"
    /\ gate[s].handle # None => gate[s].handle = tx[s].handle

Flow == OneAtATime /\ SendsFit /\ RecordersFit /\ GatesFit
Jobs == OneJob /\ JobsFit
Past == HistoryFits /\ Undisturbed
Closures == Unstopped /\ Ending /\ CompletedIsRecorded

IInv == Types /\ Flow /\ Jobs /\ Past /\ Closures

------------------------------------------------------------------------------
(* The queue. *)

\* A job joins the queue.
LEMMA Enqueued ==
  ASSUME queue \in Seq(JobType), NEW kind \in JobKinds, NEW s \in Sends, NEW b \in Batches,
         Enqueue(kind, s, b)
  PROVE  /\ queue' \in Seq(JobType) /\ Len(queue') = Len(queue) + 1
         /\ \A i \in 1 .. Len(queue) : queue'[i] = queue[i]
         /\ queue'[Len(queue) + 1] = Job(kind, s, b)
<1>1. Job(kind, s, b) \in JobType
  BY DEF Job, JobType
<1> HIDE DEF JobType
<1> QED
  BY <1>1 DEF Enqueue

\* A job leaves it.
LEMMA Left ==
  ASSUME queue \in Seq(JobType), NEW kind, NEW s, Runs(kind, s)
  PROVE  /\ queue' \in Seq(JobType) /\ Len(queue) \in Nat /\ Len(queue) >= 1
         /\ Len(queue') = Len(queue) - 1
         /\ Head(queue) = queue[1] /\ queue[1] \in JobType
         /\ queue[1].kind = kind /\ queue[1].of = s
         /\ \A i \in 1 .. Len(queue') : queue'[i] = queue[i + 1]
<1> HIDE DEF JobType
<1> QED
  BY DEF Runs

\* One leaves and another joins.
LEMMA Replaced ==
  ASSUME queue \in Seq(JobType), NEW kind, NEW next \in JobKinds, NEW s \in Sends,
         NEW b \in Batches, RunsThen(kind, s, next, b)
  PROVE  /\ queue' \in Seq(JobType) /\ Len(queue) \in Nat /\ Len(queue) >= 1
         /\ Len(queue') = Len(queue)
         /\ Head(queue) = queue[1] /\ queue[1] \in JobType
         /\ queue[1].kind = kind /\ queue[1].of = s
         /\ \A i \in 1 .. Len(queue) - 1 : queue'[i] = queue[i + 1]
         /\ queue'[Len(queue)] = Job(next, s, b)
<1>1. Job(next, s, b) \in JobType
  BY DEF Job, JobType
<1> HIDE DEF JobType
<1>2. queue # <<>> /\ Tail(queue) \in Seq(JobType) /\ Len(Tail(queue)) = Len(queue) - 1
  BY DEF RunsThen
<1>3. queue' = Append(Tail(queue), Job(next, s, b))
  BY DEF RunsThen
<1>4. \A i \in 1 .. Len(queue) - 1 : Tail(queue)[i] = queue[i + 1]
  BY <1>2
<1> HIDE DEF Job
<1>5. /\ queue' \in Seq(JobType) /\ Len(queue') = Len(queue)
      /\ \A i \in 1 .. Len(queue) - 1 : queue'[i] = Tail(queue)[i]
      /\ queue'[Len(queue)] = Job(next, s, b)
  BY <1>1, <1>2, <1>3
<1>6. Head(queue) = queue[1] /\ queue[1] \in JobType
  BY <1>2
<1> QED
  BY <1>2, <1>4, <1>5, <1>6 DEF RunsThen

\* What the code hands to the queue is a batch.
LEMMA BatchTypes ==
  /\ <<>> \in Batches
  /\ \A h \in HandleType : NextBatch(h) \in Batches
  /\ \A h \in HandleType, e \in Ends : EndBatch(h, e) \in Batches
  /\ \A h \in HandleType, n \in Nat :
       /\ ScheduleBatch(h, n) \in Batches /\ StartBatch(h, n) \in Batches
       /\ <<Cancels(RetryOf(h, n))>> \in Batches
  /\ \A c \in Seq(ChunkType) : ChunkEvents(c) \in Batches
BY DEF Batches

\* A queue that is kept.
LEMMA QueueStays ==
  ASSUME queue \in Seq(JobType), UNCHANGED queue
  PROVE  queue' \in Seq(JobType)
OBVIOUS

------------------------------------------------------------------------------
(* What a step leaves alone. *)

\* The types of each variable.
LEMMA Typed ==
  ASSUME Types
  PROVE  /\ tx \in [Sends -> TxType] /\ rec \in [Sends -> RecType] /\ gate \in [Sends -> GateType]
         /\ active \in Sends \cup {None} /\ stop \in StopType
         /\ env \in [bounds : Settings, faults : Nat] /\ queue \in Seq(JobType)
BY DEF Types

\* The jobs of the queue.
LEMMA JobTypes ==
  ASSUME queue \in Seq(JobType)
  PROVE  \A i \in 1 .. Len(queue) :
           queue[i].kind \in JobKinds /\ queue[i].of \in Sends /\ queue[i].batch \in Batches
<1>1. \A i \in 1 .. Len(queue) : queue[i] \in JobType
  OBVIOUS
<1>2. \A j \in JobType : j.kind \in JobKinds /\ j.of \in Sends /\ j.batch \in Batches
  BY DEF JobType
<1> QED
  BY <1>1, <1>2

\* Nothing happens to the closure of t, but that its recovery may begin.
SameGate(t) ==
  /\ gate'[t].closing = gate[t].closing /\ gate'[t].end = gate[t].end
  /\ gate'[t].handle = gate[t].handle
  /\ \/ gate'[t] = gate[t]
     \/ gate[t].closing = "failed" /\ gate[t].recovery = "none" /\ gate'[t].recovery = "running"

\* Nothing happens to the send t.
Still(t) == tx'[t] = tx[t] /\ rec'[t] = rec[t] /\ SameGate(t)

\* What holds of it goes on to hold.
LEMMA StillFits ==
  ASSUME NEW t \in Sends, Still(t)
  PROVE  /\ SendFits(t) => SendFits(t)'
         /\ Keeps(t) /\ ChunksFit(t) => (Keeps(t) /\ ChunksFit(t))'
         /\ \A kind, b : JobFits(kind, t, b) => JobFits(kind, t, b)'
<1>1. SendFits(t) => SendFits(t)'
  BY DEF Still, SameGate, SendFits, Untouched, NoClosure, Streaming
<1>2. Keeps(t) /\ ChunksFit(t) => (Keeps(t) /\ ChunksFit(t))'
  BY DEF Still, Keeps, ChunksFit, FinishedAt, PersistsAt
<1>3. \A kind, b : JobFits(kind, t, b) => JobFits(kind, t, b)'
  BY DEF Still, SameGate, JobFits, Streaming
<1> QED
  BY <1>1, <1>2, <1>3

\* The jobs of a queue that is kept.
LEMMA JobsStay ==
  ASSUME Types, Jobs, UNCHANGED queue,
         \A kind \in JobKinds, t \in Sends : \A b : JobFits(kind, t, b) => JobFits(kind, t, b)'
  PROVE  Jobs'
<1>1. \A i \in 1 .. Len(queue) : queue[i].kind \in JobKinds /\ queue[i].of \in Sends
  BY JobTypes DEF Types
<1> QED
  BY <1>1 DEF Jobs, OneJob, JobsFit

\* The jobs of a queue that another one joins, when there was none of its kind.
LEMMA JobsJoined ==
  ASSUME Types, Jobs, NEW kind \in JobKinds, NEW s \in Sends, NEW b \in Batches,
         Enqueue(kind, s, b),
         \A c : ~JobFits(kind, s, c),
         \A k \in JobKinds, t \in Sends : \A c : JobFits(k, t, c) => JobFits(k, t, c)',
         JobFits(kind, s, b)'
  PROVE  Jobs' /\ queue' \in Seq(JobType)
<1> DEFINE n == Len(queue)
<1>1. /\ queue' \in Seq(JobType) /\ Len(queue') = n + 1 /\ n \in Nat
      /\ \A i \in 1 .. n : queue'[i] = queue[i]
      /\ queue'[n + 1] = Job(kind, s, b)
  BY Enqueued DEF Types
<1>2. \A i \in 1 .. n : queue[i].kind \in JobKinds /\ queue[i].of \in Sends
  BY JobTypes DEF Types
<1>3. /\ queue'[n + 1].kind = kind /\ queue'[n + 1].of = s /\ queue'[n + 1].batch = b
  BY <1>1 DEF Job
<1>4. \A i \in 1 .. n + 1 : i \in 1 .. n \/ i = n + 1
  BY <1>1
<1>5. \A i \in 1 .. n : ~(queue[i].kind = kind /\ queue[i].of = s)
  BY <1>2 DEF Jobs, JobsFit
<1> HIDE DEF n
<1>6. OneJob'
  BY <1>1, <1>3, <1>4, <1>5 DEF Jobs, OneJob, n
<1>7. JobsFit'
  BY <1>1, <1>2, <1>3, <1>4 DEF Jobs, JobsFit, n
<1> QED
  BY <1>1, <1>6, <1>7 DEF Jobs

\* The jobs of a queue whose first has run.
LEMMA JobsLeft ==
  ASSUME Types, Jobs, NEW kind \in JobKinds, NEW s \in Sends, Runs(kind, s),
         \A k \in JobKinds, t \in Sends : \A c :
           (k # kind \/ t # s) /\ JobFits(k, t, c) => JobFits(k, t, c)'
  PROVE  /\ Jobs' /\ queue' \in Seq(JobType)
         /\ \A i \in 1 .. Len(queue') : ~InQueue(i, kind, s)'
         /\ JobFits(kind, s, Head(queue).batch) /\ Head(queue).batch \in Batches
<1> DEFINE n == Len(queue)
<1>1. /\ queue' \in Seq(JobType) /\ Len(queue') = n - 1 /\ n \in Nat /\ n >= 1
      /\ Head(queue) = queue[1] /\ queue[1] \in JobType
      /\ queue[1].kind = kind /\ queue[1].of = s
      /\ \A i \in 1 .. n - 1 : queue'[i] = queue[i + 1]
  BY Left DEF Types
<1>2. \A i \in 1 .. n : queue[i].kind \in JobKinds /\ queue[i].of \in Sends
  BY JobTypes DEF Types
<1> HIDE DEF n
<1>3. \A i \in 1 .. n - 1 : i + 1 \in 1 .. n /\ i + 1 # 1 /\ 1 \in 1 .. n
  BY <1>1
<1>4. \A i \in 1 .. n - 1 : queue[i + 1].kind # kind \/ queue[i + 1].of # s
  BY <1>1, <1>3 DEF Jobs, OneJob, n
<1>5. OneJob'
  BY <1>1, <1>3 DEF Jobs, OneJob, n
<1>6. JobsFit'
  BY <1>1, <1>2, <1>3, <1>4 DEF Jobs, JobsFit, n
<1>7. \A i \in 1 .. Len(queue') : ~InQueue(i, kind, s)'
  BY <1>1, <1>4 DEF InQueue
<1>8. JobFits(kind, s, queue[1].batch) /\ queue[1].batch \in Batches
  <2>1. 1 \in 1 .. Len(queue)
    BY <1>1 DEF n
  <2> QED
    BY <1>1, <2>1 DEF Jobs, JobsFit, JobType
<1> QED
  BY <1>1, <1>5, <1>6, <1>7, <1>8 DEF Jobs

\* What is known of a send whose step leaves the others alone.
LEMMA FlowStays ==
  ASSUME Types, Flow, NEW s \in Sends, UNCHANGED active,
         \A t \in Sends : t # s => Still(t),
         \/ tx'[s].at = tx[s].at
         \/ tx[s].at \notin {"away", "over"}
         \/ tx[s].at # "over" /\ \A t \in Sends : t < s => tx[t].at = "over",
         SendFits(s)', Keeps(s)', ChunksFit(s)', GateFits(s)'
  PROVE  Flow'
<1>1. OneAtATime'
  <2>1. ASSUME NEW t \in Sends, NEW u \in Sends, t < u, tx'[u].at # "away"
        PROVE  tx'[t].at = "over"
    <3>1. tx[u].at # "away" => tx[t].at = "over"
      BY <2>1 DEF Flow, OneAtATime
    <3>2. CASE t = s
      <4>1. u # s
        BY <2>1, <3>2, ChatAssumption DEF Sends
      <4> QED
        BY <2>1, <3>1, <3>2, <4>1 DEF Still
    <3>3. CASE t # s
      BY <2>1, <3>1, <3>3 DEF Still
    <3> QED
      BY <3>2, <3>3
  <2> QED
    BY <2>1 DEF OneAtATime
<1>2. SendsFit'
  BY StillFits DEF Flow, SendsFit
<1>3. RecordersFit'
  BY StillFits DEF Flow, RecordersFit
<1>4. GatesFit'
  <2>1. ASSUME NEW t \in Sends, t # s PROVE GateFits(t)'
    BY <2>1 DEF Flow, GatesFit, GateFits, Registered, Still, SameGate
  <2> QED
    BY <2>1 DEF GatesFit
<1> QED
  BY <1>1, <1>2, <1>3, <1>4 DEF Flow

\* A recorder that does nothing.
LEMMA RecorderStays ==
  ASSUME NEW s \in Sends, Keeps(s), ChunksFit(s), rec'[s] = rec[s], tx'[s].step = tx[s].step,
         tx'[s].next = tx[s].next, tx'[s].handle = tx[s].handle
  PROVE  (Keeps(s) /\ ChunksFit(s))'
<1>1. Keeps(s)'
  BY DEF Keeps, FinishedAt, PersistsAt
<1>2. ChunksFit(s)'
  BY DEF ChunksFit
<1> QED
  BY <1>1, <1>2

\* The handle of a send, or a retry it waits for.
Waits(t) == Streaming(t) /\ tx[t].loop \in {"waiting", "starting", "cancelling"}

\* Steps outside the queue change nothing that the past is about.
LEMMA PastStays ==
  ASSUME Past, UNCHANGED <<v, closed, env>>,
         \A t \in Sends : /\ tx'[t].handle = tx[t].handle
                          /\ ~tx'[t].exposed => ~tx[t].exposed /\ tx'[t].try = tx[t].try
                          /\ Waits(t) => Waits(t)' /\ tx'[t].try = tx[t].try
                          /\ gate'[t].handle = gate[t].handle
                          /\ gate'[t].closing = "ok" => gate[t].closing = "ok"
  PROVE  Past'
<1>1. \A t \in Sends : TurnFits(t)' /\ ClosureFits(t)'
  BY DEF Past, HistoryFits, TurnFits, ClosureFits
<1>2. (Plain(v) /\ Bounded(v) /\ EndsFit)'
  BY DEF Past, HistoryFits, EndsFit
<1>3. ASSUME env'.faults = 0
      PROVE  /\ \A t \in Sends : KnowsStep(t)'
             /\ \A p \in v'.pendingRetries : RetryWaits(p)'
  <2>1. env.faults = 0
    BY <1>3
  <2>2. \A t \in Sends : KnowsStep(t)'
    BY <2>1 DEF Past, Undisturbed, KnowsStep
  <2>3. ASSUME NEW p \in v.pendingRetries PROVE RetryWaits(p)'
    <3>1. PICK t \in Sends :
            /\ Waits(t) /\ p = RetryOf(tx[t].handle, tx[t].try)
            /\ p \in DOMAIN v.retries
            /\ v.retries[p] = [requestId |-> tx[t].handle, nextAttempt |-> tx[t].try + 1,
                               state |-> "scheduled"]
      BY <2>1 DEF Past, Undisturbed, RetryWaits, Waits
    <3> QED
      BY <3>1 DEF RetryWaits, Waits
  <2> QED
    BY <2>2, <2>3
<1> QED
  BY <1>1, <1>2, <1>3 DEF Past, HistoryFits, Undisturbed

\* Nothing that prepares a step is on its way.
NoStep(t) == \A i \in Nat : ~InQueue(i, "next", t)

\* The closures stay as they are.
LEMMA ClosuresStay ==
  ASSUME Closures, stop'.used = stop.used, env.faults = 0 \/ env'.faults # 0,
         env.faults \in Nat, env'.faults \in Nat,
         \A t \in Sends :
           /\ gate'[t].handle = gate[t].handle /\ gate'[t].end = gate[t].end
           /\ gate[t].closing = "none" <=> gate'[t].closing = "none"
           /\ gate'[t].closing = "failed" => gate[t].closing = "failed"
           /\ tx'[t].aborted = tx[t].aborted
           /\ \/ tx'[t].handle = tx[t].handle
              \/ tx[t].next # "end" /\ (stop.used # 0 \/ gate[t].handle = None)
           /\ tx[t].at = "over" => tx'[t].at = "over" /\ (tx[t].next = "end" => tx'[t].next = "end")
           /\ tx[t].at = "over" /\ NoStep(t) => NoStep(t)'
  PROVE  Closures'
<1>1. Unstopped'
  BY DEF Closures, Unstopped, NoStep
<1>2. Ending'
  BY DEF Closures, Ending
<1>3. CompletedIsRecorded'
  BY DEF Closures, CompletedIsRecorded
<1> QED
  BY <1>1, <1>2, <1>3 DEF Closures

\* No other job is a step.
LEMMA NoStepJoined ==
  ASSUME queue \in Seq(JobType), NEW kind \in JobKinds, NEW s \in Sends, NEW b \in Batches,
         Enqueue(kind, s, b)
  PROVE  \A t \in Sends : NoStep(t) /\ (kind # "next" \/ t # s) => NoStep(t)'
<1> DEFINE n == Len(queue)
<1>1. /\ Len(queue') = n + 1 /\ n \in Nat
      /\ \A i \in 1 .. n : queue'[i] = queue[i]
      /\ queue'[n + 1] = Job(kind, s, b)
  BY Enqueued
<1>2. queue'[n + 1].kind = kind /\ queue'[n + 1].of = s
  BY <1>1 DEF Job
<1>3. \A i \in 1 .. n + 1 : i \in 1 .. n \/ i = n + 1
  BY <1>1
<1> HIDE DEF n
<1> QED
  BY <1>1, <1>2, <1>3 DEF NoStep, InQueue, n

\* Nor does a job that leaves the queue bring one.
LEMMA NoStepLeft ==
  ASSUME queue \in Seq(JobType), NEW kind, NEW s, Runs(kind, s)
  PROVE  \A t \in Sends : NoStep(t) => NoStep(t)'
<1>1. /\ Len(queue) \in Nat /\ Len(queue') = Len(queue) - 1
      /\ \A i \in 1 .. Len(queue') : queue'[i] = queue[i + 1]
  BY Left
<1>2. \A i \in 1 .. Len(queue') : i + 1 \in 1 .. Len(queue) /\ i + 1 \in Nat
  BY <1>1
<1> QED
  BY <1>1, <1>2 DEF NoStep, InQueue

\* Nor does a step that leaves the queue alone.
LEMMA NoStepKept ==
  ASSUME UNCHANGED queue
  PROVE  \A t \in Sends : NoStep(t) => NoStep(t)'
BY DEF NoStep, InQueue

------------------------------------------------------------------------------
(* Sends that wait for their turn. *)

Waiting == {"gate", "repair", "prepare", "preparing", "begin", "beginning"}

\* A send that has not begun moves on.
LEMMA AtMoves ==
  ASSUME IInv, NEW s \in Sends, NEW a \in Waiting \cup {"over"}, NEW o \in Sends \cup {0},
         NEW r, r = [tx[s] EXCEPT !.at = a, !.on = o], tx' = [tx EXCEPT ![s] = r],
         tx[s].at \notin {"streaming", "over"},
         \A t \in Sends : t < s => tx[t].at = "over",
         a \in {"gate", "repair"} => o \in Sends /\ active \in {None, o},
         a \in {"prepare", "preparing", "begin", "beginning"} => active = None,
         UNCHANGED <<rec, active>>, \A t \in Sends : SameGate(t), stop'.used = stop.used
  PROVE  /\ tx' \in [Sends -> TxType]
         /\ Flow'
         /\ \A kind \in JobKinds, t \in Sends : \A b :
              (t # s \/ kind \notin {"prepare", "begin"}) /\ JobFits(kind, t, b)
                => JobFits(kind, t, b)'
         /\ UNCHANGED <<v, closed, env>> => Past'
         /\ (env.faults = 0 \/ env'.faults # 0) /\ env'.faults \in Nat
              /\ (\A t \in Sends : NoStep(t) => NoStep(t)') => Closures'
<1>1. tx \in [Sends -> TxType]
  BY DEF IInv, Types
<1>2. tx[s].handle = None /\ tx[s].loop = "invoke" /\ tx[s].next = "none" /\ ~tx[s].exposed
      /\ Untouched(s)
  <2>1. SendFits(s) /\ tx[s].at \notin {"streaming", "over"}
    BY DEF IInv, Flow, SendsFit
  <2>2. tx[s].handle = None /\ Untouched(s)
    BY <2>1 DEF SendFits
  <2> QED
    BY <1>1, <2>2 DEF Untouched, NoSend, TxType
<1>3. tx' \in [Sends -> TxType]
  <2>1. r \in TxType
    <3>1. tx[s] \in TxType
      BY <1>1
    <3> QED
      BY <3>1 DEF TxType, Waiting
  <2> QED
    BY <1>1, <2>1
<1>4. /\ tx'[s].at = a /\ tx'[s].on = o
      /\ tx'[s] = [NoSend EXCEPT !.at = a, !.on = o, !.aborted = tx[s].aborted]
      /\ tx'[s].handle = None /\ tx'[s].aborted = tx[s].aborted
      /\ tx'[s].loop = "invoke" /\ tx'[s].next = "none" /\ tx'[s].exposed = tx[s].exposed
      /\ tx'[s].step = tx[s].step /\ tx'[s].try = tx[s].try
  <2>1. tx[s] = [NoSend EXCEPT !.at = tx[s].at, !.on = tx[s].on, !.aborted = tx[s].aborted]
    BY <1>2 DEF Untouched
  <2>2. tx'[s] = r
    BY <1>1
  <2>3. tx'[s] = [NoSend EXCEPT !.at = a, !.on = o, !.aborted = tx[s].aborted]
    BY <2>1, <2>2 DEF NoSend
  <2>4. /\ r.at = a /\ r.on = o /\ r.aborted = tx[s].aborted
        /\ r.handle = tx[s].handle /\ r.loop = tx[s].loop /\ r.next = tx[s].next
    BY <1>1 DEF TxType
  <2>5. /\ tx'[s].exposed = tx[s].exposed /\ tx'[s].step = tx[s].step
        /\ tx'[s].try = tx[s].try
    BY <1>1, <2>2 DEF TxType
  <2> QED
    BY <1>2, <2>2, <2>3, <2>4, <2>5
<1>5. /\ \A t \in Sends : t # s => Still(t)
      /\ gate'[s] = gate[s] /\ rec'[s] = rec[s]
  BY <1>1, <1>2 DEF Still, SameGate, Untouched, NoClosure
<1>6. SendFits(s)'
  BY <1>2, <1>4, <1>5 DEF SendFits, Untouched, Streaming, Waiting
<1>7. (Keeps(s) /\ ChunksFit(s))'
  <2>1. Keeps(s) /\ ChunksFit(s)
    BY DEF IInv, Flow, RecordersFit
  <2> QED
    BY <1>2, <1>4, <1>5, <2>1, RecorderStays
<1>8. GateFits(s)'
  <2>1. GateFits(s)
    BY DEF IInv, Flow, GatesFit
  <2> QED
    BY <1>2, <1>4, <1>5, <2>1 DEF GateFits, Registered
<1>9. Flow'
  BY <1>5, <1>6, <1>7, <1>8, FlowStays DEF IInv
<1>10. ASSUME NEW kind \in JobKinds, NEW t \in Sends, NEW b,
              t # s \/ kind \notin {"prepare", "begin"}, JobFits(kind, t, b)
       PROVE  JobFits(kind, t, b)'
  <2>1. CASE t # s
    BY <1>5, <1>10, <2>1, StillFits
  <2>2. CASE t = s
    BY <1>2, <1>4, <1>5, <1>10, <2>2 DEF JobFits, Streaming
  <2> QED
    BY <2>1, <2>2
<1>11. ASSUME UNCHANGED <<v, closed, env>>
       PROVE  Past'
  <2>1. \A t \in Sends : /\ tx'[t].handle = tx[t].handle
                         /\ tx'[t].exposed = tx[t].exposed /\ tx'[t].try = tx[t].try
                         /\ Waits(t) => Waits(t)'
    BY <1>2, <1>4, <1>5 DEF Still, Waits, Streaming
  <2> QED
    BY <1>11, <2>1, PastStays DEF IInv, SameGate
<1>12. ASSUME env.faults = 0 \/ env'.faults # 0, env'.faults \in Nat,
              \A t \in Sends : NoStep(t) => NoStep(t)'
       PROVE  Closures'
  <2>1. \A t \in Sends : /\ tx'[t].handle = tx[t].handle /\ tx'[t].aborted = tx[t].aborted
                         /\ tx[t].at = "over" => tx'[t].at = "over" /\ tx'[t].next = tx[t].next
    BY <1>2, <1>4, <1>5 DEF Still
  <2>2. env.faults \in Nat
    BY DEF IInv, Types
  <2> QED
    BY <1>12, <2>1, <2>2, ClosuresStay DEF IInv, SameGate
<1> QED
  BY <1>3, <1>9, <1>10, <1>11, <1>12

\* A send that is under way follows sends that are over.
LEMMA Earlier ==
  ASSUME OneAtATime, NEW s \in Sends, tx[s].at # "away"
  PROVE  \A t \in Sends : t < s => tx[t].at = "over"
BY DEF OneAtATime

\* What a send that waits for a closure, or behind it, knows.
LEMMA WaitingFits ==
  ASSUME IInv, NEW s \in Sends
  PROVE  /\ tx[s] \in TxType /\ GateFits(s)
         /\ tx[s].at \in {"gate", "repair"} =>
              /\ tx[s].on \in Sends /\ active \in {None, tx[s].on}
              /\ GateFits(tx[s].on)
         /\ tx[s].at \in {"prepare", "preparing", "begin", "beginning"} => active = None
<1>1. \A t \in Sends : GateFits(t)
  BY DEF IInv, Flow, GatesFit
<1>2. tx[s] \in TxType
  BY DEF IInv, Types
<1> QED
  BY <1>1, <1>2 DEF GateFits

\* Gates that are kept.
LEMMA GatesKept ==
  ASSUME UNCHANGED gate
  PROVE  \A t \in Sends : SameGate(t)
BY DEF SameGate

\* A send that waits moves on, and the jobs keep up with it.
LEMMA WaitingStep ==
  ASSUME IInv, NEW s \in Sends, NEW a \in Waiting \cup {"over"}, NEW o \in Sends \cup {0},
         tx[s].at \notin {"streaming", "over"},
         NEW r, r = [tx[s] EXCEPT !.at = a, !.on = o], tx' = [tx EXCEPT ![s] = r],
         \A t \in Sends : t < s => tx[t].at = "over",
         a \in {"gate", "repair"} => o \in Sends /\ active \in {None, o},
         a \in {"prepare", "preparing", "begin", "beginning"} => active = None,
         UNCHANGED <<v, closed, env, rec, active, stop>>,
         gate' \in [Sends -> GateType], \A t \in Sends : SameGate(t),
         queue' \in Seq(JobType), \A t \in Sends : NoStep(t) => NoStep(t)',
         (\A kind \in JobKinds, t \in Sends : \A b :
           (t # s \/ kind \notin {"prepare", "begin"}) /\ JobFits(kind, t, b)
             => JobFits(kind, t, b)') => Jobs'
  PROVE  IInv'
<1>1. env'.faults = env.faults /\ env.faults \in Nat /\ stop'.used = stop.used
  BY DEF IInv, Types
<1>2. /\ tx' \in [Sends -> TxType] /\ Flow' /\ Past'
      /\ \A kind \in JobKinds, t \in Sends : \A b :
           (t # s \/ kind \notin {"prepare", "begin"}) /\ JobFits(kind, t, b)
             => JobFits(kind, t, b)'
      /\ Closures'
  BY <1>1, AtMoves
<1>3. Types'
  <2>1. /\ rec' \in [Sends -> RecType] /\ active' \in Sends \cup {None} /\ stop' \in StopType
        /\ env' \in [bounds : Settings, faults : Nat]
    BY Typed DEF IInv
  <2> QED
    BY <1>2, <2>1 DEF Types
<1> QED
  BY <1>2, <1>3 DEF IInv

\* A send that waited for a closure that succeeded goes on (await state.done).
LEMMA DoneResolvesStep ==
  ASSUME IInv, NEW s \in Sends, DoneResolves(s)
  PROVE  IInv'
<1> DEFINE o == tx[s].on
<1>1. /\ tx[s].at = "gate" /\ gate[o].closing = "ok"
      /\ UNCHANGED <<v, closed, queue, rec, gate, active, stop, env>>
  BY DEF DoneResolves
<1>2. tx[s] \in TxType /\ o \in Sends /\ active \in {None, o} /\ GateFits(o)
  BY <1>1, WaitingFits
<1>3. tx' = [tx EXCEPT ![s] = [tx[s] EXCEPT !.at = "prepare", !.on = o]]
  <2>1. [tx[s] EXCEPT !.at = "prepare", !.on = o] = [tx[s] EXCEPT !.at = "prepare"]
    BY <1>2 DEF TxType
  <2> QED
    BY <2>1 DEF DoneResolves
<1>4. active = None
  BY <1>1, <1>2 DEF GateFits, Registered
<1>5. \A t \in Sends : t < s => tx[t].at = "over"
  BY <1>1, Earlier DEF IInv, Flow
<1>6. gate' \in [Sends -> GateType] /\ queue' \in Seq(JobType) /\ Types
  BY <1>1 DEF IInv, Types
<1>7. /\ tx[s].at \notin {"streaming", "over"} /\ "prepare" \in Waiting \cup {"over"}
      /\ "prepare" \notin {"gate", "repair"} /\ o \in Sends \cup {0}
  BY <1>1, <1>2 DEF Waiting
<1>8. \A b : ~JobFits("prepare", s, b) /\ ~JobFits("begin", s, b)
  BY <1>1 DEF JobFits
<1>9. (\A kind \in JobKinds, t \in Sends : \A b :
         (t # s \/ kind \notin {"prepare", "begin"}) /\ JobFits(kind, t, b)
           => JobFits(kind, t, b)') => Jobs'
  BY <1>1, <1>6, <1>8, JobsStay DEF IInv
<1>10. (\A t \in Sends : SameGate(t)) /\ \A t \in Sends : NoStep(t) => NoStep(t)'
  BY <1>1, GatesKept, NoStepKept
<1> HIDE DEF o
<1> QED
  BY <1>1, <1>3, <1>4, <1>5, <1>6, <1>7, <1>9, <1>10, WaitingStep

\* A recovery is joined or begun.
LEMMA RecoveringFits ==
  ASSUME IInv, NEW o \in Sends, gate[o].closing = "failed", Recovering(o)
  PROVE  /\ gate' \in [Sends -> GateType] /\ \A t \in Sends : SameGate(t)
         /\ queue' \in Seq(JobType) /\ \A t \in Sends : NoStep(t) => NoStep(t)'
         /\ (\A kind \in JobKinds, t \in Sends : \A b : JobFits(kind, t, b) => JobFits(kind, t, b)')
              => Jobs'
<1>1. Types /\ gate \in [Sends -> GateType] /\ gate[o] \in GateType /\ queue \in Seq(JobType)
  BY DEF IInv, Types
<1>2. CASE gate[o].recovery = "none"
  <2>1. Enqueue("recover", o, <<>>) /\ gate' = [gate EXCEPT ![o].recovery = "running"]
    BY <1>2 DEF Recovering
  <2>2. "recover" \in JobKinds /\ <<>> \in Batches
    BY BatchTypes DEF JobKinds
  <2>3. gate' \in [Sends -> GateType]
    BY <1>1, <2>1 DEF GateType
  <2>4. /\ \A t \in Sends : t # o => gate'[t] = gate[t]
        /\ gate'[o] = [gate[o] EXCEPT !.recovery = "running"]
    BY <1>1, <2>1
  <2>5. \A t \in Sends : SameGate(t)
    BY <1>1, <1>2, <2>4 DEF GateType, SameGate
  <2>6. (\A c : ~JobFits("recover", o, c)) /\ JobFits("recover", o, <<>>)'
    BY <1>1, <1>2, <2>4 DEF JobFits, GateType
  <2>7. queue' \in Seq(JobType)
    BY <1>1, <2>1, <2>2, Enqueued
  <2>8. \A t \in Sends : NoStep(t) => NoStep(t)'
    BY <1>1, <2>1, <2>2, NoStepJoined
  <2>9. (\A kind \in JobKinds, t \in Sends : \A b : JobFits(kind, t, b) => JobFits(kind, t, b)')
          => Jobs'
    BY <1>1, <2>1, <2>2, <2>6, JobsJoined DEF IInv
  <2> QED
    BY <2>3, <2>5, <2>7, <2>8, <2>9
<1>3. CASE gate[o].recovery # "none"
  <2>1. UNCHANGED <<queue, gate>>
    BY <1>3 DEF Recovering
  <2> QED
    BY <1>1, <2>1, GatesKept, NoStepKept, JobsStay DEF IInv
<1> QED
  BY <1>2, <1>3

\* A send that waited for a closure that failed repairs or fails.
LEMMA DoneRejectsStep ==
  ASSUME IInv, NEW s \in Sends, DoneRejects(s)
  PROVE  IInv'
<1> DEFINE o == tx[s].on
           a == IF gate[o].recovery = "done" THEN "prepare" ELSE "repair"
<1>1. /\ tx[s].at = "gate" /\ gate[o].closing = "failed" /\ Recovering(o)
      /\ UNCHANGED <<v, closed, rec, active, stop, env>>
  BY DEF DoneRejects, Rejected
<1>2. tx[s] \in TxType /\ o \in Sends /\ active \in {None, o} /\ GateFits(o)
  BY <1>1, WaitingFits
<1>3. tx' = [tx EXCEPT ![s] = [tx[s] EXCEPT !.at = a, !.on = o]]
  <2>1. [tx[s] EXCEPT !.at = a, !.on = o] = [tx[s] EXCEPT !.at = a]
    BY <1>2 DEF TxType
  <2> QED
    BY <2>1 DEF DoneRejects
<1>4. a = "prepare" => active = None
  BY <1>1, <1>2 DEF GateFits, Registered
<1>5. \A t \in Sends : t < s => tx[t].at = "over"
  BY <1>1, Earlier DEF IInv, Flow
<1>6. /\ tx[s].at \notin {"streaming", "over"} /\ a \in Waiting \cup {"over"}
      /\ a \in {"prepare", "repair"} /\ o \in Sends \cup {0}
  BY <1>1, <1>2 DEF Waiting
<1>7. \A b : ~JobFits("prepare", s, b) /\ ~JobFits("begin", s, b)
  BY <1>1 DEF JobFits
<1> HIDE DEF o, a
<1>8. /\ gate' \in [Sends -> GateType] /\ \A t \in Sends : SameGate(t)
      /\ queue' \in Seq(JobType) /\ \A t \in Sends : NoStep(t) => NoStep(t)'
      /\ (\A kind \in JobKinds, t \in Sends : \A b : JobFits(kind, t, b) => JobFits(kind, t, b)')
           => Jobs'
  BY <1>1, <1>2, RecoveringFits
<1>9. (\A kind \in JobKinds, t \in Sends : \A b :
         (t # s \/ kind \notin {"prepare", "begin"}) /\ JobFits(kind, t, b)
           => JobFits(kind, t, b)') => Jobs'
  BY <1>7, <1>8
<1> QED
  BY <1>1, <1>2, <1>3, <1>4, <1>5, <1>6, <1>8, <1>9, WaitingStep

\* A send that waits asks for a job of its own.
LEMMA AsksStep ==
  ASSUME IInv, NEW s \in Sends, NEW kind \in JobKinds, NEW a \in Waiting,
         tx[s].at \in {"prepare", "begin"},
         <<kind, a>> \in {<<"prepare", "preparing">>, <<"begin", "beginning">>},
         Enqueue(kind, s, <<>>), tx' = [tx EXCEPT ![s].at = a],
         UNCHANGED <<v, closed, rec, gate, active, stop, env>>
  PROVE  IInv'
<1> DEFINE o == tx[s].on
<1>1. tx[s] \in TxType /\ active = None
  BY WaitingFits
<1>2. [tx[s] EXCEPT !.at = a, !.on = o] = [tx[s] EXCEPT !.at = a] /\ o \in Sends \cup {0}
  BY <1>1 DEF TxType
<1>3. tx' = [tx EXCEPT ![s] = [tx[s] EXCEPT !.at = a, !.on = o]]
  BY <1>2
<1>4. \A t \in Sends : t < s => tx[t].at = "over"
  BY Earlier DEF IInv, Flow
<1>5. /\ tx[s].at \notin {"streaming", "over"} /\ a \in Waiting \cup {"over"}
      /\ a \notin {"gate", "repair"} /\ kind \in {"prepare", "begin"}
  OBVIOUS
<1>6. \A b : ~JobFits("prepare", s, b) /\ ~JobFits("begin", s, b)
  BY DEF JobFits
<1>7. Types /\ queue \in Seq(JobType) /\ gate' \in [Sends -> GateType] /\ <<>> \in Batches
  BY BatchTypes DEF IInv, Types
<1>8. tx'[s].at = a
  BY <1>1, <1>3, Typed, <1>7 DEF TxType
<1>9. JobFits(kind, s, <<>>)'
  BY <1>8 DEF JobFits
<1> HIDE DEF o
<1>10. (\A k \in JobKinds, t \in Sends : \A b :
          (t # s \/ k \notin {"prepare", "begin"}) /\ JobFits(k, t, b)
            => JobFits(k, t, b)') => Jobs'
  BY <1>5, <1>6, <1>7, <1>9, JobsJoined DEF IInv
<1>11. queue' \in Seq(JobType)
  BY <1>7, Enqueued
<1>12. \A t \in Sends : NoStep(t) => NoStep(t)'
  <2>1. kind # "next"
    BY <1>5
  <2> QED
    BY <1>7, <2>1, NoStepJoined
<1> QED
  BY <1>1, <1>2, <1>3, <1>4, <1>5, <1>7, <1>10, <1>11, <1>12, GatesKept, WaitingStep

\* A send asks the session to prepare and to begin its turn.
LEMMA PrepareStepsOn ==
  ASSUME IInv, NEW s \in Sends, Prepare(s) \/ Begin(s)
  PROVE  IInv'
<1>1. {"prepare", "begin"} \subseteq JobKinds /\ {"preparing", "beginning"} \subseteq Waiting
  BY DEF JobKinds, Waiting
<1>2. CASE Prepare(s)
  BY <1>1, <1>2, AsksStep DEF Prepare
<1>3. CASE Begin(s)
  BY <1>1, <1>3, AsksStep DEF Begin
<1> QED
  BY <1>2, <1>3

\* A send begins while every send before it is over.
LEMMA SendMessagesStep ==
  ASSUME IInv, NEW s \in Sends, SendMessages(s)
  PROVE  IInv'
<1> DEFINE o == BeforeOpen.on
           a == BeforeOpen.at
<1>1. /\ tx[s].at = "away" /\ \A t \in Sends : t < s => tx[t].at = "over"
      /\ tx' = [tx EXCEPT ![s] = [tx[s] EXCEPT !.at = a, !.on = o]]
      /\ UNCHANGED <<v, closed, queue, rec, gate, active, stop, env>>
  BY DEF SendMessages
<1>2. active \in Sends \cup {None} /\ Types
  BY DEF IInv, Types
<1>3. \/ active = None /\ a = "prepare" /\ o = 0
      \/ active # None /\ a = "gate" /\ o = active
  BY DEF BeforeOpen
<1>4. /\ a \in Waiting \cup {"over"} /\ o \in Sends \cup {0}
      /\ a \in {"gate", "repair"} => o \in Sends /\ active \in {None, o}
      /\ a \in {"prepare", "preparing", "begin", "beginning"} => active = None
      /\ tx[s].at \notin {"streaming", "over"}
  BY <1>1, <1>2, <1>3 DEF Waiting
<1>5. \A b : ~JobFits("prepare", s, b) /\ ~JobFits("begin", s, b)
  BY <1>1 DEF JobFits
<1> HIDE DEF o, a
<1>6. (\A kind \in JobKinds, t \in Sends : \A b :
         (t # s \/ kind \notin {"prepare", "begin"}) /\ JobFits(kind, t, b)
           => JobFits(kind, t, b)') => Jobs'
  BY <1>1, <1>2, <1>5, JobsStay DEF IInv
<1>7. gate' \in [Sends -> GateType] /\ queue' \in Seq(JobType)
  BY <1>1 DEF IInv, Types
<1> QED
  BY <1>1, <1>4, <1>6, <1>7, GatesKept, NoStepKept, WaitingStep

------------------------------------------------------------------------------
(* The end of a stream. *)

\* A stream that has a handle, and what its closure may be.
LEMMA StreamingFits ==
  ASSUME IInv, NEW s \in Sends, Streaming(s)
  PROVE  /\ tx[s] \in TxType /\ tx[s].handle \in HandleType /\ tx[s].handle # None
         /\ gate[s] \in GateType /\ rec[s] \in RecType
         /\ SendFits(s) /\ Keeps(s) /\ ChunksFit(s) /\ GateFits(s)
         /\ tx[s].at = "streaming"
         /\ \A t \in Sends : t < s => tx[t].at = "over"
         /\ \A t \in Sends : t # s => ~Streaming(t)
<1>1. tx[s] \in TxType /\ gate[s] \in GateType /\ rec[s] \in RecType
  BY DEF IInv, Types
<1>2. SendFits(s) /\ Keeps(s) /\ ChunksFit(s) /\ GateFits(s)
  BY DEF IInv, Flow, SendsFit, RecordersFit, GatesFit
<1>3. tx[s].handle # None
  BY <1>2 DEF SendFits, Streaming
<1>4. tx[s].handle \in HandleType
  BY <1>1, <1>3 DEF TxType
<1>5. \A t \in Sends : t < s => tx[t].at = "over"
  BY Earlier DEF IInv, Flow, Streaming
<1>6. \A t \in Sends : t # s => ~Streaming(t)
  <2>1. \A t \in Sends : s < t \/ t < s \/ s = t
    BY ChatAssumption DEF Sends
  <2> QED
    BY <2>1 DEF IInv, Flow, OneAtATime, Streaming
<1> QED
  BY <1>1, <1>2, <1>3, <1>4, <1>5, <1>6 DEF Streaming

\* The closure of s after its stream is over.
LEMMA ClosingFits ==
  ASSUME IInv, NEW s \in Sends, NEW end \in Ends, Closing(s, end)
  PROVE  /\ gate' \in [Sends -> GateType]
         /\ \A t \in Sends : t # s => gate'[t] = gate[t]
         /\ gate'[s].handle = gate[s].handle /\ gate'[s].recovery = gate[s].recovery
         /\ \/ gate[s].closing # "none" /\ gate'[s] = gate[s]
            \/ gate[s].closing = "none" /\ gate'[s].closing = "drain" /\ gate'[s].end = end
<1>1. gate \in [Sends -> GateType] /\ gate[s] \in GateType
  BY DEF IInv, Types
<1>2. CASE gate[s].closing # "none"
  BY <1>1, <1>2 DEF Closing
<1>3. CASE gate[s].closing = "none"
  <2> DEFINE g == [gate[s] EXCEPT !.closing = "drain", !.end = end]
  <2>1. gate' = [gate EXCEPT ![s] = g]
    BY <1>3 DEF Closing
  <2>2. /\ g \in GateType /\ g.handle = gate[s].handle /\ g.recovery = gate[s].recovery
        /\ g.closing = "drain" /\ g.end = end
    BY <1>1 DEF GateType
  <2> HIDE DEF g
  <2> QED
    BY <1>1, <1>3, <2>1, <2>2
<1> QED
  BY <1>2, <1>3

\* A stream that ends.
LEMMA OverFits ==
  ASSUME IInv, NEW s \in Sends, Streaming(s), NEW end \in Ends, Over(s, end),
         tx[s].loop # "waiting", end = Completed => tx[s].next = "end",
         UNCHANGED <<rec, active>>, stop'.used = stop.used
  PROVE  /\ tx' \in [Sends -> TxType] /\ gate' \in [Sends -> GateType]
         /\ Flow'
         /\ \A kind \in JobKinds, t \in Sends : \A b :
              (t # s \/ kind \notin {"schedule", "start", "cancel"}) /\ JobFits(kind, t, b)
                => JobFits(kind, t, b)'
         /\ \A t \in Sends :
              /\ tx'[t].handle = tx[t].handle /\ tx'[t].exposed = tx[t].exposed
              /\ tx'[t].try = tx[t].try
              /\ Waits(t) /\ (t # s \/ tx[s].loop \notin {"starting", "cancelling"}) => Waits(t)'
              /\ gate'[t].handle = gate[t].handle
              /\ gate'[t].closing = "ok" => gate[t].closing = "ok"
         /\ (env.faults = 0 \/ env'.faults # 0) /\ env'.faults \in Nat
              /\ (\A t \in Sends : NoStep(t) => NoStep(t)') /\ (stop.used = 0 => NoStep(s)')
              => Closures'
<1> DEFINE r == [tx[s] EXCEPT !.at = "over"]
<1>1. /\ tx[s] \in TxType /\ tx[s].handle \in HandleType /\ tx[s].handle # None
      /\ gate[s] \in GateType /\ SendFits(s) /\ Keeps(s) /\ ChunksFit(s) /\ GateFits(s)
      /\ tx[s].at = "streaming"
  BY StreamingFits
<1>2. tx \in [Sends -> TxType]
  BY DEF IInv, Types
<1>3. tx' = [tx EXCEPT ![s] = r] /\ Closing(s, end)
  BY DEF Over
<1>4. /\ r \in TxType /\ r.at = "over" /\ r.on = tx[s].on /\ r.handle = tx[s].handle
      /\ r.aborted = tx[s].aborted /\ r.try = tx[s].try /\ r.exposed = tx[s].exposed
      /\ r.loop = tx[s].loop /\ r.step = tx[s].step /\ r.said = tx[s].said
      /\ r.next = tx[s].next
  BY <1>1 DEF TxType
<1> HIDE DEF r
<1>5. tx' \in [Sends -> TxType] /\ tx'[s] = r /\ \A t \in Sends : t # s => tx'[t] = tx[t]
  BY <1>2, <1>3, <1>4
<1>6. /\ gate' \in [Sends -> GateType]
      /\ \A t \in Sends : t # s => gate'[t] = gate[t]
      /\ gate'[s].handle = gate[s].handle /\ gate'[s].recovery = gate[s].recovery
      /\ \/ gate[s].closing # "none" /\ gate'[s] = gate[s]
         \/ gate[s].closing = "none" /\ gate'[s].closing = "drain" /\ gate'[s].end = end
  BY <1>3, ClosingFits
<1>7. (\A t \in Sends : t # s => Still(t)) /\ rec'[s] = rec[s]
  BY <1>5, <1>6 DEF Still, SameGate
<1>8. SendFits(s)'
  BY <1>1, <1>4, <1>5 DEF SendFits, Streaming
<1>9. (Keeps(s) /\ ChunksFit(s))'
  BY <1>1, <1>4, <1>5, <1>7, RecorderStays
<1>10. GateFits(s)'
  BY <1>1, <1>4, <1>5, <1>6 DEF GateFits, Registered
<1>11. Flow'
  BY <1>1, <1>7, <1>8, <1>9, <1>10, FlowStays DEF IInv
<1>12. ASSUME NEW kind \in JobKinds, NEW t \in Sends, NEW b,
              t # s \/ kind \notin {"schedule", "start", "cancel"}, JobFits(kind, t, b)
       PROVE  JobFits(kind, t, b)'
  <2>1. CASE t # s
    BY <1>7, <1>12, <2>1, StillFits
  <2>2. CASE t = s
    BY <1>1, <1>4, <1>5, <1>6, <1>7, <1>12, <2>2 DEF JobFits, Streaming
  <2> QED
    BY <2>1, <2>2
<1>13. \A t \in Sends :
         /\ tx'[t].handle = tx[t].handle /\ tx'[t].exposed = tx[t].exposed
         /\ tx'[t].try = tx[t].try
         /\ Waits(t) /\ (t # s \/ tx[s].loop \notin {"starting", "cancelling"}) => Waits(t)'
         /\ gate'[t].handle = gate[t].handle
         /\ gate'[t].closing = "ok" => gate[t].closing = "ok"
  BY <1>4, <1>5, <1>6 DEF Waits, Streaming
<1>14. ASSUME env.faults = 0 \/ env'.faults # 0, env'.faults \in Nat,
              \A t \in Sends : NoStep(t) => NoStep(t)', stop.used = 0 => NoStep(s)'
       PROVE  Closures'
  <2>1. Unstopped'
    <3>1. ASSUME stop'.used = 0, NEW t \in Sends
          PROVE  /\ ~tx'[t].aborted
                 /\ gate'[t].closing # "none" => tx'[t].at = "over" /\ NoStep(t)'
                 /\ gate'[t].handle # None => gate'[t].handle = tx'[t].handle
      <4>1. /\ ~tx[t].aborted
            /\ gate[t].closing # "none" => tx[t].at = "over" /\ NoStep(t)
            /\ gate[t].handle # None => gate[t].handle = tx[t].handle
        BY <3>1 DEF IInv, Closures, Unstopped, NoStep
      <4>2. CASE t = s
        BY <1>4, <1>5, <1>13, <1>14, <3>1, <4>1, <4>2
      <4>3. CASE t # s
        BY <1>5, <1>6, <1>14, <4>1, <4>3
      <4> QED
        BY <4>2, <4>3
    <3> QED
      BY <3>1 DEF Unstopped, NoStep
  <2>2. Ending'
    <3>1. Ending
      BY DEF IInv, Closures
    <3>2. gate[s].closing = "none" => gate[s].handle = None
      BY <1>1 DEF GateFits
    <3>3. ASSUME NEW t \in Sends, gate'[t].closing # "none", gate'[t].end = Completed
          PROVE  /\ tx'[t].at = "over" /\ tx'[t].next = "end"
                 /\ gate'[t].handle # None => gate'[t].handle = tx'[t].handle
      <4>1. CASE t = s
        BY <1>1, <1>4, <1>5, <1>6, <3>1, <3>2, <3>3, <4>1 DEF Ending
      <4>2. CASE t # s
        BY <1>5, <1>6, <3>1, <3>3, <4>2 DEF Ending
      <4> QED
        BY <4>1, <4>2
    <3> QED
      BY <3>3 DEF Ending
  <2>3. CompletedIsRecorded'
    <3>1. env.faults \in Nat /\ CompletedIsRecorded
      BY DEF IInv, Types, Closures
    <3>2. \A t \in Sends : gate'[t].closing = "failed" =>
            gate[t].closing = "failed" /\ gate'[t].end = gate[t].end
      BY <1>6
    <3> QED
      BY <1>14, <3>1, <3>2 DEF CompletedIsRecorded
  <2> QED
    BY <2>1, <2>2, <2>3 DEF Closures
<1> QED
  BY <1>5, <1>6, <1>11, <1>12, <1>13, <1>14

\* A send that asked for no step has none in the queue.
LEMMA NotAsked ==
  ASSUME IInv, NEW s \in Sends, tx[s].next # "asked"
  PROVE  NoStep(s)
<1>1. \A i \in Nat : ~InQueue(i, "next", s)
  BY DEF IInv, Jobs, JobsFit, JobFits, InQueue
<1> QED
  BY <1>1 DEF NoStep

\* The stream ends outside the queue.
LEMMA OverStep ==
  ASSUME IInv, NEW s \in Sends, Streaming(s), NEW end \in Ends, Over(s, end),
         tx[s].loop = "invoke", end = Completed => tx[s].next = "end",
         stop.used = 0 => tx[s].next # "asked",
         UNCHANGED <<v, closed, queue, rec, active, stop, env>>
  PROVE  IInv'
<1>1. env'.faults = env.faults /\ env.faults \in Nat /\ Types
  BY DEF IInv, Types
<1>2. /\ tx' \in [Sends -> TxType] /\ gate' \in [Sends -> GateType] /\ Flow'
      /\ \A kind \in JobKinds, t \in Sends : \A b :
           (t # s \/ kind \notin {"schedule", "start", "cancel"}) /\ JobFits(kind, t, b)
             => JobFits(kind, t, b)'
      /\ \A t \in Sends :
           /\ tx'[t].handle = tx[t].handle /\ tx'[t].exposed = tx[t].exposed
           /\ tx'[t].try = tx[t].try
           /\ Waits(t) => Waits(t)'
           /\ gate'[t].handle = gate[t].handle
           /\ gate'[t].closing = "ok" => gate[t].closing = "ok"
      /\ (\A t \in Sends : NoStep(t) => NoStep(t)') /\ (stop.used = 0 => NoStep(s)') => Closures'
  BY <1>1, OverFits
<1>3. \A b : \A kind \in {"schedule", "start", "cancel"} : ~JobFits(kind, s, b)
  BY DEF JobFits
<1>4. Jobs'
  <2>1. \A kind \in JobKinds, t \in Sends : \A b : JobFits(kind, t, b) => JobFits(kind, t, b)'
    BY <1>2, <1>3
  <2> QED
    BY <1>1, <2>1, JobsStay DEF IInv
<1>5. Past'
  BY <1>2, PastStays DEF IInv
<1>6. Closures'
  <2>1. (\A t \in Sends : NoStep(t) => NoStep(t)') /\ (stop.used = 0 => NoStep(s))
    BY NotAsked, NoStepKept
  <2> QED
    BY <1>2, <2>1
<1>7. Types'
  <2>1. /\ rec' \in [Sends -> RecType] /\ active' \in Sends \cup {None} /\ stop' \in StopType
        /\ env' \in [bounds : Settings, faults : Nat] /\ queue' \in Seq(JobType)
    BY Typed DEF IInv
  <2> QED
    BY <1>2, <2>1 DEF Types
<1> QED
  BY <1>2, <1>4, <1>5, <1>6, <1>7 DEF IInv

\* How a stream ends is an end.
LEMMA EndTypes ==
  ASSUME IInv, NEW s \in Sends
  PROVE  /\ Ended(s) \in Ends /\ FailedAt(1) \in Ends
         /\ {Completed, Interrupted, Cancelled} \subseteq Ends
         /\ Ended(s) # Completed /\ \A n : FailedAt(n) # Completed
         /\ Interrupted # Completed /\ Cancelled # Completed
<1>1. tx[s].try \in Nat
  BY DEF IInv, Types, TxType
<1>2. \A n \in Nat : FailedAt(n) \in Ends
  BY DEF FailedAt, Ends
<1>3. \A n : FailedAt(n) # Completed
  BY DEF FailedAt, Completed
<1>4. {Completed, Interrupted, Cancelled} \subseteq Ends
  BY DEF Ends
<1>5. Interrupted # Completed /\ Cancelled # Completed
  BY DEF Interrupted, Completed, Cancelled
<1> HIDE DEF Ends, FailedAt
<1> QED
  BY <1>1, <1>2, <1>3, <1>4, <1>5 DEF Ended

\* The provider's response ends: the closure that follows is of the last step.
LEMMA StreamEndsStep ==
  ASSUME IInv, NEW s \in Sends, StreamEnds(s)
  PROVE  IInv'
<1> DEFINE end == IF rec[s].failed THEN FailedAt(1) ELSE Completed
<1>1. /\ Streaming(s) /\ tx[s].next = "end" /\ Over(s, end)
      /\ UNCHANGED <<v, closed, queue, rec, active, stop, env>>
  BY DEF StreamEnds
<1>2. SendFits(s)
  BY <1>1, StreamingFits
<1>3. tx[s].loop = "invoke"
  BY <1>1, <1>2 DEF SendFits
<1>4. end \in Ends
  BY EndTypes
<1> HIDE DEF end
<1> QED
  BY <1>1, <1>3, <1>4, OverStep

\* A response that fails ends its stream.
LEMMA StreamFailsStep ==
  ASSUME IInv, NEW s \in Sends, StreamFails(s)
  PROVE  IInv'
<1>1. PICK end \in {FailedAt(1), Ended(s)} : Over(s, end)
  BY DEF StreamFails
<1>2. /\ Streaming(s) /\ tx[s].next = "none" /\ tx[s].loop = "invoke"
      /\ UNCHANGED <<v, closed, queue, rec, active, stop, env>>
  BY DEF StreamFails, Producing
<1>3. end \in Ends /\ end # Completed
  BY EndTypes
<1> QED
  BY <1>1, <1>2, <1>3, OverStep

\* A response that was aborted ends its stream.
LEMMA StreamAbortsStep ==
  ASSUME IInv, NEW s \in Sends, StreamAborts(s)
  PROVE  IInv'
<1>1. PICK end \in {Interrupted, Cancelled} : Over(s, end)
  BY DEF StreamAborts
<1>2. /\ Streaming(s) /\ tx[s].aborted /\ tx[s].loop = "invoke"
      /\ UNCHANGED <<v, closed, queue, rec, active, stop, env>>
  BY DEF StreamAborts
<1>3. end \in Ends /\ end # Completed
  BY EndTypes
<1>4. stop.used # 0
  BY <1>2 DEF IInv, Closures, Unstopped
<1> QED
  BY <1>1, <1>2, <1>3, <1>4, OverStep

\* A send goes on within its stream.
LEMMA StreamStep ==
  ASSUME IInv, NEW s \in Sends, UNCHANGED <<v, closed, gate, active, stop, env>>,
         tx' \in [Sends -> TxType], rec' \in [Sends -> RecType], queue' \in Seq(JobType),
         \A t \in Sends : t # s => tx'[t] = tx[t] /\ rec'[t] = rec[t],
         tx'[s].at = tx[s].at, tx'[s].on = tx[s].on, tx'[s].handle = tx[s].handle,
         tx'[s].aborted = tx[s].aborted, tx'[s].try = tx[s].try,
         ~tx'[s].exposed => ~tx[s].exposed, Waits(s) => Waits(s)',
         tx[s].at = "over" => tx'[s].next = tx[s].next,
         SendFits(s)', Keeps(s)', ChunksFit(s)',
         \A t \in Sends : tx[t].at = "over" /\ NoStep(t) => NoStep(t)',
         Jobs'
  PROVE  IInv'
<1>1. \A t \in Sends : t # s => Still(t)
  BY DEF Still, SameGate
<1>2. GateFits(s)'
  <2>1. GateFits(s)
    BY DEF IInv, Flow, GatesFit
  <2> QED
    BY <2>1 DEF GateFits, Registered
<1>3. Flow'
  BY <1>1, <1>2, FlowStays DEF IInv
<1>4. Past'
  <2>1. \A t \in Sends : /\ tx'[t].handle = tx[t].handle
                         /\ ~tx'[t].exposed => ~tx[t].exposed /\ tx'[t].try = tx[t].try
                         /\ Waits(t) => Waits(t)' /\ tx'[t].try = tx[t].try
    BY DEF Waits, Streaming
  <2> QED
    BY <2>1, PastStays DEF IInv
<1>5. Closures'
  <2>1. env.faults \in Nat /\ env'.faults = env.faults /\ stop'.used = stop.used
    BY DEF IInv, Types
  <2>2. \A t \in Sends :
           /\ tx'[t].aborted = tx[t].aborted /\ tx'[t].handle = tx[t].handle
           /\ tx[t].at = "over" => tx'[t].at = "over" /\ tx'[t].next = tx[t].next
    OBVIOUS
  <2> QED
    BY <2>1, <2>2, ClosuresStay DEF IInv
<1>6. Types'
  <2>1. /\ gate' \in [Sends -> GateType] /\ active' \in Sends \cup {None} /\ stop' \in StopType
        /\ env' \in [bounds : Settings, faults : Nat]
    BY Typed DEF IInv
  <2> QED
    BY <2>1 DEF Types
<1> QED
  BY <1>3, <1>4, <1>5, <1>6 DEF IInv

------------------------------------------------------------------------------
(* A stream goes on. *)

\* One send changes.
LEMMA OneSend ==
  ASSUME Types, NEW s \in Sends, NEW r \in TxType, tx' = [tx EXCEPT ![s] = r]
  PROVE  /\ tx' \in [Sends -> TxType] /\ tx'[s] = r
         /\ \A t \in Sends : t # s => tx'[t] = tx[t]
BY Typed

\* One recorder changes.
LEMMA OneRecorder ==
  ASSUME Types, NEW s \in Sends, NEW q \in RecType, rec' = [rec EXCEPT ![s] = q]
  PROVE  /\ rec' \in [Sends -> RecType] /\ rec'[s] = q
         /\ \A t \in Sends : t # s => rec'[t] = rec[t]
BY Typed

\* The jobs of the other sends stay.
LEMMA OtherJobs ==
  ASSUME NEW s, UNCHANGED gate,
         \A t \in Sends : t # s => tx'[t] = tx[t] /\ rec'[t] = rec[t]
  PROVE  \A kind, b : \A t \in Sends : t # s /\ JobFits(kind, t, b) => JobFits(kind, t, b)'
<1>1. \A t \in Sends : t # s => Still(t)
  BY DEF Still, SameGate
<1> QED
  BY <1>1, StillFits

\* The wait before a retry ends: its start is queued, of the retry that pends.
LEMMA BackoffEndsStep ==
  ASSUME IInv, NEW s \in Sends, BackoffEnds(s)
  PROVE  IInv'
<1> DEFINE r == [tx[s] EXCEPT !.loop = "starting"]
<1>0. PICK b : b = StartBatch(tx[s].handle, tx[s].try)
  OBVIOUS
<1>1. /\ tx[s].loop = "waiting" /\ Enqueue("start", s, b) /\ tx' = [tx EXCEPT ![s] = r]
      /\ UNCHANGED <<v, closed, rec, gate, active, stop, env>>
  BY <1>0 DEF BackoffEnds
<1>2. Streaming(s)
  BY <1>1 DEF IInv, Flow, SendsFit, SendFits
<1>3. /\ tx[s] \in TxType /\ tx[s].handle \in HandleType /\ tx[s].handle # None
      /\ SendFits(s) /\ Keeps(s) /\ ChunksFit(s) /\ tx[s].at = "streaming"
  BY <1>2, StreamingFits
<1>4. /\ r \in TxType /\ r.at = tx[s].at /\ r.on = tx[s].on /\ r.handle = tx[s].handle
      /\ r.aborted = tx[s].aborted /\ r.try = tx[s].try /\ r.exposed = tx[s].exposed
      /\ r.loop = "starting" /\ r.step = tx[s].step /\ r.next = tx[s].next
      /\ tx[s].try \in Nat
  BY <1>3 DEF TxType
<1>5. b \in Batches /\ "start" \in JobKinds
  BY <1>0, <1>3, <1>4, BatchTypes DEF JobKinds
<1> HIDE DEF r
<1>6. Types /\ queue \in Seq(JobType)
  BY DEF IInv, Types
<1>7. tx' \in [Sends -> TxType] /\ tx'[s] = r /\ \A t \in Sends : t # s => tx'[t] = tx[t]
  BY <1>1, <1>4, <1>6, OneSend
<1>8. \A kind \in JobKinds, t \in Sends : \A c : JobFits(kind, t, c) => JobFits(kind, t, c)'
  <2>1. \A kind \in JobKinds : \A c : JobFits(kind, s, c) => JobFits(kind, s, c)'
    BY <1>0, <1>1, <1>2, <1>4, <1>7 DEF JobFits, Streaming
  <2> QED
    BY <1>1, <1>7, <2>1, OtherJobs
<1>9. (\A c : ~JobFits("start", s, c)) /\ JobFits("start", s, b)'
  BY <1>0, <1>1, <1>2, <1>4, <1>7 DEF JobFits, Streaming
<1>10. Jobs' /\ queue' \in Seq(JobType)
  BY <1>1, <1>5, <1>6, <1>8, <1>9, JobsJoined DEF IInv
<1>11. \A t \in Sends : NoStep(t) => NoStep(t)'
  BY <1>1, <1>5, <1>6, NoStepJoined
<1>12. SendFits(s)'
  BY <1>1, <1>3, <1>4, <1>7 DEF SendFits, Streaming
<1>13. (Keeps(s) /\ ChunksFit(s))'
  BY <1>1, <1>3, <1>4, <1>7, RecorderStays
<1>14. Waits(s)'
  BY <1>3, <1>4, <1>7 DEF Waits, Streaming
<1>15. rec' \in [Sends -> RecType]
  BY <1>1, <1>6, Typed
<1> QED
  BY <1>1, <1>3, <1>4, <1>7, <1>10, <1>11, <1>12, <1>13, <1>14, <1>15, StreamStep

\* The response asks for its next step once the recorder counted the last one.
LEMMA PrepareStepStep ==
  ASSUME IInv, NEW s \in Sends, PrepareStep(s)
  PROVE  IInv'
<1> DEFINE r == [tx[s] EXCEPT !.next = "asked"]
<1>0. PICK b : b = NextBatch(tx[s].handle)
  OBVIOUS
<1>1. /\ Streaming(s) /\ tx[s].next = "wait" /\ tx[s].step <= rec[s].persisted
      /\ Enqueue("next", s, b) /\ tx' = [tx EXCEPT ![s] = r]
      /\ UNCHANGED <<v, closed, rec, gate, active, stop, env>>
  BY <1>0 DEF PrepareStep, BeforeStep
<1>2. /\ tx[s] \in TxType /\ tx[s].handle \in HandleType /\ tx[s].handle # None
      /\ rec[s] \in RecType
      /\ SendFits(s) /\ Keeps(s) /\ ChunksFit(s) /\ tx[s].at = "streaming"
  BY <1>1, StreamingFits
<1>3. /\ r \in TxType /\ r.at = tx[s].at /\ r.on = tx[s].on /\ r.handle = tx[s].handle
      /\ r.aborted = tx[s].aborted /\ r.try = tx[s].try /\ r.exposed = tx[s].exposed
      /\ r.loop = tx[s].loop /\ r.step = tx[s].step /\ r.next = "asked"
      /\ tx[s].step \in Nat
  BY <1>2 DEF TxType
<1>4. b \in Batches /\ "next" \in JobKinds
  BY <1>0, <1>2, BatchTypes DEF JobKinds
<1> HIDE DEF r
<1>5. Types /\ queue \in Seq(JobType)
  BY DEF IInv, Types
<1>6. tx' \in [Sends -> TxType] /\ tx'[s] = r /\ \A t \in Sends : t # s => tx'[t] = tx[t]
  BY <1>1, <1>3, <1>5, OneSend
<1>7. \A kind \in JobKinds, t \in Sends : \A c : JobFits(kind, t, c) => JobFits(kind, t, c)'
  <2>1. \A kind \in JobKinds : \A c : JobFits(kind, s, c) => JobFits(kind, s, c)'
    BY <1>1, <1>3, <1>6 DEF JobFits, Streaming
  <2> QED
    BY <1>1, <1>6, <2>1, OtherJobs
<1>8. (\A c : ~JobFits("next", s, c)) /\ JobFits("next", s, b)'
  BY <1>0, <1>1, <1>3, <1>6 DEF JobFits
<1>9. Jobs' /\ queue' \in Seq(JobType)
  BY <1>1, <1>4, <1>5, <1>7, <1>8, JobsJoined DEF IInv
<1>10. \A t \in Sends : tx[t].at = "over" /\ NoStep(t) => NoStep(t)'
  BY <1>1, <1>2, <1>4, <1>5, NoStepJoined
<1>11. SendFits(s)'
  BY <1>1, <1>2, <1>3, <1>6 DEF SendFits, Streaming
<1>12. Keeps(s)'
  <2>1. rec[s].persisted = tx[s].step
    <3>1. rec[s].persisted \in Nat
      BY <1>2 DEF RecType
    <3> QED
      BY <1>1, <1>2, <1>3, <3>1 DEF Keeps
  <2> QED
    BY <1>1, <1>2, <1>3, <1>6, <2>1 DEF Keeps, FinishedAt, PersistsAt
<1>13. ChunksFit(s)'
  BY <1>1, <1>2, <1>3, <1>6 DEF ChunksFit
<1>14. Waits(s) => Waits(s)'
  BY <1>3, <1>6 DEF Waits, Streaming
<1>15. rec' \in [Sends -> RecType]
  BY <1>1, <1>5, Typed
<1> QED
  BY <1>1, <1>2, <1>3, <1>6, <1>9, <1>10, <1>11, <1>12, <1>13, <1>14, <1>15, StreamStep

\* A request fails: a retry is queued, or the stream ends.
LEMMA RequestFailsStep ==
  ASSUME IInv, NEW s \in Sends, RequestFails(s)
  PROVE  IInv'
<1> DEFINE r == [tx[s] EXCEPT !.loop = "scheduling"]
<1>0. PICK b : b = ScheduleBatch(tx[s].handle, tx[s].try)
  OBVIOUS
<1>1. /\ Streaming(s) /\ tx[s].loop = "invoke" /\ ~tx[s].exposed
      /\ UNCHANGED <<v, closed, rec, active, stop, env>>
  BY DEF RequestFails
<1>2. /\ tx[s] \in TxType /\ tx[s].handle \in HandleType /\ tx[s].handle # None
      /\ SendFits(s) /\ Keeps(s) /\ ChunksFit(s) /\ tx[s].at = "streaming"
  BY <1>1, StreamingFits
<1>3. CASE Over(s, Ended(s)) /\ UNCHANGED queue
  <2>1. tx[s].next # "asked"
    BY <1>1, <1>2 DEF SendFits
  <2> QED
    BY <1>1, <1>3, <2>1, EndTypes, OverStep
<1>4. CASE /\ tx' = [tx EXCEPT ![s] = r] /\ Enqueue("schedule", s, b) /\ UNCHANGED gate
  <2>1. /\ r \in TxType /\ r.at = tx[s].at /\ r.on = tx[s].on /\ r.handle = tx[s].handle
        /\ r.aborted = tx[s].aborted /\ r.try = tx[s].try /\ r.exposed = tx[s].exposed
        /\ r.loop = "scheduling" /\ r.step = tx[s].step /\ r.next = tx[s].next
        /\ tx[s].try \in Nat
    BY <1>2 DEF TxType
  <2>2. b \in Batches /\ "schedule" \in JobKinds
    BY <1>0, <1>2, <2>1, BatchTypes DEF JobKinds
  <2> HIDE DEF r
  <2>3. Types /\ queue \in Seq(JobType)
    BY DEF IInv, Types
  <2>4. tx' \in [Sends -> TxType] /\ tx'[s] = r /\ \A t \in Sends : t # s => tx'[t] = tx[t]
    BY <1>4, <2>1, <2>3, OneSend
  <2>5. \A kind \in JobKinds, t \in Sends : \A c : JobFits(kind, t, c) => JobFits(kind, t, c)'
    <3>1. \A kind \in JobKinds : \A c : JobFits(kind, s, c) => JobFits(kind, s, c)'
      BY <1>1, <1>4, <2>1, <2>4 DEF JobFits, Streaming
    <3> QED
      BY <1>1, <1>4, <2>4, <3>1, OtherJobs
  <2>6. (\A c : ~JobFits("schedule", s, c)) /\ JobFits("schedule", s, b)'
    BY <1>0, <1>1, <2>1, <2>4 DEF JobFits, Streaming
  <2>7. Jobs' /\ queue' \in Seq(JobType)
    BY <1>4, <2>2, <2>3, <2>5, <2>6, JobsJoined DEF IInv
  <2>8. \A t \in Sends : NoStep(t) => NoStep(t)'
    BY <1>4, <2>2, <2>3, NoStepJoined
  <2>9. SendFits(s)'
    BY <1>1, <1>2, <2>1, <2>4 DEF SendFits, Streaming
  <2>10. (Keeps(s) /\ ChunksFit(s))'
    BY <1>1, <1>2, <2>1, <2>4, RecorderStays
  <2>11. Waits(s) => Waits(s)'
    BY <1>1 DEF Waits
  <2>12. rec' \in [Sends -> RecType]
    BY <1>1, <2>3, Typed
  <2> QED
    BY <1>1, <1>2, <1>4, <2>1, <2>4, <2>7, <2>8, <2>9, <2>10, <2>11, <2>12, StreamStep
<1> QED
  BY <1>0, <1>3, <1>4 DEF RequestFails

\* A recorder that gets a part is one.
LEMMA PartJoins ==
  ASSUME NEW q \in RecType, NEW part \in PartType
  PROVE  [q EXCEPT !.parts = Append(@, part)] \in RecType
<1> DEFINE p == Append(q.parts, part)
<1>1. q.parts \in Seq(PartType)
  BY DEF RecType
<1>2. p \in Seq(PartType)
  BY <1>1
<1>3. [q EXCEPT !.parts = Append(@, part)] = [q EXCEPT !.parts = p]
  OBVIOUS
<1> HIDE DEF p
<1>4. [q EXCEPT !.parts = p] \in RecType
  BY <1>2 DEF RecType
<1> QED
  BY <1>3, <1>4

\* The provider is heard, and the recorder gets a part.
LEMMA SpokenStep ==
  ASSUME IInv, NEW s \in Sends, Producing(s), NEW r \in TxType, NEW q \in RecType, NEW type,
         type \in {"chunk", "finish-step"},
         tx' = [tx EXCEPT ![s] = r], rec' = [rec EXCEPT ![s] = q],
         r.at = tx[s].at, r.on = tx[s].on, r.handle = tx[s].handle, r.aborted = tx[s].aborted,
         r.try = tx[s].try, r.exposed, r.loop = tx[s].loop, r.step = tx[s].step,
         IF type = "chunk" THEN r.next = "none" ELSE r.next \in {"wait", "end"},
         q = [rec[s] EXCEPT !.parts = Append(@, [type |-> type, step |-> tx[s].step])],
         UNCHANGED <<v, closed, queue, gate, active, stop, env>>
  PROVE  IInv'
<1>1. Streaming(s) /\ tx[s].loop = "invoke" /\ tx[s].next = "none"
  BY DEF Producing
<1>2. /\ tx[s] \in TxType /\ tx[s].handle \in HandleType /\ tx[s].handle # None
      /\ rec[s] \in RecType
      /\ SendFits(s) /\ Keeps(s) /\ ChunksFit(s) /\ tx[s].at = "streaming"
  BY <1>1, StreamingFits
<1>3. Types
  BY DEF IInv
<1>4. /\ tx' \in [Sends -> TxType] /\ tx'[s] = r /\ rec' \in [Sends -> RecType] /\ rec'[s] = q
      /\ \A t \in Sends : t # s => tx'[t] = tx[t] /\ rec'[t] = rec[t]
  BY <1>3, OneSend, OneRecorder
<1>5. /\ q.batch = rec[s].batch /\ q.lane = rec[s].lane /\ q.busy = rec[s].busy
      /\ q.persisted = rec[s].persisted /\ rec[s].parts \in Seq(PartType)
      /\ q.parts = Append(rec[s].parts, [type |-> type, step |-> tx[s].step])
      /\ tx[s].step \in Nat /\ tx[s].step # 0 /\ rec[s].persisted \in Nat
  BY <1>2 DEF RecType, TxType
<1> DEFINE n == Len(rec[s].parts)
<1>6. /\ n \in Nat /\ Len(q.parts) = n + 1 /\ \A i \in 1 .. n : q.parts[i] = rec[s].parts[i]
      /\ q.parts[n + 1].type = type /\ q.parts[n + 1].step = tx[s].step
  <2> HIDE DEF PartType
  <2>1. [type |-> type, step |-> tx[s].step] \in PartType
    BY <1>5 DEF PartType
  <2> QED
    BY <1>5, <2>1
<1>7. \A i \in 1 .. n + 1 : i \in 1 .. n \/ i = n + 1
  BY <1>6
<1>8. SendFits(s)'
  BY <1>1, <1>2, <1>4 DEF SendFits
<1>9. Keeps(s)'
  <2>1. rec[s].persisted = tx[s].step - 1 /\ rec[s].persisted # tx[s].step
    BY <1>1, <1>2, <1>5 DEF Keeps
  <2>2. (\A i \in Nat : ~FinishedAt(s, i)) /\ \A i \in Nat : ~PersistsAt(s, i)
    BY <1>1, <1>2 DEF Keeps
  <2>3. \A i \in Nat : ~PersistsAt(s, i)'
    BY <1>4, <1>5, <2>2 DEF PersistsAt
  <2>4. \A i \in Nat : FinishedAt(s, i)' => i = Len(rec'[s].parts) /\ tx'[s].next # "none"
    <3>1. ASSUME NEW i \in Nat, FinishedAt(s, i)'
          PROVE  i = n + 1 /\ type = "finish-step"
      <4>1. i \in 1 .. n + 1 /\ q.parts[i].type = "finish-step"
        BY <1>4, <1>6, <3>1 DEF FinishedAt
      <4>2. i \notin 1 .. n
        BY <1>6, <2>2, <4>1 DEF FinishedAt
      <4> QED
        BY <1>6, <1>7, <4>1, <4>2
    <3> QED
      BY <1>4, <1>6, <3>1
  <2>5. tx'[s].next # "asked" /\ tx'[s].step = tx[s].step /\ rec'[s].persisted = rec[s].persisted
    BY <1>4, <1>5
  <2> QED
    BY <2>1, <2>3, <2>4, <2>5 DEF Keeps
<1>10. ChunksFit(s)'
  BY <1>2, <1>4, <1>5, <1>6, <1>7 DEF ChunksFit
<1>11. Waits(s) => Waits(s)'
  BY <1>1 DEF Waits
<1>12. Jobs' /\ queue' \in Seq(JobType)
  <2>1. \A kind \in JobKinds : \A c : JobFits(kind, s, c) => JobFits(kind, s, c)'
    BY <1>1, <1>4, <1>5 DEF JobFits, Streaming
  <2>2. \A kind \in JobKinds, t \in Sends : \A c : JobFits(kind, t, c) => JobFits(kind, t, c)'
    BY <1>4, <2>1, OtherJobs
  <2> QED
    BY <1>3, <2>2, JobsStay, Typed DEF IInv
<1> QED
  BY <1>2, <1>4, <1>8, <1>9, <1>10, <1>11, <1>12, NoStepKept, StreamStep

\* The provider says something: a chunk of the step it is in.
LEMMA SaysStep ==
  ASSUME IInv, NEW s \in Sends, Says(s)
  PROVE  IInv'
<1> DEFINE r == [tx[s] EXCEPT !.said = TRUE, !.exposed = TRUE]
           q == [rec[s] EXCEPT !.parts = Append(@, [type |-> "chunk", step |-> tx[s].step])]
<1>1. /\ Producing(s) /\ tx' = [tx EXCEPT ![s] = r] /\ rec' = [rec EXCEPT ![s] = q]
      /\ UNCHANGED <<v, closed, queue, gate, active, stop, env>>
  BY DEF Says
<1>2. tx[s] \in TxType /\ rec[s] \in RecType
  BY DEF IInv, Types
<1>3. /\ r \in TxType /\ r.at = tx[s].at /\ r.on = tx[s].on /\ r.handle = tx[s].handle
      /\ r.aborted = tx[s].aborted /\ r.try = tx[s].try /\ r.exposed
      /\ r.loop = tx[s].loop /\ r.step = tx[s].step /\ r.next = tx[s].next
      /\ tx[s].step \in Nat
  BY <1>2 DEF TxType
<1>4. q \in RecType
  <2>1. [type |-> "chunk", step |-> tx[s].step] \in PartType
    BY <1>3 DEF PartType
  <2> QED
    BY <1>2, <2>1, PartJoins
<1>5. r.next = "none"
  BY <1>1, <1>3 DEF Producing
<1> HIDE DEF r, q
<1>6. q = [rec[s] EXCEPT !.parts = Append(@, [type |-> "chunk", step |-> tx[s].step])]
  BY DEF q
<1> QED
  BY <1>1, <1>3, <1>4, <1>5, <1>6, SpokenStep

\* The provider ends a step: the end is the last of the recorder's parts.
LEMMA FinishesStepStep ==
  ASSUME IInv, NEW s \in Sends, FinishesStep(s)
  PROVE  IInv'
<1>1. /\ Producing(s)
      /\ UNCHANGED <<v, closed, queue, gate, active, stop, env>>
  BY DEF FinishesStep
<1>2. PICK next \in {"wait", "end"} : tx' = [tx EXCEPT ![s].exposed = TRUE, ![s].next = next]
  BY DEF FinishesStep
<1> DEFINE r == [tx[s] EXCEPT !.exposed = TRUE, !.next = next]
           q == [rec[s] EXCEPT !.parts = Append(@, [type |-> "finish-step", step |-> tx[s].step])]
<1>3. tx[s] \in TxType /\ rec[s] \in RecType /\ tx \in [Sends -> TxType]
  BY DEF IInv, Types
<1>4. tx' = [tx EXCEPT ![s] = r] /\ rec' = [rec EXCEPT ![s] = q]
  BY <1>2, <1>3 DEF FinishesStep
<1>5. /\ r \in TxType /\ r.at = tx[s].at /\ r.on = tx[s].on /\ r.handle = tx[s].handle
      /\ r.aborted = tx[s].aborted /\ r.try = tx[s].try /\ r.exposed
      /\ r.loop = tx[s].loop /\ r.step = tx[s].step /\ r.next = next
      /\ tx[s].step \in Nat
  BY <1>3 DEF TxType
<1>6. q \in RecType
  <2>1. [type |-> "finish-step", step |-> tx[s].step] \in PartType
    BY <1>5 DEF PartType
  <2> QED
    BY <1>3, <2>1, PartJoins
<1> HIDE DEF r, q
<1>7. q = [rec[s] EXCEPT !.parts = Append(@, [type |-> "finish-step", step |-> tx[s].step])]
  BY DEF q
<1> QED
  BY <1>1, <1>4, <1>5, <1>6, <1>7, SpokenStep

------------------------------------------------------------------------------
(* The recorder at work. *)

\* What the recorder of a send knows.
LEMMA RecorderFits ==
  ASSUME IInv, NEW s \in Sends, rec[s] # NoRecorder
  PROVE  /\ Types /\ tx[s] \in TxType /\ rec[s] \in RecType
         /\ tx[s].handle # None /\ tx[s].handle \in HandleType
         /\ SendFits(s) /\ Keeps(s) /\ ChunksFit(s)
         /\ tx[s].step \in Nat /\ tx[s].step # 0 /\ rec[s].persisted \in Nat
         /\ rec[s].parts \in Seq(PartType) /\ rec[s].batch \in Seq(ChunkType)
         /\ rec[s].lane \in Seq(WorkType)
<1>1. Types /\ tx[s] \in TxType /\ rec[s] \in RecType
  BY DEF IInv, Types
<1>2. SendFits(s) /\ Keeps(s) /\ ChunksFit(s)
  BY DEF IInv, Flow, SendsFit, RecordersFit
<1>3. tx[s].handle # None
  BY <1>2 DEF SendFits, Untouched
<1>4. tx[s].handle \in HandleType /\ tx[s].step \in Nat /\ tx[s].step # 0
  BY <1>1, <1>3 DEF TxType
<1>5. /\ rec[s].persisted \in Nat /\ rec[s].parts \in Seq(PartType)
      /\ rec[s].batch \in Seq(ChunkType) /\ rec[s].lane \in Seq(WorkType)
  BY <1>1 DEF RecType
<1> QED
  BY <1>1, <1>2, <1>3, <1>4, <1>5

\* It goes on.
LEMMA RecorderStep ==
  ASSUME IInv, NEW s \in Sends, rec[s] # NoRecorder, NEW q \in RecType,
         rec' = [rec EXCEPT ![s] = q],
         UNCHANGED <<v, closed, tx, gate, active, stop, env>>,
         Keeps(s)', ChunksFit(s)', Jobs', queue' \in Seq(JobType),
         \A t \in Sends : NoStep(t) => NoStep(t)'
  PROVE  IInv'
<1>1. /\ Types /\ tx[s].handle # None /\ SendFits(s)
  BY RecorderFits
<1>2. /\ rec' \in [Sends -> RecType] /\ tx' \in [Sends -> TxType]
      /\ \A t \in Sends : t # s => rec'[t] = rec[t]
  BY <1>1, OneRecorder, Typed
<1>3. SendFits(s)'
  BY <1>1 DEF SendFits, Streaming
<1>4. Waits(s) => Waits(s)'
  BY DEF Waits, Streaming
<1> QED
  BY <1>1, <1>2, <1>3, <1>4, StreamStep

\* The jobs, when only a recorder changes and is as busy as before.
LEMMA RecorderJobs ==
  ASSUME IInv, NEW s \in Sends, UNCHANGED <<tx, gate, queue>>,
         rec'[s].busy = rec[s].busy, \A t \in Sends : t # s => rec'[t] = rec[t]
  PROVE  Jobs' /\ queue' \in Seq(JobType) /\ \A t \in Sends : NoStep(t) => NoStep(t)'
<1>1. Types /\ queue \in Seq(JobType)
  BY DEF IInv, Types
<1>2. \A kind \in JobKinds : \A c : JobFits(kind, s, c) => JobFits(kind, s, c)'
  BY DEF JobFits, Streaming
<1>3. \A kind \in JobKinds, t \in Sends : \A c : JobFits(kind, t, c) => JobFits(kind, t, c)'
  <2>1. \A t \in Sends : t # s => Still(t)
    BY DEF Still, SameGate
  <2>2. \A t \in Sends : t # s => \A kind, c : JobFits(kind, t, c) => JobFits(kind, t, c)'
    BY <2>1, StillFits
  <2> QED
    BY <1>2, <2>2
<1> QED
  BY <1>1, <1>3, JobsStay, NoStepKept DEF IInv

\* A batch that joins the lane.
LEMMA FlushedFits ==
  ASSUME NEW r \in RecType
  PROVE  /\ Flushed(r) \in RecType /\ Flushed(r).batch = <<>> /\ Flushed(r).parts = r.parts
         /\ Flushed(r).busy = r.busy /\ Flushed(r).failed = r.failed
         /\ Flushed(r).persisted = r.persisted
         /\ r.batch = <<>> => Flushed(r).lane = r.lane
         /\ (\A i \in 1 .. Len(r.lane) : ~r.lane[i].finish) =>
              \A i \in 1 .. Len(Flushed(r).lane) : ~Flushed(r).lane[i].finish
<1>1. r.lane \in Seq(WorkType) /\ r.batch \in Seq(ChunkType)
  BY DEF RecType
<1> DEFINE w == Work(r.batch, FALSE)
           l == IF r.batch = <<>> THEN r.lane ELSE Append(r.lane, w)
<1>2. w \in WorkType /\ ~w.finish
  BY <1>1 DEF WorkType, Work
<1>3. Flushed(r) = [r EXCEPT !.batch = <<>>, !.lane = l]
  BY DEF Flushed
<1> HIDE DEF w, WorkType, ChunkType
<1>4. l \in Seq(WorkType)
  BY <1>1, <1>2
<1>5. /\ r.batch = <<>> => l = r.lane
      /\ (\A i \in 1 .. Len(r.lane) : ~r.lane[i].finish) => \A i \in 1 .. Len(l) : ~l[i].finish
  <2>1. CASE r.batch = <<>>
    BY <2>1
  <2>2. CASE r.batch # <<>>
    <3>1. /\ Len(l) = Len(r.lane) + 1 /\ Len(r.lane) \in Nat /\ l[Len(r.lane) + 1] = w
          /\ \A i \in 1 .. Len(r.lane) : l[i] = r.lane[i]
      BY <1>1, <1>2, <2>2
    <3>2. \A i \in 1 .. Len(r.lane) + 1 : i \in 1 .. Len(r.lane) \/ i = Len(r.lane) + 1
      BY <3>1
    <3> HIDE DEF l
    <3> QED
      BY <1>2, <2>2, <3>1, <3>2
  <2> QED
    BY <2>1, <2>2
<1> HIDE DEF l
<1>6. <<>> \in Seq(ChunkType)
  OBVIOUS
<1>7. [r EXCEPT !.batch = <<>>, !.lane = l] \in RecType
  BY <1>4, <1>6 DEF RecType
<1> QED
  BY <1>3, <1>5, <1>7 DEF RecType

\* The recorder puts its batch on its lane.
LEMMA FlushBatchStep ==
  ASSUME IInv, NEW s \in Sends, FlushBatch(s)
  PROVE  IInv'
<1> DEFINE q == Flushed(rec[s])
<1>1. /\ rec[s].batch # <<>> /\ rec' = [rec EXCEPT ![s] = q]
      /\ UNCHANGED <<v, closed, queue, tx, gate, active, stop, env>>
  BY DEF FlushBatch
<1>2. rec[s] # NoRecorder
  BY <1>1 DEF NoRecorder
<1>3. /\ Types /\ rec[s] \in RecType /\ Keeps(s) /\ ChunksFit(s)
  BY <1>2, RecorderFits
<1>4. /\ q \in RecType /\ q.batch = <<>> /\ q.parts = rec[s].parts /\ q.busy = rec[s].busy
      /\ q.persisted = rec[s].persisted
      /\ (\A i \in 1 .. Len(rec[s].lane) : ~rec[s].lane[i].finish) =>
           \A i \in 1 .. Len(q.lane) : ~q.lane[i].finish
  BY <1>3, FlushedFits
<1> HIDE DEF q
<1>5. rec'[s] = q /\ \A t \in Sends : t # s => rec'[t] = rec[t]
  BY <1>1, <1>3, <1>4, OneRecorder
<1>6. \A i \in Nat : ~PersistsAt(s, i)
  BY <1>1, <1>3 DEF Keeps
<1>7. \A i \in Nat : ~PersistsAt(s, i)'
  <2>1. \A i \in 1 .. Len(rec[s].lane) : ~rec[s].lane[i].finish
    BY <1>6 DEF PersistsAt
  <2> QED
    BY <1>4, <1>5, <2>1 DEF PersistsAt
<1>8. Keeps(s)'
  <2>1. \A i \in Nat : FinishedAt(s, i)' <=> FinishedAt(s, i)
    BY <1>4, <1>5 DEF FinishedAt
  <2> QED
    BY <1>1, <1>3, <1>4, <1>5, <1>7, <2>1 DEF Keeps
<1>9. ChunksFit(s)'
  BY <1>1, <1>3, <1>4, <1>5 DEF ChunksFit
<1>10. Jobs' /\ queue' \in Seq(JobType) /\ \A t \in Sends : NoStep(t) => NoStep(t)'
  BY <1>1, <1>4, <1>5, RecorderJobs
<1> QED
  BY <1>1, <1>2, <1>4, <1>8, <1>9, <1>10, RecorderStep

\* The recorder maps a part to the step of the handle.
LEMMA RecordsStep ==
  ASSUME IInv, NEW s \in Sends, Records(s)
  PROVE  IInv'
<1> DEFINE part == Head(rec[s].parts)
           r == [rec[s] EXCEPT !.parts = Tail(@)]
           chunk == [at |-> tx[s].handle, step |-> part.step]
           f == Flushed(r)
           q == IF r.failed THEN r
                ELSE IF part.type = "chunk" THEN [r EXCEPT !.batch = Append(@, chunk)]
                ELSE [f EXCEPT !.lane = Append(@, Work(<<>>, TRUE))]
           n == Len(rec[s].parts)
<1>1. /\ rec[s].parts # <<>> /\ rec' = [rec EXCEPT ![s] = q]
      /\ UNCHANGED <<v, closed, queue, tx, gate, active, stop, env>>
  BY DEF Records
<1>2. rec[s] # NoRecorder
  BY <1>1 DEF NoRecorder
<1>3. /\ Types /\ rec[s] \in RecType /\ tx[s] \in TxType /\ Keeps(s) /\ ChunksFit(s)
      /\ tx[s].handle \in HandleType
      /\ rec[s].parts \in Seq(PartType) /\ rec[s].batch \in Seq(ChunkType)
      /\ rec[s].lane \in Seq(WorkType)
      /\ tx[s].step \in Nat /\ tx[s].step # 0 /\ rec[s].persisted \in Nat
  BY <1>2, RecorderFits
<1>4. /\ part \in PartType /\ part = rec[s].parts[1] /\ 1 \in 1 .. n /\ n \in Nat
      /\ Tail(rec[s].parts) \in Seq(PartType) /\ Len(Tail(rec[s].parts)) = n - 1
      /\ \A i \in 1 .. n - 1 : Tail(rec[s].parts)[i] = rec[s].parts[i + 1]
  <2> HIDE DEF PartType
  <2> QED
    BY <1>1, <1>3
<1>5. part.step = tx[s].step /\ part.type \in {"chunk", "finish-step"}
  <2>1. rec[s].parts[1].step = tx[s].step
    BY <1>3, <1>4 DEF ChunksFit
  <2> QED
    BY <1>4, <2>1 DEF PartType
<1>6. /\ r \in RecType /\ r.parts = Tail(rec[s].parts) /\ r.batch = rec[s].batch
      /\ r.lane = rec[s].lane /\ r.busy = rec[s].busy /\ r.failed = rec[s].failed
      /\ r.persisted = rec[s].persisted
  <2> HIDE DEF part
  <2> QED
    BY <1>3, <1>4 DEF RecType
<1>7. chunk \in ChunkType /\ chunk.at = tx[s].handle /\ chunk.step = tx[s].step
  BY <1>3, <1>5 DEF ChunkType
<1> HIDE DEF part, r, chunk
<1>8. /\ f \in RecType /\ f.batch = <<>> /\ f.parts = r.parts /\ f.busy = r.busy
      /\ f.persisted = r.persisted
      /\ (\A i \in 1 .. Len(r.lane) : ~r.lane[i].finish) =>
           \A i \in 1 .. Len(f.lane) : ~f.lane[i].finish
  BY <1>6, FlushedFits
<1> HIDE DEF f
\* The chunk joins the batch.
<1>9. LET c == [r EXCEPT !.batch = Append(@, chunk)]
      IN  /\ c \in RecType /\ c.parts = r.parts /\ c.lane = r.lane /\ c.busy = r.busy
          /\ c.persisted = r.persisted
          /\ Len(c.batch) = Len(r.batch) + 1 /\ Len(r.batch) \in Nat
          /\ c.batch[Len(r.batch) + 1] = chunk
          /\ \A i \in 1 .. Len(r.batch) : c.batch[i] = r.batch[i]
  <2> DEFINE b == Append(r.batch, chunk)
  <2>1. /\ b \in Seq(ChunkType) /\ Len(b) = Len(r.batch) + 1 /\ Len(r.batch) \in Nat
        /\ b[Len(r.batch) + 1] = chunk /\ \A i \in 1 .. Len(r.batch) : b[i] = r.batch[i]
    <3> HIDE DEF ChunkType
    <3> QED
      BY <1>3, <1>6, <1>7
  <2>2. [r EXCEPT !.batch = Append(@, chunk)] = [r EXCEPT !.batch = b]
    OBVIOUS
  <2> HIDE DEF b
  <2>3. LET c == [r EXCEPT !.batch = b]
        IN  /\ c \in RecType /\ c.parts = r.parts /\ c.lane = r.lane /\ c.busy = r.busy
            /\ c.persisted = r.persisted /\ c.batch = b
    BY <1>6, <2>1 DEF RecType
  <2> QED
    BY <2>1, <2>2, <2>3
\* The end of the step joins the lane.
<1>10. LET c == [f EXCEPT !.lane = Append(@, Work(<<>>, TRUE))]
       IN  /\ c \in RecType /\ c.parts = f.parts /\ c.batch = f.batch /\ c.busy = f.busy
           /\ c.persisted = f.persisted
           /\ Len(c.lane) = Len(f.lane) + 1 /\ Len(f.lane) \in Nat
           /\ \A i \in 1 .. Len(f.lane) : c.lane[i] = f.lane[i]
  <2> DEFINE w == Work(<<>>, TRUE)
             l == Append(f.lane, w)
  <2>1. w \in WorkType
    <3>1. <<>> \in Seq(ChunkType)
      OBVIOUS
    <3> QED
      BY <3>1 DEF Work, WorkType
  <2>2. f.lane \in Seq(WorkType)
    BY <1>8 DEF RecType
  <2> HIDE DEF w, WorkType
  <2>3. /\ l \in Seq(WorkType) /\ Len(l) = Len(f.lane) + 1 /\ Len(f.lane) \in Nat
        /\ \A i \in 1 .. Len(f.lane) : l[i] = f.lane[i]
    BY <2>1, <2>2
  <2>4. [f EXCEPT !.lane = Append(@, Work(<<>>, TRUE))] = [f EXCEPT !.lane = l]
    BY DEF w
  <2> HIDE DEF l
  <2>5. LET c == [f EXCEPT !.lane = l]
        IN  /\ c \in RecType /\ c.parts = f.parts /\ c.batch = f.batch /\ c.busy = f.busy
            /\ c.persisted = f.persisted /\ c.lane = l
    BY <1>8, <2>3 DEF RecType
  <2> QED
    BY <2>3, <2>4, <2>5
<1>11. q \in RecType /\ q.busy = rec[s].busy /\ q.parts = Tail(rec[s].parts)
       /\ q.persisted = rec[s].persisted
  BY <1>6, <1>8, <1>9, <1>10
<1>12. rec'[s] = q /\ \A t \in Sends : t # s => rec'[t] = rec[t]
  BY <1>1, <1>3, <1>11, OneRecorder
<1>13. rec[s].persisted # tx[s].step
  BY <1>1, <1>3 DEF Keeps
<1>14. \A i \in Nat : ~PersistsAt(s, i)
  BY <1>1, <1>3 DEF Keeps
<1>15. \A i \in Nat : FinishedAt(s, i)' =>
         i = n - 1 /\ tx[s].next # "none" /\ FinishedAt(s, i + 1)
  <2>1. ASSUME NEW i \in Nat, FinishedAt(s, i)'
        PROVE  FinishedAt(s, i + 1)
    <3> HIDE DEF q
    <3>1. i \in 1 .. n - 1 /\ Tail(rec[s].parts)[i].type = "finish-step"
      BY <1>4, <1>11, <1>12, <2>1 DEF FinishedAt
    <3>2. i + 1 \in 1 .. n /\ Tail(rec[s].parts)[i] = rec[s].parts[i + 1]
      BY <1>4, <3>1
    <3> QED
      BY <3>1, <3>2 DEF FinishedAt
  <2>2. ASSUME NEW i \in Nat, FinishedAt(s, i + 1)
        PROVE  i + 1 = n /\ tx[s].next # "none"
    BY <1>3, <2>2 DEF Keeps
  <2> QED
    BY <1>4, <2>1, <2>2
<1>16. \A i \in Nat : PersistsAt(s, i)' =>
         /\ i = Len(q.lane) /\ tx[s].next # "none" /\ n = 1 /\ q.batch = <<>>
  <2>1. \A i \in 1 .. Len(r.lane) : ~r.lane[i].finish
    BY <1>6, <1>14 DEF PersistsAt
  <2>2. CASE r.failed
    BY <1>12, <2>1, <2>2 DEF PersistsAt
  <2>3. CASE ~r.failed /\ part.type = "chunk"
    BY <1>9, <1>12, <2>1, <2>3 DEF PersistsAt
  <2>4. CASE ~r.failed /\ part.type # "chunk"
    <3>1. n = 1 /\ tx[s].next # "none"
      <4>1. FinishedAt(s, 1)
        BY <1>4, <1>5, <2>4 DEF FinishedAt
      <4> QED
        BY <1>3, <4>1 DEF Keeps
    <3>2. q.batch = <<>> /\ Len(q.lane) = Len(f.lane) + 1 /\ Len(f.lane) \in Nat
          /\ \A i \in 1 .. Len(f.lane) : q.lane[i] = f.lane[i]
      BY <1>8, <1>10, <2>4
    <3>3. \A i \in 1 .. Len(f.lane) + 1 : i \in 1 .. Len(f.lane) \/ i = Len(f.lane) + 1
      BY <3>2
    <3> HIDE DEF q
    <3> QED
      BY <1>8, <1>12, <2>1, <3>1, <3>2, <3>3 DEF PersistsAt
  <2> QED
    BY <2>2, <2>3, <2>4
<1>17. Keeps(s)'
  <2>1. (rec[s].persisted = (IF tx[s].next = "asked" THEN tx[s].step ELSE tx[s].step - 1)
          \/ (tx[s].next \in {"wait", "end"} /\ rec[s].persisted = tx[s].step))
    BY <1>3 DEF Keeps
  <2>2. Len(q.parts) = n - 1 /\ (n = 1 => q.parts = <<>>)
    <3>1. Len(q.parts) = n - 1 /\ q.parts \in Seq(PartType)
      BY <1>4, <1>11
    <3> HIDE DEF q, PartType
    <3>2. q.parts # <<>> => Len(q.parts) # 0
      BY <3>1, EmptySeq
    <3> QED
      BY <1>4, <3>1, <3>2
  <2>3. tx' = tx /\ rec'[s].persisted = rec[s].persisted /\ rec'[s].parts = q.parts
        /\ rec'[s].lane = q.lane /\ rec'[s].batch = q.batch
    BY <1>1, <1>11, <1>12
  <2>4. \A i \in Nat : FinishedAt(s, i)' => \A j \in Nat : ~PersistsAt(s, j)'
    <3>1. ASSUME NEW i \in Nat, FinishedAt(s, i)'
          PROVE  n # 1
      BY <1>4, <1>12, <2>2, <2>3, <3>1 DEF FinishedAt
    <3> QED
      BY <1>16, <3>1
  <2> HIDE DEF q
  <2> QED
    BY <1>13, <1>15, <1>16, <2>1, <2>2, <2>3, <2>4 DEF Keeps
<1>18. ChunksFit(s)'
  <2>1. \A i \in 1 .. Len(q.parts) : q.parts[i].step = tx[s].step
    <3>1. \A i \in 1 .. n - 1 : i + 1 \in 1 .. n
      BY <1>4
    <3> HIDE DEF n, q
    <3> QED
      BY <1>3, <1>4, <1>11, <3>1 DEF ChunksFit, n
  <2>2. \A i \in 1 .. Len(q.batch) :
          q.batch[i].at.step + tx[s].step = tx[s].handle.step + q.batch[i].step
    <3>1. \A i \in 1 .. Len(r.batch) :
            r.batch[i].at.step + tx[s].step = tx[s].handle.step + r.batch[i].step
      BY <1>3, <1>6 DEF ChunksFit
    <3>2. CASE r.failed
      BY <3>1, <3>2
    <3>3. CASE ~r.failed /\ part.type = "chunk"
      <4>1. /\ Len(q.batch) = Len(r.batch) + 1 /\ Len(r.batch) \in Nat
            /\ q.batch[Len(r.batch) + 1] = chunk
            /\ \A i \in 1 .. Len(r.batch) : q.batch[i] = r.batch[i]
        BY <1>9, <3>3
      <4>2. \A i \in 1 .. Len(r.batch) + 1 : i \in 1 .. Len(r.batch) \/ i = Len(r.batch) + 1
        BY <4>1
      <4> HIDE DEF q
      <4> QED
        BY <1>7, <3>1, <4>1, <4>2
    <3>4. CASE ~r.failed /\ part.type # "chunk"
      <4>1. q.batch = <<>>
        BY <1>8, <1>10, <3>4
      <4> QED
        BY <4>1
    <3> QED
      BY <3>2, <3>3, <3>4
  <2> HIDE DEF q
  <2> QED
    BY <1>1, <1>12, <2>1, <2>2 DEF ChunksFit
<1> HIDE DEF q
<1>19. Jobs' /\ queue' \in Seq(JobType) /\ \A t \in Sends : NoStep(t) => NoStep(t)'
  BY <1>1, <1>11, <1>12, RecorderJobs
<1> QED
  BY <1>1, <1>2, <1>11, <1>17, <1>18, <1>19, RecorderStep

\* The recorder persists the work at the head of its lane, and counts an end.
LEMMA PersistsStep ==
  ASSUME IInv, NEW s \in Sends, Persists(s)
  PROVE  IInv'
<1> DEFINE work == Head(rec[s].lane)
           r == [rec[s] EXCEPT !.lane = Tail(@)]
           n == Len(rec[s].lane)
<1>1. /\ rec[s].lane # <<>> /\ ~rec[s].busy
      /\ UNCHANGED <<v, closed, tx, gate, active, stop, env>>
  BY DEF Persists
<1>2. rec[s] # NoRecorder
  BY <1>1 DEF NoRecorder
<1>3. /\ Types /\ rec[s] \in RecType /\ tx[s] \in TxType /\ Keeps(s) /\ ChunksFit(s)
      /\ rec[s].lane \in Seq(WorkType)
      /\ tx[s].step \in Nat /\ tx[s].step # 0 /\ rec[s].persisted \in Nat
  BY <1>2, RecorderFits
<1>4. /\ work \in WorkType /\ work = rec[s].lane[1] /\ 1 \in 1 .. n /\ n \in Nat
      /\ Tail(rec[s].lane) \in Seq(WorkType) /\ Len(Tail(rec[s].lane)) = n - 1
      /\ \A i \in 1 .. n - 1 : Tail(rec[s].lane)[i] = rec[s].lane[i + 1]
  <2> HIDE DEF WorkType
  <2> QED
    BY <1>1, <1>3
<1>5. work.chunks \in Seq(ChunkType) /\ work.finish \in BOOLEAN
  BY <1>4 DEF WorkType
<1>6. /\ r \in RecType /\ r.lane = Tail(rec[s].lane) /\ r.parts = rec[s].parts
      /\ r.batch = rec[s].batch /\ r.busy = rec[s].busy /\ r.persisted = rec[s].persisted
  <2> HIDE DEF work, WorkType
  <2> QED
    BY <1>3, <1>4 DEF RecType
<1> HIDE DEF work, r
\* Whatever is left of the lane.
<1>7. \A i \in 1 .. Len(r.lane) : r.lane[i].finish =>
        i = Len(r.lane) /\ tx[s].next # "none" /\ rec[s].parts = <<>> /\ rec[s].batch = <<>>
  <2>1. \A i \in 1 .. n - 1 : i + 1 \in 1 .. n /\ i + 1 \in Nat
    BY <1>4
  <2>2. \A i \in 1 .. n - 1 : Tail(rec[s].lane)[i].finish => PersistsAt(s, i + 1)
    BY <1>4, <2>1 DEF PersistsAt
  <2>3. \A i \in 1 .. n - 1 : PersistsAt(s, i + 1) =>
          i + 1 = n /\ tx[s].next # "none" /\ rec[s].parts = <<>> /\ rec[s].batch = <<>>
    BY <1>3, <2>1 DEF Keeps
  <2>4. \A i \in 1 .. n - 1 : i + 1 = n => i = n - 1
    OBVIOUS
  <2> HIDE DEF n
  <2> QED
    BY <1>4, <1>6, <2>2, <2>3, <2>4
<1>8. ASSUME NEW q \in RecType, rec' = [rec EXCEPT ![s] = q], q.lane = r.lane,
             q.parts = r.parts, q.batch = r.batch,
             q.persisted = r.persisted \/ (work.finish /\ q.persisted = r.persisted + 1)
      PROVE  /\ rec'[s] = q /\ \A t \in Sends : t # s => rec'[t] = rec[t]
             /\ Keeps(s)' /\ ChunksFit(s)'
  <2>1. rec'[s] = q /\ \A t \in Sends : t # s => rec'[t] = rec[t]
    BY <1>3, <1>8, OneRecorder
  <2>2. \A i \in Nat : PersistsAt(s, i)' <=> i \in 1 .. Len(r.lane) /\ r.lane[i].finish
    BY <1>8, <2>1 DEF PersistsAt
  <2>3. \A i \in Nat : FinishedAt(s, i)' <=> FinishedAt(s, i)
    BY <1>6, <1>8, <2>1 DEF FinishedAt
  <2>4. PersistsAt(s, 1) <=> work.finish
    BY <1>4 DEF PersistsAt
  <2>5. work.finish =>
          /\ n = 1 /\ tx[s].next \in {"wait", "end"} /\ rec[s].parts = <<>>
          /\ rec[s].persisted = tx[s].step - 1 /\ rec[s].persisted # tx[s].step
    <3>1. PersistsAt(s, 1) => n = 1 /\ tx[s].next # "none" /\ rec[s].parts = <<>>
            /\ rec[s].persisted # tx[s].step
      BY <1>3 DEF Keeps
    <3>2. tx[s].next \in {"none", "wait", "asked", "end"}
      BY <1>3 DEF TxType
    <3> QED
      BY <1>3, <2>4, <3>1, <3>2 DEF Keeps
  <2>6. (\A i \in Nat : ~PersistsAt(s, i)) => \A i \in Nat : ~PersistsAt(s, i)'
    <3>1. \A i \in 1 .. Len(r.lane) : r.lane[i].finish => PersistsAt(s, i + 1)
      <4>1. \A i \in 1 .. n - 1 : i + 1 \in 1 .. n
        BY <1>4
      <4> QED
        BY <1>4, <1>6, <4>1 DEF PersistsAt
    <3> QED
      BY <2>2, <3>1
  <2>7. n = 1 => \A i \in Nat : ~PersistsAt(s, i)'
    BY <1>4, <1>6, <2>2
  <2>8. Keeps(s)'
    <3>1. /\ rec'[s].persisted = (IF tx'[s].next = "asked" THEN tx'[s].step ELSE tx'[s].step - 1)
               \/ (tx'[s].next \in {"wait", "end"} /\ rec'[s].persisted = tx'[s].step)
      <4>1. CASE q.persisted = r.persisted
        BY <1>1, <1>3, <1>6, <2>1, <4>1 DEF Keeps
      <4>2. CASE work.finish /\ q.persisted = r.persisted + 1
        BY <1>1, <1>3, <1>6, <2>1, <2>5, <4>2
      <4> QED
        BY <1>8, <4>1, <4>2
    <3>2. rec'[s].persisted = tx'[s].step =>
            rec'[s].parts = <<>> /\ \A i \in Nat : ~PersistsAt(s, i)'
      <4>1. CASE q.persisted = r.persisted
        BY <1>1, <1>3, <1>6, <1>8, <2>1, <2>6, <4>1 DEF Keeps
      <4>2. CASE work.finish
        BY <1>6, <1>8, <2>1, <2>5, <2>7, <4>2
      <4> QED
        BY <1>8, <4>1, <4>2
    <3>3. \A i \in Nat : FinishedAt(s, i)' =>
            /\ i = Len(rec'[s].parts) /\ tx'[s].next # "none"
            /\ \A j \in Nat : ~PersistsAt(s, j)'
      <4>1. rec'[s].parts = rec[s].parts /\ tx'[s] = tx[s]
        BY <1>1, <1>6, <1>8, <2>1
      <4> QED
        BY <1>3, <2>3, <2>6, <4>1 DEF Keeps
    <3>4. \A i \in Nat : PersistsAt(s, i)' =>
            /\ i = Len(rec'[s].lane) /\ tx'[s].next # "none"
            /\ rec'[s].parts = <<>> /\ rec'[s].batch = <<>>
      BY <1>1, <1>6, <1>7, <1>8, <2>1, <2>2
    <3> QED
      BY <3>1, <3>2, <3>3, <3>4 DEF Keeps
  <2>9. ChunksFit(s)'
    BY <1>1, <1>3, <1>6, <1>8, <2>1 DEF ChunksFit
  <2> QED
    BY <2>1, <2>8, <2>9
<1> HIDE DEF n
<1>9. CASE rec' = [rec EXCEPT ![s] = r] /\ UNCHANGED queue
  <2>1. /\ rec'[s] = r /\ \A t \in Sends : t # s => rec'[t] = rec[t]
        /\ Keeps(s)' /\ ChunksFit(s)'
    BY <1>6, <1>8, <1>9
  <2>2. Jobs' /\ queue' \in Seq(JobType) /\ \A t \in Sends : NoStep(t) => NoStep(t)'
    BY <1>1, <1>6, <1>9, <2>1, RecorderJobs
  <2> QED
    BY <1>1, <1>2, <1>6, <1>9, <2>1, <2>2, RecorderStep
<1>10. CASE /\ work.finish /\ rec' = [rec EXCEPT ![s] = [r EXCEPT !.persisted = @ + 1]]
            /\ UNCHANGED queue
  <2> DEFINE q == [r EXCEPT !.persisted = @ + 1]
  <2>1. /\ q \in RecType /\ q.lane = r.lane /\ q.parts = r.parts /\ q.batch = r.batch
        /\ q.busy = r.busy /\ q.persisted = r.persisted + 1
    <3>1. PICK p \in Nat : p = r.persisted + 1
      BY <1>3, <1>6
    <3>2. q = [r EXCEPT !.persisted = p]
      BY <3>1
    <3>3. LET c == [r EXCEPT !.persisted = p]
          IN  /\ c \in RecType /\ c.lane = r.lane /\ c.parts = r.parts /\ c.batch = r.batch
              /\ c.busy = r.busy /\ c.persisted = p
      BY <1>6 DEF RecType
    <3> QED
      BY <3>1, <3>2, <3>3
  <2>2. rec' = [rec EXCEPT ![s] = q]
    BY <1>10
  <2> HIDE DEF q
  <2>3. /\ rec'[s] = q /\ \A t \in Sends : t # s => rec'[t] = rec[t]
        /\ Keeps(s)' /\ ChunksFit(s)'
    BY <1>8, <1>10, <2>1, <2>2
  <2>4. Jobs' /\ queue' \in Seq(JobType) /\ \A t \in Sends : NoStep(t) => NoStep(t)'
    BY <1>1, <1>6, <1>10, <2>1, <2>3, RecorderJobs
  <2> QED
    BY <1>1, <1>2, <2>1, <2>2, <2>3, <2>4, RecorderStep
<1>11. CASE /\ rec' = [rec EXCEPT ![s] = [r EXCEPT !.busy = TRUE]]
            /\ Enqueue("record", s, ChunkEvents(work.chunks))
  <2> DEFINE q == [r EXCEPT !.busy = TRUE]
  <2>1. /\ q \in RecType /\ q.lane = r.lane /\ q.parts = r.parts /\ q.batch = r.batch
        /\ q.busy /\ q.persisted = r.persisted
    BY <1>6 DEF RecType
  <2>2. rec' = [rec EXCEPT ![s] = q]
    BY <1>11
  <2> HIDE DEF q
  <2>3. /\ rec'[s] = q /\ \A t \in Sends : t # s => rec'[t] = rec[t]
        /\ Keeps(s)' /\ ChunksFit(s)'
    BY <1>8, <2>1, <2>2
  <2>4. PICK b : b = ChunkEvents(work.chunks)
    OBVIOUS
  <2>5. b \in Batches /\ "record" \in JobKinds /\ queue \in Seq(JobType)
    BY <1>3, <1>5, <2>4, BatchTypes, Typed DEF JobKinds
  <2>6. (\A c : ~JobFits("record", s, c)) /\ JobFits("record", s, b)'
    <3>1. rec'[s].busy /\ \E c \in Seq(ChunkType) : b = ChunkEvents(c)
      BY <1>5, <2>1, <2>3, <2>4
    <3> QED
      BY <1>1, <3>1 DEF JobFits
  <2>7. \A kind \in JobKinds, t \in Sends : \A c : JobFits(kind, t, c) => JobFits(kind, t, c)'
    <3>1. \A kind \in JobKinds : \A c : JobFits(kind, s, c) => JobFits(kind, s, c)'
      BY <1>1 DEF JobFits, Streaming
    <3>2. \A t \in Sends : t # s => Still(t)
      BY <1>1, <2>3 DEF Still, SameGate
    <3>3. \A t \in Sends : t # s => \A kind, c : JobFits(kind, t, c) => JobFits(kind, t, c)'
      BY <3>2, StillFits
    <3> QED
      BY <3>1, <3>3
  <2>8. Enqueue("record", s, b)
    BY <1>11, <2>4
  <2>9. Jobs' /\ queue' \in Seq(JobType)
    BY <1>3, <2>5, <2>6, <2>7, <2>8, JobsJoined DEF IInv
  <2>10. \A t \in Sends : NoStep(t) => NoStep(t)'
    BY <2>5, <2>8, NoStepJoined
  <2> QED
    BY <1>1, <1>2, <2>1, <2>2, <2>3, <2>9, <2>10, RecorderStep
<1> QED
  BY <1>9, <1>10, <1>11 DEF Persists, work, r

------------------------------------------------------------------------------
(* Closures and Stop. *)

\* A closure takes the handle its send has when the recorder is done.
LEMMA ClosureSavesStep ==
  ASSUME IInv, NEW s \in Sends, ClosureSaves(s)
  PROVE  IInv'
<1> DEFINE g == [gate[s] EXCEPT !.closing = "saving", !.handle = tx[s].handle]
<1>0. PICK b : b = EndBatch(tx[s].handle, gate[s].end)
  OBVIOUS
<1>1. /\ gate[s].closing = "drain" /\ Enqueue("close", s, b)
      /\ UNCHANGED <<v, closed, tx, rec, active, stop, env>>
  BY <1>0 DEF ClosureSaves
<1>2. /\ Types /\ tx[s] \in TxType /\ gate[s] \in GateType /\ gate \in [Sends -> GateType]
      /\ SendFits(s) /\ Keeps(s) /\ ChunksFit(s) /\ GateFits(s)
  BY DEF IInv, Types, Flow, SendsFit, RecordersFit, GatesFit
<1>3. tx[s].handle # None /\ tx[s].handle \in HandleType
  <2>1. gate[s] # NoClosure
    BY <1>1 DEF NoClosure
  <2>2. tx[s].handle # None
    BY <1>2, <2>1 DEF SendFits, Untouched
  <2> QED
    BY <1>2, <2>2 DEF TxType
<1>4. gate[s].end \in Ends /\ gate[s].recovery = "none"
  BY <1>1, <1>2 DEF GateFits
<1>5. /\ g \in GateType /\ g.closing = "saving" /\ g.handle = tx[s].handle /\ g.end = gate[s].end
      /\ g.recovery = gate[s].recovery
  BY <1>2, <1>3 DEF GateType
<1>6. gate' = [gate EXCEPT ![s] = g]
  BY <1>2 DEF ClosureSaves
<1> HIDE DEF g
<1>7. gate' \in [Sends -> GateType] /\ gate'[s] = g /\ \A t \in Sends : t # s => gate'[t] = gate[t]
  BY <1>2, <1>5, <1>6
<1>8. b \in Batches /\ "close" \in JobKinds /\ queue \in Seq(JobType)
  BY <1>0, <1>2, <1>3, <1>4, BatchTypes, Typed DEF JobKinds
<1>9. \A t \in Sends : t # s => Still(t)
  BY <1>1, <1>7 DEF Still, SameGate
<1>10. Flow'
  <2>1. SendFits(s)'
    BY <1>1, <1>2, <1>3 DEF SendFits, Streaming
  <2>2. (Keeps(s) /\ ChunksFit(s))'
    BY <1>1, <1>2, RecorderStays
  <2>3. GateFits(s)'
    BY <1>1, <1>2, <1>3, <1>4, <1>5, <1>7 DEF GateFits, Registered
  <2> QED
    BY <1>1, <1>2, <1>9, <2>1, <2>2, <2>3, FlowStays DEF IInv
<1>11. Jobs' /\ queue' \in Seq(JobType)
  <2>1. \A kind \in JobKinds : \A c : JobFits(kind, s, c) => JobFits(kind, s, c)'
    BY <1>1, <1>5, <1>7 DEF JobFits, Streaming
  <2>2. \A t \in Sends : t # s => \A kind, c : JobFits(kind, t, c) => JobFits(kind, t, c)'
    BY <1>9, StillFits
  <2>3. \A kind \in JobKinds, t \in Sends : \A c : JobFits(kind, t, c) => JobFits(kind, t, c)'
    BY <2>1, <2>2
  <2>4. (\A c : ~JobFits("close", s, c)) /\ JobFits("close", s, b)'
    BY <1>0, <1>1, <1>5, <1>7 DEF JobFits
  <2> QED
    BY <1>1, <1>2, <1>8, <2>3, <2>4, JobsJoined DEF IInv
<1>12. Past'
  <2>1. \A t \in Sends : TurnFits(t)' /\ ClosureFits(t)'
    <3>1. \A t \in Sends : TurnFits(t)'
      BY <1>1 DEF IInv, Past, HistoryFits, TurnFits
    <3>2. ASSUME NEW t \in Sends PROVE ClosureFits(t)'
      <4>1. CASE t # s
        BY <1>1, <1>7, <4>1 DEF IInv, Past, HistoryFits, ClosureFits
      <4>2. CASE t = s
        <5>1. tx[s].handle.step \in Nat
          BY <1>3 DEF HandleType
        <5> QED
          BY <1>1, <1>5, <1>7, <4>2, <5>1 DEF ClosureFits
      <4> QED
        BY <4>1, <4>2
    <3> QED
      BY <3>1, <3>2
  <2>2. (Plain(v) /\ Bounded(v) /\ EndsFit)'
    BY <1>1 DEF IInv, Past, HistoryFits, EndsFit
  <2>3. Undisturbed'
    BY <1>1 DEF IInv, Past, Undisturbed, KnowsStep, RetryWaits, Streaming
  <2> QED
    BY <2>1, <2>2, <2>3 DEF Past, HistoryFits
<1>13. Closures'
  <2>1. \A t \in Sends : NoStep(t) => NoStep(t)'
    BY <1>1, <1>8, NoStepJoined
  <2>2. Unstopped'
    <3>1. ASSUME stop'.used = 0, NEW t \in Sends
          PROVE  /\ ~tx'[t].aborted
                 /\ gate'[t].closing # "none" => tx'[t].at = "over" /\ NoStep(t)'
                 /\ gate'[t].handle # None => gate'[t].handle = tx'[t].handle
      <4>1. /\ ~tx[t].aborted
            /\ gate[t].closing # "none" => tx[t].at = "over" /\ NoStep(t)
            /\ gate[t].handle # None => gate[t].handle = tx[t].handle
        BY <1>1, <3>1 DEF IInv, Closures, Unstopped, NoStep
      <4> QED
        BY <1>1, <1>5, <1>7, <2>1, <4>1
    <3> QED
      BY <3>1 DEF Unstopped, NoStep
  <2>3. Ending'
    BY <1>1, <1>5, <1>7 DEF IInv, Closures, Ending
  <2>4. CompletedIsRecorded'
    BY <1>1, <1>5, <1>7 DEF IInv, Closures, CompletedIsRecorded
  <2> QED
    BY <2>2, <2>3, <2>4 DEF Closures
<1>14. Types'
  <2>1. /\ tx' \in [Sends -> TxType] /\ rec' \in [Sends -> RecType] /\ active' \in Sends \cup {None}
        /\ stop' \in StopType /\ env' \in [bounds : Settings, faults : Nat]
    BY <1>1, <1>2, Typed
  <2> QED
    BY <1>7, <1>11, <2>1 DEF Types
<1> QED
  BY <1>10, <1>11, <1>12, <1>13, <1>14 DEF IInv

\* No send changes, but a recovery may begin.
LEMMA StopMoves ==
  ASSUME IInv, UNCHANGED <<v, closed, tx, rec, active, env>>, gate' \in [Sends -> GateType],
         \A t \in Sends : SameGate(t), stop' \in StopType, stop'.used = stop.used,
         queue' \in Seq(JobType), \A t \in Sends : NoStep(t) => NoStep(t)',
         (\A kind \in JobKinds, t \in Sends : \A b : JobFits(kind, t, b) => JobFits(kind, t, b)')
           => Jobs'
  PROVE  IInv'
<1>1. \A t \in Sends : Still(t)
  BY DEF Still
<1>2. Flow'
  <2>1. OneAtATime'
    BY DEF IInv, Flow, OneAtATime
  <2>2. SendsFit' /\ RecordersFit'
    BY <1>1, StillFits DEF IInv, Flow, SendsFit, RecordersFit
  <2>3. GatesFit'
    BY DEF IInv, Flow, GatesFit, GateFits, Registered, SameGate
  <2> QED
    BY <2>1, <2>2, <2>3 DEF Flow
<1>3. Past'
  <2>1. \A t \in Sends : /\ gate'[t].handle = gate[t].handle
                         /\ gate'[t].closing = "ok" => gate[t].closing = "ok"
                         /\ Waits(t) => Waits(t)'
    BY DEF SameGate, Waits, Streaming
  <2> QED
    BY <2>1, PastStays DEF IInv
<1>4. Closures'
  <2>1. env.faults \in Nat /\ env'.faults = env.faults
    BY DEF IInv, Types
  <2>2. \A t \in Sends :
           /\ gate'[t].handle = gate[t].handle /\ gate'[t].end = gate[t].end
           /\ gate'[t].closing = gate[t].closing
    BY DEF SameGate
  <2> QED
    BY <2>1, <2>2, ClosuresStay DEF IInv
<1>5. Jobs'
  BY <1>1, StillFits
<1>6. Types'
  <2>1. /\ tx' \in [Sends -> TxType] /\ rec' \in [Sends -> RecType] /\ active' \in Sends \cup {None}
        /\ env' \in [bounds : Settings, faults : Nat]
    BY Typed DEF IInv
  <2> QED
    BY <2>1 DEF Types
<1> QED
  BY <1>2, <1>3, <1>4, <1>5, <1>6 DEF IInv

\* A Stop returns once the closure it asked for succeeded.
LEMMA StopReturnsStep ==
  ASSUME IInv, StopReturns
  PROVE  IInv'
<1>1. /\ stop' = [stop EXCEPT !.at = "idle"]
      /\ UNCHANGED <<v, closed, queue, tx, rec, gate, active, env>>
  BY DEF StopReturns
<1>2. stop \in StopType /\ Types /\ gate' \in [Sends -> GateType] /\ queue' \in Seq(JobType)
  BY <1>1 DEF IInv, Types
<1>3. stop' \in StopType /\ stop'.used = stop.used
  BY <1>1, <1>2 DEF StopType
<1> QED
  BY <1>1, <1>2, <1>3, GatesKept, NoStepKept, JobsStay, StopMoves DEF IInv

\* A Stop asks for the repair of a closure that failed.
LEMMA StopRecoversStep ==
  ASSUME IInv, StopRecovers
  PROVE  IInv'
<1>0. PICK a \in {"idle", "repair"} : stop' = [stop EXCEPT !.at = a]
  BY DEF StopRecovers
<1>1. /\ stop.at = "closing" /\ gate[stop.on].closing = "failed" /\ Recovering(stop.on)
      /\ UNCHANGED <<v, closed, tx, rec, active, env>>
  BY DEF StopRecovers
<1>2. stop \in StopType
  BY DEF IInv, Types
<1>3. stop' \in StopType /\ stop'.used = stop.used /\ stop.on \in Sends
  BY <1>0, <1>1, <1>2 DEF StopType
<1>4. PICK o \in Sends : o = stop.on
  BY <1>3
<1>5. /\ gate' \in [Sends -> GateType] /\ \A t \in Sends : SameGate(t)
      /\ queue' \in Seq(JobType) /\ \A t \in Sends : NoStep(t) => NoStep(t)'
      /\ (\A kind \in JobKinds, t \in Sends : \A b : JobFits(kind, t, b) => JobFits(kind, t, b)')
           => Jobs'
  <2>1. gate[o].closing = "failed" /\ Recovering(o)
    BY <1>1, <1>4
  <2> QED
    BY <2>1, RecoveringFits
<1> QED
  BY <1>1, <1>3, <1>5, StopMoves

\* A Stop closes the turn it finds active, or returns.
LEMMA StopClosesStep ==
  ASSUME IInv, StopCloses
  PROVE  IInv'
<1>1. /\ stop.at = "reading" /\ UNCHANGED <<v, closed, queue, tx, rec, active, env>>
  BY DEF StopCloses
<1>2. stop \in StopType /\ active \in Sends \cup {None} /\ Types /\ queue' \in Seq(JobType)
  BY <1>1 DEF IInv, Types
<1>3. CASE active = None
  <2>1. stop' = [stop EXCEPT !.at = "idle"] /\ UNCHANGED gate
    BY <1>3 DEF StopCloses
  <2>2. stop' \in StopType /\ stop'.used = stop.used
    BY <1>2, <2>1 DEF StopType
  <2>3. gate' \in [Sends -> GateType]
    BY <1>2, <2>1, Typed
  <2> QED
    BY <1>1, <1>2, <2>1, <2>2, <2>3, GatesKept, NoStepKept, JobsStay, StopMoves DEF IInv
<1>4. CASE active # None
  <2>0. PICK s \in Sends : s = active
    BY <1>2, <1>4
  <2>1. stop' = [stop EXCEPT !.at = "closing", !.on = s] /\ Closing(s, Interrupted)
    BY <1>4, <2>0 DEF StopCloses
  <2>2. stop' \in StopType /\ stop'.used = stop.used /\ stop.used # 0
    BY <1>1, <1>2, <2>1 DEF StopType
  <2>3. Interrupted \in Ends /\ Interrupted # Completed
    BY EndTypes
  <2>4. /\ gate' \in [Sends -> GateType]
        /\ \A t \in Sends : t # s => gate'[t] = gate[t]
        /\ gate'[s].handle = gate[s].handle /\ gate'[s].recovery = gate[s].recovery
        /\ \/ gate[s].closing # "none" /\ gate'[s] = gate[s]
           \/ gate[s].closing = "none" /\ gate'[s].closing = "drain" /\ gate'[s].end = Interrupted
    BY <2>1, <2>3, ClosingFits
  <2>5. \A t \in Sends : t # s => Still(t)
    BY <1>1, <2>4 DEF Still, SameGate
  <2>6. SendFits(s) /\ Keeps(s) /\ ChunksFit(s) /\ GateFits(s)
    BY DEF IInv, Flow, SendsFit, RecordersFit, GatesFit
  <2>7. Flow'
    <3>1. tx[s].handle # None
      BY <2>0, <2>6 DEF GateFits, Registered
    <3>2. SendFits(s)'
      BY <1>1, <2>6, <3>1 DEF SendFits, Streaming
    <3>3. (Keeps(s) /\ ChunksFit(s))'
      BY <1>1, <2>6, RecorderStays
    <3>4. GateFits(s)'
      BY <1>1, <2>3, <2>4, <2>6 DEF GateFits, Registered
    <3> QED
      BY <1>1, <1>2, <2>5, <2>6, <3>2, <3>3, <3>4, FlowStays DEF IInv
  <2>8. Jobs'
    <3>1. \A kind \in JobKinds : \A c : JobFits(kind, s, c) => JobFits(kind, s, c)'
      BY <1>1, <2>4 DEF JobFits, Streaming
    <3>2. \A t \in Sends : t # s => \A kind, c : JobFits(kind, t, c) => JobFits(kind, t, c)'
      BY <2>5, StillFits
    <3>3. \A kind \in JobKinds, t \in Sends : \A c : JobFits(kind, t, c) => JobFits(kind, t, c)'
      BY <3>1, <3>2
    <3> QED
      BY <1>1, <1>2, <3>3, JobsStay DEF IInv
  <2>9. Past'
    <3>1. \A t \in Sends : /\ gate'[t].handle = gate[t].handle
                           /\ gate'[t].closing = "ok" => gate[t].closing = "ok"
                           /\ Waits(t) => Waits(t)'
      BY <1>1, <2>4 DEF Waits, Streaming
    <3> QED
      BY <1>1, <3>1, PastStays DEF IInv
  <2>10. Closures'
    <3>1. Unstopped'
      BY <2>2 DEF Unstopped
    <3>2. Ending'
      BY <1>1, <2>3, <2>4 DEF IInv, Closures, Ending
    <3>3. CompletedIsRecorded'
      BY <1>1, <2>4 DEF IInv, Closures, CompletedIsRecorded
    <3> QED
      BY <3>1, <3>2, <3>3 DEF Closures
  <2>11. Types'
    <3>1. /\ tx' \in [Sends -> TxType] /\ rec' \in [Sends -> RecType]
          /\ active' \in Sends \cup {None} /\ env' \in [bounds : Settings, faults : Nat]
      BY <1>1, <1>2, Typed
    <3> QED
      BY <1>2, <2>2, <2>4, <3>1 DEF Types
  <2> QED
    BY <2>7, <2>8, <2>9, <2>10, <2>11 DEF IInv
<1> QED
  BY <1>3, <1>4

\* Stop aborts the send that is under way, if one is.
LEMMA StopClickedStep ==
  ASSUME IInv, StopClicked
  PROVE  IInv'
<1>1. /\ stop.at = "idle" /\ Live # {}
      /\ stop' = [stop EXCEPT !.at = "reading", !.used = @ + 1]
      /\ UNCHANGED <<v, closed, rec, gate, active, env>>
  BY DEF StopClicked
<1>2. stop \in StopType /\ Types /\ queue \in Seq(JobType) /\ tx \in [Sends -> TxType]
  BY DEF IInv, Types
<1>3. stop' \in StopType /\ stop'.used # 0
  <2>1. stop.used \in Nat
    BY <1>2 DEF StopType
  <2>2. PICK u \in Nat : u = stop.used + 1 /\ u # 0
    BY <2>1
  <2>3. stop' = [stop EXCEPT !.at = "reading", !.used = u]
    BY <1>1, <2>2
  <2> QED
    BY <1>2, <2>2, <2>3 DEF StopType
<1>4. PICK s \in Sends : tx[s].at \notin {"away", "over"}
  BY <1>1 DEF Live
<1>5. Live = {s}
  <2>1. \A t \in Sends : s < t \/ t < s \/ s = t
    BY ChatAssumption DEF Sends
  <2> QED
    BY <1>4, <2>1 DEF IInv, Flow, OneAtATime, Live
<1>6. /\ tx[s] \in TxType /\ SendFits(s) /\ Keeps(s) /\ ChunksFit(s) /\ GateFits(s)
  BY <1>2 DEF IInv, Flow, SendsFit, RecordersFit, GatesFit
<1> DEFINE r == [tx[s] EXCEPT !.aborted = TRUE,
                              !.loop = IF @ = "waiting" THEN "cancelling" ELSE @]
<1>7. tx' = [tx EXCEPT ![s] = r]
  <2>1. tx' = [t \in Sends |-> IF t \notin Live THEN tx[t]
                ELSE [tx[t] EXCEPT !.aborted = TRUE,
                                   !.loop = IF @ = "waiting" THEN "cancelling" ELSE @]]
    BY DEF StopClicked
  <2> QED
    BY <1>2, <1>5, <2>1
<1>8. /\ r \in TxType /\ r.at = tx[s].at /\ r.on = tx[s].on /\ r.handle = tx[s].handle
      /\ r.aborted /\ r.try = tx[s].try /\ r.exposed = tx[s].exposed
      /\ r.loop = (IF tx[s].loop = "waiting" THEN "cancelling" ELSE tx[s].loop)
      /\ r.step = tx[s].step /\ r.next = tx[s].next /\ r.said = tx[s].said
      /\ tx[s].try \in Nat
  BY <1>6 DEF TxType
<1>9. tx[s].handle = None => r = [NoSend EXCEPT !.at = r.at, !.on = r.on, !.aborted = r.aborted]
  <2>1. ASSUME tx[s].handle = None
        PROVE  tx[s] = [NoSend EXCEPT !.at = tx[s].at, !.on = tx[s].on, !.aborted = tx[s].aborted]
    BY <1>6, <2>1 DEF SendFits, Untouched
  <2> QED
    BY <2>1 DEF NoSend
<1> HIDE DEF r
<1>10. /\ tx' \in [Sends -> TxType] /\ tx'[s] = r
       /\ \A t \in Sends : t # s => tx'[t] = tx[t]
  BY <1>2, <1>7, <1>8, OneSend
<1>11. \A t \in Sends : t # s => Still(t)
  BY <1>1, <1>10 DEF Still, SameGate
<1>12. Flow'
  <2>1. SendFits(s)'
    BY <1>1, <1>6, <1>8, <1>9, <1>10 DEF SendFits, Untouched, Streaming
  <2>2. (Keeps(s) /\ ChunksFit(s))'
    BY <1>1, <1>6, <1>8, <1>10, RecorderStays
  <2>3. GateFits(s)'
    BY <1>1, <1>6, <1>8, <1>10 DEF GateFits, Registered
  <2> QED
    BY <1>1, <1>2, <1>8, <1>10, <1>11, <2>1, <2>2, <2>3, FlowStays DEF IInv
<1>13. Past'
  <2>1. \A t \in Sends : /\ tx'[t].handle = tx[t].handle
                         /\ tx'[t].exposed = tx[t].exposed /\ tx'[t].try = tx[t].try
                         /\ Waits(t) => Waits(t)'
    BY <1>8, <1>10 DEF Waits, Streaming
  <2> QED
    BY <1>1, <2>1, PastStays DEF IInv
<1>14. Closures'
  <2>1. Unstopped'
    BY <1>3 DEF Unstopped
  <2>2. \A t \in Sends : tx[t].at = "over" => tx'[t] = tx[t]
    BY <1>4, <1>10
  <2>3. Ending'
    BY <1>1, <2>2 DEF IInv, Closures, Ending
  <2>4. CompletedIsRecorded'
    BY <1>1 DEF IInv, Closures, CompletedIsRecorded
  <2> QED
    BY <2>1, <2>3, <2>4 DEF Closures
<1>15. \A kind \in JobKinds, t \in Sends : \A b : JobFits(kind, t, b) => JobFits(kind, t, b)'
  <2>1. \A kind \in JobKinds : \A c : JobFits(kind, s, c) => JobFits(kind, s, c)'
    BY <1>1, <1>8, <1>10 DEF JobFits, Streaming
  <2>2. \A t \in Sends : t # s => \A kind, c : JobFits(kind, t, c) => JobFits(kind, t, c)'
    BY <1>11, StillFits
  <2> QED
    BY <2>1, <2>2
<1>16. Jobs' /\ queue' \in Seq(JobType)
  <2> DEFINE waiting == {t \in Live : tx[t].loop = "waiting"}
  <2>1. CASE tx[s].loop # "waiting"
    <3>1. waiting = {}
      BY <1>5, <2>1
    <3>2. UNCHANGED queue
      BY <3>1 DEF StopClicked
    <3> QED
      BY <1>2, <1>15, <3>2, JobsStay DEF IInv
  <2>2. CASE tx[s].loop = "waiting"
    <3>1. waiting = {s}
      BY <1>5, <2>2
    <3>2. PICK b : b = <<Cancels(RetryOf(tx[s].handle, tx[s].try))>>
      OBVIOUS
    <3>3. Enqueue("cancel", s, b)
      <4>1. (CHOOSE x \in {s} : TRUE) = s
        OBVIOUS
      <4> QED
        BY <3>1, <3>2, <4>1 DEF StopClicked
    <3>4. Streaming(s) /\ tx[s].handle # None
      BY <1>6, <2>2 DEF SendFits, Streaming
    <3>5. b \in Batches /\ "cancel" \in JobKinds
      <4>1. tx[s].handle \in HandleType
        BY <1>6, <3>4 DEF TxType
      <4> QED
        BY <1>8, <3>2, <4>1, BatchTypes DEF JobKinds
    <3>6. (\A c : ~JobFits("cancel", s, c)) /\ JobFits("cancel", s, b)'
      BY <1>8, <1>10, <2>2, <3>2, <3>4 DEF JobFits, Streaming
    <3> QED
      BY <1>2, <1>15, <3>3, <3>5, <3>6, JobsJoined DEF IInv
  <2> QED
    BY <2>1, <2>2
<1>17. Types'
  <2>1. /\ rec' \in [Sends -> RecType] /\ gate' \in [Sends -> GateType]
        /\ active' \in Sends \cup {None} /\ env' \in [bounds : Settings, faults : Nat]
    BY <1>1, <1>2, Typed
  <2> QED
    BY <1>3, <1>10, <1>16, <2>1 DEF Types
<1> QED
  BY <1>12, <1>13, <1>14, <1>16, <1>17 DEF IInv

------------------------------------------------------------------------------
(* What an event of a chat does to the validator. *)

\* w is what u was, but for its count and the variables F.
Only(u, w, F) == IsValidator(w) /\ \A f \in Fields \ (F \cup {"count"}) : w[f] = u[f]

\* A validator that saw no call goes on to be one.
LEMMA PlainStays ==
  ASSUME NEW u, NEW w, Plain(u), IsValidator(w), w.calls = u.calls,
         w.suspension = u.suspension, w.unresolved = u.unresolved,
         w.lastTurn \in Nat, w.lastStep \in Nat, IsFiniteSet(w.pendingRetries),
         \A r \in DOMAIN w.requests : DOMAIN w.requests[r] = RequestFields,
         \A t \in DOMAIN w.retries : DOMAIN w.retries[t] = RetryFields
  PROVE  Plain(w)
BY DEF Plain, Shaped

\* An event that only touches the turn and the step.
LEMMA PlainTurns ==
  ASSUME NEW u, NEW w, Plain(u), NEW F, Only(u, w, F),
         F \subseteq {"openTurn", "openStep", "lastTurn", "lastStep", "repairedThrough"},
         w.lastTurn \in Nat, w.lastStep \in Nat
  PROVE  Plain(w)
<1>1. /\ w.calls = u.calls /\ w.suspension = u.suspension /\ w.unresolved = u.unresolved
      /\ w.requests = u.requests /\ w.retries = u.retries
      /\ w.pendingRetries = u.pendingRetries
  BY DEF Only, Fields
<1> QED
  BY <1>1, PlainStays DEF Plain, Shaped, Only

\* A turn that starts is open.
LEMMA TurnStarts ==
  ASSUME NEW u, Plain(u), NEW e, e.type = "turn/start", e.turn \in Nat, Accepts(u, e)
  PROVE  /\ u.openTurn = None /\ e.turn > u.lastTurn
         /\ Plain(Apply(u, e)) /\ Only(u, Apply(u, e), {"openTurn", "lastTurn"})
         /\ Apply(u, e).openTurn = e.turn /\ Apply(u, e).lastTurn = e.turn
<1> DEFINE w == ApplyTurn(u, e)
           F == {"openTurn", "lastTurn"}
<1>1. e.type \in TurnTypes /\ IsValidator(u)
  BY DEF TurnTypes, Plain
<1>2. TurnOk(u, e) /\ \A f \in Fields \ {"count"} : Apply(u, e)[f] = w[f]
  BY <1>1, Cases, AppliedIsAssigned
<1>3. w = [u EXCEPT !.openTurn = e.turn, !.lastTurn = e.turn]
  BY DEF ApplyTurn
<1>4. u.openTurn = None /\ e.turn > u.lastTurn
  BY <1>2 DEF TurnOk
<1> HIDE DEF w
<1>5. (\A f \in Fields \ F : w[f] = u[f]) /\ w.openTurn = e.turn /\ w.lastTurn = e.turn
  BY <1>1, <1>3 DEF IsValidator, Fields
<1>6. IsValidator(Apply(u, e))
  BY <1>1, EventTouches
<1>7. Only(u, Apply(u, e), F)
  BY <1>2, <1>5, <1>6 DEF Only
<1>8. /\ Apply(u, e).openTurn = e.turn /\ Apply(u, e).lastTurn = e.turn
      /\ Apply(u, e).lastStep = u.lastStep
  BY <1>2, <1>5 DEF Fields
<1>9. Plain(Apply(u, e))
  BY <1>7, <1>8, PlainTurns DEF Plain
<1> QED
  BY <1>4, <1>7, <1>8, <1>9

\* A turn that ends is closed, and the step in it was.
LEMMA TurnEnds ==
  ASSUME NEW u, Plain(u), NEW e, e.type = "turn/end", Accepts(u, e)
  PROVE  /\ u.openTurn = e.turn /\ u.openStep = None /\ u.pendingRetries = {}
         /\ Plain(Apply(u, e)) /\ Only(u, Apply(u, e), {"openTurn", "repairedThrough"})
         /\ ~e.repair => Apply(u, e).repairedThrough = u.repairedThrough
         /\ Apply(u, e).openTurn = None
<1> DEFINE w == ApplyTurn(u, e)
           F == {"openTurn", "repairedThrough"}
           n == IF e.repair THEN u.count ELSE u.repairedThrough
<1>1. e.type \in TurnTypes /\ IsValidator(u)
  BY DEF TurnTypes, Plain
<1>2. TurnOk(u, e) /\ \A f \in Fields \ {"count"} : Apply(u, e)[f] = w[f]
  BY <1>1, Cases, AppliedIsAssigned
<1>3. w = [u EXCEPT !.openTurn = None, !.repairedThrough = n]
  BY <1>1 DEF ApplyTurn, IsValidator, Fields
<1>4. u.openTurn = e.turn /\ u.openStep = None /\ u.pendingRetries = {}
  BY <1>2 DEF TurnOk
<1> HIDE DEF w, n
<1>5. (\A f \in Fields \ F : w[f] = u[f]) /\ w.openTurn = None /\ w.repairedThrough = n
  BY <1>1, <1>3 DEF IsValidator, Fields
<1>6. IsValidator(Apply(u, e))
  BY <1>1, EventTouches
<1>7. Only(u, Apply(u, e), F)
  BY <1>2, <1>5, <1>6 DEF Only
<1>8. /\ Apply(u, e).openTurn = None /\ Apply(u, e).lastTurn = u.lastTurn
      /\ Apply(u, e).lastStep = u.lastStep /\ Apply(u, e).repairedThrough = n
  BY <1>2, <1>5 DEF Fields
<1>9. Plain(Apply(u, e))
  BY <1>7, <1>8, PlainTurns DEF Plain
<1> QED
  BY <1>4, <1>7, <1>8, <1>9 DEF n

\* A step that starts is open.
LEMMA StepStarts ==
  ASSUME NEW u, Plain(u), NEW e, e.type = "step/start", e.step \in Nat, Accepts(u, e)
  PROVE  /\ u.openTurn = e.turn /\ u.openStep = None /\ e.step > u.lastStep
         /\ Plain(Apply(u, e)) /\ Only(u, Apply(u, e), {"openStep", "lastStep"})
         /\ Apply(u, e).openStep = e.step /\ Apply(u, e).lastStep = e.step
<1> DEFINE w == ApplyStep(u, e)
           F == {"openStep", "lastStep"}
<1>1. e.type \in StepTypes /\ IsValidator(u)
  BY DEF StepTypes, Plain
<1>2. StepOk(u, e) /\ \A f \in Fields \ {"count"} : Apply(u, e)[f] = w[f]
  BY <1>1, Cases, AppliedIsAssigned
<1>3. w = [u EXCEPT !.openStep = e.step, !.lastStep = e.step]
  BY DEF ApplyStep
<1>4. u.openTurn = e.turn /\ u.openStep = None /\ e.step > u.lastStep
  BY <1>2 DEF StepOk
<1> HIDE DEF w
<1>5. (\A f \in Fields \ F : w[f] = u[f]) /\ w.openStep = e.step /\ w.lastStep = e.step
  BY <1>1, <1>3 DEF IsValidator, Fields
<1>6. IsValidator(Apply(u, e))
  BY <1>1, EventTouches
<1>7. Only(u, Apply(u, e), F)
  BY <1>2, <1>5, <1>6 DEF Only
<1>8. /\ Apply(u, e).openStep = e.step /\ Apply(u, e).lastStep = e.step
      /\ Apply(u, e).lastTurn = u.lastTurn
  BY <1>2, <1>5 DEF Fields
<1>9. Plain(Apply(u, e))
  BY <1>7, <1>8, PlainTurns DEF Plain
<1> QED
  BY <1>4, <1>7, <1>8, <1>9

\* A step that ends is no longer open.
LEMMA StepEnds ==
  ASSUME NEW u, Plain(u), NEW e, e.type = "step/end", Accepts(u, e)
  PROVE  /\ u.openTurn = e.turn /\ u.openStep = e.step
         /\ Plain(Apply(u, e)) /\ Only(u, Apply(u, e), {"openStep"})
         /\ Apply(u, e).openStep = None
<1> DEFINE w == ApplyStep(u, e)
           F == {"openStep"}
<1>1. e.type \in StepTypes /\ IsValidator(u)
  BY DEF StepTypes, Plain
<1>2. StepOk(u, e) /\ \A f \in Fields \ {"count"} : Apply(u, e)[f] = w[f]
  BY <1>1, Cases, AppliedIsAssigned
<1>3. w = [u EXCEPT !.openStep = None]
  BY DEF ApplyStep
<1>4. u.openTurn = e.turn /\ u.openStep = e.step
  BY <1>2 DEF StepOk, InStep
<1> HIDE DEF w
<1>5. (\A f \in Fields \ F : w[f] = u[f]) /\ w.openStep = None
  BY <1>1, <1>3 DEF IsValidator, Fields
<1>6. IsValidator(Apply(u, e))
  BY <1>1, EventTouches
<1>7. Only(u, Apply(u, e), F)
  BY <1>2, <1>5, <1>6 DEF Only
<1>8. /\ Apply(u, e).openStep = None /\ Apply(u, e).lastTurn = u.lastTurn
      /\ Apply(u, e).lastStep = u.lastStep
  BY <1>2, <1>5 DEF Fields
<1>9. Plain(Apply(u, e))
  BY <1>7, <1>8, PlainTurns DEF Plain
<1> QED
  BY <1>4, <1>7, <1>8, <1>9

CheckedTypes ==
  {"user/message", "request/context", "request/failure", "assistant/chunk",
           "assistant/message"}

\* An event that the validator only checks.
LEMMA OnlyChecked ==
  ASSUME NEW u, Plain(u), NEW e, e.type \in CheckedTypes
  PROVE  Plain(Apply(u, e)) /\ Only(u, Apply(u, e), {})
<1>1. IsValidator(u) /\ IsValidator(Apply(u, e))
  BY EventTouches DEF Plain
<1>2. Assigned(u, e) = u
  <2>1. CASE e.type = "user/message"
    <3>1. e.type \notin AllTypes
      BY <2>1 DEF AllTypes, TurnTypes, StepTypes, RequestTypes, ToolTypes, RetryTypes, NestedTypes
    <3> QED
      BY <3>1, Cases
  <2>2. CASE e.type # "user/message"
    <3>1. e.type \in RequestTypes /\ e.type \notin {"request/header", "request/attempt"}
      BY <2>2 DEF RequestTypes, CheckedTypes
    <3>2. ApplyRequest(u, e) = u
      BY <3>1 DEF ApplyRequest
    <3> QED
      BY <3>1, <3>2, Cases
  <2> QED
    BY <2>1, <2>2
<1>3. Only(u, Apply(u, e), {})
  BY <1>1, <1>2, AppliedIsAssigned DEF Only
<1>4. Apply(u, e).lastTurn = u.lastTurn /\ Apply(u, e).lastStep = u.lastStep
  BY <1>3 DEF Only, Fields
<1>5. Plain(Apply(u, e))
  BY <1>3, <1>4, PlainTurns DEF Plain
<1> QED
  BY <1>3, <1>5

\* An event of a request or a retry.
LEMMA PlainRequests ==
  ASSUME NEW u, NEW w, Plain(u),
         Only(u, w, {"requests", "retries", "pendingRetries"}),
         IsFiniteSet(w.pendingRetries),
         \A r \in DOMAIN w.requests : DOMAIN w.requests[r] = RequestFields,
         \A t \in DOMAIN w.retries : DOMAIN w.retries[t] = RetryFields
  PROVE  Plain(w)
<1>1. /\ w.calls = u.calls /\ w.suspension = u.suspension /\ w.unresolved = u.unresolved
      /\ w.lastTurn = u.lastTurn /\ w.lastStep = u.lastStep
  BY DEF Only, Fields
<1> QED
  BY <1>1, PlainStays DEF Plain, Only

\* A request that begins is known with its step.
LEMMA RequestBegins ==
  ASSUME NEW u, Plain(u), NEW e, e.type = "request/header", Accepts(u, e)
  PROVE  LET w == Apply(u, e)
             r == e.requestId
         IN  /\ u.openTurn = e.turn /\ u.openStep = e.step /\ r \notin DOMAIN u.requests
             /\ Plain(w) /\ Only(u, w, {"requests"})
             /\ DOMAIN w.requests = DOMAIN u.requests \cup {r}
             /\ \A q \in DOMAIN u.requests : w.requests[q] = u.requests[q]
             /\ w.requests[r].turn = e.turn /\ w.requests[r].step = e.step
             /\ w.requests[r].lastAttempt = 0
<1> DEFINE w == ApplyRequest(u, e)
           F == {"requests"}
           x == [turn |-> e.turn, step |-> e.step, lastAttempt |-> 0]
           f == Put(u.requests, e.requestId, x)
<1>1. e.type \in RequestTypes /\ IsValidator(u)
  BY DEF RequestTypes, Plain
<1>2. RequestOk(u, e) /\ \A y \in Fields \ {"count"} : Apply(u, e)[y] = w[y]
  BY <1>1, Cases, AppliedIsAssigned
<1>3. w = [u EXCEPT !.requests = f]
  BY DEF ApplyRequest
<1>4. u.openTurn = e.turn /\ u.openStep = e.step /\ e.requestId \notin DOMAIN u.requests
  BY <1>2 DEF RequestOk, InStep
<1>5. /\ DOMAIN f = DOMAIN u.requests \cup {e.requestId}
      /\ \A q \in DOMAIN u.requests : f[q] = u.requests[q]
      /\ f[e.requestId] = x
  BY <1>4 DEF Put
<1>6. /\ DOMAIN x = RequestFields /\ x.turn = e.turn /\ x.step = e.step
      /\ x.lastAttempt = 0
  BY DEF RequestFields
<1> HIDE DEF w, f, x
<1>7. (\A y \in Fields \ F : w[y] = u[y]) /\ w.requests = f
  BY <1>1, <1>3 DEF IsValidator, Fields
<1>8. IsValidator(Apply(u, e))
  BY <1>1, EventTouches
<1>9. Only(u, Apply(u, e), F)
  BY <1>2, <1>7, <1>8 DEF Only
<1>10. /\ Apply(u, e).requests = f /\ Apply(u, e).retries = u.retries
       /\ Apply(u, e).pendingRetries = u.pendingRetries
  BY <1>2, <1>7 DEF Fields
<1>11. Plain(Apply(u, e))
  <2>1. Only(u, Apply(u, e), {"requests", "retries", "pendingRetries"})
    BY <1>9 DEF Only
  <2>2. \A r \in DOMAIN f : DOMAIN f[r] = RequestFields
    BY <1>5, <1>6 DEF Plain, Shaped
  <2> QED
    BY <1>10, <2>1, <2>2, PlainRequests DEF Plain, Shaped
<1> QED
  BY <1>4, <1>5, <1>6, <1>9, <1>10, <1>11

\* The first attempt of a request.
LEMMA RequestTried ==
  ASSUME NEW u, Plain(u), NEW e, e.type = "request/attempt", e.retryId = None, Accepts(u, e)
  PROVE  LET w == Apply(u, e)
             r == e.requestId
         IN  /\ r \in DOMAIN u.requests
             /\ Plain(w) /\ Only(u, w, {"requests"})
             /\ DOMAIN w.requests = DOMAIN u.requests
             /\ \A q \in DOMAIN u.requests : q # r => w.requests[q] = u.requests[q]
             /\ w.requests[r].turn = u.requests[r].turn /\ w.requests[r].step = u.requests[r].step
             /\ w.requests[r].lastAttempt = e.attempt
<1> DEFINE w == ApplyRequest(u, e)
           F == {"requests"}
           r == e.requestId
           x == [u.requests[r] EXCEPT !.lastAttempt = e.attempt]
           f == [u.requests EXCEPT ![r] = x]
<1>1. e.type \in RequestTypes /\ IsValidator(u)
  BY DEF RequestTypes, Plain
<1>2. RequestOk(u, e) /\ \A y \in Fields \ {"count"} : Apply(u, e)[y] = w[y]
  BY <1>1, Cases, AppliedIsAssigned
<1>3. w = [u EXCEPT !.requests = f]
  BY <1>1 DEF ApplyRequest, IsValidator, Fields
<1>4. r \in DOMAIN u.requests
  BY <1>2 DEF RequestOk
<1>5. DOMAIN u.requests[r] = RequestFields
  BY <1>4 DEF Plain, Shaped
<1>6. /\ DOMAIN x = RequestFields /\ x.turn = u.requests[r].turn
      /\ x.step = u.requests[r].step /\ x.lastAttempt = e.attempt
  BY <1>5 DEF RequestFields
<1>7. /\ DOMAIN f = DOMAIN u.requests /\ f[r] = x
      /\ \A q \in DOMAIN u.requests : q # r => f[q] = u.requests[q]
  BY <1>4
<1> HIDE DEF w, f, x
<1>8. (\A y \in Fields \ F : w[y] = u[y]) /\ w.requests = f
  BY <1>1, <1>3 DEF IsValidator, Fields
<1>9. IsValidator(Apply(u, e))
  BY <1>1, EventTouches
<1>10. Only(u, Apply(u, e), F)
  BY <1>2, <1>8, <1>9 DEF Only
<1>11. /\ Apply(u, e).requests = f /\ Apply(u, e).retries = u.retries
       /\ Apply(u, e).pendingRetries = u.pendingRetries
  BY <1>2, <1>8 DEF Fields
<1>12. Plain(Apply(u, e))
  <2>1. Only(u, Apply(u, e), {"requests", "retries", "pendingRetries"})
    BY <1>10 DEF Only
  <2>2. \A q \in DOMAIN f : DOMAIN f[q] = RequestFields
    BY <1>6, <1>7 DEF Plain, Shaped
  <2> QED
    BY <1>11, <2>1, <2>2, PlainRequests DEF Plain, Shaped
<1> QED
  BY <1>4, <1>6, <1>7, <1>10, <1>11, <1>12

\* The attempt a retry was started for.
LEMMA RequestRetried ==
  ASSUME NEW u, Plain(u), NEW e, e.type = "request/attempt", e.retryId # None, Accepts(u, e)
  PROVE  LET w == Apply(u, e)
             r == e.requestId
         IN  /\ r \in DOMAIN u.requests
             /\ Plain(w) /\ Only(u, w, {"requests", "retries", "pendingRetries"})
             /\ DOMAIN w.requests = DOMAIN u.requests
             /\ \A q \in DOMAIN u.requests : q # r => w.requests[q] = u.requests[q]
             /\ w.requests[r].turn = u.requests[r].turn /\ w.requests[r].step = u.requests[r].step
             /\ w.requests[r].lastAttempt = e.attempt
             /\ w.pendingRetries = u.pendingRetries \ {e.retryId}
             /\ DOMAIN w.retries = DOMAIN u.retries
             /\ \A t \in DOMAIN u.retries : t # e.retryId => w.retries[t] = u.retries[t]
<1> DEFINE w == ApplyRequest(u, e)
           F == {"requests", "retries", "pendingRetries"}
           r == e.requestId
           x == [u.requests[r] EXCEPT !.lastAttempt = e.attempt]
           f == [u.requests EXCEPT ![r] = x]
           z == [u.retries[e.retryId] EXCEPT !.state = "consumed"]
           g == [u.retries EXCEPT ![e.retryId] = z]
           S == u.pendingRetries \ {e.retryId}
<1>1. e.type \in RequestTypes /\ IsValidator(u)
  BY DEF RequestTypes, Plain
<1>2. RequestOk(u, e) /\ \A y \in Fields \ {"count"} : Apply(u, e)[y] = w[y]
  BY <1>1, Cases, AppliedIsAssigned
<1>3. w = [u EXCEPT !.requests = f, !.retries = g, !.pendingRetries = S]
  BY <1>1 DEF ApplyRequest, IsValidator, Fields
<1>4. r \in DOMAIN u.requests
  BY <1>2 DEF RequestOk
<1>5. DOMAIN u.requests[r] = RequestFields
  BY <1>4 DEF Plain, Shaped
<1>6. /\ DOMAIN x = RequestFields /\ x.turn = u.requests[r].turn
      /\ x.step = u.requests[r].step /\ x.lastAttempt = e.attempt
  BY <1>5 DEF RequestFields
<1>7. /\ DOMAIN f = DOMAIN u.requests /\ f[r] = x
      /\ \A q \in DOMAIN u.requests : q # r => f[q] = u.requests[q]
  BY <1>4
<1>8. /\ DOMAIN g = DOMAIN u.retries
      /\ \A t \in DOMAIN u.retries : t # e.retryId => g[t] = u.retries[t]
      /\ \A t \in DOMAIN u.retries : DOMAIN g[t] = DOMAIN u.retries[t]
  OBVIOUS
<1> HIDE DEF w, f, x, g, z, S
<1>9. /\ \A y \in Fields \ F : w[y] = u[y]
      /\ w.requests = f /\ w.retries = g /\ w.pendingRetries = S
  BY <1>1, <1>3 DEF IsValidator, Fields
<1>10. IsValidator(Apply(u, e))
  BY <1>1, EventTouches
<1>11. Only(u, Apply(u, e), F)
  BY <1>2, <1>9, <1>10 DEF Only
<1>12. /\ Apply(u, e).requests = f /\ Apply(u, e).retries = g
       /\ Apply(u, e).pendingRetries = S
  BY <1>2, <1>9 DEF Fields
<1>13. Plain(Apply(u, e))
  <2>1. \A q \in DOMAIN f : DOMAIN f[q] = RequestFields
    BY <1>6, <1>7 DEF Plain, Shaped
  <2>2. \A t \in DOMAIN g : DOMAIN g[t] = RetryFields
    BY <1>8 DEF Plain, Shaped
  <2>3. IsFiniteSet(S)
    BY FS_RemoveElement DEF Plain, S
  <2> QED
    BY <1>11, <1>12, <2>1, <2>2, <2>3, PlainRequests
<1> QED
  BY <1>4, <1>6, <1>7, <1>8, <1>11, <1>12, <1>13 DEF S

\* A retry that is scheduled pends.
LEMMA RetryPends ==
  ASSUME NEW u, Plain(u), NEW e, e.type = "retry/scheduled", Accepts(u, e)
  PROVE  LET w == Apply(u, e)
             p == e.retryId
         IN  /\ p \notin DOMAIN u.retries
             /\ Plain(w) /\ Only(u, w, {"retries", "pendingRetries"})
             /\ w.pendingRetries = u.pendingRetries \cup {p}
             /\ DOMAIN w.retries = DOMAIN u.retries \cup {p}
             /\ \A t \in DOMAIN u.retries : w.retries[t] = u.retries[t]
             /\ w.retries[p] = [requestId |-> e.requestId, nextAttempt |-> e.next,
                                state |-> "scheduled"]
<1> DEFINE w == ApplyRetry(u, e)
           F == {"retries", "pendingRetries"}
           x == [requestId |-> e.requestId, nextAttempt |-> e.next, state |-> "scheduled"]
           g == Put(u.retries, e.retryId, x)
           S == u.pendingRetries \cup {e.retryId}
<1>1. e.type \in RetryTypes /\ IsValidator(u)
  BY DEF RetryTypes, Plain
<1>2. RetryOk(u, e) /\ \A y \in Fields \ {"count"} : Apply(u, e)[y] = w[y]
  BY <1>1, Cases, AppliedIsAssigned
<1>3. w = [u EXCEPT !.retries = g, !.pendingRetries = S]
  BY DEF ApplyRetry
<1>4. e.retryId \notin DOMAIN u.retries
  BY <1>2 DEF RetryOk
<1>5. /\ DOMAIN g = DOMAIN u.retries \cup {e.retryId}
      /\ \A t \in DOMAIN u.retries : g[t] = u.retries[t]
      /\ g[e.retryId] = x
  BY <1>4 DEF Put
<1>6. DOMAIN x = RetryFields
  BY DEF RetryFields
<1> HIDE DEF w, g, x, S
<1>7. /\ \A y \in Fields \ F : w[y] = u[y]
      /\ w.retries = g /\ w.pendingRetries = S
  BY <1>1, <1>3 DEF IsValidator, Fields
<1>8. IsValidator(Apply(u, e))
  BY <1>1, EventTouches
<1>9. Only(u, Apply(u, e), F)
  BY <1>2, <1>7, <1>8 DEF Only
<1>10. /\ Apply(u, e).requests = u.requests /\ Apply(u, e).retries = g
       /\ Apply(u, e).pendingRetries = S
  BY <1>2, <1>7 DEF Fields
<1>11. Plain(Apply(u, e))
  <2>1. Only(u, Apply(u, e), {"requests", "retries", "pendingRetries"})
    BY <1>9 DEF Only
  <2>2. \A t \in DOMAIN g : DOMAIN g[t] = RetryFields
    BY <1>5, <1>6 DEF Plain, Shaped
  <2>3. IsFiniteSet(S)
    BY FS_AddElement DEF Plain, S
  <2> QED
    BY <1>10, <2>1, <2>2, <2>3, PlainRequests DEF Plain, Shaped
<1> QED
  BY <1>4, <1>5, <1>9, <1>10, <1>11 DEF S, x

\* A retry is started or cancelled.
LEMMA RetryMoves ==
  ASSUME NEW u, Plain(u), NEW e, e.type \in {"retry/started", "retry/cancelled"}, Accepts(u, e)
  PROVE  LET w == Apply(u, e)
             p == e.retryId
         IN  /\ p \in DOMAIN u.retries
             /\ Plain(w) /\ Only(u, w, {"retries", "pendingRetries"})
             /\ e.type = "retry/started" => w.pendingRetries = u.pendingRetries
             /\ e.type = "retry/cancelled" => w.pendingRetries = u.pendingRetries \ {p}
             /\ DOMAIN w.retries = DOMAIN u.retries
             /\ \A t \in DOMAIN u.retries : t # p => w.retries[t] = u.retries[t]
<1> DEFINE w == ApplyRetry(u, e)
           F == {"retries", "pendingRetries"}
           z == [u.retries[e.retryId] EXCEPT
                   !.state = IF e.type = "retry/started" THEN "started" ELSE "cancelled"]
           g == [u.retries EXCEPT ![e.retryId] = z]
           S == IF e.type = "retry/started" THEN u.pendingRetries
                ELSE u.pendingRetries \ {e.retryId}
<1>1. e.type \in RetryTypes /\ IsValidator(u)
  BY DEF RetryTypes, Plain
<1>2. RetryOk(u, e) /\ \A y \in Fields \ {"count"} : Apply(u, e)[y] = w[y]
  BY <1>1, Cases, AppliedIsAssigned
<1>3. w = [u EXCEPT !.retries = g, !.pendingRetries = S]
  BY <1>1 DEF ApplyRetry, IsValidator, Fields
<1>4. e.retryId \in DOMAIN u.retries
  <2>1. CASE e.type = "retry/started"
    BY <1>2, <2>1 DEF RetryOk
  <2>2. CASE e.type = "retry/cancelled"
    BY <1>2, <2>2 DEF RetryOk
  <2> QED
    BY <2>1, <2>2
<1>5. /\ DOMAIN g = DOMAIN u.retries
      /\ \A t \in DOMAIN u.retries : t # e.retryId => g[t] = u.retries[t]
      /\ \A t \in DOMAIN u.retries : DOMAIN g[t] = DOMAIN u.retries[t]
  OBVIOUS
<1> HIDE DEF w, g, z, S
<1>6. /\ \A y \in Fields \ F : w[y] = u[y]
      /\ w.retries = g /\ w.pendingRetries = S
  BY <1>1, <1>3 DEF IsValidator, Fields
<1>7. IsValidator(Apply(u, e))
  BY <1>1, EventTouches
<1>8. Only(u, Apply(u, e), F)
  BY <1>2, <1>6, <1>7 DEF Only
<1>9. /\ Apply(u, e).requests = u.requests /\ Apply(u, e).retries = g
       /\ Apply(u, e).pendingRetries = S
  BY <1>2, <1>6 DEF Fields
<1>10. Plain(Apply(u, e))
  <2>1. Only(u, Apply(u, e), {"requests", "retries", "pendingRetries"})
    BY <1>8 DEF Only
  <2>2. \A t \in DOMAIN g : DOMAIN g[t] = RetryFields
    BY <1>5 DEF Plain, Shaped
  <2>3. IsFiniteSet(S)
    BY FS_RemoveElement DEF Plain, S
  <2> QED
    BY <1>9, <2>1, <2>2, <2>3, PlainRequests DEF Plain, Shaped
<1> QED
  BY <1>4, <1>5, <1>8, <1>9, <1>10 DEF S

------------------------------------------------------------------------------
(* What a batch of a chat does to the validator. *)

\* The validators before and after each event of a batch.
Through(x, u, b) ==
  /\ x[0] = u /\ x[Len(b)] = AppendBatch(u, b).v
  /\ \A i \in 1 .. Len(b) : Accepts(x[i - 1], b[i]) /\ x[i] = Apply(x[i - 1], b[i])

\* A batch that is accepted leaves the validator its events lead to, one by one.
LEMMA GoesThrough ==
  ASSUME NEW u, NEW b, Len(b) \in Nat, AppendBatch(u, b).ok
  PROVE  \E x : Through(x, u, b)
<1> DEFINE L == Loop(u, b)
           x == [i \in 0 .. Len(b) |-> L[i].v]
<1>1. /\ L[0].v = u /\ L[Len(b)].v = AppendBatch(u, b).v
      /\ \A i \in 1 .. Len(b) : Accepts(L[i - 1].v, b[i]) /\ L[i].v = Apply(L[i - 1].v, b[i])
  BY AcceptedSteps
<1> HIDE DEF L
<1>2. \A i \in 1 .. Len(b) : i - 1 \in 0 .. Len(b) /\ i \in 0 .. Len(b)
  OBVIOUS
<1>3. 0 \in 0 .. Len(b) /\ Len(b) \in 0 .. Len(b)
  OBVIOUS
<1>4. Through(x, u, b)
  BY <1>1, <1>2, <1>3 DEF Through
<1> QED
  BY <1>4

\* The ends in a batch, one by one.
LEMMA EndsOf ==
  ASSUME NEW b
  PROVE  \A p : p \in EndsIn(b) <=>
           \E i \in DOMAIN b : \/ b[i].type = "step/end" /\ p = <<b[i].turn, b[i].step>>
                               \/ b[i].type = "turn/end" /\ p = <<b[i].turn, 0>>
<1>1. \A e : e \in Range(b) <=> \E i \in DOMAIN b : b[i] = e
  BY DEF Range
<1> QED
  BY <1>1 DEF EndsIn

\* A request was made for the step h, and tried once.
Asked(u, w, h) ==
  /\ h \notin DOMAIN u.requests
  /\ DOMAIN w.requests = DOMAIN u.requests \cup {h}
  /\ \A q \in DOMAIN u.requests : w.requests[q] = u.requests[q]
  /\ w.requests[h].turn = h.turn /\ w.requests[h].step = h.step
  /\ w.requests[h].lastAttempt = 1

\* chatRequestEvents.
LEMMA RequestAsked ==
  ASSUME NEW u, Plain(u), NEW h, NEW x, NEW y, NEW w,
         Accepts(u, At("request/header", h)), x = Apply(u, At("request/header", h)),
         Accepts(x, At("request/context", h)), y = Apply(x, At("request/context", h)),
         Accepts(y, Attempt(h, 1, None)), w = Apply(y, Attempt(h, 1, None))
  PROVE  /\ u.openTurn = h.turn /\ u.openStep = h.step
         /\ Plain(w) /\ Only(u, w, {"requests"}) /\ Asked(u, w, h)
<1>1. /\ At("request/header", h).type = "request/header"
      /\ At("request/header", h).requestId = h
      /\ At("request/header", h).turn = h.turn /\ At("request/header", h).step = h.step
      /\ At("request/context", h).type \in CheckedTypes
  BY DEF At, CheckedTypes
<1>2. /\ Attempt(h, 1, None).type = "request/attempt" /\ Attempt(h, 1, None).retryId = None
      /\ Attempt(h, 1, None).requestId = h /\ Attempt(h, 1, None).attempt = 1
  BY DEF Attempt
<1>3. /\ u.openTurn = h.turn /\ u.openStep = h.step /\ h \notin DOMAIN u.requests
      /\ Plain(x) /\ Only(u, x, {"requests"})
      /\ DOMAIN x.requests = DOMAIN u.requests \cup {h}
      /\ \A q \in DOMAIN u.requests : x.requests[q] = u.requests[q]
      /\ x.requests[h].turn = h.turn /\ x.requests[h].step = h.step
  BY <1>1, RequestBegins
<1>4. Plain(y) /\ Only(x, y, {}) /\ y.requests = x.requests
  <2>1. Plain(y) /\ Only(x, y, {})
    BY <1>1, <1>3, OnlyChecked
  <2> QED
    BY <2>1 DEF Only, Fields
<1>5. /\ Plain(w) /\ Only(y, w, {"requests"})
      /\ DOMAIN w.requests = DOMAIN y.requests
      /\ \A q \in DOMAIN y.requests : q # h => w.requests[q] = y.requests[q]
      /\ w.requests[h].turn = y.requests[h].turn /\ w.requests[h].step = y.requests[h].step
      /\ w.requests[h].lastAttempt = 1
  BY <1>2, <1>4, RequestTried
<1>6. Only(u, w, {"requests"})
  BY <1>3, <1>4, <1>5 DEF Only
<1>7. Asked(u, w, h)
  BY <1>3, <1>4, <1>5 DEF Asked
<1> QED
  BY <1>3, <1>5, <1>6, <1>7

\* beginChatTurn.
LEMMA TurnBegun ==
  ASSUME NEW u, Plain(u), NEW h \in HandleType, AppendBatch(u, BeginBatch(h)).ok
  PROVE  LET w == AppendBatch(u, BeginBatch(h)).v
         IN  /\ u.openTurn = None /\ u.openStep = None
             /\ h.turn > u.lastTurn /\ h.step > u.lastStep
             /\ Plain(w)
             /\ Only(u, w, {"openTurn", "lastTurn", "openStep", "lastStep", "requests"})
             /\ w.openTurn = h.turn /\ w.lastTurn = h.turn
             /\ w.openStep = h.step /\ w.lastStep = h.step /\ Asked(u, w, h)
             /\ EndsIn(BeginBatch(h)) = {}
<1>0. PICK b : b = BeginBatch(h)
  OBVIOUS
<1>1. /\ Len(b) = 6 /\ DOMAIN b = 1 .. 6
      /\ b[1] = At("turn/start", h) /\ b[2] = At("user/message", h) /\ b[3] = At("step/start", h)
      /\ b[4] = At("request/header", h) /\ b[5] = At("request/context", h)
      /\ b[6] = Attempt(h, 1, None)
  BY <1>0 DEF BeginBatch, Request
<1>2. PICK x : Through(x, u, b)
  BY <1>0, <1>1, GoesThrough
<1>3. /\ x[0] = u /\ x[6] = AppendBatch(u, b).v
      /\ Accepts(x[0], b[1]) /\ x[1] = Apply(x[0], b[1])
      /\ Accepts(x[1], b[2]) /\ x[2] = Apply(x[1], b[2])
      /\ Accepts(x[2], b[3]) /\ x[3] = Apply(x[2], b[3])
      /\ Accepts(x[3], b[4]) /\ x[4] = Apply(x[3], b[4])
      /\ Accepts(x[4], b[5]) /\ x[5] = Apply(x[4], b[5])
      /\ Accepts(x[5], b[6]) /\ x[6] = Apply(x[5], b[6])
  BY <1>1, <1>2 DEF Through
<1>4. /\ b[1].type = "turn/start" /\ b[1].turn = h.turn /\ h.turn \in Nat
      /\ b[2].type = "user/message" /\ b[2].type \in CheckedTypes
      /\ b[3].type = "step/start" /\ b[3].turn = h.turn /\ b[3].step = h.step /\ h.step \in Nat
      /\ b[4].type = "request/header" /\ b[5].type = "request/context"
      /\ b[6].type = "request/attempt"
  BY <1>1 DEF At, Attempt, CheckedTypes, HandleType
<1>5. /\ u.openTurn = None /\ h.turn > u.lastTurn
      /\ Plain(x[1]) /\ Only(u, x[1], {"openTurn", "lastTurn"})
      /\ x[1].openTurn = h.turn /\ x[1].lastTurn = h.turn
  BY <1>3, <1>4, TurnStarts
<1>6. Plain(x[2]) /\ Only(x[1], x[2], {})
  BY <1>3, <1>4, <1>5, OnlyChecked
<1>7. /\ x[2].openStep = None /\ h.step > x[2].lastStep
      /\ Plain(x[3]) /\ Only(x[2], x[3], {"openStep", "lastStep"})
      /\ x[3].openStep = h.step /\ x[3].lastStep = h.step
  BY <1>3, <1>4, <1>6, StepStarts
<1>8. /\ Plain(x[6]) /\ Only(x[3], x[6], {"requests"}) /\ Asked(x[3], x[6], h)
  BY <1>1, <1>3, <1>7, RequestAsked
<1>9. /\ x[3].requests = u.requests /\ x[2].openStep = u.openStep /\ x[2].lastStep = u.lastStep
      /\ x[6].openTurn = x[1].openTurn /\ x[6].lastTurn = x[1].lastTurn
      /\ x[6].openStep = x[3].openStep /\ x[6].lastStep = x[3].lastStep
  BY <1>5, <1>6, <1>7, <1>8 DEF Only, Fields
<1>10. Only(u, x[6], {"openTurn", "lastTurn", "openStep", "lastStep", "requests"})
  BY <1>5, <1>6, <1>7, <1>8 DEF Only
<1>11. Asked(u, x[6], h)
  BY <1>8, <1>9 DEF Asked
<1>12. EndsIn(b) = {}
  <2>1. \A i \in DOMAIN b : b[i].type \notin {"step/end", "turn/end"}
    BY <1>1, <1>4
  <2> QED
    BY <2>1, EndsOf
<1> QED
  BY <1>0, <1>3, <1>5, <1>7, <1>8, <1>9, <1>10, <1>11, <1>12

\* beginNextChatStep.
LEMMA StepBegun ==
  ASSUME NEW u, Plain(u), NEW h \in HandleType, AppendBatch(u, NextBatch(h)).ok
  PROVE  LET w == AppendBatch(u, NextBatch(h)).v
         IN  /\ u.openTurn = h.turn /\ u.openStep = h.step /\ h.step + 1 > u.lastStep
             /\ Plain(w) /\ Only(u, w, {"openStep", "lastStep", "requests"})
             /\ w.openStep = h.step + 1 /\ w.lastStep = h.step + 1
             /\ Asked(u, w, NextHandle(h))
             /\ EndsIn(NextBatch(h)) = {<<h.turn, h.step>>}
<1>0. PICK b : b = NextBatch(h)
  OBVIOUS
<1>a. PICK k : k = NextHandle(h)
  OBVIOUS
<1>b. k.turn = h.turn /\ k.step = h.step + 1 /\ h.step \in Nat
  BY <1>a DEF NextHandle, HandleType
<1>1. /\ Len(b) = 5 /\ DOMAIN b = 1 .. 5
      /\ b[1] = At("step/end", h) /\ b[2] = At("step/start", k)
      /\ b[3] = At("request/header", k) /\ b[4] = At("request/context", k)
      /\ b[5] = Attempt(k, 1, None)
  BY <1>0, <1>a DEF NextBatch, Request
<1>2. PICK x : Through(x, u, b)
  BY <1>0, <1>1, GoesThrough
<1>3. /\ x[0] = u /\ x[5] = AppendBatch(u, b).v
      /\ Accepts(x[0], b[1]) /\ x[1] = Apply(x[0], b[1])
      /\ Accepts(x[1], b[2]) /\ x[2] = Apply(x[1], b[2])
      /\ Accepts(x[2], b[3]) /\ x[3] = Apply(x[2], b[3])
      /\ Accepts(x[3], b[4]) /\ x[4] = Apply(x[3], b[4])
      /\ Accepts(x[4], b[5]) /\ x[5] = Apply(x[4], b[5])
  BY <1>1, <1>2 DEF Through
<1>4. /\ b[1].type = "step/end" /\ b[1].turn = h.turn /\ b[1].step = h.step
      /\ b[2].type = "step/start" /\ b[2].turn = k.turn /\ b[2].step = k.step
      /\ b[3].type = "request/header" /\ b[4].type = "request/context"
      /\ b[5].type = "request/attempt"
  BY <1>1 DEF At, Attempt
<1>5. /\ u.openTurn = h.turn /\ u.openStep = h.step
      /\ Plain(x[1]) /\ Only(u, x[1], {"openStep"})
  BY <1>3, <1>4, StepEnds
<1>6. /\ k.step > x[1].lastStep
      /\ Plain(x[2]) /\ Only(x[1], x[2], {"openStep", "lastStep"})
      /\ x[2].openStep = k.step /\ x[2].lastStep = k.step
  BY <1>3, <1>4, <1>5, <1>b, StepStarts
<1>7. /\ Plain(x[5]) /\ Only(x[2], x[5], {"requests"}) /\ Asked(x[2], x[5], k)
  BY <1>1, <1>3, <1>6, RequestAsked
<1>8. /\ x[2].requests = u.requests /\ x[1].lastStep = u.lastStep
      /\ x[5].openStep = x[2].openStep /\ x[5].lastStep = x[2].lastStep
  BY <1>5, <1>6, <1>7 DEF Only, Fields
<1>9. Only(u, x[5], {"openStep", "lastStep", "requests"})
  BY <1>5, <1>6, <1>7 DEF Only
<1>10. Asked(u, x[5], k)
  BY <1>7, <1>8 DEF Asked
<1>11. EndsIn(b) = {<<h.turn, h.step>>}
  <2>1. \A i \in DOMAIN b : /\ b[i].type # "turn/end"
                            /\ b[i].type = "step/end" => i = 1
    BY <1>1, <1>4
  <2>2. 1 \in DOMAIN b
    BY <1>1
  <2> QED
    BY <1>4, <2>1, <2>2, EndsOf
<1> QED
  BY <1>0, <1>a, <1>b, <1>3, <1>5, <1>6, <1>7, <1>8, <1>9, <1>10, <1>11

\* A retry is scheduled.
LEMMA RetryRecorded ==
  ASSUME NEW u, Plain(u), NEW h, NEW n, AppendBatch(u, ScheduleBatch(h, n)).ok
  PROVE  LET w == AppendBatch(u, ScheduleBatch(h, n)).v
             p == RetryOf(h, n)
         IN  /\ Plain(w) /\ Only(u, w, {"retries", "pendingRetries"})
             /\ w.pendingRetries = u.pendingRetries \cup {p}
             /\ DOMAIN w.retries = DOMAIN u.retries \cup {p} /\ p \notin DOMAIN u.retries
             /\ \A t \in DOMAIN u.retries : w.retries[t] = u.retries[t]
             /\ w.retries[p] = [requestId |-> h, nextAttempt |-> n + 1, state |-> "scheduled"]
             /\ EndsIn(ScheduleBatch(h, n)) = {}
<1>0. PICK b : b = ScheduleBatch(h, n)
  OBVIOUS
<1>a. PICK p : p = RetryOf(h, n)
  OBVIOUS
<1>b. PICK e : e = [type |-> "retry/scheduled", retryId |-> p, requestId |-> h,
                    previous |-> n, next |-> n + 1]
  OBVIOUS
<1>1. Len(b) = 2 /\ DOMAIN b = 1 .. 2 /\ b[1] = Failure(h, n) /\ b[2] = e
  BY <1>0, <1>a, <1>b DEF ScheduleBatch
<1>2. PICK x : Through(x, u, b)
  BY <1>0, <1>1, GoesThrough
<1>3. /\ x[0] = u /\ x[2] = AppendBatch(u, b).v
      /\ Accepts(x[0], b[1]) /\ x[1] = Apply(x[0], b[1])
      /\ Accepts(x[1], b[2]) /\ x[2] = Apply(x[1], b[2])
  BY <1>1, <1>2 DEF Through
<1>4. /\ b[1].type = "request/failure" /\ b[1].type \in CheckedTypes
      /\ e.type = "retry/scheduled" /\ e.retryId = p /\ e.requestId = h /\ e.next = n + 1
  BY <1>1, <1>b DEF Failure, CheckedTypes
<1>5. Plain(x[1]) /\ Only(u, x[1], {})
  BY <1>3, <1>4, OnlyChecked
<1>6. /\ p \notin DOMAIN x[1].retries
      /\ Plain(x[2]) /\ Only(x[1], x[2], {"retries", "pendingRetries"})
      /\ x[2].pendingRetries = x[1].pendingRetries \cup {p}
      /\ DOMAIN x[2].retries = DOMAIN x[1].retries \cup {p}
      /\ \A t \in DOMAIN x[1].retries : x[2].retries[t] = x[1].retries[t]
      /\ x[2].retries[p] = [requestId |-> h, nextAttempt |-> n + 1, state |-> "scheduled"]
  BY <1>1, <1>3, <1>4, <1>5, RetryPends
<1>7. x[1].retries = u.retries /\ x[1].pendingRetries = u.pendingRetries
  BY <1>5 DEF Only, Fields
<1>8. Only(u, x[2], {"retries", "pendingRetries"})
  BY <1>5, <1>6 DEF Only
<1>9. EndsIn(b) = {}
  <2>1. \A i \in DOMAIN b : b[i].type \notin {"step/end", "turn/end"}
    BY <1>1, <1>4
  <2> QED
    BY <2>1, EndsOf
<1> QED
  BY <1>0, <1>a, <1>3, <1>6, <1>7, <1>8, <1>9

\* A retry has its name.
LEMMA RetryIsNamed ==
  ASSUME NEW h \in HandleType, NEW n \in Nat
  PROVE  RetryOf(h, n) # None
<1>1. h \in [turn : Nat, step : Nat]
  BY DEF HandleType
<1> QED
  BY <1>1, ChatAssumption DEF RetryOf

\* A retry is started, and its attempt made.
LEMMA RetryBegun ==
  ASSUME NEW u, Plain(u), NEW h \in HandleType, NEW n \in Nat,
         AppendBatch(u, StartBatch(h, n)).ok
  PROVE  LET w == AppendBatch(u, StartBatch(h, n)).v
             p == RetryOf(h, n)
         IN  /\ Plain(w) /\ Only(u, w, {"requests", "retries", "pendingRetries"})
             /\ w.pendingRetries = u.pendingRetries \ {p}
             /\ DOMAIN w.retries = DOMAIN u.retries
             /\ \A t \in DOMAIN u.retries : t # p => w.retries[t] = u.retries[t]
             /\ DOMAIN w.requests = DOMAIN u.requests /\ h \in DOMAIN u.requests
             /\ \A q \in DOMAIN u.requests : q # h => w.requests[q] = u.requests[q]
             /\ w.requests[h].turn = u.requests[h].turn
             /\ w.requests[h].step = u.requests[h].step
             /\ w.requests[h].lastAttempt = n + 1
             /\ EndsIn(StartBatch(h, n)) = {}
<1>0. PICK b : b = StartBatch(h, n)
  OBVIOUS
<1>a. PICK p : p = RetryOf(h, n)
  OBVIOUS
<1>1. /\ Len(b) = 2 /\ DOMAIN b = 1 .. 2
      /\ b[1] = RetryStarted(h, n) /\ b[2] = Attempt(h, n + 1, p)
  BY <1>0, <1>a DEF StartBatch
<1>2. PICK x : Through(x, u, b)
  BY <1>0, <1>1, GoesThrough
<1>3. /\ x[0] = u /\ x[2] = AppendBatch(u, b).v
      /\ Accepts(x[0], b[1]) /\ x[1] = Apply(x[0], b[1])
      /\ Accepts(x[1], b[2]) /\ x[2] = Apply(x[1], b[2])
  BY <1>1, <1>2 DEF Through
<1>4. /\ b[1].type = "retry/started" /\ b[1].retryId = p
      /\ b[2].type = "request/attempt" /\ b[2].retryId = p /\ b[2].requestId = h
      /\ b[2].attempt = n + 1 /\ p # None
  BY <1>1, <1>a, RetryIsNamed DEF RetryStarted, Attempt
<1>5. /\ Plain(x[1]) /\ Only(u, x[1], {"retries", "pendingRetries"})
      /\ x[1].pendingRetries = u.pendingRetries
      /\ DOMAIN x[1].retries = DOMAIN u.retries
      /\ \A t \in DOMAIN u.retries : t # p => x[1].retries[t] = u.retries[t]
  <2>1. b[1].type \in {"retry/started", "retry/cancelled"}
    BY <1>4
  <2> QED
    BY <1>3, <1>4, <2>1, RetryMoves
<1>6. /\ h \in DOMAIN x[1].requests
      /\ Plain(x[2]) /\ Only(x[1], x[2], {"requests", "retries", "pendingRetries"})
      /\ DOMAIN x[2].requests = DOMAIN x[1].requests
      /\ \A q \in DOMAIN x[1].requests : q # h => x[2].requests[q] = x[1].requests[q]
      /\ x[2].requests[h].turn = x[1].requests[h].turn
      /\ x[2].requests[h].step = x[1].requests[h].step
      /\ x[2].requests[h].lastAttempt = n + 1
      /\ x[2].pendingRetries = x[1].pendingRetries \ {p}
      /\ DOMAIN x[2].retries = DOMAIN x[1].retries
      /\ \A t \in DOMAIN x[1].retries : t # p => x[2].retries[t] = x[1].retries[t]
  BY <1>3, <1>4, <1>5, RequestRetried
<1>7. x[1].requests = u.requests
  BY <1>5 DEF Only, Fields
<1>8. Only(u, x[2], {"requests", "retries", "pendingRetries"})
  BY <1>5, <1>6 DEF Only
<1>9. EndsIn(b) = {}
  <2>1. \A i \in DOMAIN b : b[i].type \notin {"step/end", "turn/end"}
    BY <1>1, <1>4
  <2> QED
    BY <2>1, EndsOf
<1> QED
  BY <1>0, <1>a, <1>3, <1>5, <1>6, <1>7, <1>8, <1>9

\* A retry is cancelled.
LEMMA RetryGivenUp ==
  ASSUME NEW u, Plain(u), NEW p, AppendBatch(u, <<Cancels(p)>>).ok
  PROVE  LET w == AppendBatch(u, <<Cancels(p)>>).v
         IN  /\ Plain(w) /\ Only(u, w, {"retries", "pendingRetries"})
             /\ w.pendingRetries = u.pendingRetries \ {p}
             /\ DOMAIN w.retries = DOMAIN u.retries
             /\ \A t \in DOMAIN u.retries : t # p => w.retries[t] = u.retries[t]
             /\ EndsIn(<<Cancels(p)>>) = {}
<1>0. PICK b : b = <<Cancels(p)>>
  OBVIOUS
<1>1. Len(b) = 1 /\ DOMAIN b = 1 .. 1 /\ b[1] = Cancels(p)
  BY <1>0
<1>2. PICK x : Through(x, u, b)
  BY <1>0, <1>1, GoesThrough
<1>3. /\ x[0] = u /\ x[1] = AppendBatch(u, b).v
      /\ Accepts(x[0], b[1]) /\ x[1] = Apply(x[0], b[1])
  BY <1>1, <1>2 DEF Through
<1>4. b[1].type = "retry/cancelled" /\ b[1].retryId = p
  BY <1>1 DEF Cancels
<1>5. /\ Plain(x[1]) /\ Only(u, x[1], {"retries", "pendingRetries"})
      /\ x[1].pendingRetries = u.pendingRetries \ {p}
      /\ DOMAIN x[1].retries = DOMAIN u.retries
      /\ \A t \in DOMAIN u.retries : t # p => x[1].retries[t] = u.retries[t]
  <2>1. b[1].type \in {"retry/started", "retry/cancelled"}
    BY <1>4
  <2> QED
    BY <1>3, <1>4, <2>1, RetryMoves
<1>6. EndsIn(b) = {}
  <2>1. \A i \in DOMAIN b : b[i].type \notin {"step/end", "turn/end"}
    BY <1>1, <1>4
  <2> QED
    BY <2>1, EndsOf
<1> QED
  BY <1>0, <1>3, <1>5, <1>6

\* What holds before the first of n events, and after each if before it, holds
\* after all of them.
LEMMA ToTheEnd ==
  ASSUME NEW n \in Nat, NEW G, 0 \in G, \A i \in 1 .. n : i - 1 \in G => i \in G
  PROVE  \A i \in 0 .. n : i \in G
<1> DEFINE T == {i \in 0 .. n : i \notin G}
<1> SUFFICES ASSUME T # {} PROVE FALSE
  OBVIOUS
<1>1. PICK i \in T : \A j \in T : i <= j
  <2>1. T \in SUBSET Nat
    OBVIOUS
  <2> HIDE DEF T
  <2> QED
    BY <2>1, Least
<1>2. i \in 1 .. n /\ i - 1 \in 0 .. n /\ ~(i <= i - 1)
  BY <1>1
<1>3. i - 1 \in G
  BY <1>1, <1>2
<1> QED
  BY <1>1, <1>2, <1>3

\* Chunks are recorded.
LEMMA ChunksRecorded ==
  ASSUME NEW u, Plain(u), NEW c \in Seq(ChunkType), AppendBatch(u, ChunkEvents(c)).ok
  PROVE  LET w == AppendBatch(u, ChunkEvents(c)).v
         IN  Plain(w) /\ Only(u, w, {}) /\ EndsIn(ChunkEvents(c)) = {}
<1>0. PICK b : b = ChunkEvents(c)
  OBVIOUS
<1>1. /\ Len(c) \in Nat /\ DOMAIN b = 1 .. Len(c)
      /\ \A i \in DOMAIN b : b[i].type = "assistant/chunk"
  <2> HIDE DEF ChunkType
  <2> QED
    BY <1>0 DEF ChunkEvents, At
<1>2. Len(b) = Len(c) /\ Len(b) \in Nat
  BY <1>0, <1>1 DEF ChunkEvents
<1>3. PICK x : Through(x, u, b)
  BY <1>0, <1>2, GoesThrough
<1>4. PICK n : n = Len(b)
  OBVIOUS
<1> DEFINE G == {i \in 0 .. n : Plain(x[i]) /\ Only(u, x[i], {})}
<1>5. 0 \in G
  BY <1>2, <1>3, <1>4 DEF Through, Only, Plain
<1>6. ASSUME NEW i \in 1 .. n, i - 1 \in G PROVE i \in G
  <2>1. b[i].type \in CheckedTypes
    BY <1>1, <1>2, <1>4 DEF CheckedTypes
  <2>2. x[i] = Apply(x[i - 1], b[i])
    BY <1>3, <1>4 DEF Through
  <2>3. Plain(x[i - 1]) /\ Only(u, x[i - 1], {})
    BY <1>6
  <2>4. Plain(x[i]) /\ Only(x[i - 1], x[i], {})
    BY <2>1, <2>2, <2>3, OnlyChecked
  <2>5. Only(u, x[i], {})
    BY <2>3, <2>4 DEF Only
  <2> QED
    BY <1>2, <1>4, <2>4, <2>5
<1> HIDE DEF G
<1>7. n \in G
  <2>1. n \in Nat /\ n \in 0 .. n
    BY <1>2, <1>4
  <2> QED
    BY <1>5, <1>6, <2>1, ToTheEnd
<1>8. Plain(x[n]) /\ Only(u, x[n], {}) /\ x[n] = AppendBatch(u, b).v
  BY <1>3, <1>4, <1>7 DEF G, Through
<1>9. EndsIn(b) = {}
  BY <1>1, EndsOf
<1> QED
  BY <1>0, <1>8, <1>9

\* The batch that closes a turn, with m events before the ends.
EndsAfter(m, b, h, e) ==
  /\ m \in {0, 1} /\ Len(b) = m + 2 /\ DOMAIN b = 1 .. m + 2
  /\ b[m + 1] = At("step/end", h) /\ b[m + 2] = TurnEnd(h, FALSE)
  /\ m = 1 => b[1].type \in CheckedTypes
  /\ e = Completed => m = 1 /\ b[1] = At("assistant/message", h)

\* The events that end a turn.
LEMMA EndShape ==
  ASSUME NEW h, NEW e \in Ends, NEW b, b = EndBatch(h, e)
  PROVE  \E m : EndsAfter(m, b, h, e)
<1> DEFINE a == At("step/end", h)
           z == TurnEnd(h, FALSE)
<1>1. CASE e.how \in {"complete", "interrupt"}
  <2> DEFINE f == At("assistant/message", h)
  <2>1. b = <<f>> \o <<a, z>>
    BY <1>1 DEF EndBatch
  <2>2. f.type \in CheckedTypes
    BY DEF At, CheckedTypes
  <2> HIDE DEF f, a, z
  <2>3. /\ Len(b) = 3 /\ DOMAIN b = 1 .. 3 /\ b[1] = f /\ b[2] = a /\ b[3] = z
    BY <2>1
  <2>4. EndsAfter(1, b, h, e)
    <3>1. 1 \in {0, 1} /\ Len(b) = 1 + 2
      BY <2>3
    <3>2. DOMAIN b = 1 .. 1 + 2
      BY <2>3
    <3>3. b[1 + 1] = a /\ b[1 + 2] = z
      BY <2>3
    <3>4. b[1].type \in CheckedTypes
      BY <2>2, <2>3
    <3>5. b[1] = f
      BY <2>3
    <3> QED
      BY <3>1, <3>2, <3>3, <3>4, <3>5 DEF EndsAfter, f, a, z
  <2> QED
    BY <2>4
<1>2. CASE e.how = "fail"
  <2> DEFINE f == Failure(h, e.attempt)
  <2>1. b = <<f>> \o <<a, z>>
    BY <1>2 DEF EndBatch
  <2>2. f.type \in CheckedTypes
    BY DEF Failure, CheckedTypes
  <2>3. e # Completed
    BY <1>2 DEF Completed
  <2> HIDE DEF f, a, z
  <2>4. /\ Len(b) = 3 /\ DOMAIN b = 1 .. 3 /\ b[1] = f /\ b[2] = a /\ b[3] = z
    BY <2>1
  <2>5. EndsAfter(1, b, h, e)
    <3>1. 1 \in {0, 1} /\ Len(b) = 1 + 2
      BY <2>4
    <3>2. DOMAIN b = 1 .. 1 + 2
      BY <2>4
    <3>3. b[1 + 1] = a /\ b[1 + 2] = z
      BY <2>4
    <3>4. b[1].type \in CheckedTypes
      BY <2>2, <2>4
    <3> QED
      BY <2>3, <3>1, <3>2, <3>3, <3>4 DEF EndsAfter, a, z
  <2> QED
    BY <2>5
<1>3. CASE e.how = "abort"
  <2>1. b = <<>> \o <<a, z>>
    BY <1>3 DEF EndBatch
  <2>2. e # Completed
    BY <1>3 DEF Completed
  <2> HIDE DEF a, z
  <2>3. /\ Len(b) = 2 /\ DOMAIN b = 1 .. 2 /\ b[1] = a /\ b[2] = z
    BY <2>1
  <2>4. EndsAfter(0, b, h, e)
    <3>1. 0 \in {0, 1} /\ Len(b) = 0 + 2
      BY <2>3
    <3>2. DOMAIN b = 1 .. 0 + 2
      BY <2>3
    <3>3. b[0 + 1] = a /\ b[0 + 2] = z
      BY <2>3
    <3> QED
      BY <2>2, <3>1, <3>2, <3>3 DEF EndsAfter, a, z
  <2> QED
    BY <2>4
<1>4. e.how \in {"complete", "interrupt", "fail", "abort"}
  BY DEF Ends, Completed, Interrupted, Cancelled
<1> QED
  BY <1>1, <1>2, <1>3, <1>4

\* A step ends, and its turn.
LEMMA BothEnd ==
  ASSUME NEW u, Plain(u), NEW a, NEW z, a.type = "step/end", z.type = "turn/end",
         NEW x, NEW w, Accepts(u, a), x = Apply(u, a), Accepts(x, z), w = Apply(x, z)
  PROVE  /\ u.openTurn = a.turn /\ u.openStep = a.step /\ z.turn = a.turn
         /\ u.pendingRetries = {}
         /\ Plain(w) /\ Only(u, w, {"openTurn", "openStep", "repairedThrough"})
         /\ w.openTurn = None /\ w.openStep = None
         /\ ~z.repair => w.repairedThrough = u.repairedThrough
<1>1. /\ u.openTurn = a.turn /\ u.openStep = a.step
      /\ Plain(x) /\ Only(u, x, {"openStep"}) /\ x.openStep = None
  BY StepEnds
<1>2. /\ x.openTurn = z.turn /\ x.pendingRetries = {}
      /\ Plain(w) /\ Only(x, w, {"openTurn", "repairedThrough"})
      /\ ~z.repair => w.repairedThrough = x.repairedThrough
      /\ w.openTurn = None
  BY <1>1, TurnEnds
<1>3. /\ x.openTurn = u.openTurn /\ x.pendingRetries = u.pendingRetries
      /\ x.repairedThrough = u.repairedThrough /\ w.openStep = x.openStep
  BY <1>1, <1>2 DEF Only, Fields
<1>4. Only(u, w, {"openTurn", "openStep", "repairedThrough"})
  BY <1>1, <1>2 DEF Only
<1> QED
  BY <1>1, <1>2, <1>3, <1>4

\* A turn is closed.
LEMMA TurnClosed ==
  ASSUME NEW u, Plain(u), NEW h, NEW e \in Ends, AppendBatch(u, EndBatch(h, e)).ok
  PROVE  LET w == AppendBatch(u, EndBatch(h, e)).v
         IN  /\ u.openTurn = h.turn /\ u.openStep = h.step /\ u.pendingRetries = {}
             /\ Plain(w) /\ Only(u, w, {"openTurn", "openStep"})
             /\ w.openTurn = None /\ w.openStep = None
             /\ EndsIn(EndBatch(h, e)) = {<<h.turn, h.step>>, <<h.turn, 0>>}
<1>0. PICK b : b = EndBatch(h, e)
  OBVIOUS
<1>a. PICK m : EndsAfter(m, b, h, e)
  BY <1>0, EndShape
<1>1. /\ m \in {0, 1} /\ Len(b) = m + 2 /\ DOMAIN b = 1 .. m + 2
      /\ b[m + 1] = At("step/end", h) /\ b[m + 2] = TurnEnd(h, FALSE)
      /\ m = 1 => b[1].type \in CheckedTypes
  BY <1>a DEF EndsAfter
<1>2. PICK x : Through(x, u, b)
  BY <1>0, <1>1, GoesThrough
<1>3. /\ x[0] = u /\ x[m + 2] = AppendBatch(u, b).v
      /\ m = 1 => Accepts(x[0], b[1]) /\ x[1] = Apply(x[0], b[1])
      /\ Accepts(x[m], b[m + 1]) /\ x[m + 1] = Apply(x[m], b[m + 1])
      /\ Accepts(x[m + 1], b[m + 2]) /\ x[m + 2] = Apply(x[m + 1], b[m + 2])
  <2>1. \A i \in 1 .. m + 2 : Accepts(x[i - 1], b[i]) /\ x[i] = Apply(x[i - 1], b[i])
    BY <1>1, <1>2 DEF Through
  <2>2. /\ m + 1 \in 1 .. m + 2 /\ m + 2 \in 1 .. m + 2 /\ 1 \in 1 .. m + 2
        /\ (m + 1) - 1 = m /\ (m + 2) - 1 = m + 1
    BY <1>1
  <2>3. m = 1 => Accepts(x[0], b[1]) /\ x[1] = Apply(x[0], b[1])
    BY <2>1, <2>2
  <2>4. Accepts(x[m], b[m + 1]) /\ x[m + 1] = Apply(x[m], b[m + 1])
    BY <2>1, <2>2
  <2>5. Accepts(x[m + 1], b[m + 2]) /\ x[m + 2] = Apply(x[m + 1], b[m + 2])
    BY <2>1, <2>2
  <2>6. x[0] = u /\ x[m + 2] = AppendBatch(u, b).v
    BY <1>1, <1>2 DEF Through
  <2> QED
    BY <2>3, <2>4, <2>5, <2>6
<1>4. /\ b[m + 1].type = "step/end" /\ b[m + 1].turn = h.turn /\ b[m + 1].step = h.step
      /\ b[m + 2].type = "turn/end" /\ b[m + 2].turn = h.turn /\ ~b[m + 2].repair
  BY <1>1 DEF At, TurnEnd
<1>5. Plain(x[m]) /\ Only(u, x[m], {})
  <2>1. CASE m = 0
    BY <1>3, <2>1 DEF Only, Plain
  <2>2. CASE m = 1
    BY <1>1, <1>3, <2>2, OnlyChecked
  <2> QED
    BY <1>1, <2>1, <2>2
<1>6. PICK y, z, w : y = x[m] /\ z = x[m + 1] /\ w = x[m + 2]
  OBVIOUS
<1>7. /\ y.openTurn = h.turn /\ y.openStep = h.step /\ y.pendingRetries = {}
      /\ Plain(w) /\ Only(y, w, {"openTurn", "openStep", "repairedThrough"})
      /\ w.openTurn = None /\ w.openStep = None
      /\ w.repairedThrough = y.repairedThrough
  BY <1>3, <1>4, <1>5, <1>6, BothEnd
<1>8. /\ y.openTurn = u.openTurn /\ y.openStep = u.openStep
      /\ y.pendingRetries = u.pendingRetries
  BY <1>5, <1>6 DEF Only, Fields
<1>9. Only(u, w, {"openTurn", "openStep"})
  BY <1>5, <1>6, <1>7 DEF Only
<1>10. EndsIn(b) = {<<h.turn, h.step>>, <<h.turn, 0>>}
  <2>1. \A i \in DOMAIN b : /\ b[i].type = "step/end" => i = m + 1
                            /\ b[i].type = "turn/end" => i = m + 2
    <3>1. \A i \in DOMAIN b : i = m + 1 \/ i = m + 2 \/ (i = 1 /\ m = 1)
      BY <1>1
    <3>2. m = 1 => b[1].type \notin {"step/end", "turn/end"}
      BY <1>1 DEF CheckedTypes
    <3> QED
      BY <1>4, <3>1, <3>2
  <2>2. m + 1 \in DOMAIN b /\ m + 2 \in DOMAIN b
    BY <1>1
  <2> QED
    BY <1>4, <2>1, <2>2, EndsOf
<1> QED
  BY <1>0, <1>3, <1>6, <1>7, <1>8, <1>9, <1>10

\* The batch of a repair: m cancellations and, of an open turn, its ends.
LEMMA RepairShape ==
  ASSUME Plain(v), Bounded(v), NEW r, r = SetToSeq(v.pendingRetries), NEW b, b = RepairBatch
  PROVE  /\ Len(r) \in Nat
         /\ \A p \in v.pendingRetries : \E i \in 1 .. Len(r) : r[i] = p
         /\ \A i \in 1 .. Len(r) : b[i] = Cancels(r[i])
         /\ v.openTurn = None => Len(b) = Len(r) /\ DOMAIN b = 1 .. Len(r)
         /\ v.openTurn # None =>
              /\ v.openStep # None
              /\ Len(b) = Len(r) + 2 /\ DOMAIN b = 1 .. Len(r) + 2
              /\ b[Len(r) + 1] = At("step/end", [turn |-> v.openTurn, step |-> v.openStep])
              /\ b[Len(r) + 2] = TurnEnd([turn |-> v.openTurn], TRUE)
<1> DEFINE a == At("step/end", [turn |-> v.openTurn, step |-> v.openStep])
           z == TurnEnd([turn |-> v.openTurn], TRUE)
           c == [i \in DOMAIN r |-> Cancels(r[i])]
           S == {Cancels(r[i]) : i \in DOMAIN r} \cup {a, z}
<1>1. r \in Seq(v.pendingRetries)
  BY SetToSeqEnumerates DEF Plain
<1>2. Len(r) \in Nat /\ DOMAIN r = 1 .. Len(r)
  BY <1>1
<1>3. \A p \in v.pendingRetries : \E i \in 1 .. Len(r) : r[i] = p
  BY <1>2, SetToSeqEnumerates DEF Plain
<1>4. c \in Seq(S) /\ Len(c) = Len(r) /\ DOMAIN c = 1 .. Len(r)
  <2> HIDE DEF a, z
  <2> QED
    BY <1>2
<1>5. \A i \in 1 .. Len(r) : c[i] = Cancels(r[i])
  BY <1>2
<1>6. <<>> \in Seq(S) /\ <<a>> \in Seq(S) /\ <<z>> \in Seq(S)
  <2>1. a \in S /\ z \in S
    OBVIOUS
  <2> HIDE DEF a, z, S
  <2> QED
    BY <2>1
<1>7. v.openTurn = None <=> v.openStep = None
  BY ChatAssumption DEF Bounded, Plain
<1>8. CASE v.openTurn = None
  <2>1. b = (c \o <<>>) \o <<>>
    BY <1>7, <1>8 DEF RepairBatch
  <2> HIDE DEF c, S
  <2>2. b = c
    BY <1>4, <2>1, ConcatEmptySeq
  <2> QED
    BY <1>2, <1>3, <1>4, <1>5, <1>8, <2>2
<1>9. CASE v.openTurn # None
  <2>1. b = (c \o <<a>>) \o <<z>>
    BY <1>7, <1>9 DEF RepairBatch
  <2> HIDE DEF a, z, c, S
  <2> DEFINE d == c \o <<a>>
  <2>2. /\ d \in Seq(S) /\ Len(d) = Len(r) + 1 /\ d[Len(r) + 1] = a
        /\ \A i \in 1 .. Len(r) : d[i] = c[i]
    BY <1>2, <1>4, <1>6
  <2>3. b = d \o <<z>>
    BY <2>1
  <2> HIDE DEF d
  <2>4. /\ b \in Seq(S) /\ Len(b) = Len(r) + 2 /\ b[Len(r) + 2] = z
        /\ \A i \in 1 .. Len(r) + 1 : b[i] = d[i]
    BY <1>2, <1>6, <2>2, <2>3
  <2>5. b[Len(r) + 1] = a /\ \A i \in 1 .. Len(r) : b[i] = Cancels(r[i])
    BY <1>2, <1>5, <2>2, <2>4
  <2>6. DOMAIN b = 1 .. Len(r) + 2
    BY <2>4
  <2>7. b[Len(r) + 1] = At("step/end", [turn |-> v.openTurn, step |-> v.openStep])
        /\ b[Len(r) + 2] = TurnEnd([turn |-> v.openTurn], TRUE)
    BY <2>4, <2>5 DEF a, z
  <2> QED
    BY <1>2, <1>3, <1>7, <1>9, <2>4, <2>5, <2>6, <2>7
<1> QED
  BY <1>8, <1>9

\* A repair leaves nothing open and no retry pending.
LEMMA RepairMade ==
  ASSUME Plain(v), Bounded(v), AppendBatch(v, RepairBatch).ok
  PROVE  LET w == AppendBatch(v, RepairBatch).v
         IN  /\ Plain(w)
             /\ Only(v, w, {"retries", "pendingRetries", "openTurn", "openStep",
                            "repairedThrough"})
             /\ w.openTurn = None /\ w.openStep = None /\ w.pendingRetries = {}
             /\ v.openTurn = None =>
                  EndsIn(RepairBatch) = {} /\ w.repairedThrough = v.repairedThrough
             /\ v.openTurn # None =>
                  EndsIn(RepairBatch) = {<<v.openTurn, v.openStep>>, <<v.openTurn, 0>>}
<1> DEFINE F == {"retries", "pendingRetries"}
<1>0. PICK b : b = RepairBatch
  OBVIOUS
<1>a. PICK r : r = SetToSeq(v.pendingRetries)
  OBVIOUS
<1>b. PICK m : m = Len(r)
  OBVIOUS
<1>c. PICK a, z : /\ a = At("step/end", [turn |-> v.openTurn, step |-> v.openStep])
                  /\ z = TurnEnd([turn |-> v.openTurn], TRUE)
  OBVIOUS
<1>1. /\ m \in Nat
      /\ \A p \in v.pendingRetries : \E i \in 1 .. m : r[i] = p
      /\ \A i \in 1 .. m : b[i] = Cancels(r[i])
      /\ v.openTurn = None => Len(b) = m /\ DOMAIN b = 1 .. m
      /\ v.openTurn # None =>
           /\ v.openStep # None
           /\ Len(b) = m + 2 /\ DOMAIN b = 1 .. m + 2
           /\ b[m + 1] = a /\ b[m + 2] = z
  <2>1. /\ Len(r) \in Nat
        /\ \A p \in v.pendingRetries : \E i \in 1 .. Len(r) : r[i] = p
        /\ \A i \in 1 .. Len(r) : b[i] = Cancels(r[i])
        /\ v.openTurn = None => Len(b) = Len(r) /\ DOMAIN b = 1 .. Len(r)
        /\ v.openTurn # None =>
             /\ v.openStep # None
             /\ Len(b) = Len(r) + 2 /\ DOMAIN b = 1 .. Len(r) + 2
             /\ b[Len(r) + 1] = At("step/end", [turn |-> v.openTurn, step |-> v.openStep])
             /\ b[Len(r) + 2] = TurnEnd([turn |-> v.openTurn], TRUE)
    BY <1>0, <1>a, RepairShape
  <2> QED
    BY <1>b, <1>c, <2>1, Zenon
<1>d. \A p : Cancels(p).type = "retry/cancelled" /\ Cancels(p).retryId = p
  BY DEF Cancels
<1>2. PICK x : Through(x, v, b)
  <2>1. Len(b) \in Nat
    BY <1>1
  <2> QED
    BY <1>0, <2>1, GoesThrough
<1>3. /\ x[0] = v /\ x[Len(b)] = AppendBatch(v, b).v
      /\ \A i \in 1 .. Len(b) : Accepts(x[i - 1], b[i]) /\ x[i] = Apply(x[i - 1], b[i])
  BY <1>2 DEF Through
<1>4. \A i \in 1 .. m : i \in 1 .. Len(b)
  BY <1>1
<1> DEFINE G == {i \in 0 .. m :
                   /\ Plain(x[i]) /\ Only(v, x[i], F)
                   /\ x[i].pendingRetries = v.pendingRetries \ {r[j] : j \in 1 .. i}}
<1>5. 0 \in G
  <2>1. {r[j] : j \in 1 .. 0} = {}
    OBVIOUS
  <2>2. Plain(x[0]) /\ Only(v, x[0], F)
    BY <1>3 DEF Only, Plain
  <2> QED
    BY <1>1, <1>3, <2>1, <2>2
<1>6. ASSUME NEW i \in 1 .. m, i - 1 \in G PROVE i \in G
  <2>1. /\ b[i].type = "retry/cancelled" /\ b[i].retryId = r[i]
        /\ b[i].type \in {"retry/started", "retry/cancelled"}
    BY <1>1, <1>d
  <2>2. Accepts(x[i - 1], b[i]) /\ x[i] = Apply(x[i - 1], b[i])
    BY <1>3, <1>4
  <2>3. /\ Plain(x[i - 1]) /\ Only(v, x[i - 1], F)
        /\ x[i - 1].pendingRetries = v.pendingRetries \ {r[j] : j \in 1 .. i - 1}
    BY <1>6
  <2>4. /\ Plain(x[i]) /\ Only(x[i - 1], x[i], F)
        /\ x[i].pendingRetries = x[i - 1].pendingRetries \ {r[i]}
    BY <2>1, <2>2, <2>3, RetryMoves
  <2>5. Only(v, x[i], F)
    BY <2>3, <2>4 DEF Only
  <2>6. {r[j] : j \in 1 .. i} = {r[j] : j \in 1 .. i - 1} \cup {r[i]}
    <3>1. 1 .. i = (1 .. i - 1) \cup {i}
      BY <1>1
    <3> QED
      BY <3>1
  <2>7. x[i].pendingRetries = v.pendingRetries \ {r[j] : j \in 1 .. i}
    BY <2>3, <2>4, <2>6
  <2> QED
    BY <1>1, <2>4, <2>5, <2>7
<1> HIDE DEF G
<1>7. m \in G
  <2>1. m \in 0 .. m
    BY <1>1
  <2> QED
    BY <1>1, <1>5, <1>6, <2>1, ToTheEnd
<1>8. /\ Plain(x[m]) /\ Only(v, x[m], F)
      /\ x[m].pendingRetries = v.pendingRetries \ {r[j] : j \in 1 .. m}
  BY <1>7 DEF G
<1>9. x[m].pendingRetries = {}
  BY <1>1, <1>8
<1>10. /\ x[m].openTurn = v.openTurn /\ x[m].openStep = v.openStep
       /\ x[m].repairedThrough = v.repairedThrough
  BY <1>8 DEF Only, Fields
<1>11. \A i \in 1 .. m : b[i].type = "retry/cancelled"
  BY <1>1, <1>d
<1>12. CASE v.openTurn = None
  <2>1. x[m] = AppendBatch(v, b).v
    BY <1>1, <1>3, <1>12
  <2>2. EndsIn(b) = {}
    BY <1>1, <1>11, <1>12, EndsOf
  <2>3. v.openStep = None
    BY <1>12, ChatAssumption DEF Bounded, Plain
  <2>4. Only(v, x[m], {"retries", "pendingRetries", "openTurn", "openStep",
                       "repairedThrough"})
    BY <1>8 DEF Only
  <2> QED
    BY <1>0, <1>8, <1>9, <1>10, <1>12, <2>1, <2>2, <2>3, <2>4
<1>13. CASE v.openTurn # None
  <2>1. PICK y, w : y = x[m + 1] /\ w = x[m + 2]
    OBVIOUS
  <2>2. /\ a.type = "step/end" /\ a.turn = v.openTurn /\ a.step = v.openStep
        /\ z.type = "turn/end" /\ z.turn = v.openTurn
    BY <1>c DEF At, TurnEnd
  <2>3. /\ m + 1 \in 1 .. Len(b) /\ m + 2 \in 1 .. Len(b)
        /\ (m + 1) - 1 = m /\ (m + 2) - 1 = m + 1 /\ Len(b) = m + 2
    BY <1>1, <1>13
  <2>4. /\ Accepts(x[m], a) /\ y = Apply(x[m], a) /\ Accepts(y, z) /\ w = Apply(y, z)
    BY <1>1, <1>3, <1>13, <2>1, <2>3
  <2>5. w = AppendBatch(v, b).v
    BY <1>3, <2>1, <2>3
  <2>6. /\ Plain(w) /\ Only(x[m], w, {"openTurn", "openStep", "repairedThrough"})
        /\ w.openTurn = None /\ w.openStep = None
    BY <1>8, <2>2, <2>4, BothEnd
  <2>7. w.pendingRetries = x[m].pendingRetries
    BY <2>6 DEF Only, Fields
  <2>8. Only(v, w, {"retries", "pendingRetries", "openTurn", "openStep", "repairedThrough"})
    BY <1>8, <2>6 DEF Only
  <2>9. EndsIn(b) = {<<v.openTurn, v.openStep>>, <<v.openTurn, 0>>}
    <3>1. \A i \in DOMAIN b : i \in 1 .. m \/ i = m + 1 \/ i = m + 2
      BY <1>1, <1>13
    <3>2. m + 1 \in DOMAIN b /\ m + 2 \in DOMAIN b
      BY <1>1, <1>13
    <3>3. \A i \in DOMAIN b : /\ b[i].type = "step/end" => i = m + 1
                              /\ b[i].type = "turn/end" => i = m + 2
      BY <1>1, <1>11, <1>13, <2>2, <3>1
    <3> QED
      BY <1>1, <1>13, <2>2, <3>2, <3>3, EndsOf
  <2> QED
    BY <1>0, <1>9, <1>13, <2>5, <2>6, <2>7, <2>8, <2>9
<1> QED
  BY <1>12, <1>13

------------------------------------------------------------------------------
(* What the validator does not refuse. *)

\* A batch whose events are accepted one after the other is.
LEMMA Accepted ==
  ASSUME NEW u, NEW b, NEW x, Len(b) \in Nat, x[0] = u,
         \A i \in 1 .. Len(b) : Accepts(x[i - 1], b[i]) /\ x[i] = Apply(x[i - 1], b[i])
  PROVE  AppendBatch(u, b).ok
<1> DEFINE L == Loop(u, b)
           G == {i \in 0 .. Len(b) : L[i].ok /\ L[i].v = x[i]}
<1>1. /\ L[0] = Started(u)
      /\ \A i \in 1 .. Len(b) : L[i] = Checked(L[i - 1], b[i])
  BY LoopSteps
<1> HIDE DEF L
<1>2. 0 \in G
  BY <1>1 DEF Started
<1>3. ASSUME NEW i \in 1 .. Len(b), i - 1 \in G PROVE i \in G
  <2>1. L[i - 1].ok /\ L[i - 1].v = x[i - 1]
    BY <1>3
  <2>2. L[i] = Checked(L[i - 1], b[i])
    BY <1>1
  <2>3. Accepts(L[i - 1].v, b[i]) /\ x[i] = Apply(L[i - 1].v, b[i])
    BY <2>1
  <2>4. L[i].ok /\ L[i].v = Apply(L[i - 1].v, b[i])
    BY <2>1, <2>2, <2>3 DEF Checked
  <2> QED
    BY <2>3, <2>4
<1> HIDE DEF G
<1>4. Len(b) \in G
  <2>1. Len(b) \in 0 .. Len(b)
    OBVIOUS
  <2> QED
    BY <1>2, <1>3, <2>1, ToTheEnd
<1>5. L[Len(b)].ok
  BY <1>4 DEF G
<1> QED
  BY <1>5 DEF L, AppendBatch

\* The retry a send waits for can be cancelled.
LEMMA CancelAccepted ==
  ASSUME NEW u, NEW p, p \in DOMAIN u.retries, u.retries[p].state = "scheduled"
  PROVE  AppendBatch(u, <<Cancels(p)>>).ok
<1>0. PICK e : e = Cancels(p)
  OBVIOUS
<1>1. e.type = "retry/cancelled" /\ e.retryId = p
  BY <1>0 DEF Cancels
<1>2. Accepts(u, e)
  <2>1. e.type \in RetryTypes
    BY <1>1 DEF RetryTypes
  <2>2. RetryOk(u, e)
    BY <1>1 DEF RetryOk
  <2> QED
    BY <2>1, <2>2, Cases
<1> DEFINE x == [i \in 0 .. 1 |-> IF i = 0 THEN u ELSE Apply(u, e)]
           b == <<e>>
<1>3. Len(b) = 1 /\ b[1] = e
  OBVIOUS
<1>4. x[0] = u /\ x[1] = Apply(u, e)
  OBVIOUS
<1> HIDE DEF x, b
<1>5. \A i \in 1 .. Len(b) : Accepts(x[i - 1], b[i]) /\ x[i] = Apply(x[i - 1], b[i])
  <2>1. \A i \in 1 .. Len(b) : i = 1
    BY <1>3
  <2>2. Accepts(x[1 - 1], b[1]) /\ x[1] = Apply(x[1 - 1], b[1])
    BY <1>2, <1>3, <1>4
  <2> QED
    BY <2>1, <2>2
<1>6. AppendBatch(u, b).ok
  BY <1>3, <1>4, <1>5, Accepted
<1> QED
  BY <1>0, <1>6 DEF b

\* The retry a send waits for can be started, and its attempt made.
LEMMA StartAccepted ==
  ASSUME NEW u, Plain(u), NEW h \in HandleType, NEW n \in Nat,
         h \in DOMAIN u.requests, u.requests[h].lastAttempt = n,
         RetryOf(h, n) \in DOMAIN u.retries,
         u.retries[RetryOf(h, n)] =
           [requestId |-> h, nextAttempt |-> n + 1, state |-> "scheduled"]
  PROVE  AppendBatch(u, StartBatch(h, n)).ok
<1>0. PICK p : p = RetryOf(h, n)
  OBVIOUS
<1>a. PICK e, f : e = RetryStarted(h, n) /\ f = Attempt(h, n + 1, p)
  OBVIOUS
<1>1. /\ e.type = "retry/started" /\ e.retryId = p /\ e.requestId = h /\ e.attempt = n + 1
      /\ f.type = "request/attempt" /\ f.retryId = p /\ f.requestId = h
      /\ f.attempt = n + 1 /\ p # None
  BY <1>0, <1>a, RetryIsNamed DEF RetryStarted, Attempt
<1>2. Accepts(u, e)
  <2>1. e.type \in RetryTypes
    BY <1>1 DEF RetryTypes
  <2>2. RetryOk(u, e)
    BY <1>0, <1>1 DEF RetryOk
  <2> QED
    BY <2>1, <2>2, Cases
<1>3. PICK y : y = Apply(u, e)
  OBVIOUS
<1>4. y.requests = u.requests /\ Plain(y) /\ p \in DOMAIN y.retries
  <2>1. e.type \in {"retry/started", "retry/cancelled"}
    BY <1>1
  <2>2. Plain(y) /\ Only(u, y, {"retries", "pendingRetries"})
        /\ DOMAIN y.retries = DOMAIN u.retries
    BY <1>2, <1>3, <2>1, RetryMoves
  <2> QED
    BY <1>0, <2>2 DEF Only, Fields
<1>5. y.retries[p] = [requestId |-> h, nextAttempt |-> n + 1, state |-> "started"]
  <2> DEFINE w == ApplyRetry(u, e)
  <2>1. e.type \in RetryTypes
    BY <1>1 DEF RetryTypes
  <2>2. y.retries = w.retries
    BY <1>3, <2>1, Cases, AppliedIsAssigned DEF Plain, Fields
  <2>3. w = [u EXCEPT !.retries = [u.retries EXCEPT ![p] = [u.retries[p] EXCEPT !.state = "started"]]]
    BY <1>1 DEF ApplyRetry
  <2> HIDE DEF w
  <2>4. w.retries = [u.retries EXCEPT ![p] = [u.retries[p] EXCEPT !.state = "started"]]
    BY <2>3 DEF Plain, IsValidator, Fields
  <2>5. w.retries[p] = [u.retries[p] EXCEPT !.state = "started"]
    BY <1>0, <2>4
  <2> QED
    BY <1>0, <2>2, <2>5
<1>6. Accepts(y, f)
  <2>1. f.type \in RequestTypes
    BY <1>1 DEF RequestTypes
  <2>2. RequestOk(y, f)
    BY <1>1, <1>4, <1>5 DEF RequestOk
  <2> QED
    BY <2>1, <2>2, Cases
<1> DEFINE x == [i \in 0 .. 2 |-> IF i = 0 THEN u ELSE IF i = 1 THEN y ELSE Apply(y, f)]
           b == <<e, f>>
<1>7. Len(b) = 2 /\ b[1] = e /\ b[2] = f
  OBVIOUS
<1>8. x[0] = u /\ x[1] = y /\ x[2] = Apply(y, f)
  OBVIOUS
<1>9. b = StartBatch(h, n)
  BY <1>0, <1>a DEF StartBatch
<1> HIDE DEF x, b
<1>10. \A i \in 1 .. Len(b) : Accepts(x[i - 1], b[i]) /\ x[i] = Apply(x[i - 1], b[i])
  <2>1. \A i \in 1 .. Len(b) : i = 1 \/ i = 2
    BY <1>7
  <2>2. Accepts(x[1 - 1], b[1]) /\ x[1] = Apply(x[1 - 1], b[1])
    BY <1>2, <1>3, <1>7, <1>8
  <2>3. Accepts(x[2 - 1], b[2]) /\ x[2] = Apply(x[2 - 1], b[2])
    BY <1>6, <1>7, <1>8
  <2> QED
    BY <2>1, <2>2, <2>3
<1>11. AppendBatch(u, b).ok
  <2>1. Len(b) \in Nat
    BY <1>7
  <2>2. x[0] = u
    BY <1>8
  <2> QED
    BY <1>10, <2>1, <2>2, Accepted
<1> QED
  BY <1>9, <1>11

\* A turn that is open at the step of its response can be closed with it.
LEMMA CompleteAccepted ==
  ASSUME NEW u, Plain(u), NEW h \in HandleType, u.openTurn = h.turn, u.openStep = h.step,
         u.pendingRetries = {}, h \in DOMAIN u.requests,
         u.requests[h].turn = h.turn, u.requests[h].step = h.step
  PROVE  AppendBatch(u, EndBatch(h, Completed)).ok
<1>1. PICK e, f, g : /\ e = At("assistant/message", h) /\ f = At("step/end", h)
                     /\ g = TurnEnd(h, FALSE)
  OBVIOUS
<1>2. /\ e.type = "assistant/message" /\ e.requestId = h /\ e.turn = h.turn /\ e.step = h.step
      /\ f.type = "step/end" /\ f.turn = h.turn /\ f.step = h.step
      /\ g.type = "turn/end" /\ g.turn = h.turn
  BY <1>1 DEF At, TurnEnd
<1>3. Accepts(u, e)
  <2>1. e.type \in RequestTypes
    BY <1>2 DEF RequestTypes
  <2>2. RequestOk(u, e)
    BY <1>2 DEF RequestOk
  <2> QED
    BY <2>1, <2>2, Cases
<1>4. PICK y : y = Apply(u, e)
  OBVIOUS
<1>5. /\ Plain(y) /\ y.openTurn = h.turn /\ y.openStep = h.step /\ y.suspension = None
      /\ y.unresolved = {} /\ y.pendingRetries = {}
  <2>1. e.type \in CheckedTypes
    BY <1>2 DEF CheckedTypes
  <2>2. Plain(y) /\ Only(u, y, {})
    BY <1>4, <2>1, OnlyChecked
  <2> QED
    BY <2>2 DEF Only, Fields, Plain
<1>6. Accepts(y, f)
  <2>1. f.type \in StepTypes
    BY <1>2 DEF StepTypes
  <2>2. StepOk(y, f)
    BY <1>2, <1>5 DEF StepOk, InStep
  <2> QED
    BY <2>1, <2>2, Cases
<1>7. PICK z : z = Apply(y, f)
  OBVIOUS
<1>8. /\ Plain(z) /\ z.openTurn = h.turn /\ z.openStep = None /\ z.suspension = None
      /\ z.unresolved = {} /\ z.pendingRetries = {}
  <2>1. Plain(z) /\ Only(y, z, {"openStep"}) /\ z.openStep = None
    BY <1>2, <1>5, <1>6, <1>7, StepEnds
  <2> QED
    BY <1>5, <2>1 DEF Only, Fields, Plain
<1>9. Accepts(z, g)
  <2>1. g.type \in TurnTypes
    BY <1>2 DEF TurnTypes
  <2>2. TurnOk(z, g)
    BY <1>2, <1>8 DEF TurnOk
  <2> QED
    BY <2>1, <2>2, Cases
<1> DEFINE x == [i \in 0 .. 3 |-> IF i = 0 THEN u ELSE IF i = 1 THEN y ELSE IF i = 2 THEN z
                                  ELSE Apply(z, g)]
           b == <<e>> \o <<f, g>>
<1>10. Len(b) = 3 /\ b[1] = e /\ b[2] = f /\ b[3] = g
  OBVIOUS
<1>11. x[0] = u /\ x[1] = y /\ x[2] = z /\ x[3] = Apply(z, g)
  OBVIOUS
<1>12. b = EndBatch(h, Completed)
  BY <1>1 DEF EndBatch, Completed
<1> HIDE DEF x, b
<1>13. \A i \in 1 .. Len(b) : Accepts(x[i - 1], b[i]) /\ x[i] = Apply(x[i - 1], b[i])
  <2>1. \A i \in 1 .. Len(b) : i = 1 \/ i = 2 \/ i = 3
    BY <1>10
  <2>2. Accepts(x[1 - 1], b[1]) /\ x[1] = Apply(x[1 - 1], b[1])
    BY <1>3, <1>4, <1>10, <1>11
  <2>3. Accepts(x[2 - 1], b[2]) /\ x[2] = Apply(x[2 - 1], b[2])
    BY <1>6, <1>7, <1>10, <1>11
  <2>4. Accepts(x[3 - 1], b[3]) /\ x[3] = Apply(x[3 - 1], b[3])
    BY <1>9, <1>10, <1>11
  <2> QED
    BY <2>1, <2>2, <2>3, <2>4
<1>14. AppendBatch(u, b).ok
  <2>1. Len(b) \in Nat
    BY <1>10
  <2>2. x[0] = u
    BY <1>11
  <2> QED
    BY <1>13, <2>1, <2>2, Accepted
<1> QED
  BY <1>12, <1>14

------------------------------------------------------------------------------
(* What an append leaves behind. *)

\* An append that throws was refused, or its failure counts.
LEMMA AppendEnds ==
  ASSUME IInv, NEW b, Takes(b) \/ Throws(b)
  PROVE  /\ env' \in [bounds : Settings, faults : Nat]
         /\ env.faults \in Nat /\ env'.faults \in Nat
         /\ env.faults = 0 \/ env'.faults # 0
         /\ (AppendBatch(v, b).ok /\ Stores(b)) \/ UNCHANGED <<v, closed>>
         /\ Takes(b) => AppendBatch(v, b).ok /\ Stores(b) /\ UNCHANGED env
         /\ ~Takes(b) =>
              (~AppendBatch(v, b).ok /\ UNCHANGED <<v, closed, env>>) \/ env'.faults # 0
<1>1. env \in [bounds : Settings, faults : Nat]
  BY DEF IInv, Types
<1>2. CASE UNCHANGED env
  BY <1>1, <1>2 DEF Takes, Throws
<1>3. CASE /\ Throws(b)
           /\ AppendBatch(v, b).ok /\ env.faults < env.bounds.faults
           /\ env' = [env EXCEPT !.faults = @ + 1]
           /\ Stores(b) \/ UNCHANGED <<v, closed>>
  <2>1. /\ env' \in [bounds : Settings, faults : Nat]
        /\ env'.faults = env.faults + 1 /\ env.faults \in Nat
    BY <1>1, <1>3
  <2>2. env'.faults # 0 /\ env'.faults \in Nat /\ env' # env
    BY <2>1
  <2> QED
    BY <1>3, <2>1, <2>2 DEF Takes
<1> QED
  BY <1>2, <1>3 DEF Takes, Throws

\* While no append has failed, one that throws was refused.
LEMMA Refused ==
  ASSUME IInv, NEW b, Throws(b), env'.faults = 0
  PROVE  ~AppendBatch(v, b).ok /\ UNCHANGED <<v, closed, env>> /\ env.faults = 0
<1>1. CASE ~AppendBatch(v, b).ok /\ UNCHANGED <<v, closed, env>>
  BY <1>1
<1>2. CASE env.faults < env.bounds.faults /\ env' = [env EXCEPT !.faults = @ + 1]
  <2>1. env \in [bounds : Settings, faults : Nat]
    BY DEF IInv, Types
  <2>2. env.faults \in Nat /\ env'.faults = env.faults + 1
    BY <1>2, <2>1
  <2> QED
    BY <2>2
<1> QED
  BY <1>1, <1>2 DEF Throws

\* What a history says of a closure.
Closed(t) == gate'[t].handle = gate[t].handle
             /\ (gate'[t].closing = "ok" => gate[t].closing = "ok" \/ AlreadyClosed(t, closed'))

\* Nothing happens to turns and steps.
LEMMA HistoryStays ==
  ASSUME HistoryFits, Plain(v'), UNCHANGED closed,
         v'.openTurn = v.openTurn, v'.openStep = v.openStep,
         v'.lastTurn = v.lastTurn, v'.lastStep = v.lastStep,
         \A t \in Sends : tx'[t].handle = tx[t].handle /\ Closed(t)
  PROVE  HistoryFits'
<1>1. Plain(v)' /\ Bounded(v)'
  BY DEF HistoryFits, Bounded
<1>2. EndsFit'
  BY DEF HistoryFits, EndsFit
<1>3. \A t \in Sends : TurnFits(t)'
  BY DEF HistoryFits, TurnFits
<1>4. \A t \in Sends : ClosureFits(t)'
  BY DEF HistoryFits, ClosureFits, Closed, AlreadyClosed
<1> QED
  BY <1>1, <1>2, <1>3, <1>4 DEF HistoryFits

\* What is open ends.
LEMMA HistoryEnds ==
  ASSUME HistoryFits, Plain(v'), v'.openTurn = None, v'.openStep = None,
         v'.lastTurn = v.lastTurn, v'.lastStep = v.lastStep,
         v.openTurn = None => UNCHANGED closed,
         v.openTurn # None =>
           closed' = closed \cup {<<v.openTurn, v.openStep>>, <<v.openTurn, 0>>},
         \A t \in Sends : tx'[t].handle = tx[t].handle /\ Closed(t),
         \A t \in Sends : tx[t].handle \in HandleType \cup {None}
  PROVE  HistoryFits'
<1>1. Plain(v)' /\ Bounded(v)'
  BY DEF Bounded
<1>2. Plain(v) /\ v.lastTurn \in Nat /\ v.lastStep \in Nat /\ None \notin Nat
  BY ChatAssumption DEF HistoryFits, Plain
<1>3. EndsFit'
  <2>1. ASSUME NEW p \in closed
        PROVE  /\ p = <<p[1], p[2]>> /\ p[1] \in Nat /\ p[2] \in Nat
               /\ p[1] <= v.lastTurn /\ p[2] <= v.lastStep
    BY <2>1 DEF HistoryFits, EndsFit
  <2>2. ASSUME NEW p \in closed', p \notin closed
        PROVE  /\ p = <<p[1], p[2]>> /\ p[1] \in Nat /\ p[2] \in Nat
               /\ p[1] <= v.lastTurn /\ p[2] <= v.lastStep
    <3>1. /\ v.openTurn = v.lastTurn /\ v.openStep = v.lastStep
          /\ p \in {<<v.openTurn, v.openStep>>, <<v.openTurn, 0>>}
      BY <2>2 DEF HistoryFits, Bounded
    <3>2. CASE p = <<v.openTurn, v.openStep>>
      BY <1>2, <3>1, <3>2
    <3>3. CASE p = <<v.openTurn, 0>>
      BY <1>2, <3>1, <3>3
    <3> QED
      BY <3>1, <3>2, <3>3
  <2> QED
    BY <1>2, <2>1, <2>2 DEF EndsFit
<1>4. closed \subseteq closed'
  OBVIOUS
<1>5. ASSUME NEW t \in Sends PROVE TurnFits(t)'
  <2>1. TurnFits(t)
    BY DEF HistoryFits
  <2>2. CASE tx[t].handle = None
    BY <2>2 DEF TurnFits
  <2>3. CASE tx[t].handle # None
    <3>1. tx[t].handle.turn \in Nat /\ tx[t].handle.turn # None
      BY <1>2, <2>3 DEF HandleType
    <3>2. v.openTurn = tx[t].handle.turn \/ <<tx[t].handle.turn, 0>> \in closed
      BY <2>1, <2>3 DEF TurnFits
    <3>3. <<tx[t].handle.turn, 0>> \in closed'
      BY <1>4, <3>1, <3>2
    <3> QED
      BY <2>1, <3>3 DEF TurnFits
  <2> QED
    BY <2>2, <2>3
<1>6. \A t \in Sends : ClosureFits(t)'
  BY <1>4 DEF HistoryFits, ClosureFits, Closed, AlreadyClosed
<1> QED
  BY <1>1, <1>3, <1>5, <1>6 DEF HistoryFits

\* A job of the queue runs.
LEMMA JobRuns ==
  ASSUME IInv, NEW kind \in JobKinds, NEW s \in Sends, Runs(kind, s)
  PROVE  /\ JobFits(kind, s, Head(queue).batch) /\ Head(queue).batch \in Batches
         /\ queue' \in Seq(JobType)
         /\ \A t \in Sends : NoStep(t) => NoStep(t)'
         /\ kind = "next" => NoStep(s)'
         /\ (\A k \in JobKinds, t \in Sends : \A c :
               (k # kind \/ t # s) /\ JobFits(k, t, c) => JobFits(k, t, c)') => Jobs'
<1>1. queue \in Seq(JobType) /\ Types /\ Jobs
  BY Typed DEF IInv
<1>2. /\ queue' \in Seq(JobType) /\ Len(queue) \in Nat /\ Len(queue) >= 1
      /\ Len(queue') = Len(queue) - 1
      /\ Head(queue) = queue[1] /\ queue[1].kind = kind /\ queue[1].of = s
      /\ \A i \in 1 .. Len(queue') : queue'[i] = queue[i + 1]
  BY <1>1, Left
<1>3. 1 \in 1 .. Len(queue)
  BY <1>2
<1>4. JobFits(kind, s, Head(queue).batch) /\ Head(queue).batch \in Batches
  BY <1>1, <1>2, <1>3, JobTypes DEF Jobs, JobsFit
<1>5. ASSUME kind = "next" PROVE NoStep(s)'
  <2>1. ASSUME NEW i \in 1 .. Len(queue'), queue'[i].kind = kind, queue'[i].of = s
        PROVE  FALSE
    <3>1. i + 1 \in 1 .. Len(queue) /\ i + 1 # 1
      BY <1>2
    <3>2. queue[i + 1].kind = queue[1].kind /\ queue[i + 1].of = queue[1].of
      BY <1>2, <2>1
    <3> QED
      BY <1>1, <1>3, <3>1, <3>2 DEF Jobs, OneJob
  <2> QED
    BY <1>5, <2>1 DEF NoStep, InQueue
<1>6. \A t \in Sends : NoStep(t) => NoStep(t)'
  BY <1>1, NoStepLeft
<1>7. (\A k \in JobKinds, t \in Sends : \A c :
         (k # kind \/ t # s) /\ JobFits(k, t, c) => JobFits(k, t, c)') => Jobs'
  BY <1>1, JobsLeft
<1> QED
  BY <1>2, <1>4, <1>5, <1>6, <1>7

\* A send keeps what the history knows of it.
Alike(t) ==
  /\ tx'[t].handle = tx[t].handle /\ Closed(t)
  /\ ~tx'[t].exposed => ~tx[t].exposed /\ tx'[t].try = tx[t].try

WaitsOn(t) == Waits(t) => Waits(t)' /\ tx'[t].try = tx[t].try

\* The history is what it was.
LEMMA PastKept ==
  ASSUME Past, UNCHANGED <<v, closed>>, env.faults = 0 \/ env'.faults # 0,
         \A t \in Sends : Alike(t) /\ WaitsOn(t)
  PROVE  Past'
<1>1. HistoryFits'
  BY HistoryStays DEF Past, HistoryFits, Alike
<1>2. ASSUME env'.faults = 0
      PROVE  /\ \A t \in Sends : KnowsStep(t)'
             /\ \A p \in v'.pendingRetries : RetryWaits(p)'
  <2>1. env.faults = 0
    BY <1>2
  <2>2. \A t \in Sends : KnowsStep(t)'
    BY <2>1 DEF Past, Undisturbed, KnowsStep, Alike
  <2>3. ASSUME NEW p \in v.pendingRetries PROVE RetryWaits(p)'
    <3>1. PICK t \in Sends :
            /\ Waits(t) /\ p = RetryOf(tx[t].handle, tx[t].try)
            /\ p \in DOMAIN v.retries
            /\ v.retries[p] = [requestId |-> tx[t].handle, nextAttempt |-> tx[t].try + 1,
                               state |-> "scheduled"]
      BY <2>1 DEF Past, Undisturbed, RetryWaits, Waits
    <3>2. Waits(t)' /\ tx'[t].handle = tx[t].handle /\ tx'[t].try = tx[t].try
      BY <3>1 DEF Alike, WaitsOn
    <3> QED
      BY <3>1, <3>2 DEF RetryWaits, Waits
  <2> QED
    BY <2>2, <2>3
<1> QED
  BY <1>1, <1>2 DEF Past, Undisturbed

\* The steps the sends know stay recorded.
LEMMA StepsKnown ==
  ASSUME Undisturbed, env.faults = 0,
         \A t \in Sends : tx[t].handle \in HandleType \cup {None},
         v'.openTurn = None \/ (v'.openTurn = v.openTurn /\ v'.openStep = v.openStep),
         v'.requests = v.requests,
         \A t \in Sends : Alike(t)
  PROVE  \A t \in Sends : KnowsStep(t)'
<1> SUFFICES ASSUME NEW t \in Sends PROVE KnowsStep(t)'
  OBVIOUS
<1>1. KnowsStep(t) /\ tx'[t].handle = tx[t].handle
  BY DEF Undisturbed, Alike
<1>2. CASE tx[t].handle = None
  BY <1>1, <1>2 DEF KnowsStep
<1>3. CASE tx[t].handle # None
  <2>1. tx[t].handle.turn # None
    BY <1>3, ChatAssumption DEF HandleType
  <2> QED
    BY <1>1, <1>3, <2>1 DEF KnowsStep, Alike
<1> QED
  BY <1>2, <1>3

\* A repair, stored or not.
LEMMA RepairPast ==
  ASSUME IInv, Takes(RepairBatch) \/ Throws(RepairBatch),
         \A t \in Sends : Alike(t) /\ WaitsOn(t)
  PROVE  Past'
<1>1. /\ env.faults = 0 \/ env'.faults # 0
      /\ (AppendBatch(v, RepairBatch).ok /\ Stores(RepairBatch)) \/ UNCHANGED <<v, closed>>
  BY AppendEnds
<1>2. CASE UNCHANGED <<v, closed>>
  BY <1>1, <1>2, PastKept DEF IInv
<1>3. CASE AppendBatch(v, RepairBatch).ok /\ Stores(RepairBatch)
  <2>1. /\ Plain(v')
        /\ Only(v, v', {"retries", "pendingRetries", "openTurn", "openStep",
                        "repairedThrough"})
        /\ v'.openTurn = None /\ v'.openStep = None /\ v'.pendingRetries = {}
        /\ v.openTurn = None => EndsIn(RepairBatch) = {}
        /\ v.openTurn # None =>
             EndsIn(RepairBatch) = {<<v.openTurn, v.openStep>>, <<v.openTurn, 0>>}
        /\ closed' = closed \cup EndsIn(RepairBatch)
    BY <1>3, RepairMade DEF IInv, Past, HistoryFits, Stores
  <2>2. /\ v'.requests = v.requests /\ v'.lastTurn = v.lastTurn /\ v'.lastStep = v.lastStep
    BY <2>1 DEF Only, Fields
  <2>3. \A t \in Sends : tx[t].handle \in HandleType \cup {None}
    <3>1. tx \in [Sends -> TxType]
      BY Typed DEF IInv
    <3> QED
      BY <3>1 DEF TxType
  <2>4. HistoryFits'
    BY <2>1, <2>2, <2>3, HistoryEnds DEF IInv, Past, Alike
  <2>5. Undisturbed'
    BY <1>1, <2>1, <2>2, <2>3, StepsKnown DEF IInv, Past, Undisturbed
  <2> QED
    BY <2>4, <2>5 DEF Past
<1> QED
  BY <1>1, <1>2, <1>3

\* prepareOwnedSessionForContinuation, as a job.
LEMMA PrepareRunsStep ==
  ASSUME IInv, NEW s \in Sends, PrepareRuns(s)
  PROVE  IInv'
<1>1. Runs("prepare", s) /\ "prepare" \in JobKinds
  BY DEF PrepareRuns, JobKinds
<1>2. tx[s].at = "preparing"
  BY <1>1, JobRuns DEF JobFits
<1>3. /\ tx \in [Sends -> TxType] /\ rec \in [Sends -> RecType] /\ gate \in [Sends -> GateType]
      /\ active \in Sends \cup {None} /\ stop \in StopType
  BY Typed DEF IInv
<1>4. PICK a \in {"begin", "over"} : tx' = [tx EXCEPT ![s].at = a]
  BY DEF PrepareRuns
<1>5. PICK r : r = [tx[s] EXCEPT !.at = a, !.on = tx[s].on]
  OBVIOUS
<1>6. tx[s] \in TxType
  BY <1>3
<1>7. tx' = [tx EXCEPT ![s] = r]
  <2>1. r = [tx[s] EXCEPT !.at = a]
    BY <1>5, <1>6 DEF TxType
  <2> QED
    BY <1>4, <2>1
<1>8. /\ UNCHANGED <<rec, gate, active, stop>>
      /\ Takes(RepairBatch) \/ Throws(RepairBatch)
  BY DEF PrepareRuns
<1>9. active = None /\ \A t \in Sends : t < s => tx[t].at = "over"
  BY <1>2, Earlier, WaitingFits DEF IInv, Flow
<1>10. \A t \in Sends : SameGate(t)
  BY <1>8, GatesKept
<1>11. tx[s].on \in Sends \cup {0} /\ tx[s].at \notin {"streaming", "over"}
       /\ a \in Waiting \cup {"over"} /\ a \notin {"gate", "repair"}
  BY <1>2, <1>6 DEF TxType, Waiting
<1>12. /\ env' \in [bounds : Settings, faults : Nat]
       /\ env'.faults \in Nat /\ (env.faults = 0 \/ env'.faults # 0)
  BY <1>8, AppendEnds
<1>13. /\ tx' \in [Sends -> TxType] /\ Flow'
       /\ \A kind \in JobKinds, t \in Sends : \A b :
            (t # s \/ kind \notin {"prepare", "begin"}) /\ JobFits(kind, t, b)
              => JobFits(kind, t, b)'
       /\ (\A t \in Sends : NoStep(t) => NoStep(t)') => Closures'
  BY <1>5, <1>7, <1>8, <1>9, <1>10, <1>11, <1>12, AtMoves
<1>14. /\ queue' \in Seq(JobType) /\ (\A t \in Sends : NoStep(t) => NoStep(t)')
       /\ (\A k \in JobKinds, t \in Sends : \A c :
             (k # "prepare" \/ t # s) /\ JobFits(k, t, c) => JobFits(k, t, c)') => Jobs'
  BY <1>1, JobRuns
<1>15. Jobs'
  <2>1. \A b : ~JobFits("begin", s, b)
    BY <1>2 DEF JobFits
  <2>2. \A k \in JobKinds, t \in Sends : \A c :
          (k # "prepare" \/ t # s) /\ JobFits(k, t, c) => JobFits(k, t, c)'
    BY <1>13, <2>1
  <2> QED
    BY <1>14, <2>2
<1>16. \A t \in Sends : Alike(t) /\ WaitsOn(t)
  <2>1. /\ r.handle = tx[s].handle /\ r.exposed = tx[s].exposed /\ r.try = tx[s].try
    BY <1>5, <1>6 DEF TxType
  <2>2. \A t \in Sends : /\ tx'[t].handle = tx[t].handle /\ tx'[t].exposed = tx[t].exposed
                         /\ tx'[t].try = tx[t].try /\ (t # s => tx'[t] = tx[t])
    BY <1>3, <1>7, <2>1
  <2>3. ~Waits(s)
    BY <1>2 DEF Waits, Streaming
  <2>4. \A t \in Sends : Closed(t)
    BY <1>8 DEF Closed
  <2>5. \A t \in Sends : WaitsOn(t)
    BY <2>2, <2>3 DEF Waits, WaitsOn, Streaming
  <2> QED
    BY <2>2, <2>4, <2>5 DEF Alike
<1>17. Past'
  BY <1>8, <1>16, RepairPast
<1>18. Types'
  <2>1. rec' \in [Sends -> RecType] /\ gate' \in [Sends -> GateType]
        /\ active' \in Sends \cup {None} /\ stop' \in StopType
    BY <1>3, <1>8
  <2> QED
    BY <1>12, <1>13, <1>14, <2>1 DEF Types
<1> QED
  BY <1>13, <1>14, <1>15, <1>17, <1>18 DEF IInv

\* Only the count of the history moves.
LEMMA PastCounted ==
  ASSUME Past, Plain(v'), Only(v, v', {}), UNCHANGED closed,
         env.faults = 0 \/ env'.faults # 0,
         \A t \in Sends : tx[t].handle \in HandleType \cup {None},
         \A t \in Sends : Alike(t) /\ WaitsOn(t)
  PROVE  Past'
<1>1. /\ v'.openTurn = v.openTurn /\ v'.openStep = v.openStep /\ v'.lastTurn = v.lastTurn
      /\ v'.lastStep = v.lastStep /\ v'.requests = v.requests
      /\ v'.retries = v.retries /\ v'.pendingRetries = v.pendingRetries
  BY DEF Only, Fields
<1>2. HistoryFits'
  BY <1>1, HistoryStays DEF Past, Alike
<1>3. ASSUME env'.faults = 0
      PROVE  /\ \A t \in Sends : KnowsStep(t)'
             /\ \A p \in v'.pendingRetries : RetryWaits(p)'
  <2>1. env.faults = 0
    BY <1>3
  <2>2. \A t \in Sends : KnowsStep(t)'
    BY <1>1, <2>1, StepsKnown DEF Past
  <2>3. ASSUME NEW p \in v'.pendingRetries PROVE RetryWaits(p)'
    <3>1. PICK t \in Sends :
            /\ Waits(t) /\ p = RetryOf(tx[t].handle, tx[t].try)
            /\ p \in DOMAIN v.retries
            /\ v.retries[p] = [requestId |-> tx[t].handle, nextAttempt |-> tx[t].try + 1,
                               state |-> "scheduled"]
      BY <1>1, <2>1 DEF Past, Undisturbed, RetryWaits, Waits
    <3>2. Waits(t)' /\ tx'[t].handle = tx[t].handle /\ tx'[t].try = tx[t].try
      BY <3>1 DEF Alike, WaitsOn
    <3> QED
      BY <1>1, <3>1, <3>2 DEF RetryWaits, Waits
  <2> QED
    BY <2>2, <2>3
<1> QED
  BY <1>2, <1>3 DEF Past, Undisturbed

\* The handles of the sends.
LEMMA Handles ==
  ASSUME IInv
  PROVE  /\ \A t \in Sends : tx[t].handle \in HandleType \cup {None}
         /\ \A t \in Sends : gate[t].handle \in HandleType \cup {None}
<1>1. tx \in [Sends -> TxType] /\ gate \in [Sends -> GateType]
  BY Typed DEF IInv
<1> QED
  BY <1>1 DEF TxType, GateType

\* The persistence lane of a recorder, as a job.
LEMMA RecordRunsStep ==
  ASSUME IInv, NEW s \in Sends, RecordRuns(s)
  PROVE  IInv'
<1>1. Runs("record", s) /\ "record" \in JobKinds
  BY DEF RecordRuns, JobKinds
<1>2. PICK b : b = Head(queue).batch
  OBVIOUS
<1>3. /\ rec[s].busy /\ \E c \in Seq(ChunkType) : b = ChunkEvents(c)
      /\ queue' \in Seq(JobType) /\ (\A t \in Sends : NoStep(t) => NoStep(t)')
      /\ (\A k \in JobKinds, t \in Sends : \A c :
            (k # "record" \/ t # s) /\ JobFits(k, t, c) => JobFits(k, t, c)') => Jobs'
  <2>1. /\ JobFits("record", s, b)
        /\ queue' \in Seq(JobType) /\ (\A t \in Sends : NoStep(t) => NoStep(t)')
        /\ (\A k \in JobKinds, t \in Sends : \A c :
              (k # "record" \/ t # s) /\ JobFits(k, t, c) => JobFits(k, t, c)') => Jobs'
    BY <1>1, <1>2, JobRuns
  <2>2. rec[s].busy /\ \E c \in Seq(ChunkType) : b = ChunkEvents(c)
    BY <2>1 DEF JobFits
  <2> QED
    BY <2>1, <2>2
<1>4. UNCHANGED <<tx, gate, active, stop>> /\ (Takes(b) \/ Throws(b))
  BY <1>2 DEF RecordRuns
<1>5. /\ Types /\ rec[s] \in RecType /\ tx[s].handle # None
      /\ SendFits(s) /\ Keeps(s) /\ ChunksFit(s) /\ GateFits(s)
  <2>1. rec[s] # NoRecorder
    BY <1>3 DEF NoRecorder
  <2> QED
    BY <2>1, RecorderFits DEF IInv, Flow, GatesFit
<1>6. PICK q \in RecType : /\ rec' = [rec EXCEPT ![s] = q] /\ q.parts = rec[s].parts
                           /\ q.batch = rec[s].batch /\ q.lane = rec[s].lane
                           /\ q.persisted = rec[s].persisted
  <2>1. CASE rec' = [rec EXCEPT ![s].busy = FALSE]
    <3> DEFINE q == [rec[s] EXCEPT !.busy = FALSE]
    <3>1. q \in RecType /\ q.parts = rec[s].parts /\ q.batch = rec[s].batch
          /\ q.lane = rec[s].lane /\ q.persisted = rec[s].persisted
      BY <1>5 DEF RecType
    <3> QED
      BY <2>1, <3>1
  <2>2. CASE rec' = [rec EXCEPT ![s].busy = FALSE, ![s].failed = TRUE]
    <3> DEFINE q == [rec[s] EXCEPT !.busy = FALSE, !.failed = TRUE]
    <3>1. q \in RecType /\ q.parts = rec[s].parts /\ q.batch = rec[s].batch
          /\ q.lane = rec[s].lane /\ q.persisted = rec[s].persisted
      BY <1>5 DEF RecType
    <3>2. rec' = [rec EXCEPT ![s] = q]
      BY <1>5, <2>2 DEF RecType
    <3> QED
      BY <3>1, <3>2
  <2> QED
    BY <2>1, <2>2 DEF RecordRuns
<1>7. /\ rec' \in [Sends -> RecType] /\ rec'[s] = q
      /\ \A t \in Sends : t # s => rec'[t] = rec[t]
  BY <1>5, <1>6, OneRecorder
<1>8. Flow'
  <2>1. \A t \in Sends : t # s => Still(t)
    BY <1>4, <1>7 DEF Still, SameGate
  <2>2. SendFits(s)'
    BY <1>4, <1>5 DEF SendFits, Streaming
  <2>3. Keeps(s)'
    BY <1>4, <1>5, <1>6, <1>7 DEF Keeps, FinishedAt, PersistsAt
  <2>4. ChunksFit(s)'
    BY <1>4, <1>5, <1>6, <1>7 DEF ChunksFit
  <2>5. GateFits(s)'
    BY <1>4, <1>5 DEF GateFits, Registered
  <2> QED
    BY <1>4, <1>5, <2>1, <2>2, <2>3, <2>4, <2>5, FlowStays DEF IInv
<1>9. Jobs'
  <2>1. ASSUME NEW k \in JobKinds, NEW t \in Sends, NEW c, k # "record" \/ t # s,
               JobFits(k, t, c)
        PROVE  JobFits(k, t, c)'
    <3>1. CASE t # s
      BY <1>4, <1>7, <2>1, <3>1, OtherJobs
    <3>2. CASE t = s /\ k # "record"
      BY <1>4, <2>1, <3>2 DEF JobFits, Streaming
    <3> QED
      BY <2>1, <3>1, <3>2
  <2> QED
    BY <1>3, <2>1
<1>10. /\ env' \in [bounds : Settings, faults : Nat] /\ env.faults \in Nat
       /\ env'.faults \in Nat /\ (env.faults = 0 \/ env'.faults # 0)
       /\ (AppendBatch(v, b).ok /\ Stores(b)) \/ UNCHANGED <<v, closed>>
  BY <1>4, AppendEnds
<1>11. \A t \in Sends : Alike(t) /\ WaitsOn(t)
  BY <1>4 DEF Alike, WaitsOn, Closed, Waits, Streaming
<1>12. Past'
  <2>1. CASE UNCHANGED <<v, closed>>
    BY <1>10, <1>11, <2>1, PastKept DEF IInv
  <2>2. CASE AppendBatch(v, b).ok /\ Stores(b)
    <3>1. Plain(v') /\ Only(v, v', {}) /\ UNCHANGED closed
      BY <1>3, <2>2, ChunksRecorded DEF IInv, Past, HistoryFits, Stores
    <3> QED
      BY <1>10, <1>11, <3>1, Handles, PastCounted DEF IInv
  <2> QED
    BY <1>10, <2>1, <2>2
<1>13. Closures'
  BY <1>3, <1>4, <1>10, ClosuresStay DEF IInv
<1>14. Types'
  <2>1. /\ tx' \in [Sends -> TxType] /\ gate' \in [Sends -> GateType]
        /\ active' \in Sends \cup {None} /\ stop' \in StopType
    BY <1>4, <1>5, Typed
  <2> QED
    BY <1>3, <1>7, <1>10, <2>1 DEF Types
<1> QED
  BY <1>8, <1>9, <1>12, <1>13, <1>14 DEF IInv

\* Those who waited for a recovery go on, or are over.
LEMMA ResumedFits ==
  ASSUME IInv, NEW s \in Sends, NEW goesOn \in BOOLEAN, tx' = Resumed(s, goesOn)
  PROVE  /\ tx' \in [Sends -> TxType]
         /\ \A t \in Sends :
              \/ tx'[t] = tx[t] /\ ~(tx[t].at = "repair" /\ tx[t].on = s)
              \/ /\ tx[t].at = "repair" /\ tx[t].on = s /\ tx[t].handle = None
                 /\ \E a \in {"prepare", "over"} : /\ goesOn <=> a = "prepare"
                                                  /\ tx'[t] = [tx[t] EXCEPT !.at = a]
                                                  /\ tx'[t].at = a
                 /\ tx'[t].on = tx[t].on /\ tx'[t].handle = tx[t].handle
                 /\ tx'[t].aborted = tx[t].aborted /\ tx'[t].try = tx[t].try
                 /\ tx'[t].exposed = tx[t].exposed /\ tx'[t].loop = tx[t].loop
                 /\ tx'[t].step = tx[t].step /\ tx'[t].said = tx[t].said
                 /\ tx'[t].next = tx[t].next
<1>1. tx \in [Sends -> TxType]
  BY Typed DEF IInv
<1>2. PICK a \in {"prepare", "over"} :
        /\ goesOn <=> a = "prepare"
        /\ tx' = [t \in Sends |-> IF tx[t].at = "repair" /\ tx[t].on = s
                                  THEN [tx[t] EXCEPT !.at = a] ELSE tx[t]]
  <2>1. CASE goesOn
    BY <2>1 DEF Resumed
  <2>2. CASE ~goesOn
    BY <2>2 DEF Resumed
  <2> QED
    BY <2>1, <2>2
<1>3. \A t \in Sends : tx[t].at = "repair" => tx[t].handle = None
  BY DEF IInv, Flow, SendsFit, SendFits
<1>4. ASSUME NEW t \in Sends
      PROVE  LET r == [tx[t] EXCEPT !.at = a]
             IN  /\ r \in TxType /\ r.at = a
                 /\ r.on = tx[t].on /\ r.handle = tx[t].handle
                 /\ r.aborted = tx[t].aborted /\ r.try = tx[t].try
                 /\ r.exposed = tx[t].exposed /\ r.loop = tx[t].loop
                 /\ r.step = tx[t].step /\ r.said = tx[t].said
                 /\ r.next = tx[t].next
  BY <1>1, <1>4 DEF TxType
<1>5. ASSUME NEW t \in Sends
      PROVE  /\ tx'[t] \in TxType
             /\ \/ tx'[t] = tx[t] /\ ~(tx[t].at = "repair" /\ tx[t].on = s)
                \/ tx[t].at = "repair" /\ tx[t].on = s /\ tx'[t] = [tx[t] EXCEPT !.at = a]
  BY <1>1, <1>2, <1>4
<1>6. tx' \in [Sends -> TxType]
  BY <1>2, <1>5
<1> QED
  BY <1>2, <1>3, <1>4, <1>5, <1>6

\* recoverOrThrow, as a job.
LEMMA RecoverRunsStep ==
  ASSUME IInv, NEW s \in Sends, RecoverRuns(s)
  PROVE  IInv'
<1>1. Runs("recover", s) /\ "recover" \in JobKinds
  BY DEF RecoverRuns, JobKinds
<1>2. /\ gate[s].recovery = "running"
      /\ queue' \in Seq(JobType) /\ (\A t \in Sends : NoStep(t) => NoStep(t)')
      /\ (\A k \in JobKinds, t \in Sends : \A c :
            (k # "recover" \/ t # s) /\ JobFits(k, t, c) => JobFits(k, t, c)') => Jobs'
  <2>1. /\ JobFits("recover", s, Head(queue).batch)
        /\ queue' \in Seq(JobType) /\ (\A t \in Sends : NoStep(t) => NoStep(t)')
        /\ (\A k \in JobKinds, t \in Sends : \A c :
              (k # "recover" \/ t # s) /\ JobFits(k, t, c) => JobFits(k, t, c)') => Jobs'
    BY <1>1, JobRuns
  <2>2. gate[s].recovery = "running"
    BY <2>1 DEF JobFits
  <2> QED
    BY <2>1, <2>2
<1>3. /\ tx \in [Sends -> TxType] /\ rec \in [Sends -> RecType] /\ gate \in [Sends -> GateType]
      /\ active \in Sends \cup {None} /\ stop \in StopType
  BY Typed DEF IInv
<1>4. /\ UNCHANGED rec /\ (Takes(RepairBatch) \/ Throws(RepairBatch))
      /\ stop' = IF stop.at = "repair" /\ stop.on = s THEN [stop EXCEPT !.at = "idle"] ELSE stop
  BY DEF RecoverRuns
<1>5. PICK goesOn \in BOOLEAN :
        /\ tx' = Resumed(s, goesOn)
        /\ gate' = [gate EXCEPT ![s].recovery = IF goesOn THEN "done" ELSE "none"]
        /\ IF goesOn THEN active' = Deleted(s) ELSE UNCHANGED active
  <2>1. CASE tx' = Resumed(s, TRUE) /\ gate' = [gate EXCEPT ![s].recovery = "done"]
             /\ active' = Deleted(s)
    BY <2>1
  <2>2. CASE tx' = Resumed(s, FALSE) /\ gate' = [gate EXCEPT ![s].recovery = "none"]
             /\ UNCHANGED active
    BY <2>2
  <2> QED
    BY <2>1, <2>2 DEF RecoverRuns
<1>6. /\ gate[s].closing = "failed" /\ tx[s].handle # None /\ Registered(s) /\ active = s
      /\ None \notin Sends
  <2>1. GateFits(s) /\ SendFits(s)
    BY DEF IInv, Flow, GatesFit, SendsFit
  <2>2. gate[s].closing = "failed"
    BY <1>2, <2>1 DEF GateFits
  <2>3. tx[s].handle # None
    BY <2>1, <2>2 DEF SendFits, Untouched, NoClosure
  <2> QED
    BY <1>2, <2>1, <2>2, <2>3, ChatAssumption DEF GateFits, Registered, Sends
<1>7. /\ gate' \in [Sends -> GateType]
      /\ \A t \in Sends : t # s => gate'[t] = gate[t]
      /\ gate'[s].closing = gate[s].closing /\ gate'[s].end = gate[s].end
      /\ gate'[s].handle = gate[s].handle
      /\ gate'[s].recovery = IF goesOn THEN "done" ELSE "none"
  BY <1>3, <1>5 DEF GateType
<1>8. active' = IF goesOn THEN None ELSE s
  BY <1>5, <1>6 DEF Deleted
<1>9. /\ tx' \in [Sends -> TxType]
      /\ \A t \in Sends :
           \/ tx'[t] = tx[t] /\ ~(tx[t].at = "repair" /\ tx[t].on = s)
           \/ /\ tx[t].at = "repair" /\ tx[t].on = s /\ tx[t].handle = None
              /\ \E a \in {"prepare", "over"} : /\ goesOn <=> a = "prepare"
                                               /\ tx'[t] = [tx[t] EXCEPT !.at = a]
                                               /\ tx'[t].at = a
              /\ tx'[t].on = tx[t].on /\ tx'[t].handle = tx[t].handle
              /\ tx'[t].aborted = tx[t].aborted /\ tx'[t].try = tx[t].try
              /\ tx'[t].exposed = tx[t].exposed /\ tx'[t].loop = tx[t].loop
              /\ tx'[t].step = tx[t].step /\ tx'[t].said = tx[t].said
              /\ tx'[t].next = tx[t].next
  BY <1>5, ResumedFits
<1>10. \A t \in Sends :
         /\ tx'[t].handle = tx[t].handle
         /\ tx'[t].aborted = tx[t].aborted /\ tx'[t].try = tx[t].try
         /\ tx'[t].exposed = tx[t].exposed /\ tx'[t].loop = tx[t].loop
         /\ tx'[t].step = tx[t].step /\ tx'[t].next = tx[t].next
         /\ tx'[t].at # tx[t].at => tx[t].at = "repair" /\ tx'[t].at \in {"prepare", "over"}
         /\ tx[t].at = "repair" => tx'[t] = tx[t] \/ tx'[t].at # "repair"
  BY <1>9
<1>11. \A t \in Sends : Keeps(t)' /\ ChunksFit(t)'
  <2>1. \A t \in Sends : Keeps(t) /\ ChunksFit(t)
    BY DEF IInv, Flow, RecordersFit
  <2> QED
    BY <1>4, <1>10, <2>1, RecorderStays
<1>12. OneAtATime'
  BY <1>10 DEF IInv, Flow, OneAtATime
<1>13. ASSUME NEW t \in Sends PROVE SendFits(t)'
  <2>1. SendFits(t)
    BY DEF IInv, Flow, SendsFit
  <2>2. CASE tx'[t] = tx[t]
    <3>1. tx[t].handle = None => gate[t] = NoClosure
      BY <2>1 DEF SendFits, Untouched
    <3>2. tx[t].handle = None => t # s
      BY <1>6
    <3>3. tx[t].handle = None => gate'[t] = gate[t]
      BY <1>7, <3>2
    <3>4. tx[t].handle = None => Untouched(t)'
      BY <1>4, <2>1, <2>2, <3>3 DEF SendFits, Untouched
    <3> QED
      BY <2>1, <2>2, <3>4 DEF SendFits, Streaming
  <2>3. CASE tx[t].at = "repair" /\ tx[t].on = s /\ tx[t].handle = None
             /\ \E a \in {"prepare", "over"} : tx'[t] = [tx[t] EXCEPT !.at = a] /\ tx'[t].at = a
    <3>1. PICK a \in {"prepare", "over"} : tx'[t] = [tx[t] EXCEPT !.at = a] /\ tx'[t].at = a
      BY <2>3
    <3>2. Untouched(t) /\ t # s
      BY <1>6, <2>1, <2>3 DEF SendFits
    <3>3. gate'[t] = gate[t] /\ rec'[t] = rec[t]
      BY <1>4, <1>7, <3>2
    <3>4. tx[t] = [NoSend EXCEPT !.at = tx[t].at, !.on = tx[t].on, !.aborted = tx[t].aborted]
      BY <3>2 DEF Untouched
    <3>5. tx'[t].on = tx[t].on /\ tx'[t].aborted = tx[t].aborted
      BY <1>9
    <3>6. tx'[t] = [NoSend EXCEPT !.at = tx'[t].at, !.on = tx'[t].on, !.aborted = tx'[t].aborted]
      BY <3>1, <3>4, <3>5 DEF NoSend
    <3>7. Untouched(t)'
      BY <3>2, <3>3, <3>6 DEF Untouched
    <3> QED
      BY <1>10, <2>1, <2>3, <3>1, <3>7 DEF SendFits, Streaming
  <2> QED
    BY <1>9, <2>2, <2>3
<1>14. ASSUME NEW t \in Sends PROVE GateFits(t)'
  <2>1. GateFits(t)
    BY DEF IInv, Flow, GatesFit
  <2>2. active' = t <=> Registered(t)'
    <3>1. CASE t = s
      BY <1>6, <1>7, <1>8, <1>10, <3>1 DEF Registered
    <3>2. CASE t # s
      BY <1>6, <1>7, <1>8, <1>10, <2>1, <3>2 DEF GateFits, Registered
    <3> QED
      BY <3>1, <3>2
  <2>3. /\ gate'[t].recovery # "none" => gate'[t].closing = "failed"
        /\ gate'[t].closing # "none" => gate'[t].end \in Ends
        /\ gate'[t].closing \in {"saving", "ok", "failed"} <=> gate'[t].handle # None
    BY <1>6, <1>7, <2>1 DEF GateFits
  <2>4. tx'[t].at \in {"gate", "repair"} => tx'[t].on \in Sends /\ active' \in {None, tx'[t].on}
    <3>1. tx'[t].at \in {"gate", "repair"} => tx'[t] = tx[t]
      BY <1>9
    <3> QED
      BY <1>6, <1>8, <2>1, <3>1 DEF GateFits
  <2>5. tx'[t].at \in {"prepare", "preparing", "begin", "beginning"} => active' = None
    BY <1>6, <1>8, <1>9, <2>1 DEF GateFits
  <2> QED
    BY <2>2, <2>3, <2>4, <2>5 DEF GateFits
<1>15. Flow'
  BY <1>11, <1>12, <1>13, <1>14 DEF Flow, SendsFit, RecordersFit, GatesFit
<1>16. Jobs'
  <2>1. ASSUME NEW k \in JobKinds, NEW t \in Sends, NEW c, k # "recover" \/ t # s,
               JobFits(k, t, c)
        PROVE  JobFits(k, t, c)'
    <3>1. /\ gate'[t].closing = gate[t].closing /\ gate'[t].end = gate[t].end
          /\ gate'[t].handle = gate[t].handle
          /\ k = "recover" => gate'[t].recovery = gate[t].recovery
      BY <1>7, <2>1
    <3>2. tx[t].at \in {"preparing", "beginning", "streaming"} => tx'[t] = tx[t]
      BY <1>9
    <3> QED
      BY <1>4, <1>10, <2>1, <3>1, <3>2 DEF JobFits, Streaming
  <2> QED
    BY <1>2, <2>1
<1>17. \A t \in Sends : Alike(t) /\ WaitsOn(t)
  <2>1. \A t \in Sends : Closed(t)
    BY <1>7 DEF Closed
  <2>2. \A t \in Sends : tx[t].at = "streaming" => tx'[t] = tx[t]
    BY <1>9
  <2> QED
    BY <1>10, <2>1, <2>2 DEF Alike, WaitsOn, Waits, Streaming
<1>18. Past'
  BY <1>4, <1>17, RepairPast
<1>19. /\ env' \in [bounds : Settings, faults : Nat] /\ env.faults \in Nat
       /\ env'.faults \in Nat /\ (env.faults = 0 \/ env'.faults # 0)
  BY <1>4, AppendEnds
<1>20. stop' \in StopType /\ stop'.used = stop.used
  BY <1>3, <1>4 DEF StopType
<1>21. Closures'
  BY <1>2, <1>7, <1>10, <1>19, <1>20, ClosuresStay DEF IInv
<1>22. Types'
  <2>1. rec' \in [Sends -> RecType] /\ active' \in Sends \cup {None}
    BY <1>3, <1>4, <1>8
  <2> QED
    BY <1>2, <1>7, <1>9, <1>19, <1>20, <2>1 DEF Types
<1> QED
  BY <1>15, <1>16, <1>18, <1>21, <1>22 DEF IInv

\* A closing append, stored or not.
LEMMA EndPast ==
  ASSUME IInv, NEW h \in HandleType, NEW e \in Ends, NEW b, b = EndBatch(h, e), Takes(b) \/ Throws(b),
         \A t \in Sends : Alike(t) /\ WaitsOn(t)
  PROVE  Past'
<1>1. /\ env.faults = 0 \/ env'.faults # 0
      /\ (AppendBatch(v, b).ok /\ Stores(b)) \/ UNCHANGED <<v, closed>>
  BY AppendEnds
<1>2. CASE UNCHANGED <<v, closed>>
  BY <1>1, <1>2, PastKept DEF IInv
<1>3. CASE AppendBatch(v, b).ok /\ Stores(b)
  <2>1. /\ v.openTurn = h.turn /\ v.openStep = h.step /\ v.pendingRetries = {}
        /\ Plain(v') /\ Only(v, v', {"openTurn", "openStep"})
        /\ v'.openTurn = None /\ v'.openStep = None
        /\ closed' = closed \cup {<<h.turn, h.step>>, <<h.turn, 0>>}
    BY <1>3, TurnClosed DEF IInv, Past, HistoryFits, Stores
  <2>2. /\ v'.requests = v.requests /\ v'.lastTurn = v.lastTurn /\ v'.lastStep = v.lastStep
        /\ v'.pendingRetries = {}
    BY <2>1 DEF Only, Fields
  <2>3. v.openTurn # None
    BY <2>1, ChatAssumption DEF HandleType
  <2>4. HistoryFits'
    BY <2>1, <2>2, <2>3, Handles, HistoryEnds DEF IInv, Past, Alike
  <2>5. Undisturbed'
    BY <1>1, <2>1, <2>2, Handles, StepsKnown DEF IInv, Past, Undisturbed
  <2> QED
    BY <2>4, <2>5 DEF Past
<1> QED
  BY <1>1, <1>2, <1>3

\* A response that ended can be recorded while no append has failed, unless its
\* turn is closed.
LEMMA CompleteIsTaken ==
  ASSUME IInv, NEW s \in Sends, env.faults = 0, gate[s].closing = "saving",
         gate[s].end = Completed, ~AlreadyClosed(s, closed)
  PROVE  AppendBatch(v, EndBatch(gate[s].handle, gate[s].end)).ok
<1>1. PICK h : h = gate[s].handle
  OBVIOUS
<1>2. h # None /\ h \in HandleType
  <2>1. GateFits(s)
    BY DEF IInv, Flow, GatesFit
  <2> QED
    BY <1>1, <2>1, Handles DEF GateFits
<1>3. tx[s].at = "over" /\ tx[s].handle = h
  BY <1>1, <1>2 DEF IInv, Closures, Ending
<1>4. TurnFits(s) /\ KnowsStep(s) /\ Plain(v) /\ Bounded(v)
  BY DEF IInv, Past, HistoryFits, Undisturbed
<1>5. v.openTurn = h.turn
  BY <1>1, <1>2, <1>3, <1>4 DEF TurnFits, AlreadyClosed
<1>6. /\ v.openStep = h.step /\ h \in DOMAIN v.requests
      /\ v.requests[h].turn = h.turn /\ v.requests[h].step = h.step
  BY <1>2, <1>3, <1>4, <1>5 DEF KnowsStep
<1>7. ASSUME NEW p \in v.pendingRetries PROVE FALSE
  <2>1. PICK t \in Sends : Streaming(t)
    BY DEF IInv, Past, Undisturbed, RetryWaits
  <2>2. tx[t].at = "streaming" /\ t # s
    BY <1>3, <2>1 DEF Streaming
  <2>3. t \in Nat /\ s \in Nat
    BY ChatAssumption DEF Sends
  <2>4. CASE t < s
    BY <1>3, <2>2, <2>4 DEF IInv, Flow, OneAtATime
  <2>5. CASE s < t
    <3>1. tx[t].handle # None /\ tx[t].handle \in HandleType
      BY <2>1, StreamingFits
    <3>2. h.turn < tx[t].handle.turn
      BY <1>2, <1>3, <1>4, <2>5, <3>1 DEF TurnFits
    <3>3. TurnFits(t)
      BY DEF IInv, Past, HistoryFits
    <3>4. tx[t].handle.turn <= v.lastTurn
      BY <3>1, <3>3 DEF TurnFits
    <3>5. v.lastTurn = h.turn
      BY <1>2, <1>4, <1>5, ChatAssumption DEF Bounded, HandleType
    <3>6. h.turn \in Nat /\ tx[t].handle.turn \in Nat
      BY <1>2, <3>1 DEF HandleType
    <3> QED
      BY <3>2, <3>4, <3>5, <3>6
  <2> QED
    BY <2>2, <2>3, <2>4, <2>5
<1>8. AppendBatch(v, EndBatch(h, Completed)).ok
  BY <1>2, <1>4, <1>5, <1>6, <1>7, CompleteAccepted
<1> QED
  BY <1>1, <1>8

\* The closing append and the handlers of closePromise.
LEMMA CloseRunsStep ==
  ASSUME IInv, NEW s \in Sends, CloseRuns(s)
  PROVE  IInv'
<1>1. Runs("close", s) /\ "close" \in JobKinds
  BY DEF CloseRuns, JobKinds
<1>2. PICK b : b = Head(queue).batch
  OBVIOUS
<1>3. /\ gate[s].closing = "saving" /\ b = EndBatch(gate[s].handle, gate[s].end)
      /\ queue' \in Seq(JobType) /\ (\A t \in Sends : NoStep(t) => NoStep(t)')
      /\ (\A k \in JobKinds, t \in Sends : \A c :
            (k # "close" \/ t # s) /\ JobFits(k, t, c) => JobFits(k, t, c)') => Jobs'
  <2>1. /\ JobFits("close", s, b)
        /\ queue' \in Seq(JobType) /\ (\A t \in Sends : NoStep(t) => NoStep(t)')
        /\ (\A k \in JobKinds, t \in Sends : \A c :
              (k # "close" \/ t # s) /\ JobFits(k, t, c) => JobFits(k, t, c)') => Jobs'
    BY <1>1, <1>2, JobRuns
  <2>2. gate[s].closing = "saving" /\ b = EndBatch(gate[s].handle, gate[s].end)
    BY <2>1 DEF JobFits
  <2> QED
    BY <2>1, <2>2
<1>4. /\ tx \in [Sends -> TxType] /\ rec \in [Sends -> RecType] /\ gate \in [Sends -> GateType]
      /\ active \in Sends \cup {None} /\ stop \in StopType
  BY Typed DEF IInv
<1>5. UNCHANGED <<tx, rec, stop>> /\ (Takes(b) \/ Throws(b))
  BY <1>2 DEF CloseRuns
<1>6. PICK c \in {"ok", "failed"} :
        /\ gate' = [gate EXCEPT ![s].closing = c]
        /\ IF c = "ok" THEN active' = Deleted(s) ELSE UNCHANGED active
        /\ c = "ok" => Takes(b) \/ AlreadyClosed(s, closed')
        /\ c = "failed" => Throws(b) /\ ~AlreadyClosed(s, closed')
  <2>1. CASE Takes(b) /\ gate' = [gate EXCEPT ![s].closing = "ok"] /\ active' = Deleted(s)
    BY <2>1
  <2>2. CASE /\ Throws(b) /\ AlreadyClosed(s, closed')
             /\ gate' = [gate EXCEPT ![s].closing = "ok"] /\ active' = Deleted(s)
    BY <2>2
  <2>3. CASE /\ Throws(b) /\ ~AlreadyClosed(s, closed')
             /\ gate' = [gate EXCEPT ![s].closing = "failed"] /\ UNCHANGED active
    BY <2>3
  <2> QED
    BY <1>2, <2>1, <2>2, <2>3 DEF CloseRuns
<1>7. /\ gate[s].recovery = "none" /\ gate[s].end \in Ends /\ gate[s].handle # None
      /\ gate[s].handle \in HandleType /\ tx[s].handle # None /\ Registered(s) /\ active = s
      /\ None \notin Sends
  <2>1. GateFits(s) /\ SendFits(s)
    BY DEF IInv, Flow, GatesFit, SendsFit
  <2>2. gate[s].recovery = "none" /\ gate[s].end \in Ends /\ gate[s].handle # None
    <3>1. gate[s] \in GateType
      BY <1>4
    <3>2. gate[s].recovery \in {"none", "running", "done"}
      BY <3>1 DEF GateType
    <3> QED
      BY <1>3, <2>1, <3>2 DEF GateFits
  <2>3. tx[s].handle # None
    BY <1>3, <2>1 DEF SendFits, Untouched, NoClosure
  <2> QED
    BY <1>3, <2>1, <2>2, <2>3, Handles, ChatAssumption DEF GateFits, Registered, Sends
<1>8. /\ gate' \in [Sends -> GateType]
      /\ \A t \in Sends : t # s => gate'[t] = gate[t]
      /\ gate'[s].closing = c /\ gate'[s].end = gate[s].end
      /\ gate'[s].handle = gate[s].handle /\ gate'[s].recovery = gate[s].recovery
  BY <1>4, <1>6 DEF GateType
<1>9. active' = IF c = "ok" THEN None ELSE s
  BY <1>6, <1>7 DEF Deleted
<1>10. ASSUME NEW t \in Sends PROVE SendFits(t)'
  <2>1. SendFits(t)
    BY DEF IInv, Flow, SendsFit
  <2>2. tx[t].handle = None => gate'[t] = gate[t]
    BY <1>7, <1>8
  <2> QED
    BY <1>5, <2>1, <2>2 DEF SendFits, Untouched, Streaming
<1>11. ASSUME NEW t \in Sends PROVE GateFits(t)'
  <2>1. GateFits(t)
    BY DEF IInv, Flow, GatesFit
  <2>2. active' = t <=> Registered(t)'
    <3>1. CASE t = s
      BY <1>5, <1>6, <1>7, <1>8, <1>9, <3>1 DEF Registered
    <3>2. CASE t # s
      BY <1>5, <1>7, <1>8, <1>9, <2>1, <3>2 DEF GateFits, Registered
    <3> QED
      BY <3>1, <3>2
  <2>3. /\ gate'[t].recovery # "none" => gate'[t].closing = "failed"
        /\ gate'[t].closing # "none" => gate'[t].end \in Ends
        /\ gate'[t].closing \in {"saving", "ok", "failed"} <=> gate'[t].handle # None
    BY <1>6, <1>7, <1>8, <2>1 DEF GateFits
  <2>4. /\ tx'[t].at \in {"gate", "repair"} => tx'[t].on \in Sends /\ active' \in {None, tx'[t].on}
        /\ tx'[t].at \in {"prepare", "preparing", "begin", "beginning"} => active' = None
    BY <1>5, <1>7, <1>9, <2>1 DEF GateFits
  <2> QED
    BY <2>2, <2>3, <2>4 DEF GateFits
<1>12. Flow'
  <2>1. OneAtATime'
    BY <1>5 DEF IInv, Flow, OneAtATime
  <2>2. \A t \in Sends : Keeps(t)' /\ ChunksFit(t)'
    BY <1>5, RecorderStays DEF IInv, Flow, RecordersFit
  <2> QED
    BY <1>10, <1>11, <2>1, <2>2 DEF Flow, SendsFit, RecordersFit, GatesFit
<1>13. Jobs'
  <2>1. ASSUME NEW k \in JobKinds, NEW t \in Sends, NEW d, k # "close" \/ t # s,
               JobFits(k, t, d)
        PROVE  JobFits(k, t, d)'
    <3>1. /\ gate'[t].recovery = gate[t].recovery /\ gate'[t].end = gate[t].end
          /\ gate'[t].handle = gate[t].handle
          /\ k = "close" => gate'[t].closing = gate[t].closing
      BY <1>8, <2>1
    <3> QED
      BY <1>5, <2>1, <3>1 DEF JobFits, Streaming
  <2> QED
    BY <1>3, <2>1
<1>14. /\ env' \in [bounds : Settings, faults : Nat] /\ env.faults \in Nat
       /\ env'.faults \in Nat /\ (env.faults = 0 \/ env'.faults # 0)
       /\ Takes(b) => AppendBatch(v, b).ok /\ Stores(b)
  BY <1>5, AppendEnds
<1>15. Takes(b) => AlreadyClosed(s, closed')
  <2>1. ASSUME Takes(b) PROVE <<gate[s].handle.turn, 0>> \in closed'
    <3>1. EndsIn(b) = {<<gate[s].handle.turn, gate[s].handle.step>>, <<gate[s].handle.turn, 0>>}
      BY <1>3, <1>7, <1>14, <2>1, TurnClosed DEF IInv, Past, HistoryFits
    <3> QED
      BY <1>14, <2>1, <3>1 DEF Stores
  <2> QED
    BY <2>1 DEF AlreadyClosed
<1>16. \A t \in Sends : Alike(t) /\ WaitsOn(t)
  <2>1. \A t \in Sends : Closed(t)
    BY <1>6, <1>8, <1>15 DEF Closed
  <2> QED
    BY <1>5, <2>1 DEF Alike, WaitsOn, Waits, Streaming
<1>17. Past'
  BY <1>3, <1>5, <1>7, <1>16, EndPast
<1>18. Closures'
  <2>1. Unstopped'
    <3>1. \A t \in Sends : gate'[t].closing # "none" => gate[t].closing # "none"
      BY <1>3, <1>8
    <3>2. \A t \in Sends : gate'[t].handle = gate[t].handle
      BY <1>8
    <3> QED
      BY <1>3, <1>5, <3>1, <3>2 DEF IInv, Closures, Unstopped, NoStep
  <2>2. Ending'
    <3>1. \A t \in Sends : gate'[t].closing # "none" => gate[t].closing # "none"
      BY <1>3, <1>8
    <3>2. \A t \in Sends : gate'[t].handle = gate[t].handle /\ gate'[t].end = gate[t].end
      BY <1>8
    <3> QED
      BY <1>5, <3>1, <3>2 DEF IInv, Closures, Ending
  <2>3. ASSUME NEW t \in Sends, gate'[t].closing = "failed", gate'[t].end = Completed
        PROVE  env'.faults > 0
    <3>1. CASE t # s
      <4>1. env.faults > 0
        BY <1>8, <2>3, <3>1 DEF IInv, Closures, CompletedIsRecorded
      <4> QED
        BY <1>14, <4>1
    <3>2. CASE t = s
      <4>1. c = "failed" /\ gate[s].end = Completed
        BY <1>8, <2>3, <3>2
      <4>2. Throws(b) /\ ~AlreadyClosed(s, closed')
        BY <1>6, <4>1
      <4>3. CASE env'.faults = 0
        <5>1. ~AppendBatch(v, b).ok /\ UNCHANGED <<v, closed, env>> /\ env.faults = 0
          BY <4>2, <4>3, Refused
        <5> QED
          BY <1>3, <4>1, <4>2, <5>1, CompleteIsTaken
      <4> QED
        BY <1>14, <4>3
    <3> QED
      BY <3>1, <3>2
  <2> QED
    BY <2>1, <2>2, <2>3 DEF Closures, CompletedIsRecorded
<1>19. Types'
  <2>1. /\ tx' \in [Sends -> TxType] /\ rec' \in [Sends -> RecType]
        /\ active' \in Sends \cup {None} /\ stop' \in StopType
    BY <1>4, <1>5, <1>9
  <2> QED
    BY <1>3, <1>8, <1>14, <2>1 DEF Types
<1> QED
  BY <1>12, <1>13, <1>17, <1>18, <1>19 DEF IInv

------------------------------------------------------------------------------
(* The jobs of the retry loop. *)

\* A retry that is pending while no append has failed is the one of the send that
\* streams.
LEMMA PendingIsMine ==
  ASSUME IInv, NEW s \in Sends, Streaming(s), env.faults = 0, NEW p \in v.pendingRetries
  PROVE  /\ tx[s].loop \in {"waiting", "starting", "cancelling"}
         /\ p = RetryOf(tx[s].handle, tx[s].try) /\ p \in DOMAIN v.retries
         /\ v.retries[p] = [requestId |-> tx[s].handle, nextAttempt |-> tx[s].try + 1,
                            state |-> "scheduled"]
<1>1. PICK t \in Sends :
        /\ Streaming(t) /\ tx[t].loop \in {"waiting", "starting", "cancelling"}
        /\ p = RetryOf(tx[t].handle, tx[t].try)
        /\ p \in DOMAIN v.retries
        /\ v.retries[p] = [requestId |-> tx[t].handle, nextAttempt |-> tx[t].try + 1,
                           state |-> "scheduled"]
  BY DEF IInv, Past, Undisturbed, RetryWaits
<1>2. t = s
  BY <1>1, StreamingFits
<1> QED
  BY <1>1, <1>2

\* A request the send knows of, while no append has failed.
LEMMA RequestKnown ==
  ASSUME IInv, NEW s \in Sends, Streaming(s), env.faults = 0, tx[s].loop # "invoke"
  PROVE  /\ tx[s].handle \in DOMAIN v.requests
         /\ v.requests[tx[s].handle].lastAttempt = tx[s].try
<1>1. tx[s].handle # None /\ SendFits(s) /\ tx[s] \in TxType
  BY StreamingFits
<1>2. ~tx[s].exposed
  BY <1>1 DEF SendFits
<1> QED
  BY <1>1, <1>2 DEF IInv, Past, Undisturbed, KnowsStep

\* Nothing happens to turns and steps.
LEMMA RetryHistory ==
  ASSUME IInv, Plain(v'), Only(v, v', {"requests", "retries", "pendingRetries"}),
         UNCHANGED closed, \A t \in Sends : tx'[t].handle = tx[t].handle /\ Closed(t)
  PROVE  HistoryFits'
<1>1. /\ v'.openTurn = v.openTurn /\ v'.openStep = v.openStep /\ v'.lastTurn = v.lastTurn
      /\ v'.lastStep = v.lastStep
  BY DEF Only, Fields
<1> QED
  BY <1>1, HistoryStays DEF IInv, Past

\* A job of the retry loop fails, and with it the stream.
LEMMA LoopJob ==
  ASSUME IInv, NEW s \in Sends, NEW kind,
         <<kind, tx[s].loop>> \in {<<"schedule", "scheduling">>, <<"start", "starting">>,
                                   <<"cancel", "cancelling">>},
         Streaming(s), Runs(kind, s), NEW b, Takes(b) \/ Throws(b),
         NEW end \in Ends, Over(s, end), end # Completed,
         UNCHANGED <<rec, active, stop>>, Past'
  PROVE  IInv'
<1>1. kind \in JobKinds /\ kind \in {"schedule", "start", "cancel"}
  BY DEF JobKinds
<1>2. /\ rec \in [Sends -> RecType]
      /\ active \in Sends \cup {None} /\ stop \in StopType
  BY Typed DEF IInv
<1>3. /\ env' \in [bounds : Settings, faults : Nat] /\ env.faults \in Nat
      /\ env'.faults \in Nat /\ (env.faults = 0 \/ env'.faults # 0)
  BY AppendEnds
<1>4. tx[s].loop # "waiting"
  OBVIOUS
<1>5. /\ queue' \in Seq(JobType) /\ (\A t \in Sends : NoStep(t) => NoStep(t)')
      /\ (\A k \in JobKinds, t \in Sends : \A c :
            (k # kind \/ t # s) /\ JobFits(k, t, c) => JobFits(k, t, c)') => Jobs'
  BY <1>1, JobRuns
<1>6. /\ tx' \in [Sends -> TxType] /\ gate' \in [Sends -> GateType] /\ Flow'
      /\ \A k \in JobKinds, t \in Sends : \A c :
           (t # s \/ k \notin {"schedule", "start", "cancel"}) /\ JobFits(k, t, c)
             => JobFits(k, t, c)'
      /\ (stop.used = 0 => NoStep(s)') => Closures'
  BY <1>3, <1>4, <1>5, OverFits
<1>7. NoStep(s)'
  <2>1. tx[s].next # "asked"
    <3>1. SendFits(s) /\ tx[s].loop # "invoke"
      BY StreamingFits
    <3> QED
      BY <3>1 DEF SendFits
  <2> QED
    BY <1>5, <2>1, NotAsked
<1>8. Jobs'
  <2>1. \A k \in JobKinds : \A c : k \in {"schedule", "start", "cancel"} /\ k # kind =>
                               ~JobFits(k, s, c)
    BY DEF JobFits
  <2>2. \A k \in JobKinds, t \in Sends : \A c :
          (k # kind \/ t # s) /\ JobFits(k, t, c) => JobFits(k, t, c)'
    BY <1>6, <2>1
  <2> QED
    BY <1>5, <2>2
<1>9. Types'
  <2>1. /\ rec' \in [Sends -> RecType]
        /\ active' \in Sends \cup {None} /\ stop' \in StopType
    BY <1>2
  <2> QED
    BY <1>3, <1>5, <1>6, <2>1 DEF Types
<1> QED
  BY <1>6, <1>7, <1>8, <1>9 DEF IInv

\* The jobs of a queue whose first has made another.
LEMMA JobsReplaced ==
  ASSUME IInv, NEW kind \in JobKinds, NEW next \in JobKinds, NEW s \in Sends,
         NEW b \in Batches, RunsThen(kind, s, next, b), next # kind, next # "next"
  PROVE  /\ queue' \in Seq(JobType)
         /\ JobFits(kind, s, Head(queue).batch) /\ Head(queue).batch \in Batches
         /\ \A t \in Sends : NoStep(t) => NoStep(t)'
         /\ (/\ \A c : ~JobFits(next, s, c)
             /\ \A k \in JobKinds, t \in Sends : \A c :
                  (k # kind \/ t # s) /\ JobFits(k, t, c) => JobFits(k, t, c)'
             /\ JobFits(next, s, b)') => Jobs'
<1> DEFINE n == Len(queue)
<1>0. queue \in Seq(JobType) /\ Jobs
  BY Typed DEF IInv
<1>1. /\ queue' \in Seq(JobType) /\ Len(queue') = n /\ n \in Nat /\ n >= 1
      /\ Head(queue) = queue[1] /\ queue[1].kind = kind /\ queue[1].of = s
      /\ \A i \in 1 .. n - 1 : queue'[i] = queue[i + 1]
      /\ queue'[n] = Job(next, s, b)
  BY <1>0, Replaced
<1>2. \A i \in 1 .. n : queue[i].kind \in JobKinds /\ queue[i].of \in Sends
                        /\ queue[i].batch \in Batches
  BY <1>0, JobTypes
<1>3. queue'[n].kind = next /\ queue'[n].of = s /\ queue'[n].batch = b
  BY <1>1 DEF Job
<1> HIDE DEF n
<1>4. /\ \A i \in 1 .. n - 1 : i + 1 \in 1 .. n /\ i + 1 # 1
      /\ 1 \in 1 .. n
      /\ \A i \in 1 .. n : i \in 1 .. n - 1 \/ i = n
  BY <1>1
<1>5. \A i \in 1 .. n - 1 : queue[i + 1].kind # kind \/ queue[i + 1].of # s
  BY <1>0, <1>1, <1>4 DEF Jobs, OneJob, n
<1>6. ASSUME \A c : ~JobFits(next, s, c),
             \A k \in JobKinds, t \in Sends : \A c :
               (k # kind \/ t # s) /\ JobFits(k, t, c) => JobFits(k, t, c)',
             JobFits(next, s, b)'
      PROVE  Jobs'
  <2>1. \A i \in 1 .. n : ~(queue[i].kind = next /\ queue[i].of = s)
    BY <1>0, <1>2, <1>6 DEF Jobs, JobsFit, n
  <2>2. OneJob'
    <3>1. ASSUME NEW i \in 1 .. n, NEW j \in 1 .. n, queue'[i].kind = queue'[j].kind,
                 queue'[i].of = queue'[j].of
          PROVE  i = j
      <4>1. CASE i = n /\ j = n
        BY <4>1
      <4>2. CASE i = n /\ j \in 1 .. n - 1
        BY <1>1, <1>3, <1>4, <2>1, <3>1, <4>2
      <4>3. CASE j = n /\ i \in 1 .. n - 1
        BY <1>1, <1>3, <1>4, <2>1, <3>1, <4>3
      <4>4. CASE i \in 1 .. n - 1 /\ j \in 1 .. n - 1
        <5>1. i + 1 = j + 1
          BY <1>0, <1>1, <1>4, <3>1, <4>4 DEF Jobs, OneJob, n
        <5> QED
          BY <1>1, <4>4, <5>1
      <4> QED
        BY <1>4, <4>1, <4>2, <4>3, <4>4
    <3> QED
      BY <1>1, <3>1 DEF OneJob, n
  <2>3. JobsFit'
    <3>1. ASSUME NEW i \in 1 .. n
          PROVE  JobFits(queue[i].kind, queue[i].of, queue[i].batch)'
      <4>1. CASE i = n
        BY <1>3, <1>6, <4>1
      <4>2. CASE i \in 1 .. n - 1
        <5>1. /\ i + 1 \in 1 .. n /\ queue'[i] = queue[i + 1]
              /\ queue[i + 1].kind # kind \/ queue[i + 1].of # s
              /\ queue[i + 1].kind \in JobKinds /\ queue[i + 1].of \in Sends
          BY <1>1, <1>2, <1>4, <1>5, <4>2
        <5>2. JobFits(queue[i + 1].kind, queue[i + 1].of, queue[i + 1].batch)
          BY <1>0, <5>1 DEF Jobs, JobsFit, n
        <5> QED
          BY <1>6, <5>1, <5>2
      <4> QED
        BY <1>4, <4>1, <4>2
    <3> QED
      BY <1>1, <3>1 DEF JobsFit, n
  <2> QED
    BY <2>2, <2>3 DEF Jobs
<1>7. ASSUME NEW t \in Sends, NoStep(t) PROVE NoStep(t)'
  <2>1. ASSUME NEW i \in 1 .. n, queue'[i].kind = "next", queue'[i].of = t PROVE FALSE
    <3>1. i \in 1 .. n - 1 /\ i + 1 \in 1 .. n /\ i + 1 \in Nat
      BY <1>1, <1>3, <1>4, <2>1
    <3> QED
      BY <1>1, <1>7, <2>1, <3>1 DEF NoStep, InQueue, n
  <2> QED
    BY <1>1, <2>1 DEF NoStep, InQueue, n
<1>8. JobFits(kind, s, queue[1].batch) /\ queue[1].batch \in Batches
  BY <1>0, <1>1, <1>2, <1>4 DEF Jobs, JobsFit, n
<1> QED
  BY <1>1, <1>6, <1>7, <1>8

\* A send goes on in its retry loop.
LEMMA LoopGoesOn ==
  ASSUME IInv, NEW s \in Sends, Streaming(s), tx[s].loop # "invoke", NEW r \in TxType,
         tx' = [tx EXCEPT ![s] = r],
         r.at = tx[s].at, r.on = tx[s].on, r.handle = tx[s].handle,
         r.aborted = tx[s].aborted, r.exposed = tx[s].exposed, r.step = tx[s].step,
         r.said = tx[s].said, r.next = tx[s].next,
         UNCHANGED <<rec, gate, active, stop>>,
         env.faults = 0 \/ env'.faults # 0, env'.faults \in Nat,
         \A t \in Sends : NoStep(t) => NoStep(t)'
  PROVE  /\ tx' \in [Sends -> TxType] /\ tx'[s] = r
         /\ \A t \in Sends : t # s => tx'[t] = tx[t]
         /\ \A t \in Sends : tx'[t].handle = tx[t].handle /\ Closed(t)
         /\ Flow' /\ Closures'
         /\ \A k \in JobKinds, t \in Sends : \A c :
              (t # s \/ k \notin {"schedule", "start", "cancel"}) /\ JobFits(k, t, c)
                => JobFits(k, t, c)'
<1>1. Types /\ env.faults \in Nat
  BY DEF IInv, Types
<1>2. /\ tx' \in [Sends -> TxType] /\ tx'[s] = r
      /\ \A t \in Sends : t # s => tx'[t] = tx[t]
  BY <1>1, OneSend
<1>3. /\ SendFits(s) /\ Keeps(s) /\ ChunksFit(s) /\ GateFits(s) /\ tx[s].at = "streaming"
      /\ tx[s].handle # None
  BY StreamingFits
<1>4. ~r.exposed /\ r.next = "none"
  <2>1. ~tx[s].exposed /\ ~(tx[s].next # "none")
    BY <1>3 DEF SendFits
  <2> QED
    BY <2>1
<1>5. \A t \in Sends : t # s => Still(t)
  BY <1>2 DEF Still, SameGate
<1>6. SendFits(s)'
  BY <1>2, <1>3, <1>4 DEF SendFits, Streaming
<1>7. Keeps(s)' /\ ChunksFit(s)'
  BY <1>2, <1>3, RecorderStays
<1>8. GateFits(s)'
  BY <1>2, <1>3 DEF GateFits, Registered
<1>9. Flow'
  BY <1>1, <1>2, <1>5, <1>6, <1>7, <1>8, FlowStays DEF IInv
<1>10. \A t \in Sends : /\ tx'[t].handle = tx[t].handle /\ tx'[t].aborted = tx[t].aborted
                        /\ tx'[t].at = tx[t].at /\ tx'[t].next = tx[t].next
  BY <1>2
<1>11. Closures'
  BY <1>1, <1>10, ClosuresStay DEF IInv
<1>12. ASSUME NEW k \in JobKinds, NEW t \in Sends, NEW c,
              t # s \/ k \notin {"schedule", "start", "cancel"}, JobFits(k, t, c)
       PROVE  JobFits(k, t, c)'
  <2>1. CASE t # s
    BY <1>5, <1>12, <2>1, StillFits
  <2>2. CASE t = s
    BY <1>2, <1>12, <2>2 DEF JobFits, Streaming
  <2> QED
    BY <2>1, <2>2
<1>13. \A t \in Sends : Closed(t)
  BY DEF Closed
<1> QED
  BY <1>2, <1>9, <1>10, <1>11, <1>12, <1>13

\* What the jobs of the retry loop append leaves turns and steps alone.
LEMMA LoopBatch ==
  ASSUME IInv, NEW h \in HandleType, NEW n \in Nat, NEW b,
         b \in {ScheduleBatch(h, n), StartBatch(h, n), <<Cancels(RetryOf(h, n))>>},
         AppendBatch(v, b).ok
  PROVE  /\ Plain(AppendBatch(v, b).v)
         /\ Only(v, AppendBatch(v, b).v, {"requests", "retries", "pendingRetries"})
         /\ EndsIn(b) = {}
<1>1. Plain(v)
  BY DEF IInv, Past, HistoryFits
<1>2. CASE b = ScheduleBatch(h, n)
  <2>1. /\ Plain(AppendBatch(v, b).v)
        /\ Only(v, AppendBatch(v, b).v, {"retries", "pendingRetries"})
        /\ EndsIn(b) = {}
    BY <1>1, <1>2, RetryRecorded
  <2> QED
    BY <2>1 DEF Only
<1>3. CASE b = StartBatch(h, n)
  BY <1>1, <1>3, RetryBegun DEF Only
<1>4. CASE b = <<Cancels(RetryOf(h, n))>>
  BY <1>1, <1>4, RetryGivenUp DEF Only
<1> QED
  BY <1>2, <1>3, <1>4

\* An append of the retry loop that throws, while no retry is pending.
LEMMA BrokenPast ==
  ASSUME IInv, NEW h \in HandleType, NEW n \in Nat, NEW b,
         b \in {ScheduleBatch(h, n), StartBatch(h, n), <<Cancels(RetryOf(h, n))>>},
         Throws(b), \A t \in Sends : Alike(t), env'.faults = 0 => v.pendingRetries = {}
  PROVE  Past'
<1>1. (AppendBatch(v, b).ok /\ Stores(b)) \/ UNCHANGED <<v, closed>>
  BY AppendEnds
<1>2. HistoryFits'
  <2>1. CASE UNCHANGED <<v, closed>>
    BY <2>1, HistoryStays DEF IInv, Past, HistoryFits, Alike
  <2>2. CASE AppendBatch(v, b).ok /\ Stores(b)
    <3>1. /\ Plain(v') /\ Only(v, v', {"requests", "retries", "pendingRetries"})
          /\ UNCHANGED closed
      BY <2>2, LoopBatch DEF Stores
    <3> QED
      BY <3>1, RetryHistory DEF Alike
  <2> QED
    BY <1>1, <2>1, <2>2
<1>3. ASSUME env'.faults = 0
      PROVE  /\ \A t \in Sends : KnowsStep(t)'
             /\ v'.pendingRetries = {}
  <2>1. UNCHANGED <<v, closed>> /\ env.faults = 0
    BY <1>3, Refused
  <2>2. \A t \in Sends : KnowsStep(t)'
    BY <2>1, Handles, StepsKnown DEF IInv, Past
  <2> QED
    BY <1>3, <2>1, <2>2
<1> QED
  BY <1>2, <1>3 DEF Past, Undisturbed

\* A job of the retry loop throws.
LEMMA LoopBroken ==
  ASSUME IInv, NEW s \in Sends, NEW kind,
         <<kind, tx[s].loop>> \in {<<"schedule", "scheduling">>, <<"start", "starting">>,
                                   <<"cancel", "cancelling">>},
         Streaming(s), Runs(kind, s), NEW h \in HandleType, NEW n \in Nat, NEW b,
         b \in {ScheduleBatch(h, n), StartBatch(h, n), <<Cancels(RetryOf(h, n))>>},
         Throws(b), LoopBreaks(s), env'.faults = 0 => v.pendingRetries = {},
         UNCHANGED <<rec, active, stop>>
  PROVE  IInv'
<1>1. Over(s, FailedAt(1)) /\ FailedAt(1) \in Ends /\ FailedAt(1) # Completed
  BY EndTypes DEF LoopBreaks
<1>2. tx[s].loop # "waiting"
  OBVIOUS
<1>3. \A t \in Sends : Alike(t)
  BY <1>1, <1>2, OverFits DEF Alike, Closed
<1>4. Past'
  BY <1>3, BrokenPast
<1> QED
  BY <1>1, <1>4, LoopJob

\* A retry is recorded, and its backoff begins or is cancelled.
LEMMA SchedulePast ==
  ASSUME IInv, NEW s \in Sends, Streaming(s), tx[s].loop = "scheduling",
         NEW b, b = ScheduleBatch(tx[s].handle, tx[s].try), Takes(b),
         NEW r \in TxType, tx' = [tx EXCEPT ![s] = r], tx'[s] = r,
         \A t \in Sends : t # s => tx'[t] = tx[t],
         r.at = tx[s].at, r.handle = tx[s].handle, r.exposed = tx[s].exposed,
         r.try = tx[s].try, r.loop \in {"waiting", "cancelling"},
         \A t \in Sends : tx'[t].handle = tx[t].handle /\ Closed(t)
  PROVE  Past'
<1>1. PICK h, n, p : h = tx[s].handle /\ n = tx[s].try /\ p = RetryOf(tx[s].handle, tx[s].try)
  OBVIOUS
<1>2. h \in HandleType /\ n \in Nat /\ tx[s].at = "streaming"
  <2>1. tx[s] \in TxType /\ tx[s].handle \in HandleType /\ tx[s].at = "streaming"
    BY StreamingFits
  <2> QED
    BY <1>1, <2>1 DEF TxType
<1>3. AppendBatch(v, b).ok /\ Stores(b) /\ UNCHANGED env
  BY AppendEnds
<1>4. /\ Plain(v') /\ Only(v, v', {"retries", "pendingRetries"})
      /\ v'.pendingRetries = v.pendingRetries \cup {p}
      /\ DOMAIN v'.retries = DOMAIN v.retries \cup {p}
      /\ v'.retries[p] = [requestId |-> h, nextAttempt |-> n + 1, state |-> "scheduled"]
      /\ closed' = closed
  BY <1>1, <1>3, RetryRecorded DEF IInv, Past, HistoryFits, Stores
<1>5. HistoryFits'
  <2>1. Only(v, v', {"requests", "retries", "pendingRetries"})
    BY <1>4 DEF Only
  <2> QED
    BY <1>4, <2>1, RetryHistory
<1>6. ASSUME env'.faults = 0
      PROVE  /\ \A t \in Sends : KnowsStep(t)'
             /\ \A q \in v'.pendingRetries : RetryWaits(q)'
  <2>1. env.faults = 0
    BY <1>3, <1>6
  <2>2. v.pendingRetries = {}
    BY <2>1, PendingIsMine
  <2>3. RetryWaits(p)'
    <3>1. /\ Streaming(s)' /\ tx'[s].loop \in {"waiting", "starting", "cancelling"}
          /\ tx'[s].handle = h /\ tx'[s].try = n
      BY <1>1, <1>2 DEF Streaming
    <3>2. p = RetryOf(tx'[s].handle, tx'[s].try)
      BY <1>1, <3>1
    <3> QED
      BY <1>4, <3>1, <3>2 DEF RetryWaits
  <2>4. \A t \in Sends : Alike(t)
    <3>1. \A t \in Sends : tx'[t].exposed = tx[t].exposed /\ tx'[t].try = tx[t].try
      OBVIOUS
    <3> QED
      BY <3>1 DEF Alike
  <2>5. v'.requests = v.requests /\ v'.openTurn = v.openTurn /\ v'.openStep = v.openStep
    BY <1>4 DEF Only, Fields
  <2>6. \A t \in Sends : KnowsStep(t)'
    BY <2>1, <2>4, <2>5, Handles, StepsKnown DEF IInv, Past
  <2> QED
    BY <1>4, <2>2, <2>3, <2>6
<1> QED
  BY <1>5, <1>6 DEF Past, Undisturbed

\* history.append of a retry, as a job.
LEMMA ScheduleRunsStep ==
  ASSUME IInv, NEW s \in Sends, ScheduleRuns(s)
  PROVE  IInv'
<1>0. PICK b : b = Head(queue).batch
  OBVIOUS
<1>1. PICK h, n, p : h = tx[s].handle /\ n = tx[s].try /\ p = RetryOf(tx[s].handle, tx[s].try)
  OBVIOUS
<1>2. UNCHANGED <<rec, active, stop>> /\ Types
  BY DEF ScheduleRuns, IInv
<1>3. /\ rec' \in [Sends -> RecType] /\ (gate' = gate => gate' \in [Sends -> GateType])
      /\ active' \in Sends \cup {None} /\ stop' \in StopType
  BY <1>2, Typed
<1>4. "schedule" \in JobKinds /\ "cancel" \in JobKinds /\ "cancel" # "next"
  BY DEF JobKinds
<1>5. ASSUME JobFits("schedule", s, b)
      PROVE  /\ Streaming(s) /\ tx[s].loop = "scheduling" /\ b = ScheduleBatch(h, n)
             /\ h \in HandleType /\ n \in Nat /\ tx[s] \in TxType
  <2>1. Streaming(s) /\ tx[s].loop = "scheduling" /\ b = ScheduleBatch(h, n)
    BY <1>1, <1>5 DEF JobFits
  <2>2. tx[s] \in TxType /\ tx[s].handle \in HandleType
    BY <2>1, StreamingFits
  <2> QED
    BY <1>1, <2>1, <2>2 DEF TxType
<1>6. ASSUME NEW l \in {"waiting", "cancelling"}, JobFits("schedule", s, b),
             tx' = [tx EXCEPT ![s].loop = l], UNCHANGED gate, Takes(b),
             queue' \in Seq(JobType), \A t \in Sends : NoStep(t) => NoStep(t)',
             (/\ \A k \in JobKinds, t \in Sends : \A c :
                   (k # "schedule" \/ t # s) /\ JobFits(k, t, c) => JobFits(k, t, c)'
              /\ l = "cancelling" => JobFits("cancel", s, <<Cancels(p)>>)') => Jobs'
      PROVE  IInv'
  <2>1. PICK r : r = [tx[s] EXCEPT !.loop = l]
    OBVIOUS
  <2>2. Streaming(s) /\ tx[s].loop = "scheduling" /\ tx[s].loop # "invoke" /\ tx[s] \in TxType
        /\ b = ScheduleBatch(h, n)
    BY <1>5, <1>6
  <2>3. /\ r \in TxType /\ r.at = tx[s].at /\ r.on = tx[s].on /\ r.handle = tx[s].handle
        /\ r.aborted = tx[s].aborted /\ r.exposed = tx[s].exposed /\ r.step = tx[s].step
        /\ r.said = tx[s].said /\ r.next = tx[s].next /\ r.try = tx[s].try /\ r.loop = l
    BY <2>1, <2>2 DEF TxType
  <2>4. tx' = [tx EXCEPT ![s] = r] /\ UNCHANGED <<rec, gate, active, stop>>
    BY <1>2, <1>6, <2>1
  <2>5. /\ env' \in [bounds : Settings, faults : Nat]
        /\ env'.faults \in Nat /\ (env.faults = 0 \/ env'.faults # 0)
    BY <1>6, AppendEnds
  <2>6. /\ tx' \in [Sends -> TxType] /\ tx'[s] = r
        /\ \A t \in Sends : t # s => tx'[t] = tx[t]
        /\ \A t \in Sends : tx'[t].handle = tx[t].handle /\ Closed(t)
        /\ Flow' /\ Closures'
        /\ \A k \in JobKinds, t \in Sends : \A c :
             (t # s \/ k \notin {"schedule", "start", "cancel"}) /\ JobFits(k, t, c)
               => JobFits(k, t, c)'
    BY <1>6, <2>2, <2>3, <2>4, <2>5, LoopGoesOn
  <2>7. Past'
    BY <1>1, <1>6, <2>2, <2>3, <2>4, <2>6, SchedulePast
  <2>8. Jobs'
    <3>1. \A c : ~JobFits("start", s, c) /\ ~JobFits("cancel", s, c)
      BY <2>2 DEF JobFits
    <3>2. \A k \in JobKinds, t \in Sends : \A c :
            (k # "schedule" \/ t # s) /\ JobFits(k, t, c) => JobFits(k, t, c)'
      BY <2>6, <3>1
    <3>3. l = "cancelling" => JobFits("cancel", s, <<Cancels(p)>>)'
      BY <1>1, <2>2, <2>3, <2>6 DEF JobFits, Streaming
    <3> QED
      BY <1>6, <3>2, <3>3
  <2>9. Types'
    BY <1>3, <1>6, <2>5, <2>6 DEF Types
  <2> QED
    BY <2>6, <2>7, <2>8, <2>9 DEF IInv
<1>7. CASE /\ ~tx[s].aborted
           /\ Runs("schedule", s) /\ Takes(b)
           /\ tx' = [tx EXCEPT ![s].loop = "waiting"] /\ UNCHANGED gate
  <2>1. /\ JobFits("schedule", s, b) /\ queue' \in Seq(JobType)
        /\ (\A t \in Sends : NoStep(t) => NoStep(t)')
        /\ (\A k \in JobKinds, t \in Sends : \A c :
              (k # "schedule" \/ t # s) /\ JobFits(k, t, c) => JobFits(k, t, c)') => Jobs'
    BY <1>0, <1>4, <1>7, JobRuns
  <2> QED
    BY <1>6, <1>7, <2>1
<1>8. CASE /\ tx[s].aborted
           /\ RunsThen("schedule", s, "cancel", <<Cancels(p)>>) /\ Takes(b)
           /\ tx' = [tx EXCEPT ![s].loop = "cancelling"] /\ UNCHANGED gate
  <2>1. <<Cancels(p)>> \in Batches
    <3>1. queue \in Seq(JobType) /\ queue # <<>> /\ Head(queue).kind = "schedule"
          /\ Head(queue).of = s
      BY <1>2, <1>8, Typed DEF RunsThen
    <3>2. Len(queue) \in Nat /\ 1 \in 1 .. Len(queue) /\ Head(queue) = queue[1]
      BY <3>1
    <3>3. JobFits("schedule", s, b)
      BY <1>0, <3>1, <3>2 DEF IInv, Jobs, JobsFit
    <3> QED
      BY <1>1, <1>5, <3>3, BatchTypes
  <2>2. /\ JobFits("schedule", s, b) /\ queue' \in Seq(JobType)
        /\ (\A t \in Sends : NoStep(t) => NoStep(t)')
        /\ (/\ \A c : ~JobFits("cancel", s, c)
            /\ \A k \in JobKinds, t \in Sends : \A c :
                 (k # "schedule" \/ t # s) /\ JobFits(k, t, c) => JobFits(k, t, c)'
            /\ JobFits("cancel", s, <<Cancels(p)>>)') => Jobs'
    BY <1>0, <1>4, <1>8, <2>1, JobsReplaced
  <2>3. \A c : ~JobFits("cancel", s, c)
    BY <1>5, <2>2 DEF JobFits
  <2> QED
    BY <1>6, <1>8, <2>2, <2>3
<1>9. CASE Runs("schedule", s) /\ Throws(b) /\ LoopBreaks(s)
  <2>1. JobFits("schedule", s, b)
    BY <1>0, <1>4, <1>9, JobRuns
  <2>2. /\ Streaming(s) /\ tx[s].loop = "scheduling" /\ b = ScheduleBatch(h, n)
        /\ h \in HandleType /\ n \in Nat
    BY <1>5, <2>1
  <2>3. env'.faults = 0 => v.pendingRetries = {}
    <3>1. ASSUME env'.faults = 0 PROVE v.pendingRetries = {}
      <4>1. env.faults = 0
        BY <1>9, <3>1, Refused
      <4> QED
        BY <2>2, <4>1, PendingIsMine
    <3> QED
      BY <3>1
  <2>4. b \in {ScheduleBatch(h, n), StartBatch(h, n), <<Cancels(RetryOf(h, n))>>}
    BY <2>2
  <2>5. <<"schedule", tx[s].loop>> \in {<<"schedule", "scheduling">>, <<"start", "starting">>,
                                        <<"cancel", "cancelling">>}
    BY <2>2
  <2> QED
    BY <1>2, <1>9, <2>2, <2>3, <2>4, <2>5, LoopBroken
<1> QED
  BY <1>0, <1>1, <1>7, <1>8, <1>9 DEF ScheduleRuns

\* Sends have turns of their own.
LEMMA OwnTurns ==
  ASSUME IInv, NEW s \in Sends, NEW t \in Sends, s # t,
         tx[s].handle # None, tx[t].handle # None
  PROVE  tx[s].handle.turn # tx[t].handle.turn
<1>1. TurnFits(s) /\ TurnFits(t)
  BY DEF IInv, Past, HistoryFits
<1>2. s \in Nat /\ t \in Nat
  BY ChatAssumption DEF Sends
<1>3. tx[s].handle.turn \in Nat /\ tx[t].handle.turn \in Nat
  BY Handles DEF HandleType
<1>4. CASE s < t
  BY <1>1, <1>3, <1>4 DEF TurnFits
<1>5. CASE t < s
  BY <1>1, <1>3, <1>5 DEF TurnFits
<1> QED
  BY <1>2, <1>4, <1>5

\* A retry starts, and its attempt is recorded.
LEMMA StartPast ==
  ASSUME IInv, NEW s \in Sends, Streaming(s), tx[s].loop = "starting",
         NEW b, b = StartBatch(tx[s].handle, tx[s].try), Takes(b),
         NEW r \in TxType, tx' = [tx EXCEPT ![s] = r], tx'[s] = r,
         \A t \in Sends : t # s => tx'[t] = tx[t],
         r.handle = tx[s].handle, r.try = tx[s].try + 1,
         \A t \in Sends : tx'[t].handle = tx[t].handle /\ Closed(t)
  PROVE  Past'
<1>1. PICK h, n, p : h = tx[s].handle /\ n = tx[s].try /\ p = RetryOf(tx[s].handle, tx[s].try)
  OBVIOUS
<1>2. h \in HandleType /\ n \in Nat /\ h # None
  <2>1. tx[s] \in TxType /\ tx[s].handle \in HandleType /\ tx[s].handle # None
    BY StreamingFits
  <2> QED
    BY <1>1, <2>1 DEF TxType
<1>3. AppendBatch(v, b).ok /\ Stores(b) /\ UNCHANGED env
  BY AppendEnds
<1>4. /\ Plain(v') /\ Only(v, v', {"requests", "retries", "pendingRetries"})
      /\ v'.pendingRetries = v.pendingRetries \ {p}
      /\ DOMAIN v'.requests = DOMAIN v.requests
      /\ \A q \in DOMAIN v.requests : q # h => v'.requests[q] = v.requests[q]
      /\ v'.requests[h].turn = v.requests[h].turn
      /\ v'.requests[h].step = v.requests[h].step
      /\ v'.requests[h].lastAttempt = n + 1
      /\ closed' = closed
  BY <1>1, <1>2, <1>3, RetryBegun DEF IInv, Past, HistoryFits, Stores
<1>5. HistoryFits'
  BY <1>4, RetryHistory
<1>6. ASSUME env'.faults = 0
      PROVE  /\ \A t \in Sends : KnowsStep(t)'
             /\ v'.pendingRetries = {}
  <2>1. env.faults = 0
    BY <1>3, <1>6
  <2>2. v'.pendingRetries = {}
    BY <1>1, <1>4, <2>1, PendingIsMine
  <2>3. v'.openTurn = v.openTurn /\ v'.openStep = v.openStep
    BY <1>4 DEF Only, Fields
  <2>4. ASSUME NEW t \in Sends PROVE KnowsStep(t)'
    <3>1. KnowsStep(t)
      BY <2>1 DEF IInv, Past, Undisturbed
    <3>2. CASE t = s
      BY <1>1, <1>2, <1>4, <2>3, <3>1, <3>2 DEF KnowsStep
    <3>3. CASE t # s /\ tx[t].handle = None
      BY <3>3 DEF KnowsStep
    <3>4. CASE t # s /\ tx[t].handle # None
      <4>1. tx[t].handle # h
        BY <1>1, <1>2, <3>4, OwnTurns
      <4> QED
        BY <1>4, <2>3, <3>1, <3>4, <4>1 DEF KnowsStep
    <3> QED
      BY <3>2, <3>3, <3>4
  <2> QED
    BY <2>2, <2>4
<1> QED
  BY <1>5, <1>6 DEF Past, Undisturbed

\* A retry that is pending can be started, and can be cancelled, while no append
\* has failed.
LEMMA RetryIsTaken ==
  ASSUME IInv, NEW s \in Sends, Streaming(s), tx[s].loop \in {"starting", "cancelling"},
         env.faults = 0, v.pendingRetries # {}
  PROVE  /\ AppendBatch(v, StartBatch(tx[s].handle, tx[s].try)).ok
         /\ AppendBatch(v, <<Cancels(RetryOf(tx[s].handle, tx[s].try))>>).ok
<1>1. PICK h, n, p : h = tx[s].handle /\ n = tx[s].try /\ p = RetryOf(h, n)
  OBVIOUS
<1>2. h \in HandleType /\ n \in Nat
  <2>1. tx[s] \in TxType /\ tx[s].handle \in HandleType
    BY StreamingFits
  <2> QED
    BY <1>1, <2>1 DEF TxType
<1>3. /\ p \in DOMAIN v.retries
      /\ v.retries[p] = [requestId |-> h, nextAttempt |-> n + 1, state |-> "scheduled"]
  BY <1>1, PendingIsMine
<1>4. h \in DOMAIN v.requests /\ v.requests[h].lastAttempt = n
  BY <1>1, RequestKnown
<1>5. Plain(v)
  BY DEF IInv, Past, HistoryFits
<1>6. AppendBatch(v, StartBatch(h, n)).ok
  BY <1>1, <1>2, <1>3, <1>4, <1>5, StartAccepted
<1>7. AppendBatch(v, <<Cancels(p)>>).ok
  BY <1>3, CancelAccepted
<1> QED
  BY <1>1, <1>6, <1>7

\* The backoff is over, as a job.
LEMMA StartRunsStep ==
  ASSUME IInv, NEW s \in Sends, StartRuns(s)
  PROVE  IInv'
<1>0. PICK b : b = Head(queue).batch
  OBVIOUS
<1>1. PICK h, n : h = tx[s].handle /\ n = tx[s].try
  OBVIOUS
<1>2. /\ UNCHANGED <<rec, active, stop>> /\ Types
      /\ Runs("start", s) /\ "start" \in JobKinds
  BY DEF StartRuns, IInv, JobKinds
<1>3. /\ rec' \in [Sends -> RecType] /\ (gate' = gate => gate' \in [Sends -> GateType])
      /\ active' \in Sends \cup {None} /\ stop' \in StopType
  BY <1>2, Typed
<1>4. /\ JobFits("start", s, b) /\ queue' \in Seq(JobType)
      /\ (\A t \in Sends : NoStep(t) => NoStep(t)')
      /\ (\A k \in JobKinds, t \in Sends : \A c :
            (k # "start" \/ t # s) /\ JobFits(k, t, c) => JobFits(k, t, c)') => Jobs'
  BY <1>0, <1>2, JobRuns
<1>5. Streaming(s) /\ tx[s].loop = "starting" /\ b = StartBatch(h, n)
  BY <1>1, <1>4 DEF JobFits
<1>6. h \in HandleType /\ n \in Nat /\ tx[s] \in TxType
  <2>1. tx[s] \in TxType /\ tx[s].handle \in HandleType
    BY <1>5, StreamingFits
  <2> QED
    BY <1>1, <2>1 DEF TxType
<1>7. CASE Takes(b) /\ tx' = [tx EXCEPT ![s].loop = "invoke", ![s].try = @ + 1]
           /\ UNCHANGED gate
  <2>1. PICK r : r = [tx[s] EXCEPT !.loop = "invoke", !.try = n + 1]
    OBVIOUS
  <2>2. /\ r \in TxType /\ r.at = tx[s].at /\ r.on = tx[s].on /\ r.handle = tx[s].handle
        /\ r.aborted = tx[s].aborted /\ r.exposed = tx[s].exposed /\ r.step = tx[s].step
        /\ r.said = tx[s].said /\ r.next = tx[s].next /\ r.try = n + 1
    <3>1. n + 1 \in Nat \ {0}
      BY <1>6
    <3> HIDE DEF FailedAt
    <3> QED
      BY <1>6, <2>1, <3>1 DEF TxType
  <2>3. tx' = [tx EXCEPT ![s] = r]
    <3>1. tx \in [Sends -> TxType]
      BY <1>2, Typed
    <3>2. r = [[tx[s] EXCEPT !.loop = "invoke"] EXCEPT !.try = @ + 1]
      BY <1>1, <1>6, <2>1 DEF TxType
    <3> QED
      BY <1>1, <1>6, <1>7, <2>1, <3>1, <3>2 DEF TxType
  <2>4. /\ env' \in [bounds : Settings, faults : Nat]
        /\ env'.faults \in Nat /\ (env.faults = 0 \/ env'.faults # 0)
    BY <1>7, AppendEnds
  <2>5. /\ tx' \in [Sends -> TxType] /\ tx'[s] = r
        /\ \A t \in Sends : t # s => tx'[t] = tx[t]
        /\ \A t \in Sends : tx'[t].handle = tx[t].handle /\ Closed(t)
        /\ Flow' /\ Closures'
        /\ \A k \in JobKinds, t \in Sends : \A c :
             (t # s \/ k \notin {"schedule", "start", "cancel"}) /\ JobFits(k, t, c)
               => JobFits(k, t, c)'
    <3>1. tx[s].loop # "invoke" /\ UNCHANGED <<rec, gate, active, stop>>
      BY <1>2, <1>5, <1>7
    <3> QED
      BY <1>4, <1>5, <2>2, <2>3, <2>4, <3>1, LoopGoesOn
  <2>6. Past'
    BY <1>1, <1>5, <1>7, <2>2, <2>3, <2>5, StartPast
  <2>7. Jobs'
    <3>1. \A c : ~JobFits("schedule", s, c) /\ ~JobFits("cancel", s, c)
      BY <1>5 DEF JobFits
    <3>2. \A k \in JobKinds, t \in Sends : \A c :
            (k # "start" \/ t # s) /\ JobFits(k, t, c) => JobFits(k, t, c)'
      BY <2>5, <3>1
    <3> QED
      BY <1>4, <3>2
  <2>8. Types'
    BY <1>3, <1>4, <1>7, <2>4, <2>5 DEF Types
  <2> QED
    BY <2>5, <2>6, <2>7, <2>8 DEF IInv
<1>8. CASE Throws(b) /\ LoopBreaks(s)
  <2>1. env'.faults = 0 => v.pendingRetries = {}
    <3>1. ASSUME env'.faults = 0 PROVE v.pendingRetries = {}
      <4>1. env.faults = 0 /\ ~AppendBatch(v, b).ok
        BY <1>8, <3>1, Refused
      <4> QED
        BY <1>1, <1>5, <4>1, RetryIsTaken
    <3> QED
      BY <3>1
  <2>2. b \in {ScheduleBatch(h, n), StartBatch(h, n), <<Cancels(RetryOf(h, n))>>}
    BY <1>5
  <2>3. <<"start", tx[s].loop>> \in {<<"schedule", "scheduling">>, <<"start", "starting">>,
                                     <<"cancel", "cancelling">>}
    BY <1>5
  <2> QED
    BY <1>2, <1>5, <1>6, <1>8, <2>1, <2>2, <2>3, LoopBroken
<1> QED
  BY <1>0, <1>7, <1>8 DEF StartRuns

\* A retry is cancelled, as a job.
LEMMA CancelRunsStep ==
  ASSUME IInv, NEW s \in Sends, CancelRuns(s)
  PROVE  IInv'
<1>0. PICK b : b = Head(queue).batch
  OBVIOUS
<1>1. PICK h, n, p : h = tx[s].handle /\ n = tx[s].try /\ p = RetryOf(tx[s].handle, tx[s].try)
  OBVIOUS
<1>2. /\ UNCHANGED <<rec, active, stop>> /\ Types
      /\ Runs("cancel", s) /\ "cancel" \in JobKinds
  BY DEF CancelRuns, IInv, JobKinds
<1>3. JobFits("cancel", s, b)
  BY <1>0, <1>2, JobRuns
<1>4. Streaming(s) /\ tx[s].loop = "cancelling" /\ b = <<Cancels(p)>>
  BY <1>1, <1>3 DEF JobFits
<1>5. h \in HandleType /\ n \in Nat
  <2>1. tx[s] \in TxType /\ tx[s].handle \in HandleType
    BY <1>4, StreamingFits
  <2> QED
    BY <1>1, <2>1 DEF TxType
<1>6. <<"cancel", tx[s].loop>> \in {<<"schedule", "scheduling">>, <<"start", "starting">>,
                                    <<"cancel", "cancelling">>}
  BY <1>4
<1>7. CASE Takes(b) /\ Over(s, Ended(s))
  <2>1. Ended(s) \in Ends /\ Ended(s) # Completed /\ tx[s].loop # "waiting"
    BY <1>4, EndTypes
  <2>2. \A t \in Sends : Alike(t)
    BY <1>2, <1>4, <1>7, <2>1, OverFits DEF Alike, Closed
  <2>3. AppendBatch(v, b).ok /\ Stores(b) /\ UNCHANGED env
    BY <1>7, AppendEnds
  <2>4. /\ Plain(v') /\ Only(v, v', {"retries", "pendingRetries"})
        /\ v'.pendingRetries = v.pendingRetries \ {p} /\ closed' = closed
    BY <1>4, <2>3, RetryGivenUp DEF IInv, Past, HistoryFits, Stores
  <2>5. HistoryFits'
    <3>1. Only(v, v', {"requests", "retries", "pendingRetries"})
      BY <2>4 DEF Only
    <3> QED
      BY <2>2, <2>4, <3>1, RetryHistory DEF Alike
  <2>6. ASSUME env'.faults = 0
        PROVE  (\A t \in Sends : KnowsStep(t)') /\ v'.pendingRetries = {}
    <3>1. env.faults = 0
      BY <2>3, <2>6
    <3>2. v'.pendingRetries = {}
      BY <1>1, <1>4, <2>4, <3>1, PendingIsMine
    <3>3. v'.requests = v.requests /\ v'.openTurn = v.openTurn /\ v'.openStep = v.openStep
      BY <2>4 DEF Only, Fields
    <3> QED
      BY <2>2, <3>1, <3>2, <3>3, Handles, StepsKnown DEF IInv, Past
  <2>7. Past'
    BY <2>5, <2>6 DEF Past, Undisturbed
  <2> QED
    BY <1>2, <1>4, <1>6, <1>7, <2>1, <2>7, LoopJob
<1>8. CASE Throws(b) /\ LoopBreaks(s)
  <2>1. env'.faults = 0 => v.pendingRetries = {}
    <3>1. ASSUME env'.faults = 0 PROVE v.pendingRetries = {}
      <4>1. env.faults = 0 /\ ~AppendBatch(v, b).ok
        BY <1>8, <3>1, Refused
      <4> QED
        BY <1>1, <1>4, <4>1, RetryIsTaken
    <3> QED
      BY <3>1
  <2>2. b \in {ScheduleBatch(h, n), StartBatch(h, n), <<Cancels(RetryOf(h, n))>>}
    BY <1>1, <1>4
  <2> QED
    BY <1>2, <1>4, <1>5, <1>6, <1>8, <2>1, <2>2, LoopBroken
<1> QED
  BY <1>0, <1>4, <1>7, <1>8 DEF CancelRuns

------------------------------------------------------------------------------
(* A turn begins. *)

\* While a send has not begun, the others are over or away.
LEMMA Alone ==
  ASSUME IInv, NEW s \in Sends, tx[s].at \notin {"away", "over", "streaming"}
  PROVE  /\ Untouched(s) /\ tx[s].handle = None
         /\ \A t \in Sends : t < s => tx[t].at = "over"
         /\ \A t \in Sends : s < t => tx[t].at = "away" /\ tx[t].handle = None
         /\ \A t \in Sends : t # s => tx[t].at \in {"over", "away"}
         /\ \A t \in Sends : ~Streaming(t)
<1>1. OneAtATime /\ \A t \in Sends : SendFits(t)
  BY DEF IInv, Flow, SendsFit
<1>2. \A t \in Sends : t \in Nat /\ s \in Nat
  BY ChatAssumption DEF Sends
<1>3. Untouched(s) /\ tx[s].handle = None
  BY <1>1 DEF SendFits
<1>4. \A t \in Sends : t < s => tx[t].at = "over"
  BY <1>1, Earlier
<1>5. \A t \in Sends : s < t => tx[t].at = "away" /\ tx[t].handle = None
  BY <1>1 DEF OneAtATime, SendFits
<1>6. \A t \in Sends : t # s => t < s \/ s < t
  BY <1>2
<1>7. \A t \in Sends : t # s => tx[t].at \in {"over", "away"}
  BY <1>4, <1>5, <1>6
<1>8. \A t \in Sends : ~Streaming(t)
  BY <1>7 DEF Streaming
<1> QED
  BY <1>3, <1>4, <1>5, <1>7, <1>8

\* The history after the events of beginChatTurn, whether the send learns of them
\* or not.
LEMMA HistoryBegins ==
  ASSUME IInv, NEW s \in Sends, tx[s].at = "beginning", NEW h \in HandleType,
         NEW b, b = BeginBatch(h), AppendBatch(v, b).ok, Stores(b),
         \A t \in Sends : t # s => tx'[t] = tx[t],
         tx'[s].handle \in {None, h}, UNCHANGED gate
  PROVE  HistoryFits'
<1>1. /\ v.openTurn = None /\ h.turn > v.lastTurn /\ h.step > v.lastStep
      /\ Plain(v') /\ v'.openTurn = h.turn /\ v'.lastTurn = h.turn
      /\ v'.openStep = h.step /\ v'.lastStep = h.step /\ closed' = closed
  BY TurnBegun DEF IInv, Past, HistoryFits, Stores
<1>2. /\ v.lastTurn \in Nat /\ v.lastStep \in Nat /\ None \notin Nat
      /\ h.turn \in Nat \ {0} /\ h.step \in Nat \ {0}
  BY ChatAssumption DEF IInv, Past, HistoryFits, Plain, HandleType
<1>3. Bounded(v)'
  BY <1>1, <1>2 DEF Bounded
<1>4. EndsFit'
  <2>1. ASSUME NEW p \in closed
        PROVE  /\ p = <<p[1], p[2]>> /\ p[1] \in Nat /\ p[2] \in Nat
               /\ p[1] <= v.lastTurn /\ p[2] <= v.lastStep
    BY <2>1 DEF IInv, Past, HistoryFits, EndsFit
  <2>2. \A i, j \in Nat : i <= v.lastTurn /\ j <= v.lastStep =>
          i <= h.turn /\ j <= h.step /\ i # h.turn
    BY <1>1, <1>2
  <2> QED
    BY <1>1, <2>1, <2>2 DEF EndsFit
<1>5. Untouched(s) /\ \A t \in Sends : s < t => tx[t].handle = None
  BY Alone
<1>6. ASSUME NEW t \in Sends, t # s, tx[t].handle # None
      PROVE  /\ tx[t].handle.turn < h.turn /\ tx[t].handle.step < h.step
             /\ tx[t].handle.turn \in Nat /\ tx[t].handle.step \in Nat
             /\ <<tx[t].handle.turn, 0>> \in closed
             /\ \A u \in Sends : t < u /\ tx[u].handle # None
                  => tx[t].handle.turn < tx[u].handle.turn
  <2>1. TurnFits(t)
    BY DEF IInv, Past, HistoryFits
  <2>2. tx[t].handle.turn \in Nat /\ tx[t].handle.step \in Nat
    BY <1>6, Handles DEF HandleType
  <2>3. tx[t].handle.turn <= v.lastTurn /\ tx[t].handle.step <= v.lastStep
    BY <1>6, <2>1 DEF TurnFits
  <2>4. tx[t].handle.turn # v.openTurn
    BY <1>1, <1>2, <2>2
  <2> QED
    BY <1>1, <1>2, <1>6, <2>1, <2>2, <2>3, <2>4 DEF TurnFits
<1>7. ASSUME NEW t \in Sends PROVE TurnFits(t)'
  <2>1. CASE t = s
    <3>1. \A u \in Sends : s < u => u # s
      BY ChatAssumption DEF Sends
    <3>2. \A u \in Sends : s < u => tx'[u].handle = None
      BY <1>5, <3>1
    <3>3. CASE tx'[s].handle = None
      BY <2>1, <3>3 DEF TurnFits
    <3>4. CASE tx'[s].handle = h
      <4>1. h.turn <= v'.lastTurn /\ h.step <= v'.lastStep
        BY <1>1, <1>2
      <4> QED
        BY <1>1, <2>1, <3>2, <3>4, <4>1 DEF TurnFits
    <3> QED
      BY <3>3, <3>4
  <2>2. CASE t # s /\ tx[t].handle = None
    BY <2>2 DEF TurnFits
  <2>3. CASE t # s /\ tx[t].handle # None
    <3>1. tx'[t].handle = tx[t].handle
      BY <2>3
    <3>2. tx[t].handle.turn <= h.turn /\ tx[t].handle.step <= h.step
      <4>1. \A i, j \in Nat : i < j => i <= j
        OBVIOUS
      <4>2. /\ tx[t].handle.turn < h.turn /\ tx[t].handle.step < h.step
            /\ tx[t].handle.turn \in Nat /\ tx[t].handle.step \in Nat
        BY <1>6, <2>3
      <4>3. h.turn \in Nat /\ h.step \in Nat
        BY <1>2
      <4> QED
        BY <4>1, <4>2, <4>3
    <3>3. \A u \in Sends : t < u /\ tx'[u].handle # None
            => tx[t].handle.turn < tx'[u].handle.turn
      BY <1>6, <2>3
    <3> QED
      BY <1>1, <1>6, <2>3, <3>1, <3>2, <3>3 DEF TurnFits
  <2> QED
    BY <2>1, <2>2, <2>3
<1>8. ASSUME NEW t \in Sends PROVE ClosureFits(t)'
  <2>1. CASE t = s
    BY <1>5, <2>1 DEF Untouched, NoClosure, ClosureFits
  <2>2. CASE t # s
    BY <1>1, <2>2 DEF IInv, Past, HistoryFits, ClosureFits
  <2> QED
    BY <2>1, <2>2
<1> QED
  BY <1>1, <1>3, <1>4, <1>7, <1>8 DEF HistoryFits

\* A turn begins, and its send streams.
LEMMA BegunPast ==
  ASSUME IInv, NEW s \in Sends, tx[s].at = "beginning", NEW h \in HandleType, h # None,
         NEW b, b = BeginBatch(h), Takes(b),
         \A t \in Sends : t # s => tx'[t] = tx[t],
         tx'[s].handle = h, tx'[s].try = 1, UNCHANGED gate
  PROVE  Past'
<1>1. AppendBatch(v, b).ok /\ Stores(b) /\ UNCHANGED env
  BY AppendEnds
<1>2. HistoryFits'
  BY <1>1, HistoryBegins
<1>3. /\ h.turn > v.lastTurn /\ v'.openTurn = h.turn /\ v'.openStep = h.step
      /\ Only(v, v', {"openTurn", "lastTurn", "openStep", "lastStep", "requests"})
      /\ Asked(v, v', h)
  BY <1>1, TurnBegun DEF IInv, Past, HistoryFits, Stores
<1>4. v'.pendingRetries = v.pendingRetries
  BY <1>3 DEF Only, Fields
<1>5. ASSUME env'.faults = 0
      PROVE  (\A t \in Sends : KnowsStep(t)') /\ v'.pendingRetries = {}
  <2>1. env.faults = 0
    BY <1>1, <1>5
  <2>2. \A t \in Sends : ~Streaming(t)
    BY Alone
  <2>3. v.pendingRetries = {}
    BY <2>1, <2>2 DEF IInv, Past, Undisturbed, RetryWaits
  <2>4. ASSUME NEW t \in Sends, t # s, tx[t].handle # None PROVE KnowsStep(t)'
    <3>1. KnowsStep(t) /\ TurnFits(t)
      BY <2>1 DEF IInv, Past, HistoryFits, Undisturbed
    <3>2. tx[t].handle.turn \in Nat /\ v.lastTurn \in Nat /\ h.turn \in Nat
      BY <2>4, Handles DEF HandleType, IInv, Past, HistoryFits, Plain
    <3>3. tx[t].handle.turn <= v.lastTurn
      BY <2>4, <3>1 DEF TurnFits
    <3>4. tx[t].handle.turn # h.turn
      BY <1>3, <3>2, <3>3
    <3>5. tx[t].handle \in DOMAIN v'.requests
          /\ v'.requests[tx[t].handle] = v.requests[tx[t].handle]
      BY <1>3, <2>4, <3>1 DEF KnowsStep, Asked
    <3> QED
      BY <1>3, <2>4, <3>1, <3>4, <3>5 DEF KnowsStep
  <2>5. KnowsStep(s)'
    BY <1>3 DEF KnowsStep, Asked
  <2>6. \A t \in Sends : t # s /\ tx[t].handle = None => KnowsStep(t)'
    BY DEF KnowsStep
  <2> QED
    BY <1>4, <2>3, <2>4, <2>5, <2>6
<1> QED
  BY <1>2, <1>5 DEF Past, Undisturbed

\* The handle a turn begins with.
LEMMA FirstIsHandle ==
  ASSUME IInv
  PROVE  FirstHandle \in HandleType /\ FirstHandle # None
<1>1. v.lastTurn \in Nat /\ v.lastStep \in Nat
  BY DEF IInv, Past, HistoryFits, Plain
<1>2. v.lastTurn + 1 \in Nat \ {0} /\ v.lastStep + 1 \in Nat \ {0}
  BY <1>1
<1>3. FirstHandle \in HandleType
  BY <1>2 DEF FirstHandle, HandleType
<1>4. FirstHandle \in [turn : Nat, step : Nat]
  BY <1>2 DEF FirstHandle
<1> QED
  BY <1>3, <1>4, ChatAssumption

\* open() registers the closure of the send that streams.
LEMMA OpensFlow ==
  ASSUME IInv, NEW s \in Sends, tx[s].at = "beginning", active = None,
         NEW h \in HandleType, h # None,
         NEW r, r = [tx[s] EXCEPT !.at = "streaming", !.handle = h],
         tx' = [tx EXCEPT ![s] = r], active' = s, UNCHANGED <<rec, gate>>
  PROVE  /\ tx' \in [Sends -> TxType]
         /\ \A t \in Sends : t # s => tx'[t] = tx[t]
         /\ tx'[s].handle = h /\ tx'[s].try = 1 /\ tx'[s].aborted = tx[s].aborted
         /\ Flow'
<1>1. Types /\ tx[s] \in TxType /\ gate[s] = NoClosure /\ rec[s] = NoRecorder
      /\ tx[s] = [NoSend EXCEPT !.at = tx[s].at, !.on = tx[s].on, !.aborted = tx[s].aborted]
  BY Alone, Typed DEF IInv, Untouched
<1>2. r \in TxType
  BY <1>1 DEF TxType
<1>3. /\ tx' \in [Sends -> TxType] /\ tx'[s] = r /\ \A t \in Sends : t # s => tx'[t] = tx[t]
  BY <1>1, <1>2, OneSend
<1>4. /\ r.at = "streaming" /\ r.handle = h /\ r.try = 1 /\ r.aborted = tx[s].aborted
      /\ ~r.exposed /\ r.loop = "invoke" /\ r.step = 1 /\ r.next = "none"
  BY <1>1 DEF NoSend
<1>5. SendFits(s)'
  BY <1>3, <1>4 DEF SendFits, Streaming
<1>6. (Keeps(s) /\ ChunksFit(s))'
  <2>1. /\ rec'[s].parts = <<>> /\ rec'[s].batch = <<>> /\ rec'[s].lane = <<>>
        /\ rec'[s].persisted = 0
    BY <1>1 DEF NoRecorder
  <2>2. tx'[s].step = 1 /\ tx'[s].next = "none"
    BY <1>3, <1>4
  <2>3. \A i : ~FinishedAt(s, i)' /\ ~PersistsAt(s, i)'
    BY <2>1 DEF FinishedAt, PersistsAt
  <2>4. Keeps(s)'
    BY <2>1, <2>2, <2>3 DEF Keeps
  <2>5. ChunksFit(s)'
    BY <2>1 DEF ChunksFit
  <2> QED
    BY <2>4, <2>5
<1>7. \A t \in Sends : t # s => Still(t)
  BY <1>3 DEF Still, SameGate
<1>8. OneAtATime'
  <2>1. ASSUME NEW t \in Sends, NEW u \in Sends, t < u, tx'[u].at # "away"
        PROVE  tx'[t].at = "over"
    <3>1. tx[u].at # "away"
      BY <1>3, <2>1
    <3>2. tx[t].at = "over"
      BY <2>1, <3>1 DEF IInv, Flow, OneAtATime
    <3> QED
      BY <1>3, <3>2
  <2> QED
    BY <2>1 DEF OneAtATime
<1>9. SendsFit'
  BY <1>5, <1>7, StillFits DEF IInv, Flow, SendsFit
<1>10. RecordersFit'
  BY <1>6, <1>7, StillFits DEF IInv, Flow, RecordersFit
<1>11. GatesFit'
  <2>1. GateFits(s)'
    BY <1>1, <1>3, <1>4 DEF GateFits, Registered, NoClosure
  <2>2. ASSUME NEW t \in Sends, t # s PROVE GateFits(t)'
    <3>1. GateFits(t) /\ tx[t].at \in {"over", "away"}
      BY <2>2, Alone DEF IInv, Flow, GatesFit
    <3>2. None # t
      BY ChatAssumption DEF Sends
    <3> QED
      BY <1>3, <2>2, <3>1, <3>2 DEF GateFits, Registered
  <2> QED
    BY <2>1, <2>2 DEF GatesFit
<1> QED
  BY <1>3, <1>4, <1>8, <1>9, <1>10, <1>11 DEF Flow

\* An append that throws was not stored, or its failure counts.
LEMMA ThrownFaults ==
  ASSUME IInv, NEW b, Throws(b)
  PROVE  (AppendBatch(v, b).ok /\ Stores(b) /\ env'.faults # 0) \/ UNCHANGED <<v, closed>>
<1>1. ASSUME env' = [env EXCEPT !.faults = @ + 1] PROVE env'.faults # 0
  <2>1. env \in [bounds : Settings, faults : Nat]
    BY Typed DEF IInv
  <2>2. env'.faults = env.faults + 1 /\ env.faults \in Nat
    BY <1>1, <2>1
  <2> QED
    BY <2>2
<1> QED
  BY <1>1 DEF Throws

\* A send that waits for its turn to begin has no other job.
LEMMA OnlyItsJob ==
  ASSUME IInv, NEW s \in Sends, tx[s].at = "beginning"
  PROVE  \A k \in JobKinds : \A b : JobFits(k, s, b) => k = "begin"
<1>1. Untouched(s)
  BY Alone
<1>2. /\ tx[s].next = "none" /\ ~rec[s].busy /\ gate[s].closing = "none"
      /\ gate[s].recovery = "none"
  <2>1. tx[s].next = "none"
    BY <1>1 DEF Untouched, NoSend
  <2>2. ~rec[s].busy
    BY <1>1 DEF Untouched, NoRecorder
  <2>3. gate[s].closing = "none" /\ gate[s].recovery = "none"
    BY <1>1 DEF Untouched, NoClosure
  <2> QED
    BY <2>1, <2>2, <2>3
<1> QED
  BY <1>2 DEF JobFits, JobKinds, Streaming

\* beginOwnedChatRequest, as a job.
LEMMA BeginRunsStep ==
  ASSUME IInv, NEW s \in Sends, BeginRuns(s)
  PROVE  IInv'
<1>1. Runs("begin", s) /\ "begin" \in JobKinds /\ UNCHANGED <<rec, gate, stop>>
  BY DEF BeginRuns, JobKinds
<1>2. /\ JobFits("begin", s, Head(queue).batch) /\ queue' \in Seq(JobType)
      /\ (\A t \in Sends : NoStep(t) => NoStep(t)')
      /\ (\A k \in JobKinds, t \in Sends : \A c :
            (k # "begin" \/ t # s) /\ JobFits(k, t, c) => JobFits(k, t, c)') => Jobs'
  BY <1>1, JobRuns
<1>3. tx[s].at = "beginning"
  BY <1>2 DEF JobFits
<1>4. /\ tx \in [Sends -> TxType] /\ rec' \in [Sends -> RecType] /\ gate' \in [Sends -> GateType]
      /\ active \in Sends \cup {None} /\ stop' \in StopType /\ tx[s] \in TxType
  BY <1>1, Typed DEF IInv
<1>5. active = None
  BY <1>3, WaitingFits
<1>6. PICK h : h = FirstHandle
  OBVIOUS
<1>7. PICK b : b = BeginBatch(h)
  OBVIOUS
<1>8. h \in HandleType /\ h # None
  BY <1>6, FirstIsHandle
<1>9. Untouched(s) /\ gate[s].handle = None /\ gate[s].closing = "none"
      /\ \A t \in Sends : t < s => tx[t].at = "over"
  <2>1. Untouched(s) /\ \A t \in Sends : t < s => tx[t].at = "over"
    BY <1>3, Alone
  <2>2. gate[s].handle = None /\ gate[s].closing = "none"
    BY <2>1 DEF Untouched, NoClosure
  <2> QED
    BY <2>1, <2>2
<1>10. CASE Takes(b) /\ active' = s
            /\ tx' = [tx EXCEPT ![s].at = "streaming", ![s].handle = h]
  <2>1. PICK r : r = [tx[s] EXCEPT !.at = "streaming", !.handle = h]
    OBVIOUS
  <2>2. tx' = [tx EXCEPT ![s] = r]
    BY <1>4, <1>10, <2>1 DEF TxType
  <2>3. /\ tx' \in [Sends -> TxType]
        /\ \A t \in Sends : t # s => tx'[t] = tx[t]
        /\ tx'[s].handle = h /\ tx'[s].try = 1 /\ tx'[s].aborted = tx[s].aborted
        /\ Flow'
    BY <1>1, <1>3, <1>5, <1>8, <1>10, <2>1, <2>2, OpensFlow
  <2>4. Past'
    BY <1>1, <1>3, <1>7, <1>8, <1>10, <2>3, BegunPast
  <2>5. /\ env' \in [bounds : Settings, faults : Nat]
        /\ env.faults \in Nat /\ env'.faults \in Nat /\ (env.faults = 0 \/ env'.faults # 0)
    BY <1>10, AppendEnds
  <2>6. Jobs'
    <3>1. \A k \in JobKinds, t \in Sends : \A c :
            (k # "begin" \/ t # s) /\ JobFits(k, t, c) => JobFits(k, t, c)'
      BY <1>1, <1>3, <2>3, OnlyItsJob, OtherJobs
    <3> QED
      BY <1>2, <3>1
  <2>7. Closures'
    <3>1. tx[s].next = "none"
      BY <1>9 DEF Untouched, NoSend
    <3>2. \A t \in Sends :
           /\ gate'[t] = gate[t]
           /\ tx'[t].aborted = tx[t].aborted
           /\ \/ tx'[t].handle = tx[t].handle
              \/ tx[t].next # "end" /\ gate[t].handle = None
           /\ tx[t].at = "over" => tx'[t] = tx[t]
      BY <1>1, <1>3, <1>9, <2>3, <3>1
    <3>3. stop'.used = stop.used
      BY <1>1
    <3> QED
      BY <1>2, <2>5, <3>2, <3>3, ClosuresStay DEF IInv
  <2>8. Types'
    BY <1>2, <1>4, <1>10, <2>3, <2>5 DEF Types
  <2> QED
    BY <2>3, <2>4, <2>6, <2>7, <2>8 DEF IInv
<1>11. CASE Throws(b) /\ tx' = [tx EXCEPT ![s].at = "over"] /\ UNCHANGED active
  <2>a. PICK a : a = "over"
    OBVIOUS
  <2>1. PICK r : r = [tx[s] EXCEPT !.at = a, !.on = tx[s].on]
    OBVIOUS
  <2>2. tx' = [tx EXCEPT ![s] = r]
    <3>1. r = [tx[s] EXCEPT !.at = "over"]
      BY <1>4, <2>a, <2>1 DEF TxType
    <3> QED
      BY <1>11, <3>1
  <2>3. \A t \in Sends : SameGate(t)
    BY <1>1, GatesKept
  <2>4. tx[s].on \in Sends \cup {0}
    BY <1>4 DEF TxType
  <2>5. /\ env' \in [bounds : Settings, faults : Nat]
        /\ env.faults \in Nat /\ env'.faults \in Nat /\ (env.faults = 0 \/ env'.faults # 0)
    BY <1>11, AppendEnds
  <2>6. (AppendBatch(v, b).ok /\ Stores(b) /\ env'.faults # 0) \/ UNCHANGED <<v, closed>>
    BY <1>11, ThrownFaults
  <2>7. /\ tx' \in [Sends -> TxType]
        /\ Flow'
        /\ \A kind \in JobKinds, t \in Sends : \A c :
             (t # s \/ kind \notin {"prepare", "begin"}) /\ JobFits(kind, t, c)
               => JobFits(kind, t, c)'
        /\ (\A t \in Sends : NoStep(t) => NoStep(t)') => Closures'
    <3>1. /\ a \in Waiting \cup {"over"} /\ tx[s].at \notin {"streaming", "over"}
          /\ a \notin {"gate", "repair"}
          /\ a \notin {"prepare", "preparing", "begin", "beginning"}
      BY <1>3, <2>a
    <3>2. UNCHANGED <<rec, active>> /\ stop'.used = stop.used
      BY <1>1, <1>11
    <3> QED
      BY <1>9, <2>1, <2>2, <2>3, <2>4, <2>5, <3>1, <3>2, AtMoves
  <2>8. Jobs'
    <3>1. \A k \in JobKinds, t \in Sends : \A c :
            (k # "begin" \/ t # s) /\ JobFits(k, t, c) => JobFits(k, t, c)'
      BY <1>3, <2>7, OnlyItsJob
    <3> QED
      BY <1>2, <3>1
  <2>9. /\ \A t \in Sends : tx'[t].handle = tx[t].handle /\ tx'[t].exposed = tx[t].exposed
                             /\ tx'[t].try = tx[t].try /\ (t # s => tx'[t] = tx[t])
    <3>1. tx'[s] = r /\ \A t \in Sends : t # s => tx'[t] = tx[t]
      BY <1>4, <2>2
    <3>2. r.handle = tx[s].handle /\ r.exposed = tx[s].exposed /\ r.try = tx[s].try
      BY <1>4, <2>1 DEF TxType
    <3> QED
      BY <3>1, <3>2
  <2>10. Past'
    <3>1. CASE UNCHANGED <<v, closed>>
      <4>1. \A t \in Sends : Closed(t)
        BY <1>1 DEF Closed
      <4>2. \A t \in Sends : Alike(t)
        BY <2>9, <4>1 DEF Alike
      <4>3. \A t \in Sends : ~Waits(t)
        BY <1>3, Alone DEF Waits
      <4> QED
        BY <2>5, <3>1, <4>2, <4>3, PastKept DEF IInv, WaitsOn
    <3>2. CASE AppendBatch(v, b).ok /\ Stores(b) /\ env'.faults # 0
      <4>1. tx'[s].handle = None
        BY <1>3, <2>9, Alone
      <4>2. HistoryFits'
        BY <1>1, <1>3, <1>7, <1>8, <2>9, <3>2, <4>1, HistoryBegins
      <4> QED
        BY <3>2, <4>2 DEF Past, Undisturbed
    <3> QED
      BY <2>6, <3>1, <3>2
  <2>11. Types'
    BY <1>2, <1>4, <1>11, <2>5, <2>7 DEF Types
  <2> QED
    BY <1>2, <2>7, <2>8, <2>10, <2>11 DEF IInv
<1> QED
  BY <1>5, <1>6, <1>7, <1>10, <1>11 DEF BeginRuns

------------------------------------------------------------------------------
(* A turn goes on with another step. *)

\* The history after the events of beginNextChatStep, whether the send learns of
\* them or not.
LEMMA HistorySteps ==
  ASSUME IInv, NEW s \in Sends, NEW h, h = tx[s].handle, h # None,
         NEW b, b = NextBatch(h), AppendBatch(v, b).ok, Stores(b),
         \A t \in Sends : t # s => tx'[t].handle = tx[t].handle,
         tx'[s].handle \in {h, NextHandle(h)},
         \A t \in Sends : /\ gate'[t].handle = gate[t].handle
                          /\ gate'[t].closing = "ok" => gate[t].closing = "ok"
  PROVE  HistoryFits'
<1>1. /\ h \in HandleType /\ h.turn \in Nat \ {0} /\ h.step \in Nat \ {0}
      /\ v.lastTurn \in Nat /\ v.lastStep \in Nat /\ None \notin Nat
  BY Handles, ChatAssumption DEF HandleType, IInv, Past, HistoryFits, Plain
<1>2. /\ v.openTurn = h.turn /\ v.openStep = h.step
      /\ Plain(v') /\ Only(v, v', {"openStep", "lastStep", "requests"})
      /\ v'.openStep = h.step + 1 /\ v'.lastStep = h.step + 1
      /\ closed' = closed \cup {<<h.turn, h.step>>}
  BY <1>1, StepBegun DEF IInv, Past, HistoryFits, Stores
<1>3. v'.openTurn = h.turn /\ v'.lastTurn = v.lastTurn /\ v.lastTurn = h.turn
      /\ v.lastStep = h.step
  <2>1. v.openTurn # None /\ Bounded(v)
    BY <1>1, <1>2 DEF IInv, Past, HistoryFits
  <2> QED
    BY <1>2, <2>1 DEF Only, Fields, Bounded
<1>4. Bounded(v)'
  <2>1. h.step + 1 # 0
    BY <1>1
  <2> QED
    BY <1>1, <1>2, <1>3, <2>1 DEF Bounded
<1>5. EndsFit'
  <2>1. \A i \in Nat : i <= h.step => i <= h.step + 1
    BY <1>1
  <2>2. \A i \in Nat : i < h.step => i < h.step + 1
    BY <1>1
  <2>3. ASSUME NEW p \in closed
        PROVE  /\ p = <<p[1], p[2]>> /\ p[1] \in Nat /\ p[2] \in Nat
               /\ p[1] <= v'.lastTurn /\ p[2] <= v'.lastStep
               /\ v'.openTurn = p[1] => p[2] # 0 /\ p[2] < v'.openStep
    <3>1. /\ p = <<p[1], p[2]>> /\ p[1] \in Nat /\ p[2] \in Nat
          /\ p[1] <= v.lastTurn /\ p[2] <= v.lastStep
          /\ v.openTurn = p[1] => p[2] # 0 /\ p[2] < v.openStep
      BY <2>3 DEF IInv, Past, HistoryFits, EndsFit
    <3> QED
      BY <1>2, <1>3, <2>1, <2>2, <3>1
  <2>4. ASSUME NEW p, p = <<h.turn, h.step>>
        PROVE  /\ p = <<p[1], p[2]>> /\ p[1] \in Nat /\ p[2] \in Nat
               /\ p[1] <= v'.lastTurn /\ p[2] <= v'.lastStep
               /\ v'.openTurn = p[1] => p[2] # 0 /\ p[2] < v'.openStep
    <3>1. p[1] = h.turn /\ p[2] = h.step /\ p = <<p[1], p[2]>>
      BY <2>4
    <3>2. h.turn <= h.turn /\ h.step <= h.step + 1 /\ h.step < h.step + 1 /\ h.step # 0
      BY <1>1
    <3> QED
      BY <1>1, <1>2, <1>3, <3>1, <3>2
  <2>5. \A p \in closed' : p \in closed \/ p = <<h.turn, h.step>>
    BY <1>2
  <2> QED
    BY <2>3, <2>4, <2>5 DEF EndsFit
<1>6. ASSUME NEW t \in Sends
      PROVE  /\ tx'[t].handle = None <=> tx[t].handle = None
             /\ tx[t].handle # None =>
                  /\ tx'[t].handle.turn = tx[t].handle.turn
                  /\ tx[t].handle.step \in Nat /\ tx'[t].handle.step \in Nat
                  /\ tx[t].handle.step <= tx'[t].handle.step
                  /\ tx'[t].handle.step <= h.step + 1
  <2>1. tx[t].handle # None => tx[t].handle.step \in Nat /\ tx[t].handle.step <= h.step
    BY <1>3, Handles DEF IInv, Past, HistoryFits, TurnFits, HandleType
  <2>2. CASE tx'[t].handle = tx[t].handle
    BY <1>1, <2>1, <2>2
  <2>3. CASE t = s /\ tx'[s].handle = NextHandle(h)
    <3>1. NextHandle(h) = [h EXCEPT !.step = h.step + 1]
      BY DEF NextHandle
    <3>2. NextHandle(h).turn = h.turn /\ NextHandle(h).step = h.step + 1
      BY <1>1, <3>1 DEF HandleType
    <3>3. NextHandle(h) # None
      <4>1. NextHandle(h) \in [turn : Nat, step : Nat]
        BY <1>1, <3>1 DEF HandleType
      <4> QED
        BY <4>1, ChatAssumption
    <3> QED
      BY <1>1, <2>3, <3>2, <3>3
  <2> QED
    BY <2>2, <2>3
<1>7. ASSUME NEW t \in Sends PROVE TurnFits(t)'
  <2>1. TurnFits(t)
    BY DEF IInv, Past, HistoryFits
  <2>2. CASE tx[t].handle = None
    BY <1>6, <2>2 DEF TurnFits
  <2>3. CASE tx[t].handle # None
    <3>1. /\ tx[t].handle.turn <= v.lastTurn
          /\ v.openTurn = tx[t].handle.turn \/ <<tx[t].handle.turn, 0>> \in closed
          /\ \A u \in Sends : t < u /\ tx[u].handle # None
               => tx[t].handle.turn < tx[u].handle.turn
      BY <2>1, <2>3 DEF TurnFits
    <3>2. /\ tx'[t].handle.turn <= v'.lastTurn /\ tx'[t].handle.step <= v'.lastStep
          /\ v'.openTurn = tx'[t].handle.turn \/ <<tx'[t].handle.turn, 0>> \in closed'
      BY <1>2, <1>3, <1>6, <2>3, <3>1
    <3>3. \A u \in Sends : t < u /\ tx'[u].handle # None
            => tx'[t].handle.turn < tx'[u].handle.turn
      BY <1>6, <2>3, <3>1
    <3> QED
      BY <3>2, <3>3 DEF TurnFits
  <2> QED
    BY <2>2, <2>3
<1>8. ASSUME NEW t \in Sends PROVE ClosureFits(t)'
  <2>1. CASE gate[t].handle = None
    BY <2>1 DEF ClosureFits
  <2>2. CASE gate[t].handle # None
    <3>1. PICK g : g = gate[t].handle
      OBVIOUS
    <3>2. /\ g.turn = tx[t].handle.turn /\ g.step <= tx[t].handle.step
          /\ gate[t].closing = "ok" => <<g.turn, g.step>> \in closed \/ <<g.turn, 0>> \in closed
      BY <2>2, <3>1 DEF IInv, Past, HistoryFits, ClosureFits
    <3>3. tx[t].handle # None /\ g.step \in Nat
      <4>1. tx[t].handle = None => gate[t] = NoClosure
        BY DEF IInv, Flow, SendsFit, SendFits, Untouched
      <4>2. tx[t].handle # None
        BY <2>2, <4>1 DEF NoClosure
      <4>3. g \in HandleType
        BY <2>2, <3>1, Handles
      <4> QED
        BY <4>2, <4>3 DEF HandleType
    <3>4. g.step <= tx'[t].handle.step
      <4>1. \A i, j, k \in Nat : i <= j /\ j <= k => i <= k
        OBVIOUS
      <4> QED
        BY <1>6, <3>2, <3>3, <4>1
    <3> QED
      BY <1>2, <1>6, <3>1, <3>2, <3>3, <3>4 DEF ClosureFits
  <2> QED
    BY <2>1, <2>2
<1> QED
  BY <1>2, <1>4, <1>5, <1>7, <1>8 DEF HistoryFits

\* A step begins, and the send learns of it.
LEMMA SteppedPast ==
  ASSUME IInv, NEW s \in Sends, tx[s].exposed, NEW h, h = tx[s].handle, h # None,
         NEW b, b = NextBatch(h), Takes(b),
         \A t \in Sends : t # s => tx'[t] = tx[t],
         tx'[s].handle = NextHandle(h), tx'[s].exposed, UNCHANGED gate
  PROVE  Past'
<1>1. AppendBatch(v, b).ok /\ Stores(b) /\ UNCHANGED env
  BY AppendEnds
<1>2. HistoryFits'
  BY <1>1, HistorySteps
<1>3. /\ v.openTurn = h.turn /\ v'.openStep = h.step + 1
      /\ Only(v, v', {"openStep", "lastStep", "requests"})
      /\ Asked(v, v', NextHandle(h))
  BY <1>1, Handles, StepBegun DEF IInv, Past, HistoryFits, Stores
<1>4. v'.pendingRetries = v.pendingRetries /\ v'.retries = v.retries /\ v'.openTurn = v.openTurn
  BY <1>3 DEF Only, Fields
<1>5. h \in HandleType /\ NextHandle(h).turn = h.turn /\ NextHandle(h).step = h.step + 1
  BY Handles DEF NextHandle, HandleType
<1>6. ASSUME env'.faults = 0 PROVE \A t \in Sends : KnowsStep(t)'
  <2>1. env.faults = 0
    BY <1>1, <1>6
  <2>2. ASSUME NEW t \in Sends, t # s, tx[t].handle # None PROVE KnowsStep(t)'
    <3>1. KnowsStep(t)
      BY <2>1 DEF IInv, Past, Undisturbed
    <3>2. tx[t].handle.turn # h.turn
      BY <2>2, OwnTurns
    <3>3. tx[t].handle \in DOMAIN v'.requests
          /\ v'.requests[tx[t].handle] = v.requests[tx[t].handle]
      BY <1>3, <2>2, <3>1 DEF KnowsStep, Asked
    <3> QED
      BY <1>3, <1>4, <2>2, <3>1, <3>2, <3>3 DEF KnowsStep
  <2>3. KnowsStep(s)'
    BY <1>3, <1>4, <1>5 DEF KnowsStep, Asked
  <2>4. \A t \in Sends : t # s /\ tx[t].handle = None => KnowsStep(t)'
    BY DEF KnowsStep
  <2> QED
    BY <2>2, <2>3, <2>4
<1>7. ASSUME env'.faults = 0, NEW p \in v'.pendingRetries PROVE RetryWaits(p)'
  <2>1. env.faults = 0 /\ p \in v.pendingRetries
    BY <1>1, <1>4, <1>7
  <2>2. PICK t \in Sends :
          /\ Streaming(t) /\ tx[t].loop \in {"waiting", "starting", "cancelling"}
          /\ p = RetryOf(tx[t].handle, tx[t].try)
          /\ p \in DOMAIN v.retries
          /\ v.retries[p] = [requestId |-> tx[t].handle, nextAttempt |-> tx[t].try + 1,
                             state |-> "scheduled"]
    BY <2>1 DEF IInv, Past, Undisturbed, RetryWaits
  <2>3. t # s
    BY <2>2 DEF IInv, Flow, SendsFit, SendFits
  <2> QED
    BY <1>4, <2>2, <2>3 DEF RetryWaits, Streaming
<1> QED
  BY <1>2, <1>6, <1>7 DEF Past, Undisturbed

\* What is known of a send whose next step has been asked for.
LEMMA AskedFits ==
  ASSUME IInv, NEW s \in Sends, tx[s].next = "asked"
  PROVE  /\ tx[s] \in TxType /\ rec[s] \in RecType /\ tx[s].handle \in HandleType
         /\ tx[s].handle # None /\ tx[s].exposed /\ tx[s].loop = "invoke"
         /\ tx[s].at \in {"streaming", "over"}
         /\ tx[s].step \in Nat \ {0} /\ rec[s].persisted = tx[s].step /\ rec[s].parts = <<>>
         /\ \A i \in Nat : ~PersistsAt(s, i)
         /\ ChunksFit(s) /\ GateFits(s)
<1>1. tx[s] \in TxType /\ rec[s] \in RecType
  BY Typed DEF IInv
<1>2. SendFits(s) /\ Keeps(s) /\ ChunksFit(s) /\ GateFits(s)
  BY DEF IInv, Flow, SendsFit, RecordersFit, GatesFit
<1>3. tx[s].exposed /\ tx[s].loop = "invoke"
  BY <1>2 DEF SendFits
<1>4. tx[s].handle # None
  <2>1. SUFFICES ASSUME tx[s].handle = None PROVE FALSE
    OBVIOUS
  <2>2. Untouched(s)
    BY <1>2, <2>1 DEF SendFits
  <2> QED
    BY <2>2 DEF Untouched, NoSend
<1>5. tx[s].at \in {"streaming", "over"} /\ tx[s].handle \in HandleType
  BY <1>2, <1>4, Handles DEF SendFits
<1>6. rec[s].persisted = tx[s].step
  BY <1>2 DEF Keeps
<1>7. rec[s].parts = <<>> /\ \A i \in Nat : ~PersistsAt(s, i)
  BY <1>2, <1>6 DEF Keeps
<1>8. tx[s].step \in Nat \ {0}
  BY <1>1 DEF TxType
<1> QED
  BY <1>1, <1>2, <1>3, <1>4, <1>5, <1>6, <1>7, <1>8

\* The handle moves on together with the step the provider is in.
LEMMA StepsFlow ==
  ASSUME IInv, NEW s \in Sends, tx[s].next = "asked", NEW r \in TxType,
         tx' = [tx EXCEPT ![s] = r], r.at = tx[s].at, r.on = tx[s].on,
         r.handle = NextHandle(tx[s].handle), r.step = tx[s].step + 1,
         r.exposed = tx[s].exposed, r.loop = tx[s].loop, r.next = "none",
         UNCHANGED <<rec, gate, active>>
  PROVE  /\ tx' \in [Sends -> TxType] /\ tx'[s] = r
         /\ \A t \in Sends : t # s => tx'[t] = tx[t]
         /\ Flow'
<1>1. /\ tx' \in [Sends -> TxType] /\ tx'[s] = r /\ \A t \in Sends : t # s => tx'[t] = tx[t]
  BY Typed, OneSend DEF IInv
<1>2. PICK h : h = tx[s].handle
  OBVIOUS
<1>3. /\ rec[s] \in RecType /\ h \in HandleType /\ h # None /\ tx[s].exposed
      /\ tx[s].loop = "invoke" /\ tx[s].at \in {"streaming", "over"}
      /\ tx[s].step \in Nat \ {0} /\ rec[s].persisted = tx[s].step /\ rec[s].parts = <<>>
      /\ \A i \in Nat : ~PersistsAt(s, i)
      /\ ChunksFit(s) /\ GateFits(s)
  BY <1>2, AskedFits
<1>4. NextHandle(h) # None /\ NextHandle(h).step = h.step + 1 /\ h.step \in Nat
  <2>1. NextHandle(h) \in [turn : Nat, step : Nat] /\ NextHandle(h).step = h.step + 1
    BY <1>3 DEF NextHandle, HandleType
  <2> QED
    BY <1>3, <2>1, ChatAssumption DEF HandleType
<1>5. \A t \in Sends : t # s => Still(t)
  BY <1>1 DEF Still, SameGate
<1>6. SendFits(s)'
  BY <1>1, <1>2, <1>3, <1>4 DEF SendFits, Streaming
<1>7. Keeps(s)'
  <2>1. rec'[s] = rec[s] /\ tx'[s].step = tx[s].step + 1 /\ tx'[s].next = "none"
    BY <1>1
  <2>2. rec[s].persisted = tx'[s].step - 1 /\ rec[s].persisted # tx'[s].step
    BY <1>3, <2>1
  <2>3. \A i \in Nat : ~FinishedAt(s, i)' /\ ~PersistsAt(s, i)'
    BY <1>3, <2>1 DEF FinishedAt, PersistsAt
  <2> QED
    BY <2>1, <2>2, <2>3 DEF Keeps
<1>8. ChunksFit(s)'
  <2>1. \A i \in 1 .. Len(rec[s].batch) :
          rec[s].batch[i].at.step \in Nat /\ rec[s].batch[i].step \in Nat
    <3>1. rec[s].batch \in Seq(ChunkType)
      BY <1>3 DEF RecType
    <3>2. \A c \in ChunkType : c.at.step \in Nat /\ c.step \in Nat
      BY DEF ChunkType, HandleType
    <3> HIDE DEF ChunkType
    <3> QED
      BY <3>1, <3>2
  <2>2. \A i, j, k, l \in Nat : i + j = k + l => i + (j + 1) = (k + 1) + l
    OBVIOUS
  <2>3. \A i \in 1 .. Len(rec[s].batch) :
          rec[s].batch[i].at.step + (tx[s].step + 1) = (h.step + 1) + rec[s].batch[i].step
    <3>1. \A i \in 1 .. Len(rec[s].batch) :
            rec[s].batch[i].at.step + tx[s].step = h.step + rec[s].batch[i].step
      BY <1>2, <1>3 DEF ChunksFit
    <3>2. h.step \in Nat /\ tx[s].step \in Nat
      BY <1>3, <1>4
    <3>3. ASSUME NEW i \in 1 .. Len(rec[s].batch)
          PROVE  rec[s].batch[i].at.step + (tx[s].step + 1)
                   = (h.step + 1) + rec[s].batch[i].step
      <4>1. PICK a, c : a = rec[s].batch[i].at.step /\ c = rec[s].batch[i].step
        OBVIOUS
      <4>2. PICK j, k : j = tx[s].step /\ k = h.step
        OBVIOUS
      <4>3. a \in Nat /\ c \in Nat /\ j \in Nat /\ k \in Nat /\ a + j = k + c
        BY <2>1, <3>1, <3>2, <4>1, <4>2
      <4>4. a + (j + 1) = (k + 1) + c
        BY <4>3
      <4> QED
        BY <4>1, <4>2, <4>4
    <3> QED
      BY <3>3
  <2> QED
    BY <1>1, <1>2, <1>3, <1>4, <2>3 DEF ChunksFit
<1>9. GateFits(s)'
  BY <1>1, <1>2, <1>3, <1>4 DEF GateFits, Registered
<1>10. Flow'
  <2>1. tx'[s].at = tx[s].at /\ Types /\ Flow
    BY <1>1 DEF IInv
  <2> QED
    BY <1>5, <1>6, <1>7, <1>8, <1>9, <2>1, FlowStays
<1> QED
  BY <1>1, <1>10

\* The closure of a send has begun only with a Stop while its next step is on its way.
LEMMA StepUnderWay ==
  ASSUME IInv, NEW s \in Sends, Runs("next", s), stop.used = 0
  PROVE  gate[s].closing = "none" /\ gate[s].handle = None
<1>1. queue \in Seq(JobType)
  BY Typed DEF IInv
<1>2. /\ Len(queue) \in Nat /\ Len(queue) >= 1
      /\ queue[1].kind = "next" /\ queue[1].of = s
  BY <1>1, Left
<1>3. 1 \in Nat /\ InQueue(1, "next", s)
  BY <1>2 DEF InQueue
<1>4. gate[s].closing = "none"
  BY <1>3 DEF IInv, Closures, Unstopped
<1> QED
  BY <1>4 DEF IInv, Flow, GatesFit, GateFits

\* Sends, recorders and closures that are kept.
LEMMA FlowKept ==
  ASSUME Flow, UNCHANGED <<tx, rec, gate, active>>
  PROVE  Flow'
<1>1. OneAtATime'
  BY DEF Flow, OneAtATime
<1>2. SendsFit'
  BY DEF Flow, SendsFit, SendFits, Untouched, Streaming
<1>3. RecordersFit'
  BY DEF Flow, RecordersFit, Keeps, ChunksFit, FinishedAt, PersistsAt
<1>4. GatesFit'
  BY DEF Flow, GatesFit, GateFits, Registered
<1> QED
  BY <1>1, <1>2, <1>3, <1>4 DEF Flow

\* beginNextChatStep, as a job.
LEMMA NextRunsStep ==
  ASSUME IInv, NEW s \in Sends, NextRuns(s)
  PROVE  IInv'
<1>0. PICK b : b = Head(queue).batch
  OBVIOUS
<1>1. PICK h : h = tx[s].handle
  OBVIOUS
<1>2. /\ UNCHANGED <<rec, active, stop>> /\ Types
      /\ Runs("next", s) /\ "next" \in JobKinds
  BY DEF NextRuns, IInv, JobKinds
<1>3. /\ rec' \in [Sends -> RecType] /\ (gate' = gate => gate' \in [Sends -> GateType])
      /\ (tx' = tx => tx' \in [Sends -> TxType])
      /\ active' \in Sends \cup {None} /\ stop' \in StopType /\ tx \in [Sends -> TxType]
  BY <1>2, Typed
<1>4. /\ JobFits("next", s, b) /\ queue' \in Seq(JobType)
      /\ (\A t \in Sends : NoStep(t) => NoStep(t)') /\ NoStep(s)'
      /\ (\A k \in JobKinds, t \in Sends : \A c :
            (k # "next" \/ t # s) /\ JobFits(k, t, c) => JobFits(k, t, c)') => Jobs'
  BY <1>0, <1>2, JobRuns
<1>5. tx[s].next = "asked" /\ b = NextBatch(h)
  BY <1>1, <1>4 DEF JobFits
<1>6. /\ tx[s] \in TxType /\ h \in HandleType /\ h # None /\ tx[s].exposed
      /\ tx[s].loop = "invoke" /\ tx[s].at \in {"streaming", "over"}
      /\ tx[s].step \in Nat \ {0}
  BY <1>1, <1>5, AskedFits
<1>7. \A k \in {"prepare", "begin", "schedule", "start", "cancel"} : \A c : ~JobFits(k, s, c)
  BY <1>6 DEF JobFits
<1>8. CASE /\ Takes(b)
           /\ tx' = [tx EXCEPT ![s].handle = NextHandle(@), ![s].step = @ + 1,
                               ![s].said = FALSE, ![s].next = "none"]
           /\ UNCHANGED gate
  <2>a. PICK k : k = NextHandle(h)
    OBVIOUS
  <2>b. PICK n : n = tx[s].step + 1
    OBVIOUS
  <2>1. PICK r : r = [tx[s] EXCEPT !.handle = k, !.step = n, !.said = FALSE, !.next = "none"]
    OBVIOUS
  <2>2. k \in HandleType /\ n \in Nat \ {0}
    <3>1. k \in HandleType
      BY <1>6, <2>a DEF NextHandle, HandleType
    <3> QED
      BY <1>6, <2>b, <3>1
  <2>3. /\ r \in TxType /\ r.at = tx[s].at /\ r.on = tx[s].on /\ r.handle = k
        /\ r.aborted = tx[s].aborted /\ r.exposed = tx[s].exposed /\ r.step = n
        /\ r.loop = tx[s].loop /\ r.next = "none"
    BY <1>6, <2>1, <2>2 DEF TxType
  <2>4. tx' = [tx EXCEPT ![s] = r]
    <3>1. PICK p : p = [tx[s] EXCEPT !.handle = NextHandle(@)]
      OBVIOUS
    <3>2. PICK q : q = [p EXCEPT !.step = @ + 1]
      OBVIOUS
    <3>3. PICK u : u = [q EXCEPT !.said = FALSE]
      OBVIOUS
    <3>4. PICK a : a = [tx EXCEPT ![s].handle = NextHandle(@)]
      OBVIOUS
    <3>5. PICK c : c = [a EXCEPT ![s].step = @ + 1]
      OBVIOUS
    <3>6. PICK d : d = [c EXCEPT ![s].said = FALSE]
      OBVIOUS
    <3>7. tx' = [d EXCEPT ![s].next = "none"]
      BY <1>8, <3>4, <3>5, <3>6
    <3>8. /\ \A f, g : [[tx EXCEPT ![s] = f] EXCEPT ![s] = g] = [tx EXCEPT ![s] = g]
          /\ \A f : [tx EXCEPT ![s] = f][s] = f
      BY <1>3
    <3>9. a = [tx EXCEPT ![s] = p]
      BY <3>1, <3>4
    <3>10. c = [tx EXCEPT ![s] = q]
      BY <3>2, <3>5, <3>8, <3>9
    <3>11. d = [tx EXCEPT ![s] = u]
      BY <3>3, <3>6, <3>8, <3>10
    <3>12. tx' = [tx EXCEPT ![s] = [u EXCEPT !.next = "none"]]
      BY <3>7, <3>8, <3>11
    <3>13. [u EXCEPT !.next = "none"] = r
      BY <1>1, <1>6, <2>a, <2>b, <2>1, <3>1, <3>2, <3>3 DEF TxType
    <3> QED
      BY <3>12, <3>13
  <2>5. /\ tx' \in [Sends -> TxType] /\ tx'[s] = r
        /\ \A t \in Sends : t # s => tx'[t] = tx[t]
        /\ Flow'
    <3>1. UNCHANGED <<rec, gate, active>> /\ tx[s].next = "asked"
      BY <1>2, <1>5, <1>8
    <3>2. r.handle = NextHandle(tx[s].handle) /\ r.step = tx[s].step + 1
      BY <1>1, <2>a, <2>b, <2>3
    <3> QED
      BY <2>3, <2>4, <3>1, <3>2, StepsFlow
  <2>6. Past'
    <3>1. tx'[s].handle = NextHandle(h) /\ tx'[s].exposed
      BY <1>6, <2>a, <2>3, <2>5
    <3> QED
      BY <1>1, <1>5, <1>6, <1>8, <2>5, <3>1, SteppedPast
  <2>7. /\ env' \in [bounds : Settings, faults : Nat]
        /\ env.faults \in Nat /\ env'.faults \in Nat /\ (env.faults = 0 \/ env'.faults # 0)
    BY <1>8, AppendEnds
  <2>8. Jobs'
    <3>1. \A j \in JobKinds : \A c : j # "next" /\ JobFits(j, s, c) => JobFits(j, s, c)'
      BY <1>2, <1>7, <1>8 DEF JobFits, JobKinds
    <3>2. \A j \in JobKinds, t \in Sends : \A c :
            (j # "next" \/ t # s) /\ JobFits(j, t, c) => JobFits(j, t, c)'
      BY <1>2, <1>8, <2>5, <3>1, OtherJobs
    <3> QED
      BY <1>4, <3>2
  <2>9. Closures'
    <3>1. stop.used = 0 => gate[s].handle = None
      BY <1>2, StepUnderWay
    <3>2. \A t \in Sends :
           /\ gate'[t] = gate[t]
           /\ tx'[t].aborted = tx[t].aborted
           /\ \/ tx'[t].handle = tx[t].handle
              \/ tx[t].next # "end" /\ (stop.used # 0 \/ gate[t].handle = None)
           /\ tx[t].at = "over" => tx'[t].at = "over"
                /\ (tx[t].next = "end" => tx'[t].next = "end")
      BY <1>5, <1>8, <2>3, <2>5, <3>1
    <3>3. stop'.used = stop.used
      BY <1>2
    <3> QED
      BY <1>4, <2>7, <3>2, <3>3, ClosuresStay DEF IInv
  <2>10. Types'
    BY <1>3, <1>4, <1>8, <2>5, <2>7 DEF Types
  <2> QED
    BY <2>5, <2>6, <2>8, <2>9, <2>10 DEF IInv
<1>9. CASE /\ Throws(b)
           /\ IF Streaming(s) THEN Over(s, Ended(s)) ELSE UNCHANGED <<tx, gate>>
  <2>1. /\ env' \in [bounds : Settings, faults : Nat]
        /\ env.faults \in Nat /\ env'.faults \in Nat /\ (env.faults = 0 \/ env'.faults # 0)
    BY <1>9, AppendEnds
  <2>2. /\ tx' \in [Sends -> TxType] /\ gate' \in [Sends -> GateType]
        /\ Flow' /\ Closures'
        /\ \A j \in JobKinds, t \in Sends : \A c :
              (j # "next" \/ t # s) /\ JobFits(j, t, c) => JobFits(j, t, c)'
        /\ \A t \in Sends :
              /\ tx'[t].handle = tx[t].handle /\ tx'[t].exposed = tx[t].exposed
              /\ tx'[t].try = tx[t].try /\ (Waits(t) => Waits(t)')
              /\ gate'[t].handle = gate[t].handle
              /\ gate'[t].closing = "ok" => gate[t].closing = "ok"
    <3>1. CASE Streaming(s)
      <4>1. Over(s, Ended(s)) /\ Ended(s) \in Ends /\ Ended(s) # Completed
            /\ stop'.used = stop.used /\ UNCHANGED <<rec, active>>
        BY <1>2, <1>9, <3>1, EndTypes
      <4>2. tx[s].loop # "waiting" /\ tx[s].loop \notin {"starting", "cancelling"}
        BY <1>6
      <4>3. /\ tx' \in [Sends -> TxType] /\ gate' \in [Sends -> GateType]
            /\ Flow'
            /\ \A kind \in JobKinds, t \in Sends : \A c :
                  (t # s \/ kind \notin {"schedule", "start", "cancel"}) /\ JobFits(kind, t, c)
                    => JobFits(kind, t, c)'
            /\ \A t \in Sends :
                  /\ tx'[t].handle = tx[t].handle /\ tx'[t].exposed = tx[t].exposed
                  /\ tx'[t].try = tx[t].try
                  /\ Waits(t) /\ (t # s \/ tx[s].loop \notin {"starting", "cancelling"})
                       => Waits(t)'
                  /\ gate'[t].handle = gate[t].handle
                  /\ gate'[t].closing = "ok" => gate[t].closing = "ok"
            /\ (env.faults = 0 \/ env'.faults # 0) /\ env'.faults \in Nat
                  /\ (\A t \in Sends : NoStep(t) => NoStep(t)') /\ (stop.used = 0 => NoStep(s)')
                  => Closures'
        BY <3>1, <4>1, <4>2, OverFits
      <4> QED
        BY <1>4, <1>7, <2>1, <4>2, <4>3
    <3>2. CASE ~Streaming(s)
      <4>1. UNCHANGED <<tx, rec, gate, active, stop>>
        BY <1>2, <1>9, <3>2
      <4>2. Flow'
        BY <4>1, FlowKept DEF IInv
      <4>3. Closures'
        BY <1>4, <2>1, <4>1, ClosuresStay DEF IInv
      <4>4. \A j, c : \A t \in Sends : JobFits(j, t, c) => JobFits(j, t, c)'
        BY <4>1, StillFits DEF Still, SameGate
      <4>5. \A t \in Sends : Waits(t) => Waits(t)'
        BY <4>1 DEF Waits, Streaming
      <4> QED
        BY <1>2, <1>3, <4>1, <4>2, <4>3, <4>4, <4>5, Typed
    <3> QED
      BY <3>1, <3>2
  <2>3. Past'
    <3>1. CASE UNCHANGED <<v, closed>>
      <4>1. \A t \in Sends : Alike(t) /\ WaitsOn(t)
        BY <2>2 DEF Alike, WaitsOn, Closed
      <4> QED
        BY <2>1, <3>1, <4>1, PastKept DEF IInv
    <3>2. CASE AppendBatch(v, b).ok /\ Stores(b) /\ env'.faults # 0
      <4>1. HistoryFits'
        BY <1>1, <1>5, <1>6, <2>2, <3>2, HistorySteps
      <4> QED
        BY <3>2, <4>1 DEF Past, Undisturbed
    <3> QED
      BY <1>9, <3>1, <3>2, ThrownFaults
  <2>4. Types'
    BY <1>3, <1>4, <2>1, <2>2 DEF Types
  <2> QED
    BY <1>4, <2>2, <2>3, <2>4 DEF IInv
<1> QED
  BY <1>0, <1>8, <1>9 DEF NextRuns

------------------------------------------------------------------------------
(* The invariant of the specification. *)

\* A chat nobody has written to.
LEMMA InitFits ==
  ASSUME Init
  PROVE  IInv
<1>1. /\ v = Fresh /\ closed = {} /\ queue = <<>> /\ active = None
      /\ \A s \in Sends : tx[s] = NoSend /\ rec[s] = NoRecorder /\ gate[s] = NoClosure
      /\ stop = [at |-> "idle", on |-> 0, used |-> 0]
      /\ env.faults = 0 /\ env \in [bounds : Settings, faults : Nat]
  BY DEF Init
<1>2. Types
  <2>1. NoSend \in TxType
    BY DEF NoSend, TxType
  <2>2. NoRecorder \in RecType
    BY DEF NoRecorder, RecType
  <2>3. NoClosure \in GateType
    BY DEF NoClosure, GateType
  <2>4. stop \in StopType
    BY <1>1 DEF StopType
  <2>5. queue \in Seq(JobType)
    BY <1>1
  <2>6. /\ tx \in [Sends -> TxType] /\ rec \in [Sends -> RecType]
        /\ gate \in [Sends -> GateType]
    BY <2>1, <2>2, <2>3 DEF Init
  <2> QED
    BY <1>1, <2>4, <2>5, <2>6 DEF Types
<1>3. Flow
  <2>1. OneAtATime
    BY <1>1 DEF OneAtATime, NoSend
  <2>2. SendsFit
    <3>1. NoSend = [NoSend EXCEPT !.at = NoSend.at, !.on = NoSend.on,
                                  !.aborted = NoSend.aborted]
      BY DEF NoSend
    <3>2. \A s \in Sends : Untouched(s)
      BY <1>1, <3>1 DEF Untouched
    <3>3. /\ NoSend.at = "away" /\ NoSend.handle = None /\ NoSend.exposed = FALSE
          /\ NoSend.next = "none" /\ NoSend.loop = "invoke"
      BY DEF NoSend
    <3> QED
      BY <1>1, <3>2, <3>3 DEF SendsFit, SendFits
  <2>3. RecordersFit
    <3>1. \A s \in Sends : /\ rec[s].persisted = 0 /\ rec[s].parts = <<>>
                           /\ rec[s].batch = <<>> /\ rec[s].lane = <<>>
                           /\ tx[s].step = 1 /\ tx[s].next = "none"
      BY <1>1 DEF NoRecorder, NoSend
    <3>2. \A s \in Sends : \A i \in Nat : ~FinishedAt(s, i) /\ ~PersistsAt(s, i)
      BY <3>1 DEF FinishedAt, PersistsAt
    <3>3. \A s \in Sends : Keeps(s)
      BY <3>1, <3>2 DEF Keeps
    <3>4. \A s \in Sends : ChunksFit(s)
      BY <3>1 DEF ChunksFit
    <3> QED
      BY <3>3, <3>4 DEF RecordersFit
  <2>4. GatesFit
    <3>1. \A s \in Sends : None # s
      BY ChatAssumption DEF Sends
    <3> QED
      BY <1>1, <3>1 DEF GatesFit, GateFits, Registered, NoSend, NoClosure
  <2> QED
    BY <2>1, <2>2, <2>3, <2>4 DEF Flow
<1>4. Jobs
  <2>1. Len(queue) = 0
    BY <1>1
  <2> QED
    BY <2>1 DEF Jobs, OneJob, JobsFit
<1>5. Past
  <2>1. Plain(v)
    <3>1. IsValidator(v)
      BY <1>1, FreshIsValidator
    <3>2. /\ v.requests = NoMap /\ v.calls = NoMap /\ v.retries = NoMap
          /\ v.lastTurn = 0 /\ v.lastStep = 0 /\ v.suspension = None
          /\ v.unresolved = {} /\ v.pendingRetries = {}
      BY <1>1 DEF Fresh
    <3>3. Shaped(v)
      BY <3>2 DEF Shaped, NoMap
    <3> QED
      BY <3>1, <3>2, <3>3, FS_EmptySet DEF Plain
  <2>2. v.openTurn = None /\ v.openStep = None /\ v.pendingRetries = {}
    BY <1>1 DEF Fresh
  <2>3. Bounded(v) /\ EndsFit
    BY <1>1, <2>2 DEF Bounded, EndsFit
  <2>4. \A s \in Sends : tx[s].handle = None /\ gate[s].handle = None
    BY <1>1 DEF NoSend, NoClosure
  <2>5. \A s \in Sends : TurnFits(s) /\ ClosureFits(s) /\ KnowsStep(s)
    BY <2>4 DEF TurnFits, ClosureFits, KnowsStep
  <2> QED
    BY <2>1, <2>2, <2>3, <2>5 DEF Past, HistoryFits, Undisturbed
<1>6. Closures
  <2>1. \A s \in Sends : /\ gate[s].closing = "none" /\ gate[s].handle = None
                         /\ tx[s].aborted = FALSE
    BY <1>1 DEF NoClosure, NoSend
  <2> QED
    BY <2>1 DEF Closures, Unstopped, Ending, CompletedIsRecorded
<1> QED
  BY <1>2, <1>3, <1>4, <1>5, <1>6 DEF IInv

\* Nothing happens to the chat.
LEMMA StutterStep ==
  ASSUME IInv, UNCHANGED vars
  PROVE  IInv'
<1>1. UNCHANGED <<v, closed, queue, tx, rec, gate, active, stop, env>>
  BY DEF vars
<1>2. Types'
  BY <1>1, Typed DEF IInv, Types
<1>3. Flow'
  BY <1>1, FlowKept DEF IInv
<1>4. Jobs'
  <2>1. \A t \in Sends : Still(t)
    BY <1>1 DEF Still, SameGate
  <2> QED
    BY <1>1, <2>1, StillFits, JobsStay DEF IInv
<1>5. Past'
  <2>1. \A t \in Sends : Waits(t) => Waits(t)'
    BY <1>1 DEF Waits, Streaming
  <2> QED
    BY <1>1, <2>1, PastStays DEF IInv
<1>6. Closures'
  <2>1. env.faults \in Nat /\ env'.faults \in Nat
    BY <1>1, Typed DEF IInv
  <2>2. \A t \in Sends : NoStep(t) => NoStep(t)'
    BY <1>1, NoStepKept
  <2> QED
    BY <1>1, <2>1, <2>2, ClosuresStay DEF IInv
<1> QED
  BY <1>2, <1>3, <1>4, <1>5, <1>6 DEF IInv

\* Each step of the chat keeps the invariant.
LEMMA NextStep ==
  ASSUME IInv, [Next]_vars
  PROVE  IInv'
<1>1. ASSUME NEW s \in Sends, Serve(s) PROVE IInv'
  BY <1>1, PrepareRunsStep, BeginRunsStep, ScheduleRunsStep, StartRunsStep, CancelRunsStep,
     NextRunsStep, RecordRunsStep, CloseRunsStep, RecoverRunsStep DEF Serve
<1>2. ASSUME NEW s \in Sends, GoOn(s) PROVE IInv'
  BY <1>2, DoneResolvesStep, DoneRejectsStep, PrepareStepsOn, BackoffEndsStep,
     PrepareStepStep, StreamEndsStep, ClosureSavesStep DEF GoOn
<1>3. ASSUME NEW s \in Sends, Record(s) PROVE IInv'
  BY <1>3, RecordsStep, FlushBatchStep, PersistsStep DEF Record
<1>4. ASSUME NEW s \in Sends, Outside(s) PROVE IInv'
  BY <1>4, SendMessagesStep, RequestFailsStep, SaysStep, FinishesStepStep, StreamFailsStep,
     StreamAbortsStep DEF Outside
<1>5. CASE Stops
  BY <1>5, StopClosesStep, StopReturnsStep, StopRecoversStep DEF Stops
<1> QED
  BY <1>1, <1>2, <1>3, <1>4, <1>5, StopClickedStep, StutterStep DEF Next

\* The invariant holds of every chat.
THEOREM ChatInvariant == Spec => []IInv
<1>1. Init => IInv
  BY InitFits
<1>2. IInv /\ [Next]_vars => IInv'
  BY NextStep
<1> QED
  BY <1>1, <1>2, PTL DEF Spec

------------------------------------------------------------------------------
(* What it implies. *)

\* What the provider said is recorded as output of the step it was said in, in
\* chats of any number of turns, steps, retries, Stops and failing appends
\* (createSessionStepPersistenceGate).
THEOREM ChunksStayInTheirStep == Spec => []ChunksInTheirStep
<1>1. IInv => ChunksInTheirStep
  <2> SUFFICES ASSUME IInv, NEW s \in Sends, NEW i \in DOMAIN rec[s].batch
               PROVE  rec[s].batch[i].at.step
                        = (tx[s].handle.step - (tx[s].step - 1)) + rec[s].batch[i].step - 1
    BY DEF ChunksInTheirStep
  <2>1. rec[s] # NoRecorder
    BY DEF NoRecorder
  <2>2. /\ rec[s].batch \in Seq(ChunkType) /\ ChunksFit(s)
        /\ tx[s].handle \in HandleType /\ tx[s].step \in Nat /\ tx[s].step # 0
    BY <2>1, RecorderFits
  <2>3. i \in 1 .. Len(rec[s].batch) /\ rec[s].batch[i] \in ChunkType
    BY <2>2
  <2>4. PICK a, b, c, d : /\ a = rec[s].batch[i].at.step /\ b = rec[s].batch[i].step
                          /\ c = tx[s].handle.step /\ d = tx[s].step
    OBVIOUS
  <2>5. a + d = c + b
    BY <2>2, <2>3, <2>4 DEF ChunksFit
  <2>6. a \in Nat /\ b \in Nat /\ c \in Nat /\ d \in Nat
    BY <2>2, <2>3, <2>4 DEF ChunkType, HandleType
  <2>7. a = (c - (d - 1)) + b - 1
    BY <2>5, <2>6
  <2> QED
    BY <2>4, <2>7
<1> QED
  BY <1>1, ChatInvariant, PTL

\* A closure that succeeded has closed its turn, unless a Stop or a failed append
\* met the turn in the moment it moved on to another step (appendForOpenHandle).
THEOREM ClosedTurnsAreClosed == Spec => []ClosureClosesTurn
<1>1. IInv => ClosureClosesTurn
  <2> SUFFICES ASSUME IInv, NEW s \in Sends, gate[s].closing = "ok",
                      v.openTurn = gate[s].handle.turn
               PROVE  v.openStep > gate[s].handle.step /\ (stop.used > 0 \/ env.faults > 0)
    BY DEF ClosureClosesTurn
  <2>1. PICK g : g = gate[s].handle
    OBVIOUS
  <2>2. g # None /\ g \in HandleType /\ g.step \in Nat
    <3>1. g # None
      BY <2>1 DEF IInv, Flow, GatesFit, GateFits
    <3> QED
      BY <2>1, <3>1, Handles DEF HandleType
  <2>3. <<g.turn, g.step>> \in closed \/ <<g.turn, 0>> \in closed
    BY <2>1, <2>2 DEF IInv, Past, HistoryFits, ClosureFits
  <2>4. g.step < v.openStep
    <3>1. \A n : <<g.turn, n>> \in closed => n # 0 /\ n < v.openStep
      <4>1. ASSUME NEW n, <<g.turn, n>> \in closed PROVE n # 0 /\ n < v.openStep
        <5>1. PICK p : p = <<g.turn, n>>
          OBVIOUS
        <5>2. p[1] = g.turn /\ p[2] = n /\ p \in closed
          BY <4>1, <5>1
        <5> QED
          BY <2>1, <5>2 DEF IInv, Past, HistoryFits, EndsFit
      <4> QED
        BY <4>1
    <3> QED
      BY <2>3, <3>1
  <2>5. v.openStep \in Nat
    <3>1. v.openTurn # None
      BY <2>1, <2>2, ChatAssumption DEF HandleType
    <3> QED
      BY <3>1 DEF IInv, Past, HistoryFits, Plain, Bounded
  <2>6. stop.used # 0 \/ env.faults # 0
    <3>1. SUFFICES ASSUME stop.used = 0, env.faults = 0 PROVE FALSE
      OBVIOUS
    <3>2. g = tx[s].handle
      BY <2>1, <2>2, <3>1 DEF IInv, Closures, Unstopped
    <3>3. v.openStep = g.step
      BY <2>1, <2>2, <3>1, <3>2 DEF IInv, Past, Undisturbed, KnowsStep
    <3> QED
      BY <2>2, <2>4, <3>3
  <2>7. stop.used \in Nat /\ env.faults \in Nat
    BY Typed DEF IInv, StopType
  <2>8. v.openStep > g.step
    BY <2>2, <2>4, <2>5
  <2> QED
    BY <2>1, <2>6, <2>7, <2>8
<1> QED
  BY <1>1, ChatInvariant, PTL

\* A response that ended normally is recorded as completed unless the disk fails:
\* no retry, no Stop and no turn before it makes the history refuse it
\* (settleChatProviderEnd).
THEOREM CompletedIsKept == Spec => []CompletedIsRecorded
<1>1. IInv => CompletedIsRecorded
  BY DEF IInv, Closures
<1> QED
  BY <1>1, ChatInvariant, PTL

\* No job but a repair records one.
LEMMA OnlyRepairsRepair ==
  ASSUME IInv, NEW b, b \in Batches \/ b = BeginBatch(FirstHandle), Takes(b) \/ Throws(b)
  PROVE  v'.repairedThrough = v.repairedThrough
<1>1. CASE UNCHANGED v
  BY <1>1
<1>2. CASE AppendBatch(v, b).ok /\ Stores(b)
  <2>1. v' = AppendBatch(v, b).v /\ Plain(v)
    BY <1>2 DEF Stores, IInv, Past, HistoryFits
  <2>2. SUFFICES ASSUME NEW w, w = AppendBatch(v, b).v
                 PROVE  w.repairedThrough = v.repairedThrough
    BY <2>1
  <2>3. ASSUME NEW F, Only(v, w, F), "repairedThrough" \notin F
        PROVE  w.repairedThrough = v.repairedThrough
    BY <2>3 DEF Only, Fields
  <2>4. CASE b = <<>>
    <3>1. Len(b) = 0
      BY <2>4
    <3>2. PICK x : Through(x, v, b)
      BY <1>2, <3>1, GoesThrough
    <3> QED
      BY <2>2, <3>1, <3>2 DEF Through
  <2>5. CASE \E h \in HandleType : b = NextBatch(h)
    BY <1>2, <2>1, <2>2, <2>3, <2>5, StepBegun
  <2>6. CASE \E h \in HandleType, e \in Ends : b = EndBatch(h, e)
    BY <1>2, <2>1, <2>2, <2>3, <2>6, TurnClosed
  <2>7. CASE \E h \in HandleType, n \in Nat : b = ScheduleBatch(h, n)
    <3>1. PICK h \in HandleType, n \in Nat : b = ScheduleBatch(h, n)
      BY <2>7
    <3>2. Only(v, w, {"retries", "pendingRetries"})
      BY <1>2, <2>1, <2>2, <3>1, RetryRecorded
    <3> QED
      BY <2>3, <3>2
  <2>8. CASE \E h \in HandleType, n \in Nat : b = StartBatch(h, n)
    BY <1>2, <2>1, <2>2, <2>3, <2>8, RetryBegun
  <2>9. CASE \E h \in HandleType, n \in Nat : b = <<Cancels(RetryOf(h, n))>>
    BY <1>2, <2>1, <2>2, <2>3, <2>9, RetryGivenUp
  <2>10. CASE \E c \in Seq(ChunkType) : b = ChunkEvents(c)
    BY <1>2, <2>1, <2>2, <2>3, <2>10, ChunksRecorded
  <2>11. CASE b = BeginBatch(FirstHandle)
    <3>1. FirstHandle \in HandleType
      BY FirstIsHandle
    <3> QED
      BY <1>2, <2>1, <2>2, <2>3, <2>11, <3>1, TurnBegun
  <2>12. b \in Batches => \/ b = <<>>
                          \/ \E h \in HandleType : b = NextBatch(h)
                          \/ \E h \in HandleType, e \in Ends : b = EndBatch(h, e)
                          \/ \E h \in HandleType, n \in Nat : b = ScheduleBatch(h, n)
                          \/ \E h \in HandleType, n \in Nat : b = StartBatch(h, n)
                          \/ \E h \in HandleType, n \in Nat : b = <<Cancels(RetryOf(h, n))>>
                          \/ \E c \in Seq(ChunkType) : b = ChunkEvents(c)
    BY DEF Batches
  <2> QED
    BY <2>4, <2>5, <2>6, <2>7, <2>8, <2>9, <2>10, <2>11, <2>12
<1> QED
  BY <1>1, <1>2, AppendEnds

\* The job at the head of the queue has a batch.
LEMMA HeadBatch ==
  ASSUME IInv, queue # <<>>
  PROVE  Head(queue).batch \in Batches
<1>1. queue \in Seq(JobType)
  BY Typed DEF IInv
<1>2. 1 \in 1 .. Len(queue) /\ Head(queue) = queue[1]
  BY <1>1
<1> QED
  BY <1>1, <1>2, JobTypes

\* Only the two jobs that repair the history can record a repair.
LEMMA OthersDoNotRepair ==
  ASSUME IInv, NEW s \in Sends,
         Serve(s) \/ GoOn(s) \/ Record(s) \/ Outside(s) \/ StopClicked \/ Stops
           \/ UNCHANGED vars,
         ~PrepareRuns(s), ~RecoverRuns(s)
  PROVE  v'.repairedThrough = v.repairedThrough
<1>1. CASE GoOn(s) \/ Record(s) \/ Outside(s) \/ StopClicked \/ Stops \/ UNCHANGED vars
  <2>1. CASE GoOn(s)
    BY <2>1 DEF GoOn, DoneResolves, DoneRejects, Prepare, Begin, BackoffEnds, PrepareStep,
                StreamEnds, ClosureSaves
  <2>2. CASE Record(s)
    BY <2>2 DEF Record, Records, FlushBatch, Persists
  <2>3. CASE Outside(s)
    BY <2>3 DEF Outside, SendMessages, RequestFails, Says, FinishesStep, StreamFails,
                StreamAborts
  <2>4. CASE StopClicked \/ Stops \/ UNCHANGED vars
    BY <2>4 DEF StopClicked, Stops, StopCloses, StopReturns, StopRecovers, vars
  <2> QED
    BY <1>1, <2>1, <2>2, <2>3, <2>4
<1>2. CASE Serve(s)
  <2>1. PICK b : b = Head(queue).batch
    OBVIOUS
  <2>2. CASE BeginRuns(s)
    <3>1. PICK c : c = BeginBatch(FirstHandle)
      OBVIOUS
    <3>2. Takes(c) \/ Throws(c)
      BY <2>2, <3>1 DEF BeginRuns
    <3> QED
      BY <3>1, <3>2, OnlyRepairsRepair
  <2>3. CASE \/ ScheduleRuns(s) \/ StartRuns(s) \/ CancelRuns(s) \/ NextRuns(s)
             \/ RecordRuns(s) \/ CloseRuns(s)
    <3>1. queue # <<>> /\ (Takes(b) \/ Throws(b))
      <4>1. CASE ScheduleRuns(s)
        BY <2>1, <4>1 DEF ScheduleRuns, Runs, RunsThen
      <4>2. CASE StartRuns(s) \/ CancelRuns(s) \/ NextRuns(s)
        BY <2>1, <4>2 DEF StartRuns, CancelRuns, NextRuns, Runs
      <4>3. CASE RecordRuns(s) \/ CloseRuns(s)
        BY <2>1, <4>3 DEF RecordRuns, CloseRuns, Runs
      <4> QED
        BY <2>3, <4>1, <4>2, <4>3
    <3>2. b \in Batches
      BY <2>1, <3>1, HeadBatch
    <3> QED
      BY <3>1, <3>2, OnlyRepairsRepair
  <2> QED
    BY <1>2, <2>2, <2>3 DEF Serve
<1> QED
  BY <1>1, <1>2

\* A repair closes the turn of no send, or of one whose closure failed.
LEMMA RepairsStep ==
  ASSUME IInv, [Next]_vars, v'.repairedThrough # v.repairedThrough, NEW t \in Sends, active = t
  PROVE  gate[t].closing = "failed"
<1>1. PICK s \in Sends :
        Serve(s) \/ GoOn(s) \/ Record(s) \/ Outside(s) \/ StopClicked \/ Stops
          \/ UNCHANGED vars
  BY DEF Next
<1>2. CASE PrepareRuns(s)
  <2>1. Runs("prepare", s) /\ "prepare" \in JobKinds
    BY <1>2 DEF PrepareRuns, JobKinds
  <2>2. tx[s].at = "preparing"
    BY <2>1, JobRuns DEF JobFits
  <2>3. active = None /\ None # t
    BY <2>2, WaitingFits, ChatAssumption DEF Sends
  <2> QED
    BY <2>3
<1>3. CASE RecoverRuns(s)
  <2>1. Runs("recover", s) /\ "recover" \in JobKinds
    BY <1>3 DEF RecoverRuns, JobKinds
  <2>2. gate[s].recovery = "running"
    BY <2>1, JobRuns DEF JobFits
  <2>3. GateFits(s) /\ SendFits(s)
    BY DEF IInv, Flow, GatesFit, SendsFit
  <2>4. gate[s].closing = "failed" /\ gate[s] # NoClosure
    BY <2>2, <2>3 DEF GateFits, NoClosure
  <2>5. tx[s].handle # None
    BY <2>3, <2>4 DEF SendFits, Untouched
  <2>6. active = s
    BY <2>2, <2>3, <2>4, <2>5 DEF GateFits, Registered
  <2> QED
    BY <2>4, <2>6
<1> QED
  BY <1>1, <1>2, <1>3, OthersDoNotRepair

\* A repair never closes a turn whose closure is still to come or in progress
\* (beforeOpen, recoverOrThrow, prepareOwnedSessionForContinuation).
THEOREM OnlyAbandonedAreRepaired == Spec => RepairsOnlyAbandoned
<1>1. IInv /\ [Next]_vars =>
        [v'.repairedThrough # v.repairedThrough =>
           \A s \in Sends : active = s /\ tx[s].handle.turn = v.openTurn =>
             gate[s].closing = "failed"]_vars
  BY RepairsStep
<1> QED
  BY <1>1, ChatInvariant, PTL DEF Spec, RepairsOnlyAbandoned
==============================================================================
