------------------------------ MODULE SessionStore ------------------------------
(***************************************************************************)
(* One durable session: the owner (SessionHistoryOwner in session-native/  *)
(* src/index.ts) over the JSONL adapter (JsonlSessionPersistence in        *)
(* jsonlPersistence.ts).                                                   *)
(*                                                                         *)
(* Writers go through the session's lane (#serializeAppend), one operation *)
(* at a time; an operation is cut at every await on the file system.       *)
(* Readers (list, inspect, readWindow on a session that is not cached) do  *)
(* not enter the lane: they read the files, and update the cached          *)
(* controller and the head when the read returns.                          *)
(*                                                                         *)
(* A commit is a record of its revision and an identity; it stands for a   *)
(* batch of events, so the revision also determines the tail sequence      *)
(* number and one comparison stands for both conflict checks.  Whether the *)
(* events leave a turn open (and a repair is appended) is a free choice    *)
(* here: SessionStore is about records, not about what they say.           *)
(***************************************************************************)
EXTENDS Naturals, Sequences, FiniteSets

CONSTANTS
  Readers,     (* callers that read outside the lane *)
  MaxCommits,  (* bound: commits written in a behaviour, the seed excluded *)
  MaxFaults,   (* bound: file system operations that fail *)
  MaxCrashes   (* bound: process crashes and power losses *)

ASSUME StoreAssumption ==
  /\ MaxCommits \in Nat /\ MaxFaults \in Nat /\ MaxCrashes \in Nat
  /\ IsFiniteSet(Readers)

None == 0                                   \* no controller
Objects == 1 .. (Cardinality(Readers) + 4)  \* bound: controllers referenced at once
Garbage == [rev |-> MaxCommits + 9, id |-> 0]  \* a line that is not a commit
Durabilities == {"memory", "written", "flushed"}

VARIABLES
  file,     \* the complete lines of events.jsonl
  torn,     \* bytes follow the last newline
  synced,   \* number of lines known to survive a power loss
  heap,     \* the SessionController objects: log, durable, pending
  current,  \* #controllers.get(session), None if absent
  head,     \* #heads.get(session): {} or the singleton of a revision
  lane,     \* the operation in the lane, see Idle
  reader,   \* the readers outside the lane
  nextId,   \* identity of the next commit
  faults,   \* file system failures so far
  crashes,  \* crashes so far
  acked     \* history: commits acknowledged as written and as flushed

vars == <<file, torn, synced, heap, current, head, lane, reader, nextId, faults,
          crashes, acked>>
disk == <<file, torn, synced>>
counters == <<nextId, faults, crashes>>

------------------------------------------------------------------------------
(* What is read from the disk. *)

Image == [lines |-> file, torn |-> torn]
NoImage == [lines |-> <<>>, torn |-> FALSE]

Valid(lines, n) == \A i \in 1 .. n : lines[i].rev = i - 1

\* #inspectDisk: the file is corrupt if it holds no commit, or a line whose
\* revision is not its index.
Corrupt(lines) == lines = <<>> \/ ~Valid(lines, Len(lines))

\* The revision #inspectDisk reports, if any: that of the last valid line.
LastValid(lines) ==
  {n - 1 : n \in {m \in 1 .. Len(lines) :
                    Valid(lines, m) /\ (m < Len(lines) => ~Valid(lines, m + 1))}}

------------------------------------------------------------------------------
(* The owner's memory, passed through the calls of one turn of the event     *)
(* loop as a record.                                                         *)

Memory == [current |-> current, heap |-> heap, head |-> head]
Blank == [current |-> None, heap |-> heap, head |-> {}]

Keep(m) == current' = m.current /\ heap' = m.heap /\ head' = m.head

Revision(m) == Len(m.heap[m.current].log) - 1

\* An object no one refers to.
Fresh ==
  CHOOSE o \in Objects :
    o \notin {current, lane.cached, lane.obj} \cup {reader[r].cached : r \in Readers}

\* persistence.inspect, called when the cached controller was c, has read the
\* disk as im: the cached controller afterwards...
NoPending(c) == c = None \/ heap[c].pending = <<>>

\* Mutant: a file with torn bytes is cached like a whole one.
CacheableTorn(c, im) == ~Corrupt(im.lines) /\ NoPending(c)

Cacheable(c, im) == ~Corrupt(im.lines) /\ NoPending(c) /\ ~im.torn

\* #adoptDisk
CachedFrom(im) == [log |-> im.lines, durable |-> Len(im.lines) - 1, pending |-> <<>>]

AfterInspect(c, im) ==
  IF Cacheable(c, im)
    THEN [Memory EXCEPT !.current = Fresh, !.heap[Fresh] = CachedFrom(im)]
  ELSE IF NoPending(c) /\ (Corrupt(im.lines) => c # None)
    THEN [Memory EXCEPT !.current = None]
  ELSE Memory

\* ... and what it reports: a controller with pending commits is trusted if
\* the disk is where it left it.
Moved(c, im) == ~NoPending(c) /\ heap[c].durable # Len(im.lines) - 1

Report(c, im) ==
  [corrupt |-> Corrupt(im.lines) \/ Moved(c, im),
   torn |-> ~Corrupt(im.lines) /\ im.torn,
   rev |-> IF Corrupt(im.lines) \/ NoPending(c) \/ Moved(c, im)
             THEN LastValid(im.lines) ELSE {Len(heap[c].log) - 1}]

------------------------------------------------------------------------------
(* The lane, and the calls its operations end in.  l is the operation, m the *)
(* owner's memory as the calls before left it.                               *)

Idle == [pc |-> "idle", op |-> "none", stage |-> "none", durability |-> "memory",
         expected |-> 0, cached |-> None, image |-> NoImage, obj |-> None,
         batch |-> <<>>, todo |-> <<>>, begun |-> FALSE]

Quiet == [pc |-> "idle", kind |-> "list", cached |-> None, image |-> NoImage]

\* dispose() ends the owner: a reader that returns later meets no state.
AfterOp == IF lane.op = "dispose" THEN [r \in Readers |-> Quiet] ELSE reader

\* The operation starts to read the disk.  Only the lane writes the file, so
\* what it reads is the file as it is now.
Reads(l, pc, m) ==
  /\ lane' = [l EXCEPT !.pc = pc, !.cached = m.current, !.image = Image]
  /\ Keep(m)
  /\ UNCHANGED <<disk, reader, counters, acked>>

\* Mutant: an operation that rejects does not release the lane.
RejectsHoldingLane(m) ==
  /\ lane' = lane
  /\ Keep(m)
  /\ UNCHANGED <<disk, reader, counters, acked>>

\* The operation rejects, leaving memory m.
Rejects(m) ==
  /\ lane' = Idle
  /\ Keep(m)
  /\ UNCHANGED <<disk, reader, counters, acked>>

\* append(), the repair of loadForContinuation() and flush() delete the head
\* when the adapter fails; the other calls of loadForContinuation() do not.
HeadAfterFailure(l) == IF l.op = "load" /\ l.stage # "repair" THEN head ELSE {}

\* The adapter writes a batch.
Writes(l, batch, m) ==
  /\ lane' = [l EXCEPT !.pc = "write", !.obj = m.current, !.batch = batch,
                       !.todo = batch, !.cached = None, !.image = NoImage]
  /\ Keep(m)
  /\ UNCHANGED <<disk, reader, faults, crashes, acked>>

\* Mutant: the new commit goes before the commits held in memory.
NewestFirst(pending, rec) == <<rec>> \o pending

\* The commits held in memory are written before the new one.
Batch(pending, rec) == Append(pending, rec)

\* persistence.append after #load.
AppendTo(l, m) ==
  LET rec == [rev |-> l.expected + 1, id |-> nextId]
      batch == Batch(m.heap[m.current].pending, rec)
  IN  \/ /\ Revision(m) # l.expected
         /\ Rejects([m EXCEPT !.head = {}])
      \/ /\ Revision(m) = l.expected /\ l.durability = "memory"
         /\ lane' = Idle
         /\ Keep([m EXCEPT !.heap[m.current].log = Append(@, rec),
                           !.heap[m.current].pending = batch,
                           !.head = {rec.rev}])
         /\ nextId' = nextId + 1
         /\ UNCHANGED <<disk, reader, faults, crashes, acked>>
      \/ /\ Revision(m) = l.expected /\ l.durability # "memory"
         /\ Writes(l, batch, m)
         /\ nextId' = nextId + 1

\* Mutant: the flush writes and does not sync.
FlushesUnsynced(l, m) ==
  /\ Writes(l, m.heap[m.current].pending, m)
  /\ UNCHANGED nextId

\* #flushController after #load.
FlushTo(l, m) ==
  /\ Writes([l EXCEPT !.durability = "flushed"], m.heap[m.current].pending, m)
  /\ UNCHANGED nextId

\* readWindow at the end of loadForContinuation().
WindowOf(l, m) ==
  /\ lane' = Idle
  /\ Keep([m EXCEPT !.head = {Revision(m)}])
  /\ UNCHANGED <<disk, reader, counters, acked>>

\* persistence.#load and the operation it was called for.
Load(l, m) ==
  IF m.current = None THEN Reads(l, "load", m)
  ELSE CASE l.stage \in {"append", "repair"} -> AppendTo(l, m)
         [] l.stage = "flush" -> FlushTo(l, m)
         [] l.stage = "window" -> WindowOf(l, m)

------------------------------------------------------------------------------
(* The owner's operations start when the lane is free.                       *)

\* append(): the head is looked up in #heads, or read by persistence.inspect.
\* One whose expectedRevision is not the head's changes nothing: no action.
BeginAppend(d) ==
  LET l == [Idle EXCEPT !.op = "append", !.stage = "append", !.durability = d]
  IN  /\ lane.pc = "idle"
      /\ nextId <= MaxCommits
      /\ \/ head = {} /\ Reads(l, "head", Memory)
         \/ \E r \in head : Load([l EXCEPT !.expected = r], Memory)

BeginFlush ==
  /\ lane.pc = "idle"
  /\ Load([Idle EXCEPT !.op = "flush", !.stage = "flush"], Memory)

BeginLoadForContinuation ==
  /\ lane.pc = "idle"
  /\ Reads([Idle EXCEPT !.op = "load"], "inspect", Memory)

\* dispose() waits for the lane; the adapter then flushes what it has cached.
BeginDispose ==
  /\ lane.pc = "idle"
  /\ current # None
  /\ FlushTo([Idle EXCEPT !.op = "dispose", !.stage = "flush"], Memory)

------------------------------------------------------------------------------
(* The disk read of the operation in the lane returns.                       *)

AfterRead == AfterInspect(lane.cached, lane.image)
ReadReport == Report(lane.cached, lane.image)

\* append() without a head: without a revision the append is refused.
HeadRead ==
  /\ lane.pc = "head"
  /\ \/ ReadReport.rev = {} /\ Rejects(AfterRead)
     \/ \E r \in ReadReport.rev :
          Load([lane EXCEPT !.expected = r], [AfterRead EXCEPT !.head = {r}])

\* #load refuses a corrupt or torn file.
LoadRead ==
  /\ lane.pc = "load"
  /\ \/ /\ ReadReport.corrupt \/ ReadReport.torn \/ AfterRead.current = None
        /\ Rejects([AfterRead EXCEPT !.head = HeadAfterFailure(lane)])
     \/ /\ ~ReadReport.corrupt /\ ~ReadReport.torn /\ AfterRead.current # None
        /\ Load(lane, AfterRead)

\* loadForContinuation(): a corrupt file is refused, torn bytes are discarded,
\* and an open history is repaired by a flushed append.
Continue(rev) ==
  \/ Load([lane EXCEPT !.stage = "flush"], AfterRead)
  \/ /\ nextId <= MaxCommits
     /\ rev # {}
     /\ \E r \in rev : Load([lane EXCEPT !.stage = "repair", !.durability = "flushed",
                                         !.expected = r], AfterRead)

InspectRead ==
  /\ lane.pc = "inspect"
  /\ \/ /\ ReadReport.corrupt
        /\ Rejects([AfterRead EXCEPT !.head = {}])
     \/ /\ ~ReadReport.corrupt /\ ReadReport.torn
        /\ \E r \in ReadReport.rev :
             Reads([lane EXCEPT !.expected = r], "discard", AfterRead)
     \/ /\ ~ReadReport.corrupt /\ ~ReadReport.torn
        /\ Continue(ReadReport.rev)

\* discardUncommittedTail: the tail must be the one that was reported.
DiscardRead ==
  /\ lane.pc = "discard"
  /\ IF ReadReport.torn /\ ReadReport.rev = {lane.expected}
       THEN /\ lane' = [lane EXCEPT !.pc = "truncate"]
            /\ Keep(AfterRead)
            /\ UNCHANGED <<disk, reader, counters, acked>>
       ELSE Rejects(AfterRead)

\* Mutant: the tail is cut one line too early.
TruncatesTooMuch ==
  /\ lane.pc = "truncate"
  /\ torn' = FALSE
  /\ file' = SubSeq(file, 1, Len(file) - 1)
  /\ synced' = Len(file')
  /\ lane' = [lane EXCEPT !.pc = "reinspect", !.cached = None,
                          !.image = [lines |-> file', torn |-> FALSE]]
  /\ Keep([Memory EXCEPT !.current = None])
  /\ UNCHANGED <<reader, counters, acked>>

\* The truncated file is synced and the cached controller dropped; the file is
\* read again.
Truncate ==
  /\ lane.pc = "truncate"
  /\ torn' = FALSE
  /\ synced' = Len(file)
  /\ lane' = [lane EXCEPT !.pc = "reinspect", !.cached = None,
                          !.image = [lines |-> file, torn |-> FALSE]]
  /\ Keep([Memory EXCEPT !.current = None])
  /\ UNCHANGED <<file, reader, counters, acked>>

TruncateFails ==
  /\ lane.pc = "truncate"
  /\ faults < MaxFaults
  /\ torn' \in {torn, FALSE}
  /\ lane' = Idle
  /\ faults' = faults + 1
  /\ UNCHANGED <<file, synced, heap, current, head, reader, nextId, crashes, acked>>

ReinspectRead ==
  /\ lane.pc = "reinspect"
  /\ Continue(ReadReport.rev)

------------------------------------------------------------------------------
(* Writing.                                                                  *)

\* Part of the next line is in the file.
WritePart ==
  /\ lane.pc = "write" /\ lane.todo # <<>>
  /\ ~torn
  /\ torn' = TRUE
  /\ lane' = [lane EXCEPT !.begun = TRUE]
  /\ UNCHANGED <<file, synced, heap, current, head, reader, counters, acked>>

\* The next line is complete.  Bytes that were in the file before spoil it.
WriteLine ==
  /\ lane.pc = "write" /\ lane.todo # <<>>
  /\ file' = Append(file, IF torn /\ ~lane.begun THEN Garbage ELSE Head(lane.todo))
  /\ torn' = FALSE
  /\ lane' = [lane EXCEPT !.todo = Tail(@), !.begun = FALSE]
  /\ UNCHANGED <<synced, heap, current, head, reader, counters, acked>>

\* Mutant: a flushed operation is not synced.
SyncedNever == synced

\* A flushed operation syncs the whole file.
SyncedAfterWrite == IF lane.durability = "flushed" THEN Len(file) ELSE synced

BatchSet == {lane.batch[i] : i \in 1 .. Len(lane.batch)}

\* What a finished write of the lane's batch promises.
Promoted(d) ==
  LET written == acked.written \cup BatchSet
  IN  [written |-> IF d = "flushed" THEN {} ELSE written,
       flushed |-> IF d = "flushed" THEN acked.flushed \cup written ELSE acked.flushed]

\* appendFile (and for a flushed operation the sync) returned: the controller
\* the operation holds is brought up to date.
WriteReturns ==
  LET o == lane.obj
      rec == lane.batch[Len(lane.batch)]
      appends == lane.stage \in {"append", "repair"}
      h == [heap EXCEPT ![o].pending = <<>>,
                        ![o].durable = IF lane.batch = <<>> THEN @ ELSE rec.rev,
                        ![o].log = IF appends THEN Append(@, rec) ELSE @]
      m == [Memory EXCEPT !.heap = h]
  IN  /\ lane.pc = "write" /\ lane.todo = <<>>
      /\ synced' = SyncedAfterWrite
      /\ acked' = Promoted(lane.durability)
      /\ CASE lane.op = "append" ->
                lane' = Idle /\ Keep([m EXCEPT !.head = {rec.rev}])
           [] lane.op = "flush" ->
                lane' = Idle /\ Keep(m)
           [] lane.op = "dispose" ->
                lane' = Idle /\ Keep([Blank EXCEPT !.heap = h])
           [] lane.op = "load" ->
                /\ lane' = [lane EXCEPT !.pc = "loaded", !.obj = None, !.batch = <<>>]
                /\ Keep(m)
      /\ reader' = AfterOp
      /\ UNCHANGED <<file, torn, counters>>

\* loadForContinuation() goes on after its repair or its flush.
LoadGoesOn ==
  /\ lane.pc = "loaded"
  /\ Load([lane EXCEPT !.stage = IF @ = "repair" THEN "flush" ELSE "window"], Memory)

\* appendFile or the sync fails: the cached controller is dropped, and with it
\* the commits that were only in memory.
WriteFails ==
  /\ lane.pc = "write"
  /\ lane.todo # <<>> \/ lane.durability = "flushed"
  /\ faults < MaxFaults
  /\ lane' = Idle
  /\ Keep([Blank EXCEPT !.head = HeadAfterFailure(lane)])
  /\ faults' = faults + 1
  /\ reader' = AfterOp
  /\ UNCHANGED <<disk, nextId, crashes, acked>>

------------------------------------------------------------------------------
(* Readers outside the lane: history.list and persistence.list ("list"),     *)
(* readWindow without a cached controller ("list" too: they do the same),    *)
(* and history.inspect ("inspect"), which sets the head.                     *)

BeginRead(r, k) ==
  /\ reader[r].pc = "idle"
  /\ reader' = [reader EXCEPT ![r] = [Quiet EXCEPT !.pc = "reading", !.kind = k,
                                                   !.cached = current]]
  /\ UNCHANGED <<disk, heap, current, head, lane, counters, acked>>

ReadDisk(r) ==
  /\ reader[r].pc = "reading"
  /\ reader' = [reader EXCEPT ![r].pc = "read", ![r].image = Image]
  /\ UNCHANGED <<disk, heap, current, head, lane, counters, acked>>

ReadReturns(r) ==
  LET c == reader[r].cached
      im == reader[r].image
      rep == Report(c, im)
      hd == IF reader[r].kind = "list" THEN head
            ELSE IF rep.corrupt \/ rep.torn THEN {} ELSE rep.rev
  IN  /\ reader[r].pc = "read"
      /\ Keep([AfterInspect(c, im) EXCEPT !.head = hd])
      /\ reader' = [reader EXCEPT ![r] = Quiet]
      /\ UNCHANGED <<disk, lane, counters, acked>>

------------------------------------------------------------------------------
(* Crashes.                                                                  *)

Restart ==
  /\ Keep(Blank)
  /\ lane' = Idle
  /\ reader' = [r \in Readers |-> Quiet]
  /\ crashes' = crashes + 1

ProcessCrash ==
  /\ crashes < MaxCrashes
  /\ Restart
  /\ UNCHANGED <<disk, nextId, faults, acked>>

\* A power loss leaves at least what was synced, and may cut a line.
PowerLoss ==
  /\ crashes < MaxCrashes
  /\ Restart
  /\ \E n \in synced .. Len(file) :
       /\ file' = SubSeq(file, 1, n)
       /\ synced' = n
       /\ torn' \in IF torn \/ n < Len(file) THEN BOOLEAN ELSE {FALSE}
  /\ acked' = [acked EXCEPT !.written = {}]
  /\ UNCHANGED <<nextId, faults>>

------------------------------------------------------------------------------
Seed == [rev |-> 0, id |-> 0]

\* prepare() has created the session with its seed.
Init ==
  /\ file = <<Seed>> /\ torn = FALSE
  /\ synced \in {0, 1}
  /\ heap = [o \in Objects |-> [log |-> <<Seed>>, durable |-> 0, pending |-> <<>>]]
  /\ current = 1
  /\ head = {0}
  /\ lane = Idle
  /\ reader = [r \in Readers |-> Quiet]
  /\ nextId = 1 /\ faults = 0 /\ crashes = 0
  /\ acked = [written |-> IF synced = 0 THEN {Seed} ELSE {},
              flushed |-> IF synced = 1 THEN {Seed} ELSE {}]

LaneStep ==
  \/ HeadRead \/ LoadRead \/ InspectRead \/ DiscardRead \/ ReinspectRead
  \/ Truncate \/ TruncateFails
  \/ WritePart \/ WriteLine \/ WriteReturns \/ WriteFails
  \/ LoadGoesOn

Next ==
  \/ \E d \in Durabilities : BeginAppend(d)
  \/ BeginFlush
  \/ BeginLoadForContinuation
  \/ BeginDispose
  \/ LaneStep
  \/ \E r \in Readers, k \in {"list", "inspect"} : BeginRead(r, k)
  \/ \E r \in Readers : ReadDisk(r)
  \/ \E r \in Readers : ReadReturns(r)
  \/ ProcessCrash
  \/ PowerLoss

\* The operation in the lane ends: file system calls return.  Nothing
\* is assumed of callers, readers or crashes.
Spec == Init /\ [][Next]_vars /\ WF_vars(LaneStep)

------------------------------------------------------------------------------
Records == [rev : Nat, id : Nat]
Images == [lines : Seq(Records), torn : BOOLEAN]
Controllers == [log : Seq(Records), durable : Nat, pending : Seq(Records)]
Lanes == [pc : {"idle", "head", "load", "inspect", "discard", "truncate",
                "reinspect", "write", "loaded"},
          op : {"none", "append", "flush", "load", "dispose"},
          stage : {"none", "append", "repair", "flush", "window"},
          durability : Durabilities, expected : Nat,
          cached : Objects \cup {None}, image : Images, obj : Objects \cup {None},
          batch : Seq(Records), todo : Seq(Records), begun : BOOLEAN]
ReaderStates == [pc : {"idle", "reading", "read"}, kind : {"list", "inspect"},
                 cached : Objects \cup {None}, image : Images]

TypeOK ==
  /\ file \in Seq(Records) /\ torn \in BOOLEAN
  /\ synced \in 0 .. Len(file)
  /\ heap \in [Objects -> Controllers]
  /\ current \in Objects \cup {None}
  /\ head \in SUBSET Nat
  /\ lane \in Lanes
  /\ reader \in [Readers -> ReaderStates]
  /\ nextId \in Nat /\ faults \in Nat /\ crashes \in Nat
  /\ acked \in [written : SUBSET Records, flushed : SUBSET Records]

\* No order of appends, failed writes, crashes, discarded tails and repairs
\* leaves a line in the file that #inspectDisk refuses: revisions are allocated
\* once each, and nothing is written behind torn bytes.
FileNeverCorrupt == Valid(file, Len(file))

\* What was acknowledged as written is in the file at its revision until a
\* power loss; what was acknowledged as flushed is there, synced, for good.
AcksKept ==
  /\ \A c \in acked.written \cup acked.flushed : c.rev < Len(file) /\ file[c.rev + 1] = c
  /\ \A c \in acked.flushed : c.rev < synced

\* loadForContinuation() succeeds only with a file that is whole and synced, and
\* hands over exactly what the file holds.
Continued ==
  /\ lane.pc \in {"load", "loaded"} /\ lane.op = "load" /\ lane'.pc = "idle"
  /\ lane.stage = "window" \/ (lane.pc = "loaded" /\ lane.stage = "flush")
  /\ crashes' = crashes /\ current' # None

ContinuesFromDurable ==
  [][Continued => /\ ~torn /\ ~Corrupt(file) /\ synced = Len(file)
                  /\ heap'[current'].log = file]_vars

\* Whatever readers do to the caches, a flushed commit stays in the synced part
\* of the file as long as no write fails.
FlushedLinesStay == \A c \in acked.flushed : \E i \in 1 .. synced : file[i] = c

\* Every operation ends and frees the lane for the next one.
LaneMovesOn == lane.pc # "idle" ~> lane.pc = "idle"

\* The session is the append-only log the contract describes: what the cached
\* controller holds, or what the file holds once that is more.
Log == INSTANCE SessionLog WITH
  log <- IF current # None /\ Len(heap[current].log) > Len(file)
           THEN heap[current].log ELSE file,
  written <- Len(file),
  stable <- synced,
  Ids <- 0 .. MaxCommits

ImplementsSessionLog == Log!LogSpec
==============================================================================
