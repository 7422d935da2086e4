-------------------------- MODULE SessionStoreProofs --------------------------
(***************************************************************************)
(* Proofs about SessionStore.  The types hold whoever reads outside the    *)
(* lane; what the file and the acknowledgements keep, what continuing a    *)
(* session hands over, and the refinement of SessionLog are proved for a   *)
(* session that nobody reads outside the lane, for every number of         *)
(* commits, failures and crashes.                                          *)
(***************************************************************************)
EXTENDS SessionStore, SequenceTheorems, FiniteSetTheorems, TLAPS

\* A controller holds at least the seed.
Filled == {h \in Controllers : h.log # <<>>}

Memories == [current : Objects \cup {None}, heap : [Objects -> Filled], head : SUBSET Nat]

\* A lane whose operation calls #load knows what it is called for.
Called(l) ==
  /\ l.op # "none"
  /\ l.stage \in {"append", "repair", "flush", "window"}
  /\ l.op = "append" => l.stage = "append"
  /\ l.op = "load" => l.stage # "append" /\ (l.stage = "repair" => l.durability = "flushed")

\* What the operation in the lane has become, whatever the memory.
Shaped(l) ==
  /\ l.pc # "idle" => l.op # "none"
  /\ l.pc \in {"inspect", "discard", "truncate", "reinspect", "loaded"} => l.op = "load"
  /\ l.pc \in {"head", "load"} => Called(l)
  /\ l.pc = "write" => /\ l.obj \in Objects
                       /\ l.stage \in {"append", "repair", "flush"}
                       /\ l.stage # "flush" => l.batch # <<>>
                       /\ l.op = "append" => l.stage = "append"
                       /\ l.op = "load" => l.stage # "append" /\ l.durability = "flushed"
  /\ l.pc = "loaded" => l.stage \in {"repair", "flush"}

ShapeInv == heap \in [Objects -> Filled] /\ Shaped(lane)

\* Commits with the revisions of a whole history.
Numbered(s) == \A i \in 1 .. Len(s) : s[i].rev = i - 1 /\ s[i].id <= MaxCommits

\* A log that starts with the lines of s.
StartsWith(log, s) == \A i \in 1 .. Len(s) : s[i] = log[i]

\* The lines of a log behind its first n.
Behind(n, log, s) == n + Len(s) = Len(log) /\ \A i \in 1 .. Len(s) : s[i] = log[n + i]

\* A controller that follows the file: its log is the file and the commits held
\* in memory behind it.
Follows(c, h) ==
  c # None => /\ ~torn /\ Numbered(h[c].log) /\ h[c].durable + 1 = Len(file)
              /\ StartsWith(h[c].log, file) /\ Behind(Len(file), h[c].log, h[c].pending)

\* What the file will hold once the lines still to write are written: the lines
\* of the controller, and the new commit of an append.
Full == IF lane.stage = "flush" THEN heap[lane.obj].log
        ELSE Append(heap[lane.obj].log, lane.batch[Len(lane.batch)])

WriteInv ==
  lane.pc = "write" =>
    /\ lane.obj = current /\ (torn <=> lane.begun) /\ (torn => lane.todo # <<>>)
    /\ Numbered(Full) /\ StartsWith(Full, file) /\ Behind(Len(file), Full, lane.todo)
    /\ Behind(heap[lane.obj].durable + 1, Full, lane.batch) /\ Len(lane.todo) <= Len(lane.batch)

\* Between two steps of an operation nobody else touches the disk or the memory.
LaneInv ==
  /\ lane.pc # "write" => Follows(current, heap) /\ ~lane.begun
  /\ lane.pc \in {"head", "load", "inspect", "discard", "reinspect"} =>
       lane.cached = current /\ lane.image = Image
  /\ lane.pc \in {"load", "truncate", "reinspect"} => current = None
  /\ lane.pc \in {"head", "load"} /\ lane.stage \in {"append", "repair"} => nextId <= MaxCommits
  /\ lane.pc \in {"head", "load"} => lane.stage # "window"
  /\ lane.pc = "loaded" => /\ current # None /\ heap[current].pending = <<>>
                           /\ lane.stage = "flush" => synced = Len(file)

DiskInv == Numbered(file) /\ AcksKept

TInv == TypeOK /\ ShapeInv
IInv == TInv /\ LaneInv /\ WriteInv /\ DiskInv

------------------------------------------------------------------------------
(* Types: the memory, and what is read from the disk.                        *)

\* The initial values of a lane, a reader and a controller have their types.
LEMMA Constants ==
  /\ NoImage \in Images /\ Idle \in Lanes /\ Quiet \in ReaderStates
  /\ Objects \subseteq Nat \ {0} /\ 1 \in Objects
  /\ Cardinality(Readers) \in Nat
<1>1. Cardinality(Readers) \in Nat
  BY FS_CardinalityType, StoreAssumption
<1>2. <<>> \in Seq(Records)
  BY EmptySeq
<1> QED
  BY <1>1, <1>2 DEF NoImage, Images, Idle, Lanes, Quiet, ReaderStates, Objects, None, Durabilities

\* There are more controllers than references to them: the owner can always
\* create another one.
LEMMA FreshIsObject ==
  ASSUME TypeOK
  PROVE  Fresh \in Objects
<1> DEFINE Cached == {reader[r].cached : r \in Readers}
           Three == {current, lane.cached, lane.obj}
           f == [r \in Readers |-> reader[r].cached]
<1>1. IsFiniteSet(Cached) /\ Cardinality(Cached) <= Cardinality(Readers)
  <2>1. f \in Surjection(Readers, Cached)
    BY DEF Surjection
  <2> QED
    BY <2>1, FS_Surjection, StoreAssumption
<1>2. IsFiniteSet(Three) /\ Cardinality(Three) <= 3
  <2>1. IsFiniteSet({current}) /\ Cardinality({current}) = 1
    BY FS_Singleton
  <2>2. IsFiniteSet({current} \cup {lane.cached}) /\ Cardinality({current} \cup {lane.cached}) <= 2
    BY <2>1, FS_AddElement
  <2>3. /\ IsFiniteSet({current} \cup {lane.cached} \cup {lane.obj})
        /\ Cardinality({current} \cup {lane.cached} \cup {lane.obj})
             \in {Cardinality({current} \cup {lane.cached}), Cardinality({current} \cup {lane.cached}) + 1}
    BY <2>2, FS_AddElement
  <2>4. Three = {current} \cup {lane.cached} \cup {lane.obj}
    OBVIOUS
  <2>5. Cardinality({current} \cup {lane.cached}) \in Nat
    BY <2>2, FS_CardinalityType
  <2> QED
    BY <2>2, <2>3, <2>4, <2>5
<1>3. IsFiniteSet(Three \cup Cached) /\ Cardinality(Three \cup Cached) <= Cardinality(Readers) + 3
  <2>1. IsFiniteSet(Three \cap Cached)
    BY <1>1, FS_Intersection
  <2>2. Cardinality(Three \cap Cached) \in Nat /\ Cardinality(Three) \in Nat /\ Cardinality(Cached) \in Nat
    BY <1>1, <1>2, <2>1, FS_CardinalityType
  <2>3. /\ IsFiniteSet(Three \cup Cached)
        /\ Cardinality(Three \cup Cached)
             = Cardinality(Three) + Cardinality(Cached) - Cardinality(Three \cap Cached)
    BY <1>1, <1>2, FS_Union
  <2> HIDE DEF Three, Cached
  <2> QED
    BY <1>1, <1>2, <2>2, <2>3, Constants
<1>4. \E o \in Objects : o \notin Three \cup Cached
  <2> SUFFICES ASSUME Objects \subseteq Three \cup Cached PROVE FALSE
    OBVIOUS
  <2>1. Cardinality(Objects) <= Cardinality(Three \cup Cached)
    BY <1>3, FS_Subset
  <2>2. Cardinality(Objects) = Cardinality(Readers) + 4
    BY FS_Interval, Constants DEF Objects
  <2>3. Cardinality(Three \cup Cached) \in Nat
    BY <1>3, FS_CardinalityType
  <2> HIDE DEF Three, Cached
  <2> QED
    BY <1>3, <2>1, <2>2, <2>3, Constants
<1> QED
  BY <1>4 DEF Fresh

\* The memory of the owner, before and after a restart.
LEMMA MemoryTypes ==
  ASSUME TInv
  PROVE  Memory \in Memories /\ Blank \in Memories /\ Image \in Images
  BY DEF TInv, TypeOK, ShapeInv, Memory, Blank, Image, Memories, Images, None

\* inspect leaves the owner's memory typed, whatever was read and cached.
LEMMA AfterInspectType ==
  ASSUME TInv, NEW c \in Objects \cup {None}, NEW im \in Images
  PROVE  AfterInspect(c, im) \in Memories
<1>1. CASE Cacheable(c, im)
  <2>1. im.lines \in Seq(Records) /\ im.lines # <<>>
    BY <1>1 DEF Cacheable, Corrupt, Images
  <2>2. Len(im.lines) - 1 \in Nat
    BY <2>1, EmptySeq
  <2>3. CachedFrom(im) \in Filled
    BY <2>1, <2>2, EmptySeq DEF CachedFrom, Filled, Controllers
  <2>4. [Memory EXCEPT !.current = Fresh, !.heap[Fresh] = CachedFrom(im)] \in Memories
    BY <2>3, MemoryTypes, FreshIsObject DEF TInv, Memories
  <2> QED
    BY <1>1, <2>4 DEF AfterInspect
<1>2. CASE ~Cacheable(c, im)
  BY <1>2, MemoryTypes DEF AfterInspect, Memories, None
<1> QED
  BY <1>1, <1>2

\* What inspect reports is a revision, or none.
LEMMA ReportType ==
  ASSUME TInv, NEW c \in Objects \cup {None}, NEW im \in Images
  PROVE  Report(c, im).rev \in SUBSET Nat
<1>1. LastValid(im.lines) \in SUBSET Nat
  <2>1. Len(im.lines) \in Nat
    BY LenProperties DEF Images
  <2> QED
    BY <2>1 DEF LastValid
<1>2. ASSUME ~NoPending(c) PROVE Len(heap[c].log) - 1 \in Nat
  <2>1. c \in Objects
    BY <1>2 DEF NoPending
  <2>2. heap[c].log \in Seq(Records) /\ heap[c].log # <<>>
    BY <2>1 DEF TInv, ShapeInv, Filled, Controllers
  <2> QED
    BY <2>2, EmptySeq
<1> QED
  BY <1>1, <1>2 DEF Report

------------------------------------------------------------------------------
(* Types: the calls an operation ends in.                                    *)

\* A step that keeps a typed memory and gives the lane a typed operation.
LEMMA StepTypes ==
  ASSUME TInv, NEW m \in Memories, Keep(m), lane' \in Lanes, Shaped(lane'), nextId' \in Nat,
         UNCHANGED <<disk, reader, faults, crashes, acked>>
  PROVE  TInv'
BY DEF TInv, TypeOK, ShapeInv, Keep, Memories, Filled, Controllers, disk

\* A read of the disk.
LEMMA ReadsTypes ==
  ASSUME TInv, NEW m \in Memories, NEW l \in Lanes, l.op # "none",
         NEW pc \in {"head", "load", "inspect", "discard"},
         IF pc \in {"head", "load"} THEN Called(l) ELSE l.op = "load",
         Reads(l, pc, m)
  PROVE  TInv'
<1>1. lane' \in Lanes /\ Shaped(lane')
  BY MemoryTypes DEF Reads, Lanes, Memories, Shaped, Called
<1> QED
  BY <1>1, StepTypes DEF Reads, counters, TInv, TypeOK

\* A rejection.
LEMMA RejectsTypes ==
  ASSUME TInv, NEW m \in Memories, Rejects(m)
  PROVE  TInv'
<1>1. lane' \in Lanes /\ Shaped(lane')
  BY Constants DEF Rejects, Idle, Shaped
<1> QED
  BY <1>1, StepTypes DEF Rejects, counters, TInv, TypeOK

\* The start of a write.
LEMMA WritesTypes ==
  ASSUME TInv, NEW m \in Memories, NEW l \in Lanes, m.current # None, l.op # "none",
         NEW batch \in Seq(Records), l.stage \in {"append", "repair", "flush"},
         l.stage # "flush" => batch # <<>>,
         l.op = "append" => l.stage = "append",
         l.op = "load" => l.stage # "append" /\ l.durability = "flushed",
         Writes(l, batch, m), nextId' \in Nat
  PROVE  TInv'
<1>1. lane' \in Lanes /\ Shaped(lane')
  BY Constants, EmptySeq DEF Writes, Lanes, Memories, Shaped
<1> QED
  BY <1>1, StepTypes DEF Writes

\* append and flush after #load, and what #load is called for.
LEMMA AppendToTypes ==
  ASSUME TInv, NEW m \in Memories, NEW l \in Lanes, m.current # None, Called(l),
         l.stage \in {"append", "repair"}, AppendTo(l, m)
  PROVE  TInv'
<1> DEFINE rec == [rev |-> l.expected + 1, id |-> nextId]
           h == m.heap[m.current]
<1>1. nextId \in Nat /\ nextId + 1 \in Nat /\ rec \in Records
  BY DEF TInv, TypeOK, Lanes, Records
<1>2. m.current \in Objects /\ h \in Controllers
  BY DEF Memories, Filled
<1>3. /\ Append(h.log, rec) \in Seq(Records) /\ Append(h.log, rec) # <<>>
      /\ Append(h.pending, rec) \in Seq(Records) /\ Append(h.pending, rec) # <<>>
  BY <1>1, <1>2, AppendProperties DEF Controllers
<1>4. CASE Rejects([m EXCEPT !.head = {}])
  BY <1>4, RejectsTypes DEF Memories
<1>5. CASE /\ lane' = Idle /\ nextId' = nextId + 1
           /\ Keep([m EXCEPT !.heap[m.current].log = Append(@, rec),
                             !.heap[m.current].pending = Append(h.pending, rec),
                             !.head = {rec.rev}])
           /\ UNCHANGED <<disk, reader, faults, crashes, acked>>
  <2>1. [m EXCEPT !.heap[m.current].log = Append(@, rec),
                  !.heap[m.current].pending = Append(h.pending, rec),
                  !.head = {rec.rev}] \in Memories
    BY <1>1, <1>2, <1>3 DEF Memories, Filled, Controllers, Records
  <2>2. lane' \in Lanes /\ Shaped(lane')
    BY <1>5, Constants DEF Idle, Shaped
  <2> QED
    BY <1>1, <1>5, <2>1, <2>2, StepTypes
<1>6. CASE Writes(l, Append(h.pending, rec), m) /\ nextId' = nextId + 1
  BY <1>1, <1>3, <1>6, WritesTypes DEF Called
<1> QED
  BY <1>4, <1>5, <1>6 DEF AppendTo, Batch

\* A flush keeps the types, whether it writes or has nothing to write.
LEMMA FlushToTypes ==
  ASSUME TInv, NEW m \in Memories, NEW l \in Lanes, m.current # None,
         l.op \in {"flush", "load", "dispose"}, l.stage = "flush", FlushTo(l, m)
  PROVE  TInv'
<1>1. [l EXCEPT !.durability = "flushed"] \in Lanes
  BY DEF Lanes, Durabilities
<1>2. m.heap[m.current].pending \in Seq(Records)
  BY DEF Memories, Filled, Controllers
<1>3. nextId' \in Nat
  BY DEF FlushTo, TInv, TypeOK
<1>4. /\ [l EXCEPT !.durability = "flushed"].op = l.op
      /\ [l EXCEPT !.durability = "flushed"].stage = l.stage
      /\ [l EXCEPT !.durability = "flushed"].durability = "flushed"
  BY DEF Lanes
<1> QED
  BY <1>1, <1>2, <1>3, <1>4, WritesTypes DEF FlushTo

\* An operation that ends with a window of the log keeps the types.
LEMMA WindowOfTypes ==
  ASSUME TInv, NEW m \in Memories, NEW l \in Lanes, m.current # None, WindowOf(l, m)
  PROVE  TInv'
<1>1. m.heap[m.current].log \in Seq(Records) /\ m.heap[m.current].log # <<>>
  BY DEF Memories, Filled, Controllers
<1>2. Revision(m) \in Nat
  BY <1>1, EmptySeq DEF Revision
<1>3. [m EXCEPT !.head = {Revision(m)}] \in Memories
  BY <1>2 DEF Memories
<1>4. lane' \in Lanes /\ Shaped(lane')
  BY Constants DEF WindowOf, Idle, Shaped
<1> QED
  BY <1>3, <1>4, StepTypes DEF WindowOf, counters, TInv, TypeOK

\* #load keeps the types, whether it reads or finds the session in memory.
LEMMA LoadTypes ==
  ASSUME TInv, NEW m \in Memories, NEW l \in Lanes, Called(l), Load(l, m)
  PROVE  TInv'
<1>1. CASE m.current = None
  BY <1>1, ReadsTypes DEF Load, Called
<1>2. CASE m.current # None /\ l.stage \in {"append", "repair"}
  BY <1>2, AppendToTypes DEF Load
<1>3. CASE m.current # None /\ l.stage = "flush"
  BY <1>3, FlushToTypes DEF Load, Called, Lanes
<1>4. CASE m.current # None /\ l.stage = "window"
  BY <1>4, WindowOfTypes DEF Load
<1> QED
  BY <1>1, <1>2, <1>3, <1>4 DEF Called

------------------------------------------------------------------------------
(* Types: the steps.                                                         *)

\* The memory after a read, and the revision the read reports, have their types.
LEMMA AfterReadTypes ==
  ASSUME TInv
  PROVE  AfterRead \in Memories /\ ReadReport.rev \in SUBSET Nat
<1>1. lane.cached \in Objects \cup {None} /\ lane.image \in Images
  BY DEF TInv, TypeOK, Lanes
<1> QED
  BY <1>1, AfterInspectType, ReportType DEF AfterRead, ReadReport

\* An append that begins keeps the types.
LEMMA BeginAppendTypes ==
  ASSUME TInv, NEW d \in Durabilities, BeginAppend(d)
  PROVE  TInv'
<1> DEFINE l == [Idle EXCEPT !.op = "append", !.stage = "append", !.durability = d]
<1>1. l \in Lanes /\ Called(l) /\ l.op # "none"
  BY Constants DEF Lanes, Idle, Called
<1>2. \A r \in Nat : [l EXCEPT !.expected = r] \in Lanes /\ Called([l EXCEPT !.expected = r])
  BY <1>1 DEF Lanes, Called
<1>3. head \subseteq Nat
  BY DEF TInv, TypeOK
<1> HIDE DEF l
<1>4. CASE Reads(l, "head", Memory)
  BY <1>1, <1>4, MemoryTypes, ReadsTypes
<1>5. CASE \E r \in head : Load([l EXCEPT !.expected = r], Memory)
  BY <1>2, <1>3, <1>5, MemoryTypes, LoadTypes
<1> QED
  BY <1>4, <1>5 DEF BeginAppend, l

\* A flush that begins keeps the types.
LEMMA BeginFlushTypes ==
  ASSUME TInv, BeginFlush
  PROVE  TInv'
<1> DEFINE l == [Idle EXCEPT !.op = "flush", !.stage = "flush"]
<1>1. l \in Lanes /\ Called(l)
  BY Constants DEF Lanes, Idle, Called
<1> QED
  BY <1>1, MemoryTypes, LoadTypes DEF BeginFlush

\* A load for continuation that begins keeps the types.
LEMMA BeginLoadForContinuationTypes ==
  ASSUME TInv, BeginLoadForContinuation
  PROVE  TInv'
<1> DEFINE l == [Idle EXCEPT !.op = "load"]
<1>1. l \in Lanes /\ l.op = "load"
  BY Constants DEF Lanes, Idle
<1> QED
  BY <1>1, MemoryTypes, ReadsTypes DEF BeginLoadForContinuation

\* A disposal that begins keeps the types.
LEMMA BeginDisposeTypes ==
  ASSUME TInv, BeginDispose
  PROVE  TInv'
<1> DEFINE l == [Idle EXCEPT !.op = "dispose", !.stage = "flush"]
<1>1. l \in Lanes /\ l.op = "dispose" /\ l.stage = "flush"
  BY Constants DEF Lanes, Idle
<1>2. Memory.current # None /\ FlushTo(l, Memory)
  BY DEF BeginDispose, Memory
<1> QED
  BY <1>1, <1>2, MemoryTypes, FlushToTypes

\* Reading the head of the file keeps the types.
LEMMA HeadReadTypes ==
  ASSUME TInv, HeadRead
  PROVE  TInv'
<1>1. lane \in Lanes /\ Called(lane)
  BY DEF TInv, TypeOK, ShapeInv, Shaped, HeadRead
<1>2. \A r \in Nat : /\ [lane EXCEPT !.expected = r] \in Lanes
                     /\ Called([lane EXCEPT !.expected = r])
                     /\ [AfterRead EXCEPT !.head = {r}] \in Memories
  BY <1>1, AfterReadTypes DEF Lanes, Called, Memories
<1>3. CASE Rejects(AfterRead)
  BY <1>3, AfterReadTypes, RejectsTypes
<1>4. CASE \E r \in ReadReport.rev :
             Load([lane EXCEPT !.expected = r], [AfterRead EXCEPT !.head = {r}])
  BY <1>2, <1>4, AfterReadTypes, LoadTypes
<1> QED
  BY <1>3, <1>4 DEF HeadRead

\* Reading the file to load it keeps the types.
LEMMA LoadReadTypes ==
  ASSUME TInv, LoadRead
  PROVE  TInv'
<1>1. lane \in Lanes /\ Called(lane)
  BY DEF TInv, TypeOK, ShapeInv, Shaped, LoadRead
<1>2. [AfterRead EXCEPT !.head = HeadAfterFailure(lane)] \in Memories
  BY AfterReadTypes DEF Memories, HeadAfterFailure, TInv, TypeOK
<1> QED
  BY <1>1, <1>2, AfterReadTypes, RejectsTypes, LoadTypes DEF LoadRead

\* The end of loadForContinuation, after a read that found the file whole.
LEMMA ContinueTypes ==
  ASSUME TInv, lane.op = "load", NEW rev \in SUBSET Nat, Continue(rev)
  PROVE  TInv'
<1>1. lane \in Lanes
  BY DEF TInv, TypeOK
<1>2. [lane EXCEPT !.stage = "flush"] \in Lanes /\ Called([lane EXCEPT !.stage = "flush"])
  BY <1>1 DEF Lanes, Called
<1>3. \A r \in Nat :
        /\ [lane EXCEPT !.stage = "repair", !.durability = "flushed", !.expected = r] \in Lanes
        /\ Called([lane EXCEPT !.stage = "repair", !.durability = "flushed", !.expected = r])
  BY <1>1 DEF Lanes, Called, Durabilities
<1>4. CASE Load([lane EXCEPT !.stage = "flush"], AfterRead)
  BY <1>2, <1>4, AfterReadTypes, LoadTypes
<1>5. CASE \E r \in rev :
             Load([lane EXCEPT !.stage = "repair", !.durability = "flushed", !.expected = r],
                  AfterRead)
  BY <1>3, <1>5, AfterReadTypes, LoadTypes
<1> QED
  BY <1>4, <1>5 DEF Continue

\* Inspecting the tail keeps the types.
LEMMA InspectReadTypes ==
  ASSUME TInv, InspectRead
  PROVE  TInv'
<1>1. lane.op = "load"
  BY DEF InspectRead, TInv, ShapeInv, Shaped
<1>2. \A r \in Nat : [lane EXCEPT !.expected = r] \in Lanes /\ [lane EXCEPT !.expected = r].op = "load"
  BY <1>1 DEF TInv, TypeOK, Lanes
<1>3. [AfterRead EXCEPT !.head = {}] \in Memories
  BY AfterReadTypes DEF Memories
<1>4. CASE Rejects([AfterRead EXCEPT !.head = {}])
  BY <1>3, <1>4, RejectsTypes
<1>5. CASE \E r \in ReadReport.rev : Reads([lane EXCEPT !.expected = r], "discard", AfterRead)
  BY <1>2, <1>5, AfterReadTypes, ReadsTypes
<1>6. CASE Continue(ReadReport.rev)
  BY <1>1, <1>6, AfterReadTypes, ContinueTypes
<1> QED
  BY <1>4, <1>5, <1>6 DEF InspectRead

\* Reading the tail to discard it keeps the types.
LEMMA DiscardReadTypes ==
  ASSUME TInv, DiscardRead
  PROVE  TInv'
<1>1. CASE Rejects(AfterRead)
  BY <1>1, AfterReadTypes, RejectsTypes
<1>2. CASE /\ lane' = [lane EXCEPT !.pc = "truncate"]
           /\ Keep(AfterRead)
           /\ UNCHANGED <<disk, reader, counters, acked>>
  <2>1. lane' \in Lanes /\ Shaped(lane')
    BY <1>2 DEF DiscardRead, TInv, TypeOK, ShapeInv, Shaped, Lanes
  <2> QED
    BY <1>2, <2>1, AfterReadTypes, StepTypes DEF counters, TInv, TypeOK
<1> QED
  BY <1>1, <1>2 DEF DiscardRead

\* Cutting the torn tail keeps the types.
LEMMA TruncateTypes ==
  ASSUME TInv, Truncate
  PROVE  TInv'
<1>1. [lines |-> file, torn |-> FALSE] \in Images /\ Len(file) \in Nat
  BY LenProperties DEF TInv, TypeOK, Images
<1>2. lane' \in Lanes /\ Shaped(lane')
  BY <1>1 DEF Truncate, TInv, TypeOK, ShapeInv, Shaped, Lanes
<1>3. [Memory EXCEPT !.current = None] \in Memories
  BY MemoryTypes DEF Memories
<1>4. heap' \in [Objects -> Filled] /\ current' \in Objects \cup {None} /\ head' \in SUBSET Nat
  BY <1>3 DEF Truncate, Keep, Memories
<1>5. heap' \in [Objects -> Controllers]
  BY <1>4 DEF Filled
<1>6. torn' \in BOOLEAN
  BY DEF Truncate
<1>7. synced' \in 0 .. Len(file')
  BY <1>1 DEF Truncate
<1>8. file' = file /\ UNCHANGED <<reader, nextId, faults, crashes, acked>>
  BY DEF Truncate, counters
<1> QED
  BY <1>2, <1>4, <1>5, <1>6, <1>7, <1>8 DEF TInv, TypeOK, ShapeInv

\* A truncation that fails keeps the types.
LEMMA TruncateFailsTypes ==
  ASSUME TInv, TruncateFails
  PROVE  TInv'
<1>1. lane' \in Lanes /\ Shaped(lane')
  BY Constants DEF TruncateFails, Idle, Shaped
<1>2. torn' \in BOOLEAN
  BY DEF TruncateFails, TInv, TypeOK
<1>3. /\ UNCHANGED <<file, synced, heap, current, head, reader, nextId, crashes, acked>>
      /\ faults' = faults + 1
  BY DEF TruncateFails
<1> QED
  BY <1>1, <1>2, <1>3 DEF TInv, TypeOK, ShapeInv

\* A part of a line that reaches the file keeps the types.
LEMMA WritePartTypes ==
  ASSUME TInv, WritePart
  PROVE  TInv'
<1>1. lane' \in Lanes /\ Shaped(lane')
  BY DEF WritePart, TInv, TypeOK, ShapeInv, Shaped, Lanes
<1> QED
  BY <1>1 DEF WritePart, TInv, TypeOK, ShapeInv, counters

\* A line that reaches the file keeps the types.
LEMMA WriteLineTypes ==
  ASSUME TInv, WriteLine
  PROVE  TInv'
<1> DEFINE line == IF torn /\ ~lane.begun THEN Garbage ELSE Head(lane.todo)
<1>1. file \in Seq(Records) /\ lane.todo \in Seq(Records) /\ lane.todo # <<>>
  BY DEF WriteLine, TInv, TypeOK, Lanes
<1>2. Tail(lane.todo) \in Seq(Records) /\ Head(lane.todo) \in Records
  BY <1>1, HeadTailProperties
<1>3. line \in Records
  BY <1>2, StoreAssumption DEF Garbage, Records
<1>4. file' \in Seq(Records) /\ Len(file') = Len(file) + 1 /\ Len(file) \in Nat
  BY <1>1, <1>3, AppendProperties, LenProperties DEF WriteLine
<1>5. lane' \in Lanes /\ Shaped(lane')
  BY <1>2 DEF WriteLine, TInv, TypeOK, ShapeInv, Shaped, Lanes
<1>6. torn' \in BOOLEAN
  BY DEF WriteLine
<1>7. synced' \in 0 .. Len(file')
  BY <1>4 DEF WriteLine, TInv, TypeOK
<1>8. UNCHANGED <<heap, current, head, reader, nextId, faults, crashes, acked>>
  BY DEF WriteLine, counters
<1> QED
  BY <1>4, <1>5, <1>6, <1>7, <1>8 DEF TInv, TypeOK, ShapeInv

\* The lane is well formed when its operation ends.
LEMMA AfterOpType ==
  ASSUME TInv
  PROVE  AfterOp \in [Readers -> ReaderStates]
BY Constants DEF AfterOp, TInv, TypeOK

\* A write that returns keeps the types.
LEMMA WriteReturnsTypes ==
  ASSUME TInv, WriteReturns
  PROVE  TInv'
<1> DEFINE o == lane.obj
           rec == lane.batch[Len(lane.batch)]
           appends == lane.stage \in {"append", "repair"}
           h == [heap EXCEPT ![o].pending = <<>>,
                             ![o].durable = IF lane.batch = <<>> THEN @ ELSE rec.rev,
                             ![o].log = IF appends THEN Append(@, rec) ELSE @]
           m == [Memory EXCEPT !.heap = h]
<1>1. o \in Objects /\ lane.batch \in Seq(Records) /\ (appends => lane.batch # <<>>)
  BY DEF WriteReturns, TInv, TypeOK, ShapeInv, Shaped, Lanes
<1>2. lane.batch # <<>> => rec \in Records
  <2> SUFFICES ASSUME lane.batch # <<>> PROVE rec \in Records
    OBVIOUS
  <2>1. Len(lane.batch) \in Nat \ {0}
    BY <1>1, EmptySeq
  <2>2. Len(lane.batch) \in 1 .. Len(lane.batch)
    BY <2>1
  <2> QED
    BY <1>1, <2>2, ElementOfSeq
<1>3. heap[o].log \in Seq(Records) /\ heap[o].log # <<>> /\ heap[o].durable \in Nat
  BY <1>1 DEF TInv, ShapeInv, Filled, Controllers
<1>4. h \in [Objects -> Filled]
  <2>1. appends => Append(heap[o].log, rec) \in Seq(Records) /\ Append(heap[o].log, rec) # <<>>
    BY <1>1, <1>2, <1>3, AppendProperties
  <2>2. <<>> \in Seq(Records)
    BY EmptySeq
  <2>3. (IF appends THEN Append(heap[o].log, rec) ELSE heap[o].log) \in Seq(Records) \ {<<>>}
    BY <1>3, <2>1
  <2>4. (IF lane.batch = <<>> THEN heap[o].durable ELSE rec.rev) \in Nat
    BY <1>2, <1>3 DEF Records
  <2> DEFINE g == [heap[o] EXCEPT !.pending = <<>>,
                                  !.durable = IF lane.batch = <<>> THEN @ ELSE rec.rev,
                                  !.log = IF appends THEN Append(@, rec) ELSE @]
  <2>5. g \in Filled
    <3>1. heap[o] \in Controllers
      BY <1>1 DEF TInv, ShapeInv, Filled
    <3> HIDE DEF rec, appends
    <3> QED
      BY <2>2, <2>3, <2>4, <3>1 DEF Filled, Controllers
  <2>6. h = [heap EXCEPT ![o] = g]
    <3> HIDE DEF rec, appends
    <3> QED
      BY <1>1 DEF TInv, ShapeInv, Filled, Controllers
  <2> QED
    BY <1>1, <2>5, <2>6 DEF TInv, ShapeInv
<1>5. m \in Memories /\ [Blank EXCEPT !.heap = h] \in Memories
  BY <1>4, MemoryTypes DEF Memories
<1>6. lane.batch # <<>> => [m EXCEPT !.head = {rec.rev}] \in Memories
  BY <1>2, <1>5 DEF Memories, Records
<1>7. lane.op = "append" => lane.batch # <<>>
  BY DEF WriteReturns, TInv, ShapeInv, Shaped
<1>8. \E mem \in Memories : Keep(mem)
  <2>1. lane.op \in {"append", "flush", "dispose", "load"}
    BY DEF WriteReturns, TInv, TypeOK, ShapeInv, Shaped, Lanes
  <2> QED
    BY <1>5, <1>6, <1>7, <2>1 DEF WriteReturns
<1>9. lane' \in Lanes /\ Shaped(lane')
  <2>1. CASE lane' = Idle
    BY <2>1, Constants DEF Idle, Shaped
  <2>2. CASE lane.op = "load" /\ lane' = [lane EXCEPT !.pc = "loaded", !.obj = None, !.batch = <<>>]
    BY <2>2, EmptySeq DEF WriteReturns, TInv, TypeOK, ShapeInv, Shaped, Lanes
  <2>3. lane.op \in {"append", "flush", "dispose", "load"}
    BY DEF WriteReturns, TInv, TypeOK, ShapeInv, Shaped, Lanes
  <2> QED
    BY <2>1, <2>2, <2>3 DEF WriteReturns
<1>10. acked' \in [written : SUBSET Records, flushed : SUBSET Records]
  <2>1. BatchSet \in SUBSET Records
    BY <1>1, ElementOfSeq DEF BatchSet
  <2> QED
    BY <2>1 DEF WriteReturns, Promoted, TInv, TypeOK
<1>11. synced' \in 0 .. Len(file)
  BY LenProperties DEF WriteReturns, SyncedAfterWrite, TInv, TypeOK
<1>12. reader' \in [Readers -> ReaderStates]
  BY AfterOpType DEF WriteReturns
<1>13. /\ heap' \in [Objects -> Filled] /\ heap' \in [Objects -> Controllers]
       /\ current' \in Objects \cup {None} /\ head' \in SUBSET Nat
  BY <1>8 DEF Keep, Memories, Filled
<1> QED
  BY <1>9, <1>10, <1>11, <1>12, <1>13 DEF WriteReturns, TInv, TypeOK, ShapeInv, counters

\* A write that fails keeps the types.
LEMMA WriteFailsTypes ==
  ASSUME TInv, WriteFails
  PROVE  TInv'
<1>1. [Blank EXCEPT !.head = HeadAfterFailure(lane)] \in Memories
  BY MemoryTypes DEF Memories, HeadAfterFailure, TInv, TypeOK
<1>2. lane' \in Lanes /\ Shaped(lane')
  BY Constants DEF WriteFails, Idle, Shaped
<1>3. /\ heap' \in [Objects -> Filled] /\ heap' \in [Objects -> Controllers]
      /\ current' \in Objects \cup {None} /\ head' \in SUBSET Nat
  BY <1>1 DEF WriteFails, Keep, Memories, Filled
<1> QED
  BY <1>2, <1>3, AfterOpType DEF WriteFails, TInv, TypeOK, ShapeInv, disk

\* A load that goes on after the repair keeps the types.
LEMMA LoadGoesOnTypes ==
  ASSUME TInv, LoadGoesOn
  PROVE  TInv'
<1> DEFINE l == [lane EXCEPT !.stage = IF @ = "repair" THEN "flush" ELSE "window"]
<1>1. l \in Lanes /\ Called(l)
  BY DEF LoadGoesOn, TInv, TypeOK, ShapeInv, Shaped, Called, Lanes
<1> QED
  BY <1>1, MemoryTypes, LoadTypes DEF LoadGoesOn

\* The readers outside the lane.
LEMMA ReaderTypes ==
  ASSUME TInv, NEW r \in Readers,
         (\E k \in {"list", "inspect"} : BeginRead(r, k)) \/ ReadDisk(r) \/ ReadReturns(r)
  PROVE  TInv'
<1>1. reader[r].cached \in Objects \cup {None} /\ reader[r].image \in Images
  BY DEF TInv, TypeOK, ReaderStates
<1>2. CASE \E k \in {"list", "inspect"} : BeginRead(r, k)
  <2>1. reader' \in [Readers -> ReaderStates]
    <3>1. PICK k \in {"list", "inspect"} : BeginRead(r, k)
      BY <1>2
    <3>2. [Quiet EXCEPT !.pc = "reading", !.kind = k, !.cached = current] \in ReaderStates
      BY Constants DEF ReaderStates, TInv, TypeOK
    <3> QED
      BY <3>1, <3>2 DEF BeginRead, TInv, TypeOK
  <2> QED
    BY <1>2, <2>1 DEF BeginRead, TInv, TypeOK, ShapeInv, disk, counters
<1>3. CASE ReadDisk(r)
  <2>1. reader' \in [Readers -> ReaderStates]
    BY <1>3, MemoryTypes DEF ReadDisk, TInv, TypeOK, ReaderStates
  <2> QED
    BY <1>3, <2>1 DEF ReadDisk, TInv, TypeOK, ShapeInv, disk, counters
<1>4. CASE ReadReturns(r)
  <2> DEFINE rep == Report(reader[r].cached, reader[r].image)
             hd == IF reader[r].kind = "list" THEN head
                   ELSE IF rep.corrupt \/ rep.torn THEN {} ELSE rep.rev
             m == AfterInspect(reader[r].cached, reader[r].image)
  <2>1. m \in Memories /\ rep.rev \in SUBSET Nat
    BY <1>1, AfterInspectType, ReportType
  <2>2. [m EXCEPT !.head = hd] \in Memories
    <3> HIDE DEF m, rep
    <3> QED
      BY <2>1 DEF Memories, TInv, TypeOK
  <2>3. Keep([m EXCEPT !.head = hd])
    BY <1>4 DEF ReadReturns
  <2> HIDE DEF m, hd
  <2>4. /\ heap' \in [Objects -> Filled] /\ heap' \in [Objects -> Controllers]
        /\ current' \in Objects \cup {None} /\ head' \in SUBSET Nat
    BY <2>2, <2>3 DEF Keep, Memories, Filled
  <2>5. reader' \in [Readers -> ReaderStates]
    BY <1>4, Constants DEF ReadReturns, TInv, TypeOK
  <2> QED
    BY <1>4, <2>4, <2>5 DEF ReadReturns, TInv, TypeOK, ShapeInv, disk, counters
<1> QED
  BY <1>2, <1>3, <1>4

\* The crashes.
LEMMA CrashTypes ==
  ASSUME TInv, ProcessCrash \/ PowerLoss
  PROVE  TInv'
<1>1. /\ heap' \in [Objects -> Filled] /\ heap' \in [Objects -> Controllers]
      /\ current' \in Objects \cup {None} /\ head' \in SUBSET Nat
  BY MemoryTypes DEF ProcessCrash, PowerLoss, Restart, Keep, Memories, Filled
<1>2. /\ lane' \in Lanes /\ Shaped(lane') /\ reader' \in [Readers -> ReaderStates]
      /\ crashes' \in Nat /\ nextId' \in Nat /\ faults' \in Nat
  <2>1. /\ lane' = Idle /\ reader' = [r \in Readers |-> Quiet] /\ crashes' = crashes + 1
        /\ UNCHANGED <<nextId, faults>>
    BY DEF ProcessCrash, PowerLoss, Restart
  <2>2. Shaped(lane')
    BY <2>1 DEF Idle, Shaped
  <2> QED
    BY <2>1, <2>2, Constants DEF TInv, TypeOK
<1>3. CASE ProcessCrash
  BY <1>1, <1>2, <1>3 DEF ProcessCrash, TInv, TypeOK, ShapeInv, disk
<1>4. CASE PowerLoss
  <2>1. PICK n \in synced .. Len(file) :
           /\ file' = SubSeq(file, 1, n) /\ synced' = n
           /\ torn' \in IF torn \/ n < Len(file) THEN BOOLEAN ELSE {FALSE}
    BY <1>4 DEF PowerLoss
  <2>2. file \in Seq(Records) /\ n \in Nat /\ n <= Len(file) /\ Len(file) \in Nat
    BY LenProperties DEF TInv, TypeOK
  <2>3. \A i \in 1 .. n : file[i] \in Records
    BY <2>2, ElementOfSeq
  <2>4. file' \in Seq(Records) /\ Len(file') = n
    BY <2>1, <2>2, <2>3, SubSeqProperties
  <2>5. torn' \in BOOLEAN /\ synced' \in 0 .. Len(file')
    <3>1. torn' \in BOOLEAN
      BY <2>1
    <3> QED
      BY <2>1, <2>2, <2>4, <3>1
  <2>6. acked' \in [written : SUBSET Records, flushed : SUBSET Records]
    BY <1>4 DEF PowerLoss, TInv, TypeOK
  <2> QED
    BY <1>1, <1>2, <2>4, <2>5, <2>6 DEF TInv, TypeOK, ShapeInv
<1> QED
  BY <1>3, <1>4

\* The initial state has the types.
LEMMA InitTypes ==
  ASSUME Init
  PROVE  TInv
<1>1. Seed \in Records /\ <<Seed>> \in Seq(Records) /\ Len(<<Seed>>) = 1 /\ <<Seed>> # <<>>
  BY DEF Seed, Records
<1>2. heap \in [Objects -> Filled] /\ heap \in [Objects -> Controllers]
  BY <1>1, EmptySeq DEF Init, Filled, Controllers
<1>3. Shaped(lane)
  BY DEF Init, Idle, Shaped
<1>4. acked \in [written : SUBSET Records, flushed : SUBSET Records]
  BY <1>1 DEF Init
<1>5. current \in Objects /\ head \in SUBSET Nat /\ lane \in Lanes /\ reader \in [Readers -> ReaderStates]
  BY Constants DEF Init
<1>6. file \in Seq(Records) /\ synced \in 0 .. Len(file)
  BY <1>1 DEF Init
<1>8. torn \in BOOLEAN
  BY DEF Init
<1>7. nextId \in Nat /\ faults \in Nat /\ crashes \in Nat
  BY DEF Init
<1> QED
  BY <1>2, <1>3, <1>4, <1>5, <1>6, <1>7, <1>8 DEF TInv, TypeOK, ShapeInv

\* Every step keeps the types.
LEMMA NextTypes ==
  ASSUME TInv, [Next]_vars
  PROVE  TInv'
<1>1. CASE \E d \in Durabilities : BeginAppend(d)
  BY <1>1, BeginAppendTypes
<1>2. CASE BeginFlush
  BY <1>2, BeginFlushTypes
<1>3. CASE BeginLoadForContinuation
  BY <1>3, BeginLoadForContinuationTypes
<1>4. CASE BeginDispose
  BY <1>4, BeginDisposeTypes
<1>5. CASE LaneStep
  <2>1. CASE ReinspectRead
    <3>1. lane.op = "load"
      BY <2>1 DEF ReinspectRead, TInv, ShapeInv, Shaped
    <3> QED
      BY <2>1, <3>1, AfterReadTypes, ContinueTypes DEF ReinspectRead
  <2> QED
    BY <1>5, <2>1, HeadReadTypes, LoadReadTypes, InspectReadTypes, DiscardReadTypes, TruncateTypes,
       TruncateFailsTypes, WritePartTypes, WriteLineTypes, WriteReturnsTypes, WriteFailsTypes,
       LoadGoesOnTypes DEF LaneStep
<1>6. CASE \E r \in Readers : (\E k \in {"list", "inspect"} : BeginRead(r, k)) \/ ReadDisk(r) \/ ReadReturns(r)
  BY <1>6, ReaderTypes
<1>7. CASE ProcessCrash \/ PowerLoss
  BY <1>7, CrashTypes
<1>8. CASE UNCHANGED vars
  BY <1>8 DEF vars, TInv, TypeOK, ShapeInv, Shaped, Called
<1> QED
  BY <1>1, <1>2, <1>3, <1>4, <1>5, <1>6, <1>7, <1>8 DEF Next

\* Every variable keeps its type, with any number of readers outside the lane:
\* in particular the revisions the operations compute are natural numbers, and
\* the controller an operation writes for exists.
THEOREM TypeCorrect == Spec => []TypeOK
<1>1. Init => TInv
  BY InitTypes
<1>2. TInv /\ [Next]_vars => TInv'
  BY NextTypes
<1>3. TInv => TypeOK
  BY DEF TInv
<1> QED
  BY <1>1, <1>2, <1>3, PTL DEF Spec

------------------------------------------------------------------------------
(* Without readers outside the lane: the calls an operation ends in.         *)

Rest == LaneInv /\ WriteInv /\ DiskInv

\* The log of the session, as SessionLog sees it, and as a memory would have it.
TheLog == IF current # None /\ Len(heap[current].log) > Len(file) THEN heap[current].log ELSE file
LogOf(m) == IF m.current # None /\ Len(m.heap[m.current].log) > Len(file)
              THEN m.heap[m.current].log ELSE file

\* A step of the store is a step of SessionLog or leaves it alone.
LogStep == [Log!LogNext]_(Log!logVars)

\* A memory that follows the file and has the log of the session.
Serves(m) == Follows(m.current, m.heap) /\ LogOf(m) = TheLog

\* A step that changes no variable keeps the invariant.
LEMMA StutterStep ==
  ASSUME TheLog' = TheLog, UNCHANGED <<file, synced>>
  PROVE  LogStep
BY DEF LogStep, TheLog, Log!logVars

\* A step that leaves the disk and the log of the session alone is a step of SessionLog.
LEMMA KeepLog ==
  ASSUME NEW m, Keep(m), UNCHANGED disk, LogOf(m) = TheLog
  PROVE  LogStep
<1>1. TheLog' = TheLog /\ UNCHANGED <<file, synced>>
  BY DEF Keep, disk, LogOf, TheLog
<1> QED
  BY <1>1, StutterStep

\* A step that leaves the disk alone and keeps a memory that follows the file.
LEMMA KeepRest ==
  ASSUME IInv, NEW m \in Memories, Keep(m), Follows(m.current, m.heap),
         UNCHANGED <<disk, acked>>, ~lane'.begun, lane'.pc \notin {"write", "loaded"},
         lane'.pc \in {"head", "load", "inspect", "discard", "reinspect"} =>
           lane'.cached = m.current /\ lane'.image = Image,
         lane'.pc \in {"load", "truncate", "reinspect"} => m.current = None,
         lane'.pc \in {"head", "load"} /\ lane'.stage \in {"append", "repair"} => nextId' <= MaxCommits,
         lane'.pc \in {"head", "load"} => lane'.stage # "window"
  PROVE  Rest'
<1>1. current' = m.current /\ heap' = m.heap /\ UNCHANGED <<file, torn, synced, acked>>
  BY DEF Keep, disk
<1>2. Follows(current, heap)'
  BY <1>1 DEF Follows, Numbered
<1>3. LaneInv'
  BY <1>1, <1>2 DEF LaneInv, Image
<1>4. WriteInv'
  BY DEF WriteInv
<1>5. DiskInv'
  BY <1>1 DEF IInv, DiskInv, Numbered, AcksKept
<1> QED
  BY <1>3, <1>4, <1>5 DEF Rest

\* One more commit: behind a log, and behind the commits of it that are only in
\* memory.
LEMMA NextCommit ==
  ASSUME NEW log \in Seq(Records), Numbered(log), NEW rec \in Records, rec.rev = Len(log), rec.id <= MaxCommits
  PROVE  /\ Append(log, rec) \in Seq(Records) /\ Append(log, rec) # <<>>
         /\ Len(Append(log, rec)) = Len(log) + 1 /\ Len(log) \in Nat /\ Append(log, rec)[Len(log) + 1] = rec
         /\ Numbered(Append(log, rec))
         /\ \A s : StartsWith(log, s) /\ Len(s) \in Nat /\ Len(s) <= Len(log) => StartsWith(Append(log, rec), s)
<1> DEFINE full == Append(log, rec)
<1>1. Len(log) \in Nat
  BY LenProperties
<1>2. /\ full \in Seq(Records) /\ full # <<>> /\ Len(full) = Len(log) + 1 /\ full[Len(log) + 1] = rec
      /\ \A i \in 1 .. Len(log) : full[i] = log[i]
  BY AppendProperties
<1> HIDE DEF full
<1>3. Numbered(full)
  <2> SUFFICES ASSUME NEW i \in 1 .. Len(full) PROVE full[i].rev = i - 1 /\ full[i].id <= MaxCommits
    BY DEF Numbered
  <2>1. CASE i \in 1 .. Len(log)
    BY <1>2, <2>1 DEF Numbered
  <2>2. CASE i = Len(log) + 1
    BY <1>1, <1>2, <2>2
  <2> QED
    BY <1>1, <1>2, <2>1, <2>2
<1>4. \A s : StartsWith(log, s) /\ Len(s) \in Nat /\ Len(s) <= Len(log) => StartsWith(full, s)
  BY <1>1, <1>2 DEF StartsWith
<1> QED
  BY <1>1, <1>2, <1>3, <1>4 DEF full

\* Pending records still follow the log when both get the same record.
LEMMA NextBehind ==
  ASSUME NEW log \in Seq(Records), NEW pending \in Seq(Records), NEW n \in Nat, Behind(n, log, pending),
         NEW rec \in Records
  PROVE  /\ Append(pending, rec) \in Seq(Records) /\ Len(Append(pending, rec)) = Len(pending) + 1
         /\ Len(pending) \in Nat /\ Append(pending, rec)[Len(pending) + 1] = rec
         /\ Behind(n, Append(log, rec), Append(pending, rec))
<1> DEFINE full == Append(log, rec)
           batch == Append(pending, rec)
<1>1. Len(log) \in Nat /\ Len(pending) \in Nat
  BY LenProperties
<1>2. /\ Len(full) = Len(log) + 1 /\ full[Len(log) + 1] = rec
      /\ \A i \in 1 .. Len(log) : full[i] = log[i]
  BY AppendProperties
<1>3. /\ batch \in Seq(Records) /\ Len(batch) = Len(pending) + 1 /\ batch[Len(pending) + 1] = rec
      /\ \A i \in 1 .. Len(pending) : batch[i] = pending[i]
  BY AppendProperties
<1> HIDE DEF full, batch
<1>4. n + Len(pending) = Len(log) /\ \A i \in 1 .. Len(pending) : pending[i] = log[n + i]
  BY DEF Behind
<1>5. \A i \in 1 .. Len(batch) : batch[i] = full[n + i]
  <2> TAKE i \in 1 .. Len(batch)
  <2>1. CASE i \in 1 .. Len(pending)
    <3>1. n + i \in 1 .. Len(log)
      BY <1>1, <1>4, <2>1
    <3>2. full[n + i] = log[n + i]
      BY <1>2, <3>1
    <3> QED
      BY <1>3, <1>4, <2>1, <3>2
  <2>2. CASE i = Len(pending) + 1
    BY <1>1, <1>2, <1>3, <1>4, <2>2
  <2> QED
    BY <1>1, <1>3, <2>1, <2>2
<1>6. Behind(n, full, batch)
  BY <1>1, <1>2, <1>3, <1>4, <1>5 DEF Behind
<1> QED
  BY <1>1, <1>3, <1>6 DEF full, batch

\* What follows the file holds for the controller a memory refers to.
LEMMA FollowedBy ==
  ASSUME TInv, NEW m \in Memories, m.current # None, Follows(m.current, m.heap)
  PROVE  /\ m.current \in Objects /\ Len(file) \in Nat
         /\ m.heap[m.current].log \in Seq(Records) /\ m.heap[m.current].log # <<>>
         /\ m.heap[m.current].pending \in Seq(Records) /\ m.heap[m.current].durable \in Nat
         /\ ~torn /\ Numbered(m.heap[m.current].log) /\ m.heap[m.current].durable + 1 = Len(file)
         /\ StartsWith(m.heap[m.current].log, file)
         /\ Behind(Len(file), m.heap[m.current].log, m.heap[m.current].pending)
         /\ Len(m.heap[m.current].log) \in Nat /\ Len(m.heap[m.current].pending) \in Nat
         /\ Len(file) + Len(m.heap[m.current].pending) = Len(m.heap[m.current].log)
<1>1. /\ m.heap[m.current].log \in Seq(Records) /\ m.heap[m.current].log # <<>>
      /\ m.heap[m.current].pending \in Seq(Records) /\ m.heap[m.current].durable \in Nat
      /\ m.current \in Objects
  BY DEF Memories, Filled, Controllers
<1>2. Len(file) \in Nat
  BY LenProperties DEF TInv, TypeOK
<1>3. Len(m.heap[m.current].log) \in Nat /\ Len(m.heap[m.current].pending) \in Nat
  BY <1>1, LenProperties
<1>4. Behind(Len(file), m.heap[m.current].log, m.heap[m.current].pending)
  BY DEF Follows
<1>5. Len(file) + Len(m.heap[m.current].pending) = Len(m.heap[m.current].log)
  BY <1>4 DEF Behind
<1> QED
  BY <1>1, <1>2, <1>3, <1>4, <1>5 DEF Follows

\* Without commits that are only in memory the log of the session is the file.
LEMMA SynchedLog ==
  ASSUME IInv, Follows(current, heap), NoPending(current)
  PROVE  TheLog = file
<1>1. CASE current = None
  BY <1>1 DEF TheLog
<1>2. CASE current # None
  <2>1. Len(heap[current].pending) = 0
    BY <1>2, EmptySeq DEF NoPending
  <2>2. Memory \in Memories /\ Memory.current = current /\ Memory.heap = heap
    BY MemoryTypes DEF IInv, Memory
  <2>3. Len(file) \in Nat /\ Len(file) + Len(heap[current].pending) = Len(heap[current].log)
    BY <1>2, <2>2, FollowedBy DEF IInv
  <2> QED
    BY <2>1, <2>3 DEF TheLog
<1> QED
  BY <1>1, <1>2

\* The memory after inspect follows the file, when nobody else touched it.
LEMMA AfterReadFollows ==
  ASSUME IInv, lane.pc \in {"head", "load", "inspect", "discard", "reinspect"}
  PROVE  Serves(AfterRead)
<1>1. lane.cached = current /\ lane.image = Image /\ Follows(current, heap)
  BY DEF IInv, LaneInv
<1>2. CASE Cacheable(current, Image)
  <2>1. ~torn /\ file # <<>>
    BY <1>2 DEF Cacheable, Corrupt, Image
  <2>2. file \in Seq(Records) /\ Numbered(file) /\ Fresh \in Objects
    BY FreshIsObject DEF IInv, TInv, TypeOK, DiskInv
  <2>3. AfterRead = [Memory EXCEPT !.current = Fresh, !.heap[Fresh] = CachedFrom(Image)]
    BY <1>1, <1>2 DEF AfterRead, AfterInspect
  <2>4. AfterRead.current = Fresh
    BY <2>3, MemoryTypes DEF IInv, Memories
  <2>5. AfterRead.heap[Fresh] = [log |-> file, durable |-> Len(file) - 1, pending |-> <<>>]
    BY <2>2, <2>3, MemoryTypes DEF IInv, Memories, CachedFrom, Image
  <2>6. Len(file) \in Nat \ {0}
    BY <2>1, <2>2, EmptySeq
  <2>7. Follows(AfterRead.current, AfterRead.heap)
    BY <2>1, <2>2, <2>4, <2>5, <2>6 DEF Follows, StartsWith, Behind
  <2>8. LogOf(AfterRead) = file
    BY <2>4, <2>5 DEF LogOf
  <2>9. NoPending(current)
    BY <1>2 DEF Cacheable
  <2> QED
    BY <1>1, <2>7, <2>8, <2>9, SynchedLog DEF Serves
<1>3. CASE NoPending(current) /\ AfterRead = [Memory EXCEPT !.current = None]
  <2>1. AfterRead.current = None
    BY <1>3 DEF Memory
  <2> QED
    BY <1>1, <1>3, <2>1, SynchedLog DEF Follows, Serves, LogOf
<1>4. CASE AfterRead = Memory
  BY <1>1, <1>4 DEF Memory, Serves, LogOf, TheLog
<1> QED
  BY <1>1, <1>2, <1>3, <1>4 DEF AfterRead, AfterInspect

\* Outside a write the memory serves.
LEMMA MemoryFollows ==
  ASSUME IInv, lane.pc # "write"
  PROVE  Serves(Memory)
BY DEF IInv, LaneInv, Memory, Serves, LogOf, TheLog

\* Whether a memory serves is a matter of its controller.
LEMMA SameServes ==
  ASSUME NEW m, NEW n, Serves(m), n.current = m.current, n.heap = m.heap
  PROVE  Serves(n)
BY DEF Serves, Follows, LogOf

\* An operation that goes on to read the file keeps the invariant.
LEMMA ReadsRest ==
  ASSUME IInv, NEW m \in Memories, Serves(m), NEW l \in Lanes, ~l.begun,
         NEW pc \in {"head", "load", "inspect", "discard"}, Reads(l, pc, m),
         pc = "load" => m.current = None, pc \in {"head", "load"} => l.stage # "window",
         pc \in {"head", "load"} /\ l.stage \in {"append", "repair"} => nextId <= MaxCommits
  PROVE  Rest' /\ LogStep
<1>1. /\ lane'.pc = pc /\ lane'.cached = m.current /\ lane'.image = Image
      /\ lane'.stage = l.stage /\ lane'.begun = l.begun
  BY DEF Reads, Lanes
<1>2. Keep(m) /\ nextId' = nextId /\ UNCHANGED <<disk, acked>>
  BY DEF Reads, counters
<1> QED
  BY <1>1, <1>2, KeepRest, KeepLog DEF Serves

\* An operation that is refused leaves everything but the lane alone.
LEMMA RejectsRest ==
  ASSUME IInv, NEW m \in Memories, Serves(m), Rejects(m)
  PROVE  Rest' /\ LogStep
<1>1. lane'.pc = "idle" /\ ~lane'.begun
  BY DEF Rejects, Idle
<1>2. Keep(m) /\ UNCHANGED <<disk, acked>>
  BY DEF Rejects
<1> QED
  BY <1>1, <1>2, KeepRest, KeepLog DEF Serves

\* The start of a write: what follows the file gives the lines to write.
LEMMA WritesRest ==
  ASSUME IInv, NEW m \in Memories, NEW l \in Lanes, ~l.begun, m.current # None, ~torn,
         NEW batch \in Seq(Records), NEW full \in Seq(Records), Writes(l, batch, m),
         full = IF l.stage = "flush" THEN m.heap[m.current].log
                ELSE Append(m.heap[m.current].log, batch[Len(batch)]),
         Numbered(full), m.heap[m.current].durable + 1 = Len(file),
         StartsWith(full, file), Behind(Len(file), full, batch), LogOf(m) = TheLog
  PROVE  Rest' /\ LogStep
<1>1. /\ lane'.pc = "write" /\ lane'.obj = m.current /\ lane'.batch = batch /\ lane'.todo = batch
      /\ lane'.stage = l.stage /\ lane'.begun = l.begun
  BY DEF Writes, Lanes
<1>2. current' = m.current /\ heap' = m.heap /\ UNCHANGED <<file, torn, synced, acked>>
  BY DEF Writes, Keep, disk
<1>3. Full' = full
  BY <1>1, <1>2 DEF Full
<1>4. Len(batch) \in Nat
  BY LenProperties
<1>5. LaneInv'
  BY <1>1 DEF LaneInv
<1>6. DiskInv'
  BY <1>2 DEF IInv, DiskInv, Numbered, AcksKept
<1>7. (lane.obj = current /\ (torn <=> lane.begun) /\ (torn => lane.todo # <<>>))'
  BY <1>1, <1>2
<1>8. /\ Numbered(Full)' /\ StartsWith(Full, file)' /\ Behind(Len(file), Full, lane.todo)'
      /\ Behind(heap[lane.obj].durable + 1, Full, lane.batch)' /\ Len(lane'.todo) <= Len(lane'.batch)
  BY <1>1, <1>2, <1>3, <1>4
<1>9. WriteInv'
  BY <1>7, <1>8 DEF WriteInv
<1>10. LogStep
  BY KeepLog DEF Writes
<1> QED
  BY <1>5, <1>6, <1>9, <1>10 DEF Rest

\* Adding a commit to memory keeps the invariant.
LEMMA AppendToRest ==
  ASSUME IInv, NEW m \in Memories, m.current # None, Serves(m),
         NEW l \in Lanes, ~l.begun, l.stage \in {"append", "repair"}, nextId <= MaxCommits,
         AppendTo(l, m)
  PROVE  Rest' /\ LogStep
<1> DEFINE h == m.heap[m.current]
           rec == [rev |-> l.expected + 1, id |-> nextId]
           full == Append(h.log, rec)
           batch == Append(h.pending, rec)
           mem == [m EXCEPT !.heap[m.current].log = Append(@, rec),
                            !.heap[m.current].pending = batch,
                            !.head = {rec.rev}]
<1>1. CASE Rejects([m EXCEPT !.head = {}])
  <2>1. [m EXCEPT !.head = {}] \in Memories
    BY DEF Memories
  <2>2. [m EXCEPT !.head = {}].current = m.current /\ [m EXCEPT !.head = {}].heap = m.heap
    BY DEF Memories
  <2>3. Serves([m EXCEPT !.head = {}])
    BY <2>2, SameServes
  <2> QED
    BY <1>1, <2>1, <2>3, RejectsRest
<1>2. rec \in Records /\ rec.id <= MaxCommits /\ rec.rev = l.expected + 1 /\ l.expected \in Nat
  BY DEF IInv, TInv, TypeOK, Lanes, Records
<1>3. /\ h.log \in Seq(Records) /\ h.log # <<>> /\ h.pending \in Seq(Records)
      /\ m.current \in Objects /\ Len(h.log) \in Nat /\ Len(h.pending) \in Nat /\ Len(file) \in Nat
      /\ ~torn /\ Numbered(h.log) /\ h.durable + 1 = Len(file)
      /\ StartsWith(h.log, file) /\ Behind(Len(file), h.log, h.pending)
      /\ Len(file) + Len(h.pending) = Len(h.log)
  BY FollowedBy DEF IInv, Serves
<1>4. Revision(m) = l.expected => rec.rev = Len(h.log)
  BY <1>2, <1>3 DEF Revision
<1>5. full = Append(h.log, rec) /\ batch = Append(h.pending, rec)
  OBVIOUS
<1> HIDE DEF rec, h, full, batch
<1>6. /\ batch \in Seq(Records) /\ Behind(Len(file), full, batch)
      /\ Len(batch) = Len(h.pending) + 1 /\ batch[Len(batch)] = rec
  BY <1>2, <1>3, <1>5, NextBehind
<1>7. ASSUME Revision(m) = l.expected
      PROVE  full \in Seq(Records) /\ full # <<>> /\ Numbered(full) /\ StartsWith(full, file)
  <2>1. /\ full \in Seq(Records) /\ full # <<>> /\ Numbered(full)
        /\ \A s : StartsWith(h.log, s) /\ Len(s) \in Nat /\ Len(s) <= Len(h.log) => StartsWith(full, s)
    BY <1>2, <1>3, <1>4, <1>5, <1>7, NextCommit
  <2>2. Len(file) <= Len(h.log)
    BY <1>3
  <2> QED
    BY <1>3, <2>1, <2>2
<1>8. CASE Revision(m) = l.expected /\ lane' = Idle /\ Keep(mem) /\ UNCHANGED <<disk, acked>>
  <2> DEFINE g == [h EXCEPT !.log = full, !.pending = batch]
  <2>1. h \in Controllers
    BY <1>3 DEF h, Memories, Filled
  <2>2. g \in Filled /\ g.log = full /\ g.pending = batch /\ g.durable = h.durable
    BY <1>6, <1>7, <1>8, <2>1 DEF Filled, Controllers
  <2>3. mem = [m EXCEPT !.heap[m.current] = g, !.head = {rec.rev}]
    BY <1>3, <1>5, <2>1 DEF h, Memories, Filled, Controllers
  <2> HIDE DEF g, mem
  <2>4. mem \in Memories /\ mem.current = m.current /\ mem.heap[m.current] = g
    BY <1>2, <1>3, <2>2, <2>3 DEF Memories, Records
  <2>5. Follows(mem.current, mem.heap)
    BY <1>3, <1>6, <1>7, <1>8, <2>2, <2>4 DEF Follows
  <2>6. Rest'
    BY <1>8, <2>4, <2>5, KeepRest DEF Idle
  <2>7. LogStep
    <3>1. TheLog = h.log /\ TheLog' = Append(h.log, rec)
      <4>1. LogOf(m) = h.log
        <5>1. CASE Len(h.log) > Len(file)
          BY <5>1 DEF LogOf, h
        <5>2. CASE ~(Len(h.log) > Len(file))
          <6>1. Len(file) = Len(h.log)
            BY <1>3, <5>2
          <6>2. file \in Seq(Records) /\ \A i \in 1 .. Len(file) : file[i] = h.log[i]
            BY <1>3 DEF StartsWith, IInv, TInv, TypeOK
          <6>3. file = h.log
            BY <1>3, <6>1, <6>2, SeqEqual
          <6> QED
            BY <5>2, <6>3 DEF LogOf, h
        <5> QED
          BY <5>1, <5>2
      <4>2. Len(full) = Len(h.log) + 1
        BY <1>2, <1>3, <1>5, AppendProperties
      <4>3. /\ current' # None /\ heap'[current'].log = full /\ file' = file
        BY <1>3, <1>8, <2>2, <2>4 DEF Keep, disk
      <4>4. Len(full) > Len(file)
        BY <1>3, <4>2
      <4>5. TheLog' = full
        BY <4>3, <4>4 DEF TheLog
      <4> QED
        BY <1>5, <4>1, <4>5 DEF Serves
    <3>2. rec = [rev |-> Len(h.log), id |-> nextId] /\ nextId \in 0 .. MaxCommits
      BY <1>2, <1>4, <1>8, StoreAssumption DEF rec, IInv, TInv, TypeOK
    <3> QED
      BY <1>8, <3>1, <3>2 DEF LogStep, Log!LogNext, Log!Commit, TheLog, disk
  <2> QED
    BY <2>6, <2>7
<1>9. CASE Revision(m) = l.expected /\ Writes(l, batch, m)
  <2>1. full = Append(m.heap[m.current].log, batch[Len(batch)])
    BY <1>5, <1>6 DEF h
  <2>2. m.heap[m.current].durable + 1 = Len(file)
    BY <1>3 DEF h
  <2> QED
    BY <1>3, <1>6, <1>7, <1>9, <2>1, <2>2, WritesRest DEF Serves
<1> QED
  BY <1>1, <1>8, <1>9 DEF AppendTo, Batch, rec, h, batch

\* A flush keeps the invariant, whether it writes or has nothing to write.
LEMMA FlushToRest ==
  ASSUME IInv, NEW m \in Memories, m.current # None, Serves(m),
         NEW l \in Lanes, ~l.begun, l.stage = "flush", FlushTo(l, m)
  PROVE  Rest' /\ LogStep
<1> DEFINE h == m.heap[m.current]
           lf == [l EXCEPT !.durability = "flushed"]
<1>1. lf \in Lanes /\ ~lf.begun /\ lf.stage = "flush"
  BY DEF Lanes, Durabilities
<1>2. Writes(lf, h.pending, m)
  BY DEF FlushTo
<1> HIDE DEF lf
<1> QED
  BY <1>1, <1>2, FollowedBy, WritesRest DEF IInv, Serves

\* An operation that ends with a window of the log keeps the invariant.
LEMMA WindowOfRest ==
  ASSUME IInv, NEW m \in Memories, m.current # None, Serves(m), NEW l \in Lanes,
         WindowOf(l, m)
  PROVE  Rest' /\ LogStep
<1> DEFINE mem == [m EXCEPT !.head = {Revision(m)}]
<1>1. Revision(m) \in Nat
  BY FollowedBy, EmptySeq DEF Revision, IInv, Serves
<1>2. mem \in Memories /\ mem.current = m.current /\ mem.heap = m.heap
  BY <1>1 DEF Memories
<1>3. Keep(mem) /\ UNCHANGED <<disk, acked>> /\ lane'.pc = "idle" /\ ~lane'.begun
  BY DEF WindowOf, Idle
<1> HIDE DEF mem
<1>4. Serves(mem)
  BY <1>2, SameServes
<1> QED
  BY <1>2, <1>3, <1>4, KeepRest, KeepLog DEF Serves

\* #load keeps the invariant, whether it reads or finds the session in memory.
LEMMA LoadRest ==
  ASSUME IInv, NEW m \in Memories, Serves(m), NEW l \in Lanes, ~l.begun, Called(l),
         m.current = None => l.stage # "window",
         l.stage \in {"append", "repair"} => nextId <= MaxCommits, Load(l, m)
  PROVE  Rest' /\ LogStep
<1>1. CASE m.current = None
  <2>1. Reads(l, "load", m)
    BY <1>1 DEF Load
  <2> QED
    BY <1>1, <2>1, ReadsRest
<1>2. CASE m.current # None /\ l.stage \in {"append", "repair"}
  BY <1>2, AppendToRest DEF Load
<1>3. CASE m.current # None /\ l.stage = "flush"
  BY <1>3, FlushToRest DEF Load
<1>4. CASE m.current # None /\ l.stage = "window"
  BY <1>4, WindowOfRest DEF Load
<1> QED
  BY <1>1, <1>2, <1>3, <1>4 DEF Called

------------------------------------------------------------------------------
(* Without readers outside the lane: the steps before a write.               *)

\* An operation that begins keeps the invariant.
LEMMA BeginRest ==
  ASSUME IInv,
         (\E d \in Durabilities : BeginAppend(d)) \/ BeginFlush \/ BeginLoadForContinuation \/ BeginDispose
  PROVE  Rest' /\ LogStep
<1>1. CASE \E d \in Durabilities : BeginAppend(d)
  <2>1. PICK d \in Durabilities : BeginAppend(d)
    BY <1>1
  <2> DEFINE l == [Idle EXCEPT !.op = "append", !.stage = "append", !.durability = d]
  <2>2. l \in Lanes /\ Called(l) /\ ~l.begun /\ l.stage = "append"
    BY Constants DEF Lanes, Idle, Called
  <2>3. \A r \in Nat : /\ [l EXCEPT !.expected = r] \in Lanes /\ Called([l EXCEPT !.expected = r])
                       /\ ~[l EXCEPT !.expected = r].begun /\ [l EXCEPT !.expected = r].stage = "append"
    BY <2>2 DEF Lanes, Called
  <2>4. head \subseteq Nat /\ Memory \in Memories /\ Serves(Memory)
        /\ nextId <= MaxCommits
    BY <2>1, MemoryTypes, MemoryFollows DEF BeginAppend, IInv, TInv, TypeOK
  <2> HIDE DEF l
  <2>5. CASE Reads(l, "head", Memory)
    BY <2>2, <2>4, <2>5, ReadsRest
  <2>6. CASE \E r \in head : Load([l EXCEPT !.expected = r], Memory)
    BY <2>3, <2>4, <2>6, LoadRest
  <2> QED
    BY <2>1, <2>5, <2>6 DEF BeginAppend, l
<1>2. CASE BeginFlush
  <2> DEFINE l == [Idle EXCEPT !.op = "flush", !.stage = "flush"]
  <2>1. l \in Lanes /\ Called(l) /\ ~l.begun /\ l.stage = "flush"
    BY Constants DEF Lanes, Idle, Called
  <2>2. Load(l, Memory) /\ Memory \in Memories /\ Serves(Memory)
    BY <1>2, MemoryTypes, MemoryFollows DEF BeginFlush, IInv
  <2> HIDE DEF l
  <2> QED
    BY <2>1, <2>2, LoadRest
<1>3. CASE BeginLoadForContinuation
  <2> DEFINE l == [Idle EXCEPT !.op = "load"]
  <2>1. l \in Lanes /\ ~l.begun
    BY Constants DEF Lanes, Idle
  <2>2. Reads(l, "inspect", Memory) /\ Memory \in Memories /\ Serves(Memory)
    BY <1>3, MemoryTypes, MemoryFollows DEF BeginLoadForContinuation, IInv
  <2> HIDE DEF l
  <2> QED
    BY <2>1, <2>2, ReadsRest
<1>4. CASE BeginDispose
  <2> DEFINE l == [Idle EXCEPT !.op = "dispose", !.stage = "flush"]
  <2>1. l \in Lanes /\ ~l.begun /\ l.stage = "flush"
    BY Constants DEF Lanes, Idle
  <2>2. /\ FlushTo(l, Memory) /\ Memory \in Memories /\ Serves(Memory)
        /\ Memory.current # None
    BY <1>4, MemoryTypes, MemoryFollows DEF BeginDispose, IInv, Memory
  <2> HIDE DEF l
  <2> QED
    BY <2>1, <2>2, FlushToRest
<1> QED
  BY <1>1, <1>2, <1>3, <1>4

\* Reading the head of the file keeps the invariant.
LEMMA HeadReadRest ==
  ASSUME IInv, HeadRead
  PROVE  Rest' /\ LogStep
<1>1. /\ lane \in Lanes /\ Called(lane) /\ ~lane.begun
      /\ lane.stage \in {"append", "repair"} => nextId <= MaxCommits
  BY DEF IInv, TInv, TypeOK, ShapeInv, Shaped, LaneInv, HeadRead
<1>2. AfterRead \in Memories /\ ReadReport.rev \in SUBSET Nat /\ Serves(AfterRead)
  BY AfterReadTypes, AfterReadFollows DEF HeadRead, IInv
<1>3. CASE Rejects(AfterRead)
  BY <1>2, <1>3, RejectsRest
<1>4. ASSUME NEW r \in ReadReport.rev,
             Load([lane EXCEPT !.expected = r], [AfterRead EXCEPT !.head = {r}])
      PROVE  Rest' /\ LogStep
  <2> DEFINE l == [lane EXCEPT !.expected = r]
             m == [AfterRead EXCEPT !.head = {r}]
  <2>1. l \in Lanes /\ l.begun = lane.begun /\ l.stage = lane.stage /\ l.op = lane.op /\ l.durability = lane.durability
    BY <1>1, <1>2 DEF Lanes
  <2>2. m \in Memories /\ m.current = AfterRead.current /\ m.heap = AfterRead.heap
    BY <1>2 DEF Memories
  <2>3. Called(l) /\ ~l.begun
    BY <1>1, <2>1 DEF Called
  <2>4. lane.stage # "window"
    BY DEF HeadRead, IInv, LaneInv
  <2> HIDE DEF l, m
  <2>5. Load(l, m)
    BY <1>4 DEF l, m
  <2> QED
    BY <1>1, <1>2, <2>1, <2>2, <2>3, <2>4, <2>5, SameServes, LoadRest
<1> QED
  BY <1>3, <1>4 DEF HeadRead

\* Loading the file makes a controller that holds what the file holds.
LEMMA LoadReadRest ==
  ASSUME IInv, LoadRead
  PROVE  Rest' /\ LogStep
<1>1. /\ lane \in Lanes /\ Called(lane) /\ ~lane.begun /\ lane.stage # "window"
      /\ lane.stage \in {"append", "repair"} => nextId <= MaxCommits
  BY DEF IInv, TInv, TypeOK, ShapeInv, Shaped, LaneInv, LoadRead
<1>2. AfterRead \in Memories /\ Serves(AfterRead)
  BY AfterReadTypes, AfterReadFollows DEF LoadRead, IInv
<1>3. CASE Rejects([AfterRead EXCEPT !.head = HeadAfterFailure(lane)])
  <2> DEFINE m == [AfterRead EXCEPT !.head = HeadAfterFailure(lane)]
  <2>1. m \in Memories /\ m.current = AfterRead.current /\ m.heap = AfterRead.heap
    BY <1>2 DEF Memories, HeadAfterFailure, IInv, TInv, TypeOK
  <2> HIDE DEF m
  <2>2. Rejects(m)
    BY <1>3 DEF m
  <2> QED
    BY <1>2, <2>1, <2>2, SameServes, RejectsRest
<1>4. CASE Load(lane, AfterRead)
  BY <1>1, <1>2, <1>4, LoadRest
<1> QED
  BY <1>3, <1>4 DEF LoadRead

\* What follows a successful #load keeps the invariant.
LEMMA ContinueRest ==
  ASSUME IInv, lane.pc \in {"inspect", "reinspect"}, NEW rev \in SUBSET Nat, Continue(rev)
  PROVE  Rest' /\ LogStep
<1>1. lane \in Lanes /\ lane.op = "load" /\ ~lane.begun
  BY DEF IInv, TInv, TypeOK, ShapeInv, Shaped, LaneInv
<1>2. AfterRead \in Memories /\ Serves(AfterRead)
  BY AfterReadTypes, AfterReadFollows DEF IInv
<1>3. CASE Load([lane EXCEPT !.stage = "flush"], AfterRead)
  <2> DEFINE l == [lane EXCEPT !.stage = "flush"]
  <2>1. l \in Lanes /\ ~l.begun /\ Called(l) /\ l.stage = "flush"
    BY <1>1 DEF Lanes, Called
  <2> HIDE DEF l
  <2>2. Load(l, AfterRead)
    BY <1>3 DEF l
  <2> QED
    BY <1>2, <2>1, <2>2, LoadRest
<1>4. ASSUME NEW r \in rev, nextId <= MaxCommits,
             Load([lane EXCEPT !.stage = "repair", !.durability = "flushed", !.expected = r], AfterRead)
      PROVE  Rest' /\ LogStep
  <2> DEFINE l == [lane EXCEPT !.stage = "repair", !.durability = "flushed", !.expected = r]
  <2>1. l \in Lanes /\ ~l.begun /\ Called(l) /\ l.stage = "repair"
    BY <1>1 DEF Lanes, Called, Durabilities
  <2> HIDE DEF l
  <2>2. Load(l, AfterRead)
    BY <1>4 DEF l
  <2> QED
    BY <1>2, <1>4, <2>1, <2>2, LoadRest
<1> QED
  BY <1>3, <1>4 DEF Continue

\* Inspecting the tail keeps the invariant.
LEMMA InspectReadRest ==
  ASSUME IInv, InspectRead
  PROVE  Rest' /\ LogStep
<1>1. lane \in Lanes /\ ~lane.begun /\ lane.pc = "inspect"
  BY DEF IInv, TInv, TypeOK, LaneInv, InspectRead
<1>2. AfterRead \in Memories /\ ReadReport.rev \in SUBSET Nat /\ Serves(AfterRead)
  BY <1>1, AfterReadTypes, AfterReadFollows DEF IInv
<1>3. CASE Rejects([AfterRead EXCEPT !.head = {}])
  <2> DEFINE m == [AfterRead EXCEPT !.head = {}]
  <2>1. m \in Memories /\ m.current = AfterRead.current /\ m.heap = AfterRead.heap
    BY <1>2 DEF Memories
  <2> HIDE DEF m
  <2>2. Rejects(m)
    BY <1>3 DEF m
  <2> QED
    BY <1>2, <2>1, <2>2, SameServes, RejectsRest
<1>4. ASSUME NEW r \in ReadReport.rev, Reads([lane EXCEPT !.expected = r], "discard", AfterRead)
      PROVE  Rest' /\ LogStep
  <2> DEFINE l == [lane EXCEPT !.expected = r]
  <2>1. l \in Lanes /\ ~l.begun
    BY <1>1, <1>2 DEF Lanes
  <2> HIDE DEF l
  <2>2. Reads(l, "discard", AfterRead)
    BY <1>4 DEF l
  <2> QED
    BY <1>2, <2>1, <2>2, ReadsRest
<1>5. CASE Continue(ReadReport.rev)
  BY <1>1, <1>2, <1>5, ContinueRest
<1> QED
  BY <1>3, <1>4, <1>5 DEF InspectRead

\* A tail is cut off only when there is one: no controller follows the file.
LEMMA DiscardReadRest ==
  ASSUME IInv, DiscardRead
  PROVE  Rest' /\ LogStep
<1>1. AfterRead \in Memories /\ Serves(AfterRead)
  BY AfterReadTypes, AfterReadFollows DEF IInv, DiscardRead
<1>2. CASE Rejects(AfterRead)
  BY <1>1, <1>2, RejectsRest
<1>3. CASE /\ ReadReport.torn /\ lane' = [lane EXCEPT !.pc = "truncate"]
           /\ Keep(AfterRead)
           /\ UNCHANGED <<disk, reader, counters, acked>>
  <2>1. lane.image = Image /\ ~lane.begun /\ lane \in Lanes
    BY DEF IInv, TInv, TypeOK, LaneInv, DiscardRead
  <2>2. torn
    <3>1. lane.image.torn
      BY <1>3 DEF ReadReport, Report
    <3> QED
      BY <2>1, <3>1 DEF Image
  <2>3. AfterRead.current = None
    BY <1>1, <2>2 DEF Serves, Follows
  <2>4. lane'.pc = "truncate" /\ ~lane'.begun
    BY <1>3, <2>1 DEF Lanes
  <2> QED
    BY <1>1, <1>3, <2>3, <2>4, KeepRest, KeepLog DEF Serves
<1> QED
  BY <1>2, <1>3 DEF DiscardRead

\* Cutting the torn tail removes nothing that was acknowledged.
LEMMA TruncateRest ==
  ASSUME IInv, Truncate
  PROVE  Rest' /\ LogStep
<1>1. lane \in Lanes /\ ~lane.begun /\ file \in Seq(Records) /\ Len(file) \in Nat
  BY LenProperties DEF IInv, TInv, TypeOK, LaneInv, Truncate
<1>2. current' = None /\ file' = file /\ ~torn' /\ synced' = Len(file) /\ acked' = acked
  BY DEF Truncate, Keep, Memory
<1>3. /\ lane'.pc = "reinspect" /\ lane'.cached = None
      /\ lane'.image = [lines |-> file, torn |-> FALSE] /\ ~lane'.begun
  BY <1>1 DEF Truncate, Lanes
<1>4. lane'.image = Image'
  BY <1>2, <1>3 DEF Image, Truncate
<1>5. Follows(current, heap)'
  BY <1>2 DEF Follows
<1>6. LaneInv'
  BY <1>2, <1>3, <1>4, <1>5 DEF LaneInv
<1>7. DiskInv'
  <2>1. \A c \in acked.written \cup acked.flushed : c.rev < Len(file) /\ file[c.rev + 1] = c
    BY DEF IInv, DiskInv, AcksKept
  <2>2. AcksKept'
    BY <1>2, <2>1 DEF AcksKept
  <2> QED
    BY <1>2, <2>2 DEF IInv, DiskInv, Numbered
<1>8. WriteInv'
  BY <1>3 DEF WriteInv
<1>9. LogStep
  <2>1. TheLog = file /\ TheLog' = file
    BY <1>2 DEF TheLog, IInv, LaneInv, Truncate
  <2> QED
    BY <1>2, <2>1 DEF LogStep, Log!LogNext, Log!Sync, TheLog
<1> QED
  BY <1>6, <1>7, <1>8, <1>9 DEF Rest

\* A truncation that fails keeps the invariant.
LEMMA TruncateFailsRest ==
  ASSUME IInv, TruncateFails
  PROVE  Rest' /\ LogStep
<1>1. current' = None /\ file' = file /\ synced' = synced /\ acked' = acked
  BY DEF TruncateFails, IInv, LaneInv
<1>2. lane'.pc = "idle" /\ ~lane'.begun
  BY DEF TruncateFails, Idle
<1>3. Follows(current, heap)'
  BY <1>1 DEF Follows
<1>4. LaneInv' /\ WriteInv'
  BY <1>2, <1>3 DEF LaneInv, WriteInv
<1>5. DiskInv'
  BY <1>1 DEF IInv, DiskInv, Numbered, AcksKept
<1>6. LogStep
  <2>1. TheLog' = TheLog
    BY <1>1 DEF TheLog, IInv, LaneInv, TruncateFails
  <2> QED
    BY <1>1, <2>1, StutterStep
<1> QED
  BY <1>4, <1>5, <1>6 DEF Rest

\* A load that goes on after the repair keeps the invariant.
LEMMA LoadGoesOnRest ==
  ASSUME IInv, LoadGoesOn
  PROVE  Rest' /\ LogStep
<1> DEFINE l == [lane EXCEPT !.stage = IF @ = "repair" THEN "flush" ELSE "window"]
<1>1. l \in Lanes /\ Called(l) /\ ~l.begun /\ l.stage \in {"flush", "window"}
  BY DEF LoadGoesOn, IInv, TInv, TypeOK, ShapeInv, Shaped, Called, Lanes, LaneInv
<1>2. Memory \in Memories /\ Serves(Memory) /\ Memory.current # None
  BY MemoryTypes, MemoryFollows DEF IInv, LaneInv, LoadGoesOn, Memory
<1>3. Load(l, Memory)
  BY DEF LoadGoesOn
<1> HIDE DEF l
<1> QED
  BY <1>1, <1>2, <1>3, LoadRest

------------------------------------------------------------------------------
(* Without readers outside the lane: the writing steps and the crashes.      *)

\* What a write is to make of the file is a sequence of records.
LEMMA FullType ==
  ASSUME TInv, lane.pc = "write"
  PROVE  Full \in Seq(Records)
<1>1. lane.obj \in Objects /\ lane.batch \in Seq(Records) /\ (lane.stage # "flush" => lane.batch # <<>>)
  BY DEF TInv, TypeOK, ShapeInv, Shaped, Lanes
<1>2. heap[lane.obj].log \in Seq(Records)
  BY <1>1 DEF TInv, ShapeInv, Filled, Controllers
<1>3. CASE lane.stage = "flush"
  BY <1>2, <1>3 DEF Full
<1>4. CASE lane.stage # "flush"
  <2>1. Len(lane.batch) \in Nat \ {0}
    BY <1>1, <1>4, EmptySeq
  <2>2. Len(lane.batch) \in 1 .. Len(lane.batch)
    BY <2>1
  <2>3. lane.batch[Len(lane.batch)] \in Records
    BY <1>1, <2>2, ElementOfSeq
  <2> QED
    BY <1>2, <1>4, <2>3, AppendProperties DEF Full
<1> QED
  BY <1>3, <1>4

\* The next line of a log behind a prefix of it.
LEMMA NextLine ==
  ASSUME NEW full \in Seq(Records), NEW s \in Seq(Records), NEW todo \in Seq(Records), todo # <<>>,
         StartsWith(full, s), Behind(Len(s), full, todo)
  PROVE  /\ Append(s, Head(todo)) \in Seq(Records) /\ Len(Append(s, Head(todo))) = Len(s) + 1
         /\ \A i \in 1 .. Len(s) : Append(s, Head(todo))[i] = s[i]
         /\ Append(s, Head(todo))[Len(s) + 1] = full[Len(s) + 1]
         /\ Len(s) + 1 <= Len(full) /\ Len(s) \in Nat /\ Len(full) \in Nat
         /\ StartsWith(full, Append(s, Head(todo)))
         /\ Behind(Len(s) + 1, full, Tail(todo))
         /\ Len(Tail(todo)) = Len(todo) - 1 /\ Len(todo) \in Nat
<1> DEFINE t == Append(s, Head(todo))
           rest == Tail(todo)
<1>1. Len(s) \in Nat /\ Len(full) \in Nat /\ Len(todo) \in Nat \ {0}
  BY LenProperties, EmptySeq
<1>2. /\ Head(todo) = todo[1] /\ Head(todo) \in Records
      /\ rest \in Seq(Records) /\ Len(rest) = Len(todo) - 1
      /\ \A i \in 1 .. Len(rest) : rest[i] = todo[i + 1]
  BY HeadTailProperties
<1>3. /\ t \in Seq(Records) /\ Len(t) = Len(s) + 1 /\ t[Len(s) + 1] = todo[1]
      /\ \A i \in 1 .. Len(s) : t[i] = s[i]
  BY <1>2, AppendProperties
<1> HIDE DEF t, rest
<1>4. Len(s) + Len(todo) = Len(full) /\ \A i \in 1 .. Len(todo) : todo[i] = full[Len(s) + i]
  BY DEF Behind
<1>5. 1 \in 1 .. Len(todo)
  BY <1>1
<1>6. todo[1] = full[Len(s) + 1]
  BY <1>4, <1>5
<1>7. StartsWith(full, t)
  BY <1>1, <1>3, <1>6 DEF StartsWith
<1>8. \A i \in 1 .. Len(rest) : rest[i] = full[Len(s) + 1 + i]
  <2> TAKE i \in 1 .. Len(rest)
  <2>1. i + 1 \in 1 .. Len(todo) /\ Len(s) + (i + 1) = Len(s) + 1 + i
    BY <1>1, <1>2
  <2>2. todo[i + 1] = full[Len(s) + (i + 1)]
    BY <1>4, <2>1
  <2> QED
    BY <1>2, <2>1, <2>2
<1>9. Behind(Len(s) + 1, full, rest)
  <2>1. Len(s) + 1 + Len(rest) = Len(full)
    <3>1. Len(s) + Len(todo) = Len(full) /\ Len(rest) = Len(todo) - 1
      BY <1>2, <1>4
    <3> QED
      BY <1>1, <3>1
  <2> QED
    BY <1>8, <2>1 DEF Behind
<1>10. Len(s) + 1 <= Len(full)
  BY <1>1, <1>4
<1> QED
  BY <1>1, <1>2, <1>3, <1>6, <1>7, <1>9, <1>10 DEF t, rest

\* A part of a line that reaches the file keeps the invariant.
LEMMA WritePartRest ==
  ASSUME IInv, WritePart
  PROVE  Rest' /\ LogStep
<1>1. /\ lane.pc = "write" /\ lane.todo # <<>> /\ lane \in Lanes
      /\ torn' /\ UNCHANGED <<file, synced, heap, current, acked>>
  BY DEF WritePart, IInv, TInv, TypeOK
<1>2. /\ lane'.pc = "write" /\ lane'.begun /\ lane'.obj = lane.obj /\ lane'.stage = lane.stage
      /\ lane'.batch = lane.batch /\ lane'.todo = lane.todo
  BY <1>1 DEF WritePart, Lanes
<1>3. Full' = Full
  BY <1>1, <1>2 DEF Full
<1>4. (lane.obj = current /\ (torn <=> lane.begun) /\ (torn => lane.todo # <<>>))'
  BY <1>1, <1>2 DEF IInv, WriteInv
<1>5. /\ Numbered(Full)' /\ StartsWith(Full, file)' /\ Behind(Len(file), Full, lane.todo)'
      /\ Behind(heap[lane.obj].durable + 1, Full, lane.batch)' /\ Len(lane'.todo) <= Len(lane'.batch)
  BY <1>1, <1>2, <1>3 DEF IInv, WriteInv
<1>6. WriteInv' /\ LaneInv'
  BY <1>2, <1>4, <1>5 DEF WriteInv, LaneInv
<1>7. DiskInv'
  BY <1>1 DEF IInv, DiskInv, Numbered, AcksKept
<1>8. LogStep
  BY <1>1, StutterStep DEF TheLog
<1> QED
  BY <1>6, <1>7, <1>8 DEF Rest

\* A line that is written is the next one of the log: the file stays numbered.
LEMMA WriteLineRest ==
  ASSUME IInv, WriteLine
  PROVE  Rest' /\ LogStep
<1>1. /\ lane.pc = "write" /\ lane.todo # <<>> /\ lane \in Lanes /\ lane.todo \in Seq(Records)
      /\ UNCHANGED <<synced, heap, current, acked>> /\ file \in Seq(Records)
  BY DEF WriteLine, IInv, TInv, TypeOK, Lanes
<1>2. /\ lane.obj = current /\ (torn <=> lane.begun) /\ Numbered(Full) /\ StartsWith(Full, file)
      /\ Behind(Len(file), Full, lane.todo) /\ Behind(heap[lane.obj].durable + 1, Full, lane.batch)
      /\ Len(lane.todo) <= Len(lane.batch) /\ Full \in Seq(Records)
  BY <1>1, FullType DEF IInv, WriteInv
<1>3. file' = Append(file, Head(lane.todo))
  BY <1>2 DEF WriteLine
<1>4. ~torn'
  BY DEF WriteLine
<1>5. /\ lane'.pc = "write" /\ ~lane'.begun /\ lane'.obj = lane.obj /\ lane'.stage = lane.stage
      /\ lane'.batch = lane.batch /\ lane'.todo = Tail(lane.todo)
  BY <1>1 DEF WriteLine, Lanes
<1>6. Full' = Full
  BY <1>1, <1>5 DEF Full
<1>7. /\ file' \in Seq(Records) /\ Len(file') = Len(file) + 1
      /\ \A i \in 1 .. Len(file) : file'[i] = file[i]
      /\ Len(file) + 1 <= Len(Full) /\ Len(file) \in Nat /\ Len(Full) \in Nat
      /\ StartsWith(Full, file') /\ Behind(Len(file) + 1, Full, Tail(lane.todo))
      /\ Len(Tail(lane.todo)) = Len(lane.todo) - 1 /\ Len(lane.todo) \in Nat
  BY <1>1, <1>2, <1>3, NextLine
<1>8. (lane.obj = current /\ (torn <=> lane.begun) /\ (torn => lane.todo # <<>>))'
  BY <1>1, <1>2, <1>4, <1>5
<1>9. Len(lane'.todo) <= Len(lane'.batch)
  <2>1. Len(lane.batch) \in Nat
    BY <1>1, LenProperties DEF Lanes
  <2> QED
    BY <1>2, <1>5, <1>7, <2>1
<1>10. /\ Numbered(Full)' /\ StartsWith(Full, file)' /\ Behind(Len(file), Full, lane.todo)'
       /\ Behind(heap[lane.obj].durable + 1, Full, lane.batch)'
  BY <1>1, <1>2, <1>5, <1>6, <1>7
<1>11. WriteInv' /\ LaneInv'
  BY <1>5, <1>8, <1>9, <1>10 DEF WriteInv, LaneInv
<1>12. Numbered(file')
  <2> SUFFICES ASSUME NEW i \in 1 .. Len(file') PROVE file'[i].rev = i - 1 /\ file'[i].id <= MaxCommits
    BY DEF Numbered
  <2>1. file'[i] = Full[i]
    BY <1>7 DEF StartsWith
  <2>2. i \in 1 .. Len(Full)
    BY <1>7
  <2> QED
    BY <1>2, <2>1, <2>2 DEF Numbered
<1>13. AcksKept'
  <2>1. \A c \in acked.written \cup acked.flushed : c \in Records /\ c.rev < Len(file) /\ file[c.rev + 1] = c
    BY DEF IInv, DiskInv, AcksKept, TInv, TypeOK
  <2>2. \A c \in acked.written \cup acked.flushed : c.rev + 1 \in 1 .. Len(file)
    BY <1>7, <2>1 DEF Records
  <2>3. ASSUME NEW c \in acked.written \cup acked.flushed
        PROVE  c.rev < Len(file') /\ file'[c.rev + 1] = c
    <3>1. c.rev < Len(file')
      BY <1>7, <2>1 DEF Records
    <3>2. file'[c.rev + 1] = file[c.rev + 1]
      BY <1>7, <2>2
    <3> QED
      BY <2>1, <3>1, <3>2
  <2>4. \A c \in acked.flushed : c.rev < synced
    BY DEF IInv, DiskInv, AcksKept
  <2> QED
    BY <1>1, <2>3, <2>4 DEF AcksKept
<1>14. DiskInv'
  BY <1>12, <1>13 DEF DiskInv, Numbered
<1>15. LogStep
  <2> DEFINE log == heap[current].log
             e == Head(lane.todo)
  <2>1. current # None /\ log \in Seq(Records) /\ Len(log) \in Nat
    BY <1>1, <1>2, LenProperties, Constants DEF IInv, TInv, TypeOK, ShapeInv, Shaped, Controllers, None
  <2>2. heap' = heap /\ current' = current
    BY <1>1
  <2>3. lane.stage = "flush" => Full = log
    BY <1>2 DEF Full
  <2>4. /\ Len(Full) <= Len(log) + 1 /\ (Len(Full) <= Len(log) => Full = log)
        /\ \A i \in 1 .. Len(log) : Full[i] = log[i]
    <3>1. CASE lane.stage # "flush"
      <4>1. lane.batch \in Seq(Records) /\ lane.batch # <<>>
        BY <1>1, <3>1 DEF Lanes, IInv, TInv, ShapeInv, Shaped
      <4>2. Len(lane.batch) \in 1 .. Len(lane.batch)
        BY <4>1, EmptySeq
      <4>3. lane.batch[Len(lane.batch)] \in Records
        BY <4>1, <4>2, ElementOfSeq
      <4>4. Full = Append(log, lane.batch[Len(lane.batch)])
        BY <1>2, <3>1 DEF Full
      <4> HIDE DEF log
      <4>5. Len(Full) = Len(log) + 1 /\ \A i \in 1 .. Len(log) : Full[i] = log[i]
        BY <2>1, <4>3, <4>4, AppendProperties
      <4> QED
        BY <2>1, <4>5
    <3>2. CASE lane.stage = "flush"
      <4> HIDE DEF log
      <4> QED
        BY <2>1, <2>3, <3>2
    <3> QED
      BY <3>1, <3>2
  <2>5. CASE Len(file) < Len(log)
    <3>1. TheLog = log
      BY <2>1, <2>5 DEF TheLog
    <3>2. TheLog' = log
      <4>1. CASE Len(log) > Len(file')
        BY <2>1, <2>2, <4>1 DEF TheLog
      <4>2. CASE ~(Len(log) > Len(file'))
        <5>1. TheLog' = file'
          BY <2>2, <4>2 DEF TheLog
        <5> HIDE DEF log
        <5>2. Len(file') = Len(log)
          BY <1>7, <2>1, <2>5, <4>2
        <5>3. \A i \in 1 .. Len(log) : file'[i] = log[i]
          BY <1>7, <2>4, <5>2 DEF StartsWith
        <5>4. file' = log
          BY <1>7, <2>1, <5>2, <5>3, SeqEqual
        <5> QED
          BY <5>1, <5>4
      <4> QED
        BY <4>1, <4>2
    <3>3. Len(file') = Len(file) + 1 /\ Len(file) < Len(TheLog) /\ TheLog' = TheLog /\ synced' = synced
      BY <1>1, <1>7, <2>5, <3>1, <3>2
    <3> QED
      BY <3>3 DEF LogStep, Log!LogNext, Log!Write, TheLog
  <2>6. CASE ~(Len(file) < Len(log))
    <3>1. TheLog = file /\ TheLog' = file'
      <4>1. ~(Len(log) > Len(file'))
        BY <1>7, <2>1, <2>6
      <4> QED
        BY <2>1, <2>2, <2>6, <4>1 DEF TheLog
    <3>2. e \in Records /\ e = Full[Len(file) + 1]
      <4>1. e \in Records
        BY <1>1, HeadTailProperties
      <4>2. file'[Len(file) + 1] = e
        BY <1>1, <1>3, <4>1, AppendProperties
      <4>3. Len(file) + 1 \in 1 .. Len(file')
        BY <1>7
      <4> QED
        BY <1>7, <4>1, <4>2, <4>3 DEF StartsWith
    <3>3. e.rev = Len(file) /\ e.id \in 0 .. MaxCommits
      <4>1. Len(file) + 1 \in 1 .. Len(Full)
        BY <1>7
      <4>2. e.rev = Len(file) + 1 - 1 /\ e.id <= MaxCommits
        BY <1>2, <3>2, <4>1 DEF Numbered
      <4> QED
        BY <1>7, <3>2, <4>2, StoreAssumption DEF Records
    <3>4. e = [rev |-> Len(file), id |-> e.id]
      BY <3>2, <3>3 DEF Records
    <3>5. file' = Append(file, [rev |-> Len(file), id |-> e.id]) /\ Len(file') = Len(file) + 1 /\ synced' = synced
      BY <1>1, <1>3, <1>7, <3>4
    <3> HIDE DEF e
    <3> QED
      BY <3>1, <3>3, <3>5 DEF LogStep, Log!LogNext, Log!Commit, TheLog
  <2> QED
    BY <2>5, <2>6
<1> QED
  BY <1>11, <1>14, <1>15 DEF Rest

\* When every line is written the file is the log.
LEMMA Written ==
  ASSUME IInv, WriteReturns
  PROVE  /\ file = Full /\ ~torn /\ ~lane.begun /\ lane.obj = current /\ lane.obj \in Objects
         /\ Behind(heap[lane.obj].durable + 1, file, lane.batch)
<1>1. /\ lane.pc = "write" /\ lane.todo = <<>> /\ file \in Seq(Records) /\ Full \in Seq(Records)
      /\ lane.obj \in Objects
  BY FullType DEF WriteReturns, IInv, TInv, TypeOK, ShapeInv, Shaped
<1>2. /\ lane.obj = current /\ (torn <=> lane.begun) /\ ~torn /\ StartsWith(Full, file)
      /\ Behind(Len(file), Full, lane.todo) /\ Behind(heap[lane.obj].durable + 1, Full, lane.batch)
  BY <1>1 DEF IInv, WriteInv
<1>3. Len(file) = Len(Full)
  <2>1. Len(file) + Len(lane.todo) = Len(Full)
    BY <1>2 DEF Behind
  <2>2. Len(lane.todo) = 0 /\ Len(file) \in Nat
    BY <1>1, EmptySeq, LenProperties
  <2> QED
    BY <2>1, <2>2
<1>4. file = Full
  BY <1>1, <1>2, <1>3, SeqEqual DEF StartsWith
<1> QED
  BY <1>1, <1>2, <1>4

\* What the write leaves in memory: the controller it was for holds the file, and
\* stays the cached one unless the owner is disposed of.
LEMMA Returned ==
  ASSUME IInv, WriteReturns
  PROVE  /\ heap'[lane.obj].log = file /\ heap'[lane.obj].pending = <<>>
         /\ heap'[lane.obj].durable + 1 = Len(file)
         /\ current' = (IF lane.op = "dispose" THEN None ELSE current)
         /\ lane'.pc \in {"idle", "loaded"} /\ ~lane'.begun
         /\ lane'.pc = "loaded" => /\ lane.op = "load" /\ synced' = Len(file)
         /\ UNCHANGED <<file, torn>>
<1> DEFINE o == lane.obj
           rec == lane.batch[Len(lane.batch)]
           appends == lane.stage \in {"append", "repair"}
           h == [heap EXCEPT ![o].pending = <<>>,
                             ![o].durable = IF lane.batch = <<>> THEN @ ELSE rec.rev,
                             ![o].log = IF appends THEN Append(@, rec) ELSE @]
<1>1. /\ lane \in Lanes /\ lane.op \in {"append", "flush", "dispose", "load"}
      /\ lane.stage \in {"append", "repair", "flush"} /\ (lane.op = "load" => lane.durability = "flushed")
  BY DEF WriteReturns, IInv, TInv, TypeOK, ShapeInv, Shaped, Lanes
<1>2. /\ heap' = h /\ current' = (IF lane.op = "dispose" THEN None ELSE current)
  BY <1>1, MemoryTypes DEF WriteReturns, Keep, Memory, Blank
<1>3. lane'.pc \in {"idle", "loaded"} /\ ~lane'.begun /\ (lane'.pc = "loaded" => lane.op = "load")
  <2>1. CASE lane' = Idle
    BY <2>1 DEF Idle
  <2>2. CASE lane.op = "load" /\ lane' = [lane EXCEPT !.pc = "loaded", !.obj = None, !.batch = <<>>]
    BY <1>1, <2>2, Written DEF Lanes
  <2> QED
    BY <1>1, <2>1, <2>2 DEF WriteReturns
<1>4. lane.op = "load" => synced' = Len(file)
  BY <1>1 DEF WriteReturns, SyncedAfterWrite
<1>5. o \in Objects /\ heap[o] \in Controllers /\ heap \in [Objects -> Controllers]
  BY Written DEF IInv, TInv, TypeOK
<1>6. heap'[o].log = IF appends THEN Append(heap[o].log, rec) ELSE heap[o].log
  <2> HIDE DEF rec, appends, o
  <2> QED
    BY <1>2, <1>5 DEF Controllers
<1>7. heap'[o].log = file
  BY <1>1, <1>6, Written DEF Full
<1>8. heap'[o].pending = <<>> /\ heap'[o].durable = (IF lane.batch = <<>> THEN heap[o].durable ELSE rec.rev)
  <2> HIDE DEF rec, appends, o
  <2> QED
    BY <1>2, <1>5 DEF Controllers
<1>9. heap'[o].durable + 1 = Len(file)
  <2>1. /\ heap[o].durable + 1 + Len(lane.batch) = Len(file) /\ heap[o].durable \in Nat
        /\ \A i \in 1 .. Len(lane.batch) : lane.batch[i] = file[heap[o].durable + 1 + i]
    BY <1>5, Written DEF Behind, Controllers
  <2>2. lane.batch \in Seq(Records) /\ Len(lane.batch) \in Nat
    BY <1>1, LenProperties DEF Lanes
  <2>3. CASE lane.batch = <<>>
    <3>1. Len(lane.batch) = 0
      BY <2>3, EmptySeq
    <3> QED
      BY <1>8, <2>1, <2>3, <3>1
  <2>4. CASE lane.batch # <<>>
    <3>1. Len(lane.batch) \in 1 .. Len(lane.batch)
      BY <2>2, <2>4, EmptySeq
    <3>2. rec = file[Len(file)] /\ Len(file) \in 1 .. Len(file)
      BY <2>1, <2>2, <3>1
    <3>3. rec.rev = Len(file) - 1
      BY <3>2 DEF IInv, DiskInv, Numbered
    <3> QED
      BY <1>8, <2>4, <3>2, <3>3
  <2> QED
    BY <2>3, <2>4
<1> QED
  BY <1>2, <1>3, <1>4, <1>7, <1>8, <1>9 DEF WriteReturns

\* The log of the session is then the file.
LEMMA WrittenLog ==
  ASSUME IInv, WriteReturns
  PROVE  TheLog = file
<1>1. /\ lane.pc = "write" /\ lane.obj = current /\ current \in Objects /\ file = Full
      /\ lane \in Lanes
  BY Written DEF WriteReturns, IInv, TInv, TypeOK
<1>2. heap[current].log \in Seq(Records) /\ Len(heap[current].log) \in Nat
  BY <1>1, LenProperties DEF IInv, TInv, TypeOK, Controllers
<1>3. Len(heap[current].log) <= Len(file)
  <2>1. CASE lane.stage = "flush"
    BY <1>1, <1>2, <2>1 DEF Full
  <2>2. CASE lane.stage # "flush"
    <3>1. lane.batch \in Seq(Records) /\ lane.batch # <<>>
      BY <1>1, <2>2 DEF Lanes, IInv, TInv, ShapeInv, Shaped
    <3>2. Len(lane.batch) \in 1 .. Len(lane.batch)
      BY <3>1, EmptySeq
    <3>3. lane.batch[Len(lane.batch)] \in Records
      BY <3>1, <3>2, ElementOfSeq
    <3>4. file = Append(heap[current].log, lane.batch[Len(lane.batch)])
      BY <1>1, <2>2 DEF Full
    <3> QED
      BY <1>2, <3>3, <3>4, AppendProperties
  <2> QED
    BY <2>1, <2>2
<1> QED
  BY <1>2, <1>3 DEF TheLog

\* A write that returns is acknowledged, and the file has it.
LEMMA WriteReturnsRest ==
  ASSUME IInv, WriteReturns
  PROVE  Rest' /\ LogStep
<1>1. /\ heap'[lane.obj].log = file /\ heap'[lane.obj].pending = <<>>
      /\ heap'[lane.obj].durable + 1 = Len(file) /\ current' \in {None, lane.obj}
      /\ lane'.pc \in {"idle", "loaded"} /\ ~lane'.begun
      /\ lane'.pc = "loaded" => synced' = Len(file) /\ current' = lane.obj
      /\ file' = file /\ ~torn' /\ lane.obj # None
  BY Returned, Written, Constants DEF None
<1>2. Len(file) \in Nat /\ Len(<<>>) = 0 /\ Numbered(file)
  BY LenProperties, EmptySeq DEF IInv, TInv, TypeOK, DiskInv
<1>3. Follows(current, heap)'
  <2>1. Numbered(file)' /\ StartsWith(file, file) /\ Behind(Len(file), file, <<>>)
    BY <1>1, <1>2 DEF StartsWith, Behind, Numbered
  <2> QED
    BY <1>1, <2>1 DEF Follows
<1>4. LaneInv' /\ WriteInv'
  BY <1>1, <1>3 DEF LaneInv, WriteInv
<1>5. AcksKept'
  <2>1. \A c \in acked.written \cup acked.flushed : c \in Records /\ c.rev < Len(file) /\ file[c.rev + 1] = c
    BY DEF IInv, DiskInv, AcksKept, TInv, TypeOK
  <2>2. \A c \in BatchSet : c.rev < Len(file) /\ file[c.rev + 1] = c
    <3> SUFFICES ASSUME NEW i \in 1 .. Len(lane.batch)
                 PROVE  lane.batch[i].rev < Len(file) /\ file[lane.batch[i].rev + 1] = lane.batch[i]
      BY DEF BatchSet
    <3>1. /\ heap[lane.obj].durable + 1 + Len(lane.batch) = Len(file)
          /\ lane.batch[i] = file[heap[lane.obj].durable + 1 + i]
          /\ heap[lane.obj].durable \in Nat /\ Len(lane.batch) \in Nat
      BY Written, LenProperties DEF Behind, IInv, TInv, TypeOK, Controllers, Lanes
    <3>2. heap[lane.obj].durable + 1 + i \in 1 .. Len(file)
      BY <3>1
    <3>3. lane.batch[i].rev = heap[lane.obj].durable + i
      BY <1>2, <3>1, <3>2 DEF Numbered
    <3> QED
      BY <3>1, <3>2, <3>3
  <2>3. acked' = Promoted(lane.durability) /\ synced' = SyncedAfterWrite
    BY DEF WriteReturns
  <2>4. \A c \in acked'.written \cup acked'.flushed :
          c \in acked.written \cup acked.flushed \/ c \in BatchSet
    BY <2>3 DEF Promoted
  <2>5. \A c \in acked'.flushed : c.rev < synced'
    BY <2>1, <2>2, <2>3 DEF Promoted, SyncedAfterWrite, IInv, DiskInv, AcksKept
  <2> QED
    BY <1>1, <2>1, <2>2, <2>4, <2>5 DEF AcksKept
<1>6. DiskInv'
  BY <1>1, <1>2, <1>5 DEF DiskInv, Numbered
<1>7. LogStep
  <2>1. TheLog = file
    BY WrittenLog
  <2>2. TheLog' = file
    BY <1>1, <1>2 DEF TheLog
  <2>3. synced' \in {synced, Len(file)}
    BY DEF WriteReturns, SyncedAfterWrite
  <2>4. CASE synced' = synced
    BY <1>1, <2>1, <2>2, <2>4, StutterStep
  <2>5. CASE synced' = Len(file)
    BY <1>1, <2>1, <2>2, <2>5 DEF LogStep, Log!LogNext, Log!Sync, TheLog
  <2> QED
    BY <2>3, <2>4, <2>5
<1> QED
  BY <1>4, <1>6, <1>7 DEF Rest

\* Whatever is under way, the file is what the log of the session starts with.
LEMMA LogStartsWithFile ==
  ASSUME IInv
  PROVE  /\ TheLog \in Seq(Records) /\ file \in Seq(Records) /\ Len(file) \in Nat
         /\ \A n \in 0 .. Len(file) : SubSeq(TheLog, 1, n) = SubSeq(file, 1, n)
<1>1. file \in Seq(Records) /\ Len(file) \in Nat
  BY LenProperties DEF IInv, TInv, TypeOK
<1>2. CASE TheLog = file
  BY <1>1, <1>2
<1>3. CASE TheLog # file
  <2> DEFINE log == heap[current].log
  <2>1. TheLog = log /\ current # None /\ Len(log) > Len(file)
    BY <1>3 DEF TheLog
  <2>2. current \in Objects
    BY <2>1 DEF IInv, TInv, TypeOK
  <2>3. log \in Seq(Records) /\ Len(log) \in Nat
    BY <2>2, LenProperties DEF IInv, TInv, TypeOK, Controllers
  <2>4. \A i \in 1 .. Len(file) : file[i] = log[i]
    <3>1. CASE lane.pc # "write"
      BY <2>1, <3>1 DEF IInv, LaneInv, Follows, StartsWith
    <3>2. CASE lane.pc = "write"
      <4>1. lane.obj = current /\ StartsWith(Full, file)
        BY <3>2 DEF IInv, WriteInv
      <4>2. \A i \in 1 .. Len(file) : file[i] = Full[i]
        BY <4>1 DEF StartsWith
      <4>3. CASE lane.stage = "flush"
        BY <4>1, <4>2, <4>3 DEF Full
      <4>4. CASE lane.stage # "flush"
        <5>1. lane.batch \in Seq(Records) /\ lane.batch # <<>>
          BY <3>2, <4>4 DEF Lanes, IInv, TInv, TypeOK, ShapeInv, Shaped
        <5>2. Len(lane.batch) \in 1 .. Len(lane.batch)
          BY <5>1, EmptySeq
        <5>3. lane.batch[Len(lane.batch)] \in Records
          BY <5>1, <5>2, ElementOfSeq
        <5>4. Full = Append(log, lane.batch[Len(lane.batch)])
          BY <4>1, <4>4 DEF Full
        <5> HIDE DEF log
        <5>5. \A i \in 1 .. Len(log) : Full[i] = log[i]
          BY <2>3, <5>3, <5>4, AppendProperties
        <5> QED
          BY <1>1, <2>1, <2>3, <4>2, <5>5
      <4> QED
        BY <4>3, <4>4
    <3> QED
      BY <3>1, <3>2
  <2> HIDE DEF log
  <2>5. ASSUME NEW n \in 0 .. Len(file)
        PROVE  SubSeq(log, 1, n) = SubSeq(file, 1, n)
    <3>1. \A i \in 1 .. n : log[i] \in Records /\ file[i] \in Records /\ file[i] = log[i]
      BY <1>1, <2>1, <2>3, <2>4, ElementOfSeq
    <3>2. /\ SubSeq(log, 1, n) \in Seq(Records) /\ Len(SubSeq(log, 1, n)) = n
          /\ \A i \in 1 .. n : SubSeq(log, 1, n)[i] = log[i]
      BY <1>1, <3>1, SubSeqProperties
    <3>3. /\ SubSeq(file, 1, n) \in Seq(Records) /\ Len(SubSeq(file, 1, n)) = n
          /\ \A i \in 1 .. n : SubSeq(file, 1, n)[i] = file[i]
      BY <1>1, <3>1, SubSeqProperties
    <3> QED
      BY <3>1, <3>2, <3>3, SeqEqual
  <2> QED
    BY <1>1, <2>1, <2>3, <2>5
<1> QED
  BY <1>2, <1>3

\* The cached controller is dropped, and with it what was never written.
LEMMA ForgetStep ==
  ASSUME IInv, current' = None, UNCHANGED <<file, synced>>
  PROVE  LogStep
<1>1. TheLog' = file
  BY DEF TheLog
<1>2. SubSeq(file, 1, Len(file)) = file
  <2>1. file \in Seq(Records) /\ Len(file) \in Nat
    BY LogStartsWithFile
  <2>2. \A i \in 1 .. Len(file) : file[i] \in Records
    BY <2>1, ElementOfSeq
  <2>3. /\ SubSeq(file, 1, Len(file)) \in Seq(Records) /\ Len(SubSeq(file, 1, Len(file))) = Len(file)
        /\ \A i \in 1 .. Len(file) : SubSeq(file, 1, Len(file))[i] = file[i]
    BY <2>1, <2>2, SubSeqProperties
  <2> QED
    BY <2>1, <2>3, SeqEqual
<1>3. SubSeq(TheLog, 1, Len(file)) = file
  BY <1>2, LogStartsWithFile
<1> QED
  BY <1>1, <1>3 DEF LogStep, Log!LogNext, Log!Forget, TheLog

\* A write that fails is not acknowledged.
LEMMA WriteFailsRest ==
  ASSUME IInv, WriteFails
  PROVE  Rest' /\ LogStep
<1>1. current' = None /\ UNCHANGED <<file, synced, acked>>
  BY DEF WriteFails, Keep, Blank, disk
<1>2. lane'.pc = "idle" /\ ~lane'.begun
  BY DEF WriteFails, Idle
<1>3. LaneInv' /\ WriteInv'
  BY <1>1, <1>2 DEF LaneInv, WriteInv, Follows
<1>4. DiskInv'
  BY <1>1 DEF IInv, DiskInv, Numbered, AcksKept
<1>5. LogStep
  BY <1>1, ForgetStep
<1> QED
  BY <1>3, <1>4, <1>5 DEF Rest

\* What a crash leaves: nothing that was synced is lost.
LEMMA CrashRest ==
  ASSUME IInv, ProcessCrash \/ PowerLoss
  PROVE  Rest' /\ LogStep
<1>1. current' = None /\ lane'.pc = "idle" /\ ~lane'.begun
  <2>1. Restart
    BY DEF ProcessCrash, PowerLoss
  <2> QED
    BY <2>1 DEF Restart, Keep, Blank, Idle
<1>2. LaneInv' /\ WriteInv'
  BY <1>1 DEF LaneInv, WriteInv, Follows
<1>3. CASE ProcessCrash
  <2>1. UNCHANGED <<file, synced, acked>>
    BY <1>3 DEF ProcessCrash, disk
  <2>2. LogStep
    BY <1>1, <2>1, ForgetStep
  <2> QED
    BY <1>2, <2>1, <2>2 DEF Rest, IInv, DiskInv, Numbered, AcksKept
<1>4. CASE PowerLoss
  <2>1. PICK n \in synced .. Len(file) : file' = SubSeq(file, 1, n) /\ synced' = n
    BY <1>4 DEF PowerLoss
  <2>2. file \in Seq(Records) /\ n \in Nat /\ n <= Len(file) /\ Len(file) \in Nat /\ synced \in Nat /\ synced <= n
    BY LenProperties DEF IInv, TInv, TypeOK
  <2>3. \A i \in 1 .. n : file[i] \in Records
    BY <2>2, ElementOfSeq
  <2>4. Len(file') = n /\ \A i \in 1 .. n : file'[i] = file[i]
    BY <2>1, <2>2, <2>3, SubSeqProperties
  <2>5. Numbered(file')
    BY <2>2, <2>4 DEF IInv, DiskInv, Numbered
  <2>6. acked'.written = {} /\ acked'.flushed = acked.flushed
    BY <1>4 DEF PowerLoss, IInv, TInv, TypeOK
  <2>7. \A c \in acked.flushed : c \in Records /\ c.rev < synced /\ file[c.rev + 1] = c
    BY DEF IInv, DiskInv, AcksKept, TInv, TypeOK
  <2>8. \A c \in acked.flushed : c.rev + 1 \in 1 .. n
    BY <2>2, <2>7 DEF Records
  <2>9. \A c \in acked.flushed : c.rev < n /\ file'[c.rev + 1] = c
    BY <2>2, <2>4, <2>7, <2>8 DEF Records
  <2>10. AcksKept'
    BY <2>1, <2>4, <2>6, <2>9 DEF AcksKept
  <2>11. LogStep
    <3>1. TheLog' = SubSeq(TheLog, 1, n) /\ Len(file') = n /\ synced' = n /\ n \in synced .. Len(file)
      BY <1>1, <2>1, <2>2, <2>4, LogStartsWithFile DEF TheLog
    <3> QED
      BY <3>1 DEF LogStep, Log!LogNext, Log!PowerLoss, TheLog
  <2> QED
    BY <1>2, <2>5, <2>10, <2>11 DEF Rest, DiskInv, Numbered
<1> QED
  BY <1>3, <1>4

\* The initial state satisfies the invariant.
LEMMA InitRest ==
  ASSUME Init
  PROVE  IInv
<1>1. /\ file = <<Seed>> /\ Len(file) = 1 /\ file[1] = Seed /\ Seed.rev = 0 /\ Seed.id = 0
      /\ Len(<<>>) = 0 /\ 0 <= MaxCommits
  BY EmptySeq, StoreAssumption DEF Init, Seed
<1>2. Numbered(file)
  BY <1>1 DEF Numbered
<1>3. current \in Objects /\ heap[current] = [log |-> <<Seed>>, durable |-> 0, pending |-> <<>>]
  BY Constants DEF Init
<1>4. Follows(current, heap)
  <2>1. ~torn
    BY DEF Init
  <2>2. heap[current].log = file /\ heap[current].pending = <<>> /\ heap[current].durable = 0
    BY <1>1, <1>3
  <2>3. StartsWith(file, file) /\ Behind(Len(file), file, <<>>)
    BY <1>1 DEF StartsWith, Behind
  <2> QED
    BY <1>1, <1>2, <2>1, <2>2, <2>3 DEF Follows
<1>5. lane.pc = "idle" /\ ~lane.begun
  BY DEF Init, Idle
<1>6. AcksKept
  BY <1>1 DEF Init, AcksKept
<1> QED
  BY <1>2, <1>4, <1>5, <1>6, InitTypes DEF IInv, LaneInv, WriteInv, DiskInv

\* Every step keeps the invariant when nobody reads outside the lane.
LEMMA NextInv ==
  ASSUME Readers = {}, IInv, [Next]_vars
  PROVE  IInv' /\ LogStep
<1>1. TInv'
  BY NextTypes DEF IInv
<1> SUFFICES Rest' /\ LogStep
  BY <1>1 DEF IInv, Rest
<1>2. CASE \/ \E d \in Durabilities : BeginAppend(d)
           \/ BeginFlush \/ BeginLoadForContinuation \/ BeginDispose
  BY <1>2, BeginRest
<1>3. CASE LaneStep
  <2>1. CASE ReinspectRead
    <3>1. lane.pc = "reinspect" /\ ReadReport.rev \in SUBSET Nat
      BY <2>1, AfterReadTypes DEF ReinspectRead, IInv
    <3> QED
      BY <2>1, <3>1, ContinueRest DEF ReinspectRead
  <2> QED
    BY <1>3, <2>1, HeadReadRest, LoadReadRest, InspectReadRest, DiscardReadRest, TruncateRest,
       TruncateFailsRest, WritePartRest, WriteLineRest, WriteReturnsRest, WriteFailsRest,
       LoadGoesOnRest DEF LaneStep
<1>4. CASE ProcessCrash \/ PowerLoss
  BY <1>4, CrashRest
<1>5. CASE UNCHANGED vars
  <2>1. UNCHANGED <<file, torn, synced, heap, current, lane, nextId, acked>>
    BY <1>5 DEF vars
  <2>2. Rest'
    BY <2>1 DEF IInv, Rest, LaneInv, WriteInv, DiskInv, Follows, Full, Image, Numbered, StartsWith,
                Behind, AcksKept
  <2>3. LogStep
    BY <2>1, StutterStep DEF TheLog
  <2> QED
    BY <2>2, <2>3
<1> QED
  BY <1>2, <1>3, <1>4, <1>5 DEF Next

\* The inductive invariant holds of every behaviour nobody reads outside the lane in.
LEMMA Invariant ==
  ASSUME Readers = {}
  PROVE  Spec => []IInv
<1>1. Init => IInv
  BY InitRest
<1>2. IInv /\ [Next]_vars => IInv'
  BY NextInv
<1> QED
  BY <1>1, <1>2, PTL DEF Spec

\* No order of appends, failed writes, crashes, cut tails and repairs leaves a
\* line in the file that #inspectDisk refuses, as long as nobody reads the session
\* outside the lane (with a reader the claim is false).
THEOREM FileStaysValid ==
  ASSUME Readers = {}
  PROVE  Spec => []FileNeverCorrupt
<1>1. IInv => FileNeverCorrupt
  BY DEF IInv, DiskInv, Numbered, FileNeverCorrupt, Valid
<1> QED
  BY <1>1, Invariant, PTL

\* What was acknowledged as written stays at its revision until a power loss,
\* what was acknowledged as flushed stays there for good.
THEOREM AcknowledgedStays ==
  ASSUME Readers = {}
  PROVE  Spec => []AcksKept
<1>1. IInv => AcksKept
  BY DEF IInv, DiskInv
<1> QED
  BY <1>1, Invariant, PTL

\* A step that ends loadForContinuation with a controller hands over the file.
LEMMA ContinuedStep ==
  ASSUME Readers = {}, IInv, [Next]_vars, Continued
  PROVE  ~torn /\ ~Corrupt(file) /\ synced = Len(file) /\ heap'[current'].log = file
<1>1. lane.pc = "loaded" /\ lane.stage = "flush"
  BY DEF Continued, IInv, LaneInv, TInv, ShapeInv, Shaped
<1>2. lane' # lane
  BY <1>1 DEF Continued
<1>3. crashes \in Nat /\ crashes' = crashes
  BY DEF Continued, IInv, TInv, TypeOK
<1>4. ~ProcessCrash /\ ~PowerLoss
  <2>1. ProcessCrash \/ PowerLoss => crashes' = crashes + 1
    BY DEF ProcessCrash, PowerLoss, Restart
  <2>2. crashes' # crashes + 1
    BY <1>3
  <2> QED
    BY <2>1, <2>2
<1>5. LoadGoesOn
  <2>1. /\ ~\E d \in Durabilities : BeginAppend(d)
        /\ ~BeginFlush /\ ~BeginLoadForContinuation /\ ~BeginDispose
    BY <1>1 DEF BeginAppend, BeginFlush, BeginLoadForContinuation, BeginDispose
  <2>2. /\ ~HeadRead /\ ~LoadRead /\ ~InspectRead /\ ~DiscardRead /\ ~ReinspectRead
        /\ ~Truncate /\ ~TruncateFails /\ ~WritePart /\ ~WriteLine /\ ~WriteReturns /\ ~WriteFails
    BY <1>1 DEF HeadRead, LoadRead, InspectRead, DiscardRead, ReinspectRead, Truncate, TruncateFails,
                WritePart, WriteLine, WriteReturns, WriteFails
  <2>3. ~UNCHANGED vars
    BY <1>2 DEF vars
  <2> QED
    BY <1>4, <2>1, <2>2, <2>3 DEF Next, LaneStep
<1> DEFINE l == [lane EXCEPT !.stage = IF @ = "repair" THEN "flush" ELSE "window"]
<1>6. l.stage = "window"
  BY <1>1 DEF IInv, TInv, TypeOK, Lanes
<1>7. /\ Follows(current, heap) /\ current # None /\ heap[current].pending = <<>>
      /\ synced = Len(file)
  BY <1>1 DEF IInv, LaneInv
<1>8. WindowOf(l, Memory)
  <2>1. Load(l, Memory)
    BY <1>5 DEF LoadGoesOn
  <2>2. Memory.current # None
    BY <1>7 DEF Memory
  <2> HIDE DEF l
  <2> QED
    BY <1>6, <2>1, <2>2 DEF Load
<1>9. heap' = heap /\ current' = current
  <2>1. [Memory EXCEPT !.head = {Revision(Memory)}].heap = heap
    BY DEF Memory
  <2>2. [Memory EXCEPT !.head = {Revision(Memory)}].current = current
    BY DEF Memory
  <2> QED
    BY <1>8, <2>1, <2>2 DEF WindowOf, Keep
<1>10. Memory \in Memories /\ Memory.current = current /\ Memory.heap = heap
  BY MemoryTypes DEF IInv, Memory
<1>11. /\ ~torn /\ heap[current].log \in Seq(Records) /\ heap[current].log # <<>>
       /\ StartsWith(heap[current].log, file) /\ Len(file) \in Nat
       /\ Len(file) + Len(heap[current].pending) = Len(heap[current].log)
  BY <1>7, <1>10, FollowedBy DEF IInv
<1>12. heap[current].log = file
  <2>1. Len(file) = Len(heap[current].log)
    BY <1>7, <1>11, EmptySeq
  <2>2. file \in Seq(Records) /\ \A i \in 1 .. Len(file) : file[i] = heap[current].log[i]
    BY <1>11 DEF StartsWith, IInv, TInv, TypeOK
  <2> QED
    BY <1>11, <2>1, <2>2, SeqEqual
<1>13. ~Corrupt(file)
  BY <1>11, <1>12 DEF Corrupt, Valid, IInv, DiskInv, Numbered
<1> QED
  BY <1>7, <1>9, <1>11, <1>12, <1>13

\* loadForContinuation succeeds only with a file that is whole and synced, and
\* hands over exactly what the file holds.
THEOREM ContinuesDurable ==
  ASSUME Readers = {}
  PROVE  Spec => ContinuesFromDurable
<1>1. IInv /\ [Next]_vars => [Continued => /\ ~torn /\ ~Corrupt(file) /\ synced = Len(file)
                                         /\ heap'[current'].log = file]_vars
  BY ContinuedStep
<1> QED
  BY <1>1, Invariant, PTL DEF Spec, ContinuesFromDurable

\* The session is the log its contract describes: every step of the owner and its
\* adapter commits, writes, syncs or forgets as SessionLog allows, or leaves the
\* log alone.
THEOREM SessionLogImplemented ==
  ASSUME Readers = {}
  PROVE  Spec => ImplementsSessionLog
<1>1. Init => Log!LogInit
  <2> SUFFICES ASSUME Init PROVE Log!LogInit
    OBVIOUS
  <2>1. /\ file = <<[rev |-> 0, id |-> 0]>> /\ Len(file) = 1 /\ synced \in {0, 1}
        /\ heap[current].log = file
    BY Constants DEF Init, Seed
  <2>2. TheLog = <<[rev |-> 0, id |-> 0]>>
    BY <2>1 DEF TheLog
  <2>3. 0 \in 0 .. MaxCommits
    BY StoreAssumption
  <2> QED
    BY <2>1, <2>2, <2>3 DEF Log!LogInit, TheLog
<1>2. IInv /\ [Next]_vars => [Log!LogNext]_(Log!logVars)
  BY NextInv DEF LogStep
<1> QED
  BY <1>1, <1>2, Invariant, PTL DEF Spec, ImplementsSessionLog, Log!LogSpec

------------------------------------------------------------------------------
(* With any number of readers, as long as no write fails.                    *)

Lines(s) == {s[i] : i \in 1 .. Len(s)}
Reading == {"head", "load", "inspect", "discard", "reinspect"}

\* Torn bytes are those of the line being written, or what a crash left: then
\* nothing is cached, and whoever has read the file has seen them.
TornInv ==
  torn => \/ lane.pc = "write" /\ lane.begun /\ lane.todo # <<>>
          \/ /\ lane.pc # "write" /\ current = None
             /\ lane.pc \in Reading => lane.image.torn
             /\ \A r \in Readers : reader[r].pc = "read" => reader[r].image.torn

\* What is acknowledged, or being written, is in the file or still to write.
LinesInv ==
  /\ lane.pc = "write" => BatchSet \subseteq Lines(file) \cup Lines(lane.todo)
  /\ acked.written \subseteq Lines(file)
  /\ FlushedLinesStay

CInv == TInv /\ TornInv /\ LinesInv

\* A step that does not touch the disk; one behind torn bytes reads or rejects.
Calm ==
  /\ UNCHANGED <<disk, reader, acked>>
  /\ lane'.pc = "write" => lane'.todo = lane'.batch
  /\ torn => lane'.pc # "write" /\ current' = None /\ (lane'.pc \in Reading => lane'.image.torn)

\* A calm step, outside a write, keeps the lines.
LEMMA CalmKeeps ==
  ASSUME CInv, Calm, lane.pc # "write"
  PROVE  TornInv' /\ LinesInv'
<1>1. UNCHANGED <<file, torn, synced, reader, acked>>
  BY DEF Calm, disk
<1>2. TornInv'
  BY <1>1 DEF Calm, CInv, TornInv
<1>3. lane'.pc = "write" => BatchSet' \subseteq Lines(lane'.todo)
  BY DEF Calm, BatchSet, Lines
<1>4. acked'.written \subseteq Lines(file') /\ FlushedLinesStay'
  BY <1>1 DEF CInv, LinesInv, FlushedLinesStay
<1> QED
  BY <1>1, <1>2, <1>3, <1>4 DEF LinesInv

\* An operation that goes on to read the file leaves the lines alone.
LEMMA ReadsCalm ==
  ASSUME NEW l \in Lanes, NEW pc \in {"head", "load", "inspect", "discard"}, NEW m, Reads(l, pc, m),
         torn => m.current = None
  PROVE  Calm
<1>1. lane'.pc = pc /\ lane'.image = Image
  BY DEF Reads, Lanes
<1>2. Image.torn = torn
  BY DEF Image
<1>3. current' = m.current /\ UNCHANGED <<disk, reader, acked>>
  BY DEF Reads, Keep
<1> QED
  BY <1>1, <1>2, <1>3 DEF Calm

\* An operation that is refused leaves the lines alone.
LEMMA RejectsCalm ==
  ASSUME NEW m, Rejects(m), torn => m.current = None
  PROVE  Calm
<1>1. lane'.pc = "idle" /\ current' = m.current /\ UNCHANGED <<disk, reader, acked>>
  BY DEF Rejects, Keep, Idle
<1> QED
  BY <1>1 DEF Calm, Reading

\* A flush writes the lines that memory holds and the file lacks.
LEMMA FlushToCalm ==
  ASSUME NEW m, NEW l \in Lanes, FlushTo(l, m), ~torn
  PROVE  Calm
<1>1. lane'.todo = lane'.batch /\ UNCHANGED <<disk, reader, acked>>
  BY DEF FlushTo, Writes, Lanes
<1> QED
  BY <1>1 DEF Calm

\* #load keeps the lines.
LEMMA LoadCalm ==
  ASSUME NEW m, NEW l \in Lanes, Called(l), Load(l, m), torn => m.current = None
  PROVE  Calm
<1>1. CASE m.current = None
  BY <1>1, ReadsCalm DEF Load
<1>2. CASE m.current # None
  <2>1. ~torn
    BY <1>2
  <2>2. CASE l.stage \in {"append", "repair"}
    <3>1. AppendTo(l, m)
      BY <1>2, <2>2 DEF Load
    <3>2. UNCHANGED <<disk, reader, acked>>
      BY <3>1 DEF AppendTo, Rejects, Writes
    <3>3. lane'.pc = "write" => lane'.todo = lane'.batch
      <4>1. CASE lane' = Idle
        BY <4>1 DEF Idle
      <4>2. CASE \E batch : Writes(l, batch, m)
        BY <4>2 DEF Writes, Lanes
      <4> QED
        BY <3>1, <4>1, <4>2 DEF AppendTo, Rejects
    <3> QED
      BY <2>1, <3>2, <3>3 DEF Calm
  <2>3. CASE l.stage = "flush"
    BY <1>2, <2>1, <2>3, FlushToCalm DEF Load
  <2>4. CASE l.stage = "window"
    <3>1. lane'.pc = "idle" /\ UNCHANGED <<disk, reader, acked>>
      BY <1>2, <2>4 DEF Load, WindowOf, Idle
    <3> QED
      BY <2>1, <3>1 DEF Calm
  <2> QED
    BY <2>2, <2>3, <2>4 DEF Called
<1> QED
  BY <1>1, <1>2

\* A read of torn bytes caches nothing.
LEMMA TornRead ==
  ASSUME TInv, NEW c, NEW im, torn => im.torn /\ current = None
  PROVE  torn => AfterInspect(c, im).current = None
<1> SUFFICES ASSUME torn PROVE AfterInspect(c, im).current = None
  OBVIOUS
<1>1. ~Cacheable(c, im)
  BY DEF Cacheable
<1>2. Memory.current = None /\ [Memory EXCEPT !.current = None].current = None
  BY DEF Memory
<1> QED
  BY <1>1, <1>2 DEF AfterInspect

\* Without faults no reader finds a torn tail.
LEMMA TornAfterRead ==
  ASSUME CInv, lane.pc \in Reading
  PROVE  torn => AfterRead.current = None
<1>1. torn => lane.image.torn /\ current = None
  BY DEF CInv, TornInv, Reading
<1> QED
  BY <1>1, TornRead DEF CInv, AfterRead

\* An operation that begins keeps the lines.
LEMMA BeginCalm ==
  ASSUME CInv, lane.pc = "idle",
         (\E d \in Durabilities : BeginAppend(d)) \/ BeginFlush \/ BeginLoadForContinuation \/ BeginDispose
  PROVE  Calm
<1>1. torn => current = None /\ Memory.current = None
  BY DEF CInv, TornInv, Memory
<1>2. CASE \E d \in Durabilities : BeginAppend(d)
  <2>1. PICK d \in Durabilities : BeginAppend(d)
    BY <1>2
  <2> DEFINE l == [Idle EXCEPT !.op = "append", !.stage = "append", !.durability = d]
  <2>2. l \in Lanes /\ Called(l)
    BY Constants DEF Lanes, Idle, Called
  <2>3. \A r \in Nat : [l EXCEPT !.expected = r] \in Lanes /\ Called([l EXCEPT !.expected = r])
    BY <2>2 DEF Lanes, Called
  <2>4. head \subseteq Nat
    BY DEF CInv, TInv, TypeOK
  <2> HIDE DEF l
  <2>5. CASE Reads(l, "head", Memory)
    BY <1>1, <2>2, <2>5, ReadsCalm
  <2>6. CASE \E r \in head : Load([l EXCEPT !.expected = r], Memory)
    BY <1>1, <2>3, <2>4, <2>6, LoadCalm
  <2> QED
    BY <2>1, <2>5, <2>6 DEF BeginAppend, l
<1>3. CASE BeginFlush
  <2> DEFINE l == [Idle EXCEPT !.op = "flush", !.stage = "flush"]
  <2>1. l \in Lanes /\ Called(l)
    BY Constants DEF Lanes, Idle, Called
  <2> QED
    BY <1>1, <1>3, <2>1, LoadCalm DEF BeginFlush
<1>4. CASE BeginLoadForContinuation
  <2> DEFINE l == [Idle EXCEPT !.op = "load"]
  <2>1. l \in Lanes
    BY Constants DEF Lanes, Idle
  <2> QED
    BY <1>1, <1>4, <2>1, ReadsCalm DEF BeginLoadForContinuation
<1>5. CASE BeginDispose
  <2> DEFINE l == [Idle EXCEPT !.op = "dispose", !.stage = "flush"]
  <2>1. l \in Lanes
    BY Constants DEF Lanes, Idle
  <2> QED
    BY <1>1, <1>5, <2>1, FlushToCalm DEF BeginDispose
<1> QED
  BY <1>2, <1>3, <1>4, <1>5

\* What follows a successful #load keeps the lines.
LEMMA ContinueCalm ==
  ASSUME CInv, lane.pc \in {"inspect", "reinspect"}, NEW rev \in SUBSET Nat, Continue(rev)
  PROVE  Calm
<1>1. lane \in Lanes /\ lane.op = "load"
  BY DEF CInv, TInv, TypeOK, ShapeInv, Shaped
<1>2. torn => AfterRead.current = None
  BY TornAfterRead DEF Reading
<1>3. [lane EXCEPT !.stage = "flush"] \in Lanes /\ Called([lane EXCEPT !.stage = "flush"])
  BY <1>1 DEF Lanes, Called
<1>4. \A r \in Nat :
        /\ [lane EXCEPT !.stage = "repair", !.durability = "flushed", !.expected = r] \in Lanes
        /\ Called([lane EXCEPT !.stage = "repair", !.durability = "flushed", !.expected = r])
  BY <1>1 DEF Lanes, Called, Durabilities
<1>5. CASE Load([lane EXCEPT !.stage = "flush"], AfterRead)
  BY <1>2, <1>3, <1>5, LoadCalm
<1>6. CASE \E r \in rev :
             Load([lane EXCEPT !.stage = "repair", !.durability = "flushed", !.expected = r], AfterRead)
  BY <1>2, <1>4, <1>6, LoadCalm
<1> QED
  BY <1>5, <1>6 DEF Continue

\* What follows a read leaves the lines alone.
LEMMA ReadCalm ==
  ASSUME CInv, HeadRead \/ LoadRead \/ InspectRead \/ DiscardRead \/ ReinspectRead \/ LoadGoesOn
  PROVE  Calm
<1>1. lane \in Lanes /\ ReadReport.rev \in SUBSET Nat /\ AfterRead \in Memories
  BY AfterReadTypes DEF CInv, TInv, TypeOK
<1>2. lane.pc \in Reading => (torn => AfterRead.current = None)
  BY TornAfterRead
<1>3. lane.pc \in Reading => \A h : (torn => [AfterRead EXCEPT !.head = h].current = None)
  BY <1>1, <1>2 DEF Memories
<1>4. CASE HeadRead
  <2>1. Called(lane) /\ lane.pc \in Reading
    BY <1>4 DEF HeadRead, CInv, TInv, ShapeInv, Shaped, Reading
  <2>2. \A r \in Nat : [lane EXCEPT !.expected = r] \in Lanes /\ Called([lane EXCEPT !.expected = r])
    BY <1>1, <2>1 DEF Lanes, Called
  <2>3. CASE Rejects(AfterRead)
    BY <1>2, <2>1, <2>3, RejectsCalm
  <2>4. CASE \E r \in ReadReport.rev :
               Load([lane EXCEPT !.expected = r], [AfterRead EXCEPT !.head = {r}])
    BY <1>1, <1>3, <2>1, <2>2, <2>4, LoadCalm
  <2> QED
    BY <1>4, <2>3, <2>4 DEF HeadRead
<1>5. CASE LoadRead
  <2>1. Called(lane) /\ lane.pc \in Reading
    BY <1>5 DEF LoadRead, CInv, TInv, ShapeInv, Shaped, Reading
  <2>2. CASE Rejects([AfterRead EXCEPT !.head = HeadAfterFailure(lane)])
    BY <1>3, <2>1, <2>2, RejectsCalm
  <2>3. CASE Load(lane, AfterRead)
    BY <1>1, <1>2, <2>1, <2>3, LoadCalm
  <2> QED
    BY <1>5, <2>2, <2>3 DEF LoadRead
<1>6. CASE InspectRead
  <2>1. lane.pc = "inspect" /\ lane.pc \in Reading
    BY <1>6 DEF InspectRead, Reading
  <2>2. CASE Rejects([AfterRead EXCEPT !.head = {}])
    BY <1>3, <2>1, <2>2, RejectsCalm
  <2>3. CASE \E r \in ReadReport.rev : Reads([lane EXCEPT !.expected = r], "discard", AfterRead)
    <3>1. \A r \in Nat : [lane EXCEPT !.expected = r] \in Lanes
      BY <1>1 DEF Lanes
    <3> QED
      BY <1>1, <1>2, <2>1, <2>3, <3>1, ReadsCalm
  <2>4. CASE Continue(ReadReport.rev)
    BY <1>1, <2>1, <2>4, ContinueCalm
  <2> QED
    BY <1>6, <2>2, <2>3, <2>4 DEF InspectRead
<1>7. CASE DiscardRead
  <2>1. lane.pc = "discard" /\ lane.pc \in Reading
    BY <1>7 DEF DiscardRead, Reading
  <2>2. CASE Rejects(AfterRead)
    BY <1>2, <2>1, <2>2, RejectsCalm
  <2>3. CASE /\ lane' = [lane EXCEPT !.pc = "truncate"]
             /\ Keep(AfterRead)
             /\ UNCHANGED <<disk, reader, counters, acked>>
    <3>1. lane'.pc = "truncate"
      BY <1>1, <2>3 DEF Lanes
    <3>2. current' = AfterRead.current /\ UNCHANGED <<disk, reader, acked>>
      BY <2>3 DEF Keep
    <3> QED
      BY <1>2, <2>1, <3>1, <3>2 DEF Calm, Reading
  <2> QED
    BY <1>7, <2>2, <2>3 DEF DiscardRead
<1>8. CASE ReinspectRead
  BY <1>1, <1>8, ContinueCalm DEF ReinspectRead
<1>9. CASE LoadGoesOn
  <2> DEFINE l == [lane EXCEPT !.stage = IF @ = "repair" THEN "flush" ELSE "window"]
  <2>1. l \in Lanes /\ Called(l)
    BY <1>1, <1>9 DEF LoadGoesOn, CInv, TInv, ShapeInv, Shaped, Called, Lanes
  <2>2. torn => Memory.current = None
    BY <1>9 DEF LoadGoesOn, CInv, TornInv, Memory
  <2>3. Load(l, Memory)
    BY <1>9 DEF LoadGoesOn
  <2> HIDE DEF l
  <2> QED
    BY <2>1, <2>2, <2>3, LoadCalm
<1> QED
  BY <1>4, <1>5, <1>6, <1>7, <1>8, <1>9

\* Writing, and cutting a tail off.
LEMMA WritingKeepsLines ==
  ASSUME CInv, Truncate \/ WritePart \/ WriteLine \/ WriteReturns
  PROVE  TornInv' /\ LinesInv'
<1>1. /\ file \in Seq(Records) /\ Len(file) \in Nat /\ synced \in 0 .. Len(file) /\ lane \in Lanes
      /\ acked.written \subseteq Lines(file) /\ FlushedLinesStay
      /\ lane.pc = "write" => BatchSet \subseteq Lines(file) \cup Lines(lane.todo)
  BY LenProperties DEF CInv, TInv, TypeOK, LinesInv
<1>2. acked.flushed \subseteq Lines(file)
  BY <1>1 DEF FlushedLinesStay, Lines
<1>3. CASE Truncate
  <2>1. ~torn' /\ synced' = Len(file) /\ UNCHANGED <<file, acked>>
    BY <1>3 DEF Truncate
  <2>2. lane'.pc = "reinspect"
    BY <1>1, <1>3 DEF Truncate, Lanes
  <2>3. FlushedLinesStay'
    BY <1>2, <2>1 DEF FlushedLinesStay, Lines
  <2> QED
    BY <1>1, <2>1, <2>2, <2>3 DEF TornInv, LinesInv
<1>4. CASE WritePart
  <2>1. /\ lane.pc = "write" /\ lane'.pc = "write" /\ lane'.begun
        /\ lane'.todo = lane.todo /\ lane'.batch = lane.batch
    BY <1>1, <1>4 DEF WritePart, Lanes
  <2>2. lane.todo # <<>> /\ UNCHANGED <<file, synced, acked>>
    BY <1>4 DEF WritePart
  <2>3. lane'.todo # <<>>
    BY <2>1, <2>2
  <2>4. TornInv'
    BY <2>1, <2>3 DEF TornInv
  <2>5. BatchSet' = BatchSet /\ Lines(file)' = Lines(file) /\ Lines(lane.todo)' = Lines(lane.todo)
    BY <2>1, <2>2 DEF BatchSet, Lines
  <2>6. FlushedLinesStay'
    BY <1>1, <2>2 DEF FlushedLinesStay
  <2> QED
    BY <1>1, <2>1, <2>2, <2>4, <2>5, <2>6 DEF LinesInv
<1>5. CASE WriteLine
  <2>1. /\ lane.pc = "write" /\ lane.todo # <<>> /\ ~torn' /\ UNCHANGED <<synced, acked>>
    BY <1>5 DEF WriteLine
  <2>2. lane'.pc = "write" /\ lane'.todo = Tail(lane.todo) /\ lane'.batch = lane.batch
    BY <1>1, <1>5 DEF WriteLine, Lanes
  <2>3. ~torn \/ lane.begun
    BY <2>1 DEF CInv, TornInv
  <2>4. file' = Append(file, Head(lane.todo))
    BY <1>5, <2>3 DEF WriteLine
  <2>5. lane.todo \in Seq(Records) /\ Len(lane.todo) \in Nat \ {0}
    BY <1>1, <2>1, EmptySeq DEF Lanes
  <2>6. /\ Head(lane.todo) = lane.todo[1] /\ Head(lane.todo) \in Records
        /\ Len(Tail(lane.todo)) = Len(lane.todo) - 1
        /\ \A i \in 1 .. Len(Tail(lane.todo)) : Tail(lane.todo)[i] = lane.todo[i + 1]
    BY <2>1, <2>5, HeadTailProperties
  <2>7. /\ Len(file') = Len(file) + 1 /\ file'[Len(file) + 1] = Head(lane.todo)
        /\ \A i \in 1 .. Len(file) : file'[i] = file[i]
    BY <1>1, <2>4, <2>6, AppendProperties
  <2>8. Lines(file) \subseteq Lines(file') /\ Head(lane.todo) \in Lines(file')
    <3>1. \A i \in 1 .. Len(file) : i \in 1 .. Len(file')
      BY <1>1, <2>7
    <3>2. Len(file) + 1 \in 1 .. Len(file')
      BY <1>1, <2>7
    <3> QED
      BY <2>7, <3>1, <3>2 DEF Lines
  <2>9. Lines(lane.todo) \subseteq Lines(Tail(lane.todo)) \cup {Head(lane.todo)}
    <3> SUFFICES ASSUME NEW i \in 1 .. Len(lane.todo), i # 1
                 PROVE  lane.todo[i] \in Lines(Tail(lane.todo))
      BY <2>6 DEF Lines
    <3>1. i - 1 \in 1 .. Len(Tail(lane.todo)) /\ i - 1 + 1 = i
      BY <2>5, <2>6
    <3>2. Tail(lane.todo)[i - 1] = lane.todo[i]
      BY <2>6, <3>1
    <3> QED
      BY <3>1, <3>2 DEF Lines
  <2>10. FlushedLinesStay'
    <3>1. \A c \in acked.flushed : \E i \in 1 .. synced : file[i] = c /\ i \in 1 .. Len(file)
      BY <1>1 DEF FlushedLinesStay
    <3> QED
      BY <2>1, <2>7, <3>1 DEF FlushedLinesStay
  <2>11. BatchSet' = BatchSet
    BY <2>2 DEF BatchSet
  <2> QED
    BY <1>1, <2>1, <2>2, <2>8, <2>9, <2>10, <2>11 DEF TornInv, LinesInv
<1>6. CASE WriteReturns
  <2>1. lane.pc = "write" /\ lane.todo = <<>> /\ UNCHANGED <<file, torn>>
    BY <1>6 DEF WriteReturns
  <2>2. Lines(lane.todo) = {}
    <3>1. Len(lane.todo) = 0
      BY <2>1, EmptySeq
    <3> QED
      BY <3>1 DEF Lines
  <2>3. BatchSet \subseteq Lines(file)
    BY <1>1, <2>1, <2>2
  <2>4. ~torn
    BY <2>1 DEF CInv, TornInv
  <2>5. lane'.pc # "write"
    <3>1. lane.op \in {"append", "flush", "dispose", "load"}
      BY <1>1, <2>1 DEF CInv, TInv, ShapeInv, Shaped, Lanes
    <3>2. CASE lane' = Idle
      BY <3>2 DEF Idle
    <3>3. CASE lane' = [lane EXCEPT !.pc = "loaded", !.obj = None, !.batch = <<>>]
      BY <1>1, <3>3 DEF Lanes
    <3> QED
      BY <1>6, <3>1, <3>2, <3>3 DEF WriteReturns
  <2>6. acked' = Promoted(lane.durability) /\ synced' = SyncedAfterWrite
    BY <1>6 DEF WriteReturns
  <2>7. acked'.written \subseteq Lines(file)
    BY <1>1, <2>3, <2>6 DEF Promoted
  <2>8. FlushedLinesStay'
    <3>1. CASE lane.durability = "flushed"
      <4>1. synced' = Len(file) /\ acked'.flushed = acked.flushed \cup (acked.written \cup BatchSet)
        BY <2>6, <3>1 DEF Promoted, SyncedAfterWrite
      <4>2. acked'.flushed \subseteq Lines(file)
        BY <1>1, <1>2, <2>3, <4>1
      <4> QED
        BY <2>1, <4>1, <4>2 DEF FlushedLinesStay, Lines
    <3>2. CASE lane.durability # "flushed"
      <4>1. synced' = synced /\ acked'.flushed = acked.flushed
        BY <2>6, <3>2 DEF Promoted, SyncedAfterWrite
      <4> QED
        BY <1>1, <2>1, <4>1 DEF FlushedLinesStay
    <3> QED
      BY <3>1, <3>2
  <2> QED
    BY <2>1, <2>4, <2>5, <2>7, <2>8 DEF TornInv, LinesInv
<1> QED
  BY <1>3, <1>4, <1>5, <1>6

\* The readers: behind torn bytes they cache nothing either.
LEMMA ReaderKeepsLines ==
  ASSUME CInv, NEW r \in Readers,
         (\E k \in {"list", "inspect"} : BeginRead(r, k)) \/ ReadDisk(r) \/ ReadReturns(r)
  PROVE  TornInv' /\ LinesInv'
<1>1. UNCHANGED <<file, torn, synced, lane, acked>>
  BY DEF BeginRead, ReadDisk, ReadReturns, disk
<1>2. LinesInv'
  BY <1>1 DEF CInv, LinesInv, BatchSet, FlushedLinesStay
<1>3. reader \in [Readers -> ReaderStates]
  BY DEF CInv, TInv, TypeOK
<1>4. ASSUME torn, lane.pc # "write"
      PROVE  current' = None /\ \A q \in Readers : reader'[q].pc = "read" => reader'[q].image.torn
  <2>1. current = None /\ \A q \in Readers : reader[q].pc = "read" => reader[q].image.torn
    BY <1>4 DEF CInv, TornInv
  <2>2. CASE \E k \in {"list", "inspect"} : BeginRead(r, k)
    <3>1. PICK k \in {"list", "inspect"} :
             reader' = [reader EXCEPT ![r] = [Quiet EXCEPT !.pc = "reading", !.kind = k, !.cached = current]]
      BY <2>2 DEF BeginRead
    <3>2. reader'[r].pc = "reading"
      BY <1>3, <3>1, Constants DEF ReaderStates
    <3>3. \A q \in Readers \ {r} : reader'[q] = reader[q]
      BY <1>3, <3>1
    <3>4. current' = current
      BY <2>2 DEF BeginRead
    <3> QED
      BY <2>1, <3>2, <3>3, <3>4
  <2>3. CASE ReadDisk(r)
    <3>1. reader' = [reader EXCEPT ![r].pc = "read", ![r].image = Image] /\ current' = current
      BY <2>3 DEF ReadDisk
    <3>2. reader'[r].image = Image
      BY <1>3, <3>1 DEF ReaderStates
    <3>3. \A q \in Readers \ {r} : reader'[q] = reader[q]
      BY <1>3, <3>1
    <3>4. reader'[r].image.torn
      BY <1>4, <3>2 DEF Image
    <3> QED
      BY <2>1, <3>1, <3>3, <3>4
  <2>4. CASE ReadReturns(r)
    <3> DEFINE m == AfterInspect(reader[r].cached, reader[r].image)
    <3>1. reader[r].pc = "read" /\ reader' = [reader EXCEPT ![r] = Quiet]
      BY <2>4 DEF ReadReturns
    <3>2. m.current = None
      BY <1>4, <2>1, <3>1, TornRead DEF CInv
    <3>3. current' = m.current
      <4>1. \E h : current' = [m EXCEPT !.head = h].current
        BY <2>4 DEF ReadReturns, Keep
      <4>2. m \in Memories
        BY <1>3, AfterInspectType DEF CInv, ReaderStates
      <4> HIDE DEF m
      <4> QED
        BY <4>1, <4>2 DEF Memories
    <3>4. reader'[r].pc = "idle"
      BY <1>3, <3>1 DEF Quiet
    <3>5. \A q \in Readers \ {r} : reader'[q] = reader[q]
      BY <1>3, <3>1
    <3> QED
      BY <2>1, <3>2, <3>3, <3>4, <3>5
  <2> QED
    BY <2>2, <2>3, <2>4
<1>5. TornInv'
  BY <1>1, <1>4 DEF CInv, TornInv
<1> QED
  BY <1>2, <1>5

\* A crash forgets every reader, and no line that was synced.
LEMMA CrashKeepsLines ==
  ASSUME CInv, ProcessCrash \/ PowerLoss
  PROVE  TornInv' /\ LinesInv'
<1>1. /\ current' = None /\ lane'.pc = "idle"
      /\ reader' = [r \in Readers |-> Quiet]
  <2>1. Restart
    BY DEF ProcessCrash, PowerLoss
  <2> QED
    BY <2>1 DEF Restart, Keep, Blank, Idle
<1>2. TornInv'
  BY <1>1 DEF TornInv, Reading, Quiet
<1>3. CASE ProcessCrash
  <2>1. UNCHANGED <<file, synced, acked>>
    BY <1>3 DEF ProcessCrash, disk
  <2> QED
    BY <1>1, <1>2, <2>1 DEF CInv, LinesInv, FlushedLinesStay
<1>4. CASE PowerLoss
  <2>1. PICK n \in synced .. Len(file) : file' = SubSeq(file, 1, n) /\ synced' = n
    BY <1>4 DEF PowerLoss
  <2>2. file \in Seq(Records) /\ n \in Nat /\ n <= Len(file) /\ Len(file) \in Nat /\ synced \in Nat /\ synced <= n
    BY LenProperties DEF CInv, TInv, TypeOK
  <2>3. \A i \in 1 .. n : file[i] \in Records
    BY <2>2, ElementOfSeq
  <2>4. \A i \in 1 .. n : file'[i] = file[i]
    BY <2>1, <2>2, <2>3, SubSeqProperties
  <2>5. acked'.written = {} /\ acked'.flushed = acked.flushed
    BY <1>4 DEF PowerLoss, CInv, TInv, TypeOK
  <2>6. \A c \in acked.flushed : \E i \in 1 .. synced : file[i] = c /\ i \in 1 .. n
    BY <2>2 DEF CInv, LinesInv, FlushedLinesStay
  <2>7. FlushedLinesStay'
    BY <2>1, <2>4, <2>5, <2>6 DEF FlushedLinesStay
  <2> QED
    BY <1>1, <1>2, <2>5, <2>7 DEF LinesInv
<1> QED
  BY <1>3, <1>4

\* No step removes a line that was flushed.
LEMMA NextKeepsLines ==
  ASSUME MaxFaults = 0, CInv, [Next]_vars
  PROVE  CInv'
<1>1. TInv'
  BY NextTypes DEF CInv
<1> SUFFICES TornInv' /\ LinesInv'
  BY <1>1 DEF CInv
<1>2. CASE \/ \E d \in Durabilities : BeginAppend(d)
           \/ BeginFlush \/ BeginLoadForContinuation \/ BeginDispose
  <2>1. lane.pc = "idle"
    BY <1>2 DEF BeginAppend, BeginFlush, BeginLoadForContinuation, BeginDispose
  <2> QED
    BY <1>2, <2>1, BeginCalm, CalmKeeps
<1>3. CASE HeadRead \/ LoadRead \/ InspectRead \/ DiscardRead \/ ReinspectRead \/ LoadGoesOn
  <2>1. lane.pc # "write"
    BY <1>3 DEF HeadRead, LoadRead, InspectRead, DiscardRead, ReinspectRead, LoadGoesOn
  <2> QED
    BY <1>3, <2>1, ReadCalm, CalmKeeps
<1>4. CASE Truncate \/ WritePart \/ WriteLine \/ WriteReturns
  BY <1>4, WritingKeepsLines
<1>5. ~TruncateFails /\ ~WriteFails
  <2>1. ~(faults < MaxFaults)
    BY DEF CInv, TInv, TypeOK
  <2> QED
    BY <2>1 DEF TruncateFails, WriteFails
<1>6. CASE \E r \in Readers : (\E k \in {"list", "inspect"} : BeginRead(r, k)) \/ ReadDisk(r) \/ ReadReturns(r)
  BY <1>6, ReaderKeepsLines
<1>7. CASE ProcessCrash \/ PowerLoss
  BY <1>7, CrashKeepsLines
<1>8. CASE UNCHANGED vars
  <2>1. UNCHANGED <<file, torn, synced, current, lane, reader, acked>>
    BY <1>8 DEF vars
  <2> QED
    BY <2>1 DEF CInv, TornInv, LinesInv, BatchSet, FlushedLinesStay
<1> QED
  BY <1>2, <1>3, <1>4, <1>5, <1>6, <1>7, <1>8 DEF Next, LaneStep

\* Whatever the readers outside the lane do to the caches, a flushed commit stays
\* in the synced part of the file, as long as no write fails.
THEOREM FlushedStays ==
  ASSUME MaxFaults = 0
  PROVE  Spec => []FlushedLinesStay
<1>1. Init => CInv
  <2> SUFFICES ASSUME Init PROVE CInv
    OBVIOUS
  <2>1. file = <<Seed>> /\ Len(file) = 1 /\ file[1] = Seed
    BY DEF Init
  <2>2. ~torn /\ lane.pc = "idle"
    BY DEF Init, Idle
  <2>3. acked.written \subseteq {Seed} /\ (acked.flushed # {} => acked.flushed = {Seed} /\ synced = 1)
    BY DEF Init
  <2>4. Seed \in Lines(file)
    BY <2>1 DEF Lines
  <2>5. FlushedLinesStay
    BY <2>1, <2>3 DEF FlushedLinesStay
  <2> QED
    BY <2>2, <2>3, <2>4, <2>5, InitTypes DEF CInv, TornInv, LinesInv
<1>2. CInv /\ [Next]_vars => CInv'
  BY NextKeepsLines
<1>3. CInv => FlushedLinesStay
  BY DEF CInv, LinesInv
<1> QED
  BY <1>1, <1>2, <1>3, PTL DEF Spec
==============================================================================
