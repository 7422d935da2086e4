-------------------------- MODULE PortForwardsProofs --------------------------
(***************************************************************************)
(* Proofs about PortForwards, for every set of forwards and every number   *)
(* of entries, children, calls and resumes, and any order of the calls.    *)
(*                                                                         *)
(* IInv says what one child per Entry rests on: the children and the       *)
(* entries agree (Sound), the table and the operations name entries that   *)
(* were made (TableInv, QueueInv), the exit awaited is that of the last    *)
(* child (WaitInv), and every queued add has room (RoomInv).  ListInv adds *)
(* that the entry of a child is listed, for the forwards that nobody named *)
(* in start() or remove() behind a pending remove().  RetryInv adds, for   *)
(* the permanent failures, that no timer, retry or child is of a           *)
(* generation to come (PastInv) and that, until a resume, an entry has one *)
(* retry at most, and only without a child (AwakeInv).                     *)
(***************************************************************************)
EXTENDS PortForwards, SequenceTheorems, FiniteSetTheorems, TLAPS

\* Child k is alive among the children ks.
Live(ks, k) == k # None /\ ks[k].alive

\* The entries es, m of them made, and the children ks, n of them spawned, agree: an
\* entry holds its last child while that lives, a live child is the last one of an
\* entry that was made, and of a stopped entry it was told to exit.
Sound(m, es, ks, n) ==
  /\ \A o \in Objects : /\ es[o].child # None => es[o].child = es[o].exit
                        /\ es[o].exit <= n
                        /\ es[o].child = None => ~Live(ks, es[o].exit)
  /\ \A k \in Kids : ks[k].alive =>
       /\ k <= n
       /\ es[ks[k].obj].exit = k
       /\ ks[k].obj <= m
       /\ es[ks[k].obj].desired = "stopped" => ks[k].killed

\* A forward's entry is one that was made for it.
TableInv ==
  \A f \in Forwards : entries[f] # None => entries[f] <= made /\ ent[entries[f]].fwd = f

\* An operation that names an entry names one that was made for its forward.
Naming == {"start", "stop", "remove"}
QueueInv ==
  /\ \A i \in 1 .. Len(queue) : queue[i].op \in Naming =>
       /\ queue[i].obj # None /\ queue[i].obj <= made
       /\ ent[queue[i].obj].fwd = queue[i].fwd
  /\ \A i \in 1 .. Len(queue) : queue[i].op = "retry" => queue[i].obj # None /\ queue[i].obj <= made

\* The operation that runs awaits the exit of the last child of its entry.
Callee(q) == IF q.op = "add" THEN entries[q.fwd] ELSE q.obj
WaitInv ==
  waiting # None =>
    LET o == Callee(Head(queue)) IN
      /\ o # None
      /\ waiting = ent[o].exit /\ o <= made

\* Every add that is queued may still make an entry.
RoomInv == made + Adding <= MaxEntries

IInv == TypeOK /\ Sound(made, ent, kids, spawned) /\ TableInv /\ QueueInv /\ WaitInv /\ RoomInv

\* The retries of entry o, of generation gen, in the queue q.
Retries(q, o, gen) ==
  {i \in 1 .. Len(q) : q[i].op = "retry" /\ q[i].obj = o /\ q[i].gen = gen}

\* No retry of the present generation of entry o, at its value e, is pending.
NotDue(e, o, q) == e.gen \notin e.timer /\ Retries(q, o, e.gen) = {}

\* One at most is pending, in the timer or the queue, and only for an entry that
\* lost its child.
CalmEntry(e, o, q) ==
  /\ e.gen \in e.timer => Retries(q, o, e.gen) = {}
  /\ \A i, j \in Retries(q, o, e.gen) : i = j
  /\ NotDue(e, o, q) \/ (e.state = "reconnecting" /\ e.child = None)

\* No timer, retry or child is of a generation to come.
PastInv ==
  /\ resumes \in Nat
  /\ \A o \in Objects : \A gen \in ent[o].timer : gen <= ent[o].gen /\ o <= made
  /\ \A i \in 1 .. Len(queue) :
       queue[i].op = "retry" => queue[i].gen <= ent[queue[i].obj].gen /\ queue[i].obj <= made
  /\ \A k \in Kids : kids[k].alive => kids[k].gen <= ent[kids[k].obj].gen

\* While the machine stays awake, retries wait for entries without a child only, and
\* the operation that awaits an exit is none of them.
AwakeInv ==
  resumes = 0 =>
    /\ \A o \in Objects : CalmEntry(ent[o], o, queue)
    /\ waiting # None =>
         LET o == Callee(Head(queue)) IN
           /\ Head(queue).op # "retry" /\ NotDue(ent[o], o, queue)
           /\ kids[waiting].alive /\ kids[waiting].obj = o => kids[waiting].gen < ent[o].gen

RetryInv == PastInv /\ AwakeInv

------------------------------------------------------------------------------
\* The constants, and what the types say of the entries that exist.
LEMMA Objects_Kids ==
  /\ Objects \subseteq Nat \ {0} /\ Kids \subseteq Nat \ {0}
  /\ IsFiniteSet(Objects) /\ None \notin Objects /\ None \notin Kids /\ None \in Nat
<1>1. MaxEntries \in Nat /\ MaxSpawns \in Nat
  BY ForwardsAssumption
<1>2. Objects \subseteq Nat \ {0} /\ Kids \subseteq Nat \ {0}
  BY <1>1 DEF Objects, Kids
<1>3. IsFiniteSet(Objects)
  BY <1>1, FS_Interval DEF Objects
<1> QED
  BY <1>2, <1>3 DEF None

\* Entries that spawn together get children of their own, which were not yet used.
LEMMA NewKids ==
  ASSUME NEW S \in SUBSET Objects, spawned \in Nat
  PROVE  /\ Cardinality(S) \in Nat
         /\ \A o \in S : KidFor(S, o) \in spawned + 1 .. spawned + Cardinality(S)
         /\ \A o, p \in S : KidFor(S, o) = KidFor(S, p) => o = p
<1> DEFINE Upto(o) == {p \in S : p <= o}
<1>1. IsFiniteSet(S) /\ Cardinality(S) \in Nat
  BY Objects_Kids, FS_Subset, FS_CardinalityType
<1>2. \A o \in S : /\ IsFiniteSet(Upto(o)) /\ Cardinality(Upto(o)) \in Nat
                   /\ Cardinality(Upto(o)) <= Cardinality(S)
  <2> TAKE o \in S
  <2>1. Upto(o) \subseteq S
    OBVIOUS
  <2> HIDE DEF Upto
  <2> QED
    BY <1>1, <2>1, FS_Subset, FS_CardinalityType
<1>3. \A o \in S : Cardinality(Upto(o)) # 0
  <2> TAKE o \in S
  <2>1. o \in Upto(o)
    BY Objects_Kids
  <2> HIDE DEF Upto
  <2> QED
    BY <1>2, <2>1, FS_EmptySet
<1>4. \A o, p \in S : o < p => Cardinality(Upto(o)) # Cardinality(Upto(p))
  <2> SUFFICES ASSUME NEW o \in S, NEW p \in S, o < p,
                      Cardinality(Upto(o)) = Cardinality(Upto(p))
               PROVE  FALSE
    OBVIOUS
  <2>0. o \in Nat /\ p \in Nat /\ S \subseteq Nat
    BY Objects_Kids
  <2>1. Upto(o) \subseteq Upto(p)
    <3> SUFFICES ASSUME NEW q \in S, q <= o
                 PROVE  q <= p
      OBVIOUS
    <3>1. q \in Nat
      BY <2>0
    <3> QED
      BY <2>0, <3>1
  <2>3. p \in Upto(p) /\ p \notin Upto(o)
    BY <2>0
  <2> HIDE DEF Upto
  <2>2. Upto(o) = Upto(p)
    BY <1>2, <2>1, FS_Subset
  <2> QED
    BY <2>2, <2>3
<1>5. \A o \in S : KidFor(S, o) = spawned + Cardinality(Upto(o))
  BY DEF KidFor
<1> HIDE DEF Upto
<1>6. \A o \in S : KidFor(S, o) \in spawned + 1 .. spawned + Cardinality(S)
  BY <1>1, <1>2, <1>3, <1>5
<1>7. \A o, p \in S : KidFor(S, o) = KidFor(S, p) => o = p
  <2> SUFFICES ASSUME NEW o \in S, NEW p \in S, KidFor(S, o) = KidFor(S, p), o # p
               PROVE  FALSE
    OBVIOUS
  <2>1. Cardinality(Upto(o)) = Cardinality(Upto(p))
    BY <1>2, <1>5
  <2>2. o < p \/ p < o
    BY Objects_Kids
  <2> QED
    BY <1>4, <2>1, <2>2
<1> QED
  BY <1>1, <1>6, <1>7

\* What one spawn makes of an entry and a child.
LEMMA SpawnedTypes ==
  ASSUME NEW e \in EntryType, NEW k \in Kids
  PROVE  /\ Spawned(e, k) \in EntryType /\ SpawnFails(e) \in EntryType
         /\ Spawned(e, k).fwd = e.fwd /\ Spawned(e, k).desired = e.desired
         /\ Spawned(e, k).child = k /\ Spawned(e, k).exit = k
         /\ Spawned(e, k).gen = e.gen /\ Spawned(e, k).timer = e.timer
         /\ SpawnFails(e).fwd = e.fwd /\ SpawnFails(e).desired = e.desired
         /\ SpawnFails(e).child = e.child /\ SpawnFails(e).exit = e.exit
         /\ SpawnFails(e).gen = e.gen /\ SpawnFails(e).timer = e.timer
         /\ SpawnFails(e).state = "error"
  BY DEF Spawned, SpawnFails, EntryType, States

\* Entries whose children are gone may spawn: the table, the entries and the
\* children agree as before, and the entries that did not spawn stay as they are.
Ready(S, m, es, ks) ==
  /\ S \subseteq Objects /\ es \in [Objects -> EntryType] /\ ks \in [Kids -> KidType]
  /\ Sound(m, es, ks, spawned)
  /\ \A o \in S : ~Live(ks, es[o].exit) /\ o <= m

\* Spawning keeps the types and the agreement, the generations and the timers; a child
\* that is alive after it was alive before or belongs to an entry that spawned.
LEMMA Spawning ==
  ASSUME spawned \in Nat, spawned <= MaxSpawns,
         NEW S, NEW m, NEW es, NEW ks, Ready(S, m, es, ks), SpawnAttempts(S, es, ks)
  PROVE  /\ ent' \in [Objects -> EntryType] /\ kids' \in [Kids -> KidType]
         /\ spawned' \in 0 .. MaxSpawns
         /\ Sound(m, ent', kids', spawned')
         /\ \A o \in Objects : /\ ent'[o].fwd = es[o].fwd
                               /\ ent'[o].gen = es[o].gen /\ ent'[o].timer = es[o].timer
                               /\ o \notin S => ent'[o] = es[o]
         /\ \A k \in Kids : kids'[k].alive =>
              \/ ks[k].alive /\ kids'[k] = ks[k]
              \/ kids'[k].obj \in S /\ kids'[k].gen = es[kids'[k].obj].gen
<1>1. PICK ok \in SUBSET {o \in S : MaySpawn(es[o])} :
        /\ spawned + Cardinality(ok) <= MaxSpawns
        /\ spawned' = spawned + Cardinality(ok)
        /\ ent' = [o \in Objects |->
             IF o \in ok THEN Spawned(es[o], KidFor(ok, o))
             ELSE IF o \in {p \in S : MaySpawn(es[p])} THEN SpawnFails(es[o]) ELSE es[o]]
        /\ kids' = [k \in Kids |->
             IF \E o \in ok : KidFor(ok, o) = k
               THEN LET o == CHOOSE p \in ok : KidFor(ok, p) = k
                    IN  [obj |-> o, gen |-> es[o].gen, alive |-> TRUE, killed |-> FALSE]
               ELSE ks[k]]
  BY Zenon DEF SpawnAttempts
<1>17. /\ S \subseteq Objects /\ es \in [Objects -> EntryType] /\ ks \in [Kids -> KidType]
       /\ Sound(m, es, ks, spawned)
       /\ \A o \in S : ~Live(ks, es[o].exit) /\ o <= m
  BY DEF Ready
<1>2. ok \subseteq S /\ ok \subseteq Objects /\ \A o \in ok : es[o].desired = "running"
  BY <1>17 DEF MaySpawn
<1>3. /\ Cardinality(ok) \in Nat
      /\ \A o \in ok : KidFor(ok, o) \in spawned + 1 .. spawned + Cardinality(ok)
      /\ \A o, p \in ok : KidFor(ok, o) = KidFor(ok, p) => o = p
  BY <1>2, NewKids
<1>4. spawned' \in Nat /\ spawned <= spawned' /\ spawned' \in 0 .. MaxSpawns
  BY <1>1, <1>3, ForwardsAssumption
<1>5. \A o \in ok : KidFor(ok, o) \in Kids /\ KidFor(ok, o) > spawned /\ KidFor(ok, o) <= spawned'
  BY <1>1, <1>3, ForwardsAssumption DEF Kids
<1>6. \A o \in Objects :
        /\ o \in ok => ent'[o] = Spawned(es[o], KidFor(ok, o))
        /\ o \notin ok => ent'[o] = es[o] \/ ent'[o] = SpawnFails(es[o])
        /\ o \notin S => ent'[o] = es[o]
  BY <1>1, <1>2, <1>17
<1>7. \A o \in Objects :
        /\ ent'[o] \in EntryType /\ ent'[o].fwd = es[o].fwd /\ ent'[o].desired = es[o].desired
        /\ ent'[o].gen = es[o].gen /\ ent'[o].timer = es[o].timer
        /\ o \in ok => ent'[o].child = KidFor(ok, o) /\ ent'[o].exit = KidFor(ok, o)
        /\ o \notin ok => ent'[o].child = es[o].child /\ ent'[o].exit = es[o].exit
  <2> TAKE o \in Objects
  <2>1. es[o] \in EntryType
    BY <1>17
  <2>2. CASE o \in ok
    <3> DEFINE k == KidFor(ok, o)
    <3>1. k \in Kids
      BY <1>5, <2>2
    <3>2. ent'[o] = Spawned(es[o], k)
      BY <1>6, <2>2
    <3> HIDE DEF k
    <3>3. /\ Spawned(es[o], k) \in EntryType /\ Spawned(es[o], k).fwd = es[o].fwd
          /\ Spawned(es[o], k).desired = es[o].desired
          /\ Spawned(es[o], k).child = k /\ Spawned(es[o], k).exit = k
          /\ Spawned(es[o], k).gen = es[o].gen /\ Spawned(es[o], k).timer = es[o].timer
      BY <2>1, <3>1, SpawnedTypes
    <3>4. k = KidFor(ok, o)
      BY DEF k
    <3> QED
      BY <2>2, <3>2, <3>3, <3>4
  <2>3. CASE o \notin ok
    <3>1. SpawnFails(es[o]) \in EntryType /\ SpawnFails(es[o]).fwd = es[o].fwd
          /\ SpawnFails(es[o]).desired = es[o].desired
          /\ SpawnFails(es[o]).gen = es[o].gen /\ SpawnFails(es[o]).timer = es[o].timer
          /\ SpawnFails(es[o]).child = es[o].child /\ SpawnFails(es[o]).exit = es[o].exit
          /\ SpawnFails(es[o]).state = "error"
      BY <2>1 DEF SpawnFails, EntryType, States
    <3> QED
      BY <1>6, <2>1, <2>3, <3>1
  <2> QED
    BY <2>2, <2>3
<1>8. ent' \in [Objects -> EntryType]
  BY <1>1, <1>7
<1>9. \A o \in ok : LET k == KidFor(ok, o) IN
        /\ kids'[k] \in KidType /\ kids'[k].obj = o /\ kids'[k].alive
        /\ kids'[k].gen = es[o].gen
  <2> TAKE o \in ok
  <2>1. (CHOOSE p \in ok : KidFor(ok, p) = KidFor(ok, o)) = o
    BY <1>3
  <2>2. kids'[KidFor(ok, o)] = [obj |-> o, gen |-> es[o].gen, alive |-> TRUE, killed |-> FALSE]
    BY <1>1, <1>5, <2>1
  <2>3. es[o].gen \in Nat /\ o \in Objects
    BY <1>2, <1>17 DEF EntryType
  <2> QED
    BY <2>2, <2>3 DEF KidType
<1>10. \A k \in Kids : (\A o \in ok : KidFor(ok, o) # k) => kids'[k] = ks[k]
  BY <1>1
<1>11. kids' \in [Kids -> KidType]
  <2>1. \A k \in Kids : kids'[k] \in KidType
    BY <1>9, <1>10, <1>17
  <2> QED
    BY <1>1, <2>1
<1>12. \A k \in Kids : k <= spawned => kids'[k] = ks[k]
  <2> SUFFICES ASSUME NEW k \in Kids, k <= spawned
               PROVE  \A o \in ok : KidFor(ok, o) # k
    BY <1>10
  <2>1. k \in Nat
    BY Objects_Kids
  <2> SUFFICES ASSUME NEW o \in ok
               PROVE  KidFor(ok, o) # k
    OBVIOUS
  <2>2. KidFor(ok, o) > spawned
    BY <1>5
  <2> QED
    BY <2>1, <2>2
<1>13. \A k \in Kids : kids'[k].alive =>
         \/ \E o \in ok : k = KidFor(ok, o)
         \/ ks[k].alive /\ kids'[k] = ks[k] /\ ks[k].obj \notin ok
  <2> SUFFICES ASSUME NEW k \in Kids, kids'[k].alive, \A o \in ok : KidFor(ok, o) # k
               PROVE  ks[k].alive /\ kids'[k] = ks[k] /\ ks[k].obj \notin ok
    OBVIOUS
  <2>1. kids'[k] = ks[k] /\ ks[k].alive
    BY <1>10
  <2>2. es[ks[k].obj].exit = k /\ k # None
    BY <1>17, <2>1, Objects_Kids DEF Sound
  <2> QED
    BY <1>2, <1>17, <2>1, <2>2 DEF Live
<1>14. \A o \in Objects : /\ ent'[o].child # None => ent'[o].child = ent'[o].exit
                          /\ ent'[o].exit <= spawned'
                          /\ ent'[o].child = None => ~Live(kids', ent'[o].exit)
  <2> TAKE o \in Objects
  <2>1. CASE o \in ok
    BY <1>5, <1>7, <2>1, Objects_Kids
  <2>2. CASE o \notin ok
    <3>1. /\ ent'[o].child = es[o].child /\ ent'[o].exit = es[o].exit
          /\ es[o].exit <= spawned /\ es[o].exit \in Kids \cup {None}
          /\ es[o].child # None => es[o].child = es[o].exit
          /\ es[o].child = None => ~Live(ks, es[o].exit)
      BY <1>7, <1>17, <2>2 DEF Sound, EntryType
    <3>4. es[o].exit \in Nat
      BY <3>1, Objects_Kids
    <3>2. ASSUME es[o].child = None, Live(kids', es[o].exit)
          PROVE  FALSE
      <4>1. es[o].exit \in Kids /\ kids'[es[o].exit].alive
        BY <1>17, <3>2 DEF Live, EntryType
      <4>2. ~ks[es[o].exit].alive
        BY <3>1, <3>2, <4>1, Objects_Kids DEF Live
      <4>3. PICK p \in ok : es[o].exit = KidFor(ok, p)
        BY <1>13, <4>1, <4>2
      <4>4. es[o].exit > spawned
        BY <1>5, <4>3
      <4> QED
        BY <3>1, <3>4, <4>4
    <3>3. ent'[o].exit <= spawned'
      BY <1>4, <3>1, <3>4
    <3>5. ent'[o].child = None => ~Live(kids', ent'[o].exit)
      BY <3>1, <3>2
    <3>6. ent'[o].child # None => ent'[o].child = ent'[o].exit
      BY <3>1
    <3> QED
      BY <3>3, <3>5, <3>6
  <2> QED
    BY <2>1, <2>2
<1>15. \A k \in Kids : kids'[k].alive =>
         /\ k <= spawned' /\ ent'[kids'[k].obj].exit = k
         /\ kids'[k].obj <= m
         /\ ent'[kids'[k].obj].desired = "stopped" => kids'[k].killed
  <2> SUFFICES ASSUME NEW k \in Kids, kids'[k].alive
               PROVE  /\ k <= spawned' /\ ent'[kids'[k].obj].exit = k
                      /\ kids'[k].obj <= m
                      /\ ent'[kids'[k].obj].desired = "stopped" => kids'[k].killed
    OBVIOUS
  <2>1. CASE \E o \in ok : k = KidFor(ok, o)
    BY <1>2, <1>5, <1>7, <1>9, <1>17, <2>1
  <2>2. CASE ks[k].alive /\ kids'[k] = ks[k] /\ ks[k].obj \notin ok
    <3>1. ks[k].obj \in Objects
      BY <1>17, <2>2 DEF KidType
    <3>2. k <= spawned /\ es[ks[k].obj].exit = k /\ ks[k].obj <= m
      BY <1>17, <2>2 DEF Sound
    <3>3. es[ks[k].obj].desired = "stopped" => ks[k].killed
      BY <1>17, <2>2 DEF Sound
    <3>4. k <= spawned'
      BY <1>4, <3>2, Objects_Kids
    <3> QED
      BY <1>7, <2>2, <3>1, <3>2, <3>3, <3>4
  <2> QED
    BY <1>13, <2>1, <2>2
<1>16. Sound(m, ent', kids', spawned')
  BY <1>14, <1>15 DEF Sound
<1>18. \A k \in Kids : kids'[k].alive =>
         \/ ks[k].alive /\ kids'[k] = ks[k]
         \/ kids'[k].obj \in S /\ kids'[k].gen = es[kids'[k].obj].gen
  BY <1>2, <1>9, <1>13
<1> QED
  BY <1>4, <1>6, <1>7, <1>8, <1>11, <1>16, <1>18

------------------------------------------------------------------------------
\* The adds of a queue.
Adds(q) == {i \in DOMAIN q : q[i].op = "add"}

\* An append counts the add it makes.
LEMMA AddsAppend ==
  ASSUME NEW q \in Seq(OpType), NEW x \in OpType
  PROVE  /\ Cardinality(Adds(q)) \in Nat
         /\ Cardinality(Adds(Append(q, x))) =
              IF x.op = "add" THEN Cardinality(Adds(q)) + 1 ELSE Cardinality(Adds(q))
<1>1. Len(q) \in Nat /\ DOMAIN q = 1 .. Len(q)
  BY LenProperties
<1>2. IsFiniteSet(Adds(q)) /\ Cardinality(Adds(q)) \in Nat
  <2>1. IsFiniteSet(1 .. Len(q)) /\ Adds(q) \subseteq 1 .. Len(q)
    BY <1>1, FS_Interval DEF Adds
  <2> QED
    BY <2>1, FS_Subset, FS_CardinalityType
<1>3. /\ Append(q, x) \in Seq(OpType) /\ Len(Append(q, x)) = Len(q) + 1
      /\ \A i \in 1 .. Len(q) : Append(q, x)[i] = q[i]
      /\ Append(q, x)[Len(q) + 1] = x
  BY AppendProperties
<1>4. DOMAIN Append(q, x) = 1 .. Len(q) + 1
  BY <1>3, LenProperties
<1>5. 1 .. Len(q) + 1 = (1 .. Len(q)) \cup {Len(q) + 1} /\ Len(q) + 1 \notin 1 .. Len(q)
  BY <1>1
<1>6. Len(q) + 1 \notin Adds(q)
  BY <1>1, <1>5 DEF Adds
<1>7. CASE x.op = "add"
  <2>1. Adds(Append(q, x)) = Adds(q) \cup {Len(q) + 1}
    BY <1>1, <1>3, <1>4, <1>5, <1>7 DEF Adds
  <2> QED
    BY <1>2, <1>6, <1>7, <2>1, FS_AddElement
<1>8. CASE x.op # "add"
  <2>1. Adds(Append(q, x)) = Adds(q)
    BY <1>1, <1>3, <1>4, <1>5, <1>8 DEF Adds
  <2> QED
    BY <1>2, <1>8, <2>1
<1> QED
  BY <1>7, <1>8

\* The tail of a queue has no more adds, and one less after an add.
LEMMA AddsTail ==
  ASSUME NEW q \in Seq(OpType), q # <<>>
  PROVE  /\ Cardinality(Adds(Tail(q))) \in Nat
         /\ Cardinality(Adds(Tail(q))) <= Cardinality(Adds(q))
         /\ Head(q).op = "add" => Cardinality(Adds(Tail(q))) + 1 <= Cardinality(Adds(q))
<1>1. /\ Len(q) \in Nat \ {0} /\ DOMAIN q = 1 .. Len(q)
      /\ Tail(q) \in Seq(OpType) /\ Len(Tail(q)) = Len(q) - 1
      /\ \A i \in 1 .. Len(Tail(q)) : Tail(q)[i] = q[i + 1]
  BY EmptySeq, LenProperties, HeadTailProperties
<1>2. DOMAIN Tail(q) = 1 .. Len(q) - 1 /\ Head(q) = q[1]
  BY <1>1, LenProperties
<1>3. IsFiniteSet(Adds(q)) /\ Cardinality(Adds(q)) \in Nat
  <2>1. IsFiniteSet(1 .. Len(q)) /\ Adds(q) \subseteq 1 .. Len(q)
    BY <1>1, FS_Interval DEF Adds
  <2> QED
    BY <2>1, FS_Subset, FS_CardinalityType
<1> DEFINE Rest == Adds(q) \ {1}
<1>9. PICK back : back = [i \in Rest |-> i - 1]
  OBVIOUS
<1>4. /\ IsFiniteSet(Rest) /\ Cardinality(Rest) \in Nat
      /\ Cardinality(Rest) = IF 1 \in Adds(q) THEN Cardinality(Adds(q)) - 1 ELSE Cardinality(Adds(q))
  BY <1>3, FS_RemoveElement, FS_CardinalityType
<1>5. back \in Surjection(Rest, Adds(Tail(q)))
  <2>4. \A i \in Rest : back[i] = i - 1
    BY <1>9
  <2>1. \A i \in Rest : back[i] \in Adds(Tail(q))
    <3> TAKE i \in Rest
    <3>1. i \in 1 .. Len(q) /\ i # 1 /\ q[i].op = "add"
      BY <1>1 DEF Adds
    <3>2. i - 1 \in 1 .. Len(q) - 1 /\ i - 1 + 1 = i
      BY <1>1, <3>1
    <3>3. Tail(q)[i - 1] = q[i]
      BY <1>1, <3>2
    <3> QED
      BY <1>2, <2>4, <3>1, <3>2, <3>3 DEF Adds
  <2>2. \A j \in Adds(Tail(q)) : \E i \in Rest : back[i] = j
    <3> TAKE j \in Adds(Tail(q))
    <3>1. j \in 1 .. Len(q) - 1 /\ Tail(q)[j].op = "add"
      BY <1>2 DEF Adds
    <3>2. j + 1 \in 1 .. Len(q) /\ j + 1 # 1 /\ (j + 1) - 1 = j
      BY <1>1, <3>1
    <3>3. j + 1 \in Rest
      BY <1>1, <3>1, <3>2 DEF Adds
    <3> QED
      BY <2>4, <3>2, <3>3
  <2>3. back \in [Rest -> Adds(Tail(q))]
    BY <1>9, <2>1
  <2> HIDE DEF Rest
  <2> QED
    BY <2>2, <2>3 DEF Surjection
<1> HIDE DEF Rest
<1>6. /\ IsFiniteSet(Adds(Tail(q))) /\ Cardinality(Adds(Tail(q))) <= Cardinality(Rest)
  BY <1>4, <1>5, FS_Surjection
<1>7. Cardinality(Adds(Tail(q))) \in Nat
  BY <1>6, FS_CardinalityType
<1>8. Head(q).op = "add" => 1 \in Adds(q)
  BY <1>1, <1>2 DEF Adds
<1> QED
  BY <1>3, <1>4, <1>6, <1>7, <1>8

------------------------------------------------------------------------------
\* A step that leaves the table and the queue alone, and the forward and the last
\* child of every entry.
LEMMA Touching ==
  ASSUME IInv, UNCHANGED <<entries, made, spawned, queue, waiting>>,
         ent' \in [Objects -> EntryType], kids' \in [Kids -> KidType], down' \in BOOLEAN,
         \A o \in Objects : ent'[o].fwd = ent[o].fwd /\ ent'[o].exit = ent[o].exit,
         Sound(made, ent', kids', spawned)
  PROVE  IInv'
<1>1. TypeOK'
  BY DEF IInv, TypeOK
<1>2. Sound(made, ent, kids, spawned)'
  BY DEF IInv
<1>3. TableInv'
  BY DEF IInv, TypeOK, TableInv, None
<1>4. QueueInv'
  <2>1. \A i \in 1 .. Len(queue) : queue[i] \in OpType
    BY LenProperties DEF IInv, TypeOK
  <2>2. \A i \in 1 .. Len(queue) : queue[i].obj # None => queue[i].obj \in Objects
    BY <2>1 DEF OpType
  <2> QED
    BY <2>2 DEF IInv, QueueInv
<1>5. WaitInv'
  <2>1. waiting # None => Head(queue) \in OpType
    BY HeadTailProperties DEF IInv, TypeOK
  <2>2. waiting # None => Callee(Head(queue)) \in Objects
    BY <2>1 DEF IInv, WaitInv, TypeOK, Callee, OpType
  <2>3. (Callee(Head(queue)))' = Callee(Head(queue))
    BY DEF Callee
  <2> QED
    BY <2>2, <2>3 DEF IInv, WaitInv
<1>6. RoomInv'
  BY DEF IInv, RoomInv, Adding
<1> QED
  BY <1>1, <1>2, <1>3, <1>4, <1>5, <1>6 DEF IInv

\* The first operation of the queue is done.
LEMMA Finishing ==
  ASSUME IInv, queue # <<>>, Done,
         entries' \in [Forwards -> Objects \cup {None}], ent' \in [Objects -> EntryType],
         kids' \in [Kids -> KidType], made' \in 0 .. MaxEntries,
         spawned' \in 0 .. MaxSpawns, down' \in BOOLEAN,
         Sound(made', ent', kids', spawned'), TableInv',
         made' = made \/ (made' = made + 1 /\ Head(queue).op = "add"),
         \A o \in Objects : o <= made => ent'[o].fwd = ent[o].fwd
  PROVE  IInv'
<1>1. /\ queue' = Tail(queue) /\ waiting' = None
      /\ queue \in Seq(OpType) /\ Len(queue) \in Nat \ {0}
  BY EmptySeq DEF Done, IInv, TypeOK
<1>2. /\ queue' \in Seq(OpType) /\ Len(queue') = Len(queue) - 1 /\ Head(queue) = queue[1]
      /\ \A i \in 1 .. Len(queue') : queue'[i] = queue[i + 1]
  BY <1>1, HeadTailProperties
<1>3. TypeOK'
  BY <1>1, <1>2 DEF TypeOK
<1>4. \A i \in 1 .. Len(queue') : i + 1 \in 1 .. Len(queue) /\ 1 < i + 1 /\ 1 \in 1 .. Len(queue)
  BY <1>1, <1>2
<1>5. \A i \in 1 .. Len(queue) : queue[i] \in OpType
  BY <1>1, LenProperties
<1>6. QueueInv'
  <2>1. made \in Nat /\ made <= made'
    BY ForwardsAssumption DEF IInv, TypeOK
  <2>2. ASSUME NEW i \in 1 .. Len(queue'), queue'[i].op \in Naming \cup {"retry"}
        PROVE  /\ queue'[i].obj # None /\ queue'[i].obj <= made'
               /\ queue'[i].op \in Naming => ent'[queue'[i].obj].fwd = queue'[i].fwd
    <3> DEFINE q == queue[i + 1]
    <3>1. queue'[i] = q /\ q \in OpType /\ q.op \in Naming \cup {"retry"}
      BY <1>2, <1>4, <1>5, <2>2
    <3>2. q.obj # None /\ q.obj <= made /\ (q.op \in Naming => ent[q.obj].fwd = q.fwd)
      BY <1>4, <3>1 DEF IInv, QueueInv
    <3> HIDE DEF q
    <3>3. q.obj \in Objects /\ q.obj \in Nat
      BY <3>1, <3>2, Objects_Kids DEF OpType
    <3> QED
      BY <2>1, <3>1, <3>2, <3>3
  <2> QED
    BY <2>2 DEF QueueInv, Naming
<1>7. WaitInv'
  BY <1>1 DEF WaitInv
<1>8. RoomInv'
  <2>1. Adding = Cardinality(Adds(queue)) /\ Adding' = Cardinality(Adds(Tail(queue)))
    BY <1>1 DEF Adding, Adds
  <2>2. /\ Cardinality(Adds(queue)) \in Nat /\ Cardinality(Adds(Tail(queue))) \in Nat
        /\ Cardinality(Adds(Tail(queue))) <= Cardinality(Adds(queue))
        /\ Head(queue).op = "add" => Cardinality(Adds(Tail(queue))) + 1 <= Cardinality(Adds(queue))
    <3>1. Head(queue) \in OpType
      BY <1>1, HeadTailProperties
    <3> QED
      BY <1>1, <3>1, AddsTail, AddsAppend
  <2>3. made \in Nat /\ made + Cardinality(Adds(queue)) <= MaxEntries /\ MaxEntries \in Nat
    BY <2>1, ForwardsAssumption DEF IInv, TypeOK, RoomInv
  <2> QED
    BY <2>1, <2>2, <2>3 DEF RoomInv
<1> QED
  BY <1>3, <1>6, <1>7, <1>8 DEF IInv

------------------------------------------------------------------------------
\* The entries es and the children ks are the present ones but for states,
\* generations, timers and signals; who is stopped has its children told to exit.
Alike(es, ks) ==
  /\ es \in [Objects -> EntryType] /\ ks \in [Kids -> KidType]
  /\ \A o \in Objects : /\ es[o].fwd = ent[o].fwd /\ es[o].exit = ent[o].exit
                        /\ es[o].child = ent[o].child
  /\ \A k \in Kids : /\ ks[k].alive <=> kids[k].alive
                     /\ ks[k].obj = kids[k].obj
                     /\ kids[k].killed => ks[k].killed
  /\ \A o \in Objects : es[o].desired = "stopped" =>
       \/ ent[o].desired = "stopped"
       \/ \A k \in Kids : kids[k].alive /\ kids[k].obj = o => ks[k].killed

\* Such entries and children agree with the table as the present ones do.
LEMMA AlikeSound ==
  ASSUME IInv, NEW es, NEW ks, Alike(es, ks)
  PROVE  Sound(made, es, ks, spawned)
<1>1. \A k \in Kids : kids[k].obj \in Objects
  BY DEF IInv, TypeOK, KidType
<1>3. \A o \in Objects : /\ es[o].child # None => es[o].child = es[o].exit
                         /\ es[o].exit <= spawned
  BY DEF IInv, Alike, Sound
<1>4. \A o \in Objects : es[o].child = None => ~Live(ks, es[o].exit)
  <2> TAKE o \in Objects
  <2>1. ent[o].exit \in Kids \cup {None}
    BY DEF IInv, TypeOK, EntryType
  <2>2. ent[o].child = None => ~Live(kids, ent[o].exit)
    BY DEF IInv, Sound
  <2> QED
    BY <2>1, <2>2 DEF Alike, Live
<1>5. \A k \in Kids : ks[k].alive =>
        /\ k <= spawned /\ es[ks[k].obj].exit = k /\ ks[k].obj <= made
  BY <1>1 DEF IInv, Alike, Sound
<1>6. \A k \in Kids : ks[k].alive => (es[ks[k].obj].desired = "stopped" => ks[k].killed)
  <2> SUFFICES ASSUME NEW k \in Kids, ks[k].alive, es[ks[k].obj].desired = "stopped"
               PROVE  ks[k].killed
    OBVIOUS
  <2>1. kids[k].alive /\ kids[k].obj = ks[k].obj /\ (kids[k].killed => ks[k].killed)
    BY DEF Alike
  <2>2. ent[kids[k].obj].desired = "stopped" => kids[k].killed
    BY <2>1 DEF IInv, Sound
  <2> QED
    BY <1>1, <2>1, <2>2 DEF Alike
<1> QED
  BY <1>3, <1>4, <1>5, <1>6 DEF Sound

\* A signal leaves a child alive.
LEMMA KilledFacts ==
  ASSUME kids \in [Kids -> KidType], NEW S
  PROVE  /\ Killed(S) \in [Kids -> KidType]
         /\ \A k \in Kids : /\ Killed(S)[k].alive <=> kids[k].alive
                            /\ Killed(S)[k].obj = kids[k].obj /\ Killed(S)[k].gen = kids[k].gen
                            /\ kids[k].killed => Killed(S)[k].killed
                            /\ k \in S => Killed(S)[k].killed
<1>1. \A k \in Kids : Killed(S)[k] = [kids[k] EXCEPT !.killed = kids[k].killed \/ k \in S]
  BY DEF Killed
<1>2. \A k \in Kids : /\ Killed(S)[k] \in KidType
                      /\ Killed(S)[k].obj = kids[k].obj /\ Killed(S)[k].gen = kids[k].gen
  <2> TAKE k \in Kids
  <2> DEFINE b == kids[k].killed \/ k \in S
  <2>1. kids[k] \in KidType /\ b \in BOOLEAN
    OBVIOUS
  <2>2. Killed(S)[k] = [kids[k] EXCEPT !.killed = b]
    BY <1>1
  <2> HIDE DEF b
  <2> QED
    BY <2>1, <2>2 DEF KidType
<1>3. \A k \in Kids : Killed(S)[k].alive = kids[k].alive
  <2> TAKE k \in Kids
  <2> DEFINE b == kids[k].killed \/ k \in S
  <2>1. kids[k] \in KidType /\ Killed(S)[k] = [kids[k] EXCEPT !.killed = b]
    BY <1>1
  <2> HIDE DEF b
  <2> QED
    BY <2>1 DEF KidType
<1>4. \A k \in Kids : Killed(S)[k].killed = (kids[k].killed \/ k \in S)
  <2> TAKE k \in Kids
  <2>1. kids[k] \in KidType
    OBVIOUS
  <2>2. "killed" \in DOMAIN kids[k]
    BY <2>1 DEF KidType
  <2> QED
    BY <1>1, <2>2, Zenon
<1>5. Killed(S) \in [Kids -> KidType]
  BY <1>2 DEF Killed
<1> QED
  BY <1>2, <1>3, <1>4, <1>5

\* Live children are where the entries say.
LEMMA LiveChild ==
  ASSUME IInv, NEW k \in Kids, kids[k].alive
  PROVE  /\ kids[k].obj \in Objects
         /\ ent[kids[k].obj].exit = k /\ ent[kids[k].obj].child = k
         /\ kids[k].obj <= made
<1>1. kids[k].obj \in Objects /\ k # None
  BY Objects_Kids DEF IInv, TypeOK, KidType
<1>2. ent[kids[k].obj].exit = k /\ kids[k].obj <= made
  BY DEF IInv, Sound
<1>3. ent[kids[k].obj].child = k
  BY <1>1, <1>2 DEF IInv, Sound, Live
<1> QED
  BY <1>1, <1>2, <1>3

\* The operation that runs awaits the exit of the last child of its entry.
LEMMA Awaiting ==
  ASSUME IInv, queue # <<>>, NEW o \in Objects,
         Head(queue).op # "ensure", Callee(Head(queue)) = o, o <= made,
         NEW es, NEW ks, Alike(es, ks),
         Alive(ent[o].exit), ent' = es, kids' = ks, waiting' = ent[o].exit,
         UNCHANGED <<entries, made, spawned, queue, down>>
  PROVE  IInv'
<1>1. Sound(made, es, ks, spawned) /\ es \in [Objects -> EntryType] /\ ks \in [Kids -> KidType]
  BY AlikeSound DEF Alike
<1>2. /\ es[o].fwd = ent[o].fwd /\ es[o].exit = ent[o].exit /\ es[o].exit \in Kids \cup {None}
      /\ \A p \in Objects : es[p].fwd = ent[p].fwd /\ es[p].exit = ent[p].exit
  BY <1>1 DEF Alike, EntryType
<1>3. waiting' \in Kids
  BY <1>2 DEF Alive
<1>4. TypeOK'
  BY <1>1, <1>3 DEF IInv, TypeOK
<1>5. TableInv'
  BY <1>2 DEF IInv, TypeOK, TableInv, None
<1>6. QueueInv'
  <2>1. \A i \in 1 .. Len(queue) : queue[i] \in OpType
    BY LenProperties DEF IInv, TypeOK
  <2>2. \A i \in 1 .. Len(queue) : queue[i].obj # None => queue[i].obj \in Objects
    BY <2>1 DEF OpType
  <2> QED
    BY <1>2, <2>2 DEF IInv, QueueInv
<1>7. WaitInv'
  <2>1. (Callee(Head(queue)))' = o /\ o # None
    BY Objects_Kids DEF Callee
  <2> QED
    BY <1>2, <2>1 DEF WaitInv
<1>8. RoomInv'
  BY DEF IInv, RoomInv, Adding
<1> QED
  BY <1>1, <1>4, <1>5, <1>6, <1>7, <1>8 DEF IInv

\* Or it spawns at once, when that child is gone.
LEMMA AwaitsOrSpawns ==
  ASSUME IInv, queue # <<>>, NEW o \in Objects,
         Head(queue).op # "ensure", Callee(Head(queue)) = o, o <= made,
         NEW es, NEW ks, Alike(es, ks), SpawnAfterExit(o, es, ks),
         UNCHANGED <<entries, made, down>>
  PROVE  IInv'
<1>1. Sound(made, es, ks, spawned) /\ es \in [Objects -> EntryType] /\ ks \in [Kids -> KidType]
  BY AlikeSound DEF Alike
<1>2. /\ es[o].fwd = ent[o].fwd /\ es[o].exit = ent[o].exit /\ es[o].exit \in Kids \cup {None}
      /\ \A p \in Objects : es[p].fwd = ent[p].fwd /\ es[p].exit = ent[p].exit
  BY <1>1 DEF Alike, EntryType
<1>3. CASE /\ Alive(es[o].exit)
           /\ ent' = es /\ kids' = ks
           /\ waiting' = es[o].exit
           /\ UNCHANGED <<spawned, queue>>
  BY <1>2, <1>3, Awaiting
<1>4. CASE ~Alive(es[o].exit) /\ SpawnAttempt(o, es, ks) /\ Done
  <2>1. ~Live(ks, es[o].exit)
    BY <1>2, <1>4 DEF Alive, Live, Alike
  <2>2. spawned \in Nat /\ spawned <= MaxSpawns
    BY ForwardsAssumption DEF IInv, TypeOK
  <2>3. SpawnAttempts({o}, es, ks) /\ {o} \in SUBSET Objects
    BY <1>4 DEF SpawnAttempt
  <2>4. \A p \in {o} : ~Live(ks, es[p].exit) /\ p <= made
    BY <1>2, <2>1
  <2>5. /\ ent' \in [Objects -> EntryType] /\ kids' \in [Kids -> KidType]
        /\ spawned' \in 0 .. MaxSpawns
        /\ Sound(made, ent', kids', spawned')
        /\ \A p \in Objects : ent'[p].fwd = es[p].fwd
    <3>1. Ready({o}, made, es, ks)
      BY <1>1, <2>3, <2>4 DEF Ready
    <3> QED
      BY <2>2, <2>3, <3>1, Spawning
  <2>6. TableInv'
    BY <1>2, <2>5 DEF IInv, TypeOK, TableInv, None
  <2> QED
    BY <1>2, <1>4, <2>5, <2>6, Finishing DEF IInv, TypeOK
<1> QED
  BY <1>3, <1>4 DEF SpawnAfterExit

\* What the first operation of the queue names.
LEMMA Heading ==
  ASSUME IInv, queue # <<>>
  PROVE  /\ Head(queue) \in OpType
         /\ Head(queue).op \in Naming => /\ Head(queue).obj \in Objects
                                         /\ ent[Head(queue).obj].fwd = Head(queue).fwd
                                         /\ Head(queue).obj <= made
         /\ Head(queue).op = "retry" => Head(queue).obj \in Objects /\ Head(queue).obj <= made
<1>1. queue \in Seq(OpType) /\ Len(queue) \in Nat \ {0}
  BY EmptySeq DEF IInv, TypeOK
<1>2. Head(queue) = queue[1] /\ Head(queue) \in OpType /\ 1 \in 1 .. Len(queue)
  BY <1>1, HeadTailProperties
<1>3. Head(queue).obj \in Objects \cup {None}
  BY <1>2 DEF OpType
<1>4. QueueInv
  BY DEF IInv
<1> QED
  BY <1>2, <1>3, <1>4 DEF QueueInv

\* A stop() or remove() whose child is gone ends.
LEMMA Ending ==
  ASSUME IInv, queue # <<>>, Head(queue).op \in {"stop", "remove"},
         NEW o, o = Head(queue).obj, NEW es, NEW ks, Alike(es, ks), kids' = ks,
         ~Alive(ent[o].exit), Finish(Head(queue).op, o, es),
         UNCHANGED <<made, spawned, down>>
  PROVE  IInv'
<1>1. /\ o \in Objects /\ Head(queue).fwd \in Forwards
      /\ ent[o].fwd = Head(queue).fwd
  BY Heading DEF Naming, OpType
<1>2. Sound(made, es, ks, spawned) /\ es \in [Objects -> EntryType] /\ ks \in [Kids -> KidType]
  BY AlikeSound DEF Alike
<1>3. /\ ent' = [es EXCEPT ![o] = Stopped(@)] /\ Done
      /\ entries' = IF Head(queue).op = "remove" THEN [entries EXCEPT ![Head(queue).fwd] = None]
                    ELSE entries
  BY <1>1 DEF Finish
<1>4. /\ Stopped(es[o]) \in EntryType
      /\ Stopped(es[o]).fwd = es[o].fwd /\ Stopped(es[o]).exit = es[o].exit
      /\ Stopped(es[o]).desired = es[o].desired /\ Stopped(es[o]).child = None
  <2>1. es[o] \in EntryType
    BY <1>1, <1>2
  <2> QED
    BY <2>1 DEF Stopped, EntryType, States
<1>5. /\ ent' \in [Objects -> EntryType] /\ entries' \in [Forwards -> Objects \cup {None}]
      /\ ent'[o] = Stopped(es[o]) /\ \A p \in Objects : p # o => ent'[p] = es[p]
  BY <1>1, <1>2, <1>3, <1>4 DEF IInv, TypeOK
<1>6. \A p \in Objects : /\ ent'[p].fwd = ent[p].fwd /\ ent'[p].exit = es[p].exit
                         /\ ent'[p].desired = es[p].desired
                         /\ p # o => ent'[p].child = es[p].child
                         /\ p = o => ent'[p].child = None
  BY <1>4, <1>5 DEF Alike
<1>7. \A f \in Forwards : entries'[f] = entries[f] \/ (Head(queue).op = "remove" /\ Head(queue).fwd = f /\ entries'[f] = None)
  BY <1>1, <1>3 DEF IInv, TypeOK
<1>8. ~Live(ks, es[o].exit)
  <2>1. es[o].exit = ent[o].exit /\ es[o].exit \in Kids \cup {None}
    BY <1>1, <1>2 DEF Alike, EntryType
  <2> QED
    BY <2>1 DEF Alive, Live, Alike
<1>9. Sound(made, ent', ks, spawned)
  <2>1. \A p \in Objects : /\ ent'[p].child # None => ent'[p].child = ent'[p].exit
                           /\ ent'[p].exit <= spawned
                           /\ ent'[p].child = None => ~Live(ks, ent'[p].exit)
    BY <1>2, <1>6, <1>8 DEF Sound
  <2>2. ASSUME NEW k \in Kids, ks[k].alive
        PROVE  /\ k <= spawned /\ ent'[ks[k].obj].exit = k
               /\ ks[k].obj <= made
               /\ ent'[ks[k].obj].desired = "stopped" => ks[k].killed
    <3> DEFINE p == ks[k].obj
    <3>1. /\ p \in Objects /\ k \in Nat \ {0}
      BY <1>2, Objects_Kids DEF KidType
    <3>2. k <= spawned /\ es[p].exit = k /\ p <= made
      BY <1>2, <2>2 DEF Sound
    <3>3. es[p].desired = "stopped" => ks[k].killed
      BY <1>2, <2>2 DEF Sound
    <3> QED
      BY <1>6, <3>1, <3>2, <3>3
  <2> QED
    BY <2>1, <2>2 DEF Sound
<1>10. TableInv'
  BY <1>6, <1>7 DEF IInv, TypeOK, TableInv, None
<1>11. Head(queue).op # "add" /\ made' \in 0 .. MaxEntries /\ spawned' \in 0 .. MaxSpawns /\ down' \in BOOLEAN
  BY DEF IInv, TypeOK
<1> QED
  BY <1>2, <1>3, <1>5, <1>6, <1>7, <1>9, <1>10, <1>11, Finishing

------------------------------------------------------------------------------
\* A restart keeps an entry's forward, child and timer, in a new generation.
LEMMA RestartedTypes ==
  ASSUME NEW e \in EntryType
  PROVE  /\ Restarted(e) \in EntryType
         /\ Restarted(e).fwd = e.fwd /\ Restarted(e).desired = "running"
         /\ Restarted(e).exit = e.exit /\ Restarted(e).child = e.child
         /\ Restarted(e).timer = e.timer
         /\ Restarted(e).gen = e.gen + 1
<1>1. e.gen + 1 \in Nat
  BY DEF EntryType
<1>2. /\ Restarted(e).fwd = e.fwd /\ Restarted(e).desired = "running"
      /\ Restarted(e).exit = e.exit /\ Restarted(e).child = e.child
      /\ Restarted(e).timer = e.timer
      /\ Restarted(e).gen = e.gen + 1
  BY DEF Restarted, EntryType
<1>3. Restarted(e) \in EntryType
  <2> DEFINE g == e.gen + 1
  <2>1. g \in Nat
    BY <1>1
  <2>2. Restarted(e) = [e EXCEPT !.desired = "running", !.gen = g, !.attempt = 0,
                                 !.state = "starting"]
    BY DEF Restarted
  <2> HIDE DEF g
  <2> QED
    BY <2>1, <2>2 DEF EntryType, States, Desires
<1> QED
  BY <1>2, <1>3

\* A restart ends the entry's child and spawns after its exit.
LEMMA RestartKeeps ==
  ASSUME IInv, queue # <<>>, NEW o \in Objects,
         Head(queue).op # "ensure", Callee(Head(queue)) = o, o <= made,
         Restart(o), UNCHANGED <<entries, made, down>>
  PROVE  IInv'
<1> DEFINE es == [ent EXCEPT ![o] = Restarted(@)]
           ks == Killed({ent[o].child})
<1>1. ent \in [Objects -> EntryType] /\ kids \in [Kids -> KidType]
  BY DEF IInv, TypeOK
<1>2. /\ Restarted(ent[o]) \in EntryType /\ Restarted(ent[o]).fwd = ent[o].fwd
      /\ Restarted(ent[o]).exit = ent[o].exit /\ Restarted(ent[o]).child = ent[o].child
      /\ Restarted(ent[o]).desired = "running"
  BY <1>1, RestartedTypes
<1>3. /\ es \in [Objects -> EntryType] /\ es[o] = Restarted(ent[o])
      /\ \A p \in Objects : p # o => es[p] = ent[p]
  BY <1>1, <1>2
<1>4. /\ ks \in [Kids -> KidType]
      /\ \A k \in Kids : /\ ks[k].alive <=> kids[k].alive
                         /\ ks[k].obj = kids[k].obj
                         /\ kids[k].killed => ks[k].killed
  BY <1>1, KilledFacts
<1>5. SpawnAfterExit(o, es, ks)
  BY DEF Restart
<1> HIDE DEF es, ks
<1>6. Alike(es, ks)
  BY <1>2, <1>3, <1>4 DEF Alike
<1> QED
  BY <1>5, <1>6, AwaitsOrSpawns

\* add() makes an entry of its own, which is ready to spawn.
Makes(f, o, en, es) ==
  /\ f \in Forwards
  /\ entries[f] = None /\ o = made + 1 /\ en = [entries EXCEPT ![f] = o]
  /\ es = [ent EXCEPT ![o] = Entry(f, "running", "starting")]

\* What then holds of the number o, the table en and the entries es.
Made(f, o, en, es) ==
  /\ o \in Objects /\ o \in 0 .. MaxEntries /\ made \in Nat
  /\ es \in [Objects -> EntryType] /\ es[o].fwd = f /\ es[o].timer = {}
  /\ \A p \in Objects : p # o => es[p] = ent[p]
  /\ en \in [Forwards -> Objects \cup {None}] /\ en[f] = o
  /\ \A g \in Forwards : g # f => en[g] = entries[g]
  /\ Ready({o}, made + 1, es, kids)

\* A new entry has a number of its own, and is ready to spawn.
LEMMA NewEntry ==
  ASSUME IInv, queue # <<>>, Head(queue).op = "add",
         NEW f, NEW o, NEW en, NEW es, Makes(f, o, en, es)
  PROVE  Made(f, o, en, es)
<1> DEFINE e == Entry(f, "running", "starting")
<1>10. /\ entries[f] = None /\ o = made + 1 /\ en = [entries EXCEPT ![f] = o]
       /\ es = [ent EXCEPT ![o] = e] /\ f \in Forwards
  BY DEF Makes
<1>0. ent \in [Objects -> EntryType] /\ entries \in [Forwards -> Objects \cup {None}]
  BY DEF IInv, TypeOK
<1>1. o \in Objects /\ o \in 0 .. MaxEntries /\ made \in Nat
  <2>1. queue \in Seq(OpType) /\ Head(queue) \in OpType
    BY Heading DEF IInv, TypeOK
  <2>2. Adding = Cardinality(Adds(queue)) /\ Cardinality(Adds(queue)) >= 1
    <3>1. /\ Cardinality(Adds(queue)) \in Nat /\ Cardinality(Adds(Tail(queue))) \in Nat
          /\ Cardinality(Adds(Tail(queue))) + 1 <= Cardinality(Adds(queue))
      BY <2>1, AddsTail, AddsAppend
    <3>2. Adding = Cardinality(Adds(queue))
      BY DEF Adding, Adds
    <3> QED
      BY <3>1, <3>2
  <2>3. Cardinality(Adds(queue)) \in Nat
    BY <2>1, AddsAppend
  <2> QED
    BY <1>10, <2>2, <2>3, ForwardsAssumption DEF IInv, RoomInv, TypeOK, Objects
<1>2. /\ e \in EntryType /\ e.fwd = f /\ e.desired = "running"
      /\ e.child = None /\ e.exit = None
      /\ e.timer = {}
  BY <1>10 DEF Entry, NoEntry, EntryType, Desires, States
<1> HIDE DEF e
<1>3. /\ es \in [Objects -> EntryType] /\ es[o] = e
      /\ \A p \in Objects : p # o => es[p] = ent[p]
  BY <1>0, <1>1, <1>2, <1>10
<1>5. /\ en \in [Forwards -> Objects \cup {None}] /\ en[f] = o
      /\ \A g \in Forwards : g # f => en[g] = entries[g]
  BY <1>0, <1>1, <1>10
<1>6. \A k \in Kids : kids[k].alive =>
        kids[k].obj \in Objects /\ kids[k].obj # o /\ kids[k].obj <= o
  <2> TAKE k \in Kids
  <2> HAVE kids[k].alive
  <2>1. kids[k].obj \in Objects /\ kids[k].obj <= made
    BY LiveChild
  <2>2. kids[k].obj \in Nat
    BY <2>1, Objects_Kids
  <2> QED
    BY <1>1, <1>10, <2>1, <2>2
<1>7. Sound(o, es, kids, spawned)
  <2>1. \A p \in Objects : /\ es[p].child # None => es[p].child = es[p].exit
                           /\ es[p].exit <= spawned
                           /\ es[p].child = None => ~Live(kids, es[p].exit)
    <3> TAKE p \in Objects
    <3>1. CASE p = o
      <4>1. es[p].child = None /\ es[p].exit = None /\ spawned \in Nat
        BY <1>2, <1>3, <3>1, ForwardsAssumption DEF IInv, TypeOK
      <4> QED
        BY <4>1 DEF Live, None
    <3>2. CASE p # o
      BY <1>3, <3>2 DEF IInv, Sound
    <3> QED
      BY <3>1, <3>2
  <2>2. ASSUME NEW k \in Kids, kids[k].alive
        PROVE  /\ k <= spawned /\ es[kids[k].obj].exit = k
               /\ kids[k].obj <= o
               /\ es[kids[k].obj].desired = "stopped" => kids[k].killed
    <3>1. /\ kids[k].obj \in Objects /\ es[kids[k].obj] = ent[kids[k].obj]
          /\ kids[k].obj <= o
      BY <1>3, <1>6, <2>2
    <3>3. k <= spawned /\ ent[kids[k].obj].exit = k
      BY <2>2 DEF IInv, Sound
    <3>4. ent[kids[k].obj].desired = "stopped" => kids[k].killed
      BY <2>2 DEF IInv, Sound
    <3> QED
      BY <3>1, <3>3, <3>4
  <2> QED
    BY <2>1, <2>2 DEF Sound
<1>8. \A p \in {o} : ~Live(kids, es[p].exit) /\ p <= o
  BY <1>1, <1>2, <1>3, Objects_Kids DEF Live
<1>9. Ready({o}, o, es, kids)
  BY <1>1, <1>3, <1>7, <1>8 DEF Ready, IInv, TypeOK
<1> QED
  BY <1>1, <1>2, <1>3, <1>5, <1>9, <1>10 DEF Made

\* add() starts a stopped forward again, or makes an entry and spawns.
LEMMA AddKeeps ==
  ASSUME IInv, queue # <<>>, Head(queue).op = "add", RunAdd(Head(queue).fwd),
         UNCHANGED down
  PROVE  IInv'
<1> DEFINE f == Head(queue).fwd
<1>1. f \in Forwards /\ ent \in [Objects -> EntryType] /\ entries \in [Forwards -> Objects \cup {None}]
  BY Heading DEF OpType, IInv, TypeOK
<1>2. entries[f] # None => entries[f] \in Objects /\ entries[f] <= made /\ ent[entries[f]].fwd = f
  BY <1>1 DEF IInv, TableInv
<1>3. ASSUME Done, UNCHANGED <<entries, ent, made, kids, spawned>>
      PROVE  IInv'
  BY <1>3, Finishing DEF IInv, TypeOK, TableInv
<1>4. CASE entries[f] # None /\ Restart(entries[f]) /\ UNCHANGED <<entries, made>>
  <2>1. Callee(Head(queue)) = entries[f]
    BY DEF Callee
  <2> QED
    BY <1>2, <1>4, <2>1, RestartKeeps
<1>5. CASE /\ entries[f] = None
           /\ made' = made + 1
           /\ entries' = [entries EXCEPT ![f] = made']
           /\ SpawnAttempt(made', [ent EXCEPT ![made'] = Entry(f, "running", "starting")], kids)
           /\ Done
  <2> DEFINE o == made + 1
             es == [ent EXCEPT ![o] = Entry(f, "running", "starting")]
  <2>4. entries' = [entries EXCEPT ![f] = o] /\ SpawnAttempts({o}, es, kids) /\ Done
    BY <1>5 DEF SpawnAttempt
  <2>6. PICK en : en = entries'
    OBVIOUS
  <2>7. Makes(f, o, en, es)
    BY <1>1, <1>5, <2>4, <2>6 DEF Makes
  <2>8. f = Head(queue).fwd
    OBVIOUS
  <2>15. Made(f, o, en, es)
    <3> HIDE DEF es, f, o
    <3> QED
      BY <2>7, NewEntry
  <2> HIDE DEF es, f
  <2>1. o \in Objects /\ o \in 0 .. MaxEntries /\ made \in Nat
    BY <2>15 DEF Made
  <2>2. es \in [Objects -> EntryType] /\ es[o].fwd = f /\ \A p \in Objects : p # o => es[p] = ent[p]
    BY <2>15 DEF Made
  <2>3. Ready({o}, made + 1, es, kids)
    BY <2>15 DEF Made
  <2>5. /\ entries' \in [Forwards -> Objects \cup {None}] /\ entries'[f] = o
        /\ \A g \in Forwards : g # f => entries'[g] = entries[g]
    BY <1>1, <2>1, <2>4
  <2>9. spawned \in Nat /\ spawned <= MaxSpawns
    BY ForwardsAssumption DEF IInv, TypeOK
  <2>10. /\ ent' \in [Objects -> EntryType] /\ kids' \in [Kids -> KidType]
         /\ spawned' \in 0 .. MaxSpawns
         /\ Sound(made', ent', kids', spawned')
         /\ \A p \in Objects : ent'[p].fwd = es[p].fwd
    BY <1>5, <2>3, <2>4, <2>9, Spawning
  <2>11. \A p \in Objects : p <= made => ent'[p].fwd = ent[p].fwd
    BY <2>1, <2>2, <2>10, Objects_Kids
  <2>12. TableInv'
    <3> SUFFICES ASSUME NEW g \in Forwards, entries'[g] # None
                 PROVE  entries'[g] <= made' /\ ent'[entries'[g]].fwd = g
      BY DEF TableInv, None
    <3>1. CASE g = f
      BY <1>5, <2>1, <2>2, <2>5, <2>10, <3>1
    <3>2. CASE g # f
      <4>1. entries'[g] = entries[g] /\ entries[g] \in Objects /\ entries[g] <= made
            /\ ent[entries[g]].fwd = g
        BY <1>1, <2>5, <3>2 DEF IInv, TableInv
      <4>2. entries[g] <= made'
        <5>1. made' = made + 1 /\ made \in Nat /\ entries[g] \in Nat
          BY <1>5, <2>1, <4>1, Objects_Kids
        <5> QED
          BY <4>1, <5>1
      <4> QED
        BY <2>11, <4>1, <4>2
    <3> QED
      BY <3>1, <3>2
  <2>14. made' \in 0 .. MaxEntries /\ down' \in BOOLEAN /\ Done
    BY <1>5, <2>1 DEF IInv, TypeOK
  <2> HIDE DEF o
  <2> QED
    BY <1>5, <2>5, <2>10, <2>11, <2>12, <2>14, Finishing
<1> QED
  BY <1>3, <1>4, <1>5 DEF RunAdd

\* Stopping an entry keeps its forward and child, in a new generation, unarmed.
LEMMA StoppingTypes ==
  ASSUME NEW e \in EntryType
  PROVE  /\ Stopping(e) \in EntryType
         /\ Stopping(e).fwd = e.fwd
         /\ Stopping(e).exit = e.exit /\ Stopping(e).child = e.child
         /\ Stopping(e).timer = {}
         /\ Stopping(e).gen = e.gen + 1
<1>1. e.gen + 1 \in Nat
  BY DEF EntryType
<1>2. /\ Stopping(e).fwd = e.fwd
      /\ Stopping(e).exit = e.exit /\ Stopping(e).child = e.child
      /\ Stopping(e).timer = {}
      /\ Stopping(e).gen = e.gen + 1
  BY DEF Stopping, Unarmed, EntryType
<1>3. Stopping(e) \in EntryType
  <2> DEFINE g == e.gen + 1
  <2>1. g \in Nat
    BY <1>1
  <2>2. Stopping(e) = [e EXCEPT !.timer = {}, !.desired = "stopped", !.gen = g]
    BY DEF Stopping, Unarmed, EntryType
  <2> HIDE DEF g
  <2> QED
    BY <2>1, <2>2 DEF EntryType, Desires
<1> QED
  BY <1>2, <1>3

\* stop() and remove() end the entry's child.
LEMMA StopKeeps ==
  ASSUME IInv, queue # <<>>, Head(queue).op \in {"stop", "remove"},
         RunStop(Head(queue).op, Head(queue).obj), UNCHANGED down
  PROVE  IInv'
<1> DEFINE o == Head(queue).obj
           es == [ent EXCEPT ![o] = Stopping(@)]
           ks == KilledBy(ent[o].child)
<1>1. /\ o \in Objects /\ o <= made /\ Callee(Head(queue)) = o
      /\ Head(queue).op # "ensure"
  BY Heading DEF Naming, Callee
<1>2. ent \in [Objects -> EntryType] /\ kids \in [Kids -> KidType]
  BY DEF IInv, TypeOK
<1>3. /\ es \in [Objects -> EntryType] /\ es[o] = Stopping(ent[o])
      /\ \A p \in Objects : p # o => es[p] = ent[p]
  BY <1>1, <1>2, StoppingTypes
<1>4. /\ ks \in [Kids -> KidType]
      /\ \A k \in Kids : /\ ks[k].alive <=> kids[k].alive
                         /\ ks[k].obj = kids[k].obj
                         /\ kids[k].killed => ks[k].killed
                         /\ k \in {ent[o].child} => ks[k].killed
  BY <1>2, KilledFacts DEF KilledBy
<1>5. /\ kids' = ks /\ UNCHANGED <<made, spawned>>
      /\ \/ /\ Alive(ent[o].child)
            /\ ent' = es
            /\ waiting' = ent[o].exit
            /\ UNCHANGED <<entries, queue>>
         \/ /\ ~Alive(ent[o].child)
            /\ Finish(Head(queue).op, o, es)
  BY DEF RunStop
<1>6. \A k \in Kids : kids[k].alive /\ kids[k].obj = o => ks[k].killed
  BY <1>4, LiveChild
<1>7. \A p \in Objects : es[p].fwd = ent[p].fwd /\ es[p].exit = ent[p].exit /\ es[p].child = ent[p].child
  <2>1. Stopping(ent[o]).fwd = ent[o].fwd /\ Stopping(ent[o]).exit = ent[o].exit
        /\ Stopping(ent[o]).child = ent[o].child
    BY <1>1, <1>2, StoppingTypes
  <2> QED
    BY <1>3, <2>1
<1> HIDE DEF es, ks, o
<1>8. Alike(es, ks)
  BY <1>3, <1>4, <1>6, <1>7 DEF Alike
<1>9. /\ ent[o].child # None => ent[o].child = ent[o].exit
      /\ ent[o].child = None => ~Live(kids, ent[o].exit)
  BY <1>1 DEF IInv, Sound
<1>10. Alive(ent[o].child) => Alive(ent[o].exit)
  BY <1>9 DEF Alive
<1>11. ~Alive(ent[o].child) => ~Alive(ent[o].exit)
  BY <1>9 DEF Alive, Live
<1>12. CASE Alive(ent[o].child)
  <2>1. ent' = es /\ waiting' = ent[o].exit /\ UNCHANGED <<entries, queue, made, spawned>> /\ kids' = ks
    BY <1>5, <1>12
  <2> QED
    BY <1>1, <1>8, <1>10, <1>12, <2>1, Awaiting
<1>13. CASE ~Alive(ent[o].child)
  <2>1. Finish(Head(queue).op, o, es) /\ kids' = ks /\ UNCHANGED <<made, spawned>>
    BY <1>5, <1>13
  <2>2. o = Head(queue).obj
    BY DEF o
  <2> QED
    BY <1>8, <1>11, <1>13, <2>1, <2>2, Ending
<1> QED
  BY <1>12, <1>13

\* ensure() spawns for the entries that were restored and never started.
LEMMA EnsureKeeps ==
  ASSUME IInv, queue # <<>>, Head(queue).op = "ensure", RunEnsure, UNCHANGED down
  PROVE  IInv'
<1> DEFINE S == {o \in Objects : Ensures(o)}
           es == [o \in Objects |->
                   IF o \in S THEN [ent[o] EXCEPT !.gen = @ + 1, !.attempt = 0] ELSE ent[o]]
<1>1. SpawnAttempts(S, es, kids) /\ Done /\ UNCHANGED <<entries, made>> /\ S \in SUBSET Objects
  BY DEF RunEnsure
<1>2. /\ ent \in [Objects -> EntryType] /\ kids \in [Kids -> KidType]
      /\ spawned \in Nat /\ spawned <= MaxSpawns
  BY ForwardsAssumption DEF IInv, TypeOK
<1>3. \A o \in Objects :
        /\ es[o] \in EntryType /\ es[o].fwd = ent[o].fwd /\ es[o].exit = ent[o].exit
        /\ es[o].child = ent[o].child /\ es[o].desired = ent[o].desired
  <2> TAKE o \in Objects
  <2> DEFINE g == ent[o].gen + 1
  <2>1. ent[o] \in EntryType /\ g \in Nat
    BY <1>2 DEF EntryType
  <2>2. es[o] = ent[o] \/ es[o] = [ent[o] EXCEPT !.gen = g, !.attempt = 0]
    BY <2>1 DEF EntryType
  <2> HIDE DEF g, es
  <2> QED
    BY <2>1, <2>2 DEF EntryType
<1>4. es \in [Objects -> EntryType]
  BY <1>3
<1>5. \A o \in S : ent[o].child = None /\ o <= made
  BY DEF Ensures, Listed, IInv, TableInv, Objects, None
<1> HIDE DEF es, S
<1>6. Alike(es, kids)
  BY <1>2, <1>3, <1>4 DEF Alike
<1>7. \A o \in S : ~Live(kids, es[o].exit) /\ o <= made
  BY <1>1, <1>3, <1>5 DEF IInv, Sound
<1>8. /\ ent' \in [Objects -> EntryType] /\ kids' \in [Kids -> KidType]
      /\ spawned' \in 0 .. MaxSpawns
      /\ Sound(made, ent', kids', spawned')
      /\ \A o \in Objects : ent'[o].fwd = es[o].fwd
  <2>1. Sound(made, es, kids, spawned)
    BY <1>6, AlikeSound
  <2> QED
    <3>1. Ready(S, made, es, kids)
      BY <1>1, <1>2, <1>4, <1>7, <2>1 DEF Ready
    <3> QED
      BY <1>1, <1>2, <3>1, Spawning
<1>9. \A o \in Objects : ent'[o].fwd = ent[o].fwd
  BY <1>3, <1>8
<1>10. TableInv'
  BY <1>1, <1>9 DEF IInv, TypeOK, TableInv, None
<1> QED
  BY <1>1, <1>8, <1>9, <1>10, Finishing DEF IInv, TypeOK

\* A retry that is still valid spawns after the exit of the entry's child.
LEMMA RetryKeeps ==
  ASSUME IInv, queue # <<>>, Head(queue).op = "retry",
         RunRetry(Head(queue).obj, Head(queue).gen), UNCHANGED down
  PROVE  IInv'
<1> DEFINE o == Head(queue).obj
<1>1. o \in Objects /\ Callee(Head(queue)) = o
  BY Heading DEF Callee
<1>2. Alike(ent, kids)
  BY DEF Alike, IInv, TypeOK
<1>3. CASE RetryValid(o, Head(queue).gen) /\ SpawnAfterExit(o, ent, kids)
  <2>1. o <= made /\ UNCHANGED <<entries, made>>
    BY <1>3, Heading DEF RunRetry
  <2> HIDE DEF o
  <2> QED
    BY <1>1, <1>2, <1>3, <2>1, AwaitsOrSpawns
<1>4. CASE Done /\ UNCHANGED <<entries, made, ent, kids, spawned>>
  BY <1>4, Finishing DEF IInv, TypeOK, TableInv
<1> QED
  BY <1>3, <1>4 DEF RunRetry

\* Whichever operation comes first in the queue, running it keeps the invariant.
LEMMA RunOpKeeps == IInv /\ RunOp => IInv'
<1> SUFFICES ASSUME IInv, RunOp
             PROVE  IInv'
  OBVIOUS
<1> DEFINE q == Head(queue)
<1>1. queue # <<>> /\ UNCHANGED down
  BY DEF RunOp
<1>2. CASE q.op = "add" /\ RunAdd(q.fwd)
  BY <1>1, <1>2, AddKeeps
<1>3. CASE q.op = "start" /\ Restart(q.obj) /\ UNCHANGED <<entries, made>>
  <2>1. q.obj \in Objects /\ q.obj <= made /\ Callee(q) = q.obj
    BY <1>1, <1>3, Heading DEF Naming, Callee
  <2> QED
    BY <1>1, <1>3, <2>1, RestartKeeps
<1>4. CASE q.op \in {"stop", "remove"} /\ RunStop(q.op, q.obj)
  BY <1>1, <1>4, StopKeeps
<1>5. CASE q.op = "ensure" /\ RunEnsure
  BY <1>1, <1>5, EnsureKeeps
<1>6. CASE q.op = "retry" /\ RunRetry(q.obj, q.gen)
  BY <1>1, <1>6, RetryKeeps
<1> QED
  BY <1>2, <1>3, <1>4, <1>5, <1>6 DEF RunOp

\* After the exit it awaited the operation goes on.
LEMMA OpResumesKeeps == IInv /\ OpResumes => IInv'
<1> SUFFICES ASSUME IInv, OpResumes
             PROVE  IInv'
  OBVIOUS
<1> DEFINE q == Head(queue)
           o == Callee(q)
<1>1. /\ waiting # None /\ ~kids[waiting].alive /\ queue # <<>> /\ UNCHANGED <<made, down>>
      /\ q \in OpType
  BY Heading DEF OpResumes, IInv, TypeOK
<1>2. waiting = ent[o].exit /\ o <= made /\ o \in Objects
  <2>1. o # None /\ waiting = ent[o].exit /\ o <= made
    BY <1>1 DEF IInv, WaitInv
  <2> QED
    BY <1>1, <2>1 DEF Callee, OpType, IInv, TypeOK
<1>3. Alike(ent, kids)
  BY DEF Alike, IInv, TypeOK
<1>4. \/ /\ q.op \in {"stop", "remove"}
         /\ Finish(q.op, o, ent)
         /\ UNCHANGED <<kids, spawned>>
      \/ /\ SpawnAttempt(o, ent, kids)
         /\ Done
         /\ UNCHANGED entries
  BY DEF OpResumes, Callee
<1> HIDE DEF o
<1>5. ~Alive(ent[o].exit) /\ ~Live(kids, ent[o].exit)
  BY <1>1, <1>2 DEF Alive, Live
<1>6. CASE q.op \in {"stop", "remove"} /\ Finish(q.op, o, ent) /\ UNCHANGED <<kids, spawned>>
  <2>1. o = q.obj
    BY <1>6 DEF o, Callee
  <2> QED
    BY <1>1, <1>3, <1>5, <1>6, <2>1, Ending
<1>7. CASE SpawnAttempt(o, ent, kids) /\ Done /\ UNCHANGED entries
  <2>1. SpawnAttempts({o}, ent, kids) /\ {o} \in SUBSET Objects
    BY <1>2, <1>7 DEF SpawnAttempt
  <2>2. /\ ent \in [Objects -> EntryType] /\ kids \in [Kids -> KidType]
        /\ spawned \in Nat /\ spawned <= MaxSpawns /\ Sound(made, ent, kids, spawned)
    BY ForwardsAssumption DEF IInv, TypeOK
  <2>3. \A p \in {o} : ~Live(kids, ent[p].exit) /\ p <= made
    BY <1>2, <1>5
  <2>4. /\ ent' \in [Objects -> EntryType] /\ kids' \in [Kids -> KidType]
        /\ spawned' \in 0 .. MaxSpawns
        /\ Sound(made, ent', kids', spawned')
        /\ \A p \in Objects : ent'[p].fwd = ent[p].fwd
    <3>1. Ready({o}, made, ent, kids)
      BY <2>1, <2>2, <2>3 DEF Ready
    <3> QED
      BY <2>1, <2>2, <3>1, Spawning
  <2>5. TableInv'
    BY <1>1, <1>7, <2>4 DEF IInv, TypeOK, TableInv, None
  <2> QED
    BY <1>1, <1>7, <2>4, <2>5, Finishing DEF IInv, TypeOK
<1> QED
  BY <1>4, <1>6, <1>7

------------------------------------------------------------------------------
\* Arming an entry touches its timer and attempts only, settling also its child.
LEMMA ArmedTypes ==
  ASSUME NEW e \in EntryType
  PROVE  /\ Armed(e) \in EntryType
         /\ Armed(e).fwd = e.fwd /\ Armed(e).desired = e.desired /\ Armed(e).state = e.state
         /\ Armed(e).gen = e.gen /\ Armed(e).child = e.child /\ Armed(e).exit = e.exit
         /\ Armed(e).timer \in {e.timer, {e.gen}}
  BY DEF Armed, EntryType

\* clearTimers touches the timer only.
LEMMA UnarmedTypes ==
  ASSUME NEW e \in EntryType
  PROVE  /\ Unarmed(e) \in EntryType
         /\ Unarmed(e).fwd = e.fwd /\ Unarmed(e).desired = e.desired
         /\ Unarmed(e).state = e.state
         /\ Unarmed(e).gen = e.gen /\ Unarmed(e).child = e.child /\ Unarmed(e).exit = e.exit
         /\ Unarmed(e).timer = {}
  BY DEF Unarmed, EntryType

\* onSettled parts an entry from its child, and arms it only to reconnect.
LEMMA SettledTypes ==
  ASSUME NEW e \in EntryType, NEW permanent
  PROVE  LET s == Settled(e, permanent) IN
         /\ s \in EntryType
         /\ s.fwd = e.fwd /\ s.desired = e.desired
         /\ s.gen = e.gen /\ s.exit = e.exit /\ s.child = None
         /\ s.timer = {} \/ (s.timer = {e.gen} /\ s.state = "reconnecting")
<1> DEFINE gone(state) == [Unarmed(e) EXCEPT !.child = None, !.state = state]
<1>1. \A state \in States :
        /\ gone(state) \in EntryType /\ gone(state).state = state
        /\ gone(state).fwd = e.fwd /\ gone(state).desired = e.desired
        /\ gone(state).gen = e.gen /\ gone(state).exit = e.exit /\ gone(state).child = None
        /\ gone(state).timer = {}
  <2>1. /\ Unarmed(e) \in EntryType
        /\ Unarmed(e).fwd = e.fwd /\ Unarmed(e).desired = e.desired
        /\ Unarmed(e).gen = e.gen /\ Unarmed(e).exit = e.exit /\ Unarmed(e).timer = {}
    BY UnarmedTypes
  <2> QED
    BY <2>1 DEF EntryType
<1>2. {"stopped", "error", "reconnecting"} \subseteq States
  BY DEF States
<1>3. \/ Settled(e, permanent) = gone("stopped")
      \/ Settled(e, permanent) = gone("error")
      \/ Settled(e, permanent) = Armed(gone("reconnecting"))
  BY DEF Settled
<1> HIDE DEF gone
<1>4. CASE Settled(e, permanent) \in {gone("stopped"), gone("error")}
  BY <1>1, <1>2, <1>4
<1>5. CASE Settled(e, permanent) = Armed(gone("reconnecting"))
  <2>1. gone("reconnecting") \in EntryType
    BY <1>1, <1>2
  <2> QED
    BY <1>1, <1>2, <1>5, <2>1, ArmedTypes
<1> QED
  BY <1>3, <1>4, <1>5

\* A child that listens makes its entry active.
LEMMA MarkActiveKeeps == IInv /\ (\E k \in Kids : MarkActive(k)) => IInv'
<1> SUFFICES ASSUME IInv, NEW k \in Kids, MarkActive(k)
             PROVE  IInv'
  OBVIOUS
<1> DEFINE o == kids[k].obj
<1>1. /\ ent' = [ent EXCEPT ![o].state = "active"] /\ o \in Objects
      /\ UNCHANGED <<entries, made, kids, spawned, queue, waiting, down>>
      /\ ent \in [Objects -> EntryType] /\ kids \in [Kids -> KidType]
  BY LiveChild DEF MarkActive, Alive, IInv, TypeOK
<1> HIDE DEF o
<1>2. \A p \in Objects :
        /\ ent'[p] \in EntryType /\ ent'[p].fwd = ent[p].fwd /\ ent'[p].exit = ent[p].exit
        /\ ent'[p].child = ent[p].child /\ ent'[p].desired = ent[p].desired
  BY <1>1 DEF EntryType, States
<1>3. ent' \in [Objects -> EntryType]
  BY <1>1, <1>2
<1>4. PICK es : es = ent'
  OBVIOUS
<1>5. Alike(es, kids)
  BY <1>1, <1>2, <1>3, <1>4 DEF Alike
<1>6. Sound(made, ent', kids', spawned')
  BY <1>1, <1>4, <1>5, AlikeSound
<1> QED
  BY <1>1, <1>2, <1>3, <1>6, Touching DEF IInv, TypeOK

\* The stability timer touches the attempts only.
LEMMA StableKeeps == IInv /\ (\E o \in Objects : Stable(o)) => IInv'
<1> SUFFICES ASSUME IInv, NEW o \in Objects, Stable(o)
             PROVE  IInv'
  OBVIOUS
<1>1. /\ ent' = [ent EXCEPT ![o].attempt = 0]
      /\ UNCHANGED <<entries, made, kids, spawned, queue, waiting, down>>
      /\ ent \in [Objects -> EntryType] /\ kids \in [Kids -> KidType]
  BY DEF Stable, IInv, TypeOK
<1>2. \A p \in Objects :
        /\ ent'[p] \in EntryType /\ ent'[p].fwd = ent[p].fwd /\ ent'[p].exit = ent[p].exit
        /\ ent'[p].child = ent[p].child /\ ent'[p].desired = ent[p].desired
  BY <1>1 DEF EntryType
<1>3. ent' \in [Objects -> EntryType]
  BY <1>1, <1>2
<1>4. PICK es : es = ent'
  OBVIOUS
<1>5. Alike(es, kids)
  BY <1>1, <1>2, <1>3, <1>4 DEF Alike
<1>6. Sound(made, ent', kids', spawned')
  BY <1>1, <1>4, <1>5, AlikeSound
<1> QED
  BY <1>1, <1>2, <1>3, <1>6, Touching DEF IInv, TypeOK

\* A resume touches the timers and the attempts only.
LEMMA OnResumeKeeps == IInv /\ OnResume => IInv'
<1> SUFFICES ASSUME IInv, OnResume
             PROVE  IInv'
  OBVIOUS
<1>1. /\ ent' = [o \in Objects |->
           IF /\ entries[ent[o].fwd] = o
              /\ ent[o].desired = "running" /\ ent[o].state \in {"reconnecting", "starting"}
              /\ ent[o].timer # {}
             THEN Armed(Unarmed(ent[o])) ELSE ent[o]]
      /\ UNCHANGED <<entries, made, kids, spawned, queue, waiting, down>>
      /\ ent \in [Objects -> EntryType] /\ kids \in [Kids -> KidType]
  BY DEF OnResume, IInv, TypeOK
<1>2. \A p \in Objects :
        /\ ent'[p] \in EntryType /\ ent'[p].fwd = ent[p].fwd /\ ent'[p].exit = ent[p].exit
        /\ ent'[p].child = ent[p].child /\ ent'[p].desired = ent[p].desired
  <2> TAKE p \in Objects
  <2>1. ent[p] \in EntryType /\ (ent'[p] = ent[p] \/ ent'[p] = Armed(Unarmed(ent[p])))
    BY <1>1
  <2>2. /\ Unarmed(ent[p]) \in EntryType /\ Unarmed(ent[p]).fwd = ent[p].fwd
        /\ Unarmed(ent[p]).exit = ent[p].exit
        /\ Unarmed(ent[p]).child = ent[p].child /\ Unarmed(ent[p]).desired = ent[p].desired
    BY <2>1, UnarmedTypes
  <2> QED
    BY <2>1, <2>2, ArmedTypes
<1>3. ent' \in [Objects -> EntryType]
  BY <1>1, <1>2
<1>4. PICK es : es = ent'
  OBVIOUS
<1>5. Alike(es, kids)
  BY <1>1, <1>2, <1>3, <1>4 DEF Alike
<1>6. Sound(made, ent', kids', spawned')
  BY <1>1, <1>4, <1>5, AlikeSound
<1> QED
  BY <1>1, <1>2, <1>3, <1>6, Touching DEF IInv, TypeOK

\* Shutdown starts a new generation of the listed entries and kills their children.
LEMMA ShutdownKeeps == IInv /\ Shutdown => IInv'
<1> SUFFICES ASSUME IInv, Shutdown
             PROVE  IInv'
  OBVIOUS
<1> DEFINE ks == Killed({ent[o].child : o \in Listed})
<1>1. /\ ent' = [o \in Objects |->
           IF o \in Listed THEN [Unarmed(ent[o]) EXCEPT !.gen = @ + 1] ELSE ent[o]]
      /\ kids' = ks /\ down' = TRUE
      /\ UNCHANGED <<entries, made, spawned, queue, waiting>>
      /\ ent \in [Objects -> EntryType] /\ kids \in [Kids -> KidType]
  BY DEF Shutdown, IInv, TypeOK
<1>2. \A p \in Objects :
        /\ ent'[p] \in EntryType /\ ent'[p].fwd = ent[p].fwd /\ ent'[p].exit = ent[p].exit
        /\ ent'[p].child = ent[p].child /\ ent'[p].desired = ent[p].desired
  <2> TAKE p \in Objects
  <2> DEFINE g == Unarmed(ent[p]).gen + 1
  <2>1. /\ ent[p] \in EntryType /\ Unarmed(ent[p]) \in EntryType
        /\ Unarmed(ent[p]).fwd = ent[p].fwd /\ Unarmed(ent[p]).exit = ent[p].exit
        /\ Unarmed(ent[p]).child = ent[p].child /\ Unarmed(ent[p]).desired = ent[p].desired
    BY <1>1, UnarmedTypes
  <2>2. g \in Nat /\ (ent'[p] = ent[p] \/ ent'[p] = [Unarmed(ent[p]) EXCEPT !.gen = g])
    BY <1>1, <2>1 DEF EntryType
  <2> HIDE DEF g
  <2> QED
    BY <2>1, <2>2 DEF EntryType
<1>3. ent' \in [Objects -> EntryType]
  BY <1>1, <1>2
<1>4. /\ ks \in [Kids -> KidType]
      /\ \A k \in Kids : /\ ks[k].alive <=> kids[k].alive
                         /\ ks[k].obj = kids[k].obj
                         /\ kids[k].killed => ks[k].killed
  BY <1>1, KilledFacts
<1> HIDE DEF ks
<1>5. PICK es : es = ent'
  OBVIOUS
<1>6. Alike(es, ks)
  BY <1>2, <1>3, <1>4, <1>5 DEF Alike
<1>7. Sound(made, ent', kids', spawned')
  BY <1>1, <1>5, <1>6, AlikeSound
<1> QED
  BY <1>1, <1>2, <1>3, <1>4, <1>7, Touching

\* A child exits, and settles the entry it belongs to.
LEMMA KidExitsKeeps == IInv /\ (\E k \in Kids, p \in BOOLEAN : KidExits(k, p)) => IInv'
<1> SUFFICES ASSUME IInv, NEW k \in Kids, NEW permanent \in BOOLEAN, KidExits(k, permanent)
             PROVE  IInv'
  OBVIOUS
<1> DEFINE o == kids[k].obj
           s == Settled(ent[o], permanent)
<1>1. /\ kids[k].alive /\ kids' = [kids EXCEPT ![k].alive = FALSE]
      /\ ent' = ent \/ ent' = [ent EXCEPT ![o] = s]
      /\ UNCHANGED <<entries, made, spawned, queue, waiting, down>>
      /\ ent \in [Objects -> EntryType] /\ kids \in [Kids -> KidType]
  BY DEF KidExits, Alive, IInv, TypeOK
<1>2. /\ o \in Objects /\ ent[o].exit = k /\ k # None
      /\ Sound(made, ent, kids, spawned)
  BY <1>1, LiveChild, Objects_Kids DEF IInv
<1>3. /\ s \in EntryType
      /\ s.fwd = ent[o].fwd /\ s.desired = ent[o].desired
      /\ s.gen = ent[o].gen /\ s.exit = ent[o].exit /\ s.child = None
  BY <1>1, <1>2, SettledTypes
<1>4. /\ kids' \in [Kids -> KidType]
      /\ ~kids'[k].alive
      /\ \A l \in Kids : kids'[l].alive => kids[l].alive /\ kids'[l] = kids[l]
  <2> DEFINE gone == [kids[k] EXCEPT !.alive = FALSE]
  <2>1. kids' = [kids EXCEPT ![k] = gone]
    BY <1>1
  <2>2. kids[k] \in KidType
    BY <1>1
  <2>3. gone \in KidType
    BY <2>2 DEF KidType
  <2>4. ~gone.alive
    BY <2>2 DEF KidType
  <2> HIDE DEF gone
  <2>5. kids'[k] = gone /\ \A l \in Kids : l # k => kids'[l] = kids[l]
    BY <1>1, <2>1
  <2>6. kids' \in [Kids -> KidType]
    BY <1>1, <2>1, <2>3
  <2>7. ~kids'[k].alive
    BY <2>4, <2>5
  <2>8. \A l \in Kids : kids'[l].alive => kids[l].alive /\ kids'[l] = kids[l]
    BY <2>5, <2>7
  <2> QED
    BY <2>6, <2>7, <2>8
<1> HIDE DEF o, s
<1>5. ent' \in [Objects -> EntryType]
  BY <1>1, <1>2, <1>3
<1>6. \A p \in Objects : /\ ent'[p].fwd = ent[p].fwd /\ ent'[p].exit = ent[p].exit
                         /\ ent'[p].desired = ent[p].desired
                         /\ \/ ent'[p].child = ent[p].child
                            \/ p = o /\ ent'[p].child = None
  BY <1>1, <1>2, <1>3
<1>7. Sound(made, ent', kids', spawned)
  <2>1. \A p \in Objects : /\ ent'[p].child # None => ent'[p].child = ent'[p].exit
                           /\ ent'[p].exit <= spawned
    BY <1>2, <1>6 DEF Sound
  <2>2. \A p \in Objects : ent'[p].child = None => ~Live(kids', ent'[p].exit)
    <3> TAKE p \in Objects
    <3>1. ent[p].exit \in Kids \cup {None}
      BY <1>1 DEF EntryType
    <3>2. CASE p = o
      BY <1>2, <1>4, <1>6, <3>2 DEF Live
    <3>3. CASE p # o
      <4>1. ent[p].child = None => ~Live(kids, ent[p].exit)
        BY <1>2 DEF Sound
      <4> QED
        BY <1>4, <1>6, <3>1, <3>3, <4>1 DEF Live
    <3> QED
      BY <3>2, <3>3
  <2>3. ASSUME NEW l \in Kids, kids'[l].alive
        PROVE  /\ l <= spawned /\ ent'[kids'[l].obj].exit = l
               /\ kids'[l].obj <= made
               /\ ent'[kids'[l].obj].desired = "stopped" => kids'[l].killed
    <3>1. kids[l].alive /\ kids'[l] = kids[l] /\ kids[l].obj \in Objects
      BY <1>1, <1>4, <2>3 DEF KidType
    <3>2. l <= spawned /\ ent[kids[l].obj].exit = l /\ kids[l].obj <= made
      BY <1>2, <3>1 DEF Sound
    <3>3. ent[kids[l].obj].desired = "stopped" => kids[l].killed
      BY <1>2, <3>1 DEF Sound
    <3> QED
      BY <1>6, <3>1, <3>2, <3>3
  <2> QED
    BY <2>1, <2>2, <2>3 DEF Sound
<1> QED
  BY <1>1, <1>4, <1>5, <1>6, <1>7, Touching DEF IInv, TypeOK

------------------------------------------------------------------------------
\* An operation is queued.
LEMMA Queueing ==
  ASSUME IInv, NEW x \in OpType, queue' = Append(queue, x), Alike(ent', kids),
         UNCHANGED <<entries, made, kids, spawned, waiting, down>>,
         x.op \in Naming =>
           x.obj # None /\ x.obj <= made /\ ent[x.obj].fwd = x.fwd,
         x.op = "retry" => x.obj # None /\ x.obj <= made,
         x.op = "add" => made + Adding < MaxEntries
  PROVE  IInv'
<1>1. queue \in Seq(OpType) /\ Len(queue) \in Nat /\ \A i \in 1 .. Len(queue) : queue[i] \in OpType
  BY LenProperties DEF IInv, TypeOK
<1>2. /\ queue' \in Seq(OpType) /\ Len(queue') = Len(queue) + 1 /\ queue' # <<>>
      /\ \A i \in 1 .. Len(queue) : queue'[i] = queue[i]
      /\ queue'[Len(queue) + 1] = x
  BY <1>1, AppendProperties
<1>3. queue # <<>> => Head(queue') = Head(queue)
  <2>1. queue # <<>> => 1 \in 1 .. Len(queue)
    BY <1>1, EmptySeq
  <2>2. queue # <<>> => Head(queue) = queue[1]
    BY <1>1, HeadTailProperties
  <2>3. Head(queue') = queue'[1]
    BY <1>2, HeadTailProperties
  <2> QED
    BY <1>2, <2>1, <2>2, <2>3
<1>4. /\ ent' \in [Objects -> EntryType]
      /\ \A o \in Objects : ent'[o].fwd = ent[o].fwd /\ ent'[o].exit = ent[o].exit
  BY DEF Alike
<1>5. TypeOK'
  BY <1>2, <1>3, <1>4 DEF IInv, TypeOK
<1>6. Sound(made, ent, kids, spawned)'
  <2>1. PICK es : es = ent'
    OBVIOUS
  <2>2. Sound(made, es, kids, spawned)
    BY <2>1, AlikeSound
  <2> QED
    BY <2>1, <2>2
<1>7. TableInv'
  BY <1>4 DEF IInv, TypeOK, TableInv, None
<1>8. \A i \in 1 .. Len(queue') : i \in 1 .. Len(queue) \/ (i = Len(queue) + 1 /\ queue'[i] = x)
  BY <1>1, <1>2
<1>9. \A i \in 1 .. Len(queue') :
        /\ queue'[i].op \in Naming => /\ queue'[i].obj # None
                                      /\ ent[queue'[i].obj].fwd = queue'[i].fwd
                                      /\ queue'[i].obj <= made
        /\ queue'[i].op = "retry" => queue'[i].obj # None /\ queue'[i].obj <= made
        /\ queue'[i].obj # None => queue'[i].obj \in Objects
  <2> TAKE i \in 1 .. Len(queue')
  <2>1. CASE i \in 1 .. Len(queue)
    BY <1>1, <1>2, <2>1 DEF IInv, QueueInv, OpType
  <2>2. CASE queue'[i] = x
    BY <2>2 DEF OpType
  <2> QED
    BY <1>8, <2>1, <2>2
<1>11. QueueInv'
  BY <1>4, <1>9 DEF QueueInv
<1>12. WaitInv'
  <2> SUFFICES ASSUME waiting # None
               PROVE  LET o == Callee(Head(queue)) IN
                        o # None /\ waiting = ent'[o].exit /\ o <= made
    BY <1>3 DEF WaitInv, IInv, TypeOK, Callee
  <2>1. queue # <<>>
    BY DEF IInv, TypeOK
  <2>2. Callee(Head(queue)) \in Objects
    BY <2>1, Heading DEF Callee, OpType, IInv, TypeOK, WaitInv
  <2> QED
    BY <1>4, <2>2 DEF IInv, WaitInv
<1>13. RoomInv'
  <2>1. Adding = Cardinality(Adds(queue)) /\ Adding' = Cardinality(Adds(Append(queue, x)))
    BY DEF Adding, Adds
  <2>2. /\ Cardinality(Adds(queue)) \in Nat
        /\ Cardinality(Adds(Append(queue, x))) =
             IF x.op = "add" THEN Cardinality(Adds(queue)) + 1 ELSE Cardinality(Adds(queue))
    BY <1>1, AddsAppend
  <2>3. made \in Nat /\ made + Cardinality(Adds(queue)) <= MaxEntries /\ MaxEntries \in Nat
    BY <2>1, ForwardsAssumption DEF IInv, TypeOK, RoomInv
  <2> QED
    BY <2>1, <2>2, <2>3 DEF RoomInv
<1> QED
  BY <1>5, <1>6, <1>7, <1>11, <1>12, <1>13 DEF IInv

\* A caller names an entry that is listed, or none.
LEMMA CallKeeps ==
  ASSUME IInv,
         NEW op \in {"add", "start", "stop", "remove", "ensure"}, NEW f \in Forwards, Call(op, f)
  PROVE  IInv'
<1> DEFINE x == Op(op, f, entries[f], 0)
<1>1. /\ queue' = Append(queue, x)
      /\ UNCHANGED <<entries, ent, made, kids, spawned, waiting, down>>
      /\ op = "add" => made + Adding < MaxEntries
      /\ op \in Naming => entries[f] # None
  BY DEF Call, Naming
<1>2. x \in OpType /\ x.op = op /\ x.fwd = f /\ x.obj = entries[f]
  BY DEF Op, OpType, IInv, TypeOK, None
<1>3. entries[f] # None => entries[f] <= made /\ ent[entries[f]].fwd = f
  BY DEF IInv, TableInv
<1>4. Alike(ent', kids)
  BY <1>1 DEF Alike, IInv, TypeOK
<1> HIDE DEF x
<1> QED
  BY <1>1, <1>2, <1>3, <1>4, Queueing

\* A timer that fires queues a retry, which names an entry but needs no listed one.
LEMMA TimerFiresKeeps == IInv /\ (\E o \in Objects : TimerFires(o)) => IInv'
<1> SUFFICES ASSUME IInv, NEW o \in Objects, TimerFires(o)
             PROVE  IInv'
  OBVIOUS
<1>1. /\ ent' = [ent EXCEPT ![o].timer = {}]
      /\ UNCHANGED <<entries, made, kids, spawned, waiting, down>>
      /\ ent \in [Objects -> EntryType] /\ kids \in [Kids -> KidType]
  BY DEF TimerFires, IInv, TypeOK
<1>2. PICK gen \in ent[o].timer :
        queue' = IF RetryValid(o, gen) THEN Append(queue, Op("retry", ent[o].fwd, o, gen)) ELSE queue
  BY DEF TimerFires
<1>3. \A p \in Objects :
        /\ ent'[p] \in EntryType /\ ent'[p].fwd = ent[p].fwd /\ ent'[p].exit = ent[p].exit
        /\ ent'[p].child = ent[p].child /\ ent'[p].desired = ent[p].desired
  BY <1>1 DEF EntryType
<1>4. ent' \in [Objects -> EntryType]
  BY <1>1, <1>3
<1>5. Alike(ent', kids)
  BY <1>1, <1>3, <1>4 DEF Alike
<1>6. CASE ~RetryValid(o, gen)
  <2>4. queue' = queue
    BY <1>2, <1>6
  <2>1. PICK es : es = ent'
    OBVIOUS
  <2>2. Sound(made, es, kids, spawned)
    BY <1>5, <2>1, AlikeSound
  <2>3. Sound(made, ent', kids', spawned')
    BY <1>1, <2>1, <2>2
  <2> QED
    BY <1>1, <1>3, <1>4, <2>3, <2>4, Touching DEF IInv, TypeOK
<1>7. CASE RetryValid(o, gen)
  <2> DEFINE x == Op("retry", ent[o].fwd, o, gen)
  <2>1. x \in OpType /\ x.op = "retry" /\ x.obj = o
    BY <1>1, <1>2 DEF Op, OpType, EntryType
  <2>2. o # None /\ o <= made
    <3>1. ent[o].fwd \in Forwards /\ entries[ent[o].fwd] = o
      BY <1>1, <1>7 DEF RetryValid, EntryType
    <3> QED
      BY <3>1, Objects_Kids DEF IInv, TableInv
  <2> HIDE DEF x
  <2>3. queue' = Append(queue, x)
    BY <1>2, <1>7 DEF x
  <2>4. x.op \notin Naming \cup {"add"}
    BY <2>1 DEF Naming
  <2> QED
    BY <1>1, <1>5, <2>1, <2>2, <2>3, <2>4, Queueing
<1> QED
  BY <1>2, <1>6, <1>7

------------------------------------------------------------------------------
\* The restored forwards are not started.
LEMMA Initially == Init => IInv
<1> SUFFICES ASSUME Init
             PROVE  IInv
  OBVIOUS
<1>16. PICK n \in 0 .. MaxEntries : \E fs \in [1 .. n -> Forwards], d \in [1 .. n -> Desires] :
        /\ \A o, p \in 1 .. n : fs[o] = fs[p] => o = p
        /\ made = n
        /\ entries = [f \in Forwards |->
             IF \E o \in 1 .. n : fs[o] = f THEN CHOOSE o \in 1 .. n : fs[o] = f ELSE None]
        /\ ent = [o \in Objects |->
             IF o <= n THEN Entry(fs[o], d[o], "stopped")
             ELSE Entry(CHOOSE f \in Forwards : TRUE, "stopped", "stopped")]
  BY Zenon DEF Init
<1>1. PICK fs \in [1 .. n -> Forwards], d \in [1 .. n -> Desires] :
        /\ \A o, p \in 1 .. n : fs[o] = fs[p] => o = p
        /\ made = n
        /\ entries = [f \in Forwards |->
             IF \E o \in 1 .. n : fs[o] = f THEN CHOOSE o \in 1 .. n : fs[o] = f ELSE None]
        /\ ent = [o \in Objects |->
             IF o <= n THEN Entry(fs[o], d[o], "stopped")
             ELSE Entry(CHOOSE f \in Forwards : TRUE, "stopped", "stopped")]
  BY <1>16, Zenon
<1>2. /\ kids = [k \in Kids |-> [obj |-> 1, gen |-> 0, alive |-> FALSE, killed |-> FALSE]]
      /\ spawned = 0 /\ queue = <<>> /\ waiting = None /\ down = FALSE
  BY DEF Init
<1>3. n \in Nat /\ MaxEntries \in Nat /\ MaxSpawns \in Nat /\ n <= MaxEntries
  BY ForwardsAssumption
<1>4. Forwards # {} /\ (CHOOSE f \in Forwards : TRUE) \in Forwards
  <2>1. PICK p \in Ports, t \in Targets : TRUE
    BY ForwardsAssumption
  <2>2. [port |-> p, to |-> t] \in Forwards
    BY DEF Forwards
  <2> QED
    BY <2>2
<1>5. \A f \in Forwards, des \in Desires :
        LET e == Entry(f, des, "stopped") IN
        /\ e \in EntryType /\ e.fwd = f
        /\ e.child = None /\ e.exit = None /\ e.gen = 0 /\ e.timer = {}
  BY DEF Entry, NoEntry, EntryType, Desires, States
<1>6. \A o \in Objects : /\ ent[o] \in EntryType
                         /\ ent[o].child = None /\ ent[o].exit = None
                         /\ o <= n => ent[o].fwd = fs[o]
  <2> TAKE o \in Objects
  <2>1. CASE o <= n
    <3>1. o \in 1 .. n
      BY <1>3, <2>1, Objects_Kids
    <3>2. fs[o] \in Forwards /\ d[o] \in Desires /\ ent[o] = Entry(fs[o], d[o], "stopped")
      BY <1>1, <2>1, <3>1
    <3> QED
      BY <1>5, <3>2
  <2>2. CASE ~(o <= n)
    <3>1. ent[o] = Entry(CHOOSE f \in Forwards : TRUE, "stopped", "stopped")
      BY <1>1, <2>2
    <3>2. "stopped" \in Desires
      BY DEF Desires
    <3> QED
      BY <1>4, <1>5, <2>2, <3>1, <3>2
  <2> QED
    BY <2>1, <2>2
<1>7. \A f \in Forwards : entries[f] = None \/ (entries[f] \in 1 .. n /\ fs[entries[f]] = f)
  <2> TAKE f \in Forwards
  <2>1. CASE \E o \in 1 .. n : fs[o] = f
    <3>1. entries[f] = CHOOSE o \in 1 .. n : fs[o] = f
      BY <1>1, <2>1
    <3> QED
      BY <2>1, <3>1
  <2>2. CASE ~\E o \in 1 .. n : fs[o] = f
    BY <1>1, <2>2
  <2> QED
    BY <2>1, <2>2
<1>8. 1 .. n \subseteq Objects
  BY <1>3 DEF Objects
<1>9. entries \in [Forwards -> Objects \cup {None}]
  BY <1>1, <1>7, <1>8
<1>10. kids \in [Kids -> KidType] /\ \A k \in Kids : ~kids[k].alive
  BY <1>2, ForwardsAssumption DEF KidType, Objects
<1>11. TypeOK
  <2>1. ent \in [Objects -> EntryType]
    BY <1>1, <1>6
  <2>2. made \in 0 .. MaxEntries /\ spawned \in 0 .. MaxSpawns
    BY <1>1, <1>2, <1>3
  <2>3. queue \in Seq(OpType) /\ waiting \in Kids \cup {None} /\ waiting = None /\ down \in BOOLEAN
    BY <1>2, EmptySeq
  <2> QED
    BY <1>9, <1>10, <2>1, <2>2, <2>3 DEF TypeOK
<1>12. Sound(made, ent, kids, spawned)
  BY <1>2, <1>6, <1>10 DEF Sound, Live, None
<1>13. TableInv
  BY <1>1, <1>3, <1>6, <1>7, <1>8 DEF TableInv
<1>14. Len(queue) = 0 /\ Adding = 0
  <2>1. Len(queue) = 0 /\ queue \in Seq(OpType)
    BY <1>2, EmptySeq
  <2>2. DOMAIN queue = {}
    BY <2>1, LenProperties
  <2>3. {i \in DOMAIN queue : queue[i].op = "add"} = {}
    BY <2>2
  <2> QED
    BY <2>1, <2>3, FS_EmptySet DEF Adding
<1>15. QueueInv /\ WaitInv /\ RoomInv
  BY <1>1, <1>2, <1>3, <1>14 DEF QueueInv, WaitInv, RoomInv
<1> QED
  BY <1>11, <1>12, <1>13, <1>15 DEF IInv

\* The conjunction is an invariant.
LEMMA Invariant == Spec => []IInv
<1>1. IInv /\ [Next]_vars => IInv'
  <2> SUFFICES ASSUME IInv, [Next]_vars
               PROVE  IInv'
    OBVIOUS
  <2>1. CASE \E op \in {"add", "start", "stop", "remove", "ensure"}, f \in Forwards : Call(op, f)
    BY <2>1, CallKeeps
  <2>2. CASE RunOp
    BY <2>2, RunOpKeeps
  <2>3. CASE OpResumes
    BY <2>3, OpResumesKeeps
  <2>4. CASE \E k \in Kids : MarkActive(k)
    BY <2>4, MarkActiveKeeps
  <2>5. CASE \E k \in Kids, permanent \in BOOLEAN : KidExits(k, permanent)
    BY <2>5, KidExitsKeeps
  <2>6. CASE \E o \in Objects : Stable(o)
    BY <2>6, StableKeeps
  <2>7. CASE \E o \in Objects : TimerFires(o)
    BY <2>7, TimerFiresKeeps
  <2>8. CASE OnResume
    BY <2>8, OnResumeKeeps
  <2>9. CASE Shutdown
    BY <2>9, ShutdownKeeps
  <2>10. CASE UNCHANGED vars
    <3>1. UNCHANGED <<entries, made, spawned, queue, waiting, ent, kids, down>>
      BY <2>10 DEF vars
    <3> QED
      BY <3>1, Touching DEF IInv, TypeOK
  <2> QED
    BY <2>1, <2>2, <2>3, <2>4, <2>5, <2>6, <2>7, <2>8, <2>9, <2>10 DEF Next
<1> QED
  BY <1>1, Initially, PTL DEF Spec

------------------------------------------------------------------------------
(* Which entries stay listed.                                               *)

\* Of a forward that nobody called start() or remove() for behind a pending remove():
\* the entry of a live child is listed,
ChildListed ==
  \A k \in Kids : kids[k].alive =>
    LET f == ent[kids[k].obj].fwd IN f \notin overtaken => entries[f] = kids[k].obj

\* an entry that is to be started or removed is listed when its turn comes, as no
\* remove() of the forward comes before,
Rebinding == {"start", "remove"}
QueueListed ==
  /\ \A i \in 1 .. Len(queue) :
       queue[i].op \in Rebinding /\ queue[i].fwd \notin overtaken =>
         entries[queue[i].fwd] = queue[i].obj
  /\ \A i, j \in 1 .. Len(queue) :
       /\ i < j /\ queue[i].op = "remove" /\ queue[j].op \in Rebinding
       /\ queue[i].fwd = queue[j].fwd
       => queue[j].fwd \in overtaken

\* and so is the entry whose child's exit is awaited, unless that is a stop().
WaitListed ==
  waiting # None /\ Head(queue).op # "stop" =>
    LET o == Callee(Head(queue))
    IN  ent[o].fwd \notin overtaken => entries[ent[o].fwd] = o

ListInv == ChildListed /\ QueueListed /\ WaitListed

\* A step that leaves the table alone and queues nothing, or one operation at most.
LEMMA ListedQuiet ==
  ASSUME IInv, IInv', ListInv, UNCHANGED <<entries, made>>, overtaken \subseteq overtaken',
         \A o \in Objects : ent'[o].fwd = ent[o].fwd,
         \A k \in Kids : kids'[k].alive => kids[k].alive /\ kids'[k].obj = kids[k].obj,
         \/ queue' = queue
         \/ \E x \in OpType :
              /\ queue' = Append(queue, x)
              /\ x.op \in Rebinding =>
                   /\ entries[x.fwd] = x.obj
                   /\ \A i \in 1 .. Len(queue) :
                        queue[i].op = "remove" /\ queue[i].fwd = x.fwd => x.fwd \in overtaken',
         WaitListed'
  PROVE  ListInv'
<1>1. queue \in Seq(OpType) /\ Len(queue) \in Nat
  BY LenProperties DEF IInv, TypeOK
<1>2. ChildListed'
  <2> SUFFICES ASSUME NEW k \in Kids, kids'[k].alive, ent'[kids'[k].obj].fwd \notin overtaken'
               PROVE  entries'[ent'[kids'[k].obj].fwd] = kids'[k].obj
    BY DEF ChildListed
  <2>1. kids[k].alive /\ kids'[k].obj = kids[k].obj /\ kids[k].obj \in Objects
    BY LiveChild
  <2>2. ent'[kids[k].obj].fwd = ent[kids[k].obj].fwd
    BY <2>1
  <2> QED
    BY <2>1, <2>2 DEF ListInv, ChildListed
<1>3. CASE queue' = queue
  BY <1>2, <1>3 DEF ListInv, QueueListed
<1>4. CASE queue' # queue
  <2>1. PICK x \in OpType :
          /\ queue' = Append(queue, x)
          /\ x.op \in Rebinding =>
               /\ entries[x.fwd] = x.obj
               /\ \A i \in 1 .. Len(queue) :
                    queue[i].op = "remove" /\ queue[i].fwd = x.fwd => x.fwd \in overtaken'
    BY <1>4
  <2>2. /\ Len(queue') = Len(queue) + 1
        /\ \A i \in 1 .. Len(queue) : queue'[i] = queue[i]
        /\ queue'[Len(queue) + 1] = x
    BY <1>1, <2>1, AppendProperties
  <2>3. \A i \in 1 .. Len(queue') : i \in 1 .. Len(queue) \/ (i = Len(queue) + 1 /\ queue'[i] = x)
    BY <1>1, <2>2
  <2>4. ASSUME NEW i \in 1 .. Len(queue'), queue'[i].op \in Rebinding, queue'[i].fwd \notin overtaken'
        PROVE  entries'[queue'[i].fwd] = queue'[i].obj
    <3>1. CASE i \in 1 .. Len(queue)
      BY <2>2, <2>4, <3>1 DEF ListInv, QueueListed
    <3>2. CASE queue'[i] = x
      BY <2>1, <2>4, <3>2
    <3> QED
      BY <2>3, <3>1, <3>2
  <2>5. ASSUME NEW i \in 1 .. Len(queue'), NEW j \in 1 .. Len(queue'), i < j,
               queue'[i].op = "remove", queue'[j].op \in Rebinding, queue'[i].fwd = queue'[j].fwd
        PROVE  queue'[j].fwd \in overtaken'
    <3>1. i \in 1 .. Len(queue)
      BY <1>1, <2>2, <2>5
    <3>2. CASE j \in 1 .. Len(queue)
      BY <2>2, <2>5, <3>1, <3>2 DEF ListInv, QueueListed
    <3>3. CASE queue'[j] = x
      BY <2>1, <2>2, <2>5, <3>1, <3>3
    <3> QED
      BY <2>3, <3>2, <3>3
  <2>6. QueueListed'
    BY <2>4, <2>5 DEF QueueListed
  <2> QED
    BY <1>2, <2>6 DEF ListInv
<1> QED
  BY <1>3, <1>4

\* One operation more in the queue.
LEMMA Appended ==
  ASSUME IInv, NEW x \in OpType, queue' = Append(queue, x)
  PROVE  /\ queue' # <<>> /\ (queue # <<>> => Head(queue') = Head(queue))
         /\ \A i \in 1 .. Len(queue') : (i \in 1 .. Len(queue) /\ queue'[i] = queue[i]) \/ queue'[i] = x
<1>1. queue \in Seq(OpType) /\ Len(queue) \in Nat
  BY LenProperties DEF IInv, TypeOK
<1>2. /\ queue' \in Seq(OpType) /\ Len(queue') = Len(queue) + 1 /\ queue' # <<>>
      /\ \A i \in 1 .. Len(queue) : queue'[i] = queue[i]
      /\ queue'[Len(queue) + 1] = x
  BY <1>1, AppendProperties
<1>3. queue # <<>> => Head(queue') = Head(queue)
  <2>1. queue # <<>> => 1 \in 1 .. Len(queue) /\ Head(queue) = queue[1]
    BY <1>1, EmptySeq, HeadTailProperties
  <2>2. Head(queue') = queue'[1]
    BY <1>2, HeadTailProperties
  <2> QED
    BY <1>2, <2>1, <2>2
<1> QED
  BY <1>1, <1>2, <1>3

\* Nothing runs on: who waits goes on waiting for the same entry.
LEMMA StillWaiting ==
  ASSUME IInv, ListInv, UNCHANGED <<entries, waiting>>, overtaken \subseteq overtaken',
         \A o \in Objects : ent'[o].fwd = ent[o].fwd,
         queue # <<>> => Head(queue') = Head(queue)
  PROVE  WaitListed'
<1> SUFFICES ASSUME waiting # None, Head(queue').op # "stop",
                    ent'[(Callee(Head(queue)))'].fwd \notin overtaken'
             PROVE  entries[ent'[(Callee(Head(queue)))'].fwd] = (Callee(Head(queue)))'
  BY DEF WaitListed
<1>1. queue # <<>> /\ Head(queue') = Head(queue)
  BY DEF IInv, TypeOK
<1>2. (Callee(Head(queue)))' = Callee(Head(queue)) /\ Callee(Head(queue)) \in Objects
  BY <1>1, Heading DEF Callee, IInv, WaitInv, OpType, TypeOK
<1>3. ent'[Callee(Head(queue))].fwd = ent[Callee(Head(queue))].fwd
  BY <1>2
<1> QED
  BY <1>1, <1>2, <1>3 DEF ListInv, WaitListed

\* The first operation is done.  A remove() takes the entry of its own forward off the
\* table, whose child is gone, and a new child belongs to an entry that is listed.
LEMMA ListedDone ==
  ASSUME IInv, IInv', ListInv, queue # <<>>, Done, UNCHANGED overtaken,
         \A o \in Objects : o <= made => ent'[o].fwd = ent[o].fwd,
         \A f \in Forwards : \/ entries'[f] = entries[f] \/ entries[f] = None
                             \/ /\ Head(queue).op = "remove" /\ Head(queue).fwd = f
                                /\ ~Live(kids, ent[Head(queue).obj].exit),
         \A k \in Kids : kids'[k].alive =>
           \/ kids[k].alive /\ kids'[k].obj = kids[k].obj
           \/ ent'[kids'[k].obj].fwd \notin overtaken =>
                entries'[ent'[kids'[k].obj].fwd] = kids'[k].obj
  PROVE  ListInv'
<1>1. /\ queue' = Tail(queue) /\ waiting' = None
      /\ queue \in Seq(OpType) /\ Len(queue) \in Nat \ {0}
  BY EmptySeq DEF Done, IInv, TypeOK
<1>2. /\ Len(queue') = Len(queue) - 1 /\ Head(queue) = queue[1] /\ 1 \in 1 .. Len(queue)
      /\ \A i \in 1 .. Len(queue') : queue'[i] = queue[i + 1]
  BY <1>1, HeadTailProperties
<1>3. \A i \in 1 .. Len(queue') : i + 1 \in 1 .. Len(queue) /\ 1 < i + 1
  BY <1>1, <1>2
<1>4. \A i \in 1 .. Len(queue) : queue[i] \in OpType
  BY <1>1, LenProperties
<1>5. ASSUME NEW i \in 1 .. Len(queue'), queue'[i].op \in Rebinding, queue'[i].fwd \notin overtaken
      PROVE  entries'[queue'[i].fwd] = queue'[i].obj
  <2> DEFINE q == queue[i + 1]
  <2>1. queue'[i] = q /\ q \in OpType /\ q.op \in Rebinding /\ q.fwd \notin overtaken
    BY <1>2, <1>3, <1>4, <1>5
  <2>2. entries[q.fwd] = q.obj
    BY <1>3, <2>1 DEF ListInv, QueueListed
  <2>3. q.obj # None
    BY <1>3, <2>1 DEF IInv, QueueInv, Naming, Rebinding
  <2>4. ~(Head(queue).op = "remove" /\ Head(queue).fwd = q.fwd)
    BY <1>2, <1>3, <2>1 DEF ListInv, QueueListed
  <2> HIDE DEF q
  <2>5. q.fwd \in Forwards
    BY <2>1 DEF OpType
  <2> QED
    BY <2>1, <2>2, <2>3, <2>4, <2>5
<1>6. ASSUME NEW i \in 1 .. Len(queue'), NEW j \in 1 .. Len(queue'), i < j,
             queue'[i].op = "remove", queue'[j].op \in Rebinding, queue'[i].fwd = queue'[j].fwd
      PROVE  queue'[j].fwd \in overtaken
  <2>1. i + 1 < j + 1
    BY <1>1, <1>2, <1>6
  <2>2. queue'[i] = queue[i + 1] /\ queue'[j] = queue[j + 1]
    BY <1>2
  <2> QED
    BY <1>3, <1>6, <2>1, <2>2 DEF ListInv, QueueListed
<1>7. ASSUME NEW k \in Kids, kids[k].alive, kids'[k].obj = kids[k].obj,
             ent'[kids[k].obj].fwd \notin overtaken
      PROVE  entries'[ent'[kids[k].obj].fwd] = kids[k].obj
  <2> DEFINE o == kids[k].obj
             f == ent[o].fwd
  <2>1. o \in Objects /\ o <= made /\ ent[o].exit = k /\ k # None
    BY <1>7, LiveChild, Objects_Kids
  <2>2. ent'[o].fwd = f /\ f \in Forwards
    BY <2>1 DEF IInv, TypeOK, EntryType
  <2>3. entries[f] = o
    BY <1>7, <2>2 DEF ListInv, ChildListed
  <2>4. entries[f] # None
    BY <2>1, <2>3, Objects_Kids
  <2>5. ASSUME Head(queue).op = "remove", Head(queue).fwd = f, ~Live(kids, ent[Head(queue).obj].exit)
        PROVE  FALSE
    <3>1. entries[f] = Head(queue).obj
      BY <1>2, <1>7, <2>2, <2>5 DEF ListInv, QueueListed, Rebinding
    <3> QED
      BY <1>7, <2>1, <2>3, <2>5, <3>1 DEF Live
  <2> HIDE DEF f
  <2> QED
    BY <2>2, <2>3, <2>4, <2>5
<1>8. ChildListed'
  BY <1>7 DEF ChildListed
<1>9. QueueListed'
  BY <1>5, <1>6 DEF QueueListed
<1>10. WaitListed'
  BY <1>1 DEF WaitListed
<1> QED
  BY <1>8, <1>9, <1>10 DEF ListInv

\* It ends with a spawn, for entries that are listed then.
LEMMA ListedSpawned ==
  ASSUME IInv, IInv', ListInv, queue # <<>>, Done, UNCHANGED overtaken,
         NEW S, NEW m, NEW es, NEW ks, Ready(S, m, es, ks), SpawnAttempts(S, es, ks),
         \A k \in Kids : ks[k].alive => kids[k].alive /\ ks[k].obj = kids[k].obj,
         \A o \in Objects : o <= made => es[o].fwd = ent[o].fwd,
         \A f \in Forwards : entries'[f] = entries[f] \/ entries[f] = None,
         \A o \in S : es[o].fwd \notin overtaken => entries'[es[o].fwd] = o
  PROVE  ListInv'
<1>1. spawned \in Nat /\ spawned <= MaxSpawns
  BY ForwardsAssumption DEF IInv, TypeOK
<1>2. /\ \A o \in Objects : ent'[o].fwd = es[o].fwd
      /\ \A k \in Kids : kids'[k].alive =>
           \/ ks[k].alive /\ kids'[k] = ks[k]
           \/ kids'[k].obj \in S
  BY <1>1, Spawning
<1>3. S \subseteq Objects
  BY DEF Ready
<1>4. ASSUME NEW k \in Kids, kids'[k].alive
      PROVE  \/ kids[k].alive /\ kids'[k].obj = kids[k].obj
             \/ ent'[kids'[k].obj].fwd \notin overtaken =>
                  entries'[ent'[kids'[k].obj].fwd] = kids'[k].obj
  BY <1>2, <1>3, <1>4
<1>5. \A o \in Objects : o <= made => ent'[o].fwd = ent[o].fwd
  BY <1>2
<1> QED
  BY <1>4, <1>5, ListedDone

\* Awaiting the exit and then spawning.
LEMMA ListedAwaitsOrSpawns ==
  ASSUME IInv, IInv', ListInv, queue # <<>>, NEW o \in Objects, o <= made,
         Callee(Head(queue)) = o, ent[o].fwd \notin overtaken => entries[ent[o].fwd] = o,
         NEW es, NEW ks, Alike(es, ks), SpawnAfterExit(o, es, ks),
         UNCHANGED <<entries, made, overtaken>>
  PROVE  ListInv'
<1>1. Sound(made, es, ks, spawned) /\ es \in [Objects -> EntryType] /\ ks \in [Kids -> KidType]
  BY AlikeSound DEF Alike
<1>2. /\ \A p \in Objects : es[p].fwd = ent[p].fwd
      /\ \A k \in Kids : ks[k].alive => kids[k].alive /\ ks[k].obj = kids[k].obj
  BY DEF Alike
<1>3. CASE /\ ent' = es /\ kids' = ks
           /\ UNCHANGED queue
  <2>1. WaitListed'
    BY <1>2, <1>3 DEF WaitListed, Callee
  <2> QED
    BY <1>2, <1>3, <2>1, ListedQuiet
<1>4. CASE ~Alive(es[o].exit) /\ SpawnAttempt(o, es, ks) /\ Done
  <2>1. ~Live(ks, es[o].exit)
    <3>1. es[o].exit \in Kids \cup {None}
      BY <1>1 DEF EntryType
    <3> QED
      BY <1>2, <1>4, <3>1 DEF Alive, Live
  <2>2. SpawnAttempts({o}, es, ks) /\ {o} \subseteq Objects
    BY <1>4 DEF SpawnAttempt
  <2>3. Ready({o}, made, es, ks)
    BY <1>1, <2>1, <2>2 DEF Ready
  <2>4. \A p \in {o} : es[p].fwd \notin overtaken => entries'[es[p].fwd] = p
    BY <1>2
  <2> QED
    BY <1>2, <1>4, <2>2, <2>3, <2>4, ListedSpawned
<1> QED
  BY <1>3, <1>4 DEF SpawnAfterExit

\* restart() of an entry that is listed.
LEMMA ListedRestart ==
  ASSUME IInv, IInv', ListInv, queue # <<>>, NEW o \in Objects, o <= made,
         Callee(Head(queue)) = o, ent[o].fwd \notin overtaken => entries[ent[o].fwd] = o,
         Restart(o), UNCHANGED <<entries, made, overtaken>>
  PROVE  ListInv'
<1> DEFINE es == [ent EXCEPT ![o] = Restarted(@)]
           ks == Killed({ent[o].child})
<1>1. ent \in [Objects -> EntryType] /\ kids \in [Kids -> KidType]
  BY DEF IInv, TypeOK
<1>2. /\ Restarted(ent[o]) \in EntryType /\ Restarted(ent[o]).fwd = ent[o].fwd
      /\ Restarted(ent[o]).exit = ent[o].exit /\ Restarted(ent[o]).child = ent[o].child
      /\ Restarted(ent[o]).desired = "running"
  BY <1>1, RestartedTypes
<1>3. /\ es \in [Objects -> EntryType] /\ es[o] = Restarted(ent[o])
      /\ \A p \in Objects : p # o => es[p] = ent[p]
  BY <1>1, <1>2
<1>4. /\ ks \in [Kids -> KidType]
      /\ \A k \in Kids : /\ ks[k].alive <=> kids[k].alive
                         /\ ks[k].obj = kids[k].obj
                         /\ kids[k].killed => ks[k].killed
  BY <1>1, KilledFacts
<1>5. SpawnAfterExit(o, es, ks)
  BY DEF Restart
<1> HIDE DEF es, ks
<1>6. Alike(es, ks)
  BY <1>2, <1>3, <1>4 DEF Alike
<1> QED
  BY <1>5, <1>6, ListedAwaitsOrSpawns

\* add() starts the listed entry of its forward, or lists a new one.
LEMMA ListedAdd ==
  ASSUME IInv, IInv', ListInv, queue # <<>>, Head(queue).op = "add", RunAdd(Head(queue).fwd),
         UNCHANGED overtaken
  PROVE  ListInv'
<1> DEFINE f == Head(queue).fwd
<1>1. f \in Forwards /\ entries \in [Forwards -> Objects \cup {None}]
  BY Heading DEF OpType, IInv, TypeOK
<1>2. entries[f] # None => entries[f] \in Objects /\ entries[f] <= made /\ ent[entries[f]].fwd = f
  BY <1>1 DEF IInv, TableInv
<1>3. CASE Done /\ UNCHANGED <<entries, ent, made, kids, spawned>>
  BY <1>3, ListedDone
<1>4. CASE entries[f] # None /\ Restart(entries[f]) /\ UNCHANGED <<entries, made>>
  <2>1. Callee(Head(queue)) = entries[f]
    BY <1>4 DEF Callee
  <2> QED
    BY <1>2, <1>4, <2>1, ListedRestart
<1>5. CASE /\ entries[f] = None
           /\ made' = made + 1
           /\ entries' = [entries EXCEPT ![f] = made']
           /\ SpawnAttempt(made', [ent EXCEPT ![made'] = Entry(f, "running", "starting")], kids)
           /\ Done
  <2> DEFINE o == made + 1
             es == [ent EXCEPT ![o] = Entry(f, "running", "starting")]
  <2>1. entries' = [entries EXCEPT ![f] = o] /\ SpawnAttempts({o}, es, kids) /\ Done
    BY <1>5 DEF SpawnAttempt
  <2>2. PICK en : en = entries'
    OBVIOUS
  <2>3. Makes(f, o, en, es)
    BY <1>1, <1>5, <2>1, <2>2 DEF Makes
  <2>4. Made(f, o, en, es)
    <3> HIDE DEF es, f, o
    <3> QED
      BY <2>3, NewEntry
  <2>5. o = made + 1
    OBVIOUS
  <2> HIDE DEF es, f, o
  <2>6. /\ o \in Objects /\ made \in Nat /\ es[o].fwd = f /\ \A p \in Objects : p # o => es[p] = ent[p]
        /\ Ready({o}, made + 1, es, kids)
    BY <2>4 DEF Made
  <2>7. /\ entries'[f] = o
        /\ \A g \in Forwards : entries'[g] = entries[g] \/ entries[g] = None
    BY <1>1, <1>5, <2>1, <2>6
  <2>8. \A p \in Objects : p <= made => es[p].fwd = ent[p].fwd
    <3> TAKE p \in Objects
    <3> HAVE p <= made
    <3>1. p \in Nat /\ p # o
      BY <2>5, <2>6, Objects_Kids
    <3> QED
      BY <2>6, <3>1
  <2>9. \A p \in {o} : es[p].fwd \notin overtaken => entries'[es[p].fwd] = p
    BY <2>6, <2>7
  <2> QED
    BY <2>1, <2>6, <2>7, <2>8, <2>9, ListedSpawned
<1> QED
  BY <1>3, <1>4, <1>5 DEF RunAdd

\* stop() and remove() leave the table alone until the child is gone.
LEMMA ListedFinish ==
  ASSUME IInv, IInv', ListInv, queue # <<>>, Head(queue).op \in {"stop", "remove"},
         NEW o, o = Head(queue).obj, NEW es, NEW ks, Alike(es, ks), kids' = ks,
         ~Live(kids, ent[o].exit), Finish(Head(queue).op, o, es), UNCHANGED overtaken
  PROVE  ListInv'
<1>1. o \in Objects /\ ent[o].fwd = Head(queue).fwd
  BY Heading DEF Naming
<1>2. /\ ent' = [es EXCEPT ![o] = Stopped(@)] /\ Done
      /\ entries' = IF Head(queue).op = "remove" THEN [entries EXCEPT ![Head(queue).fwd] = None]
                    ELSE entries
      /\ es \in [Objects -> EntryType] /\ \A p \in Objects : es[p].fwd = ent[p].fwd
      /\ entries \in [Forwards -> Objects \cup {None}]
  BY <1>1 DEF Finish, Alike, IInv, TypeOK
<1>3. Stopped(es[o]).fwd = es[o].fwd
  <2>1. es[o] \in EntryType
    BY <1>1, <1>2
  <2> QED
    BY <2>1 DEF Stopped, EntryType
<1>4. \A p \in Objects : ent'[p].fwd = ent[p].fwd
  BY <1>1, <1>2, <1>3
<1>5. \A f \in Forwards : \/ entries'[f] = entries[f]
                          \/ Head(queue).op = "remove" /\ Head(queue).fwd = f
  BY <1>2
<1>6. \A k \in Kids : kids'[k].alive => kids[k].alive /\ kids'[k].obj = kids[k].obj
  BY DEF Alike
<1> QED
  BY <1>2, <1>4, <1>5, <1>6, ListedDone

\* stop() and remove() kill the child, and await its exit or are done.
LEMMA ListedStop ==
  ASSUME IInv, IInv', ListInv, queue # <<>>, Head(queue).op \in {"stop", "remove"},
         RunStop(Head(queue).op, Head(queue).obj), UNCHANGED overtaken
  PROVE  ListInv'
<1> DEFINE o == Head(queue).obj
           es == [ent EXCEPT ![o] = Stopping(@)]
           ks == KilledBy(ent[o].child)
<1>1. o \in Objects /\ Callee(Head(queue)) = o /\ ent[o].fwd = Head(queue).fwd
  BY Heading DEF Naming, Callee
<1>2. ent \in [Objects -> EntryType] /\ kids \in [Kids -> KidType]
  BY DEF IInv, TypeOK
<1>3. /\ es \in [Objects -> EntryType] /\ es[o] = Stopping(ent[o])
      /\ \A p \in Objects : p # o => es[p] = ent[p]
  BY <1>1, <1>2, StoppingTypes
<1>4. /\ ks \in [Kids -> KidType]
      /\ \A k \in Kids : /\ ks[k].alive <=> kids[k].alive
                         /\ ks[k].obj = kids[k].obj
                         /\ kids[k].killed => ks[k].killed
                         /\ k \in {ent[o].child} => ks[k].killed
  BY <1>2, KilledFacts DEF KilledBy
<1>5. /\ kids' = ks /\ UNCHANGED <<made, spawned>>
      /\ \/ /\ ent' = es
            /\ UNCHANGED <<entries, queue>>
         \/ /\ ~Alive(ent[o].child)
            /\ Finish(Head(queue).op, o, es)
  BY DEF RunStop
<1>6. \A k \in Kids : kids[k].alive /\ kids[k].obj = o => ks[k].killed
  BY <1>4, LiveChild
<1>7. \A p \in Objects : es[p].fwd = ent[p].fwd /\ es[p].exit = ent[p].exit /\ es[p].child = ent[p].child
  <2>1. Stopping(ent[o]).fwd = ent[o].fwd /\ Stopping(ent[o]).exit = ent[o].exit
        /\ Stopping(ent[o]).child = ent[o].child
    BY <1>1, <1>2, StoppingTypes
  <2> QED
    BY <1>3, <2>1
<1>8. o = Head(queue).obj
  OBVIOUS
<1> HIDE DEF es, ks, o
<1>9. Alike(es, ks)
  BY <1>3, <1>4, <1>6, <1>7 DEF Alike
<1>10. CASE ent' = es /\ UNCHANGED <<entries, queue>>
  <2>1. WaitListed'
    <3> SUFFICES ASSUME Head(queue).op # "stop", ent'[o].fwd \notin overtaken
                 PROVE  entries[ent'[o].fwd] = o
      BY <1>1, <1>10 DEF WaitListed, Callee
    <3>1. queue \in Seq(OpType) /\ 1 \in 1 .. Len(queue) /\ Head(queue) = queue[1]
      BY EmptySeq, HeadTailProperties DEF IInv, TypeOK
    <3>2. entries[Head(queue).fwd] = Head(queue).obj
      BY <1>1, <1>7, <1>10, <3>1 DEF ListInv, QueueListed, Rebinding
    <3> QED
      BY <1>1, <1>7, <1>8, <1>10, <3>2
  <2>2. \A p \in Objects : ent'[p].fwd = ent[p].fwd
    BY <1>7, <1>10
  <2>3. \A k \in Kids : kids'[k].alive => kids[k].alive /\ kids'[k].obj = kids[k].obj
    BY <1>4, <1>5
  <2> QED
    BY <1>5, <1>10, <2>1, <2>2, <2>3, ListedQuiet
<1>11. CASE ~Alive(ent[o].child) /\ Finish(Head(queue).op, o, es)
  <2>1. /\ ent[o].child # None => ent[o].child = ent[o].exit
        /\ ent[o].child = None => ~Live(kids, ent[o].exit)
    BY <1>1 DEF IInv, Sound
  <2>2. ~Live(kids, ent[o].exit)
    BY <1>11, <2>1 DEF Alive, Live
  <2> QED
    BY <1>5, <1>8, <1>9, <1>11, <2>2, ListedFinish
<1> QED
  BY <1>5, <1>10, <1>11

\* ensure() spawns for listed entries.
LEMMA ListedEnsure ==
  ASSUME IInv, IInv', ListInv, queue # <<>>, RunEnsure, UNCHANGED overtaken
  PROVE  ListInv'
<1> DEFINE S == {o \in Objects : Ensures(o)}
           es == [o \in Objects |->
                   IF o \in S THEN [ent[o] EXCEPT !.gen = @ + 1, !.attempt = 0] ELSE ent[o]]
<1>1. SpawnAttempts(S, es, kids) /\ Done /\ UNCHANGED <<entries, made>> /\ S \subseteq Objects
  BY DEF RunEnsure
<1>2. ent \in [Objects -> EntryType] /\ kids \in [Kids -> KidType]
  BY DEF IInv, TypeOK
<1>3. \A o \in Objects :
        /\ es[o] \in EntryType /\ es[o].fwd = ent[o].fwd /\ es[o].exit = ent[o].exit
        /\ es[o].child = ent[o].child /\ es[o].desired = ent[o].desired
  <2> TAKE o \in Objects
  <2> DEFINE g == ent[o].gen + 1
  <2>1. ent[o] \in EntryType /\ g \in Nat
    BY <1>2 DEF EntryType
  <2>2. es[o] = ent[o] \/ es[o] = [ent[o] EXCEPT !.gen = g, !.attempt = 0]
    BY <2>1 DEF EntryType
  <2> HIDE DEF g, es
  <2> QED
    BY <2>1, <2>2 DEF EntryType
<1>4. es \in [Objects -> EntryType]
  BY <1>3
<1>5. \A o \in S : ent[o].child = None /\ o <= made /\ entries[ent[o].fwd] = o
  BY DEF Ensures, Listed, IInv, TableInv, Objects, None
<1> HIDE DEF es, S
<1>6. Alike(es, kids)
  BY <1>2, <1>3, <1>4 DEF Alike
<1>7. Sound(made, es, kids, spawned)
  BY <1>6, AlikeSound
<1>8. \A o \in S : ~Live(kids, es[o].exit) /\ o <= made
  BY <1>1, <1>3, <1>5 DEF IInv, Sound
<1>9. Ready(S, made, es, kids)
  BY <1>1, <1>2, <1>4, <1>7, <1>8 DEF Ready
<1>10. \A o \in S : es[o].fwd \notin overtaken => entries'[es[o].fwd] = o
  BY <1>1, <1>3, <1>5
<1>11. \A o \in Objects : o <= made => es[o].fwd = ent[o].fwd
  BY <1>3
<1> QED
  BY <1>1, <1>9, <1>10, <1>11, ListedSpawned

\* Whichever operation of the queue runs.
LEMMA ListedRunOp ==
  ASSUME IInv, IInv', ListInv, RunOp
  PROVE  ListInv'
<1> DEFINE q == Head(queue)
<1>1. queue # <<>> /\ UNCHANGED overtaken
  BY DEF RunOp
<1>2. CASE q.op = "add" /\ RunAdd(q.fwd)
  BY <1>1, <1>2, ListedAdd
<1>3. CASE q.op = "start" /\ Restart(q.obj) /\ UNCHANGED <<entries, made>>
  <2>1. q.obj \in Objects /\ q.obj <= made /\ Callee(q) = q.obj /\ ent[q.obj].fwd = q.fwd
    BY <1>1, <1>3, Heading DEF Naming, Callee
  <2>2. queue \in Seq(OpType) /\ 1 \in 1 .. Len(queue) /\ Head(queue) = queue[1]
    BY <1>1, EmptySeq, HeadTailProperties DEF IInv, TypeOK
  <2>3. ent[q.obj].fwd \notin overtaken => entries[ent[q.obj].fwd] = q.obj
    BY <1>3, <2>1, <2>2 DEF ListInv, QueueListed, Rebinding
  <2> QED
    BY <1>1, <1>3, <2>1, <2>3, ListedRestart
<1>4. CASE q.op \in {"stop", "remove"} /\ RunStop(q.op, q.obj)
  BY <1>1, <1>4, ListedStop
<1>5. CASE q.op = "ensure" /\ RunEnsure
  BY <1>1, <1>5, ListedEnsure
<1>6. CASE q.op = "retry" /\ RunRetry(q.obj, q.gen)
  <2>1. q.obj \in Objects /\ q.obj <= made /\ Callee(q) = q.obj
    BY <1>1, <1>6, Heading DEF Callee
  <2>2. UNCHANGED <<entries, made>>
    BY <1>6 DEF RunRetry
  <2>3. CASE RetryValid(q.obj, q.gen) /\ SpawnAfterExit(q.obj, ent, kids)
    <3>1. Alike(ent, kids)
      BY DEF Alike, IInv, TypeOK
    <3>2. entries[ent[q.obj].fwd] = q.obj
      BY <2>3 DEF RetryValid
    <3> QED
      BY <1>1, <2>1, <2>2, <2>3, <3>1, <3>2, ListedAwaitsOrSpawns
  <2>4. CASE Done /\ UNCHANGED <<ent, kids, spawned>>
    BY <1>1, <2>2, <2>4, ListedDone
  <2> QED
    BY <1>6, <2>3, <2>4 DEF RunRetry
<1> QED
  BY <1>2, <1>3, <1>4, <1>5, <1>6 DEF RunOp

\* The operation that waited goes on with an entry that is listed still.
LEMMA ListedOpResumes ==
  ASSUME IInv, IInv', ListInv, OpResumes
  PROVE  ListInv'
<1> DEFINE q == Head(queue)
           o == Callee(q)
<1>1. /\ waiting # None /\ ~kids[waiting].alive /\ queue # <<>> /\ UNCHANGED <<made, overtaken>>
      /\ q \in OpType
  BY Heading DEF OpResumes, IInv, TypeOK
<1>2. waiting = ent[o].exit /\ o <= made /\ o \in Objects
  <2>1. o # None /\ waiting = ent[o].exit /\ o <= made
    BY <1>1 DEF IInv, WaitInv
  <2> QED
    BY <1>1, <2>1 DEF Callee, OpType, IInv, TypeOK
<1>3. Alike(ent, kids)
  BY DEF Alike, IInv, TypeOK
<1>4. \/ /\ q.op \in {"stop", "remove"}
         /\ Finish(q.op, o, ent)
         /\ UNCHANGED <<kids, spawned>>
      \/ /\ q.op \in {"add", "start", "retry"}
         /\ SpawnAttempt(o, ent, kids)
         /\ Done
         /\ UNCHANGED entries
  BY DEF OpResumes, Callee
<1>5. ~Live(kids, ent[o].exit)
  BY <1>1, <1>2 DEF Live
<1>6. q.op # "stop" => (ent[o].fwd \notin overtaken => entries[ent[o].fwd] = o)
  BY <1>1 DEF ListInv, WaitListed
<1>7. CASE q.op \in {"stop", "remove"} /\ Finish(q.op, o, ent) /\ UNCHANGED <<kids, spawned>>
  <2>1. o = q.obj
    BY <1>7 DEF Callee
  <2> HIDE DEF o
  <2> QED
    BY <1>1, <1>3, <1>5, <1>7, <2>1, ListedFinish
<1>8. CASE /\ q.op \in {"add", "start", "retry"}
           /\ SpawnAttempt(o, ent, kids) /\ Done /\ UNCHANGED entries
  <2> HIDE DEF o
  <2>1. SpawnAttempts({o}, ent, kids) /\ {o} \subseteq Objects
    BY <1>2, <1>8 DEF SpawnAttempt
  <2>2. Ready({o}, made, ent, kids)
    BY <1>2, <1>5, <2>1 DEF Ready, IInv, TypeOK
  <2>3. \A p \in {o} : ent[p].fwd \notin overtaken => entries'[ent[p].fwd] = p
    BY <1>6, <1>8
  <2> QED
    BY <1>1, <1>8, <2>1, <2>2, <2>3, ListedSpawned
<1> HIDE DEF o
<1> QED
  BY <1>4, <1>7, <1>8

\* A call behind a pending remove() of its forward is noted.
LEMMA ListedCall ==
  ASSUME IInv, IInv', ListInv,
         NEW op \in {"add", "start", "stop", "remove", "ensure"}, NEW f \in Forwards, Call(op, f)
  PROVE  ListInv'
<1> DEFINE x == Op(op, f, entries[f], 0)
<1>1. /\ queue' = Append(queue, x)
      /\ UNCHANGED <<entries, ent, made, kids, waiting>>
      /\ overtaken' = IF op \in Rebinding /\ Removing(f) THEN overtaken \cup {f} ELSE overtaken
  BY DEF Call, Rebinding
<1>2. x \in OpType /\ x.op = op /\ x.fwd = f /\ x.obj = entries[f]
  BY DEF Op, OpType, IInv, TypeOK, None
<1>3. \A i \in 1 .. Len(queue) : queue[i].op = "remove" /\ queue[i].fwd = f => Removing(f)
  <2>1. DOMAIN queue = 1 .. Len(queue)
    BY LenProperties DEF IInv, TypeOK
  <2> QED
    BY <2>1 DEF IInv, QueueInv, Naming, Removing
<1> HIDE DEF x
<1>4. queue # <<>> => Head(queue') = Head(queue)
  <2>1. queue \in Seq(OpType)
    BY DEF IInv, TypeOK
  <2> QED
    BY <1>1, <1>2, <2>1, Appended
<1>5. WaitListed'
  BY <1>1, <1>4, StillWaiting
<1> QED
  BY <1>1, <1>2, <1>3, <1>5, ListedQuiet

\* The conjunction is an invariant.
LEMMA ListInvariant == Spec => []ListInv
<1>1. Init => ListInv
  <2> SUFFICES ASSUME Init
               PROVE  ListInv
    OBVIOUS
  <2>1. IInv
    BY Initially
  <2>2. queue = <<>> /\ waiting = None /\ \A k \in Kids : ~kids[k].alive
    BY DEF Init
  <2>3. Len(queue) = 0
    BY <2>2, EmptySeq
  <2> QED
    BY <2>2, <2>3 DEF ListInv, ChildListed, QueueListed, WaitListed
<1>2. IInv /\ IInv' /\ ListInv /\ [Next]_vars => ListInv'
  <2> SUFFICES ASSUME IInv, IInv', ListInv, [Next]_vars
               PROVE  ListInv'
    OBVIOUS
  <2>1. CASE \E op \in {"add", "start", "stop", "remove", "ensure"}, f \in Forwards : Call(op, f)
    BY <2>1, ListedCall
  <2>2. CASE RunOp
    BY <2>2, ListedRunOp
  <2>3. CASE OpResumes
    BY <2>3, ListedOpResumes
  <2>4. ASSUME UNCHANGED <<entries, made, queue, waiting, overtaken>>,
               \A o \in Objects : ent'[o].fwd = ent[o].fwd,
               \A k \in Kids : kids'[k].alive => kids[k].alive /\ kids'[k].obj = kids[k].obj
        PROVE  ListInv'
    BY <2>4, StillWaiting, ListedQuiet
  <2>5. ent \in [Objects -> EntryType] /\ kids \in [Kids -> KidType]
    BY DEF IInv, TypeOK
  <2>6. CASE \E k \in Kids : MarkActive(k)
    <3>1. PICK k \in Kids : MarkActive(k)
      BY <2>6
    <3>2. \A o \in Objects : ent'[o].fwd = ent[o].fwd
      BY <2>5, <3>1 DEF MarkActive, EntryType
    <3> QED
      BY <2>4, <3>1, <3>2 DEF MarkActive
  <2>7. CASE \E k \in Kids, permanent \in BOOLEAN : KidExits(k, permanent)
    <3>1. PICK k \in Kids, permanent \in BOOLEAN : KidExits(k, permanent)
      BY <2>7
    <3>2. kids[k].obj \in Objects /\ Settled(ent[kids[k].obj], permanent).fwd = ent[kids[k].obj].fwd
      BY <2>5, <3>1, LiveChild, SettledTypes DEF KidExits, Alive
    <3>3. ent' = ent \/ ent' = [ent EXCEPT ![kids[k].obj] = Settled(@, permanent)]
      BY <3>1 DEF KidExits
    <3>4. \A o \in Objects : ent'[o].fwd = ent[o].fwd
      BY <2>5, <3>2, <3>3
    <3>5. \A l \in Kids : kids'[l].alive => kids[l].alive /\ kids'[l].obj = kids[l].obj
      BY <2>5, <3>1 DEF KidExits, Alive, KidType
    <3> QED
      BY <2>4, <3>1, <3>4, <3>5 DEF KidExits
  <2>8. CASE \E o \in Objects : Stable(o)
    <3>1. PICK o \in Objects : Stable(o)
      BY <2>8
    <3>2. \A p \in Objects : ent'[p].fwd = ent[p].fwd
      BY <2>5, <3>1 DEF Stable, EntryType
    <3> QED
      BY <2>4, <3>1, <3>2 DEF Stable
  <2>9. CASE \E o \in Objects : TimerFires(o)
    <3>1. PICK o \in Objects : TimerFires(o)
      BY <2>9
    <3>2. PICK gen \in ent[o].timer :
            queue' = IF RetryValid(o, gen)
                       THEN Append(queue, Op("retry", ent[o].fwd, o, gen)) ELSE queue
      BY <3>1 DEF TimerFires
    <3>3. /\ UNCHANGED <<entries, made, kids, waiting, overtaken>>
          /\ \A p \in Objects : ent'[p].fwd = ent[p].fwd
      BY <2>5, <3>1 DEF TimerFires, EntryType
    <3> DEFINE x == Op("retry", ent[o].fwd, o, gen)
    <3>4. x \in OpType /\ x.op \notin Rebinding
      BY <2>5, <3>2 DEF Op, OpType, EntryType, Rebinding
    <3>5. queue' = queue \/ queue' = Append(queue, x)
      BY <3>2
    <3> HIDE DEF x
    <3>6. queue # <<>> => Head(queue') = Head(queue)
      <4>1. queue \in Seq(OpType)
        BY DEF IInv, TypeOK
      <4> QED
        BY <3>4, <3>5, <4>1, Appended
    <3>7. WaitListed'
      BY <3>3, <3>6, StillWaiting
    <3> QED
      BY <3>3, <3>4, <3>5, <3>7, ListedQuiet
  <2>10. CASE OnResume
    <3>1. \A o \in Objects : ent'[o] = ent[o] \/ ent'[o] = Armed(Unarmed(ent[o]))
      BY <2>10 DEF OnResume
    <3>2. \A o \in Objects : ent'[o].fwd = ent[o].fwd
      BY <2>5, <3>1, UnarmedTypes, ArmedTypes
    <3> QED
      BY <2>4, <2>10, <3>2 DEF OnResume
  <2>11. CASE Shutdown
    <3>1. \A o \in Objects : ent'[o] = ent[o] \/ ent'[o] = [Unarmed(ent[o]) EXCEPT !.gen = @ + 1]
      BY <2>11 DEF Shutdown
    <3>2. \A o \in Objects : ent'[o].fwd = ent[o].fwd
      <4> TAKE o \in Objects
      <4>1. Unarmed(ent[o]) \in EntryType /\ Unarmed(ent[o]).fwd = ent[o].fwd
        BY <2>5, UnarmedTypes
      <4> QED
        BY <3>1, <4>1 DEF EntryType
    <3>3. \A k \in Kids : kids'[k].alive => kids[k].alive /\ kids'[k].obj = kids[k].obj
      BY <2>5, <2>11, KilledFacts DEF Shutdown
    <3> QED
      BY <2>4, <2>11, <3>2, <3>3 DEF Shutdown
  <2>12. CASE UNCHANGED vars
    BY <2>4, <2>12 DEF vars
  <2> QED
    BY <2>1, <2>2, <2>3, <2>6, <2>7, <2>8, <2>9, <2>10, <2>11, <2>12 DEF Next
<1> QED
  BY <1>1, <1>2, Invariant, PTL DEF Spec

------------------------------------------------------------------------------
\* The fields keep their types: no entry is made beyond the bound although the
\* bound is checked when add() is called, and no operation names a missing entry.
THEOREM TypeCorrect == Spec => []TypeOK
<1>1. IInv => TypeOK
  BY DEF IInv
<1> QED
  BY <1>1, Invariant, PTL

\* createForwardManager never has two live ssh children for one Entry, nor for one
\* forward as long as nobody called start() or remove() for it behind a remove().
THEOREM OneChild == Spec => []OneChildPerForward
<1>1. IInv /\ ListInv => OneChildPerForward
  <2> SUFFICES ASSUME IInv, ListInv, NEW k \in Kids, NEW l \in Kids, kids[k].alive, kids[l].alive,
                      ent[kids[k].obj].fwd = ent[kids[l].obj].fwd,
                      \/ kids[k].obj = kids[l].obj
                      \/ ent[kids[k].obj].fwd \notin overtaken
               PROVE  k = l
    BY DEF OneChildPerForward
  <2>1. ent[kids[k].obj].exit = k /\ ent[kids[l].obj].exit = l
    BY LiveChild
  <2>2. CASE kids[k].obj = kids[l].obj
    BY <2>1, <2>2
  <2>3. CASE ent[kids[k].obj].fwd \notin overtaken
    <3>1. /\ entries[ent[kids[k].obj].fwd] = kids[k].obj
          /\ entries[ent[kids[l].obj].fwd] = kids[l].obj
      BY <2>3 DEF ListInv, ChildListed
    <3> QED
      BY <2>1, <3>1
  <2> QED
    BY <2>2, <2>3
<1> QED
  BY <1>1, Invariant, ListInvariant, PTL

\* A forward that was stopped has no child but one that was told to exit.
THEOREM StoppedIsDown == Spec => []StoppedStaysDown
<1>1. IInv => StoppedStaysDown
  BY DEF IInv, Sound, StoppedStaysDown
<1> QED
  BY <1>1, Invariant, PTL

\* Every child that may go on is the one child of its Entry, and of a listed one
\* as long as nobody called start() or remove() behind a remove().
THEOREM NoChildIsLost == Spec => []NoOrphans
<1>1. IInv /\ ListInv => NoOrphans
  <2> SUFFICES ASSUME IInv, ListInv, NEW k \in Kids, kids[k].alive
               PROVE  /\ ent[kids[k].obj].child = k
                      /\ ent[kids[k].obj].fwd \notin overtaken =>
                           entries[ent[kids[k].obj].fwd] = kids[k].obj
    BY DEF NoOrphans
  <2> QED
    BY LiveChild DEF ListInv, ChildListed
<1> QED
  BY <1>1, Invariant, ListInvariant, PTL

------------------------------------------------------------------------------
(* Permanent failures.                                                      *)

\* The retries of the tail of a queue, and of a queue with one operation more.
LEMMA RetriesTail ==
  ASSUME NEW q \in Seq(OpType), q # <<>>, NEW o, NEW gen, NEW i \in Retries(Tail(q), o, gen)
  PROVE  i \in Nat \ {0} /\ i + 1 \in Retries(q, o, gen)
<1>1. /\ Len(q) \in Nat \ {0} /\ Len(Tail(q)) = Len(q) - 1
      /\ \A j \in 1 .. Len(Tail(q)) : Tail(q)[j] = q[j + 1]
  BY EmptySeq, HeadTailProperties
<1>2. i \in 1 .. Len(Tail(q)) /\ Tail(q)[i].op = "retry" /\ Tail(q)[i].obj = o /\ Tail(q)[i].gen = gen
  BY DEF Retries
<1>3. i + 1 \in 1 .. Len(q) /\ Tail(q)[i] = q[i + 1] /\ i \in Nat \ {0}
  BY <1>1, <1>2
<1> QED
  BY <1>2, <1>3 DEF Retries

\* One operation more adds at most one retry.
LEMMA RetriesAppend ==
  ASSUME NEW q \in Seq(OpType), NEW x \in OpType, NEW o, NEW gen
  PROVE  /\ ~(x.op = "retry" /\ x.obj = o /\ x.gen = gen) =>
              Retries(Append(q, x), o, gen) = Retries(q, o, gen)
         /\ Retries(Append(q, x), o, gen) \subseteq Retries(q, o, gen) \cup {Len(q) + 1}
<1>1. /\ Len(q) \in Nat /\ Len(Append(q, x)) = Len(q) + 1
      /\ \A i \in 1 .. Len(q) : Append(q, x)[i] = q[i]
      /\ Append(q, x)[Len(q) + 1] = x
  BY LenProperties, AppendProperties
<1>2. \A i \in 1 .. Len(q) : i \in 1 .. Len(q) + 1
  BY <1>1
<1>3. \A i \in 1 .. Len(q) + 1 : i \in 1 .. Len(q) \/ i = Len(q) + 1
  BY <1>1
<1> QED
  BY <1>1, <1>2, <1>3 DEF Retries

\* An entry of which no retry is pending is calm; a shorter queue keeps it calm.
LEMMA NotDueCalm ==
  ASSUME NEW e, NEW o, NEW q, NotDue(e, o, q)
  PROVE  CalmEntry(e, o, q)
  BY DEF NotDue, CalmEntry

\* The end of an operation makes no retry due.
LEMMA CalmTail ==
  ASSUME NEW q \in Seq(OpType), q # <<>>, NEW e, NEW o
  PROVE  /\ NotDue(e, o, q) => NotDue(e, o, Tail(q))
         /\ CalmEntry(e, o, q) => CalmEntry(e, o, Tail(q))
<1>1. \A i \in Retries(Tail(q), o, e.gen) : i \in Nat \ {0} /\ i + 1 \in Retries(q, o, e.gen)
  BY RetriesTail
<1>2. Retries(q, o, e.gen) = {} => Retries(Tail(q), o, e.gen) = {}
  BY <1>1
<1>3. (\A i, j \in Retries(q, o, e.gen) : i = j) => \A i, j \in Retries(Tail(q), o, e.gen) : i = j
  <2> SUFFICES ASSUME \A i, j \in Retries(q, o, e.gen) : i = j,
                      NEW i \in Retries(Tail(q), o, e.gen), NEW j \in Retries(Tail(q), o, e.gen)
               PROVE  i = j
    OBVIOUS
  <2>1. i + 1 = j + 1 /\ i \in Nat /\ j \in Nat
    BY <1>1
  <2> QED
    BY <2>1
<1> QED
  BY <1>2, <1>3 DEF NotDue, CalmEntry

\* An entry that is of a new generation has no retry pending.
Renewed(o) == ent[o].gen < ent'[o].gen /\ ent'[o].timer \subseteq ent[o].timer

\* No timer and no operation is of a generation that has just begun.
LEMMA RenewedNotDue ==
  ASSUME IInv, PastInv, NEW o \in Objects, Renewed(o), ent'[o].gen \in Nat
  PROVE  NotDue(ent'[o], o, queue)
<1>1. ent[o].gen \in Nat /\ ent[o].timer \subseteq Nat
  BY DEF IInv, TypeOK, EntryType
<1>2. ent'[o].gen \notin ent'[o].timer
  <2> SUFFICES ASSUME ent'[o].gen \in ent[o].timer
               PROVE  FALSE
    BY DEF Renewed
  <2>1. ent'[o].gen <= ent[o].gen
    BY DEF PastInv
  <2> QED
    BY <1>1, <2>1 DEF Renewed
<1>3. Retries(queue, o, ent'[o].gen) = {}
  <2> SUFFICES ASSUME NEW i \in Retries(queue, o, ent'[o].gen)
               PROVE  FALSE
    OBVIOUS
  <2>1. i \in 1 .. Len(queue) /\ queue[i].op = "retry" /\ queue[i].obj = o /\ queue[i].gen = ent'[o].gen
    BY DEF Retries
  <2>2. ent'[o].gen <= ent[o].gen
    BY <2>1 DEF PastInv
  <2> QED
    BY <1>1, <2>2 DEF Renewed
<1> QED
  BY <1>2, <1>3 DEF NotDue

\* The operation that runs is a retry of entry o that is still valid.
RetriesNow(o) ==
  Head(queue).op = "retry" /\ Head(queue).obj = o /\ RetryValid(o, Head(queue).gen)

\* While the machine stays awake that entry has no child, and no other retry.
LEMMA RetryingNow ==
  ASSUME IInv, AwakeInv, resumes = 0, queue # <<>>, NEW o \in Objects, RetriesNow(o)
  PROVE  /\ ent[o].state = "reconnecting" /\ ent[o].child = None /\ ~Alive(ent[o].exit)
         /\ NotDue(ent[o], o, Tail(queue))
<1>1. /\ queue \in Seq(OpType) /\ Len(queue) \in Nat \ {0} /\ Head(queue) = queue[1]
      /\ 1 \in 1 .. Len(queue)
  BY EmptySeq DEF IInv, TypeOK
<1>2. 1 \in Retries(queue, o, ent[o].gen)
  BY <1>1 DEF RetriesNow, RetryValid, Retries
<1>3. CalmEntry(ent[o], o, queue)
  BY DEF AwakeInv
<1>4. ent[o].state = "reconnecting" /\ ent[o].child = None
  BY <1>2, <1>3 DEF CalmEntry, NotDue
<1>5. ~Alive(ent[o].exit)
  BY <1>4 DEF IInv, Sound, Live, Alive
<1>6. ent[o].gen \notin ent[o].timer
  BY <1>2, <1>3 DEF CalmEntry
<1>7. Retries(Tail(queue), o, ent[o].gen) = {}
  <2> SUFFICES ASSUME NEW i \in Retries(Tail(queue), o, ent[o].gen)
               PROVE  FALSE
    OBVIOUS
  <2>1. i \in Nat \ {0} /\ i + 1 \in Retries(queue, o, ent[o].gen)
    BY <1>1, RetriesTail
  <2>2. i + 1 = 1
    BY <1>2, <1>3, <2>1 DEF CalmEntry
  <2> QED
    BY <2>1, <2>2
<1> QED
  BY <1>4, <1>5, <1>6, <1>7 DEF NotDue

------------------------------------------------------------------------------
\* What an operation of the queue does: to an entry, to its child, to the queue and
\* to the children.
SameRetries(o) == ent'[o].gen = ent[o].gen /\ ent'[o].timer = ent[o].timer

EntryEffect(o) ==
  \/ ent'[o] = ent[o]
  \/ Renewed(o)
  \/ o > made /\ ent'[o].timer = {}
  \/ RetriesNow(o) /\ SameRetries(o) /\ queue' = Tail(queue)
  \/ waiting # None /\ o = Callee(Head(queue)) /\ SameRetries(o) /\ queue' = Tail(queue)

ChildEffect(o) ==
  \/ ent'[o].child \in {ent[o].child, None}
  \/ Head(queue).op \in {"add", "start"}
  \/ ent[o].state = "stopped"
  \/ RetriesNow(o)
  \/ waiting # None /\ Head(queue).op = "retry"

SameKid(k) ==
  kids'[k].alive => /\ kids[k].alive
                    /\ kids'[k].obj = kids[k].obj /\ kids'[k].gen = kids[k].gen

QueueEffect ==
  \/ queue' = Tail(queue) /\ waiting' = None
  \/ LET o == Callee(Head(queue)) IN
       /\ queue' = queue /\ waiting' = ent[o].exit /\ entries' = entries /\ o \in Objects
       /\ RetriesNow(o) \/ (Renewed(o) /\ Head(queue).op # "retry")
       /\ RetriesNow(o) => Alive(ent[o].exit)
       /\ \A k \in Kids : SameKid(k)

KidEffect(k) ==
  \/ SameKid(k)
  \/ kids'[k].obj \in Objects /\ kids'[k].gen = ent'[kids'[k].obj].gen

Effects ==
  /\ queue # <<>> /\ resumes' = resumes
  /\ made' = made \/ made' = made + 1
  /\ \A o \in Objects : EntryEffect(o)
  /\ \A o \in Objects : ChildEffect(o)
  /\ QueueEffect
  /\ \A k \in Kids : KidEffect(k)

\* Awaiting the child's exit and spawning has these effects.
LEMMA AwaitsOrSpawnsEffects ==
  ASSUME IInv, queue # <<>>, NEW o \in Objects, Callee(Head(queue)) = o,
         o <= made, NEW es, NEW ks, Alike(es, ks),
         \A k \in Kids : ks[k].gen = kids[k].gen,
         SpawnAfterExit(o, es, ks), UNCHANGED <<entries, made, resumes>>,
         \A p \in Objects : p # o => es[p] = ent[p],
         \/ es[o] = ent[o] /\ RetriesNow(o)
         \/ /\ Head(queue).op \in {"add", "start"}
            /\ ent[o].gen < es[o].gen /\ es[o].timer \subseteq ent[o].timer
  PROVE  Effects
<1>1. /\ es \in [Objects -> EntryType] /\ ks \in [Kids -> KidType]
      /\ es[o].exit = ent[o].exit /\ es[o].fwd = ent[o].fwd
      /\ \A k \in Kids : (ks[k].alive <=> kids[k].alive) /\ ks[k].obj = kids[k].obj
  BY DEF Alike
<1>2. \A p \in Objects : es[p].child = ent[p].child
  BY DEF Alike
<1>3. CASE Alive(es[o].exit) /\ ent' = es /\ kids' = ks /\ waiting' = es[o].exit /\ UNCHANGED <<spawned, queue>>
  <2>1. \A p \in Objects : EntryEffect(p)
    BY <1>3 DEF EntryEffect, Renewed
  <2>2. \A p \in Objects : ChildEffect(p)
    BY <1>2, <1>3 DEF ChildEffect
  <2>3. QueueEffect
    BY <1>1, <1>3 DEF QueueEffect, Renewed, SameKid
  <2>4. \A k \in Kids : KidEffect(k)
    BY <1>1, <1>3 DEF KidEffect, SameKid
  <2> QED
    BY <1>3, <2>1, <2>2, <2>3, <2>4 DEF Effects
<1>4. CASE ~Alive(es[o].exit) /\ SpawnAttempt(o, es, ks) /\ Done
  <2>1. ~Live(ks, es[o].exit)
    <3>1. es[o].exit \in Kids \cup {None}
      BY <1>1 DEF EntryType
    <3> QED
      BY <1>1, <1>4, <3>1 DEF Alive, Live
  <2>2. Sound(made, es, ks, spawned)
    BY AlikeSound
  <2>3. Ready({o}, made, es, ks)
    BY <1>1, <2>1, <2>2 DEF Ready
  <2>4. spawned \in Nat /\ spawned <= MaxSpawns
    BY ForwardsAssumption DEF IInv, TypeOK
  <2>5. /\ \A p \in Objects : /\ ent'[p].gen = es[p].gen /\ ent'[p].timer = es[p].timer
                              /\ p \notin {o} => ent'[p] = es[p]
        /\ \A k \in Kids : kids'[k].alive =>
             \/ ks[k].alive /\ kids'[k] = ks[k]
             \/ kids'[k].obj \in {o} /\ kids'[k].gen = es[kids'[k].obj].gen
    BY <1>4, <2>3, <2>4, Spawning DEF SpawnAttempt
  <2>6. queue' = Tail(queue) /\ waiting' = None
    BY <1>4 DEF Done
  <2>7. \A p \in Objects : EntryEffect(p)
    BY <2>5, <2>6 DEF EntryEffect, Renewed, SameRetries
  <2>8. \A p \in Objects : ChildEffect(p)
    <3> TAKE p \in Objects
    <3>1. CASE p = o
      BY <3>1 DEF ChildEffect
    <3>2. CASE p # o
      BY <1>2, <2>5, <3>2 DEF ChildEffect
    <3> QED
      BY <3>1, <3>2
  <2>9. QueueEffect
    BY <2>6 DEF QueueEffect
  <2>10. \A k \in Kids : KidEffect(k)
    BY <1>1, <2>5 DEF KidEffect, SameKid
  <2> QED
    BY <2>7, <2>8, <2>9, <2>10 DEF Effects
<1> QED
  BY <1>3, <1>4 DEF SpawnAfterExit

\* A step that only ends the operation has them too.
LEMMA DoneEffects ==
  ASSUME IInv, queue # <<>>, Done, UNCHANGED <<ent, made, kids, resumes>>
  PROVE  Effects
<1>1. \A o \in Objects : EntryEffect(o) /\ ChildEffect(o)
  BY DEF EntryEffect, ChildEffect
<1>2. QueueEffect
  BY DEF QueueEffect, Done
<1>3. \A k \in Kids : KidEffect(k)
  BY DEF KidEffect, SameKid
<1> QED
  BY <1>1, <1>2, <1>3 DEF Effects

\* A restart is of a new generation.
LEMMA RestartEffects ==
  ASSUME IInv, queue # <<>>, NEW o \in Objects,
         Head(queue).op \in {"add", "start"}, Callee(Head(queue)) = o, o <= made,
         Restart(o), UNCHANGED <<entries, made, resumes>>
  PROVE  Effects
<1> DEFINE es == [ent EXCEPT ![o] = Restarted(@)]
           ks == Killed({ent[o].child})
<1>1. ent \in [Objects -> EntryType] /\ kids \in [Kids -> KidType] /\ ent[o].gen \in Nat
  BY DEF IInv, TypeOK, EntryType
<1>2. /\ Restarted(ent[o]) \in EntryType /\ Restarted(ent[o]).fwd = ent[o].fwd
      /\ Restarted(ent[o]).exit = ent[o].exit /\ Restarted(ent[o]).child = ent[o].child
      /\ Restarted(ent[o]).desired = "running" /\ Restarted(ent[o]).timer = ent[o].timer
      /\ Restarted(ent[o]).gen = ent[o].gen + 1
  BY <1>1, RestartedTypes
<1>3. /\ es \in [Objects -> EntryType] /\ es[o] = Restarted(ent[o])
      /\ \A p \in Objects : p # o => es[p] = ent[p]
  BY <1>1, <1>2
<1>4. /\ ks \in [Kids -> KidType]
      /\ \A k \in Kids : /\ ks[k].alive <=> kids[k].alive
                         /\ ks[k].obj = kids[k].obj /\ ks[k].gen = kids[k].gen
                         /\ kids[k].killed => ks[k].killed
  BY <1>1, KilledFacts
<1>5. SpawnAfterExit(o, es, ks)
  BY DEF Restart
<1> HIDE DEF es, ks
<1>6. Alike(es, ks)
  BY <1>2, <1>3, <1>4 DEF Alike
<1>7. ent[o].gen < es[o].gen /\ es[o].timer \subseteq ent[o].timer
  BY <1>1, <1>2, <1>3
<1> QED
  BY <1>3, <1>4, <1>5, <1>6, <1>7, AwaitsOrSpawnsEffects

\* add() restarts an entry, makes one, or changes none.
LEMMA AddEffects ==
  ASSUME IInv, queue # <<>>, Head(queue).op = "add", RunAdd(Head(queue).fwd),
         UNCHANGED resumes
  PROVE  Effects
<1> DEFINE f == Head(queue).fwd
<1>1. f \in Forwards /\ ent \in [Objects -> EntryType] /\ entries \in [Forwards -> Objects \cup {None}]
  BY Heading DEF OpType, IInv, TypeOK
<1>2. entries[f] # None => entries[f] \in Objects /\ entries[f] <= made /\ ent[entries[f]].fwd = f
  BY <1>1 DEF IInv, TableInv
<1>3. ASSUME Done, UNCHANGED <<entries, ent, made, kids, spawned>>
      PROVE  Effects
  BY <1>3, DoneEffects
<1>4. CASE entries[f] # None /\ Restart(entries[f]) /\ UNCHANGED <<entries, made>>
  <2>1. Callee(Head(queue)) = entries[f]
    BY DEF Callee
  <2> QED
    BY <1>2, <1>4, <2>1, RestartEffects
<1>5. CASE /\ entries[f] = None
           /\ made' = made + 1
           /\ entries' = [entries EXCEPT ![f] = made']
           /\ SpawnAttempt(made', [ent EXCEPT ![made'] = Entry(f, "running", "starting")], kids)
           /\ Done
  <2> DEFINE o == made + 1
             es == [ent EXCEPT ![o] = Entry(f, "running", "starting")]
  <2>1. entries' = [entries EXCEPT ![f] = o] /\ SpawnAttempts({o}, es, kids) /\ Done
    BY <1>5 DEF SpawnAttempt
  <2>2. PICK en : en = entries'
    OBVIOUS
  <2>3. Makes(f, o, en, es)
    BY <1>1, <1>5, <2>1, <2>2 DEF Makes
  <2> HIDE DEF es, f
  <2>4. Made(f, o, en, es)
    <3> HIDE DEF o
    <3> QED
      BY <2>3, NewEntry
  <2>5. /\ o \in Objects /\ es[o].timer = {} /\ Ready({o}, made + 1, es, kids)
        /\ \A p \in Objects : p # o => es[p] = ent[p]
    BY <2>4 DEF Made
  <2>6. spawned \in Nat /\ spawned <= MaxSpawns /\ o > made
    BY <2>4, ForwardsAssumption DEF IInv, TypeOK, Made
  <2> HIDE DEF o
  <2>7. /\ \A p \in Objects : /\ ent'[p].gen = es[p].gen /\ ent'[p].timer = es[p].timer
                              /\ p \notin {o} => ent'[p] = es[p]
        /\ \A k \in Kids : kids'[k].alive =>
             \/ kids[k].alive /\ kids'[k] = kids[k]
             \/ kids'[k].obj \in {o} /\ kids'[k].gen = es[kids'[k].obj].gen
    BY <2>1, <2>5, <2>6, Spawning
  <2>8. \A p \in Objects : EntryEffect(p)
    BY <2>5, <2>6, <2>7 DEF EntryEffect
  <2>9. \A p \in Objects : ChildEffect(p)
    BY DEF ChildEffect
  <2>10. QueueEffect
    BY <2>1 DEF QueueEffect, Done
  <2>11. \A k \in Kids : KidEffect(k)
    BY <2>5, <2>7 DEF KidEffect, SameKid
  <2> QED
    BY <1>5, <2>8, <2>9, <2>10, <2>11 DEF Effects
<1> QED
  BY <1>3, <1>4, <1>5 DEF RunAdd

\* stop() and remove() are of a new generation, and awaiting the exit they do nothing more.
LEMMA StopEffects ==
  ASSUME IInv, queue # <<>>, Head(queue).op \in {"stop", "remove"},
         RunStop(Head(queue).op, Head(queue).obj), UNCHANGED resumes
  PROVE  Effects
<1> DEFINE o == Head(queue).obj
           es == [ent EXCEPT ![o] = Stopping(@)]
           ks == KilledBy(ent[o].child)
<1>1. /\ o \in Objects /\ Callee(Head(queue)) = o /\ Head(queue).op # "retry"
  BY Heading DEF Naming, Callee
<1>2. /\ ent \in [Objects -> EntryType] /\ kids \in [Kids -> KidType] /\ ent[o].gen \in Nat
  BY <1>1 DEF IInv, TypeOK, EntryType
<1>3. /\ es \in [Objects -> EntryType] /\ es[o] = Stopping(ent[o])
      /\ \A p \in Objects : p # o => es[p] = ent[p]
  BY <1>1, <1>2, StoppingTypes
<1>4. \A k \in Kids : /\ ks[k].alive <=> kids[k].alive
                       /\ ks[k].obj = kids[k].obj /\ ks[k].gen = kids[k].gen
  BY <1>2, KilledFacts DEF KilledBy
<1>5. /\ kids' = ks /\ UNCHANGED <<made, spawned>>
      /\ \/ ent' = es /\ waiting' = ent[o].exit /\ UNCHANGED <<entries, queue>>
         \/ Finish(Head(queue).op, o, es)
  BY DEF RunStop
<1>6. /\ es[o].timer = {} /\ es[o].gen = ent[o].gen + 1
      /\ \A p \in Objects : es[p].child = ent[p].child
  BY <1>1, <1>2, <1>3, StoppingTypes
<1> HIDE DEF es, ks, o
<1>7. \A k \in Kids : SameKid(k)
  BY <1>4, <1>5 DEF SameKid
<1>8. \A k \in Kids : KidEffect(k)
  BY <1>7 DEF KidEffect
<1>9. CASE ent' = es /\ waiting' = ent[o].exit /\ UNCHANGED <<entries, queue>>
  <2>1. Renewed(o)
    BY <1>2, <1>6, <1>9 DEF Renewed
  <2>2. \A p \in Objects : EntryEffect(p)
    BY <1>3, <1>9, <2>1 DEF EntryEffect
  <2>3. \A p \in Objects : ChildEffect(p)
    BY <1>6, <1>9 DEF ChildEffect
  <2>4. QueueEffect
    BY <1>1, <1>7, <1>9, <2>1 DEF QueueEffect, RetriesNow
  <2> QED
    BY <1>5, <1>8, <2>2, <2>3, <2>4 DEF Effects
<1>10. CASE Finish(Head(queue).op, o, es)
  <2>1. /\ ent'[o] = Stopped(es[o]) /\ \A p \in Objects : p # o => ent'[p] = es[p]
        /\ queue' = Tail(queue) /\ waiting' = None
    BY <1>1, <1>3, <1>10 DEF Finish, Done
  <2>2. ent'[o].gen = es[o].gen /\ ent'[o].timer = es[o].timer /\ ent'[o].child = None
    <3>1. es[o] \in EntryType
      BY <1>1, <1>3
    <3> QED
      BY <2>1, <3>1 DEF Stopped, EntryType
  <2>3. Renewed(o)
    BY <1>2, <1>6, <2>2 DEF Renewed
  <2>4. \A p \in Objects : EntryEffect(p)
    BY <1>3, <2>1, <2>3 DEF EntryEffect
  <2>5. \A p \in Objects : ChildEffect(p)
    BY <1>6, <2>1, <2>2 DEF ChildEffect
  <2>6. QueueEffect
    BY <2>1 DEF QueueEffect
  <2> QED
    BY <1>5, <1>8, <2>4, <2>5, <2>6 DEF Effects
<1> QED
  BY <1>5, <1>9, <1>10

\* ensure() spawns for entries that are stopped.
LEMMA EnsureEffects ==
  ASSUME IInv, queue # <<>>, Head(queue).op = "ensure", RunEnsure, UNCHANGED resumes
  PROVE  Effects
<1> DEFINE S == {o \in Objects : Ensures(o)}
           es == [o \in Objects |->
                   IF o \in S THEN [ent[o] EXCEPT !.gen = @ + 1, !.attempt = 0] ELSE ent[o]]
<1>1. SpawnAttempts(S, es, kids) /\ Done /\ UNCHANGED <<entries, made>> /\ S \in SUBSET Objects
  BY DEF RunEnsure
<1>2. /\ ent \in [Objects -> EntryType] /\ kids \in [Kids -> KidType]
      /\ spawned \in Nat /\ spawned <= MaxSpawns
  BY ForwardsAssumption DEF IInv, TypeOK
<1>3. \A o \in Objects :
        /\ es[o] \in EntryType /\ es[o].fwd = ent[o].fwd /\ es[o].exit = ent[o].exit
        /\ es[o].child = ent[o].child /\ es[o].desired = ent[o].desired
        /\ es[o].timer = ent[o].timer
        /\ o \in S => ent[o].gen < es[o].gen
        /\ o \notin S => es[o] = ent[o]
  <2> TAKE o \in Objects
  <2> DEFINE g == ent[o].gen + 1
  <2>1. ent[o] \in EntryType /\ g \in Nat /\ ent[o].gen < g
    BY <1>2 DEF EntryType
  <2>2. /\ o \notin S => es[o] = ent[o]
        /\ o \in S => es[o] = [ent[o] EXCEPT !.gen = g, !.attempt = 0]
    BY <2>1 DEF EntryType
  <2> HIDE DEF g, es, S
  <2>3. CASE o \notin S
    BY <2>1, <2>2, <2>3
  <2>4. CASE o \in S
    BY <2>1, <2>2, <2>4 DEF EntryType
  <2> QED
    BY <2>3, <2>4
<1>4. es \in [Objects -> EntryType]
  BY <1>3
<1>5. \A o \in S : ent[o].child = None /\ o <= made /\ ent[o].state = "stopped"
  BY DEF Ensures, Listed, IInv, TableInv, Objects, None
<1> HIDE DEF es, S
<1>6. Alike(es, kids)
  BY <1>2, <1>3, <1>4 DEF Alike
<1>7. \A o \in S : ~Live(kids, es[o].exit) /\ o <= made
  BY <1>1, <1>3, <1>5 DEF IInv, Sound
<1>8. Sound(made, es, kids, spawned)
  BY <1>6, AlikeSound
<1>9. Ready(S, made, es, kids)
  BY <1>1, <1>2, <1>4, <1>7, <1>8 DEF Ready
<1>10. /\ \A o \in Objects : /\ ent'[o].gen = es[o].gen /\ ent'[o].timer = es[o].timer
                             /\ o \notin S => ent'[o] = es[o]
       /\ \A k \in Kids : kids'[k].alive =>
            \/ kids[k].alive /\ kids'[k] = kids[k]
            \/ kids'[k].obj \in S /\ kids'[k].gen = es[kids'[k].obj].gen
  BY <1>1, <1>2, <1>9, Spawning
<1>11. ASSUME NEW o \in Objects
       PROVE  EntryEffect(o) /\ ChildEffect(o)
  <2>1. CASE o \in S
    <3>1. ent'[o].gen = es[o].gen /\ ent'[o].timer = es[o].timer
      BY <1>10, Zenon
    <3>2. es[o].timer = ent[o].timer /\ ent[o].gen < es[o].gen
      BY <1>3, <2>1
    <3>3. Renewed(o)
      BY <3>1, <3>2 DEF Renewed
    <3>4. ent[o].state = "stopped"
      BY <1>5, <2>1
    <3> QED
      BY <3>3, <3>4 DEF EntryEffect, ChildEffect
  <2>2. CASE o \notin S
    <3>1. ent'[o] = ent[o]
      <4>1. ent'[o] = es[o]
        BY <1>10, <2>2, Zenon
      <4> QED
        BY <1>3, <2>2, <4>1, Zenon
    <3> QED
      BY <3>1 DEF EntryEffect, ChildEffect
  <2> QED
    BY <2>1, <2>2
<1>12. QueueEffect
  BY <1>1 DEF QueueEffect, Done
<1>13. ASSUME NEW k \in Kids
       PROVE  KidEffect(k)
  <2>1. CASE kids'[k].alive /\ ~(kids[k].alive /\ kids'[k] = kids[k])
    <3>1. kids'[k].obj \in S /\ kids'[k].gen = es[kids'[k].obj].gen
      BY <1>10, <2>1
    <3>2. kids'[k].obj \in Objects
      BY <1>1, <3>1
    <3>3. ent'[kids'[k].obj].gen = es[kids'[k].obj].gen
      BY <1>10, <3>2, Zenon
    <3> QED
      BY <3>1, <3>2, <3>3 DEF KidEffect
  <2>2. CASE kids'[k].alive => (kids[k].alive /\ kids'[k] = kids[k])
    BY <2>2 DEF KidEffect, SameKid
  <2> QED
    BY <2>1, <2>2
<1> QED
  BY <1>1, <1>11, <1>12, <1>13 DEF Effects

\* A retry spawns for its own entry, if it is still valid.
LEMMA RetryEffects ==
  ASSUME IInv, queue # <<>>, Head(queue).op = "retry",
         RunRetry(Head(queue).obj, Head(queue).gen), UNCHANGED resumes
  PROVE  Effects
<1> DEFINE o == Head(queue).obj
<1>1. o \in Objects /\ Callee(Head(queue)) = o
  BY Heading DEF Callee
<1>2. Alike(ent, kids) /\ UNCHANGED <<entries, made>>
  BY DEF Alike, IInv, TypeOK, RunRetry
<1>3. CASE RetryValid(o, Head(queue).gen) /\ SpawnAfterExit(o, ent, kids)
  <2>1. o <= made /\ RetriesNow(o)
    BY <1>3, Heading DEF RetryValid, RetriesNow
  <2> HIDE DEF o
  <2> QED
    BY <1>1, <1>2, <1>3, <2>1, AwaitsOrSpawnsEffects
<1>4. CASE Done /\ UNCHANGED <<entries, made, ent, kids, spawned>>
  BY <1>4, DoneEffects
<1> QED
  BY <1>3, <1>4 DEF RunRetry

\* RunOp and OpResumes have these effects.
LEMMA RunOpEffects == IInv /\ RunOp => Effects
<1> SUFFICES ASSUME IInv, RunOp
             PROVE  Effects
  OBVIOUS
<1> DEFINE q == Head(queue)
<1>1. queue # <<>> /\ UNCHANGED resumes
  BY DEF RunOp
<1>2. CASE q.op = "add" /\ RunAdd(q.fwd)
  BY <1>1, <1>2, AddEffects
<1>3. CASE q.op = "start" /\ Restart(q.obj) /\ UNCHANGED <<entries, made>>
  <2>1. q.obj \in Objects /\ q.obj <= made /\ Callee(q) = q.obj
    BY <1>1, <1>3, Heading DEF Naming, Callee
  <2> QED
    BY <1>1, <1>3, <2>1, RestartEffects
<1>4. CASE q.op \in {"stop", "remove"} /\ RunStop(q.op, q.obj)
  BY <1>1, <1>4, StopEffects
<1>5. CASE q.op = "ensure" /\ RunEnsure
  BY <1>1, <1>5, EnsureEffects
<1>6. CASE q.op = "retry" /\ RunRetry(q.obj, q.gen)
  BY <1>1, <1>6, RetryEffects
<1> QED
  BY <1>2, <1>3, <1>4, <1>5, <1>6 DEF RunOp

\* The operation that goes on changes the entry that it waited for.
LEMMA OpResumesEffects == IInv /\ OpResumes => Effects
<1> SUFFICES ASSUME IInv, OpResumes
             PROVE  Effects
  OBVIOUS
<1> DEFINE q == Head(queue)
           o == Callee(q)
<1>1. /\ waiting # None /\ ~kids[waiting].alive /\ queue # <<>> /\ UNCHANGED <<made, resumes>>
      /\ q \in OpType
  BY Heading DEF OpResumes, IInv, TypeOK
<1>2. waiting = ent[o].exit /\ o <= made /\ o \in Objects
  <2>1. o # None /\ waiting = ent[o].exit /\ o <= made
    BY <1>1 DEF IInv, WaitInv
  <2> QED
    BY <1>1, <2>1 DEF Callee, OpType, IInv, TypeOK
<1>3. /\ ent \in [Objects -> EntryType] /\ kids \in [Kids -> KidType]
      /\ spawned \in Nat /\ spawned <= MaxSpawns /\ Sound(made, ent, kids, spawned)
  BY ForwardsAssumption DEF IInv, TypeOK
<1>4. \/ /\ Finish(q.op, o, ent)
         /\ UNCHANGED <<kids, spawned>>
      \/ /\ q.op \in {"add", "start", "retry"}
         /\ SpawnAttempt(o, ent, kids)
         /\ Done
         /\ UNCHANGED entries
  BY DEF OpResumes, Callee
<1>5. Done
  BY <1>4 DEF Finish
<1>6. QueueEffect /\ queue' = Tail(queue)
  BY <1>5 DEF QueueEffect, Done
<1> HIDE DEF o
<1>7. CASE Finish(q.op, o, ent) /\ UNCHANGED <<kids, spawned>>
  <2>1. ent'[o] = Stopped(ent[o]) /\ \A p \in Objects : p # o => ent'[p] = ent[p]
    BY <1>2, <1>3, <1>7 DEF Finish
  <2>2. ent'[o].gen = ent[o].gen /\ ent'[o].timer = ent[o].timer /\ ent'[o].child = None
    <3>1. ent[o] \in EntryType
      BY <1>2, <1>3
    <3> QED
      BY <2>1, <3>1 DEF Stopped, EntryType
  <2>3. EntryEffect(o) /\ ChildEffect(o)
    BY <1>1, <1>6, <2>2 DEF EntryEffect, ChildEffect, SameRetries, o
  <2>4. \A p \in Objects : EntryEffect(p) /\ ChildEffect(p)
    BY <2>1, <2>3 DEF EntryEffect, ChildEffect
  <2>5. \A k \in Kids : KidEffect(k)
    BY <1>7 DEF KidEffect, SameKid
  <2> QED
    BY <1>1, <1>6, <2>4, <2>5 DEF Effects
<1>8. CASE q.op \in {"add", "start", "retry"} /\ SpawnAttempt(o, ent, kids)
  <2>1. ~Live(kids, ent[o].exit)
    BY <1>1, <1>2 DEF Live
  <2>2. Ready({o}, made, ent, kids)
    BY <1>2, <1>3, <2>1 DEF Ready
  <2>3. /\ \A p \in Objects : /\ ent'[p].gen = ent[p].gen /\ ent'[p].timer = ent[p].timer
                              /\ p \notin {o} => ent'[p] = ent[p]
        /\ \A k \in Kids : kids'[k].alive =>
             \/ kids[k].alive /\ kids'[k] = kids[k]
             \/ kids'[k].obj \in {o} /\ kids'[k].gen = ent[kids'[k].obj].gen
    BY <1>3, <1>8, <2>2, Spawning DEF SpawnAttempt
  <2>4. EntryEffect(o) /\ ChildEffect(o)
    BY <1>1, <1>2, <1>6, <1>8, <2>3 DEF EntryEffect, ChildEffect, SameRetries, o
  <2>5. \A p \in Objects : EntryEffect(p) /\ ChildEffect(p)
    BY <2>3, <2>4 DEF EntryEffect, ChildEffect
  <2>6. \A k \in Kids : KidEffect(k)
    BY <1>2, <2>3 DEF KidEffect, SameKid
  <2> QED
    BY <1>1, <1>6, <2>5, <2>6 DEF Effects
<1> QED
  BY <1>4, <1>7, <1>8

------------------------------------------------------------------------------
\* The generations only grow.
LEMMA EffectsGrow ==
  ASSUME IInv, IInv', Effects, NEW o \in Objects, o <= made
  PROVE  ent[o].gen <= ent'[o].gen
<1>1. ent[o].gen \in Nat /\ ent'[o].gen \in Nat /\ made \in Nat /\ o \in Nat
  BY Objects_Kids DEF IInv, TypeOK, EntryType
<1>2. EntryEffect(o)
  BY DEF Effects
<1> QED
  BY <1>1, <1>2 DEF EntryEffect, Renewed, SameRetries

\* The operations left in the queue were in it before.
LEMMA LeftInQueue ==
  ASSUME IInv, queue # <<>>, queue' = queue \/ queue' = Tail(queue), NEW i \in 1 .. Len(queue')
  PROVE  \E j \in 1 .. Len(queue) : queue'[i] = queue[j]
<1>1. /\ queue \in Seq(OpType) /\ Len(queue) \in Nat \ {0} /\ Len(Tail(queue)) = Len(queue) - 1
      /\ \A j \in 1 .. Len(Tail(queue)) : Tail(queue)[j] = queue[j + 1]
  BY EmptySeq, HeadTailProperties DEF IInv, TypeOK
<1>2. CASE queue' = queue
  BY <1>2
<1>3. CASE queue' = Tail(queue)
  <2>1. i + 1 \in 1 .. Len(queue) /\ queue'[i] = queue[i + 1]
    BY <1>1, <1>3
  <2> QED
    BY <2>1
<1> QED
  BY <1>2, <1>3

\* After a step of the queue no timer, retry or child is of a generation to come.
LEMMA EffectsPast ==
  ASSUME IInv, IInv', PastInv, Effects
  PROVE  PastInv'
<1>1. /\ made \in Nat /\ made' \in Nat /\ made <= made' /\ Objects \subseteq Nat
      /\ \A o \in Objects : ent[o].gen \in Nat /\ ent'[o].gen \in Nat /\ ent[o].timer \subseteq Nat
      /\ \A o \in Objects : o <= made => ent[o].gen <= ent'[o].gen
  <2>1. made \in Nat /\ made' \in Nat /\ made <= made'
    BY DEF Effects, IInv, TypeOK
  <2>2. \A o \in Objects : ent[o].gen \in Nat /\ ent'[o].gen \in Nat /\ ent[o].timer \subseteq Nat
    BY DEF IInv, TypeOK, EntryType
  <2> QED
    BY <2>1, <2>2, Objects_Kids, EffectsGrow
<1>2. resumes' \in Nat
  BY DEF PastInv, Effects
<1>3. ASSUME NEW o \in Objects, NEW gen \in ent'[o].timer
      PROVE  gen <= ent'[o].gen /\ o <= made'
  <2>1. EntryEffect(o) /\ (ent[o].timer # {} => o <= made)
    BY DEF Effects, PastInv
  <2>2. CASE ent'[o].timer = {}
    BY <1>3, <2>2
  <2>3. CASE ent'[o].timer \subseteq ent[o].timer
    <3>1. gen \in Nat /\ gen <= ent[o].gen /\ o <= made
      BY <1>1, <1>3, <2>3 DEF PastInv
    <3> QED
      BY <1>1, <3>1
  <2> QED
    BY <2>1, <2>2, <2>3 DEF EntryEffect, Renewed, SameRetries
<1>4. ASSUME NEW i \in 1 .. Len(queue'), queue'[i].op = "retry"
      PROVE  queue'[i].gen <= ent'[queue'[i].obj].gen /\ queue'[i].obj <= made'
  <2>1. PICK j \in 1 .. Len(queue) : queue'[i] = queue[j]
    BY LeftInQueue DEF Effects, QueueEffect
  <2>2. queue[j] \in OpType
    BY DEF IInv, TypeOK
  <2>3. queue[j].obj # None
    BY <1>4, <2>1 DEF IInv, QueueInv
  <2>4. queue[j].obj \in Objects /\ queue[j].gen \in Nat
    BY <2>2, <2>3 DEF OpType
  <2>5. queue[j].gen <= ent[queue[j].obj].gen /\ queue[j].obj <= made
    BY <1>4, <2>1 DEF PastInv
  <2> QED
    <3> DEFINE o == queue[j].obj
    <3>1. /\ ent[o].gen \in Nat /\ ent'[o].gen \in Nat /\ ent[o].gen <= ent'[o].gen /\ o \in Nat
      BY <1>1, <2>4, <2>5
    <3>2. queue[j].gen <= ent'[o].gen /\ o <= made'
      BY <1>1, <2>4, <2>5, <3>1
    <3> QED
      BY <2>1, <3>2
<1>5. ASSUME NEW k \in Kids, kids'[k].alive
      PROVE  kids'[k].gen <= ent'[kids'[k].obj].gen
  <2>1. KidEffect(k)
    BY DEF Effects
  <2>2. CASE kids'[k].obj \in Objects /\ kids'[k].gen = ent'[kids'[k].obj].gen
    <3>1. ent'[kids'[k].obj].gen \in Nat
      BY <1>1, <2>2, Zenon
    <3>2. ent'[kids'[k].obj].gen <= ent'[kids'[k].obj].gen
      BY <3>1
    <3> QED
      BY <2>2, <3>2, Zenon
  <2>3. CASE kids[k].alive /\ kids'[k].obj = kids[k].obj /\ kids'[k].gen = kids[k].gen
    <3>1. kids[k].obj \in Objects /\ kids[k].obj <= made
      BY <2>3, LiveChild
    <3>2. ent[kids[k].obj].fwd \in Forwards /\ kids[k].obj # None
      BY <3>1, Objects_Kids DEF IInv, TypeOK, EntryType
    <3>3. kids[k].obj <= made
      BY <3>1, <3>2 DEF IInv, TableInv
    <3>4. kids[k].gen <= ent[kids[k].obj].gen /\ kids[k].gen \in Nat
      BY <2>3 DEF PastInv, IInv, TypeOK, KidType
    <3> QED
      <4>1. /\ ent[kids[k].obj].gen \in Nat /\ ent'[kids[k].obj].gen \in Nat
            /\ ent[kids[k].obj].gen <= ent'[kids[k].obj].gen
        BY <1>1, <3>1, <3>3, Zenon
      <4>2. kids[k].gen <= ent'[kids[k].obj].gen
        BY <3>4, <4>1
      <4> QED
        BY <2>3, <4>2, Zenon
  <2> QED
    BY <1>5, <2>1, <2>2, <2>3 DEF KidEffect, SameKid
<1> QED
  BY <1>2, <1>3, <1>4, <1>5 DEF PastInv

\* An entry is calm after a step of the queue if it was before.
LEMMA EffectsCalm ==
  ASSUME IInv, IInv', PastInv, AwakeInv, Effects, resumes = 0, NEW o \in Objects
  PROVE  CalmEntry(ent'[o], o, queue')
<1>1. /\ queue \in Seq(OpType) /\ queue # <<>> /\ EntryEffect(o)
      /\ (queue' = queue \/ queue' = Tail(queue))
      /\ ent'[o].gen \in Nat
  BY DEF IInv, TypeOK, EntryType, Effects, QueueEffect
<1>2. CalmEntry(ent[o], o, queue)
  BY DEF AwakeInv
<1>3. PICK e : e = ent'[o]
  OBVIOUS
<1> SUFFICES CalmEntry(e, o, queue')
  BY <1>3
<1>4. ASSUME NotDue(e, o, queue)
      PROVE  CalmEntry(e, o, queue')
  <2>1. NotDue(e, o, queue')
    BY <1>1, <1>4, CalmTail
  <2> QED
    BY <2>1, NotDueCalm
<1>5. CASE e = ent[o]
  BY <1>1, <1>2, <1>5, CalmTail
<1>6. CASE Renewed(o)
  BY <1>1, <1>3, <1>4, <1>6, RenewedNotDue
<1>7. CASE o > made /\ e.timer = {}
  <2>1. Retries(queue, o, e.gen) = {}
    <3> SUFFICES ASSUME NEW i \in Retries(queue, o, e.gen)
                 PROVE  FALSE
      OBVIOUS
    <3>1. i \in 1 .. Len(queue) /\ queue[i].op = "retry" /\ queue[i].obj = o
      BY DEF Retries
    <3>2. o <= made
      BY <3>1 DEF PastInv
    <3> QED
      BY <1>7, <3>2, Objects_Kids DEF IInv, TypeOK
  <2>2. NotDue(e, o, queue)
    BY <1>7, <2>1 DEF NotDue
  <2> QED
    BY <1>4, <2>2
<1>8. CASE RetriesNow(o) /\ SameRetries(o) /\ queue' = Tail(queue)
  <2>1. NotDue(ent[o], o, Tail(queue))
    BY <1>1, <1>8, RetryingNow
  <2>2. NotDue(e, o, queue')
    BY <1>3, <1>8, <2>1 DEF NotDue, SameRetries
  <2> QED
    BY <2>2, NotDueCalm
<1>9. CASE waiting # None /\ o = Callee(Head(queue)) /\ SameRetries(o)
  <2>1. NotDue(ent[o], o, queue)
    BY <1>9 DEF AwakeInv
  <2>2. NotDue(e, o, queue)
    BY <1>3, <1>9, <2>1 DEF NotDue, SameRetries
  <2> QED
    BY <1>4, <2>2
<1> QED
  BY <1>1, <1>3, <1>5, <1>6, <1>7, <1>8, <1>9 DEF EntryEffect

\* After a step of the queue the entries are calm and no retry awaits an exit.
LEMMA EffectsAwake ==
  ASSUME IInv, IInv', PastInv, AwakeInv, Effects
  PROVE  AwakeInv'
<1> SUFFICES ASSUME resumes' = 0
             PROVE  /\ \A o \in Objects : CalmEntry(ent'[o], o, queue')
                    /\ waiting' # None =>
                         LET o == Callee(Head(queue))' IN
                           /\ Head(queue').op # "retry" /\ NotDue(ent'[o], o, queue')
                           /\ kids'[waiting'].alive /\ kids'[waiting'].obj = o =>
                                kids'[waiting'].gen < ent'[o].gen
  BY DEF AwakeInv
<1>1. resumes = 0 /\ queue # <<>> /\ QueueEffect
  BY DEF Effects
<1>2. \A o \in Objects : CalmEntry(ent'[o], o, queue')
  BY <1>1, EffectsCalm
<1>3. ASSUME waiting' # None
      PROVE  LET o == Callee(Head(queue))' IN
               /\ Head(queue').op # "retry" /\ NotDue(ent'[o], o, queue')
               /\ kids'[waiting'].alive /\ kids'[waiting'].obj = o =>
                    kids'[waiting'].gen < ent'[o].gen
  <2> DEFINE o == Callee(Head(queue))
  <2>1. /\ queue' = queue /\ waiting' = ent[o].exit /\ entries' = entries /\ o \in Objects
        /\ RetriesNow(o) \/ (Renewed(o) /\ Head(queue).op # "retry")
        /\ RetriesNow(o) => Alive(ent[o].exit)
        /\ \A k \in Kids : SameKid(k)
    BY <1>1, <1>3 DEF QueueEffect
  <2>2. Callee(Head(queue))' = o
    BY <2>1 DEF Callee
  <2> HIDE DEF o
  <2>3. ~RetriesNow(o)
    BY <1>1, <2>1, RetryingNow
  <2>4. Renewed(o) /\ Head(queue').op # "retry"
    BY <2>1, <2>3
  <2>5. /\ ent[o].gen \in Nat /\ ent'[o].gen \in Nat /\ waiting' \in Kids
    BY <1>3, <2>1 DEF IInv, TypeOK, EntryType
  <2>6. NotDue(ent'[o], o, queue')
    BY <2>1, <2>4, <2>5, RenewedNotDue
  <2>7. ASSUME kids'[waiting'].alive, kids'[waiting'].obj = o
        PROVE  kids'[waiting'].gen < ent'[o].gen
    <3> DEFINE k == waiting'
    <3>1. kids[k].alive /\ kids[k].obj = o /\ kids'[k].gen = kids[k].gen
      BY <2>1, <2>5, <2>7 DEF SameKid
    <3>2. kids[k].gen <= ent[o].gen /\ kids[k].gen \in Nat
      BY <2>5, <3>1 DEF PastInv, IInv, TypeOK, KidType
    <3> QED
      BY <2>4, <2>5, <3>1, <3>2 DEF Renewed
  <2> QED
    BY <2>2, <2>4, <2>6, <2>7
<1> QED
  BY <1>2, <1>3

------------------------------------------------------------------------------
\* The steps outside the queue leave the generations and the running operation alone,
\* and every child that lives after one lived before.
Outside ==
  /\ UNCHANGED <<entries, made, waiting>>
  /\ waiting # None => queue' # <<>> /\ Head(queue') = Head(queue)
  /\ \A k \in Kids : SameKid(k)
  /\ \A o \in Objects : ent[o].gen <= ent'[o].gen

\* The entry of the operation that awaits an exit.
LEMMA CalleeIsEntry ==
  ASSUME IInv, waiting # None
  PROVE  Callee(Head(queue)) \in Objects
<1>1. queue # <<>> /\ Head(queue) \in OpType
  BY Heading DEF IInv, TypeOK
<1>2. Callee(Head(queue)) # None
  BY DEF IInv, WaitInv
<1> QED
  BY <1>1, <1>2 DEF Callee, OpType, IInv, TypeOK

\* What is left to show of such a step: that of the timers and the queue.
LEMMA OutsideKeeps ==
  ASSUME IInv, IInv', PastInv, AwakeInv, Outside, resumes' \in Nat,
         \A o \in Objects : \A gen \in ent'[o].timer : gen <= ent'[o].gen /\ o <= made,
         \A i \in 1 .. Len(queue') : queue'[i].op = "retry" =>
            queue'[i].gen <= ent'[queue'[i].obj].gen /\ queue'[i].obj <= made,
         resumes' = 0 =>
           /\ resumes = 0
           /\ \A o \in Objects : CalmEntry(ent'[o], o, queue')
           /\ waiting # None => NotDue(ent'[Callee(Head(queue))], Callee(Head(queue)), queue')
  PROVE  RetryInv'
<1>1. \A o \in Objects : ent[o].gen \in Nat /\ ent'[o].gen \in Nat /\ ent[o].gen <= ent'[o].gen
  BY DEF IInv, TypeOK, EntryType, Outside
<1>2. ASSUME NEW k \in Kids, kids'[k].alive
      PROVE  kids'[k].gen <= ent'[kids'[k].obj].gen
  <2>1. kids[k].alive /\ kids'[k].obj = kids[k].obj /\ kids'[k].gen = kids[k].gen
    BY <1>2 DEF Outside, SameKid
  <2>2. kids[k].gen <= ent[kids[k].obj].gen /\ kids[k].obj \in Objects /\ kids[k].gen \in Nat
    BY <1>2, <2>1 DEF PastInv, IInv, TypeOK, KidType
  <2>3. kids[k].gen <= ent'[kids[k].obj].gen
    BY <1>1, <2>2
  <2> QED
    BY <2>1, <2>3
<1>3. PastInv'
  BY <1>2 DEF PastInv, Outside
<1>4. ASSUME resumes' = 0, waiting' # None
      PROVE  LET o == Callee(Head(queue))' IN
               /\ Head(queue').op # "retry" /\ NotDue(ent'[o], o, queue')
               /\ kids'[waiting'].alive /\ kids'[waiting'].obj = o =>
                    kids'[waiting'].gen < ent'[o].gen
  <2> DEFINE o == Callee(Head(queue))
             k == waiting
  <2>1. waiting' = waiting /\ entries' = entries /\ Head(queue') = Head(queue)
    BY <1>4 DEF Outside
  <2>2. Callee(Head(queue))' = o
    BY <2>1 DEF Callee
  <2>3. Head(queue).op # "retry" /\ (kids[k].alive /\ kids[k].obj = o => kids[k].gen < ent[o].gen)
    BY <1>4, <2>1 DEF AwakeInv
  <2>4. NotDue(ent'[o], o, queue')
    BY <1>4, <2>1
  <2>5. k \in Kids /\ SameKid(k) /\ kids[k].obj \in Objects /\ kids[k].gen \in Nat
    BY <1>4, <2>1 DEF Outside, IInv, TypeOK, KidType
  <2> HIDE DEF o
  <2>6. ASSUME kids'[k].alive, kids'[k].obj = o
        PROVE  kids'[k].gen < ent'[o].gen
    <3>1. o \in Objects /\ kids'[k].gen = kids[k].gen /\ kids[k].gen < ent[o].gen
      BY <2>3, <2>5, <2>6 DEF SameKid
    <3> QED
      BY <1>1, <2>5, <3>1
  <2> QED
    BY <2>1, <2>2, <2>3, <2>4, <2>6
<1>5. AwakeInv'
  BY <1>4 DEF AwakeInv
<1> QED
  BY <1>3, <1>5 DEF RetryInv

\* Steps that leave the queue alone, and of the entries the generation and the timer,
\* or else make a new generation.
LEMMA QuietKeeps ==
  ASSUME IInv, IInv', PastInv, AwakeInv, Outside, UNCHANGED <<queue, resumes>>,
         \A o \in Objects :
           \/ SameRetries(o) /\ ent'[o].state = ent[o].state /\ ent'[o].child = ent[o].child
           \/ SameRetries(o) /\ ent[o].child # None
           \/ Renewed(o)
  PROVE  RetryInv'
<1>1. \A o \in Objects : ent[o].gen \in Nat /\ ent'[o].gen \in Nat
  BY DEF IInv, TypeOK, EntryType
<1>2. ASSUME NEW o \in Objects, NEW gen \in ent'[o].timer
      PROVE  gen <= ent'[o].gen /\ o <= made
  <2>1. gen \in ent[o].timer /\ ent[o].gen <= ent'[o].gen
    BY <1>2 DEF SameRetries, Renewed, Outside
  <2>2. gen <= ent[o].gen /\ o <= made /\ gen \in Nat
    BY <2>1 DEF PastInv, IInv, TypeOK, EntryType
  <2> QED
    BY <1>1, <2>1, <2>2
<1>3. ASSUME NEW i \in 1 .. Len(queue'), queue'[i].op = "retry"
      PROVE  queue'[i].gen <= ent'[queue'[i].obj].gen /\ queue'[i].obj <= made
  <2>1. queue[i] \in OpType /\ queue[i].obj # None
    BY <1>3 DEF IInv, TypeOK, QueueInv
  <2>2. queue[i].obj \in Objects /\ queue[i].gen \in Nat
    BY <2>1 DEF OpType
  <2>3. queue[i].gen <= ent[queue[i].obj].gen /\ queue[i].obj <= made
    BY <1>3 DEF PastInv
  <2>4. ent[queue[i].obj].gen <= ent'[queue[i].obj].gen
    BY <2>2 DEF Outside
  <2>5. ent[queue[i].obj].gen \in Nat /\ ent'[queue[i].obj].gen \in Nat
    BY <1>1, <2>2
  <2>6. queue[i].gen <= ent'[queue[i].obj].gen
    BY <2>2, <2>3, <2>4, <2>5
  <2> QED
    BY <2>3, <2>6
<1>4. ASSUME resumes = 0, NEW o \in Objects
      PROVE  /\ CalmEntry(ent'[o], o, queue)
             /\ NotDue(ent[o], o, queue) => NotDue(ent'[o], o, queue)
  <2>1. CalmEntry(ent[o], o, queue)
    BY <1>4 DEF AwakeInv
  <2>2. CASE SameRetries(o)
    <3>1. PICK e : e = ent'[o]
      OBVIOUS
    <3>2. e.gen = ent[o].gen /\ e.timer = ent[o].timer
      BY <2>2, <3>1 DEF SameRetries
    <3>3. NotDue(ent[o], o, queue) <=> NotDue(e, o, queue)
      BY <3>2 DEF NotDue
    <3>4. /\ e.gen \in e.timer => Retries(queue, o, e.gen) = {}
          /\ \A i, j \in Retries(queue, o, e.gen) : i = j
      BY <2>1, <3>2 DEF CalmEntry
    <3>5. NotDue(ent[o], o, queue) \/ (e.state = "reconnecting" /\ e.child = None)
      <4>1. NotDue(ent[o], o, queue) \/ (ent[o].state = "reconnecting" /\ ent[o].child = None)
        BY <2>1 DEF CalmEntry
      <4>2. ~Renewed(o)
        BY <1>1, <2>2 DEF SameRetries, Renewed
      <4> QED
        BY <3>1, <4>1, <4>2
    <3>6. CalmEntry(e, o, queue)
      BY <3>3, <3>4, <3>5 DEF CalmEntry
    <3> QED
      BY <3>1, <3>3, <3>6
  <2>3. CASE Renewed(o)
    <3>1. PICK e : e = ent'[o]
      OBVIOUS
    <3>2. NotDue(e, o, queue)
      BY <1>1, <2>3, <3>1, RenewedNotDue
    <3> QED
      BY <3>1, <3>2, NotDueCalm
  <2> QED
    BY <2>2, <2>3
<1>5. ASSUME resumes = 0, waiting # None
      PROVE  NotDue(ent'[Callee(Head(queue))], Callee(Head(queue)), queue)
  <2>1. NotDue(ent[Callee(Head(queue))], Callee(Head(queue)), queue)
    BY <1>5 DEF AwakeInv
  <2>2. Callee(Head(queue)) \in Objects
    BY <1>5, CalleeIsEntry
  <2> QED
    BY <1>4, <1>5, <2>1, <2>2
<1>6. resumes' \in Nat
  BY DEF PastInv
<1> QED
  BY <1>2, <1>3, <1>4, <1>5, <1>6, OutsideKeeps

\* A step that changes nothing keeps the invariant of the retries.
LEMMA StutterRetries == IInv /\ IInv' /\ RetryInv /\ UNCHANGED vars => RetryInv'
<1> SUFFICES ASSUME IInv, IInv', RetryInv, UNCHANGED vars
             PROVE  RetryInv'
  OBVIOUS
<1>1. UNCHANGED <<entries, made, waiting, queue, resumes, ent, kids>>
  BY DEF vars
<1>2. Outside
  BY <1>1 DEF Outside, SameKid, IInv, TypeOK, EntryType
<1>3. \A o \in Objects : SameRetries(o) /\ ent'[o].state = ent[o].state /\ ent'[o].child = ent[o].child
  BY <1>1 DEF SameRetries
<1> QED
  BY <1>1, <1>2, <1>3, QuietKeeps DEF RetryInv

\* Nor is anything due for an entry whose child becomes active.
LEMMA MarkActiveRetries ==
  IInv /\ IInv' /\ RetryInv /\ (\E k \in Kids : MarkActive(k)) => RetryInv'
<1> SUFFICES ASSUME IInv, IInv', RetryInv, NEW k \in Kids, MarkActive(k)
             PROVE  RetryInv'
  OBVIOUS
<1> DEFINE o == kids[k].obj
<1>1. /\ ent' = [ent EXCEPT ![o].state = "active"] /\ o \in Objects /\ ent[o].child = k
      /\ UNCHANGED <<entries, made, kids, queue, waiting, resumes>>
      /\ ent \in [Objects -> EntryType] /\ k # None
  BY LiveChild, Objects_Kids DEF MarkActive, Alive, Stale, IInv, TypeOK
<1> HIDE DEF o
<1>2. \A p \in Objects :
        /\ ent'[p].gen = ent[p].gen /\ ent'[p].timer = ent[p].timer
        /\ p # o => ent'[p] = ent[p]
        /\ ent[p].gen \in Nat
  BY <1>1 DEF EntryType
<1>3. Outside
  BY <1>1, <1>2 DEF Outside, SameKid, IInv, TypeOK
<1>4. \A p \in Objects :
        \/ SameRetries(p) /\ ent'[p].state = ent[p].state /\ ent'[p].child = ent[p].child
        \/ SameRetries(p) /\ ent[p].child # None
  BY <1>1, <1>2 DEF SameRetries
<1> QED
  BY <1>1, <1>3, <1>4, QuietKeeps DEF RetryInv

\* The stability timer leaves the retries alone.
LEMMA StableRetries ==
  IInv /\ IInv' /\ RetryInv /\ (\E o \in Objects : Stable(o)) => RetryInv'
<1> SUFFICES ASSUME IInv, IInv', RetryInv, NEW o \in Objects, Stable(o)
             PROVE  RetryInv'
  OBVIOUS
<1>1. /\ ent' = [ent EXCEPT ![o].attempt = 0]
      /\ UNCHANGED <<entries, made, kids, queue, waiting, resumes>>
      /\ ent \in [Objects -> EntryType]
  BY DEF Stable, IInv, TypeOK
<1>2. \A p \in Objects :
        /\ ent'[p].gen = ent[p].gen /\ ent'[p].timer = ent[p].timer
        /\ ent'[p].state = ent[p].state /\ ent'[p].child = ent[p].child
        /\ ent[p].gen \in Nat
  BY <1>1 DEF EntryType
<1>3. Outside
  BY <1>1, <1>2 DEF Outside, SameKid, IInv, TypeOK
<1>4. \A p \in Objects : SameRetries(p) /\ ent'[p].state = ent[p].state /\ ent'[p].child = ent[p].child
  BY <1>2 DEF SameRetries
<1> QED
  BY <1>1, <1>3, <1>4, QuietKeeps DEF RetryInv

\* Shutdown makes every pending retry one of the past.
LEMMA ShutdownRetries == IInv /\ IInv' /\ RetryInv /\ Shutdown => RetryInv'
<1> SUFFICES ASSUME IInv, IInv', RetryInv, Shutdown
             PROVE  RetryInv'
  OBVIOUS
<1>1. /\ ent' = [o \in Objects |->
           IF o \in Listed THEN [Unarmed(ent[o]) EXCEPT !.gen = @ + 1] ELSE ent[o]]
      /\ kids' = Killed({ent[o].child : o \in Listed})
      /\ UNCHANGED <<entries, made, queue, waiting, resumes>>
      /\ ent \in [Objects -> EntryType] /\ kids \in [Kids -> KidType]
  BY DEF Shutdown, IInv, TypeOK
<1>2. ASSUME NEW p \in Objects
      PROVE  /\ ent'[p] = ent[p] \/ (ent'[p].timer = {} /\ ent'[p].gen = ent[p].gen + 1)
             /\ ent[p].gen \in Nat
  <2> DEFINE g == Unarmed(ent[p]).gen + 1
  <2>1. /\ ent[p] \in EntryType /\ Unarmed(ent[p]) \in EntryType
        /\ Unarmed(ent[p]).gen = ent[p].gen /\ Unarmed(ent[p]).timer = {}
    BY <1>1, UnarmedTypes
  <2>2. /\ g = ent[p].gen + 1 /\ ent[p].gen \in Nat
        /\ ent'[p] = ent[p] \/ ent'[p] = [Unarmed(ent[p]) EXCEPT !.gen = g]
    BY <1>1, <2>1 DEF EntryType
  <2> HIDE DEF g
  <2> QED
    BY <2>1, <2>2 DEF EntryType
<1>3. \A k \in Kids : SameKid(k)
  <2>1. \A k \in Kids : /\ kids'[k].alive <=> kids[k].alive
                         /\ kids'[k].obj = kids[k].obj /\ kids'[k].gen = kids[k].gen
    BY <1>1, KilledFacts
  <2> QED
    BY <2>1 DEF SameKid
<1>4. Outside
  <2>1. \A p \in Objects : ent[p].gen <= ent'[p].gen
    BY <1>2
  <2> QED
    BY <1>1, <1>3, <2>1 DEF Outside, IInv, TypeOK
<1>5. ASSUME NEW p \in Objects
      PROVE  \/ SameRetries(p) /\ ent'[p].state = ent[p].state /\ ent'[p].child = ent[p].child
             \/ Renewed(p)
  <2>1. CASE ent'[p] = ent[p]
    BY <2>1 DEF SameRetries
  <2>2. CASE ent'[p].timer = {} /\ ent'[p].gen = ent[p].gen + 1
    BY <1>2, <2>2 DEF Renewed
  <2> QED
    BY <1>2, <2>1, <2>2
<1> QED
  BY <1>1, <1>4, <1>5, QuietKeeps DEF RetryInv

\* The exit of an entry's child arms the one retry, and leaves the entry that an
\* operation awaits alone: its handler is of the past.
LEMMA KidExitsRetries ==
  IInv /\ IInv' /\ RetryInv /\ (\E k \in Kids, p \in BOOLEAN : KidExits(k, p)) => RetryInv'
<1> SUFFICES ASSUME IInv, IInv', RetryInv, NEW k \in Kids, NEW permanent \in BOOLEAN,
                    KidExits(k, permanent)
             PROVE  RetryInv'
  OBVIOUS
<1> DEFINE o == kids[k].obj
           s == Settled(ent[o], permanent)
<1>1. /\ kids[k].alive /\ kids' = [kids EXCEPT ![k].alive = FALSE]
      /\ ent' = ent \/ (~Stale(k) /\ ent' = [ent EXCEPT ![o] = s])
      /\ UNCHANGED <<entries, made, queue, waiting, resumes>>
      /\ ent \in [Objects -> EntryType] /\ kids \in [Kids -> KidType]
  BY DEF KidExits, Alive, IInv, TypeOK
<1>2. o \in Objects /\ ent[o].exit = k /\ k # None
  BY <1>1, LiveChild, Objects_Kids
<1>3. /\ s.gen = ent[o].gen /\ s.child = None
      /\ s.timer = {} \/ (s.timer = {ent[o].gen} /\ s.state = "reconnecting")
  BY <1>1, <1>2, SettledTypes
<1>4. \A l \in Kids : SameKid(l)
  <2> TAKE l \in Kids
  <2>1. CASE l = k
    <3>1. kids[k] \in KidType
      BY <1>1
    <3>2. kids'[k] = [kids[k] EXCEPT !.alive = FALSE]
      BY <1>1
    <3>3. ~kids'[k].alive
      BY <3>1, <3>2 DEF KidType
    <3> QED
      BY <2>1, <3>3 DEF SameKid
  <2>2. CASE l # k
    BY <1>1, <2>2 DEF SameKid
  <2> QED
    BY <2>1, <2>2
<1> HIDE DEF s, o
<1>5. \A p \in Objects : /\ ent'[p].gen = ent[p].gen /\ ent[p].gen \in Nat
                         /\ p # o => ent'[p] = ent[p]
  BY <1>1, <1>2, <1>3 DEF EntryType
<1>6. Outside
  BY <1>1, <1>4, <1>5 DEF Outside, IInv, TypeOK
<1>7. CASE ent' = ent
  <2>1. \A p \in Objects : SameRetries(p) /\ ent'[p].state = ent[p].state /\ ent'[p].child = ent[p].child
    BY <1>7 DEF SameRetries
  <2> QED
    BY <1>1, <1>6, <2>1, QuietKeeps DEF RetryInv
<1>8. CASE ~Stale(k) /\ ent' = [ent EXCEPT ![o] = s]
  <2>1. ent[o].child = k /\ ent[o].gen = kids[k].gen /\ ent'[o] = s
    BY <1>1, <1>2, <1>8 DEF Stale, o
  <2>2. ent[o].timer # {} => o <= made
    BY <1>2 DEF RetryInv, PastInv
  <2>3. o <= made
    <3>1. kids[k].obj \in Objects /\ kids[k].obj <= made
      BY <1>1, LiveChild
    <3>2. ent[kids[k].obj].fwd \in Forwards /\ kids[k].obj # None
      BY <3>1, Objects_Kids DEF IInv, TypeOK, EntryType
    <3> QED
      BY <3>1, <3>2 DEF IInv, TableInv, o
  <2>4. ASSUME NEW p \in Objects, NEW gen \in ent'[p].timer
        PROVE  gen <= ent'[p].gen /\ p <= made
    <3>1. CASE p = o
      BY <1>3, <1>5, <2>1, <2>3, <2>4, <3>1
    <3>2. CASE p # o
      BY <1>5, <2>4, <3>2 DEF RetryInv, PastInv
    <3> QED
      BY <3>1, <3>2
  <2>5. ASSUME NEW i \in 1 .. Len(queue'), queue'[i].op = "retry"
        PROVE  queue'[i].gen <= ent'[queue'[i].obj].gen /\ queue'[i].obj <= made
    <3>1. queue[i].gen <= ent[queue[i].obj].gen /\ queue[i].obj <= made
      BY <1>1, <2>5 DEF RetryInv, PastInv
    <3>4. queue[i].obj # None /\ queue[i] \in OpType
      BY <1>1, <2>5 DEF IInv, TypeOK, QueueInv
    <3>2. queue[i].obj \in Objects
      BY <3>4 DEF OpType
    <3>3. ent'[queue[i].obj].gen = ent[queue[i].obj].gen
      BY <1>5, <3>2
    <3> QED
      BY <1>1, <3>1, <3>3
  <2>6. resumes = 0 => NotDue(ent[o], o, queue)
    BY <1>2, <2>1 DEF RetryInv, AwakeInv, CalmEntry
  <2>7. ASSUME resumes = 0, NEW p \in Objects
        PROVE  CalmEntry(ent'[p], p, queue)
    <3>1. CASE p = o
      <4>1. Retries(queue, o, s.gen) = {}
        BY <1>3, <2>6, <2>7 DEF NotDue
      <4>2. s.gen \notin s.timer \/ (s.state = "reconnecting" /\ s.child = None)
        BY <1>3
      <4>3. CalmEntry(s, o, queue)
        BY <4>1, <4>2 DEF CalmEntry, NotDue
      <4> QED
        BY <2>1, <3>1, <4>3
    <3>2. CASE p # o
      BY <1>5, <2>7, <3>2 DEF RetryInv, AwakeInv
    <3> QED
      BY <3>1, <3>2
  <2>8. ASSUME resumes = 0, waiting # None
        PROVE  NotDue(ent'[Callee(Head(queue))], Callee(Head(queue)), queue)
    <3> DEFINE c == Callee(Head(queue))
    <3>1. c \in Objects /\ NotDue(ent[c], c, queue)
      BY <2>8, CalleeIsEntry DEF RetryInv, AwakeInv
    <3>2. c # o
      <4> SUFFICES ASSUME c = o
                   PROVE  FALSE
        OBVIOUS
      <4>1. waiting = k
        BY <1>2, <2>8 DEF IInv, WaitInv
      <4>2. kids[k].gen < ent[o].gen
        BY <1>1, <2>8, <4>1 DEF RetryInv, AwakeInv, o
      <4> QED
        BY <1>2, <1>5, <2>1, <4>2
    <3> QED
      BY <1>5, <3>1, <3>2
  <2>9. resumes' \in Nat
    BY <1>1 DEF RetryInv, PastInv
  <2> QED
    BY <1>1, <1>6, <2>4, <2>5, <2>7, <2>8, <2>9, OutsideKeeps DEF RetryInv
<1> QED
  BY <1>1, <1>7, <1>8

\* A resume may arm more retries than one, but they are of the present.
LEMMA OnResumeRetries == IInv /\ IInv' /\ RetryInv /\ OnResume => RetryInv'
<1> SUFFICES ASSUME IInv, IInv', RetryInv, OnResume
             PROVE  RetryInv'
  OBVIOUS
<1>1. /\ ent' = [o \in Objects |->
           IF /\ entries[ent[o].fwd] = o
              /\ ent[o].desired = "running" /\ ent[o].state \in {"reconnecting", "starting"}
              /\ ent[o].timer # {}
             THEN Armed(Unarmed(ent[o])) ELSE ent[o]]
      /\ UNCHANGED <<entries, made, kids, queue, waiting>> /\ resumes' = resumes + 1
      /\ ent \in [Objects -> EntryType] /\ kids \in [Kids -> KidType] /\ resumes \in Nat
  BY DEF OnResume, IInv, TypeOK, RetryInv, PastInv
<1>2. ASSUME NEW p \in Objects
      PROVE  /\ ent'[p].gen = ent[p].gen /\ ent[p].gen \in Nat
             /\ \/ ent'[p].timer = ent[p].timer
                \/ ent[p].timer # {} /\ ent'[p].timer \subseteq {ent[p].gen}
  <2>1. ent[p] \in EntryType
    BY <1>1
  <2>2. Unarmed(ent[p]) \in EntryType /\ Unarmed(ent[p]).gen = ent[p].gen /\ Unarmed(ent[p]).timer = {}
    BY <2>1, UnarmedTypes
  <2>3. /\ Armed(Unarmed(ent[p])).gen = ent[p].gen
        /\ Armed(Unarmed(ent[p])).timer \in {{}, {ent[p].gen}}
    BY <2>2, ArmedTypes
  <2>4. ent[p].gen \in Nat
    BY <2>1 DEF EntryType
  <2>5. ent'[p] = ent[p] \/ (ent[p].timer # {} /\ ent'[p] = Armed(Unarmed(ent[p])))
    BY <1>1
  <2> QED
    BY <2>3, <2>4, <2>5
<1>3. Outside
  <2>1. \A p \in Objects : ent[p].gen <= ent'[p].gen
    BY <1>2
  <2> QED
    BY <1>1, <2>1 DEF Outside, SameKid, IInv, TypeOK
<1>4. ASSUME NEW p \in Objects, NEW gen \in ent'[p].timer
      PROVE  gen <= ent'[p].gen /\ p <= made
  BY <1>2, <1>4 DEF RetryInv, PastInv
<1>5. ASSUME NEW i \in 1 .. Len(queue'), queue'[i].op = "retry"
      PROVE  queue'[i].gen <= ent'[queue'[i].obj].gen /\ queue'[i].obj <= made
  <2>1. queue[i].gen <= ent[queue[i].obj].gen /\ queue[i].obj <= made
    BY <1>1, <1>5 DEF RetryInv, PastInv
  <2>2. queue[i].obj # None /\ queue[i] \in OpType
    BY <1>1, <1>5 DEF IInv, TypeOK, QueueInv
  <2>3. queue[i].obj \in Objects
    BY <2>2 DEF OpType
  <2> QED
    BY <1>1, <1>2, <2>1, <2>3
<1>6. resumes' \in Nat /\ resumes' # 0
  BY <1>1
<1> QED
  BY <1>1, <1>3, <1>4, <1>5, <1>6, OutsideKeeps DEF RetryInv

\* A caller queues no retry.
LEMMA CallRetries ==
  IInv /\ IInv' /\ RetryInv
    /\ (\E op \in {"add", "start", "stop", "remove", "ensure"}, f \in Forwards : Call(op, f)) => RetryInv'
<1> SUFFICES ASSUME IInv, IInv', RetryInv,
                    NEW op \in {"add", "start", "stop", "remove", "ensure"}, NEW f \in Forwards, Call(op, f)
             PROVE  RetryInv'
  OBVIOUS
<1> DEFINE x == Op(op, f, entries[f], 0)
<1>1. /\ queue' = Append(queue, x) /\ x \in OpType /\ x.op # "retry"
      /\ UNCHANGED <<entries, made, ent, kids, waiting, resumes>>
      /\ queue \in Seq(OpType) /\ (waiting # None => queue # <<>>)
      /\ \A o \in Objects : ent[o].gen \in Nat
  BY DEF Call, Op, OpType, IInv, TypeOK, EntryType
<1> HIDE DEF x
<1>2. /\ queue' # <<>> /\ (queue # <<>> => Head(queue') = Head(queue))
      /\ \A i \in 1 .. Len(queue') : (i \in 1 .. Len(queue) /\ queue'[i] = queue[i]) \/ queue'[i] = x
  BY <1>1, Appended
<1>3. Outside
  BY <1>1, <1>2 DEF Outside, SameKid
<1>4. \A o, gen : Retries(queue', o, gen) = Retries(queue, o, gen)
  BY <1>1, RetriesAppend
<1>5. \A e, o : /\ NotDue(e, o, queue') <=> NotDue(e, o, queue)
                /\ CalmEntry(e, o, queue') <=> CalmEntry(e, o, queue)
  BY <1>4 DEF NotDue, CalmEntry
<1>6. ASSUME NEW i \in 1 .. Len(queue'), queue'[i].op = "retry"
      PROVE  queue'[i].gen <= ent'[queue'[i].obj].gen /\ queue'[i].obj <= made
  BY <1>1, <1>2, <1>6 DEF RetryInv, PastInv
<1>7. \A o \in Objects : \A gen \in ent'[o].timer : gen <= ent'[o].gen /\ o <= made
  BY <1>1 DEF RetryInv, PastInv
<1>8. resumes' \in Nat
  BY <1>1 DEF RetryInv, PastInv
<1>9. resumes' = 0 =>
        /\ resumes = 0
        /\ \A o \in Objects : CalmEntry(ent'[o], o, queue')
        /\ waiting # None => NotDue(ent'[Callee(Head(queue))], Callee(Head(queue)), queue')
  BY <1>1, <1>5 DEF RetryInv, AwakeInv
<1> QED
  BY <1>3, <1>6, <1>7, <1>8, <1>9, OutsideKeeps DEF RetryInv

\* The one retry of an entry moves from its timer to the queue, unless it is out of date.
LEMMA TimerFiresRetries ==
  IInv /\ IInv' /\ RetryInv /\ (\E o \in Objects : TimerFires(o)) => RetryInv'
<1> SUFFICES ASSUME IInv, IInv', RetryInv, NEW o \in Objects, TimerFires(o)
             PROVE  RetryInv'
  OBVIOUS
<1>1. /\ ent' = [ent EXCEPT ![o].timer = {}]
      /\ UNCHANGED <<entries, made, kids, waiting, resumes>>
      /\ ent \in [Objects -> EntryType] /\ queue \in Seq(OpType) /\ (waiting # None => queue # <<>>)
  BY DEF TimerFires, IInv, TypeOK
<1>2. PICK gen \in ent[o].timer :
        queue' = IF RetryValid(o, gen) THEN Append(queue, Op("retry", ent[o].fwd, o, gen)) ELSE queue
  BY DEF TimerFires
<1>3. /\ \A p \in Objects : /\ ent'[p].gen = ent[p].gen /\ ent[p].gen \in Nat
                            /\ p # o => ent'[p] = ent[p]
      /\ ent'[o].timer = {} /\ ent'[o].state = ent[o].state /\ ent'[o].child = ent[o].child
  BY <1>1 DEF EntryType
<1>4. /\ gen \in Nat /\ o <= made /\ gen <= ent[o].gen
  BY <1>1, <1>2 DEF EntryType, RetryInv, PastInv
<1>5. \A p \in Objects : \A g \in ent'[p].timer : g <= ent'[p].gen /\ p <= made
  BY <1>3 DEF RetryInv, PastInv
<1>6. resumes' \in Nat /\ resumes' = resumes
  BY <1>1 DEF RetryInv, PastInv
<1>7. \A i \in 1 .. Len(queue) : queue[i].op = "retry" =>
        queue[i].gen <= ent'[queue[i].obj].gen /\ queue[i].obj <= made
  <2> SUFFICES ASSUME NEW i \in 1 .. Len(queue), queue[i].op = "retry"
               PROVE  queue[i].gen <= ent'[queue[i].obj].gen /\ queue[i].obj <= made
    OBVIOUS
  <2>1. queue[i].gen <= ent[queue[i].obj].gen /\ queue[i].obj <= made
    BY DEF RetryInv, PastInv
  <2>2. queue[i].obj # None /\ queue[i] \in OpType
    BY DEF IInv, TypeOK, QueueInv
  <2>3. queue[i].obj \in Objects
    BY <2>2 DEF OpType
  <2> QED
    BY <1>3, <2>1, <2>3
<1>9. CASE ~RetryValid(o, gen)
  <2>1. queue' = queue
    BY <1>2, <1>9
  <2>2. Outside
    BY <1>1, <1>3, <2>1 DEF Outside, SameKid
  <2>3. ASSUME NEW p \in Objects
        PROVE  /\ NotDue(ent[p], p, queue) => NotDue(ent'[p], p, queue)
               /\ CalmEntry(ent[p], p, queue) => CalmEntry(ent'[p], p, queue)
    <3>1. CASE p # o
      BY <1>3, <3>1
    <3>2. CASE p = o
      BY <1>3, <3>2 DEF NotDue, CalmEntry
    <3> QED
      BY <3>1, <3>2
  <2>4. resumes' = 0 =>
          /\ resumes = 0
          /\ \A p \in Objects : CalmEntry(ent'[p], p, queue')
          /\ waiting # None => NotDue(ent'[Callee(Head(queue))], Callee(Head(queue)), queue')
    BY <1>6, <2>1, <2>3, CalleeIsEntry DEF RetryInv, AwakeInv
  <2> QED
    BY <1>5, <1>6, <1>7, <2>1, <2>2, <2>4, OutsideKeeps DEF RetryInv
<1>10. CASE RetryValid(o, gen)
  <2> DEFINE x == Op("retry", ent[o].fwd, o, gen)
  <2>1. /\ x \in OpType /\ x.op = "retry" /\ x.obj = o /\ x.gen = gen
        /\ queue' = Append(queue, x) /\ gen = ent[o].gen
    BY <1>1, <1>2, <1>4, <1>10 DEF Op, OpType, EntryType, RetryValid
  <2> HIDE DEF x
  <2>2. /\ queue' # <<>> /\ (queue # <<>> => Head(queue') = Head(queue))
        /\ \A i \in 1 .. Len(queue') : (i \in 1 .. Len(queue) /\ queue'[i] = queue[i]) \/ queue'[i] = x
    BY <2>1, Appended
  <2>3. Outside
    BY <1>1, <1>3, <2>2 DEF Outside, SameKid
  <2>4. ASSUME NEW i \in 1 .. Len(queue'), queue'[i].op = "retry"
        PROVE  queue'[i].gen <= ent'[queue'[i].obj].gen /\ queue'[i].obj <= made
    <3>1. CASE queue'[i] = x
      BY <1>3, <1>4, <2>1, <3>1
    <3>2. CASE i \in 1 .. Len(queue) /\ queue'[i] = queue[i]
      BY <1>7, <2>4, <3>2
    <3> QED
      BY <2>2, <3>1, <3>2
  <2>5. ASSUME NEW p \in Objects, p # o
        PROVE  /\ NotDue(ent'[p], p, queue') <=> NotDue(ent[p], p, queue)
               /\ CalmEntry(ent'[p], p, queue') <=> CalmEntry(ent[p], p, queue)
    <3>1. ent'[p] = ent[p]
      BY <1>3, <2>5
    <3>2. Retries(queue', p, ent[p].gen) = Retries(queue, p, ent[p].gen)
      BY <1>1, <2>1, <2>5, RetriesAppend
    <3> QED
      BY <3>1, <3>2 DEF NotDue, CalmEntry
  <2>6. ASSUME resumes = 0
        PROVE  CalmEntry(ent'[o], o, queue') /\ ~NotDue(ent[o], o, queue)
    <3>1. CalmEntry(ent[o], o, queue) /\ ~NotDue(ent[o], o, queue)
      BY <1>2, <2>1, <2>6 DEF RetryInv, AwakeInv, NotDue
    <3>2. ent[o].state = "reconnecting" /\ ent[o].child = None /\ Retries(queue, o, ent[o].gen) = {}
      BY <1>2, <2>1, <3>1 DEF CalmEntry
    <3>3. Retries(queue', o, ent[o].gen) \subseteq {Len(queue) + 1}
      BY <1>1, <2>1, <3>2, RetriesAppend
    <3>4. ent'[o].gen = ent[o].gen
      BY <1>3
    <3>5. CalmEntry(ent'[o], o, queue')
      BY <1>3, <3>2, <3>3, <3>4 DEF CalmEntry
    <3> QED
      BY <3>1, <3>5
  <2>7. resumes' = 0 =>
          /\ resumes = 0
          /\ \A p \in Objects : CalmEntry(ent'[p], p, queue')
          /\ waiting # None => NotDue(ent'[Callee(Head(queue))], Callee(Head(queue)), queue')
    <3> SUFFICES ASSUME resumes' = 0
                 PROVE  /\ resumes = 0
                        /\ \A p \in Objects : CalmEntry(ent'[p], p, queue')
                        /\ waiting # None => NotDue(ent'[Callee(Head(queue))], Callee(Head(queue)), queue')
      OBVIOUS
    <3>1. resumes = 0
      BY <1>6
    <3>2. \A p \in Objects : CalmEntry(ent'[p], p, queue')
      BY <2>5, <2>6, <3>1 DEF RetryInv, AwakeInv
    <3>3. ASSUME waiting # None
          PROVE  NotDue(ent'[Callee(Head(queue))], Callee(Head(queue)), queue')
      <4>1. /\ Callee(Head(queue)) \in Objects
            /\ NotDue(ent[Callee(Head(queue))], Callee(Head(queue)), queue)
        BY <3>1, <3>3, CalleeIsEntry DEF RetryInv, AwakeInv
      <4> QED
        BY <2>5, <2>6, <3>1, <4>1
    <3> QED
      BY <3>1, <3>2, <3>3
  <2> QED
    BY <1>5, <1>6, <2>3, <2>4, <2>7, OutsideKeeps DEF RetryInv
<1> QED
  BY <1>9, <1>10

------------------------------------------------------------------------------
\* Nothing is due when the forwards are restored.
LEMMA RetriesInitially == Init => RetryInv
<1> SUFFICES ASSUME Init
             PROVE  RetryInv
  OBVIOUS
<1>1. /\ queue = <<>> /\ waiting = None /\ resumes = 0
      /\ \A k \in Kids : ~kids[k].alive
  BY DEF Init
<1>2. \A o \in Objects : ent[o].timer = {}
  <2>4. PICK n \in 0 .. MaxEntries : \E fs \in [1 .. n -> Forwards], d \in [1 .. n -> Desires] :
          /\ \A o, p \in 1 .. n : fs[o] = fs[p] => o = p
          /\ made = n
          /\ entries = [f \in Forwards |->
               IF \E o \in 1 .. n : fs[o] = f THEN CHOOSE o \in 1 .. n : fs[o] = f ELSE None]
          /\ ent = [o \in Objects |->
               IF o <= n THEN Entry(fs[o], d[o], "stopped")
               ELSE Entry(CHOOSE f \in Forwards : TRUE, "stopped", "stopped")]
    BY Zenon DEF Init
  <2>1. PICK fs \in [1 .. n -> Forwards], d \in [1 .. n -> Desires] :
          /\ \A o, p \in 1 .. n : fs[o] = fs[p] => o = p
          /\ made = n
          /\ entries = [f \in Forwards |->
               IF \E o \in 1 .. n : fs[o] = f THEN CHOOSE o \in 1 .. n : fs[o] = f ELSE None]
          /\ ent = [o \in Objects |->
               IF o <= n THEN Entry(fs[o], d[o], "stopped")
               ELSE Entry(CHOOSE f \in Forwards : TRUE, "stopped", "stopped")]
    BY <2>4, Zenon
  <2>2. ASSUME NEW o \in Objects
        PROVE  \E f, des : ent[o] = Entry(f, des, "stopped")
    <3>1. ent[o] = IF o <= n THEN Entry(fs[o], d[o], "stopped")
                   ELSE Entry(CHOOSE f \in Forwards : TRUE, "stopped", "stopped")
      BY <2>1
    <3> QED
      BY <3>1, Zenon
  <2>3. \A f, des : Entry(f, des, "stopped").timer = {}
    BY DEF Entry, NoEntry
  <2> QED
    BY <2>2, <2>3
<1>3. Len(queue) = 0
  BY <1>1
<1>4. \A o, gen : Retries(queue, o, gen) = {}
  BY <1>3 DEF Retries
<1>5. \A o \in Objects : CalmEntry(ent[o], o, queue)
  BY <1>2, <1>4 DEF CalmEntry, NotDue
<1>6. PastInv
  BY <1>1, <1>2, <1>3 DEF PastInv
<1>7. AwakeInv
  BY <1>1, <1>5 DEF AwakeInv
<1> QED
  BY <1>6, <1>7 DEF RetryInv

\* Every step keeps the invariant of the retries.
LEMMA RetryStep == IInv /\ IInv' /\ RetryInv /\ [Next]_vars => RetryInv'
<1> SUFFICES ASSUME IInv, IInv', RetryInv, [Next]_vars
             PROVE  RetryInv'
  OBVIOUS
<1>1. CASE \E op \in {"add", "start", "stop", "remove", "ensure"}, f \in Forwards : Call(op, f)
  BY <1>1, CallRetries
<1>2. CASE RunOp \/ OpResumes
  <2>1. Effects
    BY <1>2, RunOpEffects, OpResumesEffects
  <2> QED
    BY <2>1, EffectsPast, EffectsAwake DEF RetryInv
<1>3. CASE \E k \in Kids : MarkActive(k)
  BY <1>3, MarkActiveRetries
<1>4. CASE \E k \in Kids, permanent \in BOOLEAN : KidExits(k, permanent)
  BY <1>4, KidExitsRetries
<1>5. CASE \E o \in Objects : Stable(o)
  BY <1>5, StableRetries
<1>6. CASE \E o \in Objects : TimerFires(o)
  BY <1>6, TimerFiresRetries
<1>7. CASE OnResume
  BY <1>7, OnResumeRetries
<1>8. CASE Shutdown
  BY <1>8, ShutdownRetries
<1>9. CASE UNCHANGED vars
  BY <1>9, StutterRetries
<1> QED
  BY <1>1, <1>2, <1>3, <1>4, <1>5, <1>6, <1>7, <1>8, <1>9 DEF Next

\* What PermanentStaysDown says of one step.
StaysDown ==
  resumes = 0 => \A o \in Objects :
    ent[o].state = "error" /\ ent'[o].child # ent[o].child /\ ent'[o].child # None
      => Head(queue).op \in {"add", "start"}

\* No step gives a child to an entry that failed for good, unless a caller asked for it.
LEMMA StepStaysDown == IInv /\ RetryInv /\ [Next]_vars => StaysDown
<1> SUFFICES ASSUME IInv, RetryInv, [Next]_vars
             PROVE  StaysDown
  OBVIOUS
<1>1. ent \in [Objects -> EntryType] /\ kids \in [Kids -> KidType]
  BY DEF IInv, TypeOK
<1>2. CASE RunOp \/ OpResumes
  <2>1. Effects
    BY <1>2, RunOpEffects, OpResumesEffects
  <2> SUFFICES ASSUME resumes = 0, NEW o \in Objects, ent[o].state = "error",
                      ent'[o].child \notin {ent[o].child, None}
               PROVE  Head(queue).op \in {"add", "start"}
    BY DEF StaysDown
  <2>2. ~RetriesNow(o)
    BY <2>1, RetryingNow DEF RetryInv, Effects
  <2>3. ~(waiting # None /\ Head(queue).op = "retry")
    BY DEF RetryInv, AwakeInv
  <2> QED
    BY <2>1, <2>2, <2>3 DEF Effects, ChildEffect
<1>3. ASSUME \A o \in Objects : ent'[o].child = ent[o].child \/ ent'[o].child = None
      PROVE  StaysDown
  BY <1>3 DEF StaysDown
<1>4. CASE \E op \in {"add", "start", "stop", "remove", "ensure"}, f \in Forwards : Call(op, f)
  BY <1>3, <1>4 DEF Call
<1>5. CASE \E k \in Kids : MarkActive(k)
  <2>1. PICK k \in Kids : ent' = [ent EXCEPT ![kids[k].obj].state = "active"]
    BY <1>5 DEF MarkActive
  <2>2. \A o \in Objects : ent'[o].child = ent[o].child
    BY <1>1, <2>1 DEF EntryType
  <2> QED
    BY <1>3, <2>2
<1>6. CASE \E k \in Kids, permanent \in BOOLEAN : KidExits(k, permanent)
  <2>1. PICK k \in Kids, permanent \in BOOLEAN :
          /\ kids[k].alive
          /\ ent' = ent \/ ent' = [ent EXCEPT ![kids[k].obj] = Settled(@, permanent)]
    BY <1>6 DEF KidExits, Alive
  <2>2. kids[k].obj \in Objects /\ ent[kids[k].obj] \in EntryType
    BY <1>1, <2>1 DEF KidType
  <2>3. Settled(ent[kids[k].obj], permanent).child = None
    BY <2>2, SettledTypes
  <2>4. \A o \in Objects : ent'[o].child = ent[o].child \/ ent'[o].child = None
    BY <1>1, <2>1, <2>2, <2>3
  <2> QED
    BY <1>3, <2>4
<1>7. CASE \E o \in Objects : Stable(o) \/ TimerFires(o)
  <2>1. PICK o \in Objects : ent' = [ent EXCEPT ![o].attempt = 0] \/ ent' = [ent EXCEPT ![o].timer = {}]
    BY <1>7 DEF Stable, TimerFires
  <2>2. \A p \in Objects : ent'[p].child = ent[p].child
    BY <1>1, <2>1 DEF EntryType
  <2> QED
    BY <1>3, <2>2
<1>8. CASE OnResume
  <2> SUFFICES ASSUME NEW o \in Objects
               PROVE  ent'[o].child = ent[o].child
    BY <1>3
  <2>1. ent'[o] = ent[o] \/ ent'[o] = Armed(Unarmed(ent[o]))
    BY <1>8 DEF OnResume
  <2>2. ent[o] \in EntryType
    BY <1>1
  <2>3. Unarmed(ent[o]) \in EntryType /\ Unarmed(ent[o]).child = ent[o].child
    BY <2>2, UnarmedTypes
  <2>4. Armed(Unarmed(ent[o])).child = ent[o].child
    BY <2>3, ArmedTypes
  <2> QED
    BY <2>1, <2>4
<1>9. CASE Shutdown
  <2> SUFFICES ASSUME NEW o \in Objects
               PROVE  ent'[o].child = ent[o].child
    BY <1>3
  <2>1. ent'[o] = ent[o] \/ ent'[o] = [Unarmed(ent[o]) EXCEPT !.gen = @ + 1]
    BY <1>9 DEF Shutdown
  <2>2. Unarmed(ent[o]) \in EntryType /\ Unarmed(ent[o]).child = ent[o].child
    BY <1>1, UnarmedTypes
  <2>3. [Unarmed(ent[o]) EXCEPT !.gen = @ + 1].child = Unarmed(ent[o]).child
    BY <2>2 DEF EntryType
  <2> QED
    BY <2>1, <2>2, <2>3
<1>10. CASE UNCHANGED vars
  BY <1>3, <1>10 DEF vars
<1> QED
  BY <1>2, <1>4, <1>5, <1>6, <1>7, <1>8, <1>9, <1>10 DEF Next

\* A child that failed for good is not replaced by a retry, however late: while the
\* machine stays awake only add() and start() give its entry a new one.
THEOREM PermanentIsDown == Spec => PermanentStaysDown
<1>1. RetryInv /\ IInv /\ IInv' /\ [Next]_vars => RetryInv'
  BY RetryStep
<1>2. IInv /\ RetryInv /\ [Next]_vars => StaysDown
  BY StepStaysDown
<1>3. Spec => []IInv
  BY Invariant
<1>4. Spec => []RetryInv
  BY <1>1, <1>3, RetriesInitially, PTL DEF Spec
<1>5. Spec => [][StaysDown]_vars
  BY <1>2, <1>3, <1>4, PTL DEF Spec
<1> QED
  BY <1>5 DEF PermanentStaysDown, StaysDown
==============================================================================
