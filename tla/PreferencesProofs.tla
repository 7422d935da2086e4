--------------------------- MODULE PreferencesProofs ---------------------------
(***************************************************************************)
(* Proofs about Preferences, for every set of keys, every number of calls, *)
(* of bindings and of failed writes.  The invariant is inductive in five   *)
(* parts: the types, the life of the binding (LifeInv), the chain of       *)
(* writes (ChainInv), what the stored data covers while the storage leaves *)
(* only in calm (CalmInv, CoverInv), and what the listeners heard          *)
(* (HeardInv).                                                             *)
(***************************************************************************)
EXTENDS Preferences, SequenceTheorems, TLAPS

Values == Nat \cup {None}
Data == [Keys -> Values]
States == [data : Data, dirty : BOOLEAN]
Writes == [state : Nat, of : SUBSET Nat]
Calls == [key : Keys, value : Values, at : {"saving", "done", "failed"}, bound : BOOLEAN]
Facades == [values : Data, authored : SUBSET Keys, hydrated : SUBSET Keys, hasBound : BOOLEAN,
            handle : Nat \cup {None}, life : {"away", "opening", "read", "bound", "closing"},
            image : Data]
Envs == [calm : BOOLEAN, binds : Nat, faults : Nat, swaps : Nat]

Types ==
  /\ file \in Data /\ heap \in Seq(States)
  /\ store \in Nat \cup {None} /\ (store # None => store \in 1 .. Len(heap))
  /\ writes \in Seq(Writes)
  /\ \A i \in 1 .. Len(writes) : writes[i].state \in 1 .. Len(heap)
  /\ io \in Data \cup {None}
  /\ mem \in Facades
  /\ ops \in Seq(Calls) /\ told \in Data
  /\ env \in Envs

\* The facade holds a handle exactly while it is bound, to the state the storage
\* has of the file.
LifeInv ==
  /\ mem.life = "bound" => mem.handle = store /\ store # None
  /\ mem.life # "bound" => mem.handle = None
  /\ mem.life = "opening" => store = None

\* The chain holds a write for every call that waits, in the order of the calls,
\* and for a close(), which comes last.
ChainInv ==
  /\ io # None => writes # <<>>
  /\ \A i \in 1 .. Len(writes) : \E n \in Saving \cup {0} : writes[i].of = {n}
  /\ \A i \in 1 .. Len(writes) : 0 \in writes[i].of => mem.life = "closing" /\ i = Len(writes)
  /\ \A n \in Saving : \E i \in 1 .. Len(writes) : writes[i].of = {n}
  /\ \A i, j \in 1 .. Len(writes) : \A a \in writes[i].of, b \in writes[j].of :
       i < j => a < b \/ b = 0

\* In calm, a storage that left has no write pending but the one of its close().
CalmInv ==
  env.calm =>
    /\ mem.life \in {"away", "opening", "read"} => writes = <<>>
    /\ mem.life # "bound" => Saving = {}
    /\ \A i \in 1 .. Len(writes) : writes[i].state = store /\ store # None

\* data holds what the n-th call wrote, or what a later call for its key did.
Covers(calls, data, n) ==
  \E m \in n .. Len(calls) :
    calls[m].key = calls[n].key /\ data[calls[n].key] = calls[m].value

DoneBound == {n \in DOMAIN ops : ops[n].bound /\ ops[n].at = "done"}

\* Every copy of the settings, in the file, in the state the storage keeps, in
\* what a write under way writes and in what open() has read, covers the calls
\* that resolved; the kept state covers the waiting calls too, and the write
\* under way the one it resolves.
CoverInv ==
  env.calm /\ env.swaps = 0 =>
    /\ \A n \in DoneBound : Covers(ops, file, n)
    /\ store # None => \A n \in DoneBound \cup Saving : Covers(ops, heap[store].data, n)
    /\ io # None => \A n \in DoneBound \cup (Head(writes).of \ {0}) : Covers(ops, io, n)
    /\ mem.life = "read" /\ store = None => mem.image = file

\* The n-th call is the last for its key.
LastOf(calls, n) == \A m \in n + 1 .. Len(calls) : calls[m].key # calls[n].key

\* In calm, behind a call that waits every other one waits too; the last call for a
\* key, while it waits, has set the value get() returns; and the listeners heard
\* that value of every key whose last call resolved.
HeardInv ==
  env.calm =>
    /\ \A n \in Saving : \A m \in n .. Len(ops) : ops[m].at = "saving"
    /\ \A n \in Saving : LastOf(ops, n) => ops[n].value = mem.values[ops[n].key]
    /\ \A k \in Keys : LastResolved(k) => told[k] = mem.values[k]

IInv == Types /\ LifeInv /\ ChainInv /\ CalmInv /\ CoverInv /\ HeardInv

------------------------------------------------------------------------------
(* Sequences and what a resolved write changes.                              *)

\* A function on 1 .. n with values in S is a sequence over S of length n.
LEMMA FunctionIsSeq ==
  ASSUME NEW S, NEW n \in Nat, NEW f \in [1 .. n -> S]
  PROVE  f \in Seq(S) /\ Len(f) = n
<1>1. f \in Seq(S)
  BY SeqDef
<1>2. DOMAIN f = 1 .. Len(f) /\ Len(f) \in Nat /\ DOMAIN f = 1 .. n
  BY <1>1, LenProperties
<1> QED
  BY <1>1, <1>2

\* The domains of the three sequences, and what the first write is.
LEMMA Domains ==
  ASSUME Types
  PROVE  /\ DOMAIN ops = 1 .. Len(ops) /\ Len(ops) \in Nat
         /\ DOMAIN heap = 1 .. Len(heap) /\ Len(heap) \in Nat
         /\ Len(writes) \in Nat
         /\ \A n \in 1 .. Len(ops) : ops[n] \in Calls
         /\ \A s \in 1 .. Len(heap) : heap[s] \in States /\ heap[s].data \in Data
         /\ \A i \in 1 .. Len(writes) : writes[i] \in Writes
         /\ writes # <<>> => /\ Len(writes) >= 1 /\ Head(writes) = writes[1]
                             /\ Tail(writes) \in Seq(Writes)
                             /\ Len(Tail(writes)) = Len(writes) - 1
                             /\ \A i \in 1 .. Len(writes) - 1 : Tail(writes)[i] = writes[i + 1]
         /\ Saving \subseteq 1 .. Len(ops)
<1>1. /\ DOMAIN ops = 1 .. Len(ops) /\ Len(ops) \in Nat
      /\ DOMAIN heap = 1 .. Len(heap) /\ Len(heap) \in Nat
      /\ Len(writes) \in Nat
  BY LenProperties DEF Types
<1>2. /\ \A n \in 1 .. Len(ops) : ops[n] \in Calls
      /\ \A s \in 1 .. Len(heap) : heap[s] \in States
      /\ \A i \in 1 .. Len(writes) : writes[i] \in Writes
  BY ElementOfSeq DEF Types
<1>3. \A s \in 1 .. Len(heap) : heap[s].data \in Data
  BY <1>2 DEF States
<1>4. ASSUME writes # <<>>
      PROVE  /\ Len(writes) >= 1 /\ Head(writes) = writes[1]
             /\ Tail(writes) \in Seq(Writes)
             /\ Len(Tail(writes)) = Len(writes) - 1
             /\ \A i \in 1 .. Len(writes) - 1 : Tail(writes)[i] = writes[i + 1]
  BY <1>4, HeadTailProperties, EmptySeq DEF Types
<1> QED
  BY <1>1, <1>2, <1>3, <1>4 DEF Saving

\* A write that ends resolves the one call it was queued for, or close().
LEMMA ResolvesOne ==
  ASSUME Types, NEW n \in Saving \cup {0}, NEW ok \in BOOLEAN, Resolved({n}, ok)
  PROVE  LET heard == ok /\ mem.handle # None
             at == IF heard THEN "done" ELSE "failed"
         IN  /\ ops' \in Seq(Calls) /\ Len(ops') = Len(ops)
             /\ \A m \in 1 .. Len(ops) :
                  ops'[m] = IF m = n THEN [ops[m] EXCEPT !.at = at] ELSE ops[m]
             /\ Saving' = Saving \ {n}
             /\ told' = IF n # 0 /\ heard THEN [told EXCEPT ![ops[n].key] = ops[n].value]
                        ELSE told
             /\ mem' = IF n = 0 THEN [mem EXCEPT !.life = "away"] ELSE mem
             /\ store' = IF n = 0 /\ ok THEN None ELSE store
<1> DEFINE heard == ok /\ mem.handle # None
           at == IF heard THEN "done" ELSE "failed"
           calls == {n} \ {0}
<1>1. /\ Len(ops) \in Nat /\ DOMAIN ops = 1 .. Len(ops) /\ Saving \subseteq 1 .. Len(ops)
      /\ \A m \in 1 .. Len(ops) : ops[m] \in Calls
  BY Domains
<1>2. calls = IF n = 0 THEN {} ELSE {n}
  OBVIOUS
<1>3. ops' = [m \in 1 .. Len(ops) |-> IF m \in calls THEN [ops[m] EXCEPT !.at = at] ELSE ops[m]]
  BY <1>1 DEF Resolved
<1>4. \A m \in 1 .. Len(ops) :
        ops'[m] = IF m = n THEN [ops[m] EXCEPT !.at = at] ELSE ops[m]
  BY <1>2, <1>3
<1>5. ops' \in [1 .. Len(ops) -> Calls]
  <2>1. \A m \in 1 .. Len(ops) : [ops[m] EXCEPT !.at = at] \in Calls
    BY <1>1 DEF Calls
  <2> QED
    BY <1>1, <1>3, <2>1
<1>6. ops' \in Seq(Calls) /\ Len(ops') = Len(ops) /\ DOMAIN ops' = 1 .. Len(ops)
  BY <1>1, <1>5, FunctionIsSeq
<1>7. Saving' = Saving \ {n}
  <2>1. \A m \in 1 .. Len(ops) : m # n => (ops'[m].at = "saving" <=> ops[m].at = "saving")
    BY <1>4
  <2>2. n \in 1 .. Len(ops) => ops'[n].at # "saving"
    BY <1>4, <1>1 DEF Calls
  <2> QED
    BY <1>1, <1>6, <2>1, <2>2 DEF Saving
<1>8. told' = IF n # 0 /\ heard THEN [told EXCEPT ![ops[n].key] = ops[n].value] ELSE told
  <2>1. told' = [k \in Keys |->
                  IF heard /\ \E m \in calls : ops[m].key = k
                    THEN ops[CHOOSE m \in calls : ops[m].key = k].value ELSE told[k]]
    BY DEF Resolved
  <2>2. told = [k \in Keys |-> told[k]]
    BY DEF Types, Data
  <2>3. CASE n = 0
    BY <2>1, <2>2, <2>3, <1>2
  <2>4. CASE n # 0
    <3>1. \A k \in Keys : (\E m \in calls : ops[m].key = k) <=> ops[n].key = k
      BY <1>2, <2>4
    <3>2. \A k \in Keys : ops[n].key = k => (CHOOSE m \in calls : ops[m].key = k) = n
      BY <1>2, <2>4
    <3> QED
      BY <2>1, <2>2, <2>4, <3>1, <3>2
  <2> QED
    BY <2>3, <2>4
<1>9. /\ mem' = IF n = 0 THEN [mem EXCEPT !.life = "away"] ELSE mem
      /\ store' = IF n = 0 /\ ok THEN None ELSE store
  BY DEF Resolved
<1> QED
  BY <1>4, <1>6, <1>7, <1>8, <1>9

\* What covered a call still covers it when calls end or new ones are made.
LEMMA CoversKept ==
  ASSUME NEW before \in Seq(Calls), NEW after \in Seq(Calls), NEW data,
         Len(before) <= Len(after),
         \A m \in 1 .. Len(before) : /\ after[m].key = before[m].key
                                     /\ after[m].value = before[m].value,
         NEW n \in 1 .. Len(before), Covers(before, data, n)
  PROVE  Covers(after, data, n)
<1>1. Len(before) \in Nat /\ Len(after) \in Nat
  BY LenProperties
<1>2. PICK m \in n .. Len(before) :
        before[m].key = before[n].key /\ data[before[n].key] = before[m].value
  BY DEF Covers
<1>3. m \in 1 .. Len(before) /\ m \in n .. Len(after)
  BY <1>1, <1>2
<1> QED
  BY <1>2, <1>3 DEF Covers

\* The call the write under way resolves: 0 for close(), else the first that waits.
LEMMA HeadResolves ==
  ASSUME Types, ChainInv, writes # <<>>
  PROVE  \E n \in Saving \cup {0} :
           /\ Head(writes).of = {n}
           /\ n = 0 => mem.life = "closing" /\ Len(writes) = 1
           /\ n # 0 => \A m \in Saving : n <= m
           /\ \A i \in 2 .. Len(writes) : n \notin writes[i].of
           /\ \A i \in 2 .. Len(writes) : writes[i].of \subseteq Nat
<1>1. /\ Len(writes) \in Nat /\ Len(writes) >= 1 /\ Head(writes) = writes[1]
      /\ Saving \subseteq 1 .. Len(ops) /\ Len(ops) \in Nat
  BY Domains
<1>a. /\ \A i \in 1 .. Len(writes) : \E n \in Saving \cup {0} : writes[i].of = {n}
      /\ \A i \in 1 .. Len(writes) : 0 \in writes[i].of =>
           mem.life = "closing" /\ i = Len(writes)
      /\ \A n \in Saving : \E i \in 1 .. Len(writes) : writes[i].of = {n}
  BY DEF ChainInv
<1>b. ASSUME NEW i \in 1 .. Len(writes), NEW j \in 1 .. Len(writes), i < j,
             NEW a, NEW b, writes[i].of = {a}, writes[j].of = {b}
      PROVE  a < b \/ b = 0
  BY <1>b DEF ChainInv
<1>c. 1 \in 1 .. Len(writes)
  BY <1>1
<1>2. PICK n \in Saving \cup {0} : writes[1].of = {n}
  BY <1>a, <1>c
<1>3. n = 0 => mem.life = "closing" /\ Len(writes) = 1
  BY <1>a, <1>c, <1>2
<1>4. ASSUME n # 0, NEW m \in Saving
      PROVE  n <= m
  <2>1. PICK i \in 1 .. Len(writes) : writes[i].of = {m}
    BY <1>a
  <2>2. i = 1 \/ 1 < i
    OBVIOUS
  <2>3. 1 < i => n < m \/ m = 0
    BY <1>b, <1>c, <1>2, <2>1
  <2>4. m \in Nat \ {0} /\ n \in Nat
    BY <1>1
  <2> QED
    BY <1>2, <2>1, <2>2, <2>3, <2>4
<1>5. ASSUME NEW i \in 2 .. Len(writes)
      PROVE  n \notin writes[i].of /\ writes[i].of \subseteq Nat
  <2>a. i \in 1 .. Len(writes) /\ 1 < i /\ Len(writes) > 1
    BY <1>1
  <2>1. PICK b \in Saving \cup {0} : writes[i].of = {b}
    BY <1>a, <2>a
  <2>2. n < b \/ b = 0
    BY <1>b, <1>c, <1>2, <2>1, <2>a
  <2>3. n # 0
    <3>1. n = 0 => Len(writes) = 1
      BY <1>3
    <3> QED
      BY <2>a, <3>1
  <2>4. b \in Nat /\ n \in Nat
    BY <1>1
  <2> QED
    BY <2>1, <2>2, <2>3, <2>4
<1> QED
  BY <1>1, <1>2, <1>3, <1>4, <1>5

------------------------------------------------------------------------------
(* The steps of the storage.                                                 *)

\* The first write of the chain begins.
LEMMA WriteStartsStep ==
  ASSUME IInv, WriteStarts
  PROVE  IInv'
<1>1. /\ writes # <<>> /\ io = None /\ io' = heap[Head(writes).state].data
      /\ UNCHANGED <<file, heap, store, writes, mem, ops, told, env>>
  BY DEF WriteStarts
<1>2. Types /\ LifeInv /\ ChainInv /\ CalmInv /\ CoverInv /\ HeardInv
  BY DEF IInv
<1>3. /\ Len(writes) \in Nat /\ Len(writes) >= 1 /\ Head(writes) = writes[1]
      /\ \A s \in 1 .. Len(heap) : heap[s].data \in Data
      /\ Saving \subseteq 1 .. Len(ops)
  BY <1>1, <1>2, Domains
<1>4. Saving' = Saving
  BY <1>1 DEF Saving
<1>5. Types'
  BY <1>1, <1>2, <1>3 DEF Types
<1>6. LifeInv'
  BY <1>1, <1>2 DEF LifeInv
<1>7. ChainInv'
  BY <1>1, <1>2, <1>4 DEF ChainInv
<1>8. CalmInv'
  BY <1>1, <1>2, <1>4 DEF CalmInv
<1>9. CoverInv'
  <2> SUFFICES ASSUME env.calm, env.swaps = 0
               PROVE  \A n \in DoneBound \cup (Head(writes).of \ {0}) : Covers(ops, io', n)
    BY <1>1, <1>2, <1>4 DEF CoverInv, DoneBound
  <2>1. Head(writes).state = store /\ store # None
    BY <1>2, <1>3 DEF CalmInv
  <2>2. PICK n \in Saving \cup {0} : Head(writes).of = {n}
    BY <1>1, <1>2, HeadResolves
  <2>3. Head(writes).of \ {0} \subseteq Saving
    BY <2>2
  <2> QED
    BY <1>1, <1>2, <2>1, <2>3 DEF CoverInv
<1>10. HeardInv'
  BY <1>1, <1>2, <1>4 DEF HeardInv, LastResolved
<1> QED
  BY <1>5, <1>6, <1>7, <1>8, <1>9, <1>10 DEF IInv

\* A write ends, and its call with it, in the file if ok.
LEMMA WriteEnds ==
  ASSUME IInv, NEW ok \in BOOLEAN, io # None, io' = None, writes' = Tail(writes),
         Resolved(Head(writes).of, ok),
         file' = IF ok THEN io ELSE file,
         heap' \in Seq(States), Len(heap') = Len(heap),
         \A s \in 1 .. Len(heap) : heap'[s].data = heap[s].data,
         env' \in Envs,
         env'.calm = env.calm, env'.swaps = env.swaps,
         env'.faults = 0 => env.faults = 0 /\ ok
  PROVE  IInv'
<1>1. Types /\ LifeInv /\ ChainInv /\ CalmInv /\ CoverInv /\ HeardInv
  BY DEF IInv
<1>2. writes # <<>>
  BY <1>1 DEF ChainInv
<1>3. PICK n \in Saving \cup {0} :
           /\ Head(writes).of = {n}
           /\ n = 0 => mem.life = "closing" /\ Len(writes) = 1
           /\ n # 0 => \A m \in Saving : n <= m
           /\ \A i \in 2 .. Len(writes) : n \notin writes[i].of
           /\ \A i \in 2 .. Len(writes) : writes[i].of \subseteq Nat
  BY <1>1, <1>2, HeadResolves
<1>4. /\ DOMAIN ops = 1 .. Len(ops) /\ Len(ops) \in Nat /\ Len(heap) \in Nat
      /\ Len(writes) \in Nat /\ Len(writes) >= 1 /\ Head(writes) = writes[1]
      /\ Tail(writes) \in Seq(Writes)
      /\ Len(Tail(writes)) = Len(writes) - 1
      /\ \A i \in 1 .. Len(writes) - 1 : Tail(writes)[i] = writes[i + 1]
      /\ Saving \subseteq 1 .. Len(ops)
  BY <1>1, <1>2, Domains
<1>5. ~(0 \in Saving) /\ None \notin Nat
  BY <1>4, PreferencesAssumption
<1> DEFINE heard == ok /\ mem.handle # None
           at == IF heard THEN "done" ELSE "failed"
<1>6. /\ ops' \in Seq(Calls) /\ Len(ops') = Len(ops)
      /\ \A m \in 1 .. Len(ops) :
           ops'[m] = IF m = n THEN [ops[m] EXCEPT !.at = at] ELSE ops[m]
      /\ Saving' = Saving \ {n}
      /\ told' = IF n # 0 /\ heard THEN [told EXCEPT ![ops[n].key] = ops[n].value] ELSE told
      /\ mem' = IF n = 0 THEN [mem EXCEPT !.life = "away"] ELSE mem
      /\ store' = IF n = 0 /\ ok THEN None ELSE store
  <2>1. Resolved({n}, ok)
    BY <1>3
  <2> QED
    BY <1>1, <2>1, ResolvesOne
<1>7. ASSUME NEW m \in 1 .. Len(ops)
      PROVE  /\ ops[m] \in Calls
             /\ ops'[m].key = ops[m].key /\ ops'[m].value = ops[m].value
             /\ ops'[m].bound = ops[m].bound
             /\ m # n => ops'[m].at = ops[m].at
             /\ m = n => ops'[m].at = at
  <2>1. ops[m] \in Calls
    BY <1>1, Domains
  <2>2. CASE m = n
    BY <2>1, <2>2, <1>6 DEF Calls
  <2>3. CASE m # n
    BY <2>1, <2>3, <1>6
  <2> QED
    BY <2>1, <2>2, <2>3
<1>8. Types'
  <2>1. file' \in Data /\ io' \in Data \cup {None}
    BY <1>1 DEF Types
  <2>2. store' \in Nat \cup {None} /\ (store' # None => store' \in 1 .. Len(heap'))
    BY <1>1, <1>6 DEF Types
  <2>3. writes' \in Seq(Writes)
        /\ \A i \in 1 .. Len(writes') : writes'[i].state \in 1 .. Len(heap')
    <3>1. \A i \in 1 .. Len(writes') : i + 1 \in 1 .. Len(writes) /\ writes'[i] = writes[i + 1]
      BY <1>4
    <3> QED
      BY <1>1, <1>4, <3>1 DEF Types
  <2>4. /\ mem' \in Facades
    BY <1>1, <1>6 DEF Types, Facades
  <2>5. told' \in Data
    <3>1. n # 0 => ops[n] \in Calls
      BY <1>3, <1>4, <1>7
    <3> QED
      BY <1>1, <1>6, <3>1 DEF Types, Data, Calls
  <2> QED
    BY <1>6, <2>1, <2>2, <2>3, <2>4, <2>5 DEF Types
<1>9. mem'.handle = mem.handle /\ mem'.values = mem.values
      /\ mem'.life = IF n = 0 THEN "away" ELSE mem.life
  BY <1>1, <1>6 DEF Types
<1>10. LifeInv'
  BY <1>1, <1>3, <1>6, <1>9 DEF LifeInv
<1>11. ChainInv'
  <2>1. \A i \in 1 .. Len(writes') : /\ i + 1 \in 1 .. Len(writes) /\ i + 1 \in 2 .. Len(writes)
                                     /\ writes'[i] = writes[i + 1]
    BY <1>4
  <2>2. ASSUME NEW i \in 1 .. Len(writes')
        PROVE  /\ \E m \in Saving' \cup {0} : writes'[i].of = {m}
               /\ 0 \in writes'[i].of => mem'.life = "closing" /\ i = Len(writes')
    <3>1. PICK m \in Saving \cup {0} : writes[i + 1].of = {m}
      BY <1>1, <2>1 DEF ChainInv
    <3>2. m # n
      BY <1>3, <2>1, <3>1
    <3>3. n # 0
      BY <1>3, <1>4
    <3>4. 0 \in writes[i + 1].of => mem.life = "closing" /\ i + 1 = Len(writes)
      BY <1>1, <2>1 DEF ChainInv
    <3>5. m \in Saving' \cup {0} /\ writes'[i].of = {m}
      BY <1>6, <2>1, <3>1, <3>2
    <3>6. 0 \in writes'[i].of => mem'.life = "closing" /\ i = Len(writes')
      <4>1. 0 \in writes[i + 1].of => i = Len(writes')
        BY <1>4, <3>4
      <4> QED
        BY <1>9, <2>1, <3>3, <3>4, <4>1
    <3> QED
      BY <3>5, <3>6
  <2>3. ASSUME NEW m \in Saving'
        PROVE  \E i \in 1 .. Len(writes') : writes'[i].of = {m}
    <3>1. PICK i \in 1 .. Len(writes) : writes[i].of = {m}
      BY <1>1, <1>6 DEF ChainInv
    <3>2. i # 1
      BY <1>3, <1>4, <1>6, <3>1
    <3>3. i - 1 \in 1 .. Len(writes') /\ writes'[i - 1] = writes[i]
      BY <1>4, <3>2
    <3> QED
      BY <3>1, <3>3
  <2>4. ASSUME NEW i \in 1 .. Len(writes'), NEW j \in 1 .. Len(writes'),
               NEW a \in writes'[i].of, NEW b \in writes'[j].of, i < j
        PROVE  a < b \/ b = 0
    <3>1. i + 1 < j + 1
      BY <2>4
    <3> QED
      BY <1>1, <2>1, <3>1 DEF ChainInv
  <2> QED
    BY <2>2, <2>3, <2>4 DEF ChainInv
<1>12. CalmInv'
  <2> SUFFICES ASSUME env.calm
               PROVE  /\ mem'.life \in {"away", "opening", "read"} => writes' = <<>>
                      /\ mem'.life # "bound" => Saving' = {}
                      /\ \A i \in 1 .. Len(writes') : writes'[i].state = store' /\ store' # None
    BY DEF CalmInv
  <2>1. /\ mem.life \in {"away", "opening", "read"} => writes = <<>>
        /\ mem.life # "bound" => Saving = {}
        /\ \A i \in 1 .. Len(writes) : writes[i].state = store /\ store # None
    BY <1>1 DEF CalmInv
  <2>2. CASE n = 0
    <3>1. Len(writes') = 0
      BY <1>3, <1>4, <2>2
    <3>2. writes' = <<>>
      BY <1>4, <3>1, EmptySeq
    <3> QED
      BY <1>3, <1>6, <2>1, <2>2, <3>1, <3>2
  <2>3. CASE n # 0
    <3>1. \A i \in 1 .. Len(writes') : i + 1 \in 1 .. Len(writes) /\ writes'[i] = writes[i + 1]
      BY <1>4
    <3> QED
      BY <1>2, <1>6, <1>9, <2>1, <2>3, <3>1
  <2> QED
    BY <2>2, <2>3
<1>13. CoverInv'
  <2> SUFFICES ASSUME env.calm, env.swaps = 0
               PROVE  CoverInv'
    BY DEF CoverInv
  <2>1. /\ \A m \in DoneBound : Covers(ops, file, m)
        /\ store # None => \A m \in DoneBound \cup Saving : Covers(ops, heap[store].data, m)
        /\ \A m \in DoneBound \cup ({n} \ {0}) : Covers(ops, io, m)
    BY <1>1, <1>3 DEF CoverInv
  <2>2. ASSUME NEW m \in 1 .. Len(ops), NEW data, Covers(ops, data, m)
        PROVE  Covers(ops', data, m)
    <3>1. ops \in Seq(Calls) /\ ops' \in Seq(Calls) /\ Len(ops) <= Len(ops')
      BY <1>1, <1>4, <1>6 DEF Types
    <3>2. \A l \in 1 .. Len(ops) : ops'[l].key = ops[l].key /\ ops'[l].value = ops[l].value
      BY <1>7
    <3> QED
      BY <2>2, <3>1, <3>2, CoversKept
  <2>a. /\ DoneBound' \subseteq DoneBound \cup (IF ok THEN {n} \ {0} ELSE {})
        /\ DoneBound' \subseteq 1 .. Len(ops) /\ DoneBound' \subseteq DoneBound \cup Saving
    <3>1. DOMAIN ops' = 1 .. Len(ops) /\ DOMAIN ops = 1 .. Len(ops)
      BY <1>4, <1>6, LenProperties
    <3>2. \A m \in DoneBound' : m # n => m \in DoneBound
      BY <1>7, <3>1 DEF DoneBound
    <3>3. n \in DoneBound' => ok /\ n # 0 /\ n \in Saving
      BY <1>3, <1>7, <3>1 DEF DoneBound
    <3> QED
      BY <3>1, <3>2, <3>3 DEF DoneBound
  <2>3. ASSUME NEW m \in DoneBound'
        PROVE  Covers(ops', file', m)
    <3>1. Covers(ops, file', m)
      BY <2>1, <2>a
    <3> QED
      BY <2>2, <2>a, <3>1
  <2>4. ASSUME store' # None, NEW m \in DoneBound' \cup Saving'
        PROVE  Covers(ops', heap'[store'].data, m)
    <3>1. store' = store /\ store \in 1 .. Len(heap)
      BY <1>1, <1>6, <2>4 DEF Types
    <3>2. m \in DoneBound \cup Saving /\ m \in 1 .. Len(ops)
      BY <1>4, <1>6, <2>4, <2>a
    <3>3. Covers(ops, heap[store].data, m)
      BY <2>1, <2>4, <3>1, <3>2
    <3>4. heap'[store'].data = heap[store].data
      BY <3>1
    <3>5. Covers(ops, heap'[store'].data, m)
      BY <3>3, <3>4
    <3> QED
      BY <2>2, <3>2, <3>5
  <2>5. ~(mem'.life = "read")
    BY <1>1, <1>2, <1>9 DEF CalmInv
  <2> QED
    BY <1>6, <2>3, <2>4, <2>5 DEF CoverInv
<1>14. HeardInv'
  <2> SUFFICES ASSUME env.calm
               PROVE  HeardInv'
    BY DEF HeardInv
  <2>1. /\ \A m \in Saving : \A l \in m .. Len(ops) : ops[l].at = "saving"
        /\ \A m \in Saving : LastOf(ops, m) => ops[m].value = mem.values[ops[m].key]
        /\ \A k \in Keys : LastResolved(k) => told[k] = mem.values[k]
    BY <1>1 DEF HeardInv
  <2>2. DOMAIN ops' = 1 .. Len(ops) /\ DOMAIN ops = 1 .. Len(ops)
    BY <1>4, <1>6, LenProperties
  <2>3. ASSUME NEW m \in Saving', NEW l \in m .. Len(ops')
        PROVE  ops'[l].at = "saving"
    <3>1. m \in Saving /\ m # n /\ l \in m .. Len(ops) /\ m \in 1 .. Len(ops)
      BY <1>4, <1>6
    <3>2. l # n /\ l \in 1 .. Len(ops)
      BY <1>3, <1>4, <1>5, <3>1
    <3> QED
      BY <1>7, <2>1, <3>1, <3>2
  <2>4. ASSUME NEW m \in Saving', LastOf(ops', m)
        PROVE  ops'[m].value = mem'.values[ops'[m].key]
    <3>1. m \in Saving /\ m \in 1 .. Len(ops)
      BY <1>4, <1>6
    <3>2. LastOf(ops, m)
      BY <1>4, <1>6, <1>7, <2>4, <3>1 DEF LastOf
    <3> QED
      BY <1>7, <1>9, <2>1, <3>1, <3>2
  <2>5. ASSUME NEW k \in Keys, LastResolved(k)'
        PROVE  told'[k] = mem'.values[k]
    <3>1. ASSUME NEW m \in 1 .. Len(ops), ops[m].key = k
          PROVE  \E l \in m .. Len(ops) :
                   l \in 1 .. Len(ops) /\ ops[l].key = k /\ ops'[l].at = "done"
      <4>1. ops'[m].key = k /\ m \in DOMAIN ops'
        BY <1>7, <2>2, <3>1
      <4>2. PICK l \in m .. Len(ops') : ops'[l].key = k /\ ops'[l].at = "done"
        BY <2>5, <4>1 DEF LastResolved
      <4>3. l \in m .. Len(ops) /\ l \in 1 .. Len(ops)
        BY <1>4, <1>6
      <4> QED
        BY <1>7, <4>2, <4>3
    <3>2. CASE n # 0 /\ ops[n].key = k
      <4>1. n \in Saving /\ n \in 1 .. Len(ops)
        BY <1>3, <1>4, <3>2
      <4>2. LastOf(ops, n)
        <5> SUFFICES ASSUME NEW m \in n + 1 .. Len(ops), ops[m].key = k
                     PROVE  FALSE
          BY <3>2 DEF LastOf
        <5>1. m \in 1 .. Len(ops)
          BY <1>4, <4>1
        <5>2. PICK l \in m .. Len(ops) : l \in 1 .. Len(ops) /\ ops'[l].at = "done"
          BY <3>1, <5>1
        <5>3. l # n /\ l \in n .. Len(ops)
          BY <1>4, <4>1, <5>1
        <5> QED
          BY <1>7, <2>1, <4>1, <5>2, <5>3
      <4>3. ops'[n].at = "done"
        <5>1. PICK l \in n .. Len(ops) :
                l \in 1 .. Len(ops) /\ ops[l].key = k /\ ops'[l].at = "done"
          BY <3>1, <3>2, <4>1
        <5>2. l = n
          BY <1>4, <3>2, <4>1, <4>2, <5>1 DEF LastOf
        <5> QED
          BY <5>1, <5>2
      <4>4. heard
        BY <1>7, <4>1, <4>3
      <4>5. told' = [told EXCEPT ![k] = ops[n].value] /\ told \in [Keys -> Values]
        BY <1>1, <1>6, <3>2, <4>4 DEF Types, Data
      <4> QED
        BY <1>9, <2>1, <3>2, <4>1, <4>2, <4>5
    <3>3. CASE n = 0 \/ ops[n].key # k
      <4>1. LastResolved(k)
        <5> SUFFICES ASSUME NEW m \in 1 .. Len(ops), ops[m].key = k
                     PROVE  \E l \in m .. Len(ops) : ops[l].key = k /\ ops[l].at = "done"
          BY <2>2 DEF LastResolved
        <5>1. PICK l \in m .. Len(ops) :
                l \in 1 .. Len(ops) /\ ops[l].key = k /\ ops'[l].at = "done"
          BY <3>1
        <5>2. l # n
          BY <1>4, <3>3, <5>1
        <5> QED
          BY <1>7, <5>1, <5>2
      <4>2. told'[k] = told[k]
        BY <1>1, <1>6, <3>3 DEF Types, Data
      <4> QED
        BY <1>9, <2>1, <4>1, <4>2
    <3> QED
      BY <3>2, <3>3
  <2>6. env'.calm = env.calm
    OBVIOUS
  <2> QED
    BY <2>3, <2>4, <2>5 DEF HeardInv
<1> QED
  BY <1>8, <1>10, <1>11, <1>12, <1>13, <1>14 DEF IInv

\* A write lands, and the call it was for is resolved.
LEMMA WriteLandsStep ==
  ASSUME IInv, WriteLands
  PROVE  IInv'
<1>1. /\ io # None /\ file' = io /\ io' = None
      /\ heap' = [heap EXCEPT ![Head(writes).state].dirty = FALSE]
      /\ writes' = Tail(writes) /\ Resolved(Head(writes).of, TRUE) /\ env' = env
  BY DEF WriteLands
<1>2. Types /\ ChainInv /\ writes # <<>>
  BY <1>1 DEF IInv, ChainInv
<1> DEFINE s == Head(writes).state
<1>3. s \in 1 .. Len(heap) /\ heap[s] \in States /\ heap \in Seq(States)
      /\ \A t \in 1 .. Len(heap) : heap[t] \in States
  <2>1. Len(writes) \in Nat /\ Len(writes) >= 1 /\ Head(writes) = writes[1]
        /\ \A t \in 1 .. Len(heap) : heap[t] \in States
    BY <1>2, Domains
  <2> QED
    BY <1>2, <2>1 DEF Types
<1>4. [heap[s] EXCEPT !.dirty = FALSE] \in States
      /\ [heap[s] EXCEPT !.dirty = FALSE].data = heap[s].data
  BY <1>3 DEF States
<1>5. heap' = [heap EXCEPT ![s] = [heap[s] EXCEPT !.dirty = FALSE]]
  BY <1>1
<1>6. heap' \in Seq(States) /\ Len(heap') = Len(heap)
      /\ \A t \in 1 .. Len(heap) : heap'[t].data = heap[t].data
  <2> HIDE DEF s
  <2>1. heap' \in Seq(States) /\ Len(heap') = Len(heap)
        /\ \A t \in 1 .. Len(heap) :
             heap'[t] = IF t = s THEN [heap[s] EXCEPT !.dirty = FALSE] ELSE heap[t]
    BY <1>3, <1>4, <1>5, ExceptSeq
  <2> QED
    BY <1>4, <2>1
<1>7. env \in Envs
  BY <1>2 DEF Types
<1> QED
  BY <1>1, <1>6, <1>7, WriteEnds

\* A write fails, and leaves the file as it was.
LEMMA WriteFailsStep ==
  ASSUME IInv, WriteFails
  PROVE  IInv'
<1>1. /\ io # None /\ file' = file /\ io' = None /\ heap' = heap
      /\ writes' = Tail(writes) /\ Resolved(Head(writes).of, FALSE)
      /\ env' = [env EXCEPT !.faults = @ + 1]
  BY DEF WriteFails
<1>2. heap \in Seq(States) /\ env \in Envs
  BY DEF IInv, Types
<1>3. /\ env' \in Envs
      /\ env'.calm = env.calm /\ env'.swaps = env.swaps /\ env'.faults # 0
  BY <1>1, <1>2 DEF Envs
<1> QED
  BY <1>1, <1>2, <1>3, WriteEnds

------------------------------------------------------------------------------
(* The steps of the facade.                                                  *)

\* set() and delete(), whatever the value.
LEMMA ChangeStep ==
  ASSUME IInv, NEW k \in Keys, NEW value \in Values, Change(k, value)
  PROVE  IInv'
<1> DEFINE n == Len(ops) + 1
           bound == mem.handle # None
           call == [key |-> k, value |-> value, bound |-> bound,
                    at |-> IF bound THEN "saving" ELSE "done"]
<1>1. Types /\ LifeInv /\ ChainInv /\ CalmInv /\ CoverInv /\ HeardInv
  BY DEF IInv
<1>2. /\ mem' = [mem EXCEPT !.values[k] = value, !.authored = @ \cup {k}, !.hydrated = @ \ {k}]
      /\ ops' = Append(ops, call)
      /\ UNCHANGED <<file, store, io, env>>
  BY DEF Change
<1>3. /\ DOMAIN ops = 1 .. Len(ops) /\ Len(ops) \in Nat /\ Len(heap) \in Nat
      /\ Len(writes) \in Nat /\ Saving \subseteq 1 .. Len(ops)
      /\ \A m \in 1 .. Len(ops) : ops[m] \in Calls
      /\ \A s \in 1 .. Len(heap) : heap[s] \in States /\ heap[s].data \in Data
  BY <1>1, Domains
<1>4. call \in Calls /\ call.key = k /\ call.value = value
      /\ ~(call.bound /\ call.at = "done") /\ (call.at = "saving" <=> bound) /\ (call.at = "done" <=> ~bound)
  BY DEF Calls
<1> HIDE DEF call
<1>5. /\ ops \in Seq(Calls) /\ ops' \in Seq(Calls) /\ Len(ops') = n
      /\ \A m \in 1 .. Len(ops) : ops'[m] = ops[m]
      /\ ops'[n] = call
  BY <1>1, <1>2, <1>4, AppendProperties DEF Types
<1>6. /\ mem'.handle = mem.handle /\ mem'.life = mem.life /\ mem'.image = mem.image
      /\ mem'.values = [mem.values EXCEPT ![k] = value] /\ mem.values \in Data
      /\ mem' \in Facades
  BY <1>1, <1>2 DEF Types, Facades, Data
<1>7. Saving' = IF bound THEN Saving \cup {n} ELSE Saving
  <2>1. DOMAIN ops' = 1 .. n
    BY <1>5, LenProperties
  <2>2. \A m \in 1 .. n : m \in 1 .. Len(ops) \/ m = n
    BY <1>3
  <2> QED
    BY <1>3, <1>4, <1>5, <2>1, <2>2 DEF Saving
<1>8. LifeInv'
  BY <1>1, <1>2, <1>6 DEF LifeInv
<1>9. ASSUME NEW m \in 1 .. Len(ops), NEW data, Covers(ops, data, m)
      PROVE  Covers(ops', data, m)
  <2>1. Len(ops) <= Len(ops')
    BY <1>3, <1>5
  <2> QED
    BY <1>5, <1>9, <2>1, CoversKept
<1>10. DoneBound' = DoneBound /\ DoneBound \subseteq 1 .. Len(ops)
  <2>1. DOMAIN ops' = 1 .. n /\ DOMAIN ops = 1 .. Len(ops)
    BY <1>3, <1>5, LenProperties
  <2>2. \A m \in 1 .. n : m \in 1 .. Len(ops) \/ m = n
    BY <1>3
  <2>3. ~(ops'[n].bound /\ ops'[n].at = "done")
    BY <1>4, <1>5
  <2>4. \A m \in 1 .. Len(ops) : m \in DoneBound' <=> m \in DoneBound
    BY <1>3, <1>5, <2>1 DEF DoneBound
  <2> QED
    BY <2>1, <2>2, <2>3, <2>4 DEF DoneBound
<1>14. io # None => writes # <<>> /\ Head(writes).of \ {0} \subseteq 1 .. Len(ops)
  <2>1. io # None => writes # <<>>
    BY <1>1 DEF ChainInv
  <2>2. writes # <<>> => \E m \in Saving \cup {0} : Head(writes).of = {m}
    BY <1>1, HeadResolves
  <2> QED
    BY <1>3, <2>1, <2>2
<1>11. DOMAIN ops' = 1 .. n /\ n \in Nat /\ ops'[n].key = k
       /\ \A m \in 1 .. n : m \in 1 .. Len(ops) \/ m = n
  BY <1>3, <1>4, <1>5, LenProperties
<1>15. ASSUME NEW l \in Keys, l # k, LastResolved(l)'
       PROVE  LastResolved(l)
  <2> SUFFICES ASSUME NEW m \in 1 .. Len(ops), ops[m].key = l
               PROVE  \E j \in m .. Len(ops) : ops[j].key = l /\ ops[j].at = "done"
    BY <1>3 DEF LastResolved
  <2>1. m \in DOMAIN ops' /\ ops'[m].key = l
    BY <1>3, <1>5, <1>11
  <2>2. PICK j \in m .. Len(ops') : ops'[j].key = l /\ ops'[j].at = "done"
    BY <1>15, <2>1 DEF LastResolved
  <2>3. j \in 1 .. n /\ j # n
    BY <1>3, <1>5, <1>11, <1>15, <2>2
  <2>4. j \in 1 .. Len(ops) /\ j \in m .. Len(ops)
    BY <1>3, <1>11, <2>3
  <2> QED
    BY <1>5, <2>2, <2>4
<1>12. CASE ~bound
  <2>1. told' = [told EXCEPT ![k] = value] /\ UNCHANGED <<heap, writes>>
    BY <1>12 DEF Change
  <2>2. Types'
    BY <1>1, <1>2, <1>5, <1>6, <2>1 DEF Types, Data
  <2>3. ChainInv'
    BY <1>1, <1>2, <1>6, <1>7, <1>12, <2>1 DEF ChainInv
  <2>4. CalmInv'
    BY <1>1, <1>2, <1>6, <1>7, <1>12, <2>1 DEF CalmInv
  <2>5. CoverInv'
    <3> SUFFICES ASSUME env.calm, env.swaps = 0
                 PROVE  CoverInv'
      BY <1>2 DEF CoverInv
    <3>1. io # None => Head(writes).of \ {0} \subseteq 1 .. Len(ops)
      BY <1>14
    <3>2. \A m \in DoneBound' : Covers(ops', file, m)
      BY <1>1, <1>9, <1>10 DEF CoverInv
    <3>3. store # None => \A m \in DoneBound' \cup Saving' : Covers(ops', heap[store].data, m)
      BY <1>1, <1>3, <1>7, <1>9, <1>10, <1>12 DEF CoverInv
    <3>4. io # None => \A m \in DoneBound' \cup (Head(writes).of \ {0}) : Covers(ops', io, m)
      BY <1>1, <1>9, <1>10, <3>1 DEF CoverInv
    <3> QED
      BY <1>1, <1>2, <1>6, <2>1, <3>2, <3>3, <3>4 DEF CoverInv
  <2>6. HeardInv'
    <3> SUFFICES ASSUME env.calm
                 PROVE  HeardInv'
      BY <1>2 DEF HeardInv
    <3>1. Saving = {}
      <4>1. mem.life # "bound"
        BY <1>1, <1>12, PreferencesAssumption DEF LifeInv, Types
      <4> QED
        BY <1>1, <4>1 DEF CalmInv
    <3>2. ASSUME NEW l \in Keys, LastResolved(l)'
          PROVE  told'[l] = mem'.values[l]
      <4>1. told \in [Keys -> Values] /\ mem.values \in [Keys -> Values]
        BY <1>1, <1>6 DEF Types, Data
      <4>2. CASE l = k
        BY <1>6, <2>1, <4>1, <4>2
      <4>3. CASE l # k
        BY <1>1, <1>6, <1>15, <2>1, <3>2, <4>1, <4>3 DEF HeardInv
      <4> QED
        BY <4>2, <4>3
    <3> QED
      BY <1>7, <1>12, <3>1, <3>2 DEF HeardInv
  <2> QED
    BY <1>8, <2>2, <2>3, <2>4, <2>5, <2>6 DEF IInv
<1>13. CASE bound
  <2> DEFINE s == mem.handle
             write == [state |-> s, of |-> {n}]
             dirty == heap[s].dirty \/ value # None \/ heap[s].data[k] # None
             state == [heap[s] EXCEPT !.data[k] = value, !.dirty = dirty]
  <2>1. /\ heap' = [heap EXCEPT ![s].data[k] = value, ![s].dirty = dirty]
        /\ writes' = Append(writes, write) /\ told' = told
    BY <1>13 DEF Change, Queued
  <2>2. mem.life = "bound" /\ s = store /\ store # None /\ s \in 1 .. Len(heap)
        /\ heap[s] \in States /\ heap \in Seq(States)
    BY <1>1, <1>3, <1>13 DEF LifeInv, Types
  <2>3. state \in States /\ state.data = [heap[s].data EXCEPT ![k] = value]
    <3>1. dirty \in BOOLEAN
      OBVIOUS
    <3> HIDE DEF dirty
    <3> QED
      BY <2>2, <3>1 DEF States, Data
  <2>4. heap' = [heap EXCEPT ![s] = state]
    BY <2>1, <2>2
  <2>5. write \in Writes /\ write.of = {n} /\ write.state = s
    BY <1>3, <2>2 DEF Writes
  <2> HIDE DEF s, state, write
  <2>6. /\ heap' \in Seq(States) /\ Len(heap') = Len(heap)
        /\ \A t \in 1 .. Len(heap) : heap'[t] = IF t = s THEN state ELSE heap[t]
    BY <2>2, <2>3, <2>4, ExceptSeq
  <2>7. /\ writes' \in Seq(Writes) /\ Len(writes') = Len(writes) + 1
        /\ \A i \in 1 .. Len(writes) : writes'[i] = writes[i]
        /\ writes'[Len(writes) + 1] = write /\ writes' # <<>>
    BY <1>1, <2>1, <2>5, AppendProperties DEF Types
  <2>8. \A i \in 1 .. Len(writes') : i \in 1 .. Len(writes) \/ i = Len(writes) + 1
    BY <1>3, <2>7
  <2>9. writes # <<>> => Head(writes') = Head(writes)
    BY <1>1, <2>1, HeadTailAppend DEF Types
  <2>10. Types'
    <3>1. \A i \in 1 .. Len(writes') : writes'[i].state \in 1 .. Len(heap')
      BY <1>1, <2>2, <2>5, <2>6, <2>7, <2>8 DEF Types
    <3> QED
      BY <1>1, <1>2, <1>5, <1>6, <2>1, <2>2, <2>6, <2>7, <3>1 DEF Types
  <2>11. ChainInv'
    <3>1. \A i \in 1 .. Len(writes) : 0 \notin writes[i].of
      BY <1>1, <2>2 DEF ChainInv
    <3>2. n # 0 /\ n \in Saving' /\ Saving \subseteq Saving'
      BY <1>3, <1>7, <1>13
    <3>3. ASSUME NEW i \in 1 .. Len(writes')
          PROVE  /\ \E m \in Saving' \cup {0} : writes'[i].of = {m}
                 /\ 0 \notin writes'[i].of
      <4>1. CASE i \in 1 .. Len(writes)
        <5>1. \E m \in Saving \cup {0} : writes[i].of = {m}
          BY <1>1, <4>1 DEF ChainInv
        <5> QED
          BY <2>7, <3>1, <3>2, <4>1, <5>1
      <4>2. CASE i = Len(writes) + 1
        BY <2>5, <2>7, <3>2, <4>2
      <4> QED
        BY <2>8, <4>1, <4>2
    <3>4. ASSUME NEW m \in Saving'
          PROVE  \E i \in 1 .. Len(writes') : writes'[i].of = {m}
      <4>1. CASE m = n
        BY <1>3, <2>5, <2>7, <4>1
      <4>2. CASE m \in Saving
        <5>1. PICK i \in 1 .. Len(writes) : writes[i].of = {m}
          BY <1>1, <4>2 DEF ChainInv
        <5>2. i \in 1 .. Len(writes') /\ writes'[i] = writes[i]
          BY <1>3, <2>7
        <5> QED
          BY <5>1, <5>2
      <4> QED
        BY <1>7, <4>1, <4>2
    <3>5. ASSUME NEW i \in 1 .. Len(writes'), NEW j \in 1 .. Len(writes'),
                 NEW a \in writes'[i].of, NEW b \in writes'[j].of, i < j
          PROVE  a < b \/ b = 0
      <4>1. i \in 1 .. Len(writes) /\ writes'[i] = writes[i]
        BY <1>3, <2>7, <2>8, <3>5
      <4>2. CASE j \in 1 .. Len(writes)
        BY <1>1, <2>7, <3>5, <4>1, <4>2 DEF ChainInv
      <4>3. CASE j = Len(writes) + 1
        <5>1. b = n
          BY <2>5, <2>7, <4>3
        <5>2. a \in Saving \cup {0}
          BY <1>1, <4>1 DEF ChainInv
        <5> QED
          BY <1>3, <5>1, <5>2
      <4> QED
        BY <2>8, <4>2, <4>3
    <3> QED
      BY <2>7, <3>3, <3>4, <3>5 DEF ChainInv
  <2>12. CalmInv'
    <3>1. \A i \in 1 .. Len(writes') : env.calm => writes'[i].state = store /\ store # None
      BY <1>1, <2>2, <2>5, <2>7, <2>8 DEF CalmInv
    <3> QED
      BY <1>2, <1>6, <2>2, <3>1 DEF CalmInv
  <2>13. CoverInv'
    <3> SUFFICES ASSUME env.calm, env.swaps = 0
                 PROVE  CoverInv'
      BY <1>2 DEF CoverInv
    <3>1. \A m \in 1 .. n : m # n => m \in 1 .. Len(ops)
      BY <1>3
    <3>3. \A m \in DoneBound' : Covers(ops', file, m)
      BY <1>1, <1>9, <1>10 DEF CoverInv
    <3>4. ASSUME NEW m \in DoneBound' \cup Saving'
          PROVE  Covers(ops', heap'[store].data, m)
      <4>1. /\ heap'[store].data = [heap[store].data EXCEPT ![k] = value]
            /\ heap[store].data \in [Keys -> Values]
        <5>1. heap'[store] = state
          BY <2>2, <2>6
        <5>2. state.data = [heap[store].data EXCEPT ![k] = value]
          BY <2>2, <2>3
        <5> QED
          BY <1>3, <2>2, <5>1, <5>2 DEF Data
      <4>2. ops'[n].key = k /\ ops'[n].value = value /\ n \in m .. Len(ops') /\ m \in 1 .. n
        <5>1. m \in 1 .. n
          BY <1>3, <1>7, <1>10, <1>13
        <5> QED
          BY <1>3, <1>4, <1>5, <5>1
      <4>3. CASE ops'[m].key = k
        BY <4>1, <4>2, <4>3 DEF Covers
      <4>4. CASE ops'[m].key # k
        <5>1. m \in 1 .. Len(ops)
          BY <3>1, <4>2, <4>4
        <5>2. Covers(ops', heap[store].data, m)
          <6>1. m \in DoneBound \cup Saving
            BY <1>3, <1>7, <1>10, <3>4, <5>1
          <6> QED
            BY <1>1, <1>9, <2>2, <5>1, <6>1 DEF CoverInv
        <5>3. ops'[m].key \in Keys
          BY <1>3, <1>5, <5>1 DEF Calls
        <5> QED
          BY <4>1, <4>4, <5>2, <5>3 DEF Covers
      <4> QED
        BY <4>3, <4>4
    <3>5. io # None => \A m \in DoneBound' \cup (Head(writes').of \ {0}) : Covers(ops', io, m)
      BY <1>1, <1>9, <1>10, <1>14, <2>9 DEF CoverInv
    <3> QED
      BY <1>2, <1>5, <1>6, <2>2, <3>3, <3>4, <3>5 DEF CoverInv
  <2>14. HeardInv'
    <3> SUFFICES ASSUME env.calm
                 PROVE  HeardInv'
      BY <1>2 DEF HeardInv
    <3>1. /\ n \in Saving' /\ ops'[n].key = k /\ ops'[n].value = value
          /\ ops'[n].at = "saving" /\ mem'.values[k] = value
          /\ \A l \in Keys : l # k => mem'.values[l] = mem.values[l]
      BY <1>4, <1>5, <1>6, <1>7, <1>13 DEF Data
    <3>2. \A m \in Saving : /\ ops'[m] = ops[m] /\ m \in 1 .. Len(ops) /\ n \in m + 1 .. n
                            /\ ops[m].key \in Keys
      BY <1>3, <1>5 DEF Calls
    <3>3. ASSUME NEW m \in Saving', NEW l \in m .. Len(ops')
          PROVE  ops'[l].at = "saving"
      <4>1. m \in 1 .. n /\ l \in 1 .. n
        BY <1>3, <1>5, <1>7, <1>13
      <4>2. CASE l = n
        BY <3>1, <4>2
      <4>3. CASE l \in 1 .. Len(ops)
        <5>1. m # n /\ m \in Saving /\ l \in m .. Len(ops)
          BY <1>3, <1>7, <1>13, <4>1, <4>3
        <5> QED
          BY <1>1, <1>5, <4>3, <5>1 DEF HeardInv
      <4> QED
        BY <1>11, <4>1, <4>2, <4>3
    <3>4. ASSUME NEW m \in Saving', LastOf(ops', m)
          PROVE  ops'[m].value = mem'.values[ops'[m].key]
      <4>1. CASE m = n
        BY <3>1, <4>1
      <4>2. CASE m \in Saving
        <5>1. ops[m].key # k
          BY <1>5, <3>1, <3>2, <3>4, <4>2 DEF LastOf
        <5>2. LastOf(ops, m)
          <6>1. ASSUME NEW l \in m + 1 .. Len(ops)
                PROVE  ops[l].key # ops[m].key
            <7>1. l \in m + 1 .. Len(ops') /\ l \in 1 .. Len(ops)
              BY <1>3, <1>5, <3>2, <4>2
            <7> QED
              BY <1>5, <3>2, <3>4, <4>2, <7>1 DEF LastOf
          <6> QED
            BY <6>1 DEF LastOf
        <5> QED
          BY <1>1, <3>1, <3>2, <4>2, <5>1, <5>2 DEF HeardInv
      <4> QED
        BY <1>7, <1>13, <4>1, <4>2
    <3>5. ASSUME NEW l \in Keys, LastResolved(l)'
          PROVE  told'[l] = mem'.values[l]
      <4>1. l # k
        <5> SUFFICES ASSUME l = k PROVE FALSE
          OBVIOUS
        <5>1. PICK j \in n .. Len(ops') : ops'[j].at = "done"
          BY <1>3, <1>11, <3>5 DEF LastResolved
        <5>2. j = n
          BY <1>5, <1>11, <5>1
        <5> QED
          BY <3>1, <5>1, <5>2
      <4> QED
        BY <1>1, <1>15, <2>1, <3>1, <3>5, <4>1 DEF HeardInv
    <3> QED
      BY <3>3, <3>4, <3>5 DEF HeardInv
  <2> QED
    BY <1>8, <2>10, <2>11, <2>12, <2>13, <2>14 DEF IInv
<1> QED
  BY <1>12, <1>13

\* bind() begins, and the file is opened unless the storage has a state of it.
LEMMA BindStep ==
  ASSUME IInv, Bind
  PROVE  IInv'
<1>1. /\ mem.life = "away"
      /\ mem' = [mem EXCEPT !.life = IF store = None THEN "opening" ELSE "read"]
      /\ env' = [env EXCEPT !.binds = @ + 1]
      /\ UNCHANGED <<file, heap, store, writes, io, ops, told>>
  BY DEF Bind
<1>2. Types /\ LifeInv /\ ChainInv /\ CalmInv /\ CoverInv /\ HeardInv
  BY DEF IInv
<1>3. Saving' = Saving /\ DoneBound' = DoneBound
  BY <1>1 DEF Saving, DoneBound
<1>4. /\ mem'.handle = mem.handle /\ mem'.values = mem.values
      /\ mem'.life = IF store = None THEN "opening" ELSE "read"
      /\ env'.calm = env.calm /\ env'.faults = env.faults /\ env'.swaps = env.swaps
  BY <1>1, <1>2 DEF Types
<1>5. Types'
  <2>1. mem' \in Facades
    BY <1>1, <1>2 DEF Types, Facades
  <2>2. env \in Envs
    BY <1>2 DEF Types
  <2>3. env' \in Envs
    BY <1>1, <2>2 DEF Envs
  <2> QED
    BY <1>1, <1>2, <2>1, <2>3 DEF Types
<1>6. LifeInv'
  BY <1>1, <1>2, <1>4 DEF LifeInv
<1>7. ChainInv'
  BY <1>1, <1>2, <1>3 DEF ChainInv
<1>8. CalmInv'
  BY <1>1, <1>2, <1>3, <1>4 DEF CalmInv
<1>9. CoverInv'
  BY <1>1, <1>2, <1>3, <1>4 DEF CoverInv
<1>10. HeardInv'
  BY <1>1, <1>2, <1>3, <1>4 DEF HeardInv, LastResolved
<1> QED
  BY <1>5, <1>6, <1>7, <1>8, <1>9, <1>10 DEF IInv

\* bind() reads the stored values.
LEMMA ReadsStep ==
  ASSUME IInv, Reads
  PROVE  IInv'
<1>1. /\ mem.life = "opening" /\ mem' = [mem EXCEPT !.life = "read", !.image = file]
      /\ UNCHANGED <<file, heap, store, writes, io, ops, told, env>>
  BY DEF Reads
<1>2. Types /\ LifeInv /\ ChainInv /\ CalmInv /\ CoverInv /\ HeardInv
  BY DEF IInv
<1>3. Saving' = Saving /\ DoneBound' = DoneBound
  BY <1>1 DEF Saving, DoneBound
<1>4. /\ mem'.handle = mem.handle /\ mem'.values = mem.values
      /\ mem'.life = "read" /\ mem'.image = file
  BY <1>1, <1>2 DEF Types
<1>5. Types'
  <2>1. mem' \in Facades
    BY <1>1, <1>2 DEF Types, Facades
  <2> QED
    BY <1>1, <1>2, <2>1 DEF Types
<1>6. LifeInv'
  BY <1>1, <1>2, <1>4 DEF LifeInv
<1>7. ChainInv'
  BY <1>1, <1>2, <1>3 DEF ChainInv
<1>8. CalmInv'
  BY <1>1, <1>2, <1>3, <1>4 DEF CalmInv
<1>9. CoverInv'
  BY <1>1, <1>2, <1>3, <1>4 DEF CoverInv
<1>10. HeardInv'
  BY <1>1, <1>2, <1>3, <1>4 DEF HeardInv, LastResolved
<1> QED
  BY <1>5, <1>6, <1>7, <1>8, <1>9, <1>10 DEF IInv

\* open() returns: what the facade takes over is what the file has.
LEMMA HydratesStep ==
  ASSUME IInv, Hydrates
  PROVE  IInv'
<1> DEFINE fresh == store = None
           s == IF fresh THEN Len(heap) + 1 ELSE store
           next == IF fresh THEN mem.image ELSE heap[store].data
           gone == {k \in mem.hydrated : next[k] = None /\ k \notin mem.authored}
           loaded == {k \in Keys : next[k] # None /\ ~Kept(k)}
           values == [k \in Keys |-> IF k \in loaded THEN next[k]
                                     ELSE IF k \in gone THEN None ELSE mem.values[k]]
           state == [data |-> next, dirty |-> FALSE]
<1>1. /\ mem.life = "read"
      /\ heap' = IF fresh THEN Append(heap, state) ELSE heap
      /\ store' = s
      /\ mem' = [mem EXCEPT !.values = values, !.authored = @ \ loaded, !.hydrated = loaded,
                            !.hasBound = TRUE, !.handle = s, !.life = "bound", !.image = Empty]
      /\ told' = [k \in Keys |-> IF k \in Published(gone, values) THEN values[k] ELSE told[k]]
      /\ UNCHANGED <<file, writes, io, ops, env>>
  BY DEF Hydrates
<1>2. Types /\ LifeInv /\ ChainInv /\ CalmInv /\ CoverInv /\ HeardInv
  BY DEF IInv
<1>3. Saving' = Saving /\ DoneBound' = DoneBound
  BY <1>1 DEF Saving, DoneBound
<1>4. /\ Len(heap) \in Nat /\ heap \in Seq(States) /\ None \notin Nat
      /\ \A t \in 1 .. Len(heap) : heap[t].data \in Data
  BY <1>2, Domains, PreferencesAssumption DEF Types
<1>5. next \in Data /\ mem.values \in Data /\ Empty \in Data /\ told \in Data
  BY <1>2, <1>4 DEF Types, Facades, Data, Empty, Values
<1>6. state \in States /\ state.data = next
  BY <1>5 DEF States
<1>7. values \in Data
  BY <1>5 DEF Data, Values
<1>8. told' \in Data
  BY <1>1, <1>5, <1>7 DEF Data
<1>9. \A k \in Keys : /\ k \in loaded => values[k] = next[k] /\ next[k] # None
                      /\ k \in gone /\ k \notin loaded => values[k] = None
                      /\ k \notin gone /\ k \notin loaded => values[k] = mem.values[k]
  OBVIOUS
<1>10. \A k \in Keys : /\ k \in gone \/ values[k] # None => told'[k] = values[k]
                       /\ ~(k \in gone \/ values[k] # None) => told'[k] = told[k]
  BY <1>1 DEF Published
<1>11. loaded \subseteq Keys
  OBVIOUS
<1> HIDE DEF state, values, loaded, gone
<1>12. /\ heap' \in Seq(States) /\ Len(heap) <= Len(heap')
       /\ s \in 1 .. Len(heap') /\ heap'[s].data = next
  <2>1. CASE fresh
    BY <1>1, <1>4, <1>6, <2>1, AppendProperties
  <2>2. CASE ~fresh
    BY <1>1, <1>2, <1>4, <2>2 DEF Types
  <2> QED
    BY <2>1, <2>2
<1>13. s \in Nat /\ s # None
  BY <1>2, <1>4 DEF Types
<1>14. mem' \in Facades
  <2> HIDE DEF s
  <2>1. mem.authored \ loaded \in SUBSET Keys /\ loaded \in SUBSET Keys
    BY <1>2, <1>11 DEF Types, Facades
  <2> QED
    BY <1>1, <1>2, <1>5, <1>7, <1>13, <2>1 DEF Types, Facades
<1>15. mem'.handle = s /\ mem'.values = values /\ mem'.life = "bound"
  <2> HIDE DEF s
  <2> QED
    BY <1>1, <1>2 DEF Types
<1> HIDE DEF s, next
<1>16. Types'
  <2>1. Len(heap') \in Nat
    BY <1>12, LenProperties
  <2>2. \A i \in 1 .. Len(writes') : writes'[i].state \in 1 .. Len(heap')
    BY <1>1, <1>2, <1>4, <1>12, <2>1 DEF Types
  <2> QED
    BY <1>1, <1>2, <1>8, <1>12, <1>13, <1>14, <2>2 DEF Types
<1>17. LifeInv'
  BY <1>1, <1>13, <1>15 DEF LifeInv
<1>18. ChainInv'
  <2>1. \A i \in 1 .. Len(writes) : 0 \notin writes[i].of
    BY <1>1, <1>2 DEF ChainInv
  <2> QED
    BY <1>1, <1>2, <1>3, <2>1 DEF ChainInv
<1>19. env.calm => writes = <<>> /\ Saving = {}
  BY <1>1, <1>2 DEF CalmInv
<1>20. CalmInv'
  <2>1. Len(<<>>) = 0
    BY EmptySeq
  <2> QED
    BY <1>1, <1>3, <1>15, <1>19, <2>1 DEF CalmInv
<1>21. CoverInv'
  <2> SUFFICES ASSUME env.calm, env.swaps = 0
               PROVE  CoverInv'
    BY <1>1 DEF CoverInv
  <2>1. \A n \in DoneBound : Covers(ops, file, n)
    BY <1>2 DEF CoverInv
  <2>2. \A n \in DoneBound : Covers(ops, next, n)
    BY <1>1, <1>2, <2>1 DEF CoverInv, next
  <2>3. io = None
    BY <1>2, <1>19 DEF ChainInv
  <2>4. heap'[store'].data = next
    BY <1>1, <1>12
  <2> QED
    BY <1>1, <1>3, <1>15, <1>19, <2>1, <2>2, <2>3, <2>4 DEF CoverInv
<1>22. HeardInv'
  <2> SUFFICES ASSUME env.calm
               PROVE  HeardInv'
    BY <1>1 DEF HeardInv
  <2>1. Saving' = {} /\ \A k \in Keys : LastResolved(k)' => LastResolved(k)
    BY <1>1, <1>3, <1>19 DEF LastResolved
  <2>2. ASSUME NEW k \in Keys, LastResolved(k)'
        PROVE  told'[k] = values[k]
    <3>1. told[k] = mem.values[k]
      BY <1>2, <2>1, <2>2 DEF HeardInv
    <3> QED
      BY <1>9, <1>10, <3>1
  <2> QED
    BY <1>1, <1>15, <2>1, <2>2 DEF HeardInv
<1> QED
  BY <1>16, <1>17, <1>18, <1>20, <1>21, <1>22 DEF IInv

\* The storage leaves, with a write of its own if its state is dirty.
LEMMA UnbindStep ==
  ASSUME IInv, Unbind
  PROVE  IInv'
<1> DEFINE close == [state |-> store, of |-> {0}]
           dirty == heap[store].dirty
<1>1. /\ mem.life = "bound" /\ (env.calm => Saving = {})
      /\ UNCHANGED <<file, heap, io, ops, told, env>>
      /\ mem' = [mem EXCEPT !.handle = None, !.life = IF dirty THEN "closing" ELSE "away"]
      /\ store' = IF dirty THEN store ELSE None
      /\ writes' = IF dirty THEN Append(writes, close) ELSE writes
  BY DEF Unbind, Queued
<1>2. Types /\ LifeInv /\ ChainInv /\ CalmInv /\ CoverInv /\ HeardInv
  BY DEF IInv
<1>3. Saving' = Saving /\ DoneBound' = DoneBound
  BY <1>1 DEF Saving, DoneBound
<1>4. /\ mem'.handle = None /\ mem'.values = mem.values
      /\ mem'.life = IF dirty THEN "closing" ELSE "away"
  BY <1>1, <1>2 DEF Types
<1>5. /\ store # None /\ store \in 1 .. Len(heap) /\ store \in Nat /\ Len(writes) \in Nat
      /\ Saving \subseteq 1 .. Len(ops) /\ Len(ops) \in Nat
  BY <1>1, <1>2, Domains DEF LifeInv, Types
<1>6. close \in Writes /\ close.of = {0} /\ close.state = store
  BY <1>5 DEF Writes
<1> HIDE DEF close, dirty
<1>7. ASSUME dirty
      PROVE  /\ writes' \in Seq(Writes) /\ Len(writes') = Len(writes) + 1
             /\ \A i \in 1 .. Len(writes) : writes'[i] = writes[i]
             /\ writes'[Len(writes) + 1] = close /\ writes' # <<>>
             /\ \A i \in 1 .. Len(writes') : i \in 1 .. Len(writes) \/ i = Len(writes) + 1
  <2>1. writes' = Append(writes, close)
    BY <1>1, <1>7
  <2>2. /\ writes' \in Seq(Writes) /\ Len(writes') = Len(writes) + 1
        /\ \A i \in 1 .. Len(writes) : writes'[i] = writes[i]
        /\ writes'[Len(writes) + 1] = close /\ writes' # <<>>
    BY <1>2, <1>6, <2>1, AppendProperties DEF Types
  <2> QED
    BY <1>5, <2>2
<1>8. \A i \in 1 .. Len(writes) : 0 \notin writes[i].of
  BY <1>1, <1>2 DEF ChainInv
<1>9. env.calm => writes = <<>>
  <2> SUFFICES ASSUME env.calm, writes # <<>> PROVE FALSE
    OBVIOUS
  <2>1. Saving = {}
    BY <1>1
  <2>2. 1 \in 1 .. Len(writes)
    BY <1>2, <1>5, EmptySeq DEF Types
  <2> QED
    BY <1>2, <1>8, <2>1, <2>2 DEF ChainInv
<1>10. Types'
  <2>1. mem' \in Facades
    BY <1>1, <1>2 DEF Types, Facades
  <2>2. writes' \in Seq(Writes)
        /\ \A i \in 1 .. Len(writes') : writes'[i].state \in 1 .. Len(heap')
    <3>1. CASE dirty
      BY <1>1, <1>2, <1>5, <1>6, <1>7, <3>1 DEF Types
    <3>2. CASE ~dirty
      BY <1>1, <1>2, <3>2 DEF Types
    <3> QED
      BY <3>1, <3>2
  <2> QED
    BY <1>1, <1>2, <1>5, <2>1, <2>2 DEF Types
<1>11. LifeInv'
  BY <1>4 DEF LifeInv
<1>12. ChainInv'
  <2>1. CASE dirty
    <3>1. ASSUME NEW i \in 1 .. Len(writes')
          PROVE  /\ \E n \in Saving \cup {0} : writes'[i].of = {n}
                 /\ 0 \in writes'[i].of => i = Len(writes')
      <4>1. CASE i \in 1 .. Len(writes)
        BY <1>2, <1>7, <1>8, <2>1, <4>1 DEF ChainInv
      <4>2. CASE i = Len(writes) + 1
        BY <1>6, <1>7, <2>1, <4>2
      <4> QED
        BY <1>7, <2>1, <4>1, <4>2
    <3>2. ASSUME NEW n \in Saving
          PROVE  \E i \in 1 .. Len(writes') : writes'[i].of = {n}
      <4>1. PICK i \in 1 .. Len(writes) : writes[i].of = {n}
        BY <1>2 DEF ChainInv
      <4>2. i \in 1 .. Len(writes') /\ writes'[i] = writes[i]
        BY <1>5, <1>7, <2>1
      <4> QED
        BY <4>1, <4>2
    <3>3. ASSUME NEW i \in 1 .. Len(writes'), NEW j \in 1 .. Len(writes'),
                 NEW a \in writes'[i].of, NEW b \in writes'[j].of, i < j
          PROVE  a < b \/ b = 0
      <4>1. i \in 1 .. Len(writes) /\ writes'[i] = writes[i]
        BY <1>5, <1>7, <2>1, <3>3
      <4>2. CASE j \in 1 .. Len(writes)
        BY <1>2, <1>7, <2>1, <3>3, <4>1, <4>2 DEF ChainInv
      <4>3. CASE j = Len(writes) + 1
        BY <1>6, <1>7, <2>1, <4>3
      <4> QED
        BY <1>7, <2>1, <4>2, <4>3
    <3> QED
      BY <1>3, <1>4, <1>7, <2>1, <3>1, <3>2, <3>3 DEF ChainInv
  <2>2. CASE ~dirty
    BY <1>1, <1>2, <1>3, <1>8, <2>2 DEF ChainInv
  <2> QED
    BY <2>1, <2>2
<1>13. CalmInv'
  <2> SUFFICES ASSUME env.calm
               PROVE  CalmInv'
    BY <1>1 DEF CalmInv
  <2>1. Len(writes) = 0 /\ writes = <<>>
    BY <1>9, EmptySeq
  <2>2. CASE dirty
    <3>1. \A i \in 1 .. Len(writes') : writes'[i] = close
      BY <1>7, <2>1, <2>2
    <3> QED
      BY <1>1, <1>3, <1>4, <1>5, <1>6, <2>2, <3>1 DEF CalmInv
  <2>3. CASE ~dirty
    BY <1>1, <1>3, <1>4, <2>1, <2>3 DEF CalmInv
  <2> QED
    BY <2>2, <2>3
<1>14. CoverInv'
  <2> SUFFICES ASSUME env.calm, env.swaps = 0
               PROVE  CoverInv'
    BY <1>1 DEF CoverInv
  <2>1. io = None
    BY <1>2, <1>9 DEF ChainInv
  <2> QED
    BY <1>1, <1>2, <1>3, <1>4, <2>1 DEF CoverInv
<1>15. HeardInv'
  BY <1>1, <1>2, <1>3, <1>4 DEF HeardInv, LastResolved
<1> QED
  BY <1>10, <1>11, <1>12, <1>13, <1>14, <1>15 DEF IInv

\* The provider of the storage changes.
LEMMA ProviderChangesStep ==
  ASSUME IInv, ProviderChanges
  PROVE  IInv'
<1>1. /\ file' \in Files /\ env' = [env EXCEPT !.swaps = 1]
      /\ UNCHANGED <<heap, store, writes, io, mem, ops, told>>
  BY DEF ProviderChanges
<1>2. Types /\ LifeInv /\ ChainInv /\ CalmInv /\ CoverInv /\ HeardInv
  BY DEF IInv
<1>3. Saving' = Saving
  BY <1>1 DEF Saving
<1>4. env'.calm = env.calm /\ env'.faults = env.faults /\ env'.swaps = 1
      /\ env' \in Envs
  BY <1>1, <1>2 DEF Types, Envs, Facades
<1>5. Types'
  BY <1>1, <1>2, <1>4 DEF Types, Files, Data, Values
<1>6. LifeInv' /\ ChainInv' /\ CalmInv'
  BY <1>1, <1>2, <1>3, <1>4 DEF LifeInv, ChainInv, CalmInv
<1>7. CoverInv'
  BY <1>4 DEF CoverInv
<1>8. HeardInv'
  BY <1>1, <1>2, <1>3, <1>4 DEF HeardInv, LastResolved
<1> QED
  BY <1>5, <1>6, <1>7, <1>8 DEF IInv

------------------------------------------------------------------------------
(* The theorems.                                                             *)

\* The invariant holds initially and every step keeps it.
LEMMA Inductive == Init => IInv
<1> SUFFICES ASSUME Init PROVE IInv
  OBVIOUS
<1>1. /\ file \in Files /\ heap = <<>> /\ store = None /\ writes = <<>> /\ io = None
      /\ mem = Unbound /\ ops = <<>> /\ told = Empty
      /\ env \in [calm : BOOLEAN, binds : {0}, faults : {0}, swaps : {0}]
  BY DEF Init
<1>2. heap \in Seq(States) /\ writes \in Seq(Writes) /\ ops \in Seq(Calls)
      /\ Len(writes) = 0 /\ Len(ops) = 0 /\ DOMAIN ops = 1 .. 0
  BY <1>1, EmptySeq, LenProperties
<1>3. Saving = {} /\ DoneBound = {}
  BY <1>2 DEF Saving, DoneBound
<1>4. Empty \in Data /\ file \in Data
  BY <1>1 DEF Empty, Data, Values, Files
<1>5. Types
  BY <1>1, <1>2, <1>4 DEF Types, Envs, Facades, Unbound
<1>6. LifeInv
  BY <1>1 DEF LifeInv, Unbound
<1>7. ChainInv
  BY <1>1, <1>2, <1>3 DEF ChainInv
<1>8. CalmInv
  BY <1>1, <1>2, <1>3 DEF CalmInv
<1>9. CoverInv
  BY <1>1, <1>3 DEF CoverInv, Unbound
<1>10. HeardInv
  BY <1>1, <1>3 DEF HeardInv, Unbound
<1> QED
  BY <1>5, <1>6, <1>7, <1>8, <1>9, <1>10 DEF IInv

\* Every step keeps the invariant.
LEMMA Preserved == IInv /\ [Next]_vars => IInv'
<1> SUFFICES ASSUME IInv, [Next]_vars PROVE IInv'
  OBVIOUS
<1>1. CASE WriteStarts
  BY <1>1, WriteStartsStep
<1>2. CASE WriteLands
  BY <1>2, WriteLandsStep
<1>3. CASE WriteFails
  BY <1>3, WriteFailsStep
<1>4. ASSUME NEW k \in Keys, Set(k)
      PROVE  IInv'
  <2>1. Len(ops) + 1 \in Values
    BY Domains DEF IInv, Values
  <2> QED
    BY <1>4, <2>1, ChangeStep DEF Set
<1>5. ASSUME NEW k \in Keys, Delete(k)
      PROVE  IInv'
  <2>1. None \in Values
    BY DEF Values
  <2> QED
    BY <1>5, <2>1, ChangeStep DEF Delete
<1>6. CASE Bind
  BY <1>6, BindStep
<1>7. CASE Reads
  BY <1>7, ReadsStep
<1>8. CASE Hydrates
  BY <1>8, HydratesStep
<1>9. CASE Unbind
  BY <1>9, UnbindStep
<1>10. CASE ProviderChanges
  BY <1>10, ProviderChangesStep
<1>11. CASE UNCHANGED vars
  <2>1. Saving' = Saving /\ DoneBound' = DoneBound
    BY <1>11 DEF vars, Saving, DoneBound
  <2> QED
    BY <1>11, <2>1 DEF vars, IInv, Types, LifeInv, ChainInv, CalmInv, CoverInv, HeardInv,
                        LastResolved
<1> QED
  BY <1>1, <1>2, <1>3, <1>4, <1>5, <1>6, <1>7, <1>8, <1>9, <1>10, <1>11 DEF Next

\* The inductive invariant holds of every behaviour.
LEMMA InvariantHolds == Spec => []IInv
BY Inductive, Preserved, PTL DEF Spec

\* Type correctness: the chain, the states and the facade keep their shape, and
\* every write in the chain is of a state the storage made.
THEOREM TypeCorrect == Spec => []Types
<1>1. IInv => Types
  BY DEF IInv
<1> QED
  BY <1>1, InvariantHolds, PTL

\* A call of set() or delete() that resolved while the storage was bound is in the
\* file or was superseded by a later call for its key (createStablePreferences
\* over createJsonStorage), for every number of keys, calls, bindings and faults.
THEOREM ResolvedStaysStored == Spec => []ResolvedIsStored
<1>1. IInv => ResolvedIsStored
  <2> SUFFICES ASSUME IInv, env.calm, env.swaps = 0,
                      NEW n \in DOMAIN ops, ops[n].bound, ops[n].at = "done"
               PROVE  \E m \in n .. Len(ops) :
                        ops[m].key = ops[n].key /\ file[ops[n].key] = ops[m].value
    BY DEF ResolvedIsStored
  <2>1. n \in DoneBound
    BY DEF DoneBound
  <2> QED
    BY <2>1 DEF IInv, CoverInv, Covers
<1> QED
  BY <1>1, InvariantHolds, PTL

\* Every listener of the facade heard the value that get() returns, of every key
\* whose last set() or delete() resolved, for every number of keys, calls, bindings
\* and faults, as long as the storage is taken away only while no call waits.
THEOREM ListenersStayCurrent == Spec => []ListenersAreCurrent
<1>1. IInv => ListenersAreCurrent
  BY DEF IInv, HeardInv, ListenersAreCurrent
<1> QED
  BY <1>1, InvariantHolds, PTL
==============================================================================
