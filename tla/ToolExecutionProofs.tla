------------------------- MODULE ToolExecutionProofs -------------------------
(***************************************************************************)
(* What holds of the tool scheduler, of the executor it serves and of its  *)
(* callers, for any number of calls, turns, failing appends and crashes.   *)
(***************************************************************************)
EXTENDS ToolExecution, SessionValidatorProofs, FiniteSetTheorems

------------------------------------------------------------------------------
(* The scheduler alone (ToolScheduler), for every number of calls and every   *)
(* concurrency limit.  The invariant is inductive in three parts: the slots   *)
(* (SlotInv), the registration order (RegisteredInOrder) and the commit loop  *)
(* (CommitInv).                                                               *)

\* The facts about slots, stated for any phase assignment and counters, so that
\* they can be used before and after #pump.
SlotFacts(p, safe, exclusive) ==
  /\ safe = Cardinality(SlotsTaken(p, "safe"))
  /\ exclusive <=> SlotsTaken(p, "exclusive") # {}
  /\ \A i \in SlotsTaken(p, "exclusive") :
       \A j \in SlotsTaken(p, "exclusive") \cup SlotsTaken(p, "safe") : i = j
  /\ safe <= MaxSafe

SlotInv == SlotFacts(phase, runningSafe, exclusiveRunning)

RegisteredInOrder ==
  \A i, j \in Calls : j < i /\ phase[i] # "free" => phase[j] # "free"

CommitInv ==
  /\ committing => Committable(phase, nextCommit)
  /\ CommitsInCallOrder
  /\ ResolvedAreCommittedPrefix
  /\ FailureLeavesNoCallerWaiting
  /\ \A i \in Calls :
       /\ outcome[i] = "rejected" => failed
       /\ i < nextCommit => outcome[i] # "pending"

IInv == TypeOK /\ SlotInv /\ RegisteredInOrder /\ CommitInv

------------------------------------------------------------------------------
(* Finite sets of calls. *)

\* Every set of calls is finite, and its size is a number.
LEMMA CallsFinite ==
  ASSUME NEW S \in SUBSET Calls
  PROVE  IsFiniteSet(S) /\ Cardinality(S) \in Nat
<1>1. IsFiniteSet(Calls)
  BY FS_Interval, SchedulerAssumption DEF Calls
<1> QED
  BY <1>1, FS_Subset, FS_CardinalityType

\* A nonempty set of calls has a last element.
LEMMA LastOf ==
  ASSUME NEW S \in SUBSET Calls, S # {}
  PROVE  \E m \in S : \A x \in S : x <= m
<1> DEFINE Bounds == {n \in Nat : \A x \in S : x <= n}
<1>1. Bounds # {}
  BY SchedulerAssumption DEF Calls
<1>2. PICK m \in Bounds : \A n \in Bounds : ~(<<n, m>> \in OpToRel(<, Nat))
  <2>1. Bounds \subseteq Nat
    OBVIOUS
  <2> QED
    BY <1>1, <2>1, WFMin, NatLessThanWellFounded
<1>3. \A n \in Bounds : ~(n < m)
  BY <1>2 DEF OpToRel
<1>4. m \in S
  <2> SUFFICES ASSUME m \notin S PROVE FALSE
    OBVIOUS
  <2>1. m \in Nat /\ \A x \in S : x \in Nat /\ x >= 1 /\ x <= m - 1
    BY DEF Calls
  <2>2. m - 1 \in Bounds
    BY <2>1
  <2> QED
    BY <2>1, <2>2, <1>3
<1> QED
  BY <1>4

------------------------------------------------------------------------------
(* What #pump starts. *)

\* #pump starts either one exclusive body when every slot is free, or safe
\* bodies that fit in the slots that are left.
LEMMA PumpStartsFit ==
  ASSUME kind \in [Calls -> Kinds],
         NEW p \in [Calls -> Phases],
         NEW safe \in Nat, NEW exclusive \in BOOLEAN, NEW fail \in BOOLEAN,
         safe <= MaxSafe,
         NEW S, S = PumpStarts(p, safe, exclusive, fail)
  PROVE  /\ S \subseteq Waiting(p)
         /\ S # {} => ~exclusive
         /\ \/ \E i \in Calls : S = {i} /\ kind[i] = "exclusive" /\ safe = 0
            \/ \A i \in S : kind[i] = "safe"
         /\ (\A i \in S : kind[i] = "safe") => safe + Cardinality(S) <= MaxSafe
         /\ \A i \in S : \A j \in Waiting(p) : j < i => j \in S
<1>a. MaxSafe \in Nat
  BY SchedulerAssumption
<1>1. S \subseteq Waiting(p) /\ (S # {} => ~exclusive) /\ S \subseteq Calls
  BY DEF PumpStarts, Waiting
<1>2. CASE \E i \in S : kind[i] = "exclusive"
  <2>1. PICK i \in S : kind[i] = "exclusive"
    BY <1>2
  <2>2. IsFirst(Waiting(p), i) /\ safe = 0 /\ p[i] = "queued"
    BY <2>1, <1>1 DEF PumpStarts, StartsExclusive, StartsSafe, SafeRun, Waiting, Calls
  <2>3. SafeRun(p) = {}
    BY <2>1, <2>2 DEF SafeRun, IsFirst, Waiting
  <2>4. \A j \in S : IsFirst(Waiting(p), j)
    BY <2>3 DEF PumpStarts, StartsExclusive, StartsSafe
  <2>5. S = {i}
    BY <2>2, <2>4, <1>1 DEF IsFirst, Calls
  <2> QED
    BY <1>1, <2>1, <2>2, <2>5 DEF IsFirst, Calls
<1>3. CASE \A i \in S : kind[i] = "safe"
  <2> DEFINE Before(i) == {j \in SafeRun(p) : j < i}
  <2>1. S \subseteq SafeRun(p)
        /\ \A i \in S : safe + Cardinality(Before(i)) < MaxSafe
    BY <1>3 DEF PumpStarts, StartsExclusive, StartsSafe
  <2>2. SafeRun(p) \in SUBSET Calls
    BY DEF SafeRun, Waiting
  <2>3. safe + Cardinality(S) <= MaxSafe
    <3>1. CASE S = {}
      BY <3>1, FS_EmptySet, <1>a
    <3>2. CASE S # {}
      <4>1. PICK m \in S : \A x \in S : x <= m
        BY <3>2, <1>1, LastOf
      <4>2. S \subseteq Before(m) \cup {m}
        BY <4>1, <2>1, <2>2 DEF Calls
      <4>3. Before(m) \in SUBSET Calls
        BY <2>2
      <4>4. Cardinality(Before(m) \cup {m}) = Cardinality(Before(m)) + 1
            /\ IsFiniteSet(Before(m) \cup {m})
        <5>1. m \notin Before(m)
          BY <4>1, <1>1 DEF Calls
        <5> QED
          BY <5>1, <4>3, CallsFinite, FS_AddElement
      <4>5. Cardinality(S) <= Cardinality(Before(m)) + 1
        BY <4>2, <4>4, FS_Subset
      <4>6. Cardinality(S) \in Nat /\ Cardinality(Before(m)) \in Nat
        BY <4>3, <1>1, CallsFinite
      <4>7. safe + Cardinality(Before(m)) < MaxSafe
        BY <2>1, <4>1
      <4> QED
        BY <4>5, <4>6, <4>7, <1>a
    <3> QED
      BY <3>1, <3>2
  <2>4. \A i \in S : \A j \in Waiting(p) : j < i => j \in S
    <3> SUFFICES ASSUME NEW i \in S, NEW j \in Waiting(p), j < i
                 PROVE  j \in S
      OBVIOUS
    <3>1. j \in SafeRun(p) /\ i \in SafeRun(p)
      BY <2>1 DEF SafeRun, Waiting, Calls
    <3>2. Before(j) \subseteq Before(i)
      BY <2>2, <1>1 DEF Calls, Waiting
    <3>3. Cardinality(Before(j)) <= Cardinality(Before(i))
          /\ Cardinality(Before(j)) \in Nat /\ Cardinality(Before(i)) \in Nat
      <4>1. Before(i) \in SUBSET Calls /\ Before(j) \in SUBSET Calls
        BY <2>2
      <4> QED
        BY <4>1, <3>2, CallsFinite, FS_Subset
    <3>4. safe + Cardinality(Before(i)) < MaxSafe
      BY <2>1
    <3>5. safe + Cardinality(Before(j)) < MaxSafe
      BY <3>3, <3>4, <1>a
    <3>6. ~fail /\ ~exclusive
      BY DEF PumpStarts
    <3> QED
      BY <3>1, <3>5, <3>6 DEF PumpStarts, StartsSafe
  <2> QED
    BY <1>1, <1>3, <2>3, <2>4
<1> QED
  BY <1>1, <1>2, <1>3 DEF Kinds

\* #pump keeps the facts about slots and only turns waiting entries into
\* running ones.
LEMMA PumpKeepsSlots ==
  ASSUME kind \in [Calls -> Kinds], kind' = kind,
         NEW p \in [Calls -> Phases],
         NEW safe \in Nat, NEW exclusive \in BOOLEAN, NEW fail \in BOOLEAN,
         SlotFacts(p, safe, exclusive),
         Pump(p, safe, exclusive, fail)
  PROVE  /\ SlotInv'
         /\ phase' \in [Calls -> Phases]
         /\ runningSafe' \in Nat /\ exclusiveRunning' \in BOOLEAN
         /\ \A i \in Calls :
              \/ phase'[i] = p[i]
              \/ p[i] \in {"registered", "queued"} /\ phase'[i] = "running"
<1> DEFINE S == PumpStarts(p, safe, exclusive, fail)
           T(k) == {i \in S : kind[i] = k}
<1>a. MaxSafe \in Nat
  BY SchedulerAssumption
<1>1. /\ S \subseteq Waiting(p)
      /\ S # {} => ~exclusive
      /\ \/ \E i \in Calls : S = {i} /\ kind[i] = "exclusive" /\ safe = 0
         \/ \A i \in S : kind[i] = "safe"
      /\ (\A i \in S : kind[i] = "safe") => safe + Cardinality(S) <= MaxSafe
  BY PumpStartsFit DEF SlotFacts
<1>2. /\ phase' = [i \in Calls |-> IF i \in S THEN "running" ELSE p[i]]
      /\ runningSafe' = safe + Cardinality(T("safe"))
      /\ exclusiveRunning' = (exclusive \/ \E i \in S : kind[i] = "exclusive")
  BY DEF Pump
<1>3. S \subseteq Calls /\ \A i \in S : p[i] \in {"registered", "queued"}
  BY <1>1 DEF Waiting
<1>4. /\ phase' \in [Calls -> Phases]
      /\ \A i \in Calls :
              \/ phase'[i] = p[i]
              \/ p[i] \in {"registered", "queued"} /\ phase'[i] = "running"
  BY <1>2, <1>3 DEF Phases
<1>5. runningSafe' \in Nat /\ exclusiveRunning' \in BOOLEAN
  <2>1. Cardinality(T("safe")) \in Nat
    BY <1>3, CallsFinite
  <2> QED
    BY <2>1, <1>2
<1>6. ASSUME NEW k \in Kinds
      PROVE  SlotsTaken(phase, k)' = SlotsTaken(p, k) \cup T(k)
  BY <1>2, <1>3 DEF SlotsTaken
<1>7. \A k \in Kinds : SlotsTaken(p, k) \cap T(k) = {}
  BY <1>3 DEF SlotsTaken
<1>8. runningSafe' = Cardinality(SlotsTaken(phase, "safe")')
  <2>1. SlotsTaken(p, "safe") \in SUBSET Calls /\ T("safe") \in SUBSET Calls
    BY <1>3 DEF SlotsTaken
  <2>2. Cardinality(SlotsTaken(p, "safe") \cup T("safe"))
          = Cardinality(SlotsTaken(p, "safe")) + Cardinality(T("safe"))
    <3>1. Cardinality(SlotsTaken(p, "safe") \cap T("safe")) = 0
      BY <1>7, FS_EmptySet DEF Kinds
    <3> QED
      BY <3>1, <2>1, CallsFinite, FS_Union, SMTT(20)
  <2>3. safe = Cardinality(SlotsTaken(p, "safe"))
    BY DEF SlotFacts
  <2> QED
    BY <2>2, <2>3, <1>2, <1>6 DEF Kinds
<1>9. exclusiveRunning' <=> SlotsTaken(phase, "exclusive")' # {}
  BY <1>2, <1>6 DEF Kinds, SlotFacts
<1>10. \A i \in SlotsTaken(phase, "exclusive")' :
         \A j \in SlotsTaken(phase, "exclusive")' \cup SlotsTaken(phase, "safe")' :
           i = j
  <2>1. CASE \A i \in S : kind[i] = "safe"
    <3>1. T("exclusive") = {}
      BY <2>1
    <3>2. CASE S = {}
      <4>1. SlotsTaken(phase, "exclusive")' = SlotsTaken(p, "exclusive")
            /\ SlotsTaken(phase, "safe")' = SlotsTaken(p, "safe")
        BY <3>2, <1>6 DEF Kinds
      <4> QED
        BY <4>1 DEF SlotFacts
    <3>3. CASE S # {}
      BY <3>3, <3>1, <1>1, <1>6 DEF SlotFacts, Kinds
    <3> QED
      BY <3>2, <3>3
  <2>2. CASE \E i \in Calls : S = {i} /\ kind[i] = "exclusive" /\ safe = 0
    <3>1. SlotsTaken(p, "safe") = {}
      <4>1. SlotsTaken(p, "safe") \in SUBSET Calls
        BY DEF SlotsTaken
      <4> QED
        BY <4>1, <2>2, CallsFinite, FS_EmptySet DEF SlotFacts
    <3>2. SlotsTaken(p, "exclusive") = {}
      BY <2>2, <1>1 DEF SlotFacts
    <3>3. T("safe") = {} /\ \A i, j \in T("exclusive") : i = j
      BY <2>2
    <3> QED
      BY <3>1, <3>2, <3>3, <1>6 DEF Kinds
  <2> QED
    BY <2>1, <2>2, <1>1
<1>11. runningSafe' <= MaxSafe
  <2>1. CASE \A i \in S : kind[i] = "safe"
    <3>1. T("safe") = S
      BY <2>1
    <3> QED
      BY <3>1, <2>1, <1>1, <1>2
  <2>2. CASE \E i \in Calls : S = {i} /\ kind[i] = "exclusive" /\ safe = 0
    <3>1. T("safe") = {}
      BY <2>2
    <3>2. Cardinality(T("safe")) = 0
      BY <3>1, FS_EmptySet
    <3> QED
      BY <3>2, <2>2, <1>2, <1>a
  <2> QED
    BY <2>1, <2>2, <1>1
<1> QED
  BY <1>4, <1>5, <1>8, <1>9, <1>10, <1>11 DEF SlotInv, SlotFacts

------------------------------------------------------------------------------
(* Invariance. *)

\* #fail rejects promises and does nothing else to them.
LEMMA FailTypes ==
  ASSUME TypeOK, Fail
  PROVE  /\ failed' = TRUE
         /\ outcome' \in [Calls -> {"pending", "resolved", "rejected"}]
  BY DEF Fail, TypeOK

\* The type invariant, the slots and the registration order hold initially.
LEMMA InitIInv == Init => IInv
<1> SUFFICES ASSUME Init PROVE IInv
  OBVIOUS
<1>1. TypeOK
  <2>1. commits \in Seq(Calls)
    BY DEF Init
  <2>2. /\ kind \in [Calls -> Kinds] /\ phase \in [Calls -> Phases]
        /\ outcome \in [Calls -> {"pending", "resolved", "rejected"}]
    BY DEF Init, Kinds, Phases
  <2>3. /\ runningSafe \in Nat /\ exclusiveRunning \in BOOLEAN
        /\ nextCommit \in Nat \ {0}
        /\ committing \in BOOLEAN /\ failed \in BOOLEAN
    <3>1. nextCommit = 1 /\ runningSafe = 0
      BY DEF Init
    <3>2. exclusiveRunning \in BOOLEAN /\ committing \in BOOLEAN /\ failed \in BOOLEAN
      BY DEF Init
    <3> QED
      BY <3>1, <3>2
  <2> QED
    BY <2>1, <2>2, <2>3 DEF TypeOK
<1>2. SlotInv
  <2>1. SlotsTaken(phase, "safe") = {} /\ SlotsTaken(phase, "exclusive") = {}
    BY DEF Init, SlotsTaken
  <2> QED
    BY <2>1, FS_EmptySet, SchedulerAssumption DEF Init, SlotInv, SlotFacts
<1>3. RegisteredInOrder
  BY DEF Init, RegisteredInOrder
<1>4. CommitInv
  BY DEF Init, CommitInv, CommitsInCallOrder, ResolvedAreCommittedPrefix,
         FailureLeavesNoCallerWaiting, Calls
<1> QED
  BY <1>1, <1>2, <1>3, <1>4 DEF IInv

\* A step that leaves the counters and the sets of taken slots alone keeps the
\* facts about slots.
LEMMA SlotsUntouched ==
  ASSUME SlotInv,
         \A k \in Kinds : SlotsTaken(phase, k)' = SlotsTaken(phase, k),
         runningSafe' = runningSafe, exclusiveRunning' = exclusiveRunning
  PROVE  SlotInv'
  BY DEF SlotInv, SlotFacts, Kinds

\* The step pumps from entries p and counters that satisfy the facts about
\* slots and agree with the current entries on what is free and what runs.
PumpsFrom ==
  \E p \in [Calls -> Phases], safe \in Nat, exclusive \in BOOLEAN :
    /\ SlotFacts(p, safe, exclusive)
    /\ Pump(p, safe, exclusive, failed)
    /\ \A j \in Calls : /\ phase[j] = "free" <=> p[j] = "free"
                        /\ phase[j] = "running" <=> p[j] = "running"
    /\ kind' = kind

\* The three operations that end in #pump call it in such a state.
LEMMA PumpingSteps ==
  ASSUME IInv, NEW i \in Calls, Execute(i) \/ Complete(i) \/ BodySettles(i)
  PROVE  PumpsFrom
<1> USE DEF IInv
<1>1. CASE Execute(i)
  <2> DEFINE p == [phase EXCEPT ![i] = "queued"]
  <2>1. p \in [Calls -> Phases] /\ \A j \in Calls :
         /\ phase[j] = "free" <=> p[j] = "free"
         /\ phase[j] = "running" <=> p[j] = "running"
    BY <1>1 DEF Execute, TypeOK, Phases
  <2>2. SlotFacts(p, runningSafe, exclusiveRunning)
    <3>1. \A k \in Kinds : SlotsTaken(p, k) = SlotsTaken(phase, k)
      BY <1>1 DEF Execute, TypeOK, SlotsTaken
    <3> QED
      BY <3>1 DEF SlotInv, SlotFacts, Kinds
  <2>3. Pump(p, runningSafe, exclusiveRunning, failed) /\ kind' = kind
    BY <1>1 DEF Execute
  <2> HIDE DEF p
  <2>4. runningSafe \in Nat /\ exclusiveRunning \in BOOLEAN
    BY DEF TypeOK
  <2> QED
    BY <2>1, <2>2, <2>3, <2>4, Zenon DEF PumpsFrom
<1>2. CASE Complete(i)
  <2> DEFINE p == [phase EXCEPT ![i] = "completed"]
  <2>1. p \in [Calls -> Phases] /\ \A j \in Calls :
         /\ phase[j] = "free" <=> p[j] = "free"
         /\ phase[j] = "running" <=> p[j] = "running"
    BY <1>2 DEF Complete, TypeOK, Phases
  <2>2. SlotFacts(p, runningSafe, exclusiveRunning)
    <3>1. \A k \in Kinds : SlotsTaken(p, k) = SlotsTaken(phase, k)
      BY <1>2 DEF Complete, TypeOK, SlotsTaken
    <3> QED
      BY <3>1 DEF SlotInv, SlotFacts, Kinds
  <2>3. Pump(p, runningSafe, exclusiveRunning, failed) /\ kind' = kind
    BY <1>2 DEF Complete, CommitReady, TypeOK
  <2> HIDE DEF p
  <2>4. runningSafe \in Nat /\ exclusiveRunning \in BOOLEAN
    BY DEF TypeOK
  <2> QED
    BY <2>1, <2>2, <2>3, <2>4, Zenon DEF PumpsFrom
<1>3. CASE BodySettles(i)
  <2> DEFINE p == [phase EXCEPT ![i] = "settled"]
             safe == SafeAfter(i)
             excl == ExclusiveAfter(i)
  <2>1. p \in [Calls -> Phases] /\ \A j \in Calls :
         /\ phase[j] = "free" <=> p[j] = "free"
         /\ phase[j] = "running" <=> p[j] = "running"
    BY <1>3 DEF BodySettles, TypeOK, Phases
  <2>2. i \in SlotsTaken(phase, kind[i]) /\ kind[i] \in Kinds
    BY <1>3 DEF BodySettles, SlotsTaken, TypeOK
  <2>3. SlotsTaken(p, kind[i]) = SlotsTaken(phase, kind[i]) \ {i}
    BY DEF TypeOK, SlotsTaken
  <2>4. \A k \in Kinds : k # kind[i] => SlotsTaken(p, k) = SlotsTaken(phase, k)
    BY DEF TypeOK, SlotsTaken
  <2>5. SlotFacts(p, safe, excl) /\ safe \in Nat /\ excl \in BOOLEAN
    <3>1. CASE kind[i] = "safe"
      <4>1. SlotsTaken(phase, "safe") \in SUBSET Calls
        BY DEF SlotsTaken
      <4>2. runningSafe # 0
        BY <3>1, <4>1, <2>2, CallsFinite, FS_EmptySet DEF SlotInv, SlotFacts
      <4>3. Cardinality(SlotsTaken(p, "safe")) = runningSafe - 1
        <5>1. IsFiniteSet(SlotsTaken(phase, "safe")) /\ i \in SlotsTaken(phase, "safe")
          BY <3>1, <4>1, <2>2, CallsFinite
        <5>2. SlotsTaken(p, "safe") = SlotsTaken(phase, "safe") \ {i}
          BY <3>1, <2>3
        <5>3. Cardinality(SlotsTaken(phase, "safe") \ {i})
                = Cardinality(SlotsTaken(phase, "safe")) - 1
          BY <5>1, FS_RemoveElement
        <5> HIDE DEF p
        <5> QED
          BY <5>2, <5>3 DEF SlotInv, SlotFacts
      <4>4. SlotsTaken(p, "exclusive") = SlotsTaken(phase, "exclusive")
        BY <2>4, <3>1 DEF Kinds
      <4>5. SlotsTaken(p, "safe") \subseteq SlotsTaken(phase, "safe")
        BY <2>3, <3>1
      <4>6. runningSafe \in Nat /\ MaxSafe \in Nat
        BY SchedulerAssumption DEF TypeOK
      <4>7. runningSafe - 1 \in Nat /\ runningSafe - 1 <= MaxSafe
        BY <4>2, <4>6 DEF SlotInv, SlotFacts
      <4>8. safe = runningSafe - 1 /\ excl = exclusiveRunning
        BY <3>1 DEF SafeAfter, ExclusiveAfter, TypeOK
      <4>9. exclusiveRunning \in BOOLEAN
        BY DEF TypeOK
      <4> HIDE DEF p, safe, excl
      <4> QED
        BY <4>3, <4>4, <4>5, <4>7, <4>8, <4>9 DEF SlotInv, SlotFacts
    <3>2. CASE kind[i] = "exclusive"
      <4>1. SlotsTaken(p, "exclusive") = {}
        BY <3>2, <2>2, <2>3 DEF SlotInv, SlotFacts
      <4>2. SlotsTaken(p, "safe") = SlotsTaken(phase, "safe")
        BY <2>4, <3>2 DEF Kinds
      <4>3. safe = runningSafe /\ excl = FALSE
        BY <3>2 DEF SafeAfter, ExclusiveAfter, TypeOK
      <4> HIDE DEF p, safe, excl
      <4> QED
        BY <4>1, <4>2, <4>3 DEF SlotInv, SlotFacts, TypeOK
    <3> QED
      BY <3>1, <3>2, <2>2 DEF Kinds
  <2>6. Pump(p, safe, excl, failed) /\ kind' = kind
    BY <1>3 DEF BodySettles
  <2> HIDE DEF p, safe, excl
  <2> QED
    BY <2>1, <2>5, <2>6, Zenon DEF PumpsFrom
<1> QED
  BY <1>1, <1>2, <1>3

\* Every step keeps the types, the facts about slots and the order of
\* registration.
LEMMA StepSlots ==
  ASSUME IInv, [Next]_vars
  PROVE  TypeOK' /\ SlotInv' /\ RegisteredInOrder'
<1> USE DEF IInv
<1>0. CASE UNCHANGED vars
  BY <1>0 DEF vars, TypeOK, SlotInv, SlotFacts, SlotsTaken, RegisteredInOrder
<1>1. ASSUME NEW i \in Calls, NEW k \in Kinds, Register(i, k)
      PROVE  TypeOK' /\ SlotInv' /\ RegisteredInOrder'
  <2>1. TypeOK'
    BY <1>1 DEF Register, TypeOK, Phases
  <2>2. \A l \in Kinds : SlotsTaken(phase, l)' = SlotsTaken(phase, l)
    BY <1>1 DEF Register, TypeOK, SlotsTaken
  <2>3. SlotInv'
    BY <1>1, <2>2, SlotsUntouched DEF Register
  <2>4. RegisteredInOrder'
    BY <1>1 DEF Register, TypeOK, RegisteredInOrder, Calls
  <2> QED
    BY <2>1, <2>3, <2>4
<1>2. ASSUME NEW i \in Calls, Execute(i) \/ Complete(i) \/ BodySettles(i)
      PROVE  TypeOK' /\ SlotInv' /\ RegisteredInOrder'
  <2>1. PICK p \in [Calls -> Phases], safe \in Nat, exclusive \in BOOLEAN :
          /\ SlotFacts(p, safe, exclusive)
          /\ Pump(p, safe, exclusive, failed)
          /\ \A j \in Calls : phase[j] = "free" <=> p[j] = "free"
          /\ kind' = kind
    BY <1>2, PumpingSteps DEF PumpsFrom
  <2>2. /\ committing' \in BOOLEAN
        /\ UNCHANGED <<nextCommit, failed, outcome, commits>>
    BY <1>2 DEF Execute, Complete, BodySettles, CommitReady, TypeOK
  <2> QED
    BY <2>1, <2>2, PumpKeepsSlots DEF TypeOK, RegisteredInOrder
<1>4. ASSUME NEW i \in Calls, BodyReturns(i)
      PROVE  TypeOK' /\ SlotInv' /\ RegisteredInOrder'
  <2>1. TypeOK'
    BY <1>4 DEF BodyReturns, CommitReady, TypeOK, Phases
  <2>2. \A k \in Kinds : SlotsTaken(phase, k)' = SlotsTaken(phase, k)
    BY <1>4 DEF BodyReturns, TypeOK, SlotsTaken
  <2> QED
    BY <1>4, <2>1, <2>2, SlotsUntouched DEF BodyReturns, TypeOK, RegisteredInOrder
<1>6. ASSUME NEW i \in Calls, BodyThrows(i)
      PROVE  TypeOK' /\ SlotInv' /\ RegisteredInOrder'
  <2>1. TypeOK'
    BY <1>6, FailTypes DEF BodyThrows, TypeOK, Phases
  <2>2. \A k \in Kinds : SlotsTaken(phase, k)' = SlotsTaken(phase, k)
    BY <1>6 DEF BodyThrows, TypeOK, SlotsTaken
  <2> QED
    BY <1>6, <2>1, <2>2, SlotsUntouched DEF BodyThrows, TypeOK, RegisteredInOrder
<1>7. ASSUME NEW i \in Calls, SettleThrows(i)
      PROVE  TypeOK' /\ SlotInv' /\ RegisteredInOrder'
  <2>1. TypeOK'
    BY <1>7, FailTypes DEF SettleThrows, TypeOK, Phases
  <2>2. \A k \in Kinds : SlotsTaken(phase, k)' = SlotsTaken(phase, k)
    BY <1>7 DEF SettleThrows, TypeOK, SlotsTaken
  <2> QED
    BY <1>7, <2>1, <2>2, SlotsUntouched DEF SettleThrows, TypeOK, RegisteredInOrder
<1>8. CASE CommitResolves
  <2>1. nextCommit \in Calls
    BY <1>8 DEF CommitResolves, CommitInv, Committable
  <2>2. TypeOK'
    BY <1>8, <2>1 DEF CommitResolves, Committable, Ready, TypeOK
  <2>3. \A k \in Kinds : SlotsTaken(phase, k)' = SlotsTaken(phase, k)
    BY <1>8 DEF CommitResolves, SlotsTaken
  <2> QED
    BY <1>8, <2>2, <2>3, SlotsUntouched DEF CommitResolves, RegisteredInOrder
<1>9. CASE CommitThrows
  <2>1. TypeOK'
    BY <1>9, FailTypes DEF CommitThrows, TypeOK
  <2>2. \A k \in Kinds : SlotsTaken(phase, k)' = SlotsTaken(phase, k)
    BY <1>9 DEF CommitThrows, SlotsTaken
  <2> QED
    BY <1>9, <2>1, <2>2, SlotsUntouched DEF CommitThrows, RegisteredInOrder
<1> QED
  BY <1>0, <1>1, <1>2, <1>4, <1>6, <1>7, <1>8, <1>9 DEF Next

\* What #fail leaves in the promises of the entries.
LEMMA FailOutcomes ==
  ASSUME TypeOK, CommitInv, Fail
  PROVE  /\ failed'
         /\ \A i \in Calls :
              /\ phase[i] # "free" => outcome'[i] # "pending"
              /\ i < nextCommit => outcome'[i] = outcome[i]
              /\ outcome'[i] = "resolved" => outcome[i] = "resolved"
<1> USE DEF Fail, TypeOK, CommitInv, FailureLeavesNoCallerWaiting, Registered
<1>1. failed'
  OBVIOUS
<1>2. ASSUME NEW i \in Calls
      PROVE  /\ phase[i] # "free" => outcome'[i] # "pending"
             /\ i < nextCommit => outcome'[i] = outcome[i]
             /\ outcome'[i] = "resolved" => outcome[i] = "resolved"
  <2>1. i \in Nat /\ nextCommit \in Nat
    BY DEF Calls
  <2>2. outcome'[i] = IF ~failed /\ phase[i] # "free" /\ i >= nextCommit
                        THEN "rejected" ELSE outcome[i]
    OBVIOUS
  <2> QED
    BY <2>1, <2>2
<1> QED
  BY <1>1, <1>2

\* Every step keeps the facts about commits and promises.
LEMMA StepCommits ==
  ASSUME IInv, [Next]_vars
  PROVE  CommitInv'
<1> USE DEF IInv
<1>t. TypeOK' /\ RegisteredInOrder'
  BY StepSlots
<1> DEFINE
      Stays == /\ CommitsInCallOrder
               /\ ResolvedAreCommittedPrefix
               /\ \A i \in Calls :
                    /\ outcome[i] = "rejected" => failed
                    /\ i < nextCommit => outcome[i] # "pending"
<1>a. Stays
  BY DEF CommitInv
\* Steps that leave nextCommit, the promises and the failure alone.
<1>b. ASSUME UNCHANGED <<nextCommit, failed, outcome, commits>>,
             committing' => Committable(phase', nextCommit),
             failed => \A i \in Calls : phase'[i] = "free" <=> phase[i] = "free"
      PROVE  CommitInv'
  <2>1. Stays'
    BY <1>a, <1>b DEF CommitsInCallOrder, ResolvedAreCommittedPrefix
  <2>2. FailureLeavesNoCallerWaiting'
    BY <1>b DEF CommitInv, FailureLeavesNoCallerWaiting, Registered
  <2>3. committing' => Committable(phase', nextCommit')
    BY <1>b
  <2> QED
    BY <2>1, <2>2, <2>3 DEF CommitInv
\* A ready entry stays ready as long as its phase only goes on.
<1>c. ASSUME \A i \in Calls : Ready(phase, i) => Ready(phase', i)
      PROVE  committing => Committable(phase', nextCommit)
  BY <1>c DEF CommitInv, Committable
<1>d. ASSUME NEW p, CommitReady(p),
             \A i \in Calls : Ready(phase, i) => Ready(p, i),
             \A i \in Calls : Ready(p, i) => Ready(phase', i)
      PROVE  committing' => Committable(phase', nextCommit)
  <2>1. committing' => committing \/ Committable(p, nextCommit)
    BY <1>d DEF CommitReady, TypeOK
  <2> QED
    BY <2>1, <1>d, <1>c DEF Committable
<1>0. CASE UNCHANGED vars
  BY <1>0, <1>b DEF vars, CommitInv
<1>1. ASSUME NEW i \in Calls, NEW k \in Kinds, Register(i, k)
      PROVE  CommitInv'
  <2>1. \A j \in Calls : Ready(phase, j) => Ready(phase', j)
    BY <1>1 DEF Register, TypeOK, Ready
  <2> QED
    BY <1>1, <1>b, <1>c, <2>1 DEF Register
<1>2. ASSUME NEW i \in Calls, Execute(i)
      PROVE  CommitInv'
  <2> DEFINE p == [phase EXCEPT ![i] = "queued"]
  <2>1. \A j \in Calls : phase'[j] = IF j \in PumpStarts(p, runningSafe, exclusiveRunning, failed)
                                       THEN "running" ELSE p[j]
    BY <1>2 DEF Execute, Pump
  <2>2. failed => \A j \in Calls : phase'[j] = p[j]
    BY <2>1 DEF PumpStarts
  <2>3. \A j \in Calls : Ready(phase, j) => Ready(phase', j)
    BY <1>2, <2>1 DEF Execute, TypeOK, Ready, PumpStarts, Waiting
  <2>4. failed => \A j \in Calls : phase'[j] = "free" <=> phase[j] = "free"
    BY <2>2, <1>2 DEF Execute, TypeOK
  <2> QED
    BY <1>2, <1>b, <1>c, <2>3, <2>4 DEF Execute
<1>3. ASSUME NEW i \in Calls, Complete(i)
      PROVE  CommitInv'
  <2> DEFINE p == [phase EXCEPT ![i] = "completed"]
  <2>1. \A j \in Calls : phase'[j] = IF j \in PumpStarts(p, runningSafe, exclusiveRunning, failed)
                                       THEN "running" ELSE p[j]
    BY <1>3 DEF Complete, Pump
  <2>2. failed => \A j \in Calls : phase'[j] = p[j]
    BY <2>1 DEF PumpStarts
  <2>3. \A j \in Calls : Ready(phase, j) => Ready(p, j)
    BY DEF TypeOK, Ready
  <2>4. \A j \in Calls : Ready(p, j) => Ready(phase', j)
    BY <2>1 DEF Ready, PumpStarts, Waiting
  <2>5. failed => \A j \in Calls : phase'[j] = "free" <=> phase[j] = "free"
    BY <2>2, <1>3 DEF Complete, TypeOK
  <2>6. CommitReady(p) /\ UNCHANGED <<nextCommit, failed, outcome, commits>>
    BY <1>3 DEF Complete
  <2> HIDE DEF p
  <2> QED
    BY <1>b, <1>d, <2>3, <2>4, <2>5, <2>6
<1>4. ASSUME NEW i \in Calls, BodyReturns(i)
      PROVE  CommitInv'
  <2>1. \A j \in Calls : Ready(phase, j) => Ready(phase', j)
    BY <1>4 DEF BodyReturns, TypeOK, Ready
  <2>2. CommitReady(phase')
    BY <1>4 DEF BodyReturns
  <2>3. \A j \in Calls : phase'[j] = "free" <=> phase[j] = "free"
    BY <1>4 DEF BodyReturns, TypeOK
  <2>4. UNCHANGED <<nextCommit, failed, outcome, commits>>
    BY <1>4 DEF BodyReturns
  <2> QED
    BY <1>b, <1>d, <2>1, <2>2, <2>3, <2>4
<1>5. ASSUME NEW i \in Calls, BodySettles(i)
      PROVE  CommitInv'
  <2> DEFINE p == [phase EXCEPT ![i] = "settled"]
  <2>1. PICK safe, excl : Pump(p, safe, excl, failed)
    BY <1>5 DEF BodySettles
  <2>2. \A j \in Calls : phase'[j] = IF j \in PumpStarts(p, safe, excl, failed)
                                       THEN "running" ELSE p[j]
    BY <2>1 DEF Pump
  <2>3. failed => \A j \in Calls : phase'[j] = p[j]
    BY <2>2 DEF PumpStarts
  <2>4. \A j \in Calls : Ready(phase, j) => Ready(phase', j)
    BY <1>5, <2>2 DEF BodySettles, TypeOK, Ready, PumpStarts, Waiting
  <2>5. failed => \A j \in Calls : phase'[j] = "free" <=> phase[j] = "free"
    BY <2>3, <1>5 DEF BodySettles, TypeOK
  <2> QED
    BY <1>5, <1>b, <1>c, <2>4, <2>5 DEF BodySettles
<1>6. ASSUME Fail, UNCHANGED <<nextCommit, commits>>,
             committing' => committing,
             \A i \in Calls : Ready(phase, i) => Ready(phase', i),
             \A i \in Calls : phase'[i] = "free" <=> phase[i] = "free"
      PROVE  CommitInv'
  <2>1. committing' => Committable(phase', nextCommit')
    BY <1>6, <1>c
  <2>2. CommitsInCallOrder'
    BY <1>6, <1>a DEF CommitsInCallOrder
  <2>3. ResolvedAreCommittedPrefix'
    <3> SUFFICES ASSUME NEW i \in Calls, outcome'[i] = "resolved",
                        NEW j \in 1 .. i
                 PROVE  outcome'[j] = "resolved" /\ j < nextCommit'
      BY DEF ResolvedAreCommittedPrefix
    <3>1. outcome[i] = "resolved"
      BY <1>6, FailOutcomes
    <3>2. outcome[j] = "resolved" /\ j < nextCommit
      BY <3>1, <1>a DEF ResolvedAreCommittedPrefix
    <3>3. j \in Calls
      BY SchedulerAssumption DEF Calls
    <3> QED
      BY <3>2, <3>3, <1>6, FailOutcomes
  <2>4. FailureLeavesNoCallerWaiting'
    BY <1>6, FailOutcomes DEF FailureLeavesNoCallerWaiting, Registered
  <2>5. \A i \in Calls : /\ outcome'[i] = "rejected" => failed'
                         /\ i < nextCommit' => outcome'[i] # "pending"
    BY <1>6, <1>a, FailOutcomes
  <2> QED
    BY <2>1, <2>2, <2>3, <2>4, <2>5 DEF CommitInv
<1>7. ASSUME NEW i \in Calls, BodyThrows(i) \/ SettleThrows(i)
      PROVE  CommitInv'
  <2>1. Fail /\ UNCHANGED <<nextCommit, commits, committing>>
    BY <1>7 DEF BodyThrows, SettleThrows
  <2>2. \A j \in Calls : Ready(phase, j) => Ready(phase', j)
    BY <1>7 DEF BodyThrows, SettleThrows, TypeOK, Ready
  <2>3. \A j \in Calls : phase'[j] = "free" <=> phase[j] = "free"
    BY <1>7 DEF BodyThrows, SettleThrows, TypeOK
  <2> QED
    BY <1>6, <2>1, <2>2, <2>3
<1>8. CASE CommitThrows
  BY <1>8, <1>6 DEF CommitThrows
<1>9. CASE CommitResolves
  <2>1. /\ nextCommit \in Calls /\ nextCommit \in Nat /\ phase[nextCommit] # "free"
        /\ nextCommit' = nextCommit + 1 /\ failed' = failed /\ phase' = phase
    BY <1>9 DEF CommitResolves, CommitInv, Committable, Ready, TypeOK
  <2>2. committing' => Committable(phase', nextCommit')
    BY <1>9, <2>1 DEF CommitResolves
  <2>3. CommitsInCallOrder'
    <3>1. commits \in Seq(Calls) /\ commits' = Append(commits, nextCommit)
          /\ Len(commits) = nextCommit - 1
          /\ \A n \in 1 .. Len(commits) : commits[n] = n
      BY <1>9, <1>a DEF CommitResolves, TypeOK, CommitsInCallOrder
    <3>2. Len(commits') = nextCommit
      BY <3>1, <2>1
    <3>3. \A n \in 1 .. Len(commits') : commits'[n] = n
      BY <3>1, <3>2, <2>1
    <3> QED
      BY <3>2, <3>3, <2>1 DEF CommitsInCallOrder
  <2>4. /\ outcome'[nextCommit] # "pending"
        /\ outcome'[nextCommit] = "resolved"
             => outcome[nextCommit] = "pending" \/ outcome[nextCommit] = "resolved"
        /\ \A j \in Calls \ {nextCommit} : outcome'[j] = outcome[j]
        /\ \A j \in Calls : outcome'[j] = "rejected" => outcome[j] = "rejected"
        /\ \A j \in Calls : outcome[j] # "pending" => outcome'[j] = outcome[j]
    BY <1>9, <2>1 DEF CommitResolves, TypeOK
  <2>5. ResolvedAreCommittedPrefix'
    <3> SUFFICES ASSUME NEW i \in Calls, outcome'[i] = "resolved",
                        NEW j \in 1 .. i
                 PROVE  outcome'[j] = "resolved" /\ j < nextCommit'
      BY DEF ResolvedAreCommittedPrefix
    <3>1. j \in Calls /\ j \in Nat /\ i \in Nat
      BY SchedulerAssumption DEF Calls
    <3>2. CASE outcome[i] = "resolved"
      <4>1. outcome[j] = "resolved" /\ j < nextCommit
        BY <3>2, <1>a DEF ResolvedAreCommittedPrefix
      <4> QED
        BY <4>1, <3>1, <2>1, <2>4
    <3>3. CASE outcome[i] # "resolved"
      <4>1. i = nextCommit /\ outcome[i] = "pending"
        BY <3>3, <2>4
      <4>2. ~failed
        BY <4>1, <2>1 DEF CommitInv, FailureLeavesNoCallerWaiting, Registered
      <4>3. CASE j = i
        BY <4>1, <4>3, <2>1
      <4>4. CASE j < i
        <5>1. outcome[j] # "pending" /\ outcome[j] # "rejected"
          BY <4>1, <4>2, <4>4, <3>1, <1>a
        <5>2. outcome[j] = "resolved"
          BY <5>1, <3>1 DEF TypeOK
        <5> QED
          BY <5>2, <4>1, <4>4, <3>1, <2>1, <2>4
      <4> QED
        BY <4>3, <4>4, <3>1
    <3> QED
      BY <3>2, <3>3
  <2>6. FailureLeavesNoCallerWaiting'
    BY <2>1, <2>4 DEF CommitInv, FailureLeavesNoCallerWaiting, Registered
  <2>7. \A i \in Calls : /\ outcome'[i] = "rejected" => failed'
                         /\ i < nextCommit' => outcome'[i] # "pending"
    <3> SUFFICES ASSUME NEW i \in Calls
                 PROVE  /\ outcome'[i] = "rejected" => failed'
                        /\ i < nextCommit' => outcome'[i] # "pending"
      OBVIOUS
    <3>1. outcome'[i] = "rejected" => failed'
      BY <2>1, <2>4, <1>a
    <3>2. i < nextCommit' => i < nextCommit \/ i = nextCommit
      BY <2>1 DEF Calls
    <3> QED
      BY <3>1, <3>2, <2>4, <1>a
  <2> QED
    BY <2>2, <2>3, <2>5, <2>6, <2>7 DEF CommitInv
<1> QED
  BY <1>0, <1>1, <1>2, <1>3, <1>4, <1>5, <1>7, <1>8, <1>9 DEF Next

------------------------------------------------------------------------------
(* Theorems. *)

\* IInv is an invariant of the scheduler.
LEMMA Invariance == Spec => []IInv
<1>1. Init => IInv
  BY InitIInv
<1>2. IInv /\ [Next]_vars => IInv'
  BY StepSlots, StepCommits DEF IInv
<1> QED
  BY <1>1, <1>2, PTL DEF Spec

\* The scheduler's state stays well typed: in particular #runningSafe, which
\* settling bodies decrement, never goes below zero.
THEOREM TypeCorrect == Spec => []TypeOK
<1>1. IInv => TypeOK
  BY DEF IInv
<1> QED
  BY <1>1, Invariance, PTL

\* An exclusive body never overlaps another body, whatever the timeouts.
THEOREM ExclusiveAlone == Spec => []ExclusiveRunsAlone
<1>1. IInv => ExclusiveRunsAlone
  BY DEF IInv, TypeOK, SlotInv, SlotFacts, ExclusiveRunsAlone, Holds, SlotsTaken,
         Kinds
<1> QED
  BY <1>1, Invariance, PTL

\* The concurrency limit holds for bodies that run or are still stopping.
THEOREM CapacityRespected == Spec => []SafeWithinCapacity
<1> DEFINE Held == {i \in Calls : Holds(i) /\ kind[i] = "safe"}
<1>1. ASSUME IInv PROVE SafeWithinCapacity
  <2>1. SlotsTaken(phase, "safe") \in SUBSET Calls /\ Held \in SUBSET SlotsTaken(phase, "safe")
    BY DEF SlotsTaken, Holds
  <2>2. Cardinality(Held) <= Cardinality(SlotsTaken(phase, "safe"))
        /\ Cardinality(SlotsTaken(phase, "safe")) \in Nat /\ Cardinality(Held) \in Nat
    BY <2>1, CallsFinite, FS_Subset
  <2>3. Cardinality(SlotsTaken(phase, "safe")) <= MaxSafe /\ MaxSafe \in Nat
    BY <1>1, SchedulerAssumption DEF IInv, SlotInv, SlotFacts
  <2>4. Cardinality(Held) <= MaxSafe
    BY <2>2, <2>3
  <2> QED
    BY <2>4 DEF SafeWithinCapacity
<1> QED
  BY <1>1, Invariance, PTL

\* The counters #pump decides by always agree with the entries.
THEOREM CountersExact == Spec => []CountersMatchSlots
<1>1. IInv => CountersMatchSlots
  BY DEF IInv, SlotInv, SlotFacts, CountersMatchSlots
<1> QED
  BY <1>1, Invariance, PTL

\* Results are committed once each and in registration order, and a caller
\* sees its result only behind those of all earlier calls.
THEOREM CommitOrder == Spec => [](CommitsInCallOrder /\ ResolvedAreCommittedPrefix)
<1>1. IInv => CommitsInCallOrder /\ ResolvedAreCommittedPrefix
  BY DEF IInv, CommitInv
<1> QED
  BY <1>1, Invariance, PTL

\* A failure settles the promise of every registered call.
THEOREM FailureSettlesAll == Spec => []FailureLeavesNoCallerWaiting
<1>1. IInv => FailureLeavesNoCallerWaiting
  BY DEF IInv, CommitInv
<1> QED
  BY <1>1, Invariance, PTL

\* What #pump starts lies behind the barriers: every earlier entry has started
\* or is ready, and no slot is held across an exclusive boundary.
LEMMA PumpBehindBarriers ==
  ASSUME kind \in [Calls -> Kinds],
         NEW p \in [Calls -> Phases],
         NEW safe \in Nat, NEW exclusive \in BOOLEAN, NEW fail \in BOOLEAN,
         SlotFacts(p, safe, exclusive),
         \A a, b \in Calls : b < a /\ p[a] # "free" => p[b] # "free",
         Pump(p, safe, exclusive, fail),
         NEW i \in Calls, p[i] # "running", phase'[i] = "running",
         NEW j \in Calls, j < i
  PROVE  /\ phase'[j] \notin {"free", "registered", "queued"}
         /\ kind[j] = "exclusive" \/ kind[i] = "exclusive"
              => phase'[j] \notin {"running", "settling"}
<1> DEFINE S == PumpStarts(p, safe, exclusive, fail)
<1>1. /\ S \subseteq Waiting(p)
      /\ S # {} => ~exclusive
      /\ \/ \E a \in Calls : S = {a} /\ kind[a] = "exclusive" /\ safe = 0
         \/ \A a \in S : kind[a] = "safe"
      /\ \A a \in S : \A b \in Waiting(p) : b < a => b \in S
  BY PumpStartsFit DEF SlotFacts
<1>2. \A a \in Calls : phase'[a] = IF a \in S THEN "running" ELSE p[a]
  BY DEF Pump
<1>3. i \in S /\ ~exclusive
  BY <1>1, <1>2
<1>4. p[i] # "free" /\ p[j] # "free" /\ p[j] \in Phases
  BY <1>1, <1>3 DEF Waiting
<1>5. j \in S \/ j \notin Waiting(p)
  BY <1>1, <1>3
<1>6. phase'[j] \notin {"free", "registered", "queued"}
  BY <1>2, <1>4, <1>5 DEF Waiting
<1>7. SlotsTaken(p, "exclusive") = {}
  BY <1>3 DEF SlotFacts
<1>8. CASE \A a \in S : kind[a] = "safe"
  <2>1. kind[i] = "safe"
    BY <1>3, <1>8
  <2>2. kind[j] = "exclusive" => j \notin S /\ p[j] \notin {"running", "settling"}
    BY <1>7, <1>8 DEF SlotsTaken
  <2> QED
    BY <2>1, <2>2, <1>2, <1>6
<1>9. CASE \E a \in Calls : S = {a} /\ kind[a] = "exclusive" /\ safe = 0
  <2>1. SlotsTaken(p, "safe") = {}
    <3>1. SlotsTaken(p, "safe") \in SUBSET Calls
      BY DEF SlotsTaken
    <3> QED
      BY <3>1, <1>9, CallsFinite, FS_EmptySet DEF SlotFacts
  <2>2. p[j] \notin {"running", "settling"}
    BY <2>1, <1>7 DEF SlotsTaken, Kinds
  <2>3. j \notin S
    BY <1>3, <1>9 DEF Calls
  <2> QED
    BY <2>2, <2>3, <1>2, <1>6
<1> QED
  BY <1>1, <1>8, <1>9

\* A body starts only behind the barriers: the property of the run, for every
\* number of calls.
THEOREM StartsInOrder == Spec => StartsBehindBarriers
<1> DEFINE A ==
      \A i \in Calls : phase[i] # "running" /\ phase'[i] = "running" =>
        \A j \in Calls : j < i =>
          /\ phase'[j] \notin {"free", "registered", "queued"}
          /\ (kind[j] = "exclusive" \/ kind[i] = "exclusive")
               => phase'[j] \notin {"running", "settling"}
<1>1. ASSUME IInv, [Next]_vars
      PROVE  [A]_vars
  <2> SUFFICES ASSUME NEW i \in Calls, phase[i] # "running", phase'[i] = "running",
                      NEW j \in Calls, j < i
               PROVE  /\ phase'[j] \notin {"free", "registered", "queued"}
                      /\ (kind[j] = "exclusive" \/ kind[i] = "exclusive")
                           => phase'[j] \notin {"running", "settling"}
    OBVIOUS
  <2>1. PICK a \in Calls : Execute(a) \/ Complete(a) \/ BodySettles(a)
    BY <1>1 DEF Next, vars, Register, BodyReturns, BodyThrows, SettleThrows,
                CommitResolves, CommitThrows, IInv, TypeOK
  <2>2. PICK p \in [Calls -> Phases], safe \in Nat, exclusive \in BOOLEAN :
          /\ SlotFacts(p, safe, exclusive)
          /\ Pump(p, safe, exclusive, failed)
          /\ \A b \in Calls : /\ phase[b] = "free" <=> p[b] = "free"
                              /\ phase[b] = "running" <=> p[b] = "running"
    BY <1>1, <2>1, PumpingSteps DEF PumpsFrom
  <2>3. kind \in [Calls -> Kinds] /\ failed \in BOOLEAN
    BY <1>1 DEF IInv, TypeOK
  <2>4. \A b, c \in Calls : c < b /\ p[b] # "free" => p[c] # "free"
    BY <1>1, <2>2 DEF IInv, RegisteredInOrder
  <2>5. p[i] # "running"
    BY <2>2
  <2> QED
    BY <2>2, <2>3, <2>4, <2>5, PumpBehindBarriers
<1>2. Spec => [][A]_vars
  BY <1>1, Invariance, PTL DEF Spec
<1> QED
  BY <1>2 DEF StartsBehindBarriers

------------------------------------------------------------------------------
(* The history: what the validator v knows of calls and approvals. *)

\* Calls and approvals agree, approvals are named after their calls, and what is
\* unresolved belongs to the open step.  Turns are numbers.
Sound(v) ==
  /\ IsValidator(v) /\ Shaped(v)
  /\ v.lastTurn \in Nat /\ \A r \in DOMAIN v.requests : v.requests[r].turn \in Nat
  /\ DOMAIN v.calls \subseteq Ids
  /\ v.unresolved = {c \in DOMAIN v.calls : ~v.calls[c].result}
  /\ DOMAIN v.approvals \subseteq DOMAIN v.calls
  /\ \A c \in DOMAIN v.approvals : v.approvals[c] = c
  /\ \A c \in DOMAIN v.calls :
       /\ v.calls[c].approvalId = IF c \in DOMAIN v.approvals THEN c ELSE None
       /\ v.calls[c].approvalDecided => c \in DOMAIN v.approvals
  /\ v.pendingApprovals = {c \in DOMAIN v.approvals : ~v.calls[c].approvalDecided}
  /\ \A c \in v.unresolved :
       /\ v.openTurn # None
       /\ v.calls[c].turn = v.openTurn /\ v.calls[c].step = v.openStep
  /\ v.pendingRetries = {}
  /\ v.suspension # None =>
       v.openTurn # None /\ v.suspension.callIds \subseteq DOMAIN v.approvals

\* The disk d keeps a result for the calls that have one, a decision for those
\* that were decided, and only calls that ask were asked for.
Remembered(d) ==
  \A c \in Ids :
    /\ d.stored[c] # None <=> c \in DOMAIN d.v.calls /\ d.v.calls[c].result
    /\ d.told[c] # None <=> c \in DOMAIN d.v.calls /\ d.v.calls[c].approvalDecided
    /\ c \in DOMAIN d.v.approvals => tool[c].asks

IsDisk(d) ==
  /\ d = [v |-> d.v, told |-> d.told, stored |-> d.stored]
  /\ d.told \in [Ids -> Outs \cup {None}]
  /\ d.stored \in [Ids -> Answers \cup {None}]

Faithful(d) == IsDisk(d) /\ Sound(d.v) /\ Remembered(d)

\* Nothing is taken back from d to e.
Grown(d, e) ==
  /\ DOMAIN d.v.calls \subseteq DOMAIN e.v.calls
  /\ \A c \in Ids : /\ d.stored[c] # None => e.stored[c] = d.stored[c]
                    /\ d.told[c] # None => e.told[c] = d.told[c]

\* The open turn and step, and the place of each call, are the same in u and w.
Continues(u, w) ==
  /\ w.openTurn = u.openTurn /\ w.openStep = u.openStep /\ w.suspension = u.suspension
  /\ DOMAIN w.calls = DOMAIN u.calls
  /\ \A c \in DOMAIN u.calls :
       w.calls[c].turn = u.calls[c].turn /\ w.calls[c].step = u.calls[c].step

\* Undefined is no call, no result and no decision.
LEMMA Defined ==
  /\ \A c \in Ids : c # None /\ c \in Nat
  /\ \A x \in Answers : x # None
  /\ \A x \in Outs : x # None
  /\ \A x \in Registrations : x # None
  /\ \A x \in Approvals : x # None
  /\ \A x \in Owners : x # None
BY ToolsAssumption DEF Ids

\* The record of a call is taken.
LEMMA CallTaken ==
  ASSUME NEW d, Faithful(d), NEW e, e.type = "tool/call", e.callId \in Ids, Accepts(d.v, e),
         NEW f, f = [d EXCEPT !.v = Apply(d.v, e)]
  PROVE  Faithful(f) /\ Grown(d, f) /\ e.callId \in DOMAIN f.v.calls
<1> DEFINE v == d.v
           w == Apply(v, e)
           g == w.calls
           k == e.callId
<1>1. IsValidator(v) /\ Shaped(v) /\ Sound(v)
  BY DEF Faithful, Sound
<1>2. f.v = w /\ f.told = d.told /\ f.stored = d.stored /\ IsDisk(f)
  BY DEF Faithful, IsDisk
<1>3. /\ InStep(v, e) /\ k \notin DOMAIN v.calls /\ DOMAIN g = DOMAIN v.calls \cup {k}
      /\ \A c \in DOMAIN v.calls : g[c] = v.calls[c]
      /\ DOMAIN g[k] = CallFields
      /\ g[k].turn = e.turn /\ g[k].step = e.step /\ g[k].approvalId = None
      /\ ~g[k].approvalDecided /\ ~g[k].result
      /\ w.unresolved = v.unresolved \cup {k} /\ w.approvals = v.approvals
      /\ w.pendingApprovals = v.pendingApprovals
  BY <1>1, CallRecorded
<1>9. e.turn # None
  <2>1. e.requestId \in DOMAIN v.requests /\ v.requests[e.requestId].turn = e.turn
    BY Cases DEF ToolOk, ToolTypes
  <2> QED BY <1>1, <2>1, ToolsAssumption DEF Sound
<1>4. /\ w.openTurn = v.openTurn /\ w.openStep = v.openStep /\ w.suspension = v.suspension
      /\ w.lastTurn = v.lastTurn
      /\ w.requests = v.requests /\ w.retries = v.retries /\ w.pendingRetries = v.pendingRetries
  BY <1>1, FieldsStay DEF TurnTypes, StepTypes, RequestTypes, RetryTypes, TurnFields, StepFields,
                          RetryFieldsOf
<1>5. IsValidator(w)
  BY <1>1, EventTouches
<1> HIDE DEF w, g
<1>6. Shaped(w)
  BY <1>1, <1>3, <1>4 DEF Shaped, g
<1>7. Sound(w)
  BY <1>1, <1>3, <1>4, <1>5, <1>6, <1>9 DEF Sound, InStep, g
<1>8. Remembered(f)
  BY <1>2, <1>3 DEF Faithful, Remembered, Sound, g
<1> QED BY <1>2, <1>3, <1>7, <1>8 DEF Faithful, Grown, g

\* The request for its approval is taken.
LEMMA RequestTaken ==
  ASSUME NEW d, Faithful(d), NEW e, e.type = "approval/request", e.callId \in Ids,
         e.approvalId = e.callId, tool[e.callId].asks, Accepts(d.v, e),
         NEW f, f = [d EXCEPT !.v = Apply(d.v, e)]
  PROVE  Faithful(f) /\ Grown(d, f)
<1> DEFINE v == d.v
           w == Apply(v, e)
           g == w.calls
           k == e.callId
<1>1. IsValidator(v) /\ Shaped(v) /\ Sound(v)
  BY DEF Faithful, Sound
<1>2. f.v = w /\ f.told = d.told /\ f.stored = d.stored /\ IsDisk(f)
  BY DEF Faithful, IsDisk
<1>3. /\ k \in DOMAIN v.calls /\ k \notin DOMAIN v.approvals
      /\ Retouched(v.calls, g, k, "approvalId") /\ g[k].approvalId = k
      /\ w.unresolved = v.unresolved
      /\ w.approvals = Put(v.approvals, k, k)
      /\ w.pendingApprovals = v.pendingApprovals \cup {k}
  BY <1>1, ApprovalRequested
<1>4. /\ w.openTurn = v.openTurn /\ w.openStep = v.openStep /\ w.suspension = v.suspension
      /\ w.lastTurn = v.lastTurn
      /\ w.requests = v.requests /\ w.retries = v.retries /\ w.pendingRetries = v.pendingRetries
  BY <1>1, FieldsStay DEF TurnTypes, StepTypes, RequestTypes, RetryTypes, TurnFields, StepFields,
                          RetryFieldsOf
<1>5. IsValidator(w)
  BY <1>1, EventTouches
<1> HIDE DEF w, g
<1>6. /\ DOMAIN g = DOMAIN v.calls
      /\ \A c \in DOMAIN v.calls :
           /\ DOMAIN g[c] = CallFields
           /\ g[c].turn = v.calls[c].turn /\ g[c].step = v.calls[c].step
           /\ g[c].result = v.calls[c].result /\ g[c].approvalDecided = v.calls[c].approvalDecided
           /\ c # k => g[c].approvalId = v.calls[c].approvalId
  BY <1>1, <1>3 DEF Retouched, Shaped, CallFields
<1>7. Shaped(w)
  BY <1>1, <1>4, <1>6 DEF Shaped, g
<1>8. /\ DOMAIN w.approvals = DOMAIN v.approvals \cup {k}
      /\ \A c \in DOMAIN w.approvals : w.approvals[c] = c
  BY <1>1, <1>3 DEF Sound, Put
<1>9. ~v.calls[k].approvalDecided
  BY <1>1, <1>3 DEF Sound
<1>10. Sound(w)
  <2>1. w.pendingApprovals = {c \in DOMAIN w.approvals : ~g[c].approvalDecided}
    BY <1>1, <1>3, <1>6, <1>8, <1>9 DEF Sound
  <2>2. w.unresolved = {c \in DOMAIN g : ~g[c].result}
    BY <1>1, <1>3, <1>6 DEF Sound
  <2>3. \A c \in DOMAIN g :
          /\ g[c].approvalId = IF c \in DOMAIN w.approvals THEN c ELSE None
          /\ g[c].approvalDecided => c \in DOMAIN w.approvals
    BY <1>1, <1>3, <1>6, <1>8 DEF Sound
  <2>4. w.suspension # None =>
          w.openTurn # None /\ w.suspension.callIds \subseteq DOMAIN w.approvals
    BY <1>1, <1>4, <1>8 DEF Sound
  <2> QED BY <1>1, <1>3, <1>4, <1>5, <1>6, <1>7, <1>8, <2>1, <2>2, <2>3, <2>4 DEF Sound, g
<1>11. Remembered(f)
  BY <1>2, <1>6, <1>8 DEF Faithful, Remembered, g
<1> QED BY <1>2, <1>6, <1>10, <1>11 DEF Faithful, Grown, g

\* A decision is taken, and stored with it.
LEMMA DecisionTaken ==
  ASSUME NEW d, Faithful(d), NEW e, e.type = "approval/decision", e.callId \in Ids,
         e.approvalId = e.callId, Accepts(d.v, e), NEW x \in Outs,
         NEW f, f = [v |-> Apply(d.v, e), told |-> [d.told EXCEPT ![e.callId] = x],
                     stored |-> d.stored]
  PROVE  /\ Faithful(f) /\ Grown(d, f)
         /\ f.told = [d.told EXCEPT ![e.callId] = x] /\ d.told[e.callId] = None
         /\ f.stored = d.stored
         /\ Continues(d.v, f.v) /\ f.v.unresolved = d.v.unresolved
         /\ f.v.pendingApprovals = d.v.pendingApprovals \ {e.callId}
<1> DEFINE v == d.v
           w == Apply(v, e)
           g == w.calls
           k == e.callId
<1>1. IsValidator(v) /\ Shaped(v) /\ Sound(v)
  BY DEF Faithful, Sound
<1>2. f.v = w /\ f.told = [d.told EXCEPT ![k] = x] /\ f.stored = d.stored /\ IsDisk(f)
  BY DEF Faithful, IsDisk
<1>3. /\ k \in DOMAIN v.calls /\ k \in DOMAIN v.approvals /\ ~v.calls[k].approvalDecided
      /\ Retouched(v.calls, g, k, "approvalDecided") /\ g[k].approvalDecided
      /\ w.unresolved = v.unresolved
      /\ w.approvals = v.approvals
      /\ w.pendingApprovals = v.pendingApprovals \ {k}
  BY <1>1, ApprovalDecided
<1>4. /\ w.openTurn = v.openTurn /\ w.openStep = v.openStep /\ w.suspension = v.suspension
      /\ w.lastTurn = v.lastTurn
      /\ w.requests = v.requests /\ w.retries = v.retries /\ w.pendingRetries = v.pendingRetries
  BY <1>1, FieldsStay DEF TurnTypes, StepTypes, RequestTypes, RetryTypes, TurnFields, StepFields,
                          RetryFieldsOf
<1>5. IsValidator(w)
  BY <1>1, EventTouches
<1> HIDE DEF w, g
<1>6. /\ DOMAIN g = DOMAIN v.calls
      /\ \A c \in DOMAIN v.calls :
           /\ DOMAIN g[c] = CallFields
           /\ g[c].turn = v.calls[c].turn /\ g[c].step = v.calls[c].step
           /\ g[c].result = v.calls[c].result /\ g[c].approvalId = v.calls[c].approvalId
           /\ c # k => g[c].approvalDecided = v.calls[c].approvalDecided
  BY <1>1, <1>3 DEF Retouched, Shaped, CallFields
<1>7. Shaped(w)
  BY <1>1, <1>4, <1>6 DEF Shaped, g
<1>8. Sound(w)
  <2>1. w.pendingApprovals = {c \in DOMAIN w.approvals : ~g[c].approvalDecided}
    BY <1>1, <1>3, <1>6 DEF Sound
  <2>2. w.unresolved = {c \in DOMAIN g : ~g[c].result}
    BY <1>1, <1>3, <1>6 DEF Sound
  <2>3. \A c \in DOMAIN g :
          /\ g[c].approvalId = IF c \in DOMAIN w.approvals THEN c ELSE None
          /\ g[c].approvalDecided => c \in DOMAIN w.approvals
    BY <1>1, <1>3, <1>6 DEF Sound
  <2> QED BY <1>1, <1>3, <1>4, <1>5, <1>6, <1>7, <2>1, <2>2, <2>3 DEF Sound, g
<1>9. d.told[k] = None
  BY <1>3 DEF Faithful, Remembered
<1>10. \A c \in Ids : f.told[c] = IF c = k THEN x ELSE d.told[c]
  BY <1>2 DEF Faithful, IsDisk
<1>11. \A c \in Ids : f.told[c] # None <=> c \in DOMAIN g /\ g[c].approvalDecided
  BY <1>3, <1>6, <1>10, Defined DEF Faithful, Remembered
<1>12. \A c \in Ids : f.stored[c] # None <=> c \in DOMAIN g /\ g[c].result
  BY <1>2, <1>6 DEF Faithful, Remembered
<1>13. Remembered(f)
  BY <1>2, <1>3, <1>11, <1>12 DEF Faithful, Remembered, g
<1>14. Faithful(f) /\ Grown(d, f)
  BY <1>2, <1>6, <1>8, <1>9, <1>10, <1>13 DEF Faithful, Grown, g
<1>15. Continues(v, w)
  BY <1>4, <1>6 DEF Continues, g
<1> QED BY <1>2, <1>3, <1>9, <1>14, <1>15

\* A result is taken, and stored with it.
LEMMA ResultTaken ==
  ASSUME NEW d, Faithful(d), NEW e, e.type = "tool/result", e.callId \in Ids,
         Accepts(d.v, e), NEW x \in Answers,
         NEW f, f = [v |-> Apply(d.v, e), told |-> d.told,
                     stored |-> [d.stored EXCEPT ![e.callId] = x]]
  PROVE  /\ Faithful(f) /\ Grown(d, f)
         /\ f.stored = [d.stored EXCEPT ![e.callId] = x] /\ d.stored[e.callId] = None
         /\ f.told = d.told
         /\ Continues(d.v, f.v) /\ f.v.unresolved = d.v.unresolved \ {e.callId}
         /\ f.v.pendingApprovals = d.v.pendingApprovals
<1> DEFINE v == d.v
           w == Apply(v, e)
           g == w.calls
           k == e.callId
<1>1. IsValidator(v) /\ Shaped(v) /\ Sound(v)
  BY DEF Faithful, Sound
<1>2. f.v = w /\ f.told = d.told /\ f.stored = [d.stored EXCEPT ![k] = x] /\ IsDisk(f)
  BY DEF Faithful, IsDisk
<1>3. /\ k \in DOMAIN v.calls /\ ~v.calls[k].result
      /\ Retouched(v.calls, g, k, "result") /\ g[k].result
      /\ w.unresolved = v.unresolved \ {k}
      /\ w.approvals = v.approvals
      /\ w.pendingApprovals = v.pendingApprovals
  BY <1>1, ResultRecorded
<1>4. /\ w.openTurn = v.openTurn /\ w.openStep = v.openStep /\ w.suspension = v.suspension
      /\ w.lastTurn = v.lastTurn
      /\ w.requests = v.requests /\ w.retries = v.retries /\ w.pendingRetries = v.pendingRetries
  BY <1>1, FieldsStay DEF TurnTypes, StepTypes, RequestTypes, RetryTypes, TurnFields, StepFields,
                          RetryFieldsOf
<1>5. IsValidator(w)
  BY <1>1, EventTouches
<1> HIDE DEF w, g
<1>6. /\ DOMAIN g = DOMAIN v.calls
      /\ \A c \in DOMAIN v.calls :
           /\ DOMAIN g[c] = CallFields
           /\ g[c].turn = v.calls[c].turn /\ g[c].step = v.calls[c].step
           /\ g[c].approvalDecided = v.calls[c].approvalDecided
           /\ g[c].approvalId = v.calls[c].approvalId
           /\ c # k => g[c].result = v.calls[c].result
  BY <1>1, <1>3 DEF Retouched, Shaped, CallFields
<1>7. Shaped(w)
  BY <1>1, <1>4, <1>6 DEF Shaped, g
<1>8. Sound(w)
  <2>1. w.pendingApprovals = {c \in DOMAIN w.approvals : ~g[c].approvalDecided}
    BY <1>1, <1>3, <1>6 DEF Sound
  <2>2. w.unresolved = {c \in DOMAIN g : ~g[c].result}
    BY <1>1, <1>3, <1>6 DEF Sound
  <2>3. \A c \in DOMAIN g :
          /\ g[c].approvalId = IF c \in DOMAIN w.approvals THEN c ELSE None
          /\ g[c].approvalDecided => c \in DOMAIN w.approvals
    BY <1>1, <1>3, <1>6 DEF Sound
  <2> QED BY <1>1, <1>3, <1>4, <1>5, <1>6, <1>7, <2>1, <2>2, <2>3 DEF Sound, g
<1>9. d.stored[k] = None
  BY <1>3 DEF Faithful, Remembered
<1>10. \A c \in Ids : f.stored[c] = IF c = k THEN x ELSE d.stored[c]
  BY <1>2 DEF Faithful, IsDisk
<1>11. \A c \in Ids : f.stored[c] # None <=> c \in DOMAIN g /\ g[c].result
  BY <1>3, <1>6, <1>10, Defined DEF Faithful, Remembered
<1>12. \A c \in Ids : f.told[c] # None <=> c \in DOMAIN g /\ g[c].approvalDecided
  BY <1>2, <1>6 DEF Faithful, Remembered
<1>13. Remembered(f)
  BY <1>2, <1>3, <1>11, <1>12 DEF Faithful, Remembered, g
<1>14. Faithful(f) /\ Grown(d, f)
  BY <1>2, <1>6, <1>8, <1>9, <1>10, <1>13 DEF Faithful, Grown, g
<1>15. Continues(v, w)
  BY <1>4, <1>6 DEF Continues, g
<1> QED BY <1>2, <1>3, <1>9, <1>14, <1>15

\* The events of turns, steps and request headers.
BoundaryTypes == TurnTypes \cup StepTypes \cup {"request/header"}

\* They leave calls, approvals, decisions and results alone.
LEMMA BoundaryTaken ==
  ASSUME NEW v, Sound(v), NEW e, e.type \in BoundaryTypes, Accepts(v, e),
         e.type \in {"turn/start", "request/header"} => e.turn \in Nat,
         e.type = "step/start" => v.unresolved = {},
         e.type = "turn/suspend" => e.callIds = e.approvalIds /\ v.openTurn # None,
         NEW w, w = Apply(v, e)
  PROVE  /\ Sound(w)
         /\ w.calls = v.calls /\ w.approvals = v.approvals /\ w.unresolved = v.unresolved
         /\ w.pendingApprovals = v.pendingApprovals
<1>1. IsValidator(v) /\ Shaped(v) /\ IsValidator(w)
  BY EventTouches DEF Sound
<1>2. /\ w.calls = v.calls /\ w.approvals = v.approvals /\ w.unresolved = v.unresolved
      /\ w.pendingApprovals = v.pendingApprovals
      /\ w.retries = v.retries /\ w.pendingRetries = v.pendingRetries
  <2>1. e.type \notin ToolTypes
    BY DEF BoundaryTypes, TurnTypes, StepTypes, ToolTypes
  <2>2. \A f \in ToolFields : w[f] = v[f]
    BY <1>1, <2>1, FieldsStay
  <2>3. w.retries = v.retries /\ w.pendingRetries = v.pendingRetries
    <3>1. CASE e.type = "request/header"
      BY <1>1, <3>1, RequestMade
    <3>2. CASE e.type # "request/header"
      BY <1>1, <3>2, FieldsStay
         DEF BoundaryTypes, TurnTypes, StepTypes, RetryTypes, RequestTypes, RetryFieldsOf
    <3> QED BY <3>1, <3>2
  <2> QED BY <2>2, <2>3 DEF ToolFields
<1>3. \A r \in DOMAIN w.requests : DOMAIN w.requests[r] = RequestFields
  <2>1. CASE e.type = "request/header"
    BY <1>1, <2>1, RequestMade DEF Shaped
  <2>2. CASE e.type # "request/header"
    BY <1>1, <2>2, FieldsStay DEF Shaped, BoundaryTypes, TurnTypes, StepTypes, RequestTypes
  <2> QED BY <2>1, <2>2
<1>4. Shaped(w)
  BY <1>1, <1>2, <1>3 DEF Shaped
<1>5. /\ \A c \in w.unresolved :
           /\ w.openTurn # None
           /\ w.calls[c].turn = w.openTurn /\ w.calls[c].step = w.openStep
      /\ w.suspension # None =>
           w.openTurn # None /\ w.suspension.callIds \subseteq DOMAIN w.approvals
  <2>1. CASE e.type = "turn/start"
    <3>1. v.openTurn = None /\ v.suspension = None /\ v.unresolved = {}
      BY <2>1, Cases DEF TurnOk, TurnTypes, Sound
    <3>2. w.openTurn = e.turn /\ w.suspension = v.suspension
      BY <1>1, <2>1, TurnApplied
    <3> QED BY <1>2, <3>1, <3>2, ToolsAssumption
  <2>2. CASE e.type = "turn/suspend"
    <3>1. /\ e.approvalIds = PendingIn(v, e) /\ InStep(v, e) /\ w.openTurn = v.openTurn
          /\ w.suspension.callIds = e.callIds /\ w.openStep = v.openStep
      BY <1>1, <2>2, TurnApplied, StepApplied DEF StepTypes
    <3>2. PendingIn(v, e) \subseteq DOMAIN v.approvals
      BY DEF PendingIn, Sound
    <3> QED BY <1>2, <2>2, <3>1, <3>2 DEF Sound
  <2>3. CASE e.type = "turn/resume"
    <3>1. w.openTurn = v.openTurn /\ w.suspension = None /\ w.openStep = v.openStep
      BY <1>1, <2>3, TurnApplied, StepApplied DEF StepTypes
    <3> QED BY <1>2, <3>1 DEF Sound
  <2>4. CASE e.type = "turn/end"
    <3>1. w.suspension = v.suspension
      BY <1>1, <2>4, TurnApplied
    <3>2. v.openTurn = e.turn /\ v.suspension = None /\ \A c \in v.unresolved : v.calls[c].turn # e.turn
      BY <2>4, Cases DEF TurnOk, TurnTypes
    <3>3. v.unresolved = {}
      BY <3>2 DEF Sound
    <3> QED BY <1>2, <3>1, <3>2, <3>3
  <2>5. CASE e.type = "step/start"
    <3>1. w.suspension = v.suspension /\ w.openTurn = v.openTurn
      BY <1>1, <2>5, TurnApplied DEF TurnTypes
    <3> QED BY <1>2, <2>5, <3>1 DEF Sound
  <2>6. CASE e.type = "step/end"
    <3>1. w.suspension = v.suspension /\ w.openTurn = v.openTurn
      BY <1>1, <2>6, TurnApplied DEF TurnTypes
    <3>2. InStep(v, e) /\ \A c \in v.unresolved : v.calls[c].step # e.step
      BY <2>6, Cases DEF StepOk, StepTypes
    <3>3. v.unresolved = {}
      BY <3>2 DEF Sound, InStep
    <3> QED BY <1>2, <3>1, <3>3 DEF Sound
  <2>7. CASE e.type = "request/header"
    <3>1. /\ w.suspension = v.suspension /\ w.openTurn = v.openTurn /\ w.openStep = v.openStep
      BY <1>1, <2>7, TurnApplied, StepApplied DEF TurnTypes, StepTypes
    <3> QED BY <1>2, <3>1 DEF Sound
  <2> QED BY <2>1, <2>2, <2>3, <2>4, <2>5, <2>6, <2>7 DEF BoundaryTypes, TurnTypes, StepTypes
<1>6. w.lastTurn \in Nat
  BY <1>1, TurnApplied DEF Sound, BoundaryTypes, TurnTypes, StepTypes
<1>7. \A r \in DOMAIN w.requests : w.requests[r].turn \in Nat
  <2>1. CASE e.type = "request/header"
    BY <1>1, <2>1, RequestMade DEF Sound
  <2>2. CASE e.type # "request/header"
    BY <1>1, <2>2, FieldsStay DEF Sound, BoundaryTypes, TurnTypes, StepTypes, RequestTypes
  <2> QED BY <2>1, <2>2
<1> QED BY <1>1, <1>2, <1>4, <1>5, <1>6, <1>7 DEF Sound

\* What a validator knows of calls is the same.
SameCalls(v, w) ==
  /\ w.calls = v.calls /\ w.approvals = v.approvals /\ w.unresolved = v.unresolved
  /\ w.pendingApprovals = v.pendingApprovals

\* A disk with such a validator keeps what it should.
LEMMA SameCallsFaithful ==
  ASSUME NEW d, Faithful(d), NEW w, Sound(w), SameCalls(d.v, w),
         NEW f, f = [d EXCEPT !.v = w]
  PROVE  Faithful(f) /\ Grown(d, f) /\ f.v = w /\ f.told = d.told /\ f.stored = d.stored
BY DEF Faithful, IsDisk, Remembered, Grown, SameCalls

\* The events of a batch of one, two or three are accepted one after the other.
LEMMA OneEvent ==
  ASSUME NEW v, NEW a, NEW s, Len(s) = 1, s[1] = a,
         AppendBatch(v, s).ok
  PROVE  Accepts(v, a) /\ AppendBatch(v, s).v = Apply(v, a)
<1> DEFINE L == Loop(v, s)
<1>1. /\ L[0].v = v /\ L[1].v = AppendBatch(v, s).v
      /\ \A i \in 1 .. 1 : Accepts(L[i - 1].v, s[i]) /\ L[i].v = Apply(L[i - 1].v, s[i])
  BY AcceptedSteps
<1>2. Accepts(L[0].v, a) /\ L[1].v = Apply(L[0].v, a)
  BY <1>1
<1> QED BY <1>1, <1>2

\* The same for a batch of two events.
LEMMA TwoEvents ==
  ASSUME NEW v, NEW a, NEW b, NEW s, Len(s) = 2, s[1] = a, s[2] = b,
         AppendBatch(v, s).ok
  PROVE  /\ Accepts(v, a) /\ Accepts(Apply(v, a), b)
         /\ AppendBatch(v, s).v = Apply(Apply(v, a), b)
<1> DEFINE L == Loop(v, s)
<1>1. /\ L[0].v = v /\ L[2].v = AppendBatch(v, s).v
      /\ \A i \in 1 .. 2 : Accepts(L[i - 1].v, s[i]) /\ L[i].v = Apply(L[i - 1].v, s[i])
  BY AcceptedSteps
<1> HIDE DEF L
<1>2. 1 \in 1 .. 2 /\ 2 \in 1 .. 2 /\ 1 - 1 = 0 /\ 2 - 1 = 1
  OBVIOUS
<1>3. /\ Accepts(L[0].v, a) /\ L[1].v = Apply(L[0].v, a)
      /\ Accepts(L[1].v, b) /\ L[2].v = Apply(L[1].v, b)
  BY <1>1, <1>2, Zenon
<1> QED BY <1>1, <1>3

\* The same for a batch of three events.
LEMMA ThreeEvents ==
  ASSUME NEW v, NEW a, NEW b, NEW c, NEW s, Len(s) = 3, s[1] = a, s[2] = b, s[3] = c,
         AppendBatch(v, s).ok
  PROVE  /\ Accepts(v, a) /\ Accepts(Apply(v, a), b) /\ Accepts(Apply(Apply(v, a), b), c)
         /\ AppendBatch(v, s).v = Apply(Apply(Apply(v, a), b), c)
<1> DEFINE L == Loop(v, s)
<1>1. /\ L[0].v = v /\ L[3].v = AppendBatch(v, s).v
      /\ \A i \in 1 .. 3 : Accepts(L[i - 1].v, s[i]) /\ L[i].v = Apply(L[i - 1].v, s[i])
  BY AcceptedSteps
<1> HIDE DEF L
<1>2. 1 \in 1 .. 3 /\ 2 \in 1 .. 3 /\ 3 \in 1 .. 3 /\ 1 - 1 = 0 /\ 2 - 1 = 1 /\ 3 - 1 = 2
  OBVIOUS
<1>3. /\ Accepts(L[0].v, a) /\ L[1].v = Apply(L[0].v, a)
      /\ Accepts(L[1].v, b) /\ L[2].v = Apply(L[1].v, b)
      /\ Accepts(L[2].v, c) /\ L[3].v = Apply(L[2].v, c)
  BY <1>1, <1>2, Zenon
<1> QED BY <1>1, <1>3

\* The beginning of a turn.
LEMMA BeginTurnTaken ==
  ASSUME Faithful(disk), BeginTurn
  PROVE  /\ Faithful(disk') /\ Grown(disk, disk')
         /\ disk'.told = disk.told /\ disk'.stored = disk.stored
         /\ SameCalls(disk.v, disk'.v) /\ disk'.v.suspension = None
<1> DEFINE v == disk.v
           n == v.lastTurn + 1
           a == [type |-> "turn/start", turn |-> n]
           b == [type |-> "step/start", turn |-> n, step |-> v.lastStep + 1]
           c == [type |-> "request/header", turn |-> n, step |-> v.lastStep + 1,
                 requestId |-> n]
           s == <<a, b, c>>
           r == AppendBatch(v, s)
           x == Apply(v, a)
           y == Apply(x, b)
           w == Apply(y, c)
<1>1. disk' = [disk EXCEPT !.v = r.v] /\ v.openTurn = None
  BY DEF BeginTurn, Batch
<1>2. Sound(v) /\ n \in Nat /\ v.unresolved = {} /\ v.suspension = None
  BY <1>1 DEF Faithful, Sound
<1>5. /\ a.type = "turn/start" /\ a.turn = n /\ b.type = "step/start"
      /\ c.type = "request/header" /\ c.turn = n
  OBVIOUS
<1> HIDE DEF a, b, c
<1>3. CASE r.ok
  <2>1. Accepts(v, a) /\ Accepts(x, b) /\ Accepts(y, c) /\ r.v = w
    <3> HIDE DEF v
    <3>1. Len(s) = 3 /\ s[1] = a /\ s[2] = b /\ s[3] = c /\ AppendBatch(v, s).ok
      BY <1>3
    <3> HIDE DEF s
    <3> QED BY <3>1, ThreeEvents
  <2> HIDE DEF x, y, w
  <2>3. a.type \in BoundaryTypes /\ b.type \in BoundaryTypes /\ c.type \in BoundaryTypes
    BY <1>5 DEF BoundaryTypes, TurnTypes, StepTypes
  <2>4. Sound(x) /\ SameCalls(v, x)
    BY <1>2, <2>1, <1>5, <2>3, BoundaryTaken DEF x, SameCalls
  <2>5. Sound(y) /\ SameCalls(x, y)
    BY <1>2, <2>1, <1>5, <2>3, <2>4, BoundaryTaken DEF y, SameCalls
  <2>6. Sound(w) /\ SameCalls(y, w)
    BY <1>2, <2>1, <1>5, <2>3, <2>5, BoundaryTaken DEF w, SameCalls
  <2>7. w.suspension = None
    BY <1>2, <2>1, <1>5, <2>4, <2>5, <2>6, TurnApplied, SMTT(20) DEF x, y, w, Sound, TurnTypes
  <2>8. SameCalls(v, w)
    BY <2>4, <2>5, <2>6 DEF SameCalls
  <2> HIDE DEF v, r
  <2> QED BY <1>1, <2>1, <2>6, <2>7, <2>8, SameCallsFaithful DEF v
<1>4. CASE ~r.ok
  <2>1. r.v = v
    <3>1. Len(s) \in Nat /\ IsValidator(v)
      BY <1>2 DEF Sound
    <3> HIDE DEF s, v
    <3> QED BY <1>4, <3>1, RefusedLeavesNoTrace
  <2>2. SameCalls(v, v)
    BY DEF SameCalls
  <2> HIDE DEF v, r
  <2> QED BY <1>1, <1>2, <2>1, <2>2, SameCallsFaithful DEF v
<1> QED BY <1>3, <1>4

------------------------------------------------------------------------------
(* The repair of an open turn. *)

\* The calls of the first i events of a sequence.
CallsOf(s, i) == {s[j].callId : j \in 1 .. i}

\* The calls of one event more.
LEMMA OneCallMore ==
  ASSUME NEW s, NEW n \in Nat, NEW i \in 1 .. n,
         \A j, k \in 1 .. n : s[j].callId = s[k].callId => j = k
  PROVE  /\ CallsOf(s, i) = CallsOf(s, i - 1) \cup {s[i].callId}
         /\ s[i].callId \notin CallsOf(s, i - 1)
<1>1. 1 .. i = (1 .. i - 1) \cup {i} /\ i \notin 1 .. i - 1 /\ \A j \in 1 .. i - 1 : j \in 1 .. n
  OBVIOUS
<1> QED BY <1>1 DEF CallsOf

\* A property of the loop that holds at first and after each event holds at last.
LEMMA ToTheEnd ==
  ASSUME NEW n \in Nat, NEW G, 0 \in G, \A i \in 1 .. n : i - 1 \in G => i \in G
  PROVE  n \in G
<1> DEFINE T == {i \in 0 .. n : i \notin G}
<1>1. T = {}
  <2> SUFFICES ASSUME T # {} PROVE FALSE
    OBVIOUS
  <2>1. PICK i \in T : \A k \in T : i <= k
    <3>1. T \in SUBSET Nat
      OBVIOUS
    <3> HIDE DEF T
    <3> QED BY <3>1, Least
  <2>2. i \in 1 .. n /\ i - 1 \in 0 .. n /\ ~(i <= i - 1)
    BY <2>1
  <2> QED BY <2>1, <2>2
<1> QED BY <1>1

\* An event leaves the approvals alone unless it asks for one, and the suspension
\* unless it suspends or resumes the turn.
LEMMA EventLeaves ==
  ASSUME NEW v, NEW e, IsValidator(v), Accepts(v, e)
  PROVE  /\ e.type # "approval/request" => Apply(v, e).approvals = v.approvals
         /\ e.type \notin {"turn/suspend", "turn/resume"} => Apply(v, e).suspension = v.suspension
<1>1. ASSUME e.type # "approval/request" PROVE Apply(v, e).approvals = v.approvals
  <2>1. CASE e.type \notin ToolTypes
    BY <2>1, FieldsStay DEF ToolFields
  <2>2. CASE e.type \in ToolTypes
    <3>1. Apply(v, e).approvals = ApplyTool(v, e).approvals
      BY <2>2, Cases, AppliedIsAssigned DEF Fields
    <3>2. ApplyTool(v, e).approvals = v.approvals
      BY <1>1, <2>2 DEF ApplyTool, ToolTypes, IsValidator, Fields
    <3> QED BY <3>1, <3>2
  <2> QED BY <2>1, <2>2
<1>2. ASSUME e.type \notin {"turn/suspend", "turn/resume"}
      PROVE  Apply(v, e).suspension = v.suspension
  <2>1. CASE e.type \notin TurnTypes
    BY <2>1, FieldsStay DEF TurnFields
  <2>2. CASE e.type \in TurnTypes
    BY <1>2, <2>2, TurnApplied DEF TurnTypes
  <2> QED BY <2>1, <2>2
<1> QED BY <1>1, <1>2

\* So does a batch of such events.
LEMMA BatchLeaves ==
  ASSUME NEW v, NEW s, IsValidator(v), Len(s) \in Nat, AppendBatch(v, s).ok,
         \A i \in 1 .. Len(s) : s[i].type # "approval/request"
  PROVE  /\ AppendBatch(v, s).v.approvals = v.approvals
         /\ (\A i \in 1 .. Len(s) : s[i].type \notin {"turn/suspend", "turn/resume"}) =>
              AppendBatch(v, s).v.suspension = v.suspension
<1> DEFINE n == Len(s)
           L == Loop(v, s)
           H == \A i \in 1 .. n : s[i].type \notin {"turn/suspend", "turn/resume"}
           G == {i \in 0 .. n : /\ IsValidator(L[i].v) /\ L[i].v.approvals = v.approvals
                                /\ H => L[i].v.suspension = v.suspension}
<1>1. /\ L[0].v = v /\ L[n].v = AppendBatch(v, s).v
      /\ \A i \in 1 .. n : Accepts(L[i - 1].v, s[i]) /\ L[i].v = Apply(L[i - 1].v, s[i])
  BY AcceptedSteps
<1> HIDE DEF L
<1>2. 0 \in G
  BY <1>1
<1>3. ASSUME NEW i \in 1 .. n, i - 1 \in G PROVE i \in G
  <2>1. /\ IsValidator(L[i - 1].v) /\ L[i - 1].v.approvals = v.approvals
        /\ H => L[i - 1].v.suspension = v.suspension
    BY <1>3
  <2>2. Accepts(L[i - 1].v, s[i]) /\ L[i].v = Apply(L[i - 1].v, s[i])
    BY <1>1
  <2> HIDE DEF H
  <2>3. IsValidator(L[i].v)
    BY <2>1, <2>2, EventTouches
  <2>4. L[i].v.approvals = v.approvals
    BY <2>1, <2>2, EventLeaves
  <2>5. H => L[i].v.suspension = v.suspension
    BY <2>1, <2>2, EventLeaves DEF H
  <2> QED BY <2>3, <2>4, <2>5
<1>4. n \in G
  <2> HIDE DEF G, n
  <2> QED BY <1>2, <1>3, ToTheEnd DEF n
<1> QED BY <1>1, <1>4

\* The event is accepted when it comes to it, and the loop goes on.
LEMMA LoopGoesOn ==
  ASSUME NEW v, NEW s, Len(s) \in Nat, NEW i \in 1 .. Len(s), Loop(v, s)[i - 1].ok,
         Accepts(Loop(v, s)[i - 1].v, s[i])
  PROVE  Loop(v, s)[i].ok /\ Loop(v, s)[i].v = Apply(Loop(v, s)[i - 1].v, s[i])
<1>1. \A r, e : r.ok /\ Accepts(r.v, e) =>
        Checked(r, e).ok /\ Checked(r, e).v = Apply(r.v, e)
  BY DEF Checked
<1>2. Loop(v, s)[i] = Checked(Loop(v, s)[i - 1], s[i])
  BY LoopSteps
<1> QED BY <1>1, <1>2

\* Pending approvals are decided one after the other.
LEMMA DecisionsTaken ==
  ASSUME NEW d, Faithful(d), NEW s, Len(s) \in Nat,
         \A i \in 1 .. Len(s) : /\ s[i].type = "approval/decision"
                               /\ s[i].approvalId = s[i].callId
                               /\ s[i].callId \in d.v.pendingApprovals,
         \A i, j \in 1 .. Len(s) : s[i].callId = s[j].callId => i = j,
         NEW f, IsDisk(f), f.v = AppendBatch(d.v, s).v, f.stored = d.stored,
         \A c \in Ids : f.told[c] = IF c \in CallsOf(s, Len(s)) THEN "cancelled" ELSE d.told[c]
  PROVE  /\ AppendBatch(d.v, s).ok
         /\ Faithful(f) /\ Grown(d, f)
         /\ Continues(d.v, f.v) /\ f.v.unresolved = d.v.unresolved
         /\ f.v.pendingApprovals = d.v.pendingApprovals \ CallsOf(s, Len(s))
<1> DEFINE v == d.v
           n == Len(s)
           L == Loop(v, s)
           F(i) == [v |-> L[i].v, stored |-> d.stored,
                    told |-> [c \in Ids |-> IF c \in CallsOf(s, i) THEN "cancelled" ELSE d.told[c]]]
           Good(i) == /\ L[i].ok /\ Faithful(F(i)) /\ Grown(d, F(i))
                      /\ Continues(v, L[i].v) /\ L[i].v.unresolved = v.unresolved
                      /\ L[i].v.pendingApprovals = v.pendingApprovals \ CallsOf(s, i)
           G == {i \in 0 .. n : Good(i)}
<1>1. Good(0)
  <2>1. L[0].ok /\ L[0].v = v
    <3>1. L[0] = Started(v)
      BY LoopSteps
    <3> HIDE DEF L, v
    <3> QED BY <3>1 DEF Started
  <2>2. CallsOf(s, 0) = {}
    BY DEF CallsOf
  <2>3. IsDisk(d)
    BY DEF Faithful
  <2> HIDE DEF L
  <2>4. F(0) = d
    BY <2>1, <2>2, <2>3 DEF IsDisk
  <2> HIDE DEF F
  <2> QED BY <2>1, <2>2, <2>4 DEF Grown, Continues
<1>2. ASSUME NEW i \in 1 .. n, Good(i - 1) PROVE Good(i)
  <2> DEFINE x == L[i - 1].v
             e == s[i]
             k == e.callId
             g == F(i - 1)
             h == [v |-> Apply(g.v, e), told |-> [g.told EXCEPT ![k] = "cancelled"],
                   stored |-> g.stored]
  <2>1. /\ e.type = "approval/decision" /\ e.approvalId = k /\ k \in v.pendingApprovals
        /\ CallsOf(s, i) = CallsOf(s, i - 1) \cup {k} /\ k \notin CallsOf(s, i - 1)
    <3>1. /\ CallsOf(s, i) = CallsOf(s, i - 1) \cup {s[i].callId}
          /\ s[i].callId \notin CallsOf(s, i - 1)
      BY OneCallMore
    <3> QED BY <3>1
  <2>2. g.v = x /\ Sound(x) /\ k \in x.pendingApprovals /\ k \in Ids
    <3>1. g.v = x
      OBVIOUS
    <3>2. Faithful(g) /\ x.pendingApprovals = v.pendingApprovals \ CallsOf(s, i - 1)
      BY <1>2
    <3>3. k \in x.pendingApprovals
      BY <2>1, <3>2
    <3> HIDE DEF g, x, k
    <3> QED BY <3>1, <3>2, <3>3 DEF Faithful, Sound
  <2>3. Accepts(x, e)
    <3>1. k \in DOMAIN x.approvals /\ x.approvals[k] = k /\ k \in DOMAIN x.calls
          /\ ~x.calls[k].approvalDecided
      BY <2>2 DEF Sound
    <3>2. Accepts(x, e) = ToolOk(x, e)
      BY <2>1, Cases DEF ToolTypes
    <3>3. ToolOk(x, e) = DecisionOk(x, e)
      BY <2>1 DEF ToolOk
    <3> QED BY <2>1, <3>1, <3>2, <3>3 DEF DecisionOk
  <2>4. L[i].ok /\ L[i].v = Apply(x, e)
    BY <1>2, <2>3, LoopGoesOn
  <2> HIDE DEF L, x, e
  <2>5. Faithful(g) /\ "cancelled" \in Outs
    BY <1>2 DEF Outs
  <2>6. h = F(i)
    <3>1. [g.told EXCEPT ![k] = "cancelled"] =
            [c \in Ids |-> IF c \in CallsOf(s, i) THEN "cancelled" ELSE d.told[c]]
      BY <2>1, <2>2
    <3>2. Apply(g.v, e) = L[i].v /\ g.stored = d.stored
      BY <2>2, <2>4
    <3> HIDE DEF g
    <3> QED BY <3>1, <3>2
  <2> HIDE DEF g, F
  <2>7. /\ Faithful(h) /\ Grown(g, h) /\ Continues(g.v, h.v) /\ h.v.unresolved = g.v.unresolved
        /\ h.v.pendingApprovals = g.v.pendingApprovals \ {k}
    <3>1. Accepts(g.v, e) /\ e.callId \in Ids /\ e.approvalId = e.callId
      BY <2>1, <2>2, <2>3
    <3> QED BY <2>1, <2>5, <3>1, DecisionTaken
  <2>8. F(i).v = L[i].v /\ Grown(d, g)
    BY <1>2 DEF F, g
  <2> HIDE DEF h
  <2>9. Grown(d, h)
    BY <2>7, <2>8 DEF Grown
  <2>10. Continues(v, h.v)
    BY <1>2, <2>2, <2>7 DEF Continues, x
  <2> QED BY <1>2, <2>1, <2>2, <2>4, <2>6, <2>7, <2>8, <2>9, <2>10 DEF x
<1> HIDE DEF Good
<1>3. n \in G
  <2>1. 0 \in G /\ \A i \in 1 .. n : i - 1 \in G => i \in G
    BY <1>1, <1>2
  <2> HIDE DEF G
  <2> QED BY <2>1, ToTheEnd
<1>4. Good(n)
  BY <1>3
<1>5. AppendBatch(v, s).ok /\ AppendBatch(v, s).v = L[n].v
  BY <1>4 DEF AppendBatch, Good
<1>6. F(n) = f
  <2>1. f = [v |-> f.v, told |-> f.told, stored |-> f.stored]
    BY DEF IsDisk
  <2>2. f.told = [c \in Ids |-> IF c \in CallsOf(s, n) THEN "cancelled" ELSE d.told[c]]
    BY DEF IsDisk
  <2>3. f.v = L[n].v
    BY <1>5
  <2> HIDE DEF L, n
  <2> QED BY <2>1, <2>2, <2>3
<1> QED BY <1>4, <1>5, <1>6 DEF Good

\* When none is pending, unresolved calls are given results one after the other.
LEMMA ResultsTaken ==
  ASSUME NEW d, Faithful(d), d.v.pendingApprovals = {}, NEW s, Len(s) \in Nat,
         \A i \in 1 .. Len(s) : /\ s[i].type = "tool/result"
                               /\ s[i].callId \in d.v.unresolved
                               /\ s[i].turn = d.v.calls[s[i].callId].turn
                               /\ s[i].step = d.v.calls[s[i].callId].step,
         \A i, j \in 1 .. Len(s) : s[i].callId = s[j].callId => i = j,
         NEW f, IsDisk(f), f.v = AppendBatch(d.v, s).v, f.told = d.told,
         \A c \in Ids : f.stored[c] = IF c \in CallsOf(s, Len(s)) THEN "unknown" ELSE d.stored[c]
  PROVE  /\ AppendBatch(d.v, s).ok
         /\ Faithful(f) /\ Grown(d, f)
         /\ Continues(d.v, f.v) /\ f.v.unresolved = d.v.unresolved \ CallsOf(s, Len(s))
<1> DEFINE v == d.v
           n == Len(s)
           L == Loop(v, s)
           F(i) == [v |-> L[i].v, told |-> d.told,
                    stored |-> [c \in Ids |-> IF c \in CallsOf(s, i) THEN "unknown" ELSE d.stored[c]]]
           Good(i) == /\ L[i].ok /\ Faithful(F(i)) /\ Grown(d, F(i))
                      /\ Continues(v, L[i].v) /\ L[i].v.unresolved = v.unresolved \ CallsOf(s, i)
                      /\ L[i].v.pendingApprovals = {}
           G == {i \in 0 .. n : Good(i)}
<1>1. Good(0)
  <2>1. L[0].ok /\ L[0].v = v
    <3>1. L[0] = Started(v)
      BY LoopSteps
    <3> HIDE DEF L, v
    <3> QED BY <3>1 DEF Started
  <2>2. CallsOf(s, 0) = {}
    BY DEF CallsOf
  <2>3. IsDisk(d)
    BY DEF Faithful
  <2> HIDE DEF L
  <2>4. F(0) = d
    BY <2>1, <2>2, <2>3 DEF IsDisk
  <2> HIDE DEF F
  <2> QED BY <2>1, <2>2, <2>4 DEF Grown, Continues
<1>2. ASSUME NEW i \in 1 .. n, Good(i - 1) PROVE Good(i)
  <2> DEFINE x == L[i - 1].v
             e == s[i]
             k == e.callId
             g == F(i - 1)
             h == [v |-> Apply(g.v, e), told |-> g.told,
                   stored |-> [g.stored EXCEPT ![k] = "unknown"]]
  <2>1. /\ e.type = "tool/result" /\ k \in v.unresolved
        /\ e.turn = v.calls[k].turn /\ e.step = v.calls[k].step
        /\ CallsOf(s, i) = CallsOf(s, i - 1) \cup {k} /\ k \notin CallsOf(s, i - 1)
    <3>1. /\ CallsOf(s, i) = CallsOf(s, i - 1) \cup {s[i].callId}
          /\ s[i].callId \notin CallsOf(s, i - 1)
      BY OneCallMore
    <3> QED BY <3>1
  <2>2. /\ g.v = x /\ Sound(x) /\ k \in x.unresolved /\ x.pendingApprovals = {} /\ k \in Ids
        /\ Continues(v, x) /\ k \in DOMAIN v.calls
    <3>1. g.v = x
      OBVIOUS
    <3>2. /\ Faithful(g) /\ x.unresolved = v.unresolved \ CallsOf(s, i - 1)
          /\ x.pendingApprovals = {} /\ Continues(v, x)
      BY <1>2
    <3>3. k \in x.unresolved
      BY <2>1, <3>2
    <3>4. k \in DOMAIN v.calls
      BY <2>1 DEF Faithful, Sound
    <3> HIDE DEF g, x, k
    <3> QED BY <3>1, <3>2, <3>3, <3>4 DEF Faithful, Sound
  <2>3. Accepts(x, e)
    <3>1. /\ k \in DOMAIN x.calls /\ ~x.calls[k].result
          /\ x.calls[k].approvalId = None \/ x.calls[k].approvalDecided
      <4> HIDE DEF x, k
      <4>1. k \in DOMAIN x.calls /\ ~x.calls[k].result
        BY <2>2 DEF Sound
      <4>2. k \in DOMAIN x.approvals => x.calls[k].approvalDecided
        BY <2>2 DEF Sound
      <4>3. k \notin DOMAIN x.approvals => x.calls[k].approvalId = None
        BY <2>2, <4>1 DEF Sound
      <4> QED BY <4>1, <4>2, <4>3
    <3>2. Accepts(x, e) = ToolOk(x, e)
      BY <2>1, Cases DEF ToolTypes
    <3>3. x.calls[k].turn = e.turn /\ x.calls[k].step = e.step
      BY <2>1, <2>2 DEF Continues
    <3> HIDE DEF x, e
    <3> QED BY <2>1, <3>1, <3>2, <3>3 DEF ToolOk
  <2>4. L[i].ok /\ L[i].v = Apply(x, e)
    BY <1>2, <2>3, LoopGoesOn
  <2> HIDE DEF L, x, e
  <2>5. Faithful(g) /\ "unknown" \in Answers
    BY <1>2 DEF Answers
  <2>6. h = F(i)
    <3>1. [g.stored EXCEPT ![k] = "unknown"] =
            [c \in Ids |-> IF c \in CallsOf(s, i) THEN "unknown" ELSE d.stored[c]]
      BY <2>1, <2>2
    <3>2. Apply(g.v, e) = L[i].v /\ g.told = d.told
      BY <2>2, <2>4
    <3> HIDE DEF g
    <3> QED BY <3>1, <3>2
  <2> HIDE DEF g, F
  <2>7. /\ Faithful(h) /\ Grown(g, h) /\ Continues(g.v, h.v)
        /\ h.v.unresolved = g.v.unresolved \ {k} /\ h.v.pendingApprovals = g.v.pendingApprovals
    <3>1. Accepts(g.v, e) /\ e.callId \in Ids
      BY <2>1, <2>2, <2>3
    <3> QED BY <2>1, <2>5, <3>1, ResultTaken
  <2>8. F(i).v = L[i].v /\ Grown(d, g)
    BY <1>2 DEF F, g
  <2> HIDE DEF h
  <2>9. Grown(d, h)
    BY <2>7, <2>8 DEF Grown
  <2>10. Continues(v, h.v)
    BY <1>2, <2>2, <2>7 DEF Continues, x
  <2> QED BY <1>2, <2>1, <2>2, <2>4, <2>6, <2>7, <2>8, <2>9, <2>10 DEF x
<1> HIDE DEF Good
<1>3. n \in G
  <2>1. 0 \in G /\ \A i \in 1 .. n : i - 1 \in G => i \in G
    BY <1>1, <1>2
  <2> HIDE DEF G
  <2> QED BY <2>1, ToTheEnd
<1>4. Good(n)
  BY <1>3
<1>5. AppendBatch(v, s).ok /\ AppendBatch(v, s).v = L[n].v
  BY <1>4 DEF AppendBatch, Good
<1>6. F(n) = f
  <2>1. f = [v |-> f.v, told |-> f.told, stored |-> f.stored]
    BY DEF IsDisk
  <2>2. f.stored = [c \in Ids |-> IF c \in CallsOf(s, n) THEN "unknown" ELSE d.stored[c]]
    BY DEF IsDisk
  <2>3. f.v = L[n].v
    BY <1>5
  <2> HIDE DEF L, n
  <2> QED BY <2>1, <2>2, <2>3
<1> QED BY <1>4, <1>5, <1>6 DEF Good

\* The events of a batch of two are accepted, so the batch is.
LEMMA TwoAccepted ==
  ASSUME NEW v, NEW a, NEW b, NEW s, Len(s) = 2, s[1] = a, s[2] = b,
         Accepts(v, a), Accepts(Apply(v, a), b)
  PROVE  AppendBatch(v, s).ok /\ AppendBatch(v, s).v = Apply(Apply(v, a), b)
<1> DEFINE L == Loop(v, s)
<1>1. L[0] = Started(v) /\ 1 \in 1 .. 2 /\ 2 \in 1 .. 2 /\ 1 - 1 = 0 /\ 2 - 1 = 1
  BY LoopSteps
<1>2. L[0].ok /\ L[0].v = v
  <2> HIDE DEF L
  <2> QED BY <1>1 DEF Started
<1>3. L[1].ok /\ L[1].v = Apply(v, a)
  BY <1>1, <1>2, LoopGoesOn
<1>4. L[2].ok /\ L[2].v = Apply(Apply(v, a), b)
  BY <1>1, <1>3, LoopGoesOn
<1> QED BY <1>4 DEF AppendBatch

\* The values of a function on a finite set are finitely many.
LEMMA ImageIsFinite ==
  ASSUME NEW S, IsFiniteSet(S), NEW f
  PROVE  IsFiniteSet({f[x] : x \in S})
<1> DEFINE g == [x \in S |-> f[x]]
<1>1. g \in Surjection(S, {f[x] : x \in S})
  BY DEF Surjection
<1> QED BY <1>1, FS_Surjection

\* An open turn that is not suspended is closed, whatever is open in it, and every
\* call of it has a result.
LEMMA RepairTaken ==
  ASSUME Faithful(disk), disk.v.openTurn # None, ~Suspended,
         NEW f, f = Repaired
  PROVE  /\ Faithful(f) /\ Grown(disk, f)
         /\ \A c \in DOMAIN disk.v.calls : f.stored[c] # None
         /\ f.v.openTurn = None /\ f.v.approvals = disk.v.approvals
<1> DEFINE v == disk.v
           P == v.pendingApprovals
           U == v.unresolved
           D == {Decision(c) : c \in P}
           R == {Result(c, "outcome-unknown") : c \in U}
           decide == SetToSeq(D)
           answer == SetToSeq(R)
           ends == <<At("step/end"), At("turn/end")>>
           x == AppendBatch(v, decide).v
           y == AppendBatch(x, answer).v
           z == AppendBatch(y, ends).v
           told == [c \in Ids |-> IF c \in P THEN "cancelled" ELSE disk.told[c]]
           stored == [c \in Ids |-> IF c \in U THEN "unknown" ELSE disk.stored[c]]
           d1 == [v |-> x, stored |-> disk.stored, told |-> told]
           d2 == [v |-> y, told |-> told, stored |-> stored]
<1>1. Sound(v) /\ P \subseteq Ids /\ U \subseteq Ids /\ v.suspension = None /\ IsDisk(disk)
  BY DEF Faithful, Sound, Suspended
<1>2. /\ \A c : Decision(c).type = "approval/decision" /\ Decision(c).callId = c
                /\ Decision(c).approvalId = c
      /\ \A c : LET e == Result(c, "outcome-unknown")
                IN  /\ e.type = "tool/result" /\ e.callId = c
                    /\ e.turn = v.calls[c].turn /\ e.step = v.calls[c].step
      /\ \A k : At(k).type = k /\ At(k).turn = v.openTurn /\ At(k).step = v.openStep
  BY DEF Decision, Result, At
<1>3. IsFiniteSet(D) /\ IsFiniteSet(R)
  <2>1. IsFiniteSet(Ids)
    BY FS_Interval, ToolsAssumption DEF Ids
  <2>2. IsFiniteSet(P) /\ IsFiniteSet(U)
    BY <1>1, <2>1, FS_Subset
  <2> HIDE DEF P, U
  <2>3. IsFiniteSet(D)
    <3> DEFINE g == [c \in P |-> Decision(c)]
    <3>1. D = {g[c] : c \in P}
      OBVIOUS
    <3> HIDE DEF D, g
    <3> QED BY <2>2, <3>1, ImageIsFinite
  <2>4. IsFiniteSet(R)
    <3> DEFINE g == [c \in U |-> Result(c, "outcome-unknown")]
    <3>1. R = {g[c] : c \in U}
      OBVIOUS
    <3> HIDE DEF R, g
    <3> QED BY <2>2, <3>1, ImageIsFinite
  <2> QED BY <2>3, <2>4
<1>4. /\ decide \in Seq(D) /\ \A i, j \in 1 .. Len(decide) : decide[i] = decide[j] => i = j
      /\ \A e \in D : \E i \in 1 .. Len(decide) : decide[i] = e
  <2> HIDE DEF D
  <2> QED BY <1>3, SetToSeqEnumerates
<1>5. /\ answer \in Seq(R) /\ \A i, j \in 1 .. Len(answer) : answer[i] = answer[j] => i = j
      /\ \A e \in R : \E i \in 1 .. Len(answer) : answer[i] = e
  <2> HIDE DEF R
  <2> QED BY <1>3, SetToSeqEnumerates
<1>6. /\ Len(decide) \in Nat
      /\ \A i \in 1 .. Len(decide) : /\ decide[i].type = "approval/decision"
                                    /\ decide[i].approvalId = decide[i].callId
                                    /\ decide[i].callId \in P
      /\ \A i, j \in 1 .. Len(decide) : decide[i].callId = decide[j].callId => i = j
      /\ CallsOf(decide, Len(decide)) = P
  <2>1. \A e \in D : /\ e = Decision(e.callId) /\ e.callId \in P
                    /\ e.type = "approval/decision" /\ e.approvalId = e.callId
    BY <1>2
  <2>2. \A c \in P : Decision(c) \in D /\ Decision(c).callId = c
    BY <1>2
  <2> HIDE DEF D, P, decide
  <2>3. Len(decide) \in Nat /\ \A i \in 1 .. Len(decide) : decide[i] \in D
    BY <1>4
  <2>4. \A i, j \in 1 .. Len(decide) : decide[i].callId = decide[j].callId => i = j
    <3> TAKE i, j \in 1 .. Len(decide)
    <3> HAVE decide[i].callId = decide[j].callId
    <3>1. decide[i] = Decision(decide[i].callId) /\ decide[j] = Decision(decide[j].callId)
      BY <2>1, <2>3
    <3> QED BY <1>4, <3>1
  <2>5. CallsOf(decide, Len(decide)) = P
    BY <1>4, <2>1, <2>2, <2>3 DEF CallsOf
  <2> QED BY <2>1, <2>3, <2>4, <2>5
<1>7. /\ Len(answer) \in Nat
      /\ \A i \in 1 .. Len(answer) : /\ answer[i].type = "tool/result" /\ answer[i].callId \in U
                                    /\ answer[i].turn = v.calls[answer[i].callId].turn
                                    /\ answer[i].step = v.calls[answer[i].callId].step
      /\ \A i, j \in 1 .. Len(answer) : answer[i].callId = answer[j].callId => i = j
      /\ CallsOf(answer, Len(answer)) = U
  <2>1. \A e \in R : /\ e = Result(e.callId, "outcome-unknown") /\ e.callId \in U
                    /\ e.type = "tool/result"
                    /\ e.turn = v.calls[e.callId].turn /\ e.step = v.calls[e.callId].step
    BY <1>2
  <2>2. \A c \in U : /\ Result(c, "outcome-unknown") \in R
                    /\ Result(c, "outcome-unknown").callId = c
    BY <1>2
  <2> HIDE DEF R, U, v, answer
  <2>3. Len(answer) \in Nat /\ \A i \in 1 .. Len(answer) : answer[i] \in R
    BY <1>5
  <2>4. \A i, j \in 1 .. Len(answer) : answer[i].callId = answer[j].callId => i = j
    <3> TAKE i, j \in 1 .. Len(answer)
    <3> HAVE answer[i].callId = answer[j].callId
    <3>1. answer[i] = Result(answer[i].callId, "outcome-unknown") /\ answer[j] = Result(answer[j].callId, "outcome-unknown")
      BY <2>1, <2>3
    <3> QED BY <1>5, <3>1
  <2>5. CallsOf(answer, Len(answer)) = U
    BY <1>5, <2>1, <2>2, <2>3, SMTT(20) DEF CallsOf
  <2> QED BY <2>1, <2>3, <2>4, <2>5
<1>8. /\ AppendBatch(v, decide).ok /\ Faithful(d1) /\ Grown(disk, d1) /\ Continues(v, x)
      /\ x.unresolved = U /\ x.pendingApprovals = {}
  <2> HIDE DEF decide
  <2>1. /\ AppendBatch(v, decide).ok /\ Faithful(d1) /\ Grown(disk, d1) /\ Continues(v, x)
        /\ x.unresolved = v.unresolved /\ x.pendingApprovals = v.pendingApprovals \ P
    <3>1. /\ d1.v = x /\ d1.stored = disk.stored
          /\ \A c \in Ids : d1.told[c] = IF c \in P THEN "cancelled" ELSE disk.told[c]
      OBVIOUS
    <3>2. IsDisk(d1)
      BY <1>1 DEF IsDisk, Outs
    <3> HIDE DEF d1
    <3> QED BY <1>6, <3>1, <3>2, DecisionsTaken, SMTT(20)
  <2> QED BY <2>1
<1>9. /\ AppendBatch(x, answer).ok /\ Faithful(d2) /\ Grown(d1, d2) /\ Continues(x, y)
      /\ y.unresolved = {}
  <2> HIDE DEF answer, x
  <2>1. d1.v = x /\ d1.stored = disk.stored /\ d1.told = told
    OBVIOUS
  <2>2. \A i \in 1 .. Len(answer) : /\ answer[i].type = "tool/result"
                                   /\ answer[i].callId \in d1.v.unresolved
                                   /\ answer[i].turn = d1.v.calls[answer[i].callId].turn
                                   /\ answer[i].step = d1.v.calls[answer[i].callId].step
    <3>1. U \subseteq DOMAIN v.calls
      BY <1>1 DEF Sound
    <3> QED BY <1>7, <1>8, <2>1, <3>1 DEF Continues
  <2>3. /\ d2.v = y /\ d2.told = d1.told
        /\ \A c \in Ids : d2.stored[c] = IF c \in U THEN "unknown" ELSE d1.stored[c]
    BY <2>1
  <2>5. IsDisk(d2)
    BY <1>1 DEF IsDisk, Answers, Outs
  <2>4. d1.v.pendingApprovals = {} /\ y = AppendBatch(d1.v, answer).v /\ d1.v.unresolved = U
    BY <1>8, <2>1
  <2>6. /\ Faithful(d1) /\ Len(answer) \in Nat /\ CallsOf(answer, Len(answer)) = U
        /\ \A i, j \in 1 .. Len(answer) : answer[i].callId = answer[j].callId => i = j
    BY <1>7, <1>8
  <2>7. d2.v = AppendBatch(d1.v, answer).v
    BY <2>3, <2>4
  <2> HIDE DEF d1, d2, y, v, U, P, R, told, stored
  <2>8. \A c \in Ids : d2.stored[c] = IF c \in CallsOf(answer, Len(answer)) THEN "unknown"
                                     ELSE d1.stored[c]
    BY <2>3, <2>6
  <2>9. /\ AppendBatch(d1.v, answer).ok /\ Faithful(d2) /\ Grown(d1, d2)
        /\ Continues(d1.v, d2.v)
        /\ d2.v.unresolved = d1.v.unresolved \ CallsOf(answer, Len(answer))
    BY <2>2, <2>3, <2>4, <2>5, <2>6, <2>7, <2>8, ResultsTaken
  <2> QED
    BY <2>1, <2>3, <2>4, <2>6, <2>9
<1>10. /\ AppendBatch(y, ends).ok /\ Sound(z) /\ SameCalls(y, z) /\ z.openTurn = None
  <2> DEFINE a == At("step/end")
             b == At("turn/end")
             u == Apply(y, a)
  <2>1. Sound(y)
    <3> HIDE DEF y
    <3> QED BY <1>9 DEF Faithful
  <2>2. Continues(v, y)
    <3> HIDE DEF x, y
    <3> QED BY <1>8, <1>9 DEF Continues
  <2>3. /\ a.type = "step/end" /\ a.turn = v.openTurn /\ a.step = v.openStep
        /\ b.type = "turn/end" /\ b.turn = v.openTurn
    BY <1>2
  <2>4. Len(ends) = 2 /\ ends[1] = a /\ ends[2] = b
    OBVIOUS
  <2> HIDE DEF x, y, a, b, ends
  <2>5. Accepts(y, a)
    <3>1. Accepts(y, a) = StepOk(y, a)
      BY <2>3, Cases DEF StepTypes
    <3>2. InStep(y, a) /\ y.suspension = None /\ y.unresolved = {}
      BY <1>1, <1>9, <2>2, <2>3 DEF Continues, InStep
    <3> QED BY <2>3, <3>1, <3>2 DEF StepOk
  <2>6. Sound(u) /\ SameCalls(y, u)
    BY <2>1, <2>3, <2>5, BoundaryTaken DEF SameCalls, BoundaryTypes, StepTypes
  <2>7. u.openTurn = v.openTurn /\ u.suspension = None /\ u.openStep = None
    BY <1>1, <2>1, <2>2, <2>3, <2>5, TurnApplied, StepApplied DEF Continues, Sound, TurnTypes
  <2> HIDE DEF u
  <2>8. Accepts(u, b)
    <3>1. Accepts(u, b) = TurnOk(u, b)
      BY <2>3, Cases DEF TurnTypes
    <3>2. u.unresolved = {} /\ u.pendingRetries = {}
      BY <1>9, <2>6 DEF SameCalls, Sound
    <3> QED BY <2>3, <2>7, <3>1, <3>2 DEF TurnOk
  <2>9. AppendBatch(y, ends).ok /\ z = Apply(u, b)
    BY <2>4, <2>5, <2>8, TwoAccepted DEF u
  <2> HIDE DEF z
  <2>10. Sound(z) /\ SameCalls(u, z)
    BY <2>3, <2>6, <2>8, <2>9, BoundaryTaken DEF SameCalls, BoundaryTypes, TurnTypes
  <2>11. z.openTurn = None
    BY <2>3, <2>6, <2>8, <2>9, TurnApplied DEF Sound
  <2> QED BY <2>6, <2>9, <2>10, <2>11 DEF SameCalls
<1>11. /\ AppendBatch(v, decide \o answer \o ends).ok
       /\ AppendBatch(v, decide \o answer \o ends).v = z
  <2> DEFINE S == D \cup R \cup {At("step/end"), At("turn/end")}
  <2>1. ends \in Seq(S)
    OBVIOUS
  <2> HIDE DEF ends
  <2>2. decide \in Seq(S) /\ answer \in Seq(S)
    <3>1. \A X, Y : X \subseteq Y => Seq(X) \subseteq Seq(Y)
      OBVIOUS
    <3>2. D \subseteq S /\ R \subseteq S
      OBVIOUS
    <3> HIDE DEF D, R, S, decide, answer
    <3> QED BY <1>4, <1>5, <3>1, <3>2
  <2> HIDE DEF S, decide, answer
  <2>3. decide \o answer \in Seq(S)
    BY <2>2
  <2>4. /\ AppendBatch(v, decide \o answer).ok
        /\ AppendBatch(v, decide \o answer).v = y
    BY <1>8, <1>9, <2>2, ValidatedInParts
  <2> DEFINE m == decide \o answer
  <2>5. m \in Seq(S) /\ AppendBatch(v, m).ok /\ AppendBatch(v, m).v = y
    BY <2>3, <2>4
  <2>6. AppendBatch(y, ends).ok
    BY <1>10
  <2> HIDE DEF y, x, m, v
  <2>7. AppendBatch(v, m \o ends).ok /\ AppendBatch(v, m \o ends).v = AppendBatch(y, ends).v
    BY <2>1, <2>5, <2>6, ValidatedInParts
  <2> QED BY <2>7 DEF m
<1>12. f = [v |-> z, told |-> told, stored |-> stored]
  <2>1. f = [disk EXCEPT !.v = z, !.told = told, !.stored = stored]
    <3> HIDE DEF decide, answer, ends, z
    <3>1. disk.v.openTurn # None /\ ~Suspended
      OBVIOUS
    <3>2. LET r == Batch(decide \o answer \o ends) IN r.ok /\ r.v = z
      BY <1>11 DEF Batch
    <3> QED BY <3>1, <3>2 DEF Repaired, decide, answer, ends, Batch
  <2> HIDE DEF z, told, stored
  <2> QED BY <1>1, <2>1 DEF IsDisk
<1>13. Faithful(f) /\ Grown(d2, f)
  <2>1. d2.v = y /\ d2.told = told /\ d2.stored = stored
    OBVIOUS
  <2>2. f = [d2 EXCEPT !.v = z]
    <3> HIDE DEF z, told, stored, y
    <3> QED BY <1>12
  <2> HIDE DEF y, z, d2
  <2> QED BY <1>9, <1>10, <2>1, <2>2, SameCallsFaithful
<1>14. \A c \in DOMAIN v.calls : f.stored[c] # None
  <2>1. \A c \in DOMAIN v.calls : c \in Ids /\ (c \notin U => disk.stored[c] # None)
    BY DEF Faithful, Sound, Remembered
  <2>2. "unknown" # None
    BY Defined DEF Answers
  <2>3. f.stored = stored
    BY <1>12
  <2> HIDE DEF U
  <2> QED BY <2>1, <2>2, <2>3
<1>15. Grown(disk, f)
  <2> HIDE DEF d1, d2
  <2> QED BY <1>8, <1>9, <1>13 DEF Grown
<1>16. f.v.openTurn = None
  <2> HIDE DEF z
  <2> QED BY <1>10, <1>12
<1>17. f.v.approvals = v.approvals
  <2>1. IsValidator(v) /\ IsValidator(x)
    <3>1. d1.v = x
      OBVIOUS
    <3> HIDE DEF d1, x
    <3> QED BY <1>1, <1>8, <3>1 DEF Faithful, Sound
  <2> HIDE DEF decide, answer, v
  <2>2. x.approvals = v.approvals
    BY <1>6, <1>8, <2>1, BatchLeaves
  <2> HIDE DEF x
  <2>3. y.approvals = x.approvals
    BY <1>7, <1>9, <2>1, BatchLeaves
  <2> HIDE DEF y, z
  <2> QED BY <1>10, <1>12, <2>2, <2>3 DEF SameCalls
<1> QED BY <1>13, <1>14, <1>15, <1>16, <1>17

------------------------------------------------------------------------------
(* The inductive invariant. *)

\* The executor's memory and the history of starts are what they should be.
Typed ==
  /\ tool \in [Ids -> [asks : BOOLEAN, class : Kinds]]
  /\ ex = [reg |-> ex.reg, appr |-> ex.appr, owner |-> ex.owner, callOf |-> ex.callOf,
           produced |-> ex.produced, keeps |-> ex.keeps]
  /\ ex.reg \in [Ids -> Registrations \cup {None}]
  /\ ex.appr \in [Ids -> Approvals \cup {None}]
  /\ ex.owner \in [Ids -> Owners \cup {None}]
  /\ ex.callOf \in Seq(Ids)
  /\ ex.produced \in [Calls -> Answers \cup {None}]
  /\ ex.keeps \in [Calls -> BOOLEAN]
  /\ seen = [setting |-> seen.setting, starts |-> seen.starts, lost |-> seen.lost,
             life |-> seen.life, failures |-> seen.failures]
  /\ seen.starts \in [Ids -> Nat]

\* Only calls that ask are asked for, and what is told has been decided.
ApprovalsFit ==
  \A c \in Ids : ex.appr[c] # None =>
    /\ ex.appr[c].request = "pending" => tool[c].asks
    /\ ex.appr[c].st # "none" => ex.appr[c].out # None

\* The place p was given an outcome.
Given(p) == phase[p] \notin {"free", "registered"}

\* Places are taken one after the other; the registration of a call names its
\* place, and only that place was given an outcome, once the call was durable.
PlacesFit ==
  /\ Len(ex.callOf) <= MaxCalls
  /\ \A p \in Calls : phase[p] = "free" <=> p > Len(ex.callOf)
  /\ \A c \in Ids : ex.reg[c] # None =>
       /\ ex.reg[c].place \in DOMAIN ex.callOf /\ ex.callOf[ex.reg[c].place] = c
       /\ ex.reg[c].st = "ok" => Recorded(c)
  /\ \A p \in DOMAIN ex.callOf : Given(p) =>
       LET c == ex.callOf[p]
       IN  ex.reg[c] # None /\ ex.reg[c].place = p /\ ex.reg[c].st = "ok"

\* The record of a call waits for the place its registration took.
OwnersFit ==
  \A c \in Ids : ex.owner[c] # None =>
    /\ ex.reg[c] # None /\ ex.owner[c].place = ex.reg[c].place
    /\ ex.owner[c].op = "complete" => ex.owner[c].value # None

\* A ready place has a value; what was resolved, or need not be stored, is stored.
AnswersFit ==
  \A p \in Calls :
    /\ outcome[p] = "resolved" =>
         Ready(phase, p) /\ ex.produced[p] = disk.stored[ex.callOf[p]]
    /\ ex.keeps[p] => phase[p] = "completed" /\ ex.produced[p] = disk.stored[ex.callOf[p]]
    /\ Ready(phase, p) => ex.produced[p] # None

\* A body of c was started in this life.
Started1(c) ==
  \E p \in DOMAIN ex.callOf :
    ex.callOf[p] = c /\ Given(p) /\ phase[p] \notin {"queued", "completed"}

\* A call whose side effect began has begun it once in this life, or has a result,
\* unless it was lost; no body of it is left to start.
StartsFit ==
  \A c \in Ids :
    /\ seen.starts[c] > 1 => c \in seen.lost
    /\ seen.starts[c] > 0 /\ c \notin seen.lost =>
         /\ Started1(c) \/ disk.stored[c] # None
         /\ \A p \in DOMAIN ex.callOf : ex.callOf[p] = c => phase[p] # "queued"

Memory == Typed /\ ApprovalsFit /\ PlacesFit /\ OwnersFit /\ AnswersFit /\ StartsFit

XInv == Memory /\ IInv /\ Faithful(disk)

------------------------------------------------------------------------------
(* The history through every step. *)

\* The disk with one event more.
LEMMA WithIsDisk ==
  ASSUME Faithful(disk), NEW e
  PROVE  /\ With(e) = [disk EXCEPT !.v = Apply(disk.v, e)]
         /\ With(e) = [v |-> Apply(disk.v, e), told |-> disk.told, stored |-> disk.stored]
<1>1. disk = [v |-> disk.v, told |-> disk.told, stored |-> disk.stored]
  BY DEF Faithful, IsDisk
<1> QED BY <1>1 DEF With

\* A disk is at least what it was.
LEMMA GrownIsReflexive ==
  ASSUME NEW d
  PROVE  Grown(d, d)
BY DEF Grown

\* The call c is persisted.
LEMMA PersistCallTaken ==
  ASSUME Faithful(disk), NEW c \in Ids, PersistCall(c) \/ PersistCallFails(c)
  PROVE  /\ Faithful(disk') /\ Grown(disk, disk')
         /\ PersistCall(c) => c \in DOMAIN disk'.v.calls
<1> DEFINE f == With(Call(c))
<1>1. Call(c).type = "tool/call" /\ Call(c).callId = c
  BY DEF Call
<1>2. ASSUME Takes(Call(c))
      PROVE  Faithful(f) /\ Grown(disk, f) /\ c \in DOMAIN f.v.calls
  <2>1. f = [disk EXCEPT !.v = Apply(disk.v, Call(c))]
    BY WithIsDisk
  <2> HIDE DEF f
  <2> QED BY <1>1, <1>2, <2>1, CallTaken DEF Takes
<1>3. CASE PersistCall(c)
  BY <1>2, <1>3, GrownIsReflexive DEF PersistCall, Recorded
<1>4. CASE PersistCallFails(c) /\ ~PersistCall(c)
  BY <1>2, <1>4, GrownIsReflexive DEF PersistCallFails, Fails
<1> QED BY <1>3, <1>4

\* Requests and decisions are persisted.
LEMMA ApprovalTaken ==
  ASSUME Faithful(disk), Typed, ApprovalsFit, NEW c \in Ids,
         RequestLands(c) \/ RequestFails(c) \/ DecisionLands(c) \/ DecisionFails(c)
  PROVE  Faithful(disk') /\ Grown(disk, disk')
<1>1. CASE RequestLands(c) \/ RequestFails(c)
  <2> DEFINE f == With(Request(c))
  <2>1. Request(c).type = "approval/request" /\ Request(c).callId = c /\ Request(c).approvalId = c
    BY DEF Request
  <2>2. tool[c].asks
    BY <1>1 DEF RequestLands, RequestFails, ApprovalsFit
  <2>3. ASSUME Takes(Request(c)) PROVE Faithful(f) /\ Grown(disk, f)
    <3>1. f = [disk EXCEPT !.v = Apply(disk.v, Request(c))]
      BY WithIsDisk
    <3> HIDE DEF f
    <3> QED BY <2>1, <2>2, <2>3, <3>1, RequestTaken DEF Takes
  <2> QED BY <1>1, <2>3, GrownIsReflexive DEF RequestLands, RequestFails, Fails
<1>2. CASE DecisionLands(c) \/ DecisionFails(c)
  <2> DEFINE x == ex.appr[c].out
             f == [With(Decision(c)) EXCEPT !.told[c] = x]
  <2>1. Decision(c).type = "approval/decision" /\ Decision(c).callId = c /\ Decision(c).approvalId = c
    BY DEF Decision
  <2>2. x \in Outs
    <3>1. ex.appr[c] # None /\ ex.appr[c].st = "pending"
      BY <1>2 DEF DecisionLands, DecisionFails, Deciding
    <3>2. ex.appr[c] \in Approvals
      BY <3>1 DEF Typed
    <3> QED BY <3>1, <3>2 DEF ApprovalsFit, Approvals
  <2>3. ASSUME Takes(Decision(c)) PROVE Faithful(f) /\ Grown(disk, f)
    <3>1. f = [v |-> Apply(disk.v, Decision(c)), told |-> [disk.told EXCEPT ![c] = x],
               stored |-> disk.stored]
      <4>1. With(Decision(c)) =
              [v |-> Apply(disk.v, Decision(c)), told |-> disk.told, stored |-> disk.stored]
        BY WithIsDisk
      <4> QED BY <4>1
    <3> HIDE DEF f
    <3> QED BY <2>1, <2>2, <2>3, <3>1, DecisionTaken DEF Takes
  <2> QED BY <1>2, <2>3, GrownIsReflexive DEF DecisionLands, DecisionFails, Fails
<1> QED BY <1>1, <1>2

\* The place that is committed next belongs to a call and has a value.
LEMMA CommittedNext ==
  ASSUME XInv, committing
  PROVE  /\ nextCommit \in Calls /\ Ready(phase, nextCommit)
         /\ nextCommit \in DOMAIN ex.callOf /\ ex.callOf[nextCommit] \in Ids
         /\ ex.produced[nextCommit] \in Answers
<1>1. nextCommit \in Calls /\ Ready(phase, nextCommit)
  BY DEF XInv, IInv, CommitInv, Committable
<1>2. ~(nextCommit > Len(ex.callOf)) /\ ex.callOf \in Seq(Ids)
  BY <1>1 DEF XInv, Memory, Typed, PlacesFit, Ready
<1>3. nextCommit \in DOMAIN ex.callOf /\ ex.callOf[nextCommit] \in Ids
  BY <1>1, <1>2 DEF Calls
<1>4. ex.produced[nextCommit] \in Answers \cup {None} /\ ex.produced[nextCommit] # None
  BY <1>1, <1>3 DEF XInv, Memory, Typed, AnswersFit
<1> QED BY <1>1, <1>3, <1>4

\* A commit stores the value of the place, unless it is stored already.
LEMMA CommitTaken ==
  ASSUME XInv, CommitLands \/ CommitFails
  PROVE  /\ Faithful(disk') /\ Grown(disk, disk')
         /\ CommitLands /\ ~ex.keeps[nextCommit] =>
              /\ disk.stored[ex.callOf[nextCommit]] = None
              /\ disk'.stored[ex.callOf[nextCommit]] = ex.produced[nextCommit]
<1> DEFINE c == ex.callOf[nextCommit]
           e == Result(c, None)
           x == ex.produced[nextCommit]
           f == [With(e) EXCEPT !.stored[c] = x]
<1>1. committing /\ Faithful(disk)
  BY DEF CommitLands, CommitFails, CommitResolves, XInv
<1>2. c \in Ids /\ x \in Answers
  BY <1>1, CommittedNext
<1>3. e.type = "tool/result" /\ e.callId = c
  BY DEF Result
<1>4. f = [v |-> Apply(disk.v, e), told |-> disk.told, stored |-> [disk.stored EXCEPT ![c] = x]]
  <2>1. With(e) = [v |-> Apply(disk.v, e), told |-> disk.told, stored |-> disk.stored]
    BY <1>1, WithIsDisk
  <2> HIDE DEF e, x, c
  <2> QED BY <2>1
<1>5. ASSUME Takes(e)
      PROVE  /\ Faithful(f) /\ Grown(disk, f) /\ disk.stored[c] = None /\ f.stored[c] = x
  <2> HIDE DEF e, f, x, c
  <2>1. /\ Faithful(f) /\ Grown(disk, f) /\ disk.stored[c] = None
        /\ f.stored = [disk.stored EXCEPT ![c] = x]
    BY <1>1, <1>2, <1>3, <1>4, <1>5, ResultTaken DEF Takes
  <2>2. disk.stored \in [Ids -> Answers \cup {None}]
    BY <1>1 DEF Faithful, IsDisk
  <2> QED BY <1>2, <2>1, <2>2
<1> HIDE DEF f
<1>6. CASE CommitLands
  BY <1>1, <1>5, <1>6, GrownIsReflexive DEF CommitLands, f
<1>7. CASE ~CommitLands
  <2>1. disk' = disk \/ (Takes(e) /\ disk' = f)
    BY <1>7 DEF CommitFails, Fails, f
  <2> QED BY <1>1, <1>5, <1>7, <2>1, GrownIsReflexive
<1> QED BY <1>6, <1>7

\* The approvals asked for, and the results unless the turn is repaired, are the same.
TurnLeaves(f) ==
  /\ f.v.approvals = disk.v.approvals
  /\ f.stored = disk.stored \/ (Close /\ f = Repaired)

\* Turns are resumed, suspended, closed and repaired.
LEMMA TurnTaken ==
  ASSUME Faithful(disk), Resume \/ StopCloses \/ Close
  PROVE  Faithful(disk') /\ Grown(disk, disk') /\ TurnLeaves(disk')
<1> DEFINE v == disk.v
<1>1. Sound(v) /\ \A w : Sound(w) /\ SameCalls(v, w) =>
        LET f == [disk EXCEPT !.v = w] IN Faithful(f) /\ Grown(disk, f) /\ TurnLeaves(f)
  BY SameCallsFaithful DEF Faithful, SameCalls, TurnLeaves
<1>2. \A k : At(k).type = k /\ At(k).turn = v.openTurn /\ At(k).step = v.openStep
  BY DEF At
<1>3. ASSUME NEW k \in {"turn/resume", "step/end", "turn/end"}, NEW u, Sound(u), SameCalls(v, u),
             Accepts(u, At(k))
      PROVE  Sound(Apply(u, At(k))) /\ SameCalls(v, Apply(u, At(k)))
  <2> DEFINE a == At(k)
  <2>1. a.type = k /\ k \in BoundaryTypes
    BY <1>2 DEF BoundaryTypes, TurnTypes, StepTypes
  <2> HIDE DEF v, a
  <2>2. Sound(Apply(u, a)) /\ SameCalls(u, Apply(u, a))
    BY <1>3, <2>1, BoundaryTaken DEF SameCalls, a
  <2> QED BY <1>3, <2>2 DEF SameCalls, a
<1>4. CASE Resume
  <2> DEFINE s == <<At("turn/resume")>>
             a == At("turn/resume")
  <2>1. AppendBatch(v, s).ok /\ disk' = [disk EXCEPT !.v = AppendBatch(v, s).v]
    BY <1>4 DEF Resume, Batch
  <2>2. Len(s) = 1 /\ s[1] = a
    OBVIOUS
  <2> HIDE DEF s, v, a
  <2>3. Accepts(v, a) /\ AppendBatch(v, s).v = Apply(v, a)
    BY <2>1, <2>2, OneEvent
  <2>4. SameCalls(v, v)
    BY DEF SameCalls
  <2> QED BY <1>1, <1>3, <2>1, <2>3, <2>4 DEF a
<1>5. CASE StopCloses
  <2> DEFINE a == At("turn/resume")
             b == At("step/end")
             c == At("turn/end")
             s == <<a, b, c>>
  <2>1. \/ AppendBatch(v, s).ok /\ disk' = [disk EXCEPT !.v = AppendBatch(v, s).v]
        \/ disk' = disk
    BY <1>5 DEF StopCloses, Batch
  <2>2. Len(s) = 3 /\ s[1] = a /\ s[2] = b /\ s[3] = c
    OBVIOUS
  <2>3. SameCalls(v, v)
    BY DEF SameCalls
  <2> HIDE DEF s, v, a, b, c
  <2>4. ASSUME AppendBatch(v, s).ok
        PROVE  Sound(AppendBatch(v, s).v) /\ SameCalls(v, AppendBatch(v, s).v)
    <3> DEFINE x == Apply(v, a)
               y == Apply(x, b)
    <3>1. /\ Accepts(v, a) /\ Accepts(x, b) /\ Accepts(y, c)
          /\ AppendBatch(v, s).v = Apply(y, c)
      BY <2>2, <2>4, ThreeEvents
    <3>2. Sound(x) /\ SameCalls(v, x)
      BY <1>1, <1>3, <2>3, <3>1 DEF a
    <3> HIDE DEF x
    <3>3. Sound(y) /\ SameCalls(v, y)
      BY <1>3, <3>1, <3>2 DEF b
    <3> HIDE DEF y
    <3> QED BY <1>3, <3>1, <3>3 DEF c
  <2>5. CASE disk' = disk
    BY <2>5, GrownIsReflexive DEF TurnLeaves
  <2> QED BY <1>1, <2>1, <2>4, <2>5
<1>6. CASE Close
  <2> DEFINE W == WaitsForHuman
             a == At("step/end")
             b == At("turn/end")
             s == <<a, b>>
             e == [type |-> "turn/suspend", turn |-> v.openTurn, step |-> v.openStep,
                   callIds |-> W, approvalIds |-> W]
             q == <<e>>
             Closes(x) == AppendBatch(v, x).ok /\ disk' = [disk EXCEPT !.v = AppendBatch(v, x).v]
  <2>1. (W = {} /\ Closes(s)) \/ (W # {} /\ Closes(q)) \/ disk' = Repaired
    BY <1>6 DEF Close, Batch
  <2>2. /\ Len(s) = 2 /\ s[1] = a /\ s[2] = b /\ Len(q) = 1 /\ q[1] = e
        /\ e.type = "turn/suspend" /\ e.callIds = W /\ e.approvalIds = W
    OBVIOUS
  <2>3. SameCalls(v, v)
    BY DEF SameCalls
  <2> HIDE DEF s, q, v, a, b, e, W
  <2>4. CASE Closes(s)
    <3> DEFINE x == Apply(v, a)
    <3>1. /\ Accepts(v, a) /\ Accepts(x, b) /\ AppendBatch(v, s).v = Apply(x, b)
      BY <2>2, <2>4, TwoEvents
    <3>2. Sound(x) /\ SameCalls(v, x)
      BY <1>1, <1>3, <2>3, <3>1 DEF a
    <3> HIDE DEF x
    <3> QED BY <1>1, <1>3, <2>4, <3>1, <3>2 DEF b
  <2>5. CASE W # {} /\ Closes(q)
    <3> DEFINE x == Apply(v, e)
    <3>1. Accepts(v, e) /\ AppendBatch(v, q).v = x
      BY <2>2, <2>5, OneEvent
    <3>2. v.openTurn # None
      <4>1. Accepts(v, e) = TurnOk(v, e)
        BY <2>2, Cases DEF TurnTypes
      <4>2. W = UnresolvedIn(v, e)
        BY <2>2, <3>1, <4>1 DEF TurnOk
      <4> QED BY <1>1, <2>5, <4>2 DEF UnresolvedIn, Sound
    <3>3. Sound(x) /\ SameCalls(v, x)
      BY <1>1, <2>2, <3>1, <3>2, BoundaryTaken DEF SameCalls, BoundaryTypes, TurnTypes
    <3> HIDE DEF x
    <3> QED BY <1>1, <2>5, <3>1, <3>3
  <2>6. CASE disk' = Repaired
    <3>1. CASE disk.v.openTurn = None \/ Suspended
      <4>1. disk' = disk
        BY <2>6, <3>1 DEF Repaired
      <4> QED BY <4>1, GrownIsReflexive DEF TurnLeaves
    <3>2. CASE disk.v.openTurn # None /\ ~Suspended
      <4>1. Faithful(disk') /\ Grown(disk, disk') /\ disk'.v.approvals = disk.v.approvals
        BY <2>6, <3>2, RepairTaken
      <4> QED BY <1>6, <2>6, <4>1 DEF TurnLeaves
    <3> QED BY <3>1, <3>2
  <2> QED BY <2>1, <2>4, <2>5, <2>6
<1> QED BY <1>4, <1>5, <1>6

\* The history stays what it should be through every step, and grows.
LEMMA HistoryStep ==
  ASSUME XInv, XNext
  PROVE  Faithful(disk') /\ Grown(disk, disk')
<1>1. Faithful(disk) /\ Typed /\ ApprovalsFit
  BY DEF XInv, Memory
<1>2. ASSUME disk' = disk PROVE Faithful(disk') /\ Grown(disk, disk')
  BY <1>1, <1>2, GrownIsReflexive
<1>3. CASE Executor
  <2>1. ASSUME NEW c \in Ids, PersistCall(c) \/ PersistCallFails(c)
        PROVE  Faithful(disk') /\ Grown(disk, disk')
    BY <1>1, <2>1, PersistCallTaken
  <2>2. ASSUME NEW c \in Ids, RequestLands(c) \/ RequestFails(c) \/ DecisionLands(c) \/ DecisionFails(c)
        PROVE  Faithful(disk') /\ Grown(disk, disk')
    BY <1>1, <2>2, ApprovalTaken
  <2>3. ASSUME NEW c \in Ids, Schedule(c) \/ ScheduleThrows(c) PROVE disk' = disk
    BY <2>3 DEF Schedule, ScheduleThrows
  <2>4. ASSUME NEW p, Return(p) \/ Settle(p) PROVE disk' = disk
    BY <2>4 DEF Return, Settle
  <2>5. CASE CommitLands \/ CommitFails
    BY <2>5, CommitTaken
  <2> QED BY <1>2, <1>3, <2>1, <2>2, <2>3, <2>4, <2>5 DEF Executor
<1>4. CASE Recorder \/ Emit \/ StopSuspended
  BY <1>2, <1>4 DEF Recorder, RecorderRecords, RecorderGoesOn, Emit, StopSuspended
<1>5. CASE Closing
  <2>1. CASE Close \/ StopCloses
    BY <1>1, <2>1, TurnTaken
  <2>2. CASE Drained \/ CallClosed \/ CancelledCall
    BY <1>2, <2>2 DEF Drained, CallClosed, CancelledCall
  <2>3. ASSUME NEW c \in Ids, CloseApproval(c) \/ CloseCall(c) \/ CancelApproval(c) \/ CancelCall(c)
                              \/ Act(c) \/ Publish(c)
        PROVE  disk' = disk
    BY <2>3 DEF CloseApproval, CloseCall, CancelApproval, CancelCall, Act, Publish
  <2> QED BY <1>2, <1>5, <2>1, <2>2, <2>3 DEF Closing
<1>6. CASE BeginTurn \/ Resume
  BY <1>1, <1>6, BeginTurnTaken, TurnTaken
<1>7. ASSUME NEW c \in Ids, SdkExecutes(c) PROVE disk' = disk
  BY <1>7 DEF SdkExecutes
<1>8. ASSUME NEW stop \in BOOLEAN, StreamEnds(stop) PROVE disk' = disk
  BY <1>8 DEF StreamEnds
<1>9. ASSUME NEW c \in Ids, NEW out, Respond(c, out) PROVE disk' = disk
  BY <1>9 DEF Respond
<1>10. CASE Crash
  <2>1. disk' = Repaired
    BY <1>10 DEF Crash
  <2>2. CASE disk.v.openTurn = None \/ Suspended
    BY <1>2, <2>1, <2>2 DEF Repaired
  <2>3. CASE disk.v.openTurn # None /\ ~Suspended
    BY <1>1, <2>1, <2>3, RepairTaken
  <2> QED BY <2>2, <2>3
<1> QED BY <1>2, <1>3, <1>4, <1>5, <1>6, <1>7, <1>8, <1>9, <1>10 DEF XNext

\* The definitions of the calls never change.
LEMMA ToolStays ==
  ASSUME XNext
  PROVE  tool' = tool
<1>1. CASE Executor
  BY <1>1 DEF Executor, PersistCall, PersistCallFails, Schedule, ScheduleThrows, RequestLands,
    RequestFails, DecisionLands, DecisionFails, Return, Settle, CommitLands, CommitFails
<1>2. CASE Recorder \/ Closing
  BY <1>2 DEF Recorder, RecorderRecords, RecorderGoesOn, Closing, Drained, CallClosed, Close,
    CancelledCall, StopCloses, CloseApproval, CloseCall, CancelApproval, CancelCall, Act, Publish
<1>3. CASE ~Executor /\ ~Recorder /\ ~Closing
  BY <1>3 DEF XNext, BeginTurn, Resume, Emit, SdkExecutes, StreamEnds, Respond, StopSuspended, Crash
<1> QED BY <1>1, <1>2, <1>3

\* A disk that is faithful after a step is so to the definitions after it.
LEMMA FaithfulNext ==
  ASSUME Faithful(disk'), tool' = tool
  PROVE  Faithful(disk)'
BY DEF Faithful, IsDisk, Remembered, Sound

------------------------------------------------------------------------------
(* The scheduler through every step. *)

\* What #pump starts was queued.
LEMMA PumpedQueue ==
  ASSUME NEW p, NEW safe, NEW exclusive, NEW fail, Pump(p, safe, exclusive, fail)
  PROVE  \A i \in Calls : phase'[i] = p[i] \/ (p[i] = "queued" /\ phase'[i] = "running")
<1>1. \A i \in PumpStarts(p, safe, exclusive, fail) : p[i] = "queued"
  BY DEF PumpStarts, StartsExclusive, StartsSafe, SafeRun, Waiting, Calls
<1> QED BY <1>1 DEF Pump

\* Entries that are not i stay, or their queued bodies start.
Others(i) ==
  \A j \in Calls : j # i =>
    phase'[j] = phase[j] \/ (phase[j] = "queued" /\ phase'[j] = "running")

\* What an entry that is given an outcome, or settles, does to the entries.
LEMMA ExecuteMoves ==
  ASSUME IInv, NEW i \in Calls, Execute(i)
  PROVE  /\ phase[i] = "registered" /\ phase'[i] \in {"queued", "running"}
         /\ Others(i) /\ outcome' = outcome
<1> DEFINE p == [phase EXCEPT ![i] = "queued"]
<1>1. phase \in [Calls -> Phases]
  BY DEF IInv, TypeOK
<1>2. \A j \in Calls : phase'[j] = p[j] \/ (p[j] = "queued" /\ phase'[j] = "running")
  BY PumpedQueue DEF Execute
<1>3. phase[i] = "registered" /\ outcome' = outcome
  BY DEF Execute
<1> QED BY <1>1, <1>2, <1>3 DEF Others

\* The same of a completion, which runs no body.
LEMMA CompleteMoves ==
  ASSUME IInv, NEW i \in Calls, Complete(i)
  PROVE  /\ phase[i] = "registered" /\ phase'[i] = "completed"
         /\ Others(i) /\ outcome' = outcome
<1> DEFINE p == [phase EXCEPT ![i] = "completed"]
<1>1. phase \in [Calls -> Phases]
  BY DEF IInv, TypeOK
<1>2. \A j \in Calls : phase'[j] = p[j] \/ (p[j] = "queued" /\ phase'[j] = "running")
  BY PumpedQueue DEF Complete
<1>3. phase[i] = "registered" /\ outcome' = outcome
  BY DEF Complete
<1> QED BY <1>1, <1>2, <1>3 DEF Others

\* And of a body that settles.
LEMMA SettleMoves ==
  ASSUME IInv, NEW i \in Calls, BodySettles(i)
  PROVE  /\ phase[i] = "settling" /\ phase'[i] = "settled"
         /\ Others(i) /\ outcome' = outcome
<1> DEFINE p == [phase EXCEPT ![i] = "settled"]
<1>1. phase \in [Calls -> Phases]
  BY DEF IInv, TypeOK
<1>2. \A j \in Calls : phase'[j] = p[j] \/ (p[j] = "queued" /\ phase'[j] = "running")
  BY PumpedQueue DEF BodySettles
<1>3. phase[i] = "settling" /\ outcome' = outcome
  BY DEF BodySettles
<1> QED BY <1>1, <1>2, <1>3 DEF Others

\* What every step but a crash is to the scheduler.
LEMMA SchedulerStep ==
  ASSUME Memory, XNext, ~Crash
  PROVE  [Next]_vars
<1>1. \A c \in Ids : tool[c].class \in Kinds
  BY DEF Memory, Typed
<1>2. \A c \in Ids : Enters(c) => Next
  BY <1>1 DEF Enters, Next
<1>3. ASSUME NEW c \in Ids, NEW op, NEW value, Called(c, op, value)
      PROVE  [Next]_vars
  BY <1>2, <1>3 DEF Called
<1>4. ASSUME NEW c \in Ids, Schedule(c) PROVE Next
  <2>1. ex.owner[c] # None /\ ex.owner[c] \in Owners
    BY <1>4 DEF Schedule, Memory, Typed
  <2>2. ex.owner[c].place \in Calls
    BY <2>1 DEF Owners
  <2> QED BY <1>4, <2>2 DEF Schedule, Next
<1>5. ASSUME NEW p \in DOMAIN ex.callOf, Return(p) \/ Settle(p) PROVE Next
  <2>1. p \in Calls
    BY SchedulerAssumption DEF Memory, Typed, PlacesFit, Calls
  <2> QED BY <1>5, <2>1 DEF Return, Settle, Next
<1>6. CASE Executor
  <2>1. CommitLands \/ CommitFails => Next
    BY DEF CommitLands, CommitFails, Next
  <2>2. ASSUME NEW c \in Ids, PersistCall(c) \/ PersistCallFails(c) \/ ScheduleThrows(c)
                     \/ RequestLands(c) \/ RequestFails(c) \/ DecisionLands(c) \/ DecisionFails(c)
        PROVE  UNCHANGED vars
    BY <2>2 DEF PersistCall, PersistCallFails, ScheduleThrows, RequestLands, RequestFails,
                DecisionLands, DecisionFails
  <2> QED BY <1>4, <1>5, <1>6, <2>1, <2>2 DEF Executor
<1>7. CASE Recorder
  <2>1. ASSUME NEW c \in Ids, RecorderRecords(c) PROVE [Next]_vars
    BY <1>2, <2>1 DEF RecorderRecords
  <2>2. ASSUME NEW c \in Ids, RecorderGoesOn(c) PROVE UNCHANGED vars
    BY <2>2 DEF RecorderGoesOn
  <2> QED BY <1>7, <2>1, <2>2 DEF Recorder
<1>8. CASE Closing
  <2>1. ASSUME NEW c \in Ids, CloseCall(c) \/ CancelCall(c) \/ Act(c) PROVE [Next]_vars
    BY <1>3, <2>1 DEF CloseCall, CancelCall, Act
  <2>2. ASSUME NEW c \in Ids, CloseApproval(c) \/ CancelApproval(c) \/ Publish(c)
        PROVE  UNCHANGED vars
    BY <2>2 DEF CloseApproval, CancelApproval, Publish
  <2>3. Drained \/ CallClosed \/ Close \/ CancelledCall \/ StopCloses => UNCHANGED vars
    BY DEF Drained, CallClosed, Close, CancelledCall, StopCloses
  <2> QED BY <1>8, <2>1, <2>2, <2>3 DEF Closing
<1>9. ASSUME NEW c \in Ids, SdkExecutes(c) PROVE [Next]_vars
  BY <1>3, <1>9 DEF SdkExecutes
<1>10. CASE BeginTurn \/ Resume \/ Emit \/ StopSuspended
            \/ (\E stop \in BOOLEAN : StreamEnds(stop))
            \/ (\E c \in Ids, out \in {"yes", "no"} : Respond(c, out))
  BY <1>10 DEF BeginTurn, Resume, Emit, StopSuspended, StreamEnds, Respond
<1> QED BY <1>6, <1>7, <1>8, <1>9, <1>10 DEF XNext

------------------------------------------------------------------------------
(* The executor's memory through every step. *)

\* A place of the scheduler that was taken belongs to a call.
LEMMA PlaceTaken ==
  ASSUME Typed, PlacesFit
  PROVE  /\ ex.callOf \in Seq(Ids) /\ Len(ex.callOf) \in Nat
         /\ DOMAIN ex.callOf = {p \in Calls : phase[p] # "free"}
         /\ \A p \in DOMAIN ex.callOf : p \in Calls /\ ex.callOf[p] \in Ids
         /\ \A p \in Calls : Ready(phase, p) \/ Given(p) => p \in DOMAIN ex.callOf
<1>1. ex.callOf \in Seq(Ids) /\ Len(ex.callOf) \in Nat /\ DOMAIN ex.callOf = 1 .. Len(ex.callOf)
  BY DEF Typed
<1>2. DOMAIN ex.callOf = {p \in Calls : phase[p] # "free"}
  BY <1>1, SchedulerAssumption DEF PlacesFit, Calls
<1>3. \A p \in DOMAIN ex.callOf : p \in Calls /\ ex.callOf[p] \in Ids
  BY <1>1, <1>2
<1>4. \A p \in Calls : Ready(phase, p) \/ Given(p) => p \in DOMAIN ex.callOf
  BY <1>2 DEF Ready, Given
<1> QED BY <1>1, <1>2, <1>3, <1>4

\* What a caller was given, and what need not be stored, is stored for good.
LEMMA StoredStays ==
  ASSUME Typed, PlacesFit, AnswersFit, Grown(disk, disk'), NEW p \in Calls,
         outcome[p] = "resolved" \/ ex.keeps[p]
  PROVE  /\ p \in DOMAIN ex.callOf /\ Ready(phase, p)
         /\ disk'.stored[ex.callOf[p]] = ex.produced[p]
         /\ disk.stored[ex.callOf[p]] = ex.produced[p]
<1>1. Ready(phase, p) /\ ex.produced[p] = disk.stored[ex.callOf[p]] /\ ex.produced[p] # None
  BY DEF AnswersFit, Ready
<1>2. p \in DOMAIN ex.callOf /\ ex.callOf[p] \in Ids
  BY <1>1, PlaceTaken
<1> QED BY <1>1, <1>2 DEF Grown

\* A body that was started stays started, and none is left to start that was not.
OnlyForward ==
  /\ \A p \in DOMAIN ex.callOf :
       /\ p \in DOMAIN ex'.callOf /\ ex'.callOf[p] = ex.callOf[p]
       /\ phase[p] \notin {"free", "registered", "queued", "completed"}
            => phase'[p] \notin {"free", "registered", "queued", "completed"}
  /\ \A p \in DOMAIN ex'.callOf :
       phase'[p] = "queued" => p \in DOMAIN ex.callOf /\ phase[p] = "queued"

\* Then a step that counts no start keeps what the invariant says of them.
LEMMA StartsKept ==
  ASSUME StartsFit, Grown(disk, disk'), OnlyForward,
         seen'.starts = seen.starts, seen'.lost = seen.lost
  PROVE  StartsFit'
<1>1. \A c \in Ids : Started1(c) => Started1(c)'
  BY DEF OnlyForward, Started1, Given
<1>2. \A c \in Ids : disk.stored[c] # None => disk'.stored[c] # None
  BY DEF Grown
<1>3. \A c \in Ids : (\A p \in DOMAIN ex.callOf : ex.callOf[p] = c => phase[p] # "queued") =>
                     (\A p \in DOMAIN ex'.callOf : ex'.callOf[p] = c => phase'[p] # "queued")
  BY DEF OnlyForward
<1> HIDE DEF Started1
<1> QED BY <1>1, <1>2, <1>3 DEF StartsFit

\* A step that leaves the scheduler, places and values alone.
Untouched ==
  /\ UNCHANGED vars
  /\ ex'.reg = ex.reg /\ ex'.callOf = ex.callOf
  /\ ex'.produced = ex.produced /\ ex'.keeps = ex.keeps
  /\ seen'.starts = seen.starts /\ seen'.lost = seen.lost

\* It keeps what the invariant says of them, whatever the history takes.
LEMMA UntouchedKeeps ==
  ASSUME Memory, Grown(disk, disk'), Untouched
  PROVE  PlacesFit' /\ AnswersFit' /\ StartsFit'
<1>1. phase' = phase /\ outcome' = outcome
  BY DEF Untouched, vars
<1>2. PlacesFit'
  BY <1>1 DEF Memory, Typed, PlacesFit, Given, Recorded, Untouched, Grown
<1>3. AnswersFit'
  BY <1>1, StoredStays DEF Memory, AnswersFit, Ready, Untouched
<1>4. StartsFit'
  BY <1>1, StartsKept DEF Memory, OnlyForward, Untouched
<1> QED BY <1>2, <1>3, <1>4

\* The call c is durable before anything waits for it.
LEMMA PersistCallKeeps ==
  ASSUME Memory, Faithful(disk), NEW c \in Ids, PersistCall(c)
  PROVE  Memory'
<1> DEFINE r == [ex.reg[c] EXCEPT !.st = "ok"]
<1>1. ex.reg[c] # None /\ ex.reg[c] \in Registrations /\ ex.reg[c].st = "pending"
  BY DEF PersistCall, Memory, Typed
<1>2. r \in Registrations /\ r.place = ex.reg[c].place /\ r.st = "ok"
  BY <1>1 DEF Registrations
<1>3. ex' = [reg |-> [ex.reg EXCEPT ![c] = r], appr |-> ex.appr, owner |-> ex.owner,
             callOf |-> ex.callOf, produced |-> ex.produced, keeps |-> ex.keeps]
  <2>1. ex' = [ex EXCEPT !.reg[c].st = "ok"]
    BY DEF PersistCall
  <2>2. ex = [reg |-> ex.reg, appr |-> ex.appr, owner |-> ex.owner, callOf |-> ex.callOf,
              produced |-> ex.produced, keeps |-> ex.keeps]
    BY DEF Memory, Typed
  <2> QED BY <2>1, <2>2
<1> HIDE DEF r
<1>4. tool' = tool /\ seen' = seen /\ UNCHANGED vars
  BY DEF PersistCall
<1>5. Grown(disk, disk') /\ c \in DOMAIN disk'.v.calls
  BY PersistCallTaken
<1>6. Typed'
  BY <1>2, <1>3, <1>4 DEF Memory, Typed
<1>7. \A d \in Ids : /\ ex'.reg[d] # None <=> ex.reg[d] # None
                     /\ ex'.reg[d].place = ex.reg[d].place
                     /\ d # c => ex'.reg[d] = ex.reg[d]
                     /\ d = c => ex'.reg[d].st = "ok"
  BY <1>1, <1>2, <1>3, Defined DEF Memory, Typed
<1>8. ApprovalsFit' /\ OwnersFit'
  BY <1>3, <1>4, <1>7 DEF Memory, ApprovalsFit, OwnersFit
<1>9. phase' = phase /\ outcome' = outcome
  BY <1>4 DEF vars
<1>10. PlacesFit'
  <2>1. \A p \in DOMAIN ex.callOf : ex.callOf[p] \in Ids
    BY PlaceTaken DEF Memory
  <2> QED BY <1>3, <1>5, <1>7, <1>9, <2>1 DEF Memory, PlacesFit, Given, Recorded, Grown
<1>11. AnswersFit'
  BY <1>3, <1>5, <1>9, StoredStays DEF Memory, AnswersFit, Ready
<1>12. StartsFit'
  BY <1>3, <1>4, <1>5, <1>9, StartsKept DEF Memory, OnlyForward
<1> QED BY <1>6, <1>8, <1>10, <1>11, <1>12 DEF Memory

\* A call that was not recorded leaves an empty place behind.
LEMMA PersistCallFailsKeeps ==
  ASSUME Memory, Faithful(disk), NEW c \in Ids, PersistCallFails(c)
  PROVE  Memory'
<1>1. ex.reg[c] # None /\ ex.reg[c].st = "pending"
  BY DEF PersistCallFails, Memory, Typed
<1>3. ex' = [reg |-> [ex.reg EXCEPT ![c] = None], appr |-> ex.appr,
             owner |-> [ex.owner EXCEPT ![c] = None],
             callOf |-> ex.callOf, produced |-> ex.produced, keeps |-> ex.keeps]
  <2>1. ex' = [ex EXCEPT !.reg[c] = None, !.owner[c] = None]
    BY DEF PersistCallFails
  <2>2. ex = [reg |-> ex.reg, appr |-> ex.appr, owner |-> ex.owner, callOf |-> ex.callOf,
              produced |-> ex.produced, keeps |-> ex.keeps]
    BY DEF Memory, Typed
  <2> QED BY <2>1, <2>2
<1>4. tool' = tool /\ UNCHANGED vars
  BY DEF PersistCallFails
<1>2. seen' = [setting |-> seen.setting, starts |-> seen.starts, lost |-> seen.lost,
               life |-> seen.life, failures |-> seen'.failures]
  <2>1. seen' = seen \/ seen' = [seen EXCEPT !.failures = @ + 1]
    BY DEF PersistCallFails, Fails
  <2>2. seen = [setting |-> seen.setting, starts |-> seen.starts, lost |-> seen.lost,
                life |-> seen.life, failures |-> seen.failures]
    BY DEF Memory, Typed
  <2> QED BY <2>1, <2>2
<1>5. Grown(disk, disk')
  BY PersistCallTaken
<1>6. Typed'
  BY <1>2, <1>3, <1>4 DEF Memory, Typed
<1>7. \A d \in Ids : /\ d # c => ex'.reg[d] = ex.reg[d] /\ ex'.owner[d] = ex.owner[d]
                     /\ d = c => ex'.reg[d] = None /\ ex'.owner[d] = None
  BY <1>3 DEF Memory, Typed
<1>8. ApprovalsFit' /\ OwnersFit'
  BY <1>3, <1>4, <1>7 DEF Memory, ApprovalsFit, OwnersFit
<1>9. phase' = phase /\ outcome' = outcome
  BY <1>4 DEF vars
<1>10. PlacesFit'
  <2>1. \A p \in DOMAIN ex.callOf : ex.callOf[p] \in Ids
    BY PlaceTaken DEF Memory
  <2> QED BY <1>1, <1>3, <1>5, <1>7, <1>9, <2>1 DEF Memory, PlacesFit, Given, Recorded, Grown
<1>11. AnswersFit'
  BY <1>3, <1>5, <1>9, StoredStays DEF Memory, AnswersFit, Ready
<1>12. StartsFit'
  BY <1>2, <1>3, <1>4, <1>5, <1>9, StartsKept DEF Memory, OnlyForward
<1> QED BY <1>6, <1>8, <1>10, <1>11, <1>12 DEF Memory

\* The record of a call is made, dropped or aborted.
LEMMA OwnersKeep ==
  ASSUME Memory, UNCHANGED <<vars, tool, disk, seen>>, OwnersFit',
         ex' = [reg |-> ex.reg, appr |-> ex.appr, owner |-> ex'.owner, callOf |-> ex.callOf,
                produced |-> ex.produced, keeps |-> ex.keeps],
         ex'.owner \in [Ids -> Owners \cup {None}]
  PROVE  Memory'
<1>1. /\ ex'.reg = ex.reg /\ ex'.appr = ex.appr /\ ex'.callOf = ex.callOf
      /\ ex'.produced = ex.produced /\ ex'.keeps = ex.keeps
  OBVIOUS
<1>2. Typed'
  BY <1>1 DEF Memory, Typed
<1>3. ApprovalsFit'
  BY <1>1 DEF Memory, ApprovalsFit
<1>4. Untouched
  BY <1>1 DEF Untouched
<1>5. Grown(disk, disk')
  BY GrownIsReflexive
<1> QED BY <1>2, <1>3, <1>4, <1>5, UntouchedKeeps DEF Memory

\* A call takes the next place.
LEMMA EntersKeeps ==
  ASSUME Memory, IInv, NEW c \in Ids, Enters(c), ex.reg[c] = None,
         UNCHANGED <<tool, disk, seen>>, NEW b \in BOOLEAN, NEW y \in Owners \cup {None},
         y # None => y.place = NextPlace /\ (y.op = "complete" => y.value # None),
         ex' = [reg |-> [ex.reg EXCEPT ![c] = Registration(b)], appr |-> ex.appr,
                owner |-> [ex.owner EXCEPT ![c] = y], callOf |-> Append(ex.callOf, c),
                produced |-> ex.produced, keeps |-> ex.keeps]
  PROVE  Memory'
<1> DEFINE n == NextPlace
           r == Registration(b)
<1>1. n \in Calls /\ phase[n] = "free" /\ n = Len(ex.callOf) + 1 /\ Len(ex.callOf) \in Nat
  BY PlaceTaken DEF Enters, Register, NextPlace, Memory
<1>2. r \in Registrations /\ r.place = n /\ r.st = "pending" /\ r # None
  BY <1>1, Defined DEF Registration, Registrations
<1>3. phase' = [phase EXCEPT ![n] = "registered"] /\ outcome' = outcome
  BY DEF Enters, Register
<1>4. /\ DOMAIN ex'.callOf = DOMAIN ex.callOf \cup {n} /\ ex'.callOf[n] = c
      /\ Len(ex'.callOf) = n /\ ex'.callOf \in Seq(Ids)
      /\ \A p \in DOMAIN ex.callOf : p # n /\ p \in Calls /\ ex.callOf[p] \in Ids
                                     /\ ex'.callOf[p] = ex.callOf[p]
  <2>1. ex'.callOf = Append(ex.callOf, c) /\ ex.callOf \in Seq(Ids)
    BY DEF Memory, Typed
  <2>2. /\ DOMAIN ex.callOf = 1 .. Len(ex.callOf) /\ DOMAIN ex'.callOf = 1 .. Len(ex.callOf) + 1
        /\ Len(ex'.callOf) = Len(ex.callOf) + 1 /\ ex'.callOf \in Seq(Ids)
        /\ ex'.callOf[Len(ex.callOf) + 1] = c
        /\ \A p \in 1 .. Len(ex.callOf) : ex'.callOf[p] = ex.callOf[p] /\ ex.callOf[p] \in Ids
    BY <2>1
  <2>3. \A p \in DOMAIN ex.callOf : p \in Calls
    BY PlaceTaken DEF Memory
  <2> QED BY <1>1, <2>2, <2>3
<1>5. /\ ex'.reg = [ex.reg EXCEPT ![c] = r] /\ ex'.owner = [ex.owner EXCEPT ![c] = y]
      /\ ex'.appr = ex.appr /\ ex'.produced = ex.produced /\ ex'.keeps = ex.keeps
      /\ ex' = [reg |-> ex'.reg, appr |-> ex'.appr, owner |-> ex'.owner, callOf |-> ex'.callOf,
                produced |-> ex'.produced, keeps |-> ex'.keeps]
  BY Zenon
<1> HIDE DEF n, r
<1>6. /\ ex'.reg \in [Ids -> Registrations \cup {None}] /\ ex'.reg[c] = r
      /\ ex'.owner \in [Ids -> Owners \cup {None}] /\ ex'.owner[c] = y
      /\ \A d \in Ids : d # c => ex'.reg[d] = ex.reg[d] /\ ex'.owner[d] = ex.owner[d]
  BY <1>2, <1>5 DEF Memory, Typed
<1>7. phase'[n] = "registered" /\ \A p \in Calls : p # n => phase'[p] = phase[p]
  <2>1. phase \in [Calls -> Phases]
    BY DEF IInv, TypeOK
  <2> QED BY <1>1, <1>3, <2>1
<1>8. Typed'
  BY <1>4, <1>5, <1>6 DEF Memory, Typed
<1>9. ApprovalsFit'
  BY <1>5 DEF Memory, ApprovalsFit
<1>10. OwnersFit'
  <2>1. y # None => y.place = n /\ (y.op = "complete" => y.value # None)
    BY DEF n
  <2>2. \A d \in Ids : ex'.owner[d] # None =>
           /\ ex'.reg[d] # None /\ ex'.owner[d].place = ex'.reg[d].place
           /\ ex'.owner[d].op = "complete" => ex'.owner[d].value # None
    BY <1>2, <1>6, <2>1 DEF Memory, OwnersFit
  <2> QED BY <2>2 DEF OwnersFit
<1>11. PlacesFit'
  <2>1. Len(ex'.callOf) <= MaxCalls
    BY <1>1, <1>4, SchedulerAssumption DEF Calls
  <2>2. \A p \in Calls : phase'[p] = "free" <=> p > Len(ex'.callOf)
    BY <1>1, <1>4, <1>7 DEF Memory, PlacesFit, Calls
  <2>3. ASSUME NEW d \in Ids, ex'.reg[d] # None
        PROVE  /\ ex'.reg[d].place \in DOMAIN ex'.callOf /\ ex'.callOf[ex'.reg[d].place] = d
               /\ ex'.reg[d].st = "ok" => d \in DOMAIN disk'.v.calls
    BY <1>2, <1>4, <1>6, <2>3 DEF Memory, PlacesFit, Recorded
  <2>4. ASSUME NEW p \in DOMAIN ex'.callOf, phase'[p] \notin {"free", "registered"}
        PROVE  LET d == ex'.callOf[p]
               IN  ex'.reg[d] # None /\ ex'.reg[d].place = p /\ ex'.reg[d].st = "ok"
    <3>1. p # n /\ p \in DOMAIN ex.callOf /\ ex'.callOf[p] = ex.callOf[p] /\ ex.callOf[p] \in Ids
      BY <1>4, <1>7, <2>4
    <3>2. phase[p] \notin {"free", "registered"}
      BY <1>4, <1>7, <2>4, <3>1
    <3>3. ex.reg[ex.callOf[p]] # None /\ ex.reg[ex.callOf[p]].place = p /\ ex.reg[ex.callOf[p]].st = "ok"
      BY <3>1, <3>2 DEF Memory, PlacesFit, Given
    <3> QED BY <1>6, <3>1, <3>3
  <2> QED BY <2>1, <2>2, <2>3, <2>4 DEF PlacesFit, Given, Recorded
<1>12. Grown(disk, disk')
  BY GrownIsReflexive
<1>13. AnswersFit'
  <2>1. ASSUME NEW p \in Calls, p # n
        PROVE  /\ outcome[p] = "resolved" =>
                    Ready(phase, p) /\ ex.produced[p] = disk'.stored[ex'.callOf[p]]
               /\ ex.keeps[p] => phase[p] = "completed" /\ ex.produced[p] = disk'.stored[ex'.callOf[p]]
               /\ Ready(phase, p) => ex.produced[p] # None
    BY <1>4, <1>12, <2>1, StoredStays DEF Memory, AnswersFit
  <2>2. outcome[n] # "resolved" /\ ~ex.keeps[n]
    BY <1>1 DEF Memory, AnswersFit, Ready
  <2> SUFFICES ASSUME NEW p \in Calls
               PROVE  /\ outcome'[p] = "resolved" =>
                           Ready(phase', p) /\ ex'.produced[p] = disk'.stored[ex'.callOf[p]]
                      /\ ex'.keeps[p] => phase'[p] = "completed"
                                          /\ ex'.produced[p] = disk'.stored[ex'.callOf[p]]
                      /\ Ready(phase', p) => ex'.produced[p] # None
    BY DEF AnswersFit, Ready
  <2>3. outcome'[p] = outcome[p] /\ ex'.produced[p] = ex.produced[p] /\ ex'.keeps[p] = ex.keeps[p]
    BY <1>3, <1>5
  <2>4. CASE p # n
    <3>1. phase'[p] = phase[p]
      BY <1>7, <2>4
    <3>2. Ready(phase', p) <=> Ready(phase, p)
      BY <3>1 DEF Ready
    <3> QED BY <2>1, <2>3, <2>4, <3>1, <3>2
  <2>5. CASE p = n
    <3>1. ~Ready(phase', p)
      BY <1>7, <2>5 DEF Ready
    <3> QED BY <2>2, <2>3, <2>5, <3>1
  <2> QED BY <2>4, <2>5
<1>14. StartsFit'
  BY <1>4, <1>7, <1>12, StartsKept DEF Memory, OnlyForward
<1> QED BY <1>8, <1>9, <1>10, <1>11, <1>13, <1>14 DEF Memory

\* A call of the executor joins the record of the call or makes one.
LEMMA CalledKeeps ==
  ASSUME Memory, IInv, NEW c \in Ids, NEW op \in {"run", "execute", "complete"},
         NEW value \in Answers \cup {None}, op = "complete" => value # None,
         Called(c, op, value), UNCHANGED <<tool, disk, seen>>
  PROVE  Memory'
<1> DEFINE own(place) == [op |-> op, value |-> value, pc |-> "waiting", place |-> place]
<1>1. ex = [reg |-> ex.reg, appr |-> ex.appr, owner |-> ex.owner, callOf |-> ex.callOf,
            produced |-> ex.produced, keeps |-> ex.keeps]
  BY DEF Memory, Typed
<1>2. \A p \in Calls : own(p) \in Owners
  BY DEF Owners
<1>3. \A p : own(p).place = p /\ own(p).op = op /\ own(p).value = value
  OBVIOUS
<1>4. CASE UNCHANGED <<vars, ex>>
  <2>1. ex'.owner = ex.owner /\ ex'.reg = ex.reg
    BY <1>4
  <2>2. OwnersFit'
    BY <2>1 DEF Memory, OwnersFit
  <2>3. ex.owner \in [Ids -> Owners \cup {None}]
    BY DEF Memory, Typed
  <2> QED BY <1>1, <1>4, <2>1, <2>2, <2>3, OwnersKeep
<1>5. CASE /\ ~Live(c) /\ ex.reg[c] # None /\ UNCHANGED vars
           /\ ex' = [ex EXCEPT !.owner[c] = own(ex.reg[c].place)]
  <2> DEFINE y == own(ex.reg[c].place)
  <2>1. ex.reg[c].place \in Calls
    BY <1>5 DEF Memory, Typed, Registrations
  <2>2. y \in Owners /\ y.place = ex.reg[c].place /\ (y.op = "complete" => y.value # None)
    BY <1>2, <1>3, <2>1
  <2>3. ex' = [ex EXCEPT !.owner[c] = y]
    BY <1>5
  <2> HIDE DEF y
  <2>4. ex' = [reg |-> ex.reg, appr |-> ex.appr, owner |-> [ex.owner EXCEPT ![c] = y],
               callOf |-> ex.callOf, produced |-> ex.produced, keeps |-> ex.keeps]
    BY <1>1, <2>3
  <2>5. /\ ex'.owner \in [Ids -> Owners \cup {None}] /\ ex'.owner[c] = y /\ ex'.reg = ex.reg
        /\ \A d \in Ids : d # c => ex'.owner[d] = ex.owner[d]
        /\ ex'.owner = [ex.owner EXCEPT ![c] = y]
    BY <2>2, <2>4 DEF Memory, Typed
  <2>6. OwnersFit'
    BY <1>5, <2>2, <2>5 DEF Memory, OwnersFit
  <2> QED BY <1>5, <2>4, <2>5, <2>6, OwnersKeep
<1>6. CASE /\ ex.reg[c] = None /\ Enters(c)
           /\ ex' = [ex EXCEPT !.reg[c] = Registration(TRUE), !.callOf = Append(@, c),
                               !.owner[c] = own(NextPlace)]
  <2> DEFINE y == own(NextPlace)
             r == Registration(TRUE)
  <2>1. NextPlace \in Calls
    BY <1>6 DEF Enters
  <2>2. y \in Owners /\ y.place = NextPlace /\ (y.op = "complete" => y.value # None)
    BY <1>2, <1>3, <2>1
  <2>3. ex' = [ex EXCEPT !.reg[c] = r, !.callOf = Append(@, c), !.owner[c] = y]
    BY <1>6
  <2> HIDE DEF y, r
  <2>4. ex' = [reg |-> [ex.reg EXCEPT ![c] = r], appr |-> ex.appr,
               owner |-> [ex.owner EXCEPT ![c] = y], callOf |-> Append(ex.callOf, c),
               produced |-> ex.produced, keeps |-> ex.keeps]
    BY <1>1, <2>3
  <2> QED BY <1>6, <2>2, <2>4, EntersKeeps DEF r
<1> QED BY <1>4, <1>5, <1>6 DEF Called

\* The recorder registers a call.
LEMMA RecorderRecordsKeeps ==
  ASSUME Memory, IInv, NEW c \in Ids, RecorderRecords(c)
  PROVE  Memory'
<1>1. ex = [reg |-> ex.reg, appr |-> ex.appr, owner |-> ex.owner, callOf |-> ex.callOf,
            produced |-> ex.produced, keeps |-> ex.keeps]
  BY DEF Memory, Typed
<1>2. ex.owner[c] = None /\ ex.owner \in [Ids -> Owners \cup {None}] /\ OwnersFit
  BY DEF Memory, Typed, OwnersFit, RecorderRecords
<1>3. CASE UNCHANGED <<vars, ex>>
  <2>1. ex'.owner = ex.owner /\ ex'.reg = ex.reg
    BY <1>3
  <2>2. OwnersFit'
    BY <1>2, <2>1 DEF OwnersFit
  <2> QED BY <1>1, <1>2, <1>3, <2>1, <2>2, OwnersKeep DEF RecorderRecords
<1>4. CASE Enters(c) /\ ex' = [ex EXCEPT !.reg[c] = Registration(FALSE), !.callOf = Append(@, c)]
  <2> DEFINE r == Registration(FALSE)
  <2>1. ex' = [ex EXCEPT !.reg[c] = r, !.callOf = Append(@, c)]
    BY <1>4
  <2> HIDE DEF r
  <2>2. ex' = [reg |-> [ex.reg EXCEPT ![c] = r], appr |-> ex.appr,
               owner |-> ex.owner, callOf |-> Append(ex.callOf, c),
               produced |-> ex.produced, keeps |-> ex.keeps]
    BY <1>1, <2>1
  <2>3. ex.owner = [ex.owner EXCEPT ![c] = None]
    BY <1>2
  <2>4. ex' = [reg |-> [ex.reg EXCEPT ![c] = r], appr |-> ex.appr,
               owner |-> [ex.owner EXCEPT ![c] = None], callOf |-> Append(ex.callOf, c),
               produced |-> ex.produced, keeps |-> ex.keeps]
    BY <2>2, <2>3
  <2> QED BY <1>4, <2>4, EntersKeeps DEF r, RecorderRecords
<1> QED BY <1>3, <1>4 DEF RecorderRecords

\* A record whose registration or result throws is deleted.
LEMMA ScheduleThrowsKeeps ==
  ASSUME Memory, NEW c \in Ids, ScheduleThrows(c)
  PROVE  Memory'
<1>1. ex = [reg |-> ex.reg, appr |-> ex.appr, owner |-> ex.owner, callOf |-> ex.callOf,
            produced |-> ex.produced, keeps |-> ex.keeps]
  BY DEF Memory, Typed
<1>2. ex' = [ex EXCEPT !.owner[c] = None]
  BY DEF ScheduleThrows
<1>3. ex' = [reg |-> ex.reg, appr |-> ex.appr, owner |-> [ex.owner EXCEPT ![c] = None],
             callOf |-> ex.callOf, produced |-> ex.produced, keeps |-> ex.keeps]
  BY <1>1, <1>2
<1>4. /\ ex'.owner \in [Ids -> Owners \cup {None}] /\ ex'.owner[c] = None /\ ex'.reg = ex.reg
      /\ \A d \in Ids : d # c => ex'.owner[d] = ex.owner[d]
      /\ ex'.owner = [ex.owner EXCEPT ![c] = None]
  BY <1>3 DEF Memory, Typed
<1>5. OwnersFit'
  BY <1>4 DEF Memory, OwnersFit
<1> QED BY <1>3, <1>4, <1>5, OwnersKeep DEF ScheduleThrows

\* A Stop aborts the runs of the SDK.
LEMMA StreamEndsKeeps ==
  ASSUME Memory, NEW stop \in BOOLEAN, StreamEnds(stop)
  PROVE  Memory'
<1> DEFINE o == [c \in Ids |->
                   IF stop /\ ex.owner[c] # None /\ ex.owner[c].op = "run"
                     THEN [ex.owner[c] EXCEPT !.op = "aborted"] ELSE ex.owner[c]]
<1>1. ex = [reg |-> ex.reg, appr |-> ex.appr, owner |-> ex.owner, callOf |-> ex.callOf,
            produced |-> ex.produced, keeps |-> ex.keeps]
  BY DEF Memory, Typed
<1>2. ex' = [ex EXCEPT !.owner = o]
  BY DEF StreamEnds
<1>3. ASSUME NEW c \in Ids
      PROVE  /\ o[c] \in Owners \cup {None} /\ (o[c] # None <=> ex.owner[c] # None)
             /\ o[c] # None => o[c].place = ex.owner[c].place /\ o[c].value = ex.owner[c].value
                               /\ (o[c].op = "complete" => ex.owner[c].op = "complete")
  <2>1. ex.owner[c] = None \/ (ex.owner[c] \in Owners /\ ex.owner[c] # None)
    BY <1>3, Defined DEF Memory, Typed
  <2>2. CASE ex.owner[c] = None
    BY <2>2
  <2>3. CASE ex.owner[c] \in Owners /\ ex.owner[c] # None
    <3>1. [ex.owner[c] EXCEPT !.op = "aborted"] \in Owners
      BY <2>3 DEF Owners
    <3>2. /\ [ex.owner[c] EXCEPT !.op = "aborted"].place = ex.owner[c].place
          /\ [ex.owner[c] EXCEPT !.op = "aborted"].value = ex.owner[c].value
          /\ [ex.owner[c] EXCEPT !.op = "aborted"].op = "aborted"
      BY <2>3 DEF Owners
    <3> QED BY <2>3, <3>1, <3>2, Defined
  <2> QED BY <2>1, <2>2, <2>3
<1>4. o \in [Ids -> Owners \cup {None}]
  <2>1. \A c \in Ids : o[c] \in Owners \cup {None}
    BY <1>3
  <2> QED BY <2>1
<1> HIDE DEF o
<1>5. ex' = [reg |-> ex.reg, appr |-> ex.appr, owner |-> o,
             callOf |-> ex.callOf, produced |-> ex.produced, keeps |-> ex.keeps]
  BY <1>1, <1>2
<1>6. ex'.owner = o /\ ex'.reg = ex.reg
  BY <1>5
<1>7. OwnersFit'
  BY <1>3, <1>6 DEF Memory, OwnersFit
<1> QED BY <1>4, <1>5, <1>6, <1>7, OwnersKeep DEF StreamEnds

\* A body returns.
LEMMA ReturnKeeps ==
  ASSUME Memory, IInv, NEW p \in DOMAIN ex.callOf, Return(p)
  PROVE  Memory'
<1>1. p \in Calls /\ \A q \in DOMAIN ex.callOf : q \in Calls
  BY PlaceTaken DEF Memory
<1>2. /\ phase[p] = "running" /\ phase' = [phase EXCEPT ![p] = "settling"] /\ outcome' = outcome
      /\ UNCHANGED <<tool, disk, seen>>
  BY DEF Return, BodyReturns
<1>3. phase'[p] = "settling" /\ \A q \in Calls : q # p => phase'[q] = phase[q]
  BY <1>1, <1>2 DEF IInv, TypeOK
<1>4. ex' = [reg |-> ex.reg, appr |-> ex.appr, owner |-> ex.owner, callOf |-> ex.callOf,
             produced |-> [ex.produced EXCEPT ![p] = "done"], keeps |-> ex.keeps]
  <2>1. ex = [reg |-> ex.reg, appr |-> ex.appr, owner |-> ex.owner, callOf |-> ex.callOf,
              produced |-> ex.produced, keeps |-> ex.keeps]
    BY DEF Memory, Typed
  <2>2. ex' = [ex EXCEPT !.produced[p] = "done"]
    BY DEF Return
  <2> QED BY <2>1, <2>2
<1>5. "done" \in Answers /\ "done" # None
  BY Defined DEF Answers
<1>6. Typed'
  BY <1>2, <1>4, <1>5 DEF Memory, Typed
<1>7. ApprovalsFit' /\ OwnersFit'
  BY <1>2, <1>4 DEF Memory, ApprovalsFit, OwnersFit
<1>8. PlacesFit'
  BY <1>1, <1>2, <1>3, <1>4 DEF Memory, PlacesFit, Given, Recorded
<1>9. /\ ex'.produced[p] = "done" /\ ex'.keeps = ex.keeps /\ ex'.callOf = ex.callOf
      /\ \A q \in Calls : q # p => ex'.produced[q] = ex.produced[q]
  BY <1>1, <1>4 DEF Memory, Typed
<1>10. AnswersFit'
  BY <1>2, <1>3, <1>5, <1>9 DEF Memory, AnswersFit, Ready
<1>11. StartsFit'
  <2>1. OnlyForward
    BY <1>1, <1>2, <1>3, <1>9 DEF OnlyForward
  <2> QED BY <1>2, <2>1, GrownIsReflexive, StartsKept DEF Memory
<1> QED BY <1>6, <1>7, <1>8, <1>10, <1>11 DEF Memory

\* The starts of a step that gives places outcomes are counted.
LEMMA CountedKeeps ==
  ASSUME Memory, Counted, Grown(disk, disk'), ex'.callOf = ex.callOf, PlacesFit',
         \A p \in DOMAIN ex.callOf :
           /\ phase[p] \notin {"free", "registered", "queued", "completed"}
                => phase'[p] \notin {"free", "registered", "queued", "completed"}
           /\ \/ phase'[p] \notin {"queued", "running"} \/ phase'[p] = phase[p]
              \/ phase[p] = "queued"
              \/ seen.starts[ex.callOf[p]] = 0 \/ ex.callOf[p] \in seen.lost
  PROVE  /\ StartsFit'
         /\ seen' = [setting |-> seen.setting, starts |-> seen'.starts, lost |-> seen.lost,
                     life |-> seen.life, failures |-> seen.failures]
         /\ seen'.starts \in [Ids -> Nat]
<1> DEFINE next == [c \in Ids |-> IF Effect(c) THEN seen.starts[c] + 1 ELSE seen.starts[c]]
<1>1. seen.starts \in [Ids -> Nat] /\ next \in [Ids -> Nat]
  BY DEF Memory, Typed
<1>2. seen' = [setting |-> seen.setting, starts |-> next, lost |-> seen.lost,
               life |-> seen.life, failures |-> seen.failures]
  <2>1. seen = [setting |-> seen.setting, starts |-> seen.starts, lost |-> seen.lost,
                life |-> seen.life, failures |-> seen.failures]
    BY DEF Memory, Typed
  <2>2. seen' = [seen EXCEPT !.starts = next]
    BY DEF Counted
  <2> HIDE DEF next
  <2> QED BY <2>1, <2>2
<1>3. \A c \in Ids : /\ Effect(c) => next[c] = seen.starts[c] + 1
                     /\ ~Effect(c) => next[c] = seen.starts[c]
  OBVIOUS
<1> HIDE DEF next
<1>4. seen'.starts = next /\ seen'.lost = seen.lost
  BY <1>2
<1>5. \A p \in DOMAIN ex.callOf : ex.callOf[p] \in Ids
  BY PlaceTaken DEF Memory
<1>6. ASSUME NEW c \in Ids, NEW p \in DOMAIN ex.callOf, ex.callOf[p] = c,
             phase'[p] \in {"queued", "running"}, phase'[p] # phase[p] \/ phase[p] = "queued"
      PROVE  seen.starts[c] = 0 \/ c \in seen.lost
  <2>1. CASE phase[p] = "queued"
    BY <1>1, <1>6, <2>1 DEF Memory, StartsFit
  <2>2. CASE phase[p] # "queued"
    BY <1>6, <2>2
  <2> QED BY <2>1, <2>2
<1>7. ASSUME NEW c \in Ids, Effect(c)
      PROVE  /\ seen.starts[c] = 0 \/ c \in seen.lost
             /\ Started1(c)'
             /\ \A p \in DOMAIN ex.callOf : ex.callOf[p] = c => phase'[p] # "queued"
  <2>1. PICK p \in DOMAIN ex.callOf : ex.callOf[p] = c /\ Begun(p)
    BY <1>7 DEF Effect
  <2>2. phase[p] # "running" /\ phase'[p] = "running"
    BY <2>1 DEF Begun
  <2>3. Started1(c)'
    BY <2>1, <2>2 DEF Started1, Given
  <2>4. \A q \in DOMAIN ex.callOf : ex.callOf[q] = c /\ phase'[q] = "queued" => p = q
    BY <2>1, <2>2 DEF PlacesFit, Given
  <2> QED BY <1>6, <2>1, <2>2, <2>3, <2>4
<1>8. ASSUME NEW c \in Ids, ~Effect(c), seen.starts[c] > 0, c \notin seen.lost
      PROVE  /\ Started1(c)' \/ disk'.stored[c] # None
             /\ \A p \in DOMAIN ex.callOf : ex.callOf[p] = c => phase'[p] # "queued"
  <2>1. Started1(c) \/ disk.stored[c] # None
    BY <1>8 DEF Memory, StartsFit
  <2>2. Started1(c) => Started1(c)'
    BY DEF Started1, Given
  <2>3. seen.starts[c] # 0
    BY <1>1, <1>8
  <2>4. ASSUME NEW p \in DOMAIN ex.callOf, ex.callOf[p] = c PROVE phase'[p] # "queued"
    <3>1. phase[p] # "queued"
      BY <1>8, <2>4 DEF Memory, StartsFit
    <3> QED BY <1>6, <1>8, <2>3, <2>4, <3>1
  <2> QED BY <2>1, <2>2, <2>4 DEF Grown
<1>9. ASSUME NEW c \in Ids
      PROVE  /\ next[c] > 1 => c \in seen.lost
             /\ next[c] > 0 /\ c \notin seen.lost =>
                  /\ Started1(c)' \/ disk'.stored[c] # None
                  /\ \A p \in DOMAIN ex.callOf : ex.callOf[p] = c => phase'[p] # "queued"
  <2>1. CASE Effect(c)
    BY <1>1, <1>3, <1>7, <2>1
  <2>2. CASE ~Effect(c)
    <3>1. next[c] = seen.starts[c]
      BY <1>3, <2>2
    <3>2. seen.starts[c] > 1 => c \in seen.lost
      BY DEF Memory, StartsFit
    <3> QED BY <1>8, <2>2, <3>1, <3>2
  <2> QED BY <2>1, <2>2
<1>10. StartsFit'
  BY <1>4, <1>9 DEF StartsFit
<1> QED BY <1>1, <1>2, <1>4, <1>10

\* A body settles, and others start.
LEMMA SettleKeeps ==
  ASSUME Memory, IInv, NEW p \in DOMAIN ex.callOf, Settle(p)
  PROVE  Memory'
<1>1. p \in Calls /\ \A q \in DOMAIN ex.callOf : q \in Calls
  BY PlaceTaken DEF Memory
<1>2. UNCHANGED <<tool, disk, ex>> /\ Counted /\ BodySettles(p)
  BY DEF Settle
<1>3. phase[p] = "settling" /\ phase'[p] = "settled" /\ Others(p) /\ outcome' = outcome
  BY <1>1, <1>2, SettleMoves
<1>4. \A q \in Calls : phase'[q] = phase[q] \/ (phase[q] = "queued" /\ phase'[q] = "running")
                       \/ (phase[q] = "settling" /\ phase'[q] = "settled")
  BY <1>3 DEF Others
<1>5. ApprovalsFit' /\ OwnersFit'
  BY <1>2 DEF Memory, ApprovalsFit, OwnersFit
<1>6. PlacesFit'
  BY <1>1, <1>2, <1>4 DEF Memory, PlacesFit, Given, Recorded
<1>7. AnswersFit'
  BY <1>2, <1>3, <1>4 DEF Memory, AnswersFit, Ready
<1>8. /\ StartsFit'
      /\ seen' = [setting |-> seen.setting, starts |-> seen'.starts, lost |-> seen.lost,
                  life |-> seen.life, failures |-> seen.failures]
      /\ seen'.starts \in [Ids -> Nat]
  <2>1. Grown(disk, disk')
    BY <1>2, GrownIsReflexive
  <2>2. \A q \in DOMAIN ex.callOf :
           /\ phase[q] \notin {"free", "registered", "queued", "completed"}
                => phase'[q] \notin {"free", "registered", "queued", "completed"}
           /\ \/ phase'[q] \notin {"queued", "running"} \/ phase'[q] = phase[q]
              \/ phase[q] = "queued"
    BY <1>1, <1>4
  <2> QED BY <1>2, <1>6, <2>1, <2>2, CountedKeeps
<1>9. Typed'
  BY <1>2, <1>8 DEF Memory, Typed
<1> QED BY <1>5, <1>6, <1>7, <1>8, <1>9 DEF Memory

\* A call is given its outcome: a body that never ran, the value it is completed
\* with, or its durable result.
LEMMA ScheduleKeeps ==
  ASSUME Memory, IInv, Faithful(disk), NEW c \in Ids, Schedule(c)
  PROVE  Memory'
<1> DEFINE o == ex.owner[c]
           i == o.place
           d == disk.stored[c]
           ready == o.op = "complete" \/ d # None
           value == IF o.op = "complete" THEN o.value ELSE d
           given == IF ready THEN value ELSE None
           y == [o EXCEPT !.pc = "scheduled"]
           k == d # None
<1>1. /\ o # None /\ o.pc = "waiting" /\ ex.reg[c] # None /\ ex.reg[c].st = "ok" /\ ~Mismatch(c)
      /\ Counted /\ UNCHANGED <<tool, disk, chat>>
      /\ IF ready THEN Complete(i) ELSE Execute(i)
      /\ ex' = [ex EXCEPT !.owner[c].pc = "scheduled", !.produced[i] = given, !.keeps[i] = k]
  BY DEF Schedule, Persisted, DurableResult
<1>2. /\ o \in Owners /\ i \in Calls /\ o.value \in Answers \cup {None} /\ i = ex.reg[c].place
      /\ i \in DOMAIN ex.callOf /\ ex.callOf[i] = c /\ (o.op = "complete" => o.value # None)
  <2>1. o \in Owners
    BY <1>1 DEF Memory, Typed
  <2>2. i \in Calls /\ o.value \in Answers \cup {None}
    BY <2>1 DEF Owners
  <2>3. i = ex.reg[c].place /\ (o.op = "complete" => o.value # None)
    BY <1>1 DEF Memory, OwnersFit
  <2>4. i \in DOMAIN ex.callOf /\ ex.callOf[i] = c
    BY <1>1, <2>3 DEF Memory, PlacesFit
  <2> QED BY <2>1, <2>2, <2>3, <2>4
<1>3. d \in Answers \cup {None}
  BY DEF Faithful, IsDisk
<1>4. o.op = "complete" /\ d # None => d = o.value
  BY <1>1 DEF Mismatch, DurableResult
<1>5. /\ y \in Owners /\ y.place = i /\ y.op = o.op /\ y.value = o.value
  BY <1>2 DEF Owners
<1>6. /\ phase[i] = "registered" /\ Others(i) /\ outcome' = outcome
      /\ ready => phase'[i] = "completed"
      /\ ~ready => phase'[i] \in {"queued", "running"}
  BY <1>1, <1>2, CompleteMoves, ExecuteMoves
<1>7. /\ given \in Answers \cup {None} /\ (ready => given # None)
      /\ k => ready /\ given = d
      /\ k \in BOOLEAN
  BY <1>2, <1>3, <1>4
<1>8. ex' = [reg |-> ex.reg, appr |-> ex.appr, owner |-> [ex.owner EXCEPT ![c] = y],
             callOf |-> ex.callOf, produced |-> [ex.produced EXCEPT ![i] = given],
             keeps |-> [ex.keeps EXCEPT ![i] = k]]
  <2>1. ex = [reg |-> ex.reg, appr |-> ex.appr, owner |-> ex.owner, callOf |-> ex.callOf,
              produced |-> ex.produced, keeps |-> ex.keeps]
    BY DEF Memory, Typed
  <2> HIDE DEF given, k, i
  <2>2. ex' = [ex EXCEPT !.owner[c].pc = "scheduled", !.produced[i] = given, !.keeps[i] = k]
    BY <1>1
  <2> QED BY <2>1, <2>2
<1> HIDE DEF given, k, y, ready, value
<1>9. /\ ex'.reg = ex.reg /\ ex'.appr = ex.appr /\ ex'.callOf = ex.callOf
      /\ ex'.owner \in [Ids -> Owners \cup {None}]
      /\ ex'.produced \in [Calls -> Answers \cup {None}] /\ ex'.keeps \in [Calls -> BOOLEAN]
      /\ ex'.owner[c] = y /\ ex'.produced[i] = given /\ ex'.keeps[i] = k
      /\ \A e \in Ids : e # c => ex'.owner[e] = ex.owner[e]
      /\ \A p \in Calls : p # i => ex'.produced[p] = ex.produced[p] /\ ex'.keeps[p] = ex.keeps[p]
      /\ ex' = [reg |-> ex'.reg, appr |-> ex'.appr, owner |-> ex'.owner,
                callOf |-> ex'.callOf, produced |-> ex'.produced, keeps |-> ex'.keeps]
  BY <1>2, <1>5, <1>7, <1>8 DEF Memory, Typed
<1>10. \A p \in DOMAIN ex.callOf : p \in Calls /\ ex.callOf[p] \in Ids
  BY PlaceTaken DEF Memory
<1> HIDE DEF d
<1> HIDE DEF o, i
<1>11. \A p \in Calls : p # i =>
          phase'[p] = phase[p] \/ (phase[p] = "queued" /\ phase'[p] = "running")
  BY <1>6 DEF Others
<1>12. ApprovalsFit'
  BY <1>1, <1>9 DEF Memory, ApprovalsFit
<1>13. OwnersFit'
  <2>1. /\ ex'.reg[c] # None /\ ex'.owner[c].place = ex'.reg[c].place
        /\ ex'.owner[c].op = "complete" => ex'.owner[c].value # None
    <3>1. ex.reg[c] # None /\ y.place = ex.reg[c].place /\ (y.op = "complete" => y.value # None)
      BY <1>1, <1>2, <1>5
    <3>2. ex'.reg = ex.reg /\ ex'.owner[c] = y
      BY <1>9
    <3> QED BY <3>1, <3>2
  <2>2. \A e \in Ids : e # c /\ ex'.owner[e] # None =>
           /\ ex'.reg[e] # None /\ ex'.owner[e].place = ex'.reg[e].place
           /\ ex'.owner[e].op = "complete" => ex'.owner[e].value # None
    BY <1>9 DEF Memory, OwnersFit
  <2> QED BY <2>1, <2>2 DEF OwnersFit
<1>14. PlacesFit'
  <2>1. \A p \in Calls : phase'[p] = "free" <=> phase[p] = "free"
    BY <1>6, <1>11
  <2>2. \A p \in Calls : p # i /\ phase'[p] \notin {"free", "registered"} =>
                          phase[p] \notin {"free", "registered"}
    BY <1>11
  <2> QED BY <1>1, <1>2, <1>9, <1>10, <2>1, <2>2, SMTT(20) DEF Memory, PlacesFit, Given, Recorded
<1>15. AnswersFit'
  <2>1. disk' = disk /\ outcome' = outcome
    BY <1>1, <1>6
  <2>2. outcome[i] # "resolved"
    BY <1>2, <1>6 DEF Memory, AnswersFit, Ready
  <2>3. /\ k => phase'[i] = "completed" /\ given = disk.stored[c]
        /\ Ready(phase', i) => given # None
    BY <1>6, <1>7 DEF Ready, d
  <2>4. ASSUME NEW p \in Calls, p # i
        PROVE  /\ outcome[p] = "resolved" =>
                    Ready(phase', p) /\ ex.produced[p] = disk.stored[ex.callOf[p]]
               /\ ex.keeps[p] => phase'[p] = "completed" /\ ex.produced[p] = disk.stored[ex.callOf[p]]
               /\ Ready(phase', p) => ex.produced[p] # None
    BY <1>11, <2>4 DEF Memory, AnswersFit, Ready
  <2> QED BY <1>2, <1>9, <2>1, <2>2, <2>3, <2>4 DEF AnswersFit
<1>16. ~ready => seen.starts[c] = 0 \/ c \in seen.lost
  <2>1. SUFFICES ASSUME ~ready, seen.starts[c] # 0, c \notin seen.lost PROVE FALSE
    OBVIOUS
  <2>2. seen.starts[c] > 0 /\ disk.stored[c] = None
    BY <2>1 DEF Memory, Typed, ready, d
  <2>3. Started1(c)
    BY <2>1, <2>2 DEF Memory, StartsFit
  <2>4. PICK p \in DOMAIN ex.callOf : ex.callOf[p] = c /\ Given(p)
    BY <2>3 DEF Started1
  <2>5. p = i
    BY <1>2, <2>4 DEF Memory, PlacesFit
  <2> QED BY <1>6, <2>4, <2>5 DEF Given
<1>17. /\ StartsFit'
       /\ seen' = [setting |-> seen.setting, starts |-> seen'.starts, lost |-> seen.lost,
                   life |-> seen.life, failures |-> seen.failures]
       /\ seen'.starts \in [Ids -> Nat]
  <2>1. Grown(disk, disk')
    BY <1>1, GrownIsReflexive
  <2>2. \A q \in DOMAIN ex.callOf :
           /\ phase[q] \notin {"free", "registered", "queued", "completed"}
                => phase'[q] \notin {"free", "registered", "queued", "completed"}
           /\ \/ phase'[q] \notin {"queued", "running"} \/ phase'[q] = phase[q]
              \/ phase[q] = "queued"
              \/ seen.starts[ex.callOf[q]] = 0 \/ ex.callOf[q] \in seen.lost
    <3> TAKE q \in DOMAIN ex.callOf
    <3>1. CASE q = i
      BY <1>2, <1>6, <1>16, <3>1
    <3>2. CASE q # i
      BY <1>10, <1>11, <3>2
    <3> QED BY <3>1, <3>2
  <2> QED BY <1>1, <1>9, <1>14, <2>1, <2>2, CountedKeeps
<1>18. Typed'
  BY <1>1, <1>9, <1>17 DEF Memory, Typed
<1> QED BY <1>12, <1>13, <1>14, <1>15, <1>17, <1>18 DEF Memory

\* A result is stored, or need not be; the caller sees what the history keeps.
LEMMA CommitLandsKeeps ==
  ASSUME XInv, CommitLands
  PROVE  Memory'
<1> DEFINE n == nextCommit
<1>1. /\ committing /\ phase' = phase /\ UNCHANGED <<tool, ex, chat, seen>>
      /\ outcome' = [outcome EXCEPT ![n] = IF @ = "pending" THEN "resolved" ELSE @]
      /\ ex.keeps[n] => disk' = disk
  BY DEF CommitLands, CommitResolves
<1>2. /\ n \in Calls /\ Ready(phase, n) /\ Memory /\ IInv
  BY <1>1, CommittedNext DEF XInv
<1>3. Grown(disk, disk') /\ (~ex.keeps[n] => disk'.stored[ex.callOf[n]] = ex.produced[n])
  BY CommitTaken
<1>4. \A p \in Calls : p # n => outcome'[p] = outcome[p]
  BY <1>1, <1>2 DEF IInv, TypeOK
<1>5. Typed' /\ ApprovalsFit' /\ OwnersFit'
  BY <1>1, <1>2 DEF Memory, Typed, ApprovalsFit, OwnersFit
<1>6. PlacesFit'
  BY <1>1, <1>2, <1>3 DEF Memory, Typed, PlacesFit, Given, Recorded, Grown
<1>7. AnswersFit'
  <2>1. ASSUME NEW p \in Calls, p # n
        PROVE  /\ outcome[p] = "resolved" =>
                    Ready(phase, p) /\ ex.produced[p] = disk'.stored[ex.callOf[p]]
               /\ ex.keeps[p] => phase[p] = "completed" /\ ex.produced[p] = disk'.stored[ex.callOf[p]]
               /\ Ready(phase, p) => ex.produced[p] # None
    BY <1>2, <1>3, <2>1, StoredStays DEF Memory, AnswersFit
  <2>2. /\ Ready(phase, n) /\ ex.produced[n] = disk'.stored[ex.callOf[n]]
        /\ ex.keeps[n] => phase[n] = "completed"
        /\ ex.produced[n] # None
    BY <1>1, <1>2, <1>3 DEF Memory, AnswersFit
  <2> QED BY <1>1, <1>4, <2>1, <2>2 DEF AnswersFit
<1>8. StartsFit'
  <2>1. OnlyForward
    BY <1>1 DEF OnlyForward
  <2> QED BY <1>1, <1>2, <1>3, <2>1, StartsKept DEF Memory
<1> QED BY <1>5, <1>6, <1>7, <1>8 DEF Memory

\* The scheduler fails, and nobody is given a value that was not stored.
LEMMA CommitFailsKeeps ==
  ASSUME XInv, CommitFails
  PROVE  Memory'
<1>1. phase' = phase /\ UNCHANGED <<tool, ex, chat>> /\ Fail
  BY DEF CommitFails, CommitThrows
<1>2. Memory /\ IInv /\ Grown(disk, disk')
  BY CommitTaken DEF XInv
<1>3. \A p \in Calls : outcome'[p] = "resolved" => outcome[p] = "resolved"
  BY <1>1, <1>2, FailOutcomes DEF IInv
<1>4. seen' = [setting |-> seen.setting, starts |-> seen.starts, lost |-> seen.lost,
               life |-> seen.life, failures |-> seen'.failures]
  <2>1. seen' = seen \/ seen' = [seen EXCEPT !.failures = @ + 1]
    BY DEF CommitFails, Fails
  <2>2. seen = [setting |-> seen.setting, starts |-> seen.starts, lost |-> seen.lost,
                life |-> seen.life, failures |-> seen.failures]
    BY <1>2 DEF Memory, Typed
  <2> QED BY <2>1, <2>2
<1>5. seen'.starts = seen.starts /\ seen'.lost = seen.lost
  BY <1>4
<1>6. Typed' /\ ApprovalsFit' /\ OwnersFit'
  BY <1>1, <1>2, <1>4, <1>5 DEF Memory, Typed, ApprovalsFit, OwnersFit
<1>7. PlacesFit'
  BY <1>1, <1>2 DEF Memory, Typed, PlacesFit, Given, Recorded, Grown
<1>8. AnswersFit'
  <2>1. ASSUME NEW p \in Calls
        PROVE  /\ outcome[p] = "resolved" =>
                    Ready(phase, p) /\ ex.produced[p] = disk'.stored[ex.callOf[p]]
               /\ ex.keeps[p] => phase[p] = "completed" /\ ex.produced[p] = disk'.stored[ex.callOf[p]]
               /\ Ready(phase, p) => ex.produced[p] # None
    BY <1>2, <2>1, StoredStays DEF Memory, AnswersFit
  <2> QED BY <1>1, <1>3, <2>1 DEF AnswersFit
<1>9. StartsFit'
  <2>1. OnlyForward
    BY <1>1 DEF OnlyForward
  <2> QED BY <1>2, <1>5, <2>1, StartsKept DEF Memory
<1> QED BY <1>6, <1>7, <1>8, <1>9 DEF Memory

\* Approvals are asked for, decided and read back from the history.
LEMMA ApprovalsKeep ==
  ASSUME Memory, Grown(disk, disk'), UNCHANGED <<vars, tool>>,
         NEW a \in [Ids -> Approvals \cup {None}],
         \A c \in Ids : a[c] # None =>
           /\ a[c].request = "pending" => tool[c].asks
           /\ a[c].st # "none" => a[c].out # None,
         ex' = [reg |-> ex.reg, appr |-> a, owner |-> ex.owner, callOf |-> ex.callOf,
                produced |-> ex.produced, keeps |-> ex.keeps],
         seen' = [setting |-> seen.setting, starts |-> seen.starts, lost |-> seen.lost,
                  life |-> seen.life, failures |-> seen'.failures]
  PROVE  Memory'
<1>1. /\ ex'.reg = ex.reg /\ ex'.appr = a /\ ex'.owner = ex.owner /\ ex'.callOf = ex.callOf
      /\ ex'.produced = ex.produced /\ ex'.keeps = ex.keeps
      /\ seen'.starts = seen.starts /\ seen'.lost = seen.lost
  OBVIOUS
<1>2. Typed'
  BY <1>1 DEF Memory, Typed
<1>3. ApprovalsFit'
  BY <1>1 DEF ApprovalsFit
<1>4. OwnersFit'
  BY <1>1 DEF Memory, OwnersFit
<1>5. Untouched
  BY <1>1 DEF Untouched
<1> QED BY <1>2, <1>3, <1>4, <1>5, UntouchedKeeps DEF Memory

\* One approval changes.
LEMMA ApprovalKeeps ==
  ASSUME Memory, Grown(disk, disk'), UNCHANGED <<vars, tool>>, NEW c \in Ids,
         NEW x \in Approvals \cup {None},
         x # None => /\ x.request = "pending" => tool[c].asks
                     /\ x.st # "none" => x.out # None,
         ex' = [ex EXCEPT !.appr[c] = x],
         seen' = seen \/ seen' = [seen EXCEPT !.failures = @ + 1]
  PROVE  Memory'
<1> DEFINE a == [ex.appr EXCEPT ![c] = x]
<1>1. /\ a \in [Ids -> Approvals \cup {None}] /\ a[c] = x
      /\ \A d \in Ids : d # c => a[d] = ex.appr[d]
  BY DEF Memory, Typed
<1>2. ex' = [reg |-> ex.reg, appr |-> a, owner |-> ex.owner, callOf |-> ex.callOf,
             produced |-> ex.produced, keeps |-> ex.keeps]
  <2>1. ex = [reg |-> ex.reg, appr |-> ex.appr, owner |-> ex.owner, callOf |-> ex.callOf,
              produced |-> ex.produced, keeps |-> ex.keeps]
    BY DEF Memory, Typed
  <2> QED BY <2>1
<1>3. seen' = [setting |-> seen.setting, starts |-> seen.starts, lost |-> seen.lost,
               life |-> seen.life, failures |-> seen'.failures]
  <2>1. seen = [setting |-> seen.setting, starts |-> seen.starts, lost |-> seen.lost,
                life |-> seen.life, failures |-> seen.failures]
    BY DEF Memory, Typed
  <2> QED BY <2>1
<1> HIDE DEF a
<1>4. \A d \in Ids : a[d] # None =>
         /\ a[d].request = "pending" => tool[d].asks
         /\ a[d].st # "none" => a[d].out # None
  BY <1>1 DEF Memory, ApprovalsFit
<1> QED BY <1>1, <1>2, <1>3, <1>4, ApprovalsKeep

\* An approval of the memory, or of the history, is one.
LEMMA ApprovalFits ==
  ASSUME Memory, Faithful(disk), NEW c \in Ids, Approval(c) # None
  PROVE  /\ Approval(c) \in Approvals
         /\ Approval(c).request = "pending" => tool[c].asks
         /\ Approval(c).st # "none" => Approval(c).out # None
<1>1. CASE ex.appr[c] # None \/ ~Asked(c)
  <2>1. Approval(c) = ex.appr[c] /\ ex.appr[c] # None
    BY <1>1 DEF Approval
  <2> QED BY <2>1 DEF Memory, Typed, ApprovalsFit
<1>2. CASE ~(ex.appr[c] # None \/ ~Asked(c))
  <2>1. Approval(c) = [request |-> "ok", out |-> disk.told[c],
                       st |-> IF disk.told[c] = None THEN "none" ELSE "ok"]
    BY <1>2 DEF Approval
  <2>2. disk.told[c] \in Outs \cup {None}
    BY DEF Faithful, IsDisk
  <2> QED BY <2>1, <2>2 DEF Approvals
<1> QED BY <1>1, <1>2

\* A decision is put into it.
LEMMA DecidedKeeps ==
  ASSUME Memory, Faithful(disk), NEW c \in Ids, NEW out \in Outs, MayDecide(c, out),
         ex' = Decided(ex, c, out), UNCHANGED <<vars, tool, disk, seen>>
  PROVE  Memory'
<1> DEFINE x == IF Approval(c).out = out THEN Approval(c)
                ELSE [Approval(c) EXCEPT !.out = out, !.st = "pending"]
<1>1. Approval(c) # None
  BY DEF MayDecide
<1>2. /\ x \in Approvals /\ (x.request = "pending" => tool[c].asks)
      /\ x.st # "none" => x.out # None
  <2>1. /\ Approval(c) \in Approvals
        /\ Approval(c).request = "pending" => tool[c].asks
        /\ Approval(c).st # "none" => Approval(c).out # None
    BY <1>1, ApprovalFits
  <2>2. out # None
    BY Defined
  <2> QED BY <2>1, <2>2 DEF Approvals
<1>3. ex' = [ex EXCEPT !.appr[c] = x]
  BY DEF Decided
<1> HIDE DEF x
<1> QED BY <1>2, <1>3, ApprovalKeeps, GrownIsReflexive

\* The appends of requests and decisions.
LEMMA ApprovalStepKeeps ==
  ASSUME Memory, Faithful(disk), NEW c \in Ids,
         RequestLands(c) \/ RequestFails(c) \/ DecisionLands(c) \/ DecisionFails(c)
  PROVE  Memory'
<1>1. Grown(disk, disk')
  BY ApprovalTaken DEF Memory
<1>2. UNCHANGED <<vars, tool>> /\ (seen' = seen \/ seen' = [seen EXCEPT !.failures = @ + 1])
  BY DEF RequestLands, RequestFails, DecisionLands, DecisionFails, Fails
<1>3. ex.appr[c] # None
  BY DEF RequestLands, RequestFails, DecisionLands, DecisionFails, Deciding
<1>4. /\ ex.appr[c] \in Approvals
      /\ ex.appr[c].request = "pending" => tool[c].asks
      /\ ex.appr[c].st # "none" => ex.appr[c].out # None
  BY <1>3 DEF Memory, Typed, ApprovalsFit
<1>5. CASE RequestLands(c)
  <2> DEFINE x == [ex.appr[c] EXCEPT !.request = "ok"]
  <2>1. ex' = [ex EXCEPT !.appr[c] = x]
    BY <1>5 DEF RequestLands
  <2>2. x \in Approvals /\ x.request = "ok" /\ x.st = ex.appr[c].st /\ x.out = ex.appr[c].out
    BY <1>4 DEF Approvals
  <2> HIDE DEF x
  <2> QED BY <1>1, <1>2, <1>4, <2>1, <2>2, ApprovalKeeps
<1>6. CASE RequestFails(c)
  <2>1. ex' = [ex EXCEPT !.appr[c] = None]
    BY <1>6 DEF RequestFails
  <2> QED BY <1>1, <1>2, <2>1, ApprovalKeeps
<1>7. CASE DecisionLands(c) \/ DecisionFails(c)
  <2>1. PICK st \in {"ok", "failed"} : ex' = [ex EXCEPT !.appr[c].st = st]
    BY <1>7 DEF DecisionLands, DecisionFails
  <2>2. ex.appr[c].st = "pending"
    BY <1>7 DEF DecisionLands, DecisionFails, Deciding
  <2> DEFINE x == [ex.appr[c] EXCEPT !.st = st]
  <2>3. ex' = [ex EXCEPT !.appr[c] = x]
    BY <2>1
  <2>4. x \in Approvals /\ x.request = ex.appr[c].request /\ x.out = ex.appr[c].out
    BY <1>4 DEF Approvals
  <2> HIDE DEF x
  <2> QED BY <1>1, <1>2, <1>4, <2>2, <2>3, <2>4, ApprovalKeeps
<1> QED BY <1>5, <1>6, <1>7

\* A new process remembers nothing, and the history what it has to.
LEMMA CrashKeeps ==
  ASSUME Memory, Faithful(disk), Crash
  PROVE  Memory'
<1>1. /\ phase' = [i \in Calls |-> "free"] /\ outcome' = [i \in Calls |-> "pending"]
      /\ ex' = NoMemory /\ disk' = Repaired /\ tool' = tool
  BY DEF Crash
<1>2. /\ ex'.reg = [c \in Ids |-> None] /\ ex'.appr = [c \in Ids |-> None]
      /\ ex'.owner = [c \in Ids |-> None] /\ ex'.callOf = <<>>
      /\ ex'.produced = [p \in Calls |-> None] /\ ex'.keeps = [p \in Calls |-> FALSE]
      /\ ex' = [reg |-> ex'.reg, appr |-> ex'.appr, owner |-> ex'.owner,
                callOf |-> ex'.callOf, produced |-> ex'.produced, keeps |-> ex'.keeps]
  BY <1>1 DEF NoMemory
<1> DEFINE lost == seen.lost \cup
                     {c \in Ids : Suspended /\ seen.starts[c] > 0 /\ disk.stored[c] = None}
<1>3. seen' = [setting |-> seen.setting, starts |-> seen.starts, lost |-> lost,
               life |-> seen.life + 1, failures |-> seen.failures]
  <2>1. seen = [setting |-> seen.setting, starts |-> seen.starts, lost |-> seen.lost,
                life |-> seen.life, failures |-> seen.failures]
    BY DEF Memory, Typed
  <2>2. seen' = [seen EXCEPT !.life = @ + 1, !.lost = lost]
    BY DEF Crash
  <2> HIDE DEF lost
  <2> QED BY <2>1, <2>2
<1>4. seen'.starts = seen.starts /\ seen'.lost = lost
      /\ seen' = [setting |-> seen'.setting, starts |-> seen'.starts, lost |-> seen'.lost,
                  life |-> seen'.life, failures |-> seen'.failures]
  BY <1>3
<1>5. Typed'
  <2>1. ex'.callOf \in Seq(Ids)
    BY <1>2
  <2> QED BY <1>1, <1>2, <1>4, <2>1 DEF Memory, Typed
<1>6. ApprovalsFit' /\ OwnersFit'
  BY <1>2 DEF ApprovalsFit, OwnersFit
<1>7. PlacesFit'
  <2>1. Len(ex'.callOf) = 0 /\ DOMAIN ex'.callOf = {}
    BY <1>2
  <2>2. \A p \in Calls : p > 0 /\ MaxCalls \in Nat
    BY SchedulerAssumption DEF Calls
  <2>3. 0 <= MaxCalls
    BY SchedulerAssumption
  <2> QED BY <1>1, <1>2, <2>1, <2>2, <2>3 DEF PlacesFit
<1>8. AnswersFit'
  BY <1>1, <1>2 DEF AnswersFit, Ready
<1>9. ASSUME NEW c \in Ids, seen.starts[c] > 0, c \notin lost
      PROVE  disk'.stored[c] # None
  <2>1. c \notin seen.lost
    BY <1>9
  <2>2. Started1(c) \/ disk.stored[c] # None
    BY <1>9, <2>1 DEF Memory, StartsFit
  <2>3. CASE disk.stored[c] # None
    <3>1. CASE disk.v.openTurn = None \/ Suspended
      BY <1>1, <2>3, <3>1 DEF Repaired
    <3>2. CASE disk.v.openTurn # None /\ ~Suspended
      BY <1>1, <2>3, <3>2, RepairTaken DEF Grown
    <3> QED BY <3>1, <3>2
  <2>4. CASE Started1(c) /\ disk.stored[c] = None
    <3>1. PICK p \in DOMAIN ex.callOf : ex.callOf[p] = c /\ Given(p)
      BY <2>4 DEF Started1
    <3>2. c \in DOMAIN disk.v.calls
      BY <3>1 DEF Memory, PlacesFit, Recorded
    <3>3. ~Suspended
      BY <1>9, <2>4
    <3>4. disk.v.openTurn # None
      <4>1. c \in disk.v.unresolved
        BY <2>4, <3>2 DEF Faithful, Sound, Remembered
      <4> QED BY <4>1 DEF Faithful, Sound
    <3> QED BY <1>1, <3>2, <3>3, <3>4, RepairTaken
  <2> QED BY <2>2, <2>3, <2>4
<1>10. StartsFit'
  <2>1. \A c \in Ids : seen.starts[c] > 1 => c \in lost
    BY DEF Memory, StartsFit
  <2>2. DOMAIN ex'.callOf = {}
    BY <1>2
  <2> HIDE DEF lost
  <2> QED BY <1>4, <1>9, <2>1, <2>2 DEF StartsFit
<1> QED BY <1>5, <1>6, <1>7, <1>8, <1>10 DEF Memory

\* A scheduler that starts anew is in the state its proofs start from.
LEMMA StartsAnew ==
  Init' => IInv'
BY InitIInv, PTL

\* Steps of the chat that leave the executor's memory alone.
LEMMA SpectatorKeeps ==
  ASSUME Memory, Grown(disk, disk'), UNCHANGED <<vars, tool, ex, seen>>
  PROVE  Memory'
<1>1. Untouched
  BY DEF Untouched
<1>2. Typed' /\ ApprovalsFit' /\ OwnersFit'
  BY DEF Memory, Typed, ApprovalsFit, OwnersFit
<1> QED BY <1>1, <1>2, UntouchedKeeps DEF Memory

\* The executor's memory is what it should be after every step.
LEMMA MemoryStep ==
  ASSUME XInv, XNext
  PROVE  Memory'
<1>1. Memory /\ IInv /\ Faithful(disk) /\ Grown(disk, disk')
  BY HistoryStep DEF XInv
<1>2. {"yes", "no", "cancelled"} \subseteq Outs /\ {"denied", "cancelled"} \subseteq Answers
      /\ \A x \in Answers : x # None
  BY Defined DEF Outs, Answers
<1>3. CASE Executor
  <2>1. ASSUME NEW c \in Ids, PersistCall(c) \/ PersistCallFails(c)
        PROVE  Memory'
    BY <1>1, <2>1, PersistCallKeeps, PersistCallFailsKeeps
  <2>2. ASSUME NEW c \in Ids, Schedule(c) \/ ScheduleThrows(c)
        PROVE  Memory'
    BY <1>1, <2>2, ScheduleKeeps, ScheduleThrowsKeeps
  <2>3. ASSUME NEW c \in Ids, RequestLands(c) \/ RequestFails(c) \/ DecisionLands(c) \/ DecisionFails(c)
        PROVE  Memory'
    BY <1>1, <2>3, ApprovalStepKeeps
  <2>4. ASSUME NEW p \in DOMAIN ex.callOf, Return(p) \/ Settle(p)
        PROVE  Memory'
    BY <1>1, <2>4, ReturnKeeps, SettleKeeps
  <2>5. CASE CommitLands \/ CommitFails
    BY <2>5, CommitLandsKeeps, CommitFailsKeeps
  <2> QED BY <1>3, <2>1, <2>2, <2>3, <2>4, <2>5 DEF Executor
<1>4. ASSUME NEW c \in Ids, NEW out \in Outs, MayDecide(c, out),
             ex' = Decided(ex, c, out), UNCHANGED <<vars, tool, disk, seen>>
      PROVE  Memory'
  BY <1>1, <1>4, DecidedKeeps
<1>5. ASSUME UNCHANGED <<vars, tool, ex, seen>>
      PROVE  Memory'
  BY <1>1, <1>5, SpectatorKeeps
<1>6. CASE Recorder
  <2>1. ASSUME NEW c \in Ids, RecorderRecords(c) PROVE Memory'
    BY <1>1, <2>1, RecorderRecordsKeeps
  <2>2. ASSUME NEW c \in Ids, RecorderGoesOn(c) PROVE Memory'
    <3>1. CASE tool[c].asks
      <4> DEFINE x == [request |-> "pending", out |-> None, st |-> "none"]
      <4>1. ex' = [ex EXCEPT !.appr[c] = x] /\ UNCHANGED <<vars, tool, disk, seen>>
        BY <2>2, <3>1 DEF RecorderGoesOn
      <4>2. x \in Approvals
        BY DEF Approvals
      <4> QED BY <1>1, <3>1, <4>1, <4>2, ApprovalKeeps
    <3>2. CASE ~tool[c].asks
      BY <1>5, <2>2, <3>2 DEF RecorderGoesOn
    <3> QED BY <3>1, <3>2
  <2> QED BY <1>6, <2>1, <2>2 DEF Recorder
<1>7. CASE Closing
  <2>1. CASE Drained \/ CallClosed \/ Close \/ CancelledCall \/ StopCloses
    BY <1>5, <2>1 DEF Drained, CallClosed, Close, CancelledCall, StopCloses
  <2>2. ASSUME NEW c \in Ids, CloseApproval(c) \/ CancelApproval(c) PROVE Memory'
    BY <1>2, <1>4, <1>5, <2>2 DEF CloseApproval, CancelApproval
  <2>3. ASSUME NEW c \in Ids, CloseCall(c) \/ CancelCall(c) PROVE Memory'
    BY <1>1, <1>2, <2>3, CalledKeeps DEF CloseCall, CancelCall
  <2>4. ASSUME NEW c \in Ids, Act(c) PROVE Memory'
    BY <1>1, <1>2, <2>4, CalledKeeps DEF Act
  <2>5. ASSUME NEW c \in Ids, Publish(c) PROVE Memory'
    BY <1>5, <2>5 DEF Publish
  <2> QED BY <1>7, <2>1, <2>2, <2>3, <2>4, <2>5 DEF Closing
<1>8. CASE BeginTurn \/ Resume \/ Emit \/ StopSuspended
  BY <1>5, <1>8 DEF BeginTurn, Resume, Emit, StopSuspended
<1>9. ASSUME NEW c \in Ids, SdkExecutes(c) PROVE Memory'
  BY <1>1, <1>9, CalledKeeps DEF SdkExecutes
<1>10. ASSUME NEW stop \in BOOLEAN, StreamEnds(stop) PROVE Memory'
  BY <1>1, <1>10, StreamEndsKeeps
<1>11. ASSUME NEW c \in Ids, NEW out \in {"yes", "no"}, Respond(c, out) PROVE Memory'
  BY <1>2, <1>4, <1>11 DEF Respond
<1>12. CASE Crash
  BY <1>1, <1>12, CrashKeeps
<1> QED BY <1>3, <1>6, <1>7, <1>8, <1>9, <1>10, <1>11, <1>12 DEF XNext

\* The invariant holds initially.
LEMMA XInitInv ==
  XInit => XInv
<1> SUFFICES ASSUME XInit PROVE XInv
  OBVIOUS
<1>1. IInv
  BY InitIInv DEF XInit
<1>2. /\ seen.setting \in Settings /\ seen.starts = [c \in Ids |-> 0] /\ tool = seen.setting.tool
      /\ seen = [setting |-> seen.setting, starts |-> seen.starts, lost |-> seen.lost,
                 life |-> seen.life, failures |-> seen.failures]
  BY DEF XInit
<1>3. /\ phase = [i \in Calls |-> "free"] /\ outcome = [i \in Calls |-> "pending"]
  BY DEF XInit, Init
<1>4. /\ ex.reg = [c \in Ids |-> None] /\ ex.appr = [c \in Ids |-> None]
      /\ ex.owner = [c \in Ids |-> None] /\ ex.callOf = <<>>
      /\ ex.produced = [p \in Calls |-> None] /\ ex.keeps = [p \in Calls |-> FALSE]
      /\ ex = [reg |-> ex.reg, appr |-> ex.appr, owner |-> ex.owner, callOf |-> ex.callOf,
               produced |-> ex.produced, keeps |-> ex.keeps]
  BY DEF XInit, NoMemory
<1>5. tool \in [Ids -> [asks : BOOLEAN, class : Kinds]]
  BY <1>2, ToolsAssumption
<1>6. Len(ex.callOf) = 0 /\ DOMAIN ex.callOf = {} /\ ex.callOf \in Seq(Ids)
  BY <1>4
<1>7. Typed
  BY <1>2, <1>4, <1>5, <1>6 DEF Typed
<1>8. ApprovalsFit /\ OwnersFit
  BY <1>4 DEF ApprovalsFit, OwnersFit
<1>9. PlacesFit
  <2>1. \A p \in Calls : p > 0 /\ MaxCalls \in Nat
    BY SchedulerAssumption DEF Calls
  <2>2. 0 <= MaxCalls
    BY SchedulerAssumption
  <2> QED BY <1>3, <1>4, <1>6, <2>1, <2>2 DEF PlacesFit
<1>10. AnswersFit
  BY <1>3, <1>4 DEF AnswersFit, Ready
<1>11. StartsFit
  BY <1>2 DEF StartsFit
<1>12. Faithful(disk)
  <2>1. /\ disk.v = Fresh /\ disk.told = [c \in Ids |-> None] /\ disk.stored = [c \in Ids |-> None]
        /\ IsDisk(disk)
    BY DEF XInit, IsDisk
  <2>2. /\ DOMAIN Fresh.calls = {} /\ DOMAIN Fresh.approvals = {} /\ DOMAIN Fresh.requests = {}
        /\ DOMAIN Fresh.retries = {}
        /\ Fresh.unresolved = {} /\ Fresh.pendingApprovals = {} /\ Fresh.pendingRetries = {}
        /\ Fresh.suspension = None /\ Fresh.lastTurn = 0
    BY DEF Fresh, NoMap
  <2>3. IsValidator(Fresh) /\ Shaped(Fresh)
    BY <2>2, FreshIsValidator DEF Shaped
  <2>4. Sound(Fresh)
    BY <2>2, <2>3 DEF Sound
  <2>5. Remembered(disk)
    BY <2>1, <2>2 DEF Remembered
  <2> QED BY <2>1, <2>4, <2>5 DEF Faithful
<1> QED BY <1>1, <1>7, <1>8, <1>9, <1>10, <1>11, <1>12 DEF XInv, Memory

\* The invariant is inductive.
LEMMA XInvStep ==
  XInv /\ [XNext]_xvars => XInv'
<1> SUFFICES ASSUME XInv, [XNext]_xvars PROVE XInv'
  OBVIOUS
<1>1. CASE UNCHANGED xvars
  <2>1. UNCHANGED <<vars, tool, disk, ex, seen>>
    BY <1>1 DEF xvars
  <2>2. Memory'
    BY <2>1, SpectatorKeeps, GrownIsReflexive DEF XInv
  <2>3. IInv'
    BY <2>1, StepSlots, StepCommits DEF XInv, IInv
  <2>4. Faithful(disk)'
    BY <2>1, FaithfulNext DEF XInv
  <2> QED BY <2>2, <2>3, <2>4 DEF XInv
<1>2. CASE XNext
  <2>1. Memory'
    BY <1>2, MemoryStep
  <2>2. Faithful(disk)'
    BY <1>2, HistoryStep, ToolStays, FaithfulNext
  <2>3. CASE ~Crash
    <3>1. [Next]_vars
      BY <1>2, <2>3, SchedulerStep DEF XInv
    <3>2. IInv'
      BY <3>1, StepSlots, StepCommits DEF XInv, IInv
    <3> QED BY <2>1, <2>2, <3>2 DEF XInv
  <2>4. CASE Crash
    <3>1. Init'
      BY <2>4 DEF Crash, Init
    <3> QED BY <2>1, <2>2, <3>1, StartsAnew DEF XInv
  <2> QED BY <2>3, <2>4
<1> QED BY <1>1, <1>2

\* The invariant holds of every behaviour.
LEMMA XInvariance ==
  XSpec => []XInv
<1>1. XInit => XInv
  BY XInitInv
<1>2. XInv /\ [XNext]_xvars => XInv'
  BY XInvStep
<1> QED BY <1>1, <1>2, PTL DEF XSpec

\* A caller is given what the history keeps, for any number of calls, failing
\* appends and crashes: joined, retried or replayed, a call has one result.
THEOREM AnswersStayDurable ==
  XSpec => []AnswersAreDurable
<1>1. ASSUME XInv PROVE AnswersAreDurable
  <2> SUFFICES ASSUME NEW c \in Ids, Answered(c) PROVE disk.stored[c] = AnswerOf(c)
    BY DEF AnswersAreDurable
  <2> DEFINE i == ex.owner[c].place
  <2>1. ex.owner[c] # None /\ outcome[i] = "resolved"
    BY DEF Answered
  <2>2. /\ ex.reg[c] # None /\ i = ex.reg[c].place /\ ex.reg[c] \in Registrations
        /\ ex.callOf[ex.reg[c].place] = c
    BY <1>1, <2>1 DEF XInv, Memory, Typed, OwnersFit, PlacesFit
  <2>3. i \in Calls /\ ex.callOf[i] = c
    BY <2>2 DEF Registrations
  <2> QED BY <1>1, <2>1, <2>3 DEF XInv, Memory, AnswersFit, AnswerOf
<1> QED BY <1>1, XInvariance, PTL

\* The side effect of a call begins once, however often the call is executed; a
\* second time only after a crash that came between it and its result while the
\* turn was suspended.
THEOREM SideEffectsOnce ==
  XSpec => []RunsAgainOnlyIfLost
<1>1. XInv => RunsAgainOnlyIfLost
  BY DEF XInv, Memory, StartsFit, RunsAgainOnlyIfLost
<1> QED BY <1>1, XInvariance, PTL

\* What was proved of the scheduler on its own holds of the scheduler the executor
\* drives, in each life of the process.
THEOREM ExecutorKeepsOrder ==
  XSpec => [](ExclusiveRunsAlone /\ CommitsInCallOrder /\ ResolvedAreCommittedPrefix)
<1>1. XInv => ExclusiveRunsAlone /\ CommitsInCallOrder /\ ResolvedAreCommittedPrefix
  BY DEF XInv, IInv, TypeOK, SlotInv, SlotFacts, CommitInv, ExclusiveRunsAlone, Holds,
         SlotsTaken, Kinds
<1> QED BY <1>1, XInvariance, PTL

------------------------------------------------------------------------------
(* The callers: what the chat asks the executor for. *)

\* The fields of the chat.
ChatShape ==
  chat = [stream |-> chat.stream, aborted |-> chat.aborted, base |-> chat.base,
          emitted |-> chat.emitted, lane |-> chat.lane, laneDown |-> chat.laneDown,
          made |-> chat.made, sdk |-> chat.sdk, todo |-> chat.todo, at |-> chat.at,
          resp |-> chat.resp, cancel |-> chat.cancel, stopFailed |-> chat.stopFailed]

\* The recorder is done with some of the calls emitted.
ChatTyped ==
  /\ ChatShape
  /\ chat.emitted \in Nat /\ chat.lane \in 0 .. chat.emitted /\ chat.laneDown \in BOOLEAN
  /\ chat.resp \in [Ids -> {None, "yes", "no", "acting", "done"}]

\* The stream is over when the turn is suspended.
Apart == Suspended => chat.stream = "off"

\* The turn is suspended until c has an answer.
Awaited(c) == Suspended /\ c \in disk.v.suspension.callIds

\* A request for approval is made by the recorder for the call it is at, once,
\* and the recorder goes on when it landed.
LaneFits ==
  \A c \in Ids :
    /\ ex.appr[c] # None /\ ex.appr[c].request = "pending" =>
         LaneAt(c) /\ Persisted(c) /\ ~Asked(c)
    /\ Asked(c) => c <= chat.emitted /\ (c <= chat.lane \/ chat.laneDown)

\* What the executor takes for decided is; the user's answer in progress is the
\* decision the executor was given; a call the user answers has a result, or the
\* turn waits for it.
ToldFits ==
  \A c \in Ids :
    /\ ex.appr[c] # None /\ ex.appr[c].st = "ok" => disk.told[c] = ex.appr[c].out
    /\ chat.resp[c] \in {"yes", "no"} =>
         Asked(c) /\ ex.appr[c] # None /\ ex.appr[c].out = chat.resp[c]
    /\ chat.resp[c] # None => disk.stored[c] # None \/ Awaited(c)
    /\ chat.resp[c] = "done" => disk.stored[c] # None

\* A run of a call that asks was approved; the SDK runs calls while it streams,
\* the user those the turn is suspended for.
RunsFit ==
  \A c \in Ids : ex.owner[c] # None =>
    /\ ex.owner[c].op # "complete" /\ tool[c].asks => disk.told[c] = "yes"
    /\ ex.owner[c].op = "run" =>
         failed \/ disk.stored[c] # None \/ (chat.stream = "open" /\ c \in chat.sdk)
    /\ ex.owner[c].op = "execute" => disk.stored[c] # None \/ Awaited(c)

\* A place that was given an outcome has the record of its call; a body that is to
\* start belongs to a run, and to a call without a result unless it is aborted.
BodiesFit ==
  ~failed => \A p \in DOMAIN ex.callOf : Given(p) =>
    LET c == ex.callOf[p]
        o == ex.owner[c]
    IN  /\ o # None /\ o.pc = "scheduled"
        /\ phase[p] = "queued" => o.op # "complete" /\ (o.op = "aborted" \/ disk.stored[c] = None)

Callers == ChatTyped /\ Apart /\ LaneFits /\ ToldFits /\ RunsFit /\ BodiesFit

------------------------------------------------------------------------------
(* What each step does to approvals, to the suspension and to results. *)

\* An event that is appended, or was appended all the same.
LEMMA AppendLeaves ==
  ASSUME XInv, NEW e, NEW f, f.v = With(e).v, disk' = disk \/ (Takes(e) /\ disk' = f),
         e.type \in {"tool/call", "approval/request", "approval/decision", "tool/result"}
  PROVE  /\ disk'.v.suspension = disk.v.suspension
         /\ e.type # "approval/request" => disk'.v.approvals = disk.v.approvals
<1>1. Faithful(disk) /\ IsValidator(disk.v)
  BY DEF XInv, Faithful, Sound
<1>2. With(e).v = Apply(disk.v, e)
  BY <1>1, WithIsDisk
<1> QED BY <1>1, <1>2, EventLeaves DEF Takes

\* The appends of the executor.
LEMMA ExecutorLeaves ==
  ASSUME XInv, NEW c \in Ids
  PROVE  /\ PersistCall(c) \/ PersistCallFails(c) \/ DecisionLands(c) \/ DecisionFails(c) =>
              /\ disk'.v.suspension = disk.v.suspension
              /\ disk'.v.approvals = disk.v.approvals /\ disk'.stored = disk.stored
         /\ RequestLands(c) \/ RequestFails(c) =>
              /\ disk'.v.suspension = disk.v.suspension /\ disk'.stored = disk.stored
              /\ disk'.told = disk.told
              /\ \A d \in Ids : (Asked(d) => Asked(d)') /\ (Asked(d)' => Asked(d) \/ d = c)
         /\ CommitLands \/ CommitFails =>
              /\ disk'.v.suspension = disk.v.suspension
              /\ disk'.v.approvals = disk.v.approvals /\ disk'.told = disk.told
<1>0. Faithful(disk) /\ IsDisk(disk)
  BY DEF XInv, Faithful
<1>1. \A e : /\ With(e) = [v |-> Apply(disk.v, e), told |-> disk.told, stored |-> disk.stored]
             /\ With(e).told = disk.told /\ With(e).stored = disk.stored
  BY <1>0, WithIsDisk
<1>2. ASSUME PersistCall(c) \/ PersistCallFails(c)
      PROVE  /\ disk'.v.suspension = disk.v.suspension
             /\ disk'.v.approvals = disk.v.approvals /\ disk'.stored = disk.stored
  <2> DEFINE e == Call(c)
  <2>1. disk' = disk \/ (Takes(e) /\ disk' = With(e))
    BY <1>2 DEF PersistCall, PersistCallFails, Fails
  <2>2. e.type = "tool/call"
    BY DEF Call
  <2> HIDE DEF e
  <2>3. disk'.v.suspension = disk.v.suspension /\ disk'.v.approvals = disk.v.approvals
    BY <2>1, <2>2, AppendLeaves
  <2> QED BY <1>1, <2>1, <2>3
<1>3. ASSUME DecisionLands(c) \/ DecisionFails(c)
      PROVE  /\ disk'.v.suspension = disk.v.suspension
             /\ disk'.v.approvals = disk.v.approvals /\ disk'.stored = disk.stored
  <2> DEFINE e == Decision(c)
             f == [With(e) EXCEPT !.told[c] = ex.appr[c].out]
  <2>1. disk' = disk \/ (Takes(e) /\ disk' = f)
    BY <1>3 DEF DecisionLands, DecisionFails, Fails
  <2>2. e.type = "approval/decision"
    BY DEF Decision
  <2>3. f.v = With(e).v /\ f.stored = disk.stored
    <3> HIDE DEF e
    <3> QED BY <1>1
  <2> HIDE DEF e, f
  <2>4. disk'.v.suspension = disk.v.suspension /\ disk'.v.approvals = disk.v.approvals
    BY <2>1, <2>2, <2>3, AppendLeaves
  <2> QED BY <2>1, <2>3, <2>4
<1>4. ASSUME RequestLands(c) \/ RequestFails(c)
      PROVE  /\ disk'.v.suspension = disk.v.suspension /\ disk'.stored = disk.stored
             /\ disk'.told = disk.told
             /\ \A d \in Ids : (Asked(d) => Asked(d)') /\ (Asked(d)' => Asked(d) \/ d = c)
  <2> DEFINE e == Request(c)
  <2>1. disk' = disk \/ (Takes(e) /\ disk' = With(e))
    BY <1>4 DEF RequestLands, RequestFails, Fails
  <2>2. e.type = "approval/request" /\ e.approvalId = c /\ e.callId = c
    BY DEF Request
  <2> HIDE DEF e
  <2>3. disk'.v.suspension = disk.v.suspension
    BY <2>1, <2>2, AppendLeaves
  <2>4. Takes(e) => With(e).v.approvals = Put(disk.v.approvals, c, c)
    <3>1. IsValidator(disk.v) /\ Shaped(disk.v)
      BY <1>0 DEF Faithful, Sound
    <3> QED BY <1>1, <2>2, <3>1, ApprovalRequested DEF Takes
  <2>5. \A d \in Ids : (Asked(d) => Asked(d)') /\ (Asked(d)' => Asked(d) \/ d = c)
    BY <2>1, <2>4 DEF Asked, Put
  <2> QED BY <1>1, <2>1, <2>3, <2>5
<1>5. ASSUME CommitLands \/ CommitFails
      PROVE  /\ disk'.v.suspension = disk.v.suspension
             /\ disk'.v.approvals = disk.v.approvals /\ disk'.told = disk.told
  <2> DEFINE k == ex.callOf[nextCommit]
             e == Result(k, None)
             f == [With(e) EXCEPT !.stored[k] = ex.produced[nextCommit]]
  <2>1. disk' = disk \/ (Takes(e) /\ disk' = f)
    BY <1>5 DEF CommitLands, CommitFails, Fails
  <2>2. e.type = "tool/result"
    BY DEF Result
  <2>3. f.v = With(e).v /\ f.told = disk.told
    <3> HIDE DEF e, k
    <3> QED BY <1>1
  <2> HIDE DEF e, f
  <2>4. disk'.v.suspension = disk.v.suspension /\ disk'.v.approvals = disk.v.approvals
    BY <2>1, <2>2, <2>3, AppendLeaves
  <2> QED BY <2>1, <2>3, <2>4
<1> QED BY <1>2, <1>3, <1>4, <1>5

\* The steps that change the history.
Appends(c) ==
  \/ PersistCall(c) \/ PersistCallFails(c) \/ RequestLands(c) \/ RequestFails(c)
  \/ DecisionLands(c) \/ DecisionFails(c)

\* The others leave it alone.
LEMMA DiskStays ==
  ASSUME XNext
  PROVE  \/ disk' = disk \/ (\E c \in Ids : Appends(c)) \/ CommitLands \/ CommitFails
         \/ BeginTurn \/ Resume \/ StopCloses \/ Close \/ Crash
<1>1. CASE Executor
  BY <1>1 DEF Executor, Appends, Schedule, ScheduleThrows, Return, Settle
<1>2. ASSUME Recorder \/ Emit \/ StopSuspended PROVE disk' = disk
  BY <1>2 DEF Recorder, RecorderRecords, RecorderGoesOn, Emit, StopSuspended
<1>3. CASE Closing
  <2>1. ASSUME Drained \/ CallClosed \/ CancelledCall PROVE disk' = disk
    BY <2>1 DEF Drained, CallClosed, CancelledCall
  <2>2. ASSUME NEW c \in Ids, CloseApproval(c) \/ CloseCall(c) \/ CancelApproval(c) \/ CancelCall(c)
                              \/ Act(c) \/ Publish(c)
        PROVE  disk' = disk
    BY <2>2 DEF CloseApproval, CloseCall, CancelApproval, CancelCall, Act, Publish
  <2> QED BY <1>3, <2>1, <2>2 DEF Closing
<1>4. ASSUME NEW c \in Ids, SdkExecutes(c) PROVE disk' = disk
  BY <1>4 DEF SdkExecutes
<1>5. ASSUME NEW stop \in BOOLEAN, StreamEnds(stop) PROVE disk' = disk
  BY <1>5 DEF StreamEnds
<1>6. ASSUME NEW c \in Ids, NEW out, Respond(c, out) PROVE disk' = disk
  BY <1>6 DEF Respond
<1> QED BY <1>1, <1>2, <1>3, <1>4, <1>5, <1>6 DEF XNext

\* A repair asks for no approval.
LEMMA RepairLeaves ==
  ASSUME Faithful(disk)
  PROVE  /\ Repaired.v.approvals = disk.v.approvals
         /\ Suspended => Repaired = disk
<1>1. CASE disk.v.openTurn = None \/ Suspended
  BY <1>1 DEF Repaired
<1>2. CASE disk.v.openTurn # None /\ ~Suspended
  BY <1>2, RepairTaken
<1> QED BY <1>1, <1>2

\* Approvals are asked for once and for good, and only a commit or a repair stores
\* results.
LEMMA HistoryLeaves ==
  ASSUME XInv, XNext
  PROVE  /\ \A c \in Ids : /\ Asked(c) => Asked(c)'
                           /\ Asked(c)' => Asked(c) \/ RequestLands(c) \/ RequestFails(c)
         /\ \/ disk'.stored = disk.stored
            \/ CommitLands \/ CommitFails \/ (Close /\ disk' = Repaired) \/ Crash
<1> DEFINE Kept1 == disk'.v.approvals = disk.v.approvals
           Kept2 == \/ disk'.stored = disk.stored
                    \/ CommitLands \/ CommitFails \/ (Close /\ disk' = Repaired) \/ Crash
           Goal == /\ \A c \in Ids : /\ Asked(c) => Asked(c)'
                                     /\ Asked(c)' => Asked(c) \/ RequestLands(c) \/ RequestFails(c)
                   /\ Kept2
<1> SUFFICES Goal
  OBVIOUS
<1>0. Faithful(disk)
  BY DEF XInv
<1>1. Kept1 /\ Kept2 => Goal
  BY DEF Asked
<1>2. CASE disk' = disk
  BY <1>1, <1>2
<1>3. ASSUME NEW c \in Ids, Appends(c) PROVE Goal
  <2>1. CASE RequestLands(c) \/ RequestFails(c)
    BY <2>1, ExecutorLeaves
  <2>2. CASE ~(RequestLands(c) \/ RequestFails(c))
    BY <1>1, <1>3, <2>2, ExecutorLeaves DEF Appends
  <2> QED BY <2>1, <2>2
<1>4. CASE CommitLands \/ CommitFails
  <2>1. committing
    BY <1>4 DEF CommitLands, CommitFails, CommitResolves
  <2>2. ex.callOf[nextCommit] \in Ids
    BY <2>1, CommittedNext
  <2>3. Kept1
    BY <1>4, <2>2, ExecutorLeaves
  <2> QED BY <1>1, <1>4, <2>3
<1>5. CASE Close \/ StopCloses \/ Resume
  <2>1. TurnLeaves(disk')
    BY <1>0, <1>5, TurnTaken
  <2> QED BY <1>1, <2>1 DEF TurnLeaves
<1>6. CASE BeginTurn
  BY <1>0, <1>6, BeginTurnTaken DEF SameCalls, Asked
<1>7. CASE Crash
  <2>1. disk' = Repaired
    BY <1>7 DEF Crash
  <2> QED BY <1>0, <1>1, <1>7, <2>1, RepairLeaves
<1> HIDE DEF Goal
<1> QED BY <1>2, <1>3, <1>4, <1>5, <1>6, <1>7, DiskStays

\* A step that closes a suspended turn finds a result for every call it waited for.
LEMMA ClosedWithResults ==
  ASSUME XInv, StopCloses, disk'.v.suspension # disk.v.suspension
  PROVE  \A c \in DOMAIN disk.v.calls : disk.stored[c] # None
<1> DEFINE v == disk.v
           a == At("turn/resume")
           b == At("step/end")
           k == At("turn/end")
           s == <<a, b, k>>
           x == Apply(v, a)
<1>0. Faithful(disk) /\ Sound(v) /\ Remembered(disk)
  BY DEF XInv, Faithful
<1>1. AppendBatch(v, s).ok
  BY DEF StopCloses, Batch
<1>2. Len(s) = 3 /\ s[1] = a /\ s[2] = b /\ s[3] = k
  OBVIOUS
<1>3. /\ a.type = "turn/resume" /\ b.type = "step/end" /\ b.step = v.openStep
  BY DEF At
<1> HIDE DEF s, a, b, k, v
<1>4. Accepts(v, a) /\ Accepts(x, b)
  BY <1>1, <1>2, ThreeEvents
<1>5. x.unresolved = v.unresolved /\ x.calls = v.calls
  <2>1. Sound(x) /\ SameCalls(v, x)
    BY <1>0, <1>3, <1>4, BoundaryTaken DEF SameCalls, BoundaryTypes, TurnTypes
  <2> QED BY <2>1 DEF SameCalls
<1>6. \A c \in v.unresolved : v.calls[c].step # v.openStep
  <2>1. StepOk(x, b)
    BY <1>3, <1>4, Cases DEF StepTypes
  <2> HIDE DEF x
  <2> QED BY <1>3, <1>5, <2>1 DEF StepOk
<1>7. v.unresolved = {}
  BY <1>0, <1>6 DEF Sound
<1> QED BY <1>0, <1>7 DEF Sound, Remembered, v

\* The suspension through every step: it ends when the turn is resumed or closed,
\* and begins when a stream is closed.
LEMMA SuspensionLeaves ==
  ASSUME XInv, XNext
  PROVE  /\ \/ disk'.v.suspension = disk.v.suspension
            \/ BeginTurn \/ Resume \/ StopCloses \/ Close \/ (Crash /\ ~Suspended)
         /\ BeginTurn => ~Suspended /\ ~Suspended'
         /\ Resume => ~Suspended'
         /\ StopCloses => disk'.v.suspension = disk.v.suspension \/ ~Suspended'
<1>0. Faithful(disk) /\ IsValidator(disk.v) /\ Sound(disk.v)
  BY DEF XInv, Faithful, Sound
<1>1. ASSUME NEW c \in Ids, Appends(c) PROVE disk'.v.suspension = disk.v.suspension
  BY <1>1, ExecutorLeaves DEF Appends
<1>2. ASSUME CommitLands \/ CommitFails PROVE disk'.v.suspension = disk.v.suspension
  <2>1. committing
    BY <1>2 DEF CommitLands, CommitFails, CommitResolves
  <2>2. ex.callOf[nextCommit] \in Ids
    BY <2>1, CommittedNext
  <2> QED BY <1>2, <2>2, ExecutorLeaves
<1>3. ASSUME Crash, Suspended PROVE disk'.v.suspension = disk.v.suspension
  BY <1>0, <1>3, RepairLeaves DEF Crash
<1>4. ASSUME BeginTurn PROVE ~Suspended /\ ~Suspended'
  <2>1. disk.v.openTurn = None /\ disk'.v.suspension = None
    BY <1>0, <1>4, BeginTurnTaken DEF BeginTurn
  <2> QED BY <1>0, <2>1 DEF Sound, Suspended
<1>5. \A u, k : Accepts(u, At(k)) /\ IsValidator(u) /\ k = "turn/resume" =>
         Apply(u, At(k)).suspension = None
  BY TurnApplied DEF At
<1>6. ASSUME Resume PROVE ~Suspended'
  <2> DEFINE a == At("turn/resume")
             s == <<a>>
  <2>1. AppendBatch(disk.v, s).ok /\ disk'.v = AppendBatch(disk.v, s).v
    BY <1>0, <1>6 DEF Resume, Batch, Faithful, IsDisk
  <2>2. Len(s) = 1 /\ s[1] = a
    OBVIOUS
  <2> HIDE DEF s, a
  <2>3. Accepts(disk.v, a) /\ disk'.v = Apply(disk.v, a)
    BY <2>1, <2>2, OneEvent
  <2> QED BY <1>0, <1>5, <2>3 DEF Suspended, a
<1>7. ASSUME StopCloses PROVE disk'.v.suspension = disk.v.suspension \/ ~Suspended'
  <2> DEFINE a == At("turn/resume")
             b == At("step/end")
             k == At("turn/end")
             s == <<a, b, k>>
             x == Apply(disk.v, a)
             y == Apply(x, b)
             z == Apply(y, k)
  <2>1. disk' = disk \/ (AppendBatch(disk.v, s).ok /\ disk'.v = AppendBatch(disk.v, s).v)
    BY <1>0, <1>7 DEF StopCloses, Batch, Faithful, IsDisk
  <2>2. Len(s) = 3 /\ s[1] = a /\ s[2] = b /\ s[3] = k
    OBVIOUS
  <2>3. b.type = "step/end" /\ k.type = "turn/end"
    BY DEF At
  <2> HIDE DEF s, a, b, k
  <2>4. ASSUME AppendBatch(disk.v, s).ok
        PROVE  AppendBatch(disk.v, s).v.suspension = None
    <3>1. Accepts(disk.v, a) /\ Accepts(x, b) /\ Accepts(y, k) /\ AppendBatch(disk.v, s).v = z
      BY <2>2, <2>4, ThreeEvents
    <3>2. x.suspension = None /\ IsValidator(x)
      BY <1>0, <1>5, <3>1, EventTouches DEF a
    <3> HIDE DEF x
    <3>3. y.suspension = None /\ IsValidator(y)
      BY <2>3, <3>1, <3>2, EventLeaves, EventTouches
    <3> HIDE DEF y
    <3> QED BY <2>3, <3>1, <3>3, EventLeaves
  <2> QED BY <2>1, <2>4 DEF Suspended
<1>8. \/ disk'.v.suspension = disk.v.suspension
      \/ BeginTurn \/ Resume \/ StopCloses \/ Close \/ (Crash /\ ~Suspended)
  BY <1>1, <1>2, <1>3, DiskStays
<1> QED BY <1>4, <1>6, <1>7, <1>8

\* What a suspended turn waits for is answered before it goes on or is closed.
LEMMA AwaitedStays ==
  ASSUME XInv, Apart, ToldFits, ~UserWrites, XNext, NEW c \in Ids, Awaited(c)
  PROVE  Awaited(c)' \/ disk'.stored[c] # None
<1>0. Faithful(disk) /\ Grown(disk, disk') /\ Sound(disk.v)
  BY HistoryStep DEF XInv, Faithful
<1>1. disk.stored[c] # None => disk'.stored[c] # None
  BY <1>0 DEF Grown
<1>2. disk'.v.suspension = disk.v.suspension => Awaited(c)'
  BY DEF Awaited, Suspended
<1>3. CASE Resume
  <2>1. chat.resp[c] = "done"
    BY <1>3 DEF Resume, Awaited
  <2> QED BY <1>1, <2>1 DEF ToldFits
<1>4. CASE StopCloses /\ disk'.v.suspension # disk.v.suspension
  <2>1. c \in DOMAIN disk.v.calls
    BY <1>0 DEF Awaited, Suspended, Sound
  <2> QED BY <1>1, <1>4, <2>1, ClosedWithResults
<1>5. ~Close /\ ~BeginTurn
  <2>1. chat.stream = "off" /\ disk.v.openTurn # None
    BY <1>0 DEF Apart, Awaited, Suspended, Sound
  <2> QED BY <2>1 DEF Close, BeginTurn
<1>6. ~(Crash /\ ~Suspended)
  BY DEF Awaited
<1> QED BY <1>2, <1>3, <1>4, <1>5, <1>6, SuspensionLeaves

------------------------------------------------------------------------------
(* What each step does to the callers. *)

\* The fields of the chat the invariant is about; the others are the closure's and
\* the Stop's own.
LaneStays == chat'.emitted = chat.emitted /\ chat'.lane = chat.lane /\ chat'.laneDown = chat.laneDown
StreamStays == chat'.stream = chat.stream /\ chat'.sdk = chat.sdk
Quiet == LaneStays /\ StreamStays /\ chat'.resp = chat.resp

\* Steps that change the closure's and the Stop's own fields.
LEMMA OwnFields ==
  ASSUME ChatShape, NEW x, NEW y,
         \/ chat' = chat
         \/ chat' = [chat EXCEPT !.cancel = x]
         \/ chat' = [chat EXCEPT !.cancel = x, !.stopFailed = y]
         \/ chat' = [chat EXCEPT !.at = x]
         \/ chat' = [chat EXCEPT !.at = x, !.todo = y]
         \/ chat' = [chat EXCEPT !.todo = y]
  PROVE  ChatShape' /\ Quiet
<1>1. CASE chat' = chat
  BY <1>1 DEF ChatShape, Quiet, LaneStays, StreamStays
<1>2. CASE chat' = [chat EXCEPT !.cancel = x]
  BY <1>2 DEF ChatShape, Quiet, LaneStays, StreamStays
<1>3. CASE chat' = [chat EXCEPT !.cancel = x, !.stopFailed = y]
  BY <1>3 DEF ChatShape, Quiet, LaneStays, StreamStays
<1>4. CASE chat' = [chat EXCEPT !.at = x]
  BY <1>4 DEF ChatShape, Quiet, LaneStays, StreamStays
<1>5. CASE chat' = [chat EXCEPT !.at = x, !.todo = y]
  BY <1>5 DEF ChatShape, Quiet, LaneStays, StreamStays
<1>6. CASE chat' = [chat EXCEPT !.todo = y]
  BY <1>6 DEF ChatShape, Quiet, LaneStays, StreamStays
<1> QED BY <1>1, <1>2, <1>3, <1>4, <1>5, <1>6

\* The executor's own steps, the closure's and the Stop's.
QuietStep ==
  \/ \E c \in Ids : \/ PersistCall(c) \/ Schedule(c) \/ ScheduleThrows(c)
                    \/ DecisionLands(c) \/ DecisionFails(c)
                    \/ CloseApproval(c) \/ CloseCall(c) \/ CancelApproval(c) \/ CancelCall(c)
  \/ (\E p : Return(p) \/ Settle(p)) \/ CommitLands \/ CommitFails
  \/ CallClosed \/ CancelledCall \/ StopSuspended \/ StopCloses

\* They leave the stream, the recorder's lane and the answers alone.
LEMMA QuietStays ==
  ASSUME ChatShape, QuietStep
  PROVE  ChatShape' /\ Quiet
<1>1. ASSUME NEW c \in Ids, \/ PersistCall(c) \/ Schedule(c) \/ ScheduleThrows(c)
                            \/ DecisionLands(c) \/ DecisionFails(c)
      PROVE  chat' = chat
  BY <1>1 DEF PersistCall, Schedule, ScheduleThrows, DecisionLands, DecisionFails
<1>2. ASSUME NEW p, Return(p) \/ Settle(p) PROVE chat' = chat
  BY <1>2 DEF Return, Settle
<1>3. CommitLands \/ CommitFails => chat' = chat
  BY DEF CommitLands, CommitFails
<1>4. ASSUME NEW c \in Ids, CloseApproval(c)
      PROVE  \E y : chat' = chat \/ chat' = [chat EXCEPT !.todo = y]
  <2>1. chat' = chat \/ chat' = [chat EXCEPT !.todo = chat.todo \ {c}]
    BY <1>4 DEF CloseApproval
  <2> QED BY <2>1
<1>5. ASSUME NEW c \in Ids, CloseCall(c) PROVE chat' = [chat EXCEPT !.at = c]
  BY <1>5 DEF CloseCall
<1>6. ASSUME NEW c \in Ids, CancelApproval(c) \/ CancelCall(c)
      PROVE  \E x, y : \/ chat' = chat \/ chat' = [chat EXCEPT !.cancel = x]
                       \/ chat' = [chat EXCEPT !.cancel = x, !.stopFailed = y]
  <2>1. \/ chat' = chat
        \/ chat' = [chat EXCEPT !.cancel = [chat.cancel EXCEPT !.told = @ \ {c}]]
        \/ chat' = [chat EXCEPT !.cancel = [chat.cancel EXCEPT !.at = c]]
        \/ chat' = [chat EXCEPT !.cancel = None, !.stopFailed = TRUE]
    BY <1>6 DEF CancelApproval, CancelCall, StopThrows
  <2> QED BY <2>1
<1>7. ASSUME CallClosed PROVE chat' = [chat EXCEPT !.at = None, !.todo = chat.todo \ {chat.at}]
  BY <1>7 DEF CallClosed
<1>8. ASSUME CancelledCall
      PROVE  \E x, y : \/ chat' = [chat EXCEPT !.cancel = x]
                       \/ chat' = [chat EXCEPT !.cancel = x, !.stopFailed = y]
  <2>1. \/ chat' = [chat EXCEPT !.cancel = [chat.cancel EXCEPT !.at = None, !.todo = @ \ {chat.cancel.at}]]
        \/ chat' = [chat EXCEPT !.cancel = None, !.stopFailed = TRUE]
    BY <1>8 DEF CancelledCall, StopThrows
  <2> QED BY <2>1
<1>9. ASSUME StopSuspended \/ StopCloses
      PROVE  \E x, y : \/ chat' = [chat EXCEPT !.cancel = x]
                       \/ chat' = [chat EXCEPT !.cancel = x, !.stopFailed = y]
  <2>1. StopSuspended => \E x : chat' = [chat EXCEPT !.cancel = x]
    BY DEF StopSuspended
  <2>2. StopCloses => \/ chat' = [chat EXCEPT !.cancel = None]
                      \/ chat' = [chat EXCEPT !.cancel = None, !.stopFailed = TRUE]
    BY DEF StopCloses, StopThrows
  <2> QED BY <1>9, <2>1, <2>2
<1> QED BY <1>1, <1>2, <1>3, <1>4, <1>5, <1>6, <1>7, <1>8, <1>9, OwnFields DEF QuietStep

\* The recorder's steps.
LEMMA RecorderMoves ==
  ASSUME ChatTyped, NEW c \in Ids,
         \/ PersistCallFails(c) \/ RequestLands(c) \/ RequestFails(c)
         \/ RecorderRecords(c) \/ RecorderGoesOn(c)
  PROVE  /\ ChatShape' /\ StreamStays /\ chat'.resp = chat.resp /\ chat'.emitted = chat.emitted
         /\ PersistCallFails(c) =>
              /\ chat'.lane = chat.lane /\ chat'.laneDown \in {chat.laneDown, TRUE}
              /\ ~LaneAt(c) => chat'.laneDown = chat.laneDown
         /\ RequestLands(c) => chat'.lane = c /\ chat'.laneDown = chat.laneDown
         /\ RequestFails(c) => chat'.lane = chat.lane /\ chat'.laneDown = TRUE
         /\ RecorderRecords(c) => chat'.lane = chat.lane /\ chat'.laneDown \in {chat.laneDown, TRUE}
         /\ RecorderGoesOn(c) => chat'.lane = (IF tool[c].asks THEN chat.lane ELSE c)
                                 /\ chat'.laneDown = chat.laneDown
<1>0. ChatShape /\ chat.laneDown \in BOOLEAN
  BY DEF ChatTyped
<1>1. \A x : chat' = [chat EXCEPT !.laneDown = x] =>
        /\ ChatShape' /\ StreamStays /\ chat'.resp = chat.resp /\ chat'.emitted = chat.emitted
        /\ chat'.lane = chat.lane /\ chat'.laneDown = x
  BY <1>0 DEF ChatShape, StreamStays
<1>2. \A x : chat' = [chat EXCEPT !.lane = x] =>
        /\ ChatShape' /\ StreamStays /\ chat'.resp = chat.resp /\ chat'.emitted = chat.emitted
        /\ chat'.lane = x /\ chat'.laneDown = chat.laneDown
  BY <1>0 DEF ChatShape, StreamStays
<1>3. chat' = chat =>
        /\ ChatShape' /\ StreamStays /\ chat'.resp = chat.resp /\ chat'.emitted = chat.emitted
        /\ chat'.lane = chat.lane /\ chat'.laneDown = chat.laneDown
  BY <1>0 DEF ChatShape, StreamStays
<1>4. PersistCallFails(c) =>
        \E x \in {chat.laneDown, TRUE} : /\ chat' = [chat EXCEPT !.laneDown = x]
                                         /\ ~LaneAt(c) => x = chat.laneDown
  <2> SUFFICES ASSUME PersistCallFails(c)
               PROVE  \E x \in {chat.laneDown, TRUE} : /\ chat' = [chat EXCEPT !.laneDown = x]
                                                       /\ ~LaneAt(c) => x = chat.laneDown
    OBVIOUS
  <2>1. PICK joined \in BOOLEAN :
          chat' = [chat EXCEPT !.laneDown = @ \/ (LaneAt(c) /\ (joined \/ ~ex.reg[c].ensure))]
    BY DEF PersistCallFails
  <2> DEFINE x == chat.laneDown \/ (LaneAt(c) /\ (joined \/ ~ex.reg[c].ensure))
  <2>2. x \in {chat.laneDown, TRUE} /\ (~LaneAt(c) => x = chat.laneDown)
    BY <1>0
  <2>3. chat' = [chat EXCEPT !.laneDown = x]
    BY <2>1
  <2> QED BY <2>2, <2>3
<1>5. RequestLands(c) => chat' = [chat EXCEPT !.lane = c]
  BY DEF RequestLands
<1>6. RequestFails(c) => chat' = [chat EXCEPT !.laneDown = TRUE]
  BY DEF RequestFails
<1>7. RecorderRecords(c) => chat' = chat \/ chat' = [chat EXCEPT !.laneDown = TRUE]
  BY DEF RecorderRecords
<1>8. RecorderGoesOn(c) => IF tool[c].asks THEN chat' = chat ELSE chat' = [chat EXCEPT !.lane = c]
  BY DEF RecorderGoesOn
<1>9. PersistCallFails(c) =>
        /\ ChatShape' /\ StreamStays /\ chat'.resp = chat.resp /\ chat'.emitted = chat.emitted
        /\ chat'.lane = chat.lane /\ chat'.laneDown \in {chat.laneDown, TRUE}
        /\ ~LaneAt(c) => chat'.laneDown = chat.laneDown
  BY <1>1, <1>4
<1>10. RequestLands(c) =>
        /\ ChatShape' /\ StreamStays /\ chat'.resp = chat.resp /\ chat'.emitted = chat.emitted
        /\ chat'.lane = c /\ chat'.laneDown = chat.laneDown
  BY <1>2, <1>5
<1>11. RequestFails(c) =>
        /\ ChatShape' /\ StreamStays /\ chat'.resp = chat.resp /\ chat'.emitted = chat.emitted
        /\ chat'.lane = chat.lane /\ chat'.laneDown = TRUE
  BY <1>1, <1>6
<1>12. RecorderRecords(c) =>
        /\ ChatShape' /\ StreamStays /\ chat'.resp = chat.resp /\ chat'.emitted = chat.emitted
        /\ chat'.lane = chat.lane /\ chat'.laneDown \in {chat.laneDown, TRUE}
  BY <1>1, <1>3, <1>7
<1>13. RecorderGoesOn(c) =>
        /\ ChatShape' /\ StreamStays /\ chat'.resp = chat.resp /\ chat'.emitted = chat.emitted
        /\ chat'.lane = (IF tool[c].asks THEN chat.lane ELSE c) /\ chat'.laneDown = chat.laneDown
  BY <1>2, <1>3, <1>8
<1> QED BY <1>9, <1>10, <1>11, <1>12, <1>13, Zenon

\* The steps of the stream, and the user's answers.
LEMMA StreamMoves ==
  ASSUME ChatTyped
  PROVE  /\ Drained => ChatShape' /\ LaneStays /\ chat'.resp = chat.resp
                       /\ chat.stream = "draining" /\ chat'.stream = "closing"
                       /\ (chat.lane = chat.emitted \/ chat.laneDown)
         /\ Close => ChatShape' /\ LaneStays /\ chat'.resp = chat.resp
                     /\ chat.stream = "closing" /\ chat'.stream = "off"
         /\ \A stop \in BOOLEAN : StreamEnds(stop) =>
              ChatShape' /\ LaneStays /\ chat'.resp = chat.resp
              /\ chat.stream = "open" /\ chat'.stream = "draining"
         /\ Resume => ChatShape' /\ chat'.resp = chat.resp
                      /\ chat.stream = "off" /\ chat'.stream = "open"
                      /\ chat'.emitted = chat.emitted /\ chat'.lane = chat.emitted
                      /\ chat'.laneDown = FALSE
         /\ BeginTurn => ChatShape' /\ chat'.resp = [c \in Ids |-> None]
                         /\ chat.stream = "off" /\ chat'.stream = "open"
                         /\ chat'.emitted = chat.emitted /\ chat'.lane = chat.emitted
                         /\ chat'.laneDown = FALSE
         /\ Crash => ChatShape' /\ chat'.resp = [c \in Ids |-> None] /\ chat'.stream = "off"
                     /\ chat'.emitted = chat.emitted /\ chat'.lane = chat.emitted
                     /\ chat'.laneDown = FALSE
         /\ Emit => ChatShape' /\ StreamStays /\ chat'.resp = chat.resp
                    /\ chat'.emitted = chat.emitted + 1 /\ chat'.lane = chat.lane
                    /\ chat'.laneDown = chat.laneDown
         /\ \A c \in Ids :
              /\ SdkExecutes(c) => ChatShape' /\ LaneStays /\ chat'.resp = chat.resp
                                   /\ chat.stream = "open" /\ chat'.stream = "open"
                                   /\ chat'.sdk = chat.sdk \cup {c}
              /\ Act(c) => ChatShape' /\ LaneStays /\ StreamStays
                           /\ chat'.resp = [chat.resp EXCEPT ![c] = "acting"]
              /\ Publish(c) => ChatShape' /\ LaneStays /\ StreamStays
                               /\ chat'.resp = [chat.resp EXCEPT ![c] = "done"]
              /\ \A out : Respond(c, out) =>
                   ChatShape' /\ LaneStays /\ StreamStays
                   /\ chat'.resp = [chat.resp EXCEPT ![c] = out]
<1>0. ChatShape
  BY DEF ChatTyped
<1>1. \A x : chat' = [chat EXCEPT !.resp = x] =>
        ChatShape' /\ LaneStays /\ StreamStays /\ chat'.resp = x
  BY <1>0 DEF ChatShape, LaneStays, StreamStays
<1>2. ASSUME NEW c \in Ids
      PROVE  /\ Act(c) => chat' = [chat EXCEPT !.resp = [chat.resp EXCEPT ![c] = "acting"]]
             /\ Publish(c) => chat' = [chat EXCEPT !.resp = [chat.resp EXCEPT ![c] = "done"]]
             /\ \A out : Respond(c, out) =>
                  chat' = [chat EXCEPT !.resp = [chat.resp EXCEPT ![c] = out]]
  BY DEF Act, Publish, Respond
<1>3. ASSUME NEW c \in Ids, SdkExecutes(c)
      PROVE  ChatShape' /\ LaneStays /\ chat'.resp = chat.resp
             /\ chat.stream = "open" /\ chat'.stream = "open" /\ chat'.sdk = chat.sdk \cup {c}
  <2>1. chat.stream = "open" /\ chat' = [chat EXCEPT !.sdk = chat.sdk \cup {c}]
    BY <1>3 DEF SdkExecutes
  <2> QED BY <1>0, <2>1 DEF ChatShape, LaneStays
<1>4. ASSUME Drained
      PROVE  ChatShape' /\ LaneStays /\ chat'.resp = chat.resp
             /\ chat.stream = "draining" /\ chat'.stream = "closing"
             /\ (chat.lane = chat.emitted \/ chat.laneDown)
  <2> DEFINE T == {c \in OpenCalls : ~Answered(c)}
  <2>1. /\ chat.stream = "draining" /\ (chat.lane = chat.emitted \/ chat.laneDown)
        /\ chat' = [chat EXCEPT !.stream = "closing", !.todo = T]
    BY <1>4 DEF Drained
  <2> HIDE DEF T
  <2> QED BY <1>0, <2>1 DEF ChatShape, LaneStays
<1>5. ASSUME Close
      PROVE  ChatShape' /\ LaneStays /\ chat'.resp = chat.resp
             /\ chat.stream = "closing" /\ chat'.stream = "off"
  <2>1. chat.stream = "closing" /\ \E x : chat' = [chat EXCEPT !.stream = "off", !.cancel = x]
    BY <1>5 DEF Close
  <2> QED BY <1>0, <2>1 DEF ChatShape, LaneStays
<1>6. ASSUME NEW stop \in BOOLEAN, StreamEnds(stop)
      PROVE  ChatShape' /\ LaneStays /\ chat'.resp = chat.resp
             /\ chat.stream = "open" /\ chat'.stream = "draining"
  <2>1. chat.stream = "open" /\ chat' = [chat EXCEPT !.stream = "draining", !.aborted = stop]
    BY <1>6 DEF StreamEnds
  <2> QED BY <1>0, <2>1 DEF ChatShape, LaneStays
<1>7. ASSUME Resume
      PROVE  ChatShape' /\ chat'.resp = chat.resp
             /\ chat.stream = "off" /\ chat'.stream = "open"
             /\ chat'.emitted = chat.emitted /\ chat'.lane = chat.emitted
             /\ chat'.laneDown = FALSE
  <2>1. /\ chat.stream = "off"
        /\ chat' = [chat EXCEPT !.stream = "open", !.aborted = FALSE, !.base = chat.emitted,
                                !.lane = chat.emitted, !.laneDown = FALSE, !.sdk = {}]
    BY <1>7 DEF Resume
  <2> QED BY <1>0, <2>1 DEF ChatShape
<1>8. ASSUME BeginTurn
      PROVE  ChatShape' /\ chat'.resp = [c \in Ids |-> None]
             /\ chat.stream = "off" /\ chat'.stream = "open"
             /\ chat'.emitted = chat.emitted /\ chat'.lane = chat.emitted
             /\ chat'.laneDown = FALSE
  <2>1. /\ chat.stream = "off"
        /\ chat' = [NoChat(chat.emitted, chat.made) EXCEPT !.stream = "open"]
    BY <1>8 DEF BeginTurn
  <2> QED BY <1>0, <2>1 DEF ChatShape, NoChat
<1>9. ASSUME Crash
      PROVE  ChatShape' /\ chat'.resp = [c \in Ids |-> None] /\ chat'.stream = "off"
             /\ chat'.emitted = chat.emitted /\ chat'.lane = chat.emitted
             /\ chat'.laneDown = FALSE
  <2>1. chat' = NoChat(chat.emitted, chat.made)
    BY <1>9 DEF Crash
  <2> QED BY <1>0, <2>1 DEF ChatShape, NoChat
<1>10. ASSUME Emit
       PROVE  ChatShape' /\ StreamStays /\ chat'.resp = chat.resp
              /\ chat'.emitted = chat.emitted + 1 /\ chat'.lane = chat.lane
              /\ chat'.laneDown = chat.laneDown
  <2>1. \E x : chat' = [chat EXCEPT !.emitted = chat.emitted + 1, !.made = x]
    BY <1>10 DEF Emit
  <2> QED BY <1>0, <2>1 DEF ChatShape, StreamStays
<1>11. \A c \in Ids :
         /\ Act(c) => ChatShape' /\ LaneStays /\ StreamStays
                      /\ chat'.resp = [chat.resp EXCEPT ![c] = "acting"]
         /\ Publish(c) => ChatShape' /\ LaneStays /\ StreamStays
                          /\ chat'.resp = [chat.resp EXCEPT ![c] = "done"]
         /\ \A out : Respond(c, out) =>
              ChatShape' /\ LaneStays /\ StreamStays
              /\ chat'.resp = [chat.resp EXCEPT ![c] = out]
  BY <1>1, <1>2
<1> QED BY <1>3, <1>4, <1>5, <1>6, <1>7, <1>8, <1>9, <1>10, <1>11, Zenon

\* The steps of the recorder, of the user's answers and of the stream.
RecorderStep(c) ==
  \/ PersistCallFails(c) \/ RequestLands(c) \/ RequestFails(c)
  \/ RecorderRecords(c) \/ RecorderGoesOn(c)
AnswerStep(c) == Act(c) \/ Publish(c) \/ \E out \in {"yes", "no"} : Respond(c, out)
StreamStep ==
  \/ Drained \/ Close \/ Resume \/ BeginTurn \/ Crash \/ Emit
  \/ (\E stop \in BOOLEAN : StreamEnds(stop)) \/ (\E c \in Ids : SdkExecutes(c))

\* There are no others.
LEMMA StepKinds ==
  ASSUME XNext
  PROVE  \/ QuietStep \/ StreamStep
         \/ \E c \in Ids : RecorderStep(c) \/ AnswerStep(c)
<1>1. CASE Executor
  BY <1>1 DEF Executor, QuietStep, RecorderStep
<1>2. CASE Recorder
  BY <1>2 DEF Recorder, RecorderStep
<1>3. CASE Closing
  BY <1>3 DEF Closing, QuietStep, StreamStep, AnswerStep
<1>4. CASE ~Executor /\ ~Recorder /\ ~Closing
  BY <1>4 DEF XNext, QuietStep, StreamStep, AnswerStep
<1> QED BY <1>1, <1>2, <1>3, <1>4

\* The fields of the chat after every step.
LEMMA ChatTypedStep ==
  ASSUME ChatTyped, LaneFits, XNext
  PROVE  ChatTyped'
<1>1. /\ ChatShape /\ chat.emitted \in Nat /\ chat.lane \in 0 .. chat.emitted
      /\ chat.laneDown \in BOOLEAN
      /\ chat.resp \in [Ids -> {None, "yes", "no", "acting", "done"}]
  BY DEF ChatTyped
<1>2. LaneStays /\ ChatShape' /\ chat'.resp \in [Ids -> {None, "yes", "no", "acting", "done"}]
        => ChatTyped'
  BY <1>1 DEF ChatTyped, LaneStays
<1>3. CASE QuietStep
  BY <1>1, <1>2, <1>3, QuietStays DEF Quiet
<1>4. ASSUME NEW c \in Ids, RecorderStep(c) PROVE ChatTyped'
  <2>1. /\ ChatShape' /\ chat'.resp = chat.resp /\ chat'.emitted = chat.emitted
        /\ chat'.laneDown \in BOOLEAN
        /\ chat'.lane = chat.lane \/ (chat'.lane = c /\ (RequestLands(c) \/ RecorderGoesOn(c)))
    BY <1>1, <1>4, RecorderMoves DEF RecorderStep
  <2>2. RequestLands(c) \/ RecorderGoesOn(c) => LaneAt(c)
    BY DEF RequestLands, RecorderGoesOn, LaneFits
  <2>3. LaneAt(c) => c \in 0 .. chat.emitted
    BY <1>1 DEF LaneAt, Ids
  <2> QED BY <1>1, <2>1, <2>2, <2>3 DEF ChatTyped
<1>5. ASSUME NEW c \in Ids, AnswerStep(c) PROVE ChatTyped'
  <2>1. /\ ChatShape' /\ LaneStays
        /\ \E x \in {"yes", "no", "acting", "done"} : chat'.resp = [chat.resp EXCEPT ![c] = x]
    BY <1>5, StreamMoves DEF AnswerStep
  <2> QED BY <1>1, <1>2, <2>1
<1>6. CASE StreamStep
  <2>1. CASE Drained \/ Close \/ (\E stop \in BOOLEAN : StreamEnds(stop)) \/ (\E c \in Ids : SdkExecutes(c))
    <3>1. ChatShape' /\ LaneStays /\ chat'.resp = chat.resp
      BY <2>1, StreamMoves
    <3> QED BY <1>1, <1>2, <3>1
  <2>2. CASE Resume \/ BeginTurn \/ Crash
    <3>1. /\ ChatShape' /\ chat'.emitted = chat.emitted /\ chat'.lane = chat.emitted
          /\ chat'.laneDown = FALSE
          /\ chat'.resp = chat.resp \/ chat'.resp = [c \in Ids |-> None]
      BY <2>2, StreamMoves
    <3>2. chat'.resp \in [Ids -> {None, "yes", "no", "acting", "done"}]
      BY <1>1, <3>1
    <3>3. chat'.laneDown \in BOOLEAN
      BY <3>1, Zenon
    <3>4. chat'.emitted = chat.emitted /\ chat'.lane = chat.emitted
      BY <3>1
    <3>5. chat'.emitted \in Nat /\ chat'.lane \in 0 .. chat'.emitted
      BY <1>1, <3>4
    <3> QED BY <3>1, <3>2, <3>3, <3>5 DEF ChatTyped
  <2>3. CASE Emit
    <3>1. /\ ChatShape' /\ chat'.resp = chat.resp
          /\ chat'.emitted = chat.emitted + 1 /\ chat'.lane = chat.lane
          /\ chat'.laneDown = chat.laneDown
      BY <2>3, StreamMoves
    <3>2. chat'.emitted \in Nat /\ chat'.lane \in 0 .. chat'.emitted /\ chat'.laneDown \in BOOLEAN
      BY <1>1, <3>1
    <3> QED BY <1>1, <3>1, <3>2 DEF ChatTyped
  <2> QED BY <1>6, <2>1, <2>2, <2>3 DEF StreamStep
<1> QED BY <1>3, <1>4, <1>5, <1>6, StepKinds

\* No stream runs beside a suspended turn.
LEMMA ApartStep ==
  ASSUME XInv, ChatTyped, Apart, XNext
  PROVE  Apart'
<1>1. CASE BeginTurn \/ Resume
  BY <1>1, SuspensionLeaves DEF Apart
<1>2. CASE Close \/ Crash
  BY <1>2, StreamMoves DEF Apart
<1>3. CASE StopCloses
  <2>1. chat'.stream = chat.stream
    BY <1>3, QuietStays DEF ChatTyped, Quiet, StreamStays, QuietStep
  <2> QED BY <1>3, <2>1, SuspensionLeaves DEF Apart, Suspended
<1>4. CASE ~(BeginTurn \/ Resume \/ Close \/ Crash \/ StopCloses)
  <2>1. disk'.v.suspension = disk.v.suspension
    BY <1>4, SuspensionLeaves
  <2>2. chat.stream = "off" => chat'.stream = "off"
    <3>1. CASE QuietStep
      BY <3>1, QuietStays DEF ChatTyped, Quiet, StreamStays
    <3>2. ASSUME NEW c \in Ids, RecorderStep(c) \/ AnswerStep(c) PROVE chat'.stream = chat.stream
      <4>1. CASE RecorderStep(c)
        BY <4>1, RecorderMoves DEF RecorderStep, StreamStays
      <4>2. CASE AnswerStep(c)
        BY <4>2, StreamMoves DEF AnswerStep, StreamStays
      <4> QED BY <3>2, <4>1, <4>2
    <3>3. CASE StreamStep
      <4>1. CASE Drained \/ (\E stop \in BOOLEAN : StreamEnds(stop)) \/ (\E c \in Ids : SdkExecutes(c))
        <5>1. chat.stream # "off"
          BY <4>1, StreamMoves
        <5> QED BY <5>1
      <4>2. CASE Emit
        BY <4>2, StreamMoves DEF StreamStays
      <4> QED BY <1>4, <3>3, <4>1, <4>2 DEF StreamStep
    <3> QED BY <3>1, <3>2, <3>3, StepKinds
  <2> QED BY <2>1, <2>2 DEF Apart, Suspended
<1> QED BY <1>1, <1>2, <1>3, <1>4

------------------------------------------------------------------------------
(* What each step does to the executor's records. *)

\* A record of one call, or of its approval, changes.
LEMMA OneRecord ==
  ASSUME Typed, NEW c \in Ids, NEW x
  PROVE  /\ ex' = [ex EXCEPT !.owner[c] = x] =>
              /\ ex'.reg = ex.reg /\ ex'.appr = ex.appr /\ ex'.callOf = ex.callOf
              /\ ex'.owner[c] = x /\ \A d \in Ids : d # c => ex'.owner[d] = ex.owner[d]
         /\ ex' = [ex EXCEPT !.appr[c] = x] =>
              /\ ex'.reg = ex.reg /\ ex'.owner = ex.owner /\ ex'.callOf = ex.callOf
              /\ ex'.appr[c] = x /\ \A d \in Ids : d # c => ex'.appr[d] = ex.appr[d]
<1>0. /\ ex = [reg |-> ex.reg, appr |-> ex.appr, owner |-> ex.owner, callOf |-> ex.callOf,
               produced |-> ex.produced, keeps |-> ex.keeps]
      /\ ex.owner \in [Ids -> Owners \cup {None}] /\ ex.appr \in [Ids -> Approvals \cup {None}]
  BY DEF Typed
<1>1. ASSUME ex' = [ex EXCEPT !.owner[c] = x]
      PROVE  /\ ex'.reg = ex.reg /\ ex'.appr = ex.appr /\ ex'.callOf = ex.callOf
             /\ ex'.owner[c] = x /\ \A d \in Ids : d # c => ex'.owner[d] = ex.owner[d]
  <2>1. ex' = [reg |-> ex.reg, appr |-> ex.appr, owner |-> [ex.owner EXCEPT ![c] = x],
               callOf |-> ex.callOf, produced |-> ex.produced, keeps |-> ex.keeps]
    BY <1>0, <1>1
  <2> QED BY <1>0, <2>1
<1>2. ASSUME ex' = [ex EXCEPT !.appr[c] = x]
      PROVE  /\ ex'.reg = ex.reg /\ ex'.owner = ex.owner /\ ex'.callOf = ex.callOf
             /\ ex'.appr[c] = x /\ \A d \in Ids : d # c => ex'.appr[d] = ex.appr[d]
  <2>1. ex' = [reg |-> ex.reg, appr |-> [ex.appr EXCEPT ![c] = x], owner |-> ex.owner,
               callOf |-> ex.callOf, produced |-> ex.produced, keeps |-> ex.keeps]
    BY <1>0, <1>2
  <2> QED BY <1>0, <2>1
<1> QED BY <1>1, <1>2

\* A call that takes the next place leaves those that were given outcomes.
LEMMA EntersMoves ==
  ASSUME Memory, IInv, NEW c \in Ids, Enters(c), ex.reg[c] = None, NEW b \in BOOLEAN, NEW y,
         ex' = [reg |-> [ex.reg EXCEPT ![c] = Registration(b)], appr |-> ex.appr,
                owner |-> [ex.owner EXCEPT ![c] = y], callOf |-> Append(ex.callOf, c),
                produced |-> ex.produced, keeps |-> ex.keeps]
  PROVE  /\ failed' = failed /\ ex'.appr = ex.appr /\ ex'.owner[c] = y
         /\ \A d \in Ids : /\ d # c => ex'.owner[d] = ex.owner[d]
                           /\ Persisted(d) => Persisted(d)'
         /\ \A p \in DOMAIN ex'.callOf : phase'[p] \notin {"free", "registered"} =>
              p \in DOMAIN ex.callOf /\ ex'.callOf[p] = ex.callOf[p] /\ phase'[p] = phase[p]
<1> DEFINE n == NextPlace
<1>1. n \in Calls /\ n = Len(ex.callOf) + 1 /\ Len(ex.callOf) \in Nat /\ ex.callOf \in Seq(Ids)
  BY PlaceTaken DEF Enters, NextPlace, Memory
<1>2. phase' = [phase EXCEPT ![n] = "registered"] /\ failed' = failed
  BY DEF Enters, Register
<1>3. /\ ex'.reg = [ex.reg EXCEPT ![c] = Registration(b)] /\ ex'.appr = ex.appr
      /\ ex'.owner = [ex.owner EXCEPT ![c] = y] /\ ex'.callOf = Append(ex.callOf, c)
  BY Zenon
<1>4. ex.reg \in [Ids -> Registrations \cup {None}] /\ ex.owner \in [Ids -> Owners \cup {None}]
  BY DEF Memory, Typed
<1>5. \A d \in Ids : d # c => ex'.owner[d] = ex.owner[d] /\ ex'.reg[d] = ex.reg[d]
  BY <1>3, <1>4
<1>6. \A d \in Ids : Persisted(d) => Persisted(d)'
  BY <1>5 DEF Persisted
<1>7. phase'[n] = "registered" /\ \A p \in Calls : p # n => phase'[p] = phase[p]
  BY <1>1, <1>2 DEF IInv, TypeOK
<1>8. \A p \in DOMAIN ex.callOf : p \in Calls
  BY PlaceTaken DEF Memory
<1>9. \A p \in DOMAIN ex'.callOf : p = n \/ (p \in DOMAIN ex.callOf /\ ex'.callOf[p] = ex.callOf[p])
  BY <1>1, <1>3
<1>10. ASSUME NEW p \in DOMAIN ex'.callOf, phase'[p] \notin {"free", "registered"}
       PROVE  p \in DOMAIN ex.callOf /\ ex'.callOf[p] = ex.callOf[p] /\ phase'[p] = phase[p]
  <2>1. p # n
    BY <1>7, <1>10
  <2> QED BY <1>7, <1>8, <1>9, <2>1
<1>11. ex'.owner[c] = y
  BY <1>3, <1>4
<1> HIDE DEF n
<1> QED BY <1>2, <1>3, <1>5, <1>6, <1>10, <1>11

\* A call of the executor joins a record that is alive, or makes a new one.
LEMMA CalledMoves ==
  ASSUME Memory, IInv, NEW c \in Ids, NEW op, NEW value, Called(c, op, value)
  PROVE  /\ failed' = failed /\ ex'.appr = ex.appr
         /\ \A d \in Ids : /\ d # c => ex'.owner[d] = ex.owner[d]
                           /\ Persisted(d) => Persisted(d)'
         /\ \/ ex'.owner[c] = ex.owner[c]
            \/ ~Live(c) /\ ex'.owner[c].op = op /\ ex'.owner[c].pc = "waiting"
         /\ \A p \in DOMAIN ex'.callOf : phase'[p] \notin {"free", "registered"} =>
              p \in DOMAIN ex.callOf /\ ex'.callOf[p] = ex.callOf[p] /\ phase'[p] = phase[p]
<1> DEFINE own(place) == [op |-> op, value |-> value, pc |-> "waiting", place |-> place]
<1>0. /\ ex = [reg |-> ex.reg, appr |-> ex.appr, owner |-> ex.owner, callOf |-> ex.callOf,
               produced |-> ex.produced, keeps |-> ex.keeps]
  BY DEF Memory, Typed
<1>1. \A p : own(p).op = op /\ own(p).pc = "waiting"
  OBVIOUS
<1>2. CASE UNCHANGED <<vars, ex>>
  <2>1. failed' = failed /\ ex' = ex /\ phase' = phase
    BY <1>2 DEF vars
  <2> QED BY <2>1 DEF Persisted
<1>3. CASE /\ ~Live(c) /\ UNCHANGED vars
           /\ ex' = [ex EXCEPT !.owner[c] = own(ex.reg[c].place)]
  <2> DEFINE y == own(ex.reg[c].place)
  <2>1. failed' = failed /\ phase' = phase /\ ex' = [ex EXCEPT !.owner[c] = y] /\ ~Live(c)
    BY <1>3 DEF vars
  <2>2. y.op = op /\ y.pc = "waiting"
    OBVIOUS
  <2> HIDE DEF y, own
  <2>3. /\ ex'.reg = ex.reg /\ ex'.appr = ex.appr /\ ex'.callOf = ex.callOf
        /\ ex'.owner[c] = y /\ \A d \in Ids : d # c => ex'.owner[d] = ex.owner[d]
    BY <2>1, OneRecord DEF Memory
  <2> QED BY <2>1, <2>2, <2>3 DEF Persisted
<1>4. CASE /\ ~Live(c) /\ ex.reg[c] = None /\ Enters(c)
           /\ ex' = [ex EXCEPT !.reg[c] = Registration(TRUE), !.callOf = Append(@, c),
                               !.owner[c] = own(NextPlace)]
  <2> DEFINE y == own(NextPlace)
             r == Registration(TRUE)
  <2>1. ex' = [ex EXCEPT !.reg[c] = r, !.callOf = Append(@, c), !.owner[c] = y]
    BY <1>4
  <2>2. y.op = op /\ y.pc = "waiting" /\ TRUE \in BOOLEAN
    OBVIOUS
  <2> HIDE DEF y, r, own
  <2>3. ex' = [reg |-> [ex.reg EXCEPT ![c] = r], appr |-> ex.appr,
               owner |-> [ex.owner EXCEPT ![c] = y], callOf |-> Append(ex.callOf, c),
               produced |-> ex.produced, keeps |-> ex.keeps]
    BY <1>0, <2>1
  <2>4. /\ failed' = failed /\ ex'.appr = ex.appr /\ ex'.owner[c] = y
        /\ \A d \in Ids : /\ d # c => ex'.owner[d] = ex.owner[d]
                          /\ Persisted(d) => Persisted(d)'
        /\ \A p \in DOMAIN ex'.callOf : phase'[p] \notin {"free", "registered"} =>
             p \in DOMAIN ex.callOf /\ ex'.callOf[p] = ex.callOf[p] /\ phase'[p] = phase[p]
    BY <1>4, <2>3, EntersMoves DEF r
  <2> QED BY <1>4, <2>2, <2>4
<1> QED BY <1>2, <1>3, <1>4 DEF Called

\* The appends of calls: the registration is durable, or gone with the record that
\* waits for it.
LEMMA PersistMoves ==
  ASSUME Memory, NEW c \in Ids
  PROVE  /\ PersistCall(c) =>
              /\ ex'.appr = ex.appr /\ ex'.owner = ex.owner /\ ex'.callOf = ex.callOf
              /\ \A d \in Ids : Persisted(d) => Persisted(d)'
         /\ PersistCallFails(c) =>
              /\ ex'.appr = ex.appr /\ ex'.callOf = ex.callOf /\ ex'.owner[c] = None
              /\ \A d \in Ids : /\ d # c => ex'.owner[d] = ex.owner[d]
                                /\ Persisted(d) => Persisted(d)' /\ d # c
<1>0. /\ ex = [reg |-> ex.reg, appr |-> ex.appr, owner |-> ex.owner, callOf |-> ex.callOf,
               produced |-> ex.produced, keeps |-> ex.keeps]
      /\ ex.owner \in [Ids -> Owners \cup {None}] /\ ex.reg \in [Ids -> Registrations \cup {None}]
  BY DEF Memory, Typed
<1>1. ASSUME PersistCall(c)
      PROVE  /\ ex'.appr = ex.appr /\ ex'.owner = ex.owner /\ ex'.callOf = ex.callOf
             /\ \A d \in Ids : Persisted(d) => Persisted(d)'
  <2> DEFINE x == [ex.reg[c] EXCEPT !.st = "ok"]
  <2>1. ex' = [ex EXCEPT !.reg[c] = x] /\ ex.reg[c] # None
    BY <1>1 DEF PersistCall
  <2>2. x.st = "ok" /\ x # None
    <3>1. ex.reg[c] \in Registrations
      BY <1>0, <2>1
    <3>2. x \in Registrations /\ x.st = "ok"
      BY <3>1 DEF Registrations
    <3> QED BY <3>2, Defined, ToolsAssumption
  <2> HIDE DEF x
  <2>3. ex' = [reg |-> [ex.reg EXCEPT ![c] = x], appr |-> ex.appr, owner |-> ex.owner,
               callOf |-> ex.callOf, produced |-> ex.produced, keeps |-> ex.keeps]
    BY <1>0, <2>1
  <2>4. ex'.reg[c] = x /\ \A d \in Ids : d # c => ex'.reg[d] = ex.reg[d]
    BY <1>0, <2>3
  <2> QED BY <2>2, <2>3, <2>4 DEF Persisted
<1>2. ASSUME PersistCallFails(c)
      PROVE  /\ ex'.appr = ex.appr /\ ex'.callOf = ex.callOf /\ ex'.owner[c] = None
             /\ \A d \in Ids : /\ d # c => ex'.owner[d] = ex.owner[d]
                               /\ Persisted(d) => Persisted(d)' /\ d # c
  <2>1. ex' = [ex EXCEPT !.reg[c] = None, !.owner[c] = None] /\ ex.reg[c].st = "pending"
    BY <1>2 DEF PersistCallFails
  <2>2. ex' = [reg |-> [ex.reg EXCEPT ![c] = None], appr |-> ex.appr,
               owner |-> [ex.owner EXCEPT ![c] = None],
               callOf |-> ex.callOf, produced |-> ex.produced, keeps |-> ex.keeps]
    BY <1>0, <2>1
  <2>3. /\ ex'.owner[c] = None
        /\ \A d \in Ids : d # c => ex'.reg[d] = ex.reg[d] /\ ex'.owner[d] = ex.owner[d]
    BY <1>0, <2>2
  <2> QED BY <2>1, <2>2, <2>3 DEF Persisted
<1> QED BY <1>1, <1>2

\* A record is given its outcome, or rejects.
LEMMA ScheduleMoves ==
  ASSUME Memory, NEW c \in Ids
  PROVE  /\ Schedule(c) =>
              /\ ex'.reg = ex.reg /\ ex'.appr = ex.appr /\ ex'.callOf = ex.callOf
              /\ ex.owner[c] # None /\ ex'.owner[c] # None /\ ex'.owner[c].pc = "scheduled"
              /\ ex'.owner[c].op = ex.owner[c].op /\ ex'.owner[c].place = ex.owner[c].place
              /\ \A d \in Ids : d # c => ex'.owner[d] = ex.owner[d]
         /\ ScheduleThrows(c) =>
              /\ ex'.reg = ex.reg /\ ex'.appr = ex.appr /\ ex'.callOf = ex.callOf
              /\ ex.owner[c] # None /\ ex.owner[c].pc = "waiting" /\ ex'.owner[c] = None
              /\ \A d \in Ids : d # c => ex'.owner[d] = ex.owner[d]
<1>1. ASSUME Schedule(c)
      PROVE  /\ ex'.reg = ex.reg /\ ex'.appr = ex.appr /\ ex'.callOf = ex.callOf
             /\ ex.owner[c] # None /\ ex'.owner[c] # None /\ ex'.owner[c].pc = "scheduled"
             /\ ex'.owner[c].op = ex.owner[c].op /\ ex'.owner[c].place = ex.owner[c].place
             /\ \A d \in Ids : d # c => ex'.owner[d] = ex.owner[d]
  <2> DEFINE y == [ex.owner[c] EXCEPT !.pc = "scheduled"]
  <2>1. ex = [reg |-> ex.reg, appr |-> ex.appr, owner |-> ex.owner, callOf |-> ex.callOf,
              produced |-> ex.produced, keeps |-> ex.keeps]
    BY DEF Memory, Typed
  <2>2. /\ ex.owner[c] # None /\ ex.owner[c] \in Owners
        /\ ex.owner \in [Ids -> Owners \cup {None}]
    BY <1>1 DEF Schedule, Memory, Typed
  <2>3. /\ y \in Owners /\ y.pc = "scheduled" /\ y.op = ex.owner[c].op
        /\ y.place = ex.owner[c].place
    BY <2>2 DEF Owners
  <2>4. y # None
    BY <2>3, ToolsAssumption
  <2>5. \E i, g, k : ex' = [ex EXCEPT !.owner[c] = y, !.produced[i] = g, !.keeps[i] = k]
    BY <1>1 DEF Schedule
  <2> HIDE DEF y
  <2>6. PICK i, g, k : ex' = [ex EXCEPT !.owner[c] = y, !.produced[i] = g, !.keeps[i] = k]
    BY <2>5
  <2>7. ex' = [reg |-> ex.reg, appr |-> ex.appr, owner |-> [ex.owner EXCEPT ![c] = y],
               callOf |-> ex.callOf, produced |-> [ex.produced EXCEPT ![i] = g],
               keeps |-> [ex.keeps EXCEPT ![i] = k]]
    BY <2>1, <2>6
  <2>8. ex'.owner[c] = y /\ \A d \in Ids : d # c => ex'.owner[d] = ex.owner[d]
    BY <2>2, <2>7
  <2> QED BY <2>2, <2>3, <2>4, <2>7, <2>8
<1>2. ASSUME ScheduleThrows(c)
      PROVE  /\ ex'.reg = ex.reg /\ ex'.appr = ex.appr /\ ex'.callOf = ex.callOf
             /\ ex.owner[c] # None /\ ex.owner[c].pc = "waiting" /\ ex'.owner[c] = None
             /\ \A d \in Ids : d # c => ex'.owner[d] = ex.owner[d]
  <2>1. /\ ex' = [ex EXCEPT !.owner[c] = None] /\ ex.owner[c] # None
        /\ ex.owner[c].pc = "waiting"
    BY <1>2 DEF ScheduleThrows
  <2> QED BY <2>1, OneRecord DEF Memory
<1> QED BY <1>1, <1>2

\* A body returns; a Stop aborts the runs of the stream.
LEMMA RunMoves ==
  ASSUME Memory
  PROVE  /\ \A p : Return(p) => /\ ex'.reg = ex.reg /\ ex'.appr = ex.appr
                                /\ ex'.owner = ex.owner /\ ex'.callOf = ex.callOf
         /\ \A stop \in BOOLEAN : StreamEnds(stop) =>
              /\ ex'.reg = ex.reg /\ ex'.appr = ex.appr /\ ex'.callOf = ex.callOf
              /\ \A c \in Ids :
                   \/ ex'.owner[c] = ex.owner[c]
                   \/ /\ stop /\ ex.owner[c] # None /\ ex.owner[c].op = "run"
                      /\ ex'.owner[c] # None /\ ex'.owner[c].op = "aborted"
                      /\ ex'.owner[c].pc = ex.owner[c].pc
              /\ stop => \A c \in Ids : ex'.owner[c] # None => ex'.owner[c].op # "run"
<1>0. /\ ex = [reg |-> ex.reg, appr |-> ex.appr, owner |-> ex.owner, callOf |-> ex.callOf,
               produced |-> ex.produced, keeps |-> ex.keeps]
      /\ ex.owner \in [Ids -> Owners \cup {None}]
  BY DEF Memory, Typed
<1>1. ASSUME NEW p, Return(p)
      PROVE  /\ ex'.reg = ex.reg /\ ex'.appr = ex.appr
             /\ ex'.owner = ex.owner /\ ex'.callOf = ex.callOf
  <2>1. ex' = [ex EXCEPT !.produced[p] = "done"]
    BY <1>1 DEF Return
  <2> QED BY <1>0, <2>1
<1>2. ASSUME NEW stop \in BOOLEAN, StreamEnds(stop)
      PROVE  /\ ex'.reg = ex.reg /\ ex'.appr = ex.appr /\ ex'.callOf = ex.callOf
             /\ \A c \in Ids :
                  \/ ex'.owner[c] = ex.owner[c]
                  \/ /\ stop /\ ex.owner[c] # None /\ ex.owner[c].op = "run"
                     /\ ex'.owner[c] # None /\ ex'.owner[c].op = "aborted"
                     /\ ex'.owner[c].pc = ex.owner[c].pc
             /\ stop => \A c \in Ids : ex'.owner[c] # None => ex'.owner[c].op # "run"
  <2> DEFINE w == [c \in Ids |->
        IF stop /\ ex.owner[c] # None /\ ex.owner[c].op = "run"
          THEN [ex.owner[c] EXCEPT !.op = "aborted"] ELSE ex.owner[c]]
  <2>1. ex' = [ex EXCEPT !.owner = w]
    BY <1>2 DEF StreamEnds
  <2>2. ASSUME NEW c \in Ids
        PROVE  /\ \/ w[c] = ex.owner[c]
                  \/ /\ stop /\ ex.owner[c] # None /\ ex.owner[c].op = "run"
                     /\ w[c] # None /\ w[c].op = "aborted" /\ w[c].pc = ex.owner[c].pc
               /\ stop /\ w[c] # None => w[c].op # "run"
    <3>1. CASE stop /\ ex.owner[c] # None /\ ex.owner[c].op = "run"
      <4>1. w[c] = [ex.owner[c] EXCEPT !.op = "aborted"] /\ ex.owner[c] \in Owners
        BY <1>0, <3>1
      <4> HIDE DEF w
      <4>2. w[c] \in Owners /\ w[c].op = "aborted" /\ w[c].pc = ex.owner[c].pc
        BY <4>1 DEF Owners
      <4> QED BY <3>1, <4>2, ToolsAssumption
    <3>2. CASE ~(stop /\ ex.owner[c] # None /\ ex.owner[c].op = "run")
      <4>1. w[c] = ex.owner[c]
        BY <3>2
      <4> HIDE DEF w
      <4> QED BY <3>2, <4>1
    <3> QED BY <3>1, <3>2
  <2> HIDE DEF w
  <2>3. ex' = [reg |-> ex.reg, appr |-> ex.appr, owner |-> w, callOf |-> ex.callOf,
               produced |-> ex.produced, keeps |-> ex.keeps]
    BY <1>0, <2>1
  <2> QED BY <2>2, <2>3
<1> QED BY <1>1, <1>2

\* The recorder takes a place for the call it is at.
LEMMA RecorderRecordsMoves ==
  ASSUME Memory, IInv, NEW c \in Ids, RecorderRecords(c)
  PROVE  /\ failed' = failed /\ ex'.appr = ex.appr
         /\ \A d \in Ids : ex'.owner[d] = ex.owner[d] /\ (Persisted(d) => Persisted(d)')
         /\ \A p \in DOMAIN ex'.callOf : phase'[p] \notin {"free", "registered"} =>
              p \in DOMAIN ex.callOf /\ ex'.callOf[p] = ex.callOf[p] /\ phase'[p] = phase[p]
<1>1. CASE UNCHANGED <<vars, ex>>
  <2>1. failed' = failed /\ ex' = ex /\ phase' = phase
    BY <1>1 DEF vars
  <2> QED BY <2>1 DEF Persisted
<1>2. CASE ~UNCHANGED <<vars, ex>>
  <2> DEFINE r == Registration(FALSE)
  <2>1. /\ ex.reg[c] = None /\ Enters(c)
        /\ ex' = [ex EXCEPT !.reg[c] = r, !.callOf = Append(@, c)]
    BY <1>2 DEF RecorderRecords
  <2> HIDE DEF r
  <2>2. /\ ex = [reg |-> ex.reg, appr |-> ex.appr, owner |-> ex.owner, callOf |-> ex.callOf,
                 produced |-> ex.produced, keeps |-> ex.keeps]
        /\ ex.owner \in [Ids -> Owners \cup {None}]
    BY DEF Memory, Typed
  <2>3. ex' = [reg |-> [ex.reg EXCEPT ![c] = r], appr |-> ex.appr, owner |-> ex.owner,
               callOf |-> Append(ex.callOf, c), produced |-> ex.produced, keeps |-> ex.keeps]
    BY <2>1, <2>2
  <2>4. ex.owner = [ex.owner EXCEPT ![c] = ex.owner[c]]
    BY <2>2
  <2>5. ex' = [reg |-> [ex.reg EXCEPT ![c] = r], appr |-> ex.appr,
               owner |-> [ex.owner EXCEPT ![c] = ex.owner[c]],
               callOf |-> Append(ex.callOf, c), produced |-> ex.produced, keeps |-> ex.keeps]
    BY <2>3, <2>4
  <2>6. FALSE \in BOOLEAN
    OBVIOUS
  <2> QED BY <2>1, <2>5, <2>6, EntersMoves DEF r
<1> QED BY <1>1, <1>2

\* A decision is put into the record of an approval.
DecisionTold(c, out) ==
  /\ MayDecide(c, out) /\ disk' = disk
  /\ ex'.appr[c] # None /\ ex'.appr[c].out = out
  /\ ex'.appr[c].request = "pending" => ex.appr[c] # None /\ ex.appr[c].request = "pending"
  /\ ex'.appr[c].st = "ok" => Approval(c).st = "ok" /\ Approval(c).out = out

\* recordApprovalDecision() changes the one record, as DecisionTold says.
LEMMA DecidedMoves ==
  ASSUME Memory, Faithful(disk), NEW c \in Ids, NEW out \in Outs, MayDecide(c, out),
         ex' = Decided(ex, c, out), disk' = disk
  PROVE  /\ DecisionTold(c, out)
         /\ ex'.reg = ex.reg /\ ex'.owner = ex.owner /\ ex'.callOf = ex.callOf
         /\ \A d \in Ids : d # c => ex'.appr[d] = ex.appr[d]
<1> DEFINE x == IF Approval(c).out = out THEN Approval(c)
                ELSE [Approval(c) EXCEPT !.out = out, !.st = "pending"]
<1>1. ex' = [ex EXCEPT !.appr[c] = x]
  BY DEF Decided
<1>2. Approval(c) \in Approvals
  BY ApprovalFits DEF MayDecide
<1>3. /\ x \in Approvals /\ x.out = out /\ x.request = Approval(c).request
      /\ x.st = "ok" => Approval(c).st = "ok" /\ Approval(c).out = out
  BY <1>2 DEF Approvals
<1>4. x # None
  BY <1>3, ToolsAssumption
<1>5. Approval(c).request = "pending" => ex.appr[c] # None /\ ex.appr[c].request = "pending"
  <2>1. CASE ex.appr[c] # None \/ ~Asked(c)
    BY <2>1 DEF Approval, MayDecide
  <2>2. CASE ~(ex.appr[c] # None \/ ~Asked(c))
    <3>1. Approval(c) = [request |-> "ok", out |-> disk.told[c],
                         st |-> IF disk.told[c] = None THEN "none" ELSE "ok"]
      BY <2>2 DEF Approval
    <3> QED BY <3>1
  <2> QED BY <2>1, <2>2
<1> HIDE DEF x
<1>6. /\ ex'.reg = ex.reg /\ ex'.owner = ex.owner /\ ex'.callOf = ex.callOf
      /\ ex'.appr[c] = x /\ \A d \in Ids : d # c => ex'.appr[d] = ex.appr[d]
  BY <1>1, OneRecord DEF Memory
<1> QED BY <1>3, <1>4, <1>5, <1>6 DEF DecisionTold

\* Requests and their decisions land, or fail.
LEMMA ApprovalMoves ==
  ASSUME Memory, NEW c \in Ids
  PROVE  /\ RequestLands(c) \/ RequestFails(c) \/ DecisionLands(c) \/ DecisionFails(c) =>
              /\ ex'.reg = ex.reg /\ ex'.owner = ex.owner /\ ex'.callOf = ex.callOf
              /\ ex.appr[c] # None
              /\ \A d \in Ids : d # c => ex'.appr[d] = ex.appr[d]
         /\ RequestLands(c) => /\ ex'.appr[c] # None /\ ex'.appr[c].request = "ok"
                               /\ ex'.appr[c].st = ex.appr[c].st /\ ex'.appr[c].out = ex.appr[c].out
         /\ RequestFails(c) => ex'.appr[c] = None
         /\ DecisionLands(c) => /\ ex'.appr[c] # None /\ ex'.appr[c].request = ex.appr[c].request
                                /\ ex'.appr[c].st = "ok" /\ ex'.appr[c].out = ex.appr[c].out
         /\ DecisionFails(c) => /\ ex'.appr[c] # None /\ ex'.appr[c].request = ex.appr[c].request
                                /\ ex'.appr[c].st = "failed" /\ ex'.appr[c].out = ex.appr[c].out
<1>1. ex.appr[c] # None => ex.appr[c] \in Approvals
  BY DEF Memory, Typed
<1>2. ASSUME RequestLands(c)
      PROVE  /\ ex'.reg = ex.reg /\ ex'.owner = ex.owner /\ ex'.callOf = ex.callOf
             /\ ex.appr[c] # None
             /\ \A d \in Ids : d # c => ex'.appr[d] = ex.appr[d]
             /\ ex'.appr[c] # None /\ ex'.appr[c].request = "ok"
             /\ ex'.appr[c].st = ex.appr[c].st /\ ex'.appr[c].out = ex.appr[c].out
  <2> DEFINE x == [ex.appr[c] EXCEPT !.request = "ok"]
  <2>1. ex.appr[c] # None /\ ex' = [ex EXCEPT !.appr[c] = x]
    BY <1>2 DEF RequestLands
  <2>2. x \in Approvals /\ x.request = "ok" /\ x.st = ex.appr[c].st /\ x.out = ex.appr[c].out
    BY <1>1, <2>1 DEF Approvals
  <2> HIDE DEF x
  <2>3. x # None
    BY <2>2, ToolsAssumption
  <2> QED BY <2>1, <2>2, <2>3, OneRecord DEF Memory
<1>3. ASSUME RequestFails(c)
      PROVE  /\ ex'.reg = ex.reg /\ ex'.owner = ex.owner /\ ex'.callOf = ex.callOf
             /\ ex.appr[c] # None
             /\ \A d \in Ids : d # c => ex'.appr[d] = ex.appr[d]
             /\ ex'.appr[c] = None
  <2>1. ex.appr[c] # None /\ ex' = [ex EXCEPT !.appr[c] = None]
    BY <1>3 DEF RequestFails
  <2> QED BY <2>1, OneRecord DEF Memory
<1>4. ASSUME DecisionLands(c) \/ DecisionFails(c)
      PROVE  /\ ex'.reg = ex.reg /\ ex'.owner = ex.owner /\ ex'.callOf = ex.callOf
             /\ ex.appr[c] # None
             /\ \A d \in Ids : d # c => ex'.appr[d] = ex.appr[d]
             /\ ex'.appr[c] # None /\ ex'.appr[c].request = ex.appr[c].request
             /\ ex'.appr[c].out = ex.appr[c].out
             /\ DecisionLands(c) => ex'.appr[c].st = "ok"
             /\ DecisionFails(c) => ex'.appr[c].st = "failed"
  <2>1. ASSUME NEW st \in {"ok", "failed"}, ex' = [ex EXCEPT !.appr[c].st = st], ex.appr[c] # None
        PROVE  /\ ex'.reg = ex.reg /\ ex'.owner = ex.owner /\ ex'.callOf = ex.callOf
               /\ \A d \in Ids : d # c => ex'.appr[d] = ex.appr[d]
               /\ ex'.appr[c] # None /\ ex'.appr[c].request = ex.appr[c].request
               /\ ex'.appr[c].out = ex.appr[c].out /\ ex'.appr[c].st = st
    <3> DEFINE x == [ex.appr[c] EXCEPT !.st = st]
    <3>1. ex' = [ex EXCEPT !.appr[c] = x]
      BY <2>1
    <3>2. x \in Approvals /\ x.request = ex.appr[c].request /\ x.st = st /\ x.out = ex.appr[c].out
      BY <1>1, <2>1 DEF Approvals
    <3> HIDE DEF x
    <3>3. x # None
      BY <3>2, ToolsAssumption
    <3> QED BY <3>1, <3>2, <3>3, OneRecord DEF Memory
  <2>2. ex.appr[c] # None
    BY <1>4 DEF DecisionLands, DecisionFails, Deciding
  <2>3. /\ DecisionLands(c) => ex' = [ex EXCEPT !.appr[c].st = "ok"]
        /\ DecisionFails(c) => ex' = [ex EXCEPT !.appr[c].st = "failed"]
    BY DEF DecisionLands, DecisionFails
  <2> QED BY <1>4, <2>1, <2>2, <2>3
<1> QED BY <1>2, <1>3, <1>4

\* Steps that leave the executor's memory alone.
Idle ==
  \/ (\E p : Settle(p)) \/ CommitLands \/ CommitFails
  \/ Drained \/ CallClosed \/ Close \/ CancelledCall \/ StopCloses
  \/ BeginTurn \/ Resume \/ Emit \/ StopSuspended \/ (\E c \in Ids : Publish(c))

\* Each of them.
LEMMA IdleStays ==
  ASSUME Idle
  PROVE  ex' = ex
BY DEF Idle, Settle, CommitLands, CommitFails, Drained, CallClosed, Close, CancelledCall,
       StopCloses, BeginTurn, Resume, Emit, StopSuspended, Publish

\* Steps that make a caller join or make a record.
Joins(c) == SdkExecutes(c) \/ CloseCall(c) \/ CancelCall(c) \/ Act(c)

\* With what the record is made for.
LEMMA JoinsMoves ==
  ASSUME Memory, IInv, NEW c \in Ids, Joins(c)
  PROVE  /\ failed' = failed /\ ex'.appr = ex.appr /\ disk' = disk
         /\ \A d \in Ids : /\ d # c => ex'.owner[d] = ex.owner[d]
                           /\ Persisted(d) => Persisted(d)'
         /\ \/ ex'.owner[c] = ex.owner[c]
            \/ /\ ~Live(c) /\ ex'.owner[c].pc = "waiting"
               /\ \/ SdkExecutes(c) /\ ex'.owner[c].op = "run"
                  \/ Act(c) /\ chat.resp[c] = "yes" /\ ex'.owner[c].op = "execute"
                  \/ ex'.owner[c].op = "complete"
         /\ \A p \in DOMAIN ex'.callOf : phase'[p] \notin {"free", "registered"} =>
              p \in DOMAIN ex.callOf /\ ex'.callOf[p] = ex.callOf[p] /\ phase'[p] = phase[p]
<1>1. PICK op, value : /\ Called(c, op, value)
                       /\ \/ SdkExecutes(c) /\ op = "run"
                          \/ Act(c) /\ chat.resp[c] = "yes" /\ op = "execute"
                          \/ op = "complete"
  BY DEF Joins, SdkExecutes, CloseCall, CancelCall, Act
<1>2. disk' = disk
  BY DEF Joins, SdkExecutes, CloseCall, CancelCall, Act
<1> QED BY <1>1, <1>2, CalledMoves

\* Steps that decide.
Decides(c) ==
  \E out \in Outs : /\ ex' = Decided(ex, c, out) /\ MayDecide(c, out)
                    /\ UNCHANGED <<vars, tool, disk, seen>>

\* There are no other steps.
LEMMA RecordSteps ==
  ASSUME XNext
  PROVE  \/ ex' = ex \/ Crash
         \/ \E c \in Ids : \/ PersistCall(c) \/ PersistCallFails(c)
                           \/ Schedule(c) \/ ScheduleThrows(c)
                           \/ RequestLands(c) \/ RequestFails(c)
                           \/ DecisionLands(c) \/ DecisionFails(c)
                           \/ RecorderRecords(c) \/ (RecorderGoesOn(c) /\ tool[c].asks)
                           \/ Joins(c) \/ Decides(c)
         \/ (\E p \in DOMAIN ex.callOf : Return(p)) \/ (\E stop \in BOOLEAN : StreamEnds(stop))
<1>1. {"yes", "no", "cancelled"} = Outs
  BY DEF Outs
<1>2. CASE Executor
  BY <1>2, IdleStays DEF Executor, Idle
<1>3. CASE Recorder
  BY <1>3 DEF Recorder, RecorderGoesOn
<1>4. CASE Closing
  <2>1. ASSUME NEW c \in Ids, CloseApproval(c) \/ CancelApproval(c)
        PROVE  ex' = ex \/ Decides(c)
    BY <1>1, <2>1 DEF CloseApproval, CancelApproval, Decides
  <2> QED BY <1>4, <2>1, IdleStays DEF Closing, Idle, Joins
<1>5. ASSUME NEW c \in Ids, NEW out \in {"yes", "no"}, Respond(c, out)
      PROVE  Decides(c)
  BY <1>1, <1>5 DEF Respond, Decides
<1>6. CASE BeginTurn \/ Resume \/ Emit \/ StopSuspended
  BY <1>6, IdleStays DEF Idle
<1> QED BY <1>2, <1>3, <1>4, <1>5, <1>6 DEF XNext, Joins

\* What a step makes of the approval of d.
ApprMove(d) ==
  \/ ex'.appr[d] = ex.appr[d]
  \/ /\ RequestLands(d) /\ ex'.appr[d] # None /\ ex'.appr[d].request = "ok"
     /\ ex'.appr[d].st = ex.appr[d].st /\ ex'.appr[d].out = ex.appr[d].out
  \/ ex'.appr[d] = None
  \/ /\ DecisionLands(d) /\ ex'.appr[d] # None /\ ex'.appr[d].request = ex.appr[d].request
     /\ ex'.appr[d].st = "ok" /\ ex'.appr[d].out = ex.appr[d].out
  \/ /\ DecisionFails(d) /\ ex'.appr[d] # None /\ ex'.appr[d].request = ex.appr[d].request
     /\ ex'.appr[d].st = "failed" /\ ex'.appr[d].out = ex.appr[d].out
  \/ /\ RecorderGoesOn(d) /\ tool[d].asks /\ ex.appr[d] = None
     /\ ex'.appr[d] = [request |-> "pending", out |-> None, st |-> "none"]
  \/ \E out \in Outs : DecisionTold(d, out)

\* No step does anything else to an approval; one that is gone was not appended.
LEMMA ApprMoves ==
  ASSUME XInv, XNext, ~Crash, NEW d \in Ids
  PROVE  /\ ApprMove(d)
         /\ ex'.appr[d] = None /\ ex.appr[d] # None => RequestFails(d)
<1> DEFINE Goal == /\ ApprMove(d)
                   /\ ex'.appr[d] = None /\ ex.appr[d] # None => RequestFails(d)
<1> SUFFICES Goal
  OBVIOUS
<1>0. Memory /\ IInv /\ Faithful(disk)
  BY DEF XInv
<1>1. ex'.appr[d] = ex.appr[d] => Goal
  BY DEF ApprMove
<1>2. ASSUME NEW c \in Ids, PersistCall(c) \/ PersistCallFails(c) \/ Schedule(c) \/ ScheduleThrows(c)
                            \/ RecorderRecords(c) \/ Joins(c)
      PROVE  ex'.appr = ex.appr
  BY <1>0, <1>2, PersistMoves, ScheduleMoves, RecorderRecordsMoves, JoinsMoves
<1>3. ASSUME NEW c \in Ids,
             RequestLands(c) \/ RequestFails(c) \/ DecisionLands(c) \/ DecisionFails(c)
      PROVE  Goal
  <2>1. CASE c # d
    BY <1>0, <1>1, <1>3, <2>1, ApprovalMoves
  <2>2. CASE c = d
    BY <1>0, <1>3, <2>2, ApprovalMoves DEF ApprMove
  <2> QED BY <2>1, <2>2
<1>4. ASSUME NEW c \in Ids, RecorderGoesOn(c), tool[c].asks
      PROVE  Goal
  <2> DEFINE x == [request |-> "pending", out |-> None, st |-> "none"]
  <2>1. ex' = [ex EXCEPT !.appr[c] = x] /\ ex.appr[c] = None
    BY <1>4 DEF RecorderGoesOn
  <2> HIDE DEF x
  <2>2. ex'.appr[c] = x /\ \A e \in Ids : e # c => ex'.appr[e] = ex.appr[e]
    BY <1>0, <2>1, OneRecord DEF Memory
  <2>3. CASE c = d
    <3>1. x \in Approvals
      BY DEF x, Approvals
    <3> QED BY <1>4, <2>1, <2>2, <2>3 DEF ApprMove, x
  <2> QED BY <1>1, <2>2, <2>3
<1>5. ASSUME NEW c \in Ids, Decides(c)
      PROVE  Goal
  <2>1. PICK out \in Outs : ex' = Decided(ex, c, out) /\ MayDecide(c, out) /\ disk' = disk
    BY <1>5 DEF Decides
  <2>2. DecisionTold(c, out) /\ \A e \in Ids : e # c => ex'.appr[e] = ex.appr[e]
    BY <1>0, <2>1, DecidedMoves
  <2>3. CASE c = d
    BY <2>2, <2>3 DEF ApprMove, DecisionTold
  <2> QED BY <1>1, <2>2, <2>3
<1>6. ASSUME NEW p, Return(p) PROVE ex'.appr = ex.appr
  BY <1>0, <1>6, RunMoves
<1>7. ASSUME NEW stop \in BOOLEAN, StreamEnds(stop) PROVE ex'.appr = ex.appr
  BY <1>0, <1>7, RunMoves
<1> HIDE DEF Goal
<1> QED BY <1>1, <1>2, <1>3, <1>4, <1>5, <1>6, <1>7, RecordSteps

\* What a step makes of the record of d.
OwnerMove(d) ==
  \/ ex'.owner[d] = ex.owner[d]
  \/ ex'.owner[d] = None /\ (~Persisted(d) \/ ex.owner[d].pc = "waiting")
  \/ /\ Schedule(d) /\ ex.owner[d] # None /\ ex'.owner[d] # None
     /\ ex'.owner[d].op = ex.owner[d].op /\ ex'.owner[d].pc = "scheduled"
  \/ /\ ex.owner[d] # None /\ ex.owner[d].op = "run" /\ ex'.owner[d] # None
     /\ ex'.owner[d].op = "aborted" /\ ex'.owner[d].pc = ex.owner[d].pc
  \/ /\ ~Live(d) /\ ex'.owner[d].pc = "waiting"
     /\ \/ SdkExecutes(d) /\ ex'.owner[d].op = "run"
        \/ Act(d) /\ chat.resp[d] = "yes" /\ ex'.owner[d].op = "execute"
        \/ ex'.owner[d].op = "complete"

\* No step does anything else to a record, and a durable call stays durable.
LEMMA OwnerMoves ==
  ASSUME XInv, XNext, ~Crash, NEW d \in Ids
  PROVE  OwnerMove(d) /\ (Persisted(d) => Persisted(d)')
<1> DEFINE Goal == OwnerMove(d) /\ (Persisted(d) => Persisted(d)')
<1> SUFFICES Goal
  OBVIOUS
<1>0. Memory /\ IInv /\ Faithful(disk)
  BY DEF XInv
<1>1. ex'.owner[d] = ex.owner[d] /\ (ex'.reg = ex.reg \/ (Persisted(d) => Persisted(d)')) => Goal
  BY DEF OwnerMove, Persisted
<1>2. ASSUME NEW c \in Ids, PersistCall(c) \/ RecorderRecords(c)
      PROVE  Goal
  BY <1>0, <1>1, <1>2, PersistMoves, RecorderRecordsMoves
<1>3. ASSUME NEW c \in Ids, PersistCallFails(c) PROVE Goal
  BY <1>0, <1>1, <1>3, PersistMoves DEF OwnerMove
<1>4. ASSUME NEW c \in Ids, Schedule(c) \/ ScheduleThrows(c) PROVE Goal
  <2>1. CASE c # d
    BY <1>0, <1>1, <1>4, <2>1, ScheduleMoves
  <2>2. CASE c = d
    <3>1. ex'.reg = ex.reg
      BY <1>0, <1>4, ScheduleMoves
    <3>2. Persisted(d) => Persisted(d)'
      BY <3>1 DEF Persisted
    <3>3. OwnerMove(d)
      BY <1>0, <1>4, <2>2, ScheduleMoves DEF OwnerMove
    <3> QED BY <3>2, <3>3
  <2> QED BY <2>1, <2>2
<1>5. ASSUME NEW c \in Ids, Joins(c) PROVE Goal
  <2>1. CASE c # d
    BY <1>0, <1>1, <1>5, <2>1, JoinsMoves
  <2>2. CASE c = d
    BY <1>0, <1>1, <1>5, <2>2, JoinsMoves DEF OwnerMove
  <2> QED BY <2>1, <2>2
<1>6. ASSUME NEW c \in Ids,
             RequestLands(c) \/ RequestFails(c) \/ DecisionLands(c) \/ DecisionFails(c)
      PROVE  Goal
  BY <1>0, <1>1, <1>6, ApprovalMoves
<1>7. ASSUME NEW c \in Ids, RecorderGoesOn(c), tool[c].asks
      PROVE  Goal
  <2> DEFINE x == [request |-> "pending", out |-> None, st |-> "none"]
  <2>1. ex' = [ex EXCEPT !.appr[c] = x]
    BY <1>7 DEF RecorderGoesOn
  <2> HIDE DEF x
  <2> QED BY <1>0, <1>1, <2>1, OneRecord DEF Memory
<1>8. ASSUME NEW c \in Ids, Decides(c) PROVE Goal
  <2>1. PICK out \in Outs : ex' = Decided(ex, c, out) /\ MayDecide(c, out) /\ disk' = disk
    BY <1>8 DEF Decides
  <2> QED BY <1>0, <1>1, <2>1, DecidedMoves
<1>9. ASSUME NEW p, Return(p) PROVE Goal
  BY <1>0, <1>1, <1>9, RunMoves
<1>10. ASSUME NEW stop \in BOOLEAN, StreamEnds(stop) PROVE Goal
  <2>1. ex'.reg = ex.reg
    BY <1>0, <1>10, RunMoves
  <2>2. Persisted(d) => Persisted(d)'
    BY <2>1 DEF Persisted
  <2>3. OwnerMove(d)
    BY <1>0, <1>10, RunMoves DEF OwnerMove
  <2> QED BY <2>2, <2>3
<1>11. ex' = ex => Goal
  BY <1>1
<1> HIDE DEF Goal
<1> QED BY <1>2, <1>3, <1>4, <1>5, <1>6, <1>7, <1>8, <1>9, <1>10, <1>11, RecordSteps

\* A scheduler that failed stays so for the life of the process.
LEMMA FailedStays ==
  ASSUME XInv, XNext, ~Crash, failed
  PROVE  failed'
<1>1. [Next]_vars
  BY SchedulerStep DEF XInv
<1> QED BY <1>1 DEF Next, vars, Register, Execute, Complete, BodyReturns, BodySettles, BodyThrows,
                    SettleThrows, CommitResolves, CommitThrows, Fail

\* Steps that move no body and take no place.
LEMMA PlacesStay ==
  ASSUME XInv, XNext, ~Crash
  PROVE  \/ phase' = phase /\ ex'.callOf = ex.callOf
         \/ \E c \in Ids : Joins(c) \/ RecorderRecords(c) \/ Schedule(c)
         \/ \E p \in DOMAIN ex.callOf : Return(p) \/ Settle(p)
<1>0. Memory /\ IInv /\ Faithful(disk)
  BY DEF XInv
<1>1. ASSUME NEW c \in Ids, \/ PersistCall(c) \/ PersistCallFails(c) \/ ScheduleThrows(c)
                            \/ RequestLands(c) \/ RequestFails(c)
                            \/ DecisionLands(c) \/ DecisionFails(c)
      PROVE  phase' = phase /\ ex'.callOf = ex.callOf
  <2>1. UNCHANGED vars
    BY <1>1 DEF PersistCall, PersistCallFails, ScheduleThrows, RequestLands, RequestFails,
                DecisionLands, DecisionFails
  <2> QED BY <1>0, <1>1, <2>1, PersistMoves, ScheduleMoves, ApprovalMoves DEF vars
<1>2. CommitLands \/ CommitFails => phase' = phase /\ ex' = ex
  BY DEF CommitLands, CommitFails, CommitResolves, CommitThrows
<1>3. ASSUME NEW c \in Ids, Decides(c) PROVE phase' = phase /\ ex'.callOf = ex.callOf
  <2>1. PICK out \in Outs : ex' = Decided(ex, c, out) /\ MayDecide(c, out)
                            /\ UNCHANGED <<vars, tool, disk, seen>>
    BY <1>3 DEF Decides
  <2> QED BY <1>0, <2>1, DecidedMoves DEF vars
<1>4. ASSUME NEW c \in Ids, RecorderGoesOn(c) PROVE phase' = phase /\ ex'.callOf = ex.callOf
  <2> DEFINE x == [request |-> "pending", out |-> None, st |-> "none"]
  <2>1. (ex' = ex \/ ex' = [ex EXCEPT !.appr[c] = x]) /\ UNCHANGED vars
    BY <1>4 DEF RecorderGoesOn
  <2> HIDE DEF x
  <2> QED BY <1>0, <2>1, OneRecord DEF Memory, vars
<1>5. CASE Executor
  BY <1>1, <1>2, <1>5 DEF Executor
<1>6. CASE Recorder
  BY <1>4, <1>6 DEF Recorder
<1>7. \A out \in {"yes", "no", "cancelled"} : out \in Outs
  BY DEF Outs
<1>8. CASE Closing
  <2>1. ASSUME NEW c \in Ids, CloseApproval(c) \/ CancelApproval(c)
        PROVE  (phase' = phase /\ ex' = ex) \/ Decides(c)
    BY <1>7, <2>1 DEF CloseApproval, CancelApproval, Decides, vars
  <2>2. ASSUME NEW c \in Ids, Publish(c) PROVE phase' = phase /\ ex' = ex
    BY <2>2 DEF Publish, vars
  <2>3. Drained \/ CallClosed \/ Close \/ CancelledCall \/ StopCloses => phase' = phase /\ ex' = ex
    BY DEF Drained, CallClosed, Close, CancelledCall, StopCloses, vars
  <2> QED BY <1>3, <1>8, <2>1, <2>2, <2>3 DEF Closing, Joins
<1>9. ASSUME NEW stop \in BOOLEAN, StreamEnds(stop) PROVE phase' = phase /\ ex'.callOf = ex.callOf
  BY <1>0, <1>9, RunMoves DEF StreamEnds, vars
<1>10. ASSUME NEW c \in Ids, NEW out \in {"yes", "no"}, Respond(c, out) PROVE Decides(c)
  BY <1>7, <1>10 DEF Respond, Decides
<1>11. BeginTurn \/ Resume \/ Emit \/ StopSuspended => phase' = phase /\ ex' = ex
  BY DEF BeginTurn, Resume, Emit, StopSuspended, vars
<1> QED BY <1>3, <1>5, <1>6, <1>8, <1>9, <1>10, <1>11 DEF XNext, Joins

\* A place that has an outcome had it before, or Schedule gave it one.
PlaceMove(p) ==
  LET c == ex.callOf[p]
  IN  \/ Given(p) /\ (phase'[p] = "queued" => phase[p] = "queued")
      \/ /\ ~Given(p) /\ Schedule(c) /\ ex.owner[c].place = p
         /\ phase'[p] \in {"queued", "running"} =>
              ex.owner[c].op # "complete" /\ disk.stored[c] = None

\* No step gives an outcome in any other way.
LEMMA PlaceMoves ==
  ASSUME XInv, XNext, ~Crash, NEW p \in DOMAIN ex'.callOf, phase'[p] \notin {"free", "registered"}
  PROVE  p \in DOMAIN ex.callOf /\ ex'.callOf[p] = ex.callOf[p] /\ PlaceMove(p)
<1> DEFINE Goal == p \in DOMAIN ex.callOf /\ ex'.callOf[p] = ex.callOf[p] /\ PlaceMove(p)
<1> SUFFICES Goal
  OBVIOUS
<1>0. /\ Memory /\ IInv /\ Faithful(disk)
      /\ \A q \in DOMAIN ex.callOf : q \in Calls /\ ex.callOf[q] \in Ids
  BY PlaceTaken DEF XInv, Memory
<1>1. p \in DOMAIN ex.callOf /\ ex'.callOf[p] = ex.callOf[p] /\ phase'[p] = phase[p] => Goal
  BY DEF PlaceMove, Given
<1>2. ASSUME NEW c \in Ids, Joins(c) \/ RecorderRecords(c) PROVE Goal
  BY <1>0, <1>1, <1>2, JoinsMoves, RecorderRecordsMoves
<1>3. ASSUME NEW i \in Calls, Others(i), p \in Calls, p # i,
             ex'.callOf = ex.callOf
      PROVE  Goal
  BY <1>3 DEF Others, PlaceMove, Given
<1>4. ASSUME NEW i \in DOMAIN ex.callOf, Return(i) \/ Settle(i) PROVE Goal
  <2>1. i \in Calls
    BY <1>0
  <2>2. ex'.callOf = ex.callOf
    BY <1>0, <1>4, RunMoves DEF Settle
  <2>3. Others(i) /\ phase[i] \notin {"free", "registered"} /\ phase'[i] # "queued"
    <3>1. CASE Return(i)
      <4>1. phase' = [phase EXCEPT ![i] = "settling"] /\ phase[i] = "running"
        BY <3>1 DEF Return, BodyReturns
      <4>2. phase \in [Calls -> Phases]
        BY <1>0 DEF IInv, TypeOK
      <4> QED BY <2>1, <4>1, <4>2 DEF Others
    <3>2. CASE Settle(i)
      BY <1>0, <2>1, <3>2, SettleMoves DEF Settle
    <3> QED BY <1>4, <3>1, <3>2
  <2>4. CASE p = i
    BY <2>2, <2>3, <2>4 DEF PlaceMove, Given
  <2> QED BY <1>0, <1>3, <2>1, <2>2, <2>3, <2>4
<1>5. ASSUME NEW c \in Ids, Schedule(c) PROVE Goal
  <2> DEFINE o == ex.owner[c]
             d == disk.stored[c]
             ready == o.op = "complete" \/ d # None
  <2>1. /\ o # None /\ (IF ready THEN Complete(o.place) ELSE Execute(o.place))
    BY <1>5 DEF Schedule, DurableResult
  <2>2. /\ o \in Owners /\ ex.reg[c] # None /\ o.place = ex.reg[c].place
        /\ ex.reg[c].place \in DOMAIN ex.callOf /\ ex.callOf[ex.reg[c].place] = c
    BY <1>0, <2>1 DEF Memory, Typed, OwnersFit, PlacesFit
  <2>3. o.place \in Calls /\ o.place \in DOMAIN ex.callOf /\ ex.callOf[o.place] = c
    BY <2>2 DEF Owners
  <2>4. ex'.callOf = ex.callOf
    BY <1>0, <1>5, ScheduleMoves
  <2>5. /\ phase[o.place] = "registered" /\ Others(o.place)
        /\ phase'[o.place] \in {"queued", "running"} => ~ready
    BY <1>0, <2>1, <2>3, CompleteMoves, ExecuteMoves
  <2>6. CASE p = o.place
    BY <1>5, <2>3, <2>4, <2>5, <2>6 DEF PlaceMove, Given
  <2> HIDE DEF o
  <2> QED BY <1>0, <1>3, <2>3, <2>4, <2>5, <2>6
<1>6. CASE phase' = phase /\ ex'.callOf = ex.callOf
  BY <1>1, <1>6
<1> HIDE DEF Goal
<1> QED BY <1>2, <1>4, <1>5, <1>6, PlacesStay

------------------------------------------------------------------------------
(* The callers through every step. *)

\* The recorder's lane goes forward, and what is down stays down, until a stream
\* begins with nothing left to record.
LEMMA LaneForward ==
  ASSUME ChatTyped, LaneFits, XNext
  PROVE  /\ chat'.emitted >= chat.emitted
         /\ \/ chat'.lane = chat'.emitted
            \/ chat'.lane >= chat.lane /\ (chat.laneDown => chat'.laneDown)
<1>1. /\ chat.emitted \in Nat /\ chat.lane \in 0 .. chat.emitted /\ chat.laneDown \in BOOLEAN
  BY DEF ChatTyped
<1>2. CASE LaneStays
  BY <1>1, <1>2 DEF LaneStays
<1>3. CASE QuietStep
  BY <1>2, <1>3, QuietStays DEF ChatTyped, Quiet
<1>4. ASSUME NEW c \in Ids, AnswerStep(c) PROVE LaneStays
  BY <1>4, StreamMoves DEF AnswerStep
<1>5. ASSUME NEW c \in Ids, RecorderStep(c)
      PROVE  /\ chat'.emitted = chat.emitted
             /\ chat'.lane = chat.lane \/ chat'.lane = chat.lane + 1
             /\ chat.laneDown => chat'.laneDown
  <2>1. /\ chat'.emitted = chat.emitted
        /\ chat'.lane = chat.lane \/ (chat'.lane = c /\ (RequestLands(c) \/ RecorderGoesOn(c)))
    BY <1>5, RecorderMoves DEF RecorderStep
  <2>2. RequestLands(c) \/ RecorderGoesOn(c) => LaneAt(c)
    BY DEF RequestLands, RecorderGoesOn, LaneFits
  <2>3. chat.laneDown => chat'.laneDown
    <3>1. chat'.laneDown = chat.laneDown \/ chat'.laneDown = TRUE
      BY <1>5, RecorderMoves DEF RecorderStep
    <3> QED BY <3>1, Zenon
  <2>4. LaneAt(c) => c = chat.lane + 1
    BY DEF LaneAt
  <2> QED BY <2>1, <2>2, <2>3, <2>4
<1>6. CASE Drained \/ Close \/ (\E stop \in BOOLEAN : StreamEnds(stop)) \/ (\E c \in Ids : SdkExecutes(c))
  BY <1>2, <1>6, StreamMoves
<1>7. CASE Resume \/ BeginTurn \/ Crash
  <2>1. chat'.emitted = chat.emitted /\ chat'.lane = chat.emitted
    BY <1>7, StreamMoves
  <2> QED BY <1>1, <2>1
<1>8. CASE Emit
  <2>1. chat'.emitted = chat.emitted + 1 /\ chat'.lane = chat.lane
    BY <1>8, StreamMoves
  <2>2. chat.laneDown => chat'.laneDown
    BY <1>8, StreamMoves, Zenon
  <2>3. chat'.emitted >= chat.emitted /\ chat'.lane >= chat.lane
    BY <1>1, <2>1
  <2> QED BY <2>2, <2>3
<1>9. ASSUME NEW c \in Ids, RecorderStep(c)
      PROVE  /\ chat'.emitted >= chat.emitted
             /\ chat'.lane >= chat.lane /\ (chat.laneDown => chat'.laneDown)
  <2>1. chat'.emitted >= chat.emitted /\ chat'.lane >= chat.lane
    BY <1>1, <1>5, <1>9
  <2>2. chat.laneDown => chat'.laneDown
    BY <1>5, <1>9
  <2> QED BY <2>1, <2>2
<1> QED BY <1>2, <1>3, <1>4, <1>6, <1>7, <1>8, <1>9, StepKinds DEF StreamStep

\* The recorder stays at a call whose request is on its way.
LEMMA LaneWaits ==
  ASSUME XInv, ChatTyped, LaneFits, XNext, ~Crash, NEW d \in Ids,
         ex.appr[d] # None, ex.appr[d].request = "pending", ~RequestLands(d), ~RequestFails(d)
  PROVE  LaneAt(d)'
<1>1. /\ LaneAt(d) /\ Persisted(d)
  BY DEF LaneFits
<1>2. /\ chat.stream \in {"open", "draining"} /\ chat.laneDown = FALSE
      /\ d = chat.lane + 1 /\ d <= chat.emitted
      /\ chat.emitted \in Nat /\ chat.lane \in 0 .. chat.emitted
  BY <1>1 DEF LaneAt, ChatTyped
<1>3. \A c \in Ids : LaneAt(c) => c = d
  BY <1>1 DEF LaneAt
<1>4. tool[d].asks
  BY DEF XInv, Memory, ApprovalsFit
<1>5. CASE LaneStays /\ StreamStays
  BY <1>1, <1>5 DEF LaneAt, LaneStays, StreamStays
<1>6. CASE QuietStep
  BY <1>5, <1>6, QuietStays DEF ChatTyped, Quiet
<1>7. ASSUME NEW c \in Ids, AnswerStep(c) PROVE LaneStays /\ StreamStays
  BY <1>7, StreamMoves DEF AnswerStep
<1>8. ASSUME NEW c \in Ids, RecorderStep(c) PROVE LaneStays /\ StreamStays
  <2>1. ~RequestLands(c) /\ ~RequestFails(c)
    <3>1. RequestLands(c) \/ RequestFails(c) => LaneAt(c)
      BY DEF RequestLands, RequestFails, LaneFits
    <3> QED BY <1>3, <3>1
  <2>2. ~RecorderRecords(c)
    BY <1>1, <1>3 DEF RecorderRecords, Persisted
  <2>3. ~RecorderGoesOn(c)
    BY <1>3, <1>4 DEF RecorderGoesOn
  <2>4. PersistCallFails(c) => ~LaneAt(c)
    BY <1>1, <1>3 DEF PersistCallFails, Persisted
  <2>5. PersistCallFails(c)
    BY <1>8, <2>1, <2>2, <2>3 DEF RecorderStep
  <2> QED BY <2>4, <2>5, RecorderMoves DEF LaneStays
<1>9. CASE Emit
  <2>1. /\ chat'.emitted = chat.emitted + 1 /\ chat'.lane = chat.lane /\ StreamStays
        /\ chat'.laneDown = FALSE
    BY <1>2, <1>9, StreamMoves
  <2>2. d = chat'.lane + 1 /\ d <= chat'.emitted
    BY <1>2, <2>1
  <2>3. chat'.stream \in {"open", "draining"}
    BY <1>2, <2>1 DEF StreamStays
  <2> QED BY <2>1, <2>2, <2>3 DEF LaneAt
<1>10. ~Drained
  <2>1. chat.lane # chat.emitted
    BY <1>2
  <2> QED BY <1>2, <2>1, StreamMoves
<1>11. ~Close /\ ~Resume /\ ~BeginTurn
  BY <1>2, StreamMoves
<1>12. CASE (\E stop \in BOOLEAN : StreamEnds(stop)) \/ (\E c \in Ids : SdkExecutes(c))
  <2>1. LaneStays /\ chat'.stream \in {"open", "draining"}
    BY <1>12, StreamMoves
  <2> QED BY <1>1, <2>1 DEF LaneAt, LaneStays
<1> QED BY <1>5, <1>6, <1>7, <1>8, <1>9, <1>10, <1>11, <1>12, StepKinds DEF StreamStep

\* Requests are made in the recorder's lane.
LEMMA LaneFitsStep ==
  ASSUME XInv, ChatTyped, LaneFits, XNext
  PROVE  LaneFits'
<1>1. ASSUME NEW c \in Ids, Asked(c)'
      PROVE  c <= chat'.emitted /\ (c <= chat'.lane \/ chat'.laneDown)
  <2>0. chat.emitted \in Nat /\ chat.lane \in 0 .. chat.emitted /\ c \in Nat
    BY DEF ChatTyped, Ids
  <2>1. CASE RequestLands(c) \/ RequestFails(c)
    <3>1. LaneAt(c)
      BY <2>1 DEF RequestLands, RequestFails, LaneFits
    <3>2. c <= chat.emitted
      BY <3>1 DEF LaneAt
    <3>3. chat'.emitted = chat.emitted /\ (chat'.lane = c \/ chat'.laneDown)
      BY <2>1, RecorderMoves
    <3> QED BY <2>0, <3>2, <3>3
  <2>2. CASE ~(RequestLands(c) \/ RequestFails(c))
    <3>1. Asked(c)
      BY <1>1, <2>2, HistoryLeaves
    <3>2. c <= chat.emitted /\ (c <= chat.lane \/ chat.laneDown)
      BY <3>1 DEF LaneFits
    <3>3. chat'.emitted \in Nat /\ chat'.lane \in 0 .. chat'.emitted
      BY ChatTypedStep DEF ChatTyped
    <3>4. /\ chat'.emitted >= chat.emitted
          /\ \/ chat'.lane = chat'.emitted
             \/ chat'.lane >= chat.lane /\ (chat.laneDown => chat'.laneDown)
      BY LaneForward
    <3>5. c <= chat'.emitted
      BY <2>0, <3>2, <3>3, <3>4
    <3>6. chat'.lane >= chat.lane /\ c <= chat.lane => c <= chat'.lane
      BY <2>0, <3>3
    <3> QED BY <3>2, <3>4, <3>5, <3>6
  <2> QED BY <2>1, <2>2
<1>2. ASSUME NEW c \in Ids, ex'.appr[c] # None, ex'.appr[c].request = "pending"
      PROVE  LaneAt(c)' /\ Persisted(c)' /\ ~Asked(c)'
  <2>0. Memory
    BY DEF XInv
  <2>1. ~Crash
    BY <1>2 DEF Crash, NoMemory
  <2>2. ~RequestLands(c) /\ ~RequestFails(c)
    BY <1>2, <2>0, ApprovalMoves
  <2>3. Asked(c)' => Asked(c)
    BY <2>2, HistoryLeaves
  <2>4. CASE ex.appr[c] # None /\ ex.appr[c].request = "pending"
    BY <2>1, <2>2, <2>3, <2>4, LaneWaits, OwnerMoves DEF LaneFits
  <2>5. CASE RecorderGoesOn(c) /\ tool[c].asks
    <3>1. LaneAt(c) /\ Persisted(c)
      BY <2>5 DEF RecorderGoesOn
    <3>2. ~Asked(c)
      BY <3>1 DEF LaneFits, LaneAt, ChatTyped, Ids
    <3>3. LaneStays /\ StreamStays
      BY <2>5, RecorderMoves DEF LaneStays
    <3>4. LaneAt(c)'
      BY <3>1, <3>3 DEF LaneAt, LaneStays, StreamStays
    <3> QED BY <2>1, <2>3, <3>1, <3>2, <3>4, OwnerMoves
  <2>6. \/ ex.appr[c] # None /\ ex.appr[c].request = "pending"
        \/ RecorderGoesOn(c) /\ tool[c].asks
    <3>1. ApprMove(c)
      BY <2>1, ApprMoves
    <3> QED BY <1>2, <2>2, <3>1, ApprovalMoves, <2>0 DEF ApprMove, DecisionTold, DecisionLands, DecisionFails, Deciding
  <2> QED BY <2>4, <2>5, <2>6
<1> QED BY <1>1, <1>2 DEF LaneFits

\* The user's answer to c: begun, acted on, published, or gone with the turn.
LEMMA RespMoves ==
  ASSUME ChatTyped, XNext, NEW c \in Ids
  PROVE  \/ chat'.resp[c] = chat.resp[c] /\ ~Crash
         \/ chat'.resp[c] = None
         \/ Act(c) /\ chat'.resp[c] = "acting"
         \/ Publish(c) /\ chat'.resp[c] = "done"
         \/ \E out \in {"yes", "no"} : Respond(c, out) /\ chat'.resp[c] = out
<1> DEFINE Goal ==
      \/ chat'.resp[c] = chat.resp[c] /\ ~Crash
      \/ chat'.resp[c] = None
      \/ Act(c) /\ chat'.resp[c] = "acting"
      \/ Publish(c) /\ chat'.resp[c] = "done"
      \/ \E out \in {"yes", "no"} : Respond(c, out) /\ chat'.resp[c] = out
<1> SUFFICES Goal
  OBVIOUS
<1>0. ChatShape /\ chat.resp \in [Ids -> {None, "yes", "no", "acting", "done"}]
  BY DEF ChatTyped
<1>1. CASE BeginTurn \/ Crash
  BY <1>1, StreamMoves
<1>2. CASE chat'.resp = chat.resp
  BY <1>1, <1>2
<1>3. CASE QuietStep
  BY <1>0, <1>2, <1>3, QuietStays DEF Quiet
<1>4. ASSUME NEW d \in Ids, RecorderStep(d) PROVE chat'.resp = chat.resp
  BY <1>4, RecorderMoves DEF RecorderStep
<1>5. ASSUME NEW d \in Ids, AnswerStep(d) PROVE Goal
  <2>1. CASE d # c
    <3>1. \E x : chat'.resp = [chat.resp EXCEPT ![d] = x]
      BY <1>5, StreamMoves DEF AnswerStep
    <3>2. chat'.resp[c] = chat.resp[c]
      BY <1>0, <2>1, <3>1
    <3> QED BY <1>1, <3>2
  <2>2. CASE d = c
    <3>1. Act(c) => chat'.resp = [chat.resp EXCEPT ![c] = "acting"]
      BY StreamMoves
    <3>2. Publish(c) => chat'.resp = [chat.resp EXCEPT ![c] = "done"]
      BY StreamMoves
    <3>3. \A out : Respond(c, out) => chat'.resp = [chat.resp EXCEPT ![c] = out]
      BY StreamMoves
    <3>4. \A x : [chat.resp EXCEPT ![c] = x][c] = x
      BY <1>0
    <3> QED BY <1>5, <2>2, <3>1, <3>2, <3>3, <3>4 DEF AnswerStep
  <2> QED BY <2>1, <2>2
<1>6. CASE StreamStep /\ ~BeginTurn /\ ~Crash
  <2>1. chat'.resp = chat.resp
    BY <1>6, StreamMoves DEF StreamStep
  <2> QED BY <1>2, <2>1
<1> HIDE DEF Goal
<1> QED BY <1>1, <1>2, <1>3, <1>4, <1>5, <1>6, StepKinds

\* An answer is a result that is stored.
LEMMA AnsweredStored ==
  ASSUME XInv, NEW c \in Ids, Answered(c)
  PROVE  disk.stored[c] # None
<1> DEFINE i == ex.owner[c].place
<1>1. ex.owner[c] # None /\ outcome[i] = "resolved"
  BY DEF Answered
<1>2. /\ ex.reg[c] # None /\ i = ex.reg[c].place /\ ex.reg[c] \in Registrations
      /\ ex.callOf[ex.reg[c].place] = c
  BY <1>1 DEF XInv, Memory, Typed, OwnersFit, PlacesFit
<1>3. i \in Calls /\ ex.callOf[i] = c
  BY <1>2 DEF Registrations
<1> HIDE DEF i
<1> QED BY <1>1, <1>3 DEF XInv, Memory, AnswersFit

\* The decision that lands is the one the executor was given.
LEMMA DecisionLandsTold ==
  ASSUME Faithful(disk), NEW c \in Ids, DecisionLands(c)
  PROVE  disk'.told[c] = ex.appr[c].out
<1>1. /\ With(Decision(c)) = [v |-> Apply(disk.v, Decision(c)), told |-> disk.told,
                              stored |-> disk.stored]
      /\ disk.told \in [Ids -> Outs \cup {None}]
  BY WithIsDisk DEF Faithful, IsDisk
<1> DEFINE x == ex.appr[c].out
           v == Apply(disk.v, Decision(c))
<1>2. disk' = [With(Decision(c)) EXCEPT !.told[c] = x]
  BY DEF DecisionLands
<1> HIDE DEF x, v
<1>3. disk' = [v |-> v, told |-> [disk.told EXCEPT ![c] = x], stored |-> disk.stored]
  BY <1>1, <1>2 DEF v
<1> QED BY <1>1, <1>3 DEF x

\* Decisions, the user's answers and what the history keeps of them agree.
LEMMA ToldFitsStep ==
  ASSUME XInv, ChatTyped, Apart, LaneFits, ToldFits, ~UserWrites, XNext
  PROVE  ToldFits'
<1>0. Memory /\ Faithful(disk) /\ Sound(disk.v) /\ Grown(disk, disk')
  BY HistoryStep DEF XInv, Faithful
<1>1. ASSUME NEW c \in Ids, ex'.appr[c] # None, ex'.appr[c].st = "ok"
      PROVE  disk'.told[c] = ex'.appr[c].out
  <2>0. ~Crash
    BY <1>1 DEF Crash, NoMemory
  <2>1. ASSUME ex.appr[c] # None, ex.appr[c].st = "ok", ex'.appr[c].out = ex.appr[c].out
        PROVE  disk'.told[c] = ex'.appr[c].out
    <3>1. disk.told[c] = ex.appr[c].out /\ ex.appr[c].out # None
      BY <1>0, <2>1 DEF ToldFits, Memory, ApprovalsFit
    <3> QED BY <1>0, <2>1, <3>1 DEF Grown
  <2>2. CASE DecisionLands(c) /\ ex'.appr[c].out = ex.appr[c].out
    BY <1>0, <2>2, DecisionLandsTold
  <2>3. ASSUME NEW out \in Outs, DecisionTold(c, out)
        PROVE  disk'.told[c] = ex'.appr[c].out
    <3>1. /\ Approval(c) # None /\ Approval(c).st = "ok" /\ Approval(c).out = out
          /\ disk' = disk /\ ex'.appr[c].out = out
      BY <1>1, <2>3 DEF DecisionTold, MayDecide
    <3>2. CASE ex.appr[c] # None \/ ~Asked(c)
      BY <3>1, <3>2 DEF Approval, ToldFits
    <3>3. CASE ~(ex.appr[c] # None \/ ~Asked(c))
      <4>1. Approval(c) = [request |-> "ok", out |-> disk.told[c],
                           st |-> IF disk.told[c] = None THEN "none" ELSE "ok"]
        BY <3>3 DEF Approval
      <4> QED BY <3>1, <4>1
    <3> QED BY <3>2, <3>3
  <2>4. CASE RequestLands(c)
    <3>1. /\ ex.appr[c] # None /\ ex'.appr[c].out = ex.appr[c].out
          /\ ex'.appr[c].st = ex.appr[c].st
      BY <1>0, <2>4, ApprovalMoves
    <3> QED BY <1>1, <2>1, <3>1
  <2>5. ApprMove(c)
    BY <2>0, ApprMoves
  <2> QED BY <1>1, <2>1, <2>2, <2>3, <2>4, <2>5 DEF ApprMove
<1>2. ASSUME NEW c \in Ids, chat'.resp[c] \in {"yes", "no"}
      PROVE  Asked(c)' /\ ex'.appr[c] # None /\ ex'.appr[c].out = chat'.resp[c]
  <2>1. CASE chat'.resp[c] = chat.resp[c] /\ ~Crash
    <3>1. Asked(c) /\ ex.appr[c] # None /\ ex.appr[c].out = chat.resp[c]
      BY <1>2, <2>1 DEF ToldFits
    <3>2. Asked(c)'
      BY <3>1, HistoryLeaves
    <3>3. ~RequestFails(c)
      BY <3>1 DEF RequestFails, LaneFits
    <3>4. ASSUME NEW out \in Outs, DecisionTold(c, out)
          PROVE  ex'.appr[c] # None /\ ex'.appr[c].out = chat.resp[c]
      <4>1. /\ Approval(c) = ex.appr[c] /\ Approval(c).out \in {None, out}
            /\ ex'.appr[c] # None /\ ex'.appr[c].out = out
        BY <3>1, <3>4 DEF DecisionTold, MayDecide, Approval
      <4>2. chat.resp[c] # None
        BY <1>2, <2>1, Defined, ToolsAssumption DEF Outs
      <4> QED BY <3>1, <4>1, <4>2
    <3>5. ApprMove(c) /\ ex'.appr[c] # None
      BY <2>1, <3>1, <3>3, ApprMoves
    <3>6. ex'.appr[c].out = chat.resp[c]
      BY <3>1, <3>4, <3>5 DEF ApprMove
    <3> QED BY <2>1, <3>2, <3>5, <3>6
  <2>2. ASSUME NEW out \in {"yes", "no"}, Respond(c, out), chat'.resp[c] = out
        PROVE  Asked(c)' /\ ex'.appr[c] # None /\ ex'.appr[c].out = chat'.resp[c]
    <3>1. /\ Suspended /\ c \in disk.v.suspension.callIds /\ MayDecide(c, out)
          /\ ex' = Decided(ex, c, out) /\ disk' = disk
      BY <2>2 DEF Respond
    <3>2. Asked(c)
      BY <1>0, <3>1 DEF Sound, Suspended, Asked
    <3>3. out \in Outs
      BY DEF Outs
    <3>4. DecisionTold(c, out)
      BY <1>0, <3>1, <3>3, DecidedMoves
    <3> QED BY <2>2, <3>1, <3>2, <3>4 DEF DecisionTold, Asked
  <2>3. chat'.resp[c] # None
    BY <1>2, ToolsAssumption DEF Outs
  <2> QED BY <1>2, <2>1, <2>2, <2>3, RespMoves
<1>3. ASSUME NEW c \in Ids, chat'.resp[c] # None
      PROVE  disk'.stored[c] # None \/ Awaited(c)'
  <2>1. CASE chat.resp[c] # None
    <3>1. disk.stored[c] # None \/ Awaited(c)
      BY <2>1 DEF ToldFits
    <3>2. disk.stored[c] # None => disk'.stored[c] # None
      BY <1>0 DEF Grown
    <3> QED BY <3>1, <3>2, AwaitedStays
  <2>2. CASE \E out \in {"yes", "no"} : Respond(c, out)
    BY <2>2 DEF Respond, Awaited, Suspended
  <2>3. Act(c) => chat.resp[c] # None
    BY ToolsAssumption DEF Act, Outs
  <2>4. Publish(c) => disk.stored[c] # None
    BY AnsweredStored DEF Publish
  <2>5. disk.stored[c] # None => disk'.stored[c] # None
    BY <1>0 DEF Grown
  <2> QED BY <1>3, <2>1, <2>2, <2>3, <2>4, <2>5, RespMoves
<1>4. ASSUME NEW c \in Ids, chat'.resp[c] = "done"
      PROVE  disk'.stored[c] # None
  <2>1. disk.stored[c] # None => disk'.stored[c] # None
    BY <1>0 DEF Grown
  <2>2. CASE Publish(c)
    <3>1. Answered(c)
      BY <2>2 DEF Publish
    <3> QED BY <2>1, <3>1, AnsweredStored
  <2>3. CASE chat.resp[c] = "done"
    BY <2>1, <2>3 DEF ToldFits
  <2>4. None # "done"
    BY ToolsAssumption DEF Answers
  <2> QED BY <1>4, <2>2, <2>3, <2>4, RespMoves
<1> QED BY <1>1, <1>2, <1>3, <1>4 DEF ToldFits

\* What the SDK executes while the stream is open it executes until the stream ends.
LEMMA SdkStays ==
  ASSUME ChatTyped, XNext, NEW c \in chat.sdk, chat.stream = "open"
  PROVE  \/ chat'.stream = "open" /\ c \in chat'.sdk
         \/ Crash \/ \E stop \in BOOLEAN : StreamEnds(stop)
<1>1. CASE StreamStays
  BY <1>1 DEF StreamStays
<1>2. CASE QuietStep
  BY <1>1, <1>2, QuietStays DEF ChatTyped, Quiet
<1>3. ASSUME NEW d \in Ids, RecorderStep(d) PROVE StreamStays
  BY <1>3, RecorderMoves DEF RecorderStep
<1>4. ASSUME NEW d \in Ids, AnswerStep(d) PROVE StreamStays
  BY <1>4, StreamMoves DEF AnswerStep
<1>5. ~Drained /\ ~Close /\ ~Resume /\ ~BeginTurn
  BY StreamMoves
<1>6. Emit => StreamStays
  BY StreamMoves
<1>7. ASSUME NEW d \in Ids, SdkExecutes(d) PROVE chat'.stream = "open" /\ c \in chat'.sdk
  BY <1>7, StreamMoves
<1> QED BY <1>1, <1>2, <1>3, <1>4, <1>5, <1>6, <1>7, StepKinds DEF StreamStep

\* A record that rejected does so because the scheduler failed.
LEMMA RejectedFailed ==
  ASSUME XInv, NEW c \in Ids, ex.owner[c] # None, ~Live(c)
  PROVE  failed
<1>1. ex.owner[c] \in Owners /\ outcome[ex.owner[c].place] = "rejected"
  BY DEF Live, XInv, Memory, Typed
<1>2. ex.owner[c].place \in Calls
  BY <1>1 DEF Owners
<1> QED BY <1>1, <1>2 DEF XInv, IInv, CommitInv

\* Bodies are run for calls that were approved, if they asked, and for callers that
\* wait for them.
LEMMA RunsFitStep ==
  ASSUME XInv, ChatTyped, Apart, LaneFits, ToldFits, RunsFit, ~UserWrites, XNext
  PROVE  RunsFit'
<1>0. Memory /\ Faithful(disk) /\ Grown(disk, disk') /\ tool' = tool
  BY HistoryStep, ToolStays DEF XInv
<1> SUFFICES ASSUME NEW c \in Ids, ex'.owner[c] # None
             PROVE  /\ ex'.owner[c].op # "complete" /\ tool'[c].asks => disk'.told[c] = "yes"
                    /\ ex'.owner[c].op = "run" =>
                         failed' \/ disk'.stored[c] # None \/ (chat'.stream = "open" /\ c \in chat'.sdk)
                    /\ ex'.owner[c].op = "execute" => disk'.stored[c] # None \/ Awaited(c)'
  BY DEF RunsFit
<1> DEFINE Goal == /\ ex'.owner[c].op # "complete" /\ tool'[c].asks => disk'.told[c] = "yes"
                   /\ ex'.owner[c].op = "run" =>
                        failed' \/ disk'.stored[c] # None \/ (chat'.stream = "open" /\ c \in chat'.sdk)
                   /\ ex'.owner[c].op = "execute" => disk'.stored[c] # None \/ Awaited(c)'
<1> SUFFICES Goal
  OBVIOUS
<1>1. ~Crash
  BY DEF Crash, NoMemory
<1>2. /\ disk.stored[c] # None => disk'.stored[c] # None
      /\ disk.told[c] = "yes" => disk'.told[c] = "yes"
  BY <1>0, ToolsAssumption DEF Grown, Outs
<1>3. disk.stored[c] # None \/ Awaited(c) => disk'.stored[c] # None \/ Awaited(c)'
  BY <1>2, AwaitedStays
<1>4. ASSUME ex.owner[c] # None, ex'.owner[c].op = ex.owner[c].op
      PROVE  Goal
  <2>1. /\ ex.owner[c].op # "complete" /\ tool[c].asks => disk.told[c] = "yes"
        /\ ex.owner[c].op = "run" =>
             failed \/ disk.stored[c] # None \/ (chat.stream = "open" /\ c \in chat.sdk)
        /\ ex.owner[c].op = "execute" => disk.stored[c] # None \/ Awaited(c)
    BY <1>4 DEF RunsFit
  <2>2. ASSUME NEW stop \in BOOLEAN, StreamEnds(stop), c \in chat.sdk, ex.owner[c].op = "run"
        PROVE  failed \/ disk.stored[c] # None
    <3>1. ~stop
      BY <1>0, <1>4, <2>2, RunMoves
    <3>2. Answered(c) \/ ~Live(c)
      BY <2>2, <3>1 DEF StreamEnds
    <3> QED BY <1>4, <3>2, AnsweredStored, RejectedFailed
  <2>3. failed => failed'
    BY <1>1, FailedStays
  <2>4. ASSUME ex.owner[c].op = "run", chat.stream = "open", c \in chat.sdk
        PROVE  failed' \/ disk'.stored[c] # None \/ (chat'.stream = "open" /\ c \in chat'.sdk)
    BY <1>1, <1>2, <2>2, <2>3, <2>4, SdkStays
  <2> QED BY <1>0, <1>2, <1>3, <1>4, <2>1, <2>3, <2>4
<1>5. CASE /\ ex.owner[c] # None /\ ex.owner[c].op = "run" /\ ex'.owner[c].op = "aborted"
  <2>1. tool[c].asks => disk.told[c] = "yes"
    BY <1>5 DEF RunsFit
  <2> QED BY <1>0, <1>2, <1>5, <2>1
<1>6. CASE SdkExecutes(c) /\ ex'.owner[c].op = "run"
  <2>1. chat'.stream = "open" /\ c \in chat'.sdk
    BY <1>6, StreamMoves
  <2>2. tool[c].asks => disk.told[c] = "yes"
    BY <1>6 DEF SdkExecutes
  <2> QED BY <1>0, <1>2, <1>6, <2>1, <2>2
<1>7. CASE Act(c) /\ chat.resp[c] = "yes" /\ ex'.owner[c].op = "execute"
  <2>1. ex.appr[c] # None /\ ex.appr[c].st = "ok" /\ ex.appr[c].out = "yes"
    BY <1>7 DEF Act, ToldFits
  <2>2. disk.told[c] = "yes"
    BY <2>1 DEF ToldFits
  <2>3. chat.resp[c] # None
    BY <1>7, ToolsAssumption DEF Outs
  <2>4. disk.stored[c] # None \/ Awaited(c)
    BY <2>3 DEF ToldFits
  <2> QED BY <1>2, <1>3, <1>7, <2>2, <2>4
<1>8. CASE ex'.owner[c].op = "complete"
  BY <1>8
<1>9. OwnerMove(c)
  BY <1>1, OwnerMoves
<1> HIDE DEF Goal
<1>10. \/ ex.owner[c] # None /\ ex'.owner[c].op = ex.owner[c].op
       \/ ex.owner[c] # None /\ ex.owner[c].op = "run" /\ ex'.owner[c].op = "aborted"
       \/ SdkExecutes(c) /\ ex'.owner[c].op = "run"
       \/ Act(c) /\ chat.resp[c] = "yes" /\ ex'.owner[c].op = "execute"
       \/ ex'.owner[c].op = "complete"
  BY <1>9 DEF OwnerMove
<1> QED BY <1>4, <1>5, <1>6, <1>7, <1>8, <1>10

\* Without a failure, no call has a result while its body is to start: not by a
\* commit, and not by the repair that follows a stream the history did not take.
LEMMA QueuedStays ==
  ASSUME XInv, Apart, RunsFit, XNext, ~Crash, ~failed', ~failed,
         NEW p \in DOMAIN ex.callOf, phase[p] = "queued",
         NEW c \in Ids, c = ex.callOf[p], disk.stored[c] = None,
         ex.owner[c] # None, ex.owner[c].op \notin {"complete", "aborted"}
  PROVE  disk'.stored[c] = None
<1>0. Memory /\ Faithful(disk)
  BY DEF XInv
<1>1. ~CommitFails
  BY DEF CommitFails, CommitThrows, Fail
<1>2. CASE CommitLands
  <2> DEFINE n == nextCommit
             k == ex.callOf[n]
             e == Result(k, None)
             x == ex.produced[n]
  <2>1. committing
    BY <1>2 DEF CommitLands, CommitResolves
  <2>2. Ready(phase, n) /\ n \in Calls
    BY <2>1, CommittedNext
  <2>3. Given(n) /\ Given(p)
    BY <2>2 DEF Ready, Given
  <2>4. k # c
    <3>1. n \in DOMAIN ex.callOf
      BY <1>0, <2>2, <2>3, PlaceTaken DEF Memory
    <3>2. p # n
      BY <2>2 DEF Ready
    <3> QED BY <1>0, <2>3, <3>1, <3>2 DEF Memory, PlacesFit
  <2>5. disk' = disk \/ disk' = [With(e) EXCEPT !.stored[k] = x]
    BY <1>2 DEF CommitLands
  <2>6. With(e) = [v |-> Apply(disk.v, e), told |-> disk.told, stored |-> disk.stored]
    BY <1>0, WithIsDisk
  <2>7. disk.stored \in [Ids -> Answers \cup {None}]
    BY <1>0 DEF Faithful, IsDisk
  <2> HIDE DEF k, e, x, n
  <2>8. disk' = [With(e) EXCEPT !.stored[k] = x] =>
          disk'.stored = [disk.stored EXCEPT ![k] = x]
    BY <2>6
  <2> QED BY <2>4, <2>5, <2>7, <2>8
<1>3. ~Close
  <2>1. Close => chat.stream = "closing"
    BY DEF Close
  <2>2. ex.owner[c].op \in {"run", "execute"}
    BY <1>0 DEF Memory, Typed, Owners
  <2>3. (chat.stream = "open" /\ c \in chat.sdk) \/ Awaited(c)
    BY <2>2 DEF RunsFit
  <2> QED BY <2>1, <2>3 DEF Apart, Awaited
<1> QED BY <1>1, <1>2, <1>3, HistoryLeaves

\* What has an outcome has a record, and what is to start may start.
LEMMA BodiesFitStep ==
  ASSUME XInv, Apart, RunsFit, BodiesFit, XNext
  PROVE  BodiesFit'
<1>0. Memory /\ Faithful(disk)
      /\ \A q \in DOMAIN ex.callOf : q \in Calls /\ ex.callOf[q] \in Ids
  BY PlaceTaken DEF XInv, Memory
<1> SUFFICES ASSUME ~failed', NEW p \in DOMAIN ex'.callOf, Given(p)', NEW c, c = ex'.callOf[p]
             PROVE  /\ ex'.owner[c] # None /\ ex'.owner[c].pc = "scheduled"
                    /\ phase'[p] = "queued" =>
                         /\ ex'.owner[c].op # "complete"
                         /\ ex'.owner[c].op = "aborted" \/ disk'.stored[c] = None
  BY DEF BodiesFit
<1>1. ~Crash
  <2>1. Crash => DOMAIN ex'.callOf = {}
    BY DEF Crash, NoMemory
  <2> QED BY <2>1
<1>2. ~failed
  BY <1>1, FailedStays
<1>3. p \in DOMAIN ex.callOf /\ c = ex.callOf[p] /\ PlaceMove(p) /\ c \in Ids
  BY <1>0, <1>1, PlaceMoves DEF Given
<1>4. OwnerMove(c)
  BY <1>1, <1>3, OwnerMoves
<1>5. CASE Given(p) /\ (phase'[p] = "queued" => phase[p] = "queued")
  <2>1. /\ ex.owner[c] # None /\ ex.owner[c].pc = "scheduled"
        /\ phase[p] = "queued" =>
             ex.owner[c].op # "complete" /\ (ex.owner[c].op = "aborted" \/ disk.stored[c] = None)
    BY <1>2, <1>3, <1>5 DEF BodiesFit
  <2>2. Persisted(c)
    BY <1>0, <1>3, <1>5 DEF Memory, PlacesFit, Persisted
  <2>3. Live(c)
    BY <1>2, <1>3, <2>1, RejectedFailed
  <2>4. /\ ex'.owner[c] # None /\ ex'.owner[c].pc = "scheduled"
        /\ ex'.owner[c].op \in {ex.owner[c].op, "aborted"}
    BY <1>4, <2>1, <2>2, <2>3 DEF OwnerMove
  <2>5. ASSUME phase'[p] = "queued"
        PROVE  /\ ex'.owner[c].op # "complete"
               /\ ex'.owner[c].op = "aborted" \/ disk'.stored[c] = None
    <3>1. phase[p] = "queued"
      BY <1>5, <2>5
    <3>2. CASE ex'.owner[c].op = "aborted"
      BY <3>2
    <3>3. CASE ex'.owner[c].op # "aborted"
      <4>1. /\ ex'.owner[c].op = ex.owner[c].op /\ disk.stored[c] = None
            /\ ex.owner[c].op \notin {"complete", "aborted"}
        BY <2>1, <2>4, <3>1, <3>3
      <4>2. disk'.stored[c] = None
        BY <1>1, <1>2, <1>3, <2>1, <3>1, <4>1, QueuedStays
      <4> QED BY <4>1, <4>2
    <3> QED BY <3>2, <3>3
  <2> QED BY <2>4, <2>5
<1>6. CASE /\ Schedule(c)
           /\ phase'[p] \in {"queued", "running"} =>
                ex.owner[c].op # "complete" /\ disk.stored[c] = None
  <2>1. /\ ex'.owner[c] # None /\ ex'.owner[c].pc = "scheduled"
        /\ ex'.owner[c].op = ex.owner[c].op
    BY <1>0, <1>3, <1>6, ScheduleMoves
  <2>2. disk' = disk
    BY <1>6 DEF Schedule
  <2> QED BY <1>6, <2>1, <2>2
<1> QED BY <1>3, <1>5, <1>6 DEF PlaceMove

------------------------------------------------------------------------------
(* The invariant of executor and callers. *)

\* It holds before anybody called.
LEMMA CallersInit ==
  XInit => Callers
<1> SUFFICES ASSUME XInit PROVE Callers
  OBVIOUS
<1>1. /\ chat = NoChat(0, [c \in Ids |-> None]) /\ ex = NoMemory
      /\ disk = [v |-> Fresh, told |-> [c \in Ids |-> None], stored |-> [c \in Ids |-> None]]
  BY DEF XInit
<1>2. /\ ChatShape /\ chat.stream = "off" /\ chat.emitted = 0 /\ chat.lane = 0
      /\ chat.laneDown = FALSE /\ chat.resp = [c \in Ids |-> None]
  BY <1>1 DEF NoChat, ChatShape
<1>3. /\ ex.appr = [c \in Ids |-> None] /\ ex.owner = [c \in Ids |-> None] /\ ex.callOf = <<>>
  BY <1>1 DEF NoMemory
<1>4. DOMAIN ex.callOf = {}
  BY <1>3
<1>5. \A c \in Ids : ~Asked(c)
  BY <1>1 DEF Asked, Fresh, NoMap
<1>6. \A c \in Ids : chat.resp[c] = None /\ None \notin {"yes", "no", "done"}
  BY <1>2, ToolsAssumption DEF Outs, Answers
<1>7. ChatTyped
  <2>1. chat.laneDown \in BOOLEAN
    BY <1>2, Zenon
  <2>2. chat.emitted \in Nat /\ chat.lane \in 0 .. chat.emitted
    BY <1>2
  <2>3. chat.resp \in [Ids -> {None, "yes", "no", "acting", "done"}]
    BY <1>2
  <2> QED BY <1>2, <2>1, <2>2, <2>3 DEF ChatTyped
<1>8. Apart
  BY <1>2 DEF Apart
<1>9. LaneFits
  BY <1>3, <1>5 DEF LaneFits
<1>10. ToldFits
  BY <1>3, <1>6 DEF ToldFits
<1>11. RunsFit
  BY <1>3 DEF RunsFit
<1>12. BodiesFit
  BY <1>4 DEF BodiesFit
<1> QED BY <1>7, <1>8, <1>9, <1>10, <1>11, <1>12 DEF Callers

\* Every step keeps it, the user's and a crash included.
LEMMA CallersStep ==
  ASSUME ~UserWrites
  PROVE  XInv /\ Callers /\ [XNext]_xvars => Callers'
<1> SUFFICES ASSUME XInv, Callers, [XNext]_xvars PROVE Callers'
  OBVIOUS
<1>1. CASE XNext
  BY <1>1, ChatTypedStep, ApartStep, LaneFitsStep, ToldFitsStep, RunsFitStep, BodiesFitStep
     DEF Callers
<1>2. CASE UNCHANGED xvars
  <2>1. /\ phase' = phase /\ failed' = failed /\ UNCHANGED <<tool, disk, ex, chat, seen>>
    BY <1>2 DEF xvars, vars
  <2>2. ChatTyped' /\ Apart'
    BY <2>1 DEF Callers, ChatTyped, ChatShape, Apart, Suspended
  <2>3. LaneFits'
    BY <2>1 DEF Callers, LaneFits, LaneAt, Persisted, Asked
  <2>4. ToldFits' /\ RunsFit'
    BY <2>1 DEF Callers, ToldFits, RunsFit, Asked, Awaited, Suspended
  <2>5. BodiesFit'
    BY <2>1 DEF Callers, BodiesFit, Given
  <2> QED BY <2>2, <2>3, <2>4, <2>5 DEF Callers
<1> QED BY <1>1, <1>2

\* A body begins in the step that gives its place an outcome, or was queued before,
\* and only while the scheduler did not fail.
LEMMA PumpBegins ==
  ASSUME IInv, NEW i \in Calls, NEW p \in Calls, phase[p] # "running", phase'[p] = "running",
         Execute(i) \/ Complete(i) \/ BodySettles(i)
  PROVE  ~failed /\ (phase[p] = "queued" \/ (p = i /\ Execute(i)))
<1>0. phase \in [Calls -> Phases]
  BY DEF IInv, TypeOK
<1>1. ASSUME NEW x \in {"queued", "completed", "settled"}, NEW safe, NEW exclusive,
             Pump([phase EXCEPT ![i] = x], safe, exclusive, failed)
      PROVE  ~failed /\ ((phase[p] = "queued" /\ p # i) \/ (p = i /\ x = "queued"))
  <2> DEFINE q == [phase EXCEPT ![i] = x]
             S == PumpStarts(q, safe, exclusive, failed)
  <2>1. phase'[p] = IF p \in S THEN "running" ELSE q[p]
    BY <1>1 DEF Pump
  <2>2. q[p] = IF p = i THEN x ELSE phase[p]
    BY <1>0
  <2>3. p \in S
    <3> HIDE DEF S, q
    <3> QED BY <2>1, <2>2
  <2>4. ~failed
    BY <2>3 DEF PumpStarts
  <2>5. StartsExclusive(q, p, safe) \/ StartsSafe(q, p, safe)
    <3> HIDE DEF q
    <3> QED BY <2>3 DEF PumpStarts
  <2>6. q[p] = "queued"
    <3> HIDE DEF q
    <3>1. StartsSafe(q, p, safe) => p \in SafeRun(q)
      BY DEF StartsSafe
    <3>2. p \in SafeRun(q) => q[p] = "queued"
      BY DEF SafeRun, Waiting, Calls
    <3> QED BY <2>5, <3>1, <3>2 DEF StartsExclusive
  <2> HIDE DEF q, S
  <2> QED BY <2>2, <2>4, <2>6
<1>2. CASE Execute(i)
  BY <1>1, <1>2 DEF Execute
<1>3. CASE Complete(i)
  <2>1. Pump([phase EXCEPT ![i] = "completed"], runningSafe, exclusiveRunning, failed)
    BY <1>3 DEF Complete
  <2> QED BY <1>1, <2>1
<1>4. CASE BodySettles(i)
  <2>1. Pump([phase EXCEPT ![i] = "settled"], SafeAfter(i), ExclusiveAfter(i), failed)
    BY <1>4 DEF BodySettles
  <2> QED BY <1>1, <2>1
<1> QED BY <1>2, <1>3, <1>4

\* A body that begins was queued, or is given to a scheduler that starts it at
\* once; either way its call is durable, approved and without a result.
LEMMA BegunOnRecord ==
  ASSUME XInv, Callers, XNext, NEW c \in Ids, seen'.starts[c] > seen.starts[c]
  PROVE  /\ Recorded(c) /\ disk.stored[c] = None
         /\ tool[c].asks => disk.told[c] = "yes"
<1>0. /\ Memory /\ IInv /\ Faithful(disk)
      /\ \A q \in DOMAIN ex.callOf : q \in Calls /\ ex.callOf[q] \in Ids
  BY PlaceTaken DEF XInv, Memory
<1>1. seen = [setting |-> seen.setting, starts |-> seen.starts, lost |-> seen.lost,
              life |-> seen.life, failures |-> seen.failures]
      /\ seen.starts \in [Ids -> Nat]
  BY <1>0 DEF Memory, Typed
<1>2. Counted /\ Effect(c)
  <2>1. Counted
    <3>1. seen'.starts # seen.starts
      BY <1>1
    <3>2. ASSUME seen' = seen \/ \E x : seen' = [seen EXCEPT !.failures = x]
          PROVE  FALSE
      BY <1>1, <3>1, <3>2
    <3>3. ~Crash
      <4>1. Crash => \E x, y : seen' = [seen EXCEPT !.life = x, !.lost = y]
        BY DEF Crash
      <4> QED BY <1>1, <3>1, <4>1
    <3>4. ASSUME NEW d \in Ids, PersistCall(d) \/ PersistCallFails(d) \/ ScheduleThrows(d)
                 \/ RequestLands(d) \/ RequestFails(d) \/ DecisionLands(d) \/ DecisionFails(d)
          PROVE  seen' = seen \/ \E x : seen' = [seen EXCEPT !.failures = x]
      BY <3>4 DEF PersistCall, PersistCallFails, ScheduleThrows, RequestLands, RequestFails,
                  DecisionLands, DecisionFails, Fails
    <3>5. CommitLands \/ CommitFails => seen' = seen \/ \E x : seen' = [seen EXCEPT !.failures = x]
      BY DEF CommitLands, CommitFails, Fails
    <3>6. Recorder => seen' = seen
      BY DEF Recorder, RecorderRecords, RecorderGoesOn
    <3>7. Closing => seen' = seen
      BY DEF Closing, Drained, CallClosed, Close, CancelledCall, StopCloses, CloseApproval,
             CloseCall, CancelApproval, CancelCall, Act, Publish
    <3>8. BeginTurn \/ Resume \/ Emit \/ StopSuspended => seen' = seen
      BY DEF BeginTurn, Resume, Emit, StopSuspended
    <3>9. (\E d \in Ids : SdkExecutes(d)) \/ (\E stop \in BOOLEAN : StreamEnds(stop))
          \/ (\E d \in Ids, out \in {"yes", "no"} : Respond(d, out)) => seen' = seen
      BY DEF SdkExecutes, StreamEnds, Respond
    <3>10. (\E q : Return(q)) => seen' = seen
      BY DEF Return
    <3>11. (\E d \in Ids : Schedule(d)) \/ (\E q : Settle(q)) => Counted
      BY DEF Schedule, Settle
    <3> QED BY <3>2, <3>3, <3>4, <3>5, <3>6, <3>7, <3>8, <3>9, <3>10, <3>11 DEF XNext, Executor
  <2> DEFINE w == [d \in Ids |-> IF Effect(d) THEN seen.starts[d] + 1 ELSE seen.starts[d]]
  <2>2. seen' = [seen EXCEPT !.starts = w]
    BY <2>1 DEF Counted
  <2>3. seen'.starts = w
    <3> HIDE DEF w
    <3> QED BY <1>1, <2>2
  <2>4. w[c] = IF Effect(c) THEN seen.starts[c] + 1 ELSE seen.starts[c]
    OBVIOUS
  <2> HIDE DEF w
  <2>5. Effect(c)
    <3>1. ~Effect(c) => seen'.starts[c] = seen.starts[c]
      BY <2>3, <2>4
    <3> QED BY <1>1, <3>1
  <2> QED BY <2>1, <2>5
<1>3. /\ ~(ex.owner[c] # None /\ ex.owner[c].op = "aborted")
      /\ \E p \in DOMAIN ex.callOf : ex.callOf[p] = c /\ Begun(p)
  BY <1>2 DEF Effect
<1>4. PICK p \in DOMAIN ex.callOf : ex.callOf[p] = c /\ phase[p] # "running" /\ phase'[p] = "running"
  BY <1>3 DEF Begun
<1>5. ~Crash
  BY <1>0, <1>4 DEF Crash
<1>6. \/ \E d \in Ids : Schedule(d)
      \/ \E i \in DOMAIN ex.callOf : Settle(i)
  <2>0. p \in Calls /\ phase \in [Calls -> Phases]
    BY <1>0 DEF IInv, TypeOK
  <2>1. phase' # phase
    BY <1>4
  <2>2. ASSUME NEW n, phase' = [phase EXCEPT ![n] = "registered"] PROVE FALSE
    BY <1>4, <2>0, <2>2
  <2>3. ASSUME NEW n, phase' = [phase EXCEPT ![n] = "settling"] PROVE FALSE
    BY <1>4, <2>0, <2>3
  <2>4. ASSUME NEW d \in Ids, Enters(d) PROVE FALSE
    BY <2>2, <2>4 DEF Enters, Register
  <2>5. \A d \in Ids : ~Joins(d)
    BY <2>1, <2>4 DEF Joins, SdkExecutes, CloseCall, CancelCall, Act, Called, vars
  <2>6. \A d \in Ids : ~RecorderRecords(d)
    BY <2>1, <2>4 DEF RecorderRecords, vars
  <2>7. \A i \in DOMAIN ex.callOf : ~Return(i)
    BY <2>3 DEF Return, BodyReturns
  <2> QED BY <1>5, <2>1, <2>5, <2>6, <2>7, PlacesStay
<1>7. /\ ex.owner[c] # None /\ ex.owner[c].op # "complete" /\ disk.stored[c] = None
      /\ Persisted(c)
  <2>1. ASSUME phase[p] = "queued", ~failed
        PROVE  /\ ex.owner[c] # None /\ ex.owner[c].op # "complete" /\ disk.stored[c] = None
               /\ Persisted(c)
    <3>1. Given(p)
      BY <2>1 DEF Given
    <3>2. Persisted(c)
      BY <1>0, <1>4, <3>1 DEF Memory, PlacesFit, Persisted
    <3> QED BY <1>3, <1>4, <2>1, <3>1, <3>2 DEF Callers, BodiesFit
  <2>2. CASE \E i \in DOMAIN ex.callOf : Settle(i)
    <3>1. PICK i \in DOMAIN ex.callOf : Settle(i)
      BY <2>2
    <3>2. BodySettles(i) /\ i \in Calls /\ p \in Calls
      BY <1>0, <3>1 DEF Settle
    <3>3. ~(Execute(i) /\ BodySettles(i))
      BY DEF Execute, BodySettles
    <3> QED BY <1>0, <1>4, <2>1, <3>2, <3>3, PumpBegins
  <2>3. CASE \E d \in Ids : Schedule(d)
    <3>1. PICK d \in Ids : Schedule(d)
      BY <2>3
    <3> DEFINE o == ex.owner[d]
               ready == o.op = "complete" \/ disk.stored[d] # None
    <3>2. /\ o # None /\ Persisted(d)
          /\ (IF ready THEN Complete(o.place) ELSE Execute(o.place))
      BY <3>1 DEF Schedule, DurableResult
    <3>3. /\ o \in Owners /\ o.place = ex.reg[d].place /\ ex.reg[d] # None
          /\ ex.callOf[ex.reg[d].place] = d
      BY <1>0, <3>2 DEF Memory, Typed, OwnersFit, PlacesFit
    <3>4. o.place \in Calls /\ p \in Calls /\ ex.callOf[o.place] = d
      BY <1>0, <3>3 DEF Owners
    <3> HIDE DEF o
    <3>5. ~failed /\ (phase[p] = "queued" \/ (p = o.place /\ Execute(o.place)))
      BY <1>0, <1>4, <3>2, <3>4, PumpBegins
    <3>6. CASE phase[p] = "queued"
      BY <2>1, <3>5, <3>6
    <3>7. CASE p = o.place /\ Execute(o.place)
      <4>1. d = c
        BY <1>4, <3>4, <3>7
      <4>2. ~ready
        <5>1. ASSUME ready PROVE FALSE
          <6>1. Complete(o.place)
            BY <3>2, <5>1
          <6>2. phase'[o.place] # "running"
            BY <1>0, <3>4, <6>1, CompleteMoves
          <6> QED BY <1>4, <3>7, <6>2
        <5> QED BY <5>1
      <4> QED BY <3>2, <4>1, <4>2 DEF o
    <3> QED BY <3>5, <3>6, <3>7
  <2> QED BY <1>6, <2>2, <2>3
<1>8. Recorded(c)
  BY <1>0, <1>7 DEF Memory, PlacesFit, Persisted
<1>9. tool[c].asks => disk.told[c] = "yes"
  BY <1>7 DEF Callers, RunsFit
<1> QED BY <1>7, <1>8, <1>9

------------------------------------------------------------------------------
(* The executor and its callers, in every state and step. *)

\* Nobody writes to a suspended chat: what the turn is resumed for has its
\* result, so that nothing the user answered runs a second time.
LEMMA CallersInvariance == ~UserWrites => (XSpec => [](XInv /\ Callers))
<1> SUFFICES ASSUME ~UserWrites PROVE XSpec => [](XInv /\ Callers)
  OBVIOUS
<1>1. XInit => XInv /\ Callers
  BY XInitInv, CallersInit
<1>2. XInv /\ Callers /\ [XNext]_xvars => (XInv /\ Callers)'
  BY XInvStep, CallersStep
<1> QED BY <1>1, <1>2, PTL DEF XSpec

\* A body begins only for a call that is durable, approved if it asked for
\* approval, and without a result ("It flushes each canonical call before its
\* side effect", README.md:6), as long as the user does not write to a suspended
\* chat; whatever crashes, fails and stops come between.
THEOREM BodiesRunOnRecord == ~UserWrites => (XSpec => RunsOnRecord)
<1> SUFFICES ASSUME ~UserWrites PROVE XSpec => RunsOnRecord
  OBVIOUS
<1> DEFINE A == \A c \in Ids : seen'.starts[c] > seen.starts[c] =>
                  /\ Recorded(c) /\ disk.stored[c] = None
                  /\ tool[c].asks => disk.told[c] = "yes"
<1>1. XInv /\ Callers /\ [XNext]_xvars => [A]_xvars
  BY BegunOnRecord
<1>2. XSpec => [](XInv /\ Callers)
  BY CallersInvariance
<1>3. XSpec => [][A]_xvars
  <2> HIDE DEF A
  <2> QED BY <1>1, <1>2, PTL DEF XSpec
<1> QED BY <1>3 DEF RunsOnRecord

------------------------------------------------------------------------------
(* As long as no append fails: the history takes what it is given. *)

\* While no append failed.
Calm == seen.failures = 0

\* The recorder, or an execution ahead of it, is about to record c in the open step.
Due(c) ==
  /\ chat.stream \in {"open", "draining"} /\ ~Recorded(c)
  /\ chat.lane < c /\ c <= chat.emitted

\* Calls are recorded once they are emitted, those of the stream in this life.
EntriesFit ==
  \A c \in Ids :
    /\ Recorded(c) => c <= chat.emitted
    /\ ex.appr[c] # None => Recorded(c)
    /\ c > chat.base /\ (Recorded(c) \/ c <= chat.lane) => Persisted(c)
    /\ ex.reg[c] # None /\ ex.reg[c].st = "pending" =>
         (Recorded(c) /\ ex.reg[c].ensure) \/ Due(c)

\* Requests are numbered by their turns; that of the open turn and step is known.
Numbered(v) ==
  /\ v.lastStep \in Nat
  /\ v.openTurn = None => v.openStep = None
  /\ \A r \in DOMAIN v.requests : r \in Nat /\ r <= v.lastTurn
  /\ v.openTurn # None => v.openTurn \in DOMAIN v.requests /\ v.requests[v.openTurn].turn = v.openTurn
  /\ v.openStep # None => v.requests[v.openTurn].step = v.openStep

\* The numbers of the chat, and the calls it made.
Counts ==
  /\ chat.base \in Nat /\ chat.base <= chat.lane /\ chat.emitted <= MaxIds
  /\ chat.made = [c \in Ids |-> chat.made[c]]

\* A stream belongs to an open step, and so do the calls it emits; so does the
\* suspension of a turn.
StepOpen ==
  /\ chat.stream # "off" \/ Suspended => disk.v.openTurn # None /\ disk.v.openStep # None
  /\ chat.stream \in {"open", "draining"} =>
       \A c \in Ids : c > chat.base /\ c <= chat.emitted =>
         chat.made[c] = [turn |-> disk.v.openTurn, step |-> disk.v.openStep,
                         requestId |-> disk.v.openTurn]

\* Earlier streams left no call without a result; of its own calls none that asks
\* is decided.
StreamFits ==
  chat.stream # "off" =>
    \A c \in Ids :
      /\ c <= chat.base /\ Recorded(c) => disk.stored[c] # None
      /\ c > chat.base /\ tool[c].asks =>
           disk.told[c] = None /\ (ex.appr[c] # None => ex.appr[c].st = "none")

\* A suspended turn waits for every call without a result.
AwaitsAll == Suspended => \A c \in Ids : Recorded(c) => disk.stored[c] # None \/ Awaited(c)

\* What a closing stream has still to close.
ClosingFits ==
  /\ chat.stream # "closing" => chat.at = None
  /\ chat.stream = "closing" =>
       /\ chat.lane = chat.emitted
       /\ chat.todo \subseteq {c \in Ids : c > chat.base /\ ~tool[c].asks /\ Persisted(c)}
       /\ \A c \in Ids : c > chat.base /\ c <= chat.emitted =>
            c \in chat.todo \/ tool[c].asks \/ disk.stored[c] # None
       /\ chat.at # None =>
            chat.at \in chat.todo /\ (ex.owner[chat.at] # None \/ disk.stored[chat.at] # None)

\* A Stop cancels calls of the suspended turn, and decides what is not decided.
CancelFits ==
  chat.cancel # None =>
    /\ chat.cancel = [told |-> chat.cancel.told, todo |-> chat.cancel.todo,
                      at |-> chat.cancel.at]
    /\ chat.cancel.told \cup chat.cancel.todo \subseteq {c \in Ids : Recorded(c)}
    /\ chat.stream # "off" =>
         \A c \in chat.cancel.told \cup chat.cancel.todo : c <= chat.base
    /\ \A c \in chat.cancel.todo :
         tool[c].asks => c \in chat.cancel.told \/ disk.told[c] # None

\* Nothing is run or completed before it is decided.
OwnersDecided == \A c \in Ids : ex.owner[c] # None /\ tool[c].asks => disk.told[c] # None

\* What is to be stored has no result yet.
CommitsFit ==
  \A p \in DOMAIN ex.callOf :
    Given(p) /\ p >= nextCommit /\ ~ex.keeps[p] => disk.stored[ex.callOf[p]] = None

Smooth ==
  /\ ~failed /\ ~chat.laneDown /\ Numbered(disk.v)
  /\ EntriesFit /\ Counts /\ StepOpen /\ StreamFits /\ AwaitsAll /\ ClosingFits /\ CancelFits
  /\ OwnersDecided /\ CommitsFit

Untroubled == seen.failures \in Nat /\ (Calm => Smooth)

\* What is known before a step as long as no append failed.
Before == XInv /\ Callers /\ Smooth

\* The call that is to be recorded is taken.
LEMMA CallTakes ==
  ASSUME Before, NEW c \in Ids, Due(c)
  PROVE  Takes(Call(c))
<1>1. /\ ~Recorded(c) /\ chat.made[c] = [turn |-> disk.v.openTurn, step |-> disk.v.openStep,
                         requestId |-> disk.v.openTurn]
      /\ disk.v.openTurn # None /\ disk.v.openStep # None
  <2>1. c > chat.base
    BY DEF Before, Smooth, Counts, Due, Callers, ChatTyped, Ids
  <2> QED BY <2>1 DEF Before, Smooth, StepOpen, Due
<1>2. Call(c).type = "tool/call" /\ Call(c).turn = disk.v.openTurn /\ Call(c).step = disk.v.openStep
      /\ Call(c).requestId = disk.v.openTurn /\ Call(c).callId = c
  BY <1>1 DEF Call
<1>3. Accepts(disk.v, Call(c)) = ToolOk(disk.v, Call(c))
  BY <1>2, Cases DEF ToolTypes
<1> QED BY <1>1, <1>2, <1>3 DEF ToolOk, InStep, Takes, Recorded, Before, Smooth, Numbered

\* A request is taken.
LEMMA RequestTakes ==
  ASSUME XInv, LaneFits, NEW c \in Ids, ex.appr[c] # None, ex.appr[c].request = "pending"
  PROVE  Takes(Request(c))
<1>1. Persisted(c) /\ ~Asked(c)
  BY DEF LaneFits
<1>2. Recorded(c)
  BY <1>1 DEF Persisted, XInv, Memory, PlacesFit
<1>3. disk.v.calls[c].approvalId = None
  BY <1>1, <1>2 DEF Asked, Recorded, XInv, Faithful, Sound
<1>4. Request(c).type = "approval/request" /\ Request(c).callId = c /\ Request(c).approvalId = c
  BY DEF Request
<1>5. Accepts(disk.v, Request(c)) = ToolOk(disk.v, Request(c))
  BY <1>4, Cases DEF ToolTypes
<1> QED BY <1>1, <1>2, <1>3, <1>4, <1>5 DEF ToolOk, Takes, Recorded, Asked

\* A result that is committed is taken.
LEMMA ResultTakes ==
  ASSUME XInv, BodiesFit, ~failed, CommitsFit, OwnersDecided, committing, ~ex.keeps[nextCommit]
  PROVE  Takes(Result(ex.callOf[nextCommit], None))
<1> DEFINE p == nextCommit
           c == ex.callOf[nextCommit]
           e == Result(c, None)
<1>1. p \in Calls /\ Ready(phase, p) /\ p \in DOMAIN ex.callOf /\ c \in Ids
  BY CommittedNext
<1>2. Given(p) /\ p >= nextCommit
  BY <1>1 DEF Given, Ready, Calls
<1>3. Recorded(c) /\ ex.owner[c] # None
  BY <1>1, <1>2 DEF BodiesFit, XInv, Memory, PlacesFit
<1>4. disk.stored[c] = None
  BY <1>1, <1>2 DEF CommitsFit
<1>5. ~disk.v.calls[c].result
  BY <1>1, <1>3, <1>4 DEF XInv, Faithful, Remembered, Recorded
<1>6. disk.v.calls[c].approvalId = None \/ disk.v.calls[c].approvalDecided
  <2> SUFFICES ASSUME disk.v.calls[c].approvalId # None PROVE disk.v.calls[c].approvalDecided
    OBVIOUS
  <2>1. c \in DOMAIN disk.v.approvals
    BY <1>3 DEF XInv, Faithful, Sound, Recorded
  <2>2. disk.told[c] # None
    BY <1>1, <1>3, <2>1 DEF XInv, Faithful, Remembered, OwnersDecided
  <2> QED BY <1>1, <2>2 DEF XInv, Faithful, Remembered
<1>7. /\ e.type = "tool/result" /\ e.callId = c /\ e.turn = disk.v.calls[c].turn
      /\ e.step = disk.v.calls[c].step
  BY DEF Result
<1>8. Accepts(disk.v, e) = ToolOk(disk.v, e)
  BY <1>7, Cases DEF ToolTypes
<1> HIDE DEF c, e
<1>9. ToolOk(disk.v, e)
  BY <1>3, <1>5, <1>6, <1>7 DEF ToolOk, Recorded
<1> QED BY <1>8, <1>9 DEF Takes, c, e

\* No step takes a failure back.
LEMMA FailuresStay ==
  ASSUME XInv, XNext, seen.failures \in Nat
  PROVE  seen'.failures \in Nat /\ seen'.failures >= seen.failures
<1>1. seen'.failures = seen.failures \/ seen'.failures = seen.failures + 1
  <2>1. Typed
    BY DEF XInv, Memory
  <2>2. CASE seen' = seen
    BY <2>2
  <2>3. CASE seen' = [seen EXCEPT !.failures = @ + 1]
    BY <2>1, <2>3 DEF Typed
  <2>4. CASE Counted
    BY <2>1, <2>4 DEF Typed, Counted
  <2>5. CASE Crash
    BY <2>1, <2>5 DEF Typed, Crash
  <2>6. CASE Executor
    <3>1. \A e, f : Fails(e, f) => seen' = seen \/ seen' = [seen EXCEPT !.failures = @ + 1]
      BY DEF Fails
    <3>2. ASSUME NEW c \in Ids, PersistCallFails(c) \/ RequestFails(c) \/ DecisionFails(c)
          PROVE  seen' = seen \/ seen' = [seen EXCEPT !.failures = @ + 1]
      BY <3>1, <3>2 DEF PersistCallFails, RequestFails, DecisionFails
    <3>3. CASE CommitFails
      BY <2>2, <2>3, <3>1, <3>3 DEF CommitFails
    <3>4. ASSUME NEW c \in Ids, PersistCall(c) \/ ScheduleThrows(c) \/ RequestLands(c) \/ DecisionLands(c)
          PROVE  seen' = seen
      BY <3>4 DEF PersistCall, ScheduleThrows, RequestLands, DecisionLands
    <3>5. ASSUME NEW c \in Ids, Schedule(c) PROVE Counted
      BY <3>5 DEF Schedule
    <3>6. ASSUME NEW p, Return(p) \/ Settle(p) PROVE seen' = seen \/ Counted
      BY <3>6 DEF Return, Settle
    <3>7. CASE CommitLands
      BY <2>2, <3>7 DEF CommitLands
    <3> QED BY <2>2, <2>3, <2>4, <2>6, <3>2, <3>3, <3>4, <3>5, <3>6, <3>7 DEF Executor
  <2>7. CASE Recorder \/ Closing
    <3>1. ASSUME NEW c \in Ids, RecorderRecords(c) \/ RecorderGoesOn(c) PROVE seen' = seen
      BY <3>1 DEF RecorderRecords, RecorderGoesOn
    <3>2. Drained \/ CallClosed \/ Close \/ CancelledCall \/ StopCloses => seen' = seen
      BY DEF Drained, CallClosed, Close, CancelledCall, StopCloses
    <3>3. ASSUME NEW c \in Ids,
                 \/ CloseApproval(c) \/ CloseCall(c) \/ CancelApproval(c) \/ CancelCall(c)
                 \/ Act(c) \/ Publish(c)
          PROVE  seen' = seen
      BY <3>3 DEF CloseApproval, CloseCall, CancelApproval, CancelCall, Act, Publish
    <3> QED BY <2>2, <2>7, <3>1, <3>2, <3>3 DEF Recorder, Closing
  <2>8. CASE ~Executor /\ ~Recorder /\ ~Closing /\ ~Crash
    <3>1. BeginTurn \/ Resume \/ Emit \/ StopSuspended => seen' = seen
      BY DEF BeginTurn, Resume, Emit, StopSuspended
    <3>2. ASSUME NEW c \in Ids, SdkExecutes(c) PROVE seen' = seen
      BY <3>2 DEF SdkExecutes
    <3>3. ASSUME NEW stop \in BOOLEAN, StreamEnds(stop) PROVE seen' = seen
      BY <3>3 DEF StreamEnds
    <3>4. ASSUME NEW c \in Ids, NEW out \in {"yes", "no"}, Respond(c, out) PROVE seen' = seen
      BY <3>4 DEF Respond
    <3> QED BY <2>2, <2>8, <3>1, <3>2, <3>3, <3>4 DEF XNext
  <2> QED BY <2>5, <2>6, <2>7, <2>8
<1> QED BY <1>1

\* No append fails in a step that is calm: what could be refused is accepted.
Unfailing ==
  ~CommitFails /\ \A c \in Ids : ~PersistCallFails(c) /\ ~RequestFails(c)

\* So it is.
LEMMA NothingFails ==
  ASSUME Before, XNext, seen.failures = 0, seen'.failures = 0
  PROVE  Unfailing
<1>1. \A e, f : Fails(e, f) => ~Takes(e)
  BY DEF Fails, Before, XInv, Memory, Typed
<1>2. ~CommitFails
  BY <1>1, ResultTakes DEF CommitFails, Before, Callers, Smooth
<1>3. \A c \in Ids : ~PersistCallFails(c)
  BY <1>1, CallTakes DEF PersistCallFails, Before, Smooth, EntriesFit
<1>4. \A c \in Ids : ~RequestFails(c)
  BY <1>1, RequestTakes DEF RequestFails, Before, Callers
<1> QED BY <1>2, <1>3, <1>4 DEF Unfailing

------------------------------------------------------------------------------
(* Numbers of turns, and the calls the history knows. *)

\* The events that begin no turn and no step.
PlainTypes == {"approval/request", "approval/decision", "tool/result", "turn/suspend",
               "turn/resume", "turn/end", "step/end"}

\* They, and the records of calls, leave the numbers right.
LEMMA EventNumbers ==
  ASSUME NEW v, NEW e, IsValidator(v), Accepts(v, e), Numbered(v),
         e.type \in PlainTypes \cup {"tool/call"}
  PROVE  /\ Numbered(Apply(v, e))
         /\ e.type \in PlainTypes => DOMAIN Apply(v, e).calls = DOMAIN v.calls
         /\ e.type \notin {"turn/end", "step/end"} =>
              Apply(v, e).openTurn = v.openTurn /\ Apply(v, e).openStep = v.openStep
<1> DEFINE w == Apply(v, e)
<1>1. /\ e.type \in TurnTypes \cup StepTypes \cup ToolTypes
      /\ e.type \notin {"turn/start", "step/start"}
  BY DEF PlainTypes, TurnTypes, StepTypes, ToolTypes
<1>2. e.type \notin RequestTypes
  BY <1>1, TypesAreDisjoint
<1>3. w.requests = v.requests
  BY <1>2, FieldsStay
<1>4. w.lastStep = v.lastStep
  <2>1. CASE e.type \notin StepTypes
    BY <2>1, FieldsStay DEF StepFields
  <2>2. CASE e.type = "step/end"
    <3>1. w.lastStep = ApplyStep(v, e).lastStep
      BY <2>2, Cases, AppliedIsAssigned DEF Fields, StepTypes
    <3> QED BY <2>2, <3>1 DEF ApplyStep, IsValidator, Fields
  <2> QED BY <1>1, <2>1, <2>2 DEF StepTypes
<1>5. w.lastTurn = v.lastTurn
  BY <1>1, TurnApplied DEF TurnTypes
<1>6. /\ w.openTurn = IF e.type = "turn/end" THEN None ELSE v.openTurn
      /\ w.openStep = IF e.type = "step/end" THEN None ELSE v.openStep
      /\ e.type = "turn/end" => v.openStep = None
  BY <1>1, TurnApplied, StepApplied DEF TurnTypes, StepTypes
<1>7. e.type \in PlainTypes => DOMAIN w.calls = DOMAIN v.calls
  BY AppliedCalls DEF PlainTypes
<1> HIDE DEF w
<1>8. Numbered(w)
  BY <1>3, <1>4, <1>5, <1>6, TypesAreDisjoint DEF Numbered
<1> QED BY <1>6, <1>7, <1>8 DEF w

\* So does a batch.
LEMMA BatchNumbers ==
  ASSUME NEW v, NEW s, IsValidator(v), Numbered(v), Len(s) \in Nat, AppendBatch(v, s).ok,
         \A i \in 1 .. Len(s) : s[i].type \in PlainTypes
  PROVE  Numbered(AppendBatch(v, s).v) /\ DOMAIN AppendBatch(v, s).v.calls = DOMAIN v.calls
<1> DEFINE n == Len(s)
           L == Loop(v, s)
           G == {i \in 0 .. n : /\ IsValidator(L[i].v) /\ Numbered(L[i].v)
                                /\ DOMAIN L[i].v.calls = DOMAIN v.calls}
<1>1. /\ L[0].v = v /\ L[n].v = AppendBatch(v, s).v
      /\ \A i \in 1 .. n : Accepts(L[i - 1].v, s[i]) /\ L[i].v = Apply(L[i - 1].v, s[i])
  BY AcceptedSteps
<1> HIDE DEF L
<1>2. 0 \in G
  BY <1>1
<1>3. ASSUME NEW i \in 1 .. n, i - 1 \in G PROVE i \in G
  <2>1. /\ IsValidator(L[i - 1].v) /\ Numbered(L[i - 1].v)
        /\ DOMAIN L[i - 1].v.calls = DOMAIN v.calls
    BY <1>3
  <2>2. Accepts(L[i - 1].v, s[i]) /\ L[i].v = Apply(L[i - 1].v, s[i])
    BY <1>1
  <2>3. IsValidator(L[i].v)
    BY <2>1, <2>2, EventTouches
  <2>4. Numbered(L[i].v) /\ DOMAIN L[i].v.calls = DOMAIN v.calls
    BY <2>1, <2>2, EventNumbers
  <2> QED BY <2>3, <2>4
<1>4. n \in G
  <2> HIDE DEF G, n
  <2> QED BY <1>2, <1>3, ToTheEnd DEF n
<1> QED BY <1>1, <1>4

\* A repair.
LEMMA RepairNumbers ==
  ASSUME Faithful(disk), Numbered(disk.v)
  PROVE  /\ Numbered(Repaired.v) /\ DOMAIN Repaired.v.calls = DOMAIN disk.v.calls
         /\ Repaired = disk \/ (disk.v.openTurn # None /\ ~Suspended /\ Repaired.v.openTurn = None)
<1> DEFINE v == disk.v
           D == {Decision(c) : c \in v.pendingApprovals}
           R == {Result(c, "outcome-unknown") : c \in v.unresolved}
           decide == SetToSeq(D)
           answer == SetToSeq(R)
           ends == <<At("step/end"), At("turn/end")>>
           s == decide \o answer \o ends
           r == AppendBatch(v, s)
<1>1. CASE v.openTurn = None \/ Suspended
  BY <1>1 DEF Repaired
<1>2. CASE v.openTurn # None /\ ~Suspended
  <2>1. IsValidator(v) /\ v.pendingApprovals \subseteq Ids /\ v.unresolved \subseteq Ids
    BY DEF Faithful, Sound
  <2>2. Repaired.v = (IF r.ok THEN r.v ELSE v)
    <3> HIDE DEF r, decide, answer, ends, v
    <3>1. Repaired = (IF ~r.ok THEN disk ELSE
            [disk EXCEPT !.v = r.v,
              !.told = [c \in Ids |-> IF c \in disk.v.pendingApprovals THEN "cancelled" ELSE @[c]],
              !.stored = [c \in Ids |-> IF c \in disk.v.unresolved THEN "unknown" ELSE @[c]]])
      BY <1>2 DEF Repaired, Batch, r, decide, answer, ends, v
    <3> QED BY <3>1 DEF Faithful, IsDisk, v
  <2>3. Repaired.v.openTurn = None
    BY <1>2, RepairTaken
  <2>4. ASSUME r.ok PROVE Numbered(r.v) /\ DOMAIN r.v.calls = DOMAIN v.calls
    <3>1. /\ \A e \in D : e.type = "approval/decision"
          /\ \A e \in R : e.type = "tool/result"
      BY DEF Decision, Result
    <3>2. IsFiniteSet(D) /\ IsFiniteSet(R)
      <4>1. IsFiniteSet(Ids)
        BY FS_Interval, ToolsAssumption DEF Ids
      <4> DEFINE P == v.pendingApprovals
                 U == v.unresolved
                 g == [c \in P |-> Decision(c)]
                 h == [c \in U |-> Result(c, "outcome-unknown")]
      <4>2. IsFiniteSet(P) /\ IsFiniteSet(U)
        BY <2>1, <4>1, FS_Subset
      <4>3. D = {g[c] : c \in P} /\ R = {h[c] : c \in U}
        OBVIOUS
      <4> HIDE DEF D, R, g, h, P, U
      <4> QED BY <4>2, <4>3, ImageIsFinite
    <3>3. decide \in Seq(D) /\ answer \in Seq(R)
      <4> HIDE DEF D, R
      <4> QED BY <3>2, SetToSeqEnumerates
    <3> HIDE DEF D, R, decide, answer
    <3> DEFINE S == D \cup R \cup {At("step/end"), At("turn/end")}
    <3>4. \A e \in S : e.type \in PlainTypes
      BY <3>1 DEF At, PlainTypes
    <3>5. decide \in Seq(S) /\ answer \in Seq(S) /\ ends \in Seq(S)
      BY <3>3
    <3> HIDE DEF S, ends
    <3>6. s \in Seq(S)
      BY <3>5
    <3> HIDE DEF s
    <3>7. Len(s) \in Nat /\ \A i \in 1 .. Len(s) : s[i].type \in PlainTypes
      BY <3>4, <3>6
    <3> QED BY <2>1, <2>4, <3>7, BatchNumbers
  <2> HIDE DEF r, v
  <2> QED BY <1>2, <2>2, <2>3, <2>4 DEF v
<1> QED BY <1>1, <1>2

\* The beginning of a turn.
LEMMA BeginTurnNumbers ==
  ASSUME Faithful(disk), Numbered(disk.v), BeginTurn
  PROVE  Numbered(disk'.v) /\ disk'.v.openTurn # None /\ disk'.v.openStep # None
<1> DEFINE v == disk.v
           n == v.lastTurn + 1
           k == v.lastStep + 1
           a == [type |-> "turn/start", turn |-> n]
           b == [type |-> "step/start", turn |-> n, step |-> k]
           c == [type |-> "request/header", turn |-> n, step |-> k, requestId |-> n]
           s == <<a, b, c>>
           L == Loop(v, s)
           x == Apply(v, a)
           y == Apply(x, b)
           w == Apply(y, c)
<1>1. disk' = [disk EXCEPT !.v = AppendBatch(v, s).v] /\ v.openTurn = None
  BY DEF BeginTurn, Batch
<1>2. IsValidator(v) /\ v.lastTurn \in Nat /\ v.lastStep \in Nat /\ v.openStep = None
  BY <1>1 DEF Faithful, Sound, Numbered
<1>3. /\ a.type = "turn/start" /\ a.turn = n
      /\ b.type = "step/start" /\ b.turn = n /\ b.step = k
      /\ c.type = "request/header" /\ c.turn = n /\ c.step = k /\ c.requestId = n
      /\ Len(s) = 3 /\ s[1] = a /\ s[2] = b /\ s[3] = c
  OBVIOUS
<1>4. n \in Nat /\ k \in Nat /\ n > v.lastTurn /\ k > v.lastStep /\ n # None /\ k # None
  BY <1>2, ToolsAssumption
<1> HIDE DEF a, b, c, n, k
<1>5. L[0].ok /\ L[0].v = v
  <2> HIDE DEF s, v
  <2>1. Len(s) \in Nat
    BY <1>3
  <2>2. L[0] = Started(v)
    BY <2>1, LoopSteps
  <2> QED BY <2>2 DEF Started
<1>6. Accepts(v, a)
  <2>1. Accepts(v, a) = TurnOk(v, a)
    BY <1>3, Cases DEF TurnTypes
  <2> QED BY <1>1, <1>3, <1>4, <2>1 DEF TurnOk
<1>7. /\ IsValidator(x) /\ x.openTurn = n /\ x.lastTurn = n /\ x.openStep = None
      /\ x.lastStep = v.lastStep /\ x.requests = v.requests
  <2>1. IsValidator(x)
    BY <1>2, EventTouches
  <2>2. x.openTurn = n /\ x.lastTurn = n
    BY <1>2, <1>3, <1>6, TurnApplied
  <2>3. a.type \in TurnTypes
    BY <1>3 DEF TurnTypes
  <2>4. a.type \notin StepTypes /\ a.type \notin RequestTypes
    BY <2>3, TypesAreDisjoint
  <2> QED BY <1>2, <2>1, <2>2, <2>4, FieldsStay DEF StepFields
<1> HIDE DEF x
<1>8. Accepts(x, b)
  <2>1. Accepts(x, b) = StepOk(x, b)
    BY <1>3, Cases DEF StepTypes
  <2> QED BY <1>3, <1>4, <1>7, <2>1 DEF StepOk
<1>9. /\ IsValidator(y) /\ y.openTurn = n /\ y.lastTurn = n /\ y.openStep = k
      /\ y.lastStep = k /\ y.requests = v.requests
  <2>1. IsValidator(y)
    BY <1>7, EventTouches
  <2>2. b.type \in StepTypes
    BY <1>3 DEF StepTypes
  <2>3. b.type \notin TurnTypes /\ b.type \notin RequestTypes
    BY <2>2, TypesAreDisjoint
  <2>4. y.openStep = k /\ y.lastStep = k
    <3>1. y.openStep = ApplyStep(x, b).openStep /\ y.lastStep = ApplyStep(x, b).lastStep
      BY <1>7, <2>2, Cases, AppliedIsAssigned DEF Fields
    <3>2. DOMAIN x = Fields /\ x = [f \in Fields |-> x[f]]
      BY <1>7 DEF IsValidator
    <3> QED BY <1>3, <3>1, <3>2 DEF ApplyStep, Fields
  <2> QED BY <1>7, <2>1, <2>3, <2>4, FieldsStay DEF TurnFields
<1> HIDE DEF y
<1>10. Accepts(y, c)
  <2>1. Accepts(y, c) = RequestOk(y, c)
    BY <1>3, Cases DEF RequestTypes
  <2>2. n \notin DOMAIN y.requests
    BY <1>2, <1>4, <1>9 DEF Numbered
  <2> QED BY <1>3, <1>9, <2>1, <2>2 DEF RequestOk, InStep
<1>11. /\ w.openTurn = n /\ w.lastTurn = n /\ w.openStep = k /\ w.lastStep = k
       /\ DOMAIN w.requests = DOMAIN v.requests \cup {n}
       /\ w.requests[n].turn = n /\ w.requests[n].step = k
  <2>1. c.type \in RequestTypes
    BY <1>3 DEF RequestTypes
  <2>2. c.type \notin TurnTypes /\ c.type \notin StepTypes
    BY <2>1, TypesAreDisjoint
  <2>3. w.requests = ApplyRequest(y, c).requests
    BY <1>9, <2>1, Cases, AppliedIsAssigned DEF Fields
  <2>4. ApplyRequest(y, c).requests = Put(y.requests, n, [turn |-> n, step |-> k, lastAttempt |-> 0])
    <3>1. DOMAIN y = Fields
      BY <1>9 DEF IsValidator
    <3> QED BY <1>3, <3>1 DEF ApplyRequest, Fields
  <2>5. /\ DOMAIN w.requests = DOMAIN v.requests \cup {n}
        /\ w.requests[n] = [turn |-> n, step |-> k, lastAttempt |-> 0]
    BY <1>9, <2>3, <2>4 DEF Put
  <2> QED BY <1>9, <2>2, <2>5, FieldsStay DEF TurnFields, StepFields
<1>12. AppendBatch(v, s).v = w
  <2> HIDE DEF s, v
  <2>1. Len(s) \in Nat /\ 1 \in 1 .. Len(s) /\ 2 \in 1 .. Len(s) /\ 3 \in 1 .. Len(s)
        /\ 1 - 1 = 0 /\ 2 - 1 = 1 /\ 3 - 1 = 2
    BY <1>3
  <2>2. L[1].ok /\ L[1].v = x
    BY <1>3, <1>5, <1>6, <2>1, LoopGoesOn DEF x
  <2>3. L[2].ok /\ L[2].v = y
    BY <1>3, <1>8, <2>1, <2>2, LoopGoesOn DEF y
  <2>4. L[3].ok /\ L[3].v = w
    BY <1>3, <1>10, <2>1, <2>3, LoopGoesOn
  <2> QED BY <1>3, <2>4 DEF AppendBatch
<1> HIDE DEF w, s, v
<1>13. disk'.v = w
  BY <1>1, <1>12 DEF Faithful, IsDisk
<1>14. \A r \in DOMAIN w.requests : r \in Nat /\ r <= w.lastTurn
  BY <1>2, <1>4, <1>11 DEF Numbered, n, v
<1> QED BY <1>4, <1>11, <1>13, <1>14 DEF Numbered

\* The ends of turns: resumed, stopped, suspended for the calls that wait for a
\* human, ended or repaired.
LEMMA TurnNumbers ==
  ASSUME Faithful(disk), Numbered(disk.v), ChatShape
  PROVE  /\ Resume \/ StopCloses \/ Close =>
              Numbered(disk'.v) /\ DOMAIN disk'.v.calls = DOMAIN disk.v.calls
         /\ Resume => disk'.v.openTurn = disk.v.openTurn /\ disk'.v.openStep = disk.v.openStep
         /\ StopCloses => disk' = disk \/ (Suspended /\ disk'.v.openTurn = None)
         /\ Close =>
              \/ (disk' = disk \/ disk'.v.openTurn = None) /\ chat'.cancel = chat.cancel
              \/ /\ disk'.v.openTurn = disk.v.openTurn /\ disk'.v.openStep = disk.v.openStep
                 /\ disk'.v.suspension.callIds = WaitsForHuman
                 /\ WaitsForHuman \subseteq {c \in Ids : Recorded(c)}
                 /\ chat'.cancel \in {chat.cancel, [told |-> WaitsForHuman, todo |-> WaitsForHuman,
                                                    at |-> None]}
<1> DEFINE v == disk.v
<1>1. IsValidator(v) /\ \A w : [disk EXCEPT !.v = w].v = w
  BY DEF Faithful, IsDisk, Sound
<1>2. \A k : At(k).type = k
  BY DEF At
<1>3. ASSUME Resume
      PROVE  /\ Numbered(disk'.v) /\ DOMAIN disk'.v.calls = DOMAIN v.calls
             /\ disk'.v.openTurn = v.openTurn /\ disk'.v.openStep = v.openStep
  <2> DEFINE a == At("turn/resume")
             s == <<a>>
  <2>1. AppendBatch(v, s).ok /\ disk' = [disk EXCEPT !.v = AppendBatch(v, s).v]
    BY <1>3 DEF Resume, Batch
  <2>2. Len(s) = 1 /\ s[1] = a /\ a.type = "turn/resume"
    BY <1>2
  <2> HIDE DEF s, a, v
  <2>3. Accepts(v, a) /\ AppendBatch(v, s).v = Apply(v, a)
    BY <2>1, <2>2, OneEvent
  <2>4. disk'.v = Apply(v, a)
    BY <1>1, <2>1, <2>3
  <2> QED BY <1>1, <2>2, <2>3, <2>4, EventNumbers DEF PlainTypes, v
<1>4. ASSUME StopCloses
      PROVE  /\ Numbered(disk'.v) /\ DOMAIN disk'.v.calls = DOMAIN v.calls
             /\ disk' = disk \/ (Suspended /\ disk'.v.openTurn = None)
  <2> DEFINE a == At("turn/resume")
             b == At("step/end")
             c == At("turn/end")
             s == <<a, b, c>>
  <2>1. \/ AppendBatch(v, s).ok /\ disk' = [disk EXCEPT !.v = AppendBatch(v, s).v]
        \/ disk' = disk
    BY <1>4 DEF StopCloses, Batch
  <2>2. /\ Len(s) = 3 /\ s[1] = a /\ s[2] = b /\ s[3] = c
        /\ a.type = "turn/resume" /\ b.type = "step/end" /\ c.type = "turn/end"
    BY <1>2
  <2> HIDE DEF s, a, b, c, v
  <2>3. ASSUME AppendBatch(v, s).ok, disk' = [disk EXCEPT !.v = AppendBatch(v, s).v]
        PROVE  /\ Numbered(disk'.v) /\ DOMAIN disk'.v.calls = DOMAIN v.calls
               /\ Suspended /\ disk'.v.openTurn = None
    <3> DEFINE x == Apply(v, a)
               y == Apply(x, b)
    <3>1. /\ Accepts(v, a) /\ Accepts(x, b) /\ Accepts(y, c)
          /\ AppendBatch(v, s).v = Apply(y, c)
      BY <2>2, <2>3, ThreeEvents
    <3>2. Numbered(AppendBatch(v, s).v) /\ DOMAIN AppendBatch(v, s).v.calls = DOMAIN v.calls
      <4>1. Len(s) \in Nat /\ \A i \in 1 .. Len(s) : s[i].type \in PlainTypes
        BY <2>2 DEF PlainTypes
      <4> QED BY <1>1, <2>3, <4>1, BatchNumbers DEF v
    <3>3. v.suspension # None
      <4>1. Accepts(v, a) = TurnOk(v, a)
        BY <2>2, Cases DEF TurnTypes
      <4> QED BY <2>2, <3>1, <4>1 DEF TurnOk
    <3>4. IsValidator(y)
      BY <1>1, EventTouches
    <3> HIDE DEF y, x
    <3>5. Apply(y, c).openTurn = None
      BY <2>2, <3>1, <3>4, TurnApplied
    <3> QED BY <1>1, <2>3, <3>1, <3>2, <3>3, <3>5 DEF Suspended, v
  <2> QED BY <2>1, <2>3 DEF v
<1>5. ASSUME Close
      PROVE  /\ Numbered(disk'.v) /\ DOMAIN disk'.v.calls = DOMAIN v.calls
             /\ \/ (disk' = disk \/ disk'.v.openTurn = None) /\ chat'.cancel = chat.cancel
                \/ /\ disk'.v.openTurn = disk.v.openTurn /\ disk'.v.openStep = disk.v.openStep
                   /\ disk'.v.suspension.callIds = WaitsForHuman
                   /\ WaitsForHuman \subseteq {c \in Ids : Recorded(c)}
                   /\ chat'.cancel \in {chat.cancel, [told |-> WaitsForHuman, todo |-> WaitsForHuman,
                                                      at |-> None]}
  <2> DEFINE W == WaitsForHuman
             a == At("step/end")
             b == At("turn/end")
             s == <<a, b>>
             e == [type |-> "turn/suspend", turn |-> v.openTurn, step |-> v.openStep,
                   callIds |-> W, approvalIds |-> W]
             q == <<e>>
             Closes(x) == AppendBatch(v, x).ok /\ disk' = [disk EXCEPT !.v = AppendBatch(v, x).v]
  <2>1. \/ (W = {} /\ Closes(s) /\ chat'.cancel = chat.cancel)
        \/ (W # {} /\ Closes(q) /\ chat'.cancel \in {chat.cancel, [told |-> W, todo |-> W, at |-> None]})
        \/ disk' = Repaired /\ chat'.cancel = chat.cancel
    BY <1>5 DEF Close, Batch, ChatShape
  <2>2. /\ Len(s) = 2 /\ s[1] = a /\ s[2] = b /\ Len(q) = 1 /\ q[1] = e
        /\ e.type = "turn/suspend" /\ e.callIds = W
        /\ a.type = "step/end" /\ b.type = "turn/end"
    BY <1>2
  <2> HIDE DEF s, q, v, a, b, e, W
  <2>4. CASE Closes(s) /\ chat'.cancel = chat.cancel
    <3> DEFINE x == Apply(v, a)
    <3>1. Accepts(v, a) /\ Accepts(x, b) /\ AppendBatch(v, s).v = Apply(x, b)
      BY <2>2, <2>4, TwoEvents
    <3>2. Numbered(AppendBatch(v, s).v) /\ DOMAIN AppendBatch(v, s).v.calls = DOMAIN v.calls
      <4>1. Len(s) \in Nat /\ \A i \in 1 .. Len(s) : s[i].type \in PlainTypes
        BY <2>2 DEF PlainTypes
      <4> QED BY <1>1, <2>4, <4>1, BatchNumbers DEF v
    <3>3. IsValidator(x)
      BY <1>1, EventTouches
    <3> HIDE DEF x
    <3>4. Apply(x, b).openTurn = None
      BY <2>2, <3>1, <3>3, TurnApplied
    <3> QED BY <1>1, <2>4, <3>1, <3>2, <3>4
  <2>5. CASE Closes(q) /\ chat'.cancel \in {chat.cancel, [told |-> W, todo |-> W, at |-> None]}
    <3>1. Accepts(v, e) /\ AppendBatch(v, q).v = Apply(v, e)
      BY <2>2, <2>5, OneEvent
    <3>2. disk'.v = Apply(v, e)
      BY <1>1, <2>5, <3>1
    <3>3. /\ Numbered(disk'.v) /\ DOMAIN disk'.v.calls = DOMAIN v.calls
          /\ disk'.v.openTurn = v.openTurn /\ disk'.v.openStep = v.openStep
      BY <1>1, <2>2, <3>1, <3>2, EventNumbers DEF PlainTypes, v
    <3>4. disk'.v.suspension.callIds = W /\ W = UnresolvedIn(v, e)
      BY <1>1, <2>2, <3>1, <3>2, TurnApplied
    <3>5. W \subseteq {c \in Ids : Recorded(c)}
      BY <3>4 DEF UnresolvedIn, Faithful, Sound, Recorded, v
    <3> QED BY <2>5, <3>3, <3>4, <3>5 DEF W, v
  <2>6. CASE disk' = Repaired /\ chat'.cancel = chat.cancel
    BY <2>6, RepairNumbers DEF v
  <2> QED BY <2>1, <2>4, <2>5, <2>6
<1> QED BY <1>3, <1>4, <1>5

\* An event that is appended changes no turn, and records the call it is about.
LEMMA AppendNumbers ==
  ASSUME XInv, Numbered(disk.v), NEW e, NEW f, f.v = With(e).v,
         disk' = disk \/ (Takes(e) /\ disk' = f),
         e.type \in {"tool/call", "approval/request", "approval/decision", "tool/result"}
  PROVE  /\ Numbered(disk'.v)
         /\ disk'.v.openTurn = disk.v.openTurn /\ disk'.v.openStep = disk.v.openStep
         /\ DOMAIN disk'.v.calls =
              DOMAIN disk.v.calls \cup (IF disk' # disk /\ e.type = "tool/call" THEN {e.callId} ELSE {})
<1>1. Faithful(disk) /\ IsValidator(disk.v)
  BY DEF XInv, Faithful, Sound
<1>2. CASE disk' = disk
  BY <1>2
<1>3. CASE Takes(e) /\ disk' = f /\ disk' # disk
  <2>1. disk'.v = Apply(disk.v, e) /\ Accepts(disk.v, e)
    BY <1>1, <1>3, WithIsDisk DEF Takes
  <2>2. e.type \in PlainTypes \cup {"tool/call"} /\ e.type \notin {"turn/end", "step/end"}
    BY DEF PlainTypes
  <2>3. /\ Numbered(Apply(disk.v, e))
        /\ Apply(disk.v, e).openTurn = disk.v.openTurn /\ Apply(disk.v, e).openStep = disk.v.openStep
    BY <1>1, <2>1, <2>2, EventNumbers
  <2>4. DOMAIN disk'.v.calls =
          IF e.type = "tool/call" THEN DOMAIN disk.v.calls \cup {e.callId} ELSE DOMAIN disk.v.calls
    <3>1. DOMAIN Apply(disk.v, e).calls =
            IF e.type = "tool/call" THEN DOMAIN disk.v.calls \cup {e.callId} ELSE DOMAIN disk.v.calls
      BY <1>1, AppliedCalls
    <3> QED BY <2>1, <3>1
  <2> QED BY <1>3, <2>1, <2>3, <2>4
<1> QED BY <1>2, <1>3

\* The history through every step: calls are recorded one by one, and turns and
\* steps begin and end when the chat says so.
LEMMA HistoryMoves ==
  ASSUME XInv, ChatShape, Numbered(disk.v), XNext, Unfailing
  PROVE  /\ Numbered(disk'.v)
         /\ DOMAIN disk'.v.calls = DOMAIN disk.v.calls
              \/ \E c \in Ids : PersistCall(c) /\ DOMAIN disk'.v.calls = DOMAIN disk.v.calls \cup {c}
         /\ \/ disk'.v.openTurn = disk.v.openTurn /\ disk'.v.openStep = disk.v.openStep
            \/ BeginTurn \/ StopCloses \/ Close \/ Crash
<1>1. Faithful(disk)
  BY DEF XInv
<1>2. CASE disk' = disk
  BY <1>2
<1>3. ASSUME NEW c \in Ids, Appends(c)
      PROVE  /\ Numbered(disk'.v)
             /\ DOMAIN disk'.v.calls = DOMAIN disk.v.calls
                  \/ (PersistCall(c) /\ DOMAIN disk'.v.calls = DOMAIN disk.v.calls \cup {c})
             /\ disk'.v.openTurn = disk.v.openTurn /\ disk'.v.openStep = disk.v.openStep
  <2>1. CASE PersistCall(c)
    <3> DEFINE e == Call(c)
               f == With(e)
    <3>1. e.type = "tool/call" /\ e.callId = c
      BY DEF Call
    <3>2. disk' = disk \/ (Takes(e) /\ disk' = f)
      BY <2>1 DEF PersistCall
    <3> HIDE DEF e
    <3> QED BY <2>1, <3>1, <3>2, AppendNumbers
  <2>2. CASE RequestLands(c)
    <3> DEFINE e == Request(c)
               f == With(e)
    <3>1. e.type = "approval/request"
      BY DEF Request
    <3>2. disk' = disk \/ (Takes(e) /\ disk' = f)
      BY <2>2 DEF RequestLands
    <3> HIDE DEF e
    <3> QED BY <3>1, <3>2, AppendNumbers
  <2>3. CASE DecisionLands(c) \/ DecisionFails(c)
    <3> DEFINE e == Decision(c)
               f == [With(e) EXCEPT !.told[c] = ex.appr[c].out]
    <3>1. e.type = "approval/decision"
      BY DEF Decision
    <3>2. disk' = disk \/ (Takes(e) /\ disk' = f)
      BY <2>3 DEF DecisionLands, DecisionFails, Fails
    <3>3. f.v = With(e).v
      BY <1>1, WithIsDisk
    <3> HIDE DEF e, f
    <3> QED BY <3>1, <3>2, <3>3, AppendNumbers
  <2> QED BY <1>3, <2>1, <2>2, <2>3 DEF Appends, Unfailing
<1>4. CASE CommitLands
  <2> DEFINE e == Result(ex.callOf[nextCommit], None)
             f == [With(e) EXCEPT !.stored[ex.callOf[nextCommit]] = ex.produced[nextCommit]]
  <2>1. e.type = "tool/result"
    BY DEF Result
  <2>2. disk' = disk \/ (Takes(e) /\ disk' = f)
    BY <1>4 DEF CommitLands
  <2>3. f.v = With(e).v
    BY <1>1, WithIsDisk
  <2> HIDE DEF e, f
  <2> QED BY <2>1, <2>2, <2>3, AppendNumbers
<1>5. CASE BeginTurn
  <2>1. Numbered(disk'.v)
    BY <1>1, <1>5, BeginTurnNumbers
  <2> QED BY <1>1, <1>5, <2>1, BeginTurnTaken DEF SameCalls
<1>6. CASE Resume \/ StopCloses \/ Close
  BY <1>1, <1>6, TurnNumbers
<1>7. CASE Crash
  BY <1>1, <1>7, RepairNumbers DEF Crash
<1> QED BY <1>2, <1>3, <1>4, <1>5, <1>6, <1>7, DiskStays DEF Unfailing

------------------------------------------------------------------------------
(* The chat through every step in which no append fails. *)

\* What the steps of the chat leave alone.
StreamSame ==
  /\ chat'.stream = chat.stream /\ chat'.base = chat.base /\ chat'.emitted = chat.emitted
  /\ chat'.made = chat.made
ClosureSame == chat'.at = chat.at /\ chat'.todo = chat.todo
CancelSame == chat'.cancel = chat.cancel

\* Steps of the stream.
StreamMove ==
  \/ /\ Emit /\ chat'.stream = chat.stream /\ chat'.base = chat.base /\ chat'.lane = chat.lane
     /\ chat'.emitted = chat.emitted + 1
     /\ chat'.made = [chat.made EXCEPT ![chat.emitted + 1] =
          [turn |-> disk.v.openTurn, step |-> disk.v.openStep, requestId |-> disk.v.openTurn]]
     /\ ClosureSame /\ CancelSame
  \/ /\ (\E stop \in BOOLEAN : StreamEnds(stop)) /\ chat.stream = "open"
     /\ chat'.stream = "draining" /\ chat'.base = chat.base /\ chat'.lane = chat.lane
     /\ chat'.emitted = chat.emitted /\ chat'.made = chat.made /\ ClosureSame /\ CancelSame
  \/ /\ Drained /\ chat.stream = "draining" /\ (chat.lane = chat.emitted \/ chat.laneDown)
     /\ chat'.stream = "closing" /\ chat'.base = chat.base /\ chat'.lane = chat.lane
     /\ chat'.emitted = chat.emitted /\ chat'.made = chat.made /\ chat'.at = chat.at /\ CancelSame
     /\ chat'.todo = {c \in OpenCalls : ~Answered(c)}
  \/ /\ Close /\ chat.stream = "closing" /\ chat.todo = {}
     /\ chat'.stream = "off" /\ chat'.base = chat.base /\ chat'.lane = chat.lane
     /\ chat'.emitted = chat.emitted /\ chat'.made = chat.made /\ ClosureSame
  \/ /\ Resume /\ chat.stream = "off" /\ Suspended
     /\ chat'.stream = "open" /\ chat'.base = chat.emitted /\ chat'.lane = chat.emitted
     /\ chat'.emitted = chat.emitted /\ chat'.made = chat.made /\ ClosureSame /\ CancelSame
  \/ /\ (BeginTurn /\ chat.stream = "off" /\ chat'.stream = "open") \/ (Crash /\ chat'.stream = "off")
     /\ chat'.base = chat.emitted /\ chat'.lane = chat.emitted
     /\ chat'.emitted = chat.emitted /\ chat'.made = chat.made
     /\ chat'.at = None /\ chat'.todo = {} /\ chat'.cancel = None

\* The recorder goes on to c.
LaneMove(c) ==
  /\ RequestLands(c) \/ (RecorderGoesOn(c) /\ ~tool[c].asks)
  /\ chat'.lane = c /\ StreamSame /\ ClosureSame /\ CancelSame

\* Steps of the closure of a stream.
ClosureMove ==
  /\ \/ \E c \in Ids : CloseApproval(c) /\ chat'.at = chat.at
     \/ \E c \in Ids : CloseCall(c) /\ chat'.at = c /\ chat'.todo = chat.todo
     \/ CallClosed /\ chat'.at = None /\ chat'.todo = chat.todo \ {chat.at}
  /\ StreamSame /\ chat'.lane = chat.lane /\ CancelSame

\* Steps of a Stop.
CancelMove ==
  /\ \/ chat'.cancel = None
     \/ /\ StopSuspended
        /\ chat'.cancel = [told |-> {c \in disk.v.suspension.callIds : disk.told[c] = None},
                           todo |-> {c \in disk.v.suspension.callIds : disk.stored[c] = None},
                           at |-> None]
     \/ \E c \in Ids : /\ CancelApproval(c) /\ chat.cancel # None
                       /\ \/ chat'.cancel = chat.cancel
                          \/ /\ ex'.appr[c].st = "ok"
                             /\ chat'.cancel = [chat.cancel EXCEPT !.told = @ \ {c}]
     \/ \E c \in Ids : CancelCall(c) /\ chat.cancel # None /\ chat'.cancel = [chat.cancel EXCEPT !.at = c]
     \/ /\ CancelledCall /\ chat.cancel # None
        /\ chat'.cancel = [chat.cancel EXCEPT !.at = None, !.todo = @ \ {chat.cancel.at}]
  /\ StreamSame /\ chat'.lane = chat.lane /\ ClosureSame

\* There are no other steps.
LEMMA ChatMoves ==
  ASSUME ChatTyped, ~failed, ~chat.laneDown, XNext, Unfailing
  PROVE  /\ ~chat'.laneDown
         /\ \/ StreamSame /\ chat'.lane = chat.lane /\ ClosureSame /\ CancelSame
            \/ StreamMove \/ ClosureMove \/ CancelMove \/ \E c \in Ids : LaneMove(c)
<1> DEFINE Rest == StreamSame /\ chat'.lane = chat.lane /\ ClosureSame /\ CancelSame /\ ~chat'.laneDown
<1>1. ChatShape /\ chat.laneDown = FALSE
  BY DEF ChatTyped
<1>2. CASE chat' = chat
  BY <1>1, <1>2 DEF StreamSame, ClosureSame, CancelSame
<1>3. CASE QuietStep
  <2>1. ASSUME NEW c \in Ids, CloseApproval(c) \/ CloseCall(c)
        PROVE  ClosureMove /\ ~chat'.laneDown
    BY <1>1, <2>1 DEF ChatShape, CloseApproval, CloseCall, ClosureMove, StreamSame, CancelSame
  <2>2. CASE CallClosed
    BY <1>1, <2>2 DEF ChatShape, CallClosed, ClosureMove, StreamSame, CancelSame
  <2>3. ASSUME NEW c \in Ids, CancelApproval(c) PROVE CancelMove /\ ~chat'.laneDown
    BY <1>1, <2>3 DEF ChatShape, CancelApproval, StopThrows, CancelMove, StreamSame, ClosureSame
  <2>4. ASSUME NEW c \in Ids, CancelCall(c) PROVE CancelMove /\ ~chat'.laneDown
    BY <1>1, <2>4 DEF ChatShape, CancelCall, CancelMove, StreamSame, ClosureSame
  <2>5. CASE CancelledCall
    BY <1>1, <2>5 DEF ChatShape, CancelledCall, StopThrows, CancelMove, StreamSame, ClosureSame
  <2>6. CASE StopSuspended
    BY <1>1, <2>6 DEF ChatShape, StopSuspended, CancelMove, StreamSame, ClosureSame
  <2>7. CASE StopCloses
    BY <1>1, <2>7 DEF ChatShape, StopCloses, StopThrows, CancelMove, StreamSame, ClosureSame
  <2>8. ASSUME NEW c \in Ids,
               PersistCall(c) \/ Schedule(c) \/ ScheduleThrows(c) \/ DecisionLands(c) \/ DecisionFails(c)
        PROVE  chat' = chat
    BY <2>8 DEF PersistCall, Schedule, ScheduleThrows, DecisionLands, DecisionFails
  <2>9. ASSUME NEW p, Return(p) \/ Settle(p) PROVE chat' = chat
    BY <2>9 DEF Return, Settle
  <2>10. CASE CommitLands
    BY <2>10, <1>2 DEF CommitLands
  <2> QED BY <1>2, <1>3, <2>1, <2>2, <2>3, <2>4, <2>5, <2>6, <2>7, <2>8, <2>9, <2>10
    DEF QuietStep, Unfailing
<1>4. ASSUME NEW c \in Ids, RecorderStep(c)
      PROVE  ~chat'.laneDown /\ (Rest \/ LaneMove(c))
  <2>1. CASE RequestLands(c)
    BY <1>1, <2>1 DEF ChatShape, RequestLands, LaneMove, StreamSame, ClosureSame, CancelSame
  <2>2. CASE RecorderRecords(c)
    BY <1>1, <2>2 DEF ChatShape, RecorderRecords, StreamSame, ClosureSame, CancelSame
  <2>3. CASE RecorderGoesOn(c)
    BY <1>1, <2>3 DEF ChatShape, RecorderGoesOn, LaneMove, StreamSame, ClosureSame, CancelSame
  <2> QED BY <1>4, <2>1, <2>2, <2>3 DEF RecorderStep, Unfailing
<1>5. ASSUME NEW c \in Ids, AnswerStep(c) PROVE Rest
  BY <1>1, <1>5 DEF ChatShape, AnswerStep, Act, Publish, Respond, StreamSame, ClosureSame, CancelSame
<1>6. ASSUME StreamStep PROVE ~chat'.laneDown /\ (Rest \/ StreamMove)
  <2>1. CASE Emit
    BY <1>1, <2>1 DEF ChatShape, Emit, StreamMove, ClosureSame, CancelSame
  <2>2. ASSUME NEW stop \in BOOLEAN, StreamEnds(stop) PROVE ~chat'.laneDown /\ StreamMove
    <3>1. chat.stream = "open" /\ chat' = [chat EXCEPT !.stream = "draining", !.aborted = stop]
      BY <2>2 DEF StreamEnds
    <3>2. /\ chat'.stream = "draining" /\ chat'.base = chat.base /\ chat'.lane = chat.lane
          /\ chat'.emitted = chat.emitted /\ chat'.made = chat.made /\ ClosureSame /\ CancelSame
          /\ ~chat'.laneDown
      BY <1>1, <3>1 DEF ChatShape, ClosureSame, CancelSame
    <3> QED BY <2>2, <3>1, <3>2 DEF StreamMove
  <2>3. CASE Drained
    BY <1>1, <2>3 DEF ChatShape, Drained, StreamMove, CancelSame
  <2>4. CASE Close
    BY <1>1, <2>4 DEF ChatShape, Close, StreamMove, ClosureSame
  <2>5. CASE Resume
    BY <1>1, <2>5 DEF ChatShape, Resume, ReadyToResume, StreamMove, ClosureSame, CancelSame
  <2>6. CASE BeginTurn
    BY <1>1, <2>6 DEF ChatShape, BeginTurn, NoChat, StreamMove
  <2>7. CASE Crash
    BY <1>1, <2>7 DEF ChatShape, Crash, NoChat, StreamMove
  <2>8. ASSUME NEW c \in Ids, SdkExecutes(c) PROVE Rest
    BY <1>1, <2>8 DEF ChatShape, SdkExecutes, StreamSame, ClosureSame, CancelSame
  <2> QED BY <1>6, <2>1, <2>2, <2>3, <2>4, <2>5, <2>6, <2>7, <2>8 DEF StreamStep
<1> QED BY <1>3, <1>4, <1>5, <1>6, StepKinds

------------------------------------------------------------------------------
(* The executor through every step in which no append fails. *)

\* What a step makes of the registration of d.
RegMove(d) ==
  \/ ex'.reg[d] = ex.reg[d]
  \/ PersistCall(d) /\ ex'.reg[d] # None /\ ex'.reg[d].st = "ok"
  \/ RecorderRecords(d) /\ ex.reg[d] = None
  \/ Joins(d) /\ ex.reg[d] = None /\ ex'.reg[d].ensure

\* What a step makes of the places whose result is durable already.
KeepsMove ==
  \/ ex'.keeps = ex.keeps
  \/ \E c \in Ids :
       Schedule(c) /\ ex'.keeps = [ex.keeps EXCEPT ![ex.owner[c].place] = disk.stored[c] # None]

\* A caller joins or makes a record.
LEMMA CalledRegisters ==
  ASSUME Typed, ~failed, NEW c \in Ids, NEW op \in {"run", "execute", "complete"},
         NEW value \in Answers \cup {None}, Called(c, op, value)
  PROVE  /\ ex'.owner[c] # None /\ ex'.keeps = ex.keeps
         /\ \A d \in Ids : d # c => ex'.reg[d] = ex.reg[d]
         /\ ex'.reg[c] = ex.reg[c] \/ (ex.reg[c] = None /\ ex'.reg[c].ensure)
<1> DEFINE own(place) == [op |-> op, value |-> value, pc |-> "waiting", place |-> place]
<1>0. /\ ex = [reg |-> ex.reg, appr |-> ex.appr, owner |-> ex.owner, callOf |-> ex.callOf,
               produced |-> ex.produced, keeps |-> ex.keeps]
      /\ ex.reg \in [Ids -> Registrations \cup {None}] /\ ex.owner \in [Ids -> Owners \cup {None}]
  BY DEF Typed
<1>1. \A p \in Calls : own(p) # None
  <2>1. \A p \in Calls : own(p) \in Owners
    BY DEF Owners
  <2> QED BY <2>1, Defined
<1>2. CASE Live(c) /\ ex' = ex
  BY <1>2 DEF Live
<1>3. CASE ex.reg[c] # None /\ ex' = [ex EXCEPT !.owner[c] = own(ex.reg[c].place)]
  <2> DEFINE y == own(ex.reg[c].place)
  <2>1. y # None /\ ex' = [ex EXCEPT !.owner[c] = y]
    BY <1>0, <1>1, <1>3 DEF Registrations
  <2> HIDE DEF y, own
  <2>2. ex'.reg = ex.reg /\ ex'.keeps = ex.keeps /\ ex'.owner = [ex.owner EXCEPT ![c] = y]
    BY <1>0, <2>1
  <2> QED BY <1>0, <2>1, <2>2
<1>4. CASE /\ ex.reg[c] = None /\ Enters(c)
           /\ ex' = [ex EXCEPT !.reg[c] = Registration(TRUE), !.callOf = Append(@, c),
                               !.owner[c] = own(NextPlace)]
  <2> DEFINE y == own(NextPlace)
             r == Registration(TRUE)
  <2>1. y # None /\ ex' = [ex EXCEPT !.reg[c] = r, !.callOf = Append(@, c), !.owner[c] = y]
    BY <1>1, <1>4 DEF Enters
  <2>2. r.ensure
    BY DEF Registration
  <2> HIDE DEF y, r, own
  <2>3. /\ ex'.reg = [ex.reg EXCEPT ![c] = r] /\ ex'.keeps = ex.keeps
        /\ ex'.owner = [ex.owner EXCEPT ![c] = y]
    BY <1>0, <2>1
  <2>4. ex'.reg[c] = r /\ ex'.owner[c] = y /\ \A d \in Ids : d # c => ex'.reg[d] = ex.reg[d]
    BY <1>0, <2>3
  <2> QED BY <1>4, <2>1, <2>2, <2>3, <2>4
<1> QED BY <1>2, <1>3, <1>4 DEF Called

\* So do those who call the executor.
LEMMA JoinsRegisters ==
  ASSUME Typed, ~failed, NEW c \in Ids, Joins(c)
  PROVE  /\ ex'.owner[c] # None /\ ex'.keeps = ex.keeps
         /\ \A d \in Ids : d # c => ex'.reg[d] = ex.reg[d]
         /\ ex'.reg[c] = ex.reg[c] \/ (ex.reg[c] = None /\ ex'.reg[c].ensure)
<1>1. PICK op \in {"run", "execute", "complete"}, value \in Answers \cup {None} : Called(c, op, value)
  BY DEF Joins, SdkExecutes, CloseCall, CancelCall, Act, Answers
<1> QED BY <1>1, CalledRegisters

\* No step does anything else to registrations and durable results.
LEMMA RegMoves ==
  ASSUME XInv, XNext, ~Crash, Unfailing, ~failed
  PROVE  KeepsMove /\ \A d \in Ids : RegMove(d)
<1>0. /\ ex = [reg |-> ex.reg, appr |-> ex.appr, owner |-> ex.owner, callOf |-> ex.callOf,
               produced |-> ex.produced, keeps |-> ex.keeps]
      /\ ex.reg \in [Ids -> Registrations \cup {None}] /\ Typed
  BY DEF XInv, Memory, Typed
<1>1. CASE ex'.reg = ex.reg /\ ex'.keeps = ex.keeps
  BY <1>1 DEF KeepsMove, RegMove
<1>2. ASSUME NEW c \in Ids, PersistCall(c) PROVE KeepsMove /\ \A d \in Ids : RegMove(d)
  <2>1. ex' = [ex EXCEPT !.reg[c] = [ex.reg[c] EXCEPT !.st = "ok"]] /\ ex.reg[c] \in Registrations
    BY <1>0, <1>2 DEF PersistCall
  <2> DEFINE r == [ex.reg[c] EXCEPT !.st = "ok"]
  <2>2. r.st = "ok" /\ r \in Registrations
    BY <2>1 DEF Registrations
  <2>3. r # None
    BY <2>2, Defined
  <2> HIDE DEF r
  <2>4. ex'.reg = [ex.reg EXCEPT ![c] = r] /\ ex'.keeps = ex.keeps
    BY <1>0, <2>1 DEF r
  <2> QED BY <1>0, <1>2, <2>2, <2>3, <2>4 DEF KeepsMove, RegMove
<1>3. ASSUME NEW c \in Ids, Schedule(c) PROVE KeepsMove /\ \A d \in Ids : RegMove(d)
  <2>1. ex'.reg = ex.reg
    BY <1>3, ScheduleMoves DEF XInv
  <2>2. ex'.keeps = [ex.keeps EXCEPT ![ex.owner[c].place] = disk.stored[c] # None]
    BY <1>0, <1>3 DEF Schedule, DurableResult
  <2> QED BY <1>3, <2>1, <2>2 DEF KeepsMove, RegMove
<1>4. ASSUME NEW c \in Ids, ScheduleThrows(c) \/ RequestLands(c) \/ DecisionLands(c) \/ DecisionFails(c)
                            \/ (RecorderGoesOn(c) /\ tool[c].asks)
      PROVE  ex'.reg = ex.reg /\ ex'.keeps = ex.keeps
  BY <1>0, <1>4 DEF ScheduleThrows, RequestLands, DecisionLands, DecisionFails, RecorderGoesOn
<1>5. ASSUME NEW c \in Ids, Decides(c) PROVE ex'.reg = ex.reg /\ ex'.keeps = ex.keeps
  BY <1>0, <1>5 DEF Decides, Decided
<1>6. ASSUME NEW c \in Ids, RecorderRecords(c) PROVE KeepsMove /\ \A d \in Ids : RegMove(d)
  <2> DEFINE r == Registration(FALSE)
  <2>1. ex' = [ex EXCEPT !.reg[c] = r, !.callOf = Append(@, c)] /\ ex.reg[c] = None
    BY <1>6 DEF RecorderRecords
  <2> HIDE DEF r
  <2>2. ex'.reg = [ex.reg EXCEPT ![c] = r] /\ ex'.keeps = ex.keeps
    BY <1>0, <2>1
  <2> QED BY <1>0, <1>6, <2>1, <2>2 DEF KeepsMove, RegMove
<1>7. ASSUME NEW c \in Ids, Joins(c) PROVE KeepsMove /\ \A d \in Ids : RegMove(d)
  BY <1>0, <1>7, JoinsRegisters DEF KeepsMove, RegMove
<1>8. ASSUME NEW p, Return(p) PROVE ex'.reg = ex.reg /\ ex'.keeps = ex.keeps
  BY <1>0, <1>8 DEF Return
<1>9. ASSUME NEW stop \in BOOLEAN, StreamEnds(stop) PROVE ex'.reg = ex.reg /\ ex'.keeps = ex.keeps
  BY <1>0, <1>9 DEF StreamEnds
<1> QED BY <1>1, <1>2, <1>3, <1>4, <1>5, <1>6, <1>7, <1>8, <1>9, RecordSteps DEF Unfailing

\* The scheduler fails by a commit that is refused, and commits in steps of one.
LEMMA SchedulerMoves ==
  ASSUME XInv, XNext, ~Crash, Unfailing, ~failed
  PROVE  /\ ~failed'
         /\ nextCommit' = nextCommit \/ (CommitLands /\ committing /\ nextCommit' = nextCommit + 1)
<1> DEFINE Rest == failed' = failed /\ nextCommit' = nextCommit
<1>1. \A i, k : Register(i, k) => Rest
  BY DEF Register
<1>2. \A i : Execute(i) \/ Complete(i) \/ BodyReturns(i) \/ BodySettles(i) => Rest
  BY DEF Execute, Complete, BodyReturns, BodySettles
<1>3. UNCHANGED vars => Rest
  BY DEF vars
<1>4. CASE Executor
  <2>1. ASSUME NEW c \in Ids, \/ PersistCall(c) \/ ScheduleThrows(c) \/ RequestLands(c)
                              \/ DecisionLands(c) \/ DecisionFails(c)
        PROVE  Rest
    BY <1>3, <2>1 DEF PersistCall, ScheduleThrows, RequestLands, DecisionLands, DecisionFails
  <2>2. ASSUME NEW c \in Ids, Schedule(c) PROVE Rest
    BY <1>2, <2>2 DEF Schedule
  <2>3. ASSUME NEW p, Return(p) \/ Settle(p) PROVE Rest
    BY <1>2, <2>3 DEF Return, Settle
  <2>4. CommitLands => committing /\ failed' = failed /\ nextCommit' = nextCommit + 1
    BY DEF CommitLands, CommitResolves
  <2> QED BY <1>4, <2>1, <2>2, <2>3, <2>4 DEF Executor, Unfailing
<1>5. ASSUME NEW c \in Ids, NEW op, NEW value, Called(c, op, value) PROVE Rest
  BY <1>1, <1>3, <1>5 DEF Called, Enters
<1>6. ASSUME NEW c \in Ids, Joins(c) PROVE Rest
  BY <1>5, <1>6 DEF Joins, SdkExecutes, CloseCall, CancelCall, Act
<1>7. ASSUME NEW c \in Ids, RecorderRecords(c) \/ RecorderGoesOn(c) PROVE Rest
  BY <1>1, <1>3, <1>7 DEF RecorderRecords, RecorderGoesOn, Enters
<1>8. CASE Recorder
  BY <1>7, <1>8 DEF Recorder
<1>9. CASE Closing
  <2>1. ASSUME NEW c \in Ids, CloseApproval(c) \/ CancelApproval(c) \/ Publish(c) PROVE Rest
    BY <1>3, <2>1 DEF CloseApproval, CancelApproval, Publish
  <2>2. CASE Drained \/ CallClosed \/ Close \/ CancelledCall \/ StopCloses
    BY <1>3, <2>2 DEF Drained, CallClosed, Close, CancelledCall, StopCloses
  <2> QED BY <1>6, <1>9, <2>1, <2>2 DEF Closing, Joins
<1>10. CASE BeginTurn \/ Resume \/ Emit \/ StopSuspended
  BY <1>3, <1>10 DEF BeginTurn, Resume, Emit, StopSuspended
<1>11. ASSUME NEW stop \in BOOLEAN, StreamEnds(stop) PROVE Rest
  BY <1>3, <1>11 DEF StreamEnds
<1>12. ASSUME NEW c \in Ids, NEW out, Respond(c, out) PROVE Rest
  BY <1>3, <1>12 DEF Respond
<1> QED BY <1>4, <1>6, <1>8, <1>9, <1>10, <1>11, <1>12 DEF XNext, Joins

------------------------------------------------------------------------------
(* A step in which no append fails, and who takes it. *)

Steady == Before /\ XNext /\ ~Crash /\ Unfailing

\* A record is made by a caller, and is gone when its place or result is refused.
LEMMA OwnerSteps ==
  ASSUME XInv, XNext, ~Crash, Unfailing, ~failed, NEW d \in Ids
  PROVE  /\ ex.owner[d] # None /\ ex'.owner[d] = None => ScheduleThrows(d)
         /\ ex.owner[d] = None /\ ex'.owner[d] # None => Joins(d)
<1>0. Memory /\ IInv /\ Faithful(disk) /\ Typed
  BY DEF XInv, Memory
<1>1. CASE ex'.owner[d] = ex.owner[d]
  BY <1>1
<1>2. ASSUME NEW c \in Ids, PersistCall(c) PROVE ex'.owner = ex.owner
  BY <1>0, <1>2, PersistMoves
<1>3. ASSUME NEW c \in Ids, Schedule(c)
      PROVE  ex'.owner[d] = ex.owner[d] \/ (ex.owner[d] # None /\ ex'.owner[d] # None)
  BY <1>0, <1>3, ScheduleMoves
<1>4. ASSUME NEW c \in Ids, ScheduleThrows(c)
      PROVE  ex'.owner[d] = ex.owner[d] \/ (ex.owner[d] # None /\ ScheduleThrows(d))
  BY <1>0, <1>4, ScheduleMoves
<1>5. ASSUME NEW c \in Ids, RequestLands(c) \/ DecisionLands(c) \/ DecisionFails(c)
      PROVE  ex'.owner = ex.owner
  BY <1>0, <1>5, ApprovalMoves
<1>6. ASSUME NEW c \in Ids, RecorderRecords(c) PROVE ex'.owner[d] = ex.owner[d]
  BY <1>0, <1>6, RecorderRecordsMoves
<1>7. ASSUME NEW c \in Ids, RecorderGoesOn(c) PROVE ex'.owner = ex.owner
  BY <1>0, <1>7, OneRecord DEF RecorderGoesOn
<1>8. ASSUME NEW c \in Ids, Joins(c)
      PROVE  ex'.owner[d] = ex.owner[d] \/ (ex'.owner[d] # None /\ Joins(d))
  <2>1. CASE c = d
    BY <1>0, <1>8, <2>1, JoinsRegisters
  <2>2. CASE c # d
    BY <1>0, <1>8, <2>2, JoinsMoves
  <2> QED BY <2>1, <2>2
<1>9. ASSUME NEW c \in Ids, Decides(c) PROVE ex'.owner = ex.owner
  BY <1>0, <1>9, DecidedMoves DEF Decides
<1>10. ASSUME NEW p, Return(p) PROVE ex'.owner = ex.owner
  BY <1>0, <1>10, RunMoves
<1>11. ASSUME NEW stop \in BOOLEAN, StreamEnds(stop)
       PROVE  ex'.owner[d] = ex.owner[d] \/ (ex.owner[d] # None /\ ex'.owner[d] # None)
  BY <1>0, <1>11, RunMoves
<1>12. CASE ex' = ex
  BY <1>12
<1> QED BY <1>2, <1>3, <1>4, <1>5, <1>6, <1>7, <1>8, <1>9, <1>10, <1>11, <1>12, RecordSteps
  DEF Unfailing

\* A decision is put into an approval by the closure of the stream, a Stop or the
\* user.
LEMMA ApprSteps ==
  ASSUME XInv, XNext, ~Crash, Unfailing, NEW d \in Ids
  PROVE  \/ ex'.appr[d] = ex.appr[d]
         \/ RequestLands(d) \/ DecisionLands(d) \/ DecisionFails(d) \/ RecorderGoesOn(d)
         \/ CloseApproval(d) \/ CancelApproval(d) \/ \E out \in {"yes", "no"} : Respond(d, out)
<1>0. Memory /\ IInv /\ Faithful(disk) /\ Typed
  BY DEF XInv, Memory
<1>1. ASSUME NEW c \in Ids, PersistCall(c) \/ Schedule(c) \/ ScheduleThrows(c)
      PROVE  ex'.appr = ex.appr
  BY <1>0, <1>1, PersistMoves, ScheduleMoves
<1>2. ASSUME NEW c \in Ids, RequestLands(c) \/ DecisionLands(c) \/ DecisionFails(c)
      PROVE  c = d \/ ex'.appr[d] = ex.appr[d]
  BY <1>0, <1>2, ApprovalMoves
<1>3. ASSUME NEW c \in Ids, RecorderRecords(c) \/ Joins(c) PROVE ex'.appr = ex.appr
  BY <1>0, <1>3, RecorderRecordsMoves, JoinsMoves
<1>4. ASSUME NEW c \in Ids, RecorderGoesOn(c) PROVE c = d \/ ex'.appr[d] = ex.appr[d]
  BY <1>0, <1>4, OneRecord DEF RecorderGoesOn
<1>5. ASSUME NEW c \in Ids, NEW out \in Outs, c # d, ex' = ex \/ ex' = Decided(ex, c, out)
      PROVE  ex'.appr[d] = ex.appr[d]
  BY <1>0, <1>5 DEF Decided, Typed
<1>6. ASSUME NEW c \in Ids, CloseApproval(c) \/ CancelApproval(c)
      PROVE  c = d \/ ex'.appr[d] = ex.appr[d]
  BY <1>5, <1>6 DEF CloseApproval, CancelApproval, Outs
<1>7. ASSUME NEW c \in Ids, NEW out \in {"yes", "no"}, Respond(c, out)
      PROVE  c = d \/ ex'.appr[d] = ex.appr[d]
  BY <1>5, <1>7 DEF Respond, Outs
<1>8. ASSUME NEW p, Return(p) PROVE ex'.appr = ex.appr
  BY <1>0, <1>8, RunMoves
<1>9. ASSUME NEW stop \in BOOLEAN, StreamEnds(stop) PROVE ex'.appr = ex.appr
  BY <1>0, <1>9, RunMoves
<1>10. CASE Idle
  BY <1>10, IdleStays
<1> QED BY <1>1, <1>2, <1>3, <1>4, <1>6, <1>7, <1>8, <1>9, <1>10
  DEF XNext, Executor, Recorder, Closing, Idle, Joins, Unfailing

\* Only a decision or a repair tells anything.
LEMMA ToldSteps ==
  ASSUME XInv, XNext, ~Crash, NEW d \in Ids
  PROVE  disk'.told[d] = disk.told[d] \/ DecisionLands(d) \/ DecisionFails(d) \/ Close
<1>0. Faithful(disk) /\ \A w : [disk EXCEPT !.v = w].told = disk.told
  BY DEF XInv, Faithful, IsDisk
<1>1. CASE disk' = disk
  BY <1>1
<1>2. \A e : With(e).told = disk.told
  BY <1>0 DEF With
<1>3. ASSUME NEW c \in Ids, PersistCall(c) \/ PersistCallFails(c) PROVE disk'.told = disk.told
  BY <1>2, <1>3 DEF PersistCall, PersistCallFails, Fails
<1>4. ASSUME NEW c \in Ids, RequestLands(c) \/ RequestFails(c) PROVE disk'.told = disk.told
  BY <1>2, <1>4 DEF RequestLands, RequestFails, Fails
<1>5. ASSUME NEW c \in Ids, DecisionLands(c) \/ DecisionFails(c), c # d
      PROVE  disk'.told[d] = disk.told[d]
  <2> DEFINE f == With(Decision(c))
  <2>1. f = [v |-> f.v, told |-> disk.told, stored |-> f.stored] /\ disk.told \in [Ids -> Outs \cup {None}]
    BY <1>0 DEF With, Faithful, IsDisk
  <2>2. disk' = disk \/ disk' = [f EXCEPT !.told[c] = ex.appr[c].out]
    BY <1>5 DEF DecisionLands, DecisionFails, Fails
  <2> HIDE DEF f
  <2> QED BY <1>5, <2>1, <2>2
<1>6. ASSUME CommitLands \/ CommitFails PROVE disk'.told = disk.told
  BY <1>6, ExecutorLeaves
<1>7. CASE BeginTurn
  BY <1>0, <1>7, BeginTurnTaken
<1>8. CASE Resume \/ StopCloses
  <2>1. ASSUME Resume PROVE \E w : disk' = [disk EXCEPT !.v = w]
    BY <2>1 DEF Resume
  <2>2. ASSUME StopCloses PROVE disk' = disk \/ \E w : disk' = [disk EXCEPT !.v = w]
    BY <2>2 DEF StopCloses
  <2>3. disk' = disk \/ \E w : disk' = [disk EXCEPT !.v = w]
    BY <1>8, <2>1, <2>2
  <2> QED BY <1>0, <2>3
<1> QED BY <1>1, <1>3, <1>4, <1>5, <1>6, <1>7, <1>8, DiskStays DEF Appends

\* What is true before a step, of the numbers and of a stream in particular.
LEMMA KnownBefore ==
  ASSUME Before
  PROVE  /\ chat.emitted \in Nat /\ chat.lane \in Nat /\ chat.base \in Nat
         /\ chat.base <= chat.lane /\ chat.lane <= chat.emitted
         /\ \A c \in Ids : c \in Nat /\ c # None
         /\ Memory /\ IInv /\ Typed /\ Faithful(disk) /\ ChatTyped /\ ChatShape /\ ~failed /\ ~chat.laneDown
         /\ \A c \in Ids : /\ Persisted(c) => Recorded(c)
                           /\ Asked(c) => Recorded(c)
                           /\ disk.told[c] # None => Recorded(c)
                           /\ disk.stored[c] # None => Recorded(c)
<1>1. \A c \in Ids : Persisted(c) => Recorded(c)
  BY DEF Before, XInv, Memory, PlacesFit, Persisted
<1>2. \A c \in Ids : /\ Asked(c) => Recorded(c)
                     /\ disk.told[c] # None => Recorded(c)
                     /\ disk.stored[c] # None => Recorded(c)
  BY DEF Before, XInv, Faithful, Sound, Remembered, Asked, Recorded
<1> QED BY <1>1, <1>2, Defined
  DEF Before, XInv, Memory, Callers, ChatTyped, Smooth, Counts

\* A step without failures records at most one call, and keeps what was recorded.
LEMMA RecordedSteps ==
  ASSUME Steady, NEW c \in Ids
  PROVE  /\ Recorded(c) => Recorded(c)'
         /\ Recorded(c)' => Recorded(c) \/ (PersistCall(c) /\ Due(c))
         /\ Persisted(c) => Persisted(c)'
         /\ PersistCall(c) => Persisted(c)'
<1>0. XInv /\ XNext /\ ~Crash /\ Typed /\ ChatShape
  BY KnownBefore DEF Steady, Before
<1>1. Recorded(c) => Recorded(c)'
  BY <1>0, HistoryStep DEF Grown, Recorded
<1>2. Recorded(c)' => Recorded(c) \/ PersistCall(c)
  BY <1>0, HistoryMoves DEF Steady, Before, Smooth, Recorded
<1>3. PersistCall(c) => Recorded(c) \/ Due(c)
  BY DEF PersistCall, Steady, Before, Smooth, EntriesFit
<1>4. Persisted(c) => Persisted(c)'
  BY <1>0, OwnerMoves
<1>5. ASSUME PersistCall(c) PROVE Persisted(c)'
  <2> DEFINE r == [ex.reg[c] EXCEPT !.st = "ok"]
  <2>1. ex.reg \in [Ids -> Registrations \cup {None}] /\ ex.reg[c] \in Registrations
    BY <1>0, <1>5 DEF Typed, PersistCall
  <2>2. r.st = "ok" /\ r # None
    BY <2>1, Defined DEF Registrations
  <2>3. ex'.reg = [ex.reg EXCEPT ![c] = r]
    BY <1>0, <1>5 DEF Typed, PersistCall
  <2> HIDE DEF r
  <2> QED BY <2>1, <2>2, <2>3 DEF Persisted
<1> QED BY <1>1, <1>2, <1>3, <1>4, <1>5

\* The chat in a step without failures.
LEMMA SteadyChat ==
  ASSUME Steady
  PROVE  /\ ~chat'.laneDown
         /\ \/ StreamSame /\ chat'.lane = chat.lane /\ ClosureSame /\ CancelSame
            \/ StreamMove \/ ClosureMove \/ CancelMove \/ \E c \in Ids : LaneMove(c)
         /\ \A c \in Ids : LaneMove(c) => c = chat.lane + 1 /\ chat.stream \in {"open", "draining"}
                                          /\ Persisted(c) /\ c <= chat.emitted
<1>1. ASSUME NEW c \in Ids, LaneMove(c) PROVE LaneAt(c) /\ Persisted(c)
  BY <1>1 DEF LaneMove, RequestLands, RecorderGoesOn, Steady, Before, Callers, LaneFits
<1> QED BY <1>1, ChatMoves, KnownBefore DEF Steady, LaneAt

\* The numbers stay numbers.
LEMMA CountsStep ==
  ASSUME Steady
  PROVE  Counts' /\ chat'.emitted \in Nat /\ chat'.emitted >= chat.emitted
<1>1. /\ chat.emitted \in Nat /\ chat.lane \in Nat /\ chat.base \in Nat
      /\ chat.base <= chat.lane /\ chat.lane <= chat.emitted /\ chat.emitted <= MaxIds
      /\ chat.made = [c \in Ids |-> chat.made[c]] /\ MaxIds \in Nat
  BY KnownBefore, ToolsAssumption DEF Steady, Before, Smooth, Counts
<1>2. CASE StreamSame /\ chat'.lane = chat.lane
  BY <1>1, <1>2 DEF StreamSame, Counts
<1>3. CASE StreamMove
  <2>1. CASE /\ Emit /\ chat'.base = chat.base /\ chat'.lane = chat.lane
             /\ chat'.emitted = chat.emitted + 1
             /\ chat'.made = [chat.made EXCEPT ![chat.emitted + 1] =
                  [turn |-> disk.v.openTurn, step |-> disk.v.openStep, requestId |-> disk.v.openTurn]]
    <3>1. chat.emitted < MaxIds
      BY <2>1 DEF Emit
    <3>2. chat'.made = [c \in Ids |-> chat'.made[c]]
      BY <1>1, <2>1
    <3> QED BY <1>1, <2>1, <3>1, <3>2 DEF Counts
  <2>2. CASE chat'.base = chat.base /\ chat'.lane = chat.lane /\ chat'.emitted = chat.emitted
             /\ chat'.made = chat.made
    BY <1>1, <2>2 DEF Counts
  <2>3. CASE chat'.base = chat.emitted /\ chat'.lane = chat.emitted /\ chat'.emitted = chat.emitted
             /\ chat'.made = chat.made
    BY <1>1, <2>3 DEF Counts
  <2> QED BY <1>3, <2>1, <2>2, <2>3 DEF StreamMove
<1>4. ASSUME NEW c \in Ids, LaneMove(c) PROVE Counts' /\ chat'.emitted = chat.emitted
  <2>1. chat'.lane = chat.lane + 1 /\ chat'.base = chat.base /\ chat'.emitted = chat.emitted
        /\ chat'.made = chat.made
    BY <1>4, SteadyChat DEF LaneMove, StreamSame
  <2> QED BY <1>1, <2>1 DEF Counts
<1> QED BY <1>1, <1>2, <1>3, <1>4, SteadyChat DEF ClosureMove, CancelMove

\* Calls stay recorded, registered and asked for as they should be.
LEMMA EntriesFitStep ==
  ASSUME Steady
  PROVE  EntriesFit'
<1>0. /\ XInv /\ Callers /\ XNext /\ ~Crash /\ EntriesFit /\ Counts /\ Unfailing
      /\ ~failed /\ ClosingFits /\ CancelFits
  BY DEF Steady, Before, Smooth
<1>1. /\ chat.emitted \in Nat /\ chat.lane \in Nat /\ chat.base \in Nat
      /\ chat.base <= chat.lane /\ chat.lane <= chat.emitted
      /\ chat'.emitted \in Nat /\ chat'.emitted >= chat.emitted
      /\ Memory /\ IInv /\ Faithful(disk) /\ Typed /\ ChatShape
  BY KnownBefore, CountsStep DEF Steady
<1> SUFFICES ASSUME NEW c \in Ids
             PROVE  /\ Recorded(c)' => c <= chat'.emitted
                    /\ ex'.appr[c] # None => Recorded(c)'
                    /\ c > chat'.base /\ (Recorded(c)' \/ c <= chat'.lane) => Persisted(c)'
                    /\ ex'.reg[c] # None /\ ex'.reg[c].st = "pending" =>
                         (Recorded(c)' /\ ex'.reg[c].ensure) \/ Due(c)'
  BY DEF EntriesFit
<1>2. c \in Nat
  BY Defined
<1>3. /\ Recorded(c) => Recorded(c)'
      /\ Recorded(c)' => Recorded(c) \/ (PersistCall(c) /\ Due(c))
      /\ Persisted(c) => Persisted(c)' /\ Recorded(c)
      /\ PersistCall(c) => Persisted(c)'
      /\ Asked(c) => Recorded(c)
      /\ disk.told[c] # None => Recorded(c)
  BY RecordedSteps, KnownBefore DEF Steady
<1>4. /\ Recorded(c) => c <= chat.emitted
      /\ ex.appr[c] # None => Recorded(c)
      /\ c > chat.base /\ (Recorded(c) \/ c <= chat.lane) => Persisted(c)
      /\ ex.reg[c] # None /\ ex.reg[c].st = "pending" =>
           (Recorded(c) /\ ex.reg[c].ensure) \/ Due(c)
  BY <1>0 DEF EntriesFit
<1>5. Recorded(c)' => c <= chat'.emitted
  BY <1>1, <1>2, <1>3, <1>4 DEF Due
<1>6. ex'.appr[c] # None => Recorded(c)'
  <2>1. ApprMove(c)
    BY <1>0, ApprMoves
  <2>2. ASSUME NEW out \in Outs, DecisionTold(c, out) PROVE Recorded(c)
    BY <1>3, <1>4, <2>2 DEF DecisionTold, MayDecide, Approval
  <2>3. RequestLands(c) \/ DecisionLands(c) \/ DecisionFails(c) => Recorded(c)
    BY <1>4 DEF RequestLands, DecisionLands, DecisionFails, Deciding
  <2>4. RecorderGoesOn(c) => Recorded(c)
    BY <1>3 DEF RecorderGoesOn
  <2> QED BY <1>3, <1>4, <2>1, <2>2, <2>3, <2>4 DEF ApprMove
<1>7. c > chat'.base /\ (Recorded(c)' \/ c <= chat'.lane) => Persisted(c)'
  <2>0. ASSUME c > chat.base, c <= chat.lane \/ Recorded(c)' PROVE Persisted(c)'
    BY <1>3, <1>4, <2>0
  <2>1. CASE chat'.base = chat.base /\ chat'.lane = chat.lane
    BY <2>0, <2>1
  <2>2. CASE chat'.base = chat.emitted /\ chat'.emitted = chat.emitted /\ chat'.lane = chat.emitted
    BY <1>1, <1>2, <1>5, <2>2
  <2>3. ASSUME NEW d \in Ids, LaneMove(d)
        PROVE  c > chat'.base /\ (Recorded(c)' \/ c <= chat'.lane) => Persisted(c)'
    <3>1. chat'.base = chat.base /\ chat'.lane = d /\ d = chat.lane + 1 /\ Persisted(d)
      BY <2>3, SteadyChat DEF LaneMove, StreamSame
    <3> QED BY <1>1, <1>2, <1>3, <2>0, <3>1
  <2> QED BY <2>1, <2>2, <2>3, SteadyChat DEF StreamMove, StreamSame, ClosureMove, CancelMove
<1>8. ASSUME ex'.reg[c] # None, ex'.reg[c].st = "pending"
      PROVE  (Recorded(c)' /\ ex'.reg[c].ensure) \/ Due(c)'
  <2>0. RegMove(c)
    BY <1>0, RegMoves
  <2>1. CASE ex'.reg[c] = ex.reg[c]
    <3>1. ~Persisted(c)' /\ ~PersistCall(c)
      BY <1>3, <1>8 DEF Persisted
    <3>2. CASE Recorded(c) /\ ex.reg[c].ensure
      BY <1>3, <2>1, <3>2
    <3>3. CASE Due(c)
      <4>1. ~Recorded(c)' /\ chat.stream \in {"open", "draining"} /\ chat.lane < c /\ c <= chat.emitted
        BY <1>3, <3>1, <3>3 DEF Due
      <4>2. chat'.stream \in {"open", "draining"} /\ chat'.lane < c
        <5>1. CASE StreamSame /\ chat'.lane = chat.lane
          BY <4>1, <5>1 DEF StreamSame
        <5>2. CASE StreamMove
          BY <1>1, <1>2, <4>1, <5>2, SteadyChat, <1>0 DEF StreamMove, Steady, Before, Smooth
        <5>3. ASSUME NEW d \in Ids, LaneMove(d) PROVE chat'.stream \in {"open", "draining"} /\ chat'.lane < c
          <6>1. chat'.lane = d /\ d = chat.lane + 1 /\ Persisted(d) /\ chat'.stream = chat.stream
            BY <5>3, SteadyChat DEF LaneMove, StreamSame
          <6>2. c # d
            BY <1>3, <3>1, <6>1
          <6> QED BY <1>1, <1>2, <4>1, <6>1, <6>2
        <5> QED BY <5>1, <5>2, <5>3, SteadyChat DEF ClosureMove, CancelMove
      <4> QED BY <1>1, <1>2, <4>1, <4>2 DEF Due
    <3> QED BY <1>4, <1>8, <2>1, <3>2, <3>3
  <2>2. CASE PersistCall(c) /\ ex'.reg[c].st = "ok"
    BY <1>8, <2>2
  <2>3. CASE RecorderRecords(c) /\ ex.reg[c] = None
    <3>1. LaneAt(c) /\ chat' = chat /\ disk' = disk
      BY <1>0, <2>3 DEF RecorderRecords
    <3>2. ~Recorded(c)
      BY <1>1, <1>2, <1>4, <2>3, <3>1 DEF LaneAt, Persisted
    <3> QED BY <1>1, <1>2, <3>1, <3>2 DEF Due, LaneAt, Recorded
  <2>4. CASE Joins(c) /\ ex.reg[c] = None /\ ex'.reg[c].ensure
    <3>1. ~Persisted(c) /\ disk' = disk
      BY <1>0, <1>1, <2>4, JoinsMoves DEF Persisted
    <3>2. ASSUME SdkExecutes(c) PROVE Recorded(c) \/ Due(c)'
      <4>1. /\ chat.stream = "open" /\ (c > chat.base \/ disk.told[c] = "yes")
            /\ c > chat.base => c <= chat.emitted
        BY <1>1, <1>2, <3>2 DEF SdkExecutes
      <4>2. disk.told[c] = "yes" => Recorded(c)
        BY <1>3, Defined DEF Outs
      <4>3. chat'.stream = "open" /\ chat'.lane = chat.lane /\ chat'.emitted = chat.emitted
        BY <1>1, <3>2, <4>1 DEF SdkExecutes, ChatShape
      <4>4. c > chat.base => ~Recorded(c) /\ chat.lane < c
        BY <1>1, <1>2, <1>4, <3>1
      <4>5. ~Recorded(c) => ~Recorded(c)'
        BY <3>1 DEF Recorded
      <4> QED BY <4>1, <4>2, <4>3, <4>4, <4>5 DEF Due
    <3>3. ASSUME CloseCall(c) PROVE FALSE
      BY <1>0, <3>1, <3>3 DEF CloseCall, NextOf, ClosingFits
    <3>4. ASSUME CancelCall(c) PROVE Recorded(c)
      BY <1>0, <3>4 DEF CancelCall, NextOf, CancelFits
    <3>5. ASSUME Act(c) PROVE Recorded(c)
      BY <1>0, <1>3, <3>5 DEF Act, Callers, ToldFits
    <3> QED BY <1>3, <2>4, <3>2, <3>3, <3>4, <3>5 DEF Joins
  <2> QED BY <2>0, <2>1, <2>2, <2>3, <2>4 DEF RegMove
<1> QED BY <1>5, <1>6, <1>7, <1>8

\* The stream goes on, ends, or begins; it stands still while the turn is suspended.
LEMMA StreamSteps ==
  ASSUME Steady
  PROVE  /\ chat'.stream # "off" =>
              \/ chat.stream # "off" /\ chat'.base = chat.base
              \/ /\ Resume \/ BeginTurn
                 /\ chat.stream = "off" /\ chat'.base = chat.emitted /\ chat'.emitted = chat.emitted
         /\ chat'.stream \in {"open", "draining"} =>
              \/ /\ chat.stream \in {"open", "draining"} /\ chat'.base = chat.base
                 /\ \/ chat'.emitted = chat.emitted /\ chat'.made = chat.made
                    \/ /\ Emit /\ chat'.emitted = chat.emitted + 1
                       /\ chat'.made = [chat.made EXCEPT ![chat.emitted + 1] =
                            [turn |-> disk.v.openTurn, step |-> disk.v.openStep,
                             requestId |-> disk.v.openTurn]]
              \/ /\ Resume \/ BeginTurn
                 /\ chat.stream = "off" /\ chat'.base = chat.emitted /\ chat'.emitted = chat.emitted
         /\ Resume => Suspended /\ chat.stream = "off" /\ chat'.stream = "open"
         /\ BeginTurn => disk.v.openTurn = None
         /\ StopCloses => chat'.stream = chat.stream
         /\ Close => chat.stream = "closing" /\ chat'.stream = "off" /\ chat.todo = {} /\ ~Suspended
<1> DEFINE Begins ==
             /\ Resume \/ BeginTurn
             /\ chat.stream = "off" /\ chat'.base = chat.emitted /\ chat'.emitted = chat.emitted
           Emits ==
             /\ Emit /\ chat'.emitted = chat.emitted + 1
             /\ chat'.made = [chat.made EXCEPT ![chat.emitted + 1] =
                  [turn |-> disk.v.openTurn, step |-> disk.v.openStep, requestId |-> disk.v.openTurn]]
           On == chat'.stream # "off" => (chat.stream # "off" /\ chat'.base = chat.base) \/ Begins
           Runs ==
             chat'.stream \in {"open", "draining"} =>
               \/ /\ chat.stream \in {"open", "draining"} /\ chat'.base = chat.base
                  /\ (chat'.emitted = chat.emitted /\ chat'.made = chat.made) \/ Emits
               \/ Begins
<1>0. ChatTyped /\ ChatShape /\ ~Crash /\ Apart
  BY KnownBefore DEF Steady, Before, Callers
<1>1. ASSUME StreamSame PROVE On /\ Runs
  <2> HIDE DEF Begins, Emits
  <2> QED BY <1>1 DEF StreamSame
<1>2. ASSUME StreamMove PROVE On /\ Runs
  <2>1. CASE Emits /\ chat'.stream = chat.stream /\ chat'.base = chat.base
    <3>1. chat.stream = "open"
      BY <2>1 DEF Emit
    <3> HIDE DEF Begins, Emits
    <3> QED BY <2>1, <3>1
  <2>2. CASE Begins
    <3> HIDE DEF Begins, Emits
    <3> QED BY <2>2
  <2>3. CASE chat.stream = "open" /\ chat'.stream = "draining" /\ chat'.base = chat.base
             /\ chat'.emitted = chat.emitted /\ chat'.made = chat.made
    <3> HIDE DEF Begins, Emits
    <3> QED BY <2>3
  <2>4. CASE chat'.stream = "off" \/ (chat.stream = "draining" /\ chat'.stream = "closing"
                                      /\ chat'.base = chat.base)
    <3> HIDE DEF Begins, Emits
    <3> QED BY <2>4
  <2> QED BY <1>0, <1>2, <2>1, <2>2, <2>3, <2>4 DEF StreamMove
<1>3. On /\ Runs
  <2> HIDE DEF On, Runs
  <2> QED BY <1>1, <1>2, SteadyChat DEF ClosureMove, CancelMove, LaneMove
<1>4. Resume => Suspended /\ chat.stream = "off" /\ chat'.stream = "open"
  BY <1>0, StreamMoves DEF Resume, ReadyToResume
<1>5. BeginTurn => disk.v.openTurn = None
  BY DEF BeginTurn
<1>6. StopCloses => chat'.stream = chat.stream
  BY <1>0, QuietStays DEF QuietStep, Quiet, StreamStays
<1>7. Close => chat.stream = "closing" /\ chat'.stream = "off" /\ chat.todo = {} /\ ~Suspended
  BY <1>0, StreamMoves DEF Close, Apart
<1> QED BY <1>3, <1>4, <1>5, <1>6, <1>7

\* A stream, and a suspension, stay in an open step.
LEMMA StepOpenStep ==
  ASSUME Steady, XInv'
  PROVE  StepOpen'
<1>0. /\ XInv /\ XNext /\ ~Crash /\ StepOpen /\ Counts /\ Unfailing /\ Numbered(disk.v)
      /\ Faithful(disk) /\ ChatShape /\ chat.emitted \in Nat
  BY KnownBefore DEF Steady, Before, Smooth
<1>1. Suspended' => disk'.v.openTurn # None
  BY DEF XInv, Faithful, Sound, Suspended
<1>2. \/ disk'.v.openTurn = disk.v.openTurn /\ disk'.v.openStep = disk.v.openStep
      \/ BeginTurn \/ StopCloses \/ Close
  BY <1>0, HistoryMoves
<1>3. Suspended' => Suspended \/ Close
  BY <1>0, SuspensionLeaves DEF Suspended
<1>4. chat'.stream # "off" => chat.stream # "off" \/ Resume \/ BeginTurn
  BY StreamSteps
<1>5. chat'.stream # "off" \/ Suspended' => disk'.v.openTurn # None /\ disk'.v.openStep # None
  <2>1. CASE BeginTurn
    BY <1>0, <2>1, BeginTurnNumbers
  <2>2. CASE StopCloses /\ ~BeginTurn
    <3>1. disk' = disk \/ (Suspended /\ disk'.v.openTurn = None)
      BY <1>0, <2>2, TurnNumbers
    <3>2. chat'.stream = chat.stream
      BY <2>2, StreamSteps
    <3>3. Suspended => chat.stream = "off"
      BY DEF Steady, Before, Callers, Apart
    <3> QED BY <1>0, <1>1, <3>1, <3>2, <3>3 DEF StepOpen, Suspended
  <2>3. CASE Close
    <3>1. \/ disk' = disk \/ disk'.v.openTurn = None
          \/ disk'.v.openTurn = disk.v.openTurn /\ disk'.v.openStep = disk.v.openStep
      BY <1>0, <2>3, TurnNumbers
    <3>2. chat.stream = "closing" /\ chat'.stream = "off"
      BY <2>3, StreamSteps
    <3> QED BY <1>0, <1>1, <3>1, <3>2 DEF StepOpen
  <2>4. CASE /\ disk'.v.openTurn = disk.v.openTurn /\ disk'.v.openStep = disk.v.openStep
             /\ ~BeginTurn /\ ~StopCloses /\ ~Close
    <3>1. Resume => Suspended
      BY StreamSteps
    <3> QED BY <1>0, <1>3, <1>4, <2>4, <3>1 DEF StepOpen
  <2> QED BY <1>2, <2>1, <2>2, <2>3, <2>4
<1>6. ASSUME chat'.stream \in {"open", "draining"}, NEW c \in Ids, c > chat'.base, c <= chat'.emitted
      PROVE  chat'.made[c] = [turn |-> disk'.v.openTurn, step |-> disk'.v.openStep,
                              requestId |-> disk'.v.openTurn]
  <2>0. c \in Nat
    BY Defined
  <2>1. /\ chat.stream \in {"open", "draining"} /\ chat'.base = chat.base
        /\ \/ chat'.emitted = chat.emitted /\ chat'.made = chat.made
           \/ /\ Emit /\ chat'.emitted = chat.emitted + 1
              /\ chat'.made = [chat.made EXCEPT ![chat.emitted + 1] =
                   [turn |-> disk.v.openTurn, step |-> disk.v.openStep, requestId |-> disk.v.openTurn]]
    BY <1>0, <1>6, <2>0, StreamSteps
  <2>2. disk'.v.openTurn = disk.v.openTurn /\ disk'.v.openStep = disk.v.openStep
    <3>1. ~BeginTurn /\ ~Close
      BY <1>0, <2>1, StreamSteps DEF BeginTurn
    <3>2. StopCloses => disk' = disk
      <4>1. StopCloses => disk' = disk \/ Suspended
        BY <1>0, TurnNumbers
      <4> QED BY <2>1, <4>1 DEF Steady, Before, Callers, Apart
    <3> QED BY <1>2, <3>1, <3>2
  <2>3. CASE c <= chat.emitted
    <3>1. chat.made[c] = [turn |-> disk.v.openTurn, step |-> disk.v.openStep,
                          requestId |-> disk.v.openTurn]
      BY <1>0, <1>6, <2>1, <2>3 DEF StepOpen
    <3>2. chat'.made[c] = chat.made[c]
      BY <1>0, <2>0, <2>1, <2>3 DEF Counts
    <3> QED BY <2>2, <3>1, <3>2
  <2>4. CASE c > chat.emitted
    <3>1. c = chat.emitted + 1 /\ chat'.made = [chat.made EXCEPT ![c] =
            [turn |-> disk.v.openTurn, step |-> disk.v.openStep, requestId |-> disk.v.openTurn]]
      BY <1>0, <1>6, <2>0, <2>1, <2>4
    <3> QED BY <1>0, <2>2, <3>1 DEF Counts
  <2> QED BY <1>0, <2>0, <2>3, <2>4
<1> QED BY <1>5, <1>6 DEF StepOpen

\* Only the calls of a suspended turn wait for their decisions while no stream runs.
LEMMA StreamFitsStep ==
  ASSUME Steady, ~UserWrites
  PROVE  StreamFits'
<1>0. /\ XInv /\ XNext /\ ~Crash /\ StreamFits /\ EntriesFit /\ ClosingFits /\ CancelFits /\ AwaitsAll
      /\ Unfailing /\ Faithful(disk) /\ chat.emitted \in Nat /\ Callers /\ tool' = tool
      /\ Memory /\ Numbered(disk.v) /\ ChatShape
  BY KnownBefore, ToolStays DEF Steady, Before, Smooth
<1> SUFFICES ASSUME chat'.stream # "off", NEW c \in Ids
             PROVE  /\ c <= chat'.base /\ Recorded(c)' => disk'.stored[c] # None
                    /\ c > chat'.base /\ tool[c].asks =>
                         disk'.told[c] = None /\ (ex'.appr[c] # None => ex'.appr[c].st = "none")
  BY <1>0 DEF StreamFits
<1>1. c \in Nat /\ (disk.stored[c] # None => disk'.stored[c] # None)
  BY <1>0, Defined, HistoryStep DEF Grown
<1>2. Recorded(c)' => Recorded(c) \/ (PersistCall(c) /\ Due(c))
  BY RecordedSteps
<1>3. CASE /\ Resume \/ BeginTurn
           /\ chat.stream = "off" /\ chat'.base = chat.emitted /\ chat'.emitted = chat.emitted
  <2>1. Recorded(c)' => Recorded(c)
    BY <1>2, <1>3 DEF Due
  <2>2. Recorded(c) => disk.stored[c] # None
    <3>1. CASE Resume
      <4>1. /\ Suspended
            /\ \A d \in disk.v.suspension.callIds : chat.resp[d] = "done"
        BY <3>1 DEF Resume, ReadyToResume
      <4>2. Recorded(c) => disk.stored[c] # None \/ c \in disk.v.suspension.callIds
        BY <1>0, <4>1 DEF AwaitsAll, Awaited
      <4> QED BY <1>0, <4>1, <4>2 DEF Callers, ToldFits
    <3>2. CASE BeginTurn
      <4>1. disk.v.openTurn = None
        BY <3>2 DEF BeginTurn
      <4> QED BY <1>0, <4>1 DEF Faithful, Sound, Remembered, Recorded
    <3> QED BY <1>3, <3>1, <3>2
  <2>3. disk'.told = disk.told /\ ex' = ex
    <3>1. BeginTurn => disk'.told = disk.told
      BY <1>0, BeginTurnTaken
    <3>2. Resume => disk'.told = disk.told
      <4>1. \A w : [disk EXCEPT !.v = w].told = disk.told
        BY <1>0 DEF Faithful, IsDisk
      <4>2. ASSUME Resume PROVE \E w : disk' = [disk EXCEPT !.v = w]
        BY <4>2 DEF Resume
      <4> QED BY <4>1, <4>2
    <3> QED BY <1>3, <3>1, <3>2, IdleStays DEF Idle
  <2>4. c > chat.emitted => ~Recorded(c)
    BY <1>0, <1>1 DEF EntriesFit
  <2>5. ~Recorded(c) => disk.told[c] = None /\ ex.appr[c] = None
    BY <1>0 DEF EntriesFit, Faithful, Remembered, Recorded
  <2> QED BY <1>1, <1>3, <2>1, <2>2, <2>3, <2>4, <2>5
<1>4. CASE chat.stream # "off" /\ chat'.base = chat.base
  <2>0. /\ ~Suspended /\ ~Close
        /\ c <= chat.base /\ Recorded(c) => disk.stored[c] # None
        /\ c > chat.base /\ tool[c].asks =>
             disk.told[c] = None /\ (ex.appr[c] # None => ex.appr[c].st = "none")
    BY <1>0, <1>4, StreamSteps DEF StreamFits, Callers, Apart
  <2>1. c <= chat.base => ~Due(c)
    BY <1>1, KnownBefore DEF Due, Steady
  <2>2. ASSUME c > chat.base, tool[c].asks
        PROVE  disk'.told[c] = None /\ (ex'.appr[c] # None => ex'.appr[c].st = "none")
    <3>1. ~DecisionLands(c) /\ ~DecisionFails(c)
      BY <2>0, <2>2 DEF DecisionLands, DecisionFails, Deciding
    <3>2. disk'.told[c] = None
      BY <1>0, <2>0, <2>2, <3>1, ToldSteps
    <3>3. ~CloseApproval(c)
      BY <1>0, <2>2 DEF CloseApproval, NextOf, ClosingFits
    <3>4. \A out : ~Respond(c, out)
      BY <2>0 DEF Respond
    <3>5. ~CancelApproval(c)
      <4>1. c \in Nat /\ chat.base \in Nat
        BY <1>1, KnownBefore DEF Steady
      <4>2. CancelApproval(c) => c <= chat.base
        BY <1>0, <1>4 DEF CancelApproval, CancelFits
      <4> QED BY <2>2, <4>1, <4>2
    <3>6. RequestLands(c) => /\ ex.appr[c] # None /\ ex'.appr[c].st = ex.appr[c].st
      BY <1>0, ApprovalMoves
    <3>7. RecorderGoesOn(c) => ex'.appr[c].st = "none"
      <4>1. RecorderGoesOn(c) => /\ ex.appr[c] = None
                                 /\ ex' = [ex EXCEPT !.appr[c] = [request |-> "pending", out |-> None,
                                                                  st |-> "none"]]
        BY <2>2 DEF RecorderGoesOn
      <4> QED BY <1>0, <4>1, OneRecord DEF Memory
    <3>8. ex'.appr[c] # None => ex'.appr[c].st = "none"
      BY <1>0, <2>0, <2>2, <3>1, <3>3, <3>4, <3>5, <3>6, <3>7, ApprSteps
    <3> QED BY <3>2, <3>8
  <2> QED BY <1>1, <1>2, <1>4, <2>0, <2>1, <2>2
<1> QED BY <1>3, <1>4, StreamSteps

\* A turn is suspended for every call without a result.
LEMMA AwaitsAllStep ==
  ASSUME Steady, XInv'
  PROVE  AwaitsAll'
<1>0. /\ XInv /\ XNext /\ ~Crash /\ StreamFits /\ EntriesFit /\ ClosingFits /\ AwaitsAll
      /\ Unfailing /\ Faithful(disk) /\ Callers /\ Numbered(disk.v) /\ ChatShape
  BY KnownBefore DEF Steady, Before, Smooth
<1> SUFFICES ASSUME Suspended', NEW c \in Ids, Recorded(c)', disk'.stored[c] = None
             PROVE  c \in disk'.v.suspension.callIds
  BY DEF AwaitsAll, Awaited
<1>1. c \in Nat /\ disk.stored[c] = None
  BY <1>0, Defined, HistoryStep DEF Grown
<1>2. Recorded(c) \/ (PersistCall(c) /\ Due(c))
  BY RecordedSteps
<1>3. CASE disk'.v.suspension = disk.v.suspension
  <2>1. Suspended
    BY <1>3 DEF Suspended
  <2>2. ~Due(c)
    BY <1>0, <2>1 DEF Due, Callers, Apart
  <2> QED BY <1>0, <1>1, <1>2, <1>3, <2>1, <2>2 DEF AwaitsAll, Awaited
<1>4. CASE Close
  <2>1. chat.stream = "closing" /\ chat.todo = {} /\ ~Suspended
    BY <1>4, StreamSteps
  <2>2. disk'.v.suspension.callIds = WaitsForHuman
    <3>1. disk' # disk
      BY <2>1 DEF Suspended
    <3>2. disk'.v.openTurn # None
      BY DEF XInv, Faithful, Sound, Suspended
    <3> QED BY <1>0, <1>4, <3>1, <3>2, TurnNumbers
  <2>3. Recorded(c)
    BY <1>2, <2>1 DEF Due
  <2>4. c > chat.base /\ c <= chat.emitted
    BY <1>0, <1>1, <2>1, <2>3, KnownBefore DEF StreamFits, EntriesFit, Steady
  <2>5. tool[c].asks /\ chat.lane = chat.emitted
    BY <1>0, <1>1, <2>1, <2>4 DEF ClosingFits
  <2> QED BY <1>1, <2>2, <2>4, <2>5, KnownBefore DEF WaitsForHuman, Steady
<1> QED BY <1>0, <1>3, <1>4, SuspensionLeaves DEF Suspended

\* What a closing stream still has to close is closed, or is being closed.
LEMMA ClosingFitsStep ==
  ASSUME Steady
  PROVE  ClosingFits'
<1>0. /\ XInv /\ XNext /\ ~Crash /\ ClosingFits /\ EntriesFit /\ Counts /\ BodiesFit /\ Unfailing
      /\ Memory /\ IInv /\ Faithful(disk) /\ ~failed /\ tool' = tool /\ ~chat.laneDown
      /\ chat.emitted \in Nat /\ chat.lane \in Nat /\ chat.base \in Nat
  BY KnownBefore, ToolStays DEF Steady, Before, Callers, Smooth
<1> DEFINE todo == chat.todo
           Fit == {c \in Ids : c > chat.base /\ ~tool[c].asks /\ Persisted(c)}
<1>1. \A c \in Ids : /\ Persisted(c) => Persisted(c)'
                     /\ disk.stored[c] # None => disk'.stored[c] # None
                     /\ c \in Nat /\ c # None
  BY <1>0, RecordedSteps, HistoryStep, Defined DEF Grown
<1>2. ASSUME NEW c \in Ids, Persisted(c), ex.owner[c] # None
      PROVE  ex'.owner[c] # None \/ disk'.stored[c] # None
  <2> SUFFICES ASSUME ScheduleThrows(c) PROVE disk.stored[c] # None
    BY <1>0, <1>1, <1>2, OwnerSteps
  <2>1. ex.owner[c].pc = "waiting" /\ (Mismatch(c) \/ phase[ex.owner[c].place] # "registered")
    BY DEF ScheduleThrows
  <2>2. CASE Mismatch(c)
    BY <2>2 DEF Mismatch, DurableResult
  <2>3. CASE phase[ex.owner[c].place] # "registered"
    <3> DEFINE p == ex.owner[c].place
    <3>1. p \in DOMAIN ex.callOf /\ ex.callOf[p] = c
      BY <1>0, <1>2 DEF Memory, OwnersFit, PlacesFit
    <3>2. phase[p] # "free"
      BY <1>0, <3>1, PlaceTaken DEF Memory
    <3>3. ex.owner[c].pc = "scheduled"
      BY <1>0, <2>3, <3>1, <3>2 DEF BodiesFit, Given
    <3> QED BY <2>1, <3>3
  <2> QED BY <2>1, <2>2, <2>3
<1>3. CASE StreamSame /\ chat'.lane = chat.lane /\ ClosureSame
  BY <1>0, <1>1, <1>2, <1>3 DEF ClosingFits, StreamSame, ClosureSame
<1>4. CASE StreamMove
  <2>1. CASE chat.stream # "closing" /\ chat'.stream # "closing" /\ ClosureSame
    BY <1>0, <2>1 DEF ClosingFits, ClosureSame
  <2>2. CASE /\ Drained /\ chat.stream = "draining"
             /\ chat'.stream = "closing" /\ chat'.base = chat.base /\ chat'.lane = chat.lane
             /\ chat'.emitted = chat.emitted /\ chat'.at = chat.at
             /\ chat.lane = chat.emitted
             /\ chat'.todo = {c \in OpenCalls : ~Answered(c)}
    <3>1. chat'.at = None
      BY <1>0, <2>2 DEF ClosingFits
    <3>2. \A c \in chat'.todo : c \in Ids /\ c > chat.base /\ ~tool[c].asks /\ Persisted(c)
      <4>1. chat.emitted <= MaxIds /\ MaxIds \in Nat
        BY <1>0, ToolsAssumption DEF Counts
      <4>2. chat.lane = chat.emitted
        BY <2>2
      <4> QED BY <1>0, <2>2, <4>1, <4>2 DEF Ids, WaitsForHuman, OpenCalls
    <3>3. ASSUME NEW c \in Ids, c > chat.base, c <= chat.emitted
          PROVE  c \in chat'.todo \/ tool[c].asks \/ disk.stored[c] # None
      <4>1. Persisted(c)
        BY <1>0, <2>2, <3>3 DEF EntriesFit
      <4>2. c \in chat.base + 1 .. chat.emitted
        BY <1>0, <1>1, <3>3
      <4>3. c \in WaitsForHuman => tool[c].asks
        BY DEF WaitsForHuman
      <4>4. Answered(c) => disk.stored[c] # None
        BY <1>0, AnsweredStored
      <4> QED BY <2>2, <3>3, <4>1, <4>2, <4>3, <4>4 DEF OpenCalls
    <3> QED BY <1>0, <1>1, <2>2, <3>1, <3>2, <3>3 DEF ClosingFits
  <2>3. CASE chat.stream = "closing" /\ chat.todo = {} /\ chat'.stream = "off" /\ ClosureSame
    BY <1>0, <2>3 DEF ClosingFits, ClosureSame
  <2>4. CASE chat'.stream = "open" /\ chat'.at = None
    BY <2>4 DEF ClosingFits
  <2>5. Emit => chat.stream = "open"
    BY DEF Emit
  <2> QED BY <1>0, <1>4, <2>1, <2>2, <2>3, <2>4, <2>5 DEF StreamMove
<1>5. ASSUME NEW c \in Ids, LaneMove(c) PROVE ClosingFits'
  <2>1. chat.stream # "closing" /\ chat'.stream = chat.stream /\ chat'.at = chat.at
    BY <1>5, SteadyChat DEF LaneMove, StreamSame, ClosureSame
  <2> QED BY <1>0, <2>1 DEF ClosingFits
<1>6. CASE ClosureMove
  <2>0. StreamSame /\ chat'.lane = chat.lane
    BY <1>6 DEF ClosureMove
  <2>1. ASSUME NEW c \in Ids, CloseApproval(c) PROVE FALSE
    BY <1>0, <2>1 DEF CloseApproval, NextOf, ClosingFits
  <2>2. ASSUME NEW c \in Ids, CloseCall(c), chat'.at = c, chat'.todo = chat.todo PROVE ClosingFits'
    <3>1. c \in chat.todo /\ chat.stream = "closing"
      BY <2>2 DEF CloseCall, NextOf
    <3>2. ex'.owner[c] # None
      BY <1>0, <2>2, JoinsRegisters DEF Joins, Memory
    <3> QED BY <1>0, <1>1, <2>0, <2>2, <3>1, <3>2 DEF ClosingFits, StreamSame
  <2>3. CASE CallClosed /\ chat'.at = None /\ chat'.todo = chat.todo \ {chat.at}
    <3> DEFINE c == chat.at
    <3>1. chat.stream = "closing" /\ c # None /\ (Answered(c) \/ ~Live(c))
      BY <2>3 DEF CallClosed
    <3>2. c \in Ids /\ (ex.owner[c] # None \/ disk.stored[c] # None)
      BY <1>0, <3>1 DEF ClosingFits
    <3>3. disk.stored[c] # None
      BY <1>0, <3>1, <3>2, AnsweredStored, RejectedFailed
    <3> QED BY <1>0, <1>1, <2>0, <2>3, <3>1, <3>2, <3>3 DEF ClosingFits, StreamSame
  <2> QED BY <1>6, <2>1, <2>2, <2>3 DEF ClosureMove
<1>7. CASE CancelMove
  BY <1>3, <1>7 DEF CancelMove
<1> QED BY <1>3, <1>4, <1>5, <1>6, <1>7, SteadyChat

\* What a Stop has still to cancel can be cancelled.
LEMMA CancelFitsStep ==
  ASSUME Steady, XInv', Callers'
  PROVE  CancelFits'
<1>0. /\ XInv /\ XNext /\ ~Crash /\ CancelFits /\ EntriesFit /\ Counts /\ Unfailing
      /\ Memory /\ IInv /\ Faithful(disk) /\ tool' = tool /\ Numbered(disk.v) /\ ChatShape
      /\ chat.emitted \in Nat
  BY KnownBefore, ToolStays DEF Steady, Before, Smooth
<1>1. \A c \in Ids : /\ Recorded(c) => Recorded(c)'
                     /\ disk.told[c] # None => disk'.told[c] # None
                     /\ c \in Nat
  BY <1>0, RecordedSteps, HistoryStep, Defined DEF Grown
<1>2. CASE CancelSame /\ (chat'.stream # "off" => chat.stream # "off" /\ chat'.base = chat.base)
  BY <1>0, <1>1, <1>2 DEF CancelFits, CancelSame
<1>3. CASE CancelSame /\ chat'.base = chat.emitted
  BY <1>0, <1>1, <1>3 DEF CancelFits, CancelSame, EntriesFit
<1>4. CASE chat'.cancel = None
  BY <1>4 DEF CancelFits
<1>5. CASE Close
  <2>1. chat'.stream = "off"
    BY <1>5, StreamSteps
  <2>2. CASE chat'.cancel = chat.cancel
    BY <1>2, <2>1, <2>2 DEF CancelSame
  <2>3. CASE /\ chat'.cancel = [told |-> WaitsForHuman, todo |-> WaitsForHuman, at |-> None]
             /\ WaitsForHuman \subseteq {c \in Ids : Recorded(c)}
    <3> HIDE DEF WaitsForHuman
    <3> QED BY <1>1, <2>1, <2>3 DEF CancelFits
  <2> QED BY <1>0, <1>5, <2>2, <2>3, TurnNumbers
<1>6. CASE StopSuspended /\ StreamSame
           /\ chat'.cancel = [told |-> {c \in disk.v.suspension.callIds : disk.told[c] = None},
                              todo |-> {c \in disk.v.suspension.callIds : disk.stored[c] = None},
                              at |-> None]
  <2>1. Suspended /\ chat.stream = "off"
    BY <1>6 DEF StopSuspended
  <2> DEFINE W == disk.v.suspension.callIds
  <2>2. \A c \in W : c \in Ids /\ Recorded(c)
    BY <1>0, <2>1 DEF Faithful, Sound, Suspended, Recorded
  <2> HIDE DEF W
  <2>3. /\ chat'.cancel = [told |-> {c \in W : disk.told[c] = None},
                           todo |-> {c \in W : disk.stored[c] = None}, at |-> None]
        /\ chat'.stream = "off"
    BY <1>6, <2>1 DEF W, StreamSame
  <2> QED BY <1>1, <2>2, <2>3 DEF CancelFits
<1>7. ASSUME NEW k, chat.cancel # None, StreamSame,
             k = [told |-> k.told, todo |-> k.todo, at |-> k.at], chat'.cancel = k,
             k.told \subseteq chat.cancel.told, k.todo \subseteq chat.cancel.todo,
             \A c \in Ids \cap chat.cancel.told : c \in k.told \/ disk'.told[c] # None
      PROVE  CancelFits'
  BY <1>0, <1>1, <1>7 DEF CancelFits, StreamSame
<1>8. CASE CancelMove
  <2>1. StreamSame
    BY <1>8 DEF CancelMove
  <2>2. chat.cancel # None =>
          chat.cancel = [told |-> chat.cancel.told, todo |-> chat.cancel.todo, at |-> chat.cancel.at]
    BY <1>0 DEF CancelFits
  <2>3. ASSUME NEW c \in Ids, CancelApproval(c), chat.cancel # None, chat'.cancel = chat.cancel
        PROVE  CancelFits'
    BY <1>2, <2>1, <2>3 DEF CancelSame, StreamSame
  <2>4. ASSUME NEW c \in Ids, CancelApproval(c), chat.cancel # None, ex'.appr[c].st = "ok",
               chat'.cancel = [chat.cancel EXCEPT !.told = @ \ {c}]
        PROVE  CancelFits'
    <3> DEFINE k == [chat.cancel EXCEPT !.told = @ \ {c}]
    <3>1. CASE MayDecide(c, "cancelled")
      <4>1. ex' = Decided(ex, c, "cancelled") /\ disk' = disk
        BY <2>4, <3>1 DEF CancelApproval
      <4>2. "cancelled" \in Outs
        BY DEF Outs
      <4>3. ex'.appr[c] # None /\ ex'.appr[c].out = "cancelled"
        BY <1>0, <3>1, <4>1, <4>2, DecidedMoves DEF DecisionTold
      <4>4. disk'.told[c] = "cancelled"
        BY <2>4, <4>3 DEF Callers, ToldFits
      <4>5. disk'.told[c] # None
        BY <4>2, <4>4, Defined
      <4>6. /\ k = [told |-> k.told, todo |-> k.todo, at |-> k.at]
            /\ k.told = chat.cancel.told \ {c} /\ k.todo = chat.cancel.todo
        BY <2>2, <2>4
      <4> HIDE DEF k
      <4> QED BY <1>7, <2>1, <2>4, <4>5, <4>6 DEF k
    <3>2. CASE ~MayDecide(c, "cancelled")
      <4>1. chat' = [chat EXCEPT !.cancel = None, !.stopFailed = TRUE]
        BY <2>4, <3>2 DEF CancelApproval, StopThrows
      <4>2. chat'.cancel = None
        BY <1>0, <4>1 DEF ChatShape
      <4> QED BY <1>4, <4>2
    <3> QED BY <3>1, <3>2
  <2>5. ASSUME NEW c, chat.cancel # None, chat'.cancel = [chat.cancel EXCEPT !.at = c]
        PROVE  CancelFits'
    <3> DEFINE k == [chat.cancel EXCEPT !.at = c]
    <3>1. /\ k = [told |-> k.told, todo |-> k.todo, at |-> k.at]
          /\ k.told = chat.cancel.told /\ k.todo = chat.cancel.todo
      BY <2>2, <2>5
    <3> HIDE DEF k
    <3> QED BY <1>7, <2>1, <2>5, <3>1 DEF k
  <2>6. ASSUME chat.cancel # None,
               chat'.cancel = [chat.cancel EXCEPT !.at = None, !.todo = @ \ {chat.cancel.at}]
        PROVE  CancelFits'
    <3> DEFINE k == [chat.cancel EXCEPT !.at = None, !.todo = @ \ {chat.cancel.at}]
    <3>1. /\ k = [told |-> k.told, todo |-> k.todo, at |-> k.at]
          /\ k.told = chat.cancel.told /\ k.todo = chat.cancel.todo \ {chat.cancel.at}
      BY <2>2, <2>6
    <3> HIDE DEF k
    <3> QED BY <1>7, <2>1, <2>6, <3>1 DEF k
  <2> QED BY <1>4, <1>6, <1>8, <2>1, <2>3, <2>4, <2>5, <2>6 DEF CancelMove
<1>9. CASE StreamMove
  <2>1. CASE CancelSame
    BY <1>2, <1>3, <2>1, StreamSteps
  <2>2. CASE Close \/ chat'.cancel = None
    BY <1>4, <1>5, <2>2
  <2> QED BY <1>9, <2>1, <2>2 DEF StreamMove
<1>10. CASE StreamSame /\ CancelSame
  BY <1>2, <1>10 DEF StreamSame
<1> QED BY <1>8, <1>9, <1>10, SteadyChat DEF ClosureMove, LaneMove

\* What is run or completed was decided, if it asked.
LEMMA OwnersDecidedStep ==
  ASSUME Steady
  PROVE  OwnersDecided'
<1>0. /\ XInv /\ XNext /\ ~Crash /\ OwnersDecided /\ ClosingFits /\ CancelFits /\ Unfailing
      /\ Faithful(disk) /\ ~failed /\ tool' = tool /\ ToldFits
      /\ chat.emitted \in Nat /\ chat.base \in Nat
  BY KnownBefore, ToolStays DEF Steady, Before, Callers, Smooth
<1> SUFFICES ASSUME NEW c \in Ids, ex'.owner[c] # None, tool[c].asks
             PROVE  disk'.told[c] # None
  BY <1>0 DEF OwnersDecided
<1>1. disk.told[c] # None => disk'.told[c] # None
  BY <1>0, HistoryStep DEF Grown
<1>2. CASE ex.owner[c] # None
  BY <1>0, <1>1, <1>2 DEF OwnersDecided
<1>3. CASE ex.owner[c] = None
  <2>1. Joins(c)
    BY <1>0, <1>3, OwnerSteps
  <2>2. ASSUME SdkExecutes(c) PROVE disk.told[c] # None
    <3>1. disk.told[c] = "yes"
      BY <2>2 DEF SdkExecutes
    <3> QED BY <3>1, Defined DEF Outs
  <2>3. ~CloseCall(c)
    BY <1>0 DEF CloseCall, NextOf, ClosingFits
  <2>4. CancelCall(c) => disk.told[c] # None
    BY <1>0 DEF CancelCall, NextOf, CancelFits
  <2>5. ASSUME Act(c) PROVE disk.told[c] # None
    <3>1. /\ chat.resp[c] \in {"yes", "no"} /\ ex.appr[c].st = "ok"
          /\ ex.appr[c] # None /\ ex.appr[c].out = chat.resp[c]
      BY <1>0, <2>5 DEF Act, ToldFits
    <3>2. disk.told[c] = chat.resp[c]
      BY <1>0, <3>1 DEF ToldFits
    <3>3. chat.resp[c] \in Outs
      BY <3>1 DEF Outs
    <3> QED BY <3>2, <3>3, Defined
  <2> QED BY <1>1, <2>1, <2>2, <2>3, <2>4, <2>5 DEF Joins
<1> QED BY <1>2, <1>3

\* What is to be stored has no result until its commit.
LEMMA CommitsFitStep ==
  ASSUME Steady
  PROVE  CommitsFit'
<1>0. /\ XInv /\ XNext /\ ~Crash /\ CommitsFit /\ ClosingFits /\ StreamFits /\ EntriesFit /\ OwnersDecided
      /\ Unfailing /\ Memory /\ IInv /\ Typed /\ Faithful(disk) /\ ~failed /\ BodiesFit
  BY KnownBefore DEF Steady, Before, Callers, Smooth
<1> SUFFICES ASSUME NEW p \in DOMAIN ex'.callOf, Given(p)', p >= nextCommit', ~ex'.keeps[p]
             PROVE  disk'.stored[ex'.callOf[p]] = None
  BY DEF CommitsFit
<1> DEFINE c == ex.callOf[p]
<1>1. p \in DOMAIN ex.callOf /\ ex'.callOf[p] = c /\ PlaceMove(p)
  BY <1>0, PlaceMoves DEF Given
<1>2. p \in Calls /\ c \in Ids /\ p \in Nat
  BY <1>0, <1>1, PlaceTaken DEF Memory, Calls
<1>3. CASE ~Given(p) /\ Schedule(c) /\ ex.owner[c].place = p
  <2>1. ex'.keeps = [ex.keeps EXCEPT ![p] = disk.stored[c] # None] /\ disk' = disk
    BY <1>0, <1>3 DEF Schedule, DurableResult, Typed
  <2>2. ex'.keeps[p] = (disk.stored[c] # None)
    BY <1>0, <1>2, <2>1 DEF Typed
  <2> QED BY <1>1, <2>1, <2>2
<1>4. CASE Given(p)
  <2>1. ~ex.keeps[p]
    <3>1. CASE ex'.keeps = ex.keeps
      BY <3>1
    <3>2. ASSUME NEW d \in Ids, Schedule(d),
                 ex'.keeps = [ex.keeps EXCEPT ![ex.owner[d].place] = disk.stored[d] # None]
          PROVE  ~ex.keeps[p]
      <4>1. Execute(ex.owner[d].place) \/ Complete(ex.owner[d].place)
        BY <3>2 DEF Schedule
      <4>2. phase[ex.owner[d].place] = "registered"
        BY <4>1 DEF Execute, Complete
      <4>3. ex.owner[d].place # p
        BY <1>4, <4>2 DEF Given
      <4> QED BY <1>0, <1>2, <3>2, <4>3 DEF Typed
    <3> QED BY <1>0, <3>1, <3>2, RegMoves DEF KeepsMove
  <2>2. /\ nextCommit \in Nat
        /\ nextCommit' = nextCommit \/ (CommitLands /\ committing /\ nextCommit' = nextCommit + 1)
    BY <1>0, SchedulerMoves DEF IInv, TypeOK
  <2>3. disk.stored[c] = None
    <3>1. p >= nextCommit
      BY <1>2, <2>2
    <3> QED BY <1>0, <1>1, <1>4, <2>1, <3>1 DEF CommitsFit
  <2>4. /\ ex.reg[c] # None /\ ex.reg[c].place = p /\ Recorded(c)
        /\ ex.owner[c] # None
    BY <1>0, <1>1, <1>2, <1>4 DEF Memory, PlacesFit, BodiesFit
  <2>5. CASE disk'.stored = disk.stored
    BY <1>1, <2>3, <2>5
  <2>6. CASE CommitLands
    <3> DEFINE n == nextCommit
               d == ex.callOf[n]
    <3>1. committing /\ nextCommit' = n + 1
      BY <2>6 DEF CommitLands, CommitResolves
    <3>2. n \in DOMAIN ex.callOf /\ Given(n) /\ d \in Ids
      BY <1>0, <3>1, CommittedNext DEF Given, Ready
    <3>3. n # p /\ ex.reg[d].place = n
      BY <1>0, <1>2, <2>2, <3>1, <3>2 DEF Memory, PlacesFit
    <3>4. d # c
      BY <2>4, <3>3
    <3>5. disk'.stored[c] = disk.stored[c]
      <4> DEFINE f == With(Result(d, None))
      <4>1. f = [v |-> f.v, told |-> f.told, stored |-> disk.stored]
            /\ disk.stored \in [Ids -> Answers \cup {None}]
        BY <1>0 DEF With, Faithful, IsDisk
      <4>2. disk' = disk \/ disk' = [f EXCEPT !.stored[d] = ex.produced[n]]
        BY <2>6 DEF CommitLands
      <4> HIDE DEF f, d
      <4> QED BY <1>2, <3>4, <4>1, <4>2
    <3> QED BY <1>1, <2>3, <3>5
  <2>7. CASE Close
    <3>1. chat.stream = "closing" /\ chat.todo = {}
      BY <2>7, StreamSteps
    <3>2. c > chat.base /\ c <= chat.emitted
      BY <1>0, <1>2, <2>3, <2>4, <3>1, KnownBefore DEF StreamFits, EntriesFit, Steady
    <3>3. tool[c].asks
      BY <1>0, <1>2, <2>3, <3>1, <3>2 DEF ClosingFits
    <3>4. disk.told[c] = None
      BY <1>0, <1>2, <3>1, <3>2, <3>3 DEF StreamFits
    <3> QED BY <1>0, <1>2, <2>4, <3>3, <3>4 DEF OwnersDecided
  <2> QED BY <1>0, <2>5, <2>6, <2>7, HistoryLeaves DEF Unfailing
<1> QED BY <1>1, <1>3, <1>4 DEF PlaceMove

\* A new process starts with nothing to do, on a history that was repaired.
LEMMA CrashSmooth ==
  ASSUME Before, Crash, XNext, XInv'
  PROVE  Smooth'
<1>0. /\ XInv /\ EntriesFit /\ Counts /\ StepOpen /\ AwaitsAll /\ Numbered(disk.v)
      /\ Faithful(disk) /\ chat.emitted \in Nat
  BY KnownBefore DEF Before, Smooth
<1>1. /\ chat' = NoChat(chat.emitted, chat.made) /\ ex' = NoMemory /\ disk' = Repaired
      /\ failed' = FALSE
  BY DEF Crash
<1>2. /\ chat'.stream = "off" /\ chat'.base = chat.emitted /\ chat'.emitted = chat.emitted
      /\ chat'.lane = chat.emitted /\ chat'.laneDown = FALSE /\ chat'.made = chat.made
      /\ chat'.at = None /\ chat'.cancel = None
  BY <1>1 DEF NoChat
<1>3. /\ \A c \in Ids : ex'.reg[c] = None /\ ex'.appr[c] = None /\ ex'.owner[c] = None
      /\ DOMAIN ex'.callOf = {}
  BY <1>1 DEF NoMemory
<1>4. /\ Numbered(disk'.v) /\ DOMAIN disk'.v.calls = DOMAIN disk.v.calls
      /\ disk' = disk \/ (~Suspended /\ disk'.v.openTurn = None)
  BY <1>0, <1>1, RepairNumbers
<1>5. Suspended' => disk' = disk
  BY <1>4 DEF XInv, Faithful, Sound, Suspended
<1>6. \A c \in Ids : c \in Nat /\ (Recorded(c)' => c <= chat.emitted)
  BY <1>0, <1>4, Defined DEF EntriesFit, Recorded
<1>7. EntriesFit'
  BY <1>0, <1>2, <1>3, <1>6 DEF EntriesFit
<1>8. Counts'
  BY <1>0, <1>2 DEF Counts
<1>9. StepOpen'
  BY <1>0, <1>2, <1>5 DEF StepOpen, Suspended
<1>10. AwaitsAll'
  BY <1>0, <1>5 DEF AwaitsAll, Awaited, Suspended, Recorded
<1>11. StreamFits' /\ ClosingFits' /\ CancelFits' /\ OwnersDecided' /\ CommitsFit'
  BY <1>2, <1>3 DEF StreamFits, ClosingFits, CancelFits, OwnersDecided, CommitsFit
<1> QED BY <1>1, <1>2, <1>4, <1>7, <1>8, <1>9, <1>10, <1>11 DEF Smooth

\* A step in which no append fails leaves nothing to fail either.
LEMMA SmoothStep ==
  ASSUME Before, XNext, ~UserWrites, seen.failures = 0, seen'.failures = 0, XInv', Callers'
  PROVE  Smooth'
<1>1. CASE Crash
  BY <1>1, CrashSmooth
<1>2. CASE ~Crash
  <2>1. Steady
    BY <1>2, NothingFails DEF Steady
  <2>2. ~failed' /\ ~chat'.laneDown /\ Numbered(disk'.v)
    BY <2>1, SchedulerMoves, SteadyChat, HistoryMoves, KnownBefore DEF Steady, Before, Smooth
  <2> QED BY <2>1, <2>2, EntriesFitStep, CountsStep, StepOpenStep, StreamFitsStep, AwaitsAllStep,
             ClosingFitsStep, CancelFitsStep, OwnersDecidedStep, CommitsFitStep DEF Smooth
<1> QED BY <1>1, <1>2

\* Nothing failed before anybody called.
LEMMA UntroubledInit ==
  ASSUME XInit
  PROVE  Untroubled
<1>1. /\ disk = [v |-> Fresh, told |-> [c \in Ids |-> None], stored |-> [c \in Ids |-> None]]
      /\ ex = NoMemory /\ chat = NoChat(0, [c \in Ids |-> None]) /\ seen.failures = 0
      /\ failed = FALSE
  BY DEF XInit, Init
<1>2. /\ chat.stream = "off" /\ chat.base = 0 /\ chat.emitted = 0
      /\ chat.lane = 0 /\ chat.laneDown = FALSE /\ chat.made = [c \in Ids |-> None]
      /\ chat.at = None /\ chat.cancel = None
  BY <1>1 DEF NoChat
<1>3. /\ \A c \in Ids : ex.reg[c] = None /\ ex.appr[c] = None /\ ex.owner[c] = None
      /\ DOMAIN ex.callOf = {}
  BY <1>1 DEF NoMemory
<1>4. /\ Fresh.lastStep = 0 /\ Fresh.openTurn = None /\ Fresh.openStep = None
      /\ DOMAIN Fresh.requests = {} /\ DOMAIN Fresh.calls = {} /\ Fresh.suspension = None
  BY DEF Fresh, NoMap
<1>5. Numbered(disk.v) /\ ~Suspended /\ \A c \in Ids : ~Recorded(c) /\ c \in Nat /\ c > 0
  BY <1>1, <1>4 DEF Numbered, Suspended, Recorded, Ids
<1>6. EntriesFit
  BY <1>2, <1>3, <1>5 DEF EntriesFit
<1>7. Counts
  BY <1>2, ToolsAssumption DEF Counts
<1> QED BY <1>1, <1>2, <1>3, <1>5, <1>6, <1>7
  DEF Untroubled, Smooth, StepOpen, AwaitsAll, StreamFits, ClosingFits, CancelFits, OwnersDecided,
      CommitsFit

\* Every step keeps it.
LEMMA UntroubledStep ==
  ASSUME ~UserWrites
  PROVE  /\ XInv /\ Callers /\ XInv' /\ Callers' /\ Untroubled /\ [XNext]_xvars => Untroubled'
<1> SUFFICES ASSUME XInv, Callers, XInv', Callers', Untroubled, [XNext]_xvars PROVE Untroubled'
  OBVIOUS
<1>1. CASE UNCHANGED xvars
  <2>1. /\ UNCHANGED <<tool, disk, ex, chat, seen>>
        /\ phase' = phase /\ nextCommit' = nextCommit /\ failed' = failed
    BY <1>1 DEF xvars, vars
  <2>2. \A c \in Ids : /\ Recorded(c)' <=> Recorded(c)
                       /\ Persisted(c)' <=> Persisted(c)
                       /\ Due(c)' <=> Due(c)
                       /\ Awaited(c)' <=> Awaited(c)
    BY <2>1 DEF Recorded, Persisted, Due, Awaited, Suspended
  <2>3. Suspended' <=> Suspended
    BY <2>1 DEF Suspended
  <2>4. (EntriesFit' <=> EntriesFit) /\ (Counts' <=> Counts)
    BY <2>1, <2>2 DEF EntriesFit, Counts
  <2>5. (StepOpen' <=> StepOpen) /\ (Numbered(disk'.v) <=> Numbered(disk.v))
    BY <2>1, <2>3 DEF StepOpen
  <2>6. (StreamFits' <=> StreamFits) /\ (AwaitsAll' <=> AwaitsAll)
    BY <2>1, <2>2, <2>3 DEF StreamFits, AwaitsAll
  <2>7. (ClosingFits' <=> ClosingFits) /\ (CancelFits' <=> CancelFits)
    BY <2>1, <2>2 DEF ClosingFits, CancelFits
  <2>8. (OwnersDecided' <=> OwnersDecided) /\ (CommitsFit' <=> CommitsFit)
    BY <2>1 DEF OwnersDecided, CommitsFit, Given
  <2> QED BY <2>1, <2>4, <2>5, <2>6, <2>7, <2>8 DEF Untroubled, Calm, Smooth
<1>2. CASE XNext
  <2>1. seen'.failures \in Nat /\ seen'.failures >= seen.failures
    BY <1>2, FailuresStay DEF Untroubled
  <2>2. ASSUME seen'.failures = 0 PROVE Smooth'
    <3>1. seen.failures = 0
      BY <2>1, <2>2 DEF Untroubled
    <3> QED BY <1>2, <2>2, <3>1, SmoothStep DEF Untroubled, Calm, Before
  <2> QED BY <2>1, <2>2 DEF Untroubled, Calm
<1> QED BY <1>1, <1>2

\* "flushes the canonical result after completion" (README.md:7): as long as the
\* disk does not fail, the history takes every result the scheduler stores, for
\* any number of calls, crashes and stops; the user does not write to a suspended
\* chat.
THEOREM CommitsAreTaken == ~UserWrites => (XSpec => []ResultsAreTaken)
<1> SUFFICES ASSUME ~UserWrites PROVE XSpec => []ResultsAreTaken
  OBVIOUS
<1>1. XInit => Untroubled
  BY UntroubledInit
<1>2. /\ XInv /\ Callers /\ (XInv /\ Callers)' /\ Untroubled /\ [XNext]_xvars => Untroubled'
  BY UntroubledStep
<1>3. XInv /\ Callers /\ Untroubled => ResultsAreTaken
  BY ResultTakes DEF Untroubled, Calm, Smooth, ResultsAreTaken, Callers
<1>4. XSpec => [](XInv /\ Callers)
  BY CallersInvariance
<1> QED BY <1>1, <1>2, <1>3, <1>4, PTL DEF XSpec
=============================================================================
