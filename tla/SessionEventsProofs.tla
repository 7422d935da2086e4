------------------------- MODULE SessionEventsProofs -------------------------
(***************************************************************************)
(* What holds of every history the writers and the repairs of              *)
(* SessionEvents make, for any alphabet, any number of events and any      *)
(* number of repairs.                                                      *)
(***************************************************************************)
EXTENDS SessionEvents, SessionValidatorProofs, FiniteSetTheorems, SequenceTheorems

------------------------------------------------------------------------------
(* Sequences that a repair is made of. *)

IsSeq(h) == h \in Seq(Range(h))

\* A sequence is one over its own elements.
LEMMA SeqIsSeq ==
  ASSUME NEW S, NEW h \in Seq(S)
  PROVE  IsSeq(h) /\ Range(h) \subseteq S /\ \A i \in DOMAIN h : h[i] \in Range(h)
BY DEF IsSeq, Range

\* The empty batch and a batch of one event are sequences.
LEMMA ShortSeqs ==
  ASSUME NEW x
  PROVE  <<>> \in Seq({x}) /\ <<x>> \in Seq({x})
OBVIOUS

\* Two batches, one after the other, are a sequence of the events of both.
LEMMA ConcatIsSeq ==
  ASSUME NEW a, NEW b, IsSeq(a), IsSeq(b)
  PROVE  IsSeq(a \o b) /\ Range(a \o b) = Range(a) \cup Range(b)
<1> DEFINE S == Range(a) \cup Range(b)
<1>1. a \in Seq(S) /\ b \in Seq(S)
  BY DEF IsSeq
<1>2. \A i \in DOMAIN (a \o b) : (a \o b)[i] \in S
  BY <1>1
<1>3. ASSUME NEW x \in S PROVE \E i \in DOMAIN (a \o b) : (a \o b)[i] = x
  <2>1. CASE x \in Range(a)
    <3>1. PICK i \in DOMAIN a : a[i] = x
      BY <2>1 DEF Range
    <3>2. i \in DOMAIN (a \o b) /\ (a \o b)[i] = x
      BY <1>1, <3>1
    <3> QED BY <3>2
  <2>2. CASE x \in Range(b)
    <3>1. PICK i \in DOMAIN b : b[i] = x
      BY <2>2 DEF Range
    <3>2. Len(a) + i \in DOMAIN (a \o b) /\ (a \o b)[Len(a) + i] = x
      BY <1>1, <3>1
    <3> QED BY <3>2
  <2> QED BY <2>1, <2>2
<1>4. Range(a \o b) = S
  <2> HIDE DEF S
  <2> QED BY <1>2, <1>3 DEF Range
<1>5. a \o b \in Seq(S)
  BY <1>1
<1> QED BY <1>4, <1>5 DEF IsSeq

\* InAnyOrder has the events of its function and no others.
LEMMA InAnyOrderIsSeq ==
  ASSUME NEW f, f = [x \in DOMAIN f |-> f[x]], IsFiniteSet(DOMAIN f)
  PROVE  IsSeq(InAnyOrder(f)) /\ Range(InAnyOrder(f)) = Range(f)
<1> DEFINE s == SetToSeq(DOMAIN f)
           t == InAnyOrder(f)
<1>1. s \in Seq(DOMAIN f) /\ \A x \in DOMAIN f : \E i \in DOMAIN s : s[i] = x
  BY SetToSeqEnumerates
<1>2. t = [i \in DOMAIN s |-> f[s[i]]]
  BY DEF InAnyOrder
<1> HIDE DEF s, t
<1>3. Range(t) = Range(f)
  BY <1>1, <1>2 DEF Range
<1>4. DOMAIN t = 1 .. Len(s) /\ Len(s) \in Nat /\ \A i \in DOMAIN t : t[i] \in Range(t)
  BY <1>1, <1>2 DEF Range
<1>5. t \in Seq(Range(t))
  BY <1>2, <1>4
<1> QED BY <1>3, <1>5 DEF IsSeq, t

\* The values of a function on a finite set are finitely many.
LEMMA FiniteRange ==
  ASSUME NEW f, f = [x \in DOMAIN f |-> f[x]], IsFiniteSet(DOMAIN f)
  PROVE  IsFiniteSet(Range(f))
<1>1. f \in Surjection(DOMAIN f, Range(f))
  BY DEF Surjection, Range
<1> QED BY <1>1, FS_Surjection

------------------------------------------------------------------------------
(* The plan of a repair is a sequence of events. *)

\* A history whose identifiers are defined and whose messages ask for finitely
\* many calls.
IsHistory(h) ==
  /\ IsSeq(h)
  /\ \A e \in Range(h) : /\ Defined(e)
                         /\ e.type = "assistant/message" => IsFiniteSet(e.wants)

\* A history has finitely many positions.
LEMMA FinitePositions ==
  ASSUME NEW h, IsSeq(h)
  PROVE  IsFiniteSet(DOMAIN h)
<1>1. DOMAIN h = 1 .. Len(h) /\ Len(h) \in Nat
  BY DEF IsSeq
<1> QED BY <1>1, FS_Interval

\* The events of one type, and what one field of them holds.
LEMMA OfIsFinite ==
  ASSUME NEW h, IsSeq(h), NEW type, NEW id
  PROVE  /\ IsFiniteSet(Of(h, type))
         /\ IsFiniteSet({e[id] : e \in Of(h, type)})
<1> DEFINE D == {j \in DOMAIN h : h[j].type = type}
           f == [i \in D |-> h[i]]
           g == [e \in Of(h, type) |-> e[id]]
<1>1. IsFiniteSet(D)
  BY FinitePositions, FS_Subset
<1>2. Range(f) = Of(h, type)
  BY DEF Range, Of
<1>3. IsFiniteSet(Of(h, type))
  <2>1. f = [x \in DOMAIN f |-> f[x]] /\ DOMAIN f = D
    OBVIOUS
  <2> HIDE DEF f
  <2> QED BY <1>1, <1>2, <2>1, FiniteRange
<1>4. Range(g) = {e[id] : e \in Of(h, type)}
  BY DEF Range
<1>5. g = [x \in DOMAIN g |-> g[x]] /\ DOMAIN g = Of(h, type)
  OBVIOUS
<1> HIDE DEF g
<1> QED BY <1>3, <1>4, <1>5, FiniteRange

\* Finitely many requests have streamed text without a message.
LEMMA StreamedIsFinite ==
  ASSUME NEW h, IsSeq(h), NEW w
  PROVE  IsFiniteSet({e.requestId : e \in Streamed(h, w)})
<1>1. {e.requestId : e \in Streamed(h, w)} \in
        SUBSET {e.requestId : e \in Of(h, "assistant/chunk")}
  BY DEF Streamed
<1>2. IsFiniteSet({e["requestId"] : e \in Of(h, "assistant/chunk")})
  BY OfIsFinite
<1> QED BY <1>1, <1>2, FS_Subset

\* Finitely many compactions or children are left open.
LEMMA LeftOpenIsFinite ==
  ASSUME NEW h, IsSeq(h), NEW start, NEW end, NEW id
  PROVE  IsFiniteSet(LeftOpen(h, start, end, id))
<1>1. LeftOpen(h, start, end, id) \in SUBSET {e[id] : e \in Of(h, start)}
  BY DEF LeftOpen, Of
<1>2. IsFiniteSet({e[id] : e \in Of(h, start)})
  BY OfIsFinite
<1> QED BY <1>1, <1>2, FS_Subset

\* Finitely many retries are left open.
LEMMA OpenRetriesIsFinite ==
  ASSUME NEW h, IsSeq(h)
  PROVE  IsFiniteSet(OpenRetries(h))
<1>1. OpenRetries(h) \in SUBSET {e.retryId : e \in Of(h, "retry/scheduled")}
  BY DEF OpenRetries
<1>2. IsFiniteSet({e["retryId"] : e \in Of(h, "retry/scheduled")})
  BY OfIsFinite
<1> QED BY <1>1, <1>2, FS_Subset

\* Finitely many calls are wanted by messages and not recorded.
LEMMA WantedIsFinite ==
  ASSUME NEW h, IsHistory(h), NEW w
  PROVE  IsFiniteSet(Wanted(h, w))
<1> DEFINE M == {m.wants : m \in Of(h, "assistant/message")}
           asks(i, c) == /\ h[i].type = "assistant/message" /\ c \in h[i].wants
                         /\ h[i].turn = w.openTurn /\ h[i].step = w.openStep
           names == (UNION M) \ {e.callId : e \in Of(h, "tool/call")}
           last(c) == CHOOSE i \in DOMAIN h :
                        asks(i, c) /\ \A j \in DOMAIN h : j > i => ~asks(j, c)
           call(i, c) == [turn |-> h[i].turn, step |-> h[i].step, requestId |-> h[i].requestId,
                          callId |-> c]
           N == {n \in names : \E i \in DOMAIN h : asks(i, n)}
           f == [c \in N |-> call(last(c), c)]
<1>1. IsFiniteSet(UNION M)
  <2>1. IsFiniteSet({m["wants"] : m \in Of(h, "assistant/message")})
    <3>1. IsSeq(h)
      BY DEF IsHistory
    <3> QED BY <3>1, OfIsFinite
  <2>2. M = {m["wants"] : m \in Of(h, "assistant/message")}
    OBVIOUS
  <2>3. \A S \in M : IsFiniteSet(S)
    BY DEF IsHistory, Of, Range
  <2> QED BY <2>1, <2>2, <2>3, FS_UNION
<1>2. IsFiniteSet(N)
  <2>1. N \in SUBSET (UNION M)
    OBVIOUS
  <2> HIDE DEF N, M
  <2> QED BY <1>1, <2>1, FS_Subset
<1>3. Wanted(h, w) = Range(f)
  <2>1. Wanted(h, w) = {call(last(c), c) : c \in N}
    BY DEF Wanted
  <2> HIDE DEF call, last, N
  <2> QED BY <2>1 DEF Range
<1>4. f = [x \in DOMAIN f |-> f[x]] /\ DOMAIN f = N
  OBVIOUS
<1> HIDE DEF f, N
<1> QED BY <1>2, <1>3, <1>4, FiniteRange

\* What a group of the plan may contain: no result that is guessed, and no call
\* that is asked for.
PlainEvents(s) ==
  /\ IsSeq(s)
  /\ \A e \in Range(s) : /\ Defined(e)
                         /\ e.type = "assistant/message" => IsFiniteSet(e.wants)
                         /\ e.type = "tool/result" => e.recovered # "not-started"

\* The decisions of a repair are plain events.
LEMMA DecisionsArePlain ==
  ASSUME NEW h, IsSeq(h)
  PROVE  PlainEvents(Decisions(h))
<1> DEFINE f == [e \in Undecided(h) |-> [type |-> "approval/decision",
                   approvalId |-> e.approvalId, callId |-> e.callId]]
<1>1. IsFiniteSet(Undecided(h))
  <2>1. Undecided(h) \in SUBSET Of(h, "approval/request")
    BY DEF Undecided
  <2>2. IsFiniteSet(Of(h, "approval/request"))
    BY OfIsFinite
  <2> QED BY <2>1, <2>2, FS_Subset
<1>2. f = [x \in DOMAIN f |-> f[x]] /\ DOMAIN f = Undecided(h)
  OBVIOUS
<1>3. \A e \in Range(f) : e.type = "approval/decision"
  BY DEF Range
<1>4. Decisions(h) = InAnyOrder(f)
  BY DEF Decisions
<1> HIDE DEF f
<1> QED BY <1>1, <1>2, <1>3, <1>4, InAnyOrderIsSeq DEF PlainEvents, Defined

\* So are its assistant messages, which ask for nothing.
LEMMA MessagesArePlain ==
  ASSUME NEW h, IsSeq(h), NEW w
  PROVE  PlainEvents(Messages(h, w))
<1> DEFINE D == {e.requestId : e \in Streamed(h, w)}
           f == [r \in D |-> [type |-> "assistant/message", turn |-> w.openTurn,
                   step |-> w.openStep, requestId |-> r, wants |-> {}]]
<1>1. IsFiniteSet(D)
  BY StreamedIsFinite
<1>2. f = [x \in DOMAIN f |-> f[x]] /\ DOMAIN f = D
  OBVIOUS
<1>3. \A e \in Range(f) : e.type = "assistant/message" /\ e.wants = {}
  <2>1. \A r \in D : f[r].type = "assistant/message" /\ f[r].wants = {}
    OBVIOUS
  <2> HIDE DEF f, D
  <2> QED BY <1>2, <2>1 DEF Range
<1>4. Messages(h, w) = InAnyOrder(f)
  BY DEF Messages
<1> HIDE DEF f, D
<1> QED BY <1>1, <1>2, <1>3, <1>4, InAnyOrderIsSeq, FS_EmptySet
        DEF PlainEvents, Defined

\* So are the results of interrupted calls: they say "outcome-unknown".
LEMMA UnknownIsPlain ==
  ASSUME NEW h, NEW w, IsFiniteSet(w.unresolved)
  PROVE  PlainEvents(Unknown(h, w))
<1> DEFINE D == w.unresolved \ {e.callId : e \in Of(h, "tool/result")}
           recorded(c) == CHOOSE e \in Of(h, "tool/call") : e.callId = c
           f == [c \in D |-> Interrupted(recorded(c))]
<1>1. IsFiniteSet(D)
  <2>1. D \in SUBSET w.unresolved
    OBVIOUS
  <2> QED BY <2>1, FS_Subset
<1>2. f = [x \in DOMAIN f |-> f[x]] /\ DOMAIN f = D
  OBVIOUS
<1>3. \A e \in Range(f) : e.type = "tool/result" /\ e.recovered = "outcome-unknown"
  <2>1. \A x : Interrupted(x).type = "tool/result" /\ Interrupted(x).recovered = "outcome-unknown"
    BY DEF Interrupted, Recovered
  <2>2. \A c \in D : f[c] = Interrupted(recorded(c))
    OBVIOUS
  <2> HIDE DEF f, D, recorded
  <2> QED BY <1>2, <2>1, <2>2 DEF Range
<1>4. Unknown(h, w) = InAnyOrder(f)
  BY DEF Unknown
<1> HIDE DEF f, D
<1> QED BY <1>1, <1>2, <1>3, <1>4, InAnyOrderIsSeq DEF PlainEvents, Defined

\* So are the cancelled retries.
LEMMA CancelledRetriesArePlain ==
  ASSUME NEW h, IsSeq(h)
  PROVE  PlainEvents(CancelRetries(h))
<1> DEFINE f == [t \in OpenRetries(h) |-> [type |-> "retry/cancelled", retryId |-> t]]
<1>1. IsFiniteSet(OpenRetries(h))
  BY OpenRetriesIsFinite
<1>2. f = [x \in DOMAIN f |-> f[x]] /\ DOMAIN f = OpenRetries(h)
  OBVIOUS
<1>3. \A e \in Range(f) : e.type = "retry/cancelled"
  BY DEF Range
<1>4. CancelRetries(h) = InAnyOrder(f)
  BY DEF CancelRetries
<1> HIDE DEF f
<1> QED BY <1>1, <1>2, <1>3, <1>4, InAnyOrderIsSeq DEF PlainEvents, Defined

\* So are the ends of compactions.
LEMMA EndedCompactionsArePlain ==
  ASSUME NEW h, IsSeq(h)
  PROVE  PlainEvents(EndCompactions(h))
<1> DEFINE D == LeftOpen(h, "compaction/start", "compaction/end", "compactionId")
           f == [k \in D |-> [type |-> "compaction/end", compactionId |-> k,
                              outcome |-> "cancelled"]]
<1>1. IsFiniteSet(D)
  BY LeftOpenIsFinite
<1>2. f = [x \in DOMAIN f |-> f[x]] /\ DOMAIN f = D
  OBVIOUS
<1>3. \A e \in Range(f) : e.type = "compaction/end"
  BY DEF Range
<1>4. EndCompactions(h) = InAnyOrder(f)
  BY DEF EndCompactions
<1> HIDE DEF f, D
<1> QED BY <1>1, <1>2, <1>3, <1>4, InAnyOrderIsSeq DEF PlainEvents, Defined

\* So are the ends of children.
LEMMA EndedSubagentsArePlain ==
  ASSUME NEW h, IsSeq(h)
  PROVE  PlainEvents(EndSubagents(h))
<1> DEFINE D == LeftOpen(h, "subagent/start", "subagent/end", "child")
           f == [c \in D |-> [type |-> "subagent/end", child |-> c]]
<1>1. IsFiniteSet(D)
  BY LeftOpenIsFinite
<1>2. f = [x \in DOMAIN f |-> f[x]] /\ DOMAIN f = D
  OBVIOUS
<1>3. \A e \in Range(f) : e.type = "subagent/end"
  BY DEF Range
<1>4. EndSubagents(h) = InAnyOrder(f)
  BY DEF EndSubagents
<1> HIDE DEF f, D
<1> QED BY <1>1, <1>2, <1>3, <1>4, InAnyOrderIsSeq DEF PlainEvents, Defined

\* So are the ends of the step and of the turn.
LEMMA EndedTurnIsPlain ==
  ASSUME NEW w
  PROVE  PlainEvents(EndTurn(w))
<1> DEFINE a == IF w.openStep = None \/ w.openTurn = None THEN <<>>
                ELSE <<[type |-> "step/end", turn |-> w.openTurn, step |-> w.openStep]>>
           b == IF w.openTurn = None THEN <<>>
                ELSE <<[type |-> "turn/end", turn |-> w.openTurn, repair |-> TRUE]>>
           x == [type |-> "step/end", turn |-> w.openTurn, step |-> w.openStep]
           y == [type |-> "turn/end", turn |-> w.openTurn, repair |-> TRUE]
<1>1. IsSeq(a) /\ \A e \in Range(a) : e.type = "step/end"
  <2>1. x.type = "step/end"
    OBVIOUS
  <2>2. a = <<>> \/ a = <<x>>
    OBVIOUS
  <2> HIDE DEF a, x
  <2>3. a \in Seq({x})
    BY <2>2, ShortSeqs, Zenon
  <2> QED BY <2>1, <2>3, SeqIsSeq
<1>2. IsSeq(b) /\ \A e \in Range(b) : e.type = "turn/end"
  <2>1. y.type = "turn/end"
    OBVIOUS
  <2>2. b = <<>> \/ b = <<y>>
    OBVIOUS
  <2> HIDE DEF b, y
  <2>3. b \in Seq({y})
    BY <2>2, ShortSeqs, Zenon
  <2> QED BY <2>1, <2>3, SeqIsSeq
<1>3. EndTurn(w) = a \o b
  BY DEF EndTurn
<1> HIDE DEF a, b
<1>4. IsSeq(a \o b) /\ Range(a \o b) = Range(a) \cup Range(b)
  BY <1>1, <1>2, ConcatIsSeq
<1> QED BY <1>1, <1>2, <1>3, <1>4 DEF PlainEvents, Defined

\* A result that says "not started" stands behind the call the repair recorded
\* for it.
Announced(h) ==
  \A j \in DOMAIN h : h[j].type = "tool/result" /\ h[j].recovered = "not-started" =>
    \E i \in DOMAIN h : /\ i < j /\ h[i].type = "tool/call"
                        /\ h[i].callId = h[j].callId /\ h[i].repair

\* A batch of plain events says nothing of calls that were not started.
LEMMA PlainIsAnnounced ==
  ASSUME NEW s, PlainEvents(s)
  PROVE  IsHistory(s) /\ Announced(s)
<1>1. IsHistory(s)
  BY DEF PlainEvents, IsHistory
<1>2. \A j \in DOMAIN s : s[j] \in Range(s)
  BY DEF Range
<1> QED BY <1>1, <1>2 DEF PlainEvents, Announced

\* Two batches that announce their calls do so one after the other.
LEMMA ConcatIsAnnounced ==
  ASSUME NEW a, NEW b, IsHistory(a), Announced(a), IsHistory(b), Announced(b)
  PROVE  IsHistory(a \o b) /\ Announced(a \o b)
<1> DEFINE c == a \o b
           S == Range(a) \cup Range(b)
<1>1. IsHistory(c)
  BY ConcatIsSeq DEF IsHistory
<1>2. a \in Seq(S) /\ b \in Seq(S)
  BY DEF IsHistory, IsSeq
<1>3. /\ Len(a) \in Nat /\ Len(b) \in Nat
      /\ DOMAIN a = 1 .. Len(a) /\ DOMAIN b = 1 .. Len(b) /\ DOMAIN c = 1 .. Len(a) + Len(b)
      /\ \A i \in DOMAIN a : c[i] = a[i]
      /\ \A i \in DOMAIN b : c[Len(a) + i] = b[i]
  BY <1>2
<1> HIDE DEF c, S
<1>4. ASSUME NEW j \in DOMAIN c, c[j].type = "tool/result", c[j].recovered = "not-started"
      PROVE  \E i \in DOMAIN c : /\ i < j /\ c[i].type = "tool/call"
                                 /\ c[i].callId = c[j].callId /\ c[i].repair
  <2>1. CASE j \in DOMAIN a
    <3>1. c[j] = a[j]
      BY <1>3, <2>1
    <3>2. PICK i \in DOMAIN a : /\ i < j /\ a[i].type = "tool/call"
                                /\ a[i].callId = a[j].callId /\ a[i].repair
      BY <1>4, <2>1, <3>1 DEF Announced
    <3>3. i \in DOMAIN c /\ c[i] = a[i]
      BY <1>3, <3>2
    <3> QED BY <3>1, <3>2, <3>3
  <2>2. CASE j \notin DOMAIN a
    <3> DEFINE k == j - Len(a)
    <3>1. k \in DOMAIN b /\ j = Len(a) + k
      BY <1>3, <2>2
    <3>2. c[j] = b[k]
      BY <1>3, <3>1
    <3> HIDE DEF k
    <3>3. PICK i \in DOMAIN b : /\ i < k /\ b[i].type = "tool/call"
                                /\ b[i].callId = b[k].callId /\ b[i].repair
      BY <1>4, <3>1, <3>2 DEF Announced
    <3>4. Len(a) + i \in DOMAIN c /\ c[Len(a) + i] = b[i] /\ Len(a) + i < j
      BY <1>3, <3>1, <3>3
    <3> QED BY <3>2, <3>3, <3>4
  <2> QED BY <2>1, <2>2
<1> QED BY <1>1, <1>4 DEF Announced, c

\* A torn batch does as well: a call comes before its result.
LEMMA PrefixIsAnnounced ==
  ASSUME NEW a, IsHistory(a), Announced(a), NEW n \in 1 .. Len(a)
  PROVE  /\ IsHistory(SubSeq(a, 1, n)) /\ Announced(SubSeq(a, 1, n))
<1> DEFINE p == SubSeq(a, 1, n)
<1>1. a \in Seq(Range(a)) /\ Len(a) \in Nat /\ DOMAIN a = 1 .. Len(a)
  BY DEF IsHistory, IsSeq
<1>2. p \in Seq(Range(a)) /\ DOMAIN p = 1 .. n /\ \A i \in 1 .. n : p[i] = a[i]
  BY <1>1
<1> HIDE DEF p
<1>3. IsHistory(p)
  BY <1>2, SeqIsSeq DEF IsHistory
<1>4. Announced(p)
  <2> SUFFICES ASSUME NEW j \in DOMAIN p, p[j].type = "tool/result",
                      p[j].recovered = "not-started"
               PROVE  \E i \in DOMAIN p : /\ i < j /\ p[i].type = "tool/call"
                                          /\ p[i].callId = p[j].callId /\ p[i].repair
    BY DEF Announced
  <2>1. j \in DOMAIN a /\ p[j] = a[j]
    BY <1>1, <1>2
  <2>2. PICK i \in DOMAIN a : /\ i < j /\ a[i].type = "tool/call"
                              /\ a[i].callId = a[j].callId /\ a[i].repair
    BY <2>1 DEF Announced
  <2>3. i \in DOMAIN p /\ p[i] = a[i]
    BY <1>1, <1>2, <2>2
  <2> QED BY <2>1, <2>2, <2>3
<1> QED BY <1>3, <1>4 DEF p

\* The group of calls that were not started announces each of them.
LEMMA NotStartedIsAnnounced ==
  ASSUME NEW h, IsHistory(h), NEW w
  PROVE  IsHistory(NotStarted(h, w)) /\ Announced(NotStarted(h, w))
<1> DEFINE s == SetToSeq(Wanted(h, w))
           call(c) == [type |-> "tool/call", turn |-> c.turn, step |-> c.step,
                       requestId |-> c.requestId, callId |-> c.callId, repair |-> TRUE]
           t == NotStarted(h, w)
           m == Len(s)
<1>1. s \in Seq(Wanted(h, w)) /\ m \in Nat
  BY WantedIsFinite, SetToSeqEnumerates
<1>2. t = [i \in 1 .. 2 * m |-> IF i % 2 = 1 THEN call(s[(i + 1) \div 2])
                                ELSE Recovered(s[i \div 2], "not-started")]
  BY DEF NotStarted
<1>3. \A c : /\ call(c).type = "tool/call" /\ call(c).callId = c.callId /\ call(c).repair
             /\ Recovered(c, "not-started").type = "tool/result"
             /\ Recovered(c, "not-started").callId = c.callId
  BY DEF Recovered
<1> HIDE DEF s, call, t, m
<1>4. DOMAIN t = 1 .. 2 * m /\ \A i \in 1 .. 2 * m : t[i] \in Range(t)
  BY <1>2 DEF Range
<1>5. IsSeq(t)
  <2>1. 2 * m \in Nat
    BY <1>1
  <2>2. t = [i \in 1 .. 2 * m |-> t[i]]
    BY <1>2
  <2>3. t \in Seq(Range(t))
    BY <1>4, <2>1, <2>2
  <2> QED BY <2>3 DEF IsSeq
<1>6. \A i \in 1 .. 2 * m : i % 2 = 1 => t[i] = call(s[(i + 1) \div 2])
  BY <1>2
<1>7. \A i \in 1 .. 2 * m : i % 2 # 1 => t[i] = Recovered(s[i \div 2], "not-started")
  BY <1>2
<1>8. \A i \in 1 .. 2 * m : t[i].type \in {"tool/call", "tool/result"}
  BY <1>3, <1>6, <1>7
<1>9. IsHistory(t)
  <2>1. \A e \in Range(t) : e.type \in {"tool/call", "tool/result"}
    BY <1>4, <1>8 DEF Range
  <2> QED BY <1>5, <2>1 DEF IsHistory, Defined
<1>10. ASSUME NEW j \in DOMAIN t, t[j].type = "tool/result"
       PROVE  \E i \in DOMAIN t : /\ i < j /\ t[i].type = "tool/call"
                                  /\ t[i].callId = t[j].callId /\ t[i].repair
  <2>1. j % 2 # 1
    BY <1>3, <1>4, <1>6, <1>10
  <2>2. /\ j - 1 \in 1 .. 2 * m /\ (j - 1) % 2 = 1 /\ j - 1 < j
        /\ ((j - 1) + 1) \div 2 = j \div 2
    BY <1>1, <1>4, <2>1
  <2>3. t[j - 1] = call(s[j \div 2]) /\ t[j] = Recovered(s[j \div 2], "not-started")
    BY <1>4, <1>6, <1>7, <2>1, <2>2
  <2> DEFINE c == s[j \div 2]
  <2>4. t[j - 1].type = "tool/call" /\ t[j - 1].callId = t[j].callId /\ t[j - 1].repair
    <3>1. /\ call(c).type = "tool/call" /\ call(c).callId = c.callId /\ call(c).repair
          /\ Recovered(c, "not-started").callId = c.callId
      BY <1>3
    <3>2. t[j - 1] = call(c) /\ t[j] = Recovered(c, "not-started")
      BY <2>3
    <3> HIDE DEF c
    <3> QED BY <3>1, <3>2, Zenon
  <2>5. j - 1 \in DOMAIN t /\ j - 1 < j
    BY <1>4, <2>2
  <2> QED BY <2>4, <2>5, Zenon
<1> QED BY <1>9, <1>10 DEF Announced, t

\* The empty batch has nothing to announce.
LEMMA EmptyIsAnnounced == IsHistory(<<>>) /\ Announced(<<>>)
BY DEF IsHistory, IsSeq, Announced, Range

\* The plan of a repair is a sequence, and guesses nothing of a recorded call.
LEMMA PlanIsAnnounced ==
  ASSUME NEW h, IsHistory(h), IsFiniteSet(Replay(h).v.unresolved)
  PROVE  IsHistory(Plan(h)) /\ Announced(Plan(h))
<1> DEFINE w == Replay(h).v
           Good(s) == IsHistory(s) /\ Announced(s)
<1>1. IsSeq(h)
  BY DEF IsHistory
<1>2. /\ Good(Decisions(h)) /\ Good(Messages(h, w)) /\ Good(NotStarted(h, w))
      /\ Good(Unknown(h, w)) /\ Good(CancelRetries(h)) /\ Good(EndCompactions(h))
      /\ Good(EndSubagents(h)) /\ Good(EndTurn(w)) /\ Good(<<>>)
  BY <1>1, DecisionsArePlain, MessagesArePlain, NotStartedIsAnnounced, UnknownIsPlain,
     CancelledRetriesArePlain, EndedCompactionsArePlain, EndedSubagentsArePlain,
     EndedTurnIsPlain, PlainIsAnnounced, EmptyIsAnnounced
<1>3. \A a, b : Good(a) /\ Good(b) => Good(a \o b)
  BY ConcatIsAnnounced
<1>4. Plan(h) = <<>> \/ Plan(h) =
        Decisions(h) \o Messages(h, w) \o NotStarted(h, w) \o Unknown(h, w)
          \o CancelRetries(h) \o EndCompactions(h) \o EndSubagents(h) \o EndTurn(w)
  BY DEF Plan
<1> HIDE DEF w, Good
<1>5. Good(Plan(h))
  BY <1>2, <1>3, <1>4, Zenon
<1> QED BY <1>5 DEF Good

------------------------------------------------------------------------------
(* What the validator has learned from a legal history. *)

\* An accepted batch leaves finitely many calls unresolved, and so does a refused one.
LEMMA UnresolvedStaysFinite ==
  ASSUME NEW u, IsValidator(u), IsFiniteSet(u.unresolved), NEW b, Len(b) \in Nat
  PROVE  IsFiniteSet(AppendBatch(u, b).v.unresolved)
<1> DEFINE L == Loop(u, b)
           n == Len(b)
           T == {i \in 0 .. n : ~IsFiniteSet(L[i].v.unresolved)}
<1>1. CASE ~AppendBatch(u, b).ok
  BY <1>1, RefusedLeavesNoTrace
<1>2. CASE AppendBatch(u, b).ok
  <2>1. /\ L[0].v = u /\ L[n].v = AppendBatch(u, b).v
        /\ \A i \in 1 .. n : L[i].v = Apply(L[i - 1].v, b[i])
    BY <1>2, AcceptedSteps
  <2>2. \A i \in 0 .. n : IsValidator(L[i].v)
    BY LoopStaysRecoverable DEF Recoverable
  <2>3. T = {}
    <3> SUFFICES ASSUME T # {} PROVE FALSE
      OBVIOUS
    <3>1. PICK i \in T : \A k \in T : i <= k
      <4>1. T \in SUBSET Nat
        OBVIOUS
      <4> HIDE DEF T
      <4> QED BY <4>1, Least
    <3> HIDE DEF L
    <3>2. i # 0
      BY <2>1, <3>1
    <3>3. i \in 1 .. n /\ i - 1 \in 0 .. n /\ ~(i <= i - 1)
      BY <3>1, <3>2
    <3>4. IsFiniteSet(L[i - 1].v.unresolved)
      BY <3>1, <3>3
    <3> DEFINE w == L[i - 1].v
               e == b[i]
    <3>5. L[i].v = Apply(w, e) /\ IsValidator(w)
      BY <2>1, <2>2, <3>3
    <3>6. ~IsFiniteSet(Apply(w, e).unresolved)
      BY <3>1, <3>5
    <3>7. IsFiniteSet(w.unresolved \cup {e.callId})
      BY <3>4, FS_AddElement
    <3>8. IsFiniteSet(w.unresolved \ {e.callId})
      BY <3>4, FS_Subset
    <3> HIDE DEF w, e
    <3> QED BY <3>4, <3>5, <3>6, <3>7, <3>8, AppliedCalls DEF w
  <2>4. n \in 0 .. n
    OBVIOUS
  <2> QED BY <2>1, <2>3, <2>4
<1> QED BY <1>1, <1>2

\* An event forgets no call, and tool/call records one.
LEMMA CallsStay ==
  ASSUME NEW u, NEW e, IsValidator(u)
  PROVE  /\ DOMAIN u.calls \subseteq DOMAIN Apply(u, e).calls
         /\ e.type = "tool/call" => e.callId \in DOMAIN Apply(u, e).calls
<1> DEFINE D == DOMAIN u.calls
           E == DOMAIN Apply(u, e).calls
<1>1. E = IF e.type = "tool/call" THEN D \cup {e.callId} ELSE D
  BY AppliedCalls
<1> HIDE DEF D, E
<1>2. D \subseteq E /\ (e.type = "tool/call" => e.callId \in E)
  BY <1>1
<1> QED BY <1>2 DEF D, E

\* No call is forgotten by the batch.
LEMMA CallsGrow ==
  ASSUME NEW u, IsValidator(u), NEW b, Len(b) \in Nat, AppendBatch(u, b).ok,
         NEW i \in 0 .. Len(b)
  PROVE  \A j \in i .. Len(b) : DOMAIN Loop(u, b)[i].v.calls \subseteq DOMAIN Loop(u, b)[j].v.calls
<1> DEFINE L == Loop(u, b)
           n == Len(b)
           T == {j \in i .. n : ~(DOMAIN L[i].v.calls \subseteq DOMAIN L[j].v.calls)}
<1>1. \A j \in 1 .. n : L[j].v = Apply(L[j - 1].v, b[j])
  BY AcceptedSteps
<1>2. \A j \in 0 .. n : IsValidator(L[j].v)
  BY LoopStaysRecoverable DEF Recoverable
<1>3. T = {}
  <2> SUFFICES ASSUME T # {} PROVE FALSE
    OBVIOUS
  <2>1. PICK j \in T : \A k \in T : j <= k
    <3>1. T \in SUBSET Nat
      OBVIOUS
    <3> HIDE DEF T
    <3> QED BY <3>1, Least
  <2> HIDE DEF L
  <2>2. j # i
    BY <2>1
  <2>3. j \in 1 .. n /\ j - 1 \in i .. n /\ j - 1 \in 0 .. n /\ ~(j <= j - 1)
    BY <2>1, <2>2
  <2>4. DOMAIN L[i].v.calls \subseteq DOMAIN L[j - 1].v.calls
    BY <2>1, <2>3
  <2> DEFINE w == L[j - 1].v
             e == b[j]
  <2>5. L[j].v = Apply(w, e) /\ IsValidator(w)
    BY <1>1, <1>2, <2>3
  <2>6. ~(DOMAIN L[i].v.calls \subseteq DOMAIN Apply(w, e).calls)
    BY <2>1, <2>5
  <2>7. DOMAIN L[i].v.calls \subseteq DOMAIN w.calls
    BY <2>4
  <2> HIDE DEF w, e
  <2>8. DOMAIN w.calls \subseteq DOMAIN Apply(w, e).calls
    BY <2>5, CallsStay
  <2> QED BY <2>6, <2>7, <2>8
<1> QED BY <1>3

\* No call is recorded twice.
LEMMA CallsAreUnique ==
  ASSUME NEW u, IsValidator(u), NEW b, Len(b) \in Nat, AppendBatch(u, b).ok,
         NEW i \in 1 .. Len(b), NEW j \in 1 .. Len(b),
         b[i].type = "tool/call", b[j].type = "tool/call", b[i].callId = b[j].callId
  PROVE  i = j
<1> DEFINE L == Loop(u, b)
           n == Len(b)
<1>1. ASSUME NEW p \in 1 .. n, NEW q \in 1 .. n, p < q,
             b[p].type = "tool/call", b[q].type = "tool/call"
      PROVE  b[p].callId # b[q].callId
  <2>1. p \in 0 .. n /\ p - 1 \in 0 .. n /\ q - 1 \in p .. n
    BY <1>1
  <2>2. /\ L[p].v = Apply(L[p - 1].v, b[p])
        /\ Accepts(L[q - 1].v, b[q])
    BY AcceptedSteps
  <2>3. IsValidator(L[p - 1].v)
    BY <2>1, LoopStaysRecoverable DEF Recoverable
  <2>4. b[p].callId \in DOMAIN L[p].v.calls
    <3> DEFINE w == L[p - 1].v
               e == b[p]
    <3>1. IsValidator(w) /\ e.type = "tool/call" /\ L[p].v = Apply(w, e)
      BY <1>1, <2>2, <2>3
    <3> HIDE DEF L, w, e
    <3>2. e.callId \in DOMAIN Apply(w, e).calls
      BY <3>1, CallsStay
    <3> QED BY <3>1, <3>2 DEF e
  <2>5. b[p].callId \in DOMAIN L[q - 1].v.calls
    BY <2>1, <2>4, CallsGrow
  <2>6. b[q].callId \notin DOMAIN L[q - 1].v.calls
    <3> HIDE DEF L
    <3>1. Accepts(L[q - 1].v, b[q]) = ToolOk(L[q - 1].v, b[q])
      BY <1>1 DEF Accepts, ToolTypes, TurnTypes, StepTypes, RequestTypes, RetryTypes, NestedTypes
    <3> QED BY <1>1, <2>2, <3>1 DEF ToolOk
  <2> QED BY <2>5, <2>6
<1>2. ~(i < j) /\ ~(j < i)
  BY <1>1
<1> QED BY <1>2

------------------------------------------------------------------------------
(* What the validator w knows after the events of a set E. *)

\* The calls are the recorded ones, and the unresolved have no result yet.
CallsKnown(E, w) ==
  /\ \A c \in DOMAIN w.calls :
       /\ c \in w.unresolved <=> ~w.calls[c].result
       /\ c \in w.unresolved <=> \A e \in E : e.type = "tool/result" => e.callId # c
       /\ \E e \in E : e.type = "tool/call" /\ e.callId = c
  /\ w.unresolved \subseteq DOMAIN w.calls
  /\ \A e \in E :
       /\ e.type = "tool/call" =>
            /\ e.callId \in DOMAIN w.calls
            /\ w.calls[e.callId].turn = e.turn /\ w.calls[e.callId].step = e.step
       /\ e.type = "tool/result" => e.callId \in DOMAIN w.calls \ w.unresolved

\* A call has one approval at most, an approval one call, and it is pending until
\* it is decided.
ApprovalsMatch(w) ==
  /\ \A a \in DOMAIN w.approvals :
       /\ w.approvals[a] \in DOMAIN w.calls /\ w.calls[w.approvals[a]].approvalId = a
       /\ a \in w.pendingApprovals <=> ~w.calls[w.approvals[a]].approvalDecided
  /\ w.pendingApprovals \subseteq DOMAIN w.approvals
  /\ None \notin DOMAIN w.approvals
  /\ \A c \in DOMAIN w.calls :
       IF w.calls[c].approvalId = None THEN ~w.calls[c].approvalDecided
       ELSE /\ w.calls[c].approvalId \in DOMAIN w.approvals
            /\ w.approvals[w.calls[c].approvalId] = c

ApprovalsKnown(E, w) ==
  /\ \A a \in DOMAIN w.approvals :
       /\ \E e \in E : e.type = "approval/request" /\ e.approvalId = a
       /\ a \in w.pendingApprovals <=>
            \A e \in E : e.type = "approval/decision" => e.approvalId # a
  /\ w.pendingApprovals \subseteq DOMAIN w.approvals
  /\ \A e \in E :
       /\ e.type = "approval/request" =>
            /\ e.approvalId \in DOMAIN w.approvals
            /\ w.approvals[e.approvalId] = e.callId
       /\ e.type = "approval/decision" => e.approvalId \in DOMAIN w.approvals
  /\ \A d, e \in E :
       d.type = "approval/request" /\ e.type = "approval/request" =>
         (d.approvalId = e.approvalId => d = e)

\* What a suspension waits for are calls and approvals of its step.
SuspensionKnown(w) ==
  w.suspension # None =>
    /\ \A c \in w.suspension.callIds :
         /\ c \in DOMAIN w.calls
         /\ w.calls[c].turn = w.suspension.turn /\ w.calls[c].step = w.suspension.step
    /\ \A a \in w.suspension.approvalIds :
         /\ a \in DOMAIN w.approvals /\ w.approvals[a] \in DOMAIN w.calls
         /\ w.calls[w.approvals[a]].turn = w.suspension.turn
         /\ w.calls[w.approvals[a]].step = w.suspension.step

\* The output of a request stands in the step that made it.
RequestsKnown(E, w) ==
  \A e \in E : e.type \in {"assistant/chunk", "assistant/message"} =>
    /\ e.requestId \in DOMAIN w.requests
    /\ w.requests[e.requestId].turn = e.turn
    /\ w.requests[e.requestId].step = e.step

\* The event e closes the retry t.
Closes(e, t) == e.type \in {"retry/cancelled", "request/attempt"} /\ e.retryId = t

\* A retry is pending until an attempt consumes it or it is cancelled.
RetriesKnown(E, w) ==
  /\ \A t \in DOMAIN w.retries :
       /\ t \in w.pendingRetries <=> w.retries[t].state \in {"scheduled", "started"}
       /\ t \in w.pendingRetries <=> \A e \in E : ~Closes(e, t)
       /\ \E e \in E : e.type = "retry/scheduled" /\ e.retryId = t
  /\ w.pendingRetries \subseteq DOMAIN w.retries
  /\ None \notin DOMAIN w.retries
  /\ \A e \in E :
       /\ e.type = "retry/scheduled" => e.retryId \in DOMAIN w.retries
       /\ \A t : Closes(e, t) => t = None \/ t \in DOMAIN w.retries

\* A step is open only in an open turn.
StepKnown(w) == w.lastTurn # None /\ (w.openStep # None => w.openTurn # None)

\* One event more.
Next1(w, e) ==
  /\ IsValidator(w) /\ Shaped(w) /\ Accepts(w, e) /\ Defined(e)

\* The containers of the validator keep their shape.
LEMMA ShapeStays ==
  ASSUME NEW e, NEW w, Next1(w, e)
  PROVE  Shaped(Apply(w, e))
<1> DEFINE w2 == Apply(w, e)
<1>1. IsValidator(w) /\ Shaped(w) /\ Accepts(w, e)
  BY DEF Next1
<1>2. \A c \in DOMAIN w2.calls : DOMAIN w2.calls[c] = CallFields
  <2>1. CASE e.type = "tool/call"
    BY <1>1, <2>1, CallRecorded DEF Shaped, CallFields
  <2>2. CASE e.type = "approval/request"
    BY <1>1, <2>2, ApprovalRequested DEF Shaped, Retouched
  <2>3. CASE e.type = "approval/decision"
    BY <1>1, <2>3, ApprovalDecided DEF Shaped, Retouched
  <2>4. CASE e.type = "tool/result"
    BY <1>1, <2>4, ResultRecorded DEF Shaped, Retouched
  <2>5. CASE e.type \notin ToolTypes
    BY <1>1, <2>5, FieldsStay DEF Shaped, ToolFields
  <2> QED BY <2>1, <2>2, <2>3, <2>4, <2>5 DEF ToolTypes
<1>3. \A r \in DOMAIN w2.requests : DOMAIN w2.requests[r] = RequestFields
  <2>1. CASE e.type = "request/header"
    BY <1>1, <2>1, RequestMade DEF Shaped
  <2>2. CASE e.type = "request/attempt"
    BY <1>1, <2>2, RequestAttempted DEF Shaped, Retouched
  <2>3. CASE e.type \in RequestTypes \ {"request/header", "request/attempt"}
    BY <1>1, <2>3, RequestMentioned DEF Shaped
  <2>4. CASE e.type \notin RequestTypes
    BY <1>1, <2>4, FieldsStay DEF Shaped
  <2> QED BY <2>1, <2>2, <2>3, <2>4
<1>4. \A t \in DOMAIN w2.retries : DOMAIN w2.retries[t] = RetryFields
  <2>1. CASE e.type = "retry/scheduled"
    BY <1>1, <2>1, RetryScheduled DEF Shaped
  <2>2. CASE e.type \in {"retry/started", "retry/cancelled"}
    BY <1>1, <2>2, RetryMoved DEF Shaped, Retouched
  <2>3. CASE e.type = "request/attempt"
    BY <1>1, <2>3, RequestAttempted DEF Shaped, Retouched
  <2>4. CASE e.type = "request/header"
    BY <1>1, <2>4, RequestMade DEF Shaped
  <2>5. CASE e.type \in RequestTypes \ {"request/header", "request/attempt"}
    BY <1>1, <2>5, RequestMentioned DEF Shaped
  <2>6. CASE e.type \notin RetryTypes \cup RequestTypes
    BY <1>1, <2>6, FieldsStay DEF Shaped, RetryFieldsOf
  <2> QED BY <2>1, <2>2, <2>3, <2>4, <2>5, <2>6 DEF RetryTypes
<1> HIDE DEF w2
<1>5. Shaped(w2)
  BY <1>2, <1>3, <1>4 DEF Shaped
<1> QED BY <1>5 DEF w2

\* What is known of the calls stays known after one event more.
LEMMA CallsStayKnown ==
  ASSUME NEW E, NEW e, NEW w, Next1(w, e), CallsKnown(E, w)
  PROVE  CallsKnown(E \cup {e}, Apply(w, e))
<1> DEFINE w2 == Apply(w, e)
           f == w.calls
           g == w2.calls
           Goal == CallsKnown(E \cup {e}, w2)
<1>1. IsValidator(w) /\ Shaped(w) /\ Accepts(w, e)
  BY DEF Next1
<1>2. ASSUME e.type = "tool/call" PROVE Goal
  <2>1. /\ e.callId \notin DOMAIN f /\ DOMAIN g = DOMAIN f \cup {e.callId}
        /\ \A c \in DOMAIN f : g[c] = f[c]
        /\ g[e.callId].turn = e.turn /\ g[e.callId].step = e.step /\ ~g[e.callId].result
        /\ w2.unresolved = w.unresolved \cup {e.callId}
    BY <1>1, <1>2, CallRecorded
  <2>2. \A c \in DOMAIN f : g[c].result <=> f[c].result
    BY <2>1
  <2> HIDE DEF w2
  <2> QED BY <1>2, <2>1, <2>2 DEF CallsKnown
<1>3. ASSUME e.type \in {"approval/request", "approval/decision"} PROVE Goal
  <2>1. /\ DOMAIN g = DOMAIN f /\ w2.unresolved = w.unresolved
        /\ \A c \in DOMAIN f : g[c].turn = f[c].turn /\ g[c].step = f[c].step
        /\ \A c \in DOMAIN f : g[c].result <=> f[c].result
    BY <1>1, <1>3, ApprovalRequested, ApprovalDecided DEF Retouched, Shaped, CallFields
  <2> HIDE DEF w2
  <2> QED BY <1>3, <2>1 DEF CallsKnown
<1>4. ASSUME e.type = "tool/result" PROVE Goal
  <2>1. /\ DOMAIN g = DOMAIN f /\ w2.unresolved = w.unresolved \ {e.callId}
        /\ e.callId \in DOMAIN f
        /\ \A c \in DOMAIN f : g[c].turn = f[c].turn /\ g[c].step = f[c].step
        /\ \A c \in DOMAIN f : c # e.callId => (g[c].result <=> f[c].result)
        /\ g[e.callId].result
    BY <1>1, <1>4, ResultRecorded DEF Retouched, Shaped, CallFields
  <2> HIDE DEF w2
  <2> QED BY <1>4, <2>1 DEF CallsKnown
<1>5. ASSUME e.type \notin ToolTypes PROVE Goal
  <2>1. g = f /\ w2.unresolved = w.unresolved
    BY <1>1, <1>5, FieldsStay DEF ToolFields
  <2> HIDE DEF w2
  <2> QED BY <1>5, <2>1 DEF CallsKnown, ToolTypes
<1> QED BY <1>2, <1>3, <1>4, <1>5 DEF ToolTypes

\* A call keeps its one approval, and the approval its call.
LEMMA ApprovalsStayMatched ==
  ASSUME NEW e, NEW w, Next1(w, e), ApprovalsMatch(w)
  PROVE  ApprovalsMatch(Apply(w, e))
<1> DEFINE w2 == Apply(w, e)
           f == w.calls
           g == w2.calls
           Goal == ApprovalsMatch(w2)
<1>1. IsValidator(w) /\ Shaped(w) /\ Accepts(w, e) /\ Defined(e)
  BY DEF Next1
<1>2. ASSUME e.type = "tool/call" PROVE Goal
  <2>1. /\ e.callId \notin DOMAIN f /\ DOMAIN g = DOMAIN f \cup {e.callId}
        /\ \A c \in DOMAIN f : g[c] = f[c]
        /\ g[e.callId].approvalId = None /\ ~g[e.callId].approvalDecided
        /\ w2.approvals = w.approvals /\ w2.pendingApprovals = w.pendingApprovals
    BY <1>1, <1>2, CallRecorded
  <2>2. \A c \in DOMAIN f : g[c].approvalDecided <=> f[c].approvalDecided
    BY <2>1
  <2> HIDE DEF w2
  <2> QED BY <2>1, <2>2 DEF ApprovalsMatch
<1>3. ASSUME e.type = "approval/request" PROVE Goal
  <2>1. /\ e.callId \in DOMAIN f /\ e.approvalId \notin DOMAIN w.approvals
        /\ f[e.callId].approvalId = None /\ DOMAIN g = DOMAIN f
        /\ \A c \in DOMAIN f : c # e.callId => g[c].approvalId = f[c].approvalId
        /\ \A c \in DOMAIN f : g[c].approvalDecided <=> f[c].approvalDecided
        /\ g[e.callId].approvalId = e.approvalId
        /\ w2.approvals = Put(w.approvals, e.approvalId, e.callId)
        /\ w2.pendingApprovals = w.pendingApprovals \cup {e.approvalId}
    BY <1>1, <1>3, ApprovalRequested DEF Retouched, Shaped, CallFields
  <2>2. /\ DOMAIN w2.approvals = DOMAIN w.approvals \cup {e.approvalId}
        /\ \A a \in DOMAIN w.approvals : w2.approvals[a] = w.approvals[a]
        /\ w2.approvals[e.approvalId] = e.callId
    BY <2>1 DEF Put
  <2>3. e.approvalId # None
    BY <1>1, <1>3 DEF Defined
  <2> HIDE DEF w2
  <2>4. ~f[e.callId].approvalDecided
    BY <2>1 DEF ApprovalsMatch
  <2>5. ASSUME NEW a \in DOMAIN w2.approvals
        PROVE  /\ w2.approvals[a] \in DOMAIN g /\ g[w2.approvals[a]].approvalId = a
               /\ a \in w2.pendingApprovals <=> ~g[w2.approvals[a]].approvalDecided
    <3>1. CASE a = e.approvalId
      BY <2>1, <2>2, <2>4, <3>1
    <3>2. CASE a # e.approvalId
      <4>1. a \in DOMAIN w.approvals /\ w2.approvals[a] = w.approvals[a]
        BY <2>2, <3>2
      <4> DEFINE c == w.approvals[a]
      <4>2. c \in DOMAIN f /\ f[c].approvalId = a /\ (a \in w.pendingApprovals <=> ~f[c].approvalDecided)
        BY <4>1 DEF ApprovalsMatch
      <4>3. c # e.callId
        BY <2>1, <4>1, <4>2 DEF ApprovalsMatch
      <4> HIDE DEF c
      <4>4. g[c].approvalId = a /\ (a \in w2.pendingApprovals <=> ~g[c].approvalDecided)
        BY <2>1, <3>2, <4>2, <4>3
      <4> QED BY <2>1, <4>1, <4>2, <4>4 DEF c
    <3> QED BY <3>1, <3>2
  <2>6. ASSUME NEW c \in DOMAIN g
        PROVE  IF g[c].approvalId = None THEN ~g[c].approvalDecided
               ELSE g[c].approvalId \in DOMAIN w2.approvals /\ w2.approvals[g[c].approvalId] = c
    <3>1. CASE c = e.callId
      BY <2>1, <2>2, <2>3, <3>1
    <3>2. CASE c # e.callId
      BY <2>1, <2>2, <3>2 DEF ApprovalsMatch
    <3> QED BY <3>1, <3>2
  <2>7. w2.pendingApprovals \subseteq DOMAIN w2.approvals /\ None \notin DOMAIN w2.approvals
    BY <2>1, <2>2, <2>3 DEF ApprovalsMatch
  <2> QED BY <2>5, <2>6, <2>7 DEF ApprovalsMatch
<1>4. ASSUME e.type = "approval/decision" PROVE Goal
  <2>1. /\ e.approvalId \in DOMAIN w.approvals /\ w.approvals[e.approvalId] = e.callId
        /\ e.callId \in DOMAIN f /\ DOMAIN g = DOMAIN f
        /\ \A c \in DOMAIN f : g[c].approvalId = f[c].approvalId
        /\ \A c \in DOMAIN f : c # e.callId => (g[c].approvalDecided <=> f[c].approvalDecided)
        /\ g[e.callId].approvalDecided
        /\ w2.approvals = w.approvals
        /\ w2.pendingApprovals = w.pendingApprovals \ {e.approvalId}
    BY <1>1, <1>4, ApprovalDecided DEF Retouched, Shaped, CallFields
  <2> HIDE DEF w2
  <2>2. ASSUME NEW a \in DOMAIN w.approvals
        PROVE  /\ w.approvals[a] \in DOMAIN g /\ g[w.approvals[a]].approvalId = a
               /\ a \in w2.pendingApprovals <=> ~g[w.approvals[a]].approvalDecided
    <3> DEFINE c == w.approvals[a]
    <3>1. c \in DOMAIN f /\ f[c].approvalId = a /\ (a \in w.pendingApprovals <=> ~f[c].approvalDecided)
      BY DEF ApprovalsMatch
    <3>2. a # e.approvalId => c # e.callId
      BY <2>1, <3>1 DEF ApprovalsMatch
    <3>3. a = e.approvalId => c = e.callId
      BY <2>1
    <3> HIDE DEF c
    <3>4. c \in DOMAIN g /\ g[c].approvalId = a /\ (a \in w2.pendingApprovals <=> ~g[c].approvalDecided)
      BY <2>1, <3>1, <3>2, <3>3
    <3> QED BY <3>4 DEF c
  <2>3. ASSUME NEW c \in DOMAIN g
        PROVE  IF g[c].approvalId = None THEN ~g[c].approvalDecided
               ELSE g[c].approvalId \in DOMAIN w.approvals /\ w.approvals[g[c].approvalId] = c
    <3>1. g[c].approvalId = f[c].approvalId /\ c \in DOMAIN f
      BY <2>1
    <3>2. CASE f[c].approvalId = None
      <4>1. c # e.callId
        BY <2>1, <3>2 DEF ApprovalsMatch
      <4>2. ~f[c].approvalDecided
        BY <3>1, <3>2 DEF ApprovalsMatch
      <4> QED BY <2>1, <3>1, <3>2, <4>1, <4>2
    <3>3. CASE f[c].approvalId # None
      BY <3>1, <3>3 DEF ApprovalsMatch
    <3> QED BY <3>2, <3>3
  <2>4. w2.pendingApprovals \subseteq DOMAIN w.approvals /\ None \notin DOMAIN w.approvals
    BY <2>1 DEF ApprovalsMatch
  <2> QED BY <2>1, <2>2, <2>3, <2>4 DEF ApprovalsMatch
<1>5. ASSUME e.type = "tool/result" PROVE Goal
  <2>1. /\ DOMAIN g = DOMAIN f
        /\ \A c \in DOMAIN f : g[c].approvalId = f[c].approvalId
        /\ \A c \in DOMAIN f : g[c].approvalDecided <=> f[c].approvalDecided
        /\ w2.approvals = w.approvals /\ w2.pendingApprovals = w.pendingApprovals
    BY <1>1, <1>5, ResultRecorded DEF Retouched, Shaped, CallFields
  <2> HIDE DEF w2
  <2> QED BY <2>1 DEF ApprovalsMatch
<1>6. ASSUME e.type \notin ToolTypes PROVE Goal
  <2>1. g = f /\ w2.approvals = w.approvals /\ w2.pendingApprovals = w.pendingApprovals
    BY <1>1, <1>6, FieldsStay DEF ToolFields
  <2> HIDE DEF w2
  <2> QED BY <2>1 DEF ApprovalsMatch
<1> QED BY <1>2, <1>3, <1>4, <1>5, <1>6 DEF ToolTypes

\* What is known of the approvals stays known after one event more.
LEMMA ApprovalsStayKnown ==
  ASSUME NEW E, NEW e, NEW w, Next1(w, e), ApprovalsKnown(E, w)
  PROVE  ApprovalsKnown(E \cup {e}, Apply(w, e))
<1> DEFINE w2 == Apply(w, e)
           Goal == ApprovalsKnown(E \cup {e}, w2)
<1>1. IsValidator(w) /\ Shaped(w) /\ Accepts(w, e) /\ Defined(e)
  BY DEF Next1
<1>2. ASSUME e.type = "approval/request" PROVE Goal
  <2>1. /\ e.approvalId \notin DOMAIN w.approvals
        /\ w2.approvals = Put(w.approvals, e.approvalId, e.callId)
        /\ w2.pendingApprovals = w.pendingApprovals \cup {e.approvalId}
    BY <1>1, <1>2, ApprovalRequested
  <2>2. /\ DOMAIN w2.approvals = DOMAIN w.approvals \cup {e.approvalId}
        /\ \A a \in DOMAIN w.approvals : w2.approvals[a] = w.approvals[a]
        /\ w2.approvals[e.approvalId] = e.callId
    BY <2>1 DEF Put
  <2> HIDE DEF w2
  <2> QED BY <1>2, <2>1, <2>2 DEF ApprovalsKnown
<1>3. ASSUME e.type = "approval/decision" PROVE Goal
  <2>1. /\ e.approvalId \in DOMAIN w.approvals /\ w2.approvals = w.approvals
        /\ w2.pendingApprovals = w.pendingApprovals \ {e.approvalId}
    BY <1>1, <1>3, ApprovalDecided
  <2> HIDE DEF w2
  <2> QED BY <1>3, <2>1 DEF ApprovalsKnown
<1>4. ASSUME e.type \notin {"approval/request", "approval/decision"} PROVE Goal
  <2>1. w2.approvals = w.approvals /\ w2.pendingApprovals = w.pendingApprovals
    BY <1>1, <1>4, FieldsStay, CallRecorded, ResultRecorded DEF ToolFields, ToolTypes
  <2> HIDE DEF w2
  <2> QED BY <1>4, <2>1 DEF ApprovalsKnown
<1> QED BY <1>2, <1>3, <1>4

\* The turn and the step of a call never change, nor the call of an approval.
LEMMA CallsKeepTheirStep ==
  ASSUME NEW e, NEW w, Next1(w, e)
  PROVE  LET w2 == Apply(w, e)
         IN  /\ \A c \in DOMAIN w.calls :
                  /\ c \in DOMAIN w2.calls
                  /\ w2.calls[c].turn = w.calls[c].turn /\ w2.calls[c].step = w.calls[c].step
             /\ \A a \in DOMAIN w.approvals :
                  a \in DOMAIN w2.approvals /\ w2.approvals[a] = w.approvals[a]
<1> DEFINE w2 == Apply(w, e)
           Goal == /\ \A c \in DOMAIN w.calls :
                        /\ c \in DOMAIN w2.calls
                        /\ w2.calls[c].turn = w.calls[c].turn /\ w2.calls[c].step = w.calls[c].step
                   /\ \A a \in DOMAIN w.approvals :
                        a \in DOMAIN w2.approvals /\ w2.approvals[a] = w.approvals[a]
<1>1. IsValidator(w) /\ Shaped(w) /\ Accepts(w, e)
  BY DEF Next1
<1>2. ASSUME e.type = "tool/call" PROVE Goal
  BY <1>1, <1>2, CallRecorded
<1>3. ASSUME e.type = "approval/request" PROVE Goal
  <2>1. /\ DOMAIN w2.calls = DOMAIN w.calls
        /\ \A c \in DOMAIN w.calls : w2.calls[c].turn = w.calls[c].turn
        /\ \A c \in DOMAIN w.calls : w2.calls[c].step = w.calls[c].step
    BY <1>1, <1>3, ApprovalRequested DEF Retouched, Shaped, CallFields
  <2>2. e.approvalId \notin DOMAIN w.approvals /\ w2.approvals = Put(w.approvals, e.approvalId, e.callId)
    BY <1>1, <1>3, ApprovalRequested
  <2> HIDE DEF w2
  <2>3. \A a \in DOMAIN w.approvals : a \in DOMAIN w2.approvals /\ w2.approvals[a] = w.approvals[a]
    BY <2>2 DEF Put
  <2> QED BY <2>1, <2>3
<1>4. ASSUME e.type = "approval/decision" PROVE Goal
  BY <1>1, <1>4, ApprovalDecided DEF Retouched, Shaped, CallFields
<1>5. ASSUME e.type = "tool/result" PROVE Goal
  BY <1>1, <1>5, ResultRecorded DEF Retouched, Shaped, CallFields
<1>6. ASSUME e.type \notin ToolTypes PROVE Goal
  BY <1>1, <1>6, FieldsStay DEF ToolFields
<1> QED BY <1>2, <1>3, <1>4, <1>5, <1>6 DEF ToolTypes

\* What a suspension waits for stays in its step.
LEMMA SuspensionStaysKnown ==
  ASSUME NEW E, NEW e, NEW w, Next1(w, e),
         CallsKnown(E, w), ApprovalsMatch(w), SuspensionKnown(w)
  PROVE  SuspensionKnown(Apply(w, e))
<1> DEFINE w2 == Apply(w, e)
           Goal == SuspensionKnown(w2)
<1>1. IsValidator(w) /\ Shaped(w) /\ Accepts(w, e)
  BY DEF Next1
<1>2. /\ \A c \in DOMAIN w.calls :
           /\ c \in DOMAIN w2.calls
           /\ w2.calls[c].turn = w.calls[c].turn /\ w2.calls[c].step = w.calls[c].step
      /\ \A a \in DOMAIN w.approvals :
           a \in DOMAIN w2.approvals /\ w2.approvals[a] = w.approvals[a]
  BY CallsKeepTheirStep
<1>3. ASSUME e.type = "turn/suspend" PROVE Goal
  <2> DEFINE s == w2.suspension
  <2>1. /\ s.turn = e.turn /\ s.step = e.step
        /\ s.callIds = UnresolvedIn(w, e) /\ s.approvalIds = PendingIn(w, e)
    BY <1>1, <1>3, TurnApplied
  <2> HIDE DEF w2
  <2>2. \A c \in UnresolvedIn(w, e) :
          c \in DOMAIN w.calls /\ w.calls[c].turn = e.turn /\ w.calls[c].step = e.step
    BY DEF UnresolvedIn, CallsKnown
  <2>3. \A a \in PendingIn(w, e) :
          /\ a \in DOMAIN w.approvals /\ w.approvals[a] \in DOMAIN w.calls
          /\ w.calls[w.approvals[a]].turn = e.turn /\ w.calls[w.approvals[a]].step = e.step
    BY DEF PendingIn, ApprovalsMatch
  <2> QED BY <1>2, <2>1, <2>2, <2>3 DEF SuspensionKnown
<1>4. ASSUME e.type = "turn/resume" PROVE Goal
  <2>1. w2.suspension = None
    BY <1>1, <1>4, TurnApplied
  <2> HIDE DEF w2
  <2> QED BY <2>1 DEF SuspensionKnown
<1>5. ASSUME e.type \notin {"turn/suspend", "turn/resume"} PROVE Goal
  <2>1. w2.suspension = w.suspension
    BY <1>1, <1>5, TurnApplied DEF TurnTypes
  <2> HIDE DEF w2
  <2> QED BY <1>2, <2>1 DEF SuspensionKnown
<1> QED BY <1>3, <1>4, <1>5

\* What is known of the requests stays known after one event more.
LEMMA RequestsStayKnown ==
  ASSUME NEW E, NEW e, NEW w, Next1(w, e), RequestsKnown(E, w)
  PROVE  RequestsKnown(E \cup {e}, Apply(w, e))
<1> DEFINE w2 == Apply(w, e)
           f == w.requests
           g == w2.requests
           Goal == RequestsKnown(E \cup {e}, w2)
<1>1. IsValidator(w) /\ Shaped(w) /\ Accepts(w, e)
  BY DEF Next1
<1>2. ASSUME e.type = "request/header" PROVE Goal
  <2>1. /\ DOMAIN g = DOMAIN f \cup {e.requestId} /\ \A r \in DOMAIN f : g[r] = f[r]
    BY <1>1, <1>2, RequestMade
  <2> HIDE DEF w2
  <2> QED BY <1>2, <2>1 DEF RequestsKnown
<1>3. ASSUME e.type = "request/attempt" PROVE Goal
  <2>1. /\ DOMAIN g = DOMAIN f
        /\ \A r \in DOMAIN f : g[r].turn = f[r].turn /\ g[r].step = f[r].step
    BY <1>1, <1>3, RequestAttempted DEF Retouched, Shaped, RequestFields
  <2> HIDE DEF w2
  <2> QED BY <1>3, <2>1 DEF RequestsKnown
<1>4. ASSUME e.type \in RequestTypes \ {"request/header", "request/attempt"} PROVE Goal
  <2>1. /\ g = f
        /\ e.type \in {"assistant/chunk", "assistant/message"} =>
             /\ e.requestId \in DOMAIN f
             /\ f[e.requestId].turn = e.turn /\ f[e.requestId].step = e.step
    BY <1>1, <1>4, RequestMentioned
  <2> HIDE DEF w2
  <2> QED BY <2>1 DEF RequestsKnown
<1>5. ASSUME e.type \notin RequestTypes PROVE Goal
  <2>1. g = f
    BY <1>1, <1>5, FieldsStay
  <2> HIDE DEF w2
  <2> QED BY <1>5, <2>1 DEF RequestsKnown, RequestTypes
<1> QED BY <1>2, <1>3, <1>4, <1>5

\* What is known of the retries stays known after one event more.
LEMMA RetriesStayKnown ==
  ASSUME NEW E, NEW e, NEW w, Next1(w, e), RetriesKnown(E, w)
  PROVE  RetriesKnown(E \cup {e}, Apply(w, e))
<1> DEFINE w2 == Apply(w, e)
           f == w.retries
           g == w2.retries
           Goal == RetriesKnown(E \cup {e}, w2)
<1>1. IsValidator(w) /\ Shaped(w) /\ Accepts(w, e) /\ Defined(e)
  BY DEF Next1
<1>2. ASSUME e.type = "retry/scheduled" PROVE Goal
  <2>1. /\ e.retryId \notin DOMAIN f /\ DOMAIN g = DOMAIN f \cup {e.retryId}
        /\ \A t \in DOMAIN f : g[t] = f[t]
        /\ g[e.retryId].state = "scheduled"
        /\ w2.pendingRetries = w.pendingRetries \cup {e.retryId}
    BY <1>1, <1>2, RetryScheduled
  <2>2. e.retryId # None /\ \A t : ~Closes(e, t)
    BY <1>1, <1>2 DEF Defined, Closes
  <2>3. \A d \in E : ~Closes(d, e.retryId)
    BY <2>1, <2>2 DEF RetriesKnown
  <2> HIDE DEF w2
  <2> QED BY <1>2, <2>1, <2>2, <2>3 DEF RetriesKnown
<1>3. ASSUME e.type = "retry/started" PROVE Goal
  <2>1. /\ e.retryId \in DOMAIN f /\ f[e.retryId].state \in {"scheduled", "started"}
        /\ DOMAIN g = DOMAIN f
        /\ \A t \in DOMAIN f : t # e.retryId => g[t].state = f[t].state
        /\ g[e.retryId].state = "started" /\ w2.pendingRetries = w.pendingRetries
    BY <1>1, <1>3, RetryMoved DEF Retouched, Shaped, RetryFields
  <2>2. \A t : ~Closes(e, t)
    BY <1>3 DEF Closes
  <2> HIDE DEF w2
  <2> QED BY <1>3, <2>1, <2>2 DEF RetriesKnown
<1>4. ASSUME e.type = "retry/cancelled" PROVE Goal
  <2>1. /\ e.retryId \in DOMAIN f /\ DOMAIN g = DOMAIN f
        /\ \A t \in DOMAIN f : t # e.retryId => g[t].state = f[t].state
        /\ g[e.retryId].state = "cancelled"
        /\ w2.pendingRetries = w.pendingRetries \ {e.retryId}
    BY <1>1, <1>4, RetryMoved DEF Retouched, Shaped, RetryFields
  <2>2. \A t : Closes(e, t) <=> t = e.retryId
    BY <1>4 DEF Closes
  <2> HIDE DEF w2
  <2> QED BY <1>4, <2>1, <2>2 DEF RetriesKnown
<1>5. ASSUME e.type = "request/attempt", e.retryId # None PROVE Goal
  <2>1. /\ e.retryId \in DOMAIN f /\ DOMAIN g = DOMAIN f
        /\ \A t \in DOMAIN f : t # e.retryId => g[t].state = f[t].state
        /\ g[e.retryId].state = "consumed"
        /\ w2.pendingRetries = w.pendingRetries \ {e.retryId}
    BY <1>1, <1>5, RequestAttempted DEF Retouched, Shaped, RetryFields
  <2>2. \A t : Closes(e, t) <=> t = e.retryId
    BY <1>5 DEF Closes
  <2> HIDE DEF w2
  <2> QED BY <1>5, <2>1, <2>2 DEF RetriesKnown
<1>6. ASSUME e.type \notin RetryTypes, e.type = "request/attempt" => e.retryId = None PROVE Goal
  <2>1. g = f /\ w2.pendingRetries = w.pendingRetries
    <3>1. CASE e.type = "request/attempt"
      BY <1>1, <1>6, <3>1, RequestAttempted
    <3>2. CASE e.type = "request/header"
      BY <1>1, <3>2, RequestMade
    <3>3. CASE e.type \in RequestTypes \ {"request/header", "request/attempt"}
      BY <1>1, <3>3, RequestMentioned
    <3>4. CASE e.type \notin RequestTypes
      BY <1>1, <1>6, <3>4, FieldsStay DEF RetryFieldsOf
    <3> QED BY <3>1, <3>2, <3>3, <3>4
  <2>2. \A t : Closes(e, t) => t = None
    BY <1>6 DEF Closes, RetryTypes
  <2> HIDE DEF w2
  <2> QED BY <1>6, <2>1, <2>2 DEF RetriesKnown, RetryTypes
<1> QED BY <1>2, <1>3, <1>4, <1>5, <1>6 DEF RetryTypes

\* A step is never open outside a turn.
LEMMA StepStaysKnown ==
  ASSUME NEW e, NEW w, Next1(w, e), StepKnown(w)
  PROVE  StepKnown(Apply(w, e))
<1> DEFINE w2 == Apply(w, e)
           Goal == StepKnown(w2)
<1>1. IsValidator(w) /\ Accepts(w, e) /\ Defined(e)
  BY DEF Next1
<1>2. e.type \notin {"turn/start", "turn/end"} =>
        w2.openTurn = w.openTurn /\ w2.lastTurn = w.lastTurn
  BY <1>1, TurnApplied DEF TurnTypes
<1>3. e.type \notin {"step/start", "step/end"} => w2.openStep = w.openStep
  BY <1>1, StepApplied DEF StepTypes
<1>4. ASSUME e.type = "turn/start" PROVE Goal
  <2>1. w2.openTurn = e.turn /\ w2.lastTurn = e.turn /\ e.turn # None
    BY <1>1, <1>4, TurnApplied DEF Defined
  <2> HIDE DEF w2
  <2> QED BY <2>1 DEF StepKnown
<1>5. ASSUME e.type = "turn/end" PROVE Goal
  <2>1. w2.lastTurn = w.lastTurn /\ w2.openStep = None
    BY <1>1, <1>3, <1>5, TurnApplied
  <2> HIDE DEF w2
  <2> QED BY <2>1 DEF StepKnown
<1>6. ASSUME e.type = "step/start" PROVE Goal
  <2>1. w.openTurn = e.turn /\ e.turn # None
    BY <1>1, <1>6, StepApplied DEF Defined
  <2> HIDE DEF w2
  <2> QED BY <1>2, <1>6, <2>1 DEF StepKnown
<1>7. ASSUME e.type = "step/end" PROVE Goal
  <2>1. w2.openStep = None
    BY <1>1, <1>7, StepApplied
  <2> HIDE DEF w2
  <2> QED BY <1>2, <1>7, <2>1 DEF StepKnown
<1>8. ASSUME e.type \notin {"turn/start", "turn/end", "step/start", "step/end"} PROVE Goal
  <2> HIDE DEF w2
  <2> QED BY <1>2, <1>3, <1>8 DEF StepKnown
<1> QED BY <1>4, <1>5, <1>6, <1>7, <1>8

\* All of it.
Learned(E, w) ==
  /\ IsValidator(w) /\ Shaped(w)
  /\ CallsKnown(E, w)
  /\ ApprovalsMatch(w) /\ ApprovalsKnown(E, w)
  /\ SuspensionKnown(w)
  /\ RequestsKnown(E, w)
  /\ RetriesKnown(E, w)
  /\ StepKnown(w)

\* A fresh validator knows the empty history.
LEMMA NothingIsLearned == Learned({}, Fresh)
<1>1. /\ DOMAIN Fresh.calls = {} /\ DOMAIN Fresh.approvals = {} /\ DOMAIN Fresh.requests = {}
      /\ DOMAIN Fresh.retries = {}
      /\ Fresh.unresolved = {} /\ Fresh.pendingApprovals = {} /\ Fresh.pendingRetries = {}
      /\ Fresh.suspension = None /\ Fresh.lastTurn = 0 /\ Fresh.openStep = None
  BY DEF Fresh, NoMap
<1>2. Fresh.lastTurn # None
  BY <1>1, EventsAssumption
<1>3. IsValidator(Fresh) /\ Shaped(Fresh)
  BY <1>1, FreshIsValidator DEF Shaped
<1> QED BY <1>1, <1>2, <1>3
        DEF Learned, CallsKnown, ApprovalsMatch, ApprovalsKnown, SuspensionKnown,
            RequestsKnown, RetriesKnown, StepKnown

\* Whatever is accepted, the validator knows it as well from then on.
LEMMA OneMoreIsLearned ==
  ASSUME NEW E, NEW w, Learned(E, w), NEW e, Accepts(w, e), Defined(e)
  PROVE  Learned(E \cup {e}, Apply(w, e))
<1> DEFINE w2 == Apply(w, e)
           F == E \cup {e}
<1>1. Next1(w, e)
  BY DEF Next1, Learned
<1>2. IsValidator(w2) /\ Shaped(w2)
  BY <1>1, EventTouches, ShapeStays DEF Next1
<1>3. CallsKnown(F, w2)
  BY <1>1, CallsStayKnown DEF Learned
<1>4. ApprovalsMatch(w2) /\ ApprovalsKnown(F, w2)
  BY <1>1, ApprovalsStayMatched, ApprovalsStayKnown DEF Learned
<1>5. SuspensionKnown(w2)
  BY <1>1, SuspensionStaysKnown DEF Learned
<1>6. RequestsKnown(F, w2)
  BY <1>1, RequestsStayKnown DEF Learned
<1>7. RetriesKnown(F, w2)
  BY <1>1, RetriesStayKnown DEF Learned
<1>8. StepKnown(w2)
  BY <1>1, StepStaysKnown DEF Learned
<1> HIDE DEF w2, F
<1>9. Learned(F, w2)
  BY <1>2, <1>3, <1>4, <1>5, <1>6, <1>7, <1>8 DEF Learned
<1> QED BY <1>9 DEF w2, F

------------------------------------------------------------------------------
(* Compactions and children, of which the order of the events tells. *)

\* Compactions and children that were started and not ended since.
NotEnded(h, P, start, end, id, x) ==
  \E i \in P :
    /\ h[i].type = start /\ h[i][id] = x
    /\ \A k \in P : k > i => ~(h[k].type = end /\ h[k][id] = x)

NestedKnown(h, P, w) ==
  /\ \A x : x \in DOMAIN w.compactions <=>
       NotEnded(h, P, "compaction/start", "compaction/end", "compactionId", x)
  /\ \A x : x \in w.subagents <=>
       NotEnded(h, P, "subagent/start", "subagent/end", "child", x)

\* One event more starts, ends or does not touch x.
LEMMA NotEndedNext ==
  ASSUME NEW h, NEW P \in SUBSET Nat, NEW m \in Nat, \A i \in P : i < m,
         NEW start, NEW end, start # end, NEW id, NEW x
  PROVE  NotEnded(h, P \cup {m}, start, end, id, x) <=>
           IF h[m].type = start /\ h[m][id] = x THEN TRUE
           ELSE IF h[m].type = end /\ h[m][id] = x THEN FALSE
           ELSE NotEnded(h, P, start, end, id, x)
<1> DEFINE starts(i) == h[i].type = start /\ h[i][id] = x
           ends(i) == h[i].type = end /\ h[i][id] = x
           Q == P \cup {m}
<1>1. \A R : NotEnded(h, R, start, end, id, x) <=>
               \E i \in R : starts(i) /\ \A k \in R : k > i => ~ends(k)
  BY DEF NotEnded
<1>2. \A i : ~(starts(i) /\ ends(i))
  OBVIOUS
<1>3. (h[m].type = start /\ h[m][id] = x) = starts(m)
  OBVIOUS
<1>4. (h[m].type = end /\ h[m][id] = x) = ends(m)
  OBVIOUS
<1> HIDE DEF starts, ends
<1>5. CASE starts(m)
  <2>1. \A k \in Q : ~(k > m)
    OBVIOUS
  <2> QED BY <1>1, <1>3, <1>5, <2>1
<1>6. CASE ~starts(m) /\ ends(m)
  <2>1. \A i \in P : m > i
    OBVIOUS
  <2>2. \A i \in Q : ~(starts(i) /\ \A k \in Q : k > i => ~ends(k))
    BY <1>6, <2>1
  <2>3. ~NotEnded(h, Q, start, end, id, x)
    BY <1>1, <2>2
  <2> QED BY <1>3, <1>4, <1>6, <2>3
<1>7. CASE ~starts(m) /\ ~ends(m)
  <2>1. (\E i \in Q : starts(i) /\ \A k \in Q : k > i => ~ends(k)) <=>
          \E i \in P : starts(i) /\ \A k \in P : k > i => ~ends(k)
    BY <1>7
  <2> QED BY <1>1, <1>3, <1>4, <1>7, <2>1
<1> QED BY <1>5, <1>6, <1>7

\* What is known of compactions and children stays known after one position more.
LEMMA NestedStaysKnown ==
  ASSUME NEW h, NEW P \in SUBSET Nat, NEW m \in Nat, \A i \in P : i < m,
         NEW w, Next1(w, h[m]), NestedKnown(h, P, w)
  PROVE  NestedKnown(h, P \cup {m}, Apply(w, h[m]))
<1> DEFINE e == h[m]
           w2 == Apply(w, e)
           open(R, x) == NotEnded(h, R, "compaction/start", "compaction/end", "compactionId", x)
           runs(R, x) == NotEnded(h, R, "subagent/start", "subagent/end", "child", x)
           Q == P \cup {m}
<1>1. IsValidator(w) /\ Accepts(w, e)
  BY DEF Next1
<1>2. /\ DOMAIN w2.compactions =
           IF e.type = "compaction/start" THEN DOMAIN w.compactions \cup {e.compactionId}
           ELSE IF e.type = "compaction/end" THEN DOMAIN w.compactions \ {e.compactionId}
           ELSE DOMAIN w.compactions
      /\ w2.subagents =
           IF e.type = "subagent/start" THEN w.subagents \cup {e.child}
           ELSE IF e.type = "subagent/end" THEN w.subagents \ {e.child} ELSE w.subagents
  BY <1>1, NestedApplied
<1>3. \A x : open(Q, x) <=>
        IF e.type = "compaction/start" /\ e["compactionId"] = x THEN TRUE
        ELSE IF e.type = "compaction/end" /\ e["compactionId"] = x THEN FALSE
        ELSE open(P, x)
  BY NotEndedNext
<1>4. \A x : runs(Q, x) <=>
        IF e.type = "subagent/start" /\ e["child"] = x THEN TRUE
        ELSE IF e.type = "subagent/end" /\ e["child"] = x THEN FALSE
        ELSE runs(P, x)
  BY NotEndedNext
<1>5. /\ \A x : x \in DOMAIN w.compactions <=> open(P, x)
      /\ \A x : x \in w.subagents <=> runs(P, x)
  BY DEF NestedKnown
<1> HIDE DEF w2, open, runs, Q
<1>6. \A x : x \in DOMAIN w2.compactions <=> open(Q, x)
  BY <1>2, <1>3, <1>5
<1>7. \A x : x \in w2.subagents <=> runs(Q, x)
  BY <1>2, <1>4, <1>5
<1> QED BY <1>6, <1>7 DEF NestedKnown, open, runs, w2, Q

\* The events at the positions P of h are known.
Known(h, P, w) == Learned({h[i] : i \in P}, w) /\ NestedKnown(h, P, w)

\* A fresh validator knows no position of a history.
LEMMA NothingIsKnown ==
  ASSUME NEW h
  PROVE  Known(h, {}, Fresh)
<1>1. {h[i] : i \in {}} = {}
  OBVIOUS
<1>2. DOMAIN Fresh.compactions = {} /\ Fresh.subagents = {}
  BY DEF Fresh, NoMap
<1>3. NestedKnown(h, {}, Fresh)
  BY <1>2 DEF NestedKnown, NotEnded
<1> QED BY <1>1, <1>3, NothingIsLearned DEF Known

\* A validator that accepts the next event of a history knows it too.
LEMMA OneMoreIsKnown ==
  ASSUME NEW h, NEW P \in SUBSET Nat, NEW m \in Nat, \A i \in P : i < m,
         NEW w, Known(h, P, w), Accepts(w, h[m]), Defined(h[m])
  PROVE  Known(h, P \cup {m}, Apply(w, h[m]))
<1> DEFINE E == {h[i] : i \in P}
<1>1. {h[i] : i \in P \cup {m}} = E \cup {h[m]}
  OBVIOUS
<1>2. Next1(w, h[m])
  BY DEF Next1, Known, Learned
<1>3. NestedKnown(h, P \cup {m}, Apply(w, h[m]))
  BY <1>2, NestedStaysKnown DEF Known
<1>4. Learned(E, w)
  BY DEF Known
<1> HIDE DEF E
<1>5. Learned(E \cup {h[m]}, Apply(w, h[m]))
  BY <1>4, OneMoreIsLearned
<1> QED BY <1>1, <1>3, <1>5 DEF Known

\* What the validator knows after a legal history.
LEMMA HistoryIsKnown ==
  ASSUME NEW h, IsHistory(h), Replay(h).ok
  PROVE  Known(h, DOMAIN h, Replay(h).v)
<1> DEFINE L == Loop(Fresh, h)
           n == Len(h)
           T == {i \in 0 .. n : ~Known(h, 1 .. i, L[i].v)}
<1>1. n \in Nat /\ DOMAIN h = 1 .. n /\ \A i \in 1 .. n : Defined(h[i])
  BY SeqIsSeq DEF IsHistory, IsSeq
<1>2. /\ L[0].v = Fresh /\ L[n].v = Replay(h).v
      /\ \A i \in 1 .. n : Accepts(L[i - 1].v, h[i]) /\ L[i].v = Apply(L[i - 1].v, h[i])
  BY <1>1, AcceptedSteps DEF Replay
<1>3. T = {}
  <2> SUFFICES ASSUME T # {} PROVE FALSE
    OBVIOUS
  <2>1. PICK i \in T : \A k \in T : i <= k
    <3>1. T \in SUBSET Nat
      BY <1>1
    <3> HIDE DEF T
    <3> QED BY <3>1, Least
  <2> HIDE DEF L, n
  <2>2. i # 0
    <3>1. 1 .. 0 = {}
      OBVIOUS
    <3> QED BY <1>2, <2>1, <3>1, NothingIsKnown
  <2>3. /\ i \in 1 .. n /\ i \in Nat /\ i - 1 \in 0 .. n /\ ~(i <= i - 1)
        /\ 1 .. i = (1 .. i - 1) \cup {i} /\ 1 .. i - 1 \in SUBSET Nat
        /\ \A k \in 1 .. i - 1 : k < i
    BY <1>1, <2>1, <2>2
  <2>4. Known(h, 1 .. i - 1, L[i - 1].v)
    BY <2>1, <2>3
  <2> DEFINE P == 1 .. i - 1
             w == L[i - 1].v
  <2>5. /\ Accepts(w, h[i]) /\ L[i].v = Apply(w, h[i]) /\ Defined(h[i])
        /\ Known(h, P, w) /\ P \in SUBSET Nat /\ \A k \in P : k < i
    BY <1>1, <1>2, <2>3, <2>4
  <2> HIDE DEF P, w
  <2>6. Known(h, P \cup {i}, Apply(w, h[i]))
    BY <2>3, <2>5, OneMoreIsKnown
  <2>7. Known(h, 1 .. i, L[i].v)
    BY <2>3, <2>5, <2>6 DEF P
  <2> QED BY <2>1, <2>7
<1>4. Known(h, 1 .. n, L[n].v)
  BY <1>1, <1>3
<1> HIDE DEF L, n
<1> QED BY <1>1, <1>2, <1>4

------------------------------------------------------------------------------
(* The inductive invariant. *)

\* A verdict is a record of the validator afterwards and a Boolean.
LEMMA AcceptedVerdict ==
  ASSUME NEW u, NEW b, Len(b) \in Nat, AppendBatch(u, b).ok
  PROVE  AppendBatch(u, b) = [v |-> AppendBatch(u, b).v, ok |-> TRUE]
<1> DEFINE end == Loop(u, b)[Len(b)]
           w == IF end.ok THEN end.v ELSE Restore(end.v, u, end.undo)
<1>1. AppendBatch(u, b) = [v |-> w, ok |-> end.ok]
  BY DEF AppendBatch
<1>2. end.ok \in BOOLEAN
  <2>1. \A r, e : Checked(r, e).ok \in BOOLEAN
    BY DEF Checked
  <2>2. Started(u).ok \in BOOLEAN
    BY DEF Started
  <2>3. end = Started(u) \/ \E r, e : end = Checked(r, e)
    <3>1. CASE Len(b) = 0
      BY <3>1, LoopSteps
    <3>2. CASE Len(b) # 0
      <4>1. Len(b) \in 1 .. Len(b)
        BY <3>2
      <4> QED BY <4>1, LoopSteps
    <3> QED BY <3>1, <3>2
  <2> HIDE DEF end
  <2> QED BY <2>1, <2>2, <2>3
<1> HIDE DEF end, w
<1>3. end.ok
  BY <1>1
<1>4. end.ok = TRUE
  BY <1>2, <1>3
<1> QED BY <1>1, <1>4

\* Everything a legal history has been followed by, when it is legal in its turn.
LEMMA LegalGrows ==
  ASSUME NEW h, NEW b, NEW w, IsSeq(h), IsSeq(b), Replay(h) = [v |-> w, ok |-> TRUE],
         AppendBatch(w, b).ok
  PROVE  Replay(h \o b) = [v |-> AppendBatch(w, b).v, ok |-> TRUE]
<1> DEFINE S == Range(h) \cup Range(b)
           c == h \o b
<1>1. h \in Seq(S) /\ b \in Seq(S)
  BY DEF IsSeq
<1>2. AppendBatch(Fresh, h).ok /\ AppendBatch(Fresh, h).v = w
  BY DEF Replay
<1>3. Len(c) \in Nat
  BY <1>1
<1>4. AppendBatch(Fresh, c).ok /\ AppendBatch(Fresh, c).v = AppendBatch(w, b).v
  BY <1>1, <1>2, ValidatedInParts
<1> HIDE DEF c
<1>5. AppendBatch(Fresh, c) = [v |-> AppendBatch(Fresh, c).v, ok |-> TRUE]
  BY <1>3, <1>4, AcceptedVerdict
<1>6. Replay(c) = [v |-> AppendBatch(w, b).v, ok |-> TRUE]
  BY <1>4, <1>5 DEF Replay
<1> QED BY <1>6 DEF c

\* Writers append no result of a repair, and what they append names its turn.
LEMMA WritersArePlain ==
  ASSUME NEW e \in Events, setting \in Settings, IsValidator(v), StepKnown(v), Accepts(v, e)
  PROVE  PlainEvents(<<e>>)
<1>1. e \in ToolEvents => (e.type = "tool/result" => e.recovered = None)
  BY DEF ToolEvents
<1>2. e \in RequestEvents =>
        (e.type = "assistant/message" => e.wants = {} \/ \E c : e.wants = {c})
  BY DEF RequestEvents
<1>3. /\ e \in RequestEvents => e.type # "tool/result"
      /\ e \in ToolEvents => e.type # "assistant/message"
      /\ e \in TurnEvents => e.type \notin {"tool/result", "assistant/message"}
      /\ e \in StepEvents => e.type \notin {"tool/result", "assistant/message"}
      /\ e \in SuspendEvents => e.type \notin {"tool/result", "assistant/message"}
      /\ e \in RetryEvents => e.type \notin {"tool/result", "assistant/message"}
      /\ e \in NestedEvents => e.type \notin {"tool/result", "assistant/message"}
  BY DEF RequestEvents, ToolEvents, TurnEvents, StepEvents, SuspendEvents, RetryEvents,
         NestedEvents
<1>4. /\ e.type = "tool/result" => e.recovered = None
      /\ e.type = "assistant/message" => e.wants = {} \/ \E c : e.wants = {c}
  BY <1>1, <1>2, <1>3 DEF Events
<1>5. e.type = "assistant/message" => IsFiniteSet(e.wants)
  BY <1>4, FS_EmptySet, FS_Singleton
<1>6. <<e>> \in Seq({e})
  BY ShortSeqs
<1> DEFINE s == <<e>>
<1>7. IsSeq(s) /\ Range(s) \subseteq {e}
  BY <1>6, SeqIsSeq
<1> HIDE DEF s
<1>8. Defined(e)
  <2>1. None \notin setting.turns \cup setting.approvals \cup setting.retries
    BY EventsAssumption
  <2>2. e.type = "turn/start" => e.turn \in setting.turns
    BY DEF Events, TurnEvents, StepEvents, RequestEvents, ToolEvents, SuspendEvents,
           RetryEvents, NestedEvents
  <2>3. e.type = "step/start" => e.turn = TurnOf
    BY DEF Events, TurnEvents, StepEvents, RequestEvents, ToolEvents, SuspendEvents,
           RetryEvents, NestedEvents
  <2>4. e.type = "approval/request" => e.approvalId \in setting.approvals
    BY DEF Events, TurnEvents, StepEvents, RequestEvents, ToolEvents, SuspendEvents,
           RetryEvents, NestedEvents
  <2>5. e.type = "retry/scheduled" => e.retryId \in setting.retries
    BY DEF Events, TurnEvents, StepEvents, RequestEvents, ToolEvents, SuspendEvents,
           RetryEvents, NestedEvents
  <2>6. e.type = "step/start" => v.openTurn = e.turn
    BY StepApplied
  <2>7. e.type = "step/start" => e.turn # None
    BY <2>3, <2>6 DEF TurnOf, StepKnown
  <2> QED BY <2>1, <2>2, <2>4, <2>5, <2>7 DEF Defined
<1>9. PlainEvents(s)
  BY <1>4, <1>5, <1>7, <1>8, EventsAssumption DEF PlainEvents
<1> QED BY <1>9 DEF s

\* The history is legal, the validator is what a fresh one learns from it, and
\* nothing in it is guessed.
IInv == setting \in Settings /\ IsHistory(hist) /\ Announced(hist) /\ ValidatorMatchesHistory

\* What the validator of the store is then.
LEMMA ValidatorIsSound ==
  ASSUME IInv
  PROVE  /\ IsValidator(v) /\ IsFiniteSet(v.unresolved) /\ v = Replay(hist).v
         /\ Learned(Range(hist), v) /\ NestedKnown(hist, DOMAIN hist, v)
<1>1. v = AppendBatch(Fresh, hist).v /\ Len(hist) \in Nat
  BY DEF IInv, ValidatorMatchesHistory, Replay, IsHistory, IsSeq
<1>2. IsFiniteSet(Fresh.unresolved)
  BY FS_EmptySet DEF Fresh
<1>3. IsValidator(v)
  BY <1>1, FreshIsValidator, BatchKeepsValidator
<1>4. IsFiniteSet(v.unresolved)
  BY <1>1, <1>2, FreshIsValidator, UnresolvedStaysFinite
<1>5. v = Replay(hist).v /\ Replay(hist).ok
  BY DEF IInv, ValidatorMatchesHistory
<1>6. Known(hist, DOMAIN hist, v)
  BY <1>5, HistoryIsKnown DEF IInv
<1>7. {hist[i] : i \in DOMAIN hist} = Range(hist)
  BY DEF Range
<1> QED BY <1>3, <1>4, <1>5, <1>6, <1>7 DEF Known

\* The start of a setting is a legal history without guesses.
LEMMA InitIsGood == Init => IInv
<1> SUFFICES ASSUME Init PROVE IInv
  OBVIOUS
<1>1. /\ setting \in Settings
      /\ hist \in Seq(Range(hist)) /\ Replay(hist).ok /\ v = Replay(hist).v
      /\ \A e \in Range(hist) : /\ Defined(e)
                                /\ e.type = "tool/result" => e.recovered = None
                                /\ e.type = "assistant/message" => IsFiniteSet(e.wants)
  BY EventsAssumption DEF Init
<1>2. PlainEvents(hist)
  BY <1>1, EventsAssumption DEF PlainEvents, IsSeq
<1>3. Replay(hist) = [v |-> v, ok |-> TRUE]
  BY <1>1, AcceptedVerdict DEF Replay
<1> QED BY <1>1, <1>2, <1>3, PlainIsAnnounced DEF IInv, ValidatorMatchesHistory

\* Writers, refused batches and repairs, whole or torn, keep it so.
LEMMA StepIsGood == IInv /\ [Next]_vars => IInv'
<1> SUFFICES ASSUME IInv, [Next]_vars PROVE IInv'
  OBVIOUS
<1> USE DEF IInv
<1>1. ASSUME NEW e \in Events, Append1(e) PROVE IInv'
  <2> DEFINE b == <<e>>
  <2>1. PlainEvents(b)
    <3>1. Len(b) = 1 /\ b[1] = e /\ AppendBatch(v, b).ok
      BY <1>1 DEF Append1
    <3>2. Accepts(v, e)
      <4>1. Len(b) \in Nat /\ 1 \in 1 .. Len(b) /\ 1 - 1 = 0
        BY <3>1
      <4> HIDE DEF b
      <4> QED BY <3>1, <4>1, AcceptedSteps
    <3> QED BY <3>2, ValidatorIsSound, WritersArePlain DEF Learned
  <2>2. hist' = hist \o b
    <3>1. hist \in Seq(Range(hist) \cup {e})
      BY DEF IsHistory, IsSeq
    <3>2. Append(hist, e) = hist \o <<e>>
      BY <3>1
    <3> QED BY <1>1, <3>2 DEF Append1
  <2>3. AppendBatch(v, b).ok /\ v' = AppendBatch(v, b).v
    BY <1>1 DEF Append1
  <2>6. setting' = setting
    BY <1>1 DEF Append1
  <2> HIDE DEF b
  <2>4. IsHistory(hist') /\ Announced(hist')
    BY <2>1, <2>2, PlainIsAnnounced, ConcatIsAnnounced
  <2>5. Replay(hist') = [v |-> v', ok |-> TRUE]
    BY <2>1, <2>2, <2>3, LegalGrows DEF PlainEvents, IsHistory, ValidatorMatchesHistory
  <2> QED BY <2>4, <2>5, <2>6 DEF IsHistory, IsSeq, Announced, ValidatorMatchesHistory
<1>2. ASSUME NEW e1 \in Events, NEW e2 \in Events, AppendRefused(e1, e2) PROVE IInv'
  <2> DEFINE b == <<e1, e2, [type |-> "subagent/report", child |-> None]>>
  <2>1. Len(b) \in Nat
    OBVIOUS
  <2>2. ~AppendBatch(v, b).ok /\ v' = AppendBatch(v, b).v /\ hist' = hist /\ setting' = setting
    BY <1>2 DEF AppendRefused
  <2> HIDE DEF b
  <2>3. v' = v
    BY <2>1, <2>2, ValidatorIsSound, RefusedLeavesNoTrace
  <2> QED BY <2>2, <2>3 DEF IsHistory, IsSeq, Announced, ValidatorMatchesHistory
<1>3. ASSUME NEW n \in 1 .. Len(Plan(hist)), Repair(n) PROVE IInv'
  <2> DEFINE b == SubSeq(Plan(hist), 1, n)
  <2>1. IsHistory(Plan(hist)) /\ Announced(Plan(hist))
    BY ValidatorIsSound, PlanIsAnnounced
  <2>2. IsHistory(b) /\ Announced(b)
    BY <2>1, PrefixIsAnnounced
  <2>3. AppendBatch(v, b).ok /\ v' = AppendBatch(v, b).v /\ hist' = hist \o b
      /\ setting' = setting
    BY <1>3 DEF Repair
  <2> HIDE DEF b
  <2>4. IsHistory(hist') /\ Announced(hist')
    BY <2>2, <2>3, ConcatIsAnnounced
  <2>5. Replay(hist') = [v |-> v', ok |-> TRUE]
    BY <2>2, <2>3, LegalGrows DEF IsHistory, ValidatorMatchesHistory
  <2> QED BY <2>3, <2>4, <2>5 DEF IsHistory, IsSeq, Announced, ValidatorMatchesHistory
<1>4. CASE UNCHANGED vars
  BY <1>4 DEF vars, IsHistory, IsSeq, Announced, ValidatorMatchesHistory
<1> QED BY <1>1, <1>2, <1>3, <1>4 DEF Next

\* The validator the store keeps beside the file always is the one a fresh
\* process would build from the file: no refused batch leaves anything behind in
\* it, and no repair, whole or torn, makes the two differ.
THEOREM ValidatorMatches == Spec => []ValidatorMatchesHistory
<1>1. IInv => ValidatorMatchesHistory
  BY DEF IInv
<1> QED BY <1>1, InitIsGood, StepIsGood, PTL DEF Spec

\* A repair never says "not started" of a call that some program recorded: such a
\* result only follows a tool/call the repair itself wrote, and no other event of
\* the history records that call.
THEOREM NotStartedNeverGuessed == Spec => []NotStartedIsNeverGuessed
<1>1. IInv => NotStartedIsNeverGuessed
  <2> SUFFICES ASSUME IInv, NEW r \in Of(hist, "tool/result"), r.recovered = "not-started",
                      NEW c \in Of(hist, "tool/call"), c.callId = r.callId
               PROVE  c.repair
    BY DEF NotStartedIsNeverGuessed
  <2>1. PICK j \in DOMAIN hist : hist[j] = r /\ hist[j].type = "tool/result"
    BY DEF Of
  <2>2. PICK k \in DOMAIN hist : hist[k] = c /\ hist[k].type = "tool/call"
    BY DEF Of
  <2>3. PICK i \in DOMAIN hist : /\ hist[i].type = "tool/call"
                                 /\ hist[i].callId = hist[j].callId /\ hist[i].repair
    BY <2>1 DEF IInv, Announced
  <2>4. Len(hist) \in Nat /\ DOMAIN hist = 1 .. Len(hist)
    BY DEF IInv, IsHistory, IsSeq
  <2>5. AppendBatch(Fresh, hist).ok
    BY DEF IInv, ValidatorMatchesHistory, Replay
  <2>6. i = k
    BY <2>1, <2>2, <2>3, <2>4, <2>5, FreshIsValidator, CallsAreUnique
  <2> QED BY <2>2, <2>3, <2>6
<1> QED BY <1>1, InitIsGood, StepIsGood, PTL DEF Spec

------------------------------------------------------------------------------
(* What may follow a history, shown from what the validator knows of it. *)

\* The event neither opens anything nor ends the step, the turn or the wait for a
\* human.
Closing(e) ==
  /\ Defined(e)
  /\ e.type \notin TurnTypes \cup StepTypes \cup {"compaction/start", "subagent/start"}

\* What becomes of the validator u, which knows the events E, by events F.
After(E, u, F, x) ==
  /\ Learned(E \cup F, x)
  /\ x.openTurn = u.openTurn /\ x.openStep = u.openStep /\ x.suspension = u.suspension
  /\ DOMAIN x.compactions =
       DOMAIN u.compactions \ {e.compactionId : e \in {d \in F : d.type = "compaction/end"}}
  /\ x.subagents = u.subagents \ {e.child : e \in {d \in F : d.type = "subagent/end"}}

\* No events change nothing.
LEMMA AfterNothing ==
  ASSUME NEW E, NEW u, Learned(E, u)
  PROVE  After(E, u, {}, u)
<1>1. E \cup {} = E
  OBVIOUS
<1> QED BY <1>1 DEF After

\* One closing event more.
LEMMA AfterOneMore ==
  ASSUME NEW E, NEW u, NEW F, NEW x, After(E, u, F, x), NEW e, Closing(e), Accepts(x, e)
  PROVE  After(E, u, F \cup {e}, Apply(x, e))
<1> DEFINE y == Apply(x, e)
           G == F \cup {e}
<1>1. IsValidator(x) /\ Learned(E \cup F, x)
  BY DEF After, Learned
<1>2. (E \cup F) \cup {e} = E \cup G
  OBVIOUS
<1>3. Learned(E \cup G, y)
  BY <1>1, <1>2, OneMoreIsLearned DEF Closing
<1>4. y.openTurn = x.openTurn /\ y.openStep = x.openStep /\ y.suspension = x.suspension
  BY <1>1, TurnApplied, StepApplied DEF Closing
<1>5. /\ DOMAIN y.compactions =
           IF e.type = "compaction/end" THEN DOMAIN x.compactions \ {e.compactionId}
           ELSE DOMAIN x.compactions
      /\ y.subagents = IF e.type = "subagent/end" THEN x.subagents \ {e.child} ELSE x.subagents
  BY <1>1, NestedApplied DEF Closing
<1> HIDE DEF y
<1>6. DOMAIN y.compactions =
        DOMAIN u.compactions \ {c.compactionId : c \in {d \in G : d.type = "compaction/end"}}
  BY <1>5 DEF After
<1>7. y.subagents = u.subagents \ {c.child : c \in {d \in G : d.type = "subagent/end"}}
  BY <1>5 DEF After
<1> HIDE DEF G
<1>8. After(E, u, G, y)
  BY <1>3, <1>4, <1>6, <1>7 DEF After
<1> QED BY <1>8 DEF G, y

\* The events of two batches.
LEMMA AfterMore ==
  ASSUME NEW E, NEW u, NEW F, NEW x, After(E, u, F, x), NEW G, NEW y, After(E \cup F, x, G, y)
  PROVE  After(E, u, F \cup G, y)
<1>1. (E \cup F) \cup G = E \cup (F \cup G)
  OBVIOUS
<1>2. DOMAIN y.compactions =
        DOMAIN u.compactions \ {c.compactionId : c \in {d \in F \cup G : d.type = "compaction/end"}}
  BY DEF After
<1>3. y.subagents = u.subagents \ {c.child : c \in {d \in F \cup G : d.type = "subagent/end"}}
  BY DEF After
<1> QED BY <1>1, <1>2, <1>3 DEF After

\* The batch b is accepted by u.
Accepted(E, u, b) ==
  /\ IsSeq(b)
  /\ AppendBatch(u, b).ok
  /\ After(E, u, Range(b), AppendBatch(u, b).v)

\* A batch is accepted if each of its events is accepted by every validator that
\* knows the events before it.
LEMMA AcceptedInTurn ==
  ASSUME NEW E, NEW u, Learned(E, u), NEW b, IsSeq(b), \A e \in Range(b) : Closing(e),
         \A i \in 1 .. Len(b) : \A x :
           After(E, u, {b[j] : j \in 1 .. i - 1}, x) => Accepts(x, b[i])
  PROVE  Accepted(E, u, b)
<1> DEFINE L == Loop(u, b)
           n == Len(b)
           F(i) == {b[j] : j \in 1 .. i}
           Good(i) == L[i].ok /\ After(E, u, F(i), L[i].v)
           T == {i \in 0 .. n : ~Good(i)}
<1>1. n \in Nat /\ DOMAIN b = 1 .. n
  BY DEF IsSeq
<1>2. L[0] = Started(u) /\ \A i \in 1 .. n : L[i] = Checked(L[i - 1], b[i])
  BY <1>1, LoopSteps
<1>3. Good(0)
  <2>1. F(0) = {}
    OBVIOUS
  <2>2. L[0].ok /\ L[0].v = u
    BY <1>2 DEF Started
  <2> HIDE DEF F, L
  <2> QED BY <2>1, <2>2, AfterNothing
<1>4. ASSUME NEW i \in 1 .. n, Good(i - 1) PROVE Good(i)
  <2> DEFINE x == L[i - 1].v
  <2>1. F(i) = F(i - 1) \cup {b[i]}
    <3>1. i \in Nat /\ 1 .. i = (1 .. i - 1) \cup {i}
      BY <1>1
    <3> QED BY <3>1
  <2>2. Accepts(x, b[i]) /\ L[i - 1].ok /\ After(E, u, F(i - 1), x)
    BY <1>4
  <2>3. Closing(b[i])
    BY <1>1 DEF Range
  <2> HIDE DEF F, L, n
  <2>4. L[i].ok /\ L[i].v = Apply(x, b[i])
    <3>1. \A r, e : r.ok /\ Accepts(r.v, e) =>
            Checked(r, e).ok /\ Checked(r, e).v = Apply(r.v, e)
      BY DEF Checked
    <3>2. L[i] = Checked(L[i - 1], b[i])
      BY <1>2
    <3> QED BY <2>2, <3>1, <3>2
  <2>5. After(E, u, F(i - 1) \cup {b[i]}, Apply(x, b[i]))
    BY <2>2, <2>3, AfterOneMore
  <2> QED BY <2>1, <2>4, <2>5
<1>5. Good(n)
  <2> HIDE DEF L, F
  <2>1. T = {}
    <3> SUFFICES ASSUME T # {} PROVE FALSE
      OBVIOUS
    <3>1. T \in SUBSET Nat
      BY <1>1
    <3>2. PICK i \in T : \A k \in T : i <= k
      <4> HIDE DEF T
      <4> QED BY <3>1, Least
    <3> HIDE DEF Good
    <3>3. i # 0 /\ i \in 0 .. n /\ ~Good(i)
      BY <1>3, <3>2
    <3>4. i \in 1 .. n /\ i - 1 \in 0 .. n /\ ~(i <= i - 1)
      BY <1>1, <3>3
    <3>5. Good(i - 1)
      BY <3>2, <3>4
    <3> QED BY <1>4, <3>3, <3>4, <3>5
  <2> HIDE DEF Good
  <2> QED BY <1>1, <2>1
<1>6. F(n) = Range(b)
  BY <1>1 DEF Range
<1>7. AppendBatch(u, b).ok /\ AppendBatch(u, b).v = L[n].v
  <2>1. L[n].ok
    BY <1>5
  <2> QED BY <2>1 DEF AppendBatch
<1> HIDE DEF L, F, n
<1> QED BY <1>5, <1>6, <1>7 DEF Accepted

\* InAnyOrder has one place for each element of the domain.
LEMMA InAnyOrderEnumerates ==
  ASSUME NEW f, f = [x \in DOMAIN f |-> f[x]], IsFiniteSet(DOMAIN f),
         NEW i \in 1 .. Len(InAnyOrder(f))
  PROVE  \E k \in DOMAIN f :
           /\ InAnyOrder(f)[i] = f[k]
           /\ {InAnyOrder(f)[j] : j \in 1 .. i - 1} \subseteq {f[y] : y \in DOMAIN f \ {k}}
<1> DEFINE s == SetToSeq(DOMAIN f)
           t == InAnyOrder(f)
<1>1. s \in Seq(DOMAIN f) /\ \A p, q \in DOMAIN s : s[p] = s[q] => p = q
  BY SetToSeqEnumerates
<1>2. t = [p \in DOMAIN s |-> f[s[p]]]
  BY DEF InAnyOrder
<1>3. IsSeq(t)
  BY InAnyOrderIsSeq
<1> HIDE DEF s, t
<1>4. Len(t) \in Nat /\ DOMAIN t = 1 .. Len(t) /\ DOMAIN s = 1 .. Len(t)
  BY <1>1, <1>2, <1>3 DEF IsSeq
<1>5. s[i] \in DOMAIN f /\ t[i] = f[s[i]]
  BY <1>1, <1>2, <1>4 DEF t
<1>6. \A j \in 1 .. i - 1 : j \in DOMAIN s /\ i \in DOMAIN s /\ j # i
  BY <1>4 DEF t
<1>7. \A j \in 1 .. i - 1 : s[j] \in DOMAIN f \ {s[i]} /\ t[j] = f[s[j]]
  BY <1>1, <1>2, <1>6
<1>8. {t[j] : j \in 1 .. i - 1} \subseteq {f[y] : y \in DOMAIN f \ {s[i]}}
  BY <1>7
<1> QED BY <1>5, <1>8 DEF t

\* So is a set of events in any order, if each is accepted whichever of the
\* others came before it.
LEMMA AcceptedInAnyOrder ==
  ASSUME NEW E, NEW u, Learned(E, u), NEW f, f = [x \in DOMAIN f |-> f[x]],
         IsFiniteSet(DOMAIN f), \A k \in DOMAIN f : Closing(f[k]),
         \A k \in DOMAIN f : \A F \in SUBSET {f[y] : y \in DOMAIN f \ {k}} : \A x :
           After(E, u, F, x) => Accepts(x, f[k])
  PROVE  Accepted(E, u, InAnyOrder(f)) /\ Range(InAnyOrder(f)) = Range(f)
<1> DEFINE b == InAnyOrder(f)
<1>1. IsSeq(b) /\ Range(b) = Range(f)
  BY InAnyOrderIsSeq
<1>2. \A e \in Range(b) : Closing(e)
  BY <1>1 DEF Range
<1>3. ASSUME NEW i \in 1 .. Len(b), NEW x, After(E, u, {b[j] : j \in 1 .. i - 1}, x)
      PROVE  Accepts(x, b[i])
  <2>1. PICK k \in DOMAIN f :
          b[i] = f[k] /\ {b[j] : j \in 1 .. i - 1} \subseteq {f[y] : y \in DOMAIN f \ {k}}
    BY InAnyOrderEnumerates
  <2> HIDE DEF b
  <2> QED BY <1>3, <2>1
<1> HIDE DEF b
<1>4. Accepted(E, u, b)
  BY <1>1, <1>2, <1>3, AcceptedInTurn
<1> QED BY <1>1, <1>4 DEF b

\* Two batches, one after the other.
LEMMA AcceptedBoth ==
  ASSUME NEW E, NEW u, NEW a, Accepted(E, u, a), NEW x, x = AppendBatch(u, a).v,
         NEW F, F = E \cup Range(a), NEW b, Accepted(F, x, b)
  PROVE  /\ Accepted(E, u, a \o b) /\ Range(a \o b) = Range(a) \cup Range(b)
         /\ AppendBatch(u, a \o b).v = AppendBatch(x, b).v
<1> DEFINE y == AppendBatch(x, b).v
           S == Range(a) \cup Range(b)
<1>1. IsSeq(a) /\ IsSeq(b)
  BY DEF Accepted
<1>2. a \in Seq(S) /\ b \in Seq(S)
  BY <1>1 DEF IsSeq
<1>3. AppendBatch(u, a).ok /\ AppendBatch(x, b).ok
  BY DEF Accepted
<1>4. AppendBatch(u, a \o b).ok /\ AppendBatch(u, a \o b).v = y
  BY <1>2, <1>3, ValidatedInParts
<1>5. IsSeq(a \o b) /\ Range(a \o b) = Range(a) \cup Range(b)
  BY <1>1, ConcatIsSeq
<1>6. After(E, u, Range(a), x) /\ After(E \cup Range(a), x, Range(b), y)
  BY DEF Accepted
<1> HIDE DEF y
<1>7. After(E, u, Range(a) \cup Range(b), y)
  BY <1>6, AfterMore
<1> QED BY <1>4, <1>5, <1>7 DEF Accepted, y

\* A decision of a pending approval is accepted.
LEMMA DecisionAccepted ==
  ASSUME NEW E, NEW x, Learned(E, x), NEW d, d.type = "approval/decision",
         d.approvalId \in x.pendingApprovals, x.approvals[d.approvalId] = d.callId
  PROVE  Accepts(x, d)
<1>1. DecisionOk(x, d)
  BY DEF DecisionOk, Learned, ApprovalsMatch
<1>2. Accepts(x, d) = ToolOk(x, d)
  BY Cases DEF ToolTypes
<1>3. ToolOk(x, d) = DecisionOk(x, d)
  BY DEF ToolOk
<1> QED BY <1>1, <1>2, <1>3

\* The result of an unresolved call is, unless a human has to decide first.
LEMMA ResultAccepted ==
  ASSUME NEW E, NEW x, Learned(E, x), NEW d, d.type = "tool/result",
         d.callId \in x.unresolved,
         x.calls[d.callId].turn = d.turn, x.calls[d.callId].step = d.step,
         \A a \in x.pendingApprovals : x.approvals[a] # d.callId
  PROVE  Accepts(x, d)
<1> DEFINE c == x.calls[d.callId]
<1>1. d.callId \in DOMAIN x.calls /\ ~c.result
  BY DEF Learned, CallsKnown
<1>2. c.approvalId = None \/ c.approvalDecided
  BY <1>1 DEF Learned, ApprovalsMatch
<1>3. Accepts(x, d) = ToolOk(x, d)
  BY Cases DEF ToolTypes
<1>4. ToolOk(x, d) = (/\ d.callId \in DOMAIN x.calls
                     /\ ~c.result /\ c.turn = d.turn /\ c.step = d.step
                     /\ (c.approvalId = None \/ c.approvalDecided))
  BY DEF ToolOk
<1> QED BY <1>1, <1>2, <1>3, <1>4

\* What is pending stays pending until it is decided, and nothing becomes pending
\* that is not asked for.
LEMMA PendingLater ==
  ASSUME NEW E, NEW u, Learned(E, u), NEW F, NEW x, After(E, u, F, x), NEW a
  PROVE  /\ /\ a \in u.pendingApprovals
            /\ \A e \in F : e.type = "approval/decision" => e.approvalId # a
            => a \in x.pendingApprovals /\ x.approvals[a] = u.approvals[a]
         /\ /\ a \in x.pendingApprovals
            /\ \A e \in F : e.type # "approval/request"
            => /\ a \in u.pendingApprovals /\ x.approvals[a] = u.approvals[a]
               /\ \A e \in F : e.type = "approval/decision" => e.approvalId # a
<1>1. ApprovalsKnown(E, u) /\ ApprovalsKnown(E \cup F, x)
  BY DEF Learned, After
<1>2. ASSUME NEW e \in E, e.type = "approval/request", e.approvalId = a
      PROVE  /\ a \in DOMAIN u.approvals /\ a \in DOMAIN x.approvals
             /\ x.approvals[a] = u.approvals[a]
  BY <1>1, <1>2 DEF ApprovalsKnown
<1>3. ASSUME a \in u.pendingApprovals,
             \A e \in F : e.type = "approval/decision" => e.approvalId # a
      PROVE  a \in x.pendingApprovals /\ x.approvals[a] = u.approvals[a]
  <2>1. PICK e \in E : e.type = "approval/request" /\ e.approvalId = a
    BY <1>1, <1>3 DEF ApprovalsKnown
  <2>2. a \in DOMAIN x.approvals /\ a \in DOMAIN u.approvals /\ x.approvals[a] = u.approvals[a]
    BY <1>2, <2>1
  <2>3. \A d \in E \cup F : d.type = "approval/decision" => d.approvalId # a
    BY <1>1, <1>3, <2>2 DEF ApprovalsKnown
  <2> QED BY <1>1, <2>2, <2>3 DEF ApprovalsKnown
<1>4. ASSUME a \in x.pendingApprovals, \A e \in F : e.type # "approval/request"
      PROVE  /\ a \in u.pendingApprovals /\ x.approvals[a] = u.approvals[a]
             /\ \A e \in F : e.type = "approval/decision" => e.approvalId # a
  <2>1. PICK e \in E : e.type = "approval/request" /\ e.approvalId = a
    BY <1>1, <1>4 DEF ApprovalsKnown
  <2>2. a \in DOMAIN x.approvals /\ a \in DOMAIN u.approvals /\ x.approvals[a] = u.approvals[a]
    BY <1>2, <2>1
  <2>3. \A d \in E \cup F : d.type = "approval/decision" => d.approvalId # a
    BY <1>1, <1>4, <2>2 DEF ApprovalsKnown
  <2> QED BY <1>1, <2>2, <2>3 DEF ApprovalsKnown
<1> QED BY <1>3, <1>4

\* A call stays where it is, and stays unresolved until its result is there.
LEMMA UnresolvedLater ==
  ASSUME NEW E, NEW u, Learned(E, u), NEW F, NEW x, After(E, u, F, x),
         NEW c \in DOMAIN u.calls
  PROVE  /\ c \in DOMAIN x.calls
         /\ x.calls[c].turn = u.calls[c].turn /\ x.calls[c].step = u.calls[c].step
         /\ c \in x.unresolved <=>
              /\ c \in u.unresolved
              /\ \A e \in F : e.type = "tool/result" => e.callId # c
<1>1. CallsKnown(E, u) /\ CallsKnown(E \cup F, x)
  BY DEF Learned, After
<1>2. PICK e \in E : e.type = "tool/call" /\ e.callId = c
  BY <1>1 DEF CallsKnown
<1>3. /\ c \in DOMAIN x.calls
      /\ x.calls[c].turn = u.calls[c].turn /\ x.calls[c].step = u.calls[c].step
  BY <1>1, <1>2 DEF CallsKnown
<1>4. /\ c \in u.unresolved <=> \A d \in E : d.type = "tool/result" => d.callId # c
      /\ c \in x.unresolved <=> \A d \in E \cup F : d.type = "tool/result" => d.callId # c
  BY <1>1, <1>3 DEF CallsKnown
<1> QED BY <1>3, <1>4

------------------------------------------------------------------------------
(* A suspended step. *)

PendingDecision(u, a) ==
  [type |-> "approval/decision", approvalId |-> a, callId |-> u.approvals[a]]

MissingResult(u, c) ==
  [type |-> "tool/result", turn |-> u.calls[c].turn, step |-> u.calls[c].step,
   callId |-> c, recovered |-> None]

\* A history asks for finitely many approvals.
LEMMA ApprovalIdsAreFinite ==
  ASSUME NEW h, IsSeq(h)
  PROVE  IsFiniteSet({e.approvalId : e \in Of(h, "approval/request")})
<1>1. IsFiniteSet({e["approvalId"] : e \in Of(h, "approval/request")})
  BY OfIsFinite
<1> QED BY <1>1

\* Finitely many approvals are pending.
LEMMA PendingIsFinite ==
  ASSUME NEW h, IsSeq(h), NEW u, Learned(Range(h), u)
  PROVE  IsFiniteSet(u.pendingApprovals)
<1>1. u.pendingApprovals \in SUBSET {e.approvalId : e \in Of(h, "approval/request")}
  <2>1. \A a \in u.pendingApprovals :
          \E e \in Range(h) : e.type = "approval/request" /\ e.approvalId = a
    BY DEF Learned, ApprovalsKnown
  <2>2. \A e \in Range(h) : e.type = "approval/request" => e \in Of(h, "approval/request")
    BY DEF Range, Of
  <2> QED BY <2>1, <2>2
<1>2. IsFiniteSet({e.approvalId : e \in Of(h, "approval/request")})
  BY ApprovalIdsAreFinite
<1> QED BY <1>1, <1>2, FS_Subset

\* Any set of pending approvals can be decided.
LEMMA DecisionsAccepted ==
  ASSUME NEW E, NEW u, Learned(E, u), NEW A \in SUBSET u.pendingApprovals, IsFiniteSet(A)
  PROVE  LET b == InAnyOrder([a \in A |-> PendingDecision(u, a)])
         IN  Accepted(E, u, b) /\ Range(b) = {PendingDecision(u, a) : a \in A}
<1> DEFINE f == [a \in A |-> PendingDecision(u, a)]
<1>1. f = [k \in DOMAIN f |-> f[k]] /\ DOMAIN f = A /\ \A a \in A : f[a] = PendingDecision(u, a)
  OBVIOUS
<1>2. \A a : /\ PendingDecision(u, a).type = "approval/decision"
             /\ PendingDecision(u, a).approvalId = a
             /\ PendingDecision(u, a).callId = u.approvals[a]
  BY DEF PendingDecision
<1>3. \A a : Closing(PendingDecision(u, a))
  BY <1>2 DEF Closing, Defined, TurnTypes, StepTypes
<1>4. ASSUME NEW a \in A, NEW F \in SUBSET {f[y] : y \in A \ {a}}, NEW x, After(E, u, F, x)
      PROVE  Accepts(x, f[a])
  <2>1. \A e \in F : e.type = "approval/decision" => e.approvalId # a
    BY <1>1, <1>2
  <2>2. a \in x.pendingApprovals /\ x.approvals[a] = u.approvals[a]
    BY <1>4, <2>1, PendingLater
  <2>3. Learned(E \cup F, x)
    BY <1>4 DEF After
  <2> QED BY <1>1, <1>2, <2>2, <2>3, DecisionAccepted
<1>5. Range(f) = {PendingDecision(u, a) : a \in A}
  BY <1>1 DEF Range
<1> HIDE DEF f
<1>6. Accepted(E, u, InAnyOrder(f)) /\ Range(InAnyOrder(f)) = Range(f)
  BY <1>1, <1>3, <1>4, AcceptedInAnyOrder
<1> QED BY <1>5, <1>6 DEF f

\* Any set of unresolved calls that wait for no human can be given results.
LEMMA ResultsAccepted ==
  ASSUME NEW E, NEW u, Learned(E, u), NEW F, NEW x, After(E, u, F, x),
         NEW C \in SUBSET u.unresolved, IsFiniteSet(C),
         \A e \in F : e.type \notin {"tool/result", "approval/request"},
         \A a \in x.pendingApprovals : x.approvals[a] \notin C
  PROVE  LET b == InAnyOrder([c \in C |-> MissingResult(u, c)])
         IN  Accepted(E \cup F, x, b) /\ Range(b) = {MissingResult(u, c) : c \in C}
<1> DEFINE f == [c \in C |-> MissingResult(u, c)]
<1>1. f = [k \in DOMAIN f |-> f[k]] /\ DOMAIN f = C /\ \A c \in C : f[c] = MissingResult(u, c)
  OBVIOUS
<1>2. \A c : /\ MissingResult(u, c).type = "tool/result"
             /\ MissingResult(u, c).callId = c
             /\ MissingResult(u, c).turn = u.calls[c].turn
             /\ MissingResult(u, c).step = u.calls[c].step
  BY DEF MissingResult
<1>3. \A c : Closing(MissingResult(u, c))
  BY <1>2 DEF Closing, Defined, TurnTypes, StepTypes
<1>4. Learned(E \cup F, x)
  BY DEF After
<1>5. ASSUME NEW c \in C, NEW G \in SUBSET {f[y] : y \in C \ {c}}, NEW y, After(E \cup F, x, G, y)
      PROVE  Accepts(y, f[c])
  <2>1. \A e \in G : e.type = "tool/result" /\ e.callId # c
    BY <1>1, <1>2
  <2>2. c \in DOMAIN u.calls
    BY DEF Learned, CallsKnown
  <2>3. /\ c \in DOMAIN x.calls /\ c \in x.unresolved
        /\ x.calls[c].turn = u.calls[c].turn /\ x.calls[c].step = u.calls[c].step
    BY <2>2, UnresolvedLater
  <2>4. /\ c \in y.unresolved
        /\ y.calls[c].turn = u.calls[c].turn /\ y.calls[c].step = u.calls[c].step
    BY <1>4, <1>5, <2>1, <2>3, UnresolvedLater
  <2>5. \A a \in y.pendingApprovals : y.approvals[a] # c
    <3>1. \A e \in G : e.type # "approval/request"
      BY <2>1
    <3>2. \A a \in y.pendingApprovals : a \in x.pendingApprovals /\ y.approvals[a] = x.approvals[a]
      BY <1>4, <1>5, <3>1, PendingLater
    <3> QED BY <3>2
  <2>6. Learned((E \cup F) \cup G, y)
    BY <1>5 DEF After
  <2> QED BY <1>1, <1>2, <2>4, <2>5, <2>6, ResultAccepted
<1>6. Range(f) = {MissingResult(u, c) : c \in C}
  BY <1>1 DEF Range
<1> HIDE DEF f
<1> DEFINE D == E \cup F
<1>7. /\ Learned(D, x)
      /\ \A k \in DOMAIN f : Closing(f[k])
      /\ \A k \in DOMAIN f : \A G \in SUBSET {f[y] : y \in DOMAIN f \ {k}} : \A y :
           After(D, x, G, y) => Accepts(y, f[k])
  BY <1>1, <1>3, <1>4, <1>5
<1>8. f = [k \in DOMAIN f |-> f[k]] /\ IsFiniteSet(DOMAIN f)
  BY <1>1
<1> HIDE DEF D
<1>9. Accepted(D, x, InAnyOrder(f)) /\ Range(InAnyOrder(f)) = Range(f)
  BY <1>7, <1>8, AcceptedInAnyOrder
<1> QED BY <1>6, <1>9 DEF D, f

\* A batch of one event.
LEMMA OneAccepted ==
  ASSUME NEW u, NEW e, Accepts(u, e)
  PROVE  AppendBatch(u, <<e>>).ok /\ AppendBatch(u, <<e>>).v = Apply(u, e)
<1> DEFINE b == <<e>>
           L == Loop(u, b)
<1>1. Len(b) = 1 /\ b[1] = e /\ Len(b) \in Nat /\ 1 \in 1 .. Len(b) /\ 1 - 1 = 0
  OBVIOUS
<1> HIDE DEF b
<1>2. L[0] = Started(u) /\ L[1] = Checked(L[0], e)
  <2>1. L[0] = Started(u) /\ \A i \in 1 .. Len(b) : L[i] = Checked(L[i - 1], b[i])
    BY <1>1, LoopSteps
  <2> HIDE DEF L
  <2> QED BY <1>1, <2>1
<1>3. Started(u).ok /\ Started(u).v = u
  BY DEF Started
<1>4. L[1].ok /\ L[1].v = Apply(u, e)
  BY <1>2, <1>3 DEF Checked
<1>5. L[Len(b)].ok /\ L[Len(b)].v = Apply(u, e)
  BY <1>1, <1>4
<1>6. AppendBatch(u, b) = [v |-> IF L[Len(b)].ok THEN L[Len(b)].v
                                 ELSE Restore(L[Len(b)].v, u, L[Len(b)].undo),
                           ok |-> L[Len(b)].ok]
  BY DEF AppendBatch
<1> HIDE DEF L
<1> QED BY <1>5, <1>6 DEF b

\* The turn resumes once nothing of the suspended step is open.
LEMMA ResumeAccepted ==
  ASSUME NEW E, NEW u, Learned(E, u), u.suspension # None, NEW F, NEW x, After(E, u, F, x),
         \A e \in F : e.type # "approval/request",
         \A a \in PendingIn(u, u.suspension) :
           \E e \in F : e.type = "approval/decision" /\ e.approvalId = a,
         \A c \in UnresolvedIn(u, u.suspension) :
           \E e \in F : e.type = "tool/result" /\ e.callId = c
  PROVE  Accepts(x, [type |-> "turn/resume", turn |-> u.openTurn, step |-> u.openStep])
<1> DEFINE m == [type |-> "turn/resume", turn |-> u.openTurn, step |-> u.openStep]
           s == u.suspension
<1>1. m.type = "turn/resume" /\ m.turn = u.openTurn /\ m.step = u.openStep
  OBVIOUS
<1> HIDE DEF m
<1>2. x.openTurn = u.openTurn /\ x.openStep = u.openStep /\ x.suspension = s
  BY DEF After
<1>3. Learned(E \cup F, x)
  BY DEF After
<1>4. ASSUME NEW c \in s.callIds PROVE c \in DOMAIN x.calls /\ x.calls[c].result
  <2>1. c \in DOMAIN u.calls /\ u.calls[c].turn = s.turn /\ u.calls[c].step = s.step
    BY DEF Learned, SuspensionKnown
  <2>2. c \in DOMAIN x.calls
    BY <2>1, UnresolvedLater
  <2>3. c \notin x.unresolved
    <3>1. c \in x.unresolved => /\ c \in u.unresolved
                                /\ \A e \in F : e.type = "tool/result" => e.callId # c
      BY <2>1, UnresolvedLater
    <3> QED BY <2>1, <3>1 DEF UnresolvedIn
  <2> QED BY <1>3, <2>2, <2>3 DEF Learned, CallsKnown
<1>5. ASSUME NEW a \in s.approvalIds, a \in DOMAIN x.approvals
      PROVE  x.calls[x.approvals[a]].approvalDecided
  <2>1. /\ u.approvals[a] \in DOMAIN u.calls
        /\ u.calls[u.approvals[a]].turn = s.turn /\ u.calls[u.approvals[a]].step = s.step
    BY DEF Learned, SuspensionKnown
  <2>2. a \notin x.pendingApprovals
    <3>1. a \in x.pendingApprovals =>
            /\ a \in u.pendingApprovals
            /\ \A e \in F : e.type = "approval/decision" => e.approvalId # a
      BY PendingLater
    <3> QED BY <2>1, <3>1 DEF PendingIn
  <2> QED BY <1>3, <1>5, <2>2 DEF Learned, ApprovalsMatch
<1>6. Accepts(x, m) = TurnOk(x, m)
  BY <1>1, Cases DEF TurnTypes
<1>7. TurnOk(x, m) =
        (/\ InStep(x, m) /\ x.suspension # None
         /\ \A c \in x.suspension.callIds :
              /\ c \in DOMAIN x.calls
              /\ x.calls[c].result
                   \/ (x.calls[c].approvalId # None /\ x.calls[c].approvalDecided)
         /\ \A a \in x.suspension.approvalIds :
              a \in DOMAIN x.approvals => x.calls[x.approvals[a]].approvalDecided)
  BY <1>1 DEF TurnOk
<1>8. TurnOk(x, m)
  BY <1>1, <1>2, <1>4, <1>5, <1>7 DEF InStep
<1> QED BY <1>6, <1>8 DEF m

\* Decisions, results and then the resumption are accepted.
LEMMA SuspensionEnds ==
  ASSUME NEW h, IsSeq(h), NEW u, Learned(Range(h), u), IsFiniteSet(u.unresolved),
         u.suspension # None
  PROVE  LET D == InAnyOrder([a \in PendingIn(u, u.suspension) |-> PendingDecision(u, a)])
             R == InAnyOrder([c \in UnresolvedIn(u, u.suspension) |-> MissingResult(u, c)])
             m == [type |-> "turn/resume", turn |-> u.openTurn, step |-> u.openStep]
         IN  AppendBatch(u, D \o R \o <<m>>).ok
<1> DEFINE A == PendingIn(u, u.suspension)
           C == UnresolvedIn(u, u.suspension)
           D == InAnyOrder([a \in A |-> PendingDecision(u, a)])
           R == InAnyOrder([c \in C |-> MissingResult(u, c)])
           m == [type |-> "turn/resume", turn |-> u.openTurn, step |-> u.openStep]
           E == Range(h)
           x == AppendBatch(u, D).v
           y == AppendBatch(x, R).v
<1>1. A \in SUBSET u.pendingApprovals /\ C \in SUBSET u.unresolved
  BY DEF PendingIn, UnresolvedIn
<1>2. IsFiniteSet(A) /\ IsFiniteSet(C)
  <2>1. IsFiniteSet(u.pendingApprovals)
    BY PendingIsFinite
  <2> HIDE DEF A, C
  <2> QED BY <1>1, <2>1, FS_Subset
<1>3. /\ \A a : /\ PendingDecision(u, a).type = "approval/decision"
                /\ PendingDecision(u, a).approvalId = a
      /\ \A c : /\ MissingResult(u, c).type = "tool/result"
                /\ MissingResult(u, c).callId = c
  BY DEF PendingDecision, MissingResult
<1>4. Accepted(E, u, D) /\ Range(D) = {PendingDecision(u, a) : a \in A}
  <2> HIDE DEF A, C, E
  <2> QED BY <1>1, <1>2, DecisionsAccepted DEF E
<1>5. After(E, u, Range(D), x)
  BY <1>4 DEF Accepted
<1>6. /\ \A e \in Range(D) : e.type \notin {"tool/result", "approval/request"}
      /\ \A a \in A : \E e \in Range(D) : e.type = "approval/decision" /\ e.approvalId = a
  BY <1>3, <1>4
<1>7. \A a \in x.pendingApprovals : x.approvals[a] \notin C
  <2> SUFFICES ASSUME NEW a \in x.pendingApprovals, x.approvals[a] \in C PROVE FALSE
    OBVIOUS
  <2> HIDE DEF E, D, x
  <2>1. \A e \in Range(D) : e.type # "approval/request"
    BY <1>6
  <2>2. /\ a \in u.pendingApprovals /\ x.approvals[a] = u.approvals[a]
        /\ \A e \in Range(D) : e.type = "approval/decision" => e.approvalId # a
    BY <1>5, <2>1, PendingLater DEF E
  <2>3. a \notin A
    BY <1>6, <2>2
  <2>4. u.approvals[a] \in u.unresolved /\ u.unresolved \subseteq DOMAIN u.calls
    BY <2>2 DEF UnresolvedIn, Learned, CallsKnown
  <2> QED BY <2>2, <2>3, <2>4 DEF UnresolvedIn, PendingIn
<1>8. Accepted(E \cup Range(D), x, R) /\ Range(R) = {MissingResult(u, c) : c \in C}
  <2> DEFINE F == Range(D)
  <2>1. /\ Learned(E, u) /\ After(E, u, F, x)
        /\ \A e \in F : e.type \notin {"tool/result", "approval/request"}
    BY <1>5, <1>6
  <2> HIDE DEF A, C, E, D, x, F
  <2>2. /\ Accepted(E \cup F, x, R)
        /\ Range(R) = {MissingResult(u, c) : c \in C}
    BY <1>1, <1>2, <1>7, <2>1, ResultsAccepted
  <2> QED BY <2>2 DEF F
<1>9. After(E, u, Range(D) \cup Range(R), y)
  <2>1. After(E \cup Range(D), x, Range(R), y)
    BY <1>8 DEF Accepted
  <2> HIDE DEF A, C, E, D, R, x, y
  <2> QED BY <1>5, <2>1, AfterMore
<1>10. Accepts(y, m)
  <2> DEFINE F == Range(D) \cup Range(R)
  <2>1. /\ \A e \in F : e.type # "approval/request"
        /\ \A a \in A : \E e \in F : e.type = "approval/decision" /\ e.approvalId = a
        /\ \A c \in C : \E e \in F : e.type = "tool/result" /\ e.callId = c
    <3>1. /\ Range(D) = {PendingDecision(u, a) : a \in A}
          /\ Range(R) = {MissingResult(u, c) : c \in C}
      BY <1>4, <1>8
    <3> HIDE DEF A, C, D, R
    <3> QED BY <1>3, <3>1
  <2> HIDE DEF E, D, R, x, y, F
  <2> QED BY <1>9, <2>1, ResumeAccepted DEF E, F
<1>11. AppendBatch(y, <<m>>).ok
  BY <1>10, OneAccepted
<1>12. /\ Accepted(E, u, D \o R) /\ AppendBatch(u, D \o R).v = y
  <2> DEFINE F == E \cup Range(D)
  <2>1. Accepted(E, u, D) /\ x = AppendBatch(u, D).v /\ F = E \cup Range(D) /\ Accepted(F, x, R)
    BY <1>4, <1>8
  <2> HIDE DEF E, D, R, F, x
  <2>2. Accepted(E, u, D \o R) /\ AppendBatch(u, D \o R).v = AppendBatch(x, R).v
    BY <2>1, AcceptedBoth
  <2> QED BY <2>2
<1> DEFINE g == D \o R
           S == Range(g) \cup {m}
<1>13. AppendBatch(u, g).ok /\ AppendBatch(u, g).v = y /\ IsSeq(g)
  BY <1>12 DEF Accepted
<1> HIDE DEF D, R, m, y, g, E
<1>14. g \in Seq(S) /\ <<m>> \in Seq(S)
  BY <1>13 DEF IsSeq
<1>15. AppendBatch(u, g \o <<m>>).ok
  BY <1>11, <1>13, <1>14, ValidatedInParts
<1> QED BY <1>15 DEF g, D, R, m

\* A suspended turn is never a dead end: whatever the history is, once its
\* approvals are decided and its calls have results, in any order, the validator
\* accepts turn/resume.
THEOREM SuspensionAnswered == Spec => []SuspensionCanBeAnswered
<1>1. ASSUME IInv, v.suspension # None PROVE AppendBatch(v, Answers).ok
  <2>1. IsSeq(hist) /\ Learned(Range(hist), v) /\ IsFiniteSet(v.unresolved)
    BY <1>1, ValidatorIsSound DEF IInv, IsHistory
  <2> DEFINE D == InAnyOrder([a \in PendingIn(v, v.suspension) |-> PendingDecision(v, a)])
             R == InAnyOrder([c \in UnresolvedIn(v, v.suspension) |-> MissingResult(v, c)])
             m == [type |-> "turn/resume", turn |-> v.openTurn, step |-> v.openStep]
  <2>2. AppendBatch(v, D \o R \o <<m>>).ok
    BY <1>1, <2>1, SuspensionEnds
  <2>3. Answers = D \o R \o <<m>>
    BY DEF Answers, PendingDecision, MissingResult
  <2> QED BY <2>2, <2>3
<1>2. IInv => SuspensionCanBeAnswered
  BY <1>1 DEF SuspensionCanBeAnswered
<1> QED BY <1>2, InitIsGood, StepIsGood, PTL DEF Spec

------------------------------------------------------------------------------
(* The groups of a repair, each after the groups before it: the history h has   *)
(* the events E, u knows them, x knows the repair's events F as well.           *)

\* Of is a selection from the events of the history.
LEMMA OfHistory ==
  ASSUME NEW h, NEW type
  PROVE  Of(h, type) = {e \in Range(h) : e.type = type}
BY DEF Of, Range

\* The approvals that the history leaves undecided are those that are pending.
LEMMA UndecidedIsPending ==
  ASSUME NEW h, NEW E, E = Range(h), NEW u, Learned(E, u)
  PROVE  /\ \A e \in Undecided(h) :
              /\ e \in E /\ e.type = "approval/request"
              /\ e.approvalId \in u.pendingApprovals
              /\ u.approvals[e.approvalId] = e.callId
         /\ \A a \in u.pendingApprovals : \E e \in Undecided(h) : e.approvalId = a
         /\ \A d, e \in Undecided(h) : d.approvalId = e.approvalId => d = e
<1>1. Undecided(h) = {e \in E : /\ e.type = "approval/request"
                                /\ \A d \in E : d.type = "approval/decision" =>
                                                  d.approvalId # e.approvalId}
  BY OfHistory DEF Undecided
<1>2. ApprovalsKnown(E, u)
  BY DEF Learned
<1> QED BY <1>1, <1>2 DEF ApprovalsKnown

\* Finitely many approvals are undecided.
LEMMA UndecidedIsFinite ==
  ASSUME NEW h, IsSeq(h)
  PROVE  IsFiniteSet(Undecided(h))
<1>1. Undecided(h) \in SUBSET Of(h, "approval/request")
  BY DEF Undecided
<1>2. IsFiniteSet(Of(h, "approval/request"))
  BY OfIsFinite
<1> QED BY <1>1, <1>2, FS_Subset

\* The decisions are accepted, and decide all that is pending.
LEMMA DecisionsFit ==
  ASSUME NEW h, IsSeq(h), NEW E, E = Range(h), NEW u, Learned(E, u)
  PROVE  /\ Accepted(E, u, Decisions(h))
         /\ \A e \in Range(Decisions(h)) : e.type = "approval/decision"
         /\ \A a \in u.pendingApprovals : \E e \in Range(Decisions(h)) :
              e.type = "approval/decision" /\ e.approvalId = a
<1> DEFINE f == [e \in Undecided(h) |-> [type |-> "approval/decision",
                   approvalId |-> e.approvalId, callId |-> e.callId]]
<1>1. /\ f = [k \in DOMAIN f |-> f[k]] /\ DOMAIN f = Undecided(h)
      /\ \A e \in Undecided(h) : /\ f[e].type = "approval/decision"
                                 /\ f[e].approvalId = e.approvalId /\ f[e].callId = e.callId
  OBVIOUS
<1>2. Decisions(h) = InAnyOrder(f)
  BY DEF Decisions
<1>3. IsFiniteSet(Undecided(h))
  BY UndecidedIsFinite
<1> HIDE DEF f
<1>4. \A k \in DOMAIN f : Closing(f[k])
  BY <1>1 DEF Closing, Defined, TurnTypes, StepTypes
<1>5. ASSUME NEW k \in DOMAIN f, NEW F \in SUBSET {f[y] : y \in DOMAIN f \ {k}}, NEW x,
             After(E, u, F, x)
      PROVE  Accepts(x, f[k])
  <2>1. k.approvalId \in u.pendingApprovals /\ u.approvals[k.approvalId] = k.callId
    BY <1>1, UndecidedIsPending
  <2>2. \A e \in F : e.type = "approval/decision" => e.approvalId # k.approvalId
    BY <1>1, UndecidedIsPending
  <2>3. k.approvalId \in x.pendingApprovals /\ x.approvals[k.approvalId] = k.callId
    BY <1>5, <2>1, <2>2, PendingLater
  <2>4. Learned(E \cup F, x)
    BY <1>5 DEF After
  <2> QED BY <1>1, <2>3, <2>4, DecisionAccepted
<1>6. Accepted(E, u, InAnyOrder(f)) /\ Range(InAnyOrder(f)) = Range(f)
  BY <1>1, <1>3, <1>4, <1>5, AcceptedInAnyOrder
<1>7. \A a \in u.pendingApprovals : \E e \in Range(f) :
        e.type = "approval/decision" /\ e.approvalId = a
  <2> SUFFICES ASSUME NEW a \in u.pendingApprovals
               PROVE  \E e \in Range(f) : e.type = "approval/decision" /\ e.approvalId = a
    OBVIOUS
  <2>1. PICK e \in Undecided(h) : e.approvalId = a
    BY UndecidedIsPending
  <2>2. f[e] \in Range(f) /\ f[e].type = "approval/decision" /\ f[e].approvalId = a
    BY <1>1, <2>1 DEF Range
  <2> QED BY <2>2
<1>8. \A e \in Range(f) : e.type = "approval/decision"
  BY <1>1 DEF Range
<1> QED BY <1>2, <1>6, <1>7, <1>8

\* The messages are accepted: each closes a request of the open step.
LEMMA MessagesFit ==
  ASSUME NEW h, IsSeq(h), NEW E, E = Range(h), NEW u, NEW D, E \subseteq D,
         NEW x, Learned(D, x)
  PROVE  /\ Accepted(D, x, Messages(h, u))
         /\ \A e \in Range(Messages(h, u)) : e.type = "assistant/message"
<1> DEFINE S == {e.requestId : e \in Streamed(h, u)}
           f == [r \in S |-> [type |-> "assistant/message", turn |-> u.openTurn,
                   step |-> u.openStep, requestId |-> r, wants |-> {}]]
<1>1. /\ f = [k \in DOMAIN f |-> f[k]] /\ DOMAIN f = S
      /\ \A r \in S : /\ f[r].type = "assistant/message" /\ f[r].requestId = r
                      /\ f[r].turn = u.openTurn /\ f[r].step = u.openStep
  OBVIOUS
<1>2. Messages(h, u) = InAnyOrder(f)
  BY DEF Messages
<1>3. IsFiniteSet(S)
  BY StreamedIsFinite
<1>4. \A r \in S : \E e \in E : /\ e.type = "assistant/chunk" /\ e.requestId = r
                                /\ e.turn = u.openTurn /\ e.step = u.openStep
  <2>1. Streamed(h, u) \subseteq {e \in E : /\ e.type = "assistant/chunk"
                                            /\ e.turn = u.openTurn /\ e.step = u.openStep}
    BY OfHistory DEF Streamed
  <2> QED BY <2>1
<1> HIDE DEF f, S
<1>5. \A k \in DOMAIN f : Closing(f[k])
  BY <1>1 DEF Closing, Defined, TurnTypes, StepTypes
<1>6. ASSUME NEW k \in DOMAIN f, NEW F \in SUBSET {f[y] : y \in DOMAIN f \ {k}}, NEW y,
             After(D, x, F, y)
      PROVE  Accepts(y, f[k])
  <2>1. PICK e \in E : /\ e.type = "assistant/chunk" /\ e.requestId = k
                       /\ e.turn = u.openTurn /\ e.step = u.openStep
    BY <1>1, <1>4
  <2>2. RequestsKnown(D \cup F, y)
    BY <1>6 DEF After, Learned
  <2>3. /\ k \in DOMAIN y.requests
        /\ y.requests[k].turn = u.openTurn /\ y.requests[k].step = u.openStep
    BY <2>1, <2>2 DEF RequestsKnown
  <2>4. Accepts(y, f[k]) = RequestOk(y, f[k])
    BY <1>1, Cases DEF RequestTypes
  <2>5. RequestOk(y, f[k])
    BY <1>1, <2>3 DEF RequestOk
  <2> QED BY <2>4, <2>5
<1>7. Accepted(D, x, InAnyOrder(f)) /\ Range(InAnyOrder(f)) = Range(f)
  BY <1>1, <1>3, <1>5, <1>6, AcceptedInAnyOrder
<1>8. \A e \in Range(f) : e.type = "assistant/message"
  BY <1>1 DEF Range
<1> QED BY <1>2, <1>7, <1>8

\* The results of interrupted calls are accepted, and resolve all that is unresolved.
LEMMA UnknownFits ==
  ASSUME NEW h, NEW E, E = Range(h), NEW u, Learned(E, u),
         IsFiniteSet(u.unresolved), NEW D, E \subseteq D, NEW x, Learned(D, x),
         x.pendingApprovals = {},
         \A e \in D \ E : e.type = "tool/result" => e.callId \notin DOMAIN u.calls
  PROVE  /\ Accepted(D, x, Unknown(h, u))
         /\ \A e \in Range(Unknown(h, u)) : e.type = "tool/result"
         /\ \A c \in u.unresolved : \E e \in Range(Unknown(h, u)) :
              e.type = "tool/result" /\ e.callId = c
<1> DEFINE S == u.unresolved \ {e.callId : e \in Of(h, "tool/result")}
           recorded(c) == CHOOSE e \in Of(h, "tool/call") : e.callId = c
           f == [c \in S |-> Interrupted(recorded(c))]
<1>1. f = [k \in DOMAIN f |-> f[k]] /\ DOMAIN f = S /\ \A c \in S : f[c] = Interrupted(recorded(c))
  OBVIOUS
<1>2. Unknown(h, u) = InAnyOrder(f)
  BY DEF Unknown
<1>3. S = u.unresolved
  <2>1. \A e \in E : e.type = "tool/result" => e.callId \notin u.unresolved
    BY DEF Learned, CallsKnown
  <2>2. \A e \in Of(h, "tool/result") : e \in E /\ e.type = "tool/result"
    BY OfHistory
  <2> QED BY <2>1, <2>2
<1>4. \A c \in S : recorded(c) \in E /\ recorded(c).type = "tool/call" /\ recorded(c).callId = c
  <2>1. \A c \in S : \E e \in E : e.type = "tool/call" /\ e.callId = c
    BY DEF Learned, CallsKnown
  <2>2. Of(h, "tool/call") = {e \in E : e.type = "tool/call"}
    BY OfHistory
  <2>3. \A c \in S : \E e \in Of(h, "tool/call") : e.callId = c
    BY <2>1, <2>2
  <2> HIDE DEF S
  <2>4. \A c \in S : recorded(c) \in Of(h, "tool/call") /\ recorded(c).callId = c
    BY <2>3
  <2> HIDE DEF recorded
  <2> QED BY <2>2, <2>4
<1>5. \A c : /\ Interrupted(c).type = "tool/result" /\ Interrupted(c).callId = c.callId
             /\ Interrupted(c).turn = c.turn /\ Interrupted(c).step = c.step
  BY DEF Interrupted, Recovered
<1>6. \A c \in S : /\ f[c].type = "tool/result" /\ f[c].callId = c
                   /\ f[c].turn = recorded(c).turn /\ f[c].step = recorded(c).step
  <2> HIDE DEF f, S, recorded
  <2> QED BY <1>1, <1>4, <1>5
<1> HIDE DEF f, S, recorded
<1>7. \A k \in DOMAIN f : Closing(f[k])
  BY <1>1, <1>6 DEF Closing, Defined, TurnTypes, StepTypes
<1>8. ASSUME NEW k \in DOMAIN f, NEW F \in SUBSET {f[y] : y \in DOMAIN f \ {k}}, NEW y,
             After(D, x, F, y)
      PROVE  Accepts(y, f[k])
  <2>1. \A e \in F : e.type = "tool/result" /\ e.callId # k
    BY <1>1, <1>6
  <2>2. Learned(D \cup F, y)
    BY <1>8 DEF After
  <2>3. /\ recorded(k) \in D \cup F /\ recorded(k).type = "tool/call"
        /\ recorded(k).callId = k
    BY <1>1, <1>4
  <2>4. /\ k \in DOMAIN y.calls
        /\ y.calls[k].turn = recorded(k).turn /\ y.calls[k].step = recorded(k).step
    BY <2>2, <2>3 DEF Learned, CallsKnown
  <2>5. k \in u.unresolved /\ k \in DOMAIN u.calls
    BY <1>1, <1>3 DEF Learned, CallsKnown
  <2>6. \A e \in D \cup F : e.type = "tool/result" => e.callId # k
    <3>1. \A e \in E : e.type = "tool/result" => e.callId # k
      BY <2>5 DEF Learned, CallsKnown
    <3> QED BY <2>1, <2>5, <3>1
  <2>7. k \in y.unresolved
    BY <2>2, <2>4, <2>6 DEF Learned, CallsKnown
  <2>8. y.pendingApprovals = {}
    <3>1. \A e \in F : e.type # "approval/request"
      BY <2>1
    <3> QED BY <1>8, <3>1, PendingLater
  <2> QED BY <1>1, <1>6, <2>2, <2>4, <2>7, <2>8, ResultAccepted
<1>9. Accepted(D, x, InAnyOrder(f)) /\ Range(InAnyOrder(f)) = Range(f)
  BY <1>1, <1>3, <1>7, <1>8, AcceptedInAnyOrder
<1>10. \A e \in Range(f) : e.type = "tool/result"
  BY <1>1, <1>6 DEF Range
<1>11. \A c \in u.unresolved : \E e \in Range(f) : e.type = "tool/result" /\ e.callId = c
  <2>1. \A c \in S : f[c] \in Range(f)
    BY <1>1 DEF Range
  <2> QED BY <1>3, <1>6, <2>1
<1> QED BY <1>2, <1>9, <1>10, <1>11

\* The cancelled retries are accepted, and close all that is open.
LEMMA CancelledRetriesFit ==
  ASSUME NEW h, IsSeq(h), NEW E, E = Range(h), NEW D, E \subseteq D, NEW x, Learned(D, x),
         \A e \in D \ E : \A t : ~Closes(e, t)
  PROVE  /\ Accepted(D, x, CancelRetries(h))
         /\ \A e \in Range(CancelRetries(h)) : e.type = "retry/cancelled"
         /\ \A t \in OpenRetries(h) : \E e \in Range(CancelRetries(h)) : Closes(e, t)
<1> DEFINE S == OpenRetries(h)
           f == [t \in S |-> [type |-> "retry/cancelled", retryId |-> t]]
<1>1. /\ f = [k \in DOMAIN f |-> f[k]] /\ DOMAIN f = S
      /\ \A t \in S : f[t].type = "retry/cancelled" /\ f[t].retryId = t
  OBVIOUS
<1>2. CancelRetries(h) = InAnyOrder(f)
  BY DEF CancelRetries
<1>3. IsFiniteSet(S)
  BY OpenRetriesIsFinite
<1>4. \A t \in S : /\ \E e \in E : e.type = "retry/scheduled" /\ e.retryId = t
                   /\ \A e \in E : ~Closes(e, t)
  BY OfHistory DEF OpenRetries, Closes
<1> HIDE DEF f, S
<1>5. \A k \in DOMAIN f : Closing(f[k])
  BY <1>1 DEF Closing, Defined, TurnTypes, StepTypes
<1>6. ASSUME NEW k \in DOMAIN f, NEW F \in SUBSET {f[y] : y \in DOMAIN f \ {k}}, NEW y,
             After(D, x, F, y)
      PROVE  Accepts(y, f[k])
  <2>1. PICK e \in E : e.type = "retry/scheduled" /\ e.retryId = k
    BY <1>1, <1>4
  <2>2. \A d \in F : ~Closes(d, k)
    BY <1>1 DEF Closes
  <2>3. \A d \in D \cup F : ~Closes(d, k)
    BY <1>1, <1>4, <2>2
  <2>4. RetriesKnown(D \cup F, y)
    BY <1>6 DEF After, Learned
  <2>5. k \in DOMAIN y.retries /\ y.retries[k].state \in {"scheduled", "started"}
    BY <2>1, <2>3, <2>4 DEF RetriesKnown
  <2>6. Accepts(y, f[k]) = RetryOk(y, f[k])
    BY <1>1, Cases DEF RetryTypes
  <2>7. RetryOk(y, f[k])
    BY <1>1, <2>5 DEF RetryOk
  <2> QED BY <2>6, <2>7
<1>7. Accepted(D, x, InAnyOrder(f)) /\ Range(InAnyOrder(f)) = Range(f)
  BY <1>1, <1>3, <1>5, <1>6, AcceptedInAnyOrder
<1>8. \A e \in Range(f) : e.type = "retry/cancelled"
  BY <1>1 DEF Range
<1>9. \A t \in S : \E e \in Range(f) : Closes(e, t)
  <2>1. \A t \in S : f[t] \in Range(f) /\ Closes(f[t], t)
    BY <1>1 DEF Range, Closes
  <2> QED BY <2>1
<1> QED BY <1>2, <1>7, <1>8, <1>9 DEF S

\* The ends of compactions are accepted, and end all that were started.
LEMMA EndedCompactionsFit ==
  ASSUME NEW h, IsSeq(h), NEW u, NestedKnown(h, DOMAIN h, u), NEW D, NEW x, Learned(D, x),
         DOMAIN x.compactions = DOMAIN u.compactions
  PROVE  /\ Accepted(D, x, EndCompactions(h))
         /\ \A e \in Range(EndCompactions(h)) : e.type = "compaction/end"
         /\ \A k \in DOMAIN u.compactions : \E e \in Range(EndCompactions(h)) :
              e.type = "compaction/end" /\ e.compactionId = k
<1> DEFINE S == LeftOpen(h, "compaction/start", "compaction/end", "compactionId")
           f == [k \in S |-> [type |-> "compaction/end", compactionId |-> k,
                              outcome |-> "cancelled"]]
<1>1. /\ f = [k \in DOMAIN f |-> f[k]] /\ DOMAIN f = S
      /\ \A k \in S : /\ f[k].type = "compaction/end" /\ f[k].compactionId = k
                      /\ f[k].outcome = "cancelled"
  OBVIOUS
<1>2. EndCompactions(h) = InAnyOrder(f)
  BY DEF EndCompactions
<1>3. IsFiniteSet(S)
  BY LeftOpenIsFinite
<1>4. S = DOMAIN u.compactions
  <2>1. \A k : k \in S <=>
          NotEnded(h, DOMAIN h, "compaction/start", "compaction/end", "compactionId", k)
    BY DEF LeftOpen, NotEnded
  <2> HIDE DEF S
  <2>2. \A k : k \in DOMAIN u.compactions <=>
          NotEnded(h, DOMAIN h, "compaction/start", "compaction/end", "compactionId", k)
    BY DEF NestedKnown
  <2> QED BY <2>1, <2>2
<1> HIDE DEF f, S
<1>5. \A k \in DOMAIN f : Closing(f[k])
  BY <1>1 DEF Closing, Defined, TurnTypes, StepTypes
<1>6. ASSUME NEW k \in DOMAIN f, NEW F \in SUBSET {f[y] : y \in DOMAIN f \ {k}}, NEW y,
             After(D, x, F, y)
      PROVE  Accepts(y, f[k])
  <2>1. \A d \in F : d.compactionId # k
    BY <1>1
  <2>2. k \in DOMAIN y.compactions
    BY <1>1, <1>4, <1>6, <2>1 DEF After
  <2>3. Accepts(y, f[k]) = NestedOk(y, f[k])
    BY <1>1, Cases DEF NestedTypes
  <2>4. NestedOk(y, f[k])
    BY <1>1, <2>2 DEF NestedOk
  <2> QED BY <2>3, <2>4
<1>7. Accepted(D, x, InAnyOrder(f)) /\ Range(InAnyOrder(f)) = Range(f)
  BY <1>1, <1>3, <1>5, <1>6, AcceptedInAnyOrder
<1>8. \A e \in Range(f) : e.type = "compaction/end"
  BY <1>1 DEF Range
<1>9. \A k \in S : f[k] \in Range(f)
  BY <1>1 DEF Range
<1>10. \A k \in S : \E e \in Range(f) : e.type = "compaction/end" /\ e.compactionId = k
  BY <1>1, <1>9
<1> QED BY <1>2, <1>4, <1>7, <1>8, <1>10

\* The ends of children are accepted, and end all that were started.
LEMMA EndedSubagentsFit ==
  ASSUME NEW h, IsSeq(h), NEW u, NestedKnown(h, DOMAIN h, u), NEW D, NEW x, Learned(D, x),
         x.subagents = u.subagents
  PROVE  /\ Accepted(D, x, EndSubagents(h))
         /\ \A e \in Range(EndSubagents(h)) : e.type = "subagent/end"
         /\ \A k \in u.subagents : \E e \in Range(EndSubagents(h)) :
              e.type = "subagent/end" /\ e.child = k
<1> DEFINE S == LeftOpen(h, "subagent/start", "subagent/end", "child")
           f == [c \in S |-> [type |-> "subagent/end", child |-> c]]
<1>1. /\ f = [k \in DOMAIN f |-> f[k]] /\ DOMAIN f = S
      /\ \A k \in S : f[k].type = "subagent/end" /\ f[k].child = k
  OBVIOUS
<1>2. EndSubagents(h) = InAnyOrder(f)
  BY DEF EndSubagents
<1>3. IsFiniteSet(S)
  BY LeftOpenIsFinite
<1>4. S = u.subagents
  <2>1. \A k : k \in S <=>
          NotEnded(h, DOMAIN h, "subagent/start", "subagent/end", "child", k)
    BY DEF LeftOpen, NotEnded
  <2> HIDE DEF S
  <2>2. \A k : k \in u.subagents <=>
          NotEnded(h, DOMAIN h, "subagent/start", "subagent/end", "child", k)
    BY DEF NestedKnown
  <2> QED BY <2>1, <2>2
<1> HIDE DEF f, S
<1>5. \A k \in DOMAIN f : Closing(f[k])
  BY <1>1 DEF Closing, Defined, TurnTypes, StepTypes
<1>6. ASSUME NEW k \in DOMAIN f, NEW F \in SUBSET {f[y] : y \in DOMAIN f \ {k}}, NEW y,
             After(D, x, F, y)
      PROVE  Accepts(y, f[k])
  <2>1. \A d \in F : d.child # k
    BY <1>1
  <2>2. k \in y.subagents
    BY <1>1, <1>4, <1>6, <2>1 DEF After
  <2>3. Accepts(y, f[k]) = NestedOk(y, f[k])
    BY <1>1, Cases DEF NestedTypes
  <2>4. NestedOk(y, f[k])
    BY <1>1, <2>2 DEF NestedOk
  <2> QED BY <2>3, <2>4
<1>7. Accepted(D, x, InAnyOrder(f)) /\ Range(InAnyOrder(f)) = Range(f)
  BY <1>1, <1>3, <1>5, <1>6, AcceptedInAnyOrder
<1>8. \A e \in Range(f) : e.type = "subagent/end"
  BY <1>1 DEF Range
<1>9. \A k \in S : f[k] \in Range(f)
  BY <1>1 DEF Range
<1>10. \A k \in S : \E e \in Range(f) : e.type = "subagent/end" /\ e.child = k
  BY <1>1, <1>9
<1> QED BY <1>2, <1>4, <1>7, <1>8, <1>10

\* What a wanted call is: the last message of the open step that asks for it
\* names its request.
LEMMA WantedFacts ==
  ASSUME NEW h, IsSeq(h), NEW E, E = Range(h), NEW u
  PROVE  /\ \A c \in Wanted(h, u) :
              /\ c.turn = u.openTurn /\ c.step = u.openStep
              /\ \A e \in E : e.type = "tool/call" => e.callId # c.callId
              /\ \E m \in E : /\ m.type = "assistant/message" /\ m.requestId = c.requestId
                              /\ m.turn = u.openTurn /\ m.step = u.openStep
         /\ \A c, d \in Wanted(h, u) : c.callId = d.callId => c = d
<1> DEFINE asks(i, c) == /\ h[i].type = "assistant/message" /\ c \in h[i].wants
                         /\ h[i].turn = u.openTurn /\ h[i].step = u.openStep
           names == (UNION {m.wants : m \in Of(h, "assistant/message")})
                      \ {e.callId : e \in Of(h, "tool/call")}
           last(c) == CHOOSE i \in DOMAIN h :
                        asks(i, c) /\ \A j \in DOMAIN h : j > i => ~asks(j, c)
           call(i, c) == [turn |-> h[i].turn, step |-> h[i].step, requestId |-> h[i].requestId,
                          callId |-> c]
           N == {n \in names : \E i \in DOMAIN h : asks(i, n)}
<1>1. Wanted(h, u) = {call(last(c), c) : c \in N}
  BY DEF Wanted
<1>2. \A c \in N : \A e \in E : e.type = "tool/call" => e.callId # c
  BY OfHistory
<1>3. ASSUME NEW c \in N PROVE last(c) \in DOMAIN h /\ asks(last(c), c)
  <2> DEFINE n == Len(h)
             T == {k \in Nat : n - k \in DOMAIN h /\ asks(n - k, c)}
  <2>1. n \in Nat /\ DOMAIN h = 1 .. n
    BY DEF IsSeq
  <2> HIDE DEF asks
  <2>2. PICK i \in DOMAIN h : asks(i, c)
    OBVIOUS
  <2> HIDE DEF n
  <2>3. n - i \in Nat /\ n - (n - i) = i
    BY <2>1
  <2>4. n - i \in T
    BY <2>2, <2>3
  <2>5. PICK k \in T : \A l \in T : k <= l
    <3>1. T \in SUBSET Nat /\ T # {}
      BY <2>4
    <3> HIDE DEF T
    <3> QED BY <3>1, Least
  <2>6. n - k \in DOMAIN h /\ asks(n - k, c) /\ k \in Nat
    BY <2>5
  <2>7. \A j \in DOMAIN h : j > n - k => ~asks(j, c)
    <3> SUFFICES ASSUME NEW j \in DOMAIN h, j > n - k, asks(j, c) PROVE FALSE
      OBVIOUS
    <3>1. n - j \in Nat /\ n - (n - j) = j /\ ~(k <= n - j)
      BY <2>1, <2>6
    <3>2. n - j \in T
      BY <3>1
    <3> QED BY <2>5, <3>1, <3>2
  <2>8. \E p \in DOMAIN h : asks(p, c) /\ \A j \in DOMAIN h : j > p => ~asks(j, c)
    BY <2>6, <2>7
  <2> QED BY <2>8
<1>4. \A i, c : /\ call(i, c).turn = h[i].turn /\ call(i, c).step = h[i].step
                /\ call(i, c).requestId = h[i].requestId /\ call(i, c).callId = c
  OBVIOUS
<1>5. \A i, c : asks(i, c) => /\ h[i].type = "assistant/message"
                              /\ h[i].turn = u.openTurn /\ h[i].step = u.openStep
  OBVIOUS
<1> HIDE DEF asks, last, call, N, names
<1>6. ASSUME NEW c \in Wanted(h, u)
      PROVE  /\ c.turn = u.openTurn /\ c.step = u.openStep
             /\ \A e \in E : e.type = "tool/call" => e.callId # c.callId
             /\ \E m \in E : /\ m.type = "assistant/message" /\ m.requestId = c.requestId
                             /\ m.turn = u.openTurn /\ m.step = u.openStep
             /\ c = call(last(c.callId), c.callId)
  <2>1. PICK k \in N : c = call(last(k), k)
    BY <1>1
  <2>2. c.callId = k
    BY <1>4, <2>1
  <2>3. last(k) \in DOMAIN h /\ asks(last(k), k)
    BY <1>3
  <2>4. h[last(k)] \in E
    BY <2>3 DEF Range
  <2>5. /\ h[last(k)].type = "assistant/message" /\ h[last(k)].requestId = c.requestId
        /\ h[last(k)].turn = u.openTurn /\ h[last(k)].step = u.openStep
        /\ c.turn = h[last(k)].turn /\ c.step = h[last(k)].step
    BY <1>4, <1>5, <2>1, <2>3
  <2> QED BY <1>2, <2>1, <2>2, <2>4, <2>5
<1>7. \A c, d \in Wanted(h, u) : c.callId = d.callId => c = d
  <2>1. \A c \in Wanted(h, u) : c = call(last(c.callId), c.callId)
    BY <1>6
  <2> QED BY <2>1
<1> QED BY <1>6, <1>7


\* How the pairs of a call and its result stand in NotStarted.
LEMMA NotStartedPairs ==
  ASSUME NEW h, IsHistory(h), NEW u
  PROVE  LET s == SetToSeq(Wanted(h, u))
             b == NotStarted(h, u)
             of(i) == s[(i + 1) \div 2]
         IN  /\ IsSeq(b)
             /\ \A i \in 1 .. Len(b) :
                  /\ of(i) \in Wanted(h, u)
                  /\ b[i].callId = of(i).callId
                  /\ b[i].turn = of(i).turn /\ b[i].step = of(i).step
                  /\ i % 2 = 1 => b[i].type = "tool/call" /\ b[i].requestId = of(i).requestId
                  /\ i % 2 # 1 => b[i].type = "tool/result"
                  /\ i % 2 = 1 => i + 1 \in 1 .. Len(b) /\ b[i + 1].callId = of(i).callId
                                  /\ b[i + 1].type = "tool/result"
                  /\ i % 2 # 1 => i - 1 \in 1 .. i - 1 /\ b[i - 1].callId = of(i).callId
                                  /\ b[i - 1].type = "tool/call"
                                  /\ b[i - 1].turn = of(i).turn /\ b[i - 1].step = of(i).step
             /\ \A i, j \in 1 .. Len(b) : i % 2 = j % 2 /\ of(i) = of(j) => i = j
<1> DEFINE s == SetToSeq(Wanted(h, u))
           call(c) == [type |-> "tool/call", turn |-> c.turn, step |-> c.step,
                       requestId |-> c.requestId, callId |-> c.callId, repair |-> TRUE]
           b == NotStarted(h, u)
           of(i) == s[(i + 1) \div 2]
           m == Len(s)
<1>1. /\ s \in Seq(Wanted(h, u)) /\ m \in Nat /\ DOMAIN s = 1 .. m
      /\ \A i, j \in DOMAIN s : s[i] = s[j] => i = j
  BY WantedIsFinite, SetToSeqEnumerates
<1>2. b = [i \in 1 .. 2 * m |-> IF i % 2 = 1 THEN call(s[(i + 1) \div 2])
                                ELSE Recovered(s[i \div 2], "not-started")]
  BY DEF NotStarted
<1>3. \A c : /\ call(c).type = "tool/call" /\ call(c).callId = c.callId
             /\ call(c).turn = c.turn /\ call(c).step = c.step
             /\ call(c).requestId = c.requestId
             /\ Recovered(c, "not-started").type = "tool/result"
             /\ Recovered(c, "not-started").callId = c.callId
             /\ Recovered(c, "not-started").turn = c.turn
             /\ Recovered(c, "not-started").step = c.step
  BY DEF Recovered
<1>4. IsSeq(b)
  BY NotStartedIsAnnounced DEF IsHistory
<1> HIDE DEF s, call, b, m
<1>5. 2 * m \in Nat /\ Len(b) = 2 * m
  BY <1>1, <1>2, <1>4 DEF IsSeq
<1>6. \A i \in 1 .. 2 * m : i % 2 = 1 => b[i] = call(of(i))
  BY <1>2
<1>7. \A i \in 1 .. 2 * m : i % 2 # 1 => b[i] = Recovered(of(i), "not-started")
  <2>1. \A i \in 1 .. 2 * m : i % 2 # 1 => i \div 2 = (i + 1) \div 2
    BY <1>5
  <2> QED BY <1>2, <2>1
<1>8. \A i \in 1 .. 2 * m : (i + 1) \div 2 \in 1 .. m
  BY <1>1
<1>9. \A i \in 1 .. 2 * m : of(i) \in Wanted(h, u)
  BY <1>1, <1>8
<1>10. \A i \in 1 .. 2 * m : i % 2 = 1 =>
         i + 1 \in 1 .. 2 * m /\ (i + 1) % 2 # 1 /\ ((i + 1) + 1) \div 2 = (i + 1) \div 2
  BY <1>1, <1>5
<1>11. \A i \in 1 .. 2 * m : i % 2 # 1 =>
         /\ i - 1 \in 1 .. i - 1 /\ i - 1 \in 1 .. 2 * m /\ (i - 1) % 2 = 1
         /\ ((i - 1) + 1) \div 2 = (i + 1) \div 2
  BY <1>1, <1>5
<1>12. \A i, j \in 1 .. 2 * m : i % 2 = j % 2 /\ of(i) = of(j) => i = j
  <2>1. \A i, j \in 1 .. 2 * m : i % 2 = j % 2 /\ (i + 1) \div 2 = (j + 1) \div 2 => i = j
    BY <1>1, <1>5
  <2> QED BY <1>1, <1>8, <2>1
<1>13. \A i \in 1 .. 2 * m : i % 2 = 1 => of(i + 1) = of(i)
  BY <1>10
<1>14. \A i \in 1 .. 2 * m : i % 2 # 1 => of(i - 1) = of(i)
  BY <1>11
<1> HIDE DEF of
<1>15. ASSUME NEW i \in 1 .. 2 * m, i % 2 = 1
       PROVE  /\ b[i].callId = of(i).callId /\ b[i].turn = of(i).turn /\ b[i].step = of(i).step
              /\ b[i].type = "tool/call" /\ b[i].requestId = of(i).requestId
              /\ i + 1 \in 1 .. 2 * m /\ b[i + 1].callId = of(i).callId
              /\ b[i + 1].type = "tool/result"
  <2>1. b[i] = call(of(i)) /\ i + 1 \in 1 .. 2 * m /\ b[i + 1] = Recovered(of(i), "not-started")
    BY <1>6, <1>7, <1>10, <1>13, <1>15
  <2> QED BY <1>3, <2>1, Zenon
<1>16. ASSUME NEW i \in 1 .. 2 * m, i % 2 # 1
       PROVE  /\ b[i].callId = of(i).callId /\ b[i].turn = of(i).turn /\ b[i].step = of(i).step
              /\ b[i].type = "tool/result"
              /\ i - 1 \in 1 .. i - 1 /\ b[i - 1].callId = of(i).callId
              /\ b[i - 1].type = "tool/call"
              /\ b[i - 1].turn = of(i).turn /\ b[i - 1].step = of(i).step
  <2>1. /\ b[i] = Recovered(of(i), "not-started") /\ i - 1 \in 1 .. i - 1
        /\ b[i - 1] = call(of(i))
    BY <1>6, <1>7, <1>11, <1>14, <1>16
  <2> QED BY <1>3, <2>1, Zenon
<1> QED BY <1>4, <1>5, <1>9, <1>12, <1>15, <1>16 DEF of, b, s

\* The calls that were not started are accepted, each followed by its result.
LEMMA NotStartedFits ==
  ASSUME NEW h, IsHistory(h), NEW E, E = Range(h), NEW u, Learned(E, u),
         NEW D, E \subseteq D, NEW x, Learned(D, x),
         x.openTurn = u.openTurn, x.openStep = u.openStep, x.pendingApprovals = {},
         \A e \in D \ E : e.type \notin {"tool/call", "tool/result"}
  PROVE  LET b == NotStarted(h, u)
         IN  /\ Accepted(D, x, b)
             /\ \A e \in Range(b) : /\ e.type \in {"tool/call", "tool/result"}
                                    /\ e.callId \notin DOMAIN u.calls
             /\ \A e \in Range(b) : e.type = "tool/call" =>
                  \E d \in Range(b) : d.type = "tool/result" /\ d.callId = e.callId
<1> DEFINE b == NotStarted(h, u)
           s == SetToSeq(Wanted(h, u))
           of(i) == s[(i + 1) \div 2]
           W == Wanted(h, u)
<1>1. /\ IsSeq(b)
      /\ \A i \in 1 .. Len(b) :
           /\ of(i) \in W
           /\ b[i].callId = of(i).callId
           /\ b[i].turn = of(i).turn /\ b[i].step = of(i).step
           /\ i % 2 = 1 => b[i].type = "tool/call" /\ b[i].requestId = of(i).requestId
           /\ i % 2 # 1 => b[i].type = "tool/result"
           /\ i % 2 = 1 => i + 1 \in 1 .. Len(b) /\ b[i + 1].callId = of(i).callId
                           /\ b[i + 1].type = "tool/result"
           /\ i % 2 # 1 => i - 1 \in 1 .. i - 1 /\ b[i - 1].callId = of(i).callId
                           /\ b[i - 1].type = "tool/call"
                           /\ b[i - 1].turn = of(i).turn /\ b[i - 1].step = of(i).step
      /\ \A i, j \in 1 .. Len(b) : i % 2 = j % 2 /\ of(i) = of(j) => i = j
  BY NotStartedPairs, Zenon
<1>2. /\ \A c \in W : /\ c.turn = u.openTurn /\ c.step = u.openStep
                      /\ \A e \in E : e.type = "tool/call" => e.callId # c.callId
                      /\ \E m \in E : /\ m.type = "assistant/message"
                                      /\ m.requestId = c.requestId
                                      /\ m.turn = u.openTurn /\ m.step = u.openStep
      /\ \A c, d \in W : c.callId = d.callId => c = d
  <2>1. IsSeq(h)
    BY DEF IsHistory
  <2> QED BY <2>1, WantedFacts
<1>3. Len(b) \in Nat /\ DOMAIN b = 1 .. Len(b)
  BY <1>1 DEF IsSeq
<1> HIDE DEF b, s, of, W
<1>4. \A c \in W : c.callId \notin DOMAIN u.calls
  BY <1>2 DEF Learned, CallsKnown
<1>5. \A c \in W : \A e \in D : e.type \in {"tool/call", "tool/result"} => e.callId # c.callId
  <2>1. \A e \in E : e.type = "tool/result" => e.callId \in DOMAIN u.calls
    BY DEF Learned, CallsKnown
  <2> QED BY <1>2, <1>4, <2>1
<1>6. \A e \in Range(b) : e.type \in {"tool/call", "tool/result"} /\ e.callId \notin DOMAIN u.calls
  BY <1>1, <1>3, <1>4 DEF Range
<1>7. \A e \in Range(b) : Closing(e)
  BY <1>6 DEF Closing, Defined, TurnTypes, StepTypes
<1>8. ASSUME NEW i \in 1 .. Len(b), NEW y, After(D, x, {b[j] : j \in 1 .. i - 1}, y)
      PROVE  Accepts(y, b[i])
  <2> DEFINE F == {b[j] : j \in 1 .. i - 1}
             c == of(i)
  <2>1. /\ Learned(D \cup F, y) /\ y.openTurn = u.openTurn /\ y.openStep = u.openStep
    BY <1>8 DEF After
  <2>2. c \in W /\ b[i].callId = c.callId /\ b[i].turn = u.openTurn /\ b[i].step = u.openStep
    BY <1>1, <1>2
  <2>3. ASSUME NEW e \in F, e.type = b[i].type, e.callId = c.callId PROVE FALSE
    <3>1. PICK j \in 1 .. i - 1 : e = b[j]
      OBVIOUS
    <3>2. j \in 1 .. Len(b) /\ j # i
      BY <1>3
    <3>3. of(j) \in W /\ of(j).callId = c.callId
      BY <1>1, <2>3, <3>1, <3>2
    <3>4. of(j) = of(i)
      BY <1>2, <2>2, <3>3
    <3>5. i % 2 # j % 2
      BY <1>1, <3>2, <3>4
    <3>6. i % 2 = 1 <=> j % 2 = 1
      BY <1>1, <2>3, <3>1, <3>2
    <3>7. i % 2 \in 0 .. 1 /\ j % 2 \in 0 .. 1
      BY <1>3, <3>2
    <3> QED BY <3>5, <3>6, <3>7
  <2>4. CASE i % 2 = 1
    <3>1. b[i].type = "tool/call" /\ b[i].requestId = c.requestId
      BY <1>1, <2>4
    <3>2. PICK m \in E : /\ m.type = "assistant/message" /\ m.requestId = c.requestId
                         /\ m.turn = u.openTurn /\ m.step = u.openStep
      BY <1>2, <2>2
    <3>3. \A e \in D \cup F : e.type = "tool/call" => e.callId # c.callId
      BY <1>5, <2>2, <2>3, <3>1
    <3> HIDE DEF F, c
    <3>4. c.callId \notin DOMAIN y.calls
      BY <2>1, <3>3 DEF Learned, CallsKnown
    <3>5. /\ c.requestId \in DOMAIN y.requests
          /\ y.requests[c.requestId].turn = u.openTurn
          /\ y.requests[c.requestId].step = u.openStep
      BY <2>1, <3>2 DEF Learned, RequestsKnown
    <3>6. Accepts(y, b[i]) = ToolOk(y, b[i])
      BY <3>1, Cases DEF ToolTypes
    <3>7. ToolOk(y, b[i])
      BY <2>1, <2>2, <3>1, <3>4, <3>5 DEF ToolOk, InStep
    <3> QED BY <3>6, <3>7
  <2>5. CASE i % 2 # 1
    <3>1. b[i].type = "tool/result"
      BY <1>1, <2>5
    <3>2. /\ b[i - 1] \in F /\ b[i - 1].callId = c.callId /\ b[i - 1].type = "tool/call"
          /\ b[i - 1].turn = u.openTurn /\ b[i - 1].step = u.openStep
      BY <1>1, <1>2, <2>5
    <3>3. \A e \in D \cup F : e.type = "tool/result" => e.callId # c.callId
      BY <1>5, <2>2, <2>3, <3>1
    <3>4. \A e \in F : e.type # "approval/request"
      BY <1>1, <1>3
    <3> HIDE DEF F, c
    <3>5. /\ c.callId \in DOMAIN y.calls
          /\ y.calls[c.callId].turn = u.openTurn /\ y.calls[c.callId].step = u.openStep
      BY <2>1, <3>2 DEF Learned, CallsKnown
    <3>6. c.callId \in y.unresolved
      BY <2>1, <3>3, <3>5 DEF Learned, CallsKnown
    <3>7. y.pendingApprovals = {}
      <4>1. After(D, x, F, y)
        BY <1>8 DEF F
      <4> QED BY <3>4, <4>1, PendingLater
    <3> QED BY <2>1, <2>2, <3>1, <3>5, <3>6, <3>7, ResultAccepted
  <2> QED BY <2>4, <2>5
<1>9. Accepted(D, x, b)
  BY <1>1, <1>7, <1>8, AcceptedInTurn
<1>10. ASSUME NEW e \in Range(b), e.type = "tool/call"
       PROVE  \E d \in Range(b) : d.type = "tool/result" /\ d.callId = e.callId
  <2>1. PICK i \in 1 .. Len(b) : e = b[i]
    BY <1>3 DEF Range
  <2>2. i % 2 = 1
    BY <1>1, <1>10, <2>1
  <2>3. /\ i + 1 \in 1 .. Len(b) /\ b[i + 1].callId = e.callId
        /\ b[i + 1].type = "tool/result"
    BY <1>1, <2>1, <2>2
  <2>4. b[i + 1] \in Range(b)
    BY <1>3, <2>3 DEF Range
  <2> QED BY <2>3, <2>4
<1> QED BY <1>6, <1>9, <1>10 DEF b

------------------------------------------------------------------------------
(* The repair as a whole. *)

\* Nothing is open but the turn and its step.
Quiet(x) ==
  /\ IsValidator(x) /\ x.suspension = None
  /\ x.openStep # None => x.openTurn # None
  /\ x.unresolved = {} /\ x.pendingApprovals = {} /\ x.pendingRetries = {}
  /\ DOMAIN x.compactions = {} /\ x.subagents = {}

\* An empty batch is accepted.
LEMMA NothingAppended ==
  ASSUME NEW x
  PROVE  AppendBatch(x, <<>>).ok /\ AppendBatch(x, <<>>).v = x
<1> DEFINE b == <<>>
           L == Loop(x, b)
<1>1. Len(b) = 0 /\ Len(b) \in Nat
  OBVIOUS
<1> HIDE DEF b
<1>2. L[0] = Started(x)
  BY <1>1, LoopSteps
<1>3. Started(x).ok /\ Started(x).v = x
  BY DEF Started
<1>4. AppendBatch(x, b) = [v |-> IF L[Len(b)].ok THEN L[Len(b)].v
                                 ELSE Restore(L[Len(b)].v, x, L[Len(b)].undo),
                           ok |-> L[Len(b)].ok]
  BY DEF AppendBatch
<1> HIDE DEF L
<1> QED BY <1>1, <1>2, <1>3, <1>4 DEF b

\* What the end e of a step or a turn makes of x: the containers stay empty.
Ended(x, e, y) ==
  /\ IsValidator(y) /\ y.suspension = None
  /\ y.unresolved = {} /\ y.pendingApprovals = {} /\ y.pendingRetries = {}
  /\ DOMAIN y.compactions = {} /\ y.subagents = {}
  /\ e.type = "step/end" => y.openStep = None /\ y.openTurn = x.openTurn
  /\ e.type = "turn/end" => y.openStep = x.openStep /\ y.openTurn = None

\* The end of a step or a turn leaves nothing else open.
LEMMA EndsStayQuiet ==
  ASSUME NEW x, Quiet(x), NEW e, e.type \in {"step/end", "turn/end"}, Accepts(x, e)
  PROVE  Ended(x, e, Apply(x, e))
<1> DEFINE y == Apply(x, e)
<1>1. IsValidator(x)
  BY DEF Quiet
<1>2. IsValidator(y)
  BY <1>1, EventTouches
<1>3. /\ e.type \notin RequestTypes /\ e.type \notin ToolTypes /\ e.type \notin RetryTypes
      /\ e.type \notin NestedTypes
  BY DEF RequestTypes, ToolTypes, RetryTypes, NestedTypes
<1>4. /\ y["unresolved"] = x["unresolved"] /\ y["pendingApprovals"] = x["pendingApprovals"]
      /\ y["pendingRetries"] = x["pendingRetries"] /\ y["compactions"] = x["compactions"]
      /\ y["subagents"] = x["subagents"]
  <2> HIDE DEF y
  <2> QED BY <1>1, <1>3, FieldsStay DEF y, ToolFields, RetryFieldsOf, NestedFields
<1>5. /\ e.type = "step/end" => y.openStep = None /\ y.openTurn = x.openTurn
      /\ e.type = "turn/end" => y.openStep = x.openStep /\ y.openTurn = None
      /\ y.suspension = x.suspension
  BY <1>1, TurnApplied, StepApplied DEF TurnTypes, StepTypes
<1> HIDE DEF y
<1>6. /\ IsValidator(y) /\ y.suspension = None
      /\ y.unresolved = {} /\ y.pendingApprovals = {} /\ y.pendingRetries = {}
      /\ DOMAIN y.compactions = {} /\ y.subagents = {}
  BY <1>2, <1>4, <1>5 DEF Quiet
<1>7. Ended(x, e, y)
  BY <1>5, <1>6 DEF Ended
<1> QED BY <1>7 DEF y

\* The end of the step and the end of the turn close what is left.
LEMMA QuietTurnEnds ==
  ASSUME NEW x, Quiet(x), NEW u, x.openTurn = u.openTurn, x.openStep = u.openStep
  PROVE  /\ IsSeq(EndTurn(u))
         /\ AppendBatch(x, EndTurn(u)).ok
         /\ ~IsOpen(AppendBatch(x, EndTurn(u)).v)
<1> DEFINE s == [type |-> "step/end", turn |-> u.openTurn, step |-> u.openStep]
           t == [type |-> "turn/end", turn |-> u.openTurn, repair |-> TRUE]
           a == IF u.openStep = None \/ u.openTurn = None THEN <<>> ELSE <<s>>
           b == IF u.openTurn = None THEN <<>> ELSE <<t>>
           y == AppendBatch(x, a).v
           z == AppendBatch(y, b).v
<1>1. EndTurn(u) = a \o b
  BY DEF EndTurn
<1>2. /\ s.type = "step/end" /\ s.turn = u.openTurn /\ s.step = u.openStep
      /\ t.type = "turn/end" /\ t.turn = u.openTurn
  OBVIOUS
<1>3. a \in Seq({s, t}) /\ b \in Seq({s, t})
  <2> HIDE DEF s, t
  <2>1. <<>> \in Seq({s, t}) /\ <<s>> \in Seq({s, t}) /\ <<t>> \in Seq({s, t})
    OBVIOUS
  <2> QED BY <2>1
<1> HIDE DEF s, t
<1>4. AppendBatch(x, a).ok /\ Quiet(y) /\ y.openTurn = u.openTurn /\ y.openStep = None
  <2>1. CASE u.openStep = None
    <3>1. a = <<>>
      BY <2>1
    <3> HIDE DEF a
    <3>2. AppendBatch(x, a).ok /\ y = x
      BY <3>1, NothingAppended
    <3> QED BY <2>1, <3>2
  <2>2. CASE u.openStep # None
    <3>1. a = <<s>>
      BY <2>2 DEF Quiet
    <3> HIDE DEF a
    <3>2. Accepts(x, s) = StepOk(x, s)
      BY <1>2, Cases DEF StepTypes
    <3>3. StepOk(x, s)
      BY <1>2 DEF StepOk, InStep, Quiet
    <3>4. AppendBatch(x, a).ok /\ y = Apply(x, s)
      BY <3>1, <3>2, <3>3, OneAccepted
    <3> HIDE DEF y
    <3>5. Ended(x, s, y)
      <4>1. s.type \in {"step/end", "turn/end"} /\ Accepts(x, s)
        BY <1>2, <3>2, <3>3
      <4>2. Ended(x, s, Apply(x, s))
        BY <4>1, EndsStayQuiet
      <4> QED BY <3>4, <4>2
    <3> QED BY <1>2, <3>4, <3>5 DEF Quiet, Ended
  <2> QED BY <2>1, <2>2
<1> HIDE DEF a, y
<1>5. AppendBatch(y, b).ok /\ ~IsOpen(z)
  <2>1. CASE u.openTurn = None
    <3>1. b = <<>>
      BY <2>1
    <3> HIDE DEF b
    <3>2. AppendBatch(y, b).ok /\ z = y
      BY <3>1, NothingAppended
    <3> QED BY <1>4, <2>1, <3>2 DEF IsOpen, Quiet
  <2>2. CASE u.openTurn # None
    <3>1. b = <<t>>
      BY <2>2
    <3> HIDE DEF b
    <3>2. Accepts(y, t) = TurnOk(y, t)
      BY <1>2, Cases DEF TurnTypes
    <3>3. TurnOk(y, t)
      BY <1>2, <1>4 DEF TurnOk, Quiet
    <3>4. AppendBatch(y, b).ok /\ z = Apply(y, t)
      BY <3>1, <3>2, <3>3, OneAccepted
    <3> HIDE DEF z
    <3>5. Ended(y, t, z)
      <4>1. Quiet(y) /\ t.type \in {"step/end", "turn/end"} /\ Accepts(y, t)
        BY <1>2, <1>4, <3>2, <3>3
      <4>2. Ended(y, t, Apply(y, t))
        BY <4>1, EndsStayQuiet
      <4> QED BY <3>4, <4>2
    <3> QED BY <1>2, <1>4, <3>4, <3>5 DEF IsOpen, Ended
  <2> QED BY <2>1, <2>2
<1> HIDE DEF b, z
<1>6. AppendBatch(x, a \o b).ok /\ AppendBatch(x, a \o b).v = z
  BY <1>3, <1>4, <1>5, ValidatedInParts DEF y, z
<1>7. IsSeq(a \o b)
  <2>1. a \o b \in Seq({s, t})
    BY <1>3
  <2> QED BY <2>1, SeqIsSeq
<1> QED BY <1>1, <1>5, <1>6, <1>7

\* The batch b brings u, which knows the events E, to x by the events F.
Brings(E, u, b, F, x) == Accepted(E, u, b) /\ F = Range(b) /\ x = AppendBatch(u, b).v

\* One batch more.
LEMMA BringsFurther ==
  ASSUME NEW E, NEW u, NEW b, NEW F, NEW x, Brings(E, u, b, F, x),
         NEW D, D = E \cup F, NEW c, Accepted(D, x, c)
  PROVE  Brings(E, u, b \o c, F \cup Range(c), AppendBatch(x, c).v)
<1>1. /\ Accepted(E, u, b) /\ x = AppendBatch(u, b).v /\ D = E \cup Range(b)
  BY DEF Brings
<1>2. /\ Accepted(E, u, b \o c) /\ Range(b \o c) = Range(b) \cup Range(c)
      /\ AppendBatch(u, b \o c).v = AppendBatch(x, c).v
  BY <1>1, AcceptedBoth
<1> QED BY <1>2 DEF Brings

\* What is known of a validator a batch brings about.
LEMMA BroughtFacts ==
  ASSUME NEW E, NEW u, NEW b, NEW F, NEW x, Brings(E, u, b, F, x), NEW D, D = E \cup F
  PROVE  /\ After(E, u, F, x) /\ Learned(D, x) /\ E \subseteq D
         /\ x.openTurn = u.openTurn /\ x.openStep = u.openStep /\ x.suspension = u.suspension
         /\ (\A e \in F : e.type # "compaction/end") => DOMAIN x.compactions = DOMAIN u.compactions
         /\ (\A e \in F : e.type # "subagent/end") => x.subagents = u.subagents
<1>1. After(E, u, F, x)
  BY DEF Brings, Accepted
<1>2. Learned(D, x)
  BY <1>1 DEF After
<1> QED BY <1>1, <1>2 DEF After

\* No approval is pending once all are decided.
LEMMA NothingPending ==
  ASSUME NEW E, NEW u, Learned(E, u), NEW F, NEW x, After(E, u, F, x),
         \A e \in F : e.type # "approval/request",
         \A a \in u.pendingApprovals : \E e \in F :
           e.type = "approval/decision" /\ e.approvalId = a
  PROVE  x.pendingApprovals = {}
<1> SUFFICES ASSUME NEW a \in x.pendingApprovals PROVE FALSE
  OBVIOUS
<1>1. a \in u.pendingApprovals /\ \A e \in F : e.type = "approval/decision" => e.approvalId # a
  BY PendingLater
<1> QED BY <1>1

\* The groups before the end of the turn leave nothing open in it.
LEMMA GroupsClose ==
  ASSUME NEW h, IsHistory(h), NEW E, E = Range(h), NEW u, Learned(E, u),
         u.suspension = None, NEW F, NEW x, After(E, u, F, x),
         \A e \in F : e.type \notin {"approval/request", "retry/scheduled"},
         \A a \in u.pendingApprovals : \E e \in F :
           e.type = "approval/decision" /\ e.approvalId = a,
         \A e \in F : e.type = "tool/call" =>
           \E d \in F : d.type = "tool/result" /\ d.callId = e.callId,
         \A c \in u.unresolved : \E e \in F : e.type = "tool/result" /\ e.callId = c,
         \A t \in OpenRetries(h) : \E e \in F : Closes(e, t),
         \A k \in DOMAIN u.compactions : \E e \in F :
           e.type = "compaction/end" /\ e.compactionId = k,
         \A k \in u.subagents : \E e \in F : e.type = "subagent/end" /\ e.child = k
  PROVE  Quiet(x)
<1>1. Learned(E \cup F, x) /\ x.suspension = None
  BY DEF After
<1>2. x.pendingApprovals = {}
  BY NothingPending
<1>3. x.unresolved = {}
  <2> SUFFICES ASSUME NEW c \in x.unresolved PROVE FALSE
    OBVIOUS
  <2>1. CallsKnown(E, u) /\ CallsKnown(E \cup F, x)
    BY <1>1 DEF Learned
  <2>2. PICK e \in E \cup F : e.type = "tool/call" /\ e.callId = c
    BY <2>1 DEF CallsKnown
  <2>3. \A d \in E \cup F : d.type = "tool/result" => d.callId # c
    BY <2>1 DEF CallsKnown
  <2>4. CASE e \in F
    BY <2>2, <2>3, <2>4
  <2>5. CASE e \in E
    <3>1. c \in DOMAIN u.calls
      BY <2>1, <2>2, <2>5 DEF CallsKnown
    <3>2. c \in u.unresolved
      BY <2>1, <2>3, <3>1 DEF CallsKnown
    <3> QED BY <2>3, <3>2
  <2> QED BY <2>4, <2>5
<1>4. x.pendingRetries = {}
  <2> SUFFICES ASSUME NEW t \in x.pendingRetries PROVE FALSE
    OBVIOUS
  <2>1. RetriesKnown(E \cup F, x)
    BY <1>1 DEF Learned
  <2>2. PICK e \in E \cup F : e.type = "retry/scheduled" /\ e.retryId = t
    BY <2>1 DEF RetriesKnown
  <2>3. \A d \in E \cup F : ~Closes(d, t)
    BY <2>1 DEF RetriesKnown
  <2>4. e \in E
    BY <2>2
  <2>5. t \in OpenRetries(h)
    BY <2>2, <2>3, <2>4, OfHistory DEF OpenRetries, Closes
  <2> QED BY <2>3, <2>5
<1>5. DOMAIN x.compactions = {} /\ x.subagents = {}
  BY DEF After
<1>6. IsValidator(x) /\ StepKnown(x)
  BY <1>1 DEF Learned
<1> QED BY <1>1, <1>2, <1>3, <1>4, <1>5, <1>6 DEF Quiet, StepKnown


\* The groups of a repair, one after the other.
LEMMA RepairEnds ==
  ASSUME NEW h, IsHistory(h), NEW E, E = Range(h), NEW u, Learned(E, u),
         NestedKnown(h, DOMAIN h, u), IsFiniteSet(u.unresolved), u.suspension = None
  PROVE  LET b == Decisions(h) \o Messages(h, u) \o NotStarted(h, u) \o Unknown(h, u)
                    \o CancelRetries(h) \o EndCompactions(h) \o EndSubagents(h) \o EndTurn(u)
         IN  AppendBatch(u, b).ok /\ ~IsOpen(AppendBatch(u, b).v)
<1> DEFINE g1 == Decisions(h)
           g2 == Messages(h, u)
           g3 == NotStarted(h, u)
           g4 == Unknown(h, u)
           g5 == CancelRetries(h)
           g6 == EndCompactions(h)
           g7 == EndSubagents(h)
           g8 == EndTurn(u)
           x1 == AppendBatch(u, g1).v
           x2 == AppendBatch(x1, g2).v
           x3 == AppendBatch(x2, g3).v
           x4 == AppendBatch(x3, g4).v
           x5 == AppendBatch(x4, g5).v
           x6 == AppendBatch(x5, g6).v
           x7 == AppendBatch(x6, g7).v
           F1 == Range(g1)
           F2 == F1 \cup Range(g2)
           F3 == F2 \cup Range(g3)
           F4 == F3 \cup Range(g4)
           F5 == F4 \cup Range(g5)
           F6 == F5 \cup Range(g6)
           F7 == F6 \cup Range(g7)
<1>0. IsSeq(h)
  BY DEF IsHistory
<1>1. /\ Brings(E, u, g1, F1, x1)
      /\ \A e \in F1 : e.type = "approval/decision"
      /\ \A a \in u.pendingApprovals : \E e \in F1 :
           e.type = "approval/decision" /\ e.approvalId = a
  BY <1>0, DecisionsFit DEF Brings
<1> DEFINE D1 == E \cup F1
           D2 == E \cup F2
           D3 == E \cup F3
           D4 == E \cup F4
           D5 == E \cup F5
           D6 == E \cup F6
<1> HIDE DEF g1, g2, g3, g4, g5, g6, g7, g8
<1> HIDE DEF x1, F1
<1>2. /\ After(E, u, F1, x1) /\ Learned(D1, x1) /\ E \subseteq D1 /\ D1 = E \cup F1
  BY <1>1, BroughtFacts
<1> HIDE DEF D1
<1>3. Accepted(D1, x1, g2) /\ \A e \in Range(g2) : e.type = "assistant/message"
  BY <1>0, <1>2, MessagesFit DEF g2
<1>4. Brings(E, u, g1 \o g2, F2, x2)
  BY <1>1, <1>2, <1>3, BringsFurther
<1>5. \A e \in F2 : e.type \in {"approval/decision", "assistant/message"}
  BY <1>1, <1>3
<1>6. F1 \subseteq F2
  OBVIOUS
<1> HIDE DEF x2, F2
<1>7. /\ After(E, u, F2, x2) /\ Learned(D2, x2) /\ E \subseteq D2 /\ D2 = E \cup F2
      /\ x2.openTurn = u.openTurn /\ x2.openStep = u.openStep
  BY <1>4, BroughtFacts
<1>8. x2.pendingApprovals = {}
  <2>1. /\ \A e \in F2 : e.type # "approval/request"
        /\ \A a \in u.pendingApprovals : \E e \in F2 :
             e.type = "approval/decision" /\ e.approvalId = a
    BY <1>1, <1>5, <1>6
  <2> QED BY <1>7, <2>1, NothingPending
<1>9. \A e \in D2 \ E : e.type \notin {"tool/call", "tool/result"}
  BY <1>5, <1>7
<1> HIDE DEF D2
<1>10. /\ Accepted(D2, x2, g3)
       /\ \A e \in Range(g3) : /\ e.type \in {"tool/call", "tool/result"}
                               /\ e.callId \notin DOMAIN u.calls
       /\ \A e \in Range(g3) : e.type = "tool/call" =>
            \E d \in Range(g3) : d.type = "tool/result" /\ d.callId = e.callId
  BY <1>7, <1>8, <1>9, NotStartedFits DEF g3
<1>11. Brings(E, u, g1 \o g2 \o g3, F3, x3)
  BY <1>4, <1>7, <1>10, BringsFurther
<1>12. /\ \A e \in F3 : e.type \in {"approval/decision", "assistant/message", "tool/call",
                                    "tool/result"}
       /\ \A e \in F3 : e.type = "tool/result" => e.callId \notin DOMAIN u.calls
       /\ \A e \in F3 : e.type = "tool/call" =>
            \E d \in F3 : d.type = "tool/result" /\ d.callId = e.callId
       /\ F1 \subseteq F3
  BY <1>5, <1>6, <1>10
<1> HIDE DEF x3, F3
<1>13. /\ After(E, u, F3, x3) /\ Learned(D3, x3) /\ E \subseteq D3 /\ D3 = E \cup F3
  BY <1>11, BroughtFacts
<1>14. x3.pendingApprovals = {}
  <2>1. /\ \A e \in F3 : e.type # "approval/request"
        /\ \A a \in u.pendingApprovals : \E e \in F3 :
             e.type = "approval/decision" /\ e.approvalId = a
    BY <1>1, <1>12
  <2> QED BY <1>13, <2>1, NothingPending
<1>15. \A e \in D3 \ E : e.type = "tool/result" => e.callId \notin DOMAIN u.calls
  BY <1>12, <1>13
<1> HIDE DEF D3
<1>16. /\ Accepted(D3, x3, g4)
       /\ \A e \in Range(g4) : e.type = "tool/result"
       /\ \A c \in u.unresolved : \E e \in Range(g4) : e.type = "tool/result" /\ e.callId = c
  BY <1>13, <1>14, <1>15, UnknownFits DEF g4
<1>17. Brings(E, u, g1 \o g2 \o g3 \o g4, F4, x4)
  BY <1>11, <1>13, <1>16, BringsFurther
<1>18. /\ \A e \in F4 : e.type \in {"approval/decision", "assistant/message", "tool/call",
                                    "tool/result"}
       /\ \A e \in F4 : e.type = "tool/call" =>
            \E d \in F4 : d.type = "tool/result" /\ d.callId = e.callId
       /\ \A c \in u.unresolved : \E e \in F4 : e.type = "tool/result" /\ e.callId = c
       /\ F1 \subseteq F4
  BY <1>12, <1>16
<1> HIDE DEF x4, F4
<1>19. /\ Learned(D4, x4) /\ E \subseteq D4 /\ D4 = E \cup F4
  BY <1>17, BroughtFacts
<1>20. \A e \in D4 \ E : \A t : ~Closes(e, t)
  BY <1>18, <1>19 DEF Closes
<1> HIDE DEF D4
<1>21. /\ Accepted(D4, x4, g5)
       /\ \A e \in Range(g5) : e.type = "retry/cancelled"
       /\ \A t \in OpenRetries(h) : \E e \in Range(g5) : Closes(e, t)
  BY <1>0, <1>19, <1>20, CancelledRetriesFit DEF g5
<1>22. Brings(E, u, g1 \o g2 \o g3 \o g4 \o g5, F5, x5)
  BY <1>17, <1>19, <1>21, BringsFurther
<1>23. /\ \A e \in F5 : e.type \in {"approval/decision", "assistant/message", "tool/call",
                                    "tool/result", "retry/cancelled"}
       /\ \A t \in OpenRetries(h) : \E e \in F5 : Closes(e, t)
       /\ F4 \subseteq F5 /\ F5 = F4 \cup Range(g5)
  BY <1>18, <1>21
<1> HIDE DEF x5, F5
<1>24. /\ Learned(D5, x5) /\ D5 = E \cup F5
       /\ (\A e \in F5 : e.type # "compaction/end") => DOMAIN x5.compactions = DOMAIN u.compactions
  BY <1>22, BroughtFacts
<1>25. DOMAIN x5.compactions = DOMAIN u.compactions
  BY <1>23, <1>24
<1> HIDE DEF D5
<1>26. /\ Accepted(D5, x5, g6)
       /\ \A e \in Range(g6) : e.type = "compaction/end"
       /\ \A k \in DOMAIN u.compactions : \E e \in Range(g6) :
            e.type = "compaction/end" /\ e.compactionId = k
  BY <1>0, <1>24, <1>25, EndedCompactionsFit DEF g6
<1>27. Brings(E, u, g1 \o g2 \o g3 \o g4 \o g5 \o g6, F6, x6)
  BY <1>22, <1>24, <1>26, BringsFurther
<1>28. /\ \A e \in F6 : e.type \in {"approval/decision", "assistant/message", "tool/call",
                                    "tool/result", "retry/cancelled", "compaction/end"}
       /\ F6 = F5 \cup Range(g6)
  BY <1>23, <1>26
<1> HIDE DEF x6, F6
<1>29. /\ Learned(D6, x6) /\ D6 = E \cup F6
       /\ (\A e \in F6 : e.type # "subagent/end") => x6.subagents = u.subagents
  BY <1>27, BroughtFacts
<1>30. x6.subagents = u.subagents
  BY <1>28, <1>29
<1> HIDE DEF D6
<1>31. /\ Accepted(D6, x6, g7)
       /\ \A e \in Range(g7) : e.type = "subagent/end"
       /\ \A k \in u.subagents : \E e \in Range(g7) : e.type = "subagent/end" /\ e.child = k
  BY <1>0, <1>29, <1>30, EndedSubagentsFit DEF g7
<1> DEFINE b == g1 \o g2 \o g3 \o g4 \o g5 \o g6 \o g7
<1>32. Brings(E, u, b, F7, x7)
  BY <1>27, <1>29, <1>31, BringsFurther
<1>33. F7 = F6 \cup Range(g7)
  OBVIOUS
<1> HIDE DEF x7, F7, b
<1>34. /\ After(E, u, F7, x7) /\ x7.openTurn = u.openTurn /\ x7.openStep = u.openStep
  BY <1>32 DEF Brings, Accepted, After
<1>35. Quiet(x7)
  <2>1. F1 \subseteq F7 /\ F4 \subseteq F7 /\ F5 \subseteq F7
    BY <1>18, <1>23, <1>28, <1>33
  <2>2. \A e \in F7 : e.type \notin {"approval/request", "retry/scheduled"}
    BY <1>28, <1>31, <1>33
  <2>3. \A a \in u.pendingApprovals : \E e \in F7 :
          e.type = "approval/decision" /\ e.approvalId = a
    BY <1>1, <2>1
  <2>4. \A e \in F7 : e.type = "tool/call" =>
          \E d \in F7 : d.type = "tool/result" /\ d.callId = e.callId
    <3>1. \A e \in F7 : e.type = "tool/call" => e \in F4
      BY <1>21, <1>23, <1>26, <1>28, <1>31, <1>33
    <3> QED BY <1>18, <2>1, <3>1
  <2>5. \A c \in u.unresolved : \E e \in F7 : e.type = "tool/result" /\ e.callId = c
    BY <1>18, <2>1
  <2>6. \A t \in OpenRetries(h) : \E e \in F7 : Closes(e, t)
    BY <1>23, <2>1
  <2>7. \A k \in DOMAIN u.compactions : \E e \in F7 :
          e.type = "compaction/end" /\ e.compactionId = k
    BY <1>26, <1>28, <1>33
  <2>8. \A k \in u.subagents : \E e \in F7 : e.type = "subagent/end" /\ e.child = k
    BY <1>31, <1>33
  <2> QED BY <1>34, <2>2, <2>3, <2>4, <2>5, <2>6, <2>7, <2>8, GroupsClose
<1>36. /\ IsSeq(g8) /\ AppendBatch(x7, g8).ok /\ ~IsOpen(AppendBatch(x7, g8).v)
  BY <1>34, <1>35, QuietTurnEnds DEF g8
<1>37. AppendBatch(u, b).ok /\ x7 = AppendBatch(u, b).v /\ IsSeq(b)
  BY <1>32 DEF Brings, Accepted
<1>38. AppendBatch(u, b \o g8).ok /\ AppendBatch(u, b \o g8).v = AppendBatch(x7, g8).v
  <2> DEFINE S == Range(b) \cup Range(g8)
  <2>1. b \in Seq(S) /\ g8 \in Seq(S)
    BY <1>36, <1>37 DEF IsSeq
  <2> HIDE DEF S
  <2> QED BY <1>36, <1>37, <2>1, ValidatedInParts
<1> QED BY <1>36, <1>38 DEF b, g1, g2, g3, g4, g5, g6, g7, g8

\* Wherever a crash, or a repair cut short by a crash, leaves a history, the repair
\* planned from its events is accepted by the validator and leaves nothing open,
\* unless the turn is suspended.
THEOREM RepairClosesTail == Spec => []RepairCloses
<1>1. ASSUME IInv PROVE AppendBatch(v, Plan(hist)).ok
                        /\ (v.suspension = None => ~IsOpen(AppendBatch(v, Plan(hist)).v))
  <2>1. /\ IsHistory(hist) /\ Learned(Range(hist), v) /\ NestedKnown(hist, DOMAIN hist, v)
        /\ IsFiniteSet(v.unresolved) /\ v = Replay(hist).v
    BY <1>1, ValidatorIsSound DEF IInv
  <2> DEFINE b == Decisions(hist) \o Messages(hist, v) \o NotStarted(hist, v)
                    \o Unknown(hist, v) \o CancelRetries(hist) \o EndCompactions(hist)
                    \o EndSubagents(hist) \o EndTurn(v)
  <2>2. Plan(hist) = IF v.suspension # None \/ ~IsOpen(v) THEN <<>> ELSE b
    <3> DEFINE w == Replay(hist).v
    <3>1. w = v
      BY <2>1
    <3>2. Plan(hist) =
            IF w.suspension # None \/ ~IsOpen(w) THEN <<>>
            ELSE Decisions(hist) \o Messages(hist, w) \o NotStarted(hist, w)
                   \o Unknown(hist, w) \o CancelRetries(hist) \o EndCompactions(hist)
                   \o EndSubagents(hist) \o EndTurn(w)
      BY DEF Plan
    <3> HIDE DEF w
    <3> QED BY <3>1, <3>2
  <2>3. CASE v.suspension # None \/ ~IsOpen(v)
    BY <2>2, <2>3, NothingAppended
  <2>4. CASE ~(v.suspension # None \/ ~IsOpen(v))
    <3>1. AppendBatch(v, b).ok /\ ~IsOpen(AppendBatch(v, b).v)
      BY <2>1, <2>4, RepairEnds
    <3> HIDE DEF b
    <3>2. Plan(hist) = b
      BY <2>2, <2>4
    <3> QED BY <3>1, <3>2
  <2> QED BY <2>3, <2>4
<1>2. IInv => RepairCloses
  BY <1>1 DEF RepairCloses
<1> QED BY <1>2, InitIsGood, StepIsGood, PTL DEF Spec
=============================================================================
