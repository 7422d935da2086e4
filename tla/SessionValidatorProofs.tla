------------------------ MODULE SessionValidatorProofs ------------------------
(***************************************************************************)
(* Facts about SessionValidator that hold of every history, whatever its   *)
(* events carry: what one event changes is what its case remembered, a     *)
(* refused batch leaves no trace, and a history validated in parts is the  *)
(* history validated at once.                                              *)
(*                                                                         *)
(* The loop of append() is a recursive function.  What it computes is      *)
(* proved by the least number principle: the set of the positions at which *)
(* a statement fails has no least element, so it is empty.                 *)
(***************************************************************************)
EXTENDS SessionValidator, FiniteSetTheorems, WellFoundedInduction, TLAPS

Fields == {"count", "openTurn", "openStep", "lastTurn", "lastStep", "requests", "calls",
           "approvals", "retries", "unresolved", "pendingApprovals", "pendingRetries",
           "compactions", "subagents", "suspension", "repairedThrough"}

Maps == {"requests", "calls", "approvals", "retries", "compactions"}

IsMap(f) == f = [k \in DOMAIN f |-> f[k]]

\* The validator's variables, and five of them are maps.
IsValidator(v) ==
  /\ v = [f \in Fields |-> v[f]]
  /\ IsMap(v.requests) /\ IsMap(v.calls) /\ IsMap(v.approvals) /\ IsMap(v.retries)
  /\ IsMap(v.compactions)

\* The maps f and g, or the sets A and B, called name agree but for the entries U.
SameBut(f, g, name, U) ==
  \A k : <<name, k>> \notin U =>
    (k \in DOMAIN f <=> k \in DOMAIN g) /\ (k \in DOMAIN f => g[k] = f[k])

SameSetBut(A, B, name, U) == \A k : <<name, k>> \notin U => (k \in A <=> k \in B)

\* w holds what v holds, but for the entries U.
Kept(v, w, U) ==
  /\ \A n \in Maps : SameBut(v[n], w[n], n, U)
  /\ \A n \in SetContainers : SameSetBut(v[n], w[n], n, U)

------------------------------------------------------------------------------
(* Sets in sequences. *)

\* The elements of a finite set can be put in a sequence, each of them once.
LEMMA SetToSeqEnumerates ==
  ASSUME NEW S, IsFiniteSet(S)
  PROVE  /\ SetToSeq(S) \in Seq(S)
         /\ \A i, j \in DOMAIN SetToSeq(S) : SetToSeq(S)[i] = SetToSeq(S)[j] => i = j
         /\ \A x \in S : \E i \in DOMAIN SetToSeq(S) : SetToSeq(S)[i] = x
<1> DEFINE n == Cardinality(S)
           s == SetToSeq(S)
<1>1. n \in Nat /\ ExistsBijection(1 .. n, S)
  BY FS_CardinalityType
<1>2. PICK f : f \in Bijection(1 .. n, S)
  BY <1>1 DEF ExistsBijection
<1>3. f \in [1 .. n -> S] /\ IsInjective(f)
  BY <1>2 DEF Bijection, Injection
<1>4. s \in [1 .. n -> S] /\ IsInjective(s)
  BY <1>3 DEF SetToSeq
<1>5. s \in Injection(1 .. n, S)
  BY <1>4 DEF Injection
<1>6. s \in Surjection(1 .. n, S)
  <2>1. IsFiniteSet(1 .. n) /\ Cardinality(1 .. n) = n
    BY <1>1, FS_Interval
  <2> QED BY <1>5, <2>1, FS_Injection
<1> HIDE DEF s, n
<1>7. s \in Seq(S) /\ DOMAIN s = 1 .. n
  BY <1>1, <1>4
<1>8. \A x \in S : \E i \in DOMAIN s : s[i] = x
  BY <1>6, <1>7 DEF Surjection
<1>9. \A i, j \in DOMAIN s : s[i] = s[j] => i = j
  BY <1>4 DEF IsInjective
<1> QED BY <1>7, <1>8, <1>9 DEF s

------------------------------------------------------------------------------
(* Induction over positions. *)

Less == {p \in Nat \X Nat : p[1] < p[2]}

\* The order of the natural numbers has no infinite descent.
LEMMA LessIsWellFounded == IsWellFoundedOn(Less, Nat)
BY NatLessThanWellFounded DEF OpToRel, Less

\* A set of numbers that is not empty has a least one.
LEMMA Least ==
  ASSUME NEW T \in SUBSET Nat, T # {}
  PROVE  \E x \in T : \A y \in T : x <= y
<1>1. PICK x \in T : \A y \in T : ~(<<y, x>> \in Less)
  BY LessIsWellFounded, WFMin
<1>2. \A y \in T : ~(y < x)
  BY <1>1 DEF Less
<1> QED BY <1>2

------------------------------------------------------------------------------
(* What an event changes. *)

\* The events of a turn change no container.
LEMMA TurnTouches ==
  ASSUME NEW v, NEW e, IsValidator(v), e.type \in TurnTypes
  PROVE  IsValidator(ApplyTurn(v, e)) /\ Kept(v, ApplyTurn(v, e), Remembers(e))
<1>1. IsValidator(ApplyTurn(v, e))
  BY DEF IsValidator, ApplyTurn, TurnTypes, Fields, IsMap
<1>2. Remembers(e) = {}
  BY DEF Remembers, TurnTypes
<1>3. \A n \in Maps \cup SetContainers : ApplyTurn(v, e)[n] = v[n]
  BY DEF IsValidator, ApplyTurn, TurnTypes, Fields, Maps, SetContainers
<1> QED BY <1>1, <1>3 DEF Kept, SameBut, SameSetBut

\* An event that leaves the maps and the sets alone.
LEMMA NothingTouched ==
  ASSUME NEW v, NEW w, NEW U, \A n \in Maps \cup SetContainers : w[n] = v[n]
  PROVE  Kept(v, w, U)
BY DEF Kept, SameBut, SameSetBut

\* Nor do the events of a step.
LEMMA StepTouches ==
  ASSUME NEW v, NEW e, IsValidator(v), e.type \in StepTypes
  PROVE  IsValidator(ApplyStep(v, e)) /\ Kept(v, ApplyStep(v, e), Remembers(e))
<1>1. IsValidator(ApplyStep(v, e))
  BY DEF IsValidator, ApplyStep, StepTypes, Fields, IsMap
<1>2. \A n \in Maps \cup SetContainers : ApplyStep(v, e)[n] = v[n]
  BY DEF IsValidator, ApplyStep, StepTypes, Fields, Maps, SetContainers
<1> QED BY <1>1, <1>2, NothingTouched

\* A key is put into a map, or the value of one is replaced.
LEMMA PutTouches ==
  ASSUME NEW f, IsMap(f), NEW k, NEW x, NEW name, NEW U, <<name, k>> \in U
  PROVE  /\ IsMap(Put(f, k, x)) /\ SameBut(f, Put(f, k, x), name, U)
         /\ IsMap([f EXCEPT ![k] = x]) /\ SameBut(f, [f EXCEPT ![k] = x], name, U)
BY DEF IsMap, Put, SameBut


\* It is enough to look at the containers that an event changes.
LEMMA OthersStay ==
  ASSUME NEW v, NEW w, NEW U, IsValidator(v), w = [f \in Fields |-> w[f]],
         \A n \in Maps : w[n] = v[n] \/ (IsMap(w[n]) /\ SameBut(v[n], w[n], n, U)),
         \A n \in SetContainers : w[n] = v[n] \/ SameSetBut(v[n], w[n], n, U)
  PROVE  IsValidator(w) /\ Kept(v, w, U)
<1>1. \A n \in Maps : IsMap(w[n]) /\ SameBut(v[n], w[n], n, U)
  BY DEF IsValidator, Maps, SameBut
<1>2. \A n \in SetContainers : SameSetBut(v[n], w[n], n, U)
  BY DEF SameSetBut
<1> QED BY <1>1, <1>2 DEF IsValidator, Kept, Maps

\* The events of a request change the entries they remember.
LEMMA RequestTouches ==
  ASSUME NEW v, NEW e, IsValidator(v), e.type \in RequestTypes
  PROVE  IsValidator(ApplyRequest(v, e)) /\ Kept(v, ApplyRequest(v, e), Remembers(e))
<1> DEFINE w == ApplyRequest(v, e)
<1>1. CASE e.type = "request/header"
  <2> DEFINE x == [turn |-> e.turn, step |-> e.step, lastAttempt |-> 0]
             f == Put(v.requests, e.requestId, x)
  <2>1. w = [v EXCEPT !.requests = f]
    BY <1>1 DEF ApplyRequest
  <2>2. IsMap(f) /\ SameBut(v.requests, f, "requests", Remembers(e))
    <3>1. <<"requests", e.requestId>> \in Remembers(e)
      BY <1>1 DEF Remembers
    <3> QED BY <3>1, PutTouches DEF IsValidator
  <2> HIDE DEF f, w
  <2>3. /\ w = [n \in Fields |-> w[n]] /\ w.requests = f
        /\ \A n \in (Maps \cup SetContainers) \ {"requests"} : w[n] = v[n]
    BY <2>1 DEF IsValidator, Fields, Maps, SetContainers
  <2>4. IsValidator(w) /\ Kept(v, w, Remembers(e))
    BY <2>2, <2>3, OthersStay DEF Maps, SetContainers
  <2> QED BY <2>4 DEF w
<1>2. CASE e.type = "request/attempt"
  <2> DEFINE U == Remembers(e)
             f == [v.requests EXCEPT ![e.requestId].lastAttempt = e.attempt]
             g == IF e.retryId = None THEN v.retries
                  ELSE [v.retries EXCEPT ![e.retryId].state = "consumed"]
             S == IF e.retryId = None THEN v.pendingRetries ELSE v.pendingRetries \ {e.retryId}
  <2>1. w = [v EXCEPT !.requests = f, !.retries = g, !.pendingRetries = S]
    BY <1>2 DEF ApplyRequest, IsValidator, Fields
  <2>2. IsMap(f) /\ SameBut(v.requests, f, "requests", U)
    <3>1. <<"requests", e.requestId>> \in Remembers(e)
      BY <1>2 DEF Remembers, AttemptRemembers
    <3> QED BY <3>1, PutTouches DEF IsValidator
  <2>3. /\ IsMap(g) /\ SameBut(v.retries, g, "retries", U)
        /\ SameSetBut(v.pendingRetries, S, "pendingRetries", U)
    <3>1. CASE e.retryId = None
      BY <3>1 DEF IsValidator, SameBut, SameSetBut
    <3>2. CASE e.retryId # None
      <4>1. /\ <<"retries", e.retryId>> \in Remembers(e)
            /\ <<"pendingRetries", e.retryId>> \in Remembers(e)
        BY <1>2, <3>2 DEF Remembers, AttemptRemembers
      <4>2. IsMap(g) /\ SameBut(v.retries, g, "retries", U)
        BY <3>2, <4>1, PutTouches DEF IsValidator
      <4> QED BY <3>2, <4>1, <4>2 DEF SameSetBut
    <3> QED BY <3>1, <3>2
  <2> HIDE DEF f, g, S, w
  <2>4. /\ w = [n \in Fields |-> w[n]]
        /\ w.requests = f /\ w.retries = g /\ w.pendingRetries = S
        /\ \A n \in (Maps \cup SetContainers) \ {"requests", "retries", "pendingRetries"} :
             w[n] = v[n]
    BY <2>1 DEF IsValidator, Fields, Maps, SetContainers
  <2>5. IsValidator(w) /\ Kept(v, w, Remembers(e))
    BY <2>2, <2>3, <2>4, OthersStay DEF Maps, SetContainers
  <2> QED BY <2>5 DEF w
<1>3. CASE e.type \notin {"request/header", "request/attempt"}
  BY <1>3, NothingTouched DEF ApplyRequest
<1> QED BY <1>1, <1>2, <1>3

\* So do the events of tool calls and approvals.
LEMMA ToolTouches ==
  ASSUME NEW v, NEW e, IsValidator(v), e.type \in ToolTypes
  PROVE  IsValidator(ApplyTool(v, e)) /\ Kept(v, ApplyTool(v, e), Remembers(e))
<1> DEFINE w == ApplyTool(v, e)
           U == Remembers(e)
<1>1. CASE e.type = "tool/call"
  <2> DEFINE x == [turn |-> e.turn, step |-> e.step, approvalId |-> None,
                   approvalDecided |-> FALSE, result |-> FALSE]
             f == Put(v.calls, e.callId, x)
             S == v.unresolved \cup {e.callId}
  <2>1. w = [v EXCEPT !.calls = f, !.unresolved = S]
    BY <1>1 DEF ApplyTool
  <2>2. <<"calls", e.callId>> \in U /\ <<"unresolved", e.callId>> \in U
    BY <1>1 DEF Remembers
  <2>3. /\ IsMap(f) /\ SameBut(v.calls, f, "calls", U)
        /\ SameSetBut(v.unresolved, S, "unresolved", U)
    <3>1. IsMap(f) /\ SameBut(v.calls, f, "calls", U)
      BY <2>2, PutTouches DEF IsValidator
    <3> QED BY <2>2, <3>1 DEF SameSetBut
  <2> HIDE DEF f, S, w, U
  <2>4. /\ w = [n \in Fields |-> w[n]] /\ w.calls = f /\ w.unresolved = S
        /\ \A n \in (Maps \cup SetContainers) \ {"calls", "unresolved"} : w[n] = v[n]
    BY <2>1 DEF IsValidator, Fields, Maps, SetContainers
  <2>5. IsValidator(w) /\ Kept(v, w, U)
    BY <2>3, <2>4, OthersStay DEF Maps, SetContainers
  <2> QED BY <2>5 DEF w, U
<1>2. CASE e.type = "approval/request"
  <2> DEFINE f == Put(v.approvals, e.approvalId, e.callId)
             g == [v.calls EXCEPT ![e.callId].approvalId = e.approvalId]
             S == v.pendingApprovals \cup {e.approvalId}
  <2>1. w = [v EXCEPT !.approvals = f, !.calls = g, !.pendingApprovals = S]
    BY <1>2 DEF ApplyTool, IsValidator, Fields
  <2>2. /\ <<"approvals", e.approvalId>> \in U /\ <<"calls", e.callId>> \in U
        /\ <<"pendingApprovals", e.approvalId>> \in U
    BY <1>2 DEF Remembers
  <2>3. IsMap(f) /\ SameBut(v.approvals, f, "approvals", U)
    BY <2>2, PutTouches DEF IsValidator
  <2>4. IsMap(g) /\ SameBut(v.calls, g, "calls", U)
    BY <2>2, PutTouches DEF IsValidator
  <2>5. SameSetBut(v.pendingApprovals, S, "pendingApprovals", U)
    BY <2>2 DEF SameSetBut
  <2> HIDE DEF f, g, S, w, U
  <2>6. /\ w = [n \in Fields |-> w[n]]
        /\ w.approvals = f /\ w.calls = g /\ w.pendingApprovals = S
        /\ \A n \in (Maps \cup SetContainers) \ {"approvals", "calls", "pendingApprovals"} :
             w[n] = v[n]
    BY <2>1 DEF IsValidator, Fields, Maps, SetContainers
  <2>7. IsValidator(w) /\ Kept(v, w, U)
    BY <2>3, <2>4, <2>5, <2>6, OthersStay DEF Maps, SetContainers
  <2> QED BY <2>7 DEF w, U
<1>3. CASE e.type = "approval/decision"
  <2> DEFINE g == [v.calls EXCEPT ![e.callId].approvalDecided = TRUE]
             S == v.pendingApprovals \ {e.approvalId}
  <2>1. w = [v EXCEPT !.calls = g, !.pendingApprovals = S]
    BY <1>3 DEF ApplyTool, IsValidator, Fields
  <2>2. <<"calls", e.callId>> \in U /\ <<"pendingApprovals", e.approvalId>> \in U
    BY <1>3 DEF Remembers
  <2>3. IsMap(g) /\ SameBut(v.calls, g, "calls", U)
    BY <2>2, PutTouches DEF IsValidator
  <2>4. SameSetBut(v.pendingApprovals, S, "pendingApprovals", U)
    BY <2>2 DEF SameSetBut
  <2> HIDE DEF g, S, w, U
  <2>5. /\ w = [n \in Fields |-> w[n]] /\ w.calls = g /\ w.pendingApprovals = S
        /\ \A n \in (Maps \cup SetContainers) \ {"calls", "pendingApprovals"} : w[n] = v[n]
    BY <2>1 DEF IsValidator, Fields, Maps, SetContainers
  <2>6. IsValidator(w) /\ Kept(v, w, U)
    BY <2>3, <2>4, <2>5, OthersStay DEF Maps, SetContainers
  <2> QED BY <2>6 DEF w, U
<1>4. CASE e.type = "tool/result"
  <2> DEFINE g == [v.calls EXCEPT ![e.callId].result = TRUE]
             S == v.unresolved \ {e.callId}
             t == IF e.recovered # None THEN v.count ELSE v.repairedThrough
  <2>1. w = [v EXCEPT !.calls = g, !.unresolved = S, !.repairedThrough = t]
    BY <1>4 DEF ApplyTool, IsValidator, Fields
  <2>2. <<"calls", e.callId>> \in U /\ <<"unresolved", e.callId>> \in U
    BY <1>4 DEF Remembers
  <2>3. IsMap(g) /\ SameBut(v.calls, g, "calls", U)
    BY <2>2, PutTouches DEF IsValidator
  <2>4. SameSetBut(v.unresolved, S, "unresolved", U)
    BY <2>2 DEF SameSetBut
  <2> HIDE DEF g, S, w, U, t
  <2>5. /\ w = [n \in Fields |-> w[n]] /\ w.calls = g /\ w.unresolved = S
        /\ \A n \in (Maps \cup SetContainers) \ {"calls", "unresolved"} : w[n] = v[n]
    BY <2>1 DEF IsValidator, Fields, Maps, SetContainers
  <2>6. IsValidator(w) /\ Kept(v, w, U)
    BY <2>3, <2>4, <2>5, OthersStay DEF Maps, SetContainers
  <2> QED BY <2>6 DEF w, U
<1> QED BY <1>1, <1>2, <1>3, <1>4 DEF ToolTypes

\* So do the events of retries.
LEMMA RetryTouches ==
  ASSUME NEW v, NEW e, IsValidator(v), e.type \in RetryTypes
  PROVE  IsValidator(ApplyRetry(v, e)) /\ Kept(v, ApplyRetry(v, e), Remembers(e))
<1> DEFINE w == ApplyRetry(v, e)
           U == Remembers(e)
           x == [requestId |-> e.requestId, nextAttempt |-> e.next, state |-> "scheduled"]
           f == CASE e.type = "retry/scheduled" -> Put(v.retries, e.retryId, x)
                  [] e.type = "retry/started"   -> [v.retries EXCEPT ![e.retryId].state = "started"]
                  [] e.type = "retry/cancelled" -> [v.retries EXCEPT ![e.retryId].state = "cancelled"]
           S == CASE e.type = "retry/scheduled" -> v.pendingRetries \cup {e.retryId}
                  [] e.type = "retry/started"   -> v.pendingRetries
                  [] e.type = "retry/cancelled" -> v.pendingRetries \ {e.retryId}
<1>1. w = [n \in Fields |-> w[n]] /\ w.retries = f /\ w.pendingRetries = S
  BY DEF ApplyRetry, RetryTypes, IsValidator, Fields
<1>2. \A n \in (Maps \cup SetContainers) \ {"retries", "pendingRetries"} : w[n] = v[n]
  BY DEF ApplyRetry, RetryTypes, IsValidator, Fields, Maps, SetContainers
<1>3. IsMap(f) /\ SameBut(v.retries, f, "retries", U)
  <2>1. <<"retries", e.retryId>> \in U
    BY DEF Remembers, RetryTypes
  <2>2. IsMap(v.retries)
    BY DEF IsValidator
  <2> HIDE DEF U, x
  <2>3. /\ IsMap(Put(v.retries, e.retryId, x))
        /\ SameBut(v.retries, Put(v.retries, e.retryId, x), "retries", U)
    BY <2>1, <2>2, PutTouches
  <2>4. \A s : /\ IsMap([v.retries EXCEPT ![e.retryId].state = s])
               /\ SameBut(v.retries, [v.retries EXCEPT ![e.retryId].state = s], "retries", U)
    BY <2>1, <2>2, PutTouches
  <2> QED BY <2>3, <2>4 DEF RetryTypes
<1>4. SameSetBut(v.pendingRetries, S, "pendingRetries", U)
  <2>1. e.type # "retry/started" => <<"pendingRetries", e.retryId>> \in U
    BY DEF Remembers, RetryTypes
  <2> HIDE DEF U
  <2> QED BY <2>1 DEF RetryTypes, SameSetBut
<1> HIDE DEF w, U, x, f, S
<1>5. IsValidator(w) /\ Kept(v, w, U)
  BY <1>1, <1>2, <1>3, <1>4, OthersStay DEF Maps, SetContainers
<1> QED BY <1>5 DEF w, U

\* So do the events of compactions and children.
LEMMA NestedTouches ==
  ASSUME NEW v, NEW e, IsValidator(v), e.type \in NestedTypes
  PROVE  IsValidator(ApplyNested(v, e)) /\ Kept(v, ApplyNested(v, e), Remembers(e))
<1> DEFINE w == ApplyNested(v, e)
           U == Remembers(e)
<1>1. CASE e.type \in {"compaction/start", "compaction/summary", "compaction/message",
                       "compaction/end"}
  <2> DEFINE f == CASE e.type = "compaction/start" -> Put(v.compactions, e.compactionId, "started")
                    [] e.type = "compaction/summary" ->
                         [v.compactions EXCEPT ![e.compactionId] = "summarized"]
                    [] e.type = "compaction/message" ->
                         [v.compactions EXCEPT ![e.compactionId] = "surfaced"]
                    [] e.type = "compaction/end" ->
                         [k \in DOMAIN v.compactions \ {e.compactionId} |-> v.compactions[k]]
  <2>1. w = [n \in Fields |-> w[n]] /\ w.compactions = f
    BY <1>1 DEF ApplyNested, IsValidator, Fields
  <2>2. \A n \in (Maps \cup SetContainers) \ {"compactions"} : w[n] = v[n]
    BY <1>1 DEF ApplyNested, IsValidator, Fields, Maps, SetContainers
  <2>3. IsMap(f) /\ SameBut(v.compactions, f, "compactions", U)
    <3>1. <<"compactions", e.compactionId>> \in U
      BY <1>1 DEF Remembers
    <3>2. IsMap(v.compactions)
      BY DEF IsValidator
    <3> HIDE DEF U
    <3>3. CASE e.type = "compaction/end"
      BY <3>1, <3>2, <3>3 DEF IsMap, SameBut
    <3>4. CASE e.type # "compaction/end"
      BY <1>1, <3>1, <3>2, <3>4, PutTouches
    <3> QED BY <3>3, <3>4
  <2> HIDE DEF w, U, f
  <2>4. IsValidator(w) /\ Kept(v, w, U)
    BY <2>1, <2>2, <2>3, OthersStay DEF Maps, SetContainers
  <2> QED BY <2>4 DEF w, U
<1>2. CASE e.type \in {"subagent/start", "subagent/end"}
  <2> DEFINE S == IF e.type = "subagent/start" THEN v.subagents \cup {e.child}
                  ELSE v.subagents \ {e.child}
  <2>1. w = [n \in Fields |-> w[n]] /\ w.subagents = S
    BY <1>2 DEF ApplyNested, IsValidator, Fields
  <2>2. \A n \in (Maps \cup SetContainers) \ {"subagents"} : w[n] = v[n]
    BY <1>2 DEF ApplyNested, IsValidator, Fields, Maps, SetContainers
  <2>3. SameSetBut(v.subagents, S, "subagents", U)
    <3>1. <<"subagents", e.child>> \in U
      BY <1>2 DEF Remembers
    <3> QED BY <3>1 DEF SameSetBut
  <2> HIDE DEF w, U, S
  <2>4. IsValidator(w) /\ Kept(v, w, U)
    BY <2>1, <2>2, <2>3, OthersStay DEF Maps, SetContainers
  <2> QED BY <2>4 DEF w, U
<1>3. CASE e.type = "subagent/report"
  BY <1>3, NothingTouched DEF ApplyNested
<1> QED BY <1>1, <1>2, <1>3 DEF NestedTypes

\* The entries an event changes are among those its case remembers.
LEMMA EventTouches ==
  ASSUME NEW v, NEW e, IsValidator(v)
  PROVE  IsValidator(Apply(v, e)) /\ Kept(v, Apply(v, e), Remembers(e))
<1> DEFINE w == CASE e.type \in TurnTypes    -> ApplyTurn(v, e)
                  [] e.type \in StepTypes    -> ApplyStep(v, e)
                  [] e.type \in RequestTypes -> ApplyRequest(v, e)
                  [] e.type \in ToolTypes    -> ApplyTool(v, e)
                  [] e.type \in RetryTypes   -> ApplyRetry(v, e)
                  [] e.type \in NestedTypes  -> ApplyNested(v, e)
                  [] OTHER -> v
<1>1. IsValidator(w) /\ Kept(v, w, Remembers(e))
  <2>1. Kept(v, v, Remembers(e))
    BY NothingTouched
  <2> QED BY <2>1, TurnTouches, StepTouches, RequestTouches, ToolTouches, RetryTouches,
             NestedTouches
<1>2. Apply(v, e) = [w EXCEPT !.count = w.count + 1]
  BY DEF Apply
<1> HIDE DEF w
<1>3. IsValidator(Apply(v, e)) /\ \A n \in Maps \cup SetContainers : Apply(v, e)[n] = w[n]
  BY <1>1, <1>2 DEF IsValidator, Fields, Maps, SetContainers, IsMap
<1> QED BY <1>1, <1>3 DEF Kept

------------------------------------------------------------------------------
(* The loop of append(). *)

Started(v) == [v |-> v, undo |-> NoMap, ok |-> TRUE]

\* The recursion of Loop, up to n, holds of g.
Follows(g, v, batch, n) ==
  \A i \in 0 .. n : g[i] = IF i = 0 THEN Started(v) ELSE Checked(g[i - 1], batch[i])

\* A loop over any batch can be run to its end.
LEMMA LoopExists ==
  ASSUME NEW v, NEW batch, Len(batch) \in Nat
  PROVE  \A n \in Nat : \E g : g = [i \in 0 .. n |-> g[i]] /\ Follows(g, v, batch, n)
<1> DEFINE P(n) == \E g : g = [i \in 0 .. n |-> g[i]] /\ Follows(g, v, batch, n)
           T == {n \in Nat : ~P(n)}
<1>1. P(0)
  <2> DEFINE g == [i \in 0 .. 0 |-> Started(v)]
  <2>1. g = [i \in 0 .. 0 |-> g[i]] /\ Follows(g, v, batch, 0)
    BY DEF Follows
  <2> QED BY <2>1
<1>2. ASSUME NEW n \in Nat, P(n) PROVE P(n + 1)
  <2>1. PICK g : g = [i \in 0 .. n |-> g[i]] /\ Follows(g, v, batch, n)
    BY <1>2
  <2> DEFINE h == [i \in 0 .. (n + 1) |-> IF i = n + 1 THEN Checked(g[n], batch[n + 1]) ELSE g[i]]
  <2>2. h = [i \in 0 .. (n + 1) |-> h[i]]
    OBVIOUS
  <2>3. ASSUME NEW i \in 0 .. (n + 1)
        PROVE  h[i] = IF i = 0 THEN Started(v) ELSE Checked(h[i - 1], batch[i])
    <3>1. CASE i = n + 1
      <4>1. h[i] = Checked(g[n], batch[n + 1]) /\ h[n] = g[n] /\ i - 1 = n /\ i # 0
        BY <3>1
      <4> QED BY <4>1, <3>1
    <3>2. CASE i # n + 1
      <4>1. i \in 0 .. n /\ h[i] = g[i]
        BY <3>2
      <4>2. i # 0 => h[i - 1] = g[i - 1]
        BY <4>1
      <4> QED BY <2>1, <4>1, <4>2 DEF Follows
    <3> QED BY <3>1, <3>2
  <2>4. Follows(h, v, batch, n + 1)
    BY <2>3 DEF Follows
  <2> HIDE DEF h
  <2> QED BY <2>2, <2>4
<1>3. T = {}
  <2> HIDE DEF P
  <2> SUFFICES ASSUME T # {} PROVE FALSE
    OBVIOUS
  <2>1. PICK n \in T : \A k \in T : n <= k
    BY Least
  <2>2. n # 0 /\ n - 1 \in Nat /\ n - 1 \notin T
    BY <1>1, <2>1
  <2>3. P(n - 1) /\ (n - 1) + 1 = n
    BY <2>2
  <2>4. P(n)
    BY <1>2, <2>2, <2>3
  <2> QED BY <2>1, <2>4
<1> QED BY <1>3

\* The state of the loop before and after each event of the batch.
LEMMA LoopSteps ==
  ASSUME NEW v, NEW batch, Len(batch) \in Nat
  PROVE  /\ Loop(v, batch)[0] = Started(v)
         /\ \A i \in 1 .. Len(batch) :
              Loop(v, batch)[i] = Checked(Loop(v, batch)[i - 1], batch[i])
<1> DEFINE body(g, n) ==
      IF n = 0 THEN [v |-> v, undo |-> NoMap, ok |-> TRUE]
      ELSE CHOOSE x \in {Checked(r, batch[n]) : r \in {g[n - 1]}} : TRUE
<1>1. \A g, n : body(g, n) = IF n = 0 THEN Started(v) ELSE Checked(g[n - 1], batch[n])
  BY DEF Started
<1>2. PICK g : g = [i \in 0 .. Len(batch) |-> g[i]] /\ Follows(g, v, batch, Len(batch))
  BY LoopExists
<1>3. \E f : f = [n \in 0 .. Len(batch) |-> body(f, n)]
  <2>1. g = [n \in 0 .. Len(batch) |-> body(g, n)]
    <3>1. \A n \in 0 .. Len(batch) : g[n] = body(g, n)
      BY <1>1, <1>2 DEF Follows
    <3> HIDE DEF body
    <3> QED BY <1>2, <3>1
  <2> QED BY <2>1
<1>4. Loop(v, batch) = [n \in 0 .. Len(batch) |-> body(Loop(v, batch), n)]
  BY <1>3, Zenon DEF Loop
<1> HIDE DEF body
<1> DEFINE L == Loop(v, batch)
<1>5. \A n \in 0 .. Len(batch) : L[n] = body(L, n)
  BY <1>4
<1> QED BY <1>1, <1>5

------------------------------------------------------------------------------
(* A refused batch leaves no trace. *)

Entries(U) == \A p \in U : \E n \in Maps \cup SetContainers : \E k : p = <<n, k>>

\* What an event remembers are entries of containers.
LEMMA RemembersEntries ==
  ASSUME NEW e
  PROVE  Entries(Remembers(e))
BY DEF Entries, Remembers, AttemptRemembers, Maps, SetContainers

\* What an entry was is what it still is, as long as it is kept.
LEMMA OldIsKept ==
  ASSUME NEW v, NEW w, NEW U, Kept(v, w, U), NEW n \in Maps \cup SetContainers, NEW k,
         <<n, k>> \notin U
  PROVE  Old(w, <<n, k>>) = Old(v, <<n, k>>)
<1> DEFINE p == <<n, k>>
<1>1. p[1] = n /\ p[2] = k
  OBVIOUS
<1>2. CASE n \in SetContainers
  <2>1. k \in w[n] <=> k \in v[n]
    BY <1>2 DEF Kept, SameSetBut
  <2>2. Old(w, p) = (k \in w[n]) /\ Old(v, p) = (k \in v[n])
    BY <1>1, <1>2, Zenon DEF Old
  <2>3. (k \in w[n]) = (k \in v[n])
    BY <2>1
  <2> QED BY <2>2, <2>3, Zenon
<1>3. CASE n \notin SetContainers
  <2>1. (k \in DOMAIN w[n] <=> k \in DOMAIN v[n]) /\ (k \in DOMAIN v[n] => w[n][k] = v[n][k])
    BY <1>3 DEF Kept, SameBut
  <2>2. /\ Old(w, p) = {w[n][j] : j \in DOMAIN w[n] \cap {k}}
        /\ Old(v, p) = {v[n][j] : j \in DOMAIN v[n] \cap {k}}
    BY <1>1, <1>3, Zenon DEF Old
  <2> QED BY <2>1, <2>2
<1> QED BY <1>2, <1>3

\* What the loop has saved is enough to go back to v.
Recoverable(v, r) ==
  /\ IsValidator(r.v)
  /\ Entries(DOMAIN r.undo)
  /\ Kept(v, r.v, DOMAIN r.undo)
  /\ \A p \in DOMAIN r.undo : r.undo[p] = Old(v, p)

\* One event of the loop keeps the batch recoverable.
LEMMA CheckedStaysRecoverable ==
  ASSUME NEW v, NEW r, NEW e, Recoverable(v, r)
  PROVE  Recoverable(v, Checked(r, e))
<1>1. CASE ~(r.ok /\ Accepts(r.v, e))
  <2>1. Checked(r, e).v = r.v /\ Checked(r, e).undo = r.undo
    BY <1>1 DEF Checked
  <2> QED BY <2>1 DEF Recoverable
<1>2. CASE r.ok /\ Accepts(r.v, e)
  <2> DEFINE w == Apply(r.v, e)
             U == DOMAIN r.undo
             R == Remembers(e)
             undo == Remember(r.undo, r.v, e)
  <2>1. Checked(r, e).v = w /\ Checked(r, e).undo = undo
    BY <1>2 DEF Checked
  <2>2. IsValidator(w) /\ Kept(r.v, w, R)
    BY EventTouches DEF Recoverable
  <2>3. /\ DOMAIN undo = U \cup R
        /\ \A p \in U \cup R : undo[p] = IF p \in U THEN r.undo[p] ELSE Old(r.v, p)
    BY DEF Remember
  <2>4. Entries(U \cup R)
    BY RemembersEntries DEF Recoverable, Entries
  <2>5. Kept(v, w, U \cup R)
    <3>1. Kept(v, r.v, U)
      BY DEF Recoverable
    <3> HIDE DEF w, U, R
    <3>2. \A n \in Maps : SameBut(v[n], w[n], n, U \cup R)
      BY <2>2, <3>1 DEF Kept, SameBut
    <3>3. \A n \in SetContainers : SameSetBut(v[n], w[n], n, U \cup R)
      BY <2>2, <3>1 DEF Kept, SameSetBut
    <3> QED BY <3>2, <3>3 DEF Kept
  <2>6. ASSUME NEW p \in U \cup R PROVE undo[p] = Old(v, p)
    <3>1. CASE p \in U
      BY <2>3, <3>1 DEF Recoverable
    <3>2. CASE p \notin U
      <4>1. PICK n, k : n \in Maps \cup SetContainers /\ p = <<n, k>>
        BY <2>4 DEF Entries
      <4>2. Old(r.v, p) = Old(v, p)
        BY <3>2, <4>1, OldIsKept DEF Recoverable
      <4>3. undo[p] = Old(r.v, p)
        BY <2>3, <3>2
      <4> QED BY <4>2, <4>3
    <3> QED BY <3>1, <3>2
  <2> HIDE DEF w, U, R, undo
  <2> QED BY <2>1, <2>2, <2>3, <2>4, <2>5, <2>6 DEF Recoverable
<1> QED BY <1>1, <1>2

\* So does every number of events.
LEMMA LoopStaysRecoverable ==
  ASSUME NEW v, NEW batch, Len(batch) \in Nat, IsValidator(v)
  PROVE  \A i \in 0 .. Len(batch) : Recoverable(v, Loop(v, batch)[i])
<1> DEFINE L == Loop(v, batch)
           T == {i \in 0 .. Len(batch) : ~Recoverable(v, L[i])}
<1>1. Recoverable(v, Started(v))
  BY NothingTouched DEF Recoverable, Started, NoMap, Entries
<1>2. T = {}
  <2> SUFFICES ASSUME T # {} PROVE FALSE
    OBVIOUS
  <2>1. PICK i \in T : \A k \in T : i <= k
    <3>1. T \in SUBSET Nat
      OBVIOUS
    <3> HIDE DEF T
    <3> QED BY <3>1, Least
  <2>2. i # 0
    BY <1>1, <2>1, LoopSteps
  <2>3. i \in 1 .. Len(batch) /\ i - 1 \in 0 .. Len(batch) /\ ~(i <= i - 1)
    BY <2>1, <2>2
  <2>4. Recoverable(v, L[i - 1])
    BY <2>1, <2>3
  <2>5. L[i] = Checked(L[i - 1], batch[i])
    BY <2>3, LoopSteps
  <2>6. Recoverable(v, L[i])
    BY <2>4, <2>5, CheckedStaysRecoverable
  <2> QED BY <2>1, <2>6
<1> QED BY <1>2

\* The catch block of append() goes back to the state before the batch.
LEMMA RestoreGoesBack ==
  ASSUME NEW v, NEW r, IsValidator(v), Recoverable(v, r)
  PROVE  Restore(r.v, v, r.undo) = v
<1> DEFINE w == r.v
           undo == r.undo
           saved(name) == {p[2] : p \in {q \in DOMAIN undo : q[1] = name}}
           map(name) ==
             [x \in (DOMAIN w[name] \ saved(name)) \cup
                    {k \in saved(name) : undo[<<name, k>>] # {}} |->
                IF x \in saved(name) THEN CHOOSE y \in undo[<<name, x>>] : TRUE ELSE w[name][x]]
           set(name) == (w[name] \ saved(name)) \cup {k \in saved(name) : undo[<<name, k>>]}
           u == Restore(w, v, undo)
<1>1. \A name \in Maps \cup SetContainers : \A k :
        k \in saved(name) <=> <<name, k>> \in DOMAIN undo
  BY DEF Recoverable, Entries
<1>2. ASSUME NEW n \in Maps PROVE map(n) = v[n]
  <2>1. IsMap(v[n])
    BY DEF IsValidator, Maps
  <2>2. ASSUME NEW k, k \in saved(n)
        PROVE  undo[<<n, k>>] = {v[n][j] : j \in DOMAIN v[n] \cap {k}}
    <3>1. undo[<<n, k>>] = Old(v, <<n, k>>)
      BY <1>1, <2>2 DEF Recoverable
    <3>2. n \notin SetContainers
      BY DEF Maps, SetContainers
    <3> QED BY <3>1, <3>2 DEF Old
  <2>3. ASSUME NEW k, k \in saved(n)
        PROVE  /\ undo[<<n, k>>] # {} <=> k \in DOMAIN v[n]
               /\ k \in DOMAIN v[n] => (CHOOSE y \in undo[<<n, k>>] : TRUE) = v[n][k]
    BY <2>2, <2>3
  <2>4. ASSUME NEW k, k \notin saved(n)
        PROVE  /\ k \in DOMAIN w[n] <=> k \in DOMAIN v[n]
               /\ k \in DOMAIN v[n] => w[n][k] = v[n][k]
    BY <1>1, <2>4 DEF Recoverable, Kept, SameBut
  <2> HIDE DEF saved
  <2>5. DOMAIN map(n) = DOMAIN v[n]
    BY <2>3, <2>4
  <2>6. \A k \in DOMAIN v[n] : map(n)[k] = v[n][k]
    BY <2>3, <2>4
  <2> QED BY <2>1, <2>5, <2>6 DEF IsMap
<1>3. ASSUME NEW n \in SetContainers PROVE set(n) = v[n]
  <2>1. ASSUME NEW k, k \in saved(n) PROVE undo[<<n, k>>] <=> k \in v[n]
    <3>1. undo[<<n, k>>] = Old(v, <<n, k>>)
      BY <1>1, <2>1 DEF Recoverable
    <3>2. Old(v, <<n, k>>) = (k \in v[n])
      BY Zenon DEF Old
    <3> QED BY <3>1, <3>2, Zenon
  <2>2. ASSUME NEW k, k \notin saved(n) PROVE k \in w[n] <=> k \in v[n]
    BY <1>1, <2>2 DEF Recoverable, Kept, SameSetBut
  <2> HIDE DEF saved
  <2> QED BY <2>1, <2>2
<1>4. /\ u = [f \in Fields |-> u[f]]
      /\ \A f \in Fields \ (Maps \cup SetContainers) : u[f] = v[f]
      /\ \A f \in Maps : u[f] = map(f)
      /\ \A f \in SetContainers : u[f] = set(f)
  <2>1. u = [w EXCEPT !.count = v.count, !.openTurn = v.openTurn,
        !.openStep = v.openStep, !.lastTurn = v.lastTurn,
        !.lastStep = v.lastStep, !.suspension = v.suspension,
        !.repairedThrough = v.repairedThrough,
        !.requests = map("requests"), !.calls = map("calls"),
        !.approvals = map("approvals"), !.retries = map("retries"),
        !.compactions = map("compactions"), !.unresolved = set("unresolved"),
        !.pendingApprovals = set("pendingApprovals"),
        !.pendingRetries = set("pendingRetries"), !.subagents = set("subagents")]
    BY DEF Restore
  <2> HIDE DEF map, set, u
  <2> QED BY <2>1 DEF Recoverable, IsValidator, Fields, Maps, SetContainers
<1> HIDE DEF u, map, set
<1>5. \A f \in Fields : u[f] = v[f]
  BY <1>2, <1>3, <1>4
<1>6. u = v
  BY <1>4, <1>5 DEF IsValidator
<1> QED BY <1>6 DEF u

\* A fresh validator is a validator.
LEMMA FreshIsValidator == IsValidator(Fresh)
BY DEF IsValidator, IsMap, Fresh, NoMap, Fields

\* append() is atomic: whatever the events of a batch are, and wherever it is
\* refused, the undo maps put the validator back exactly where it was
\* (invariants.ts:485-507).
THEOREM RefusedLeavesNoTrace ==
  ASSUME NEW v, IsValidator(v), NEW batch, Len(batch) \in Nat, ~AppendBatch(v, batch).ok
  PROVE  AppendBatch(v, batch).v = v
<1> DEFINE end == Loop(v, batch)[Len(batch)]
<1>1. Recoverable(v, end)
  BY LoopStaysRecoverable
<1>2. AppendBatch(v, batch) =
        [v |-> IF end.ok THEN end.v ELSE Restore(end.v, v, end.undo), ok |-> end.ok]
  BY DEF AppendBatch
<1> HIDE DEF end
<1> QED BY <1>1, <1>2, RestoreGoesBack

\* A batch, accepted or refused, leaves a validator.
LEMMA BatchKeepsValidator ==
  ASSUME NEW v, IsValidator(v), NEW batch, Len(batch) \in Nat
  PROVE  IsValidator(AppendBatch(v, batch).v)
<1> DEFINE end == Loop(v, batch)[Len(batch)]
<1>1. Recoverable(v, end)
  BY LoopStaysRecoverable
<1>2. AppendBatch(v, batch) =
        [v |-> IF end.ok THEN end.v ELSE Restore(end.v, v, end.undo), ok |-> end.ok]
  BY DEF AppendBatch
<1> HIDE DEF end
<1> QED BY <1>1, <1>2, RestoreGoesBack DEF Recoverable

------------------------------------------------------------------------------
(* A history validated in parts. *)

\* The loop over a batch begins as the loop over its first part.
LEMMA LoopOfFirstPart ==
  ASSUME NEW v, NEW S, NEW a \in Seq(S), NEW b \in Seq(S)
  PROVE  \A i \in 0 .. Len(a) : Loop(v, a \o b)[i] = Loop(v, a)[i]
<1> DEFINE L == Loop(v, a \o b)
           M == Loop(v, a)
           T == {i \in 0 .. Len(a) : L[i] # M[i]}
<1>1. Len(a) \in Nat /\ Len(b) \in Nat /\ Len(a \o b) = Len(a) + Len(b)
  OBVIOUS
<1>2. T = {}
  <2> SUFFICES ASSUME T # {} PROVE FALSE
    OBVIOUS
  <2>1. PICK i \in T : \A k \in T : i <= k
    <3>1. T \in SUBSET Nat
      OBVIOUS
    <3> HIDE DEF T
    <3> QED BY <3>1, Least
  <2>2. L[0] = Started(v) /\ M[0] = Started(v)
    BY <1>1, LoopSteps
  <2>3. i \in 1 .. Len(a) /\ i - 1 \in 0 .. Len(a) /\ ~(i <= i - 1)
    BY <1>1, <2>1, <2>2
  <2>4. L[i - 1] = M[i - 1]
    BY <2>1, <2>3
  <2>5. (a \o b)[i] = a[i] /\ i \in 1 .. Len(a \o b)
    BY <1>1, <2>3
  <2>6. L[i] = Checked(L[i - 1], (a \o b)[i])
    <3> DEFINE c == a \o b
    <3>1. Len(c) \in Nat /\ i \in 1 .. Len(c)
      BY <1>1, <2>5
    <3> HIDE DEF c
    <3>2. Loop(v, c)[i] = Checked(Loop(v, c)[i - 1], c[i])
      BY <3>1, LoopSteps
    <3> QED BY <3>2 DEF c
  <2>7. M[i] = Checked(M[i - 1], a[i])
    BY <1>1, <2>3, LoopSteps
  <2>8. L[i] = M[i]
    BY <2>4, <2>5, <2>6, <2>7
  <2> QED BY <2>1, <2>8
<1> QED BY <1>2

\* Two loops that differ in what they saved decide the same.
SameOutcome(r, s) == r.v = s.v /\ (r.ok <=> s.ok)

\* One event of the loop has the same outcome whatever was saved before.
LEMMA CheckedAlike ==
  ASSUME NEW r, NEW s, NEW e, SameOutcome(r, s)
  PROVE  SameOutcome(Checked(r, e), Checked(s, e))
BY DEF SameOutcome, Checked

\* It goes on as the loop over the second part, if the first part was accepted.
LEMMA LoopOfSecondPart ==
  ASSUME NEW v, NEW S, NEW a \in Seq(S), NEW b \in Seq(S), Loop(v, a)[Len(a)].ok
  PROVE  \A j \in 0 .. Len(b) :
           SameOutcome(Loop(v, a \o b)[Len(a) + j], Loop(Loop(v, a)[Len(a)].v, b)[j])
<1> DEFINE w == Loop(v, a)[Len(a)].v
           L == Loop(v, a \o b)
           M == Loop(w, b)
           T == {j \in 0 .. Len(b) : ~SameOutcome(L[Len(a) + j], M[j])}
<1>1. Len(a) \in Nat /\ Len(b) \in Nat /\ Len(a \o b) = Len(a) + Len(b)
  OBVIOUS
<1>2. T = {}
  <2> SUFFICES ASSUME T # {} PROVE FALSE
    OBVIOUS
  <2>1. PICK j \in T : \A k \in T : j <= k
    <3>1. T \in SUBSET Nat
      OBVIOUS
    <3> HIDE DEF T
    <3> QED BY <3>1, Least
  <2>2. SameOutcome(L[Len(a) + 0], M[0])
    <3>1. M[0] = Started(w)
      BY <1>1, LoopSteps
    <3>2. L[Len(a)] = Loop(v, a)[Len(a)]
      BY <1>1, LoopOfFirstPart
    <3> HIDE DEF L, M
    <3> QED BY <1>1, <3>1, <3>2 DEF Started, SameOutcome
  <2>3. j \in 1 .. Len(b) /\ j - 1 \in 0 .. Len(b) /\ ~(j <= j - 1)
    BY <1>1, <2>1, <2>2
  <2>4. SameOutcome(L[Len(a) + (j - 1)], M[j - 1])
    BY <2>1, <2>3
  <2>5. /\ (a \o b)[Len(a) + j] = b[j] /\ Len(a) + j \in 1 .. Len(a \o b)
        /\ (Len(a) + j) - 1 = Len(a) + (j - 1)
    BY <1>1, <2>3
  <2>6. L[Len(a) + j] = Checked(L[Len(a) + (j - 1)], b[j])
    <3> DEFINE c == a \o b
               i == Len(a) + j
    <3>1. Len(c) \in Nat /\ i \in 1 .. Len(c) /\ c[i] = b[j]
      BY <1>1, <2>5
    <3> HIDE DEF c, i
    <3>2. Loop(v, c)[i] = Checked(Loop(v, c)[i - 1], b[j])
      BY <3>1, LoopSteps
    <3> QED BY <2>5, <3>2 DEF c, i
  <2>7. M[j] = Checked(M[j - 1], b[j])
    BY <1>1, <2>3, LoopSteps
  <2>8. SameOutcome(L[Len(a) + j], M[j])
    BY <2>4, <2>6, <2>7, CheckedAlike
  <2> QED BY <2>1, <2>8
<1> QED BY <1>2

\* A history validated in parts, the first of them legal, gives the validator and
\* the verdict of the whole history: what the store keeps beside its file is what
\* validateSessionHistory learns from the file.
THEOREM ValidatedInParts ==
  ASSUME NEW v, NEW S, NEW a \in Seq(S), NEW b \in Seq(S), AppendBatch(v, a).ok,
         AppendBatch(AppendBatch(v, a).v, b).ok
  PROVE  /\ AppendBatch(v, a \o b).ok
         /\ AppendBatch(v, a \o b).v = AppendBatch(AppendBatch(v, a).v, b).v
<1> DEFINE x == Loop(v, a)[Len(a)]
           w == AppendBatch(v, a).v
           y == Loop(w, b)[Len(b)]
           z == Loop(v, a \o b)[Len(a) + Len(b)]
<1>1. Len(a \o b) = Len(a) + Len(b) /\ Len(b) \in Nat /\ Len(b) \in 0 .. Len(b)
  OBVIOUS
<1>2. x.ok /\ w = x.v
  BY DEF AppendBatch
<1>3. SameOutcome(z, y)
  BY <1>1, <1>2, LoopOfSecondPart
<1>4. y.ok /\ AppendBatch(w, b).v = y.v
  BY DEF AppendBatch
<1>5. AppendBatch(v, a \o b) =
        [v |-> IF z.ok THEN z.v ELSE Restore(z.v, v, z.undo), ok |-> z.ok]
  BY <1>1 DEF AppendBatch
<1> HIDE DEF x, y, z, w
<1>6. z.ok /\ z.v = y.v
  BY <1>3, <1>4 DEF SameOutcome
<1> QED BY <1>4, <1>5, <1>6 DEF w

------------------------------------------------------------------------------
(* What an accepted batch did. *)

\* Every event of an accepted batch was accepted and applied in its turn.
LEMMA AcceptedSteps ==
  ASSUME NEW v, NEW batch, Len(batch) \in Nat, AppendBatch(v, batch).ok
  PROVE  /\ Loop(v, batch)[0].v = v
         /\ Loop(v, batch)[Len(batch)].v = AppendBatch(v, batch).v
         /\ \A i \in 1 .. Len(batch) :
              /\ Accepts(Loop(v, batch)[i - 1].v, batch[i])
              /\ Loop(v, batch)[i].v = Apply(Loop(v, batch)[i - 1].v, batch[i])
<1> DEFINE L == Loop(v, batch)
           n == Len(batch)
           T == {k \in 0 .. n : ~L[n - k].ok}
<1>1. L[0] = Started(v) /\ \A i \in 1 .. n : L[i] = Checked(L[i - 1], batch[i])
  BY LoopSteps
<1>2. L[n].ok /\ L[n].v = AppendBatch(v, batch).v
  BY DEF AppendBatch
<1>3. \A r, e : Checked(r, e).ok => r.ok /\ Accepts(r.v, e) /\ Checked(r, e).v = Apply(r.v, e)
  BY DEF Checked
<1>4. T = {}
  <2> SUFFICES ASSUME T # {} PROVE FALSE
    OBVIOUS
  <2>1. PICK k \in T : \A l \in T : k <= l
    <3>1. T \in SUBSET Nat
      OBVIOUS
    <3> HIDE DEF T
    <3> QED BY <3>1, Least
  <2> HIDE DEF L
  <2>2. k # 0
    BY <1>2, <2>1
  <2>3. k - 1 \in 0 .. n /\ k - 1 \notin T /\ n - (k - 1) \in 1 .. n /\ (n - (k - 1)) - 1 = n - k
    BY <2>1, <2>2
  <2>4. L[n - (k - 1)].ok
    BY <2>3
  <2>5. L[n - (k - 1)] = Checked(L[n - k], batch[n - (k - 1)])
    BY <1>1, <2>3
  <2>6. L[n - k].ok
    BY <1>3, <2>4, <2>5
  <2> QED BY <2>1, <2>6
<1> HIDE DEF L
<1>5. ASSUME NEW i \in 1 .. n PROVE L[i].ok
  <2>1. n \in Nat /\ i \in Nat /\ i <= n
    OBVIOUS
  <2>2. n - i \in 0 .. n /\ n - (n - i) = i
    BY <2>1
  <2>3. n - i \notin T
    BY <1>4
  <2>4. L[n - (n - i)].ok
    BY <2>2, <2>3
  <2> QED BY <2>2, <2>4
<1>6. L[0].v = v
  BY <1>1 DEF Started
<1> QED BY <1>1, <1>2, <1>3, <1>5, <1>6 DEF L

\* The assignments of the event's case.
Assigned(v, e) ==
  CASE e.type \in TurnTypes    -> ApplyTurn(v, e)
    [] e.type \in StepTypes    -> ApplyStep(v, e)
    [] e.type \in RequestTypes -> ApplyRequest(v, e)
    [] e.type \in ToolTypes    -> ApplyTool(v, e)
    [] e.type \in RetryTypes   -> ApplyRetry(v, e)
    [] e.type \in NestedTypes  -> ApplyNested(v, e)
    [] OTHER -> v

AllTypes == UNION {TurnTypes, StepTypes, RequestTypes, ToolTypes, RetryTypes, NestedTypes}

\* The types of the cases are disjoint.
LEMMA TypesAreDisjoint ==
  ASSUME NEW t
  PROVE  /\ t \in TurnTypes => t \notin StepTypes \cup RequestTypes \cup ToolTypes \cup RetryTypes \cup NestedTypes
         /\ t \in StepTypes => t \notin TurnTypes \cup RequestTypes \cup ToolTypes \cup RetryTypes \cup NestedTypes
         /\ t \in RequestTypes => t \notin TurnTypes \cup StepTypes \cup ToolTypes \cup RetryTypes \cup NestedTypes
         /\ t \in ToolTypes => t \notin TurnTypes \cup StepTypes \cup RequestTypes \cup RetryTypes \cup NestedTypes
         /\ t \in RetryTypes => t \notin TurnTypes \cup StepTypes \cup RequestTypes \cup ToolTypes \cup NestedTypes
         /\ t \in NestedTypes => t \notin TurnTypes \cup StepTypes \cup RequestTypes \cup ToolTypes \cup RetryTypes
BY DEF TurnTypes, StepTypes, RequestTypes, ToolTypes, RetryTypes, NestedTypes

\* Every event falls under one case of the checks and of the assignments.
LEMMA Cases ==
  ASSUME NEW v, NEW e
  PROVE  /\ e.type \in TurnTypes =>
              Assigned(v, e) = ApplyTurn(v, e) /\ Accepts(v, e) = TurnOk(v, e)
         /\ e.type \in StepTypes =>
              Assigned(v, e) = ApplyStep(v, e) /\ Accepts(v, e) = StepOk(v, e)
         /\ e.type \in RequestTypes =>
              Assigned(v, e) = ApplyRequest(v, e) /\ Accepts(v, e) = RequestOk(v, e)
         /\ e.type \in ToolTypes =>
              Assigned(v, e) = ApplyTool(v, e) /\ Accepts(v, e) = ToolOk(v, e)
         /\ e.type \in RetryTypes =>
              Assigned(v, e) = ApplyRetry(v, e) /\ Accepts(v, e) = RetryOk(v, e)
         /\ e.type \in NestedTypes =>
              Assigned(v, e) = ApplyNested(v, e) /\ Accepts(v, e) = NestedOk(v, e)
         /\ e.type \notin AllTypes => Assigned(v, e) = v
<1> DEFINE pick(a, b, c, d, f, g, o) ==
             CASE e.type \in TurnTypes    -> a
               [] e.type \in StepTypes    -> b
               [] e.type \in RequestTypes -> c
               [] e.type \in ToolTypes    -> d
               [] e.type \in RetryTypes   -> f
               [] e.type \in NestedTypes  -> g
               [] OTHER -> o
<1>1. \A a, b, c, d, f, g, o :
        /\ e.type \in TurnTypes    => pick(a, b, c, d, f, g, o) = a
        /\ e.type \in StepTypes    => pick(a, b, c, d, f, g, o) = b
        /\ e.type \in RequestTypes => pick(a, b, c, d, f, g, o) = c
        /\ e.type \in ToolTypes    => pick(a, b, c, d, f, g, o) = d
        /\ e.type \in RetryTypes   => pick(a, b, c, d, f, g, o) = f
        /\ e.type \in NestedTypes  => pick(a, b, c, d, f, g, o) = g
        /\ e.type \notin AllTypes  => pick(a, b, c, d, f, g, o) = o
  <2>1. e.type \notin AllTypes =>
          e.type \notin TurnTypes \cup StepTypes \cup RequestTypes \cup ToolTypes
                          \cup RetryTypes \cup NestedTypes
    BY DEF AllTypes
  <2> QED BY <2>1, TypesAreDisjoint
<1>2. Assigned(v, e) = pick(ApplyTurn(v, e), ApplyStep(v, e), ApplyRequest(v, e),
                            ApplyTool(v, e), ApplyRetry(v, e), ApplyNested(v, e), v)
  BY DEF Assigned
<1> HIDE DEF pick
<1>3. /\ e.type \in TurnTypes => Assigned(v, e) = ApplyTurn(v, e)
      /\ e.type \in StepTypes => Assigned(v, e) = ApplyStep(v, e)
      /\ e.type \in RequestTypes => Assigned(v, e) = ApplyRequest(v, e)
      /\ e.type \in ToolTypes => Assigned(v, e) = ApplyTool(v, e)
      /\ e.type \in RetryTypes => Assigned(v, e) = ApplyRetry(v, e)
      /\ e.type \in NestedTypes => Assigned(v, e) = ApplyNested(v, e)
      /\ e.type \notin AllTypes => Assigned(v, e) = v
  BY <1>1, <1>2
<1>4. e.type \in TurnTypes => Accepts(v, e) = TurnOk(v, e)
  BY DEF Accepts, TurnTypes, StepTypes, RequestTypes, ToolTypes, RetryTypes, NestedTypes
<1>5. e.type \in StepTypes => Accepts(v, e) = StepOk(v, e)
  BY DEF Accepts, TurnTypes, StepTypes, RequestTypes, ToolTypes, RetryTypes, NestedTypes
<1>6. e.type \in RequestTypes => Accepts(v, e) = RequestOk(v, e)
  BY DEF Accepts, TurnTypes, StepTypes, RequestTypes, ToolTypes, RetryTypes, NestedTypes
<1>7. e.type \in ToolTypes => Accepts(v, e) = ToolOk(v, e)
  BY DEF Accepts, TurnTypes, StepTypes, RequestTypes, ToolTypes, RetryTypes, NestedTypes
<1>8. e.type \in RetryTypes => Accepts(v, e) = RetryOk(v, e)
  BY DEF Accepts, TurnTypes, StepTypes, RequestTypes, ToolTypes, RetryTypes, NestedTypes
<1>9. e.type \in NestedTypes => Accepts(v, e) = NestedOk(v, e)
  BY DEF Accepts, TurnTypes, StepTypes, RequestTypes, ToolTypes, RetryTypes, NestedTypes
<1> QED BY <1>3, <1>4, <1>5, <1>6, <1>7, <1>8, <1>9

\* Besides these assignments an event is only counted.
LEMMA AppliedIsAssigned ==
  ASSUME NEW v, NEW e, IsValidator(v)
  PROVE  \A f \in Fields \ {"count"} : Apply(v, e)[f] = Assigned(v, e)[f]
<1>1. IsValidator(Assigned(v, e))
  BY TurnTouches, StepTouches, RequestTouches, ToolTouches, RetryTouches, NestedTouches
     DEF Assigned
<1>2. Apply(v, e) = [Assigned(v, e) EXCEPT !.count = Assigned(v, e).count + 1]
  BY DEF Apply, Assigned
<1> QED BY <1>1, <1>2 DEF IsValidator, Fields

TurnFields == {"openTurn", "lastTurn", "suspension"}
StepFields == {"openStep", "lastStep"}
ToolFields == {"calls", "approvals", "unresolved", "pendingApprovals"}
RetryFieldsOf == {"retries", "pendingRetries"}
NestedFields == {"compactions", "subagents"}

\* Each group of events leaves the variables of the others alone.
LEMMA FieldsStay ==
  ASSUME NEW v, NEW e, IsValidator(v)
  PROVE  /\ e.type \notin TurnTypes => \A f \in TurnFields : Apply(v, e)[f] = v[f]
         /\ e.type \notin StepTypes => \A f \in StepFields : Apply(v, e)[f] = v[f]
         /\ e.type \notin RequestTypes => Apply(v, e).requests = v.requests
         /\ e.type \notin ToolTypes => \A f \in ToolFields : Apply(v, e)[f] = v[f]
         /\ e.type \notin RetryTypes \cup RequestTypes =>
              \A f \in RetryFieldsOf : Apply(v, e)[f] = v[f]
         /\ e.type \notin NestedTypes => \A f \in NestedFields : Apply(v, e)[f] = v[f]
<1> DEFINE A == Assigned(v, e)
           Others == Fields \ {"count"}
<1>1. \A f \in Others : Apply(v, e)[f] = A[f]
  BY AppliedIsAssigned
<1>2. CASE e.type \in TurnTypes
  <2>1. \A f \in Others \ (TurnFields \cup {"repairedThrough"}) : ApplyTurn(v, e)[f] = v[f]
    BY <1>2 DEF TurnFields, ApplyTurn, TurnTypes, IsValidator, Fields
  <2> HIDE DEF A, Others
  <2> QED BY <1>1, <1>2, <2>1, Cases, TypesAreDisjoint
          DEF A, Others, Fields, TurnFields, StepFields, ToolFields, RetryFieldsOf, NestedFields
<1>3. CASE e.type \in StepTypes
  <2>1. \A f \in Others \ StepFields : ApplyStep(v, e)[f] = v[f]
    BY <1>3 DEF StepFields, ApplyStep, StepTypes, IsValidator, Fields
  <2> HIDE DEF A, Others
  <2> QED BY <1>1, <1>3, <2>1, Cases, TypesAreDisjoint
          DEF A, Others, Fields, TurnFields, StepFields, ToolFields, RetryFieldsOf, NestedFields
<1>4. CASE e.type \in RequestTypes
  <2>1. \A f \in Others \ ({"requests"} \cup RetryFieldsOf) : ApplyRequest(v, e)[f] = v[f]
    BY <1>4 DEF RetryFieldsOf, ApplyRequest, RequestTypes, IsValidator, Fields
  <2> HIDE DEF A, Others
  <2> QED BY <1>1, <1>4, <2>1, Cases, TypesAreDisjoint
          DEF A, Others, Fields, TurnFields, StepFields, ToolFields, RetryFieldsOf, NestedFields
<1>5. CASE e.type \in ToolTypes
  <2>1. \A f \in Others \ (ToolFields \cup {"repairedThrough"}) : ApplyTool(v, e)[f] = v[f]
    BY <1>5 DEF ToolFields, ApplyTool, ToolTypes, IsValidator, Fields
  <2> HIDE DEF A, Others
  <2> QED BY <1>1, <1>5, <2>1, Cases, TypesAreDisjoint
          DEF A, Others, Fields, TurnFields, StepFields, ToolFields, RetryFieldsOf, NestedFields
<1>6. CASE e.type \in RetryTypes
  <2>1. \A f \in Others \ RetryFieldsOf : ApplyRetry(v, e)[f] = v[f]
    BY <1>6 DEF RetryFieldsOf, ApplyRetry, RetryTypes, IsValidator, Fields
  <2> HIDE DEF A, Others
  <2> QED BY <1>1, <1>6, <2>1, Cases, TypesAreDisjoint
          DEF A, Others, Fields, TurnFields, StepFields, ToolFields, RetryFieldsOf, NestedFields
<1>7. CASE e.type \in NestedTypes
  <2>1. \A f \in Others \ NestedFields : ApplyNested(v, e)[f] = v[f]
    BY <1>7 DEF NestedFields, ApplyNested, NestedTypes, IsValidator, Fields
  <2> HIDE DEF A, Others
  <2> QED BY <1>1, <1>7, <2>1, Cases, TypesAreDisjoint
          DEF A, Others, Fields, TurnFields, StepFields, ToolFields, RetryFieldsOf, NestedFields
<1>8. CASE e.type \notin AllTypes
  <2>1. A = v
    BY <1>8, Cases
  <2> HIDE DEF A, Others
  <2> QED BY <1>1, <2>1
          DEF Others, Fields, TurnFields, StepFields, ToolFields, RetryFieldsOf, NestedFields
<1>9. e.type \in AllTypes =>
        e.type \in TurnTypes \cup StepTypes \cup RequestTypes \cup ToolTypes \cup RetryTypes
                     \cup NestedTypes
  BY DEF AllTypes
<1> HIDE DEF A, Others
<1> QED BY <1>2, <1>3, <1>4, <1>5, <1>6, <1>7, <1>8, <1>9

\* Calls are only added, and a call stays unresolved until its result.
LEMMA AppliedCalls ==
  ASSUME NEW v, NEW e, IsValidator(v)
  PROVE  /\ DOMAIN Apply(v, e).calls =
              IF e.type = "tool/call" THEN DOMAIN v.calls \cup {e.callId} ELSE DOMAIN v.calls
         /\ Apply(v, e).unresolved =
              IF e.type = "tool/call" THEN v.unresolved \cup {e.callId}
              ELSE IF e.type = "tool/result" THEN v.unresolved \ {e.callId} ELSE v.unresolved
<1>1. CASE e.type \notin ToolTypes
  BY <1>1, FieldsStay DEF ToolFields, ToolTypes
<1>2. CASE e.type \in ToolTypes
  <2>1. /\ DOMAIN ApplyTool(v, e).calls =
             IF e.type = "tool/call" THEN DOMAIN v.calls \cup {e.callId} ELSE DOMAIN v.calls
        /\ ApplyTool(v, e).unresolved =
             IF e.type = "tool/call" THEN v.unresolved \cup {e.callId}
             ELSE IF e.type = "tool/result" THEN v.unresolved \ {e.callId} ELSE v.unresolved
    BY <1>2 DEF ApplyTool, ToolTypes, IsValidator, Fields, Put
  <2> QED BY <1>2, <2>1, Cases, AppliedIsAssigned DEF Fields
<1> QED BY <1>1, <1>2

------------------------------------------------------------------------------
(* What each event does to what it names. *)

\* g is f but for the field l of its value at k.
Retouched(f, g, k, l) ==
  /\ DOMAIN g = DOMAIN f
  /\ \A c \in DOMAIN f :
       /\ DOMAIN g[c] = DOMAIN f[c]
       /\ \A m \in DOMAIN f[c] : c # k \/ m # l => g[c][m] = f[c][m]

\* One field of a record in a map is replaced.
LEMMA FieldReplaced ==
  ASSUME NEW f, NEW k \in DOMAIN f, NEW l \in DOMAIN f[k], NEW x
  PROVE  LET g == [f EXCEPT ![k] = [f[k] EXCEPT ![l] = x]]
         IN  Retouched(f, g, k, l) /\ g[k][l] = x
BY DEF Retouched

CallFields == {"turn", "step", "approvalId", "approvalDecided", "result"}
RequestFields == {"turn", "step", "lastAttempt"}
RetryFields == {"requestId", "nextAttempt", "state"}

\* What the maps hold are records.
Shaped(v) ==
  /\ \A c \in DOMAIN v.calls : DOMAIN v.calls[c] = CallFields
  /\ \A r \in DOMAIN v.requests : DOMAIN v.requests[r] = RequestFields
  /\ \A t \in DOMAIN v.retries : DOMAIN v.retries[t] = RetryFields

\* What tool/call does to the calls and the approvals.
LEMMA CallRecorded ==
  ASSUME NEW v, NEW e, IsValidator(v), Accepts(v, e), e.type = "tool/call"
  PROVE  LET g == Apply(v, e).calls
         IN  /\ e.requestId \in DOMAIN v.requests /\ InStep(v, e)
             /\ e.callId \notin DOMAIN v.calls
             /\ DOMAIN g = DOMAIN v.calls \cup {e.callId}
             /\ \A c \in DOMAIN v.calls : g[c] = v.calls[c]
             /\ DOMAIN g[e.callId] = CallFields
             /\ g[e.callId].turn = e.turn /\ g[e.callId].step = e.step
             /\ g[e.callId].approvalId = None
             /\ ~g[e.callId].approvalDecided /\ ~g[e.callId].result
             /\ Apply(v, e).unresolved = v.unresolved \cup {e.callId}
             /\ Apply(v, e).approvals = v.approvals
             /\ Apply(v, e).pendingApprovals = v.pendingApprovals
<1> DEFINE w == ApplyTool(v, e)
           x == [turn |-> e.turn, step |-> e.step, approvalId |-> None,
                 approvalDecided |-> FALSE, result |-> FALSE]
<1>1. e.type \in ToolTypes
  BY DEF ToolTypes
<1>2. /\ e.requestId \in DOMAIN v.requests /\ InStep(v, e) /\ e.callId \notin DOMAIN v.calls
  BY <1>1, Cases DEF ToolOk
<1>3. w = [v EXCEPT !.calls = Put(v.calls, e.callId, x), !.unresolved = v.unresolved \cup {e.callId}]
  BY DEF ApplyTool
<1>4. \A f \in Fields \ {"count"} : Apply(v, e)[f] = w[f]
  BY <1>1, Cases, AppliedIsAssigned
<1> HIDE DEF w, x
<1>5. /\ w.calls = Put(v.calls, e.callId, x) /\ w.unresolved = v.unresolved \cup {e.callId}
      /\ w.approvals = v.approvals /\ w.pendingApprovals = v.pendingApprovals
  BY <1>3 DEF IsValidator, Fields
<1>6. /\ Apply(v, e).calls = w.calls /\ Apply(v, e).unresolved = w.unresolved
      /\ Apply(v, e).approvals = w.approvals /\ Apply(v, e).pendingApprovals = w.pendingApprovals
  BY <1>4 DEF Fields
<1>7. /\ DOMAIN Put(v.calls, e.callId, x) = DOMAIN v.calls \cup {e.callId}
      /\ \A c \in DOMAIN v.calls : Put(v.calls, e.callId, x)[c] = v.calls[c]
      /\ Put(v.calls, e.callId, x)[e.callId] = x
  BY <1>2 DEF Put
<1>8. /\ DOMAIN x = CallFields /\ x.turn = e.turn /\ x.step = e.step /\ x.approvalId = None
      /\ ~x.approvalDecided /\ ~x.result
  BY DEF x, CallFields
<1>9. Apply(v, e).calls[e.callId] = x
  BY <1>5, <1>6, <1>7
<1>10. Apply(v, e).calls[e.callId].approvalDecided = x.approvalDecided
  BY <1>9
<1>11. Apply(v, e).calls[e.callId].result = x.result
  BY <1>9
<1>12. ~Apply(v, e).calls[e.callId].approvalDecided /\ ~Apply(v, e).calls[e.callId].result
  BY <1>8, <1>10, <1>11, Zenon
<1> QED BY <1>2, <1>5, <1>6, <1>7, <1>8, <1>9, <1>12

\* What approval/request does to them.
LEMMA ApprovalRequested ==
  ASSUME NEW v, NEW e, IsValidator(v), Shaped(v), Accepts(v, e), e.type = "approval/request"
  PROVE  LET g == Apply(v, e).calls
         IN  /\ e.callId \in DOMAIN v.calls /\ e.approvalId \notin DOMAIN v.approvals
             /\ v.calls[e.callId].approvalId = None
             /\ Retouched(v.calls, g, e.callId, "approvalId")
             /\ g[e.callId].approvalId = e.approvalId
             /\ Apply(v, e).unresolved = v.unresolved
             /\ Apply(v, e).approvals = Put(v.approvals, e.approvalId, e.callId)
             /\ Apply(v, e).pendingApprovals = v.pendingApprovals \cup {e.approvalId}
<1> DEFINE w == ApplyTool(v, e)
           x == e.approvalId
           g == [v.calls EXCEPT ![e.callId] = [v.calls[e.callId] EXCEPT !["approvalId"] = x]]
<1>1. e.type \in ToolTypes
  BY DEF ToolTypes
<1>2. /\ e.callId \in DOMAIN v.calls /\ e.approvalId \notin DOMAIN v.approvals
      /\ v.calls[e.callId].approvalId = None
  BY <1>1, Cases DEF ToolOk
<1>3. w = [v EXCEPT !.approvals = Put(v.approvals, e.approvalId, e.callId), !.calls = g,
                    !.pendingApprovals = v.pendingApprovals \cup {e.approvalId}]
  BY DEF ApplyTool, IsValidator, Fields
<1>4. \A f \in Fields \ {"count"} : Apply(v, e)[f] = w[f]
  BY <1>1, Cases, AppliedIsAssigned
<1>5. Retouched(v.calls, g, e.callId, "approvalId") /\ g[e.callId]["approvalId"] = x
  <2>1. "approvalId" \in DOMAIN v.calls[e.callId]
    BY <1>2 DEF Shaped, CallFields
  <2> QED BY <1>2, <2>1, FieldReplaced
<1> HIDE DEF w, g
<1>6. /\ w.calls = g /\ w.unresolved = v.unresolved
      /\ w.approvals = Put(v.approvals, e.approvalId, e.callId)
      /\ w.pendingApprovals = v.pendingApprovals \cup {e.approvalId}
  BY <1>3 DEF IsValidator, Fields
<1>7. /\ Apply(v, e).calls = w.calls /\ Apply(v, e).unresolved = w.unresolved
      /\ Apply(v, e).approvals = w.approvals /\ Apply(v, e).pendingApprovals = w.pendingApprovals
  BY <1>4 DEF Fields
<1> QED BY <1>2, <1>5, <1>6, <1>7

\* What approval/decision does to them.
LEMMA ApprovalDecided ==
  ASSUME NEW v, NEW e, IsValidator(v), Shaped(v), Accepts(v, e), e.type = "approval/decision"
  PROVE  LET g == Apply(v, e).calls
         IN  /\ e.approvalId \in DOMAIN v.approvals /\ v.approvals[e.approvalId] = e.callId
             /\ e.callId \in DOMAIN v.calls /\ ~v.calls[e.callId].approvalDecided
             /\ Retouched(v.calls, g, e.callId, "approvalDecided")
             /\ g[e.callId].approvalDecided
             /\ Apply(v, e).unresolved = v.unresolved
             /\ Apply(v, e).approvals = v.approvals
             /\ Apply(v, e).pendingApprovals = v.pendingApprovals \ {e.approvalId}
<1> DEFINE w == ApplyTool(v, e)
           g == [v.calls EXCEPT ![e.callId] = [v.calls[e.callId] EXCEPT !["approvalDecided"] = TRUE]]
<1>1. e.type \in ToolTypes
  BY DEF ToolTypes
<1>2. /\ e.approvalId \in DOMAIN v.approvals /\ v.approvals[e.approvalId] = e.callId
      /\ e.callId \in DOMAIN v.calls /\ ~v.calls[e.callId].approvalDecided
  BY <1>1, Cases DEF ToolOk, DecisionOk
<1>3. w = [v EXCEPT !.calls = g, !.pendingApprovals = v.pendingApprovals \ {e.approvalId}]
  BY DEF ApplyTool, IsValidator, Fields
<1>4. \A f \in Fields \ {"count"} : Apply(v, e)[f] = w[f]
  BY <1>1, Cases, AppliedIsAssigned
<1>5. Retouched(v.calls, g, e.callId, "approvalDecided") /\ g[e.callId]["approvalDecided"] = TRUE
  <2>1. "approvalDecided" \in DOMAIN v.calls[e.callId]
    BY <1>2 DEF Shaped, CallFields
  <2> QED BY <1>2, <2>1, FieldReplaced
<1> HIDE DEF w, g
<1>6. /\ w.calls = g /\ w.unresolved = v.unresolved /\ w.approvals = v.approvals
      /\ w.pendingApprovals = v.pendingApprovals \ {e.approvalId}
  BY <1>3 DEF IsValidator, Fields
<1>7. /\ Apply(v, e).calls = w.calls /\ Apply(v, e).unresolved = w.unresolved
      /\ Apply(v, e).approvals = w.approvals /\ Apply(v, e).pendingApprovals = w.pendingApprovals
  BY <1>4 DEF Fields
<1> QED BY <1>2, <1>5, <1>6, <1>7

\* What tool/result does to them.
LEMMA ResultRecorded ==
  ASSUME NEW v, NEW e, IsValidator(v), Shaped(v), Accepts(v, e), e.type = "tool/result"
  PROVE  LET g == Apply(v, e).calls
         IN  /\ e.callId \in DOMAIN v.calls /\ ~v.calls[e.callId].result
             /\ Retouched(v.calls, g, e.callId, "result")
             /\ g[e.callId].result
             /\ Apply(v, e).unresolved = v.unresolved \ {e.callId}
             /\ Apply(v, e).approvals = v.approvals
             /\ Apply(v, e).pendingApprovals = v.pendingApprovals
<1> DEFINE w == ApplyTool(v, e)
           n == IF e.recovered # None THEN v.count ELSE v.repairedThrough
           g == [v.calls EXCEPT ![e.callId] = [v.calls[e.callId] EXCEPT !["result"] = TRUE]]
<1>1. e.type \in ToolTypes
  BY DEF ToolTypes
<1>2. e.callId \in DOMAIN v.calls /\ ~v.calls[e.callId].result
  BY <1>1, Cases DEF ToolOk
<1>3. w = [v EXCEPT !.calls = g, !.unresolved = v.unresolved \ {e.callId}, !.repairedThrough = n]
  BY DEF ApplyTool, IsValidator, Fields
<1>4. \A f \in Fields \ {"count"} : Apply(v, e)[f] = w[f]
  BY <1>1, Cases, AppliedIsAssigned
<1>5. Retouched(v.calls, g, e.callId, "result") /\ g[e.callId]["result"] = TRUE
  <2>1. "result" \in DOMAIN v.calls[e.callId]
    BY <1>2 DEF Shaped, CallFields
  <2> QED BY <1>2, <2>1, FieldReplaced
<1> HIDE DEF w, g, n
<1>6. /\ w.calls = g /\ w.unresolved = v.unresolved \ {e.callId} /\ w.approvals = v.approvals
      /\ w.pendingApprovals = v.pendingApprovals
  BY <1>3 DEF IsValidator, Fields
<1>7. /\ Apply(v, e).calls = w.calls /\ Apply(v, e).unresolved = w.unresolved
      /\ Apply(v, e).approvals = w.approvals /\ Apply(v, e).pendingApprovals = w.pendingApprovals
  BY <1>4 DEF Fields
<1> QED BY <1>2, <1>5, <1>6, <1>7

\* What request/header does to the requests.
LEMMA RequestMade ==
  ASSUME NEW v, NEW e, IsValidator(v), Accepts(v, e), e.type = "request/header"
  PROVE  /\ e.requestId \notin DOMAIN v.requests
         /\ DOMAIN Apply(v, e).requests = DOMAIN v.requests \cup {e.requestId}
         /\ \A r \in DOMAIN v.requests : Apply(v, e).requests[r] = v.requests[r]
         /\ DOMAIN Apply(v, e).requests[e.requestId] = RequestFields
         /\ Apply(v, e).requests[e.requestId].turn = e.turn
         /\ Apply(v, e).retries = v.retries /\ Apply(v, e).pendingRetries = v.pendingRetries
<1> DEFINE w == ApplyRequest(v, e)
           x == [turn |-> e.turn, step |-> e.step, lastAttempt |-> 0]
           f == Put(v.requests, e.requestId, x)
<1>1. e.type \in RequestTypes
  BY DEF RequestTypes
<1>2. e.requestId \notin DOMAIN v.requests
  BY <1>1, Cases DEF RequestOk
<1>3. w = [v EXCEPT !.requests = f]
  BY DEF ApplyRequest
<1>4. \A y \in Fields \ {"count"} : Apply(v, e)[y] = w[y]
  BY <1>1, Cases, AppliedIsAssigned
<1> HIDE DEF w, f, x
<1>5. w.requests = f /\ w.retries = v.retries /\ w.pendingRetries = v.pendingRetries
  BY <1>3 DEF IsValidator, Fields
<1>6. /\ Apply(v, e).requests = w.requests /\ Apply(v, e).retries = w.retries
      /\ Apply(v, e).pendingRetries = w.pendingRetries
  BY <1>4 DEF Fields
<1>7. /\ DOMAIN f = DOMAIN v.requests \cup {e.requestId}
      /\ \A r \in DOMAIN v.requests : f[r] = v.requests[r]
      /\ f[e.requestId] = x
  BY <1>2 DEF f, Put
<1>8. DOMAIN x = RequestFields /\ x.turn = e.turn
  BY DEF x, RequestFields
<1> QED BY <1>2, <1>5, <1>6, <1>7, <1>8

\* What request/attempt does to the requests and the retries.
LEMMA RequestAttempted ==
  ASSUME NEW v, NEW e, IsValidator(v), Shaped(v), Accepts(v, e), e.type = "request/attempt"
  PROVE  LET g == Apply(v, e).retries
         IN  /\ e.requestId \in DOMAIN v.requests
             /\ Retouched(v.requests, Apply(v, e).requests, e.requestId, "lastAttempt")
             /\ IF e.retryId = None
                THEN g = v.retries /\ Apply(v, e).pendingRetries = v.pendingRetries
                ELSE /\ e.retryId \in DOMAIN v.retries /\ v.retries[e.retryId].state = "started"
                     /\ Retouched(v.retries, g, e.retryId, "state")
                     /\ g[e.retryId].state = "consumed"
                     /\ Apply(v, e).pendingRetries = v.pendingRetries \ {e.retryId}
<1> DEFINE w == ApplyRequest(v, e)
           x == e.attempt
           f == [v.requests EXCEPT ![e.requestId] = [v.requests[e.requestId] EXCEPT !["lastAttempt"] = x]]
           h == [v.retries EXCEPT ![e.retryId] = [v.retries[e.retryId] EXCEPT !["state"] = "consumed"]]
           g == IF e.retryId = None THEN v.retries ELSE h
           S == IF e.retryId = None THEN v.pendingRetries ELSE v.pendingRetries \ {e.retryId}
<1>1. e.type \in RequestTypes
  BY DEF RequestTypes
<1>2. /\ e.requestId \in DOMAIN v.requests
      /\ e.retryId # None => e.retryId \in DOMAIN v.retries /\ v.retries[e.retryId].state = "started"
  <2>1. RequestOk(v, e)
    BY <1>1, Cases
  <2> DEFINE next == v.requests[e.requestId].lastAttempt + 1
             y == [requestId |-> e.requestId, nextAttempt |-> e.attempt, state |-> "started"]
  <2>2. y.state = "started"
    OBVIOUS
  <2>3. RequestOk(v, e) =
          /\ e.requestId \in DOMAIN v.requests
          /\ e.attempt = next
          /\ IF e.retryId = None THEN e.attempt = 1
             ELSE e.retryId \in DOMAIN v.retries /\ v.retries[e.retryId] = y
    BY DEF RequestOk
  <2> HIDE DEF next, y
  <2> QED BY <2>1, <2>2, <2>3
<1>3. w = [v EXCEPT !.requests = f, !.retries = g, !.pendingRetries = S]
  BY DEF ApplyRequest, IsValidator, Fields
<1>4. \A y \in Fields \ {"count"} : Apply(v, e)[y] = w[y]
  BY <1>1, Cases, AppliedIsAssigned
<1>5. Retouched(v.requests, f, e.requestId, "lastAttempt")
  <2>1. "lastAttempt" \in DOMAIN v.requests[e.requestId]
    BY <1>2 DEF Shaped, RequestFields
  <2> QED BY <1>2, <2>1, FieldReplaced
<1>6. e.retryId # None => Retouched(v.retries, h, e.retryId, "state") /\ h[e.retryId]["state"] = "consumed"
  <2>1. e.retryId # None => "state" \in DOMAIN v.retries[e.retryId]
    BY <1>2 DEF Shaped, RetryFields
  <2> QED BY <1>2, <2>1, FieldReplaced
<1> HIDE DEF w, f, h
<1>7. w.requests = f /\ w.retries = g /\ w.pendingRetries = S
  BY <1>3 DEF IsValidator, Fields
<1>8. /\ Apply(v, e).requests = w.requests /\ Apply(v, e).retries = w.retries
      /\ Apply(v, e).pendingRetries = w.pendingRetries
  BY <1>4 DEF Fields
<1> QED BY <1>2, <1>5, <1>6, <1>7, <1>8

\* The other events of a request change nothing the validator knows of it.
LEMMA RequestMentioned ==
  ASSUME NEW v, NEW e, IsValidator(v), Accepts(v, e), e.type \in RequestTypes,
         e.type \notin {"request/header", "request/attempt"}
  PROVE  /\ Apply(v, e).requests = v.requests /\ Apply(v, e).retries = v.retries
         /\ Apply(v, e).pendingRetries = v.pendingRetries
         /\ e.type \in {"assistant/chunk", "assistant/message"} =>
              /\ e.requestId \in DOMAIN v.requests
              /\ v.requests[e.requestId].turn = e.turn /\ v.requests[e.requestId].step = e.step
<1>1. \A y \in Fields \ {"count"} : Apply(v, e)[y] = v[y]
  <2>1. ApplyRequest(v, e) = v
    BY DEF ApplyRequest
  <2> QED BY <2>1, Cases, AppliedIsAssigned
<1>2. Accepts(v, e) = RequestOk(v, e)
  BY Cases
<1>3. e.type \in {"assistant/chunk", "assistant/message"} =>
        /\ e.requestId \in DOMAIN v.requests
        /\ v.requests[e.requestId].turn = e.turn /\ v.requests[e.requestId].step = e.step
  BY <1>2 DEF RequestOk
<1> QED BY <1>1, <1>3 DEF Fields

\* What retry/scheduled does to the retries.
LEMMA RetryScheduled ==
  ASSUME NEW v, NEW e, IsValidator(v), Accepts(v, e), e.type = "retry/scheduled"
  PROVE  /\ e.retryId \notin DOMAIN v.retries
         /\ DOMAIN Apply(v, e).retries = DOMAIN v.retries \cup {e.retryId}
         /\ \A t \in DOMAIN v.retries : Apply(v, e).retries[t] = v.retries[t]
         /\ DOMAIN Apply(v, e).retries[e.retryId] = RetryFields
         /\ Apply(v, e).retries[e.retryId].state = "scheduled"
         /\ Apply(v, e).pendingRetries = v.pendingRetries \cup {e.retryId}
<1> DEFINE w == ApplyRetry(v, e)
           x == [requestId |-> e.requestId, nextAttempt |-> e.next, state |-> "scheduled"]
           f == Put(v.retries, e.retryId, x)
<1>1. e.type \in RetryTypes
  BY DEF RetryTypes
<1>2. e.retryId \notin DOMAIN v.retries
  BY <1>1, Cases DEF RetryOk
<1>3. w = [v EXCEPT !.retries = f, !.pendingRetries = v.pendingRetries \cup {e.retryId}]
  BY DEF ApplyRetry
<1>4. \A y \in Fields \ {"count"} : Apply(v, e)[y] = w[y]
  BY <1>1, Cases, AppliedIsAssigned
<1> HIDE DEF w, f, x
<1>5. w.retries = f /\ w.pendingRetries = v.pendingRetries \cup {e.retryId}
  BY <1>3 DEF IsValidator, Fields
<1>6. Apply(v, e).retries = w.retries /\ Apply(v, e).pendingRetries = w.pendingRetries
  BY <1>4 DEF Fields
<1>7. /\ DOMAIN f = DOMAIN v.retries \cup {e.retryId}
      /\ \A t \in DOMAIN v.retries : f[t] = v.retries[t]
      /\ f[e.retryId] = x
  BY <1>2 DEF f, Put
<1>8. DOMAIN x = RetryFields /\ x.state = "scheduled"
  BY DEF x, RetryFields
<1> QED BY <1>2, <1>5, <1>6, <1>7, <1>8

\* What retry/started and retry/cancelled do to the retries.
LEMMA RetryMoved ==
  ASSUME NEW v, NEW e, IsValidator(v), Shaped(v), Accepts(v, e),
         e.type \in {"retry/started", "retry/cancelled"}
  PROVE  LET g == Apply(v, e).retries
         IN  /\ e.retryId \in DOMAIN v.retries
             /\ v.retries[e.retryId].state \in {"scheduled", "started"}
             /\ Retouched(v.retries, g, e.retryId, "state")
             /\ IF e.type = "retry/started"
                THEN g[e.retryId].state = "started" /\ Apply(v, e).pendingRetries = v.pendingRetries
                ELSE /\ g[e.retryId].state = "cancelled"
                     /\ Apply(v, e).pendingRetries = v.pendingRetries \ {e.retryId}
<1> DEFINE w == ApplyRetry(v, e)
           x == IF e.type = "retry/started" THEN "started" ELSE "cancelled"
           g == [v.retries EXCEPT ![e.retryId] = [v.retries[e.retryId] EXCEPT !["state"] = x]]
           S == IF e.type = "retry/started" THEN v.pendingRetries ELSE v.pendingRetries \ {e.retryId}
<1>1. e.type \in RetryTypes
  BY DEF RetryTypes
<1>2. e.retryId \in DOMAIN v.retries /\ v.retries[e.retryId].state \in {"scheduled", "started"}
  <2>1. RetryOk(v, e)
    BY <1>1, Cases
  <2>2. CASE e.type = "retry/started"
    BY <2>1, <2>2 DEF RetryOk
  <2>3. CASE e.type = "retry/cancelled"
    BY <2>1, <2>3 DEF RetryOk
  <2> QED BY <2>2, <2>3
<1>3. w = [v EXCEPT !.retries = g, !.pendingRetries = S]
  BY DEF ApplyRetry, IsValidator, Fields
<1>4. \A y \in Fields \ {"count"} : Apply(v, e)[y] = w[y]
  BY <1>1, Cases, AppliedIsAssigned
<1>5. Retouched(v.retries, g, e.retryId, "state") /\ g[e.retryId]["state"] = x
  <2>1. "state" \in DOMAIN v.retries[e.retryId]
    BY <1>2 DEF Shaped, RetryFields
  <2> QED BY <1>2, <2>1, FieldReplaced
<1> HIDE DEF w, g
<1>6. w.retries = g /\ w.pendingRetries = S
  BY <1>3 DEF IsValidator, Fields
<1>7. Apply(v, e).retries = w.retries /\ Apply(v, e).pendingRetries = w.pendingRetries
  BY <1>4 DEF Fields
<1> QED BY <1>2, <1>5, <1>6, <1>7

\* What each event does to the compactions and the children.
LEMMA NestedApplied ==
  ASSUME NEW v, NEW e, IsValidator(v), Accepts(v, e)
  PROVE  /\ DOMAIN Apply(v, e).compactions =
              IF e.type = "compaction/start" THEN DOMAIN v.compactions \cup {e.compactionId}
              ELSE IF e.type = "compaction/end" THEN DOMAIN v.compactions \ {e.compactionId}
              ELSE DOMAIN v.compactions
         /\ Apply(v, e).subagents =
              IF e.type = "subagent/start" THEN v.subagents \cup {e.child}
              ELSE IF e.type = "subagent/end" THEN v.subagents \ {e.child} ELSE v.subagents
<1>1. CASE e.type \notin NestedTypes
  BY <1>1, FieldsStay DEF NestedFields, NestedTypes
<1>2. CASE e.type \in NestedTypes
  <2>1. /\ DOMAIN ApplyNested(v, e).compactions =
             IF e.type = "compaction/start" THEN DOMAIN v.compactions \cup {e.compactionId}
             ELSE IF e.type = "compaction/end" THEN DOMAIN v.compactions \ {e.compactionId}
             ELSE DOMAIN v.compactions
        /\ ApplyNested(v, e).subagents =
             IF e.type = "subagent/start" THEN v.subagents \cup {e.child}
             ELSE IF e.type = "subagent/end" THEN v.subagents \ {e.child} ELSE v.subagents
    BY <1>2 DEF ApplyNested, NestedTypes, IsValidator, Fields, Put
  <2> QED BY <1>2, <2>1, Cases, AppliedIsAssigned DEF Fields
<1> QED BY <1>1, <1>2

\* What each event does to the open turn and the suspension.
LEMMA TurnApplied ==
  ASSUME NEW v, NEW e, IsValidator(v), Accepts(v, e)
  PROVE  /\ e.type = "turn/start" =>
              /\ Apply(v, e).openTurn = e.turn /\ Apply(v, e).lastTurn = e.turn
              /\ Apply(v, e).suspension = v.suspension
         /\ e.type = "turn/suspend" =>
              /\ InStep(v, e) /\ v.suspension = None
              /\ e.callIds = UnresolvedIn(v, e) /\ e.approvalIds = PendingIn(v, e)
              /\ Apply(v, e).openTurn = v.openTurn /\ Apply(v, e).lastTurn = v.lastTurn
              /\ Apply(v, e).suspension.turn = e.turn /\ Apply(v, e).suspension.step = e.step
              /\ Apply(v, e).suspension.callIds = e.callIds
              /\ Apply(v, e).suspension.approvalIds = e.approvalIds
         /\ e.type = "turn/resume" =>
              /\ Apply(v, e).openTurn = v.openTurn /\ Apply(v, e).lastTurn = v.lastTurn
              /\ Apply(v, e).suspension = None
         /\ e.type = "turn/end" =>
              /\ v.openStep = None
              /\ Apply(v, e).openTurn = None /\ Apply(v, e).lastTurn = v.lastTurn
              /\ Apply(v, e).suspension = v.suspension
         /\ e.type \notin TurnTypes =>
              /\ Apply(v, e).openTurn = v.openTurn /\ Apply(v, e).lastTurn = v.lastTurn
              /\ Apply(v, e).suspension = v.suspension
<1>1. CASE e.type \notin TurnTypes
  BY <1>1, FieldsStay DEF TurnFields, TurnTypes
<1>2. CASE e.type \in TurnTypes
  <2>1. TurnOk(v, e)
    BY <1>2, Cases
  <2> DEFINE w == ApplyTurn(v, e)
  <2>2. /\ Apply(v, e).openTurn = w.openTurn /\ Apply(v, e).lastTurn = w.lastTurn
        /\ Apply(v, e).suspension = w.suspension
    BY <1>2, Cases, AppliedIsAssigned DEF Fields
  <2>3. CASE e.type = "turn/start"
    BY <2>2, <2>3 DEF ApplyTurn, IsValidator, Fields, TurnTypes
  <2>4. CASE e.type = "turn/suspend"
    <3> DEFINE s == [turn |-> e.turn, step |-> e.step, callIds |-> e.callIds,
                     approvalIds |-> e.approvalIds]
    <3>1. w = [v EXCEPT !.suspension = s]
      BY <2>4 DEF ApplyTurn
    <3>3. /\ s.turn = e.turn /\ s.step = e.step /\ s.callIds = e.callIds
          /\ s.approvalIds = e.approvalIds
      OBVIOUS
    <3> HIDE DEF s, w
    <3>4. w.suspension = s /\ w.openTurn = v.openTurn /\ w.lastTurn = v.lastTurn
      BY <3>1 DEF IsValidator, Fields
    <3>2. /\ InStep(v, e) /\ v.suspension = None
          /\ e.callIds = UnresolvedIn(v, e) /\ e.approvalIds = PendingIn(v, e)
      BY <2>1, <2>4 DEF TurnOk
    <3> QED BY <2>2, <2>4, <3>2, <3>3, <3>4 DEF TurnTypes
  <2>5. CASE e.type = "turn/resume"
    BY <2>2, <2>5 DEF ApplyTurn, IsValidator, Fields, TurnTypes
  <2>6. CASE e.type = "turn/end"
    BY <2>1, <2>2, <2>6 DEF TurnOk, ApplyTurn, IsValidator, Fields, TurnTypes
  <2> QED BY <1>2, <2>3, <2>4, <2>5, <2>6 DEF TurnTypes
<1> QED BY <1>1, <1>2

\* What each event does to the open step.
LEMMA StepApplied ==
  ASSUME NEW v, NEW e, IsValidator(v), Accepts(v, e)
  PROVE  /\ e.type = "step/start" => v.openTurn = e.turn /\ Apply(v, e).openStep = e.step
         /\ e.type = "step/end" => Apply(v, e).openStep = None
         /\ e.type \notin StepTypes => Apply(v, e).openStep = v.openStep
<1>1. CASE e.type \notin StepTypes
  BY <1>1, FieldsStay DEF StepFields, StepTypes
<1>2. CASE e.type \in StepTypes
  <2>1. StepOk(v, e)
    BY <1>2, Cases
  <2>2. Apply(v, e).openStep = ApplyStep(v, e).openStep
    BY <1>2, Cases, AppliedIsAssigned DEF Fields
  <2>3. ApplyStep(v, e).openStep = IF e.type = "step/start" THEN e.step ELSE None
    BY <1>2 DEF ApplyStep, IsValidator, Fields
  <2> QED BY <1>2, <2>1, <2>2, <2>3 DEF StepOk, StepTypes
<1> QED BY <1>1, <1>2
=============================================================================
