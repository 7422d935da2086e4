---------------------------- MODULE ToolScheduler ----------------------------
(***************************************************************************)
(* The per-session tool scheduler of ai-registry-native                    *)
(* (class OrderedToolScheduler in scheduler.ts).                           *)
(*                                                                         *)
(* Calls are registered in the order the model emitted them.  A registered *)
(* call later receives an outcome: a body to run (execute) or a ready      *)
(* value (complete).  Bodies classified "safe" may overlap up to MaxSafe,  *)
(* an "exclusive" body runs alone, and terminal results are committed to   *)
(* the session history strictly in registration order, whatever the order  *)
(* in which the bodies return.  A body may return before the operation     *)
(* behind it has stopped (a timeout): its slot is held until it settles.   *)
(*                                                                         *)
(* One entry of #entries is a member of Calls; its fields run, started,    *)
(* ready and commit are represented by one phase:                          *)
(*    "free"        not registered yet                                     *)
(*    "registered"  no run, not ready                                      *)
(*    "queued"      run and commit set, not started                        *)
(*    "running"     started, body pending                                  *)
(*    "settling"    started and ready, slot still held                     *)
(*    "settled"     started and ready, slot released                       *)
(*    "completed"   ready through complete(), never started                *)
(*    "threw"       started, its run promise was rejected                  *)
(*    "stuck"       started and ready, its settled promise was rejected    *)
(***************************************************************************)
EXTENDS Naturals, Sequences, FiniteSets

CONSTANTS MaxCalls,  (* bound: calls registered with one scheduler *)
          MaxSafe    (* #maxSafeConcurrency, at least 1 by the constructor *)

ASSUME SchedulerAssumption ==
  /\ MaxCalls \in Nat \ {0}
  /\ MaxSafe \in Nat \ {0}

Calls == 1 .. MaxCalls
Kinds == {"safe", "exclusive"}
Phases == {"free", "registered", "queued", "running", "settling", "settled",
           "completed", "threw", "stuck"}

VARIABLES
  kind,              \* concurrency class of each entry
  phase,             \* see above
  runningSafe,       \* #runningSafe
  exclusiveRunning,  \* #exclusiveRunning
  nextCommit,        \* #nextCommit, the first entry not committed
  committing,        \* #committing: a commit() promise is awaited
  failed,            \* #failed # undefined
  outcome,           \* the promise handed to the caller
  commits            \* history: entries whose commit() resolved, in time order

vars == <<kind, phase, runningSafe, exclusiveRunning, nextCommit, committing,
          failed, outcome, commits>>

------------------------------------------------------------------------------
Registered == {i \in Calls : phase[i] # "free"}

\* Mutant: a returned value is not ready before its operation has stopped.
ReadyOnceSettled(p, i) == p[i] \in {"settled", "completed", "stuck"}

Ready(p, i) == p[i] \in {"settling", "settled", "completed", "stuck"}

\* The body of i occupies a concurrency slot.
Holds(i) == phase[i] \in {"running", "settling"}

\* Entries that are neither started nor ready, in a phase assignment p.
Waiting(p) == {i \in Calls : p[i] \in {"registered", "queued"}}

IsFirst(S, i) == i \in S /\ \A j \in S : i <= j

\* Mutant: the loop in #pump skips entries instead of stopping at them.
SafeAnywhere(p) ==
  {i \in Waiting(p) : p[i] = "queued" /\ kind[i] = "safe"}

\* Safe entries the loop in #pump may reach: everything waiting up to them is
\* safe and has a body.
SafeRun(p) ==
  {i \in Waiting(p) : \A j \in Waiting(p) : j <= i =>
      p[j] = "queued" /\ kind[j] = "safe"}

\* Mutant: an exclusive body does not wait for safe ones.
StartsBesideSafe(p, i, safe) ==
  IsFirst(Waiting(p), i) /\ p[i] = "queued" /\ kind[i] = "exclusive"

\* The first waiting entry is exclusive and no safe body runs.
StartsExclusive(p, i, safe) ==
  /\ IsFirst(Waiting(p), i) /\ p[i] = "queued" /\ kind[i] = "exclusive"
  /\ safe = 0

\* Mutant: one safe body too many.
StartsOneTooMany(p, i, safe) ==
  i \in SafeRun(p) /\ safe + Cardinality({j \in SafeRun(p) : j < i}) <= MaxSafe

\* A slot is left for entry i after the safe entries before it took theirs.
StartsSafe(p, i, safe) ==
  i \in SafeRun(p) /\ safe + Cardinality({j \in SafeRun(p) : j < i}) < MaxSafe

\* #pump: the entries it starts, given the slots in use.
PumpStarts(p, safe, exclusive, fail) ==
  IF fail \/ exclusive THEN {}
  ELSE {i \in Waiting(p) : StartsExclusive(p, i, safe) \/ StartsSafe(p, i, safe)}

\* The effect of #pump after an operation left the entries at p and the slot
\* counters at safe and exclusive.
Pump(p, safe, exclusive, fail) ==
  LET S == PumpStarts(p, safe, exclusive, fail)
  IN  /\ phase' = [i \in Calls |-> IF i \in S THEN "running" ELSE p[i]]
      /\ runningSafe' = safe + Cardinality({i \in S : kind[i] = "safe"})
      /\ exclusiveRunning' = (exclusive \/ \E i \in S : kind[i] = "exclusive")

Committable(p, i) == i \in Calls /\ Ready(p, i)

\* #commitReady called with the entries at p: it starts awaiting the next
\* commit unless a commit is awaited already or the scheduler failed.
CommitReady(p) ==
  committing' = (committing \/ (~failed /\ Committable(p, nextCommit)))

\* Mutant: only the entry to be committed next is rejected.
FailFirst ==
  /\ failed' = TRUE
  /\ outcome' = [i \in Calls |->
       IF ~failed /\ phase[i] # "free" /\ i = nextCommit
         THEN "rejected" ELSE outcome[i]]

\* #fail: the first error is kept and every uncommitted entry is rejected.
Fail ==
  /\ failed' = TRUE
  /\ outcome' = [i \in Calls |->
       IF ~failed /\ phase[i] # "free" /\ i >= nextCommit
         THEN "rejected" ELSE outcome[i]]

\* Mutant: the exclusive slot is not given back.
ExclusiveKept(i) == exclusiveRunning

\* The slot counters once the body of i has settled.
SafeAfter(i) == IF kind[i] = "safe" THEN runningSafe - 1 ELSE runningSafe
ExclusiveAfter(i) == kind[i] = "safe" /\ exclusiveRunning

------------------------------------------------------------------------------
Init ==
  /\ kind = [i \in Calls |-> "safe"]
  /\ phase = [i \in Calls |-> "free"]
  /\ runningSafe = 0
  /\ exclusiveRunning = FALSE
  /\ nextCommit = 1
  /\ committing = FALSE
  /\ failed = FALSE
  /\ outcome = [i \in Calls |-> "pending"]
  /\ commits = <<>>

\* register(): throws once the scheduler failed.
Register(i, k) ==
  /\ ~failed
  /\ phase[i] = "free"
  /\ \A j \in Calls : j < i => phase[j] # "free"
  /\ kind' = [kind EXCEPT ![i] = k]
  /\ phase' = [phase EXCEPT ![i] = "registered"]
  /\ UNCHANGED <<runningSafe, exclusiveRunning, nextCommit, committing, failed,
                 outcome, commits>>

\* execute(): an entry with a run or a value already refuses a second outcome.
Execute(i) ==
  /\ phase[i] = "registered"
  /\ Pump([phase EXCEPT ![i] = "queued"], runningSafe, exclusiveRunning, failed)
  /\ UNCHANGED <<kind, nextCommit, committing, failed, outcome, commits>>

\* complete(): a value without a body (a denied call, a result that is already
\* durable).
Complete(i) ==
  LET p == [phase EXCEPT ![i] = "completed"]
  IN  /\ phase[i] = "registered"
      /\ CommitReady(p)
      /\ Pump(p, runningSafe, exclusiveRunning, failed)
      /\ UNCHANGED <<kind, nextCommit, failed, outcome, commits>>

\* The promise of run() is fulfilled: the value is ready, the slot is kept.
BodyReturns(i) ==
  LET p == [phase EXCEPT ![i] = "settling"]
  IN  /\ phase[i] = "running"
      /\ phase' = p
      /\ CommitReady(p)
      /\ UNCHANGED <<kind, runningSafe, exclusiveRunning, nextCommit, failed,
                     outcome, commits>>

\* The promise of settled() is fulfilled: the slot is released and #pump runs.
BodySettles(i) ==
  /\ phase[i] = "settling"
  /\ Pump([phase EXCEPT ![i] = "settled"], SafeAfter(i), ExclusiveAfter(i), failed)
  /\ UNCHANGED <<kind, nextCommit, committing, failed, outcome, commits>>

\* The promise of run() is rejected: the slot counters keep their values.
BodyThrows(i) ==
  /\ phase[i] = "running"
  /\ phase' = [phase EXCEPT ![i] = "threw"]
  /\ Fail
  /\ UNCHANGED <<kind, runningSafe, exclusiveRunning, nextCommit, committing,
                 commits>>

\* The promise of settled() is rejected: the value stays ready.
SettleThrows(i) ==
  /\ phase[i] = "settling"
  /\ phase' = [phase EXCEPT ![i] = "stuck"]
  /\ Fail
  /\ UNCHANGED <<kind, runningSafe, exclusiveRunning, nextCommit, committing,
                 commits>>

\* Mutant: the loop passes over entries that are not ready yet.
CommitSkips ==
  /\ committing
  /\ commits' = Append(commits, nextCommit)
  /\ outcome' = [outcome EXCEPT ![nextCommit] =
                   IF @ = "pending" THEN "resolved" ELSE @]
  /\ \E i \in nextCommit + 1 .. MaxCalls + 1 :
       /\ \A j \in nextCommit + 1 .. i - 1 : ~Ready(phase, j)
       /\ i <= MaxCalls => Ready(phase, i)
       /\ nextCommit' = i
       /\ committing' = Committable(phase, i)
  /\ UNCHANGED <<kind, phase, runningSafe, exclusiveRunning, failed>>

\* The awaited commit() resolves: the entry's promise is resolved (without
\* effect if #fail rejected it meanwhile) and the loop looks at the next entry.
CommitResolves ==
  /\ committing
  /\ commits' = Append(commits, nextCommit)
  /\ outcome' = [outcome EXCEPT ![nextCommit] =
                   IF @ = "pending" THEN "resolved" ELSE @]
  /\ nextCommit' = nextCommit + 1
  /\ committing' = Committable(phase, nextCommit + 1)
  /\ UNCHANGED <<kind, phase, runningSafe, exclusiveRunning, failed>>

\* The awaited commit() is rejected.
CommitThrows ==
  /\ committing
  /\ committing' = FALSE
  /\ Fail
  /\ UNCHANGED <<kind, phase, runningSafe, exclusiveRunning, nextCommit, commits>>

Next ==
  \/ \E i \in Calls, k \in Kinds : Register(i, k)
  \/ \E i \in Calls : Execute(i)
  \/ \E i \in Calls : Complete(i)
  \/ \E i \in Calls : BodyReturns(i)
  \/ \E i \in Calls : BodySettles(i)
  \/ \E i \in Calls : BodyThrows(i)
  \/ \E i \in Calls : SettleThrows(i)
  \/ CommitResolves
  \/ CommitThrows

\* A body that started returns or throws (toolTimeoutMs rejects one that does not);
\* that its operation then stops is the contract of a tool, whose signal is aborted.
\* An awaited commit ends.  Nothing is assumed of callers.
Fairness ==
  /\ \A i \in Calls : WF_vars(BodyReturns(i) \/ BodyThrows(i))
  /\ \A i \in Calls : WF_vars(BodySettles(i) \/ SettleThrows(i))
  /\ WF_vars(CommitResolves \/ CommitThrows)

Spec == Init /\ [][Next]_vars /\ Fairness

------------------------------------------------------------------------------
TypeOK ==
  /\ kind \in [Calls -> Kinds]
  /\ phase \in [Calls -> Phases]
  /\ runningSafe \in Nat
  /\ exclusiveRunning \in BOOLEAN
  /\ nextCommit \in Nat \ {0}
  /\ committing \in BOOLEAN
  /\ failed \in BOOLEAN
  /\ outcome \in [Calls -> {"pending", "resolved", "rejected"}]
  /\ commits \in Seq(Calls)

\* An exclusive body shares the scheduler with no other body, including one
\* whose value has been returned but whose operation is still stopping.
ExclusiveRunsAlone ==
  \A i, j \in Calls :
    Holds(i) /\ Holds(j) /\ kind[i] = "exclusive" => i = j

\* No more than MaxSafe safe bodies occupy slots, stopping ones included.
SafeWithinCapacity ==
  Cardinality({i \in Calls : Holds(i) /\ kind[i] = "safe"}) <= MaxSafe

\* Results are committed once each, in registration order, whatever the order
\* in which bodies return.
CommitsInCallOrder ==
  /\ Len(commits) = nextCommit - 1
  /\ \A n \in 1 .. Len(commits) : commits[n] = n

\* A caller sees a result only when the results of all earlier calls have been
\* committed and seen: neither bodies that return in any order, nor a rejection
\* by #fail while a commit is awaited, lets a later promise resolve first.
ResolvedAreCommittedPrefix ==
  \A i \in Calls : outcome[i] = "resolved" =>
    \A j \in 1 .. i : outcome[j] = "resolved" /\ j < nextCommit

\* After a failure no caller is left waiting on a promise nobody will settle.
FailureLeavesNoCallerWaiting ==
  failed => \A i \in Registered : outcome[i] # "pending"

\* The entries of class k whose slot is taken in a phase assignment p: a body
\* that threw, or whose settled() was rejected, never gives its slot back.
SlotsTaken(p, k) ==
  {i \in Calls : kind[i] = k /\ p[i] \in {"running", "settling", "threw", "stuck"}}

\* The counters #pump decides by say what the entries hold, after every order
\* of returns, settlements and failures: #runningSafe is the number of safe
\* slots, #exclusiveRunning tells whether the exclusive one is taken.
CountersMatchSlots ==
  /\ runningSafe = Cardinality(SlotsTaken(phase, "safe"))
  /\ exclusiveRunning <=> SlotsTaken(phase, "exclusive") # {}

\* A body starts only when every earlier call has started or is ready, and no
\* earlier exclusive body still holds its slot.
StartsBehindBarriers ==
  [][\A i \in Calls : phase[i] # "running" /\ phase'[i] = "running" =>
       \A j \in Calls : j < i =>
         /\ phase'[j] \notin {"free", "registered", "queued"}
         /\ (kind[j] = "exclusive" \/ kind[i] = "exclusive")
              => phase'[j] \notin {"running", "settling"}]_vars

\* A call with a body ends (its promise is settled) once every earlier call has
\* been given its outcome: no wake-up of #pump or #commitReady is missed.
GivenOutcomeIsServed ==
  \A i \in Calls :
    (phase[i] = "queued" /\ \A j \in Calls : j < i => phase[j] # "registered")
      ~> outcome[i] # "pending"
==============================================================================
