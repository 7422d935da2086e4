------------------------------ MODULE PortForwards ------------------------------
(***************************************************************************)
(* The SSH port forwards of one connection (createForwardManager in        *)
(* ssh-native/src/forwards.ts).                                            *)
(*                                                                         *)
(* Every forward is an Entry with an ssh child of its own.  Operations on  *)
(* the entries of a connection run one after the other in a queue; child   *)
(* exits, timers, the resume of the machine and the shutdown do not enter  *)
(* it.  A caller names a forward, and start, stop and remove look the      *)
(* Entry up when they are called, not when their turn comes.               *)
(*                                                                         *)
(* Left out: the store file, what ssh prints (only the verdict on its exit *)
(* matters) and the length of the backoff.                                 *)
(***************************************************************************)
EXTENDS Naturals, Sequences, FiniteSets

CONSTANTS
  Ports, Targets,  (* a forward joins a local port to a target *)
  MaxEntries,      (* bound: Entry objects made *)
  MaxSpawns,       (* bound: ssh children; the next spawn fails *)
  MaxCalls,        (* bound: operations called *)
  MaxResumes       (* bound: resumes of the machine *)

ASSUME ForwardsAssumption ==
  /\ Ports # {} /\ Targets # {}
  /\ MaxEntries \in Nat \ {0} /\ MaxSpawns \in Nat
  /\ MaxCalls \in Nat /\ MaxResumes \in Nat

None == 0
Forwards == [port : Ports, to : Targets]
Objects == 1 .. MaxEntries
Kids == 1 .. MaxSpawns
Desires == {"running", "stopped"}
States == {"starting", "active", "reconnecting", "error", "stopped"}

VARIABLES
  entries,  \* the map from forwards to Entry objects, None where absent
  ent,      \* the Entry objects
  made,     \* number of Entry objects made
  kids,     \* the ssh children: entry and generation they were spawned for
  spawned,  \* number of children spawned
  queue,    \* the connection's operations, the first one running
  waiting,  \* the child whose exit the first operation awaits, None otherwise
  down,     \* shutdownFlag
  calls, resumes,
  overtaken \* history: forwards with a start() or remove() called behind a remove()

vars == <<entries, ent, made, kids, spawned, queue, waiting, down, calls, resumes,
          overtaken>>

------------------------------------------------------------------------------
NoEntry == [fwd |-> None, desired |-> "stopped", state |-> "stopped", attempt |-> 0,
            gen |-> 0, child |-> None, exit |-> None, timer |-> {}]

\* makeEntry.  attempt is 0 or 1, which stands for every larger count; exit is
\* the child of childExit; timer holds the generation backoffTimer was set in.
Entry(f, desired, state) ==
  [NoEntry EXCEPT !.fwd = f, !.desired = desired, !.state = state]

Alive(k) == k # None /\ kids[k].alive

\* A handler of child k belongs to the past.
Stale(k) ==
  LET o == kids[k].obj
  IN  entries[ent[o].fwd] # o \/ ent[o].gen # kids[k].gen \/ ent[o].child # k

Killed(ks) == [k \in Kids |-> [kids[k] EXCEPT !.killed = @ \/ k \in ks]]

\* clearTimers and scheduleRetry
Unarmed(e) == [e EXCEPT !.timer = {}]
Armed(e) ==
  IF down \/ e.desired # "running" THEN e
  ELSE [e EXCEPT !.timer = {e.gen}, !.attempt = 1]

\* Mutant: a retry is valid whatever happened since the timer was set.
RetryAlwaysValid(o, gen) == ent[o].desired = "running"

\* The timer callback and the retry it enqueues look at the entry again.
RetryValid(o, gen) ==
  entries[ent[o].fwd] = o /\ ent[o].gen = gen /\ ent[o].desired = "running"

------------------------------------------------------------------------------
(* spawnAttempt: the entries in S, at their values in es, each spawn an ssh  *)
(* child or fail to; ks are the children as they were left before.           *)

MaySpawn(e) == ~down /\ e.desired = "running"

Spawned(e, k) ==
  [e EXCEPT !.state = IF e.attempt = 0 THEN "starting" ELSE "reconnecting",
            !.child = k, !.exit = k]

SpawnFails(e) == [e EXCEPT !.state = "error"]

\* The child the n-th entry of S spawns.
KidFor(S, o) == spawned + Cardinality({p \in S : p <= o})

SpawnAttempts(S, es, ks) ==
  LET wanted == {o \in S : MaySpawn(es[o])}
  IN  \E ok \in SUBSET wanted :
        /\ spawned + Cardinality(ok) <= MaxSpawns
        /\ spawned' = spawned + Cardinality(ok)
        /\ ent' = [o \in Objects |->
             IF o \in ok THEN Spawned(es[o], KidFor(ok, o))
             ELSE IF o \in wanted THEN SpawnFails(es[o]) ELSE es[o]]
        /\ kids' = [k \in Kids |->
             IF \E o \in ok : KidFor(ok, o) = k
               THEN LET o == CHOOSE p \in ok : KidFor(ok, p) = k
                    IN  [obj |-> o, gen |-> es[o].gen, alive |-> TRUE, killed |-> FALSE]
               ELSE ks[k]]

SpawnAttempt(o, es, ks) == SpawnAttempts({o}, es, ks)

------------------------------------------------------------------------------
(* The operations of the queue.                                              *)

Done ==
  /\ queue' = Tail(queue)
  /\ waiting' = None

\* Mutant: the new child is spawned without waiting for the old one's exit.
RebindsAtOnce(o, es, ks) ==
  /\ SpawnAttempt(o, es, ks) /\ Done

\* Await the exit of the entry's child, then spawn.
SpawnAfterExit(o, es, ks) ==
  \/ /\ Alive(es[o].exit)
     /\ ent' = es /\ kids' = ks
     /\ waiting' = es[o].exit
     /\ UNCHANGED <<spawned, queue>>
  \/ /\ ~Alive(es[o].exit)
     /\ SpawnAttempt(o, es, ks)
     /\ Done

\* Mutant: a restarted entry keeps its generation.
RestartedSameGen(e) ==
  [e EXCEPT !.desired = "running", !.attempt = 0, !.state = "starting"]

\* restart.  The backoff timer is not cleared: it belongs to an old generation.
Restarted(e) ==
  [e EXCEPT !.desired = "running", !.gen = @ + 1, !.attempt = 0, !.state = "starting"]

Restart(o) ==
  SpawnAfterExit(o, [ent EXCEPT ![o] = Restarted(@)], Killed({ent[o].child}))

PortTaken(f) ==
  \E g \in Forwards : /\ entries[g] # None /\ g.port = f.port
                      /\ ent[entries[g]].desired = "running"

RunAdd(f) ==
  \/ /\ entries[f] # None /\ ent[entries[f]].desired = "running"
     /\ Done
     /\ UNCHANGED <<entries, ent, made, kids, spawned>>
  \/ /\ entries[f] # None /\ ent[entries[f]].desired = "stopped"
     /\ Restart(entries[f])
     /\ UNCHANGED <<entries, made>>
  \/ /\ entries[f] = None /\ PortTaken(f)
     /\ Done
     /\ UNCHANGED <<entries, ent, made, kids, spawned>>
  \/ /\ entries[f] = None /\ ~PortTaken(f)
     /\ made' = made + 1
     /\ entries' = [entries EXCEPT ![f] = made']
     /\ SpawnAttempt(made', [ent EXCEPT ![made'] = Entry(f, "running", "starting")], kids)
     /\ Done

\* Mutant: stopping leaves the child alone.
KilledNone(k) == kids

\* stopEntry kills the child, first SIGTERM and then SIGKILL.
KilledBy(k) == Killed({k})

\* stopEntry, up to the exit of the child ...
Stopping(e) == [Unarmed(e) EXCEPT !.desired = "stopped", !.gen = @ + 1]
Stopped(e) == [e EXCEPT !.child = None, !.state = "stopped"]

\* ... and, for remove, the deletion of whatever entry the forward has then.
Finish(op, o, es) ==
  /\ ent' = [es EXCEPT ![o] = Stopped(@)]
  /\ entries' = IF op = "remove" THEN [entries EXCEPT ![ent[o].fwd] = None] ELSE entries
  /\ Done

RunStop(op, o) ==
  LET es == [ent EXCEPT ![o] = Stopping(@)]
  IN  /\ kids' = KilledBy(ent[o].child)
      /\ \/ /\ Alive(ent[o].child)
            /\ ent' = es
            /\ waiting' = ent[o].exit
            /\ UNCHANGED <<entries, queue>>
         \/ /\ ~Alive(ent[o].child)
            /\ Finish(op, o, es)
      /\ UNCHANGED <<made, spawned>>

Listed == {o \in Objects : \E f \in Forwards : entries[f] = o}

\* Mutant: ensure starts every forward that is to run.
EnsuresRunning(o) == o \in Listed /\ ent[o].desired = "running"

\* ensure starts what was restored as running and never started.
Ensures(o) ==
  /\ o \in Listed
  /\ ent[o].desired = "running" /\ ent[o].state = "stopped" /\ ent[o].child = None

RunEnsure ==
  LET S == {o \in Objects : Ensures(o)}
  IN  /\ SpawnAttempts(S, [o \in Objects |->
           IF o \in S THEN [ent[o] EXCEPT !.gen = @ + 1, !.attempt = 0] ELSE ent[o]], kids)
      /\ Done
      /\ UNCHANGED <<entries, made>>

RunRetry(o, gen) ==
  /\ \/ /\ RetryValid(o, gen)
        /\ SpawnAfterExit(o, ent, kids)
     \/ /\ ~RetryValid(o, gen)
        /\ Done
        /\ UNCHANGED <<ent, kids, spawned>>
  /\ UNCHANGED <<entries, made>>

\* The first operation of the queue runs up to its await.
RunOp ==
  /\ queue # <<>> /\ waiting = None
  /\ LET q == Head(queue) IN
       \/ q.op = "add" /\ RunAdd(q.fwd)
       \/ q.op = "start" /\ Restart(q.obj) /\ UNCHANGED <<entries, made>>
       \/ q.op \in {"stop", "remove"} /\ RunStop(q.op, q.obj)
       \/ q.op = "ensure" /\ RunEnsure
       \/ q.op = "retry" /\ RunRetry(q.obj, q.gen)
  /\ UNCHANGED <<down, calls, resumes, overtaken>>

\* The child it awaited has exited.
OpResumes ==
  /\ waiting # None /\ ~kids[waiting].alive
  /\ LET q == Head(queue)
         o == IF q.op = "add" THEN entries[q.fwd] ELSE q.obj
     IN  \/ /\ q.op \in {"stop", "remove"}
            /\ Finish(q.op, o, ent)
            /\ UNCHANGED <<kids, spawned>>
         \/ /\ q.op \in {"add", "start", "retry"}
            /\ SpawnAttempt(o, ent, kids)
            /\ Done
            /\ UNCHANGED entries
  /\ UNCHANGED <<made, down, calls, resumes, overtaken>>

------------------------------------------------------------------------------
(* Callers.                                                                  *)

Op(op, f, o, gen) == [op |-> op, fwd |-> f, obj |-> o, gen |-> gen]

Removing(f) ==
  \E i \in DOMAIN queue : queue[i].op = "remove" /\ ent[queue[i].obj].fwd = f

Adding == Cardinality({i \in DOMAIN queue : queue[i].op = "add"})

Call(op, f) ==
  /\ calls < MaxCalls
  /\ op = "add" => made + Adding < MaxEntries
  /\ op \in {"start", "stop", "remove"} => entries[f] # None
  /\ queue' = Append(queue, Op(op, f, entries[f], 0))
  /\ calls' = calls + 1
  /\ overtaken' = IF op \in {"start", "remove"} /\ Removing(f)
                    THEN overtaken \cup {f} ELSE overtaken
  /\ UNCHANGED <<entries, ent, made, kids, spawned, waiting, down, resumes>>

------------------------------------------------------------------------------
(* Children, timers, resume and shutdown.                                    *)

\* ssh reported that it listens, or the alive-timeout passed.
MarkActive(k) ==
  /\ Alive(k) /\ ~Stale(k)
  /\ ent[kids[k].obj].state # "active"
  /\ ent' = [ent EXCEPT ![kids[k].obj].state = "active"]
  /\ UNCHANGED <<entries, made, kids, spawned, queue, waiting, down, calls, resumes,
                 overtaken>>

\* The stability timer.
Stable(o) ==
  /\ ent[o].state = "active" /\ entries[ent[o].fwd] = o /\ ent[o].attempt # 0
  /\ ~down
  /\ ent' = [ent EXCEPT ![o].attempt = 0]
  /\ UNCHANGED <<entries, made, kids, spawned, queue, waiting, down, calls, resumes,
                 overtaken>>

\* Mutant: the timers are cleared last.
SettledUnarmed(e, permanent) ==
  IF e.desired = "stopped" THEN [Unarmed(e) EXCEPT !.child = None, !.state = "stopped"]
  ELSE IF permanent THEN [Unarmed(e) EXCEPT !.child = None, !.state = "error"]
  ELSE Unarmed(Armed([e EXCEPT !.child = None, !.state = "reconnecting"]))

\* onSettled, given the verdict on why the child exited.
Settled(e, permanent) ==
  IF e.desired = "stopped" THEN [Unarmed(e) EXCEPT !.child = None, !.state = "stopped"]
  ELSE IF permanent THEN [Unarmed(e) EXCEPT !.child = None, !.state = "error"]
  ELSE Armed([Unarmed(e) EXCEPT !.child = None, !.state = "reconnecting"])

KidExits(k, permanent) ==
  /\ Alive(k)
  /\ kids' = [kids EXCEPT ![k].alive = FALSE]
  /\ ent' = IF Stale(k) THEN ent
            ELSE [ent EXCEPT ![kids[k].obj] = Settled(@, permanent)]
  /\ UNCHANGED <<entries, made, spawned, queue, waiting, down, calls, resumes,
                 overtaken>>

TimerFires(o) ==
  /\ ent[o].timer # {}
  /\ ent' = [ent EXCEPT ![o].timer = {}]
  /\ \E gen \in ent[o].timer :
       queue' = IF RetryValid(o, gen)
                  THEN Append(queue, Op("retry", ent[o].fwd, o, gen)) ELSE queue
  /\ UNCHANGED <<entries, made, kids, spawned, waiting, down, calls, resumes,
                 overtaken>>

\* onResume sets the backoff timers anew, for retries without delay.
OnResume ==
  /\ resumes < MaxResumes
  /\ resumes' = resumes + 1
  /\ ent' = [o \in Objects |->
       IF /\ entries[ent[o].fwd] = o
          /\ ent[o].desired = "running" /\ ent[o].state \in {"reconnecting", "starting"}
          /\ ent[o].timer # {}
         THEN Armed(Unarmed(ent[o])) ELSE ent[o]]
  /\ UNCHANGED <<entries, made, kids, spawned, queue, waiting, down, calls,
                 overtaken>>

Shutdown ==
  /\ ~down
  /\ down' = TRUE
  /\ ent' = [o \in Objects |->
       IF o \in Listed THEN [Unarmed(ent[o]) EXCEPT !.gen = @ + 1] ELSE ent[o]]
  /\ kids' = Killed({ent[o].child : o \in Listed})
  /\ UNCHANGED <<entries, made, spawned, queue, waiting, calls, resumes,
                 overtaken>>

------------------------------------------------------------------------------
\* The forwards restored from the store are not started.
Init ==
  /\ \E n \in 0 .. MaxEntries : \E fs \in [1 .. n -> Forwards], d \in [1 .. n -> Desires] :
       /\ \A o, p \in 1 .. n : fs[o] = fs[p] => o = p
       /\ made = n
       /\ entries = [f \in Forwards |->
            IF \E o \in 1 .. n : fs[o] = f THEN CHOOSE o \in 1 .. n : fs[o] = f ELSE None]
       /\ ent = [o \in Objects |->
            IF o <= n THEN Entry(fs[o], d[o], "stopped")
            ELSE Entry(CHOOSE f \in Forwards : TRUE, "stopped", "stopped")]
  /\ kids = [k \in Kids |-> [obj |-> 1, gen |-> 0, alive |-> FALSE, killed |-> FALSE]]
  /\ spawned = 0
  /\ queue = <<>> /\ waiting = None
  /\ down = FALSE /\ calls = 0 /\ resumes = 0
  /\ overtaken = {}

Next ==
  \/ \E op \in {"add", "start", "stop", "remove", "ensure"}, f \in Forwards : Call(op, f)
  \/ RunOp
  \/ OpResumes
  \/ \E k \in Kids : MarkActive(k)
  \/ \E k \in Kids, permanent \in BOOLEAN : KidExits(k, permanent)
  \/ \E o \in Objects : Stable(o) \/ TimerFires(o)
  \/ OnResume
  \/ Shutdown

\* The queue moves on, timers fire, and a child that was sent a signal exits.
\* Nothing makes a healthy ssh exit.
Fairness ==
  /\ WF_vars(RunOp) /\ WF_vars(OpResumes)
  /\ \A o \in Objects : WF_vars(TimerFires(o))
  /\ \A k \in Kids : WF_vars(kids[k].killed /\ \E p \in BOOLEAN : KidExits(k, p))

Spec == Init /\ [][Next]_vars /\ Fairness

------------------------------------------------------------------------------
EntryType == [fwd : Forwards, desired : Desires, state : States, attempt : {0, 1}, gen : Nat,
              child : Kids \cup {None}, exit : Kids \cup {None}, timer : SUBSET Nat]
KidType == [obj : Objects, gen : Nat, alive : BOOLEAN, killed : BOOLEAN]
OpType == [op : {"add", "start", "stop", "remove", "ensure", "retry"},
           fwd : Forwards, obj : Objects \cup {None}, gen : Nat]

TypeOK ==
  /\ entries \in [Forwards -> Objects \cup {None}]
  /\ ent \in [Objects -> EntryType]
  /\ made \in 0 .. MaxEntries /\ spawned \in 0 .. MaxSpawns
  /\ kids \in [Kids -> KidType]
  /\ queue \in Seq(OpType)
  /\ waiting \in Kids \cup {None}
  /\ waiting # None => queue # <<>> /\ Head(queue).op # "ensure"
  /\ down \in BOOLEAN

\* The local port of a forward is released before it is bound again: no two
\* live ssh children belong to the same Entry, nor to the same forward unless
\* start() or remove() was called for it behind a pending remove(), whatever
\* order of adds behind removals, restarts, retries and slow exits.  (A start()
\* called while a remove() is queued or awaits an exit restarts the Entry it found,
\* which is removed by then and which the next add() knows nothing of.)
OneChildPerForward ==
  \A k, l \in Kids :
    LET o == kids[k].obj
        p == kids[l].obj
    IN  (/\ kids[k].alive /\ kids[l].alive /\ ent[o].fwd = ent[p].fwd
         /\ o = p \/ ent[o].fwd \notin overtaken) => k = l

\* A stopped forward stays down: every child it may still have is on its way out.
StoppedStaysDown ==
  \A k \in Kids : kids[k].alive /\ ent[kids[k].obj].desired = "stopped" => kids[k].killed

\* Every child that was not told to exit is the child its Entry knows, and the
\* Entry is listed unless start() or remove() was called for its forward behind
\* a pending remove(): remove() tears the forward down, and shutdown can reach
\* every child.
NoOrphans ==
  \A k \in Kids : kids[k].alive /\ ~kids[k].killed =>
    LET o == kids[k].obj
    IN  /\ ent[o].child = k
        /\ ent[o].fwd \notin overtaken => entries[ent[o].fwd] = o

\* A permanent failure (refused authentication, a taken port) is not tried
\* again unless a caller starts the forward, as long as the machine stays awake.
PermanentStaysDown ==
  [][resumes = 0 => \A o \in Objects :
       ent[o].state = "error" /\ ent'[o].child # ent[o].child /\ ent'[o].child # None
         => Head(queue).op \in {"add", "start"}]_vars

\* Every operation that was called ends: stop() resolves although a retry, an
\* exit or another operation is under way, as long as the machine stays awake.
OperationsEndAwake == queue # <<>> ~> (queue = <<>> \/ resumes > 0)

\* A forward that lost its connection is tried again: no order of exits, timers
\* and operations loses the retry.  (Unless the machine is resumed, which may
\* leave the queue standing: a backoff timer that start() left set then waits for
\* the new, healthy child.)
Disconnected(o) ==
  /\ entries[ent[o].fwd] = o /\ ent[o].desired = "running" /\ ~down
  /\ ent[o].state = "reconnecting" /\ ent[o].child = None
RetriesGoOn ==
  \A o \in Objects : Disconnected(o) ~> (~Disconnected(o) \/ resumes > 0)
==============================================================================
