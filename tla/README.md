# Verification of the termco plugins

TLA+ models, TLC runs and TLAPS proofs for the parts of the termco plugin
repository whose correctness depends on the order of events: who writes to a
session history, which tool bodies may overlap and run again, how a chat turn is closed
and repaired, which ssh child owns a local port, which CLI process works for a
coding-agent run, and what of the preferences reaches the disk.

All paths below are relative to `src/plugins/` unless they start with `src/`.

| module | models | lines of the source |
| --- | --- | --- |
| `ToolScheduler` | the per-session tool scheduler | `ai-registry-native/src/scheduler.ts` |
| `SessionValidator`, `SessionValidatorProofs` | the rules of a session history | `session-base/src/invariants.ts` |
| `SessionEvents`, `SessionEventsProofs` | histories, refused batches, torn tails and their repair | `session-base/src/invariants.ts`, `repair.ts` |
| `ToolExecution`, `ToolExecutionProofs` | the tool executor between chat, scheduler and history | `ai-registry-native/src/executor.ts`, `ai-chat-native/src/chatRuntime.ts`, `runtime.ts` |
| `ChatTurn`, `ChatTurnProofs` | sends, retries, recording and closing of chat turns, Stop | `ai-chat-native/src/chatRuntime.ts`, `runtime.ts`, `requestRetry.ts` |
| `SessionLog` | what the session contract promises | `session-base/src/persistence.ts` |
| `SessionStore`, `SessionStoreProofs` | the session owner over the JSONL adapter | `session-native/src/index.ts`, `jsonlPersistence.ts` |
| `PortForwards`, `PortForwardsProofs` | the SSH port forwards of one connection | `ssh-native/src/forwards.ts` |
| `CodingAgents`, `CodingAgentsProofs` | one coding-agent run, from the roster to the CLI | `coding-agent-native/src/driver.ts`, `main.ts`, `persistence.ts`, `ui/` |
| `Preferences`, `PreferencesProofs` | the preferences facade over the settings file | `storage-json/src/storage.ts`, `preferences-json/src/preferences.ts` |
| `MC*` | instances for TLC | |

Run a check with `tlc -config <cfg> <MC module>`, the proofs of a component with
`tlapm <component>Proofs.tla`; those of the scheduler are the first part of
`ToolExecutionProofs`, of the executor that drives it. `PROJECT.json` lists
components, runs, mutants (the plausible bugs each property was tried against),
the definitions and the lines they stand for, hazards, findings and theorems.

## 1. Inventory

termco is a desktop application (Electron): terminals, editor, git, SSH rigs
and AI agents. Every feature is a plugin with a main-process part and a
renderer part, connected by commands (request, reply), channels and broadcast
events. The plugins live in one event loop per process, so the hard behaviours
come from awaits, timers, child processes, the two-process split, and the disk.

### Components with a protocol of their own

**Tool scheduler** (`ai-registry-native/src/scheduler.ts`). State: the entries
of a session's tool calls in the order the model emitted them, two slot
counters, the index of the next commit, a failure. Operations: `register`,
`execute`, `complete`; callbacks: a body returns, settles, or throws, a commit
resolves or is rejected. Hard: bodies overlap and return in any order, return
before they stop, and commits are asynchronous. Correct when exclusive bodies
run alone, safe ones stay within the capacity, results are committed once each
in call order, and no caller waits for ever.

**Tool executor** (`ai-registry-native/src/executor.ts`). State, per session and
call: the registration, the approval record, the execution or completion in
progress, and a scheduler. Operations: register, persist the call, request and
decide approvals, execute, complete with a given result, store the result;
recovery of calls, approvals and results from the history after a restart. Hard:
every step is persisted before the next one, a failure or a restart may fall
between any two, and results are committed in the order of registration. Correct
when a body runs on a recorded call and decision, runs again only if its result
was lost, callers are told what the history holds, and closing a turn ends.

**Session history owner and JSONL store** (`session-native`). State: a lane per
session, the cached head, the adapter's controllers (log, durable revision,
commits held in memory), the file. Operations: `create`, `append` with a
durability, `flush`, `loadForContinuation` (discard a torn tail, repair an open
one), `inspect`, `list`, `readWindow`, `fork`, `remove`, `enforceRetention`,
`dispose`. Hard: writers are serialized but readers are not, writes fail or are
cut by a crash. Correct when the file is never corrupt, what was acknowledged
stays to the degree that was promised, and the session behaves as an
append-only log.

**Session events** (`session-base/src/invariants.ts`, `repair.ts`). State: the
maps and pointers of an incremental validator (turns, steps, requests and their
attempts, calls, approvals, results, retries, compactions, child sessions).
Operations: append a batch (all or nothing, with an undo log), plan the repair of
an open tail. Hard: which of dozens of legal orders leaves a tail that can
still be closed. Correct when the incremental validator equals a fresh one, and
every tail a crash can leave is closed by events the validator takes.

**Chat runtime** (`ai-chat-native/src/chatRuntime.ts`, `runtime.ts`,
`requestRetry.ts`). State, per session: a queue of history jobs
(`enqueueSession`), the gate that closes a turn before the next one opens, per
send a handle (turn, step), the retry loop of its request, and a recorder with a
mapping lane and a persistence lane. Operations: send, retry, next step, end of
the response, Stop, resume of a suspended turn, repair. Hard: the response, its
recording, the closure and a Stop are four chains of promises, and each append
may be refused or fail. Correct when what was streamed is recorded in the step
it belongs to, a closure that succeeds closed the turn, repairs touch abandoned
turns only, and no send waits for ever.

**SSH port forwards** (`ssh-native/src/forwards.ts`). State: the entries with
their intent, generation, child and timers; a queue per connection. Operations:
`add`, `start`, `stop`, `remove`, `ensure`, retries, `onResume`, `shutdown`;
callbacks: ssh reports it listens, ssh exits, timers. Hard: the queue awaits
child exits while handlers, timers, resume and shutdown do not enter it.
Correct when a forward has one child at a time, nothing runs on after `stop`,
`remove` or `shutdown`, a lost connection is retried, every operation ends.

**Coding-agent runs** (`coding-agent-native`). State: the driver's `Run` (child,
mode, flags, remembered rules), pending approvals, the run store's record, the
renderer's view with a queued follow-up. Operations: start, input, approve,
abort, end, forget; callbacks: session, permission question, turn end, error,
close, approval timeout, quit. Hard: driver, store and view each have an
opinion on the run's status, and exchange messages. Correct when no CLI is left
behind, turns never overlap, a run ends once, no message and no question is lost,
and the three opinions meet.

**JSON storage and preferences** (`storage-json`, `preferences-json`). State: one
`StoreState` per open path, a chain of writes per path, the file; the facade's
values, which of them the user authored or the provider brought, the binding.
Operations: `open`, `save`, `close`; `set`, `delete`, `bind`, unbind. Hard: the
facade stays while its storage leaves and returns, and calls in progress see the
binding they find after their save. Correct when what a call stored is on disk
once it resolves, stays there, and listeners hear the last value.

**Others with concurrency**: terminal processes (`pty-native`:
close deadlines), renderer pool (`terminal-surface-native`: slots and eviction),
language servers (`lsp-native`: documents, crash budget), SSH connections
(`ssh-native`), MCP client and server, workflows, file watching.

**Without a protocol worth a model**: providers' request formats, tool bodies
that call one capability, presentation, settings pages, themes, contract
packages, release scripts. `PROJECT.json` lists every plugin with its reason.

### How they interact

The executor registers a call with the scheduler of its session, appends the
call, approval and result events to the session owner as `flushed`, and lets the
scheduler decide when the body runs and when its result is committed. The chat
runtime continues a session with `loadForContinuation`, appends what it records,
registers the calls of the stream in order, and closes them when a turn ends.
The coding-agent driver emits every event through one choke point to the journal
(a session), the run store and the renderer. Forwards, terminals and agents own
child processes and end them in the application's quit sequence.

## 2. Modules

### ToolScheduler

One entry of `#entries` is a number in `Calls`; its fields are one `phase`. The
actions are the three operations and the promise callbacks, each with the calls
of `#pump` and `#commitReady` it ends in. `commits` is a history variable.

### SessionValidator and SessionEvents

`SessionValidator` translates `createSessionHistoryValidator`: `Accepts` are the
checks of one event, `Apply` its effects, `Remembers` the keys the undo log
saves first, `Checked` one pass of the loop of `append`, `Loop` the loop,
`AppendBatch` the loop and, after a refusal, `Restore` from the undo maps. What a
map had for a key is a set of at most one value, empty for `undefined`. An event
carries the
identifiers the rules compare and no payload; parsing is left out. It has no
variables: `SessionEvents`, `ToolExecution` and `ChatTurn` use it for the history
they append to.

`SessionEvents` grows a history event by event and in batches that are refused
half way, lets a crash leave any prefix, and repairs it with `Plan`
(`planSessionTailRepair`), whose own append may be cut short (`MaxRepairs`).
`Plan` has one operator for each group of events the code pushes, from
`Decisions` to `EndTurn`; the order inside a group, that of a JavaScript map, is
open. `EventsAssumption` says that a beginning is a legal history no crash has
touched, and that ids are not the `undefined` they are compared with (`Defined`).
`setting` is the alphabet a behaviour draws from.

### ToolExecution

It extends `ToolScheduler` and calls its operations; a call of the model has a
place in the scheduler from `registerCall` on. `ex` is the executor's memory,
lost in a crash, `disk` the history (the validator's view, decisions, results),
`chat` the callers: the stream recorder that registers calls in order (at the
turn and step they were emitted in, `made`), the SDK
that executes calls which need no approval, the user's answers, the closure of
the turn and the Stop of a suspended one. A Stop aborts the signal of the bodies
the SDK asked for (`aborted`). An append is one action, which may
fail with or without its event on disk. Abstractions: the closure waits for the
recorder without the ten seconds' limit of `drain`; a stream ends normally or is
stopped, and its end by a fatal error of the provider (`closeFailedTurn`, which
terminates the calls that wait for a human too) is left out; so are results and
errors the SDK reports itself; several writers of one call wait for the repair of a
continuation to end. Two restrictions have names: `sorted` in a setting (the
provider's call ids sort in the order it emits the calls) and `UserWrites` (the
user may send a message to a suspended turn).

### ChatTurn

`queue` are the jobs of `enqueueSession`, one action each when they are served.
`tx` is one `sendMessages` call: where it stands, its handle, its retry
loop, what the provider does next; `rec` its recorder (parts to map, the chunk
batch, the persistence lane); `gate` its `TurnClosureState`; `active` the closure
registered for the session. One action is the code between two awaits. The SDK
and the provider are outside: they produce output, finish a step, fail or end at
any moment, and end once aborted. Abstractions: tool calls are `ToolExecution`'s
subject, so no turn is suspended here; sends do not overlap (the composer is
disabled while the SDK is busy), but the next one may begin before the
turn of the last is closed; the read by which `appendForOpenHandle` judges a
refused append is one step with the refusal; a request is named by its step.

### SessionLog and SessionStore

`SessionStore` cuts every lane operation at each await on the file system. The
file is a sequence of complete lines, a flag for torn bytes after the last
newline, and the number of lines that survive a power loss. A commit is a
revision and an identity; it stands for a batch of events, so the revision also
determines the tail sequence number. Readers (`list`, `inspect`, `readWindow`)
run outside the lane, as in the code: they remember the controller that was
cached when they were called and replace it when the read returns. Whether the
events leave a turn open is a free choice.

`SessionLog` is the abstract specification: commits get consecutive revisions, a
prefix is written, a shorter one is synced, a crash forgets what is beyond. With
no readers `SessionStore` implements it (`ImplementsSessionLog`), with the log
mapped to the longer of the cached controller and the file.

### PortForwards

Entries are objects apart from the map that lists them, because `start`, `stop`
and `remove` look an entry up when they are called and act on it later. An
operation of the queue runs up to its await of a child's exit (`waiting`) and
goes on in `OpResumes`. Handlers check the generation and the child (`Stale`).
`attempt` is 0 or 1, the latter for every larger count. Calls come in any order;
the history variable `overtaken` keeps the forwards for which `start` or `remove`
was called while a `remove` of theirs was pending, whose Entry may be gone when
their turn comes. The ports panel does not prevent that.

### CodingAgents

`current`, `run`, `kids`, `cards` are the driver's `runs`, `Run` objects, child
processes and pending approvals; `saved` is the status of the run store; `view`
is the renderer's view; `toMain` and `toUi` are the two message queues.
A `Run` object stays in `run` after the driver forgot it, because the
handlers of its child still hold it. `Refusal` is what a CLI under root may have
printed before it closed. Messages are numbered, and `shown` holds those the
transcript presents as sent. The timer of an approval is a state of its own: it
is cleared where the code clears it, and what it finds when it fires is decided
then. A question may reach the driver after its process ended the turn or closed.

`setting` holds the circumstances of a behaviour, chosen at its start: the
permission mode, whether the host refuses full-auto, whether CLIs may fail to
start, and whether the application may quit.

### Preferences

`heap` are `StoreState` objects, apart from `store` (`stores.get(path)`), because
queued writes hold the state they were queued for. `writes` is the promise chain
of the path, `io` the snapshot of the write under way; a write lands or fails as
a whole (temporary file and rename). `Resolved` is what follows the save in
`set`, `delete` and `close`; `mem` the facade. One storage provider at a time:
`ProviderChanges` puts another one with its own file in place once the last write
of the old one ended. `env.calm` says whether the kernel takes the storage away
only when no call waits for a write.

## 3. Runs

| run | instance | shows |
| --- | --- | --- |
| `scheduler` | 4 calls, 2 safe slots | slots, barriers, order of starts, callers see a committed prefix, failure, progress |
| `store` | 3 commits, 2 failing file operations, 1 crash, no readers | the file is never corrupt, acknowledged commits stay, refinement of `SessionLog`, the lane moves on |
| `store_readers` | 2 commits, 1 crash, 1 reader | flushed lines stay when a reader replaces the caches at any moment |
| `events` | 4 alphabets, 5 or 6 events after a fixed beginning, 1 torn repair | the validator equals a fresh one after refused batches, every tail is repairable, a suspension can be answered, a repair does not guess |
| `tools` | 2 calls of which some ask, 1 failing append, 1 crash | bodies run on record and again only if lost, results are taken, answers are durable; with sorted ids and nothing behind a call that asks but another one (no failure, no crash) a Stop closes the turn |
| `chat` | (sends, steps, attempts, stops, failing appends) = (2,1,1,1,1), (2,1,2,1,0), (1,2,2,0,1), (1,2,1,1,0) | chunks in their step, closures, repairs, completed turns, no send waits for ever, and no step before an append fails |
| `forwards` | 2 forwards on one local port, 3 calls, 2 children, 1 resume | calls in any order: one child per Entry, and per forward that is not `overtaken`; nothing left after stop, remove, shutdown; operations end, retries go on |
| `agents` | 2 messages, 3 processes, 1 question, 1 stop; a plain host, a host where CLIs fail to start, a root host | no orphan, one turn at a time, listeners are released, questions and stops end |
| `preferences` | 2 keys, 3 calls, 3 bindings, 1 failing write, 1 replaced provider | what resolved is in the file, listeners are current for every key whose last call resolved |
| `store_duplicate`, `tools_order`, `agents_followup` | minimal | the findings below |

**Why the bounds suffice.** Scheduler: four calls are an exclusive one between
safe ones with one more behind the barrier, and more safe calls than slots.
Store: three commits are one in memory, one written with it, and one after a
repair or crash; two faults let a repair fail after an append failed; the
bounds count commits and faults, never steps. Events: the rules relate
an event to the open turn, step, request and one or two identifiers of its kind;
each alphabet has two of what must be told apart, and 6 events reach an open
tail of every shape inside a group of rules. Rules that relate two groups
beyond turns and steps are not combined. Tools: two calls are one that waits for
the other's commit, and one that asks beside one that runs; one failure and one
crash are placed at every await. Chat: two sends are a turn and the one that
waits for it; two steps, two attempts, one Stop and one failing append meet in
pairs, not all at once. Forwards: two children are an old and a new one of
the same forward, which is what every hazard needs; a spawn beyond the bound
fails, as spawning may. Three calls are a stop, a start and another stop around
one connection. Agents: two messages are a first turn and a follow-up, sent or
queued; three processes are a turn, its retry under another mode, and the
follow-up; one stop is an abort or an end at any moment.

Preferences: three calls are one whose write is under way, one queued behind it,
and one after the storage returned; three bindings are leaving and returning
after another provider was there.

`CHECK_DEADLOCK FALSE` stands in every configuration because every behaviour ends
when its bounds are used up.

**Fairness.** A tool body returns (`invokeToolBody` rejects at its timeout, 120
seconds by default, whatever the body does) and settles later: that a body stops
once its signal is aborted is the contract of a tool, and one that ignores the
signal keeps its slot. File system calls return, the queue of a connection moves
on, timers fire, messages between the processes arrive. Jobs of the session
queue are served, the chat, its recorder and a Stop go on when what they await
is there, and a provider request that was aborted ends (its `fetch` carries the
signal). A child that was sent a signal, failed to start or ended its turn
closes: `stop`, `remove` and `shutdown` of forwards escalate to SIGKILL, while
`restart` (`forwards.ts:566`) and the driver of the CLIs send SIGTERM only and
rely on a process that obeys it; a CLI that produced its result ends by itself.
Nothing makes a healthy ssh or a working CLI exit, no provider answers, no user
answers, and no caller calls. So `OperationsEndAwake` must hold although a stop
waits for a child, and `QuestionsEnd` although nobody answers.

**Circumstances left out of a run.** They are named where a property would fail
without them, and each is a hazard in `PROJECT.json`:
- `UserWrites = FALSE`: otherwise a message that resumes a suspended turn denies
  what is pending while an approved body still runs; the history refuses that
  body's result, and `ResultsAreTaken` fails; or that body begins after the call
  has its result, and `RunsOnRecord` fails.
- in `SortedStopClosesTurn`, ids that do not sort (see `tools_order`), a call that
  runs by itself behind one that asks (`AsksLast`, see section 4), and what
  comes after a failing append, when the orphaned place of the call
  (`executor.ts:366`) keeps the Stop waiting too.
- `env.calm` in `ResolvedIsStored` and `ListenersAreCurrent`: the storage is taken
  away only when no call waits for its write, see the preferences below. Writes may
  fail in both; `ListenersAreCurrent` leaves out the keys whose last call failed,
  because `set` changes the facade before it saves and a failed save leaves `get`
  ahead of the listeners (`preferences.ts:117`). `ResolvedIsStored` leaves out a
  provider that was exchanged, whose file is another one.
- `ClosureClosesTurn` leaves out a turn that moved on to a step its closure does
  not know of: it was stopped between the append of that step and its
  publication, or the append was reported as failed. The next send repairs it.
- `CompletedIsRecorded` and `StepsGetOn` are about behaviours in which no append
  failed; after a failed one a step may wait for ever, see section 4.
- forwards in `overtaken`, in the second half of `OneChildPerForward` and of
  `NoOrphans`: see section 4. That an Entry has one child, that a stopped
  one has none, and that a child is known to its Entry hold for them too.
- `resumes = 0` in `PermanentStaysDown`, `OperationsEndAwake`, `RetriesGoOn`:
  see the stuck queue below.
- hosts where CLIs may fail to start in `NoOrphanProcess` and `OneTurnAtATime`: such
  a CLI emits `error` and `close` and ends its run at both; a run revived between
  the two is dropped with its process (`driver.ts:235`).
- in `NoOrphanProcess`, quitting on a host that refuses full-auto: see section 4;
  and `StopsEnd` leaves ended runs out there, because the root-guard retry starts a
  process for an ended run too.

## 4. Findings

Each is a behaviour of the code that contradicts what its documentation says,
with a run that reaches it.

- `store_duplicate` (`jsonlPersistence.ts:270`): `inspect` read the file before
  a flushed append and returns after it. It puts the older controller and head
  back; the next append writes a second commit with the same revision, and the
  file is corrupt from then on.
- `tools_order` (`chatRuntime.ts:1865`): the calls of a suspended turn are
  completed one at a time in the order of their sorted ids, and results are
  committed in the order of registration. When the provider's ids do not sort in
  emission order, Stop waits for a commit that waits for a call Stop has not
  come to; it never returns. The other closures (1086, 1102) loop the same way.
- `agents_followup` (`codingAgentsStore.ts:470`): a message that waited for the end
  of the turn is sent at `turn-end`, which comes out of stdout before the process
  closes. The driver refuses it; the view shows it as sent and starts the run again,
  which the driver ignores: the message is lost and the view stays busy.

Behaviours seen while modelling, each reachable in the models but without a run
of its own:

- A response asks for a call that needs approval and then for one that runs by
  itself. The place of the first stays unserved until the user answers, so the
  second neither starts nor commits; the closure leaves out the call that waits
  for a human, completes the second and waits for its commit. The turn is
  neither closed nor suspended, and a Stop waits as well (`scheduler.ts:92`).
- After an append of streamed chunks failed, the recorder persists nothing more,
  so the part that ends the step is never reported and the next step of the
  response waits for it until the user stops it (`chatRuntime.ts:1240`).
- `remove`, `add` and `start` of one forward are called in this order. `start`
  found the Entry when it was called; its turn comes when `remove` has taken
  that Entry out and `add` has put another one in, and it spawns a child for the
  old one. Two children compete for the port, and nothing lists the first
  (`forwards.ts:576`).
- `exit` releases the renderer's listener, and the cancellation of the cards the
  run left open comes behind it: the transcript of the ended run keeps asking
  (`client.ts:37`).
- The application quits while the host refuses full-auto; the close handler of
  the killed process starts the retry, which nobody will end (`driver.ts:256`).
- An inspection that started without a cached controller replaces the one that
  meanwhile holds memory commits, which are lost (`jsonlPersistence.ts:268`).
- A flush that fails inside `loadForContinuation` leaves the owner's head behind;
  appends are refused until it is read anew (`session-native/src/index.ts:557`).
- `start` leaves the backoff timer of the failed attempt set; a resume renews it
  with the new generation, and its retry awaits the exit of the new, healthy
  child: the connection's queue stands still (`forwards.ts:661`).
- Removing a busy run forgets its record, and the exit of the aborted process
  writes it again (`main.ts:602`).
- A CLI that does not start emits `error` and `close`, and its run exits twice
  (`driver.ts:238`).
- A message to a suspended turn while an approved body runs makes the history
  refuse its result (`ai-chat-native/src/runtime.ts:658`).
- A Stop during a retry's backoff: the end of the turn may be refused because the
  retry is still open, and a repair closes it (`requestRetry.ts:210`).
- Two preferences are set, the storage leaves after the first write and returns
  before the second: `close` finds the state clean and does not wait, `open`
  reads the old file, and the next save puts the old value of the second
  preference back although its `set` resolved (`storage-json/src/storage.ts:94`).
- A preference whose save ends after the storage left is on disk, but `set`
  throws on the missing binding and listeners are not told
  (`preferences-json/src/preferences.ts:123`).
- A preference whose save fails is what `get` returns from then on, although neither
  the disk nor a listener has it (`preferences-json/src/preferences.ts:117`).
- A closure as failed cites attempt 1 whatever attempt is open and is refused
  after a retry; the next send repairs the turn (`chatRuntime.ts:1579`).

## 5. Proofs

Every theorem below holds for all values of the constants that satisfy the named
assumption of its module, where TLC checks the same formula on one small
instance. The inductive invariants were checked by TLC on those instances before
they were proved. `PROJECT.json` lists the theorems, and which of them state a
property of a run.

| module | assumption | theorems |
| --- | --- | --- |
| `ToolExecutionProofs`, of the scheduler | `SchedulerAssumption` | `TypeCorrect`, `ExclusiveAlone`, `CapacityRespected`, `CountersExact`, `CommitOrder`, `FailureSettlesAll`, `StartsInOrder` |
| `SessionValidatorProofs` | none | `RefusedLeavesNoTrace`, `ValidatedInParts` |
| `SessionEventsProofs` | `EventsAssumption` | `ValidatorMatches`, `NotStartedNeverGuessed`, `SuspensionAnswered`, `RepairClosesTail` |
| `SessionStoreProofs` | `StoreAssumption`; `Readers = {}` or `MaxFaults = 0` | `TypeCorrect`, `FileStaysValid`, `AcknowledgedStays`, `ContinuesDurable`, `SessionLogImplemented`, `FlushedStays` |
| `PortForwardsProofs` | `ForwardsAssumption` | `TypeCorrect`, `OneChild`, `StoppedIsDown`, `NoChildIsLost`, `PermanentIsDown` |
| `CodingAgentsProofs` | `AgentsAssumption` | `TypeCorrect`, `OneTurn`, `NoOrphans`, `ListenersAreReleased` |
| `ToolExecutionProofs`, of the executor | `ToolsAssumption`, `SchedulerAssumption` | `AnswersStayDurable`, `SideEffectsOnce`, `ExecutorKeepsOrder`; with `UserWrites = FALSE`: `BodiesRunOnRecord`, `CommitsAreTaken` |
| `ChatTurnProofs` | `ChatAssumption` | `ChatInvariant`, `ChunksStayInTheirStep`, `ClosedTurnsAreClosed`, `CompletedIsKept`, `OnlyAbandonedAreRepaired` |
| `PreferencesProofs` | `PreferencesAssumption` | `TypeCorrect`, `ResolvedStaysStored`, `ListenersStayCurrent` |

### Scheduler

None of the properties is inductive: that a new exclusive body may start is
decided from `runningSafe` and `exclusiveRunning`, not from the bodies. `IInv`
therefore adds

- `SlotInv`: the counters equal the slots taken; a taken exclusive slot is the
  only one; safe slots stay within the capacity. `PumpKeepsSlots` shows that the
  loop in `#pump` keeps it whatever set of entries it starts, and
  `PumpStartsFit` that it starts no more safe bodies than fit;
- `RegisteredInOrder`: registered entries form a prefix of `Calls`;
- `CommitInv`: what is committed is exactly the prefix below `nextCommit`, an
  entry being committed is ready, a caller's promise is resolved only for entries of
  that prefix, and none is pending below it or, after a failure, at all. Of these,
  `ResolvedAreCommittedPrefix` is what a caller sees; the order of the commits alone
  holds by the shape of the loop and serves it.

`Invariance` combines `InitIInv` with one lemma for slots (`StepSlots`) and one
for commits (`StepCommits`), each with one step per action. `StartsInOrder`
follows from the definition of the pump under `IInv`.

### Validator and tail repair

`RefusedLeavesNoTrace`: whatever a batch holds, and wherever it is refused, the
undo maps put the validator back exactly where it was. The loop keeps
`Recoverable`: every entry that differs from the state before the batch is in
the undo maps with its old value. It rests on one lemma per group of events
(`TurnTouches` to `NestedTouches`): a case changes no entry it does not
remember. This is what a new event type has to be checked for.

`ValidatedInParts`: two batches, one after the other, give the validator and the
verdict of the whole. With the first theorem it makes `ValidatorMatchesHistory`
inductive, which no bound on the length of histories could show.

`SessionEventsProofs` proves the invariant `IInv`: the alphabet is one of
`Settings`, `IsHistory` (messages ask for finitely many calls, ids are defined),
`Announced` (a result that says "not started" follows the repair's own
`tool/call`, which is why that call had no record) and `ValidatorMatchesHistory`.

The repair is planned from the events while the validator judges it by its own
maps. `Learned(E, w)` and `NestedKnown` relate the two: what a validator w knows
once it has accepted the events E: which calls are recorded and unresolved
(`CallsKnown`), which approvals are pending and for which call (`ApprovalsMatch`,
`ApprovalsKnown`), the step of each request, the state of each retry, what a
suspension waits for, and which compactions and children are open.
`OneMoreIsLearned` shows each part for each type of event, `HistoryIsKnown` for a
whole history. `AcceptedInTurn` and `AcceptedInAnyOrder` then prove a batch
accepted event by event from `Learned`, and `AcceptedBoth` joins batches.

- `SuspensionAnswered`: decisions, results and `turn/resume` are accepted.
- `RepairClosesTail`: each group of `Plan` fits after the groups before it
  (`DecisionsFit`, `MessagesFit`, `NotStartedFits`, `UnknownFits`,
  `CancelledRetriesFit`, `EndedCompactionsFit`, `EndedSubagentsFit`): decisions
  come first because a result is refused while its approval is pending, new calls
  before the results of old ones do not disturb them, and so on (`RepairEnds`).
  `GroupsClose` shows that nothing but the turn and its step is open then, and
  `QuietTurnEnds` that these end. The theorem holds for histories that mix every
  group of rules, which the run's alphabets do not.

### Tool executor

`XInv` has three parts. `IInv` is the scheduler's invariant: every action of the
executor is steps of the scheduler or none (`SchedulerStep`), and a crash is its
initial state, so `ExecutorKeepsOrder` holds in every life of the process.

`Faithful(disk)` says that the validator's maps fit together (`Sound`) and that a
decision or a result is stored exactly for the calls the validator counts as
decided or settled. There is a lemma for each event the chat appends (`CallTaken` to
`BoundaryTaken`) and for the two batches that end a turn; each shows also that
nothing is taken back (`Grown`): a recorded call, decision or result stays.
`RepairTaken` shows what a crash leaves: a repair gives every call a result,
unless the turn is suspended.

`Memory` relates the executor to that history. A place belongs to one call
(`PlacesFit`); only the place its registration names is ever given an outcome,
so a place orphaned by a failed append stays empty; a record of an execution or
completion names that place (`OwnersFit`); what a place produced is what the
history keeps once it is committed, also when it was durable before and is only
replayed (`AnswersFit`). `StartsFit` counts side effects: once a call had one,
its result is stored, or on its way in the place it ran at, or it was lost.
Neither `AnswersStayDurable` nor `SideEffectsOnce` is inductive alone: that a
retry does not run a body again is decided by the scheduler's `phase` of a place
the executor finds through three maps.

`BodiesRunOnRecord` needs to know why a body is about to begin, and that is the
chat's doing, so `Callers` describes the chat's requests: nothing streams while
the turn is suspended (`Apart`); the recorder asks for the approval of the call
it is at, once, after that call was recorded (`LaneFits`); what the executor or
the user's answer in progress takes for decided is what the history decided, and
a call the user answers has a result or is still awaited (`ToldFits`); a run of a
call that asks was approved and belongs to an open stream, a failed turn or an
awaited call (`RunsFit`); a body not yet begun belongs to such a run and to a
call without a result, unless it is aborted (`BodiesFit`). `CallersInvariance`
holds for `UserWrites = FALSE`, as in the run: when the user may write to a
suspended turn, TLC finds a behaviour in which the resumed turn gives the call a
result while its approved body has yet to begin.

`CommitsAreTaken` needs more: the history refuses a result if its call was not
recorded, has a result, or asked and was not decided. Nothing in a step that
commits tells that no other job came first, so the invariant, `Untroubled`, says
what holds while no append has failed (`Calm`). A place that is to be stored
belongs to a call without a result (`CommitsFit`), and whatever is run or
completed was decided (`OwnersDecided`). The rest says why nobody else gives such
a call a result: a stream begins only when every earlier call has one, and
decides none of its own (`StreamFits`); its closure completes only calls that do
not ask, and ends when all of these have results (`ClosingFits`), so a turn
that is suspended waits for all the others (`AwaitsAll`); a Stop decides each
call before it completes it (`CancelFits`). That calls are recorded at all
(`EntriesFit`) rests on the turn and step being open and numbered as the stream
remembers them (`StepOpen`, `Numbered`). The invariant speaks of behaviours
without a failed append only, and `NothingFails` shows that those have no refused
append of a call, a request or a result either: the induction is over both at once.

### Chat turn

None of the four properties is inductive: each is about one part of a send, and
what that part may do next is decided by a job queued earlier, or by what the
history refuses. One invariant, `IInv`, carries them all. It holds in every
setting that `ChatAssumption` allows, with any number of sends, Stops and failing
appends, and is

- `Jobs`: a job in the queue is the only one of its kind for its send (`OneJob`)
  and what it appends fits where that send is (`JobsFit`). A job of the
  retry loop never outlives its stream; that of the next step and the recorder's may.
- `Flow`: a send has a handle from the start of its turn on (`SendsFit`), and
  each is over when the next begins (`OneAtATime`). The recorder's end of a step
  is the last of its parts, later the last work on its lane, and is counted before
  the next step begins (`Keeps`), so chunks are mapped with the handle of the step
  they were said in (`ChunksFit`): this is `ChunksInTheirStep`. A closure is
  registered exactly while it is neither done nor repaired, and a send that is to
  prepare or begin has none beside it (`GatesFit`): this is `RepairsOnlyAbandoned`.
- `Past`: what a validator of a chat's history is (`Plain`, `Bounded`), which turns
  and steps the ends in the history are of (`EndsFit`), that the turn of each send
  is open or ended and that turns of later sends are later (`TurnFits`), and that a
  closure that succeeded left an end (`ClosureFits`). While no append fails
  (`Undisturbed`), the step a send knows is the one that is open, its request is
  recorded with the attempt it is at (`KnowsStep`), and a pending retry is the one
  its send waits for (`RetryWaits`).
- `Closures`: without a Stop a closure begins when its send is over and no step
  is on its way (`Unstopped`), and the closure of a normal end is of the last step
  of its send (`Ending`). With `KnowsStep` this gives `ClosureClosesTurn`.
  `CompletedIsRecorded` is a part of the invariant itself: in the step in which
  the closure's append runs, `Undisturbed` shows that the history refuses none of
  its events.

The lemmas have three layers: what one event of a chat does to the validator
(`TurnStarts` to `RetryPends`), what a batch does (`TurnBegun`, `StepBegun`,
`TurnClosed`, `RetryRecorded`, `RetryBegun`, `RetryGivenUp`, `ChunksRecorded`,
with the repair), and, for each action, which parts of the invariant it can
disturb. TLC checked `IInv` on the instance of the run, with the sequences it
ranges over cut at the lengths the run reaches.

### Session store

With no readers outside the lane (`Readers = {}`; with one the properties are
false, see `store_duplicate`) `IInv` has: the types with the shape of the lane's
operation (`TInv`); between two steps of an operation nobody else touched disk
or caches, and the cached controller `Follows` the file (`LaneInv`); during a
write the file and the lines still to write make up the controller's log and
the new commit (`WriteInv`); revisions in the file are consecutive, and
acknowledged commits are in it (`DiskInv`). From it follow `FileStaysValid`,
`AcknowledgedStays`, `ContinuesDurable`, and `SessionLogImplemented`: initial
states map to initial states of `SessionLog`, every step to a step or a stutter.
`TypeCorrect` needs no restriction. `FlushedStays` allows readers and excludes
failing writes (`MaxFaults = 0`), as its run does; its invariant `CInv` says that
torn bytes are either being completed or not covered by any cache (`TornInv`) and
that lines being written are in the file or still to write (`LinesInv`).

### Port forwards

No theorem assumes anything of the callers. `IInv`: children and entries agree, in
particular a live child is the last one of its Entry, and of a stopped Entry it was
told to exit (`Sound`); the table and the operations name entries that were made for
their forward (`TableInv`, `QueueInv`), the exit that is awaited is that of the
Entry's last child (`WaitInv`), and every queued `add` has room (`RoomInv`). That an
Entry has one child follows from it, and `StoppedIsDown`. That a forward has one
needs `ListInv`: the Entry of a live child is listed (`ChildListed`), and so is the
Entry an operation names when its turn comes (`QueueListed`) or its wait is over
(`WaitListed`), unless the forward is `overtaken`. It is not inductive without the
last two, because `start` spawns for the Entry it looked up when it was called.
`PermanentIsDown` needs `RetryInv` as well: no timer, retry or child is of a
generation to come (`PastInv`), and until a resume an Entry has one retry at most,
and only without a child (`AwakeInv`).

### Coding agents

`IInv` has the types, in which a message on its way names a prompt or a card that
exists (`DriverTypes`, `ViewTypes`); where every CLI starts, a running process is the
child of its `Run` object, the driver holds that object until the application quits,
there is one such process at most, and the child of the object that is held runs
(`ProcInv`); after `killAll` every process was told to exit, unless the host refuses
full-auto and it was chosen (`QuitInv`). `OneTurn` and `NoOrphans` follow. Where a
CLI may fail to start they promise nothing: `error` and `close` both end the run.

`ListenersAreReleased` holds in every setting, failing starts included. Its
invariant `ListenInv` speaks of what is on its way: a renderer that listens for a run
the driver does not hold has started it again, and the `start` is on its way, or will
hear of its end, and the `exit` is.

### Preferences

`IInv`: types; the facade is bound exactly to the state the storage holds
(`LifeInv`); the chain has one write for each call that waits, in order
(`ChainInv`); while the storage leaves only in calm, nothing is pending once it
left (`CalmInv`), every copy of the settings (file, kept state, write under
way, image read by `open`) covers the calls that resolved (`CoverInv`), and
and listeners heard what `get` returns of every key whose last call resolved
(`HeardInv`, for each key, with any number of failed writes). The last part needs
that behind a call that waits every other one waits too, and that the last call of a
key, while it waits, has set the value `get` returns.

### Only model-checked

- All liveness properties: fairness and ENABLED are
  out of the prover's reach.
- That a recursion over data computes something is proved here only through
  invariants of its steps: `Loop` is a recursive function, and its lemmas argue
  by the least number that fails (`Least`).

No module declares a RECURSIVE operator.

## 6. Not modelled

- `SessionStore`: `create`, `fork`, `remove`, retention, the in-memory adapter,
  the content of events.
- `SessionEvents`: parsing of events, and histories that mix three groups of
  rules.
- `ToolExecution`: validation of arguments, results and errors reported by the
  SDK, interactive tools, `executeStandalone`, the end of a stream by a fatal error
  (`chatRuntime.ts:1553`), the time limit of a closure's `drain`.
- `ChatTurn`: tool calls inside it, prompts, models, titles, view state, reload,
  and programmatic sends that overlap a live turn
  (`managed-agent-runtime-native/src/review.ts:52`).
- `PortForwards`: the store file, `killAllSync`, the choice of an automatic
  port, the port check against other connections, the length of backoffs.
- `Preferences`: key validation, `clear` and `reset`, change events of a second
  facade, the renderer's proxies.
- `CodingAgents`: reload and resubscription of the renderer, the journal,
  checkpoints, tokens and notifications, the global auto-run, several runs.
- every component with status `not_modelled` in `PROJECT.json`, with its reason.
  Most of the repository is presentation, adapters and contract packages, so the
  mapped lines are a small share of it by nature.

## 7. Plan

Every safety property the passing runs check is stated by a theorem. What is left:
further modules, for several sessions with fork and retention, renderer slots,
terminal close deadlines, language servers.
