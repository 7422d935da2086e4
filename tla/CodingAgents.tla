------------------------------ MODULE CodingAgents ------------------------------
(***************************************************************************)
(* The life of one coding-agent run, from the roster in the renderer to    *)
(* the CLI processes: the driver (coding-agent-native/src/driver.ts), the  *)
(* commands and the run store around it (src/main.ts, src/persistence.ts)  *)
(* and the renderer's view of the run (ui/store, ui/lib).                  *)
(*                                                                         *)
(* A run is a sequence of CLI processes, one per turn, under one run id.   *)
(* Renderer and main process exchange messages in two queues: commands     *)
(* one way, events and replies the other.                                  *)
(*                                                                         *)
(* Left out: what the CLI says (text, tools), session journal, checkpoints,*)
(* tokens and notifications, renaming and archiving, and the reload of the *)
(* renderer.                                                               *)
(***************************************************************************)
EXTENDS Naturals, Sequences

CONSTANTS
  Tools, EditTools,  (* what a CLI asks permission for; the edit tools *)
  Settings,          (* the circumstances a run may meet *)
  MaxPrompts,        (* bound: messages the user writes *)
  MaxKids,           (* bound: CLI processes *)
  MaxCards,          (* bound: approvals that reach the user *)
  MaxStops           (* bound: aborts and ends *)

Modes == {"default", "acceptEdits", "bypass"}

\* mode        the permission mode chosen in the view
\* rootHost    the host refuses full-auto: the CLI runs as root
\* spawnErrors a CLI may fail to start
\* quits       the application may quit
ASSUME AgentsAssumption ==
  /\ EditTools \subseteq Tools
  /\ Settings \subseteq [mode : Modes, rootHost : BOOLEAN, spawnErrors : BOOLEAN,
                         quits : BOOLEAN]
  /\ MaxPrompts \in Nat \ {0} /\ MaxKids \in Nat \ {0}
  /\ MaxCards \in Nat /\ MaxStops \in Nat

None == 0
Prompts == 1 .. MaxPrompts
Kids == 1 .. MaxKids
Objects == 1 .. MaxKids  \* every Run object begins with a process
Statuses == {"starting", "running", "awaiting-approval", "idle", "done", "error", "aborted"}

VARIABLES
  setting,   \* the circumstances of this behaviour: never changes
  current,   \* the driver's Run object for the run id, None when it holds none
  run,       \* the Run objects
  made,      \* number of Run objects made
  kids,      \* the CLI processes: Seq of [run, stage, opened, killed, mode, prompt]
  cards,     \* the approvals put before the user: Seq of [tool, state, timer]
  saved,     \* the status in the run store, "absent" without a record
  quit,      \* killAll was called
  toMain,    \* commands on their way to the main process
  toUi,      \* events and replies on their way to the renderer
  view,      \* the renderer's AgentRunView
  listening, \* the renderer has a listener for the run's events
  prompts,   \* number of messages written
  shown,     \* the messages the transcript shows as sent
  stops

driver == <<setting, current, run, made, kids, cards, quit>>
ui == <<setting, view, listening, prompts, shown, stops>>
vars == <<driver, saved, toMain, toUi, ui>>

------------------------------------------------------------------------------
(* Messages.  Commands: start, input, approve, abort, end, forget.  Events:  *)
(* session, approval-request, approval-cancelled, turn-end, error (a fatal   *)
(* one), exit.  Replies: sent, refused.                                                 *)

Msg(what, n, flag) == [what |-> what, n |-> n, flag |-> flag]

Exit(aborted) == Msg("exit", 0, aborted)
Error == Msg("error", 0, TRUE)

NewRun(p, mode) ==
  [child |-> None, completed |-> FALSE, ending |-> FALSE, aborted |-> FALSE,
   mode |-> mode, retried |-> FALSE, rules |-> {}, last |-> p]

------------------------------------------------------------------------------
(* The driver.                                                               *)

Pending(a) == cards[a].state = "pending"
Asks(a) == a \in DOMAIN cards /\ Pending(a)

\* An approval is settled, and its timer cleared.
Answered(a, state) == [cards[a] EXCEPT !.state = state, !.timer = FALSE]

\* denyPendingFor, which announces the cancelled approvals to the run held.
Denied == [a \in DOMAIN cards |-> IF Pending(a) THEN Answered(a, "denied") ELSE cards[a]]
InOrder(order) ==
  /\ \A a \in DOMAIN cards : Pending(a) <=> \E i \in DOMAIN order : order[i] = a
  /\ \A i, j \in DOMAIN order : i < j => order[i] < order[j]
Cancels ==
  IF current = None THEN {<<>>}
  ELSE {[i \in DOMAIN order |-> Msg("approval-cancelled", order[i], FALSE)] :
          order \in {s \in UNION {[1 .. n -> DOMAIN cards] : n \in 0 .. Len(cards)} : InOrder(s)}}

\* spawnTurn for the Run object o, whose fields are r; ks are the processes so far.
SpawnTurn(o, r, p, ks) ==
  /\ Len(ks) < MaxKids
  /\ kids' = Append(ks, [run |-> o, stage |-> "running", opened |-> FALSE,
                         killed |-> FALSE, mode |-> r.mode, prompt |-> p])
  /\ run' = [run EXCEPT ![o] =
               [r EXCEPT !.child = Len(ks) + 1, !.completed = FALSE, !.last = p]]

Killed(k) == [kids EXCEPT ![k].killed = TRUE]

\* Mutant: nothing is emitted.
EndsSilently(o, r, es) ==
  /\ run' = [run EXCEPT ![o] = r]
  /\ current' = None
  /\ cards' = Denied
  /\ \E cs \in Cancels : toUi' = toUi \o cs

\* The run's last events, and dropRun.
Ends(o, r, es) ==
  /\ run' = [run EXCEPT ![o] = r]
  /\ current' = None
  /\ cards' = Denied
  /\ \E cs \in Cancels : toUi' = toUi \o es \o cs

StatusAfter(aborted) == IF aborted THEN "aborted" ELSE "done"

StartRun(p) ==
  \/ /\ current # None
     /\ UNCHANGED <<current, made, run, kids>>
  \/ /\ current = None
     /\ made' = made + 1
     /\ current' = made'
     /\ SpawnTurn(made', NewRun(p, setting.mode), p, kids)

\* Mutant: a run takes input while its CLI is busy.
TakesInputAlways == current # None

TakesInput == current # None /\ run[current].child = None

\* Mutant: the run is dropped although its process still runs.
StopDrops(r, aborted) ==
  /\ Ends(current, r, <<Exit(aborted)>>)
  /\ saved' = StatusAfter(aborted)
  /\ UNCHANGED kids

\* Mutant: the process is left to end its turn.
StopsPolitely(r, aborted) ==
  \/ /\ r.child # None
     /\ run' = [run EXCEPT ![current] = r]
     /\ UNCHANGED <<kids, current, cards, saved, toUi>>
  \/ /\ r.child = None
     /\ Ends(current, r, <<Exit(aborted)>>)
     /\ saved' = StatusAfter(aborted)
     /\ UNCHANGED kids

\* abortRun and endRun, once they have set their flag in r.
Stop(r, aborted) ==
  \/ /\ r.child # None
     /\ run' = [run EXCEPT ![current] = r]
     /\ kids' = Killed(r.child)
     /\ UNCHANGED <<current, cards, saved, toUi>>
  \/ /\ r.child = None
     /\ Ends(current, r, <<Exit(aborted)>>)
     /\ saved' = StatusAfter(aborted)
     /\ UNCHANGED kids

------------------------------------------------------------------------------
(* The commands.                                                             *)

\* agent_run_start saves the run before it asks the driver.
DoStart(c) ==
  /\ saved' = "starting"
  /\ StartRun(c.n)
  /\ UNCHANGED <<cards, toUi>>

DoInput(c) ==
  \/ /\ TakesInput
     /\ SpawnTurn(current, [run[current] EXCEPT !.mode = setting.mode], c.n, kids)
     /\ toUi' = Append(toUi, Msg("sent", c.n, TRUE))
     /\ UNCHANGED <<current, made, cards, saved>>
  \/ /\ ~TakesInput
     /\ toUi' = Append(toUi, Msg("refused", c.n, c.flag))
     /\ UNCHANGED <<current, made, run, kids, cards, saved>>

\* resolveApproval; the flag is the user's answer, which may hold for this tool
\* from now on.
DoApprove(c) ==
  /\ \/ ~Pending(c.n) /\ UNCHANGED <<cards, run>>
     \/ /\ Pending(c.n)
        /\ cards' = [cards EXCEPT ![c.n] = Answered(c.n, IF c.flag THEN "allowed" ELSE "denied")]
        /\ \/ UNCHANGED run
           \/ /\ c.flag /\ current # None
              /\ run' = [run EXCEPT ![current].rules = @ \cup {cards[c.n].tool}]
  /\ UNCHANGED <<current, made, kids, saved, toUi>>

DoStop(c) ==
  /\ IF current = None THEN UNCHANGED <<current, run, kids, cards, saved, toUi>>
     ELSE IF c.what = "abort" THEN Stop([run[current] EXCEPT !.aborted = TRUE], TRUE)
     ELSE Stop([run[current] EXCEPT !.ending = TRUE], FALSE)
  /\ UNCHANGED made

DoForget ==
  /\ saved' = "absent"
  /\ UNCHANGED <<current, made, run, kids, cards, toUi>>

HandleCommand ==
  /\ toMain # <<>> /\ ~quit
  /\ toMain' = Tail(toMain)
  /\ LET c == Head(toMain) IN
       \/ c.what = "start" /\ DoStart(c)
       \/ c.what = "input" /\ DoInput(c)
       \/ c.what = "approve" /\ DoApprove(c)
       \/ c.what \in {"abort", "end"} /\ DoStop(c)
       \/ c.what = "forget" /\ DoForget
  /\ UNCHANGED <<quit, ui>>

------------------------------------------------------------------------------
(* The CLI processes.                                                        *)

Running(k) == kids[k].stage = "running"

\* A host that refuses full-auto lets no such process do anything.
Works(k) == Running(k) /\ ~(setting.rootHost /\ kids[k].mode = "bypass")

KidOpensSession(k) ==
  /\ Works(k) /\ ~kids[k].opened
  /\ kids' = [kids EXCEPT ![k].opened = TRUE]
  /\ saved' = "running"
  /\ toUi' = Append(toUi, Msg("session", 0, FALSE))
  /\ UNCHANGED <<current, run, made, cards, quit, toMain, ui>>

\* requestApproval, when a card is put before the user, which may be after the
\* process that asked ended its turn or closed.  A remembered rule, an edit under
\* acceptEdits and an ended run are answered at once.
KidAsks(k, t) ==
  /\ kids[k].opened
  /\ current # None
  /\ t \notin run[current].rules
  /\ ~(run[current].mode = "acceptEdits" /\ t \in EditTools)
  /\ Len(cards) < MaxCards
  /\ cards' = Append(cards, [tool |-> t, state |-> "pending", timer |-> TRUE])
  /\ toUi' = Append(toUi, Msg("approval-request", Len(cards'), FALSE))
  /\ UNCHANGED <<current, run, made, kids, quit, saved, toMain, ui>>

\* Mutant: the timer gives up on a run that has no process.
SettlesIfBusy(a) == Asks(a) /\ current # None /\ run[current].child # None

\* What the timer finds when it fires.
SettlesLate(a) == Asks(a)

\* The timer of an approval fires.  Quitting settles the approvals and leaves
\* their timers set.
ApprovalTimesOut(a) ==
  /\ a \in DOMAIN cards /\ cards[a].timer
  /\ IF SettlesLate(a)
       THEN /\ cards' = [cards EXCEPT ![a] = Answered(a, "denied")]
            /\ toUi' = Append(toUi, Msg("approval-cancelled", a, FALSE))
       ELSE cards' = [cards EXCEPT ![a].timer = FALSE] /\ UNCHANGED toUi
  /\ UNCHANGED <<current, run, made, kids, quit, saved, toMain, ui>>

KidEndsTurn(k) ==
  /\ Works(k) /\ kids[k].opened /\ ~run[kids[k].run].completed
  /\ run' = [run EXCEPT ![kids[k].run].completed = TRUE]
  /\ saved' = "idle"
  /\ toUi' = Append(toUi, Msg("turn-end", 0, FALSE))
  /\ UNCHANGED <<current, made, kids, cards, quit, toMain, ui>>

\* The "error" event of a child that did not start; "close" follows.
KidFails(k) ==
  /\ setting.spawnErrors /\ Running(k) /\ ~kids[k].opened
  /\ kids' = [kids EXCEPT ![k].stage = "failed"]
  /\ Ends(kids[k].run, run[kids[k].run], <<Error, Exit(FALSE)>>)
  /\ saved' = StatusAfter(FALSE)
  /\ UNCHANGED <<made, quit, toMain, ui>>

\* Whether the process said that the host refuses full-auto before it closed.
Refusal(k) ==
  IF kids[k].stage = "failed" \/ Works(k) THEN {FALSE}
  ELSE IF kids[k].killed THEN BOOLEAN ELSE {TRUE}

\* The root guard refused full-auto, and no turn of the run was retried yet.
Retries(r, refused) == refused /\ r.mode = "bypass" /\ ~r.retried

Aborts(r) == r.aborted

\* "close".
KidCloses(k, refused) ==
  LET o == kids[k].run
      r == [run[o] EXCEPT !.child = None]
      ks == [kids EXCEPT ![k].stage = "closed"]
  IN  /\ kids[k].stage \in {"running", "failed"} /\ refused \in Refusal(k)
      /\ \/ /\ Aborts(r)
            /\ Ends(o, r, <<Exit(TRUE)>>)
            /\ saved' = StatusAfter(TRUE)
            /\ kids' = ks
         \/ /\ ~Aborts(r) /\ ~r.completed /\ Retries(r, refused)
            /\ SpawnTurn(o, [r EXCEPT !.retried = TRUE, !.mode = "acceptEdits"], r.last, ks)
            /\ UNCHANGED <<current, cards, saved, toUi>>
         \/ /\ ~Aborts(r) /\ ~r.completed /\ ~Retries(r, refused)
            /\ Ends(o, r, <<Error, Exit(FALSE)>>)
            /\ saved' = StatusAfter(FALSE)
            /\ kids' = ks
         \/ /\ ~Aborts(r) /\ r.completed /\ r.ending
            /\ Ends(o, r, <<Exit(FALSE)>>)
            /\ saved' = StatusAfter(FALSE)
            /\ kids' = ks
         \/ /\ ~Aborts(r) /\ r.completed /\ ~r.ending
            /\ run' = [run EXCEPT ![o] = r]
            /\ kids' = ks
            /\ UNCHANGED <<current, cards, saved, toUi>>
      /\ UNCHANGED <<made, quit, toMain, ui>>

\* killAll, when the application quits.
KillAll ==
  /\ setting.quits /\ ~quit
  /\ quit' = TRUE
  /\ kids' = IF current # None /\ run[current].child # None
               THEN Killed(run[current].child) ELSE kids
  /\ cards' = [a \in DOMAIN cards |->
                 IF Pending(a) THEN [cards[a] EXCEPT !.state = "denied"] ELSE cards[a]]
  /\ current' = None
  /\ UNCHANGED <<run, made, saved, toMain, toUi, ui>>

------------------------------------------------------------------------------
(* The renderer.                                                             *)

\* A view without a run has status "none".
NoView == [status |-> "none", card |-> None, queued |-> None, session |-> FALSE, open |-> {}]

Busy(v) == v.status \in {"starting", "running", "awaiting-approval"}
Present == view.status # "none"

\* A card that no longer asks.
CardGone(v, a) ==
  [v EXCEPT !.open = @ \ {a}, !.card = IF @ = a THEN None ELSE @,
            !.status = IF v.card = a THEN "running" ELSE @]

\* applyEvent.  card is pendingApprovalId, open are the cards that still ask.
Applied(v, e) ==
  CASE e.what = "session" ->
         [v EXCEPT !.session = TRUE, !.status = IF @ = "starting" THEN "running" ELSE @]
    [] e.what = "approval-request" ->
         [v EXCEPT !.status = "awaiting-approval", !.card = e.n, !.open = @ \cup {e.n}]
    [] e.what = "approval-cancelled" -> CardGone(v, e.n)
    [] e.what = "turn-end" -> [v EXCEPT !.status = "idle", !.card = None]
    [] e.what = "error" -> [v EXCEPT !.status = "error"]
    [] e.what = "exit" ->
         [v EXCEPT !.card = None,
                   !.status = IF @ = "error" THEN @
                              ELSE IF @ = "aborted" \/ e.flag THEN "aborted" ELSE "done"]

\* appendUserMessage
Appended(v) == [v EXCEPT !.status = "running"]

\* ingest, and the follow-up that waited for the end of the turn.
Ingest(e) ==
  LET v == Applied(view, e)
      flush == view.status # "idle" /\ v.status = "idle" /\ v.queued # None
  IN  /\ view' = IF flush THEN [v EXCEPT !.queued = None] ELSE v
      /\ toMain' = IF flush THEN Append(toMain, Msg("input", v.queued, v.session)) ELSE toMain

\* The rest of sendInput, after its reply.  A run that takes no input is taken
\* to be one the driver no longer holds, and is started again if the run had a
\* session when the message was sent.
Replied(m) ==
  /\ IF Present /\ (m.what = "sent" \/ m.flag)
       THEN view' = Appended(view) /\ shown' = shown \cup {m.n}
       ELSE UNCHANGED <<view, shown>>
  /\ IF m.what = "refused" /\ m.flag
       THEN listening' = TRUE /\ toMain' = Append(toMain, Msg("start", m.n, FALSE))
       ELSE UNCHANGED <<listening, toMain>>

Deliver ==
  /\ toUi # <<>>
  /\ toUi' = Tail(toUi)
  /\ LET m == Head(toUi) IN
       \/ m.what \in {"sent", "refused"} /\ Replied(m)
       \/ /\ m.what \notin {"sent", "refused"}
          /\ IF listening /\ Present THEN Ingest(m) ELSE UNCHANGED <<view, toMain>>
          /\ listening' = (listening /\ m.what # "exit")
          /\ UNCHANGED shown
  /\ UNCHANGED <<driver, saved, prompts, stops>>

UserStarts ==
  /\ prompts = 0
  /\ prompts' = 1
  /\ view' = [NoView EXCEPT !.status = "starting"]
  /\ listening' = TRUE
  /\ shown' = {1}
  /\ toMain' = Append(toMain, Msg("start", 1, FALSE))
  /\ UNCHANGED <<driver, saved, toUi, stops>>

UserSends ==
  /\ Present /\ prompts < MaxPrompts
  /\ prompts' = prompts + 1
  /\ IF Busy(view)
       THEN view' = [view EXCEPT !.queued = prompts'] /\ UNCHANGED toMain
       ELSE toMain' = Append(toMain, Msg("input", prompts', view.session)) /\ UNCHANGED view
  /\ UNCHANGED <<driver, saved, toUi, listening, shown, stops>>

UserAnswers(allow) ==
  /\ Present
  /\ \E a \in view.open :
       /\ view' = CardGone(view, a)
       /\ toMain' = Append(toMain, Msg("approve", a, allow))
  /\ UNCHANGED <<driver, saved, toUi, listening, prompts, shown, stops>>

UserStops(what) ==
  /\ Present /\ stops < MaxStops
  /\ stops' = stops + 1
  /\ toMain' = Append(toMain, Msg(what, 0, FALSE))
  /\ UNCHANGED <<driver, saved, toUi, view, listening, prompts, shown>>

\* remove stops a busy run or ends an idle one, and forgets it.
UserRemoves ==
  /\ Present
  /\ toMain' = toMain \o <<Msg(IF Busy(view) THEN "abort" ELSE "end", 0, FALSE),
                            Msg("forget", 0, FALSE)>>
  /\ view' = NoView
  /\ UNCHANGED <<driver, saved, toUi, listening, prompts, shown, stops>>

------------------------------------------------------------------------------
Init ==
  /\ setting \in Settings
  /\ current = None /\ made = 0
  /\ run = [o \in Objects |-> NewRun(None, setting.mode)]
  /\ kids = <<>> /\ cards = <<>>
  /\ saved = "absent" /\ quit = FALSE
  /\ toMain = <<>> /\ toUi = <<>>
  /\ view = NoView /\ listening = FALSE
  /\ prompts = 0 /\ shown = {} /\ stops = 0

KidStep(k) ==
  \/ KidOpensSession(k) \/ KidEndsTurn(k) \/ KidFails(k)
  \/ \E t \in Tools : KidAsks(k, t)
  \/ \E refused \in BOOLEAN : KidCloses(k, refused)

Next ==
  \/ HandleCommand \/ Deliver
  \/ \E k \in Kids : k \in DOMAIN kids /\ KidStep(k)
  \/ \E a \in 1 .. MaxCards : ApprovalTimesOut(a)
  \/ KillAll
  \/ UserStarts \/ UserSends \/ UserRemoves
  \/ \E allow \in BOOLEAN : UserAnswers(allow)
  \/ \E what \in {"abort", "end"} : UserStops(what)

\* Messages arrive, the approval timer fires, and a process that was sent a
\* signal, failed to start or ended its turn closes.
Closing(k) ==
  /\ k \in DOMAIN kids
  /\ kids[k].killed \/ kids[k].stage = "failed" \/ run[kids[k].run].completed
  /\ \E refused \in BOOLEAN : KidCloses(k, refused)

Fairness ==
  /\ WF_vars(HandleCommand) /\ WF_vars(Deliver)
  /\ \A a \in 1 .. MaxCards : WF_vars(ApprovalTimesOut(a))
  /\ \A k \in Kids : WF_vars(Closing(k))

Spec == Init /\ [][Next]_vars /\ Fairness

------------------------------------------------------------------------------
TypeOK ==
  /\ current \in Objects \cup {None} /\ made \in 0 .. MaxKids
  /\ run \in [Objects -> [child : Kids \cup {None}, completed : BOOLEAN, ending : BOOLEAN,
                          aborted : BOOLEAN, mode : Modes,
                          retried : BOOLEAN, rules : SUBSET Tools,
                          last : Prompts \cup {None}]]
  /\ kids \in Seq([run : Objects, stage : {"running", "failed", "closed"}, opened : BOOLEAN,
                   killed : BOOLEAN, mode : Modes,
                   prompt : Prompts])
  /\ cards \in Seq([tool : Tools, state : {"pending", "allowed", "denied"}, timer : BOOLEAN])
  /\ saved \in Statuses \cup {"absent"}
  /\ view.status \in Statuses \cup {"none"} /\ view.queued \in Prompts \cup {None}
  /\ view.card \in view.open \cup {None} /\ view.open \subseteq DOMAIN cards
  /\ shown \subseteq 1 .. prompts

\* No CLI process works on for nobody: every process that was not told to exit
\* is the child of the run the driver holds, which stop and killAll reach.
NoProcessForgotten ==
  \A k \in DOMAIN kids : Running(k) /\ ~kids[k].killed =>
    current = kids[k].run /\ run[current].child = k

\* The same where every CLI starts, unless the application quits on a host that
\* refuses full-auto.  (A CLI that does not start ends the run twice, at "error"
\* and at "close", and the second time may drop a run that was revived between
\* them; the root guard tries the turn again whatever killAll did.)
NoOrphanProcess == ~setting.spawnErrors /\ ~(setting.rootHost /\ quit) => NoProcessForgotten

\* Where every CLI starts, two turns never work in the same session at once.
OneTurnAtATime ==
  ~setting.spawnErrors => \A k, l \in DOMAIN kids : Running(k) /\ Running(l) => k = l

\* The renderer listens for the events of a run only while the driver holds the
\* run: however it ends, and whatever is sent or started again meanwhile, its
\* exit releases the listener.
ListenedIsHeld == listening /\ toMain = <<>> /\ toUi = <<>> /\ ~quit => current # None

\* What the transcript shows as sent has been given to a CLI, or is on its way.
\* (The follow-up that waited for turn-end is sent while the CLI still closes,
\* refused, shown, and started in vain.)
ShownIsSent ==
  \A p \in shown :
    \/ quit
    \/ \E k \in DOMAIN kids : kids[k].prompt = p
    \/ \E i \in DOMAIN toMain : toMain[i].what = "start" /\ toMain[i].n = p

\* Every question ends, for the CLI that waits for the answer and for the view
\* that waits for the user: by the user, the timeout or the end of the run, also
\* one that was asked when the process had ended its turn or closed.
Waits(a) == Asks(a) \/ view.card = a
QuestionsEnd == \A a \in 1 .. MaxCards : Waits(a) ~> (~Waits(a) \/ quit)

\* An aborted run ends, whatever its process does meanwhile, and so does an
\* ended one.  (A turn that is ended while the root guard refuses it is tried
\* again all the same.)
StopsEnd ==
  \A o \in Objects :
    (current = o /\ (run[o].aborted \/ (run[o].ending /\ ~setting.rootHost))) ~> current # o
==============================================================================
