-------------------------- MODULE CodingAgentsProofs ---------------------------
(***************************************************************************)
(* Proofs about CodingAgents, for every set of tools and of settings and   *)
(* every number of messages, processes, approvals and stops.  IInv is      *)
(* inductive: the types, with what a message on its way may name (Types);  *)
(* where every CLI starts, which process belongs to which Run object       *)
(* (ProcInv); and that no process works on once the application quits      *)
(* (QuitInv).  ListenInv, inductive with it, says what a renderer that     *)
(* listens for a run may wait for.                                         *)
(***************************************************************************)
EXTENDS CodingAgents, SequenceTheorems, TLAPS

RunType == [child : Kids \cup {None}, completed : BOOLEAN, ending : BOOLEAN, aborted : BOOLEAN,
            mode : Modes, retried : BOOLEAN, rules : SUBSET Tools, last : Prompts \cup {None}]
KidType == [run : Objects, stage : {"running", "failed", "closed"}, opened : BOOLEAN,
            killed : BOOLEAN, mode : Modes, prompt : Prompts]
CardType == [tool : Tools, state : {"pending", "allowed", "denied"}, timer : BOOLEAN]

\* With p messages written and c cards, a command or an event names one of them.
Commands(p, c) ==
  [what : {"start", "input"}, n : 1 .. p, flag : BOOLEAN]
    \cup [what : {"approve"}, n : 1 .. c, flag : BOOLEAN]
    \cup [what : {"abort", "end", "forget"}, n : Nat, flag : BOOLEAN]
Events(p, c) ==
  [what : {"sent", "refused"}, n : 1 .. p, flag : BOOLEAN]
    \cup [what : {"approval-request", "approval-cancelled"}, n : 1 .. c, flag : BOOLEAN]
    \cup [what : {"session", "turn-end", "error", "exit"}, n : Nat, flag : BOOLEAN]
Views(p, c) ==
  [status : Statuses \cup {"none"}, card : Nat, queued : 0 .. p, session : BOOLEAN,
   open : SUBSET (1 .. c)]

\* Every Run object in use began with a process and knows the message it gave to
\* its last one.
DriverTypes ==
  /\ setting \in Settings
  /\ made \in Nat /\ made <= Len(kids) /\ current \in 0 .. made
  /\ run \in [Objects -> RunType]
  /\ kids \in Seq(KidType) /\ Len(kids) <= MaxKids
  /\ \A k \in 1 .. Len(kids) : run[kids[k].run].last # None
  /\ cards \in Seq(CardType)
  /\ saved \in Statuses \cup {"absent"} /\ quit \in BOOLEAN

ViewTypes ==
  /\ toMain \in Seq(Commands(prompts, Len(cards)))
  /\ toUi \in Seq(Events(prompts, Len(cards)))
  /\ view \in Views(prompts, Len(cards))
  /\ view.card # None => view.card \in view.open
  /\ prompts \in 0 .. MaxPrompts /\ shown \subseteq 1 .. prompts

Types == DriverTypes /\ ViewTypes

\* Where every CLI starts, a process that runs is the child of its Run object,
\* which the driver holds until the application quits; there is one at most; and
\* the child of the object that is held runs.
ProcInv ==
  ~setting.spawnErrors =>
    /\ quit => current = None
    /\ \A k \in 1 .. Len(kids) : kids[k].stage # "failed"
    /\ \A k \in 1 .. Len(kids) : Running(k) =>
         /\ run[kids[k].run].child = k
         /\ current = kids[k].run \/ quit
    /\ \A k, l \in 1 .. Len(kids) : Running(k) /\ Running(l) => k = l
    /\ current # None /\ run[current].child # None =>
         /\ run[current].child \in 1 .. Len(kids)
         /\ Running(run[current].child)
         /\ kids[run[current].child].run = current

\* Full-auto is used only where it was chosen, and unless the host may refuse it
\* no process outlives the end of the application unnoticed.
QuitInv ==
  /\ quit => setting.quits
  /\ \A o \in Objects : run[o].mode = "bypass" => setting.mode = "bypass"
  /\ \A k \in 1 .. Len(kids) : kids[k].mode = "bypass" => setting.mode = "bypass"
  /\ ~setting.spawnErrors /\ ~(setting.rootHost /\ setting.quits /\ setting.mode = "bypass") =>
       \A k \in 1 .. Len(kids) : quit /\ Running(k) => kids[k].killed

IInv == Types /\ ProcInv /\ QuitInv

------------------------------------------------------------------------------
(* Sequences.                                                                *)

\* A function on 1 .. n with values in S is a sequence over S of length n.
LEMMA FunctionIsSeq ==
  ASSUME NEW S, NEW n \in Nat, NEW f \in [1 .. n -> S]
  PROVE  f \in Seq(S) /\ Len(f) = n
<1>1. f \in Seq(S)
  BY SeqDef
<1>2. DOMAIN f = 1 .. Len(f) /\ Len(f) \in Nat /\ DOMAIN f = 1 .. n
  BY <1>1, LenProperties
<1> QED
  BY <1>1, <1>2

\* A sequence is the function of its elements.
LEMMA SeqIsFunction ==
  ASSUME NEW S, NEW s \in Seq(S)
  PROVE  /\ Len(s) \in Nat /\ DOMAIN s = 1 .. Len(s)
         /\ s \in [1 .. Len(s) -> S]
         /\ \A i \in 1 .. Len(s) : s[i] \in S
BY LenProperties, ElementOfSeq

\* A sequence over a set is one over every larger set.
LEMMA SeqGrows ==
  ASSUME NEW S, NEW T, S \subseteq T, NEW s \in Seq(S)
  PROVE  s \in Seq(T)
<1>1. s \in [1 .. Len(s) -> T] /\ Len(s) \in Nat
  BY SeqIsFunction
<1> QED
  BY <1>1, FunctionIsSeq

\* One element exchanged.
LEMMA SetAt ==
  ASSUME NEW S, NEW s \in Seq(S), NEW k \in 1 .. Len(s), NEW e \in S
  PROVE  /\ [s EXCEPT ![k] = e] \in Seq(S)
         /\ Len([s EXCEPT ![k] = e]) = Len(s)
         /\ [s EXCEPT ![k] = e][k] = e
         /\ \A i \in 1 .. Len(s) : i # k => [s EXCEPT ![k] = e][i] = s[i]
<1>1. s \in [1 .. Len(s) -> S] /\ Len(s) \in Nat
  BY SeqIsFunction
<1> QED
  BY <1>1, FunctionIsSeq

\* One element more.
LEMMA Appending ==
  ASSUME NEW S, NEW s \in Seq(S), NEW e \in S
  PROVE  /\ Append(s, e) \in Seq(S)
         /\ Len(Append(s, e)) = Len(s) + 1
         /\ Append(s, e)[Len(s) + 1] = e
         /\ \A i \in 1 .. Len(s) : Append(s, e)[i] = s[i]
BY AppendProperties

\* The messages that wait, and what is left when the first one is taken.
LEMMA Taking ==
  ASSUME NEW S, NEW s \in Seq(S), s # <<>>
  PROVE  Head(s) \in S /\ Tail(s) \in Seq(S)
BY HeadTailProperties

------------------------------------------------------------------------------
(* Messages.                                                                 *)

\* A message says what it says.
LEMMA MsgFields ==
  ASSUME NEW what, NEW n, NEW flag
  PROVE  /\ Msg(what, n, flag).what = what
         /\ Msg(what, n, flag).n = n
         /\ Msg(what, n, flag).flag = flag
BY DEF Msg

\* The commands that name nothing.
LEMMA PlainCommand ==
  ASSUME NEW what \in {"abort", "end", "forget"}, NEW n \in Nat, NEW flag \in BOOLEAN,
         NEW p, NEW c
  PROVE  Msg(what, n, flag) \in Commands(p, c)
<1>1. Msg(what, n, flag) \in [what : {"abort", "end", "forget"}, n : Nat, flag : BOOLEAN]
  BY DEF Msg
<1> QED
  BY <1>1 DEF Commands

\* The commands that name a message.
LEMMA PromptCommand ==
  ASSUME NEW what \in {"start", "input"}, NEW p, NEW n \in 1 .. p, NEW flag \in BOOLEAN, NEW c
  PROVE  Msg(what, n, flag) \in Commands(p, c)
<1>1. Msg(what, n, flag) \in [what : {"start", "input"}, n : 1 .. p, flag : BOOLEAN]
  BY DEF Msg
<1> QED
  BY <1>1 DEF Commands

\* The answer to a card.
LEMMA CardCommand ==
  ASSUME NEW c, NEW n \in 1 .. c, NEW flag \in BOOLEAN, NEW p
  PROVE  Msg("approve", n, flag) \in Commands(p, c)
<1>1. Msg("approve", n, flag) \in [what : {"approve"}, n : 1 .. c, flag : BOOLEAN]
  BY DEF Msg
<1> QED
  BY <1>1 DEF Commands

\* What a command names.
LEMMA CommandFields ==
  ASSUME NEW p, NEW c, NEW m \in Commands(p, c)
  PROVE  /\ m.flag \in BOOLEAN
         /\ m.what \in {"start", "input"} => m.n \in 1 .. p
         /\ m.what = "approve" => m.n \in 1 .. c
BY DEF Commands

\* The events that name nothing.
LEMMA PlainEvent ==
  ASSUME NEW what \in {"session", "turn-end", "error", "exit"},
         NEW n \in Nat, NEW flag \in BOOLEAN, NEW p, NEW c
  PROVE  Msg(what, n, flag) \in Events(p, c)
<1>1. Msg(what, n, flag) \in [what : {"session", "turn-end", "error", "exit"},
                             n : Nat, flag : BOOLEAN]
  BY DEF Msg
<1> QED
  BY <1>1 DEF Events

\* The replies to a message.
LEMMA Reply ==
  ASSUME NEW what \in {"sent", "refused"}, NEW p, NEW n \in 1 .. p, NEW flag \in BOOLEAN, NEW c
  PROVE  Msg(what, n, flag) \in Events(p, c)
<1>1. Msg(what, n, flag) \in [what : {"sent", "refused"}, n : 1 .. p, flag : BOOLEAN]
  BY DEF Msg
<1> QED
  BY <1>1 DEF Events

\* The question a card asks, and that it no longer does.
LEMMA Question ==
  ASSUME NEW what \in {"approval-request", "approval-cancelled"},
         NEW c, NEW n \in 1 .. c, NEW flag \in BOOLEAN, NEW p
  PROVE  Msg(what, n, flag) \in Events(p, c)
<1>1. Msg(what, n, flag) \in [what : {"approval-request", "approval-cancelled"},
                             n : 1 .. c, flag : BOOLEAN]
  BY DEF Msg
<1> QED
  BY <1>1 DEF Events

\* What an event names.
LEMMA EventFields ==
  ASSUME NEW p, NEW c, NEW m \in Events(p, c)
  PROVE  /\ m.flag \in BOOLEAN
         /\ m.what \in {"sent", "refused"} => m.n \in 1 .. p
         /\ m.what \in {"approval-request", "approval-cancelled"} => m.n \in 1 .. c
         /\ m.what \in {"sent", "refused", "approval-request", "session", "approval-cancelled",
                        "turn-end", "error", "exit"}
BY DEF Events

\* More messages written and more cards leave what waits well typed.
LEMMA NamesGrow ==
  ASSUME NEW p \in Nat, NEW c \in Nat, NEW q \in Nat, NEW d \in Nat, p <= q, c <= d
  PROVE  /\ Commands(p, c) \subseteq Commands(q, d)
         /\ Events(p, c) \subseteq Events(q, d)
         /\ Views(p, c) \subseteq Views(q, d)
<1>1. 1 .. p \subseteq 1 .. q /\ 0 .. p \subseteq 0 .. q /\ 1 .. c \subseteq 1 .. d
  OBVIOUS
<1>2. Commands(p, c) \subseteq Commands(q, d)
  BY <1>1 DEF Commands
<1>3. Events(p, c) \subseteq Events(q, d)
  BY <1>1 DEF Events
<1>4. Views(p, c) \subseteq Views(q, d)
  BY <1>1 DEF Views
<1> QED
  BY <1>2, <1>3, <1>4

------------------------------------------------------------------------------
(* What the driver's helpers do.                                             *)

\* A Run object made for a message.
LEMMA NewRunType ==
  ASSUME NEW p \in Prompts \cup {None}, NEW mode \in Modes
  PROVE  /\ NewRun(p, mode) \in RunType
         /\ NewRun(p, mode).mode = mode /\ NewRun(p, mode).child = None
         /\ NewRun(p, mode).last = p
BY DEF NewRun, RunType

\* The settings, field by field.
LEMMA SettingFields ==
  ASSUME setting \in Settings
  PROVE  /\ setting.mode \in Modes /\ setting.rootHost \in BOOLEAN
         /\ setting.spawnErrors \in BOOLEAN /\ setting.quits \in BOOLEAN
BY AgentsAssumption

\* One Run object exchanged.
LEMMA RunAt ==
  ASSUME run \in [Objects -> RunType], NEW o \in Objects, NEW r \in RunType
  PROVE  /\ [run EXCEPT ![o] = r] \in [Objects -> RunType]
         /\ [run EXCEPT ![o] = r][o] = r
         /\ \A x \in Objects : x # o => [run EXCEPT ![o] = r][x] = run[x]
OBVIOUS

\* A new process for the Run object o, whose fields are r, and what becomes of it.
Spawns(o, r, p, ks) ==
  /\ run \in [Objects -> RunType] /\ o \in Objects /\ r \in RunType /\ p \in Prompts
  /\ ks \in Seq(KidType) /\ SpawnTurn(o, r, p, ks)

Spawned(o, r, p, ks) ==
  /\ Len(ks) \in Nat /\ Len(ks) + 1 <= MaxKids
  /\ kids' \in Seq(KidType) /\ Len(kids') = Len(ks) + 1
  /\ \A k \in 1 .. Len(ks) : kids'[k] = ks[k]
  /\ kids'[Len(ks) + 1].run = o
  /\ kids'[Len(ks) + 1].stage = "running"
  /\ kids'[Len(ks) + 1].mode = r.mode /\ kids'[Len(ks) + 1].prompt = p
  /\ run' \in [Objects -> RunType]
  /\ run'[o].child = Len(ks) + 1 /\ run'[o].last = p /\ run'[o].mode = r.mode
  /\ ~run'[o].completed
  /\ \A x \in Objects : x # o => run'[x] = run[x]

\* spawnTurn adds one process, the child of its Run object.
LEMMA SpawnTurnSpawns ==
  ASSUME NEW o, NEW r, NEW p, NEW ks, Spawns(o, r, p, ks)
  PROVE  Spawned(o, r, p, ks)
<1> DEFINE e == [run |-> o, stage |-> "running", opened |-> FALSE, killed |-> FALSE,
                 mode |-> r.mode, prompt |-> p]
           n == Len(ks) + 1
           s == [r EXCEPT !.child = n, !.completed = FALSE, !.last = p]
<1>1. /\ run \in [Objects -> RunType] /\ o \in Objects /\ r \in RunType /\ p \in Prompts
      /\ ks \in Seq(KidType) /\ Len(ks) < MaxKids
      /\ kids' = Append(ks, e) /\ run' = [run EXCEPT ![o] = s]
  BY DEF Spawns, SpawnTurn
<1>2. Len(ks) \in Nat
  BY <1>1, LenProperties
<1>3. n \in Kids /\ n <= MaxKids
  BY <1>1, <1>2, AgentsAssumption DEF Kids
<1>4. r.mode \in Modes
  BY <1>1 DEF RunType
<1>5. e \in KidType /\ e.run = o /\ e.stage = "running" /\ e.mode = r.mode /\ e.prompt = p
  BY <1>1, <1>4 DEF KidType
<1>6. s \in RunType /\ s.child = n /\ s.last = p /\ s.mode = r.mode /\ ~s.completed
  BY <1>1, <1>3 DEF RunType
<1> HIDE DEF e, s
<1>7. /\ kids' \in Seq(KidType) /\ Len(kids') = Len(ks) + 1
      /\ kids'[Len(ks) + 1] = e
      /\ \A k \in 1 .. Len(ks) : kids'[k] = ks[k]
  BY <1>1, <1>5, Appending
<1>8. /\ run' \in [Objects -> RunType] /\ run'[o] = s
      /\ \A x \in Objects : x # o => run'[x] = run[x]
  BY <1>1, <1>6, RunAt
<1> QED
  BY <1>2, <1>3, <1>5, <1>6, <1>7, <1>8 DEF Spawned

\* A card that is settled is a card.
LEMMA AnsweredType ==
  ASSUME NEW a, cards[a] \in CardType, NEW state \in {"pending", "allowed", "denied"}
  PROVE  Answered(a, state) \in CardType
BY DEF Answered, CardType

\* The cards that are denied stay cards, whether their timers are cleared or not.
LEMMA DeniedType ==
  ASSUME cards \in Seq(CardType),
         NEW ds, \/ ds = Denied
                 \/ ds = [a \in DOMAIN cards |->
                            IF Pending(a) THEN [cards[a] EXCEPT !.state = "denied"] ELSE cards[a]]
  PROVE  ds \in Seq(CardType) /\ Len(ds) = Len(cards)
<1>1. Len(cards) \in Nat /\ DOMAIN cards = 1 .. Len(cards)
      /\ \A a \in 1 .. Len(cards) : cards[a] \in CardType
  BY SeqIsFunction
<1>2. ASSUME NEW a \in 1 .. Len(cards)
      PROVE  /\ (IF Pending(a) THEN Answered(a, "denied") ELSE cards[a]) \in CardType
             /\ (IF Pending(a) THEN [cards[a] EXCEPT !.state = "denied"] ELSE cards[a]) \in CardType
  <2>1. cards[a] \in CardType
    BY <1>1, <1>2
  <2>2. Answered(a, "denied") \in CardType
    BY <2>1, AnsweredType
  <2>3. [cards[a] EXCEPT !.state = "denied"] \in CardType
    BY <2>1 DEF CardType
  <2> QED
    BY <2>1, <2>2, <2>3
<1>3. ds \in [1 .. Len(cards) -> CardType]
  <2>1. CASE ds = Denied
    BY <1>1, <1>2, <2>1 DEF Denied
  <2>2. CASE ds = [a \in DOMAIN cards |->
                     IF Pending(a) THEN [cards[a] EXCEPT !.state = "denied"] ELSE cards[a]]
    BY <1>1, <1>2, <2>2
  <2> QED
    BY <2>1, <2>2
<1> QED
  BY <1>1, <1>3, FunctionIsSeq

\* The announcements of some cards, in any order, are events.
LEMMA Announcements ==
  ASSUME NEW c \in Nat, NEW n \in 0 .. c, NEW q \in [1 .. n -> 1 .. c], NEW p
  PROVE  [i \in DOMAIN q |-> Msg("approval-cancelled", q[i], FALSE)] \in Seq(Events(p, c))
<1>1. \A i \in 1 .. n : q[i] \in 1 .. c
  OBVIOUS
<1>2. \A i \in 1 .. n : Msg("approval-cancelled", q[i], FALSE) \in Events(p, c)
  BY <1>1, Question
<1>3. [i \in DOMAIN q |-> Msg("approval-cancelled", q[i], FALSE)] \in [1 .. n -> Events(p, c)]
  BY <1>2
<1>4. n \in Nat
  OBVIOUS
<1> QED
  BY <1>3, <1>4, FunctionIsSeq

\* What is announced of the denied cards are events.
LEMMA CancelsType ==
  ASSUME cards \in Seq(CardType), NEW cs \in Cancels, NEW p
  PROVE  cs \in Seq(Events(p, Len(cards)))
<1>1. Len(cards) \in Nat /\ DOMAIN cards = 1 .. Len(cards)
  BY SeqIsFunction
<1>2. CASE cs = <<>>
  BY <1>2
<1>3. CASE cs # <<>>
  <2>1. \E n \in 0 .. Len(cards) : \E q \in [1 .. n -> DOMAIN cards] :
          cs = [i \in DOMAIN q |-> Msg("approval-cancelled", q[i], FALSE)]
    BY <1>3 DEF Cancels
  <2>2. \A n \in 0 .. Len(cards) : \A q \in [1 .. n -> DOMAIN cards] :
          [i \in DOMAIN q |-> Msg("approval-cancelled", q[i], FALSE)] \in Seq(Events(p, Len(cards)))
    BY <1>1, Announcements
  <2> QED
    BY <2>1, <2>2, Zenon
<1> QED
  BY <1>2, <1>3

\* The run's last events leave the driver without a run, and everything typed.
LEMMA EndsTypes ==
  ASSUME Types, NEW o \in Objects, NEW r \in RunType,
         NEW es \in Seq(Events(prompts, Len(cards))), Ends(o, r, es)
  PROVE  /\ run' = [run EXCEPT ![o] = r] /\ current' = None
         /\ cards' \in Seq(CardType) /\ Len(cards') = Len(cards)
         /\ toUi' \in Seq(Events(prompts, Len(cards)))
<1>1. PICK cs \in Cancels : toUi' = toUi \o es \o cs
  BY DEF Ends
<1>2. cards \in Seq(CardType) /\ toUi \in Seq(Events(prompts, Len(cards)))
  BY DEF Types, DriverTypes, ViewTypes
<1>3. cs \in Seq(Events(prompts, Len(cards)))
  BY <1>2, CancelsType
<1>4. toUi \o es \in Seq(Events(prompts, Len(cards)))
  BY <1>2, ConcatProperties
<1>5. toUi' \in Seq(Events(prompts, Len(cards)))
  BY <1>1, <1>3, <1>4, ConcatProperties
<1>6. cards' = Denied /\ run' = [run EXCEPT ![o] = r] /\ current' = None
  BY DEF Ends
<1> QED
  BY <1>2, <1>5, <1>6, DeniedType

\* The last events of a run.
LEMMA LastEvents ==
  ASSUME NEW p, NEW c
  PROVE  /\ \A aborted \in BOOLEAN : <<Exit(aborted)>> \in Seq(Events(p, c))
         /\ <<Error, Exit(FALSE)>> \in Seq(Events(p, c))
<1> DEFINE S == Events(p, c)
<1>1. Error \in S /\ \A aborted \in BOOLEAN : Exit(aborted) \in S
  BY PlainEvent DEF Error, Exit
<1> HIDE DEF S
<1>2. \A e, f \in S : <<e>> \in Seq(S) /\ <<e, f>> \in Seq(S)
  OBVIOUS
<1> QED
  BY <1>1, <1>2 DEF S

------------------------------------------------------------------------------
(* The kinds of steps the driver takes.                                      *)

\* What every part knows of the processes, the Run objects and the commands.
LEMMA Known ==
  ASSUME Types
  PROVE  /\ Len(kids) \in Nat /\ DOMAIN kids = 1 .. Len(kids)
         /\ \A k \in 1 .. Len(kids) : /\ kids[k] \in KidType /\ kids[k].run \in Objects
                                      /\ kids[k].run # None
         /\ Len(cards) \in Nat /\ DOMAIN cards = 1 .. Len(cards)
         /\ \A a \in 1 .. Len(cards) : cards[a] \in CardType
         /\ \A o \in Objects : run[o] \in RunType
         /\ made <= MaxKids
         /\ current # None => current \in Objects
<1>1. kids \in Seq(KidType) /\ cards \in Seq(CardType) /\ run \in [Objects -> RunType]
      /\ made \in Nat /\ made <= Len(kids) /\ Len(kids) <= MaxKids /\ current \in 0 .. made
  BY DEF Types, DriverTypes
<1>2. /\ Len(kids) \in Nat /\ DOMAIN kids = 1 .. Len(kids)
      /\ \A k \in 1 .. Len(kids) : kids[k] \in KidType
  BY <1>1, SeqIsFunction
<1>3. /\ Len(cards) \in Nat /\ DOMAIN cards = 1 .. Len(cards)
      /\ \A a \in 1 .. Len(cards) : cards[a] \in CardType
  BY <1>1, SeqIsFunction
<1>4. \A k \in 1 .. Len(kids) : kids[k].run \in Objects /\ kids[k].run # None
  BY <1>2 DEF KidType, Objects, None
<1>5. MaxKids \in Nat
  BY AgentsAssumption
<1>6. made <= MaxKids /\ (current # None => current \in Objects)
  BY <1>1, <1>2, <1>5 DEF None, Objects
<1> QED
  BY <1>1, <1>2, <1>3, <1>4, <1>6

\* A step that neither starts nor closes a process.
SameKids ==
  /\ kids' \in Seq(KidType) /\ Len(kids') = Len(kids)
  /\ \A k \in 1 .. Len(kids) :
       /\ kids'[k].run = kids[k].run /\ kids'[k].stage = kids[k].stage
       /\ kids'[k].mode = kids[k].mode /\ (kids[k].killed => kids'[k].killed)
       /\ kids'[k].prompt = kids[k].prompt
SameRuns ==
  /\ run' \in [Objects -> RunType]
  /\ \A o \in Objects : /\ run'[o].child = run[o].child
                        /\ run'[o].last = run[o].last /\ run'[o].mode = run[o].mode

\* One process exchanged for one of the same run, stage and mode.
LEMMA OneKid ==
  ASSUME Types, NEW k \in 1 .. Len(kids), NEW e \in KidType,
         e.run = kids[k].run, e.stage = kids[k].stage, e.mode = kids[k].mode,
         kids[k].killed => e.killed, e.prompt = kids[k].prompt, kids' = [kids EXCEPT ![k] = e]
  PROVE  SameKids
<1>1. kids \in Seq(KidType)
  BY DEF Types, DriverTypes
<1>2. /\ kids' \in Seq(KidType) /\ Len(kids') = Len(kids) /\ kids'[k] = e
      /\ \A i \in 1 .. Len(kids) : i # k => kids'[i] = kids[i]
  BY <1>1, SetAt
<1> QED
  BY <1>2 DEF SameKids

\* One Run object exchanged for one with the same child, last message and mode.
LEMMA OneRun ==
  ASSUME Types, NEW o \in Objects, NEW r \in RunType,
         r.child = run[o].child, r.last = run[o].last, r.mode = run[o].mode,
         run' = [run EXCEPT ![o] = r]
  PROVE  SameRuns
<1>1. run \in [Objects -> RunType]
  BY DEF Types, DriverTypes
<1>2. /\ run' \in [Objects -> RunType] /\ run'[o] = r
      /\ \A x \in Objects : x # o => run'[x] = run[x]
  BY <1>1, RunAt
<1> QED
  BY <1>2 DEF SameRuns

\* Nothing exchanged.
LEMMA NothingExchanged ==
  ASSUME Types
  PROVE  (UNCHANGED kids => SameKids) /\ (UNCHANGED run => SameRuns)
BY DEF SameKids, SameRuns, Types, DriverTypes

\* The types of the driver after a step that starts no process.
LEMMA SameDriver ==
  ASSUME Types, UNCHANGED <<setting, made>>, current' \in {current, None},
         run' \in [Objects -> RunType], \A o \in Objects : run'[o].last = run[o].last,
         kids' \in Seq(KidType), Len(kids') = Len(kids),
         \A k \in 1 .. Len(kids) : kids'[k].run = kids[k].run,
         cards' \in Seq(CardType), saved' \in Statuses \cup {"absent"}, quit' \in BOOLEAN
  PROVE  DriverTypes'
<1>1. \A k \in 1 .. Len(kids) : kids[k].run \in Objects
  BY Known
<1>2. \A k \in 1 .. Len(kids') : run'[kids'[k].run].last # None
  BY <1>1 DEF Types, DriverTypes
<1>3. current' \in 0 .. made'
  BY DEF Types, DriverTypes, None
<1> QED
  BY <1>2, <1>3 DEF Types, DriverTypes

\* The types of the driver after a new process was started.
LEMMA SpawnedDriver ==
  ASSUME Types, NEW o, NEW r, NEW p, NEW ks, Spawns(o, r, p, ks), Len(ks) = Len(kids),
         \A k \in 1 .. Len(kids) : ks[k].run = kids[k].run,
         setting' = setting, made' \in Nat, made' <= Len(kids) + 1, current' \in 0 .. made',
         cards' \in Seq(CardType), saved' \in Statuses \cup {"absent"}, quit' \in BOOLEAN
  PROVE  DriverTypes'
<1>1. Spawned(o, r, p, ks) /\ o \in Objects /\ p \in Prompts
  BY SpawnTurnSpawns DEF Spawns
<1>2. \A k \in 1 .. Len(kids) : kids[k].run \in Objects /\ run[kids[k].run].last # None
  BY Known DEF Types, DriverTypes
<1>3. Len(kids) \in Nat
  BY Known
<1>4. p # None
  BY <1>1 DEF Prompts, None
<1>5. ASSUME NEW k \in 1 .. Len(kids')
      PROVE  run'[kids'[k].run].last # None
  <2>1. CASE k = Len(ks) + 1
    BY <1>1, <1>4, <2>1 DEF Spawned
  <2>2. CASE k # Len(ks) + 1
    <3>1. k \in 1 .. Len(ks) /\ kids'[k].run = kids[k].run
      BY <1>1, <1>3, <2>2 DEF Spawned
    <3>2. PICK x \in Objects : x = kids[k].run /\ run[x].last # None
      BY <1>2, <3>1
    <3>3. run'[x].last # None
      BY <1>1, <1>4, <3>2 DEF Spawned
    <3> QED
      BY <3>1, <3>2, <3>3
  <2> QED
    BY <2>1, <2>2
<1>6. kids' \in Seq(KidType) /\ Len(kids') <= MaxKids /\ Len(kids') = Len(kids) + 1
      /\ run' \in [Objects -> RunType]
  BY <1>1 DEF Spawned
<1>7. setting' \in Settings
  BY DEF Types, DriverTypes
<1> QED
  BY <1>5, <1>6, <1>7 DEF DriverTypes

\* The types of the view after a step of the main process.
LEMMA SameView ==
  ASSUME Types, UNCHANGED <<view, prompts, shown>>, Len(cards') = Len(cards),
         toMain' \in Seq(Commands(prompts, Len(cards))),
         toUi' \in Seq(Events(prompts, Len(cards)))
  PROVE  ViewTypes'
BY DEF Types, ViewTypes

\* A step that neither starts nor closes a process leaves a process that runs its
\* Run object, or tells it to exit.
LEMMA QuietStep ==
  ASSUME IInv, SameKids, SameRuns, setting' = setting,
         \/ current' = current /\ quit' = quit
         \/ /\ current' = None /\ quit' \in {quit, setting.quits}
            /\ ~setting.spawnErrors =>
                 \A k \in 1 .. Len(kids) : Running(k) => quit' /\ kids'[k].killed
  PROVE  ProcInv' /\ QuitInv'
<1>1. /\ Len(kids) \in Nat /\ \A k \in 1 .. Len(kids) : kids[k].run \in Objects
      /\ current # None => current \in Objects
  BY Known DEF IInv
<1>2. \A k \in 1 .. Len(kids) : Running(k)' <=> Running(k)
  BY DEF SameKids, Running
<1>3. quit \in BOOLEAN
  BY DEF IInv, Types, DriverTypes
<1>4. CASE current' = current /\ quit' = quit
  <2>1. ProcInv'
    BY <1>1, <1>2, <1>4 DEF IInv, ProcInv, SameKids, SameRuns
  <2>2. QuitInv'
    BY <1>1, <1>2, <1>4 DEF IInv, QuitInv, SameKids, SameRuns
  <2> QED
    BY <2>1, <2>2
<1>5. CASE /\ current' = None /\ quit' \in {quit, setting.quits}
           /\ ~setting.spawnErrors =>
                 \A k \in 1 .. Len(kids) : Running(k) => quit' /\ kids'[k].killed
  <2>1. ProcInv'
    BY <1>1, <1>2, <1>5 DEF IInv, ProcInv, SameKids, SameRuns
  <2>2. QuitInv'
    BY <1>1, <1>2, <1>3, <1>5 DEF IInv, QuitInv, SameKids, SameRuns
  <2> QED
    BY <2>1, <2>2
<1> QED
  BY <1>4, <1>5

\* Where every CLI starts, a process that closes leaves none that runs.
LEMMA CloseStep ==
  ASSUME IInv, NEW k \in 1 .. Len(kids), kids[k].stage \in {"running", "failed"},
         Len(kids') = Len(kids), kids'[k].stage = "closed",
         \A i \in 1 .. Len(kids) : /\ kids'[i].mode = kids[i].mode
                                   /\ i # k => kids'[i].stage = kids[i].stage,
         run'[kids[k].run].child = None,
         \A o \in Objects : run'[o].mode = run[o].mode,
         UNCHANGED <<setting, quit>>, current' \in {current, None}
  PROVE  ProcInv' /\ QuitInv'
<1>1. ASSUME ~setting.spawnErrors
      PROVE  \A i \in 1 .. Len(kids) : kids'[i].stage # "failed" /\ ~Running(i)'
  BY <1>1 DEF IInv, ProcInv, Running
<1>2. ASSUME ~setting.spawnErrors, current' # None
      PROVE  current' = kids[k].run
  BY <1>2 DEF IInv, ProcInv, Running
<1>3. ProcInv'
  BY <1>1, <1>2 DEF IInv, ProcInv, Running
<1>4. QuitInv'
  BY <1>1 DEF IInv, QuitInv
<1> QED
  BY <1>3, <1>4

\* A process started where none runs is the only one, the child of the object the
\* driver holds or of one that quitting let go.
LEMMA SpawnStep ==
  ASSUME IInv, NEW o, NEW r, NEW p, NEW ks, Spawns(o, r, p, ks), Len(ks) = Len(kids),
         ~setting.spawnErrors => \A k \in 1 .. Len(ks) : ks[k].stage = "closed",
         \A k \in 1 .. Len(ks) : ks[k].mode = kids[k].mode,
         r.mode = "bypass" => setting.mode = "bypass",
         UNCHANGED <<setting, quit>>,
         ~setting.spawnErrors =>
           \/ current' = o /\ ~quit
           \/ current' = None /\ quit /\ setting.rootHost /\ setting.mode = "bypass"
  PROVE  ProcInv' /\ QuitInv'
<1>1. Spawned(o, r, p, ks) /\ o \in Objects
  BY SpawnTurnSpawns DEF Spawns
<1>2. Len(kids) \in Nat /\ o # None
  BY <1>1, Known DEF IInv, Objects, None
<1>3. Len(kids') = Len(kids) + 1
  BY <1>1 DEF Spawned
<1>4. ASSUME ~setting.spawnErrors, NEW k \in 1 .. Len(kids')
      PROVE  /\ kids'[k].stage # "failed"
             /\ Running(k)' => k = Len(kids) + 1
             /\ k = Len(kids) + 1 => Running(k)' /\ kids'[k].run = o
  BY <1>1, <1>2, <1>3, <1>4 DEF Spawned, Running
<1>5. run'[o].child = Len(kids) + 1 /\ Len(kids) + 1 \in 1 .. Len(kids')
  BY <1>1, <1>2, <1>3 DEF Spawned
<1>6. ProcInv'
  BY <1>2, <1>4, <1>5 DEF ProcInv
<1>7. \A x \in Objects : run'[x].mode = "bypass" => setting.mode = "bypass"
  BY <1>1 DEF Spawned, IInv, QuitInv
<1>8. ASSUME NEW k \in 1 .. Len(kids'), kids'[k].mode = "bypass"
      PROVE  setting.mode = "bypass"
  <2>1. CASE k = Len(ks) + 1
    BY <1>1, <1>8, <2>1 DEF Spawned
  <2>2. CASE k # Len(ks) + 1
    <3>1. k \in 1 .. Len(ks) /\ kids'[k] = ks[k]
      BY <1>1, <1>2, <1>3, <2>2 DEF Spawned
    <3> QED
      BY <1>8, <3>1 DEF IInv, QuitInv
  <2> QED
    BY <2>1, <2>2
<1>9. quit => setting.quits
  BY DEF IInv, QuitInv
<1>10. QuitInv'
  BY <1>7, <1>8, <1>9 DEF QuitInv
<1> QED
  BY <1>6, <1>10

\* What a step of the main process leaves well typed besides the processes.
Rest ==
  /\ UNCHANGED <<setting, view, prompts, shown>>
  /\ cards' \in Seq(CardType) /\ Len(cards') = Len(cards)
  /\ saved' \in Statuses \cup {"absent"}
  /\ toMain' \in Seq(Commands(prompts, Len(cards)))
  /\ toUi' \in Seq(Events(prompts, Len(cards)))

\* A step of the main process that neither starts nor closes a process, and keeps
\* the run the driver holds.
LEMMA Quiet ==
  ASSUME IInv, SameKids, SameRuns, Rest, UNCHANGED <<made, current, quit>>
  PROVE  IInv'
<1>1. DriverTypes'
  BY SameDriver DEF IInv, SameKids, SameRuns, Rest, Types, DriverTypes
<1>2. ViewTypes'
  BY SameView DEF IInv, Rest
<1>3. ProcInv' /\ QuitInv'
  BY QuietStep DEF Rest
<1> QED
  BY <1>1, <1>2, <1>3 DEF IInv, Types

\* The same for a step that ends the run, which has no process or tells it to exit.
LEMMA QuietEnd ==
  ASSUME IInv, SameKids, SameRuns, Rest, UNCHANGED made, current' = None,
         quit' \in {quit, setting.quits}, quit' \in BOOLEAN,
         ~setting.spawnErrors => \A k \in 1 .. Len(kids) : Running(k) => quit' /\ kids'[k].killed
  PROVE  IInv'
<1>1. DriverTypes'
  BY SameDriver DEF IInv, SameKids, SameRuns, Rest, Types, DriverTypes
<1>2. ViewTypes'
  BY SameView DEF IInv, Rest
<1>3. ProcInv' /\ QuitInv'
  BY QuietStep DEF Rest
<1> QED
  BY <1>1, <1>2, <1>3 DEF IInv, Types

------------------------------------------------------------------------------
(* The processes.                                                            *)

\* A new event on its way to the renderer.
LEMMA Emits ==
  ASSUME Types, NEW e \in Events(prompts, Len(cards)), toUi' = Append(toUi, e)
  PROVE  toUi' \in Seq(Events(prompts, Len(cards)))
BY Appending DEF Types, ViewTypes

\* A process opens its session.
LEMMA OpensStep ==
  ASSUME IInv, NEW k \in 1 .. Len(kids), KidOpensSession(k)
  PROVE  IInv'
<1> DEFINE e == [kids[k] EXCEPT !.opened = TRUE]
<1>1. kids[k] \in KidType
  BY Known DEF IInv
<1>2. e \in KidType /\ e.run = kids[k].run /\ e.stage = kids[k].stage /\ e.mode = kids[k].mode
      /\ e.killed = kids[k].killed /\ e.prompt = kids[k].prompt
  BY <1>1 DEF KidType
<1>3. kids' = [kids EXCEPT ![k] = e]
  BY DEF KidOpensSession
<1> HIDE DEF e
<1>4. SameKids
  BY <1>2, <1>3, OneKid DEF IInv
<1>5. SameRuns
  BY NothingExchanged DEF KidOpensSession, IInv
<1>6. toUi' \in Seq(Events(prompts, Len(cards)))
  BY Emits, PlainEvent DEF KidOpensSession, IInv
<1>7. Rest /\ UNCHANGED <<made, current, quit>>
  BY <1>6 DEF KidOpensSession, Rest, ui, IInv, Types, DriverTypes, ViewTypes, Statuses
<1> QED
  BY <1>4, <1>5, <1>7, Quiet

\* A process ends its turn.
LEMMA EndsTurnStep ==
  ASSUME IInv, NEW k \in 1 .. Len(kids), KidEndsTurn(k)
  PROVE  IInv'
<1> DEFINE o == kids[k].run
           r == [run[o] EXCEPT !.completed = TRUE]
<1>1. o \in Objects /\ run[o] \in RunType
  BY Known DEF IInv
<1>2. r \in RunType /\ r.child = run[o].child /\ r.last = run[o].last /\ r.mode = run[o].mode
  BY <1>1 DEF RunType
<1>3. run' = [run EXCEPT ![o] = r]
  BY DEF KidEndsTurn
<1> HIDE DEF o, r
<1>4. SameRuns
  BY <1>1, <1>2, <1>3, OneRun DEF IInv
<1>5. SameKids
  BY NothingExchanged DEF KidEndsTurn, IInv
<1>6. toUi' \in Seq(Events(prompts, Len(cards)))
  BY Emits, PlainEvent DEF KidEndsTurn, IInv
<1>7. Rest /\ UNCHANGED <<made, current, quit>>
  BY <1>6 DEF KidEndsTurn, Rest, ui, IInv, Types, DriverTypes, ViewTypes, Statuses
<1> QED
  BY <1>4, <1>5, <1>7, Quiet

\* The approval timer fires.
LEMMA TimesOutStep ==
  ASSUME IInv, NEW a \in Nat, ApprovalTimesOut(a)
  PROVE  IInv'
<1> DEFINE c == IF SettlesLate(a) THEN Answered(a, "denied") ELSE [cards[a] EXCEPT !.timer = FALSE]
<1>1. /\ a \in 1 .. Len(cards) /\ cards[a] \in CardType /\ cards \in Seq(CardType)
      /\ toUi \in Seq(Events(prompts, Len(cards)))
  BY Known DEF ApprovalTimesOut, IInv, Types, DriverTypes, ViewTypes
<1>2. c \in CardType
  <2>1. Answered(a, "denied") \in CardType
    BY <1>1, AnsweredType
  <2>2. [cards[a] EXCEPT !.timer = FALSE] \in CardType
    BY <1>1 DEF CardType
  <2> QED
    BY <2>1, <2>2
<1>3. cards' = [cards EXCEPT ![a] = c]
  <2>1. CASE SettlesLate(a)
    BY <2>1 DEF ApprovalTimesOut
  <2>2. CASE ~SettlesLate(a)
    BY <2>2 DEF ApprovalTimesOut
  <2> QED
    BY <2>1, <2>2
<1> HIDE DEF c
<1>4. cards' \in Seq(CardType) /\ Len(cards') = Len(cards)
  BY <1>1, <1>2, <1>3, SetAt
<1>5. SameKids /\ SameRuns
  BY NothingExchanged DEF ApprovalTimesOut, IInv
<1>6. toUi' \in Seq(Events(prompts, Len(cards)))
  <2>1. CASE toUi' = Append(toUi, Msg("approval-cancelled", a, FALSE))
    BY <1>1, <2>1, Emits, Question DEF IInv
  <2> QED
    BY <1>1, <2>1 DEF ApprovalTimesOut
<1>7. Rest /\ UNCHANGED <<made, current, quit>>
  BY <1>4, <1>6 DEF ApprovalTimesOut, Rest, ui, IInv, Types, DriverTypes, ViewTypes
<1> QED
  BY <1>5, <1>7, Quiet

\* A process asks: there is one card more, which messages may name.
LEMMA AsksStep ==
  ASSUME IInv, NEW k \in 1 .. Len(kids), NEW t \in Tools, KidAsks(k, t)
  PROVE  IInv'
<1> DEFINE c == [tool |-> t, state |-> "pending", timer |-> TRUE]
           n == Len(cards)
<1>1. c \in CardType
  BY DEF CardType
<1>2. /\ cards \in Seq(CardType) /\ n \in Nat /\ prompts \in Nat
      /\ toMain \in Seq(Commands(prompts, n))
      /\ toUi \in Seq(Events(prompts, n))
      /\ view \in Views(prompts, n)
  BY Known DEF IInv, Types, DriverTypes, ViewTypes
<1>3. cards' \in Seq(CardType) /\ Len(cards') = n + 1
  BY <1>1, <1>2, Appending DEF KidAsks
<1>4. /\ Commands(prompts, n) \subseteq Commands(prompts, n + 1)
      /\ Events(prompts, n) \subseteq Events(prompts, n + 1)
      /\ Views(prompts, n) \subseteq Views(prompts, n + 1)
  BY <1>2, NamesGrow
<1>5. /\ toMain \in Seq(Commands(prompts, n + 1))
      /\ toUi \in Seq(Events(prompts, n + 1))
      /\ view \in Views(prompts, n + 1)
  BY <1>2, <1>4, SeqGrows
<1>6. Msg("approval-request", Len(cards'), FALSE) \in Events(prompts, n + 1)
  <2>1. n + 1 \in 1 .. n + 1
    BY <1>2
  <2> QED
    BY <2>1, <1>3, Question
<1>7. toUi' \in Seq(Events(prompts, n + 1))
  BY <1>5, <1>6, Appending DEF KidAsks
<1>8. ViewTypes'
  BY <1>3, <1>5, <1>7 DEF KidAsks, ui, IInv, Types, ViewTypes
<1>9. SameKids /\ SameRuns
  BY NothingExchanged DEF KidAsks, IInv
<1>10. DriverTypes'
  BY <1>3 DEF KidAsks, ui, IInv, Types, DriverTypes
<1>11. ProcInv' /\ QuitInv'
  BY <1>9, QuietStep DEF KidAsks, ui
<1> QED
  BY <1>8, <1>10, <1>11 DEF IInv, Types

\* A process that fails to start ends the run; nothing is claimed of the
\* processes where that happens.
LEMMA FailsStep ==
  ASSUME IInv, NEW k \in 1 .. Len(kids), KidFails(k)
  PROVE  IInv'
<1> DEFINE o == kids[k].run
           e == [kids[k] EXCEPT !.stage = "failed"]
<1>1. /\ o \in Objects /\ run[o] \in RunType /\ kids[k] \in KidType
      /\ kids \in Seq(KidType) /\ run \in [Objects -> RunType]
  BY Known DEF IInv, Types, DriverTypes
<1>2. e \in KidType /\ e.run = kids[k].run /\ e.mode = kids[k].mode
  BY <1>1 DEF KidType
<1>3. kids' = [kids EXCEPT ![k] = e]
  BY DEF KidFails
<1>4. Ends(o, run[o], <<Error, Exit(FALSE)>>)
  BY DEF KidFails
<1> HIDE DEF o, e
<1>5. /\ kids' \in Seq(KidType) /\ Len(kids') = Len(kids)
      /\ \A i \in 1 .. Len(kids) : kids'[i].run = kids[i].run /\ kids'[i].mode = kids[i].mode
  <2>1. /\ kids' \in Seq(KidType) /\ Len(kids') = Len(kids) /\ kids'[k] = e
        /\ \A i \in 1 .. Len(kids) : i # k => kids'[i] = kids[i]
    BY <1>1, <1>2, <1>3, SetAt
  <2> QED
    BY <1>2, <2>1
<1>6. /\ run' = [run EXCEPT ![o] = run[o]] /\ current' = None
      /\ cards' \in Seq(CardType) /\ Len(cards') = Len(cards)
      /\ toUi' \in Seq(Events(prompts, Len(cards)))
  <2>1. <<Error, Exit(FALSE)>> \in Seq(Events(prompts, Len(cards)))
    BY LastEvents
  <2> QED
    BY <1>1, <1>4, <2>1, EndsTypes DEF IInv
<1>7. run' = run
  BY <1>1, <1>6
<1>8. saved' \in Statuses \cup {"absent"}
  BY DEF KidFails, StatusAfter, Statuses
<1>9. DriverTypes'
  BY <1>5, <1>6, <1>7, <1>8, SameDriver DEF KidFails, ui, IInv, Types, DriverTypes
<1>10. ViewTypes'
  BY <1>6, SameView DEF KidFails, ui, IInv, Types, ViewTypes
<1>11. ProcInv'
  BY DEF KidFails, ui, ProcInv
<1>12. QuitInv'
  BY <1>5, <1>7 DEF KidFails, ui, IInv, QuitInv
<1> QED
  BY <1>9, <1>10, <1>11, <1>12 DEF IInv, Types

\* What closing leaves of the processes and of the Run object.
LEMMA ClosedKids ==
  ASSUME Types, NEW k \in 1 .. Len(kids)
  PROVE  LET ks == [kids EXCEPT ![k].stage = "closed"]
         IN  /\ ks \in Seq(KidType) /\ Len(ks) = Len(kids) /\ ks[k].stage = "closed"
             /\ \A i \in 1 .. Len(kids) : /\ ks[i].run = kids[i].run /\ ks[i].mode = kids[i].mode
                                          /\ ks[i].prompt = kids[i].prompt
                                          /\ i # k => ks[i].stage = kids[i].stage
<1> DEFINE e == [kids[k] EXCEPT !.stage = "closed"]
           ks == [kids EXCEPT ![k].stage = "closed"]
<1>1. kids[k] \in KidType /\ kids \in Seq(KidType)
  BY Known DEF Types, DriverTypes
<1>2. e \in KidType /\ e.run = kids[k].run /\ e.mode = kids[k].mode /\ e.stage = "closed"
      /\ e.prompt = kids[k].prompt
  BY <1>1 DEF KidType
<1>3. ks = [kids EXCEPT ![k] = e]
  OBVIOUS
<1> HIDE DEF e, ks
<1>4. /\ ks \in Seq(KidType) /\ Len(ks) = Len(kids) /\ ks[k] = e
      /\ \A i \in 1 .. Len(kids) : i # k => ks[i] = kids[i]
  BY <1>1, <1>2, <1>3, SetAt
<1>5. /\ ks \in Seq(KidType) /\ Len(ks) = Len(kids) /\ ks[k].stage = "closed"
      /\ \A i \in 1 .. Len(kids) : /\ ks[i].run = kids[i].run /\ ks[i].mode = kids[i].mode
                                   /\ ks[i].prompt = kids[i].prompt
                                   /\ i # k => ks[i].stage = kids[i].stage
  BY <1>2, <1>4
<1> QED
  BY <1>5 DEF ks

\* A process that closes and is not replaced, whether it ends the run or not.
LEMMA CloseTypes ==
  ASSUME IInv, NEW k \in 1 .. Len(kids), kids[k].stage \in {"running", "failed"},
         kids' = [kids EXCEPT ![k].stage = "closed"],
         run' = [run EXCEPT ![kids[k].run] = [run[kids[k].run] EXCEPT !.child = None]],
         current' \in {current, None}, UNCHANGED <<made, quit>>, Rest
  PROVE  IInv'
<1> DEFINE o == kids[k].run
           r == [run[o] EXCEPT !.child = None]
<1>1. o \in Objects /\ run[o] \in RunType /\ run \in [Objects -> RunType]
  BY Known DEF IInv, Types, DriverTypes
<1>2. /\ r \in RunType /\ r.child = None /\ r.last = run[o].last /\ r.mode = run[o].mode
  BY <1>1 DEF RunType
<1>3. run' = [run EXCEPT ![o] = r]
  OBVIOUS
<1> HIDE DEF o, r
<1>4. /\ run' \in [Objects -> RunType] /\ run'[o] = r
      /\ \A x \in Objects : x # o => run'[x] = run[x]
  <2>1. /\ [run EXCEPT ![o] = r] \in [Objects -> RunType]
        /\ [run EXCEPT ![o] = r][o] = r
        /\ \A x \in Objects : x # o => [run EXCEPT ![o] = r][x] = run[x]
    BY <1>1, <1>2, RunAt
  <2> QED
    BY <1>3, <2>1, Zenon
<1>5. \A x \in Objects : run'[x].last = run[x].last /\ run'[x].mode = run[x].mode
  BY <1>2, <1>4
<1>6. run'[o].child = None
  BY <1>2, <1>4
<1>7. /\ kids' \in Seq(KidType) /\ Len(kids') = Len(kids) /\ kids'[k].stage = "closed"
      /\ \A i \in 1 .. Len(kids) : /\ kids'[i].run = kids[i].run /\ kids'[i].mode = kids[i].mode
                                   /\ i # k => kids'[i].stage = kids[i].stage
  BY ClosedKids DEF IInv
<1>8. ProcInv' /\ QuitInv'
  BY <1>5, <1>6, <1>7, CloseStep DEF Rest, o
<1>9. DriverTypes'
  BY <1>4, <1>5, <1>7, SameDriver DEF Rest, IInv, Types, DriverTypes
<1>10. ViewTypes'
  BY SameView DEF IInv, Rest
<1> QED
  BY <1>8, <1>9, <1>10 DEF IInv, Types

\* A process closes: its run ends, waits for the next message, or tries the turn
\* again in another mode.
LEMMA ClosesStep ==
  ASSUME IInv, NEW k \in 1 .. Len(kids), NEW refused \in BOOLEAN, KidCloses(k, refused)
  PROVE  IInv'
<1> DEFINE o == kids[k].run
           r == [run[o] EXCEPT !.child = None]
           ks == [kids EXCEPT ![k].stage = "closed"]
           again == [r EXCEPT !.retried = TRUE, !.mode = "acceptEdits"]
<1>1. /\ o \in Objects /\ o # None /\ run[o] \in RunType /\ kids[k] \in KidType
      /\ run \in [Objects -> RunType] /\ cards \in Seq(CardType)
      /\ toMain \in Seq(Commands(prompts, Len(cards)))
      /\ toUi \in Seq(Events(prompts, Len(cards)))
  BY Known DEF IInv, Types, DriverTypes, ViewTypes
<1>2. r \in RunType /\ r.last = run[o].last /\ r.mode = run[o].mode
  BY <1>1 DEF RunType
<1>3. /\ kids[k].stage \in {"running", "failed"} /\ refused \in Refusal(k)
      /\ UNCHANGED <<setting, made, quit, toMain, view, prompts, shown>>
  BY DEF KidCloses, ui
<1>4. ASSUME NEW es \in Seq(Events(prompts, Len(cards))), Ends(o, r, es), kids' = ks,
             saved' \in Statuses
      PROVE  IInv'
  <2>1. /\ run' = [run EXCEPT ![o] = r] /\ current' = None
        /\ cards' \in Seq(CardType) /\ Len(cards') = Len(cards)
        /\ toUi' \in Seq(Events(prompts, Len(cards)))
    BY <1>1, <1>2, <1>4, EndsTypes DEF IInv
  <2>2. Rest
    BY <1>1, <1>3, <1>4, <2>1 DEF Rest
  <2> QED
    BY <1>3, <1>4, <2>1, <2>2, CloseTypes
<1>5. \A aborted \in BOOLEAN : StatusAfter(aborted) \in Statuses
  BY DEF StatusAfter, Statuses
<1>6. CASE \/ Ends(o, r, <<Exit(TRUE)>>) /\ saved' = StatusAfter(TRUE) /\ kids' = ks
           \/ Ends(o, r, <<Error, Exit(FALSE)>>) /\ saved' = StatusAfter(FALSE) /\ kids' = ks
           \/ Ends(o, r, <<Exit(FALSE)>>) /\ saved' = StatusAfter(FALSE) /\ kids' = ks
  <2>1. /\ <<Exit(TRUE)>> \in Seq(Events(prompts, Len(cards)))
        /\ <<Exit(FALSE)>> \in Seq(Events(prompts, Len(cards)))
        /\ <<Error, Exit(FALSE)>> \in Seq(Events(prompts, Len(cards)))
    BY LastEvents
  <2> HIDE DEF o, r, ks
  <2> QED
    BY <1>4, <1>5, <1>6, <2>1
<1>7. CASE run' = [run EXCEPT ![o] = r] /\ kids' = ks /\ UNCHANGED <<current, cards, saved, toUi>>
  <2>1. Rest
    BY <1>1, <1>3, <1>7 DEF Rest, IInv, Types, DriverTypes
  <2> QED
    BY <1>3, <1>7, <2>1, CloseTypes
<1>8. CASE /\ Retries(r, refused) /\ SpawnTurn(o, again, r.last, ks)
           /\ UNCHANGED <<current, cards, saved, toUi>>
  <2>1. again \in RunType /\ again.mode = "acceptEdits" /\ again.last = r.last
    BY <1>2 DEF RunType, Modes
  <2>2. r.last \in Prompts
    BY <1>1, <1>2 DEF IInv, Types, DriverTypes, RunType
  <2>3. /\ ks \in Seq(KidType) /\ Len(ks) = Len(kids) /\ ks[k].stage = "closed"
        /\ \A i \in 1 .. Len(kids) : /\ ks[i].run = kids[i].run /\ ks[i].mode = kids[i].mode
                                     /\ i # k => ks[i].stage = kids[i].stage
    BY ClosedKids DEF IInv
  <2>4. refused /\ r.mode = "bypass"
    BY <1>8 DEF Retries
  <2>5. ~setting.spawnErrors => /\ Running(k) /\ setting.rootHost
                                /\ kids[k].mode = "bypass"
    BY <1>3, <2>4 DEF Refusal, Works, Running, IInv, ProcInv
  <2>6. ~setting.spawnErrors =>
          \/ current = o /\ ~quit
          \/ current = None /\ quit /\ setting.rootHost /\ setting.mode = "bypass"
    BY <2>5 DEF IInv, ProcInv, QuitInv
  <2>7. ~setting.spawnErrors => \A i \in 1 .. Len(kids) : ks[i].stage = "closed"
    <3>1. ~setting.spawnErrors =>
            \A i \in 1 .. Len(kids) : i # k => ~Running(i) /\ kids[i].stage # "failed"
      BY <2>5 DEF IInv, ProcInv
    <3>2. \A i \in 1 .. Len(kids) : kids[i].stage \in {"running", "failed", "closed"}
      BY Known DEF IInv, KidType
    <3> HIDE DEF ks
    <3> QED
      BY <2>3, <3>1, <3>2 DEF Running
  <2>8. Spawns(o, again, r.last, ks)
    BY <1>1, <1>8, <2>1, <2>2, <2>3 DEF Spawns
  <2> HIDE DEF o, again, r, ks
  <2>9. ProcInv' /\ QuitInv'
    BY <1>3, <1>8, <2>1, <2>3, <2>6, <2>7, <2>8, SpawnStep
  <2>10. made' \in Nat /\ made' <= Len(kids) + 1 /\ current' \in 0 .. made'
         /\ saved' \in Statuses \cup {"absent"} /\ quit' \in BOOLEAN /\ cards' \in Seq(CardType)
    BY <1>1, <1>3, <1>8, Known DEF IInv, Types, DriverTypes
  <2>11. DriverTypes'
    BY <1>3, <2>3, <2>8, <2>10, SpawnedDriver DEF IInv
  <2>12. ViewTypes'
    BY <1>1, <1>3, <1>8, SameView DEF IInv
  <2> QED
    BY <2>9, <2>11, <2>12 DEF IInv, Types
<1> QED
  BY <1>6, <1>7, <1>8 DEF KidCloses

\* A process told to exit stays what it was.
LEMMA KilledKids ==
  ASSUME Types, NEW k, kids' = Killed(k)
  PROVE  SameKids /\ (k \in 1 .. Len(kids) => kids'[k].killed)
<1> DEFINE e == [kids[k] EXCEPT !.killed = TRUE]
<1>1. kids' = [kids EXCEPT ![k] = e]
  BY DEF Killed
<1>2. CASE k \in 1 .. Len(kids)
  <2>1. kids[k] \in KidType /\ kids \in Seq(KidType)
    BY <1>2, Known DEF Types, DriverTypes
  <2>2. e \in KidType /\ e.run = kids[k].run /\ e.stage = kids[k].stage /\ e.mode = kids[k].mode
        /\ e.killed /\ e.prompt = kids[k].prompt
    BY <2>1 DEF KidType
  <2> HIDE DEF e
  <2>3. SameKids
    BY <1>1, <1>2, <2>2, OneKid
  <2>4. kids'[k] = e
    BY <1>1, <1>2, <2>1, <2>2, SetAt
  <2> QED
    BY <2>2, <2>3, <2>4
<1>3. CASE k \notin 1 .. Len(kids)
  <2>1. kids \in [1 .. Len(kids) -> KidType]
    BY SeqIsFunction DEF Types, DriverTypes
  <2> HIDE DEF e
  <2>2. kids' = kids
    BY <1>1, <1>3, <2>1
  <2> QED
    BY <1>3, <2>2, NothingExchanged
<1> QED
  BY <1>2, <1>3

\* The application quits: the process of the run that is held is told to exit.
LEMMA KillAllStep ==
  ASSUME IInv, KillAll
  PROVE  IInv'
<1>1. /\ setting.quits /\ ~quit /\ quit' = TRUE /\ current' = None
      /\ UNCHANGED <<setting, run, made, saved, toMain, toUi, view, prompts, shown>>
  BY DEF KillAll, ui
<1>2. SameRuns
  BY <1>1, NothingExchanged DEF IInv
<1>3. Rest
  <2>1. cards' = [a \in DOMAIN cards |->
                    IF Pending(a) THEN [cards[a] EXCEPT !.state = "denied"] ELSE cards[a]]
    BY DEF KillAll
  <2>2. cards' \in Seq(CardType) /\ Len(cards') = Len(cards)
    BY <2>1, DeniedType DEF IInv, Types, DriverTypes
  <2> QED
    BY <1>1, <2>2 DEF Rest, IInv, Types, DriverTypes, ViewTypes
<1>4. CASE current # None /\ run[current].child # None
  <2> DEFINE k == run[current].child
  <2>1. kids' = Killed(k)
    BY <1>4 DEF KillAll
  <2>2. SameKids /\ (k \in 1 .. Len(kids) => kids'[k].killed)
    BY <2>1, KilledKids DEF IInv
  <2>3. ~setting.spawnErrors => /\ k \in 1 .. Len(kids)
                                /\ \A i \in 1 .. Len(kids) : Running(i) => i = k
    BY <1>1, <1>4 DEF IInv, ProcInv
  <2>4. ~setting.spawnErrors => \A i \in 1 .. Len(kids) : Running(i) => quit' /\ kids'[i].killed
    BY <1>1, <2>2, <2>3
  <2> QED
    BY <1>1, <1>2, <1>3, <2>2, <2>4, QuietEnd
<1>5. CASE ~(current # None /\ run[current].child # None)
  <2>1. kids' = kids
    BY <1>5 DEF KillAll
  <2>2. SameKids
    BY <2>1, NothingExchanged DEF IInv
  <2>3. ~setting.spawnErrors => \A i \in 1 .. Len(kids) : ~Running(i)
    <3>1. \A i \in 1 .. Len(kids) : kids[i].run # None
      BY Known DEF IInv
    <3> QED
      BY <1>1, <1>5, <3>1 DEF IInv, ProcInv, None
  <2> QED
    BY <1>1, <1>2, <1>3, <2>2, <2>3, QuietEnd
<1> QED
  BY <1>4, <1>5

------------------------------------------------------------------------------
(* The commands.                                                             *)

\* Where no CLI may fail to start, the driver that holds no run, or one without a
\* process, has none that runs until the application quits.
LEMMA NoneRuns ==
  ASSUME IInv, ~quit, current = None \/ run[current].child = None, ~setting.spawnErrors
  PROVE  \A k \in 1 .. Len(kids) : kids[k].stage = "closed"
<1>1. \A k \in 1 .. Len(kids) : /\ kids[k].run # None
                                /\ kids[k].stage \in {"running", "failed", "closed"}
  BY Known DEF IInv, KidType
<1>2. \A k \in 1 .. Len(kids) : ~Running(k)
  BY <1>1 DEF IInv, ProcInv, None
<1> QED
  BY <1>1, <1>2 DEF IInv, ProcInv, Running

\* agent_run_start: a run is made unless the driver holds one.
LEMMA StartStep ==
  ASSUME IInv, ~quit, NEW c, c.n \in 1 .. prompts, DoStart(c), UNCHANGED <<quit, ui>>,
         toMain' \in Seq(Commands(prompts, Len(cards)))
  PROVE  IInv'
<1>1. /\ saved' = "starting" /\ UNCHANGED <<setting, view, prompts, shown, cards, toUi, quit>>
  BY DEF DoStart, ui
<1>2. Rest
  BY <1>1 DEF Rest, IInv, Types, DriverTypes, ViewTypes, Statuses
<1>3. CASE UNCHANGED <<current, made, run, kids>>
  BY <1>1, <1>2, <1>3, NothingExchanged, Quiet DEF IInv
<1>4. CASE /\ current = None /\ made' = made + 1 /\ current' = made'
           /\ SpawnTurn(made', NewRun(c.n, setting.mode), c.n, kids)
  <2> DEFINE o == made + 1
             r == NewRun(c.n, setting.mode)
  <2>1. /\ made \in Nat /\ made <= Len(kids) /\ kids \in Seq(KidType) /\ Len(kids) \in Nat
        /\ prompts \in 0 .. MaxPrompts /\ MaxPrompts \in Nat /\ MaxKids \in Nat
        /\ run \in [Objects -> RunType] /\ setting \in Settings
    BY Known, AgentsAssumption DEF IInv, Types, DriverTypes, ViewTypes
  <2>2. Len(kids) < MaxKids
    BY <1>4 DEF SpawnTurn
  <2>3. o \in Objects /\ o # None
    BY <2>1, <2>2 DEF Objects, None
  <2>4. c.n \in Prompts
    BY <2>1 DEF Prompts
  <2>5. r \in RunType /\ r.mode = setting.mode
    BY <2>1, <2>4, SettingFields, NewRunType
  <2>6. Spawns(o, r, c.n, kids)
    BY <1>4, <2>1, <2>3, <2>4, <2>5 DEF Spawns
  <2> HIDE DEF r
  <2>7. ~setting.spawnErrors => \A k \in 1 .. Len(kids) : kids[k].stage = "closed"
    BY <1>4, NoneRuns
  <2>8. current' = o
    BY <1>4
  <2>9. ProcInv' /\ QuitInv'
    BY <1>1, <2>5, <2>6, <2>7, <2>8, SpawnStep
  <2>10. made' \in Nat /\ made' <= Len(kids) + 1 /\ current' \in 0 .. made'
    BY <1>4, <2>1
  <2>11. DriverTypes'
    BY <1>1, <1>2, <2>6, <2>10, SpawnedDriver DEF Rest, IInv, Types, DriverTypes
  <2>12. ViewTypes'
    BY <1>2, SameView DEF Rest, IInv
  <2> QED
    BY <2>9, <2>11, <2>12 DEF IInv, Types
<1> QED
  BY <1>3, <1>4 DEF DoStart, StartRun

\* agent_run_input: taken by a run without a process, refused otherwise.
LEMMA InputStep ==
  ASSUME IInv, ~quit, NEW c, c.n \in 1 .. prompts, c.flag \in BOOLEAN, DoInput(c),
         UNCHANGED <<quit, ui>>, toMain' \in Seq(Commands(prompts, Len(cards)))
  PROVE  IInv'
<1>1. UNCHANGED <<setting, view, prompts, shown, quit, current, made, cards, saved>>
  BY DEF DoInput, ui
<1>2. toUi' \in Seq(Events(prompts, Len(cards)))
  <2>1. \/ toUi' = Append(toUi, Msg("sent", c.n, TRUE))
        \/ toUi' = Append(toUi, Msg("refused", c.n, c.flag))
    BY DEF DoInput
  <2>2. /\ Msg("sent", c.n, TRUE) \in Events(prompts, Len(cards))
        /\ Msg("refused", c.n, c.flag) \in Events(prompts, Len(cards))
    BY Reply
  <2> QED
    BY <2>1, <2>2, Emits DEF IInv
<1>3. Rest
  BY <1>1, <1>2 DEF Rest, IInv, Types, DriverTypes, ViewTypes
<1>4. CASE UNCHANGED <<run, kids>>
  BY <1>1, <1>3, <1>4, NothingExchanged, Quiet DEF IInv
<1>5. CASE /\ TakesInput
           /\ SpawnTurn(current, [run[current] EXCEPT !.mode = setting.mode], c.n, kids)
  <2> DEFINE o == current
             r == [run[o] EXCEPT !.mode = setting.mode]
  <2>1. /\ o \in Objects /\ run[o] \in RunType /\ run[o].child = None
        /\ run \in [Objects -> RunType] /\ kids \in Seq(KidType) /\ setting \in Settings
        /\ prompts \in 0 .. MaxPrompts /\ MaxPrompts \in Nat /\ Len(kids) \in Nat
    BY <1>5, Known, AgentsAssumption DEF TakesInput, IInv, Types, DriverTypes, ViewTypes
  <2>2. r \in RunType /\ r.mode = setting.mode
    BY <2>1, SettingFields DEF RunType
  <2>3. c.n \in Prompts
    BY <2>1 DEF Prompts
  <2>4. Spawns(o, r, c.n, kids)
    BY <1>5, <2>1, <2>2, <2>3 DEF Spawns
  <2>5. ~setting.spawnErrors => \A k \in 1 .. Len(kids) : kids[k].stage = "closed"
    BY <2>1, NoneRuns
  <2> HIDE DEF r
  <2>6. ProcInv' /\ QuitInv'
    BY <1>1, <2>2, <2>4, <2>5, SpawnStep
  <2>7. made' \in Nat /\ made' <= Len(kids) + 1 /\ current' \in 0 .. made'
    BY <1>1, <2>1 DEF IInv, Types, DriverTypes
  <2>8. DriverTypes'
    BY <1>1, <1>3, <2>4, <2>7, SpawnedDriver DEF Rest, IInv, Types, DriverTypes
  <2>9. ViewTypes'
    BY <1>3, SameView DEF Rest, IInv
  <2> QED
    BY <2>6, <2>8, <2>9 DEF IInv, Types
<1> QED
  BY <1>4, <1>5 DEF DoInput

\* The user's answer to a card.
LEMMA ApproveStep ==
  ASSUME IInv, NEW c, c.n \in 1 .. Len(cards), c.flag \in BOOLEAN, DoApprove(c),
         UNCHANGED <<quit, ui>>, toMain' \in Seq(Commands(prompts, Len(cards)))
  PROVE  IInv'
<1>1. UNCHANGED <<setting, view, prompts, shown, quit, current, made, kids, saved, toUi>>
  BY DEF DoApprove, ui
<1>2. SameKids
  BY <1>1, NothingExchanged DEF IInv
<1>3. cards \in Seq(CardType) /\ cards[c.n] \in CardType
  BY Known DEF IInv, Types, DriverTypes
<1>4. cards' \in Seq(CardType) /\ Len(cards') = Len(cards)
  <2> DEFINE d == Answered(c.n, IF c.flag THEN "allowed" ELSE "denied")
  <2>1. d \in CardType
    BY <1>3, AnsweredType
  <2>2. cards' = [cards EXCEPT ![c.n] = d] \/ cards' = cards
    BY DEF DoApprove
  <2> HIDE DEF d
  <2> QED
    BY <1>3, <2>1, <2>2, SetAt
<1>5. SameRuns
  <2>1. CASE run' = run
    BY <2>1, NothingExchanged DEF IInv
  <2>2. CASE current # None /\ run' = [run EXCEPT ![current].rules = @ \cup {cards[c.n].tool}]
    <3> DEFINE r == [run[current] EXCEPT !.rules = @ \cup {cards[c.n].tool}]
    <3>1. current \in Objects /\ run[current] \in RunType
      BY <2>2, Known DEF IInv
    <3>2. cards[c.n].tool \in Tools
      BY <1>3 DEF CardType
    <3>3. /\ r \in RunType /\ r.child = run[current].child /\ r.last = run[current].last
          /\ r.mode = run[current].mode
      BY <3>1, <3>2 DEF RunType
    <3>4. run' = [run EXCEPT ![current] = r]
      BY <2>2
    <3> HIDE DEF r
    <3> QED
      BY <3>1, <3>3, <3>4, OneRun DEF IInv
  <2> QED
    BY <2>1, <2>2 DEF DoApprove
<1>6. Rest
  BY <1>1, <1>4 DEF Rest, IInv, Types, DriverTypes, ViewTypes
<1> QED
  BY <1>1, <1>2, <1>5, <1>6, Quiet

\* abortRun and endRun: the process is told to exit, or the run ends at once.
LEMMA StopStep ==
  ASSUME IInv, ~quit, current # None, NEW r \in RunType, NEW aborted \in BOOLEAN,
         r.child = run[current].child, r.last = run[current].last,
         r.mode = run[current].mode, Stop(r, aborted),
         UNCHANGED <<made, quit, ui>>, toMain' \in Seq(Commands(prompts, Len(cards)))
  PROVE  IInv'
<1>1. current \in Objects
  BY Known DEF IInv
<1>2. UNCHANGED <<setting, view, prompts, shown>>
  BY DEF ui
<1>3. CASE /\ run' = [run EXCEPT ![current] = r] /\ kids' = Killed(r.child)
           /\ UNCHANGED <<current, cards, saved, toUi>>
  <2>1. SameKids
    BY <1>3, KilledKids DEF IInv
  <2>2. SameRuns
    BY <1>1, <1>3, OneRun DEF IInv
  <2>3. Rest
    BY <1>2, <1>3 DEF Rest, IInv, Types, DriverTypes, ViewTypes
  <2> QED
    BY <1>3, <2>1, <2>2, <2>3, Quiet
<1>4. CASE /\ r.child = None /\ Ends(current, r, <<Exit(aborted)>>)
           /\ saved' = StatusAfter(aborted) /\ UNCHANGED kids
  <2>1. <<Exit(aborted)>> \in Seq(Events(prompts, Len(cards)))
    BY LastEvents
  <2>2. /\ run' = [run EXCEPT ![current] = r] /\ current' = None
        /\ cards' \in Seq(CardType) /\ Len(cards') = Len(cards)
        /\ toUi' \in Seq(Events(prompts, Len(cards)))
    BY <1>1, <1>4, <2>1, EndsTypes DEF IInv
  <2>3. SameRuns
    BY <1>1, <2>2, OneRun DEF IInv
  <2>4. SameKids
    BY <1>4, NothingExchanged DEF IInv
  <2>5. saved' \in Statuses
    BY <1>4 DEF StatusAfter, Statuses
  <2>6. Rest
    BY <1>2, <2>2, <2>5 DEF Rest
  <2>7. ~setting.spawnErrors => \A k \in 1 .. Len(kids) : ~Running(k)
    BY <1>4, NoneRuns DEF Running
  <2>8. quit' = quit /\ quit \in BOOLEAN
    BY DEF IInv, Types, DriverTypes
  <2> QED
    BY <2>2, <2>3, <2>4, <2>6, <2>7, <2>8, QuietEnd
<1> QED
  BY <1>3, <1>4 DEF Stop

\* A stop that finds no run changes nothing.
LEMMA DoStopStep ==
  ASSUME IInv, ~quit, NEW c, DoStop(c), UNCHANGED <<quit, ui>>,
         toMain' \in Seq(Commands(prompts, Len(cards)))
  PROVE  IInv'
<1>1. CASE current = None
  <2>1. UNCHANGED <<current, run, kids, cards, saved, toUi, made, setting, view, prompts, shown>>
    BY <1>1 DEF DoStop, ui
  <2>2. SameKids /\ SameRuns
    BY <2>1, NothingExchanged DEF IInv
  <2>3. Rest
    BY <2>1 DEF Rest, IInv, Types, DriverTypes, ViewTypes
  <2> QED
    BY <2>1, <2>2, <2>3, Quiet
<1>2. CASE current # None
  <2> DEFINE a == [run[current] EXCEPT !.aborted = TRUE]
             e == [run[current] EXCEPT !.ending = TRUE]
  <2>1. run[current] \in RunType
    BY <1>2, Known DEF IInv
  <2>2. /\ a \in RunType /\ a.child = run[current].child /\ a.last = run[current].last
        /\ a.mode = run[current].mode
    BY <2>1 DEF RunType
  <2>3. /\ e \in RunType /\ e.child = run[current].child /\ e.last = run[current].last
        /\ e.mode = run[current].mode
    BY <2>1 DEF RunType
  <2>4. (Stop(a, TRUE) \/ Stop(e, FALSE)) /\ UNCHANGED made
    BY <1>2 DEF DoStop
  <2> HIDE DEF a, e
  <2> QED
    BY <1>2, <2>2, <2>3, <2>4, StopStep
<1> QED
  BY <1>1, <1>2

\* Every command leaves the invariant.
LEMMA CommandStep ==
  ASSUME IInv, HandleCommand
  PROVE  IInv'
<1> DEFINE c == Head(toMain)
<1>1. c \in Commands(prompts, Len(cards)) /\ toMain' \in Seq(Commands(prompts, Len(cards)))
  BY Taking DEF HandleCommand, IInv, Types, ViewTypes
<1>2. ~quit /\ UNCHANGED <<quit, ui>>
  BY DEF HandleCommand
<1>3. /\ c.flag \in BOOLEAN
      /\ c.what \in {"start", "input"} => c.n \in 1 .. prompts
      /\ c.what = "approve" => c.n \in 1 .. Len(cards)
  BY <1>1, CommandFields
<1>4. CASE c.what = "start" /\ DoStart(c)
  <2> HIDE DEF c
  <2> QED
    BY <1>1, <1>2, <1>3, <1>4, StartStep
<1>5. CASE c.what = "input" /\ DoInput(c)
  <2> HIDE DEF c
  <2> QED
    BY <1>1, <1>2, <1>3, <1>5, InputStep
<1>6. CASE c.what = "approve" /\ DoApprove(c)
  <2> HIDE DEF c
  <2> QED
    BY <1>1, <1>2, <1>3, <1>6, ApproveStep
<1>7. CASE c.what \in {"abort", "end"} /\ DoStop(c)
  <2> HIDE DEF c
  <2> QED
    BY <1>1, <1>2, <1>7, DoStopStep
<1>8. CASE c.what = "forget" /\ DoForget
  <2>1. /\ UNCHANGED <<current, made, run, kids, cards, toUi, quit, setting, view, prompts, shown>>
        /\ saved' = "absent"
    BY <1>2, <1>8 DEF DoForget, ui
  <2>2. SameKids /\ SameRuns
    BY <2>1, NothingExchanged DEF IInv
  <2>3. Rest
    BY <1>1, <2>1 DEF Rest, IInv, Types, DriverTypes, ViewTypes
  <2> QED
    BY <2>1, <2>2, <2>3, Quiet
<1> QED
  BY <1>4, <1>5, <1>6, <1>7, <1>8 DEF HandleCommand

------------------------------------------------------------------------------
(* The renderer.                                                             *)

\* The renderer touches neither the driver nor the processes.
LEMMA RendererStep ==
  ASSUME IInv, UNCHANGED <<driver, saved>>, ViewTypes'
  PROVE  IInv'
<1>1. UNCHANGED <<setting, current, run, made, kids, cards, quit, saved>>
  BY DEF driver
<1>2. DriverTypes'
  BY <1>1 DEF IInv, Types, DriverTypes
<1>3. SameKids /\ SameRuns
  BY <1>1, NothingExchanged DEF IInv
<1>4. ProcInv' /\ QuitInv'
  BY <1>1, <1>3, QuietStep
<1> QED
  BY <1>2, <1>4 DEF IInv, Types

\* A well typed view, with the open cards and the card it shows.
TypedView(v) ==
  v \in Views(prompts, Len(cards)) /\ (v.card # None => v.card \in v.open)

\* A view without a run is one.
LEMMA NoViewType ==
  ASSUME NEW p \in Nat, NEW c \in Nat
  PROVE  NoView \in Views(p, c) /\ NoView.card = None
BY DEF NoView, Views, None

\* A card that no longer asks leaves the view well typed.
LEMMA CardGoneType ==
  ASSUME NEW v, TypedView(v), NEW a \in Nat
  PROVE  TypedView(CardGone(v, a))
<1> DEFINE O == v.open \ {a}
           C == IF v.card = a THEN None ELSE v.card
           S == IF v.card = a THEN "running" ELSE v.status
<1>1. /\ v \in Views(prompts, Len(cards)) /\ v.status \in Statuses \cup {"none"}
      /\ v.card \in Nat /\ v.open \subseteq 1 .. Len(cards)
      /\ v.card # None => v.card \in v.open
  BY DEF TypedView, Views
<1>2. "running" \in Statuses /\ None \in Nat
  BY DEF Statuses, None
<1>3. /\ O \subseteq 1 .. Len(cards) /\ C \in Nat /\ (C # None => C \in O)
      /\ S \in Statuses \cup {"none"}
  BY <1>1, <1>2
<1>4. CardGone(v, a) = [v EXCEPT !.open = O, !.card = C, !.status = S]
  BY DEF CardGone
<1> HIDE DEF O, C, S
<1>5. /\ CardGone(v, a) \in Views(prompts, Len(cards))
      /\ CardGone(v, a).card = C /\ CardGone(v, a).open = O
  BY <1>1, <1>3, <1>4 DEF Views
<1> QED
  BY <1>3, <1>5 DEF TypedView

\* Every event leaves the view well typed.
LEMMA AppliedType ==
  ASSUME NEW v, TypedView(v), NEW e \in Events(prompts, Len(cards)),
         e.what \notin {"sent", "refused"}, Len(cards) \in Nat
  PROVE  TypedView(Applied(v, e)) /\ Applied(v, e).queued = v.queued
<1>1. e.n \in Nat /\ e.flag \in BOOLEAN
  BY DEF Events
<1>2. /\ v.status \in Statuses \cup {"none"} /\ v.card \in Nat /\ v.queued \in 0 .. prompts
      /\ v.session \in BOOLEAN /\ v.open \subseteq 1 .. Len(cards)
      /\ v.card # None => v.card \in v.open
      /\ v \in Views(prompts, Len(cards))
  BY DEF TypedView, Views
<1>3. /\ {"running", "awaiting-approval", "idle", "error", "aborted", "done"} \subseteq Statuses
      /\ None \in Nat
  BY DEF Statuses, None
<1>4. CASE e.what = "session"
  BY <1>2, <1>3, <1>4 DEF Applied, TypedView, Views
<1>5. CASE e.what = "approval-request"
  <2>1. e.n \in 1 .. Len(cards)
    BY <1>5, EventFields
  <2> QED
    BY <1>1, <1>2, <1>3, <1>5, <2>1 DEF Applied, TypedView, Views
<1>6. CASE e.what = "approval-cancelled"
  <2>1. Applied(v, e) = CardGone(v, e.n)
    BY <1>6 DEF Applied
  <2>2. CardGone(v, e.n).queued = v.queued
    BY <1>2 DEF CardGone, Views
  <2> QED
    BY <1>1, <2>1, <2>2, CardGoneType
<1>7. CASE e.what = "turn-end"
  BY <1>2, <1>3, <1>7 DEF Applied, TypedView, Views
<1>8. CASE e.what = "error"
  BY <1>2, <1>3, <1>8 DEF Applied, TypedView, Views
<1>9. CASE e.what = "exit"
  BY <1>2, <1>3, <1>9 DEF Applied, TypedView, Views
<1> QED
  BY <1>4, <1>5, <1>6, <1>7, <1>8, <1>9, EventFields

\* A new command on its way to the main process.
LEMMA Commanded ==
  ASSUME NEW p, NEW c, NEW s \in Seq(Commands(p, c)), NEW m \in Commands(p, c)
  PROVE  Append(s, m) \in Seq(Commands(p, c))
BY Appending

\* An event is taken in, and a follow-up that waited may be sent.
LEMMA IngestTypes ==
  ASSUME Types, NEW e \in Events(prompts, Len(cards)), e.what \notin {"sent", "refused"},
         Ingest(e)
  PROVE  TypedView(view') /\ toMain' \in Seq(Commands(prompts, Len(cards)))
<1> DEFINE v == Applied(view, e)
           flush == view.status # "idle" /\ v.status = "idle" /\ v.queued # None
<1>1. /\ TypedView(view) /\ toMain \in Seq(Commands(prompts, Len(cards)))
      /\ Len(cards) \in Nat /\ prompts \in Nat
  BY Known DEF Types, ViewTypes, TypedView
<1>2. TypedView(v) /\ v.queued \in 0 .. prompts /\ v.session \in BOOLEAN
  BY <1>1, AppliedType DEF TypedView, Views
<1>3. /\ view' = IF flush THEN [v EXCEPT !.queued = None] ELSE v
      /\ toMain' = IF flush THEN Append(toMain, Msg("input", v.queued, v.session)) ELSE toMain
  BY DEF Ingest
<1> HIDE DEF v
<1>4. CASE flush
  <2>1. v.queued \in 1 .. prompts
    BY <1>1, <1>2, <1>4 DEF None
  <2>2. Msg("input", v.queued, v.session) \in Commands(prompts, Len(cards))
    BY <1>2, <2>1, PromptCommand
  <2>3. toMain' \in Seq(Commands(prompts, Len(cards)))
    BY <1>1, <1>3, <1>4, <2>2, Commanded
  <2>4. TypedView([v EXCEPT !.queued = None])
    BY <1>1, <1>2 DEF TypedView, Views, None
  <2> QED
    BY <1>3, <1>4, <2>3, <2>4
<1>5. CASE ~flush
  BY <1>1, <1>2, <1>3, <1>5
<1> QED
  BY <1>4, <1>5

\* A reply is taken in, and a message that was refused may start the run again.
LEMMA RepliedTypes ==
  ASSUME Types, NEW m \in Events(prompts, Len(cards)), m.what \in {"sent", "refused"},
         Replied(m)
  PROVE  /\ TypedView(view') /\ toMain' \in Seq(Commands(prompts, Len(cards)))
         /\ shown' \subseteq 1 .. prompts
<1>1. /\ TypedView(view) /\ toMain \in Seq(Commands(prompts, Len(cards)))
      /\ shown \subseteq 1 .. prompts
  BY DEF Types, ViewTypes, TypedView
<1>2. m.n \in 1 .. prompts
  BY EventFields
<1>3. TypedView(Appended(view))
  <2>1. "running" \in Statuses
    BY DEF Statuses
  <2> QED
    BY <1>1, <2>1 DEF Appended, TypedView, Views
<1>4. Msg("start", m.n, FALSE) \in Commands(prompts, Len(cards))
  BY <1>2, PromptCommand
<1>5. TypedView(view') /\ shown' \subseteq 1 .. prompts
  BY <1>1, <1>2, <1>3 DEF Replied
<1>6. toMain' \in Seq(Commands(prompts, Len(cards)))
  BY <1>1, <1>4, Commanded DEF Replied
<1> QED
  BY <1>5, <1>6

\* A message reaches the renderer.
LEMMA DeliverStep ==
  ASSUME IInv, Deliver
  PROVE  IInv'
<1> DEFINE m == Head(toUi)
<1>1. m \in Events(prompts, Len(cards)) /\ toUi' \in Seq(Events(prompts, Len(cards)))
  BY Taking DEF Deliver, IInv, Types, ViewTypes
<1>2. UNCHANGED <<driver, saved, prompts>>
  BY DEF Deliver
<1>3. TypedView(view) /\ toMain \in Seq(Commands(prompts, Len(cards)))
      /\ shown \subseteq 1 .. prompts
  BY DEF IInv, Types, ViewTypes, TypedView
<1>4. CASE m.what \in {"sent", "refused"} /\ Replied(m)
  <2> HIDE DEF m
  <2>1. /\ TypedView(view') /\ toMain' \in Seq(Commands(prompts, Len(cards)))
        /\ shown' \subseteq 1 .. prompts
    BY <1>1, <1>4, RepliedTypes DEF IInv
  <2>2. ViewTypes'
    BY <1>1, <1>2, <2>1 DEF driver, IInv, Types, ViewTypes, TypedView
  <2> QED
    BY <1>2, <2>2, RendererStep
<1>5. CASE /\ m.what \notin {"sent", "refused"}
           /\ Ingest(m) \/ UNCHANGED <<view, toMain>>
           /\ UNCHANGED shown
  <2> HIDE DEF m
  <2>1. TypedView(view') /\ toMain' \in Seq(Commands(prompts, Len(cards)))
    BY <1>1, <1>3, <1>5, IngestTypes DEF IInv, TypedView
  <2>2. ViewTypes'
    BY <1>1, <1>2, <1>5, <2>1 DEF driver, IInv, Types, ViewTypes, TypedView
  <2> QED
    BY <1>2, <2>2, RendererStep
<1> QED
  BY <1>4, <1>5 DEF Deliver

\* The user starts the run.
LEMMA StartsStep ==
  ASSUME IInv, UserStarts
  PROVE  IInv'
<1> DEFINE v == [NoView EXCEPT !.status = "starting"]
           n == Len(cards)
<1>1. /\ toMain \in Seq(Commands(0, n)) /\ toUi \in Seq(Events(0, n)) /\ n \in Nat
      /\ prompts = 0 /\ prompts' = 1 /\ view' = v /\ shown' = {1}
      /\ toMain' = Append(toMain, Msg("start", 1, FALSE))
      /\ UNCHANGED <<driver, saved, toUi, cards>>
  BY Known DEF UserStarts, driver, IInv, Types, ViewTypes
<1>2. toMain \in Seq(Commands(1, n)) /\ toUi \in Seq(Events(1, n))
  <2>1. 0 \in Nat /\ 1 \in Nat /\ 0 <= 1 /\ n <= n
    BY <1>1
  <2>2. Commands(0, n) \subseteq Commands(1, n) /\ Events(0, n) \subseteq Events(1, n)
    BY <1>1, <2>1, NamesGrow
  <2> QED
    BY <1>1, <2>2, SeqGrows
<1>3. toMain' \in Seq(Commands(1, n))
  <2>1. Msg("start", 1, FALSE) \in Commands(1, n)
    <3>1. 1 \in 1 .. 1
      OBVIOUS
    <3> QED
      BY <3>1, PromptCommand
  <2> QED
    BY <1>1, <1>2, <2>1, Commanded
<1>4. v \in Views(1, n) /\ v.card = None
  <2>1. NoView \in Views(1, n) /\ NoView.card = None
    BY <1>1, NoViewType
  <2>2. "starting" \in Statuses
    BY DEF Statuses
  <2> QED
    BY <2>1, <2>2 DEF Views
<1>5. 1 \in 0 .. MaxPrompts /\ {1} \subseteq 1 .. 1
  BY AgentsAssumption
<1> HIDE DEF v
<1>6. ViewTypes'
  BY <1>1, <1>2, <1>3, <1>4, <1>5 DEF ViewTypes
<1> QED
  BY <1>1, <1>6, RendererStep

\* The user writes a message, which is sent or waits for the end of the turn.
LEMMA SendsStep ==
  ASSUME IInv, UserSends
  PROVE  IInv'
<1> DEFINE n == Len(cards)
           q == prompts + 1
           v == [view EXCEPT !.queued = q]
<1>1. /\ toMain \in Seq(Commands(prompts, n)) /\ toUi \in Seq(Events(prompts, n)) /\ n \in Nat
      /\ view \in Views(prompts, n) /\ (view.card # None => view.card \in view.open)
      /\ prompts \in Nat /\ MaxPrompts \in Nat /\ prompts < MaxPrompts /\ prompts' = q
      /\ shown \subseteq 1 .. prompts /\ shown' = shown
      /\ UNCHANGED <<driver, saved, toUi, cards>>
      /\ \/ view' = v /\ UNCHANGED toMain
         \/ toMain' = Append(toMain, Msg("input", q, view.session)) /\ UNCHANGED view
  BY Known, AgentsAssumption DEF UserSends, driver, IInv, Types, ViewTypes
<1>2. /\ toMain \in Seq(Commands(q, n)) /\ toUi \in Seq(Events(q, n)) /\ view \in Views(q, n)
  <2>1. q \in Nat /\ prompts <= q /\ n <= n
    BY <1>1
  <2>2. /\ Commands(prompts, n) \subseteq Commands(q, n) /\ Events(prompts, n) \subseteq Events(q, n)
        /\ Views(prompts, n) \subseteq Views(q, n)
    BY <1>1, <2>1, NamesGrow
  <2> QED
    BY <1>1, <2>2, SeqGrows
<1>3. q \in 1 .. q /\ q \in 0 .. q /\ q \in 0 .. MaxPrompts /\ shown \subseteq 1 .. q
  BY <1>1
<1>4. view.session \in BOOLEAN
  BY <1>1 DEF Views
<1>5. Msg("input", q, view.session) \in Commands(q, n)
  BY <1>3, <1>4, PromptCommand
<1>6. toMain' \in Seq(Commands(q, n))
  BY <1>1, <1>2, <1>5, Commanded
<1>7. v \in Views(q, n) /\ v.card = view.card /\ v.open = view.open
  BY <1>2, <1>3 DEF Views
<1> HIDE DEF v, q
<1>8. ViewTypes'
  BY <1>1, <1>2, <1>3, <1>6, <1>7 DEF ViewTypes
<1> QED
  BY <1>1, <1>8, RendererStep

\* The user answers a card.
LEMMA AnswersStep ==
  ASSUME IInv, NEW allow \in BOOLEAN, UserAnswers(allow)
  PROVE  IInv'
<1>1. PICK a \in view.open : /\ view' = CardGone(view, a)
                             /\ toMain' = Append(toMain, Msg("approve", a, allow))
  BY DEF UserAnswers
<1>2. UNCHANGED <<driver, saved, toUi, prompts, shown>>
  BY DEF UserAnswers
<1>3. TypedView(view) /\ toMain \in Seq(Commands(prompts, Len(cards))) /\ Len(cards) \in Nat
  BY Known DEF IInv, Types, ViewTypes, TypedView
<1>4. a \in 1 .. Len(cards) /\ a \in Nat
  BY <1>3 DEF TypedView, Views
<1>5. TypedView(view')
  BY <1>1, <1>3, <1>4, CardGoneType
<1>6. Msg("approve", a, allow) \in Commands(prompts, Len(cards))
  BY <1>4, CardCommand
<1>7. toMain' \in Seq(Commands(prompts, Len(cards)))
  BY <1>1, <1>3, <1>6, Commanded
<1>8. ViewTypes'
  BY <1>2, <1>5, <1>7 DEF driver, IInv, Types, ViewTypes, TypedView
<1> QED
  BY <1>2, <1>8, RendererStep

\* The user stops or ends the run.
LEMMA StopsStep ==
  ASSUME IInv, NEW what \in {"abort", "end"}, UserStops(what)
  PROVE  IInv'
<1>1. /\ toMain' = Append(toMain, Msg(what, 0, FALSE))
      /\ UNCHANGED <<driver, saved, toUi, view, prompts, shown>>
  BY DEF UserStops
<1>2. Msg(what, 0, FALSE) \in Commands(prompts, Len(cards))
  BY PlainCommand
<1>3. toMain' \in Seq(Commands(prompts, Len(cards)))
  BY <1>1, <1>2, Commanded DEF IInv, Types, ViewTypes
<1>4. ViewTypes'
  BY <1>1, <1>3 DEF driver, IInv, Types, ViewTypes
<1> QED
  BY <1>1, <1>4, RendererStep

\* The user removes the run, which is stopped and forgotten.
LEMMA RemovesStep ==
  ASSUME IInv, UserRemoves
  PROVE  IInv'
<1> DEFINE S == Commands(prompts, Len(cards))
           x == Msg(IF Busy(view) THEN "abort" ELSE "end", 0, FALSE)
           y == Msg("forget", 0, FALSE)
<1>1. /\ toMain' = toMain \o <<x, y>> /\ view' = NoView
      /\ UNCHANGED <<driver, saved, toUi, prompts, shown>>
  BY DEF UserRemoves
<1>2. x \in S /\ y \in S
  BY PlainCommand
<1>3. toMain \in Seq(S) /\ prompts \in Nat /\ Len(cards) \in Nat
  BY Known DEF IInv, Types, ViewTypes
<1> HIDE DEF S, x, y
<1>4. toMain' \in Seq(S)
  BY <1>1, <1>2, <1>3
<1>5. ViewTypes'
  BY <1>1, <1>3, <1>4, NoViewType DEF S, driver, IInv, Types, ViewTypes
<1> QED
  BY <1>1, <1>5, RendererStep

------------------------------------------------------------------------------
(* The invariant of the driver.                                              *)

\* The invariant holds before anything happened.
LEMMA InitHolds ==
  ASSUME Init
  PROVE  IInv
<1>1. /\ setting \in Settings /\ current = 0 /\ made = 0
      /\ run = [o \in Objects |-> NewRun(None, setting.mode)]
      /\ kids = <<>> /\ cards = <<>> /\ saved = "absent" /\ quit = FALSE
      /\ toMain = <<>> /\ toUi = <<>> /\ view = NoView /\ prompts = 0 /\ shown = {}
  BY DEF Init, None
<1>2. Len(kids) = 0 /\ Len(cards) = 0
  BY <1>1
<1>3. MaxKids \in Nat /\ MaxPrompts \in Nat
  BY AgentsAssumption
<1>4. NewRun(None, setting.mode) \in RunType /\ NewRun(None, setting.mode).mode = setting.mode
  BY <1>1, SettingFields, NewRunType
<1>5. run \in [Objects -> RunType] /\ \A o \in Objects : run[o].mode = setting.mode
  BY <1>1, <1>4
<1>6. DriverTypes
  <2>1. kids \in Seq(KidType) /\ cards \in Seq(CardType)
    BY <1>1
  <2>2. 0 <= MaxKids /\ 0 \in 0 .. 0 /\ \A k \in 1 .. 0 : FALSE
    BY <1>3
  <2>3. /\ made \in Nat /\ made <= Len(kids) /\ current \in 0 .. made /\ Len(kids) <= MaxKids
        /\ \A k \in 1 .. Len(kids) : run[kids[k].run].last # None
    BY <1>1, <1>2, <2>2
  <2> QED
    BY <1>1, <1>5, <2>1, <2>3 DEF DriverTypes
<1>7. ViewTypes
  <2>1. NoView \in Views(0, 0) /\ NoView.card = None
    BY NoViewType
  <2> QED
    BY <1>1, <1>2, <1>3, <2>1 DEF ViewTypes
<1>8. ProcInv /\ QuitInv
  BY <1>1, <1>2, <1>5 DEF ProcInv, QuitInv, None
<1> QED
  BY <1>6, <1>7, <1>8 DEF IInv, Types

\* Every step keeps the invariant.
LEMMA StepHolds ==
  ASSUME IInv, [Next]_vars
  PROVE  IInv'
<1>1. CASE UNCHANGED vars
  <2>1. UNCHANGED <<driver, saved, toMain, toUi, view, prompts, shown>>
    BY <1>1 DEF vars, ui
  <2>2. ViewTypes'
    BY <2>1 DEF driver, IInv, Types, ViewTypes
  <2> QED
    BY <2>1, <2>2, RendererStep
<1>2. ASSUME NEW k \in Kids, k \in DOMAIN kids, KidStep(k)
      PROVE  IInv'
  <2>1. k \in 1 .. Len(kids)
    BY <1>2, Known DEF IInv
  <2>2. CASE KidOpensSession(k)
    BY <2>1, <2>2, OpensStep
  <2>3. CASE KidEndsTurn(k)
    BY <2>1, <2>3, EndsTurnStep
  <2>4. CASE KidFails(k)
    BY <2>1, <2>4, FailsStep
  <2>5. CASE \E t \in Tools : KidAsks(k, t)
    BY <2>1, <2>5, AsksStep
  <2>6. CASE \E refused \in BOOLEAN : KidCloses(k, refused)
    BY <2>1, <2>6, ClosesStep
  <2> QED
    BY <1>2, <2>2, <2>3, <2>4, <2>5, <2>6 DEF KidStep
<1>3. CASE \E a \in 1 .. MaxCards : ApprovalTimesOut(a)
  BY <1>3, TimesOutStep
<1>4. CASE \E allow \in BOOLEAN : UserAnswers(allow)
  BY <1>4, AnswersStep
<1>5. CASE \E what \in {"abort", "end"} : UserStops(what)
  BY <1>5, StopsStep
<1>6. CASE Next
  BY <1>2, <1>3, <1>4, <1>5, <1>6, CommandStep, DeliverStep, KillAllStep, StartsStep,
     SendsStep, RemovesStep DEF Next
<1> QED
  BY <1>1, <1>6

\* The inductive invariant holds throughout.
LEMMA InductiveInvariant == Spec => []IInv
<1>1. Init => IInv
  BY InitHolds
<1>2. IInv /\ [Next]_vars => IInv'
  BY StepHolds
<1> QED
  BY <1>1, <1>2, PTL DEF Spec

------------------------------------------------------------------------------
(* The listener of a run.                                                    *)

\* Some message of the queue s says what.
Said(s, what) == \E i \in 1 .. Len(s) : s[i].what = what

\* Who listens for a run that the driver does not hold will hear that it ended, or
\* has started it again.
ListenInv ==
  listening /\ ~quit => current # None \/ Said(toMain, "start") \/ Said(toUi, "exit")

\* A queue that grows says what it said, and the new message.
LEMMA SaidAppended ==
  ASSUME NEW S, NEW s \in Seq(S), NEW e \in S, NEW what
  PROVE  Said(s, what) \/ e.what = what => Said(Append(s, e), what)
<1>1. /\ Len(s) \in Nat /\ Len(Append(s, e)) = Len(s) + 1
      /\ Append(s, e)[Len(s) + 1] = e
      /\ \A i \in 1 .. Len(s) : Append(s, e)[i] = s[i] /\ i \in 1 .. Len(s) + 1
  BY Appending, LenProperties
<1>2. CASE e.what = what
  <2>1. Len(s) + 1 \in 1 .. Len(Append(s, e))
    BY <1>1
  <2> QED
    BY <1>1, <1>2, <2>1 DEF Said
<1>3. CASE Said(s, what)
  BY <1>1, <1>3 DEF Said
<1> QED
  BY <1>2, <1>3

\* Two queues, one behind the other, say what each of them said.
LEMMA SaidJoined ==
  ASSUME NEW S, NEW s \in Seq(S), NEW t \in Seq(S), NEW what
  PROVE  Said(s, what) \/ Said(t, what) => Said(s \o t, what)
<1>1. /\ Len(s) \in Nat /\ Len(t) \in Nat /\ Len(s \o t) = Len(s) + Len(t)
      /\ \A i \in 1 .. Len(s) : (s \o t)[i] = s[i]
      /\ \A i \in 1 .. Len(t) : (s \o t)[Len(s) + i] = t[i]
  BY ConcatProperties, LenProperties
<1>2. CASE Said(s, what)
  <2>1. PICK i \in 1 .. Len(s) : s[i].what = what
    BY <1>2 DEF Said
  <2>2. i \in 1 .. Len(s \o t)
    BY <1>1
  <2> QED
    BY <1>1, <2>1, <2>2 DEF Said
<1>3. CASE Said(t, what)
  <2>1. PICK i \in 1 .. Len(t) : t[i].what = what
    BY <1>3 DEF Said
  <2>2. Len(s) + i \in 1 .. Len(s \o t)
    BY <1>1
  <2> QED
    BY <1>1, <2>1, <2>2 DEF Said
<1> QED
  BY <1>2, <1>3

\* When its first message is taken, a queue says what it said or the message did.
LEMMA SaidTaken ==
  ASSUME NEW S, NEW s \in Seq(S), s # <<>>, NEW what
  PROVE  Said(s, what) => Head(s).what = what \/ Said(Tail(s), what)
<1>1. /\ Len(s) \in Nat /\ Len(Tail(s)) = Len(s) - 1 /\ Head(s) = s[1]
      /\ \A i \in 1 .. Len(Tail(s)) : Tail(s)[i] = s[i + 1]
  BY HeadTailProperties, LenProperties
<1> SUFFICES ASSUME NEW i \in 1 .. Len(s), s[i].what = what, i # 1
             PROVE  Said(Tail(s), what)
  BY <1>1 DEF Said
<1>2. i - 1 \in 1 .. Len(Tail(s)) /\ (i - 1) + 1 = i
  BY <1>1
<1> QED
  BY <1>1, <1>2 DEF Said

\* A step that keeps the listener, the run and the quitting, and takes neither a
\* start nor an exit.
LEMMA ListensOn ==
  ASSUME ListenInv, UNCHANGED <<listening, current, quit>>,
         Said(toMain, "start") => Said(toMain', "start"),
         Said(toUi, "exit") => Said(toUi', "exit")
  PROVE  ListenInv'
BY DEF ListenInv

\* One event more keeps the exits on their way.
LEMMA EmitsOn ==
  ASSUME IInv, NEW what \in {"sent", "refused", "session", "turn-end", "approval-request",
                             "approval-cancelled"},
         NEW n, NEW flag, toUi' = Append(toUi, Msg(what, n, flag))
  PROVE  Said(toUi, "exit") => Said(toUi', "exit")
<1> DEFINE S == Events(prompts, Len(cards)) \cup {Msg(what, n, flag)}
<1>1. toUi \in Seq(Events(prompts, Len(cards)))
  BY DEF IInv, Types, ViewTypes
<1>2. toUi \in Seq(S) /\ Msg(what, n, flag) \in S
  BY <1>1, SeqGrows
<1> HIDE DEF S
<1> QED
  BY <1>2, SaidAppended

\* One command more keeps the starts on their way.
LEMMA CommandsOn ==
  ASSUME IInv, NEW x, toMain' = Append(toMain, x)
  PROVE  Said(toMain, "start") \/ x.what = "start" => Said(toMain', "start")
<1> DEFINE S == Commands(prompts, Len(cards)) \cup {x}
<1>1. toMain \in Seq(Commands(prompts, Len(cards)))
  BY DEF IInv, Types, ViewTypes
<1>2. toMain \in Seq(S) /\ x \in S
  BY <1>1, SeqGrows
<1> HIDE DEF S
<1> QED
  BY <1>2, SaidAppended

\* A run that ends says so.
LEMMA EndsSays ==
  ASSUME IInv, NEW o, NEW r, NEW es,
         Ends(o, r, es), es = <<Error, Exit(FALSE)>> \/ \E aborted \in BOOLEAN : es = <<Exit(aborted)>>
  PROVE  Said(toUi', "exit")
<1> DEFINE S == Events(prompts, Len(cards))
<1>1. toUi \in Seq(S) /\ cards \in Seq(CardType)
  BY DEF IInv, Types, DriverTypes, ViewTypes
<1>2. PICK cs \in Cancels : toUi' = toUi \o es \o cs
  BY DEF Ends
<1>3. cs \in Seq(S)
  BY <1>1, CancelsType
<1>4. es \in Seq(S)
  BY LastEvents
<1>5. Said(es, "exit")
  <2>1. CASE es = <<Error, Exit(FALSE)>>
    <3>1. Len(es) = 2 /\ es[2].what = "exit" /\ 2 \in 1 .. 2
      BY <2>1 DEF Exit, Msg
    <3> QED
      BY <3>1 DEF Said
  <2>2. CASE \E aborted \in BOOLEAN : es = <<Exit(aborted)>>
    <3>1. Len(es) = 1 /\ es[1].what = "exit" /\ 1 \in 1 .. 1
      BY <2>2 DEF Exit, Msg
    <3> QED
      BY <3>1 DEF Said
  <2> QED
    BY <2>1, <2>2
<1> HIDE DEF S
<1>6. toUi \o es \in Seq(S) /\ Said(toUi \o es, "exit")
  BY <1>1, <1>4, <1>5, SaidJoined, ConcatProperties
<1> QED
  BY <1>2, <1>3, <1>6, SaidJoined

\* The processes: each of their steps keeps the run, or says that it ends.
LEMMA KidListens ==
  ASSUME IInv, ListenInv, NEW k \in 1 .. Len(kids), KidStep(k)
  PROVE  ListenInv'
<1>1. UNCHANGED <<listening, quit, toMain>>
  BY DEF KidStep, KidOpensSession, KidEndsTurn, KidFails, KidAsks, KidCloses, ui
<1>2. CASE KidOpensSession(k) \/ KidEndsTurn(k) \/ \E t \in Tools : KidAsks(k, t)
  <2>1. /\ UNCHANGED current
        /\ \E what \in {"session", "turn-end", "approval-request"} : \E n, flag :
             toUi' = Append(toUi, Msg(what, n, flag))
    <3>1. CASE KidOpensSession(k)
      BY <3>1 DEF KidOpensSession
    <3>2. CASE KidEndsTurn(k)
      BY <3>2 DEF KidEndsTurn
    <3>3. CASE \E t \in Tools : KidAsks(k, t)
      BY <3>3 DEF KidAsks
    <3> QED
      BY <1>2, <3>1, <3>2, <3>3
  <2>2. Said(toUi, "exit") => Said(toUi', "exit")
    BY <2>1, EmitsOn
  <2> QED
    BY <1>1, <2>1, <2>2, ListensOn
<1>3. CASE KidFails(k)
  <2>1. Said(toUi', "exit")
    BY <1>3, EndsSays DEF KidFails
  <2> QED
    BY <2>1 DEF ListenInv
<1>4. CASE \E refused \in BOOLEAN : KidCloses(k, refused)
  <2>1. PICK refused \in BOOLEAN : KidCloses(k, refused)
    BY <1>4
  <2>2. CASE UNCHANGED <<current, toUi>>
    BY <1>1, <2>2, ListensOn
  <2>3. CASE ~UNCHANGED <<current, toUi>>
    <3>1. \E o, r, es : /\ Ends(o, r, es)
                        /\ \/ es = <<Error, Exit(FALSE)>>
                           \/ \E aborted \in BOOLEAN : es = <<Exit(aborted)>>
      BY <2>1, <2>3 DEF KidCloses
    <3>2. Said(toUi', "exit")
      BY <3>1, EndsSays
    <3> QED
      BY <3>2 DEF ListenInv
  <2> QED
    BY <2>2, <2>3
<1> QED
  BY <1>2, <1>3, <1>4 DEF KidStep

\* The commands: a start leaves a run that is held, and a stop that ends one says so.
LEMMA CommandListens ==
  ASSUME IInv, ListenInv, HandleCommand
  PROVE  ListenInv'
<1> DEFINE c == Head(toMain)
<1>1. UNCHANGED <<listening, quit>> /\ toMain # <<>> /\ toMain' = Tail(toMain)
  BY DEF HandleCommand, ui
<1>2. toMain \in Seq(Commands(prompts, Len(cards))) /\ made \in Nat
  BY DEF IInv, Types, DriverTypes, ViewTypes
<1>3. c.what # "start" => (Said(toMain, "start") => Said(toMain', "start"))
  BY <1>1, <1>2, SaidTaken
<1> HIDE DEF c
<1>4. CASE c.what = "start" /\ DoStart(c)
  <2>1. current' # None
    BY <1>2, <1>4 DEF DoStart, StartRun, None
  <2> QED
    BY <2>1 DEF ListenInv
<1>5. CASE c.what = "input" /\ DoInput(c)
  <2>1. UNCHANGED current /\ \E what \in {"sent", "refused"} : \E n, flag :
          toUi' = Append(toUi, Msg(what, n, flag))
    BY <1>5 DEF DoInput
  <2>2. Said(toUi, "exit") => Said(toUi', "exit")
    BY <2>1, EmitsOn
  <2> QED
    BY <1>1, <1>3, <1>5, <2>1, <2>2, ListensOn
<1>6. CASE (c.what = "approve" /\ DoApprove(c)) \/ (c.what = "forget" /\ DoForget)
  <2>1. UNCHANGED <<current, toUi>>
    BY <1>6 DEF DoApprove, DoForget
  <2> QED
    BY <1>1, <1>3, <1>6, <2>1, ListensOn
<1>7. CASE c.what \in {"abort", "end"} /\ DoStop(c)
  <2>1. CASE UNCHANGED <<current, toUi>>
    BY <1>1, <1>3, <1>7, <2>1, ListensOn
  <2>2. CASE ~UNCHANGED <<current, toUi>>
    <3>1. \E r, aborted : aborted \in BOOLEAN /\ Stop(r, aborted)
      BY <1>7, <2>2 DEF DoStop
    <3>2. \E r, aborted : aborted \in BOOLEAN /\ Ends(current, r, <<Exit(aborted)>>)
      BY <2>2, <3>1 DEF Stop
    <3>3. Said(toUi', "exit")
      BY <3>2, EndsSays
    <3> QED
      BY <3>3 DEF ListenInv
  <2> QED
    BY <2>1, <2>2
<1>8. \/ c.what = "start" /\ DoStart(c)
      \/ c.what = "input" /\ DoInput(c)
      \/ c.what = "approve" /\ DoApprove(c)
      \/ c.what \in {"abort", "end"} /\ DoStop(c)
      \/ c.what = "forget" /\ DoForget
  BY Zenon DEF HandleCommand, c
<1> QED
  BY <1>4, <1>5, <1>6, <1>7, <1>8

\* What reaches the renderer: an exit releases the listener, and a message that was
\* refused takes one on only with a start.
LEMMA DeliveryListens ==
  ASSUME IInv, ListenInv, Deliver
  PROVE  ListenInv'
<1> DEFINE m == Head(toUi)
<1>1. UNCHANGED <<current, quit>> /\ toUi # <<>> /\ toUi' = Tail(toUi)
  BY DEF Deliver, driver
<1>2. toUi \in Seq(Events(prompts, Len(cards)))
  BY DEF IInv, Types, ViewTypes
<1>3. m.what # "exit" => (Said(toUi, "exit") => Said(toUi', "exit"))
  BY <1>1, <1>2, SaidTaken
<1>4. CASE m.what \in {"sent", "refused"} /\ Replied(m)
  <2> HIDE DEF m
  <2>1. CASE listening' = TRUE /\ toMain' = Append(toMain, Msg("start", m.n, FALSE))
    <3>1. Said(toMain', "start")
      <4> DEFINE x == Msg("start", m.n, FALSE)
      <4>1. toMain' = Append(toMain, x)
        BY <2>1
      <4>2. x.what = "start"
        BY DEF Msg
      <4> HIDE DEF x
      <4> QED
        BY <4>1, <4>2, CommandsOn
    <3> QED
      BY <3>1 DEF ListenInv
  <2>2. CASE UNCHANGED <<listening, toMain>>
    BY <1>1, <1>3, <1>4, <2>2, ListensOn
  <2>3. IF m.what = "refused" /\ m.flag
          THEN listening' = TRUE /\ toMain' = Append(toMain, Msg("start", m.n, FALSE))
          ELSE UNCHANGED <<listening, toMain>>
    BY ONLY <1>4 DEF Replied
  <2>4. CASE m.what = "refused" /\ m.flag
    BY <2>1, <2>3, <2>4
  <2>5. CASE ~(m.what = "refused" /\ m.flag)
    BY <2>2, <2>3, <2>5
  <2> QED
    BY <2>4, <2>5
<1>5. CASE /\ m.what \notin {"sent", "refused"}
           /\ Ingest(m) \/ UNCHANGED <<view, toMain>>
           /\ listening' = (listening /\ m.what # "exit")
  <2> HIDE DEF m
  <2>1. CASE m.what = "exit"
    BY <1>5, <2>1 DEF ListenInv
  <2>2. CASE m.what # "exit"
    <3>1. Said(toMain, "start") => Said(toMain', "start")
      <4>1. CASE UNCHANGED <<view, toMain>>
        BY <4>1
      <4>2. CASE Ingest(m)
        <5> DEFINE v == Applied(view, m)
                   flush == view.status # "idle" /\ v.status = "idle" /\ v.queued # None
        <5>1. toMain' = IF flush THEN Append(toMain, Msg("input", v.queued, v.session))
                        ELSE toMain
          BY ONLY <4>2 DEF Ingest
        <5> HIDE DEF v, flush
        <5> QED
          BY <5>1, CommandsOn
      <4> QED
        BY <1>5, <4>1, <4>2
    <3>2. listening' => listening
      BY <1>5
    <3> QED
      BY <1>1, <1>3, <2>2, <3>1, <3>2 DEF ListenInv
  <2> QED
    BY <2>1, <2>2
<1> QED
  BY <1>4, <1>5 DEF Deliver

\* The user: what is sent comes behind a start that is on its way.
LEMMA UserListens ==
  ASSUME IInv, ListenInv,
         \/ UserStarts \/ UserSends \/ UserRemoves
         \/ \E allow \in BOOLEAN : UserAnswers(allow)
         \/ \E what \in {"abort", "end"} : UserStops(what)
  PROVE  ListenInv'
<1>1. UNCHANGED <<current, quit, toUi>>
  BY DEF UserStarts, UserSends, UserRemoves, UserAnswers, UserStops, driver
<1>2. CASE UserStarts
  <2>1. Said(toMain', "start")
    <3> DEFINE x == Msg("start", 1, FALSE)
    <3>1. toMain' = Append(toMain, x)
      BY <1>2 DEF UserStarts
    <3>2. x.what = "start"
      BY DEF Msg
    <3> HIDE DEF x
    <3> QED
      BY <3>1, <3>2, CommandsOn
  <2> QED
    BY <2>1 DEF ListenInv
<1>3. CASE UserRemoves
  <2> DEFINE x == Msg(IF Busy(view) THEN "abort" ELSE "end", 0, FALSE)
             y == Msg("forget", 0, FALSE)
             S == Commands(prompts, Len(cards))
  <2>1. toMain' = toMain \o <<x, y>> /\ UNCHANGED listening
    BY <1>3 DEF UserRemoves
  <2>2. x \in S /\ y \in S /\ toMain \in Seq(S)
    BY PlainCommand DEF IInv, Types, ViewTypes
  <2> HIDE DEF x, y, S
  <2>3. <<x, y>> \in Seq(S)
    BY <2>2
  <2>4. Said(toMain, "start") => Said(toMain', "start")
    BY <2>1, <2>2, <2>3, SaidJoined
  <2> QED
    BY <1>1, <2>1, <2>4, ListensOn
<1>4. CASE \/ UserSends \/ \E allow \in BOOLEAN : UserAnswers(allow)
           \/ \E what \in {"abort", "end"} : UserStops(what)
  <2>1. UNCHANGED listening
    BY <1>4 DEF UserSends, UserAnswers, UserStops
  <2>2. Said(toMain, "start") => Said(toMain', "start")
    <3>1. CASE UserSends
      <4>1. CASE UNCHANGED toMain
        BY <4>1
      <4>2. CASE toMain' = Append(toMain, Msg("input", prompts', view.session))
        BY <4>2, CommandsOn
      <4> QED
        BY <3>1, <4>1, <4>2 DEF UserSends
    <3>2. CASE \E allow \in BOOLEAN : UserAnswers(allow)
      BY <3>2, CommandsOn DEF UserAnswers
    <3>3. CASE \E what \in {"abort", "end"} : UserStops(what)
      BY <3>3, CommandsOn DEF UserStops
    <3> QED
      BY <1>4, <3>1, <3>2, <3>3
  <2> QED
    BY <1>1, <2>1, <2>2, ListensOn
<1> QED
  BY <1>2, <1>3, <1>4

\* Who listens is told, throughout.
LEMMA ListenInvariant == Spec => []ListenInv
<1>1. Init => ListenInv
  BY DEF Init, ListenInv
<1>2. IInv /\ ListenInv /\ [Next]_vars => ListenInv'
  <2> SUFFICES ASSUME IInv, ListenInv, [Next]_vars
               PROVE  ListenInv'
    OBVIOUS
  <2>1. CASE UNCHANGED vars
    BY <2>1, ListensOn DEF vars, driver, ui
  <2>2. CASE \E k \in Kids : k \in DOMAIN kids /\ KidStep(k)
    BY <2>2, Known, KidListens DEF IInv
  <2>3. ASSUME NEW a \in 1 .. MaxCards, ApprovalTimesOut(a)
        PROVE  ListenInv'
    <3>1. /\ UNCHANGED <<listening, current, quit, toMain>>
          /\ UNCHANGED toUi \/ toUi' = Append(toUi, Msg("approval-cancelled", a, FALSE))
      BY <2>3 DEF ApprovalTimesOut, ui
    <3>2. Said(toUi, "exit") => Said(toUi', "exit")
      BY <3>1, EmitsOn
    <3> QED
      BY <3>1, <3>2, ListensOn
  <2>4. CASE KillAll
    <3>1. quit'
      BY <2>4 DEF KillAll
    <3> QED
      BY <3>1 DEF ListenInv
  <2> QED
    BY <2>1, <2>2, <2>3, <2>4, CommandListens, DeliveryListens, UserListens DEF Next
<1> QED
  BY <1>1, <1>2, InductiveInvariant, PTL DEF Spec

------------------------------------------------------------------------------
\* Run objects, processes, approvals and the view keep their types; in particular
\* no more objects are made than processes, a message to a process is one that was
\* written, and a card the view shows is one that was asked.
THEOREM TypeCorrect == Spec => []TypeOK
<1>1. IInv => TypeOK
  <2> SUFFICES ASSUME IInv PROVE TypeOK
    OBVIOUS
  <2>1. /\ run \in [Objects -> RunType] /\ kids \in Seq(KidType) /\ cards \in Seq(CardType)
        /\ saved \in Statuses \cup {"absent"} /\ made \in Nat /\ made <= MaxKids
        /\ current # None => current \in Objects
        /\ view \in Views(prompts, Len(cards))
        /\ view.card # None => view.card \in view.open
        /\ prompts \in 0 .. MaxPrompts /\ shown \subseteq 1 .. prompts
        /\ DOMAIN cards = 1 .. Len(cards) /\ MaxPrompts \in Nat /\ MaxKids \in Nat
    BY Known, AgentsAssumption DEF IInv, Types, DriverTypes, ViewTypes
  <2>2. /\ view.status \in Statuses \cup {"none"} /\ view.queued \in 0 .. prompts
        /\ view.open \subseteq DOMAIN cards
    BY <2>1 DEF Views
  <2>3. view.queued \in Prompts \cup {None}
    BY <2>1, <2>2 DEF Prompts, None
  <2>4. current \in Objects \cup {None} /\ view.card \in view.open \cup {None}
        /\ made \in 0 .. MaxKids
    BY <2>1
  <2> QED
    BY <2>1, <2>2, <2>3, <2>4 DEF TypeOK, RunType, KidType, CardType
<1> QED
  BY <1>1, InductiveInvariant, PTL

\* Where every CLI starts, two turns of a run never work in the same session at
\* once: spawnTurn is reached only when no process of the run is left.
THEOREM OneTurn == Spec => []OneTurnAtATime
<1>1. IInv => OneTurnAtATime
  <2> SUFFICES ASSUME IInv, ~setting.spawnErrors,
                      NEW k \in DOMAIN kids, NEW l \in DOMAIN kids, Running(k), Running(l)
               PROVE  k = l
    BY DEF OneTurnAtATime
  <2>1. DOMAIN kids = 1 .. Len(kids)
    BY Known DEF IInv
  <2> QED
    BY <2>1 DEF IInv, ProcInv
<1> QED
  BY <1>1, InductiveInvariant, PTL

\* Where every CLI starts, no CLI process works on for nobody unless the application
\* quits on a host that refuses full-auto: stop and killAll reach it, or it was told
\* to exit.
THEOREM NoOrphans == Spec => []NoOrphanProcess
<1>1. IInv => NoOrphanProcess
  <2> SUFFICES ASSUME IInv, ~setting.spawnErrors, ~(setting.rootHost /\ quit),
                      NEW k \in DOMAIN kids, Running(k), ~kids[k].killed
               PROVE  current = kids[k].run /\ run[current].child = k
    BY DEF NoOrphanProcess, NoProcessForgotten
  <2>1. k \in 1 .. Len(kids)
    BY Known DEF IInv
  <2>2. ~quit
    BY <2>1 DEF IInv, QuitInv
  <2> QED
    BY <2>1, <2>2 DEF IInv, ProcInv
<1> QED
  BY <1>1, InductiveInvariant, PTL

\* The renderer listens for a run only while the driver holds it: for any number of
\* messages, processes, failures, stops and revivals the exit of a run releases its
\* listener, and only a run that is held again gets one.
THEOREM ListenersAreReleased == Spec => []ListenedIsHeld
<1>1. ListenInv => ListenedIsHeld
  BY DEF ListenInv, ListenedIsHeld, Said
<1> QED
  BY <1>1, ListenInvariant, PTL
==============================================================================
