-------------------------- MODULE MCToolExecution ----------------------------
(* Model-checking instance of ToolExecution: two calls of one model response. *)
EXTENDS ToolExecution

Asks(class) == [asks |-> TRUE, class |-> class]
Runs(class) == [asks |-> FALSE, class |-> class]

Setting(calls, sorted, failures, lives) ==
  [tool |-> calls, sorted |-> sorted, failures |-> failures, lives |-> lives]

\* Every mix in which a call asks for approval, with a failing disk and a crash;
\* ids that sort, with nothing behind a call that asks but another one.
MCSettings ==
  {Setting(calls, FALSE, 1, 2) : calls \in {<<Runs("safe"), Asks("exclusive")>>,
                                           <<Asks("exclusive"), Runs("safe")>>,
                                           <<Asks("safe"), Asks("safe")>>}}
  \cup {Setting(calls, TRUE, 0, 1) : calls \in {<<Runs("safe"), Asks("exclusive")>>,
                                                <<Runs("exclusive"), Runs("safe")>>,
                                                <<Asks("safe"), Asks("exclusive")>>}}

\* Two that ask, with ids that do not sort.
TwoAsk == {Setting(<<Asks("safe"), Asks("safe")>>, FALSE, 0, 1)}
==============================================================================
