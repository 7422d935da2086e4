---------------------------- MODULE MCCodingAgents ----------------------------
(* Model-checking instances of CodingAgents: one run id, few messages and    *)
(* processes.                                                                *)
EXTENDS CodingAgents

\* A host where everything starts, but the application may quit.
Plain == [mode |-> "default", rootHost |-> FALSE, spawnErrors |-> FALSE, quits |-> TRUE]

\* A CLI that may not start.
Failing == [Plain EXCEPT !.spawnErrors = TRUE, !.quits = FALSE]

\* Full-auto on a host where the CLI runs as root.
Root == [Plain EXCEPT !.mode = "bypass", !.rootHost = TRUE, !.quits = FALSE]

MCSettings == {Plain, Failing, Root}

\* The plain host, where the application does not quit.
Staying == {[Plain EXCEPT !.quits = FALSE]}
==============================================================================
