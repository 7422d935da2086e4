------------------------------- MODULE SessionLog -------------------------------
(***************************************************************************)
(* What the session history promises about one session                     *)
(* (session-base/src/persistence.ts): an append-only sequence of commits,  *)
(* numbered by revision, of which a prefix has been written and a shorter  *)
(* prefix has been synced.  A crash of the process can only forget commits *)
(* that were never written, a power loss only commits that were never      *)
(* synced; nothing reorders, rewrites or renumbers what remains.           *)
(***************************************************************************)
EXTENDS Naturals, Sequences

CONSTANT Ids  (* identities of commits *)

VARIABLES
  log,      \* the commits of the session, the seed first
  written,  \* length of the prefix the file holds
  stable    \* length of the prefix the disk holds after a sync

logVars == <<log, written, stable>>

Commits == [rev : Nat, id : Ids]

LogInit ==
  /\ \E id \in Ids : log = <<[rev |-> 0, id |-> id]>>
  /\ written = 1
  /\ stable \in {0, 1}

\* A commit gets the next revision.  In memory, or written together with
\* everything before it.
Commit ==
  \E id \in Ids :
    /\ log' = Append(log, [rev |-> Len(log), id |-> id])
    /\ \/ written' = written
       \/ written = Len(log) /\ written' = written + 1
    /\ UNCHANGED stable

\* The next commit held in memory reaches the file.
Write ==
  /\ written < Len(log)
  /\ written' = written + 1
  /\ UNCHANGED <<log, stable>>

Sync ==
  /\ stable' = written
  /\ UNCHANGED <<log, written>>

\* A crash or a failed write forgets what was never written.
Forget ==
  /\ log' = SubSeq(log, 1, written)
  /\ UNCHANGED <<written, stable>>

\* A power loss may also forget what was written and never synced.
PowerLoss ==
  \E n \in stable .. written :
    /\ log' = SubSeq(log, 1, n)
    /\ written' = n
    /\ stable' = n

LogNext == Commit \/ Write \/ Sync \/ Forget \/ PowerLoss

LogSpec == LogInit /\ [][LogNext]_logVars
==============================================================================
