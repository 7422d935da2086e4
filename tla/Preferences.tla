----------------------------- MODULE Preferences -----------------------------
(***************************************************************************)
(* The application's preferences: the facade of preferences-json           *)
(* (createStablePreferences) over the settings file of storage-json        *)
(* (createJsonStorage).  The facade stays while its storage leaves and     *)
(* returns; the storage keeps one state per open file, and a chain of      *)
(* writes per path that outlives the state.                                *)
(*                                                                         *)
(* A value is the number of the call of set() that wrote it, 0 if the file *)
(* brought it.  The kernel, which is outside, binds the facade when both   *)
(* services it needs are there, and waits for one unbind to end before it  *)
(* binds again.  Left out: key validation, clear() and reset(), which      *)
(* nobody calls on this store, and change events of a second facade.       *)
(***************************************************************************)
EXTENDS Naturals, Sequences, FiniteSets

CONSTANTS None, Keys,
          MaxOps,      (* bound: calls of set and delete *)
          MaxBinds,    (* bound: times the storage is bound *)
          MaxFaults    (* bound: writes that fail *)

ASSUME PreferencesAssumption ==
  /\ None \notin Nat
  /\ MaxOps \in Nat /\ MaxBinds \in Nat /\ MaxFaults \in Nat

VARIABLES
  file,     \* the settings file
  heap,     \* StoreState objects: [data, dirty]
  store,    \* stores.get(path)
  writes,   \* the chain of writes: [state, of (calls it resolves, 0 for close())]
  io,       \* what the write under way writes
  mem,      \* the facade: see Unbound
  ops,      \* the calls of set and delete: [key, value, at, bound]
  told,     \* what the listeners heard last
  env       \* calm, and bounds used: binds, faults, swaps

vars == <<file, heap, store, writes, io, mem, ops, told, env>>

Empty == [k \in Keys |-> None]
Files == [Keys -> {None, 0}]

\* values, locallyAuthored, providerHydrated, hasBoundProvider; the state behind
\* the binding's handle; life of the binding; what open() has read.
Unbound == [values |-> Empty, authored |-> {}, hydrated |-> {}, hasBound |-> FALSE,
            handle |-> None, life |-> "away", image |-> Empty]

\* calm: the storage is taken away only when no call waits for a write.
Init ==
  /\ file \in Files
  /\ heap = <<>> /\ store = None /\ writes = <<>> /\ io = None
  /\ mem = Unbound /\ ops = <<>> /\ told = Empty
  /\ env \in [calm : BOOLEAN, binds : {0}, faults : {0}, swaps : {0}]

Saving == {n \in DOMAIN ops : ops[n].at = "saving"}

------------------------------------------------------------------------------
(* Storage. *)

\* Mutant: a save joins the write under way.
Joins(chain, s, n) ==
  IF io # None THEN <<[Head(chain) EXCEPT !.of = @ \cup {n}]>> \o Tail(chain)
  ELSE Append(chain, [state |-> s, of |-> {n}])

\* persist(): behind every write of the path, whatever becomes of them.
Queued(chain, s, n) == Append(chain, [state |-> s, of |-> {n}])

\* persistNow(), after mkdir: the state is serialized when its turn comes.
WriteStarts ==
  /\ writes # <<>> /\ io = None
  /\ io' = heap[Head(writes).state].data
  /\ UNCHANGED <<file, heap, store, writes, mem, ops, told, env>>

\* What follows the save in set(), delete() and close().  The facade emits its
\* event through the binding there is by now: without one it throws.
Resolved(of, ok) ==
  LET heard == ok /\ mem.handle # None
      calls == of \ {0}
      key(n) == ops[n].key
  IN  /\ ops' = [n \in DOMAIN ops |->
                   IF n \in calls THEN [ops[n] EXCEPT !.at = IF heard THEN "done" ELSE "failed"]
                   ELSE ops[n]]
      /\ told' = [k \in Keys |->
                   IF heard /\ \E n \in calls : key(n) = k
                     THEN ops[CHOOSE n \in calls : key(n) = k].value ELSE told[k]]
      /\ mem' = IF 0 \in of THEN [mem EXCEPT !.life = "away"] ELSE mem
      /\ store' = IF 0 \in of /\ ok THEN None ELSE store

\* The rename; dirty is cleared, whatever was set meanwhile.
WriteLands ==
  /\ io # None
  /\ file' = io /\ io' = None
  /\ heap' = [heap EXCEPT ![Head(writes).state].dirty = FALSE]
  /\ writes' = Tail(writes)
  /\ Resolved(Head(writes).of, TRUE)
  /\ UNCHANGED env

WriteFails ==
  /\ io # None /\ env.faults < MaxFaults
  /\ io' = None /\ writes' = Tail(writes)
  /\ env' = [env EXCEPT !.faults = @ + 1]
  /\ Resolved(Head(writes).of, FALSE)
  /\ UNCHANGED <<file, heap>>

------------------------------------------------------------------------------
(* The facade. *)

\* set() and delete() up to their save; delete() of an absent key does nothing.
Change(k, value) ==
  LET n == Len(ops) + 1
      bound == mem.handle # None
      s == mem.handle
      had == heap[s].data[k] # None
  IN  /\ mem' = [mem EXCEPT !.values[k] = value, !.authored = @ \cup {k},
                            !.hydrated = @ \ {k}]
      /\ ops' = Append(ops, [key |-> k, value |-> value, bound |-> bound,
                             at |-> IF bound THEN "saving" ELSE "done"])
      /\ IF bound
         THEN /\ heap' = [heap EXCEPT ![s].data[k] = value,
                                      ![s].dirty = @ \/ value # None \/ had]
              /\ writes' = Queued(writes, s, n)
              /\ told' = told
         ELSE told' = [told EXCEPT ![k] = value] /\ UNCHANGED <<heap, writes>>
      /\ UNCHANGED <<file, store, io, env>>

Set(k) == Len(ops) < MaxOps /\ Change(k, Len(ops) + 1)
Delete(k) == Len(ops) < MaxOps /\ mem.values[k] # None /\ Change(k, None)

\* bind() calls open(), which reads the file if it holds no state of it.
Bind ==
  /\ mem.life = "away" /\ env.binds < MaxBinds
  /\ mem' = [mem EXCEPT !.life = IF store = None THEN "opening" ELSE "read"]
  /\ env' = [env EXCEPT !.binds = @ + 1]
  /\ UNCHANGED <<file, heap, store, writes, io, ops, told>>

Reads ==
  /\ mem.life = "opening"
  /\ mem' = [mem EXCEPT !.life = "read", !.image = file]
  /\ UNCHANGED <<file, heap, store, writes, io, ops, told, env>>

\* A preference of the user's own, which a later provider does not replace.
Kept(k) == mem.hasBound /\ k \in mem.authored

\* Mutant: the keys that went with the last provider are not published.
SilentlyGone(gone, values) == {k \in Keys : values[k] # None}

\* The keys bind() publishes.
Published(gone, values) == gone \cup {k \in Keys : values[k] # None}

\* open() returns and bind() takes over what the provider has.
Hydrates ==
  LET fresh == store = None
      s == IF fresh THEN Len(heap) + 1 ELSE store
      next == IF fresh THEN mem.image ELSE heap[store].data
      gone == {k \in mem.hydrated : next[k] = None /\ k \notin mem.authored}
      loaded == {k \in Keys : next[k] # None /\ ~Kept(k)}
      values == [k \in Keys |-> IF k \in loaded THEN next[k]
                                ELSE IF k \in gone THEN None ELSE mem.values[k]]
  IN  /\ mem.life = "read"
      /\ heap' = IF fresh THEN Append(heap, [data |-> next, dirty |-> FALSE]) ELSE heap
      /\ store' = s
      /\ mem' = [mem EXCEPT !.values = values, !.authored = @ \ loaded, !.hydrated = loaded,
                            !.hasBound = TRUE, !.handle = s, !.life = "bound", !.image = Empty]
      /\ told' = [k \in Keys |-> IF k \in Published(gone, values) THEN values[k] ELSE told[k]]
      /\ UNCHANGED <<file, writes, io, ops, env>>

\* The function bind() returned; close() waits for a write only if it finds the
\* state dirty.
Unbind ==
  /\ mem.life = "bound"
  /\ env.calm => Saving = {}
  /\ IF heap[store].dirty
     THEN /\ writes' = Queued(writes, store, 0)
          /\ mem' = [mem EXCEPT !.handle = None, !.life = "closing"]
          /\ store' = store
     ELSE /\ mem' = [mem EXCEPT !.handle = None, !.life = "away"]
          /\ store' = None /\ writes' = writes
  /\ UNCHANGED <<file, heap, io, ops, told, env>>

\* Another provider takes its place, with a file of its own.
ProviderChanges ==
  /\ mem.life = "away" /\ store = None /\ writes = <<>> /\ env.swaps = 0
  /\ file' \in Files \ {file}
  /\ env' = [env EXCEPT !.swaps = 1]
  /\ UNCHANGED <<heap, store, writes, io, mem, ops, told>>

------------------------------------------------------------------------------
Next ==
  \/ WriteStarts \/ WriteLands \/ WriteFails
  \/ \E k \in Keys : Set(k) \/ Delete(k)
  \/ Bind \/ Reads \/ Hydrates \/ Unbind \/ ProviderChanges

Spec == Init /\ [][Next]_vars

------------------------------------------------------------------------------

\* A call of set() or delete() that resolved while the storage was bound is in the
\* file, or a later call for the same key is: no order of saves, failed writes,
\* and reopened stores brings an older value back to the disk.  (Unless the storage
\* leaves while calls wait for their write, see README.)
ResolvedIsStored ==
  env.calm /\ env.swaps = 0 =>
    \A n \in DOMAIN ops : ops[n].bound /\ ops[n].at = "done" =>
      \E m \in n .. Len(ops) : ops[m].key = ops[n].key /\ file[ops[n].key] = ops[m].value

\* The last call of set() or delete() for k, if there was one, resolved: behind
\* no call is there none that did.
LastResolved(k) ==
  \A n \in DOMAIN ops : ops[n].key = k =>
    \E m \in n .. Len(ops) : ops[m].key = k /\ ops[m].at = "done"

\* Every listener heard the value that get() returns, whatever providers come and
\* go, except of a key whose last call waits for its write or failed.  (Those two
\* leave get() ahead of the listeners; and a call that waits while the storage
\* leaves, which calm excludes, may publish its value over a later one.)
ListenersAreCurrent ==
  env.calm => \A k \in Keys : LastResolved(k) => told[k] = mem.values[k]
==============================================================================
