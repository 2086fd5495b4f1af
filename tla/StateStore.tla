------------------------------ MODULE StateStore ------------------------------
(***************************************************************************)
(* Where the program keeps its state: one object in memory, loaded when a  *)
(* process starts and written out whole by every save (store/              *)
(* jsonStateStore.mjs, sqliteStateStore.mjs, createStateStore.mjs) and     *)
(* copied between the two backends by stateStoreMigration.mjs.             *)
(*                                                                         *)
(* Abstractions: of the object, what is kept is the pieces of work that    *)
(* have changed it, in order, and those it knows of (its idempotency keys, *)
(* or the webhook events it has seen).  The crash is the process's: what   *)
(* the operating system has been given stays.  The operator migrates while *)
(* no process runs and starts the next one on the copy; the tool itself    *)
(* does not check that.                                                    *)
(***************************************************************************)
EXTENDS Naturals, Sequences, FiniteSets, SequencesExt

CONSTANTS
  Work,      \* pieces of work: requests by their key, webhook events by their id
  Failing,   \* those whose handling throws after it has changed the state
  Missing,   \* a state file that does not exist
  Torn,      \* a state file that does not parse
  Down       \* no process is running

Backends == {"json", "sqlite"}

\* The state object.
State == [log : Seq(Work), known : SUBSET Work]

ASSUME StateStoreAssumption ==
  /\ Failing \subseteq Work /\ IsFiniteSet(Work)
  /\ Missing # Torn
  /\ Missing \notin State /\ Torn \notin State /\ Down \notin State

VARIABLES
  backend,   \* the backend processes are started with
  file,      \* file[b]: contents of the state file of backend b
  mem,       \* the state object of the process
  saveDue,   \* the process is about to save
  saved      \* saved[b]: the log in the last complete save to b (history)

storeVars == <<backend, file, mem, saveDue, saved>>

Contents(l, k) == [log |-> l, known |-> k]
Fresh          == Contents(<<>>, {})

Readable(f) == f \notin {Missing, Torn}
Up          == mem # Down

\* The contents of a file, as one that already exists in the file system.
Opened(b) == IF b = "sqlite" /\ file[b] = Missing THEN Fresh ELSE file[b]

StoreInit ==
  /\ backend \in Backends
  /\ file = [b \in Backends |-> Missing]
  /\ mem = Down
  /\ saveDue = FALSE
  /\ saved = [b \in Backends |-> <<>>]

\* Mutant: a file that does not parse is taken for no file.
Load_Lenient ==
  /\ ~Up
  /\ mem' = IF Readable(file[backend]) THEN file[backend] ELSE Fresh
  /\ file' = [file EXCEPT ![backend] = Opened(backend)]
  /\ UNCHANGED <<backend, saveDue, saved>>

\* A process starts.  A file that does not parse stops it; opening the
\* database creates it, with no row in it yet.
Load ==
  /\ ~Up
  /\ file[backend] # Torn
  /\ mem' = IF file[backend] = Missing THEN Fresh ELSE file[backend]
  /\ file' = [file EXCEPT ![backend] = Opened(backend)]
  /\ UNCHANGED <<backend, saveDue, saved>>

\* Mutant: the book-keeping of what is known is not part of what is written.
Save_WithoutKnown ==
  /\ saveDue
  /\ file' = [file EXCEPT ![backend] = Contents(mem.log, {})]
  /\ saved' = [saved EXCEPT ![backend] = mem.log]
  /\ saveDue' = FALSE
  /\ UNCHANGED <<backend, mem>>

\* The whole object replaces what was there.
Save ==
  /\ saveDue
  /\ file' = [file EXCEPT ![backend] = mem]
  /\ saved' = [saved EXCEPT ![backend] = mem.log]
  /\ saveDue' = FALSE
  /\ UNCHANGED <<backend, mem>>

\* A write that does not complete, to the file of b.  The row of the database
\* is replaced or not; the JSON file is overwritten in place, so it may be
\* left cut short.
Interrupted(b) ==
  \/ file' = [file EXCEPT ![b] = Opened(b)]
  \/ b = "json" /\ file' = [file EXCEPT ![b] = Torn]

\* The process ends, at any point: before its save, during it, or idle.
Crash ==
  /\ Up
  /\ mem' = Down
  /\ saveDue' = FALSE
  /\ \/ UNCHANGED file
     \/ saveDue /\ Interrupted(backend)
  /\ UNCHANGED <<backend, saved>>

\* The state of a stopped process is copied to the other backend if it loads,
\* over what is there only by force; the next process is started on the copy
\* if that ended.
Migrate(force) ==
  LET to == CHOOSE b \in Backends : b # backend
  IN  /\ ~Up
      /\ Readable(file[backend])
      /\ force \/ file[to] = Missing
      /\ \/ /\ file' = [file EXCEPT ![to] = file[backend]]
            /\ saved' = [saved EXCEPT ![to] = saved[backend]]
            /\ backend' = to
         \/ Interrupted(to) /\ UNCHANGED <<saved, backend>>
      /\ UNCHANGED <<mem, saveDue>>

-----------------------------------------------------------------------------
\* The types of the store; a save is due of a running process only.
StoreTypes ==
  /\ backend \in Backends
  /\ file \in [Backends -> State \cup {Missing, Torn}]
  /\ mem \in State \cup {Down}
  /\ saveDue \in BOOLEAN /\ (saveDue => Up)
  /\ saved \in [Backends -> Seq(Work)]

\* What a complete save has put on disk is there for good: whatever crashes,
\* failed saves, restarts and migrations come, a process never runs on a
\* state, and no readable file holds one, that lacks it (load, save,
\* migrateStateStore).
SavedNeverLost ==
  /\ Up => IsPrefix(saved[backend], mem.log)
  /\ \A b \in Backends : Readable(file[b]) => IsPrefix(saved[b], file[b].log)
=============================================================================
