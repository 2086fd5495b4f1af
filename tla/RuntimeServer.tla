---------------------------- MODULE RuntimeServer ----------------------------
(***************************************************************************)
(* The request loop of server/runtimeApiServer.mjs over its store: a       *)
(* handler runs to its end without yielding, answers, and the store is     *)
(* saved after the answer; a save that fails is only logged.               *)
(*                                                                         *)
(* Abstractions: a request is its idempotency key, and what it does to the *)
(* state is that its work is there.  Reads neither change nor save.        *)
(***************************************************************************)
EXTENDS StateStore

\* The state with the work done, and its key recorded in the same object.
Done(c, w) == Contents(Append(c.log, w), c.known \cup {w})

\* A repeated key is answered from its record.
AsRecorded(c, w) == IF w \in c.known THEN c ELSE Done(c, w)

\* Mutant: only requests that have changed something are followed by a save.
Request_SavesChanges(w) ==
  /\ Up /\ ~saveDue
  /\ mem' = AsRecorded(mem, w)
  /\ saveDue' = (w \notin mem.known)
  /\ UNCHANGED <<backend, file, saved>>

\* A mutating request is handled and answered; replays are saved too.
Request(w) ==
  /\ Up /\ ~saveDue
  /\ mem' = AsRecorded(mem, w)
  /\ saveDue' = TRUE
  /\ UNCHANGED <<backend, file, saved>>

\* A demo trigger, which makes several service calls under keys of its own:
\* one of them fails, the client hears 409, and what the calls before it have
\* done stays in memory with no save due.  Each trigger's keys are new ones.
FailingTrigger(w) ==
  /\ Up /\ ~saveDue
  /\ w \notin mem.known
  /\ mem' = Done(mem, w)
  /\ UNCHANGED <<backend, file, saveDue, saved>>

\* The save fails and the process goes on, its answer already sent.
SaveFails ==
  /\ saveDue
  /\ Interrupted(backend)
  /\ saveDue' = FALSE
  /\ UNCHANGED <<backend, mem, saved>>

ServerStep ==
  \/ \E w \in Work \ Failing : Request(w)
  \/ \E w \in Failing : FailingTrigger(w)
  \/ SaveFails
=============================================================================
