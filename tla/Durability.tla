------------------------------ MODULE Durability ------------------------------
(***************************************************************************)
(* The two programs that keep a store, each alone over its own: the server *)
(* (RuntimeServer) and the consumer of webhooks (WebhookIngest), under     *)
(* crashes, failed saves, restarts and migrations.                         *)
(***************************************************************************)
EXTENDS RuntimeServer, WebhookIngest

VARIABLE program   \* which of the two runs in this behaviour

vars == <<storeVars, program>>

Init ==
  /\ StoreInit
  /\ program \in {"server", "consumer"}
  /\ program = "consumer" => backend = "json"   \* the scripts use the JSON store

StoreStep ==
  \/ Load
  \/ Save
  \/ Crash
  \/ program = "server" /\ \E force \in BOOLEAN : Migrate(force)

Next ==
  /\ \/ StoreStep
     \/ program = "server" /\ ServerStep
     \/ program = "consumer" /\ ConsumerStep
  /\ UNCHANGED program

\* A supervisor restarts the process; a save follows its answer at once; of
\* the saves that would write a given piece of work, not every one fails or is
\* cut off; there is always some later mutating request.  Nothing is assumed of
\* the sender of webhooks.
Fairness ==
  /\ WF_vars(Load /\ UNCHANGED program)
  /\ WF_vars((Save \/ SaveFails) /\ UNCHANGED program)
  /\ \A w \in Work : SF_vars(Up /\ w \in mem.known /\ Save /\ UNCHANGED program)
  /\ WF_vars(program = "server" /\ (\E w \in Work \ Failing : Request(w)) /\ UNCHANGED program)

Spec == Init /\ [][Next]_vars /\ Fairness

-----------------------------------------------------------------------------
\* The work done in c is what c knows of, once each; the consumer marks events
\* it refuses.
Agrees(c) ==
  /\ \A i, j \in DOMAIN c.log : c.log[i] = c.log[j] => i = j
  /\ ToSet(c.log) = c.known \ (IF program = "consumer" THEN Failing ELSE {})

\* A state holds the work of every key or event it knows, exactly once, and no
\* other: a retry that is answered from its record, or a delivery that is
\* dropped as a duplicate, has been applied before, whatever was saved, lost
\* or ingested in between (idempotency records, webhook_seen_event_ids).
KnownIsApplied ==
  /\ Up => Agrees(mem)
  /\ \A b \in Backends : Readable(file[b]) => Agrees(file[b])

\* What the two invariants need to be inductive: the types, and that a file
\* that was never written has had no save.
DurabilityInv ==
  /\ StoreTypes
  /\ program \in {"server", "consumer"}
  /\ \A b \in Backends : file[b] = Missing => saved[b] = <<>>
  /\ SavedNeverLost
  /\ KnownIsApplied

\* Every piece of work in memory gets to disk, or the process it was in ends:
\* an answer whose save failed, and what a failed handler left behind, are
\* written by the save of a later request, not kept in memory for ever.
MemoryReachesDisk ==
  \A w \in Work :
    (Up /\ w \in mem.known) ~> (~Up \/ (Readable(file[backend]) /\ w \in file[backend].known))

\* A batch that holds the genuine event is ingested and nothing in it throws.
Taken(e) ==
  \E batch \in BoundedSeq(Deliveries, MaxBatch) :
    /\ Delivery(e, TRUE) \in ToSet(batch)
    /\ Deliver(batch)
    /\ Up'

\* An event that is delivered again and again in batches that come to their
\* end, with whatever forged, malformed and known events around it and whatever
\* batches that throw in between, is applied and saved in the end, unless a
\* crash has left a file that does not parse (ingestWebhookEvents).  The
\* premise is the sender's part: an event that throws ahead of it in every
\* replay keeps it out for ever.
GenuineEventsIngested ==
  \A e \in Work \ Failing :
    program = "consumer" /\ []<><<Taken(e)>>_vars =>
      <>(file["json"] = Torn \/ (Readable(file["json"]) /\ e \in ToSet(file["json"].log)))
=============================================================================
