---------------------------- MODULE WebhookIngest ----------------------------
(***************************************************************************)
(* A partner's consumer of webhooks (ingestWebhookEvents of delivery/      *)
(* proposalIngestService.mjs): a process loads its store, ingests a batch, *)
(* and saves.  Delivery is at least once, so batches repeat, overlap, come *)
(* in any order and may hold events nobody signed.                         *)
(*                                                                         *)
(* Abstractions: a delivery is the id of an event (or none) and whether    *)
(* its signature verifies.  The event is a proposal.created one, whose     *)
(* effect is that its work is in the log, or one of Failing, whose content *)
(* is refused once its id is marked.                                       *)
(***************************************************************************)
EXTENDS StateStore

CONSTANTS
  NoId,      \* the id of a delivery that has none
  MaxBatch   \* the longest batch (bound)

ASSUME WebhookAssumption ==
  NoId \notin Work /\ MaxBatch \in Nat

Delivery(e, g) == [event |-> e, genuine |-> g]
Deliveries     == {Delivery(e, TRUE) : e \in Work} \cup {Delivery(e, FALSE) : e \in Work \cup {NoId}}

\* How far the loop over a batch has come.
Progress(l, k, t) == [log |-> l, known |-> k, thrown |-> t]

\* Mutant: the id is marked as seen before the signature is verified.
Mark_Early(p, d) == Progress(p.log, p.known \cup {d.event}, p.thrown)

\* What is marked for a delivery whose signature does not verify: nothing.
Mark(p, d) == p

\* One delivery: without an id it throws; one that is known is skipped; one
\* that does not verify is skipped and not marked; one that does is marked
\* and applied, and throws if its content is refused.
Ingest(p, d) ==
  IF p.thrown THEN p
  ELSE IF d.event = NoId THEN Progress(p.log, p.known, TRUE)
  ELSE IF d.event \in p.known THEN p
  ELSE IF ~d.genuine THEN Mark(p, d)
  ELSE LET refused == d.event \in Failing
       IN  Progress(IF refused THEN p.log ELSE Append(p.log, d.event), p.known \cup {d.event}, refused)

AfterBatch(c, batch) == FoldLeft(Ingest, Progress(c.log, c.known, FALSE), batch)

\* A batch is ingested.  The ids that are marked reach the store when the loop
\* has ended: a throw ends the process instead, with nothing of it saved.
Deliver(batch) ==
  /\ Up /\ ~saveDue
  /\ LET p == AfterBatch(mem, batch)
     IN  IF p.thrown THEN mem' = Down /\ saveDue' = FALSE
         ELSE mem' = Contents(p.log, p.known) /\ saveDue' = TRUE
  /\ UNCHANGED <<backend, file, saved>>

ConsumerStep == \E batch \in BoundedSeq(Deliveries, MaxBatch) : Deliver(batch)
=============================================================================
