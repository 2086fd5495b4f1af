--------------------------- MODULE CommitHandshake ---------------------------
(***************************************************************************)
(* The two-phase commit handshake of src/commit/commitService.mjs: the     *)
(* participants of a cycle proposal accept or decline it, the first accept *)
(* reserves every intent of the proposal, unanimity makes the commit ready *)
(* for settlement, a decline or the expiry of the accept window cancels it *)
(* and gives the intents back.                                             *)
(*                                                                         *)
(* A commit id is a hash of its proposal id (commitIds.mjs), so commits    *)
(* are indexed by proposal.  Every handler runs to completion between two  *)
(* awaits of the server: one request is one step.  A request answered with *)
(* an error changes nothing and is a stuttering step here; module          *)
(* CommitApi models the answers and the idempotency keys around them.      *)
(***************************************************************************)
EXTENDS Naturals, FiniteSets, Outbox

CONSTANTS
  Proposals,    \* ids of cycle proposals
  Intents,      \* ids of swap intents
  Actors,       \* everyone who may call the API, participant or not
  IntentsOf,    \* IntentsOf[p]: the intents of p, one per participant
  OwnerOf,      \* OwnerOf[i]: the actor on whose behalf i is listed
  ExpiresAt,    \* ExpiresAt[p]: end of the accept window of p
  MaxClock,     \* bound of the clock
  NoProposal    \* value of an absent reservation

ASSUME CommitAssumption ==
  /\ IntentsOf \in [Proposals -> SUBSET Intents]
  /\ \A p \in Proposals : IntentsOf[p] # {}
  /\ OwnerOf \in [Intents -> Actors]
  /\ ExpiresAt \in [Proposals -> Nat]
  /\ MaxClock \in Nat
  /\ NoProposal \notin Proposals

VARIABLES
  phase,         \* phase[p]: phase of the commit of p, "none" before there is one
  status,        \* status[p][i]: answer of the participant that brings i to p
  reservations,  \* reservations[i]: the proposal whose commit holds i
  outbox,        \* outbox[e]: how many events with id e have been emitted
  clock

vars == <<phase, status, reservations, outbox, clock>>

Phases   == {"none", "accept", "ready", "cancelled"}
Statuses == {"pending", "accepted", "declined"}

EventIds == EventIdsOf(Proposals, Intents)
Emit(E)  == Appended(outbox, E)

OwnIntents(a, p)    == {i \in IntentsOf[p] : OwnerOf[i] = a}
IsParticipant(a, p) == OwnIntents(a, p) # {}
HeldBy(p)           == {i \in IntentsOf[p] : reservations[i] = p}

\* Mutant: the reservation check is skipped.
Conflicts_Unchecked(p) == {i \in IntentsOf[p] : FALSE}
Conflicts(p)        == {i \in IntentsOf[p] : reservations[i] \notin {NoProposal, p}}
Live(p)             == phase[p] \in {"accept", "ready"}

Answer(a, p, s) ==
  [status EXCEPT ![p] = [i \in Intents |-> IF i \in OwnIntents(a, p) THEN s ELSE @[i]]]

ReservedEvents(p)   == {IntentEvent("intent.reserved", p, i) : i \in IntentsOf[p]}

\* Mutant: an event for every intent of the proposal, held or not.
UnreservedEvents_All(p) == {IntentEvent("intent.unreserved", p, i) : i \in IntentsOf[p]}
UnreservedEvents(p) == {IntentEvent("intent.unreserved", p, i) : i \in HeldBy(p)}

\* _reserveIntents, past its conflict check.
ReserveIntents(p) ==
  reservations' = [i \in Intents |-> IF i \in IntentsOf[p] THEN p ELSE reservations[i]]

\* Mutant: the entries of the proposal are deleted whoever holds them.
UnreserveIntents_Foreign(S) ==
  reservations' = [i \in Intents |->
                     IF \E p \in S : i \in IntentsOf[p] THEN NoProposal ELSE reservations[i]]

\* _unreserveIntents, for the commits of a set of proposals.
UnreserveIntents(S) ==
  reservations' = [i \in Intents |->
                     IF \E p \in S : i \in HeldBy(p) THEN NoProposal ELSE reservations[i]]

\* Mutant: one acceptance is enough.
AcceptedBy_Any(st, p) == \E i \in IntentsOf[p] : st[p][i] = "accepted"
AcceptedBy(st, p) == \A i \in IntentsOf[p] : st[p][i] = "accepted"

\* Mutant: the transition is announced again by an accept that changes nothing.
BecomesReady_Again(st, p) == AcceptedBy(st, p)
BecomesReady(st, p) == AcceptedBy(st, p) /\ phase[p] # "ready"

-----------------------------------------------------------------------------
Init ==
  /\ phase = [p \in Proposals |-> "none"]
  /\ status = [p \in Proposals |-> [i \in Intents |-> "pending"]]
  /\ reservations = [i \in Intents |-> NoProposal]
  /\ outbox = [e \in EventIds |-> 0]
  /\ clock = 0

(***************************************************************************)
(* accept.  The window is not consulted: an accept that arrives before the *)
(* sweep is good even when clock > ExpiresAt[p].                           *)
(***************************************************************************)
FirstAccept(a, p) ==
  /\ phase[p] = "none"
  /\ IsParticipant(a, p)
  /\ Conflicts(p) = {}
  /\ ReserveIntents(p)
  /\ status' = Answer(a, p, "accepted")
  /\ phase' = [phase EXCEPT ![p] = IF AcceptedBy(status', p) THEN "ready" ELSE "accept"]
  /\ outbox' = Emit(ReservedEvents(p) \cup
                 (IF BecomesReady(status', p) THEN {StateEvent(p, "proposed->accepted")} ELSE {}))
  /\ UNCHANGED clock

LaterAccept(a, p) ==
  /\ Live(p)
  /\ IsParticipant(a, p)
  /\ status' = Answer(a, p, "accepted")
  /\ phase' = [phase EXCEPT ![p] = IF AcceptedBy(status', p) THEN "ready" ELSE @]
  /\ outbox' = Emit(IF BecomesReady(status', p)
                    THEN {StateEvent(p, "proposed->accepted")} ELSE {})
  /\ UNCHANGED <<reservations, clock>>

Accept(a, p) == FirstAccept(a, p) \/ LaterAccept(a, p)

(***************************************************************************)
(* decline.  Without a commit a cancelled one is created for the record,   *)
(* and that branch does not ask whether the caller is a participant.       *)
(***************************************************************************)
DeclineUnopened(a, p) ==
  /\ phase[p] = "none"
  /\ status' = Answer(a, p, "declined")
  /\ phase' = [phase EXCEPT ![p] = "cancelled"]
  /\ UNCHANGED <<reservations, outbox, clock>>

DeclineCommit(a, p) ==
  /\ phase[p] # "none"
  /\ IsParticipant(a, p)
  /\ status' = Answer(a, p, "declined")
  /\ phase' = [phase EXCEPT ![p] = "cancelled"]
  /\ UnreserveIntents({p})
  /\ outbox' = Emit(UnreservedEvents(p))
  /\ UNCHANGED clock

Decline(a, p) == DeclineUnopened(a, p) \/ DeclineCommit(a, p)

(***************************************************************************)
(* expireAcceptPhase over the proposals its caller passes.                 *)
(***************************************************************************)
WindowPassed(p) == clock > ExpiresAt[p]

\* Mutant: the sweep also cancels commits that everybody has accepted.
Due_Ready(S) == {p \in S : WindowPassed(p) /\ Live(p)}
Due(S)          == {p \in S : WindowPassed(p) /\ phase[p] = "accept"}

ExpireAcceptPhase(S) ==
  /\ phase' = [p \in Proposals |-> IF p \in Due(S) THEN "cancelled" ELSE phase[p]]
  /\ UnreserveIntents(Due(S))
  /\ outbox' = Emit((UNION {UnreservedEvents(p) : p \in Due(S)})
                      \cup {StateEvent(p, "proposed->failed") : p \in Due(S)})
  /\ UNCHANGED <<status, clock>>

Tick ==
  /\ clock < MaxClock
  /\ clock' = clock + 1
  /\ UNCHANGED <<phase, status, reservations, outbox>>

Next ==
  \/ \E a \in Actors, p \in Proposals : Accept(a, p) \/ Decline(a, p)
  \/ \E S \in SUBSET Proposals : ExpireAcceptPhase(S)
  \/ Tick

Spec == Init /\ [][Next]_vars

-----------------------------------------------------------------------------
\* Shape of the commit and reservation tables of commitService.mjs.
TypeOK ==
  /\ phase \in [Proposals -> Phases]
  /\ status \in [Proposals -> [Intents -> Statuses]]
  /\ reservations \in [Intents -> Proposals \cup {NoProposal}]
  /\ outbox \in [EventIds -> Nat]
  /\ clock \in 0..MaxClock

\* The reservation table and the commit table agree: a commit that is being
\* accepted or is ready holds each of its intents, and a reservation always
\* belongs to such a commit and to an intent of its proposal.  Two live
\* commits can therefore never share an intent, and no intent stays locked
\* by a commit that was declined or has expired.
ReservationsMatchCommits ==
  \A i \in Intents, p \in Proposals :
    reservations[i] = p <=> (Live(p) /\ i \in IntentsOf[p])

\* Ready means unanimous and nothing else does: while the commit lives, it is
\* ready exactly when every participant has accepted, and nobody's refusal is
\* on record.
ReadyIsUnanimous ==
  \A p \in Proposals : Live(p) =>
    /\ phase[p] = "ready" <=> \A i \in IntentsOf[p] : status[p][i] = "accepted"
    /\ \A i \in IntentsOf[p] : status[p][i] # "declined"

\* Replaying the outbox rebuilds the lock table: an intent is held by p
\* exactly when p has emitted one more intent.reserved than intent.unreserved
\* for it, and never the other way round.
OutboxRebuildsReservations ==
  \A i \in Intents, p \in Proposals :
    outbox[IntentEvent("intent.reserved", p, i)]
      = outbox[IntentEvent("intent.unreserved", p, i)]
          + (IF reservations[i] = p THEN 1 ELSE 0)

\* Consumers drop a second event with a known id, so the handshake must never
\* say two different things under one id.
EventIdsAreUnique == \A e \in EventIds : outbox[e] <= 1

\* A cancelled commit is final, a ready one survives the sweep of the accept
\* window, and a participant's acceptance is only ever undone by a cancel.
PhasesOnlyAdvance ==
  [][\A p \in Proposals :
       /\ phase[p] = "cancelled" => phase'[p] = "cancelled"
       /\ phase[p] = "ready" =>
            \/ phase'[p] = "ready"
            \/ \E i \in IntentsOf[p] : status'[p][i] = "declined"
       /\ \A i \in IntentsOf[p] :
            status[p][i] = "accepted" /\ status'[p][i] # "accepted"
              => phase'[p] = "cancelled"]_vars

\* The handshake keeps the promise of the reservation ledger: the first accept
\* locks all intents of a proposal or fails, a decline or the sweep gives all of
\* them back, and a proposal whose commit is cancelled never locks again.
LockOf(p) == IF phase[p] = "none" THEN "idle" ELSE IF Live(p) THEN "held" ELSE "done"

Ledger == INSTANCE ReservationLedger WITH
            holder <- reservations, lock <- [p \in Proposals |-> LockOf(p)]

ImplementsLedger == Ledger!Spec

-----------------------------------------------------------------------------
\* What the outbox says of each commit, by phase: the strengthening that makes
\* the two outbox invariants inductive.
IntentHistory(p, i) ==
  LET given == outbox[IntentEvent("intent.reserved", p, i)]
      back  == outbox[IntentEvent("intent.unreserved", p, i)]
  IN  /\ phase[p] = "none" \/ i \notin IntentsOf[p] => given = 0 /\ back = 0
      /\ Live(p) /\ i \in IntentsOf[p] => given = 1 /\ back = 0
      /\ phase[p] = "cancelled" => given = back /\ given <= 1

CycleHistory(p) ==
  LET accepted == outbox[StateEvent(p, "proposed->accepted")]
      failed   == outbox[StateEvent(p, "proposed->failed")]
  IN  /\ accepted <= 1
      /\ phase[p] \in {"none", "accept"} => accepted = 0
      /\ failed <= 1
      /\ phase[p] # "cancelled" => failed = 0
      /\ \A c \in CycleTransitions \ {"proposed->accepted", "proposed->failed"} :
           outbox[StateEvent(p, c)] = 0

OutboxHistory ==
  \A p \in Proposals : CycleHistory(p) /\ \A i \in Intents : IntentHistory(p, i)

\* Nobody has answered a proposal that has no commit.
Unanswered ==
  \A p \in Proposals : phase[p] = "none" => \A i \in Intents : status[p][i] = "pending"

HandshakeInv ==
  TypeOK /\ ReservationsMatchCommits /\ ReadyIsUnanimous /\ Unanswered /\ OutboxHistory
=============================================================================
