---------------------------- MODULE CommitProofs -----------------------------
(***************************************************************************)
(* Theorems about the commit handshake (CommitHandshake) and about its     *)
(* HTTP surface (CommitApi), for any proposals, intents, actors, partners  *)
(* and idempotency keys.  The surface implements the handshake, so that    *)
(* what the first part says of the handshake holds behind the API; the     *)
(* board and the recorded answers need an invariant of their own.          *)
(***************************************************************************)
EXTENDS CommitApi, TLAPS

USE CommitAssumption

-----------------------------------------------------------------------------
(* Event ids.                                                              *)

\* Ids of intent events are injective in type, cycle and intent, and differ
\* from those of cycle events.
LEMMA EventIdFacts ==
  ASSUME NEW p \in Proposals, NEW i \in Intents
  PROVE  /\ IntentEvent("intent.reserved", p, i) \in EventIds
         /\ IntentEvent("intent.unreserved", p, i) \in EventIds
         /\ \A c \in CycleTransitions : StateEvent(p, c) \in EventIds
         /\ {"proposed->accepted", "proposed->failed"} \subseteq CycleTransitions
  BY DEF EventIds, EventIdsOf, CycleTransitions, IntentEvent, StateEvent

\* Emit adds one to the events it is given and nothing to the others.
LEMMA EmitFacts ==
  ASSUME TypeOK, NEW E, outbox' = Emit(E)
  PROVE  /\ outbox' \in [EventIds -> Nat]
         /\ \A e \in EventIds : e \in E => outbox'[e] = outbox[e] + 1
         /\ \A e \in EventIds : e \notin E => outbox'[e] = outbox[e]
  <1>1. DOMAIN outbox = EventIds
    BY DEF TypeOK
  <1>2. outbox' = [e \in EventIds |-> outbox[e] + (IF e \in E THEN 1 ELSE 0)]
    BY <1>1 DEF Emit, Appended
  <1>3. \A e \in EventIds : outbox[e] \in Nat
    BY DEF TypeOK
  <1> QED BY <1>2, <1>3

-----------------------------------------------------------------------------
(* The invariant holds initially and every action preserves it.            *)

LEMMA InitHandshake == Init => HandshakeInv
  <1> SUFFICES ASSUME Init PROVE HandshakeInv
    OBVIOUS
  <1>1. TypeOK
    BY DEF Init, TypeOK, Phases, Statuses
  <1>2. ReservationsMatchCommits /\ ReadyIsUnanimous /\ Unanswered
    BY DEF Init, ReservationsMatchCommits, ReadyIsUnanimous, Unanswered, Live
  <1>3. OutboxHistory
    BY EventIdFacts DEF Init, OutboxHistory, CycleHistory, IntentHistory, Live
  <1> QED BY <1>1, <1>2, <1>3 DEF HandshakeInv

\* What an answer does to the table of statuses.
LEMMA AnswerFacts ==
  ASSUME TypeOK, NEW a \in Actors, NEW p \in Proposals, NEW s \in Statuses,
         status' = Answer(a, p, s)
  PROVE  /\ status' \in [Proposals -> [Intents -> Statuses]]
         /\ \A q \in Proposals : q # p => status'[q] = status[q]
         /\ \A i \in Intents :
              status'[p][i] = IF i \in OwnIntents(a, p) THEN s ELSE status[p][i]
  BY DEF TypeOK, Answer

LEMMA FirstAcceptPreserves ==
  ASSUME HandshakeInv, NEW a \in Actors, NEW p \in Proposals, FirstAccept(a, p)
  PROVE  HandshakeInv'
  <1> USE DEF HandshakeInv
  <1>1. /\ status' \in [Proposals -> [Intents -> Statuses]]
        /\ \A q \in Proposals : q # p => status'[q] = status[q]
        /\ \A i \in Intents :
             status'[p][i] = IF i \in OwnIntents(a, p) THEN "accepted" ELSE "pending"
    BY AnswerFacts DEF FirstAccept, Statuses, Unanswered
  <1>2. /\ phase' \in [Proposals -> Phases]
        /\ \A q \in Proposals : q # p => phase'[q] = phase[q]
        /\ phase'[p] = IF AcceptedBy(status', p) THEN "ready" ELSE "accept"
        /\ phase[p] = "none"
    BY DEF FirstAccept, TypeOK, Phases
  <1>3. /\ reservations' \in [Intents -> Proposals \cup {NoProposal}]
        /\ \A i \in Intents : reservations'[i] = IF i \in IntentsOf[p] THEN p ELSE reservations[i]
    BY DEF FirstAccept, ReserveIntents, TypeOK
  <1>4. \A i \in IntentsOf[p] : reservations[i] \in {NoProposal, p}
    BY DEF FirstAccept, Conflicts
  <1> DEFINE E == ReservedEvents(p) \cup
                 (IF BecomesReady(status', p) THEN {StateEvent(p, "proposed->accepted")} ELSE {})
  <1>5. outbox' = Emit(E)
    BY DEF FirstAccept
  <1> HIDE DEF E
  <1>6. TypeOK'
    BY <1>1, <1>2, <1>3, <1>5, EmitFacts DEF TypeOK, FirstAccept
  <1>7. ReservationsMatchCommits'
    BY <1>2, <1>3, <1>4 DEF ReservationsMatchCommits, Live
  <1>8. ReadyIsUnanimous'
    BY <1>1, <1>2 DEF ReadyIsUnanimous, Live, AcceptedBy
  <1>9. Unanswered'
    BY <1>1, <1>2 DEF Unanswered
  <1>10. OutboxHistory'
    <2>1. ASSUME NEW q \in Proposals
          PROVE  CycleHistory(q)'
      <3>1. \A c \in CycleTransitions \ {"proposed->accepted"} : StateEvent(q, c) \notin E
        BY DEF E, ReservedEvents, IntentEvent, StateEvent
      <3>2. StateEvent(q, "proposed->accepted") \in E => q = p /\ AcceptedBy(status', p)
        BY DEF E, ReservedEvents, IntentEvent, StateEvent, BecomesReady
      <3>3. CycleHistory(q)
        BY DEF OutboxHistory
      <3> QED BY <1>2, <1>5, <3>1, <3>2, <3>3, EmitFacts, EventIdFacts DEF CycleHistory, TypeOK
    <2>2. ASSUME NEW q \in Proposals, NEW i \in Intents
          PROVE  IntentHistory(q, i)'
      <3>1. /\ IntentEvent("intent.unreserved", q, i) \notin E
            /\ IntentEvent("intent.reserved", q, i) \in E <=> q = p /\ i \in IntentsOf[p]
        BY DEF E, ReservedEvents, IntentEvent, StateEvent
      <3>2. IntentHistory(q, i)
        BY DEF OutboxHistory
      <3> QED BY <1>2, <1>5, <3>1, <3>2, EmitFacts, EventIdFacts DEF IntentHistory, Live, TypeOK
    <2> QED BY <2>1, <2>2 DEF OutboxHistory
  <1> QED BY <1>6, <1>7, <1>8, <1>9, <1>10

LEMMA LaterAcceptPreserves ==
  ASSUME HandshakeInv, NEW a \in Actors, NEW p \in Proposals, LaterAccept(a, p)
  PROVE  HandshakeInv'
  <1> USE DEF HandshakeInv
  <1>1. /\ status' \in [Proposals -> [Intents -> Statuses]]
        /\ \A q \in Proposals : q # p => status'[q] = status[q]
        /\ \A i \in Intents :
             status'[p][i] = IF i \in OwnIntents(a, p) THEN "accepted" ELSE status[p][i]
    BY AnswerFacts DEF LaterAccept, Statuses
  <1>2. /\ phase' \in [Proposals -> Phases]
        /\ \A q \in Proposals : q # p => phase'[q] = phase[q]
        /\ phase'[p] = IF AcceptedBy(status', p) THEN "ready" ELSE phase[p]
        /\ phase[p] \in {"accept", "ready"}
    BY DEF LaterAccept, TypeOK, Phases, Live
  <1>3. UNCHANGED <<reservations, clock>>
    BY DEF LaterAccept
  <1> DEFINE E == IF BecomesReady(status', p) THEN {StateEvent(p, "proposed->accepted")} ELSE {}
  <1>4. outbox' = Emit(E)
    BY DEF LaterAccept
  <1> HIDE DEF E
  <1>5. TypeOK'
    BY <1>1, <1>2, <1>3, <1>4, EmitFacts DEF TypeOK
  <1>6. ReservationsMatchCommits'
    BY <1>2, <1>3 DEF ReservationsMatchCommits, Live
  <1>7. phase'[p] = "ready" <=> AcceptedBy(status', p)
    BY <1>1, <1>2 DEF ReadyIsUnanimous, Live, AcceptedBy
  <1>8. ReadyIsUnanimous'
    BY <1>1, <1>2, <1>7 DEF ReadyIsUnanimous, Live, AcceptedBy
  <1>9. Unanswered'
    BY <1>1, <1>2 DEF Unanswered
  <1>10. OutboxHistory'
    <2>1. ASSUME NEW q \in Proposals
          PROVE  CycleHistory(q)'
      <3>1. \A c \in CycleTransitions \ {"proposed->accepted"} : StateEvent(q, c) \notin E
        BY DEF E, StateEvent
      <3>2. StateEvent(q, "proposed->accepted") \in E
              <=> q = p /\ AcceptedBy(status', p) /\ phase[p] # "ready"
        BY DEF E, StateEvent, BecomesReady
      <3>3. CycleHistory(q)
        BY DEF OutboxHistory
      <3> QED BY <1>2, <1>4, <3>1, <3>2, <3>3, EmitFacts, EventIdFacts DEF CycleHistory, TypeOK
    <2>2. ASSUME NEW q \in Proposals, NEW i \in Intents
          PROVE  IntentHistory(q, i)'
      <3>1. /\ IntentEvent("intent.unreserved", q, i) \notin E
            /\ IntentEvent("intent.reserved", q, i) \notin E
        BY DEF E, IntentEvent, StateEvent
      <3>2. IntentHistory(q, i)
        BY DEF OutboxHistory
      <3> QED BY <1>2, <1>4, <3>1, <3>2, EmitFacts, EventIdFacts DEF IntentHistory, Live, TypeOK
    <2> QED BY <2>1, <2>2 DEF OutboxHistory
  <1> QED BY <1>5, <1>6, <1>8, <1>9, <1>10

LEMMA DeclineUnopenedPreserves ==
  ASSUME HandshakeInv, NEW a \in Actors, NEW p \in Proposals, DeclineUnopened(a, p)
  PROVE  HandshakeInv'
  <1> USE DEF HandshakeInv
  <1>1. /\ status' \in [Proposals -> [Intents -> Statuses]]
        /\ \A q \in Proposals : q # p => status'[q] = status[q]
    BY AnswerFacts DEF DeclineUnopened, Statuses
  <1>2. /\ phase' \in [Proposals -> Phases]
        /\ \A q \in Proposals : q # p => phase'[q] = phase[q]
        /\ phase[p] = "none" /\ phase'[p] = "cancelled"
    BY DEF DeclineUnopened, TypeOK, Phases
  <1>3. UNCHANGED <<reservations, outbox, clock>>
    BY DEF DeclineUnopened
  <1>4. TypeOK'
    BY <1>1, <1>2, <1>3 DEF TypeOK
  <1>5. ReservationsMatchCommits'
    BY <1>2, <1>3 DEF ReservationsMatchCommits, Live
  <1>6. ReadyIsUnanimous' /\ Unanswered'
    <2>1. ASSUME NEW q \in Proposals, q # p
          PROVE  phase'[q] = phase[q] /\ status'[q] = status[q]
      BY <1>1, <1>2, <2>1
    <2>2. phase'[p] = "cancelled"
      BY <1>2
    <2> QED BY <2>1, <2>2 DEF ReadyIsUnanimous, Unanswered, Live, AcceptedBy
  <1>7. OutboxHistory'
    BY <1>2, <1>3 DEF OutboxHistory, CycleHistory, IntentHistory, Live
  <1> QED BY <1>4, <1>5, <1>6, <1>7

(***************************************************************************)
(* A decline of an open commit and the sweep both cancel a set S of        *)
(* commits and give back what they hold.                                   *)
(***************************************************************************)
LEMMA CancelReservations ==
  ASSUME HandshakeInv, NEW S \in SUBSET Proposals, UnreserveIntents(S),
         phase' = [q \in Proposals |-> IF q \in S THEN "cancelled" ELSE phase[q]]
  PROVE  /\ reservations' \in [Intents -> Proposals \cup {NoProposal}]
         /\ ReservationsMatchCommits'
  <1> USE DEF HandshakeInv
  <1>1. reservations' \in [Intents -> Proposals \cup {NoProposal}]
    BY DEF UnreserveIntents, TypeOK
  <1>2. \A i \in Intents :
          reservations'[i] = IF \E q \in S : i \in HeldBy(q) THEN NoProposal ELSE reservations[i]
    BY DEF UnreserveIntents
  <1>3. ASSUME NEW i \in Intents, NEW q \in Proposals
        PROVE  reservations'[i] = q <=> Live(q)' /\ i \in IntentsOf[q]
    <2>1. Live(q)' <=> Live(q) /\ q \notin S
      BY DEF Live, TypeOK
    <2>2. reservations'[i] = q <=> reservations[i] = q /\ q \notin S
      BY <1>2 DEF HeldBy, ReservationsMatchCommits
    <2> QED BY <2>1, <2>2 DEF ReservationsMatchCommits
  <1> QED BY <1>1, <1>3 DEF ReservationsMatchCommits, Live

LEMMA CancelIntentHistory ==
  ASSUME HandshakeInv, NEW S \in SUBSET Proposals, NEW E,
         phase' = [q \in Proposals |-> IF q \in S THEN "cancelled" ELSE phase[q]],
         outbox' = Emit(E),
         NEW p \in Proposals, NEW i \in Intents,
         IntentEvent("intent.reserved", p, i) \notin E,
         IntentEvent("intent.unreserved", p, i) \in E <=> p \in S /\ i \in HeldBy(p),
         p \in S => phase[p] # "none"
  PROVE  IntentHistory(p, i)'
  <1> USE DEF HandshakeInv
  <1>1. IntentHistory(p, i)
    BY DEF OutboxHistory
  <1>2. i \in HeldBy(p) <=> i \in IntentsOf[p] /\ Live(p)
    BY DEF HeldBy, ReservationsMatchCommits
  <1> QED
    BY <1>1, <1>2, EmitFacts, EventIdFacts DEF IntentHistory, Live, TypeOK, Phases

LEMMA DeclineCommitPreserves ==
  ASSUME HandshakeInv, NEW a \in Actors, NEW p \in Proposals, DeclineCommit(a, p)
  PROVE  HandshakeInv'
  <1> USE DEF HandshakeInv
  <1>1. /\ status' \in [Proposals -> [Intents -> Statuses]]
        /\ \A q \in Proposals : q # p => status'[q] = status[q]
    BY AnswerFacts DEF DeclineCommit, Statuses
  <1>2. /\ phase' = [q \in Proposals |-> IF q \in {p} THEN "cancelled" ELSE phase[q]]
        /\ phase[p] # "none"
    BY DEF DeclineCommit, TypeOK
  <1>3. /\ reservations' \in [Intents -> Proposals \cup {NoProposal}]
        /\ ReservationsMatchCommits'
    BY <1>2, CancelReservations DEF DeclineCommit
  <1>4. outbox' = Emit(UnreservedEvents(p))
    BY DEF DeclineCommit
  <1>5. TypeOK'
    BY <1>1, <1>2, <1>3, <1>4, EmitFacts DEF TypeOK, DeclineCommit, Phases
  <1>6. ReadyIsUnanimous' /\ Unanswered'
    <2>1. ASSUME NEW q \in Proposals, Live(q)'
          PROVE  q \in Proposals /\ Live(q) /\ phase'[q] = phase[q] /\ status'[q] = status[q]
      BY <2>1, <1>1, <1>2 DEF Live, TypeOK
    <2>2. ReadyIsUnanimous'
      BY <2>1 DEF ReadyIsUnanimous, AcceptedBy
    <2>3. ASSUME NEW q \in Proposals, phase'[q] = "none"
          PROVE  phase[q] = "none" /\ status'[q] = status[q]
      BY <2>3, <1>1, <1>2 DEF TypeOK
    <2>4. Unanswered'
      BY <2>3 DEF Unanswered
    <2> QED BY <2>2, <2>4
  <1>7. OutboxHistory'
    <2>1. ASSUME NEW q \in Proposals
          PROVE  CycleHistory(q)'
      <3>1. \A c \in CycleTransitions : StateEvent(q, c) \notin UnreservedEvents(p)
        BY DEF UnreservedEvents, IntentEvent, StateEvent
      <3>2. CycleHistory(q)
        BY DEF OutboxHistory
      <3> QED BY <1>2, <1>4, <3>1, <3>2, EmitFacts, EventIdFacts DEF CycleHistory
    <2>2. ASSUME NEW q \in Proposals, NEW i \in Intents
          PROVE  IntentHistory(q, i)'
      <3>1. /\ IntentEvent("intent.reserved", q, i) \notin UnreservedEvents(p)
            /\ IntentEvent("intent.unreserved", q, i) \in UnreservedEvents(p)
                 <=> q \in {p} /\ i \in HeldBy(q)
        BY DEF UnreservedEvents, IntentEvent
      <3> QED BY {p} \in SUBSET Proposals, <1>2, <1>4, <3>1, CancelIntentHistory
    <2> QED BY <2>1, <2>2 DEF OutboxHistory
  <1> QED BY <1>3, <1>5, <1>6, <1>7

LEMMA SweepPreserves ==
  ASSUME HandshakeInv, NEW S \in SUBSET Proposals, ExpireAcceptPhase(S)
  PROVE  HandshakeInv'
  <1> USE DEF HandshakeInv
  <1> DEFINE D == Due(S)
             E == (UNION {UnreservedEvents(p) : p \in D})
                    \cup {StateEvent(p, "proposed->failed") : p \in D}
  <1>1. D \in SUBSET Proposals /\ \A q \in D : phase[q] = "accept"
    BY DEF Due
  <1>2. /\ phase' = [q \in Proposals |-> IF q \in D THEN "cancelled" ELSE phase[q]]
        /\ UnreserveIntents(D)
        /\ outbox' = Emit(E)
        /\ UNCHANGED <<status, clock>>
    BY DEF ExpireAcceptPhase
  <1>3. ASSUME NEW q \in Proposals, NEW i \in Intents
        PROVE  /\ IntentEvent("intent.reserved", q, i) \notin E
               /\ IntentEvent("intent.unreserved", q, i) \in E <=> q \in D /\ i \in HeldBy(q)
               /\ \A c \in CycleTransitions \ {"proposed->failed"} : StateEvent(q, c) \notin E
               /\ StateEvent(q, "proposed->failed") \in E <=> q \in D
    <2>1. \A e : e \in E <=> \/ \E p \in D : \E j \in HeldBy(p) :
                                  e = IntentEvent("intent.unreserved", p, j)
                            \/ \E p \in D : e = StateEvent(p, "proposed->failed")
      BY DEF UnreservedEvents
    <2> HIDE DEF E
    <2> QED BY <2>1 DEF IntentEvent, StateEvent
  <1> HIDE DEF D, E
  <1>4. /\ reservations' \in [Intents -> Proposals \cup {NoProposal}]
        /\ ReservationsMatchCommits'
    BY <1>1, <1>2, CancelReservations
  <1>5. TypeOK'
    BY <1>1, <1>2, <1>4, EmitFacts DEF TypeOK, Phases
  <1>6. ReadyIsUnanimous' /\ Unanswered'
    <2>1. ASSUME NEW q \in Proposals, Live(q)'
          PROVE  q \in Proposals /\ Live(q) /\ phase'[q] = phase[q] /\ status'[q] = status[q]
      BY <2>1, <1>1, <1>2 DEF Live, TypeOK
    <2>2. ReadyIsUnanimous'
      BY <2>1 DEF ReadyIsUnanimous, AcceptedBy
    <2>3. ASSUME NEW q \in Proposals, phase'[q] = "none"
          PROVE  phase[q] = "none" /\ status'[q] = status[q]
      BY <2>3, <1>1, <1>2 DEF TypeOK
    <2>4. Unanswered'
      BY <2>3 DEF Unanswered
    <2> QED BY <2>2, <2>4
  <1>7. OutboxHistory'
    <2>1. ASSUME NEW q \in Proposals
          PROVE  CycleHistory(q)'
      <3>1. PICK i \in Intents : TRUE
        OBVIOUS
      <3>2. /\ \A c \in CycleTransitions \ {"proposed->failed"} : StateEvent(q, c) \notin E
            /\ StateEvent(q, "proposed->failed") \in E <=> q \in D
        BY <1>3, <3>1
      <3>3. CycleHistory(q)
        BY DEF OutboxHistory
      <3> QED
        BY <1>1, <1>2, <3>1, <3>2, <3>3, EmitFacts, EventIdFacts DEF CycleHistory, TypeOK
    <2>2. ASSUME NEW q \in Proposals, NEW i \in Intents
          PROVE  IntentHistory(q, i)'
      BY <1>1, <1>2, <1>3, CancelIntentHistory
    <2> QED BY <2>1, <2>2 DEF OutboxHistory
  <1> QED BY <1>4, <1>5, <1>6, <1>7

LEMMA NextHandshake == HandshakeInv /\ [Next]_vars => HandshakeInv'
  <1> SUFFICES ASSUME HandshakeInv, [Next]_vars
               PROVE  HandshakeInv'
    OBVIOUS
  <1>1. ASSUME NEW a \in Actors, NEW p \in Proposals, Accept(a, p)
        PROVE  HandshakeInv'
    BY <1>1, FirstAcceptPreserves, LaterAcceptPreserves DEF Accept
  <1>2. ASSUME NEW a \in Actors, NEW p \in Proposals, Decline(a, p)
        PROVE  HandshakeInv'
    BY <1>2, DeclineUnopenedPreserves, DeclineCommitPreserves DEF Decline
  <1>3. ASSUME NEW S \in SUBSET Proposals, ExpireAcceptPhase(S)
        PROVE  HandshakeInv'
    BY <1>3, SweepPreserves
  <1>4. CASE Tick
    BY <1>4 DEF Tick, HandshakeInv, TypeOK, ReservationsMatchCommits, ReadyIsUnanimous,
                Unanswered, OutboxHistory, CycleHistory, IntentHistory, Live, AcceptedBy
  <1>5. CASE UNCHANGED vars
    BY <1>5 DEF vars, HandshakeInv, TypeOK, ReservationsMatchCommits, ReadyIsUnanimous,
                Unanswered, OutboxHistory, CycleHistory, IntentHistory, Live, AcceptedBy
  <1> QED BY <1>1, <1>2, <1>3, <1>4, <1>5 DEF Next

\* Every reachable state satisfies the inductive invariant of the handshake.
THEOREM HandshakeCorrect == Spec => []HandshakeInv
  BY InitHandshake, NextHandshake, PTL DEF Spec

\* The commit, reservation and outbox tables always have their types.
THEOREM HandshakeTypes == Spec => []TypeOK
  <1>1. HandshakeInv => TypeOK
    BY DEF HandshakeInv
  <1> QED BY <1>1, HandshakeCorrect, PTL

\* For any proposals, however they overlap, the reservation table holds exactly
\* the intents of the commits being accepted or ready.
THEOREM ReservationsAreCommits == Spec => []ReservationsMatchCommits
  <1>1. HandshakeInv => ReservationsMatchCommits
    BY DEF HandshakeInv
  <1> QED BY <1>1, HandshakeCorrect, PTL

\* A live commit is ready exactly when all its participants have accepted.
THEOREM ReadyMeansUnanimous == Spec => []ReadyIsUnanimous
  <1>1. HandshakeInv => ReadyIsUnanimous
    BY DEF HandshakeInv
  <1> QED BY <1>1, HandshakeCorrect, PTL

\* The reserved and unreserved events in the outbox add up to the lock table.
THEOREM OutboxReplay == Spec => []OutboxRebuildsReservations
  <1>1. ASSUME HandshakeInv, NEW i \in Intents, NEW p \in Proposals
        PROVE  outbox[IntentEvent("intent.reserved", p, i)]
                 = outbox[IntentEvent("intent.unreserved", p, i)]
                     + (IF reservations[i] = p THEN 1 ELSE 0)
    <2>1. reservations[i] = p <=> Live(p) /\ i \in IntentsOf[p]
      BY <1>1 DEF HandshakeInv, ReservationsMatchCommits
    <2>2. /\ outbox[IntentEvent("intent.reserved", p, i)] \in Nat
          /\ outbox[IntentEvent("intent.unreserved", p, i)] \in Nat
      BY <1>1, EventIdFacts DEF HandshakeInv, TypeOK
    <2>3. IntentHistory(p, i) /\ phase[p] \in Phases
      BY <1>1 DEF HandshakeInv, OutboxHistory, TypeOK
    <2> QED BY <2>1, <2>2, <2>3 DEF IntentHistory, Live, Phases
  <1>2. HandshakeInv => OutboxRebuildsReservations
    BY <1>1 DEF OutboxRebuildsReservations
  <1> QED BY <1>2, HandshakeCorrect, PTL

\* The handshake alone never emits two events under one id.
THEOREM UniqueEventIds == Spec => []EventIdsAreUnique
  <1>1. ASSUME HandshakeInv, NEW e \in EventIds
        PROVE  outbox[e] <= 1
    <2>1. CASE \E p \in Proposals, i \in Intents :
                 \/ e = IntentEvent("intent.reserved", p, i)
                 \/ e = IntentEvent("intent.unreserved", p, i)
      <3>1. PICK p \in Proposals, i \in Intents :
                 \/ e = IntentEvent("intent.reserved", p, i)
                 \/ e = IntentEvent("intent.unreserved", p, i)
        BY <2>1
      <3>2. IntentHistory(p, i) /\ phase[p] \in Phases
        BY <1>1 DEF HandshakeInv, OutboxHistory, TypeOK
      <3>3. outbox[IntentEvent("intent.reserved", p, i)] <= 1
        BY <3>2 DEF IntentHistory, Live, Phases
      <3>4. outbox[IntentEvent("intent.unreserved", p, i)] <= 1
        BY <3>2 DEF IntentHistory, Live, Phases
      <3> QED BY <3>1, <3>3, <3>4
    <2>2. CASE \E p \in Proposals :
                 \/ e = StateEvent(p, "proposed->accepted")
                 \/ e = StateEvent(p, "proposed->failed")
      BY <1>1, <2>2 DEF HandshakeInv, OutboxHistory, CycleHistory
    <2>3. CASE \E p \in Proposals, c \in CycleTransitions : e = StateEvent(p, c)
      <3>1. PICK p \in Proposals, c \in CycleTransitions : e = StateEvent(p, c)
        BY <2>3
      <3> QED BY <1>1, <2>2, <3>1 DEF HandshakeInv, OutboxHistory, CycleHistory
    <2> QED BY <2>1, <2>3 DEF EventIds, EventIdsOf, IntentEvent, StateEvent
  <1>2. HandshakeInv => EventIdsAreUnique
    BY <1>1 DEF EventIdsAreUnique
  <1> QED BY <1>2, HandshakeCorrect, PTL

-----------------------------------------------------------------------------
(* Action properties.                                                      *)

\* Cancelled is final, ready ends only by a participant's decline, and an
\* acceptance is undone only together with the whole commit.
THEOREM PhasesAdvance == Spec => PhasesOnlyAdvance
  <1> DEFINE A == \A p \in Proposals :
                    /\ phase[p] = "cancelled" => phase'[p] = "cancelled"
                    /\ phase[p] = "ready" =>
                         \/ phase'[p] = "ready"
                         \/ \E i \in IntentsOf[p] : status'[p][i] = "declined"
                    /\ \A i \in IntentsOf[p] :
                         status[p][i] = "accepted" /\ status'[p][i] # "accepted"
                           => phase'[p] = "cancelled"
  <1>1. HandshakeInv /\ [Next]_vars => A
    <2> SUFFICES ASSUME HandshakeInv, Next PROVE A
      BY DEF vars
    <2> USE DEF HandshakeInv
    <2>1. ASSUME NEW a \in Actors, NEW q \in Proposals, FirstAccept(a, q)
          PROVE  A
      <3>1. /\ \A p \in Proposals : p # q => status'[p] = status[p] /\ phase'[p] = phase[p]
            /\ phase[q] = "none"
        BY <2>1, AnswerFacts DEF FirstAccept, Statuses, TypeOK
      <3>2. \A i \in Intents : status[q][i] = "pending"
        BY <3>1 DEF Unanswered
      <3> QED BY <3>1, <3>2
    <2>2. ASSUME NEW a \in Actors, NEW q \in Proposals, LaterAccept(a, q)
          PROVE  A
      <3>1. /\ \A p \in Proposals : p # q => status'[p] = status[p] /\ phase'[p] = phase[p]
            /\ \A i \in Intents :
                 status'[q][i] = IF i \in OwnIntents(a, q) THEN "accepted" ELSE status[q][i]
            /\ phase'[q] = IF AcceptedBy(status', q) THEN "ready" ELSE phase[q]
            /\ phase[q] \in {"accept", "ready"}
        BY <2>2, AnswerFacts DEF LaterAccept, Statuses, TypeOK, Live
      <3> QED BY <3>1
    <2>3. ASSUME NEW a \in Actors, NEW q \in Proposals, Decline(a, q)
          PROVE  A
      <3>1. /\ \A p \in Proposals : p # q => status'[p] = status[p] /\ phase'[p] = phase[p]
            /\ \A i \in Intents :
                 status'[q][i] = IF i \in OwnIntents(a, q) THEN "declined" ELSE status[q][i]
            /\ phase'[q] = "cancelled"
            /\ phase[q] = "none" \/ IsParticipant(a, q)
        BY <2>3, AnswerFacts DEF Decline, DeclineUnopened, DeclineCommit, Statuses, TypeOK
      <3>2. phase[q] = "ready" => \E i \in IntentsOf[q] : status'[q][i] = "declined"
        BY <3>1 DEF IsParticipant, OwnIntents
      <3> QED BY <3>1, <3>2
    <2>4. ASSUME NEW S \in SUBSET Proposals, ExpireAcceptPhase(S)
          PROVE  A
      BY <2>4 DEF ExpireAcceptPhase, Due
    <2>5. CASE Tick
      BY <2>5 DEF Tick
    <2> QED BY <2>1, <2>2, <2>3, <2>4, <2>5 DEF Next, Accept
  <1>2. HandshakeInv /\ [Next]_vars => [A]_vars
    BY <1>1
  <1>3. Spec => [][A]_vars
    BY <1>2, HandshakeCorrect, PTL DEF Spec
  <1> QED BY <1>3 DEF PhasesOnlyAdvance

-----------------------------------------------------------------------------
(* Refinement.                                                             *)

LEMMA HandshakeStepImplements ==
  ASSUME HandshakeInv, HandshakeInv', [Next]_vars
  PROVE  [Ledger!Next]_(Ledger!ledger)
  <1> USE DEF HandshakeInv
  <1> DEFINE L == [p \in Proposals |-> LockOf(p)]
  <1>1. ASSUME NEW a \in Actors, NEW q \in Proposals, FirstAccept(a, q)
        PROVE  Ledger!Acquire(q)
    <2>1. /\ phase[q] = "none"
          /\ phase' = [phase EXCEPT ![q] = IF AcceptedBy(status', q) THEN "ready" ELSE "accept"]
          /\ reservations' = [i \in Intents |-> IF i \in IntentsOf[q] THEN q ELSE reservations[i]]
      BY <1>1 DEF FirstAccept, ReserveIntents
    <2>2. \A i \in IntentsOf[q] : reservations[i] = NoProposal
      BY <1>1, <2>1 DEF FirstAccept, Conflicts, ReservationsMatchCommits, Live
    <2>3. L' = [L EXCEPT ![q] = "held"]
      BY <2>1 DEF LockOf, Live, TypeOK
    <2> QED BY <2>1, <2>2, <2>3 DEF Ledger!Acquire, Ledger!FreeFor, LockOf
  <1>2. ASSUME NEW a \in Actors, NEW q \in Proposals, LaterAccept(a, q)
        PROVE  UNCHANGED <<reservations, L>>
    <2>1. /\ phase[q] \in {"accept", "ready"}
          /\ phase' = [phase EXCEPT ![q] = IF AcceptedBy(status', q) THEN "ready" ELSE phase[q]]
          /\ reservations' = reservations
      BY <1>2 DEF LaterAccept, Live
    <2>2. L' = L
      BY <2>1 DEF LockOf, Live, TypeOK
    <2> QED BY <2>1, <2>2
  <1>3. ASSUME NEW S \in SUBSET Proposals,
               \A q \in S : phase[q] # "none",
               phase' = [q \in Proposals |-> IF q \in S THEN "cancelled" ELSE phase[q]],
               UnreserveIntents(S)
        PROVE  \/ UNCHANGED <<reservations, L>>
               \/ \E T \in SUBSET Proposals : Ledger!Release(T)
    <2> DEFINE T == {q \in S : Live(q)}
    <2>1. reservations' = [i \in Intents |-> IF reservations[i] \in T THEN NoProposal
                                             ELSE reservations[i]]
      <3>1. \A i \in Intents : (\E q \in S : i \in HeldBy(q)) <=> reservations[i] \in T
        BY DEF HeldBy, ReservationsMatchCommits
      <3> QED BY <1>3, <3>1 DEF UnreserveIntents
    <2>2. L' = [q \in Proposals |-> IF q \in T THEN "done" ELSE L[q]]
      BY <1>3 DEF LockOf, Live, TypeOK, Phases
    <2>3. CASE T = {}
      <3>1. reservations' = reservations
        BY <2>1, <2>3 DEF TypeOK
      <3>2. L' = L
        BY <2>2, <2>3
      <3> QED BY <3>1, <3>2
    <2>4. CASE T # {}
      <3>1. \A q \in T : L[q] = "held"
        BY DEF LockOf, Live
      <3> QED BY <2>1, <2>2, <2>4, <3>1 DEF Ledger!Release
    <2> QED BY <2>3, <2>4
  <1>4. ASSUME NEW a \in Actors, NEW q \in Proposals, DeclineUnopened(a, q)
        PROVE  Ledger!Abandon(q)
    <2>1. /\ phase[q] = "none" /\ phase' = [phase EXCEPT ![q] = "cancelled"]
          /\ reservations' = reservations
      BY <1>4 DEF DeclineUnopened
    <2>2. L' = [L EXCEPT ![q] = "done"]
      BY <2>1 DEF LockOf, Live, TypeOK
    <2> QED BY <2>1, <2>2 DEF Ledger!Abandon, LockOf
  <1>5. ASSUME NEW a \in Actors, NEW q \in Proposals, DeclineCommit(a, q)
        PROVE  [Ledger!Next]_(Ledger!ledger)
    <2>1. /\ \A r \in {q} : phase[r] # "none"
          /\ phase' = [r \in Proposals |-> IF r \in {q} THEN "cancelled" ELSE phase[r]]
          /\ UnreserveIntents({q})
      BY <1>5 DEF DeclineCommit, TypeOK
    <2>2. {q} \in SUBSET Proposals
      OBVIOUS
    <2> QED BY <1>3, <2>1, <2>2 DEF Ledger!Next, Ledger!ledger
  <1>6. ASSUME NEW S \in SUBSET Proposals, ExpireAcceptPhase(S)
        PROVE  [Ledger!Next]_(Ledger!ledger)
    <2>1. /\ \A r \in Due(S) : phase[r] # "none"
          /\ phase' = [r \in Proposals |-> IF r \in Due(S) THEN "cancelled" ELSE phase[r]]
          /\ UnreserveIntents(Due(S))
          /\ Due(S) \in SUBSET Proposals
      BY <1>6 DEF ExpireAcceptPhase, Due
    <2> QED BY <1>3, <2>1 DEF Ledger!Next, Ledger!ledger
  <1>7. CASE Tick \/ UNCHANGED vars
    BY <1>7 DEF Tick, vars, Ledger!ledger, LockOf, Live
  <1> QED
    BY <1>1, <1>2, <1>4, <1>5, <1>6, <1>7
       DEF Next, Accept, Decline, Ledger!Next, Ledger!ledger

\* The handshake implements the reservation ledger, for any proposals.
THEOREM HandshakeImplementsLedger == Spec => ImplementsLedger
  <1>1. Init => Ledger!Init
    BY DEF Init, Ledger!Init, LockOf
  <1>2. HandshakeInv /\ HandshakeInv' /\ [Next]_vars => [Ledger!Next]_(Ledger!ledger)
    BY HandshakeStepImplements
  <1> QED
    BY <1>1, <1>2, HandshakeCorrect, PTL DEF Spec, ImplementsLedger, Ledger!Spec

-----------------------------------------------------------------------------
(* The HTTP surface and the proposal board.                                *)

USE CommitApiAssumption

-----------------------------------------------------------------------------
(* Behind the API a request is a step of the handshake or none at all.     *)

\* A request that is not refused moves one proposal, the one on its path.
LEMMA PerformFacts ==
  ASSUME TypeOK, NEW s \in ScopeKeys, NEW p \in Proposals, Perform(s.op, s.actor, p)
  PROVE  /\ Next
         /\ phase' \in [Proposals -> Phases]
         /\ \A q \in Proposals : q # p => phase'[q] = phase[q]
  <1>1. s.actor \in Actors /\ s.op \in {"accept", "decline"}
    OBVIOUS
  <1>2. Next
    BY <1>1 DEF Perform, Next
  <1>3. /\ phase' \in [Proposals -> Phases]
        /\ \A q \in Proposals : q # p => phase'[q] = phase[q]
    BY <1>1 DEF Perform, Accept, FirstAccept, LaterAccept, Decline, DeclineUnopened, DeclineCommit,
                TypeOK, Phases
  <1> QED BY <1>2, <1>3

LEMMA HandlePerforms ==
  ASSUME TypeOK, [ApiNext]_apiVars
  PROVE  [Next]_vars
  <1>1. CASE \E s \in ScopeKeys, p, b \in Proposals : Handle(s, p, b)
    <2>1. PICK s \in ScopeKeys, p \in Proposals, b \in Proposals : Handle(s, p, b)
      BY <1>1
    <2> QED BY <2>1, PerformFacts DEF Handle
  <1>2. CASE UNCHANGED vars
    BY <1>2
  <1> QED BY <1>1, <1>2 DEF ApiNext, apiVars, RunMatching, Ingest, Replay, NotFound

LEMMA ApiHandshake ==
  ASSUME HandshakeInv, [ApiNext]_apiVars
  PROVE  HandshakeInv'
  BY HandlePerforms, NextHandshake DEF HandshakeInv

-----------------------------------------------------------------------------
(* Results.                                                                *)

\* Every result is well formed, and only an absent proposal is NOT_FOUND.
LEMMA ResultFacts ==
  /\ \A ph \in Phases : Ok(ph) \in Result /\ Ok(ph).code # "NOT_FOUND"
  /\ Error("NOT_FOUND") \in Result /\ Error("NOT_FOUND").code = "NOT_FOUND"
  /\ \A op, a, p, b : Refusal(op, a, p, b) # "none" =>
       /\ Error(Refusal(op, a, p, b)) \in Result
       /\ Error(Refusal(op, a, p, b)).code # "NOT_FOUND"
  <1>1. \A op, a, p, b :
          Refusal(op, a, p, b) \in {"none", "CONSTRAINT_VIOLATION", "FORBIDDEN",
                                    "RESERVATION_CONFLICT", "CONFLICT"}
    BY DEF Refusal
  <1> QED BY <1>1 DEF Ok, Error, Result, Phases

\* What Handle records and tells.
LEMMA HandleFacts ==
  ASSUME TypeOK, NEW s \in ScopeKeys, NEW p \in Proposals, NEW b \in Proposals, Handle(s, p, b)
  PROVE  /\ p \in proposals /\ idempotency[s] = NoRecord /\ UNCHANGED boardVars
         /\ \A q \in Proposals : q # p => phase'[q] = phase[q]
         /\ \E r \in Result : r.code # "NOT_FOUND" /\ Remember(s, b, r) /\ Tell(s, b, r)
  <1>1. CASE Refusal(s.op, s.actor, p, b) = "none"
    <2>1. /\ Perform(s.op, s.actor, p)
          /\ Remember(s, b, Ok(phase'[p])) /\ Tell(s, b, Ok(phase'[p]))
      BY <1>1 DEF Handle
    <2>2. phase'[p] \in Phases /\ \A q \in Proposals : q # p => phase'[q] = phase[q]
      BY <2>1, PerformFacts
    <2> QED BY <2>1, <2>2, ResultFacts DEF Handle
  <1>2. CASE Refusal(s.op, s.actor, p, b) # "none"
    <2> DEFINE r == Error(Refusal(s.op, s.actor, p, b))
    <2>1. UNCHANGED vars /\ Remember(s, b, r) /\ Tell(s, b, r)
      BY <1>2 DEF Handle
    <2>2. r \in Result /\ r.code # "NOT_FOUND"
      BY <1>2, ResultFacts
    <2> HIDE DEF r
    <2> QED BY <2>1, <2>2 DEF Handle, vars
  <1> QED BY <1>1, <1>2

-----------------------------------------------------------------------------
(* The board.                                                              *)

BoardOk == ApiTypes /\ CommitKeepsProposal /\ BoardConsistent

\* A matching run drops no proposal in use and takes over none that has a
\* partner.
LEMMA RunKeepsBoard ==
  ASSUME BoardOk, NEW replace \in BOOLEAN, NEW expired \in SUBSET tracked,
         NEW selected \in SUBSET Proposals, RunMatching(replace, expired, selected)
  PROVE  BoardOk'
  <1> USE DEF BoardOk
  <1> DEFINE dropped == {p \in tracked : (replace \/ p \in expired) /\ ~InUse(p)}
  <1>1. /\ proposals' = (proposals \ dropped) \cup selected
        /\ tracked' = (tracked \ dropped) \cup selected
        /\ scope' = [p \in Proposals |->
                       LET kept == IF p \in dropped THEN NoPartner ELSE scope[p]
                       IN  IF p \in selected /\ kept = NoPartner THEN Marketplace ELSE kept]
        /\ UNCHANGED <<phase, idempotency, answers>>
    BY DEF RunMatching, vars
  <1>2. dropped \subseteq tracked /\ \A p \in dropped : phase[p] = "none"
    BY DEF InUse
  <1> HIDE DEF dropped
  <1>3. ApiTypes'
    BY <1>1, <1>2 DEF ApiTypes
  <1>4. tracked' \subseteq proposals'
    BY <1>1 DEF BoardConsistent
  <1>5. ASSUME NEW p \in Proposals
        PROVE  p \in proposals' <=> scope'[p] # NoPartner
    <2>1. p \in proposals <=> scope[p] # NoPartner
      BY DEF BoardConsistent
    <2>2. p \in dropped => p \in proposals
      BY <1>2 DEF BoardConsistent
    <2>3. scope'[p] = LET kept == IF p \in dropped THEN NoPartner ELSE scope[p]
                      IN  IF p \in selected /\ kept = NoPartner THEN Marketplace ELSE kept
      BY <1>1
    <2>4. NoPartner # Marketplace
      OBVIOUS
    <2> QED BY <1>1, <2>1, <2>2, <2>3, <2>4
  <1>6. ASSUME NEW p \in Proposals, phase'[p] # "none"
        PROVE  p \in proposals' /\ scope'[p] # NoPartner
    <2>1. p \in proposals /\ p \notin dropped
      BY <1>1, <1>2, <1>6 DEF CommitKeepsProposal
    <2> QED BY <1>1, <1>5, <2>1
  <1> QED BY <1>3, <1>4, <1>5, <1>6 DEF BoardConsistent, CommitKeepsProposal

LEMMA IngestKeepsBoard ==
  ASSUME BoardOk, NEW s \in Partners, NEW p \in Proposals, Ingest(s, p)
  PROVE  BoardOk'
  <1> USE DEF BoardOk
  <1>1. /\ proposals' = proposals \cup {p}
        /\ \A q \in Proposals : scope'[q] = IF q = p THEN s ELSE scope[q]
        /\ scope' \in [Proposals -> Partners \cup {Marketplace, NoPartner}]
        /\ UNCHANGED <<phase, tracked, idempotency, answers>>
        /\ s # NoPartner
    BY DEF Ingest, vars, ApiTypes
  <1>2. ApiTypes'
    BY <1>1 DEF ApiTypes
  <1>3. BoardConsistent'
    BY <1>1 DEF BoardConsistent
  <1>4. CommitKeepsProposal'
    BY <1>1 DEF CommitKeepsProposal
  <1> QED BY <1>2, <1>3, <1>4

\* A request is answered only for a proposal on the board, and it gives a
\* commit to no other.
LEMMA HandleKeepsBoard ==
  ASSUME TypeOK, BoardOk, NEW s \in ScopeKeys, NEW p \in Proposals, NEW b \in Proposals,
         Handle(s, p, b)
  PROVE  BoardOk'
  <1> USE DEF BoardOk
  <1>1. /\ p \in proposals
        /\ UNCHANGED <<proposals, tracked, scope>>
        /\ \A q \in Proposals : q # p => phase'[q] = phase[q]
    BY HandleFacts DEF boardVars
  <1>2. PICK r \in Result : Remember(s, b, r) /\ Tell(s, b, r)
    BY HandleFacts
  <1>3. [body |-> b, result |-> r] \in Reply
    BY DEF Reply
  <1>4. ApiTypes'
    BY <1>1, <1>2, <1>3 DEF ApiTypes, Remember, Tell
  <1>5. BoardConsistent'
    BY <1>1 DEF BoardConsistent
  <1>6. CommitKeepsProposal'
    BY <1>1 DEF CommitKeepsProposal, BoardConsistent
  <1> QED BY <1>4, <1>5, <1>6

\* An answer that is only told, not handled.
LEMMA TellKeepsBoard ==
  ASSUME BoardOk, NEW s \in ScopeKeys, NEW b \in Proposals, NEW r \in Result, Tell(s, b, r),
         UNCHANGED <<phase, boardVars, idempotency>>
  PROVE  BoardOk'
  <1> USE DEF BoardOk, boardVars
  <1>1. [body |-> b, result |-> r] \in Reply
    BY DEF Reply
  <1>2. ApiTypes'
    BY <1>1 DEF ApiTypes, Tell
  <1>3. BoardConsistent' /\ CommitKeepsProposal'
    BY DEF BoardConsistent, CommitKeepsProposal
  <1> QED BY <1>2, <1>3

-----------------------------------------------------------------------------
(* Answers.                                                                *)

\* A new key: nothing but NOT_FOUND has been told under it.
LEMMA HandleKeepsAnswers ==
  ASSUME TypeOK, ApiTypes, AnswersOnRecord,
         NEW s \in ScopeKeys, NEW p \in Proposals, NEW b \in Proposals, Handle(s, p, b)
  PROVE  AnswersOnRecord'
  <1>1. PICK r \in Result : Remember(s, b, r) /\ Tell(s, b, r)
    BY HandleFacts
  <1> DEFINE x == [body |-> b, result |-> r]
  <1>2. /\ idempotency' = [idempotency EXCEPT ![s] = x]
        /\ answers' = [answers EXCEPT ![s] = answers[s] \cup {x}]
    BY <1>1 DEF Remember, Tell
  <1>3. ASSUME NEW t \in ScopeKeys, NEW y \in answers'[t], y.result.code # "NOT_FOUND"
        PROVE  idempotency'[t] = y
    <2>1. CASE t # s
      <3>1. y \in answers[t] /\ idempotency'[t] = idempotency[t]
        BY <1>2, <2>1 DEF ApiTypes
      <3> QED BY <1>3, <3>1 DEF AnswersOnRecord
    <2>2. CASE t = s
      <3>1. idempotency[s] = NoRecord
        BY HandleFacts
      <3>2. \A z \in answers[s] : z \in Reply
        BY DEF ApiTypes
      <3>3. y \notin answers[s]
        BY <1>3, <2>2, <3>1, <3>2 DEF AnswersOnRecord
      <3>4. y = x
        BY <1>2, <2>2, <3>3 DEF ApiTypes
      <3> QED BY <1>2, <2>2, <3>4 DEF ApiTypes
    <2> QED BY <2>1, <2>2
  <1> QED BY <1>3 DEF AnswersOnRecord

\* A known key tells what it has on record; an absent proposal is NOT_FOUND.
LEMMA TellKeepsAnswers ==
  ASSUME ApiTypes, AnswersOnRecord, NEW s \in ScopeKeys, NEW b \in Proposals, NEW r \in Result,
         Tell(s, b, r), UNCHANGED idempotency,
         r.code = "NOT_FOUND" \/ idempotency[s] = [body |-> b, result |-> r]
  PROVE  AnswersOnRecord'
  <1> DEFINE x == [body |-> b, result |-> r]
  <1>1. answers' = [answers EXCEPT ![s] = answers[s] \cup {x}]
    BY DEF Tell
  <1>2. ASSUME NEW t \in ScopeKeys, NEW y \in answers'[t], y.result.code # "NOT_FOUND"
        PROVE  idempotency'[t] = y
    <2>1. CASE y \in answers[t]
      BY <1>2, <2>1 DEF AnswersOnRecord
    <2>2. CASE y \notin answers[t]
      <3>1. t = s /\ y = x
        BY <1>1, <2>2 DEF ApiTypes
      <3> QED BY <1>2, <3>1
    <2> QED BY <2>1, <2>2
  <1> QED BY <1>2 DEF AnswersOnRecord

-----------------------------------------------------------------------------
(* The theorems.                                                           *)

LEMMA InitApi == ApiInit => ApiInv
  <1> SUFFICES ASSUME ApiInit
               PROVE  ApiInv
    OBVIOUS
  <1>1. HandshakeInv
    BY InitHandshake DEF ApiInit
  <1>2. ApiTypes /\ AnswersOnRecord
    BY DEF ApiInit, ApiTypes, AnswersOnRecord
  <1>3. CommitKeepsProposal /\ BoardConsistent
    BY DEF ApiInit, Init, CommitKeepsProposal, BoardConsistent
  <1> QED BY <1>1, <1>2, <1>3 DEF ApiInv

LEMMA NextApi == ApiInv /\ [ApiNext]_apiVars => ApiInv'
  <1> SUFFICES ASSUME ApiInv, [ApiNext]_apiVars
               PROVE  ApiInv'
    OBVIOUS
  <1>0. HandshakeInv' /\ TypeOK /\ BoardOk /\ ApiTypes /\ AnswersOnRecord
    BY ApiHandshake DEF ApiInv, HandshakeInv, BoardOk
  <1>1. ASSUME NEW replace \in BOOLEAN, NEW expired \in SUBSET tracked,
               NEW selected \in {Q \in SUBSET Proposals : Disjoint(Q)},
               RunMatching(replace, expired, selected)
        PROVE  BoardOk' /\ AnswersOnRecord'
    <2>1. AnswersOnRecord'
      BY <1>0, <1>1 DEF RunMatching, AnswersOnRecord
    <2> QED BY <1>0, <1>1, <2>1, RunKeepsBoard
  <1>2. ASSUME NEW s \in Partners, NEW p \in Proposals, Ingest(s, p)
        PROVE  BoardOk' /\ AnswersOnRecord'
    <2>1. AnswersOnRecord'
      BY <1>0, <1>2 DEF Ingest, AnswersOnRecord
    <2> QED BY <1>0, <1>2, <2>1, IngestKeepsBoard
  <1>3. ASSUME NEW s \in ScopeKeys, NEW p \in Proposals, NEW b \in Proposals, Handle(s, p, b)
        PROVE  BoardOk' /\ AnswersOnRecord'
    BY <1>0, <1>3, HandleKeepsBoard, HandleKeepsAnswers
  <1>4. ASSUME NEW s \in ScopeKeys, NEW p \in Proposals, NEW b \in Proposals, Replay(s, p, b)
        PROVE  BoardOk' /\ AnswersOnRecord'
    <2>1. idempotency[s] \in Reply
      BY <1>0, <1>4 DEF Replay, ApiTypes
    <2>2. PICK r \in Result : idempotency[s] = [body |-> b, result |-> r]
      BY <1>4, <2>1 DEF Replay, Reply
    <2>3. Tell(s, b, r) /\ UNCHANGED <<phase, boardVars, idempotency>>
      BY <1>4, <2>2 DEF Replay, vars
    <2> QED BY <1>0, <2>2, <2>3, TellKeepsBoard, TellKeepsAnswers
  <1>5. ASSUME NEW s \in ScopeKeys, NEW p \in Proposals, NEW b \in Proposals, NotFound(s, p, b)
        PROVE  BoardOk' /\ AnswersOnRecord'
    <2>1. Tell(s, b, Error("NOT_FOUND")) /\ UNCHANGED <<phase, boardVars, idempotency>>
      BY <1>5 DEF NotFound, vars
    <2> QED BY <1>0, <2>1, ResultFacts, TellKeepsBoard, TellKeepsAnswers
  <1>6. ASSUME UNCHANGED apiVars
        PROVE  BoardOk' /\ AnswersOnRecord'
    <2>1. UNCHANGED <<phase, proposals, tracked, scope, idempotency, answers>>
      BY <1>6 DEF apiVars, vars, boardVars
    <2>2. ApiTypes'
      BY <1>0, <2>1 DEF ApiTypes
    <2>3. CommitKeepsProposal' /\ BoardConsistent'
      BY <1>0, <2>1 DEF BoardOk, CommitKeepsProposal, BoardConsistent
    <2>4. AnswersOnRecord'
      BY <1>0, <2>1 DEF AnswersOnRecord
    <2> QED BY <2>2, <2>3, <2>4 DEF BoardOk
  <1>7. BoardOk' /\ AnswersOnRecord'
    <2>1. CASE \E s \in ScopeKeys, p, b \in Proposals :
                 Handle(s, p, b) \/ Replay(s, p, b) \/ NotFound(s, p, b)
      BY <1>3, <1>4, <1>5, <2>1
    <2>2. CASE \E replace \in BOOLEAN, expired \in SUBSET tracked,
                  selected \in {Q \in SUBSET Proposals : Disjoint(Q)} :
                 RunMatching(replace, expired, selected)
      BY <1>1, <2>2
    <2>3. CASE \E s \in Partners, p \in Proposals : Ingest(s, p)
      BY <1>2, <2>3
    <2> QED BY <1>6, <2>1, <2>2, <2>3 DEF ApiNext
  <1> QED BY <1>0, <1>7 DEF ApiInv, BoardOk

\* The strengthened invariant of the API.
THEOREM ApiInvariant == ApiSpec => []ApiInv
  BY InitApi, NextApi, PTL DEF ApiSpec

\* Behind the API the handshake takes only its own steps: retries, unknown
\* proposals, refusals, matching runs and polls change none of its state.
THEOREM ApiImplementsHandshake == ApiSpec => Spec
  <1>1. ApiInit => Init
    BY DEF ApiInit
  <1>2. ApiInv /\ [ApiNext]_apiVars => [Next]_vars
    BY HandlePerforms DEF ApiInv, HandshakeInv
  <1> QED BY <1>1, <1>2, ApiInvariant, PTL DEF ApiSpec, Spec

\* A proposal with a commit stays on the board and in a partner's scope,
\* whatever matching runs and polls come after.
THEOREM CommittedStaysListed == ApiSpec => []CommitKeepsProposal
  <1>1. ApiInv => CommitKeepsProposal
    BY DEF ApiInv
  <1> QED BY <1>1, ApiInvariant, PTL

\* What is stored, what the last runs made and who owns it never disagree.
THEOREM BoardStaysConsistent == ApiSpec => []BoardConsistent
  <1>1. ApiInv => BoardConsistent
    BY DEF ApiInv
  <1> QED BY <1>1, ApiInvariant, PTL

\* Under one key a caller never hears two different answers to one request,
\* except that the proposal is not there.
THEOREM AnswersNeverDisagree == ApiSpec => []AnswersAgree
  <1>1. ApiInv => AnswersAgree
    BY DEF ApiInv, AnswersOnRecord, AnswersAgree
  <1> QED BY <1>1, ApiInvariant, PTL
=============================================================================
