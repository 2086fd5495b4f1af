------------------------------ MODULE CommitApi -------------------------------
(***************************************************************************)
(* The HTTP surface of the handshake: proposals come and go with matching  *)
(* runs and partner polls, and accept and decline are answered once per    *)
(* idempotency key (cycleProposalsCommitService.mjs,                       *)
(* CommitService._withIdempotency, marketplaceMatchingService.mjs and its  *)
(* proposal helpers, proposalIngestService.mjs).                           *)
(*                                                                         *)
(* Abstractions: which cycles a matching run selects is any disjoint set   *)
(* (module Matching says they are); which tracked proposals it finds       *)
(* expired is any set, since recorded_at comes with the request; a request *)
(* body is the proposal id it names, the rest of it never changes          *)
(* what a handler does.  The server runs no sweep of the accept window, so *)
(* the clock of the handshake stands still here.                           *)
(***************************************************************************)
EXTENDS CommitHandshake

CONSTANTS
  ScopeKeys,    \* idempotency scopes in use: actor, operation and the key sent
  Partners,     \* partners that poll proposals
  Marketplace,  \* partner id of proposals made by a matching run
  NoPartner,    \* value of an absent scope
  NoRecord      \* value of an unused idempotency key

Result == [code : {"OK", "NOT_FOUND", "CONSTRAINT_VIOLATION", "FORBIDDEN",
                   "RESERVATION_CONFLICT", "CONFLICT"},
           phase : Phases]

\* What is on record under an idempotency key, and what a caller is told.
Reply == [body : Proposals, result : Result]

ASSUME CommitApiAssumption ==
  /\ \A s \in ScopeKeys : s.actor \in Actors /\ s.op \in {"accept", "decline"}
  /\ NoPartner \notin Partners \cup {Marketplace}
  /\ NoRecord \notin Reply

VARIABLES
  proposals,    \* ids in store.state.proposals
  tracked,      \* ids in marketplace_matching_proposal_runs
  scope,        \* scope[p]: the partner in tenancy.proposals[p]
  idempotency,  \* idempotency[s]: body and result on record for the scope key s
  answers       \* answers[s]: what callers have been told under s (history)

boardVars == <<proposals, tracked, scope>>
apiVars   == <<vars, boardVars, idempotency, answers>>

Ok(ph)      == [code |-> "OK", phase |-> ph]
Error(code) == [code |-> code, phase |-> "none"]

-----------------------------------------------------------------------------
(* Proposals.                                                              *)

Disjoint(Q) == \A p, q \in Q : p # q => IntentsOf[p] \cap IntentsOf[q] = {}

\* Mutant: only reservations are looked at.
InUse_Reserved(p) == \E i \in Intents : reservations[i] = p
InUse(p) == phase[p] # "none" \/ \E i \in Intents : reservations[i] = p

\* Mutant: what is dropped stays in the partner's scope.
RunMatching_KeepsScope(replace, expired, selected) ==
  LET dropped == {p \in tracked : (replace \/ p \in expired) /\ ~InUse(p)}
  IN  /\ proposals' = (proposals \ dropped) \cup selected
      /\ tracked' = (tracked \ dropped) \cup selected
      /\ scope' = [p \in Proposals |->
                     IF p \in selected /\ scope[p] = NoPartner THEN Marketplace ELSE scope[p]]
      /\ UNCHANGED <<vars, idempotency, answers>>

\* A run drops what has expired, and everything it made before if asked to
\* replace, except proposals in use; then it stores its selection, which is
\* empty when the matcher throws: what was dropped before is gone all the same.
RunMatching(replace, expired, selected) ==
  LET dropped == {p \in tracked : (replace \/ p \in expired) /\ ~InUse(p)}
  IN  /\ proposals' = (proposals \ dropped) \cup selected
      /\ tracked' = (tracked \ dropped) \cup selected
      /\ scope' = [p \in Proposals |->
                     LET kept == IF p \in dropped THEN NoPartner ELSE scope[p]
                     IN  IF p \in selected /\ kept = NoPartner THEN Marketplace ELSE kept]
      /\ UNCHANGED <<vars, idempotency, answers>>

\* Polling stores the proposal and takes it over for the partner that polls.
Ingest(s, p) ==
  /\ proposals' = proposals \cup {p}
  /\ scope' = [scope EXCEPT ![p] = s]
  /\ UNCHANGED <<vars, tracked, idempotency, answers>>

-----------------------------------------------------------------------------
(* Requests: caller a, path p, body naming proposal b, key k.              *)

Perform(op, a, p) == IF op = "accept" THEN Accept(a, p) ELSE Decline(a, p)

\* The first check of the handler that fails, in the order of the code.
Refusal(op, a, p, b) ==
  CASE b # p -> "CONSTRAINT_VIOLATION"
    [] b = p /\ ~IsParticipant(a, p) /\ (op = "accept" \/ phase[p] # "none") -> "FORBIDDEN"
    [] b = p /\ op = "accept" /\ IsParticipant(a, p) /\ phase[p] = "none" /\ Conflicts(p) # {}
         -> "RESERVATION_CONFLICT"
    [] b = p /\ op = "accept" /\ IsParticipant(a, p) /\ phase[p] = "cancelled" -> "CONFLICT"
    [] OTHER -> "none"

\* Mutant: only successes are remembered.
Remember_Successes(s, b, result) ==
  idempotency' = IF result.code = "OK"
                 THEN [idempotency EXCEPT ![s] = [body |-> b, result |-> result]]
                 ELSE idempotency

Remember(s, b, result) ==
  idempotency' = [idempotency EXCEPT ![s] = [body |-> b, result |-> result]]

Tell(s, b, result) ==
  answers' = [answers EXCEPT ![s] = @ \cup {[body |-> b, result |-> result]}]

\* The key is new: the handler runs and its result, good or bad, is recorded.
Handle(s, p, b) ==
  /\ p \in proposals
  /\ idempotency[s] = NoRecord
  /\ \/ /\ Refusal(s.op, s.actor, p, b) = "none"
        /\ Perform(s.op, s.actor, p)
        /\ Remember(s, b, Ok(phase'[p]))
        /\ Tell(s, b, Ok(phase'[p]))
     \/ /\ Refusal(s.op, s.actor, p, b) # "none"
        /\ UNCHANGED vars
        /\ Remember(s, b, Error(Refusal(s.op, s.actor, p, b)))
        /\ Tell(s, b, Error(Refusal(s.op, s.actor, p, b)))
  /\ UNCHANGED boardVars

\* The key is known with this body: the recorded result is given again, on
\* whatever path.  With another body the request is refused and forgotten.
Replay(s, p, b) ==
  /\ p \in proposals
  /\ idempotency[s] # NoRecord
  /\ idempotency[s].body = b
  /\ Tell(s, b, idempotency[s].result)
  /\ UNCHANGED <<vars, boardVars, idempotency>>

\* The proposal is looked up before the key is.
NotFound(s, p, b) ==
  /\ p \notin proposals
  /\ Tell(s, b, Error("NOT_FOUND"))
  /\ UNCHANGED <<vars, boardVars, idempotency>>

-----------------------------------------------------------------------------
ApiInit ==
  /\ Init
  /\ proposals = {}
  /\ tracked = {}
  /\ scope = [p \in Proposals |-> NoPartner]
  /\ idempotency = [s \in ScopeKeys |-> NoRecord]
  /\ answers = [s \in ScopeKeys |-> {}]

ApiNext ==
  \/ \E replace \in BOOLEAN, expired \in SUBSET tracked,
        selected \in {Q \in SUBSET Proposals : Disjoint(Q)} :
       RunMatching(replace, expired, selected)
  \/ \E s \in Partners, p \in Proposals : Ingest(s, p)
  \/ \E s \in ScopeKeys, p, b \in Proposals :
       Handle(s, p, b) \/ Replay(s, p, b) \/ NotFound(s, p, b)

ApiSpec == ApiInit /\ [][ApiNext]_apiVars

-----------------------------------------------------------------------------
\* A proposal somebody has answered is never dropped, whatever matching runs
\* come after: its commit can always be answered, settled and looked up, and
\* settlement finds the partner it belongs to.
CommitKeepsProposal ==
  \A p \in Proposals : phase[p] # "none" => p \in proposals /\ scope[p] # NoPartner

\* The board and its index agree: what a run made is stored until it is
\* dropped, and every stored proposal belongs to somebody.
BoardConsistent ==
  tracked \subseteq proposals /\ \A p \in Proposals : p \in proposals <=> scope[p] # NoPartner

\* A caller that repeats a request under its key hears the same answer, or
\* that the proposal does not exist; in particular an error is repeated even
\* when the same request would by now succeed.
AnswersAgree ==
  \A s \in ScopeKeys : \A x, y \in answers[s] :
    x.body = y.body =>
      x = y \/ x.result.code = "NOT_FOUND" \/ y.result.code = "NOT_FOUND"

-----------------------------------------------------------------------------
(* The strengthening that makes the invariants inductive.                  *)

\* Shape of the board, of the idempotency table and of the answers.
ApiTypes ==
  /\ proposals \subseteq Proposals
  /\ tracked \subseteq Proposals
  /\ scope \in [Proposals -> Partners \cup {Marketplace, NoPartner}]
  /\ idempotency \in [ScopeKeys -> Reply \cup {NoRecord}]
  /\ answers \in [ScopeKeys -> SUBSET Reply]

\* Whatever a handler has answered under a key is what the key has on record.
AnswersOnRecord ==
  \A s \in ScopeKeys : \A x \in answers[s] :
    x.result.code # "NOT_FOUND" => idempotency[s] = x

ApiInv ==
  HandshakeInv /\ ApiTypes /\ CommitKeepsProposal /\ BoardConsistent /\ AnswersOnRecord
=============================================================================
