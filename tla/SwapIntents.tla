----------------------------- MODULE SwapIntents -----------------------------
(***************************************************************************)
(* Swap intents written by users and by their agents under delegations     *)
(* (service/swapIntentsService.mjs): create, update and cancel, each under *)
(* an idempotency key, with the trading policy, the consents that are used *)
(* up and the spend counted per user and day.  Authorization is enforced.  *)
(*                                                                         *)
(* Abstractions: a request's body is an intent; the status a body may      *)
(* carry, the audit log (which decides nothing) and the reads are left     *)
(* out.  A request that is refused before its key is looked at changes     *)
(* nothing and is no step.                                                 *)
(***************************************************************************)
EXTENDS Integers, Delegations, TradingPolicy

CONSTANTS
  IntentIds,   \* ids of intents
  Bodies,      \* the bodies callers send
  Consents,    \* the consents users have signed
  Nonces,      \* their nonces
  ScopeKeys,   \* [actor, op, key]: the idempotency keys callers use
  NoIntent,    \* no such intent
  NoTerms      \* no such write, or one by a user

ASSUME SwapIntentsAssumption ==
  /\ NoConsent \notin Consents
  /\ \A c \in Consents : c.nonce \in Nonces
  /\ \A b \in Bodies : b.id \in IntentIds /\ b.owner \in Users /\ b.max \in Nat
  /\ \A d \in DelegationIds : MaxPerDay[d] \in Nat \cup {NoCap} /\ Threshold[d] \in Nat

VARIABLES
  intent,      \* intent[i]: the stored intent
  spend,       \* spend[u][day]: policy_spend_daily
  usedNonces,  \* nonces in policy_consent_replay
  usedKeys,    \* the idempotency keys that have a record
  net,         \* net[u][day]: what agents have put up under caps, less what they took back (history)
  terms,       \* terms[i]: delegation and consent of the last write of i, if an agent's (history)
  uses,        \* uses[n]: writes done with the consent of nonce n (history)
  acted        \* delegations agents changed something under, since a revocation (history)

history == <<net, terms, uses, acted>>
intentVars == <<intent, spend, usedNonces, usedKeys, history>>
vars == <<delegationVars, intentVars>>

Init ==
  /\ DelegationsInit
  /\ intent = [i \in IntentIds |-> NoIntent]
  /\ spend = [u \in Users |-> [n \in 1..MaxDay |-> 0]]
  /\ usedNonces = {}
  /\ usedKeys = {}
  /\ net = spend
  /\ terms = [i \in IntentIds |-> NoTerms]
  /\ uses = [n \in Nonces |-> 0]
  /\ acted = {}

\* The delegation of a write, with the consent it needed if it needed one.
Terms(d, b, c) == [delegation |-> d, consent |-> IF NeedsConsent(d, b) THEN c ELSE NoConsent]

NonNegative(n) == IF n < 0 THEN 0 ELSE n

\* The stored intent changes to x by an agent under d: if d has a cap per day,
\* the spend of its subject moves by the difference, not below zero.
Charge(d, i, x) ==
  LET u     == SubjectOf[d]
      delta == ActiveMax(x, NoIntent) - ActiveMax(intent[i], NoIntent)
  IN  /\ intent' = [intent EXCEPT ![i] = x]
      /\ spend' = IF Capped(d) THEN [spend EXCEPT ![u][today] = NonNegative(@ + delta)] ELSE spend
      /\ net' = IF Capped(d) THEN [net EXCEPT ![u][today] = @ + delta] ELSE net
      /\ acted' = acted \cup {d}

\* The key is recorded, whatever came of its request.
Remember(k) == usedKeys' = usedKeys \cup {k}

\* The status an intent has after a write: a create activates it, an update
\* keeps what it had.
NextStatus(op, i) ==
  IF op = "update" /\ intent[i] # NoIntent THEN intent[i].status ELSE "active"

\* The request has a new key.  (A repeated key changes nothing: it is answered
\* from its record, or refused when the request differs.)
New(k, ops) == k.op \in ops /\ k \notin usedKeys

UserWrite(k, b) ==
  /\ k.actor \in Users
  /\ New(k, {"create", "update"})
  /\ intent' = [intent EXCEPT ![b.id] = Stored(b, NextStatus(k.op, b.id))]
  /\ terms' = [terms EXCEPT ![b.id] = NoTerms]
  /\ Remember(k)
  /\ UNCHANGED <<spend, usedNonces, net, uses, acted, delegationVars>>

\* Mutant: the nonce is not recorded.
UseUp_Never(d, b, c) == UNCHANGED usedNonces

\* The nonce of the consent a write needs is used up.
UseUp(d, b, c) ==
  usedNonces' = IF NeedsConsent(d, b) THEN usedNonces \cup {c.nonce} ELSE usedNonces

\* Who an agent may write for: its subject, and on update also only over an
\* intent of the subject.  Refused before the key is looked at.
MayWrite(k, d, b, timed) ==
  /\ Authorized(k.actor, d, timed)
  /\ b.owner = SubjectOf[d]
  /\ k.op = "update" /\ intent[b.id] # NoIntent => intent[b.id].owner = SubjectOf[d]

\* The policy, then consent, then the cap of the day.  A consent that is
\* accepted is used up even if the cap refuses the write.
AgentWrite(k, d, b, c, timed) ==
  LET next   == Stored(b, NextStatus(k.op, b.id))
      before == ActiveMax(intent[b.id], NoIntent)
      after  == ActiveMax(next, NoIntent)
      spent  == spend[SubjectOf[d]][today]
      agreed == NeedsConsent(d, b) => ConsentValid(d, b, c, today, usedNonces)
  IN  /\ New(k, {"create", "update"})
      /\ MayWrite(k, d, b, timed)
      /\ IF ~(IntentAllowed(d, b) /\ agreed)
         THEN UNCHANGED <<intent, spend, usedNonces, history>>
         ELSE /\ UseUp(d, b, c)
              /\ IF WithinCap(d, spent, before, after)
                 THEN /\ Charge(d, b.id, next)
                      /\ terms' = [terms EXCEPT ![b.id] = Terms(d, b, c)]
                      /\ uses' = IF NeedsConsent(d, b) THEN [uses EXCEPT ![c.nonce] = @ + 1] ELSE uses
                 ELSE UNCHANGED <<intent, spend, history>>
      /\ Remember(k)
      /\ UNCHANGED delegationVars

MayCancel(d, i) == intent[i] # NoIntent /\ intent[i].owner = SubjectOf[d]

\* A cancel: of an intent that exists, and for an agent one of its subject;
\* today's spend is lowered, whatever day the intent is from.
Cancelled(i) == [intent[i] EXCEPT !.status = "cancelled"]

UserCancel(k, i) ==
  /\ k.actor \in Users
  /\ New(k, {"cancel"})
  /\ intent' = IF intent[i] = NoIntent THEN intent ELSE [intent EXCEPT ![i] = Cancelled(i)]
  /\ Remember(k)
  /\ UNCHANGED <<spend, usedNonces, history, delegationVars>>

AgentCancel(k, d, i, timed) ==
  /\ Authorized(k.actor, d, timed)
  /\ New(k, {"cancel"})
  /\ IF MayCancel(d, i) THEN Charge(d, i, Cancelled(i)) ELSE UNCHANGED <<intent, spend, net, acted>>
  /\ Remember(k)
  /\ UNCHANGED <<usedNonces, terms, uses, delegationVars>>

Revoke(u, d) ==
  /\ RevokeDelegation(u, d)
  /\ acted' = acted \ {d}
  /\ UNCHANGED <<intent, spend, usedNonces, usedKeys, net, terms, uses>>

Next ==
  \/ \E k \in ScopeKeys :
        \/ \E b \in Bodies : UserWrite(k, b)
        \/ \E i \in IntentIds : UserCancel(k, i)
        \/ \E d \in DelegationIds, timed \in BOOLEAN :
              \/ \E b \in Bodies, c \in Consents \cup {NoConsent} : AgentWrite(k, d, b, c, timed)
              \/ \E i \in IntentIds : AgentCancel(k, d, i, timed)
  \/ \E u \in Users, d \in DelegationIds : CreateDelegation(u, d) /\ UNCHANGED intentVars
  \/ \E u \in Users, d \in DelegationIds : Revoke(u, d)
  \/ DayPasses /\ UNCHANGED intentVars

Spec == Init /\ [][Next]_vars
-----------------------------------------------------------------------------
\* The intents a write stores, and what is remembered of an agent's.
StoredIntent == {Stored(b, s) : b \in Bodies, s \in {"active", "cancelled"}}
AgentTerms   == {Terms(d, b, c) : d \in DelegationIds, b \in Bodies, c \in Consents \cup {NoConsent}}

\* Shape of the state; the counted spend is never negative.
TypeOK ==
  /\ today \in 1..MaxDay
  /\ delegation \in [DelegationIds -> {"none", "active", "revoked"}]
  /\ intent \in [IntentIds -> StoredIntent \cup {NoIntent}]
  /\ spend \in [Users -> [1..MaxDay -> Nat]]
  /\ usedNonces \subseteq Nonces
  /\ usedKeys \subseteq ScopeKeys
  /\ net \in [Users -> [1..MaxDay -> Int]]
  /\ terms \in [IntentIds -> AgentTerms \cup {NoTerms}]
  /\ uses \in [Nonces -> Nat]
  /\ acted \subseteq DelegationIds

\* What agents have put up for a user on a day under delegations with a daily
\* cap, less what they took back under them on it, stays within the largest of
\* these caps: over any order of writes, retries, reactivations and cancels by
\* users and agents, across delegations, capped or not, and days
\* (evaluateDailySpendCapForIntent, setDailySpend).
DailyCapHolds ==
  \A u \in Users : \A n \in 1..MaxDay :
    \/ net[u][n] <= 0
    \/ \E d \in DelegationIds : SubjectOf[d] = u /\ Capped(d) /\ net[u][n] <= MaxPerDay[d]

\* The value an agent gave an intent is above the threshold of its delegation
\* only by a consent of the subject for that intent and value
\* (evaluateHighValueConsentForIntent).
HighValueConsented ==
  \A i \in IntentIds :
    LET t == terms[i]
    IN  t # NoTerms /\ intent[i].max > Threshold[t.delegation] =>
          /\ t.consent # NoConsent
          /\ t.consent.delegation = t.delegation
          /\ t.consent.id = i /\ t.consent.max = intent[i].max

\* A signed consent is good for one write, under whatever keys, operations and
\* in whatever state of the intent it is presented again (policy_consent_replay).
ConsentUsedOnce == \A n \in Nonces : uses[n] <= 1

\* Once revoked, a delegation stays so, though its user may create it again,
\* and nothing is changed under it any more (delegationsService, authz.mjs).
RevokedForGood ==
  [][\A d \in DelegationIds :
       delegation[d] = "revoked" => delegation'[d] = "revoked" /\ d \notin acted']_vars
=============================================================================
