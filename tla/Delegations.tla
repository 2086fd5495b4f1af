----------------------------- MODULE Delegations -----------------------------
(***************************************************************************)
(* Delegations of users to agents (service/delegationsService.mjs) and the *)
(* authorization of an agent that presents one (core/authz.mjs).           *)
(*                                                                         *)
(* Abstractions: a delegation id stands for one grant, the one its user    *)
(* offers and its agent presents; tokens, their signatures and the scopes  *)
(* are left out.  A grant need not be in the store to be presented.        *)
(***************************************************************************)
EXTENDS Naturals, FiniteSets

CONSTANTS
  Users,          \* users
  Agents,         \* agents
  DelegationIds,  \* ids of delegations
  SubjectOf,      \* SubjectOf[d]: the user that grants d
  AgentOf,        \* AgentOf[d]: the agent it is granted to
  LastDay,        \* LastDay[d]: the last day on which d is valid
  MaxDay          \* bound on the clock

ASSUME DelegationsAssumption ==
  /\ SubjectOf \in [DelegationIds -> Users]
  /\ AgentOf \in [DelegationIds -> Agents]
  /\ LastDay \in [DelegationIds -> Nat]
  /\ MaxDay \in Nat \ {0}
  /\ Users \cap Agents = {}

VARIABLES
  today,       \* the day the clock shows (UTC)
  delegation   \* delegation[d]: not in the store, active or revoked there

delegationVars == <<today, delegation>>

DelegationsInit ==
  /\ today = 1
  /\ delegation = [d \in DelegationIds |-> "none"]

\* Mutant: creating a delegation anew replaces what is stored.
Granted_Anew(d) == "active"

\* What is stored for d once its user has created it: a grant that is there
\* already is returned as it is, revoked or not.
Granted(d) == IF delegation[d] = "none" THEN "active" ELSE delegation[d]

\* Users create their own delegations; creating again the same way changes nothing.
CreateDelegation(u, d) ==
  /\ SubjectOf[d] = u
  /\ delegation' = [delegation EXCEPT ![d] = Granted(d)]
  /\ UNCHANGED today

\* Only its user revokes a delegation, and only one that is stored.
RevokeDelegation(u, d) ==
  /\ SubjectOf[d] = u
  /\ delegation[d] # "none"
  /\ delegation' = [delegation EXCEPT ![d] = "revoked"]
  /\ UNCHANGED today

\* An agent acts under a grant of its own that the store does not hold revoked
\* and, if the time is given with the call (auth.now_iso, AUTHZ_NOW_ISO), that
\* has not expired.
Authorized(a, d, timed) ==
  /\ AgentOf[d] = a
  /\ delegation[d] # "revoked"
  /\ timed => today <= LastDay[d]

DayPasses == today < MaxDay /\ today' = today + 1 /\ UNCHANGED delegation
=============================================================================
