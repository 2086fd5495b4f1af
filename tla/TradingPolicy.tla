---------------------------- MODULE TradingPolicy ----------------------------
(***************************************************************************)
(* What a delegation's trading policy lets its agent write (core/          *)
(* tradingPolicyBoundaries.mjs): the cap per swap, the consent a user must *)
(* sign for a high value, and the cap per day.                             *)
(*                                                                         *)
(* Abstractions: values are small numbers.  Consent proofs are checked as  *)
(* in strict mode (tier, binding, signature and replay); a consent that is *)
(* not signed, or is malformed, is no consent.  The challenge of a proof   *)
(* and the highest value a consent names are left out.  A policy without a *)
(* cap per swap or without a threshold is one with a high one; a cap per   *)
(* day is optional.                                                        *)
(***************************************************************************)
EXTENDS Naturals

CONSTANTS
  MaxPerSwap,   \* MaxPerSwap[d]: the cap of a swap under delegation d
  MaxPerDay,    \* MaxPerDay[d]: the cap of a day, or NoCap
  NoCap,        \* the policy names no cap per day
  Threshold,    \* Threshold[d]: above it a write needs consent
  NoConsent     \* no consent is presented

\* An intent as the caller sends it, and as it is stored.
Body(i, u, m)    == [id |-> i, owner |-> u, max |-> m]
Stored(b, s)     == [owner |-> b.owner, max |-> b.max, status |-> s]
Consent(n, d, i, m, t, e) ==
  [nonce |-> n, delegation |-> d, id |-> i, max |-> m, tier |-> t, expires |-> e]

\* What an intent counts for: nothing when there is none or it is cancelled.
ActiveMax(x, none) == IF x = none \/ x.status = "cancelled" THEN 0 ELSE x.max

IntentAllowed(d, b) == b.max <= MaxPerSwap[d]

NeedsConsent(d, b) == b.max > Threshold[d]

\* Tiers: 1 is step_up, 2 is passkey, asked for above one and a half thresholds.
RequiredTier(d, b) == IF 2 * b.max > 3 * Threshold[d] THEN 2 ELSE 1

\* Mutant: the proof is not bound to the intent and its value.
ConsentValid_Unbound(d, b, c, now, used) ==
  /\ c # NoConsent
  /\ c.tier >= RequiredTier(d, b)
  /\ now <= c.expires
  /\ c.nonce \notin used

\* The consent has the tier, is bound to the delegation, the intent and its
\* value, has not expired, and its nonce has not been used before.
ConsentValid(d, b, c, now, used) ==
  /\ c # NoConsent
  /\ c.tier >= RequiredTier(d, b)
  /\ c.delegation = d /\ c.id = b.id /\ c.max = b.max
  /\ now <= c.expires
  /\ c.nonce \notin used

\* Without a cap nothing is enforced and nothing is counted.
Capped(d) == MaxPerDay[d] # NoCap

\* Mutant: the value as a whole is compared, not what it adds to the day.
WithinCap_PerWrite(d, spent, before, after) == Capped(d) => after <= MaxPerDay[d]

\* What the day's spend would become stays within the cap.
WithinCap(d, spent, before, after) == Capped(d) => spent + after <= MaxPerDay[d] + before
=============================================================================
